-------------------------- MODULE ConversationsProofs --------------------------
(***************************************************************************)
(* Proofs about conversations, for any number of runs, in either store:    *)
(* what is sent to the model, what a conversation holds from whichever run *)
(* it is opened, what the sidebar lists, and that recorded history stays.  *)
(*                                                                         *)
(* A conversation is a walk, and a walk is a recursive function.  The      *)
(* first part says without recursion what a walk is (IsWalk) and shows     *)
(* that Walk computes it; where induction is needed, a least               *)
(* counterexample is taken.                                                *)
(***************************************************************************)
EXTENDS ConversationsProperties, FiniteSetTheorems, SequenceTheorems, WellFoundedInduction,
        TLAPS

\* Of a non-empty set of naturals one is the least.
LEMMA LeastOf ==
  ASSUME NEW S \in SUBSET Nat, S # {}
  PROVE  \E m \in S : \A s \in S : m <= s
<1>1. PICK m \in S : \A s \in S : ~ (<<s, m>> \in OpToRel(<, Nat))
  BY NatLessThanWellFounded, WFMin
<1>2. \A s \in S : ~ (s < m)
  BY <1>1 DEF OpToRel
<1> QED
  BY <1>2

\* Max is the greatest of a bounded, non-empty set of naturals.
LEMMA MaxIs ==
  ASSUME NEW S \in SUBSET Nat, S # {}, NEW b \in Nat, \A s \in S : s <= b
  PROVE  Max(S) \in S /\ \A s \in S : s <= Max(S)
<1> DEFINE Gaps == {b - s : s \in S}
<1>1. Gaps \in SUBSET Nat /\ Gaps # {}
  <2>1. \A s \in S : b - s \in Nat
    OBVIOUS
  <2> QED
    BY <2>1
<1>2. PICK g \in Gaps : \A h \in Gaps : g <= h
  BY <1>1, LeastOf
<1>3. PICK m \in S : g = b - m
  BY <1>2
<1>4. \A s \in S : b - m <= b - s
  BY <1>2, <1>3
<1>5. m \in S /\ \A s \in S : m >= s
  BY <1>4
<1> QED
  BY <1>5 DEF Max

-----------------------------------------------------------------------------
(***************************************************************************)
(* Walks.                                                                  *)
(***************************************************************************)
Stops(next, s, limit) ==
  next[Last(s)] \notin DOMAIN next \/ next[Last(s)] \in ToSet(s) \/ Len(s) >= limit

\* t goes on from s, each run by way of next, none twice, within the limit, and stops.
IsWalk(next, s, limit, t) ==
  /\ t \in Seq(DOMAIN next) /\ Len(s) <= Len(t)
  /\ \A i \in 1 .. Len(s) : t[i] = s[i]
  /\ \A i \in Len(s) .. Len(t) - 1 :
       t[i + 1] = next[t[i]] /\ i < limit /\ \A j \in 1 .. i : t[j] # t[i + 1]
  /\ Stops(next, t, limit)

LEMMA WalkStopped ==
  ASSUME NEW next, NEW s \in Seq(DOMAIN next), s # <<>>, NEW limit \in Nat, Stops(next, s, limit),
         NEW t
  PROVE  IsWalk(next, s, limit, t) <=> t = s
<1>1. IsWalk(next, s, limit, s)
  BY DEF IsWalk
<1>2. ASSUME IsWalk(next, s, limit, t) PROVE t = s
  <2>1. t \in Seq(DOMAIN next) /\ Len(s) <= Len(t) /\ \A i \in 1 .. Len(s) : t[i] = s[i]
    BY <1>2 DEF IsWalk
  <2>2. CASE Len(t) = Len(s)
    BY <2>1, <2>2, SeqEqual
  <2>3. CASE Len(t) > Len(s)
    <3>1. /\ t[Len(s) + 1] = next[t[Len(s)]] /\ Len(s) < limit
          /\ \A j \in 1 .. Len(s) : t[j] # t[Len(s) + 1]
      BY <1>2, <2>1, <2>3 DEF IsWalk
    <3>2. t[Len(s)] = Last(s) /\ t[Len(s) + 1] \in DOMAIN next
      BY <2>1, <2>3 DEF Last
    <3>3. next[Last(s)] \notin ToSet(s)
      BY <2>1, <3>1, <3>2 DEF ToSet
    <3> QED
      BY <3>1, <3>2, <3>3 DEF Stops
  <2> QED
    BY <2>1, <2>2, <2>3
<1> QED
  BY <1>1, <1>2

LEMMA WalkGoesOn ==
  ASSUME NEW next, NEW s \in Seq(DOMAIN next), s # <<>>, NEW limit \in Nat, ~Stops(next, s, limit),
         NEW t
  PROVE  /\ Append(s, next[Last(s)]) \in Seq(DOMAIN next)
         /\ IsWalk(next, s, limit, t) <=> IsWalk(next, Append(s, next[Last(s)]), limit, t)
<1> DEFINE n == next[Last(s)]
           u == Append(s, n)
<1>1. n \in DOMAIN next /\ (\A j \in 1 .. Len(s) : s[j] # n) /\ Len(s) < limit
  BY DEF Stops, ToSet
<1>2. /\ u \in Seq(DOMAIN next) /\ Len(u) = Len(s) + 1 /\ u[Len(s) + 1] = n
      /\ \A i \in 1 .. Len(s) : u[i] = s[i]
  BY <1>1, AppendProperties
<1>3. Len(s) \in Nat \ {0} /\ n = next[s[Len(s)]]
  BY EmptySeq DEF Last
<1> HIDE DEF n, u
<1>4. ASSUME IsWalk(next, u, limit, t) PROVE IsWalk(next, s, limit, t)
  <2>1. t \in Seq(DOMAIN next) /\ Len(s) + 1 <= Len(t) /\ t[Len(s) + 1] = n /\ Stops(next, t, limit)
    BY <1>2, <1>3, <1>4 DEF IsWalk
  <2>2. \A i \in 1 .. Len(s) : t[i] = s[i]
    BY <1>2, <1>3, <1>4 DEF IsWalk
  <2>3. ASSUME NEW i \in Len(s) .. Len(t) - 1
        PROVE  t[i + 1] = next[t[i]] /\ i < limit /\ \A j \in 1 .. i : t[j] # t[i + 1]
    <3>1. CASE i = Len(s)
      BY <1>1, <1>3, <2>1, <2>2, <3>1
    <3>2. CASE i # Len(s)
      BY <1>2, <1>3, <1>4, <3>2 DEF IsWalk
    <3> QED
      BY <3>1, <3>2
  <2> QED
    BY <1>3, <2>1, <2>2, <2>3 DEF IsWalk
<1>5. ASSUME IsWalk(next, s, limit, t) PROVE IsWalk(next, u, limit, t)
  <2>1. /\ t \in Seq(DOMAIN next) /\ Len(s) <= Len(t) /\ Stops(next, t, limit)
        /\ \A i \in 1 .. Len(s) : t[i] = s[i]
    BY <1>5 DEF IsWalk
  <2>2. Len(t) # Len(s)
    <3>1. ASSUME Len(t) = Len(s) PROVE t = s
      BY <2>1, <3>1, SeqEqual
    <3> QED
      BY <2>1, <3>1
  <2>3. t[Len(s) + 1] = next[t[Len(s)]]
    BY <1>3, <1>5, <2>1, <2>2 DEF IsWalk
  <2>4. t[Len(s) + 1] = n
    BY <1>3, <2>1, <2>3
  <2>5. \A i \in 1 .. Len(u) : t[i] = u[i]
    BY <1>2, <1>3, <2>1, <2>4
  <2> QED
    BY <1>2, <1>3, <1>5, <2>1, <2>2, <2>5 DEF IsWalk
<1> QED
  BY <1>2, <1>4, <1>5 DEF u, n

\* Walk computes the walk: the walk satisfies the equation Walk is defined by, hence so does
\* what Walk chooses, and that is a walk from every chain, the longest ones first.
LEMMA WalkIsWalk ==
  ASSUME NEW next, NEW s \in Seq(DOMAIN next), s # <<>>, NEW limit \in Nat
  PROVE  IsWalk(next, s, limit, Walk(next, s, limit))
<1> DEFINE D == DOMAIN next
           Goes(q) == next[Last(q)]
           Stop(q) == Goes(q) \notin DOMAIN next \/ Goes(q) \in ToSet(q) \/ Len(q) >= limit
           End(q) == CHOOSE t : IsWalk(next, q, limit, t)
           w == [q \in Seq(D) |->
                   IF q # <<>> THEN End(q) ELSE IF Stop(q) THEN q ELSE End(Append(q, Goes(q)))]
           Solves(f) == f = [q \in Seq(D) |-> IF Stop(q) THEN q ELSE f[Append(q, Goes(q))]]
           walk == CHOOSE f : Solves(f)
<1>1. Solves(w)
  <2>1. ASSUME NEW q \in Seq(D) PROVE w[q] = IF Stop(q) THEN q ELSE w[Append(q, Goes(q))]
    <3>1. CASE q # <<>> /\ Stop(q)
      <4>1. \A t : IsWalk(next, q, limit, t) <=> t = q
        BY <3>1, WalkStopped DEF Stops
      <4> QED
        BY <3>1, <4>1
    <3>2. CASE q # <<>> /\ ~Stop(q)
      <4>1. /\ Append(q, Goes(q)) \in Seq(D)
            /\ \A t : IsWalk(next, q, limit, t) <=> IsWalk(next, Append(q, Goes(q)), limit, t)
        BY <3>2, WalkGoesOn DEF Stops
      <4>2. End(q) = End(Append(q, Goes(q)))
        BY <4>1
      <4>3. Append(q, Goes(q)) # <<>>
        BY <3>2, AppendProperties
      <4> QED
        BY <3>2, <4>1, <4>2, <4>3
    <3>3. CASE q = <<>>
      <4>1. CASE Stop(q)
        BY <3>3, <4>1
      <4>2. CASE ~Stop(q)
        <5>1. Goes(q) \in D
          BY <4>2
        <5>2. Append(q, Goes(q)) \in Seq(D) /\ Append(q, Goes(q)) # <<>>
          BY <5>1, AppendProperties
        <5> QED
          BY <3>3, <4>2, <5>2
      <4> QED
        BY <4>1, <4>2
    <3> QED
      BY <3>1, <3>2, <3>3
  <2>2. w = [q \in Seq(D) |-> w[q]]
    OBVIOUS
  <2> HIDE DEF w
  <2> QED
    BY <2>1, <2>2
<1>2. Solves(walk)
  <2> HIDE DEF Solves, w
  <2> QED
    BY <1>1
<1>3. \A q \in Seq(D) : walk[q] = IF Stop(q) THEN q ELSE walk[Append(q, Goes(q))]
  <2> HIDE DEF walk
  <2> QED
    BY <1>2
<1>4. Walk(next, s, limit) = walk[s]
  BY DEF Walk
<1> HIDE DEF walk, w, Solves
<1> DEFINE Left(q) == IF Len(q) >= limit THEN 0 ELSE limit - Len(q)
           Bad == {q \in Seq(D) : q # <<>> /\ ~IsWalk(next, q, limit, walk[q])}
           Lefts == {Left(q) : q \in Bad}
<1>5. Bad = {}
  <2> SUFFICES ASSUME Bad # {} PROVE FALSE
    OBVIOUS
  <2>1. Lefts \in SUBSET Nat /\ Lefts # {}
    OBVIOUS
  <2>2. PICK m \in Lefts : \A l \in Lefts : m <= l
    BY <2>1, LeastOf
  <2>3. PICK q \in Bad : m = Left(q)
    BY <2>2
  <2>4. CASE Stop(q)
    <3>1. walk[q] = q
      BY <1>3, <2>3, <2>4
    <3> QED
      BY <2>3, <2>4, <3>1, WalkStopped DEF Stops
  <2>5. CASE ~Stop(q)
    <3> DEFINE r == Append(q, Goes(q))
    <3>1. /\ r \in Seq(D)
          /\ \A t : IsWalk(next, q, limit, t) <=> IsWalk(next, r, limit, t)
      BY <2>3, <2>5, WalkGoesOn DEF Stops
    <3>2. r # <<>> /\ Len(r) = Len(q) + 1 /\ Len(q) < limit /\ Len(q) \in Nat
      BY <2>3, <2>5, AppendProperties
    <3>3. walk[q] = walk[r]
      BY <1>3, <2>3, <2>5
    <3>4. r \in Bad
      BY <2>3, <3>1, <3>2, <3>3
    <3>5. Left(r) < Left(q)
      BY <3>2
    <3>6. Left(r) \in Lefts /\ Left(q) \in Nat /\ Left(r) \in Nat
      BY <2>1, <2>3, <3>4
    <3> HIDE DEF Left, Lefts
    <3> QED
      BY <2>2, <2>3, <3>5, <3>6
  <2> QED
    BY <2>4, <2>5
<1> QED
  BY <1>4, <1>5

\* Two walks from one chain agree as far as both go, where the ways on agree.
LEMMA WalksAgree ==
  ASSUME NEW next, NEW more, \A x \in DOMAIN next \cap DOMAIN more : next[x] = more[x],
         NEW s, Len(s) \in Nat \ {0}, NEW l, NEW k,
         NEW t, IsWalk(next, s, l, t), NEW u, IsWalk(more, s, k, u)
  PROVE  \A i \in 1 .. Len(t) : i <= Len(u) => t[i] = u[i]
<1> DEFINE Bad == {i \in 1 .. Len(t) : i <= Len(u) /\ t[i] # u[i]}
<1> SUFFICES ASSUME Bad # {} PROVE FALSE
  OBVIOUS
<1>1. /\ t \in Seq(DOMAIN next) /\ u \in Seq(DOMAIN more)
      /\ \A i \in 1 .. Len(s) : t[i] = s[i] /\ u[i] = s[i]
      /\ Len(t) \in Nat /\ Len(u) \in Nat
  BY DEF IsWalk
<1>2. Bad \in SUBSET Nat
  BY <1>1
<1>3. PICK m \in Bad : \A i \in Bad : m <= i
  BY <1>2, LeastOf
<1>4. m > Len(s) /\ m \in Nat /\ m <= Len(t) /\ m <= Len(u)
  BY <1>1, <1>2, <1>3
<1>5. t[m - 1] = u[m - 1]
  <2>1. m - 1 \notin Bad
    <3> HIDE DEF Bad
    <3> QED
      BY <1>3, <1>4
  <2> QED
    BY <1>1, <1>4, <2>1
<1>6. t[m] = next[t[m - 1]] /\ u[m] = more[u[m - 1]]
  <2>1. m - 1 \in Len(s) .. Len(t) - 1 /\ m - 1 \in Len(s) .. Len(u) - 1 /\ (m - 1) + 1 = m
    BY <1>1, <1>4
  <2> QED
    BY <2>1 DEF IsWalk
<1>7. t[m - 1] \in DOMAIN next /\ u[m - 1] \in DOMAIN more
  BY <1>1, <1>4
<1>8. next[t[m - 1]] = more[t[m - 1]]
  BY <1>5, <1>7
<1> QED
  BY <1>3, <1>5, <1>6, <1>8

\* A chain is followed in one way.
LEMMA WalkUnique ==
  ASSUME NEW next, NEW s, Len(s) \in Nat \ {0}, NEW limit \in Nat,
         NEW t, IsWalk(next, s, limit, t), NEW u, IsWalk(next, s, limit, u)
  PROVE  t = u
<1>1. ASSUME NEW p, NEW q, IsWalk(next, s, limit, p), IsWalk(next, s, limit, q),
             Len(p) < Len(q)
      PROVE  FALSE
  <2>1. /\ p \in Seq(DOMAIN next) /\ q \in Seq(DOMAIN next) /\ Len(s) <= Len(p)
        /\ Len(p) \in Nat /\ Len(q) \in Nat /\ Stops(next, p, limit)
    BY <1>1 DEF IsWalk
  <2>2. \A i \in 1 .. Len(p) : p[i] = q[i]
    BY <1>1, <2>1, WalksAgree
  <2>3. /\ q[Len(p) + 1] = next[q[Len(p)]] /\ Len(p) < limit
        /\ \A j \in 1 .. Len(p) : q[j] # q[Len(p) + 1]
    BY <1>1, <2>1 DEF IsWalk
  <2>4. q[Len(p) + 1] \in DOMAIN next
    BY <1>1, <2>1
  <2>5. Last(p) = q[Len(p)]
    BY <2>1, <2>2 DEF Last
  <2> QED
    BY <2>1, <2>2, <2>3, <2>4, <2>5 DEF Stops, ToSet
<1>2. t \in Seq(DOMAIN next) /\ u \in Seq(DOMAIN next) /\ Len(t) \in Nat /\ Len(u) \in Nat
  BY DEF IsWalk
<1>3. Len(t) = Len(u)
  BY <1>1, <1>2
<1>4. \A i \in 1 .. Len(t) : t[i] = u[i]
  BY <1>2, <1>3, WalksAgree
<1> QED
  BY <1>2, <1>3, <1>4, SeqEqual

\* Numbers that go down one by one have gone down by as many at least.
LEMMA Descends ==
  ASSUME NEW t \in Seq(Nat), \A i \in 1 .. Len(t) - 1 : t[i + 1] < t[i]
  PROVE  \A i, j \in 1 .. Len(t) : i < j => t[j] + (j - i) <= t[i]
<1> DEFINE Bad == {j \in 1 .. Len(t) : \E i \in 1 .. Len(t) : i < j /\ ~(t[j] + (j - i) <= t[i])}
<1> SUFFICES ASSUME Bad # {} PROVE FALSE
  OBVIOUS
<1>1. Bad \in SUBSET Nat
  OBVIOUS
<1>2. PICK m \in Bad : \A j \in Bad : m <= j
  BY <1>1, LeastOf
<1>3. PICK i \in 1 .. Len(t) : i < m /\ ~(t[m] + (m - i) <= t[i])
  BY <1>2
<1>4. Len(t) \in Nat /\ m \in 1 .. Len(t)
  BY <1>2
<1>5. m - 1 \in 1 .. Len(t) - 1 /\ m - 1 \in 1 .. Len(t) /\ (m - 1) + 1 = m /\ m \in Int /\ i \in Int
  BY <1>3, <1>4
<1>6. t[m] < t[m - 1] /\ t[m] \in Nat /\ t[m - 1] \in Nat /\ t[i] \in Nat
  <2>1. t[(m - 1) + 1] < t[m - 1]
    BY <1>5
  <2> QED
    BY <1>3, <1>4, <1>5, <2>1, ElementOfSeq
<1>7. m - 1 \notin Bad
  <2> HIDE DEF Bad
  <2> QED
    BY <1>2, <1>5
<1>8. i < m - 1 => t[m - 1] + ((m - 1) - i) <= t[i]
  BY <1>3, <1>5, <1>7
<1> HIDE DEF Bad
<1>9. CASE i = m - 1
  BY <1>3, <1>5, <1>6, <1>9
<1>10. CASE i < m - 1
  <2>1. \A x, y, z \in Nat : x < y /\ y + ((m - 1) - i) <= z => x + (m - i) <= z
    BY <1>5
  <2> QED
    BY <1>3, <1>6, <1>8, <1>10, <2>1
<1> QED
  BY <1>3, <1>5, <1>9, <1>10

-----------------------------------------------------------------------------
(***************************************************************************)
(* Going back.  Every run began after the one it came from, so a walk back *)
(* descends and ends by itself.                                            *)
(***************************************************************************)
Descending(next) ==
  DOMAIN next \in SUBSET (Nat \ {0}) /\ \A r \in DOMAIN next : next[r] \in Nat /\ next[r] < r

\* t is the walk back from r: what it is made of, that it descends, and why it ends.
BackFrom(next, r, limit, t) ==
  /\ IsWalk(next, <<r>>, limit, t)
  /\ t \in Seq(DOMAIN next) /\ Len(t) \in 1 .. limit /\ Len(t) <= r /\ t[1] = r
  /\ \A i \in 1 .. Len(t) : t[i] \in DOMAIN next
  /\ \A i \in 1 .. Len(t) - 1 : t[i + 1] = next[t[i]]
  /\ \A i, j \in 1 .. Len(t) : i < j => t[j] + (j - i) <= t[i]
  /\ next[t[Len(t)]] \notin DOMAIN next \/ Len(t) = limit

LEMMA BackIs ==
  ASSUME NEW next, Descending(next), NEW r \in DOMAIN next, NEW limit \in Nat \ {0}
  PROVE  BackFrom(next, r, limit, Walk(next, <<r>>, limit))
<1> DEFINE D == DOMAIN next
           s == <<r>>
           t == Walk(next, s, limit)
<1>1. s \in Seq(D) /\ s # <<>> /\ Len(s) = 1 /\ s[1] = r
  OBVIOUS
<1> HIDE DEF s
<1>2. IsWalk(next, s, limit, t)
  BY <1>1, WalkIsWalk
<1> HIDE DEF t
<1>3. /\ t \in Seq(D) /\ Len(s) <= Len(t) /\ \A i \in 1 .. Len(s) : t[i] = s[i]
      /\ \A i \in Len(s) .. Len(t) - 1 : t[i + 1] = next[t[i]] /\ i < limit
      /\ Stops(next, t, limit)
  BY <1>2 DEF IsWalk
<1>4. t \in Seq(D) /\ Len(t) \in Nat \ {0} /\ t[1] = r
  BY <1>1, <1>3
<1>5. \A i \in 1 .. Len(t) - 1 : t[i + 1] = next[t[i]] /\ i < limit
  BY <1>1, <1>3
<1>6. (\A i \in 1 .. Len(t) : t[i] \in D) /\ Last(t) = t[Len(t)]
  BY <1>4 DEF Last
<1>7. \A x \in D : x \in Nat \ {0} /\ next[x] \in Nat /\ next[x] < x
  BY DEF Descending
<1>8. t \in Seq(Nat)
  BY <1>4, <1>7
<1>9. \A i \in 1 .. Len(t) - 1 : t[i + 1] < t[i]
  <2> SUFFICES ASSUME NEW i \in 1 .. Len(t) - 1 PROVE t[i + 1] < t[i]
    OBVIOUS
  <2>1. i \in 1 .. Len(t)
    BY <1>4
  <2>2. t[i + 1] = next[t[i]] /\ t[i] \in D
    BY <1>5, <1>6, <2>1
  <2> QED
    BY <1>7, <2>2
<1>10. \A i, j \in 1 .. Len(t) : i < j => t[j] + (j - i) <= t[i]
  BY <1>8, <1>9, Descends
<1>11. Len(t) <= limit
  <2>1. CASE Len(t) = 1
    BY <2>1
  <2>2. CASE Len(t) # 1
    <3>1. \A n \in Nat \ {0} : n # 1 => n - 1 \in 1 .. n - 1 /\ (n - 1 < limit => n <= limit)
      OBVIOUS
    <3>2. Len(t) - 1 \in 1 .. Len(t) - 1 /\ (Len(t) - 1 < limit => Len(t) <= limit)
      BY <1>4, <2>2, <3>1
    <3> QED
      BY <1>5, <3>2
  <2> QED
    BY <2>1, <2>2
<1>12. t[Len(t)] \in Nat \ {0} /\ next[t[Len(t)]] \in Nat /\ next[t[Len(t)]] < t[Len(t)]
  <2>1. t[Len(t)] \in D
    BY <1>4, <1>6
  <2> QED
    BY <1>7, <2>1
<1>13. Len(t) <= r
  <2>1. CASE Len(t) = 1
    BY <1>7, <2>1
  <2>2. CASE Len(t) # 1
    <3>1. 1 \in 1 .. Len(t) /\ Len(t) \in 1 .. Len(t) /\ 1 < Len(t)
      <4>1. \A n \in Nat \ {0} : n # 1 => 1 \in 1 .. n /\ n \in 1 .. n /\ 1 < n
        OBVIOUS
      <4> QED
        BY <1>4, <2>2, <4>1
    <3>2. t[Len(t)] + (Len(t) - 1) <= t[1]
      BY <1>10, <3>1
    <3>3. \A last, n \in Nat \ {0}, first \in Nat : last + (n - 1) <= first => n <= first
      OBVIOUS
    <3>4. r \in Nat
      BY <1>7
    <3> QED
      BY <1>4, <1>12, <3>2, <3>3, <3>4
  <2> QED
    BY <2>1, <2>2
<1>14. next[t[Len(t)]] \notin ToSet(t)
  <2> SUFFICES ASSUME NEW i \in 1 .. Len(t), t[i] = next[t[Len(t)]] PROVE FALSE
    BY <1>4 DEF ToSet
  <2>1. t[i] < t[Len(t)] /\ t[i] \in Nat
    BY <1>12
  <2>2. i < Len(t) => t[Len(t)] + (Len(t) - i) <= t[i]
    BY <1>4, <1>10
  <2>3. i \in Nat /\ i <= Len(t)
    BY <1>4
  <2> QED
    BY <1>4, <1>12, <2>1, <2>2, <2>3
<1>15. next[t[Len(t)]] \notin D \/ Len(t) = limit
  BY <1>3, <1>4, <1>6, <1>11, <1>14 DEF Stops
<1>16. Len(t) \in 1 .. limit
  BY <1>4, <1>11
<1> QED
  BY <1>2, <1>4, <1>5, <1>6, <1>10, <1>13, <1>15, <1>16 DEF BackFrom, s, t

\* With a limit no smaller than the run's number a walk back goes to the end.
LEMMA BackEnds ==
  ASSUME NEW next, Descending(next), NEW r \in DOMAIN next, NEW limit \in Nat \ {0}, r <= limit,
         NEW t, BackFrom(next, r, limit, t)
  PROVE  next[t[Len(t)]] \notin DOMAIN next
<1>1. /\ Len(t) \in 1 .. limit /\ Len(t) <= r /\ t[1] = r
      /\ (\A i \in 1 .. Len(t) : t[i] \in DOMAIN next)
      /\ (\A i, j \in 1 .. Len(t) : i < j => t[j] + (j - i) <= t[i])
      /\ next[t[Len(t)]] \notin DOMAIN next \/ Len(t) = limit
  BY DEF BackFrom
<1>2. \A x \in DOMAIN next : x \in Nat \ {0} /\ next[x] \in Nat /\ next[x] < x
  BY DEF Descending
<1>3. CASE Len(t) = limit
  <2>1. r = Len(t) /\ t[Len(t)] \in Nat \ {0} /\ Len(t) \in Nat
    BY <1>1, <1>2, <1>3
  <2>2. t[Len(t)] = 1
    <3>1. CASE Len(t) = 1
      BY <1>1, <2>1, <3>1
    <3>2. CASE Len(t) # 1
      <4>1. t[Len(t)] + (Len(t) - 1) <= t[1]
        BY <1>1, <2>1, <3>2
      <4> QED
        BY <1>1, <2>1, <4>1
    <3> QED
      BY <3>1, <3>2
  <2> QED
    BY <1>1, <1>2, <2>1, <2>2
<1> QED
  BY <1>1, <1>3

\* Where less is known, or the limit is lower, a walk back goes the same way but may end early.
LEMMA BackPrefix ==
  ASSUME NEW next, Descending(next), NEW more, Descending(more),
         DOMAIN next \subseteq DOMAIN more, \A x \in DOMAIN next : next[x] = more[x],
         NEW r \in DOMAIN next, NEW l \in Nat \ {0}, NEW k \in Nat \ {0}, l <= k \/ r <= k,
         NEW t, BackFrom(next, r, l, t), NEW u, BackFrom(more, r, k, u)
  PROVE  Len(t) <= Len(u) /\ \A i \in 1 .. Len(t) : t[i] = u[i]
<1>1. /\ IsWalk(next, <<r>>, l, t) /\ Len(t) \in 1 .. l /\ Len(t) <= r
      /\ (\A i \in 1 .. Len(t) : t[i] \in DOMAIN next)
      /\ (\A i \in 1 .. Len(t) - 1 : t[i + 1] = next[t[i]])
  BY DEF BackFrom
<1>2. /\ IsWalk(more, <<r>>, k, u) /\ Len(u) \in 1 .. k
      /\ more[u[Len(u)]] \notin DOMAIN more \/ Len(u) = k
  BY DEF BackFrom
<1>3. \A i \in 1 .. Len(t) : i <= Len(u) => t[i] = u[i]
  <2>1. \A x \in DOMAIN next \cap DOMAIN more : next[x] = more[x]
    OBVIOUS
  <2> DEFINE s == <<r>>
  <2>2. Len(s) \in Nat \ {0}
    OBVIOUS
  <2>3. IsWalk(next, s, l, t) /\ IsWalk(more, s, k, u)
    BY <1>1, <1>2
  <2> HIDE DEF s
  <2> QED
    BY <2>1, <2>2, <2>3, WalksAgree
<1>4. ASSUME Len(u) < Len(t) PROVE FALSE
  <2>1. /\ Len(u) \in 1 .. Len(t) - 1 /\ Len(u) \in 1 .. Len(t) /\ Len(u) + 1 \in 1 .. Len(t)
        /\ r \in Nat
    BY <1>1, <1>2, <1>4 DEF Descending
  <2>2. t[Len(u) + 1] = next[t[Len(u)]] /\ t[Len(u) + 1] \in DOMAIN next /\ t[Len(u)] = u[Len(u)]
        /\ t[Len(u)] \in DOMAIN next
    BY <1>1, <1>3, <2>1
  <2>3. more[u[Len(u)]] \in DOMAIN more
    BY <2>2
  <2> QED
    BY <1>1, <1>2, <1>4, <2>1, <2>3
<1> QED
  BY <1>1, <1>2, <1>3, <1>4

\* A walk back that its limit does not cut is the whole one.
LEMMA BackWhole ==
  ASSUME NEW next, Descending(next), NEW r \in DOMAIN next, NEW l \in Nat \ {0}, NEW k \in Nat \ {0},
         r <= k, NEW t, BackFrom(next, r, l, t), NEW u, BackFrom(next, r, k, u), Len(t) < l
  PROVE  t = u
<1>1. /\ t \in Seq(DOMAIN next) /\ Len(t) \in Nat \ {0} /\ next[t[Len(t)]] \notin DOMAIN next
  BY DEF BackFrom
<1>2. /\ u \in Seq(DOMAIN next) /\ Len(u) \in Nat
      /\ (\A i \in 1 .. Len(u) : u[i] \in DOMAIN next)
      /\ \A i \in 1 .. Len(u) - 1 : u[i + 1] = next[u[i]]
  BY DEF BackFrom
<1>3. Len(t) <= Len(u) /\ \A i \in 1 .. Len(t) : t[i] = u[i]
  BY BackPrefix
<1>4. Len(u) = Len(t)
  <2> SUFFICES ASSUME Len(t) < Len(u) PROVE FALSE
    BY <1>1, <1>2, <1>3
  <2>1. Len(t) \in 1 .. Len(t) /\ Len(t) \in 1 .. Len(u) - 1 /\ Len(t) + 1 \in 1 .. Len(u)
    BY <1>1, <1>2
  <2>2. u[Len(t) + 1] = next[t[Len(t)]] /\ u[Len(t) + 1] \in DOMAIN next
    BY <1>2, <1>3, <2>1
  <2> QED
    BY <1>1, <2>2
<1> QED
  BY <1>1, <1>2, <1>3, <1>4, SeqEqual

\* From a run met on the way back, the rest of the way is the same.
LEMMA BackSuffix ==
  ASSUME NEW next, Descending(next), NEW r \in DOMAIN next, NEW limit \in Nat \ {0}, r <= limit,
         NEW u, BackFrom(next, r, limit, u), NEW m \in 1 .. Len(u),
         NEW t, BackFrom(next, u[m], limit, t)
  PROVE  Len(t) = Len(u) - m + 1 /\ \A i \in 1 .. Len(t) : t[i] = u[i + m - 1]
<1> DEFINE D == DOMAIN next
           v == [i \in 1 .. Len(u) - m + 1 |-> u[i + m - 1]]
<1>1. /\ IsWalk(next, <<r>>, limit, u) /\ u \in Seq(D) /\ Len(u) \in 1 .. limit
      /\ \A i \in 1 .. Len(u) : u[i] \in D
      /\ \A i \in 1 .. Len(u) - 1 : u[i + 1] = next[u[i]]
      /\ \A i, j \in 1 .. Len(u) : i < j => u[j] + (j - i) <= u[i]
  BY DEF BackFrom
<1>2. next[u[Len(u)]] \notin D
  BY BackEnds
<1>3. Len(u) - m + 1 \in Nat \ {0} /\ m \in Nat \ {0} /\ Len(u) \in Nat
  BY <1>1
<1>4. \A i \in 1 .. Len(u) - m + 1 : i + m - 1 \in 1 .. Len(u)
  BY <1>3
<1>5. /\ v \in Seq(D) /\ Len(v) = Len(u) - m + 1
      /\ \A i \in 1 .. Len(v) : v[i] = u[i + m - 1] /\ v[i] \in D
  BY <1>1, <1>3, <1>4
<1> HIDE DEF v
<1>6. v[1] = u[m] /\ v[Len(v)] = u[Len(u)] /\ Last(v) = v[Len(v)]
  <2>1. 1 + m - 1 = m /\ Len(v) + m - 1 = Len(u) /\ 1 \in 1 .. Len(v) /\ Len(v) \in 1 .. Len(v)
    BY <1>3, <1>5
  <2> QED
    BY <1>5, <2>1 DEF Last
<1>7. ASSUME NEW i \in 1 .. Len(v) - 1
      PROVE  v[i + 1] = next[v[i]] /\ i < limit /\ \A j \in 1 .. i : v[j] # v[i + 1]
  <2>1. /\ i \in 1 .. Len(v) /\ i + 1 \in 1 .. Len(v) /\ i + m - 1 \in 1 .. Len(u) - 1
        /\ (i + m - 1) + 1 = (i + 1) + m - 1 /\ i < limit /\ i \in Nat
    BY <1>1, <1>3, <1>5
  <2>2. v[i] = u[i + m - 1] /\ v[i + 1] = u[(i + 1) + m - 1]
    BY <1>5, <2>1
  <2>3. v[i + 1] = next[v[i]]
    BY <1>1, <2>1, <2>2
  <2>4. ASSUME NEW j \in 1 .. i PROVE v[j] # v[i + 1]
    <3>1. /\ j \in 1 .. Len(v) /\ j + m - 1 \in 1 .. Len(u) /\ (i + 1) + m - 1 \in 1 .. Len(u)
          /\ j + m - 1 < (i + 1) + m - 1 /\ ((i + 1) + m - 1) - (j + m - 1) \in Nat \ {0}
      BY <1>3, <1>5, <2>1
    <3>2. u[(i + 1) + m - 1] + (((i + 1) + m - 1) - (j + m - 1)) <= u[j + m - 1]
      BY <1>1, <3>1
    <3>3. v[j] = u[j + m - 1] /\ v[j] \in Nat /\ v[i + 1] \in Nat
      BY <1>5, <2>1, <3>1 DEF Descending
    <3>4. \A x, y \in Nat, g \in Nat \ {0} : x + g <= y => y # x
      OBVIOUS
    <3> QED
      BY <2>2, <3>1, <3>2, <3>3, <3>4
  <2> QED
    BY <2>1, <2>3, <2>4
<1>8. IsWalk(next, <<u[m]>>, limit, v)
  <2>1. Len(<<u[m]>>) = 1 /\ <<u[m]>>[1] = u[m]
    OBVIOUS
  <2>2. Stops(next, v, limit)
    BY <1>2, <1>6 DEF Stops
  <2> QED
    BY <1>3, <1>5, <1>6, <1>7, <2>1, <2>2 DEF IsWalk
<1>9. IsWalk(next, <<u[m]>>, limit, t)
  BY DEF BackFrom
<1>10. t = v
  <2>1. Len(<<u[m]>>) \in Nat \ {0}
    OBVIOUS
  <2> QED
    BY <1>8, <1>9, <2>1, WalkUnique
<1> QED
  BY <1>5, <1>10

-----------------------------------------------------------------------------
(***************************************************************************)
(* What holds of the runs and of the store in every state.                 *)
(***************************************************************************)

\* p is a run that one of this source, numbered r, may go back to.
Earlier(source, r, p) ==
  /\ p \in Begun /\ p < r
  /\ runs[p].source = source /\ EarlierAnswer(runs[p]) /\ runs[p].stage = "STORED"
  /\ durable => p \in Known

\* A run has one earlier run at most, and what of it was sent is that one.
Placed(run, r) ==
  /\ run.followUp = NoRun \/ run.edited = NoRun
  /\ run.edited # NoRun <=> run.mode = "EDITED_QUERY"
  /\ run.mode = "SAVED_QUERY" => run.followUp = NoRun
  /\ run.sent \in {NoRun, run.followUp}
  /\ \A p \in {run.followUp, run.edited} \ {NoRun} : Earlier(run.source, r, p)

RunsPlaced == \A r \in Begun : Placed(runs[r], r)

\* A run is stored after the one it continues.
StoredInOrder == \A i, j \in DOMAIN log : Continues(runs[log[j]], log[i]) => i < j

IInv == TypeOK /\ RunsPlaced /\ StoredInOrder

\* What the types say of the sequences.
LEMMA Typed ==
  ASSUME TypeOK
  PROVE  /\ Len(runs) \in Nat /\ Begun = 1 .. Len(runs) /\ Begun \in SUBSET Nat
         /\ Len(log) \in Nat /\ DOMAIN log = 1 .. Len(log)
         /\ \A i \in DOMAIN log : log[i] \in Begun
         /\ Known = {log[i] : i \in DOMAIN log} /\ Known \subseteq Begun
         /\ \A i, j \in DOMAIN log : log[i] = log[j] => i = j
         /\ \A r \in Begun : runs[r] \in RunRecords
         /\ NoRun \notin Begun
<1>1. Len(runs) \in Nat /\ Begun = 1 .. Len(runs) /\ \A r \in Begun : runs[r] \in RunRecords
  BY DEF TypeOK, Begun
<1>2. /\ Len(log) \in Nat /\ DOMAIN log = 1 .. Len(log) /\ \A i \in DOMAIN log : log[i] \in Begun
  BY DEF TypeOK
<1>3. \A i, j \in DOMAIN log : log[i] = log[j] => i = j
  BY DEF TypeOK, IsInjective
<1>4. Known = {log[i] : i \in DOMAIN log}
  BY DEF Known, ToSet
<1> QED
  BY <1>1, <1>2, <1>3, <1>4 DEF NoRun

LEMMA InitHolds == Init => IInv
<1> SUFFICES ASSUME Init PROVE IInv
  OBVIOUS
<1>1. runs = <<>> /\ log = <<>> /\ durable \in BOOLEAN
  BY DEF Init
<1>2. Begun = {} /\ Known = {} /\ Len(runs) = 0 /\ Len(log) = 0 /\ DOMAIN log = {}
  BY <1>1 DEF Begun, Known, ToSet
<1>3. TypeOK
  BY <1>1, <1>2, BoundsAssumption, MaxRunsAssumption DEF TypeOK, IsInjective
<1> QED
  BY <1>2, <1>3 DEF IInv, RunsPlaced, StoredInOrder

\* A run that is placed may begin.
LEMMA BeginKeeps ==
  ASSUME IInv, NEW run \in RunRecords, Begin(run), Placed(run, Len(runs) + 1)
  PROVE  IInv'
<1>1. /\ runs' = Append(runs, run) /\ durable' = durable /\ log' = log /\ Len(runs) < MaxRequests
      /\ runs \in Seq(RunRecords)
  BY DEF Begin, IInv, TypeOK
<1>2. /\ runs' \in Seq(RunRecords) /\ Len(runs') = Len(runs) + 1
      /\ runs'[Len(runs) + 1] = run /\ \A r \in 1 .. Len(runs) : runs'[r] = runs[r]
  BY <1>1, AppendProperties
<1>3. /\ Len(runs) \in Nat /\ Begun = 1 .. Len(runs) /\ DOMAIN log = 1 .. Len(log) /\ Len(log) \in Nat
      /\ (\A i \in DOMAIN log : log[i] \in Begun) /\ Known \subseteq Begun
  BY Typed DEF IInv
<1>4. Begun' = 1 .. Len(runs) + 1 /\ Known' = Known
  BY <1>1, <1>2, <1>3 DEF Begun, Known
<1>5. \A r \in Begun : runs'[r] = runs[r]
  BY <1>2, <1>3
<1>6. TypeOK'
  <2>1. log' \in Seq(Begun') /\ IsInjective(log')
    BY <1>1, <1>3, <1>4 DEF IInv, TypeOK, IsInjective
  <2>2. \A r \in Known' : runs'[r].stage = "STORED"
    BY <1>3, <1>4, <1>5 DEF IInv, TypeOK
  <2>3. Len(runs') <= MaxRequests
    BY <1>1, <1>2, <1>3, BoundsAssumption
  <2> QED
    BY <1>1, <1>2, <2>1, <2>2, <2>3 DEF TypeOK, IInv
<1>7. RunsPlaced'
  <2>1. \A source, r, p : Earlier(source, r, p) => Earlier(source, r, p)'
    BY <1>1, <1>3, <1>4, <1>5 DEF Earlier
  <2>2. \A r \in Begun : Placed(runs[r], r)
    BY DEF IInv, RunsPlaced
  <2>3. \A any, r : Placed(any, r) => Placed(any, r)'
    BY <2>1 DEF Placed
  <2>4. ASSUME NEW r \in Begun' PROVE Placed(runs[r], r)'
    <3>1. CASE r \in Begun
      BY <1>5, <2>2, <2>3, <3>1
    <3>2. CASE r = Len(runs) + 1
      BY <1>2, <2>3, <3>2
    <3> QED
      BY <1>3, <1>4, <3>1, <3>2
  <2> QED
    BY <2>4 DEF RunsPlaced
<1>8. StoredInOrder'
  BY <1>1, <1>3, <1>5 DEF IInv, StoredInOrder
<1> QED
  BY <1>6, <1>7, <1>8 DEF IInv

\* A request's run is placed when the run it names is one that may be built on.
LEMMA RequestPlaced ==
  ASSUME IInv, Len(runs) < MaxRequests,
         NEW source \in Source, NEW replay \in BOOLEAN, NEW saved \in BOOLEAN,
         NEW followed \in Known \cup {NoRun}, NEW edited \in Known \cup {NoRun},
         followed = NoRun \/ edited = NoRun, saved => followed = NoRun,
         followed # NoRun => runs[followed].source = source,
         edited # NoRun => runs[edited].source = source /\ Editable(runs[edited])
  PROVE  LET run == Run(source, replay, saved, followed, edited)
         IN  run \in RunRecords /\ Placed(run, Len(runs) + 1)
<1> DEFINE run == Run(source, replay, saved, followed, edited)
<1>1. /\ Len(runs) \in Nat /\ Begun = 1 .. Len(runs) /\ Known \subseteq Begun
      /\ \A r \in Known : runs[r].stage = "STORED"
  BY Typed DEF IInv, TypeOK
<1>2. Begun \cup {NoRun} \subseteq RunIds
  BY <1>1, BoundsAssumption DEF RunIds, NoRun
<1>3. ServiceFor(source, replay, saved) \in Modes \ {"EDITED_QUERY"}
  BY DEF ServiceFor, Modes
<1>4. run \in RunRecords
  BY <1>1, <1>2, <1>3 DEF Run, RunRecords, Modes
<1>5. ASSUME NEW p \in {run.followUp, run.edited} \ {NoRun} PROVE Earlier(source, Len(runs) + 1, p)
  <2>1. p \in Known /\ runs[p].source = source /\ EarlierAnswer(runs[p])
    BY <1>5 DEF Run, Editable, EarlierAnswer
  <2> QED
    BY <1>1, <2>1 DEF Earlier
<1>6. /\ run.followUp = NoRun \/ run.edited = NoRun
      /\ run.edited # NoRun <=> run.mode = "EDITED_QUERY"
      /\ run.mode = "SAVED_QUERY" => run.followUp = NoRun
      /\ run.sent \in {NoRun, run.followUp}
      /\ run.source = source
  BY <1>3 DEF Run, ServiceFor
<1> HIDE DEF run
<1>7. Placed(run, Len(runs) + 1)
  BY <1>5, <1>6 DEF Placed
<1> QED
  BY <1>4, <1>7 DEF run

\* What the store holds once a run is saved: d runs are dropped, none by a durable store.
LEMMA SavedIs ==
  ASSUME NEW stored, NEW s \in Seq(stored), NEW r \in stored, NEW kept \in BOOLEAN
  PROVE  \E d \in {0, 1} :
           /\ Saved(s, r, kept) \in Seq(stored) /\ Len(Saved(s, r, kept)) = Len(s) + 1 - d
           /\ \A i \in 1 .. Len(s) + 1 - d :
                Saved(s, r, kept)[i] = IF i + d = Len(s) + 1 THEN r ELSE s[i + d]
           /\ kept => d = 0
           /\ ~kept /\ Len(s) <= MaxRuns => Len(s) + 1 - d <= MaxRuns
<1> DEFINE all == Append(s, r)
<1>1. /\ all \in Seq(stored) /\ Len(all) = Len(s) + 1 /\ Len(s) \in Nat /\ all # <<>>
      /\ \A i \in 1 .. Len(s) + 1 : all[i] = IF i = Len(s) + 1 THEN r ELSE s[i]
  BY AppendProperties
<1>2. MaxRuns \in Nat
  BY MaxRunsAssumption
<1>3. CASE kept \/ Len(all) <= MaxRuns
  <2>1. Saved(s, r, kept) = all
    BY <1>3 DEF Saved
  <2> HIDE DEF all
  <2> QED
    BY <1>1, <1>2, <1>3, <2>1
<1>4. CASE ~kept /\ ~(Len(all) <= MaxRuns)
  <2>1. Saved(s, r, kept) = Tail(all)
    BY <1>4 DEF Saved
  <2>2. /\ Tail(all) \in Seq(stored) /\ Len(Tail(all)) = Len(s)
        /\ \A i \in 1 .. Len(s) : Tail(all)[i] = all[i + 1]
    BY <1>1, HeadTailProperties
  <2>3. \A i \in 1 .. Len(s) : Tail(all)[i] = IF i + 1 = Len(s) + 1 THEN r ELSE s[i + 1]
    BY <1>1, <2>2
  <2> HIDE DEF all
  <2> QED
    BY <1>1, <1>2, <1>4, <2>1, <2>2, <2>3
<1> QED
  BY <1>3, <1>4

\* What a run's end changes.
LEMMA StoredIs ==
  ASSUME IInv, NEW r \in Begun, Running(r), NEW proposed \in BOOLEAN, Stored(r, proposed)
  PROVE  /\ Begun' = Begun /\ Len(runs') = Len(runs) /\ runs' \in Seq(RunRecords)
         /\ \A q \in Begun \ {r} : runs'[q] = runs[q]
         /\ \A q \in Begun : /\ runs'[q].mode = runs[q].mode /\ runs'[q].source = runs[q].source
                             /\ runs'[q].followUp = runs[q].followUp
                             /\ runs'[q].edited = runs[q].edited /\ runs'[q].sent = runs[q].sent
         /\ runs'[r].stage = "STORED"
         /\ r \notin Known
         /\ \A q \in Begun : ~Continues(runs[q], r)
<1>1. runs \in Seq(RunRecords) /\ runs[r] \in RunRecords /\ r \notin Known /\ r # NoRun
  BY Typed DEF IInv, TypeOK, Running
<1>2. runs' = [runs EXCEPT ![r] =
                 [runs[r] EXCEPT !.stage = "STORED", !.proposed = proposed]]
  BY DEF Stored
<1> DEFINE new == [runs[r] EXCEPT !.stage = "STORED", !.proposed = proposed]
<1>3. /\ new \in RunRecords /\ new.stage = "STORED" /\ new.mode = runs[r].mode
      /\ new.source = runs[r].source /\ new.followUp = runs[r].followUp
      /\ new.edited = runs[r].edited /\ new.sent = runs[r].sent
  BY <1>1 DEF RunRecords
<1> HIDE DEF new
<1>4. runs' = [runs EXCEPT ![r] = new]
  BY <1>2 DEF new
<1>5. /\ runs' \in Seq(RunRecords) /\ Len(runs') = Len(runs) /\ DOMAIN runs' = DOMAIN runs
      /\ runs'[r] = new /\ \A q \in Begun \ {r} : runs'[q] = runs[q]
  BY <1>1, <1>3, <1>4, ExceptSeq DEF Begun
<1>6. ASSUME NEW q \in Begun PROVE ~Continues(runs[q], r)
  BY <1>1 DEF IInv, RunsPlaced, Placed, Earlier, Continues, Running
<1> QED
  BY <1>1, <1>3, <1>5, <1>6 DEF Begun

LEMMA StoredKeeps ==
  ASSUME IInv, NEW r \in Begun, Running(r), NEW proposed \in BOOLEAN, Stored(r, proposed)
  PROVE  IInv'
<1>1. /\ Begun' = Begun /\ Len(runs') = Len(runs) /\ runs' \in Seq(RunRecords)
      /\ \A q \in Begun \ {r} : runs'[q] = runs[q]
      /\ \A q \in Begun : /\ runs'[q].mode = runs[q].mode /\ runs'[q].source = runs[q].source
                          /\ runs'[q].followUp = runs[q].followUp
                          /\ runs'[q].edited = runs[q].edited /\ runs'[q].sent = runs[q].sent
      /\ runs'[r].stage = "STORED" /\ r \notin Known
      /\ \A q \in Begun : ~Continues(runs[q], r)
  BY StoredIs
<1>2. log' = Saved(log, r, durable) /\ durable' = durable
  BY DEF Stored
<1>3. /\ Len(log) \in Nat /\ log \in Seq(Begun) /\ DOMAIN log = 1 .. Len(log) /\ durable \in BOOLEAN
      /\ (\A i \in DOMAIN log : log[i] \in Known /\ log[i] \in Begun)
      /\ \A i, j \in DOMAIN log : log[i] = log[j] => i = j
  BY Typed DEF IInv, TypeOK
<1>4. PICK d \in {0, 1} :
        /\ log' \in Seq(Begun) /\ Len(log') = Len(log) + 1 - d
        /\ \A i \in 1 .. Len(log) + 1 - d :
             log'[i] = IF i + d = Len(log) + 1 THEN r ELSE log[i + d]
        /\ durable => d = 0
        /\ ~durable /\ Len(log) <= MaxRuns => Len(log) + 1 - d <= MaxRuns
  <2> DEFINE new == Saved(log, r, durable)
  <2>1. \E d \in {0, 1} :
          /\ new \in Seq(Begun) /\ Len(new) = Len(log) + 1 - d
          /\ \A i \in 1 .. Len(log) + 1 - d :
               new[i] = IF i + d = Len(log) + 1 THEN r ELSE log[i + d]
          /\ durable => d = 0
          /\ ~durable /\ Len(log) <= MaxRuns => Len(log) + 1 - d <= MaxRuns
    <3>1. log \in Seq(Begun) /\ durable \in BOOLEAN
      BY <1>3
    <3> QED
      BY <3>1, SavedIs, SMTT(30)
  <2>2. log' = new
    BY <1>2
  <2> HIDE DEF new
  <2> QED
    BY <2>1, <2>2
<1>5. DOMAIN log' = 1 .. Len(log) + 1 - d /\ Known' = {log'[i] : i \in DOMAIN log'}
  BY <1>4 DEF Known, ToSet
<1>6. \A i \in DOMAIN log' : \/ i + d = Len(log) + 1 /\ log'[i] = r
                             \/ i + d \in DOMAIN log /\ log'[i] = log[i + d]
  <2>1. CASE d = 0
    BY <1>3, <1>4, <1>5, <2>1
  <2>2. CASE d = 1
    BY <1>3, <1>4, <1>5, <2>2
  <2> QED
    BY <2>1, <2>2
<1>7. durable => Known' = Known \cup {r}
  <2> SUFFICES ASSUME durable PROVE Known' = Known \cup {r}
    OBVIOUS
  <2>1. d = 0
    BY <1>4
  <2>2. \A i \in DOMAIN log : i \in DOMAIN log' /\ log'[i] = log[i]
    BY <1>3, <1>4, <1>5, <2>1
  <2>3. Len(log) + 1 \in DOMAIN log' /\ log'[Len(log) + 1] = r
    BY <1>3, <1>4, <1>5, <2>1
  <2>4. Known = {log[i] : i \in DOMAIN log}
    BY Typed DEF IInv
  <2> QED
    BY <1>3, <1>5, <1>6, <2>2, <2>3, <2>4
<1>8. TypeOK'
  <2>1. \A q \in Known' : runs'[q].stage = "STORED"
    BY <1>1, <1>3, <1>5, <1>6 DEF IInv, TypeOK
  <2>2. IsInjective(log')
    <3>1. ASSUME NEW i \in DOMAIN log', NEW j \in DOMAIN log', log'[i] = log'[j] PROVE i = j
      <4>1. i \in Int /\ j \in Int /\ d \in Int
        BY <1>3, <1>4, <1>5
      <4>2. i + d = j + d
        BY <1>1, <1>3, <1>6, <3>1
      <4>3. \A x, y, z \in Int : x + z = y + z => x = y
        OBVIOUS
      <4> QED
        BY <4>1, <4>2, <4>3
    <3> QED
      BY <3>1 DEF IsInjective
  <2>3. Len(runs') <= MaxRequests
    BY <1>1 DEF IInv, TypeOK
  <2>4. ~durable' => Len(log') <= MaxRuns
    BY <1>2, <1>4 DEF IInv, TypeOK
  <2> QED
    BY <1>1, <1>2, <1>3, <1>4, <2>1, <2>2, <2>3, <2>4 DEF TypeOK
<1>9. RunsPlaced'
  <2>1. \A source, q, p : Earlier(source, q, p) => Earlier(source, q, p)'
    BY <1>1, <1>2, <1>7 DEF Earlier, Running, EarlierAnswer
  <2>2. ASSUME NEW q \in Begun PROVE Placed(runs[q], q)'
    BY <1>1, <2>1, <2>2 DEF IInv, RunsPlaced, Placed
  <2> QED
    BY <1>1, <2>2 DEF RunsPlaced
<1>10. StoredInOrder'
  <2>1. ASSUME NEW i \in DOMAIN log', NEW j \in DOMAIN log', Continues(runs'[log'[j]], log'[i])
        PROVE  i < j
    <3>1. log'[i] \in Begun /\ log'[j] \in Begun /\ i \in Int /\ j \in Int /\ d \in Int
      BY <1>1, <1>3, <1>4, <1>5, <1>6
    <3>2. Continues(runs[log'[j]], log'[i])
      BY <1>1, <2>1, <3>1 DEF Continues
    <3>3. log'[i] # r
      BY <1>1, <3>1, <3>2
    <3>4. i + d \in DOMAIN log /\ log'[i] = log[i + d]
      BY <1>6, <3>3
    <3>5. CASE j + d = Len(log) + 1
      BY <1>3, <3>1, <3>4, <3>5
    <3>6. CASE j + d \in DOMAIN log /\ log'[j] = log[j + d]
      <4>1. i + d < j + d
        BY <3>2, <3>4, <3>6 DEF IInv, StoredInOrder
      <4> QED
        BY <3>1, <4>1
    <3> QED
      BY <1>6, <3>5, <3>6
  <2> QED
    BY <2>1 DEF StoredInOrder
<1> QED
  BY <1>8, <1>9, <1>10 DEF IInv

\* Runs change so that nothing a later run or the store goes by does: those stored stay as
\* they are, and those that go stay nobody's.
LEMMA GoneKeeps ==
  ASSUME IInv, NEW gone \in SUBSET Begun, \A r \in gone : Running(r),
         runs' = [r \in Begun |-> IF r \in gone THEN Lost ELSE runs[r]],
         durable' = durable, log' = log \/ (log' = <<>> /\ ~durable)
  PROVE  IInv'
<1>1. /\ runs \in Seq(RunRecords) /\ Begun = 1 .. Len(runs) /\ Len(runs) \in Nat
      /\ (\A r \in Begun : runs[r] \in RunRecords) /\ Known \subseteq Begun
      /\ (\A i \in DOMAIN log : log[i] \in Begun /\ log[i] \in Known)
      /\ \A r \in Known : runs[r].stage = "STORED" /\ r \notin gone
  BY Typed DEF IInv, TypeOK, Running
<1>2. \A r \in Begun : Lost \in RunRecords /\ Placed(Lost, r)'
  BY <1>1, SourceAssumption, BoundsAssumption
     DEF Lost, RunRecords, Modes, RunIds, NoRun, Placed, Earlier
<1>3. /\ runs' \in Seq(RunRecords) /\ Begun' = Begun /\ Len(runs') = Len(runs)
      /\ \A r \in Begun : runs'[r] = IF r \in gone THEN Lost ELSE runs[r]
  BY <1>1, <1>2 DEF Begun
<1>4. Known' \subseteq Known /\ (durable => Known' = Known)
  BY <1>1 DEF Known, ToSet
<1>5. TypeOK'
  <2>1. log' \in Seq(Begun') /\ IsInjective(log')
    <3>1. CASE log' = log
      BY <1>3, <3>1 DEF IInv, TypeOK
    <3>2. CASE log' = <<>>
      BY <3>2 DEF IsInjective
    <3> QED
      BY <3>1, <3>2
  <2>2. ~durable' => Len(log') <= MaxRuns
    BY MaxRunsAssumption DEF IInv, TypeOK
  <2> QED
    BY <1>1, <1>3, <1>4, <2>1, <2>2 DEF TypeOK, IInv
<1>6. RunsPlaced'
  <2>1. \A source, q, p : Earlier(source, q, p) => Earlier(source, q, p)'
    BY <1>1, <1>3, <1>4 DEF Earlier, Running
  <2>2. \A any, q : Placed(any, q) => Placed(any, q)'
    BY <2>1 DEF Placed
  <2>3. ASSUME NEW q \in Begun PROVE Placed(runs[q], q)'
    <3>1. runs[q] \in RunRecords /\ runs'[q] = IF q \in gone THEN Lost ELSE runs[q]
      BY <1>1, <1>3
    <3>2. CASE q \in gone
      <4>1. /\ runs'[q].mode = "LIVE_MODEL" /\ runs'[q].followUp = NoRun
            /\ runs'[q].edited = NoRun /\ runs'[q].sent = NoRun
        BY <3>1, <3>2 DEF Lost
      <4> QED
        BY <4>1 DEF Placed
    <3>3. CASE q \notin gone
      <4>1. runs'[q] = runs[q] /\ Placed(runs[q], q)
        BY <3>1, <3>3 DEF IInv, RunsPlaced
      <4> QED
        BY <2>1, <4>1 DEF Placed
    <3> QED
      BY <3>2, <3>3
  <2> QED
    BY <1>3, <2>3 DEF RunsPlaced
<1>7. StoredInOrder'
  <2>1. CASE log' = log
    BY <1>1, <1>3, <2>1 DEF IInv, StoredInOrder
  <2>2. CASE log' = <<>>
    BY <2>2 DEF StoredInOrder
  <2> QED
    BY <2>1, <2>2
<1> QED
  BY <1>5, <1>6, <1>7 DEF IInv

LEMMA LeavingKeeps ==
  ASSUME IInv, NEW r \in Begun, ClientLeaves(r)
  PROVE  IInv'
<1> DEFINE new == [runs[r] EXCEPT !.stage = "UNHEARD"]
<1>1. /\ runs \in Seq(RunRecords) /\ runs[r] \in RunRecords /\ r \notin Known
      /\ runs[r].stage = "RUNNING" /\ Known \subseteq Begun /\ \A i \in DOMAIN log : log[i] \in Begun
  BY Typed DEF IInv, TypeOK, Running, ClientLeaves
<1>2. runs' = [runs EXCEPT ![r] = new] /\ log' = log /\ durable' = durable
  BY DEF ClientLeaves, Unheard
<1>3. /\ new \in RunRecords /\ new.mode = runs[r].mode /\ new.source = runs[r].source
      /\ new.followUp = runs[r].followUp /\ new.edited = runs[r].edited
      /\ new.sent = runs[r].sent /\ new.proposed = runs[r].proposed
  BY <1>1 DEF RunRecords
<1> HIDE DEF new
<1>4. /\ runs' \in Seq(RunRecords) /\ Len(runs') = Len(runs) /\ Begun' = Begun
      /\ runs'[r] = new /\ \A q \in Begun \ {r} : runs'[q] = runs[q]
  BY <1>1, <1>2, <1>3, ExceptSeq DEF Begun
<1>5. \A q \in Begun : /\ runs'[q].mode = runs[q].mode /\ runs'[q].source = runs[q].source
                       /\ runs'[q].followUp = runs[q].followUp
                       /\ runs'[q].edited = runs[q].edited /\ runs'[q].sent = runs[q].sent
                       /\ runs'[q].proposed = runs[q].proposed
                       /\ runs[q].stage = "STORED" => runs'[q].stage = "STORED"
  BY <1>1, <1>3, <1>4
<1>6. Known' = Known
  BY <1>2 DEF Known
<1>7. TypeOK'
  BY <1>1, <1>2, <1>4, <1>5, <1>6 DEF IInv, TypeOK
<1>8. RunsPlaced'
  <2>1. \A source, q, p : Earlier(source, q, p) => Earlier(source, q, p)'
    BY <1>2, <1>4, <1>5, <1>6 DEF Earlier, EarlierAnswer
  <2>2. ASSUME NEW q \in Begun PROVE Placed(runs[q], q)'
    BY <1>5, <2>1, <2>2 DEF IInv, RunsPlaced, Placed
  <2> QED
    BY <1>4, <2>2 DEF RunsPlaced
<1>9. StoredInOrder'
  BY <1>1, <1>2, <1>5 DEF IInv, StoredInOrder, Continues
<1> QED
  BY <1>7, <1>8, <1>9 DEF IInv

LEMMA NextKeeps == IInv /\ [Next]_vars => IInv'
<1> SUFFICES ASSUME IInv, [Next]_vars PROVE IInv'
  OBVIOUS
<1>1. /\ \A r \in Begun : runs[r] \in RunRecords
      /\ NoRun \notin Begun /\ Known \subseteq Begun
  BY Typed DEF IInv
<1>2. ASSUME NEW source \in Source, NEW replay \in BOOLEAN,
             NEW followed \in Begun \cup {NoRun}, Ask(source, replay, followed)
      PROVE  IInv'
  <2>1. followed \in Known \cup {NoRun} /\ (followed # NoRun => runs[followed].source = source)
    BY <1>2 DEF Ask, MayFollow
  <2>2. Begin(Run(source, replay, FALSE, followed, NoRun)) /\ Len(runs) < MaxRequests
    BY <1>2 DEF Ask, Begin
  <2>3. LET run == Run(source, replay, FALSE, followed, NoRun)
        IN  run \in RunRecords /\ Placed(run, Len(runs) + 1)
    BY <2>1, <2>2, RequestPlaced
  <2> QED
    BY <2>2, <2>3, BeginKeeps
<1>3. ASSUME NEW source \in ReportSource, RunCard(source) PROVE IInv'
  <2>1. Begin(Run(source, FALSE, TRUE, NoRun, NoRun)) /\ Len(runs) < MaxRequests
    BY <1>3 DEF RunCard, Begin
  <2>2. LET run == Run(source, FALSE, TRUE, NoRun, NoRun)
        IN  run \in RunRecords /\ Placed(run, Len(runs) + 1)
    BY <2>1, SourceAssumption, RequestPlaced
  <2> QED
    BY <2>1, <2>2, BeginKeeps
<1>4. ASSUME NEW r \in Begun, Edit(r) PROVE IInv'
  <2>1. /\ Begin(Run(runs[r].source, FALSE, TRUE, NoRun, r)) /\ Len(runs) < MaxRequests
        /\ r \in Known /\ Editable(runs[r]) /\ runs[r].source \in Source
    BY <1>1, <1>4 DEF Edit, Begin, RunRecords
  <2>2. LET run == Run(runs[r].source, FALSE, TRUE, NoRun, r)
        IN  run \in RunRecords /\ Placed(run, Len(runs) + 1)
    BY <2>1, RequestPlaced
  <2> QED
    BY <2>1, <2>2, BeginKeeps
<1>5. ASSUME NEW r \in Begun, FollowCard(r) PROVE IInv'
  <2>1. /\ Begin(Run(runs[r].source, FALSE, FALSE, r, NoRun)) /\ Len(runs) < MaxRequests
        /\ r \in Known /\ runs[r].source \in Source
    BY <1>1, <1>5 DEF FollowCard, Begin, RunRecords
  <2>2. LET run == Run(runs[r].source, FALSE, FALSE, r, NoRun)
        IN  run \in RunRecords /\ Placed(run, Len(runs) + 1)
    BY <2>1, RequestPlaced
  <2> QED
    BY <2>1, <2>2, BeginKeeps
<1>6. ASSUME NEW r \in Begun, Finish(r) PROVE IInv'
  BY <1>6, StoredKeeps DEF Finish
<1>7. ASSUME NEW r \in Begun, Fail(r) PROVE IInv'
  <2>1. /\ {r} \in SUBSET Begun /\ \A q \in {r} : Running(q)
        /\ runs' = [q \in Begun |-> IF q \in {r} THEN Lost ELSE runs[q]]
        /\ durable' = durable /\ log' = log
    BY <1>7 DEF Fail, IInv, TypeOK, Begun
  <2> QED
    BY <2>1, GoneKeeps
<1>8. ASSUME Restart PROVE IInv'
  <2> DEFINE gone == {q \in Begun : Running(q)}
  <2>1. /\ gone \in SUBSET Begun /\ \A q \in gone : Running(q)
        /\ runs' = [q \in Begun |-> IF q \in gone THEN Lost ELSE runs[q]]
        /\ durable' = durable /\ (log' = log \/ (log' = <<>> /\ ~durable))
    BY <1>8 DEF Restart
  <2> HIDE DEF gone
  <2> QED
    BY <2>1, GoneKeeps
<1>9. ASSUME UNCHANGED vars PROVE IInv'
  BY <1>9 DEF vars, IInv, TypeOK, RunsPlaced, StoredInOrder, Placed, Earlier, Begun, Known
<1> QED
  BY <1>2, <1>3, <1>4, <1>5, <1>6, <1>7, <1>8, <1>9, LeavingKeeps DEF Next, Work

THEOREM Invariant == Spec => []IInv
<1> QED
  BY InitHolds, NextKeeps, PTL DEF Spec

\* Records and store keep their types; only runs that ended are stored, each once, and the
\* store in memory never holds more than it may, for any bounds and any sources (save).
THEOREM TypeCorrect == Spec => []TypeOK
<1> QED
  BY Invariant, PTL DEF IInv

-----------------------------------------------------------------------------
(***************************************************************************)
(* What is sent to the model.                                              *)
(***************************************************************************)
Edits == [c \in Begun |-> runs[c].edited]

LEMMA EditsDescend ==
  ASSUME IInv
  PROVE  /\ Descending(Edits) /\ DOMAIN Edits = Begun
         /\ \A c \in Begun : Edits[c] = runs[c].edited
         /\ \A c \in Begun : Edits[c] \in Begun => Earlier(runs[c].source, c, Edits[c])
         /\ \A c \in Begun : Edits[c] \notin Begun => runs[c].mode # "EDITED_QUERY"
<1>1. /\ Begun \in SUBSET Nat /\ NoRun \notin Begun /\ NoRun = 0
      /\ \A c \in Begun : Placed(runs[c], c)
  BY Typed DEF IInv, RunsPlaced, NoRun
<1>2. DOMAIN Edits = Begun /\ \A c \in Begun : Edits[c] = runs[c].edited
  BY DEF Edits
<1>3. ASSUME NEW c \in Begun PROVE Edits[c] # NoRun => Earlier(runs[c].source, c, Edits[c])
  BY <1>1, <1>2 DEF Placed
<1>4. ASSUME NEW c \in Begun PROVE Edits[c] \in Nat /\ Edits[c] < c
  <2>1. c \in Nat /\ c # 0
    BY <1>1
  <2>2. CASE Edits[c] = NoRun
    BY <1>1, <2>1, <2>2
  <2>3. CASE Edits[c] # NoRun
    BY <1>1, <1>3, <2>3 DEF Earlier
  <2> QED
    BY <2>2, <2>3
<1>5. Descending(Edits)
  BY <1>1, <1>2, <1>4 DEF Descending
<1>6. ASSUME NEW c \in Begun, Edits[c] \notin Begun PROVE runs[c].mode # "EDITED_QUERY"
  BY <1>1, <1>2, <1>3, <1>6 DEF Earlier, Placed
<1> QED
  BY <1>1, <1>2, <1>3, <1>5, <1>6

LEMMA SentHolds == IInv => SentIsModels
<1> SUFFICES ASSUME IInv, NEW r \in Begun, runs[r].sent # NoRun
             PROVE  LET first == runs[Last(Walk(Edits, <<runs[r].sent>>, Len(runs)))]
                    IN  first.mode = "LIVE_MODEL" /\ first.proposed
                          /\ first.source = runs[r].source
  BY DEF SentIsModels, Edits
<1> DEFINE sent == runs[r].sent
           t == Walk(Edits, <<sent>>, Len(runs))
           Fits(c) == EarlierAnswer(runs[c]) /\ runs[c].source = runs[r].source
<1>1. /\ Len(runs) \in Nat /\ Begun = 1 .. Len(runs) /\ \A c \in Begun : Placed(runs[c], c)
  BY Typed DEF IInv, RunsPlaced
<1>2. sent \in Begun /\ Fits(sent)
  BY <1>1 DEF Placed, Earlier
<1>3. /\ Descending(Edits) /\ DOMAIN Edits = Begun
      /\ \A c \in Begun : Edits[c] \in Begun => Earlier(runs[c].source, c, Edits[c])
      /\ \A c \in Begun : Edits[c] \notin Begun => runs[c].mode # "EDITED_QUERY"
  BY EditsDescend
<1>4. sent \in DOMAIN Edits /\ Len(runs) \in Nat \ {0} /\ sent <= Len(runs)
  BY <1>1, <1>2, <1>3
<1>5. BackFrom(Edits, sent, Len(runs), t)
  BY <1>3, <1>4, BackIs
<1> HIDE DEF t, sent
<1>6. Edits[t[Len(t)]] \notin DOMAIN Edits
  BY <1>3, <1>4, <1>5, BackEnds
<1>7. /\ t \in Seq(DOMAIN Edits) /\ Len(t) \in Nat \ {0} /\ t[1] = sent
      /\ \A i \in 1 .. Len(t) : t[i] \in Begun
      /\ \A i \in 1 .. Len(t) - 1 : t[i + 1] = Edits[t[i]]
  BY <1>3, <1>5 DEF BackFrom
<1> DEFINE Bad == {i \in 1 .. Len(t) : ~Fits(t[i])}
<1>8. Bad = {}
  <2> SUFFICES ASSUME Bad # {} PROVE FALSE
    OBVIOUS
  <2>1. PICK m \in Bad : \A i \in Bad : m <= i
    <3>1. Bad \in SUBSET Nat
      OBVIOUS
    <3> QED
      BY <3>1, LeastOf
  <2>2. m \in 1 .. Len(t) /\ ~Fits(t[m])
    BY <2>1
  <2>3. m # 1
    BY <1>2, <1>7, <2>2
  <2>4. m - 1 \in 1 .. Len(t) - 1 /\ m - 1 \in 1 .. Len(t) /\ (m - 1) + 1 = m /\ ~(m <= m - 1)
    BY <1>7, <2>2, <2>3
  <2>5. Fits(t[m - 1])
    <3>1. m - 1 \notin Bad
      <4> HIDE DEF Bad
      <4> QED
        BY <2>1, <2>4
    <3> QED
      BY <2>4, <3>1
  <2>6. t[m - 1] \in Begun /\ t[m] = Edits[t[m - 1]] /\ t[m] \in Begun
    BY <1>7, <2>2, <2>4
  <2>7. Earlier(runs[t[m - 1]].source, t[m - 1], t[m])
    BY <1>3, <2>6
  <2> QED
    BY <2>2, <2>5, <2>7 DEF Earlier
<1>9. Last(t) = t[Len(t)] /\ t[Len(t)] \in Begun /\ Fits(t[Len(t)])
  <2>1. Len(t) \in 1 .. Len(t)
    BY <1>7
  <2> QED
    BY <1>7, <1>8, <2>1 DEF Last
<1>10. runs[t[Len(t)]].mode # "EDITED_QUERY"
  BY <1>3, <1>6, <1>9
<1> QED
  BY <1>9, <1>10 DEF EarlierAnswer, t, sent

\* SQL that goes to the model with a follow-up leads back, edit by edit, to a live answer for
\* the same source, however long the chain of edits (_earlier_answer, edit_run).
THEOREM SentIsAlwaysModels == Spec => []SentIsModels
<1> QED
  BY Invariant, SentHolds, PTL

-----------------------------------------------------------------------------
(***************************************************************************)
(* The conversation a stored run belongs to.                               *)
(***************************************************************************)
Back == [c \in Known |-> Parent(runs[c])]
Forth == [c \in Known |-> LatestChild(runs, log, durable, c)]

LEMMA BackDescends ==
  ASSUME IInv
  PROVE  /\ Descending(Back) /\ DOMAIN Back = Known
         /\ \A c \in Known : Back[c] = Parent(runs[c])
         /\ \A c \in Known : Back[c] # NoRun => Earlier(runs[c].source, c, Back[c])
         /\ \A c \in Known : \A p : p # NoRun => (Continues(runs[c], p) <=> Back[c] = p)
<1>1. /\ Begun \in SUBSET Nat /\ NoRun \notin Begun /\ NoRun = 0 /\ Known \subseteq Begun
      /\ \A c \in Known : Placed(runs[c], c)
  BY Typed DEF IInv, RunsPlaced, NoRun
<1>2. DOMAIN Back = Known /\ \A c \in Known : Back[c] = Parent(runs[c])
  BY DEF Back
<1>3. ASSUME NEW c \in Known PROVE Back[c] # NoRun => Earlier(runs[c].source, c, Back[c])
  BY <1>1, <1>2 DEF Placed, Parent
<1>4. ASSUME NEW c \in Known PROVE Back[c] \in Nat /\ Back[c] < c
  <2>1. c \in Nat /\ c # 0
    BY <1>1
  <2>2. CASE Back[c] = NoRun
    BY <1>1, <2>1, <2>2
  <2>3. CASE Back[c] # NoRun
    BY <1>1, <1>3, <2>3 DEF Earlier
  <2> QED
    BY <2>2, <2>3
<1>5. Descending(Back)
  BY <1>1, <1>2, <1>4 DEF Descending
<1>6. ASSUME NEW c \in Known, NEW p, p # NoRun PROVE Continues(runs[c], p) <=> Back[c] = p
  BY <1>1, <1>2, <1>6 DEF Placed, Parent, Continues
<1> QED
  BY <1>2, <1>3, <1>5, <1>6

\* A run's newest continuation is a stored run that began later, if there is one.
LEMMA ForthIs ==
  ASSUME IInv, NEW c \in Known
  PROVE  /\ Forth[c] = LatestChild(runs, log, durable, c)
         /\ Children(c) = {} => Forth[c] = NoRun
         /\ Children(c) # {} => Forth[c] \in Children(c)
         /\ \A x \in Children(c) : x \in Known /\ Back[x] = c /\ c < x
<1> DEFINE places == {i \in DOMAIN log : Continues(runs[log[i]], c)}
<1>1. /\ Len(log) \in Nat /\ DOMAIN log = 1 .. Len(log) /\ Known = {log[i] : i \in DOMAIN log}
      /\ Known \subseteq Begun /\ Begun = 1 .. Len(runs) /\ Len(runs) \in Nat /\ NoRun \notin Begun
  BY Typed DEF IInv
<1>2. Children(c) = {log[i] : i \in places}
  BY <1>1 DEF Children
<1>3. Forth[c] = IF places = {} THEN NoRun
                 ELSE IF durable THEN Max({log[i] : i \in places}) ELSE log[Max(places)]
  BY DEF Forth, LatestChild
<1>4. places \in SUBSET Nat /\ \A i \in places : i <= Len(log)
  BY <1>1
<1>5. \A i \in places : log[i] \in Nat /\ log[i] <= Len(runs)
  <2>1. \A i \in DOMAIN log : log[i] \in 1 .. Len(runs)
    BY <1>1
  <2> QED
    BY <1>1, <2>1
<1>6. ASSUME places # {} PROVE Forth[c] \in Children(c)
  <2>1. Max(places) \in places
    <3> HIDE DEF places
    <3> QED
      BY <1>1, <1>4, <1>6, MaxIs
  <2>2. Max({log[i] : i \in places}) \in {log[i] : i \in places}
    <3> DEFINE S == {log[i] : i \in places}
    <3>1. S # {} /\ S \in SUBSET Nat /\ \A x \in S : x <= Len(runs)
      BY <1>5, <1>6
    <3> HIDE DEF S
    <3>2. Max(S) \in S
      BY <1>1, <3>1, MaxIs
    <3> QED
      BY <3>2 DEF S
  <2> HIDE DEF places
  <2> QED
    BY <1>2, <1>3, <1>6, <2>1, <2>2
<1>7. ASSUME NEW x \in Children(c) PROVE x \in Known /\ Back[x] = c /\ c < x
  <2>1. x \in Known /\ Continues(runs[x], c) /\ c # NoRun
    BY <1>1, <1>7 DEF Children
  <2>2. Back[x] = c
    BY <2>1, BackDescends
  <2> QED
    BY <2>1, <2>2, BackDescends DEF Descending
<1>8. Children(c) = {} <=> places = {}
  BY <1>2
<1>9. Forth[c] = LatestChild(runs, log, durable, c)
  BY DEF Forth
<1> HIDE DEF places
<1> QED
  BY <1>3, <1>6, <1>7, <1>8, <1>9

\* t is the conversation of r: back to the oldest run by way of b, then forward.
IsThread(r, b, t) ==
  /\ BackFrom(Back, r, ThreadLimit, b)
  /\ IsWalk(Forth, Reverse(b), ThreadLimit, t)
  /\ Len(b) \in Nat \ {0} /\ Len(t) \in Nat /\ Len(b) <= Len(t) /\ Len(t) <= ThreadLimit
  /\ \A i \in 1 .. Len(b) : t[i] = b[Len(b) - i + 1]
  /\ \A i \in 1 .. Len(t) : t[i] \in Known
  /\ \A i \in 1 .. Len(t) - 1 : Back[t[i + 1]] = t[i]
  /\ \A i \in Len(b) .. Len(t) - 1 : t[i + 1] = Forth[t[i]]

LEMMA ReverseIs ==
  ASSUME NEW S, NEW b \in Seq(S), b # <<>>
  PROVE  /\ Reverse(b) \in Seq(S) /\ Len(Reverse(b)) = Len(b) /\ Reverse(b) # <<>>
         /\ Len(b) \in Nat \ {0}
         /\ \A i \in 1 .. Len(b) : Reverse(b)[i] = b[Len(b) - i + 1]
<1>1. Len(b) \in Nat \ {0}
  BY EmptySeq
<1>2. \A i \in 1 .. Len(b) : Len(b) - i + 1 \in 1 .. Len(b)
  BY <1>1
<1>3. Reverse(b) = [i \in 1 .. Len(b) |-> b[Len(b) - i + 1]]
  BY DEF Reverse
<1>4. \A i \in 1 .. Len(b) : b[Len(b) - i + 1] \in S
  BY <1>2
<1>5. Reverse(b) \in Seq(S) /\ Len(Reverse(b)) = Len(b)
  BY <1>1, <1>3, <1>4
<1>6. \A i \in 1 .. Len(b) : Reverse(b)[i] = b[Len(b) - i + 1]
  BY <1>3
<1> HIDE DEF Reverse
<1>7. Reverse(b) # <<>>
  <2>1. Len(<<>>) = 0
    OBVIOUS
  <2> QED
    BY <1>1, <1>5, <2>1
<1> QED
  BY <1>1, <1>5, <1>6, <1>7

LEMMA ThreadIs ==
  ASSUME IInv, NEW r \in Known
  PROVE  IsThread(r, Walk(Back, <<r>>, ThreadLimit), Thread(runs, log, durable, r))
<1> DEFINE b == Walk(Back, <<r>>, ThreadLimit)
           s == Reverse(b)
           t == Walk(Forth, s, ThreadLimit)
<1>1. /\ Descending(Back) /\ DOMAIN Back = Known /\ DOMAIN Forth = Known
      /\ ThreadLimit \in Nat \ {0}
  BY BackDescends, ThreadLimitAssumption DEF Forth, MAX_TURNS
<1>2. BackFrom(Back, r, ThreadLimit, b)
  BY <1>1, BackIs
<1>3. Thread(runs, log, durable, r) = t
  BY DEF Thread, Known, Back, Forth
<1> HIDE DEF t, s, b
<1>4. /\ b \in Seq(Known) /\ Len(b) \in 1 .. ThreadLimit /\ b[1] = r
      /\ (\A i \in 1 .. Len(b) : b[i] \in Known)
      /\ \A i \in 1 .. Len(b) - 1 : b[i + 1] = Back[b[i]]
  BY <1>1, <1>2 DEF BackFrom
<1>5. b # <<>>
  BY <1>4
<1>6. /\ s \in Seq(Known) /\ Len(s) = Len(b) /\ s # <<>> /\ Len(b) \in Nat \ {0}
      /\ \A i \in 1 .. Len(b) : s[i] = b[Len(b) - i + 1]
  BY <1>4, <1>5, ReverseIs DEF s
<1>7. IsWalk(Forth, s, ThreadLimit, t)
  BY <1>1, <1>6, WalkIsWalk DEF t
<1>8. /\ t \in Seq(Known) /\ Len(s) <= Len(t) /\ Len(t) \in Nat
      /\ (\A i \in 1 .. Len(s) : t[i] = s[i])
      /\ \A i \in Len(s) .. Len(t) - 1 : t[i + 1] = Forth[t[i]] /\ i < ThreadLimit
  BY <1>1, <1>7 DEF IsWalk
<1>9. \A i \in 1 .. Len(t) : t[i] \in Known
  BY <1>8
<1>10. Len(t) <= ThreadLimit
  <2>1. CASE Len(t) = Len(b)
    BY <1>4, <2>1
  <2>2. CASE Len(t) # Len(b)
    <3>1. \A n \in Nat, k \in Nat : k <= n /\ n # k => n - 1 \in k .. n - 1
      OBVIOUS
    <3>2. Len(t) - 1 \in Len(s) .. Len(t) - 1
      BY <1>6, <1>8, <2>2, <3>1
    <3>3. Len(t) - 1 < ThreadLimit
      BY <1>8, <3>2
    <3> QED
      BY <1>1, <1>8, <3>3
  <2> QED
    BY <2>1, <2>2
<1>11. ASSUME NEW i \in 1 .. Len(t) - 1 PROVE Back[t[i + 1]] = t[i]
  <2>1. CASE i < Len(b)
    <3>1. /\ i \in 1 .. Len(b) /\ i + 1 \in 1 .. Len(b) /\ Len(b) - i \in 1 .. Len(b) - 1
          /\ Len(b) - (i + 1) + 1 = Len(b) - i /\ Len(b) - i + 1 = (Len(b) - i) + 1
      BY <1>6, <2>1
    <3>2. t[i + 1] = b[Len(b) - i] /\ t[i] = b[(Len(b) - i) + 1]
      BY <1>6, <1>8, <3>1
    <3> QED
      BY <1>4, <3>1, <3>2
  <2>2. CASE ~(i < Len(b))
    <3>1. i \in Len(s) .. Len(t) - 1 /\ i \in 1 .. Len(t) /\ i + 1 \in 1 .. Len(t)
      BY <1>6, <1>8, <2>2
    <3>2. t[i] \in Known /\ t[i + 1] \in Known /\ t[i + 1] = Forth[t[i]]
      BY <1>8, <1>9, <3>1
    <3>3. t[i + 1] # NoRun
      BY <3>2, Typed DEF IInv
    <3>4. t[i + 1] \in Children(t[i])
      BY <3>2, <3>3, ForthIs
    <3> QED
      BY <3>2, <3>4, ForthIs
  <2> QED
    BY <2>1, <2>2
<1>12. IsThread(r, b, t)
  <2>1. \A i \in 1 .. Len(b) : t[i] = b[Len(b) - i + 1]
    BY <1>6, <1>8
  <2>2. \A i \in Len(b) .. Len(t) - 1 : t[i + 1] = Forth[t[i]]
    BY <1>6, <1>8
  <2> QED
    BY <1>2, <1>6, <1>7, <1>8, <1>9, <1>10, <1>11, <2>1, <2>2 DEF IsThread, s
<1> QED
  BY <1>3, <1>12 DEF b

LEMMA OneHolds == IInv => OneConversation
<1> SUFFICES ASSUME IInv, NEW r \in Known
             PROVE  LET thread == Thread(runs, log, durable, r) IN
                    /\ r \in ToSet(thread)
                    /\ Len(thread) <= ThreadLimit
                    /\ \A i \in 1 .. Len(thread) - 1 :
                         /\ Continues(runs[thread[i + 1]], thread[i])
                         /\ thread[i] < thread[i + 1]
                         /\ runs[thread[i]].source = runs[thread[i + 1]].source
  BY DEF OneConversation, Opened
<1> DEFINE t == Thread(runs, log, durable, r)
<1>1. PICK b : IsThread(r, b, t)
  BY ThreadIs
<1> HIDE DEF t
<1>2. /\ Len(b) \in Nat \ {0} /\ Len(t) \in Nat /\ Len(b) <= Len(t) /\ Len(t) <= ThreadLimit
      /\ t[Len(b)] = b[1] /\ b[1] = r /\ t \in Seq(DOMAIN Forth)
  <2>1. Len(b) \in Nat \ {0} /\ \A i \in 1 .. Len(b) : t[i] = b[Len(b) - i + 1]
    BY <1>1 DEF IsThread
  <2>2. Len(b) \in 1 .. Len(b) /\ Len(b) - Len(b) + 1 = 1
    BY <2>1
  <2>3. t[Len(b)] = b[1]
    BY <2>1, <2>2
  <2> QED
    BY <1>1, <2>3 DEF IsThread, BackFrom, IsWalk
<1>3. r \in ToSet(t)
  <2>1. Len(b) \in 1 .. Len(t) /\ DOMAIN t = 1 .. Len(t)
    BY <1>2
  <2> QED
    BY <1>2, <2>1 DEF ToSet
<1>4. ASSUME NEW i \in 1 .. Len(t) - 1
      PROVE  /\ Continues(runs[t[i + 1]], t[i]) /\ t[i] < t[i + 1]
             /\ runs[t[i]].source = runs[t[i + 1]].source
  <2>1. i \in 1 .. Len(t) /\ i + 1 \in 1 .. Len(t)
    BY <1>2
  <2>2. t[i] \in Known /\ t[i + 1] \in Known /\ Back[t[i + 1]] = t[i] /\ t[i] # NoRun
    BY <1>1, <2>1, Typed DEF IsThread, IInv
  <2>3. Earlier(runs[t[i + 1]].source, t[i + 1], t[i]) /\ Continues(runs[t[i + 1]], t[i])
    BY <2>2, BackDescends
  <2> QED
    BY <2>3 DEF Earlier
<1> QED
  BY <1>2, <1>3, <1>4 DEF t

\* A conversation opened from any of its runs is one, on one source, oldest run first, and no
\* longer than the limit, in either store and for any number of runs (thread).
THEOREM AlwaysOneConversation == Spec => []OneConversation
<1> QED
  BY Invariant, OneHolds, PTL

-----------------------------------------------------------------------------
(***************************************************************************)
(* Recorded history stays.                                                 *)
(***************************************************************************)

LEMMA BackDescendsNext ==
  (IInv => /\ Descending(Back) /\ DOMAIN Back = Known /\ Known \subseteq Begun
           /\ \A c \in Known : Back[c] = Parent(runs[c]))'
<1>1. IInv => /\ Descending(Back) /\ DOMAIN Back = Known /\ Known \subseteq Begun
              /\ \A c \in Known : Back[c] = Parent(runs[c])
  BY BackDescends, Typed DEF IInv
<1> QED
  BY <1>1, PTL

\* A run saved later is in no recorded run's past.
LEMMA StoredKeepsPast ==
  ASSUME IInv, durable, NEW r0 \in Begun, Finish(r0), NEW r \in Known
  PROVE  r \in Known' /\ Before(r)' = Before(r)
<1>1. PICK proposed \in BOOLEAN : Running(r0) /\ Stored(r0, proposed)
  BY DEF Finish
<1>2. /\ Begun' = Begun /\ Len(runs') = Len(runs) /\ IInv'
      /\ \A q \in Begun : runs'[q].followUp = runs[q].followUp /\ runs'[q].edited = runs[q].edited
  BY <1>1, StoredIs, StoredKeeps
<1>3. /\ Len(runs) \in Nat /\ Begun = 1 .. Len(runs) /\ Known \subseteq Begun /\ NoRun \notin Begun
      /\ Len(log) \in Nat /\ log \in Seq(Begun)
  BY Typed DEF IInv, TypeOK
<1>4. Known \subseteq Known'
  <2>1. log' = Append(log, r0)
    BY <1>1 DEF Stored, Saved
  <2>2. \A i \in 1 .. Len(log) : i \in 1 .. Len(log') /\ log'[i] = log[i]
    BY <1>3, <2>1, AppendProperties
  <2>3. log' \in Seq(Begun)
    BY <1>3, <2>1, AppendProperties
  <2> QED
    <3>1. DOMAIN log = 1 .. Len(log) /\ DOMAIN log' = 1 .. Len(log')
      BY <1>3, <2>3
    <3> QED
      BY <2>2, <3>1 DEF Known, ToSet
<1> DEFINE t == Walk(Back, <<r>>, Len(runs))
           u == Walk(Back', <<r>>, Len(runs))
<1>5. /\ Descending(Back) /\ DOMAIN Back = Known
      /\ \A c \in Known : Back[c] = Parent(runs[c])
      /\ \A c \in Known : Back[c] # NoRun => Earlier(runs[c].source, c, Back[c])
  BY BackDescends
<1>6. /\ Descending(Back') /\ DOMAIN Back' = Known'
      /\ \A c \in Known' : Back'[c] = Parent(runs'[c])
  BY <1>2, BackDescendsNext
<1>7. \A c \in Known : Back'[c] = Back[c]
  <2> SUFFICES ASSUME NEW c \in Known PROVE Back'[c] = Back[c]
    OBVIOUS
  <2>1. runs'[c].followUp = runs[c].followUp /\ runs'[c].edited = runs[c].edited
    BY <1>2, <1>3
  <2>2. Parent(runs'[c]) = Parent(runs[c])
    BY <2>1 DEF Parent
  <2>3. Back'[c] = Parent(runs'[c]) /\ Back[c] = Parent(runs[c])
    BY <1>4, <1>5, <1>6
  <2> QED
    BY <2>2, <2>3
<1>8. r \in DOMAIN Back /\ r \in DOMAIN Back' /\ Len(runs) \in Nat \ {0} /\ r <= Len(runs)
  BY <1>3, <1>4, <1>5, <1>6
<1>9. BackFrom(Back, r, Len(runs), t) /\ BackFrom(Back', r, Len(runs), u)
  BY <1>5, <1>6, <1>8, BackIs
<1> HIDE DEF t, u
<1>10. Len(t) <= Len(u) /\ \A i \in 1 .. Len(t) : t[i] = u[i]
  BY <1>4, <1>5, <1>6, <1>7, <1>8, <1>9, BackPrefix
<1>11. Back[t[Len(t)]] \notin DOMAIN Back
  BY <1>5, <1>8, <1>9, BackEnds
<1>12. /\ t \in Seq(DOMAIN Back) /\ Len(t) \in Nat \ {0}
       /\ \A i \in 1 .. Len(t) : t[i] \in DOMAIN Back
  BY <1>8, <1>9 DEF BackFrom
<1>13. /\ u \in Seq(DOMAIN Back') /\ Len(u) \in Nat
       /\ (\A i \in 1 .. Len(u) : u[i] \in DOMAIN Back')
       /\ \A i \in 1 .. Len(u) - 1 : u[i + 1] = Back'[u[i]]
  BY <1>8, <1>9 DEF BackFrom
<1>14. Len(u) = Len(t)
  <2> SUFFICES ASSUME Len(t) < Len(u) PROVE FALSE
    BY <1>10, <1>12, <1>13
  <2>1. Len(t) \in 1 .. Len(t) /\ Len(t) \in 1 .. Len(u) - 1 /\ Len(t) + 1 \in 1 .. Len(u)
    BY <1>12, <1>13
  <2>2. t[Len(t)] \in Known /\ Back[t[Len(t)]] = NoRun
    BY <1>5, <1>11, <1>12, <2>1 DEF Earlier
  <2>3. u[Len(t) + 1] = Back[t[Len(t)]] /\ u[Len(t) + 1] \in Known'
    BY <1>6, <1>7, <1>10, <1>13, <2>1, <2>2
  <2>4. Known' \subseteq Begun
    BY <1>2, BackDescendsNext
  <2> QED
    BY <1>3, <2>2, <2>3, <2>4
<1>15. t = u
  <2>1. t \in Seq(DOMAIN Back') /\ u \in Seq(DOMAIN Back')
    BY <1>4, <1>5, <1>6, <1>12, <1>13
  <2> QED
    BY <1>10, <1>14, <2>1, SeqEqual
<1>16. Before(r) = ToSet(t) /\ Before(r)' = ToSet(u)
  BY <1>2 DEF Before, Back, t, u
<1> QED
  BY <1>4, <1>15, <1>16

\* What the audit log shows of how a run came about never changes, whatever is saved later
\* and in whatever order (save, _prepare).
THEOREM HistoryAlwaysKept == Spec => HistoryKept
<1> DEFINE Kept == durable => \A r \in Known : r \in Known' /\ Before(r)' = Before(r)
<1>1. IInv /\ [Next]_vars => [Kept]_log
  <2> SUFFICES ASSUME IInv, [Next]_vars, log' # log, durable PROVE Kept
    OBVIOUS
  <2>1. \E r0 \in Begun : Finish(r0)
    BY DEF Next, Work, Ask, Edit, RunCard, FollowCard, Begin, Fail, ClientLeaves, Restart, vars
  <2> QED
    BY <2>1, StoredKeepsPast
<1> QED
  BY <1>1, Invariant, PTL DEF Spec, HistoryKept

-----------------------------------------------------------------------------
(***************************************************************************)
(* A conversation opens whole.                                             *)
(***************************************************************************)
LEMMA AtMostOne ==
  ASSUME NEW S, IsFiniteSet(S), Cardinality(S) <= 1, NEW x \in S, NEW y \in S
  PROVE  x = y
<1> SUFFICES ASSUME x # y PROVE FALSE
  OBVIOUS
<1>1. /\ IsFiniteSet(S \ {x}) /\ Cardinality(S \ {x}) = Cardinality(S) - 1
      /\ Cardinality(S) \in Nat /\ Cardinality(S \ {x}) \in Nat
  BY FS_RemoveElement, FS_CardinalityType
<1>2. S \ {x} # {}
  OBVIOUS
<1>3. Cardinality(S \ {x}) # 0
  BY <1>1, <1>2, FS_EmptySet
<1> QED
  BY <1>1, <1>3

LEMMA KnownFinite ==
  ASSUME IInv, NEW S \in SUBSET Known
  PROVE  IsFiniteSet(S) /\ Cardinality(S) \in Nat
<1>1. Known \subseteq 1 .. Len(runs) /\ Len(runs) \in Nat
  BY Typed DEF IInv
<1>2. IsFiniteSet(1 .. Len(runs))
  BY <1>1, FS_Interval
<1> QED
  BY <1>1, <1>2, FS_Subset, FS_CardinalityType

\* A conversation opened from a run nothing continues ends with it.
LEMMA ThreadEnds ==
  ASSUME IInv, NEW last \in Known, Children(last) = {}, NEW b, NEW t, IsThread(last, b, t)
  PROVE  /\ Len(t) = Len(b) /\ t[Len(t)] = last /\ t[1] = b[Len(b)]
         /\ Len(b) \in Nat \ {0} /\ t \in Seq(Known)
<1>1. /\ Len(b) \in Nat \ {0} /\ Len(t) \in Nat /\ Len(b) <= Len(t)
      /\ (\A i \in 1 .. Len(b) : t[i] = b[Len(b) - i + 1])
      /\ t \in Seq(DOMAIN Forth) /\ DOMAIN Forth = Known
  BY DEF IsThread, IsWalk, Forth
<1>2. (\A i \in 1 .. Len(t) : t[i] \in Known) /\ b[1] = last
  BY DEF IsThread, BackFrom
<1>3. t[Len(b)] = last /\ t[1] = b[Len(b)]
  <2>1. /\ Len(b) \in 1 .. Len(b) /\ Len(b) - Len(b) + 1 = 1
        /\ 1 \in 1 .. Len(b) /\ Len(b) - 1 + 1 = Len(b)
    BY <1>1
  <2> QED
    BY <1>1, <1>2, <2>1
<1>4. Len(t) = Len(b)
  <2> SUFFICES ASSUME Len(b) < Len(t) PROVE FALSE
    BY <1>1
  <2>1. Len(b) \in Len(b) .. Len(t) - 1 /\ Len(b) + 1 \in 1 .. Len(t)
    BY <1>1
  <2>2. t[Len(b) + 1] = Forth[last] /\ t[Len(b) + 1] \in Known
    BY <1>2, <1>3, <2>1 DEF IsThread
  <2>3. Forth[last] = NoRun /\ NoRun \notin Known
    BY ForthIs, Typed DEF IInv
  <2> QED
    BY <2>2, <2>3
<1> QED
  BY <1>1, <1>3, <1>4

\* While no run of it was continued twice and it is within the limit, a conversation opens the
\* same way from each of its runs: the way to its last run, and on from there.
LEMMA OpensTheSame ==
  ASSUME IInv, NEW last \in Known, Unbranched(last), NEW r \in Before(last),
         Len(Walk(Back, <<last>>, Len(runs))) <= ThreadLimit
  PROVE  LET whole == Reverse(Walk(Back, <<last>>, Len(runs)))
             t == Thread(runs, log, durable, r)
         IN  /\ r \in Known
             /\ whole \in Seq(Known) /\ whole # <<>>
             /\ Before(last) = ToSet(whole)
             /\ t = Walk(Forth, whole, ThreadLimit)
             /\ IsWalk(Forth, whole, ThreadLimit, t)
<1> DEFINE all == Walk(Back, <<last>>, Len(runs))
           whole == Reverse(all)
           u == Walk(Forth, whole, ThreadLimit)
<1>1. /\ Descending(Back) /\ DOMAIN Back = Known /\ ThreadLimit \in Nat \ {0}
      /\ DOMAIN Forth = Known
  BY BackDescends, ThreadLimitAssumption DEF MAX_TURNS, Forth
<1>2. /\ Len(runs) \in Nat \ {0} /\ NoRun \notin Known
      /\ \A c \in Known : c \in Nat /\ c <= Len(runs)
  BY Typed DEF IInv
<1>3. BackFrom(Back, last, Len(runs), all)
  BY <1>1, <1>2, BackIs
<1>4. Before(last) = ToSet(all)
  BY DEF Before, Back
<1>5. Len(all) <= ThreadLimit
  OBVIOUS
<1> HIDE DEF all
<1>6. /\ all \in Seq(Known) /\ Len(all) \in Nat \ {0} /\ all # <<>>
      /\ \A i \in 1 .. Len(all) : all[i] \in Known
  BY <1>1, <1>2, <1>3 DEF BackFrom
<1>7. /\ whole \in Seq(Known) /\ Len(whole) = Len(all) /\ whole # <<>>
      /\ \A i \in 1 .. Len(all) : whole[i] = all[Len(all) - i + 1]
  BY <1>6, ReverseIs
<1>8. ASSUME NEW n \in Nat \ {0}, NEW i \in 1 .. n
      PROVE  n - i + 1 \in 1 .. n /\ n - (n - i + 1) + 1 = i
  OBVIOUS
<1> HIDE DEF whole
<1>9. Before(last) = ToSet(whole)
  <2>1. Before(last) = {all[i] : i \in 1 .. Len(all)}
    BY <1>4, <1>6 DEF ToSet
  <2>2. ToSet(whole) = {whole[i] : i \in 1 .. Len(all)}
    BY <1>6, <1>7 DEF ToSet
  <2>3. ASSUME NEW i \in 1 .. Len(all)
        PROVE  /\ Len(all) - i + 1 \in 1 .. Len(all)
               /\ all[i] = whole[Len(all) - i + 1] /\ whole[i] = all[Len(all) - i + 1]
    <3>1. Len(all) - i + 1 \in 1 .. Len(all) /\ Len(all) - (Len(all) - i + 1) + 1 = i
      BY <1>6, <1>8
    <3> QED
      BY <1>7, <3>1
  <2> QED
    <3>1. {all[i] : i \in 1 .. Len(all)} \subseteq {whole[i] : i \in 1 .. Len(all)}
      BY <2>3
    <3>2. {whole[i] : i \in 1 .. Len(all)} \subseteq {all[i] : i \in 1 .. Len(all)}
      BY <2>3
    <3> QED
      BY <2>1, <2>2, <3>1, <3>2, Zenon
<1>10. IsWalk(Forth, whole, ThreadLimit, u)
  BY <1>1, <1>7, WalkIsWalk
<1> HIDE DEF u
<1>11. /\ u \in Seq(Known) /\ Len(u) \in Nat /\ Len(all) <= Len(u)
       /\ (\A i \in 1 .. Len(all) : u[i] = all[Len(all) - i + 1])
       /\ (\A i \in Len(all) .. Len(u) - 1 :
             u[i + 1] = Forth[u[i]] /\ i < ThreadLimit /\ \A j \in 1 .. i : u[j] # u[i + 1])
       /\ Stops(Forth, u, ThreadLimit)
  BY <1>1, <1>7, <1>10 DEF IsWalk
<1>12. PICK m \in 1 .. Len(all) : r = all[m]
  BY <1>4, <1>6 DEF ToSet
<1>13. r \in Known
  BY <1>6, <1>12
<1> DEFINE part == Walk(Back, <<r>>, ThreadLimit)
           rest == Walk(Back, <<r>>, Len(runs))
           opened == Thread(runs, log, durable, r)
<1>14. /\ BackFrom(Back, r, ThreadLimit, part) /\ BackFrom(Back, r, Len(runs), rest)
       /\ IsThread(r, part, opened)
  BY <1>1, <1>2, <1>13, BackIs, ThreadIs
<1> HIDE DEF part, rest, opened
<1>15. Len(rest) = Len(all) - m + 1 /\ \A i \in 1 .. Len(rest) : rest[i] = all[i + m - 1]
  BY <1>1, <1>2, <1>3, <1>12, <1>14, BackSuffix
<1>16. Len(part) = Len(rest) /\ \A i \in 1 .. Len(part) : part[i] = rest[i]
  <2>1. Len(part) <= Len(rest) /\ \A i \in 1 .. Len(part) : part[i] = rest[i]
    BY <1>1, <1>2, <1>13, <1>14, BackPrefix
  <2>2. Len(part) \in Nat /\ Len(part) <= ThreadLimit
    BY <1>1, <1>14 DEF BackFrom
  <2>3. CASE Len(part) < ThreadLimit
    <3>1. part = rest
      BY <1>1, <1>2, <1>13, <1>14, <2>3, BackWhole
    <3> QED
      BY <2>1, <3>1
  <2>4. CASE Len(part) = ThreadLimit
    BY <1>1, <1>5, <1>6, <1>15, <2>1, <2>4
  <2> QED
    BY <1>1, <2>1, <2>2, <2>3, <2>4
<1> DEFINE s == Reverse(part)
<1>17. /\ Len(part) = Len(all) - m + 1 /\ \A i \in 1 .. Len(part) : part[i] = all[i + m - 1]
       /\ part \in Seq(Known) /\ Len(part) \in Nat \ {0} /\ Len(part) <= Len(all)
  <2>1. part \in Seq(Known) /\ Len(part) \in Nat \ {0}
    BY <1>1, <1>14 DEF IsThread, BackFrom
  <2> QED
    BY <1>6, <1>15, <1>16, <2>1
<1>18. /\ s \in Seq(Known) /\ Len(s) = Len(part) /\ s # <<>>
       /\ \A i \in 1 .. Len(part) : s[i] = part[Len(part) - i + 1]
  <2>1. part # <<>>
    BY <1>17
  <2> QED
    BY <1>17, <2>1, ReverseIs
<1> HIDE DEF s
<1>19. ASSUME NEW i \in 1 .. Len(s) PROVE u[i] = s[i]
  <2>1. /\ Len(part) - i + 1 \in 1 .. Len(part) /\ (Len(part) - i + 1) + m - 1 = Len(all) - i + 1
        /\ i \in 1 .. Len(all) /\ i \in 1 .. Len(part)
    BY <1>6, <1>17, <1>18
  <2>2. s[i] = all[Len(all) - i + 1]
    BY <1>17, <1>18, <2>1
  <2> QED
    BY <1>11, <2>1, <2>2
<1>20. ASSUME NEW i \in 1 .. Len(all) - 1
       PROVE  u[i + 1] = Forth[u[i]] /\ i < ThreadLimit /\ \A j \in 1 .. i : u[j] # u[i + 1]
  <2>1. /\ i \in 1 .. Len(all) /\ i + 1 \in 1 .. Len(all) /\ i < ThreadLimit /\ i \in Nat
        /\ i \in 1 .. Len(u) /\ i + 1 \in 1 .. Len(u)
    BY <1>1, <1>5, <1>6, <1>11
  <2>2. /\ u[i] = all[Len(all) - i + 1] /\ u[i + 1] = all[Len(all) - i]
        /\ Len(all) - i \in 1 .. Len(all) - 1 /\ (Len(all) - i) + 1 = Len(all) - i + 1
        /\ Len(all) - i + 1 \in 1 .. Len(all) /\ Len(all) - i \in 1 .. Len(all)
    <3>1. Len(all) - (i + 1) + 1 = Len(all) - i /\ Len(all) - i \in 1 .. Len(all) - 1
          /\ (Len(all) - i) + 1 = Len(all) - i + 1 /\ Len(all) - i + 1 \in 1 .. Len(all)
          /\ Len(all) - i \in 1 .. Len(all)
      BY <1>6, <2>1
    <3>2. u[i + 1] = all[Len(all) - (i + 1) + 1]
      BY <1>11, <2>1
    <3> QED
      BY <1>11, <2>1, <3>1, <3>2
  <2>3. Back[u[i + 1]] = u[i]
    <3>1. all[(Len(all) - i) + 1] = Back[all[Len(all) - i]]
      BY <1>3, <2>2 DEF BackFrom
    <3> QED
      BY <2>2, <3>1
  <2>4. u[i] \in Known /\ u[i + 1] \in Known /\ u[i] # NoRun
    BY <1>2, <1>6, <2>2
  <2>5. u[i + 1] \in Children(u[i])
    BY <2>3, <2>4, BackDescends DEF Children
  <2>6. u[i] \in Before(last)
    BY <1>4, <1>6, <2>2 DEF ToSet
  <2>7. Forth[u[i]] \in Children(u[i])
    BY <2>4, <2>5, ForthIs
  <2>8. IsFiniteSet(Children(u[i])) /\ Cardinality(Children(u[i])) <= 1
    <3>1. Children(u[i]) \in SUBSET Known
      BY DEF Children
    <3> QED
      BY <2>6, <3>1, KnownFinite DEF Unbranched
  <2>9. u[i + 1] = Forth[u[i]]
    BY <2>5, <2>7, <2>8, AtMostOne
  <2>10. ASSUME NEW j \in 1 .. i PROVE u[j] # u[i + 1]
    <3>1. /\ j \in 1 .. Len(all) /\ Len(all) - j + 1 \in 1 .. Len(all)
          /\ Len(all) - i < Len(all) - j + 1 /\ (Len(all) - j + 1) - (Len(all) - i) \in Nat \ {0}
      BY <1>6, <2>1
    <3>2. u[j] = all[Len(all) - j + 1]
      BY <1>11, <3>1
    <3>3. all[Len(all) - j + 1] + ((Len(all) - j + 1) - (Len(all) - i)) <= all[Len(all) - i]
      BY <1>3, <2>2, <3>1 DEF BackFrom
    <3>4. u[j] \in Nat /\ u[i + 1] \in Nat
      BY <1>2, <1>6, <2>4, <3>1, <3>2
    <3>5. \A x, y \in Nat, g \in Nat \ {0} : x + g <= y => x # y
      OBVIOUS
    <3> QED
      BY <2>2, <3>1, <3>2, <3>3, <3>4, <3>5
  <2> QED
    BY <2>1, <2>9, <2>10
<1>21. IsWalk(Forth, s, ThreadLimit, u)
  <2>1. \A i \in Len(s) .. Len(u) - 1 : i \in 1 .. Len(all) - 1 \/ i \in Len(all) .. Len(u) - 1
    BY <1>6, <1>11, <1>17, <1>18
  <2>2. \A i \in Len(s) .. Len(u) - 1 :
          u[i + 1] = Forth[u[i]] /\ i < ThreadLimit /\ \A j \in 1 .. i : u[j] # u[i + 1]
    BY <1>11, <1>20, <2>1
  <2>3. u \in Seq(DOMAIN Forth) /\ Len(s) <= Len(u)
    BY <1>1, <1>6, <1>11, <1>17, <1>18
  <2> QED
    BY <1>11, <1>19, <2>2, <2>3 DEF IsWalk
<1>22. IsWalk(Forth, s, ThreadLimit, opened)
  BY <1>14 DEF IsThread, s
<1>23. opened = u
  <2>1. Len(s) \in Nat \ {0} /\ ThreadLimit \in Nat
    BY <1>1, <1>17, <1>18
  <2> QED
    BY <1>21, <1>22, <2>1, WalkUnique
<1> QED
  BY <1>7, <1>9, <1>10, <1>13, <1>23 DEF opened, u, whole, all

LEMMA WholeHolds == IInv => OpensWhole
<1> SUFFICES ASSUME IInv, NEW last \in Known, Children(last) = {},
                    Len(Thread(runs, log, durable, last)) < ThreadLimit,
                    Unbranched(last), NEW r \in Before(last)
             PROVE  /\ r \in Known
                    /\ Thread(runs, log, durable, r) = Thread(runs, log, durable, last)
  BY DEF OpensWhole, Opened
<1> DEFINE t == Thread(runs, log, durable, last)
           b == Walk(Back, <<last>>, ThreadLimit)
           all == Walk(Back, <<last>>, Len(runs))
<1>1. Descending(Back) /\ DOMAIN Back = Known /\ ThreadLimit \in Nat \ {0}
  BY BackDescends, ThreadLimitAssumption DEF MAX_TURNS
<1>2. Len(runs) \in Nat \ {0} /\ \A c \in Known : c \in Nat /\ c <= Len(runs)
  BY Typed DEF IInv
<1>3. IsThread(last, b, t)
  BY ThreadIs
<1>4. BackFrom(Back, last, ThreadLimit, b) /\ BackFrom(Back, last, Len(runs), all)
  BY <1>1, <1>2, BackIs
<1>5. Before(last) = ToSet(all)
  BY DEF Before, Back
<1>6. Len(t) < ThreadLimit
  OBVIOUS
<1> HIDE DEF t, b
<1>7. b = all /\ Len(b) < ThreadLimit
  <2>1. Len(b) < ThreadLimit
    BY <1>3, <1>6, ThreadEnds
  <2> HIDE DEF all
  <2> QED
    BY <1>1, <1>2, <1>4, <2>1, BackWhole
<1>8. Len(all) <= ThreadLimit
  BY <1>1, <1>7
<1>9. last \in Before(last)
  <2>1. all \in Seq(Known) /\ Len(all) \in Nat \ {0} /\ all[1] = last
    BY <1>1, <1>2, <1>4 DEF BackFrom
  <2>2. 1 \in 1 .. Len(all)
    BY <2>1
  <2> HIDE DEF all
  <2> QED
    BY <1>5, <2>1, <2>2 DEF ToSet
<1>10. r \in Known /\ Thread(runs, log, durable, r) = Walk(Forth, Reverse(all), ThreadLimit)
  BY <1>8, OpensTheSame
<1>11. t = Walk(Forth, Reverse(all), ThreadLimit)
  BY <1>8, <1>9, OpensTheSame DEF t
<1> QED
  BY <1>10, <1>11 DEF t

\* A conversation opens whole from any run of it: from its first as from its last, when no run
\* of it was continued twice, none was dropped and it is within the limit (thread).
THEOREM AlwaysOpensWhole == Spec => []OpensWhole
<1> QED
  BY Invariant, WholeHolds, PTL

-----------------------------------------------------------------------------
(***************************************************************************)
(* What the sidebar lists.                                                 *)
(***************************************************************************)

\* What SidebarOpensWhatItLists says of one entry.
Opens(mine, e) ==
  /\ durable => e.root \in Before(e.last)
  /\ (e.root \in Known /\ Cardinality(Before(e.last)) <= ThreadLimit /\ Unbranched(e.last)) =>
       /\ Before(e.last) \subseteq ToSet(OpenedBy(e))
       /\ Before(e.last) \subseteq Listed(log, durable, mine) =>
            Head(OpenedBy(e)) = e.root /\ e.turns = Cardinality(Before(e.last))

\* A sequence that holds nothing twice holds as many as it is long.
LEMMA Counted ==
  ASSUME NEW S, NEW t \in Seq(S), \A i, j \in 1 .. Len(t) : i < j => t[i] # t[j]
  PROVE  Cardinality(ToSet(t)) = Len(t)
<1> DEFINE f == [i \in 1 .. Len(t) |-> t[i]]
<1>1. Len(t) \in Nat /\ ToSet(t) = {t[i] : i \in 1 .. Len(t)}
  BY DEF ToSet
<1>2. \A i, j \in 1 .. Len(t) : t[i] = t[j] => i = j
  <2>1. ASSUME NEW i \in 1 .. Len(t), NEW j \in 1 .. Len(t), t[i] = t[j] PROVE i = j
    <3>1. i < j \/ j < i \/ i = j
      BY <1>1
    <3> QED
      BY <2>1, <3>1
  <2> QED
    BY <2>1
<1>3. f \in Bijection(1 .. Len(t), ToSet(t))
  BY <1>1, <1>2 DEF Bijection, Injection, Surjection, IsInjective
<1>4. ExistsBijection(1 .. Len(t), ToSet(t))
  BY <1>3 DEF ExistsBijection
<1> QED
  BY <1>1, <1>4, FS_CountingElements

LEMMA SidebarHolds == IInv => SidebarOpensWhatItLists
<1> SUFFICES ASSUME IInv, NEW mine \in SUBSET Known, NEW e \in Entries(mine) PROVE Opens(mine, e)
  <2>1. \A r \in Whole : Cardinality(Before(r)) <= ThreadLimit /\ Unbranched(r)
    BY Zenon DEF Whole
  <2> QED
    BY <2>1, Zenon DEF SidebarOpensWhatItLists, Opens, Entries
<1> DEFINE listed == Listed(log, durable, mine)
           asked == {r \in listed : runs[r].mode # "SAVED_QUERY"}
           back == [r \in asked |-> Parent(runs[r])]
           continued == {runs[r].followUp : r \in asked} \cup {runs[r].edited : r \in asked}
           chain(r) == Walk(back, <<r>>, MAX_TURNS)
           root(r) == IF back[Last(chain(r))] # NoRun THEN back[Last(chain(r))] ELSE Last(chain(r))
<1>0. PICK r \in asked \ continued : e = [root |-> root(r), last |-> r, turns |-> Len(chain(r))]
  BY Zenon DEF Entries, Sidebar
<1> DEFINE c == Walk(back, <<r>>, MAX_TURNS)
           all == Walk(Back, <<r>>, Len(runs))
           oldest == c[Len(c)]
<1>1. /\ Descending(Back) /\ DOMAIN Back = Known /\ ThreadLimit \in Nat \ {0}
      /\ ThreadLimit < MAX_TURNS /\ MAX_TURNS \in Nat \ {0}
      /\ \A x \in Known : Back[x] = Parent(runs[x])
      /\ \A x \in Known : Back[x] # NoRun => Earlier(runs[x].source, x, Back[x])
  BY BackDescends, ThreadLimitAssumption DEF MAX_TURNS
<1>2. /\ Len(runs) \in Nat \ {0} /\ NoRun \notin Known /\ Known \subseteq Begun
      /\ \A x \in Known : x \in Nat /\ x <= Len(runs)
  <2>1. listed \subseteq Known
    BY DEF Listed, Known, ToSet
  <2> QED
    BY <2>1, Typed DEF IInv
<1>3. asked \subseteq Known /\ r \in Known /\ r \in listed
  BY DEF Listed, Known, ToSet
<1>4. /\ DOMAIN back = asked /\ \A x \in asked : back[x] = Parent(runs[x])
      /\ \A x \in asked : back[x] = Back[x]
  BY <1>1, <1>3
<1>5. chain(r) = c /\ root(r) = IF back[Last(c)] # NoRun THEN back[Last(c)] ELSE Last(c)
  OBVIOUS
<1>6. Before(r) = ToSet(all)
  BY DEF Before, Back
<1>7. r \in asked
  OBVIOUS
<1>8. \A x \in listed : x \in asked \/ runs[x].mode = "SAVED_QUERY"
  OBVIOUS
<1> HIDE DEF asked, back, continued, chain, root, listed
<1>9. Descending(back)
  BY <1>1, <1>3, <1>4 DEF Descending
<1>10. BackFrom(back, r, MAX_TURNS, c) /\ BackFrom(Back, r, Len(runs), all)
  BY <1>1, <1>2, <1>3, <1>4, <1>7, <1>9, BackIs
<1> HIDE DEF c, all
<1>11. Len(c) <= Len(all) /\ \A i \in 1 .. Len(c) : c[i] = all[i]
  BY <1>1, <1>2, <1>3, <1>4, <1>7, <1>9, <1>10, BackPrefix
<1>12. /\ c \in Seq(Known) /\ Len(c) \in Nat \ {0} /\ Len(c) <= MAX_TURNS /\ Last(c) = oldest
       /\ oldest \in asked /\ oldest \in Known
       /\ back[oldest] \notin asked \/ Len(c) = MAX_TURNS
  <2>1. /\ c \in Seq(asked) /\ Len(c) \in 1 .. MAX_TURNS /\ \A i \in 1 .. Len(c) : c[i] \in asked
        /\ back[c[Len(c)]] \notin asked \/ Len(c) = MAX_TURNS
    BY <1>4, <1>10 DEF BackFrom
  <2>2. Len(c) \in 1 .. Len(c) /\ Len(c) \in Nat \ {0} /\ Len(c) <= MAX_TURNS
    BY <1>1, <2>1
  <2>3. c \in Seq(Known)
    BY <1>3, <2>1
  <2> QED
    BY <1>3, <2>1, <2>2, <2>3 DEF Last
<1> HIDE DEF oldest
<1>13. /\ all \in Seq(Known) /\ Len(all) \in Nat /\ Back[all[Len(all)]] \notin Known
       /\ (\A i \in 1 .. Len(all) : all[i] \in Known)
       /\ \A i \in 1 .. Len(all) - 1 : all[i + 1] = Back[all[i]]
  <2>1. Back[all[Len(all)]] \notin Known
    BY <1>1, <1>2, <1>3, <1>10, BackEnds
  <2> QED
    BY <1>1, <1>10, <2>1 DEF BackFrom
<1>14. /\ Len(c) \in 1 .. Len(all) /\ all[Len(c)] = oldest /\ back[oldest] = Back[oldest]
       /\ Len(c) < Len(all) => Len(c) \in 1 .. Len(all) - 1 /\ Len(c) + 1 \in 1 .. Len(all)
  BY <1>4, <1>11, <1>12, <1>13 DEF oldest
<1>15. oldest \in Before(r)
  BY <1>6, <1>13, <1>14 DEF ToSet
<1>16. Back[oldest] \in Known => Back[oldest] \in Before(r) /\ Len(c) < Len(all)
  <2> SUFFICES ASSUME Back[oldest] \in Known PROVE Back[oldest] \in Before(r) /\ Len(c) < Len(all)
    OBVIOUS
  <2>1. Len(c) < Len(all)
    BY <1>11, <1>12, <1>13, <1>14
  <2>2. Len(c) + 1 \in 1 .. Len(all) /\ all[Len(c) + 1] = Back[oldest]
    BY <1>13, <1>14, <2>1
  <2> QED
    BY <1>6, <1>13, <2>1, <2>2 DEF ToSet
<1>17. Back[oldest] = NoRun => Len(c) = Len(all)
  <2> SUFFICES ASSUME Back[oldest] = NoRun, Len(c) < Len(all) PROVE FALSE
    BY <1>11, <1>12, <1>13
  <2> QED
    BY <1>2, <1>13, <1>14
<1>18. ASSUME durable PROVE root(r) \in Before(r)
  BY <1>1, <1>5, <1>12, <1>14, <1>15, <1>16, <1>18 DEF Earlier
<1>19. Cardinality(Before(r)) = Len(all)
  <2>1. ASSUME NEW i \in 1 .. Len(all), NEW j \in 1 .. Len(all), i < j PROVE all[i] # all[j]
    <3>1. all[j] + (j - i) <= all[i]
      BY <1>10, <2>1 DEF BackFrom
    <3>2. all[i] \in Nat /\ all[j] \in Nat /\ j - i \in Nat \ {0}
      BY <1>2, <1>13, <2>1
    <3>3. \A x, y \in Nat, g \in Nat \ {0} : x + g <= y => x # y
      OBVIOUS
    <3> QED
      BY <3>1, <3>2, <3>3
  <2> QED
    BY <1>6, <1>13, <2>1, Counted
<1>20. ASSUME root(r) \in Known, Unbranched(r), Cardinality(Before(r)) <= ThreadLimit
       PROVE  LET t == Thread(runs, log, durable, root(r))
              IN  /\ Before(r) \subseteq ToSet(t)
                  /\ Before(r) \subseteq listed =>
                       Head(t) = root(r) /\ Len(c) = Cardinality(Before(r))
  <2> DEFINE t == Thread(runs, log, durable, root(r))
             whole == Reverse(all)
  <2>1. root(r) \in Before(r)
    BY <1>5, <1>12, <1>14, <1>15, <1>16, <1>20
  <2>2. Len(all) <= ThreadLimit
    BY <1>19, <1>20
  <2>3. /\ whole \in Seq(Known) /\ whole # <<>> /\ Before(r) = ToSet(whole)
        /\ IsWalk(Forth, whole, ThreadLimit, t)
    BY <1>3, <1>20, <2>1, <2>2, OpensTheSame DEF all
  <2>4. all # <<>>
    BY <1>13, <1>14
  <2>5. Len(whole) = Len(all) /\ Len(all) \in Nat \ {0} /\ whole[1] = all[Len(all)]
    <3>1. /\ Len(whole) = Len(all) /\ Len(all) \in Nat \ {0}
          /\ \A i \in 1 .. Len(all) : whole[i] = all[Len(all) - i + 1]
      BY <1>13, <2>4, ReverseIs
    <3>2. 1 \in 1 .. Len(all) /\ Len(all) - 1 + 1 = Len(all)
      BY <3>1
    <3> HIDE DEF whole
    <3> QED
      BY <3>1, <3>2
  <2> HIDE DEF whole, t
  <2>6. /\ t \in Seq(DOMAIN Forth) /\ Len(t) \in Nat /\ Len(whole) <= Len(t)
        /\ \A i \in 1 .. Len(whole) : t[i] = whole[i]
    BY <2>3 DEF IsWalk
  <2>7. Before(r) \subseteq ToSet(t)
    <3>1. ToSet(whole) = {whole[i] : i \in 1 .. Len(whole)} /\ ToSet(t) = {t[i] : i \in 1 .. Len(t)}
      BY <2>3, <2>6 DEF ToSet
    <3>2. \A i \in 1 .. Len(whole) : i \in 1 .. Len(t)
      BY <2>5, <2>6
    <3> QED
      BY <2>3, <2>6, <3>1, <3>2
  <2>8. ASSUME Before(r) \subseteq listed PROVE Head(t) = root(r) /\ Len(c) = Cardinality(Before(r))
    <3>1. back[oldest] \notin asked
      BY <1>1, <1>11, <1>12, <1>13, <2>2
    <3>2. Back[oldest] = NoRun
      <4> SUFFICES ASSUME Back[oldest] # NoRun PROVE FALSE
        OBVIOUS
      <4>1. Back[oldest] \in Known
        BY <1>5, <1>12, <1>14, <1>20
      <4>2. Back[oldest] \in listed
        BY <1>16, <2>8, <4>1
      <4>3. runs[Back[oldest]].mode # "SAVED_QUERY"
        BY <1>1, <1>12 DEF Earlier, EarlierAnswer
      <4> QED
        BY <1>8, <1>14, <3>1, <4>2, <4>3
    <3>3. root(r) = oldest /\ Len(c) = Len(all)
      BY <1>5, <1>12, <1>14, <1>17, <3>2
    <3>4. Head(t) = t[1] /\ t[1] = oldest
      BY <1>14, <2>5, <2>6, <3>3
    <3> QED
      BY <1>19, <3>3, <3>4
  <2> QED
    BY <2>7, <2>8 DEF t
<1>21. e.root = root(r) /\ e.last = r /\ e.turns = Len(c)
  BY <1>0, <1>5
<1> QED
  BY <1>18, <1>20, <1>21 DEF Opens, OpenedBy, listed

\* Every entry of the sidebar is named by a run its newest one comes from, and opening it, by
\* that run, shows every run the newest one comes from, while none of them was continued twice
\* and they are within the limit, whoever continued whose and whatever is kept and listed
\* (conversations in Sidebar.tsx, openItem in App.tsx, thread).
THEOREM SidebarAlwaysOpens == Spec => []SidebarOpensWhatItLists
<1> QED
  BY Invariant, SidebarHolds, PTL
=============================================================================
