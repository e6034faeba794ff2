--------------------------- MODULE QueryGatesProofs ---------------------------
(***************************************************************************)
(* Proofs about the query gates, for any catalog, any well-formed queries  *)
(* and any contents of the database: what a planned query answers shows    *)
(* nothing that is not queryable.                                          *)
(*                                                                         *)
(* The columns and the rows of a SELECT are recursive functions over the   *)
(* SELECTs before it. That a function solves such an equation is shown by  *)
(* taking the least SELECT, or source, up to which none does.              *)
(***************************************************************************)
EXTENDS QueryGatesProperties, FiniteSetTheorems, SequenceTheorems, WellFoundedInduction, TLAPS

\* Of a non-empty set of naturals one is the least.
LEMMA LeastOf ==
  ASSUME NEW S \in SUBSET Nat, S # {}
  PROVE  \E m \in S : \A s \in S : m <= s
<1>1. PICK m \in S : \A s \in S : ~ (<<s, m>> \in OpToRel(<, Nat))
  BY NatLessThanWellFounded, WFMin
<1>2. \A s \in S : ~ (s < m)
  BY <1>1 DEF OpToRel
<1> QED
  BY <1>2

LEMMA MinIs ==
  ASSUME NEW S \in SUBSET Nat, S # {}
  PROVE  Min(S) \in S
<1>1. \E m \in S : \A s \in S : m <= s
  BY LeastOf
<1> QED
  BY <1>1 DEF Min

-----------------------------------------------------------------------------
(***************************************************************************)
(* A query as a sequence.                                                  *)
(***************************************************************************)
LEMMA ScopesAre ==
  ASSUME NEW q, WellFormed(q)
  PROVE  /\ Len(q) \in Nat \ {0} /\ DOMAIN q = 1 .. Len(q)
         /\ \A k \in DOMAIN q : q[k] \in ToSet(q)
<1>1. q \in Seq(ToSet(q)) /\ q # <<>>
  BY DEF WellFormed
<1> QED
  BY <1>1, EmptySeq, LenProperties DEF ToSet

LEMMA SourcesAre ==
  ASSUME NEW q, WellFormed(q), NEW k \in DOMAIN q
  PROVE  /\ Len(q[k].from) \in Nat \ {0} /\ DOMAIN q[k].from = 1 .. Len(q[k].from)
         /\ \A n \in DOMAIN q[k].from : q[k].from[n] \in ToSet(q[k].from)
         /\ \A s \in ToSet(q[k].from) :
              /\ s.alias # "" /\ s.inner \in 0 .. k - 1
              /\ IsTable(s) \/ s.inner \in 1 .. k - 1
<1> DEFINE from == q[k].from
<1>1. WellFormedSelect(q[k], k) /\ k \in Nat \ {0}
  BY ScopesAre DEF WellFormed
<1>2. from \in Seq(ToSet(from)) /\ from # <<>>
  BY <1>1 DEF WellFormedSelect
<1>3. \A s \in ToSet(from) : s.inner \in 0 .. k - 1 /\ s.alias # ""
  BY <1>1 DEF WellFormedSelect
<1>4. Len(from) \in Nat \ {0} /\ DOMAIN from = 1 .. Len(from)
  BY <1>2, EmptySeq, LenProperties
<1>5. ToSet(from) = {from[n] : n \in DOMAIN from}
  BY DEF ToSet
<1>6. \A n \in DOMAIN from : from[n] \in ToSet(from)
  BY <1>5
<1> HIDE DEF from
<1>8. ASSUME NEW s \in ToSet(from) PROVE IsTable(s) \/ s.inner \in 1 .. k - 1
  <2>1. s.inner \in 0 .. k - 1
    BY <1>3
  <2> QED
    BY <1>1, <2>1 DEF IsTable
<1> QED
  BY <1>3, <1>4, <1>6, <1>8 DEF from

LEMMA AliasesDiffer ==
  ASSUME NEW q, WellFormed(q), NEW k \in DOMAIN q, NEW m \in DOMAIN q[k].from, NEW n \in DOMAIN q[k].from,
         q[k].from[m].alias = q[k].from[n].alias
  PROVE  m = n
BY DEF WellFormed, WellFormedSelect

\* A query that passes policy passes each of its parts.
LEMMA ValidatedParts ==
  ASSUME NEW q, WellFormed(q), Validate(q) = Allowed
  PROVE  /\ ValidateTables(q) = Allowed
         /\ \A k \in DOMAIN q : ValidateScopeColumns(q, k) = Allowed /\ ValidateJoins(q, k) = Allowed
<1> DEFINE L == Len(q)
           columns == [k \in DOMAIN q |-> ValidateScopeColumns(q, k)]
           joins == [k \in DOMAIN q |-> ValidateJoins(q, k)]
           tables == ValidateTables(q)
           verdicts == <<tables>> \o columns \o joins
           refusing == {n \in DOMAIN verdicts : verdicts[n] # Allowed}
<1>1. L \in Nat /\ DOMAIN q = 1 .. L
  BY ScopesAre
<1> DEFINE Members == {tables} \cup {columns[k] : k \in 1 .. L} \cup {joins[k] : k \in 1 .. L}
<1>2. columns \in Seq(Members) /\ joins \in Seq(Members) /\ <<tables>> \in Seq(Members)
  <2>1. columns \in [1 .. L -> Members] /\ joins \in [1 .. L -> Members]
    BY <1>1
  <2> QED
    BY <1>1, <2>1, SeqDef
<1>3. Len(columns) = L /\ Len(joins) = L
  BY <1>1
<1> HIDE DEF columns, joins, tables
<1>4. /\ DOMAIN verdicts = 1 .. 1 + L + L
      /\ verdicts[1] = tables
      /\ \A k \in 1 .. L : verdicts[1 + k] = columns[k] /\ verdicts[1 + L + k] = joins[k]
  <2> DEFINE first == <<tables>> \o columns
  <2> HIDE DEF Members
  <2>1. /\ first \in Seq(Members) /\ Len(first) = 1 + L
        /\ first[1] = tables
        /\ \A k \in 1 .. L : first[1 + k] = columns[k]
    BY <1>1, <1>2, <1>3
  <2> HIDE DEF first
  <2>2. /\ DOMAIN (first \o joins) = 1 .. 1 + L + L
        /\ \A n \in 1 .. 1 + L : (first \o joins)[n] = first[n]
        /\ \A k \in 1 .. L : (first \o joins)[1 + L + k] = joins[k]
    <3>1. /\ Len(first \o joins) = 1 + L + L /\ DOMAIN (first \o joins) = 1 .. 1 + L + L
          /\ \A n \in 1 .. 1 + L + L :
               (first \o joins)[n] = IF n <= 1 + L THEN first[n] ELSE joins[n - (1 + L)]
      <4>1. /\ first \o joins \in Seq(Members) /\ Len(first \o joins) = Len(first) + Len(joins)
            /\ \A n \in 1 .. Len(first) + Len(joins) :
                 (first \o joins)[n] = IF n <= Len(first) THEN first[n] ELSE joins[n - Len(first)]
        <5>1. first \in Seq(Members) /\ joins \in Seq(Members)
          BY <1>2, <2>1
        <5> QED
          BY <5>1, ConcatProperties, Zenon
      <4>2. DOMAIN (first \o joins) = 1 .. Len(first \o joins)
        BY <4>1, LenProperties
      <4> QED
        BY <1>3, <2>1, <4>1, <4>2
    <3>2. \A k \in 1 .. L : /\ 1 + L + k \in 1 .. 1 + L + L /\ ~(1 + L + k <= 1 + L)
                            /\ (1 + L + k) - (1 + L) = k
      BY <1>1
    <3> QED
      BY <1>1, <3>1, <3>2
  <2>3. verdicts = first \o joins
    BY DEF first
  <2> HIDE DEF verdicts
  <2> QED
    BY <1>1, <2>1, <2>2, <2>3
<1> HIDE DEF verdicts
<1>5. refusing = {}
  <2>1. SUFFICES ASSUME refusing # {} PROVE FALSE
    OBVIOUS
  <2>2. refusing \in SUBSET Nat
    BY <1>1, <1>4
  <2>3. Min(refusing) \in refusing
    BY <2>1, <2>2, MinIs
  <2>4. Validate(q) = verdicts[Min(refusing)]
    BY <2>1 DEF Validate, FirstRefusal, verdicts, columns, joins, tables
  <2> QED
    BY <2>3, <2>4
<1>6. \A n \in 1 .. 1 + L + L : verdicts[n] = Allowed
  BY <1>4, <1>5
<1>7. tables = Allowed /\ \A k \in 1 .. L : columns[k] = Allowed /\ joins[k] = Allowed
  BY <1>1, <1>4, <1>6
<1> QED
  BY <1>1, <1>7 DEF columns, joins, tables

-----------------------------------------------------------------------------
(***************************************************************************)
(* The columns of each SELECT.                                             *)
(***************************************************************************)
\* The relations of a FROM list depend on the SELECTs before it only.
LEMMA RelationsAgree ==
  ASSUME NEW q, WellFormed(q), NEW k \in DOMAIN q, NEW f, NEW g, \A j \in 1 .. k - 1 : f[j] = g[j]
  PROVE  Relations(q[k], f) = Relations(q[k], g)
<1> DEFINE from == q[k].from
           known == {s \in ToSet(from) : IsTable(s) => s.table \in Tables}
           The(a) == CHOOSE s \in known : s.alias = a
           Columns(a, h) == IF IsTable(The(a))
                            THEN [table |-> The(a).table, columns |-> Catalog[The(a).table].columns]
                            ELSE [table |-> "", columns |-> h[The(a).inner]]
           aliases == {s.alias : s \in known}
<1>1. \A s \in known : IsTable(s) \/ s.inner \in 1 .. k - 1
  BY SourcesAre
<1>2. \A a \in aliases : The(a) \in known
  OBVIOUS
<1>3. \A a \in aliases : Columns(a, f) = Columns(a, g)
  BY <1>1, <1>2
<1>4. /\ Relations(q[k], f) = [a \in aliases |-> Columns(a, f)]
      /\ Relations(q[k], g) = [a \in aliases |-> Columns(a, g)]
  BY DEF Relations
<1> HIDE DEF aliases, Columns
<1> QED
  BY <1>3, <1>4

\* The columns of the SELECTs of a query are one function of the query.
LEMMA OutputColumnsAre ==
  ASSUME NEW q, WellFormed(q)
  PROVE  OutputColumns(q) = [k \in DOMAIN q |-> Given(q[k], ScopeRelations(q, k))]
<1> DEFINE L == Len(q)
           Of(k, f) == Given(q[k], Relations(q[k], f))
           Solves(f, n) == \A k \in 1 .. n : f[k] = Of(k, f)
           Whole(f) == f = [k \in DOMAIN q |-> Of(k, f)]
<1>1. L \in Nat /\ DOMAIN q = 1 .. L
  BY ScopesAre
<1>2. ASSUME NEW k \in 1 .. L, NEW f, NEW g, \A j \in 1 .. k - 1 : f[j] = g[j]
      PROVE  Of(k, f) = Of(k, g)
  BY <1>1, <1>2, RelationsAgree
<1> HIDE DEF Of
<1>3. \A n \in 0 .. L : \E f : Solves(f, n)
  <2> DEFINE Bad == {n \in 0 .. L : ~ \E f : Solves(f, n)}
  <2>1. SUFFICES ASSUME Bad # {} PROVE FALSE
    OBVIOUS
  <2>2. Bad \in SUBSET Nat
    BY <1>1
  <2>3. PICK m \in Bad : \A n \in Bad : m <= n
    BY <2>1, <2>2, LeastOf
  <2>4. m \in 1 .. L /\ m - 1 \in 0 .. L
    <3>1. 0 \notin Bad
      OBVIOUS
    <3> QED
      BY <1>1, <2>3, <3>1
  <2>5. \E g : Solves(g, m - 1)
    <3> HIDE DEF Bad
    <3>1. m - 1 \notin Bad
      BY <2>3, <2>4
    <3> HIDE DEF Solves
    <3> QED
      BY <2>4, <3>1 DEF Bad
  <2>6. PICK g : Solves(g, m - 1)
    BY <2>5
  <2> DEFINE f == [k \in 1 .. L |-> IF k < m THEN g[k] ELSE Of(m, g)]
  <2>7. /\ \A k \in 1 .. m - 1 : f[k] = g[k]
        /\ f[m] = Of(m, g)
    BY <1>1, <2>4
  <2> HIDE DEF f
  <2>8. ASSUME NEW k \in 1 .. m PROVE f[k] = Of(k, f)
    <3>1. k \in 1 .. L /\ \A j \in 1 .. k - 1 : f[j] = g[j]
      BY <1>1, <2>4, <2>7
    <3>2. Of(k, f) = Of(k, g)
      BY <1>2, <3>1
    <3>3. CASE k \in 1 .. m - 1
      BY <2>6, <2>7, <3>2, <3>3
    <3>4. CASE k = m
      BY <2>7, <3>2, <3>4
    <3> QED
      BY <1>1, <2>4, <3>3, <3>4
  <2> QED
    BY <2>3, <2>8
<1>4. \E f : Whole(f)
  <2>1. PICK f : Solves(f, L)
    BY <1>1, <1>3
  <2> DEFINE h == [k \in DOMAIN q |-> f[k]]
  <2>2. \A k \in DOMAIN q : h[k] = Of(k, h)
    <3>1. ASSUME NEW k \in 1 .. L PROVE Of(k, h) = Of(k, f)
      <4>1. \A j \in 1 .. k - 1 : h[j] = f[j]
        BY <1>1
      <4> QED
        BY <1>2, <4>1
    <3> QED
      BY <1>1, <2>1, <3>1
  <2>3. h = [k \in DOMAIN q |-> Of(k, h)]
    BY <2>2
  <2> QED
    BY <2>3
<1>5. OutputColumns(q) = CHOOSE f : Whole(f)
  BY DEF OutputColumns, Of
<1>6. Whole(OutputColumns(q))
  BY <1>4, <1>5
<1> QED
  BY <1>6 DEF Of, ScopeRelations

\* When policy has let the tables through, each source is a relation of its SELECT.
LEMMA RelationsAre ==
  ASSUME NEW q, WellFormed(q), ValidateTables(q) = Allowed, NEW k \in DOMAIN q
  PROVE  LET from == q[k].from
             relations == ScopeRelations(q, k)
         IN  /\ DOMAIN relations = AliasesOf(q[k])
             /\ \A n \in DOMAIN from :
                  IF IsTable(from[n])
                  THEN /\ from[n].table \in Tables /\ Catalog[from[n].table].queryable
                       /\ relations[from[n].alias] = [table |-> from[n].table,
                                                      columns |-> Catalog[from[n].table].columns]
                  ELSE relations[from[n].alias] = [table |-> "",
                                                   columns |-> OutputColumns(q)[from[n].inner]]
<1> DEFINE from == q[k].from
           relations == ScopeRelations(q, k)
           known == {s \in ToSet(from) : IsTable(s) => s.table \in Tables}
<1>1. \A n \in DOMAIN from : from[n] \in ToSet(from)
  BY SourcesAre
<1>2. \A s \in ToSet(from) : \E n \in DOMAIN from : s = from[n]
  BY DEF ToSet
<1>3. ASSUME NEW m \in DOMAIN from, NEW n \in DOMAIN from, from[m].alias = from[n].alias PROVE m = n
  BY <1>3, AliasesDiffer
<1>4. \A s \in ToSet(from) : IsTable(s) => s.table \in Tables /\ Catalog[s.table].queryable
  <2>1. ASSUME NEW s \in ToSet(from), IsTable(s) PROVE s.table \in Tables /\ Catalog[s.table].queryable
    <3>1. s \in Sources(q)
      BY ScopesAre DEF Sources
    <3>2. s.table \in TablesRead(q)
      BY <2>1, <3>1 DEF TablesRead
    <3>3. s.table \in TablesRead(q) \ CteNames(q)
      BY <3>2 DEF WellFormed
    <3> QED
      BY <3>3 DEF ValidateTables, Allowed
  <2> QED
    BY <2>1
<1>5. known = ToSet(from)
  BY <1>4
<1> DEFINE Relation(s) == IF IsTable(s) THEN [table |-> s.table, columns |-> Catalog[s.table].columns]
                          ELSE [table |-> "", columns |-> OutputColumns(q)[s.inner]]
           The(a) == CHOOSE s \in ToSet(from) : s.alias = a
<1>6. relations = [a \in {s.alias : s \in ToSet(from)} |-> Relation(The(a))]
  BY <1>5 DEF ScopeRelations, Relations
<1> HIDE DEF from, relations
<1>7. ASSUME NEW n \in DOMAIN from PROVE The(from[n].alias) = from[n]
  BY <1>1, <1>2, <1>3
<1>8. {s.alias : s \in ToSet(from)} = {from[n].alias : n \in DOMAIN from}
  BY <1>1, <1>2
<1> HIDE DEF Relation, The
<1>9. \A n \in DOMAIN from : relations[from[n].alias] = Relation(from[n])
  BY <1>6, <1>7, <1>8
<1>10. \A n \in DOMAIN from : IsTable(from[n]) => from[n].table \in Tables /\ Catalog[from[n].table].queryable
  BY <1>1, <1>4
<1>11. DOMAIN relations = AliasesOf(q[k])
  BY <1>6 DEF AliasesOf, from
<1> QED
  BY <1>9, <1>10, <1>11 DEF relations, from, Relation
-----------------------------------------------------------------------------
(***************************************************************************)
(* The rows of each SELECT.                                                *)
(***************************************************************************)
\* The rows a SELECT reads depend on the SELECTs before it only.
LEMMA SourceRowsAgree ==
  ASSUME NEW q, WellFormed(q), NEW k \in DOMAIN q, NEW db, NEW f, NEW g, \A j \in 1 .. k - 1 : f[j] = g[j]
  PROVE  SourceRows(q[k], db, f) = SourceRows(q[k], db, g)
<1> DEFINE from == q[k].from
           Rows(s, h) == IF IsTable(s) THEN TableRows(db, s.table) ELSE h[s.inner]
<1>1. \A n \in DOMAIN from : IsTable(from[n]) \/ from[n].inner \in 1 .. k - 1
  BY SourcesAre
<1>2. \A n \in DOMAIN from : Rows(from[n], f) = Rows(from[n], g)
  BY <1>1
<1>3. /\ SourceRows(q[k], db, f) = [n \in DOMAIN from |-> Rows(from[n], f)]
      /\ SourceRows(q[k], db, g) = [n \in DOMAIN from |-> Rows(from[n], g)]
  BY DEF SourceRows
<1> HIDE DEF from, Rows
<1> QED
  BY <1>2, <1>3

\* The rows of the SELECTs of a query are one function of the query and the contents.
LEMMA AnswersAre ==
  ASSUME NEW q, WellFormed(q), NEW db
  PROVE  Answers(q, db) =
           [k \in DOMAIN q |-> RowsOf(q[k], BindingsOf(q[k], db, OutputColumns(q), Answers(q, db)))]
<1> DEFINE L == Len(q)
           Of(k, f) == RowsOf(q[k], BindingsOf(q[k], db, OutputColumns(q), f))
           Solves(f, n) == \A k \in 1 .. n : f[k] = Of(k, f)
           Whole(f) == f = [k \in DOMAIN q |-> Of(k, f)]
<1>1. L \in Nat /\ DOMAIN q = 1 .. L
  BY ScopesAre
<1>2. ASSUME NEW k \in 1 .. L, NEW f, NEW g, \A j \in 1 .. k - 1 : f[j] = g[j]
      PROVE  Of(k, f) = Of(k, g)
  <2>1. SourceRows(q[k], db, f) = SourceRows(q[k], db, g)
    BY <1>1, <1>2, SourceRowsAgree
  <2> QED
    BY <2>1 DEF BindingsOf
<1> HIDE DEF Of
<1>3. \A n \in 0 .. L : \E f : Solves(f, n)
  <2> DEFINE Bad == {n \in 0 .. L : ~ \E f : Solves(f, n)}
  <2>1. SUFFICES ASSUME Bad # {} PROVE FALSE
    OBVIOUS
  <2>2. Bad \in SUBSET Nat
    BY <1>1
  <2>3. PICK m \in Bad : \A n \in Bad : m <= n
    BY <2>1, <2>2, LeastOf
  <2>4. m \in 1 .. L /\ m - 1 \in 0 .. L
    <3>1. 0 \notin Bad
      OBVIOUS
    <3> QED
      BY <1>1, <2>3, <3>1
  <2>5. \E g : Solves(g, m - 1)
    <3> HIDE DEF Bad
    <3>1. m - 1 \notin Bad
      BY <2>3, <2>4
    <3> HIDE DEF Solves
    <3> QED
      BY <2>4, <3>1 DEF Bad
  <2>6. PICK g : Solves(g, m - 1)
    BY <2>5
  <2> DEFINE f == [k \in 1 .. L |-> IF k < m THEN g[k] ELSE Of(m, g)]
  <2>7. /\ \A k \in 1 .. m - 1 : f[k] = g[k]
        /\ f[m] = Of(m, g)
    BY <1>1, <2>4
  <2> HIDE DEF f
  <2>8. ASSUME NEW k \in 1 .. m PROVE f[k] = Of(k, f)
    <3>1. k \in 1 .. L /\ \A j \in 1 .. k - 1 : f[j] = g[j]
      BY <1>1, <2>4, <2>7
    <3>2. Of(k, f) = Of(k, g)
      BY <1>2, <3>1
    <3>3. CASE k \in 1 .. m - 1
      BY <2>6, <2>7, <3>2, <3>3
    <3>4. CASE k = m
      BY <2>7, <3>2, <3>4
    <3> QED
      BY <1>1, <2>4, <3>3, <3>4
  <2> QED
    BY <2>3, <2>8
<1>4. \E f : Whole(f)
  <2>1. PICK f : Solves(f, L)
    BY <1>1, <1>3
  <2> DEFINE h == [k \in DOMAIN q |-> f[k]]
  <2>2. \A k \in DOMAIN q : h[k] = Of(k, h)
    <3>1. ASSUME NEW k \in 1 .. L PROVE Of(k, h) = Of(k, f)
      <4>1. \A j \in 1 .. k - 1 : h[j] = f[j]
        BY <1>1
      <4> QED
        BY <1>2, <4>1
    <3> QED
      BY <1>1, <2>1, <3>1
  <2>3. h = [k \in DOMAIN q |-> Of(k, h)]
    BY <2>2
  <2> QED
    BY <2>3
<1>5. Answers(q, db) = CHOOSE f : Whole(f)
  BY DEF Answers, Of
<1>6. Whole(Answers(q, db))
  BY <1>4, <1>5
<1> QED
  BY <1>6 DEF Of

\* The FROM list is joined one source at a time.
LEMMA JoinedAre ==
  ASSUME NEW p, Len(p.from) \in Nat, NEW rows, NEW columns
  PROVE  LET joined == JoinedSources(p, rows, columns) IN
         /\ joined[0] = {NoBinding}
         /\ \A n \in 1 .. Len(p.from) :
              joined[n] = UNION {JoinedTo(b, p.from[n], rows[n], columns[n]) : b \in joined[n - 1]}
<1> DEFINE L == Len(p.from)
           Step(n, before) == UNION {JoinedTo(b, p.from[n], rows[n], columns[n]) : b \in before}
           Of(n, f) == IF n = 0 THEN {NoBinding} ELSE Step(n, f[n - 1])
           Solves(f, n) == \A k \in 0 .. n : f[k] = Of(k, f)
           Whole(f) == f = [n \in 0 .. L |-> Of(n, f)]
           joined == JoinedSources(p, rows, columns)
<1>1. joined = CHOOSE f : Whole(f)
  BY DEF JoinedSources
<1>2. L \in Nat
  OBVIOUS
<1> HIDE DEF Step, L
<1>3. \A n \in 0 .. L : \E f : Solves(f, n)
  <2> DEFINE Bad == {n \in 0 .. L : ~ \E f : Solves(f, n)}
  <2>1. SUFFICES ASSUME Bad # {} PROVE FALSE
    OBVIOUS
  <2>2. Bad \in SUBSET Nat
    BY <1>2
  <2>3. PICK m \in Bad : \A n \in Bad : m <= n
    BY <2>1, <2>2, LeastOf
  <2>4. m \in 1 .. L /\ m - 1 \in 0 .. L
    <3>1. 0 \notin Bad
      <4> DEFINE f == [n \in 0 .. 0 |-> {NoBinding}]
      <4>1. Solves(f, 0)
        OBVIOUS
      <4> QED
        BY <4>1
    <3>2. m \in 0 .. L
      BY <2>3
    <3> HIDE DEF Bad
    <3>3. m # 0
      BY <2>3, <3>1
    <3> QED
      BY <1>2, <3>2, <3>3
  <2>5. \E g : Solves(g, m - 1)
    <3> HIDE DEF Bad
    <3>1. m - 1 \notin Bad
      BY <2>3, <2>4
    <3> HIDE DEF Solves
    <3> QED
      BY <2>4, <3>1 DEF Bad
  <2>6. PICK g : Solves(g, m - 1)
    BY <2>5
  <2> DEFINE f == [n \in 0 .. L |-> IF n < m THEN g[n] ELSE Step(m, g[m - 1])]
  <2>7. /\ \A n \in 0 .. m - 1 : f[n] = g[n]
        /\ f[m] = Step(m, g[m - 1])
    BY <1>2, <2>4
  <2> HIDE DEF f
  <2>8. ASSUME NEW n \in 0 .. m PROVE f[n] = Of(n, f)
    <3>1. CASE n \in 0 .. m - 1
      <4>1. f[n] = g[n] /\ g[n] = Of(n, g)
        BY <2>6, <2>7, <3>1
      <4>2. n # 0 => f[n - 1] = g[n - 1]
        BY <1>2, <2>4, <2>7, <3>1
      <4> QED
        BY <4>1, <4>2
    <3>2. CASE n = m
      BY <1>2, <2>4, <2>7, <3>2
    <3> QED
      BY <1>2, <2>4, <3>1, <3>2
  <2> QED
    BY <2>3, <2>8
<1>4. \E f : Whole(f)
  <2>1. L \in 0 .. L
    BY <1>2
  <2>2. \E f : Solves(f, L)
    <3> HIDE DEF Solves
    <3> QED
      BY <1>3, <2>1
  <2>3. PICK f : Solves(f, L)
    BY <2>2
  <2> DEFINE h == [n \in 0 .. L |-> f[n]]
  <2>4. ASSUME NEW n \in 0 .. L PROVE h[n] = Of(n, h)
    <3>1. h[n] = f[n] /\ f[n] = Of(n, f)
      BY <2>3
    <3>2. n # 0 => h[n - 1] = f[n - 1]
      BY <1>2
    <3> HIDE DEF h
    <3> QED
      BY <3>1, <3>2
  <2>5. h = [n \in 0 .. L |-> Of(n, h)]
    BY <2>4
  <2> QED
    BY <2>5
<1>5. Whole(joined)
  BY <1>1, <1>4
<1> HIDE DEF joined
<1>6. /\ joined[0] = {NoBinding}
      /\ \A n \in 1 .. L : joined[n] = Step(n, joined[n - 1])
  <2>1. \A n \in 0 .. L : joined[n] = Of(n, joined)
    <3> HIDE DEF Of
    <3> QED
      BY <1>5
  <2>2. 0 \in 0 .. L /\ \A n \in 1 .. L : n \in 0 .. L /\ n # 0
    BY <1>2
  <2> QED
    BY <2>1, <2>2
<1> QED
  BY <1>6 DEF joined, Step, L
-----------------------------------------------------------------------------
(***************************************************************************)
(* The rows of a FROM list: each has its relation's columns, and of those  *)
(* that are not hidden only what is queryable, unless some output of the   *)
(* query is a row that has a hidden column.                                *)
(***************************************************************************)
Clean(q, cell) == ShowsAHidingRow(q) \/ \A m \in DOMAIN cell.counts : Queryable(m)

Shown(relation) ==
  IF relation.table = "" THEN relation.columns ELSE relation.columns \ Catalog[relation.table].hidden

Fits(q, row, relation) ==
  DOMAIN row.cells = relation.columns /\ \A c \in Shown(relation) : Clean(q, row.cells[c])

Binds(q, b, relations) ==
  DOMAIN b = DOMAIN relations /\ \A a \in DOMAIN relations : Fits(q, b[a], relations[a])

LEMMA TableRowsFit ==
  ASSUME NEW q, NEW t \in Tables, Catalog[t].queryable, NEW db, NEW row \in TableRows(db, t)
  PROVE  Fits(q, row, [table |-> t, columns |-> Catalog[t].columns])
<1> DEFINE cells(n) == [c \in Catalog[t].columns |-> Cell(db[t][n][c], SetToBag({<<t, c, n>>}))]
<1>1. PICK n \in DOMAIN db[t] : row = [of |-> <<n>>, cells |-> cells(n)]
  BY DEF TableRows
<1>2. row.cells = cells(n)
  BY <1>1
<1>3. ASSUME NEW c \in Catalog[t].columns \ Catalog[t].hidden PROVE Clean(q, row.cells[c])
  <2>1. row.cells[c].counts = SetToBag({<<t, c, n>>})
    BY <1>2 DEF Cell
  <2>2. DOMAIN row.cells[c].counts = {<<t, c, n>>}
    BY <2>1 DEF SetToBag
  <2>3. Queryable(<<t, c, n>>)
    BY DEF Queryable
  <2> QED
    BY <2>2, <2>3 DEF Clean
<1>4. DOMAIN row.cells = Catalog[t].columns
  BY <1>2
<1>5. t # ""
  BY CatalogAssumption
<1> QED
  BY <1>3, <1>4, <1>5 DEF Fits, Shown

LEMMA MissingRowFits ==
  ASSUME NEW q, NEW relation
  PROVE  Fits(q, MissingRow(relation.columns), relation)
<1> DEFINE row == MissingRow(relation.columns)
<1>1. row.cells = [c \in relation.columns |-> Missing]
  BY DEF MissingRow
<1>2. DOMAIN Missing.counts = {}
  BY DEF Missing, Cell, EmptyBag, SetToBag
<1>3. Clean(q, Missing)
  BY <1>2 DEF Clean
<1>4. Shown(relation) \subseteq relation.columns
  BY DEF Shown
<1> HIDE DEF row
<1>5. \A c \in relation.columns : row.cells[c] = Missing
  BY <1>1
<1>6. DOMAIN row.cells = relation.columns
  BY <1>1
<1>7. Fits(q, row, relation)
  BY <1>3, <1>4, <1>5, <1>6 DEF Fits
<1> QED
  BY <1>7 DEF row

\* Joining one more source adds its row, or a missing one, to the binding.
LEMMA JoinedToIs ==
  ASSUME NEW b, NEW s, NEW rows, NEW columns, NEW e \in JoinedTo(b, s, rows, columns)
  PROVE  \E row \in rows \cup {MissingRow(columns)} : e = Bind(b, s.alias, row)
BY DEF JoinedTo

LEMMA JoinedFit ==
  ASSUME NEW q, NEW p, Len(p.from) \in Nat, NEW relations, NEW rows, NEW columns,
         \A n \in 1 .. Len(p.from) : columns[n] = relations[p.from[n].alias].columns,
         \A n \in 1 .. Len(p.from) : \A row \in rows[n] : Fits(q, row, relations[p.from[n].alias])
  PROVE  \A b \in JoinedSources(p, rows, columns)[Len(p.from)] :
           /\ DOMAIN b = {p.from[n].alias : n \in 1 .. Len(p.from)}
           /\ \A a \in DOMAIN b : Fits(q, b[a], relations[a])
<1> DEFINE L == Len(p.from)
           joined == JoinedSources(p, rows, columns)
           Of(b, n) == /\ DOMAIN b = {p.from[m].alias : m \in 1 .. n}
                       /\ \A a \in DOMAIN b : Fits(q, b[a], relations[a])
           Good(n) == \A b \in joined[n] : Of(b, n)
           Bad == {n \in 0 .. L : ~Good(n)}
<1>1. /\ joined[0] = {NoBinding}
      /\ \A n \in 1 .. L :
           joined[n] = UNION {JoinedTo(b, p.from[n], rows[n], columns[n]) : b \in joined[n - 1]}
  BY JoinedAre
<1>2. \A n \in 1 .. L : columns[n] = relations[p.from[n].alias].columns
  OBVIOUS
<1>3. \A n \in 1 .. L : \A row \in rows[n] : Fits(q, row, relations[p.from[n].alias])
  OBVIOUS
<1>4. L \in Nat
  OBVIOUS
<1> HIDE DEF L, joined
<1>5. Bad = {}
  <2>1. SUFFICES ASSUME Bad # {} PROVE FALSE
    OBVIOUS
  <2>2. Bad \in SUBSET Nat
    BY <1>4
  <2>3. PICK m \in Bad : \A n \in Bad : m <= n
    BY <2>1, <2>2, LeastOf
  <2>4. Good(0)
    <3>1. DOMAIN NoBinding = {}
      BY DEF NoBinding
    <3> QED
      BY <1>1, <3>1
  <2>5. m \in 1 .. L /\ m - 1 \in 0 .. L
    <3> HIDE DEF Good
    <3> QED
      BY <1>4, <2>3, <2>4
  <2>6. Good(m - 1)
    <3> HIDE DEF Bad
    <3>1. m - 1 \notin Bad
      BY <2>3, <2>5
    <3> HIDE DEF Good
    <3> QED
      BY <2>5, <3>1 DEF Bad
  <2>7. ASSUME NEW e \in joined[m] PROVE Of(e, m)
    <3> DEFINE alias == p.from[m].alias
    <3>1. PICK b \in joined[m - 1] : e \in JoinedTo(b, p.from[m], rows[m], columns[m])
      BY <1>1, <2>5, <2>7
    <3>2. PICK row \in rows[m] \cup {MissingRow(columns[m])} : e = Bind(b, alias, row)
      BY <3>1, JoinedToIs
    <3>3. Fits(q, row, relations[alias])
      <4>1. CASE row \in rows[m]
        BY <1>3, <2>5, <4>1
      <4>2. CASE row = MissingRow(columns[m])
        <5>1. row = MissingRow(relations[alias].columns)
          BY <1>2, <2>5, <4>2
        <5> HIDE DEF alias
        <5> QED
          BY <5>1, MissingRowFits
      <4> QED
        BY <3>2, <4>1, <4>2
    <3>4. Of(b, m - 1)
      BY <2>6, <3>1
    <3>5. e = [a \in DOMAIN b \cup {alias} |-> IF a = alias THEN row ELSE b[a]]
      BY <3>2 DEF Bind
    <3>6. 1 .. m = (1 .. m - 1) \cup {m}
      BY <2>5
    <3>7. DOMAIN e = {p.from[n].alias : n \in 1 .. m}
      BY <3>4, <3>5, <3>6
    <3>8. ASSUME NEW a \in DOMAIN e PROVE Fits(q, e[a], relations[a])
      <4>1. CASE a = alias
        BY <3>3, <3>5, <4>1
      <4>2. CASE a # alias
        BY <3>4, <3>5, <3>8, <4>2
      <4> QED
        BY <4>1, <4>2
    <3> QED
      BY <3>7, <3>8
  <2> QED
    BY <2>3, <2>7
<1>6. Good(L)
  <2>1. L \in 0 .. L
    BY <1>4
  <2> HIDE DEF Good
  <2> QED
    BY <1>5, <2>1
<1> QED
  BY <1>6 DEF L, joined
-----------------------------------------------------------------------------
(***************************************************************************)
(* What a SELECT that passes policy makes of such rows.                    *)
(***************************************************************************)
\* A row all of whose columns are clean is clean as one value.
LEMMA WholeRowClean ==
  ASSUME NEW q, NEW row, \A c \in DOMAIN row.cells : Clean(q, row.cells[c])
  PROVE  Clean(q, WholeRow(row))
<1> DEFINE val == IF row.of = <<>> THEN Null ELSE Vals(row)
           counted == UNION {DOMAIN row.cells[c].counts : c \in DOMAIN row.cells}
           counts == [m \in counted |-> Max({Copies(m, row.cells[c].counts) : c \in DOMAIN row.cells})]
<1>1. WholeRow(row) = Cell(val, counts)
  BY DEF WholeRow
<1>2. ShowsAHidingRow(q) \/ \A m \in counted : Queryable(m)
  BY DEF Clean
<1>3. DOMAIN counts = counted
  OBVIOUS
<1> HIDE DEF val, counts, counted
<1>4. WholeRow(row).counts = counts
  BY <1>1 DEF Cell
<1> QED
  BY <1>2, <1>3, <1>4 DEF Clean

\* A value that policy knows and does not deny is clean, a row that shows no hidden column too.
LEMMA ValueClean ==
  ASSUME NEW q, NEW relations, NEW b, Binds(q, b, relations), NEW ref,
         ~UnknownColumn(relations, ref), ~ColumnDenied(relations, ref),
         RowHidesAColumn(relations, ref) => ShowsAHidingRow(q)
  PROVE  Clean(q, Value(b, ref))
<1>0. SUFFICES ASSUME ~ShowsAHidingRow(q) PROVE Clean(q, Value(b, ref))
  BY DEF Clean
<1>0a. ~RowHidesAColumn(relations, ref)
  BY <1>0
<1>1. Resolve(relations, ref) # {}
  BY DEF UnknownColumn
<1>2. DOMAIN b = DOMAIN relations /\ \A a \in DOMAIN relations : DOMAIN b[a].cells = relations[a].columns
  BY DEF Binds, Fits
<1>3. \A a \in DOMAIN relations : \A c \in Shown(relations[a]) : Clean(q, b[a].cells[c])
  BY DEF Binds, Fits
<1> DEFINE owners == IF ref.q # "" THEN {ref.q} ELSE {a \in DOMAIN b : Has(b, a, ref.c)}
           owner == CHOOSE a \in owners : TRUE
<1>4. Value(b, ref) = IF owners = {} THEN WholeRow(b[ref.c])
                      ELSE IF \E x, y \in owners : x # y THEN Missing
                      ELSE b[owner].cells[ref.c]
  BY DEF Value
<1>5. CASE owners = {}
  <2>1. ref.q = "" /\ Owners(relations, ref.c) = {}
    BY <1>2, <1>5 DEF Has, Owners
  <2>2. ref.c \in DOMAIN relations
    BY <1>1, <2>1 DEF Resolve
  <2>3. ref.c \notin relations[ref.c].columns
    BY <2>1, <2>2 DEF Owners
  <2>4. ~HidesAColumn(relations[ref.c])
    BY <1>0a, <2>1, <2>2, <2>3 DEF RowHidesAColumn
  <2>5. \A c \in DOMAIN b[ref.c].cells : Clean(q, b[ref.c].cells[c])
    BY <1>2, <1>3, <2>2, <2>4 DEF HidesAColumn, Shown
  <2> QED
    BY <1>4, <1>5, <2>5, WholeRowClean
<1>6. ASSUME owners # {} PROVE Clean(q, b[owner].cells[ref.c])
  <2>1. owner \in owners
    BY <1>6
  <2>2. owner \in DOMAIN relations /\ ref.q # "" => owner = ref.q
    BY <1>1, <1>2, <2>1 DEF Resolve
  <2> HIDE DEF owner
  <2>3. owner \in DOMAIN relations /\ ref.c \in relations[owner].columns
    BY <1>1, <1>2, <2>1 DEF Has, Resolve, UnknownColumn
  <2>4. owner \notin Resolve(relations, ref) =>
          ref.q = "" /\ ref.c \in DOMAIN relations /\ owner # ref.c
    BY <1>1, <1>2, <2>1, <2>3 DEF Resolve, Owners
  <2>5. relations[owner].table = "" \/ ref.c \notin Catalog[relations[owner].table].hidden
    BY <1>0a, <2>3, <2>4 DEF ColumnDenied, RowHidesAColumn, HidesAColumn
  <2>6. ref.c \in Shown(relations[owner])
    BY <2>3, <2>5 DEF Shown
  <2> QED
    BY <1>3, <1>4, <1>6, <2>3, <2>6 DEF owner
<1>7. Clean(q, Missing)
  <2>1. Missing.counts = EmptyBag /\ DOMAIN EmptyBag = {}
    BY DEF Missing, Cell, EmptyBag, SetToBag
  <2> QED
    BY <2>1 DEF Clean
<1> QED
  BY <1>4, <1>5, <1>6, <1>7

\* A star that policy lets through gives the columns of its relations, all of them clean.
LEMMA StarFits ==
  ASSUME NEW q, NEW relations, "" \notin DOMAIN relations, NEW b, Binds(q, b, relations),
         NEW i, i.of.q \in DOMAIN relations \cup {""}, ~StarDenied(relations, i)
  PROVE  /\ DOMAIN Spelt(b, i) = UNION {relations[a].columns : a \in
                                   IF i.of.q \in DOMAIN relations THEN {i.of.q} ELSE DOMAIN relations}
         /\ \A c \in DOMAIN Spelt(b, i) : Clean(q, Spelt(b, i)[c])
<1> DEFINE of == IF i.of.q = "" THEN DOMAIN b ELSE {i.of.q}
           columns == UNION {DOMAIN b[a].cells : a \in of}
           owner(c) == CHOOSE a \in of : Has(b, a, c)
<1>1. DOMAIN b = DOMAIN relations /\ \A a \in DOMAIN relations : DOMAIN b[a].cells = relations[a].columns
  BY DEF Binds, Fits
<1>2. /\ of = IF i.of.q \in DOMAIN relations THEN {i.of.q} ELSE DOMAIN relations
      /\ of \subseteq DOMAIN relations
      /\ \A a \in of : i.of.q \in {"", a}
  BY <1>1
<1>3. Spelt(b, i) = [c \in columns |-> b[owner(c)].cells[c]]
  BY DEF Spelt
<1>4. \A a \in of : relations[a].table = "" \/ Catalog[relations[a].table].hidden = {}
  BY <1>2 DEF StarDenied, HidesAColumn
<1> HIDE DEF of
<1>5. columns = UNION {relations[a].columns : a \in of}
  <2>1. \A a \in of : DOMAIN b[a].cells = relations[a].columns
    BY <1>1, <1>2
  <2> QED
    BY <2>1, Zenon
<1>6. ASSUME NEW c \in columns PROVE Clean(q, b[owner(c)].cells[c])
  <2>1. \E a \in of : Has(b, a, c)
    BY <1>6 DEF Has
  <2>2. owner(c) \in of /\ Has(b, owner(c), c)
    BY <2>1
  <2> HIDE DEF owner
  <2>3. owner(c) \in DOMAIN relations /\ c \in relations[owner(c)].columns
    BY <1>1, <1>2, <2>2 DEF Has
  <2>4. c \in Shown(relations[owner(c)])
    BY <1>4, <2>2, <2>3 DEF Shown
  <2> QED
    BY <2>3, <2>4 DEF Binds, Fits
<1> HIDE DEF columns, owner
<1>7. DOMAIN Spelt(b, i) = columns /\ \A c \in columns : Clean(q, Spelt(b, i)[c])
  BY <1>3, <1>6
<1> QED
  BY <1>2, <1>5, <1>7

\* A total counts only what the cells it reads count.
LEMMA TotalClean ==
  ASSUME NEW q, NEW i, NEW bindings, i.agg = "count" \/ \A b \in bindings : Clean(q, Value(b, i.of))
  PROVE  Clean(q, Total(i, bindings))
<1> DEFINE Read(b) == Value(b, i.of)
           total == MapThenSumSet(LAMBDA b : Read(b).val, bindings)
           counts == [m \in UNION {DOMAIN Read(b).counts : b \in bindings} |->
                        MapThenSumSet(LAMBDA b : Copies(m, Read(b).counts), bindings)]
<1>1. Total(i, bindings) =
        IF i.agg = "count" THEN Cell(Cardinality(bindings), EmptyBag)
        ELSE IF bindings = {} THEN Missing
        ELSE Cell(IF i.agg = "avg" THEN total \div Cardinality(bindings) ELSE total, counts)
  BY DEF Total
<1>2. DOMAIN counts = UNION {DOMAIN Read(b).counts : b \in bindings}
  OBVIOUS
<1> HIDE DEF total, counts
<1>3. DOMAIN EmptyBag = {}
  BY DEF EmptyBag, SetToBag
<1>4. ASSUME NEW val PROVE Cell(val, EmptyBag).counts = EmptyBag /\ Cell(val, counts).counts = counts
  BY DEF Cell
<1>5. \A val : Clean(q, Cell(val, EmptyBag))
  BY <1>3, <1>4 DEF Clean
<1>6. CASE i.agg = "count"
  BY <1>1, <1>5, <1>6
<1>7. CASE i.agg # "count"
  <2>1. \A val : Clean(q, Cell(val, counts))
    BY <1>2, <1>4, <1>7 DEF Clean
  <2>2. Clean(q, Missing)
    BY <1>5 DEF Missing
  <2> QED
    BY <1>1, <1>7, <2>1, <2>2
<1> QED
  BY <1>6, <1>7

LEMMA AggregateClean ==
  ASSUME NEW q, NEW i, NEW group, CountsRows(i) \/ \A b \in group : Clean(q, Value(b, i.of))
  PROVE  Clean(q, Aggregate(i, group))
<1> DEFINE some == {b \in group : CountsRows(i) \/ Value(b, i.of).val # Null}
           counted == IF i.dist THEN OnePerValue(some, i.of) ELSE some
<1>1. OnePerValue(some, i.of) \subseteq some
  <2> HIDE DEF some
  <2> QED
    BY DEF OnePerValue
<1>2. counted \subseteq group
  BY <1>1
<1>3. Aggregate(i, group) = Total(i, counted)
  BY DEF Aggregate
<1> HIDE DEF counted
<1>4. i.agg = "count" \/ \A b \in counted : Clean(q, Value(b, i.of))
  BY <1>2 DEF CountsRows
<1> QED
  BY <1>3, <1>4, TotalClean
-----------------------------------------------------------------------------
\* The relations of a SELECT are its sources.
LEMMA RelationsAreSources ==
  ASSUME NEW q, WellFormed(q), ValidateTables(q) = Allowed, NEW k \in DOMAIN q
  PROVE  DOMAIN ScopeRelations(q, k) = AliasesOf(q[k]) /\ "" \notin DOMAIN ScopeRelations(q, k)
<1>1. DOMAIN ScopeRelations(q, k) = AliasesOf(q[k])
  BY RelationsAre
<1>2. \A s \in ToSet(q[k].from) : s.alias # ""
  BY SourcesAre
<1> QED
  BY <1>1, <1>2 DEF AliasesOf

\* What policy and the language require of an output.
LEMMA OutputsAdmitted ==
  ASSUME NEW q, WellFormed(q), Validate(q) = Allowed, NEW k \in DOMAIN q, NEW i \in ToSet(q[k].items)
  PROVE  /\ IsStar(i) => /\ i.of.q \in DOMAIN ScopeRelations(q, k) \cup {""}
                         /\ ~StarDenied(ScopeRelations(q, k), i)
         /\ ~IsStar(i) /\ ~CountsRows(i) =>
              /\ ~UnknownColumn(ScopeRelations(q, k), i.of)
              /\ ~ColumnDenied(ScopeRelations(q, k), i.of)
<1> DEFINE relations == ScopeRelations(q, k)
<1>1. ValidateTables(q) = Allowed /\ ValidateScopeColumns(q, k) = Allowed
  BY ValidatedParts
<1>2. /\ \A ref \in ColumnsRead(q[k]) : ~UnknownColumn(relations, ref) /\ ~ColumnDenied(relations, ref)
      /\ \A j \in ToSet(q[k].items) : ~(IsStar(j) /\ StarDenied(relations, j))
  BY <1>1 DEF ValidateScopeColumns, Allowed
<1>3. DOMAIN relations = AliasesOf(q[k])
  BY <1>1, RelationsAreSources
<1>4. IsStar(i) => i.of.q \in AliasesOf(q[k]) \cup {""}
  BY DEF WellFormed, WellFormedSelect
<1>5. ~IsStar(i) /\ ~CountsRows(i) => i.of \in ColumnsRead(q[k])
  BY DEF ColumnsRead
<1> HIDE DEF relations
<1>6. /\ IsStar(i) => i.of.q \in DOMAIN relations \cup {""} /\ ~StarDenied(relations, i)
      /\ ~IsStar(i) /\ ~CountsRows(i) =>
           ~UnknownColumn(relations, i.of) /\ ~ColumnDenied(relations, i.of)
  BY <1>2, <1>3, <1>4, <1>5
<1> QED
  BY <1>6 DEF relations

\* The columns an output gives.
ColumnsOf(i, relations) ==
  IF IsStar(i) THEN UNION {relations[a].columns : a \in
                             IF i.of.q \in DOMAIN relations THEN {i.of.q} ELSE DOMAIN relations}
  ELSE {i.as}

\* An output gives its columns, all of them clean, for every group it is asked of.
LEMMA OutputFits ==
  ASSUME NEW q, WellFormed(q), Validate(q) = Allowed, NEW k \in DOMAIN q, NEW i \in ToSet(q[k].items),
         NEW group, \A b \in group : Binds(q, b, ScopeRelations(q, k)), group # {} \/ IsAggregate(i)
  PROVE  /\ DOMAIN Output(i, group) = ColumnsOf(i, ScopeRelations(q, k))
         /\ \A c \in DOMAIN Output(i, group) : Clean(q, Output(i, group)[c])
<1> DEFINE relations == ScopeRelations(q, k)
           b == CHOOSE b \in group : TRUE
           given == Output(i, group)
<1>1. ValidateTables(q) = Allowed
  BY ValidatedParts
<1>2. "" \notin DOMAIN relations
  BY <1>1, RelationsAreSources
<1>3. /\ IsStar(i) => i.of.q \in DOMAIN relations \cup {""} /\ ~StarDenied(relations, i)
      /\ ~IsStar(i) /\ ~CountsRows(i) =>
           ~UnknownColumn(relations, i.of) /\ ~ColumnDenied(relations, i.of)
      /\ RowHidesAColumn(relations, i.of) => ShowsAHidingRow(q)
  BY OutputsAdmitted DEF ShowsAHidingRow
<1>4. \A g \in group : Binds(q, g, relations)
  OBVIOUS
<1>5. given = CASE i.agg = "star" -> Spelt(b, i)
                [] i.agg = "none" -> [c \in {i.as} |-> Value(b, i.of)]
                [] OTHER          -> [c \in {i.as} |-> Aggregate(i, group)]
  BY DEF Output
<1>6. group # {} => b \in group
  OBVIOUS
<1> HIDE DEF relations, b, given
<1>7. ASSUME ~IsStar(i), ~CountsRows(i), NEW g \in group PROVE Clean(q, Value(g, i.of))
  BY <1>3, <1>4, <1>7, ValueClean
<1>8. CASE i.agg = "star"
  <2>1. given = Spelt(b, i) /\ IsStar(i) /\ group # {}
    BY <1>5, <1>8 DEF IsStar, IsAggregate
  <2>2. /\ DOMAIN Spelt(b, i) = UNION {relations[a].columns : a \in
                                  IF i.of.q \in DOMAIN relations THEN {i.of.q} ELSE DOMAIN relations}
        /\ \A c \in DOMAIN Spelt(b, i) : Clean(q, Spelt(b, i)[c])
    BY <1>2, <1>3, <1>4, <1>6, <2>1, StarFits
  <2>3. DOMAIN given = ColumnsOf(i, relations) /\ \A c \in DOMAIN given : Clean(q, given[c])
    BY <2>1, <2>2 DEF ColumnsOf
  <2> QED
    BY <2>3 DEF relations, given
<1>9. CASE i.agg = "none"
  <2>1. given = [c \in {i.as} |-> Value(b, i.of)]
    BY <1>5, <1>9
  <2>2. ~IsStar(i) /\ ~CountsRows(i) /\ group # {}
    BY <1>9 DEF IsStar, CountsRows, IsAggregate
  <2>3. Clean(q, Value(b, i.of))
    BY <1>6, <1>7, <2>2
  <2>4. DOMAIN given = ColumnsOf(i, relations) /\ \A c \in DOMAIN given : Clean(q, given[c])
    BY <2>1, <2>2, <2>3 DEF ColumnsOf
  <2> QED
    BY <2>4 DEF relations, given
<1>10. CASE i.agg \notin {"star", "none"}
  <2>1. given = [c \in {i.as} |-> Aggregate(i, group)]
    BY <1>5, <1>10
  <2>2. ~IsStar(i)
    BY <1>10 DEF IsStar
  <2>3. CountsRows(i) \/ \A g \in group : Clean(q, Value(g, i.of))
    BY <1>7, <2>2
  <2>4. Clean(q, Aggregate(i, group))
    BY <2>3, AggregateClean
  <2>5. DOMAIN given = ColumnsOf(i, relations) /\ \A c \in DOMAIN given : Clean(q, given[c])
    BY <2>1, <2>2, <2>4 DEF ColumnsOf
  <2> QED
    BY <2>5 DEF relations, given
<1> QED
  BY <1>8, <1>9, <1>10

\* The groups of a SELECT are of its bindings; only one that gives aggregates alone may have none.
LEMMA GroupsAre ==
  ASSUME NEW q, WellFormed(q), NEW k \in DOMAIN q, NEW bindings, NEW group \in GroupsOf(q[k], bindings)
  PROVE  group \subseteq bindings /\ \A i \in ToSet(q[k].items) : group # {} \/ IsAggregate(i)
<1> DEFINE p == q[k]
           Key(b) == [g \in p.group |-> Value(b, g).val]
<1>1. GroupsOf(p, bindings) =
        IF p.group # {} THEN {{b \in bindings : Key(b) = key} : key \in {Key(b) : b \in bindings}}
        ELSE IF Aggregates(p) THEN {bindings}
        ELSE {{b} : b \in bindings}
  BY DEF GroupsOf
<1>2. \A i \in ToSet(p.items) : Aggregates(p) /\ p.group = {} => IsAggregate(i)
  BY DEF WellFormed, WellFormedSelect
<1> HIDE DEF p, Key
<1>3. group \in GroupsOf(p, bindings)
  BY DEF p
<1>4. CASE p.group # {}
  <2>1. PICK b \in bindings : group = {e \in bindings : Key(e) = Key(b)}
    BY <1>1, <1>3, <1>4
  <2>2. group \subseteq bindings /\ b \in group
    BY <2>1
  <2> QED
    BY <2>2
<1>5. CASE p.group = {} /\ Aggregates(p)
  <2>1. group = bindings /\ \A i \in ToSet(p.items) : IsAggregate(i)
    BY <1>1, <1>2, <1>3, <1>5
  <2> QED
    BY <2>1 DEF p
<1>6. CASE p.group = {} /\ ~Aggregates(p)
  <2>1. PICK b \in bindings : group = {b}
    BY <1>1, <1>3, <1>6
  <2> QED
    BY <2>1
<1> QED
  BY <1>4, <1>5, <1>6

\* The output a SELECT writes under a name, if any.
LEMMA ProjectionIs ==
  ASSUME NEW q, WellFormed(q), NEW k \in DOMAIN q, NEW c
  PROVE  LET p == q[k]
             n == Projection(p, c)
         IN  /\ n # 0 => p.items[n] \in ToSet(p.items) /\ p.items[n].as = c /\ ~IsStar(p.items[n])
             /\ n = 0 => \A i \in ToSet(p.items) : i.as = c => IsStar(i)
<1> DEFINE p == q[k]
           I == {n \in 1 .. Len(p.items) : p.items[n].as = c /\ ~IsStar(p.items[n])}
<1>1. p.items \in Seq(ToSet(p.items))
  BY DEF WellFormed, WellFormedSelect
<1> HIDE DEF p
<1>2. Len(p.items) \in Nat /\ DOMAIN p.items = 1 .. Len(p.items)
  BY <1>1, LenProperties
<1>3. ToSet(p.items) = {p.items[n] : n \in 1 .. Len(p.items)}
  BY <1>2 DEF ToSet
<1>4. Projection(p, c) = IF I # {} THEN Min(I) ELSE 0
  BY DEF Projection, SelectInSeq
<1>5. I # {} => Min(I) \in I
  <2>1. I \in SUBSET Nat
    BY <1>2
  <2> QED
    BY <2>1, MinIs
<1>6. I = {} => \A i \in ToSet(p.items) : i.as = c => IsStar(i)
  BY <1>3
<1>7. \A n \in I : n # 0 /\ p.items[n] \in ToSet(p.items) /\ p.items[n].as = c /\ ~IsStar(p.items[n])
  BY <1>2, <1>3
<1> HIDE DEF I
<1>8. /\ Projection(p, c) # 0 => Projection(p, c) \in I
      /\ Projection(p, c) = 0 => I = {}
  BY <1>4, <1>5, <1>7
<1> QED
  BY <1>6, <1>7, <1>8 DEF p

\* The rows of a SELECT have its columns and show nothing but what is queryable.
LEMMA RowsFit ==
  ASSUME NEW q, WellFormed(q), Validate(q) = Allowed, NEW k \in DOMAIN q,
         NEW bindings, \A b \in bindings : Binds(q, b, ScopeRelations(q, k)), NEW row \in RowsOf(q[k], bindings)
  PROVE  /\ DOMAIN row.cells = Given(q[k], ScopeRelations(q, k))
         /\ \A c \in DOMAIN row.cells : Clean(q, row.cells[c])
<1> DEFINE p == q[k]
           relations == ScopeRelations(q, k)
           Of(b) == [a \in DOMAIN b |-> b[a].of]
           rows == {[of |-> <<{Of(b) : b \in group}>>, cells |-> Outputs(p, group)] :
                      group \in GroupsOf(p, bindings)}
<1>1. row \in rows
  <2>1. RowsOf(p, bindings) = IF p.distinct THEN Different(rows) ELSE rows
    BY DEF RowsOf
  <2> HIDE DEF rows
  <2>2. Different(rows) \subseteq rows
    BY DEF Different
  <2> QED
    BY <2>1, <2>2
<1>2. PICK group \in GroupsOf(p, bindings) : row.cells = Outputs(p, group)
  BY <1>1
<1>3. group \subseteq bindings /\ \A i \in ToSet(p.items) : group # {} \/ IsAggregate(i)
  BY GroupsAre
<1>4. \A i \in ToSet(p.items) : /\ DOMAIN Output(i, group) = ColumnsOf(i, relations)
                                /\ \A c \in DOMAIN Output(i, group) : Clean(q, Output(i, group)[c])
  BY <1>3, OutputFits
<1> DEFINE columns == UNION {DOMAIN Output(i, group) : i \in ToSet(p.items)}
           Gives(i, c) == c \in DOMAIN Output(i, group)
           from(c) == IF Projection(p, c) # 0 THEN p.items[Projection(p, c)]
                      ELSE CHOOSE i \in ToSet(p.items) : Gives(i, c)
<1>5. row.cells = [c \in columns |-> Output(from(c), group)[c]]
  BY <1>2 DEF Outputs
<1>6. Given(p, relations) = UNION {ColumnsOf(i, relations) : i \in ToSet(p.items)}
  BY DEF Given, ColumnsOf
<1> HIDE DEF p, relations
<1>7. columns = Given(p, relations)
  BY <1>4, <1>6
<1>8. ASSUME NEW c \in columns PROVE Clean(q, Output(from(c), group)[c])
  <2>1. \E i \in ToSet(p.items) : Gives(i, c)
    OBVIOUS
  <2>2. from(c) \in ToSet(p.items) /\ Gives(from(c), c)
    <3>1. CASE Projection(p, c) # 0
      <4>1. p.items[Projection(p, c)] \in ToSet(p.items) /\ c \in ColumnsOf(p.items[Projection(p, c)], relations)
        BY <3>1, ProjectionIs DEF p, ColumnsOf
      <4> QED
        BY <1>4, <3>1, <4>1
    <3>2. CASE Projection(p, c) = 0
      BY <2>1, <3>2
    <3> QED
      BY <3>1, <3>2
  <2> HIDE DEF from
  <2> QED
    BY <1>4, <2>2
<1> HIDE DEF columns, from
<1>9. DOMAIN row.cells = Given(p, relations) /\ \A c \in DOMAIN row.cells : Clean(q, row.cells[c])
  BY <1>5, <1>7, <1>8
<1> QED
  BY <1>9 DEF p, relations
\* Rows with these columns, each clean: what a SELECT inside gives the ones around it.
GoodRows(q, rows, columns) ==
  \A row \in rows : DOMAIN row.cells = columns /\ \A c \in DOMAIN row.cells : Clean(q, row.cells[c])

\* The rows a source gives fit its relation.
LEMMA SourceFits ==
  ASSUME NEW q, WellFormed(q), Validate(q) = Allowed, NEW k \in DOMAIN q, NEW db, NEW answers,
         \A j \in 1 .. k - 1 : GoodRows(q, answers[j], OutputColumns(q)[j]),
         NEW n \in DOMAIN q[k].from
  PROVE  /\ SourceColumns(q[k], OutputColumns(q))[n] = ScopeRelations(q, k)[q[k].from[n].alias].columns
         /\ \A row \in SourceRows(q[k], db, answers)[n] :
              Fits(q, row, ScopeRelations(q, k)[q[k].from[n].alias])
<1> DEFINE s == q[k].from[n]
           relation == ScopeRelations(q, k)[s.alias]
           rows == SourceRows(q[k], db, answers)[n]
           columns == SourceColumns(q[k], OutputColumns(q))[n]
<1>1. ValidateTables(q) = Allowed
  BY ValidatedParts
<1>2. IF IsTable(s)
      THEN /\ s.table \in Tables /\ Catalog[s.table].queryable
           /\ relation = [table |-> s.table, columns |-> Catalog[s.table].columns]
      ELSE relation = [table |-> "", columns |-> OutputColumns(q)[s.inner]]
  BY <1>1, RelationsAre
<1>3. IsTable(s) \/ s.inner \in 1 .. k - 1
  BY SourcesAre
<1>4. /\ rows = IF IsTable(s) THEN TableRows(db, s.table) ELSE answers[s.inner]
      /\ columns = IF IsTable(s) THEN Catalog[s.table].columns ELSE OutputColumns(q)[s.inner]
  BY DEF SourceRows, SourceColumns
<1> HIDE DEF s, relation, rows, columns
<1>5. columns = relation.columns
  <2>1. CASE IsTable(s)
    <3>1. relation.columns = Catalog[s.table].columns
      BY <1>2, <2>1
    <3> QED
      BY <1>4, <2>1, <3>1
  <2>2. CASE ~IsTable(s)
    <3>1. relation = [table |-> "", columns |-> OutputColumns(q)[s.inner]]
      BY <1>2, <2>2
    <3>2. relation.columns = OutputColumns(q)[s.inner]
      BY <3>1
    <3> QED
      BY <1>4, <2>2, <3>2
  <2> QED
    BY <2>1, <2>2
<1>6. ASSUME NEW row \in rows PROVE Fits(q, row, relation)
  <2>1. CASE IsTable(s)
    <3>1. row \in TableRows(db, s.table)
      BY <1>4, <2>1
    <3>2. Fits(q, row, [table |-> s.table, columns |-> Catalog[s.table].columns])
      BY <1>2, <2>1, <3>1, TableRowsFit
    <3> QED
      BY <1>2, <2>1, <3>2
  <2>2. CASE ~IsTable(s)
    <3>1. GoodRows(q, answers[s.inner], OutputColumns(q)[s.inner])
      BY <1>3, <2>2
    <3>2. DOMAIN row.cells = relation.columns /\ \A c \in DOMAIN row.cells : Clean(q, row.cells[c])
      <4>1. row \in answers[s.inner]
        BY <1>4, <2>2
      <4>2. relation.columns = OutputColumns(q)[s.inner]
        BY <1>4, <1>5, <2>2
      <4> QED
        BY <3>1, <4>1, <4>2 DEF GoodRows
    <3>3. Shown(relation) \subseteq relation.columns
      BY DEF Shown
    <3> QED
      BY <3>2, <3>3 DEF Fits
  <2> QED
    BY <2>1, <2>2
<1> QED
  BY <1>5, <1>6 DEF s, relation, rows, columns

\* So do the rows of the FROM list.
LEMMA BindingsFit ==
  ASSUME NEW q, WellFormed(q), Validate(q) = Allowed, NEW k \in DOMAIN q, NEW db, NEW answers,
         \A j \in 1 .. k - 1 : GoodRows(q, answers[j], OutputColumns(q)[j]),
         NEW b \in BindingsOf(q[k], db, OutputColumns(q), answers)
  PROVE  Binds(q, b, ScopeRelations(q, k))
<1> DEFINE p == q[k]
           relations == ScopeRelations(q, k)
           rows == SourceRows(p, db, answers)
           columns == SourceColumns(p, OutputColumns(q))
<1>1. ValidateTables(q) = Allowed
  BY ValidatedParts
<1>2. DOMAIN relations = AliasesOf(p)
  BY <1>1, RelationsAreSources
<1>3. Len(p.from) \in Nat /\ DOMAIN p.from = 1 .. Len(p.from)
  BY SourcesAre
<1>4. \A n \in 1 .. Len(p.from) : /\ columns[n] = relations[p.from[n].alias].columns
                                 /\ \A row \in rows[n] : Fits(q, row, relations[p.from[n].alias])
  BY <1>3, SourceFits
<1>5. b \in JoinedSources(p, rows, columns)[Len(p.from)]
  BY DEF BindingsOf, Bindings
<1>6. ToSet(p.from) = {p.from[n] : n \in 1 .. Len(p.from)}
  BY <1>3 DEF ToSet
<1> HIDE DEF p, relations, rows, columns
<1>7. /\ DOMAIN b = {p.from[n].alias : n \in 1 .. Len(p.from)}
      /\ \A a \in DOMAIN b : Fits(q, b[a], relations[a])
  BY <1>3, <1>4, <1>5, JoinedFit
<1>8. DOMAIN b = AliasesOf(p)
  BY <1>6, <1>7 DEF AliasesOf
<1>9. Binds(q, b, relations)
  BY <1>2, <1>7, <1>8 DEF Binds
<1> QED
  BY <1>9 DEF relations

LEMMA AnswersFit ==
  ASSUME NEW q, WellFormed(q), Validate(q) = Allowed, NEW db
  PROVE  \A k \in DOMAIN q : GoodRows(q, Answers(q, db)[k], OutputColumns(q)[k])
<1> DEFINE answers == Answers(q, db)
           columns == OutputColumns(q)
           Bad == {k \in DOMAIN q : ~GoodRows(q, answers[k], columns[k])}
<1>1. SUFFICES ASSUME Bad # {} PROVE FALSE
  OBVIOUS
<1>2. Len(q) \in Nat /\ DOMAIN q = 1 .. Len(q)
  BY ScopesAre
<1> HIDE DEF answers, columns
<1>3. Bad \in SUBSET Nat
  BY <1>2
<1>3a. PICK k \in Bad : \A j \in Bad : k <= j
  BY <1>1, <1>3, LeastOf
<1>4. k \in DOMAIN q /\ ~GoodRows(q, answers[k], columns[k])
  BY <1>3a
<1>5. \A j \in 1 .. k - 1 : GoodRows(q, answers[j], columns[j])
  BY <1>2, <1>3a, <1>4
<1> DEFINE bindings == BindingsOf(q[k], db, columns, answers)
<1>6. answers[k] = RowsOf(q[k], bindings)
  BY <1>4, AnswersAre DEF answers, columns
<1>7. columns[k] = Given(q[k], ScopeRelations(q, k))
  BY <1>4, OutputColumnsAre DEF columns
<1>8. \A b \in bindings : Binds(q, b, ScopeRelations(q, k))
  BY <1>4, <1>5, BindingsFit DEF answers, columns
<1> HIDE DEF bindings, Bad
<1>9. ASSUME NEW row \in answers[k]
      PROVE  DOMAIN row.cells = columns[k] /\ \A c \in DOMAIN row.cells : Clean(q, row.cells[c])
  <2>1. row \in RowsOf(q[k], bindings)
    BY <1>6
  <2> QED
    BY <1>4, <1>7, <1>8, <2>1, RowsFit
<1> QED
  BY <1>4, <1>9 DEF GoodRows

\* What policy lets through shows only what is queryable, when none of its outputs is a row
\* that has a hidden column, which policy does not look into.
THEOREM AllowedShowsOnlyQueryable ==
  ASSUME NEW q, WellFormed(q), Validate(q) = Allowed, ~ShowsAHidingRow(q), NEW db
  PROVE  \A row \in Answer(q, db) : \A c \in DOMAIN row.cells :
           \A m \in BagToSet(row.cells[c].counts) : Queryable(m)
<1>1. Len(q) \in DOMAIN q
  BY ScopesAre
<1>2. GoodRows(q, Answers(q, db)[Len(q)], OutputColumns(q)[Len(q)])
  BY <1>1, AnswersFit
<1> QED
  BY <1>2 DEF Answer, GoodRows, Clean, BagToSet
-----------------------------------------------------------------------------
(***************************************************************************)
(* The query the server writes is one of the same language.                *)
(***************************************************************************)
\* A sequence is one of its elements.
LEMMA ElementsAre ==
  ASSUME NEW S, NEW s \in Seq(S)
  PROVE  ToSet(s) \subseteq S /\ s \in Seq(ToSet(s))
<1>1. Len(s) \in Nat /\ s \in [1 .. Len(s) -> S]
  BY LenProperties
<1>2. s \in [1 .. Len(s) -> ToSet(s)] /\ ToSet(s) \subseteq S
  BY <1>1 DEF ToSet
<1> QED
  BY <1>1, <1>2, SeqDef

\* The values of a function on a finite set are finitely many.
LEMMA ImageFinite ==
  ASSUME NEW S, IsFiniteSet(S), NEW f, DOMAIN f = S, f = [x \in S |-> f[x]]
  PROVE  IsFiniteSet({f[x] : x \in S})
<1> DEFINE T == {f[x] : x \in S}
<1>1. f \in Surjection(S, T)
  BY DEF Surjection
<1> QED
  BY <1>1, FS_Surjection

LEMMA ElementsFinite ==
  ASSUME NEW s, s \in Seq(ToSet(s))
  PROVE  IsFiniteSet(ToSet(s))
<1>1. Len(s) \in Nat /\ DOMAIN s = 1 .. Len(s) /\ s = [n \in 1 .. Len(s) |-> s[n]]
  BY LenProperties
<1>2. IsFiniteSet(1 .. Len(s))
  <2>1. 1 \in Int /\ Len(s) \in Int
    BY <1>1
  <2> QED
    BY <2>1, FS_Interval, Zenon
<1>3. IsFiniteSet({s[n] : n \in 1 .. Len(s)})
  BY <1>1, <1>2, ImageFinite
<1> QED
  BY <1>1, <1>3 DEF ToSet

\* A finite set can be listed.
LEMMA ListOf ==
  ASSUME NEW S, IsFiniteSet(S)
  PROVE  SetToSeq(S) \in Seq(S)
<1>1. Cardinality(S) \in Nat /\ ExistsBijection(1 .. Cardinality(S), S)
  BY FS_CardinalityType
<1>2. PICK f : f \in Bijection(1 .. Cardinality(S), S)
  BY <1>1 DEF ExistsBijection
<1>3. f \in [1 .. Cardinality(S) -> S] /\ IsInjective(f)
  BY <1>2 DEF Bijection, Injection, IsInjective
<1>4. SetToSeq(S) \in [1 .. Cardinality(S) -> S]
  BY <1>3 DEF SetToSeq
<1> QED
  BY <1>1, <1>4, SeqDef

\* The columns of the children the query sums are finitely many.
LEMMA SumsFinite ==
  ASSUME NEW q, WellFormed(q), NEW child
  PROVE  IsFiniteSet({i.of.c : i \in ChildSums(q, child)})
<1> DEFINE Sums(p) == {i \in ToSet(p.items) : i.agg = "sum" /\ ~i.dist /\ i.of.q = child}
           sums == [p \in ToSet(q) |-> Sums(p)]
           columns == [i \in ChildSums(q, child) |-> i.of.c]
<1>1. q \in Seq(ToSet(q)) /\ \A k \in DOMAIN q : q[k].items \in Seq(ToSet(q[k].items))
  BY DEF WellFormed, WellFormedSelect
<1>2. \A p \in ToSet(q) : \E k \in DOMAIN q : p = q[k]
  BY DEF ToSet
<1>3. ASSUME NEW p \in ToSet(q) PROVE IsFiniteSet(Sums(p))
  <2>1. p.items \in Seq(ToSet(p.items))
    BY <1>1, <1>2
  <2>2. IsFiniteSet(ToSet(p.items))
    BY <2>1, ElementsFinite
  <2> QED
    BY <2>2, FS_Subset
<1>4. IsFiniteSet(ToSet(q))
  BY <1>1, ElementsFinite
<1> HIDE DEF Sums
<1>5. IsFiniteSet({sums[p] : p \in ToSet(q)})
  BY <1>4, ImageFinite
<1>6. ChildSums(q, child) = UNION {sums[p] : p \in ToSet(q)}
  BY DEF ChildSums, Sums
<1>7. \A T \in {sums[p] : p \in ToSet(q)} : IsFiniteSet(T)
  BY <1>3
<1>8. IsFiniteSet(ChildSums(q, child))
  BY <1>5, <1>6, <1>7, FS_UNION
<1>9. IsFiniteSet({columns[i] : i \in ChildSums(q, child)})
  BY <1>8, ImageFinite
<1>10. {columns[i] : i \in ChildSums(q, child)} = {i.of.c : i \in ChildSums(q, child)}
  OBVIOUS
<1> QED
  BY <1>9, <1>10
\* The children's sums are a SELECT of the language, reading what the join read.
LEMMA PreaggregatedFits ==
  ASSUME NEW q, WellFormed(q), NamesAreFresh(q), NEW edge, NEW read \in ToSet(Last(q).from),
         NEW r, r[Len(q)] = Preaggregated(q, edge, read)
  PROVE  /\ WellFormedSelect(r[Len(q)], Len(q))
         /\ \A s \in ToSet(r[Len(q)].from) : s.table = read.table /\ s.cte = read.cte /\ s.inner = read.inner
<1> DEFINE L == Len(q)
           p == r[L]
           alias == SourceAlias(read.alias)
           key == Column(alias, edge.column)
           first == [as |-> edge.column, agg |-> "none", dist |-> FALSE, of |-> key]
           columns == SetToSeq({i.of.c : i \in ChildSums(q, read.alias)})
           sums == [n \in DOMAIN columns |-> ChildSum(alias, columns[n])]
           source == [read EXCEPT !.alias = alias, !.side = "FROM", !.on = <<>>]
<1>1. L \in Nat \ {0} /\ DOMAIN q = 1 .. L
  BY ScopesAre
<1>2. read \in ToSet(q[L].from)
  BY DEF Last
<1>3. DOMAIN read = {"alias", "table", "inner", "cte", "side", "on"} /\ read.inner \in 0 .. L - 1
  <2>1. WellFormedSelect(q[L], L)
    BY <1>1 DEF WellFormed
  <2> QED
    BY <1>2, <2>1 DEF WellFormedSelect
<1>4. alias # ""
  <2>1. read.alias \in AliasesOf(Last(q))
    BY DEF AliasesOf
  <2> QED
    BY <2>1 DEF NamesAreFresh
<1>5. p = [items |-> <<first>> \o sums, distinct |-> FALSE, from |-> <<source>>,
           where |-> <<>>, filter |-> {}, group |-> {key}]
  BY DEF Preaggregated
<1>6. columns \in Seq({i.of.c : i \in ChildSums(q, read.alias)})
  BY SumsFinite, ListOf
<1>7. Len(columns) \in Nat /\ DOMAIN columns = 1 .. Len(columns)
  BY <1>6, LenProperties
<1> HIDE DEF columns
<1> DEFINE Members == {first} \cup {sums[n] : n \in 1 .. Len(columns)}
<1>8. <<first>> \in Seq(Members) /\ sums \in Seq(Members) /\ Len(sums) = Len(columns)
  <2>1. sums \in [1 .. Len(columns) -> Members]
    BY <1>7
  <2> QED
    BY <1>7, <2>1, SeqDef
<1>9. \A i \in Members : /\ DOMAIN i = {"as", "agg", "dist", "of"}
                        /\ i.agg \in {"none", "sum"} /\ i.of.q = alias
  BY <1>7 DEF ChildSum, Column
<1> HIDE DEF sums, first
<1> DEFINE items == <<first>> \o sums
<1>10. items \in Seq(Members) /\ Len(items) = 1 + Len(columns)
  BY <1>7, <1>8, ConcatProperties
<1>11. ToSet(items) \subseteq Members /\ items \in Seq(ToSet(items)) /\ items # <<>>
  <2> HIDE DEF items, Members
  <2>1. ToSet(items) \subseteq Members /\ items \in Seq(ToSet(items))
    BY <1>10, ElementsAre
  <2> QED
    BY <1>7, <1>10, <2>1, EmptySeq
<1> HIDE DEF items, Members
<1>12. /\ DOMAIN source = {"alias", "table", "inner", "cte", "side", "on"} /\ source.alias = alias
       /\ source.table = read.table /\ source.cte = read.cte /\ source.inner = read.inner
       /\ source.on = <<>>
  BY <1>3
<1> HIDE DEF source, alias, key
<1>13. /\ DOMAIN p = {"items", "distinct", "from", "where", "filter", "group"}
       /\ p.items = items /\ p.from = <<source>> /\ p.group = {key} /\ p.where = <<>>
  BY <1>5 DEF items
<1> HIDE DEF p
<1>14. ToSet(p.from) = {source} /\ p.from \in Seq(ToSet(p.from)) /\ p.from # <<>> /\ DOMAIN p.from = {1}
  <2>1. ToSet(<<source>>) = {source} /\ DOMAIN <<source>> = {1}
    BY DEF ToSet
  <2>2. <<source>> \in Seq({source}) /\ <<source>> # <<>>
    OBVIOUS
  <2> QED
    BY <1>13, <2>1, <2>2
<1>15. \A list \in {p.items, p.from} : list \in Seq(ToSet(list)) /\ list # <<>>
  BY <1>11, <1>13, <1>14
<1>16. \A s \in ToSet(p.from) : /\ DOMAIN s = {"alias", "table", "inner", "cte", "side", "on"}
                                /\ s.inner \in 0 .. L - 1 /\ s.alias # ""
  BY <1>3, <1>4, <1>12, <1>14
<1>17. \A i \in ToSet(p.items) :
         /\ DOMAIN i = {"as", "agg", "dist", "of"}
         /\ i.agg \in {"none", "sum", "avg", "count", "star"}
         /\ IsStar(i) => i.of.q \in AliasesOf(p) \cup {""}
         /\ Aggregates(p) /\ p.group = {} => IsAggregate(i)
  BY <1>4, <1>9, <1>11, <1>13 DEF IsStar
<1>18. \A m, n \in DOMAIN p.from : p.from[m].alias = p.from[n].alias => m = n
  BY <1>14
<1>18a. \A m \in DOMAIN p.from : ToSet(p.from[m].on) = {}
  <2>1. ToSet(<<>>) = {}
    BY DEF ToSet
  <2>2. p.from[1] = source
    BY <1>13
  <2> QED
    BY <1>12, <1>14, <2>1, <2>2
<1>19. WellFormedSelect(r[L], L)
  <2>1. WellFormedSelect(p, L)
    BY <1>13, <1>15, <1>16, <1>17, <1>18, <1>18a DEF WellFormedSelect
  <2> QED
    BY <2>1 DEF p
<1>20. \A s \in ToSet(p.from) : s.table = read.table /\ s.cte = read.cte /\ s.inner = read.inner
  BY <1>12, <1>14
<1> QED
  BY <1>19, <1>20 DEF p, L
\* The outermost SELECT over the sums is one of the language, and its other sources are as before.
LEMMA SummingFits ==
  ASSUME NEW q, WellFormed(q), NamesAreFresh(q), NEW at \in DOMAIN Last(q).from,
         NEW r, r[Len(q) + 1] = Summing(Last(q), at, Len(q))
  PROVE  /\ WellFormedSelect(r[Len(q) + 1], Len(q) + 1)
         /\ \A s \in ToSet(r[Len(q) + 1].from) :
              s \in ToSet(Last(q).from) \/ (s.cte = FALSE /\ ~IsTable(s))
<1> DEFINE L == Len(q)
           p == Last(q)
           joined == p.from[at]
           child == joined.alias
           sums == SumsAlias(child)
           Moved(ref) == IF ref.q = child THEN Column(sums, ref.c) ELSE ref
           Condition(on) == [n \in DOMAIN on |-> [m \in DOMAIN on[n] |->
                               <<Moved(on[n][m][1]), Moved(on[n][m][2])>>]]
           Renamed(i) == IF i.of.q # child THEN i
                         ELSE IF i.agg = "sum" THEN [i EXCEPT !.of = Column(sums, GrainSum(i.of.c))]
                         ELSE [i EXCEPT !.of = Moved(i.of)]
           source == [joined EXCEPT !.alias = sums, !.table = "", !.cte = FALSE,
                                    !.inner = L, !.on = Condition(joined.on)]
           from == [p.from EXCEPT ![at] = source]
           items == [n \in DOMAIN p.items |-> Renamed(p.items[n])]
           new == [p EXCEPT !.from[at] = source, !.items = items]
           Fields == {"items", "distinct", "from", "where", "filter", "group"}
           SourceFields == {"alias", "table", "inner", "cte", "side", "on"}
<1>1. L \in Nat \ {0} /\ L \in DOMAIN q /\ p = q[L]
  <2>1. L \in Nat \ {0} /\ DOMAIN q = 1 .. L
    BY ScopesAre
  <2>2. L \in DOMAIN q
    BY <2>1
  <2> QED
    BY <2>1, <2>2 DEF Last
<1>2. WellFormedSelect(q[L], L)
  <2>1. \A n \in DOMAIN q : WellFormedSelect(q[n], n)
    BY Zenon DEF WellFormed
  <2> QED
    BY <1>1, <2>1, Zenon
<1>3. r[L + 1] = new
  BY DEF Summing
<1> HIDE DEF p
<1>4. /\ DOMAIN p = Fields
      /\ p.items \in Seq(ToSet(p.items)) /\ p.items # <<>>
      /\ p.from \in Seq(ToSet(p.from)) /\ p.from # <<>>
      /\ \A s \in ToSet(p.from) : DOMAIN s = SourceFields /\ s.inner \in 0 .. L - 1 /\ s.alias # ""
      /\ \A m, n \in DOMAIN p.from : p.from[m].alias = p.from[n].alias => m = n
  BY <1>1, <1>2 DEF WellFormedSelect
<1>5. \A i \in ToSet(p.items) : /\ DOMAIN i = {"as", "agg", "dist", "of"}
                                /\ i.agg \in {"none", "sum", "avg", "count", "star"}
                                /\ IsStar(i) => i.of.q \in AliasesOf(p) \cup {""}
                                /\ Aggregates(p) /\ p.group = {} => IsAggregate(i)
  BY <1>1, <1>2 DEF WellFormedSelect
<1>5a. \A m, n \in DOMAIN p.from : m <= n =>
         \A clause \in ToSet(p.from[m].on) : \A e \in ToSet(clause) : \A side \in {1, 2} :
           e[side].q # "" /\ (e[side].q = p.from[n].alias => m = n)
  <2>1. WellFormedSelect(p, L)
    BY <1>1, <1>2
  <2> QED
    BY <2>1, Zenon DEF WellFormedSelect
<1>6. at \in DOMAIN p.from /\ p.from[at] \in ToSet(p.from)
  BY DEF ToSet, p
<1>7. sums # "" /\ sums \notin AliasesOf(p) /\ \A ref \in Compared(p) : sums # ref.q
  <2>1. child \in AliasesOf(p)
    BY <1>6 DEF AliasesOf
  <2>2. sums # "" /\ sums \notin AliasesOf(p) \cup {ref.q : ref \in Compared(p)}
    BY <2>1 DEF NamesAreFresh, p
  <2> HIDE DEF sums
  <2> QED
    BY <2>2
<1>7a. ASSUME NEW clause \in ToSet(Condition(joined.on)), NEW e \in ToSet(clause)
       PROVE  \E was \in ToSet(joined.on) : \E o \in ToSet(was) : e[1] = Moved(o[1]) /\ e[2] = Moved(o[2])
  <2> DEFINE on == joined.on
  <2>1. PICK n \in DOMAIN on : clause = [m \in DOMAIN on[n] |-> <<Moved(on[n][m][1]), Moved(on[n][m][2])>>]
    BY <1>7a DEF ToSet
  <2> HIDE DEF Moved
  <2>2. PICK m \in DOMAIN on[n] : e = <<Moved(on[n][m][1]), Moved(on[n][m][2])>>
    BY <1>7a, <2>1 DEF ToSet
  <2>3. on[n] \in ToSet(on) /\ on[n][m] \in ToSet(on[n])
    BY DEF ToSet
  <2>4. e[1] = Moved(on[n][m][1]) /\ e[2] = Moved(on[n][m][2])
    BY <2>2
  <2>5. \E o \in ToSet(on[n]) : e[1] = Moved(o[1]) /\ e[2] = Moved(o[2])
    BY <2>3, <2>4
  <2> HIDE DEF on
  <2>6. \E was \in ToSet(on) : \E o \in ToSet(was) : e[1] = Moved(o[1]) /\ e[2] = Moved(o[2])
    BY <2>3, <2>5
  <2> QED
    BY <2>6 DEF on
<1>7b. \A ref : /\ ref.q = child => Moved(ref).q = sums
                /\ ref.q # child => Moved(ref) = ref
  BY DEF Column
<1> HIDE DEF Moved, Condition
<1>8. /\ DOMAIN source = SourceFields
      /\ source.alias = sums /\ source.cte = FALSE /\ source.inner = L
      /\ source.on = Condition(joined.on)
  BY <1>4, <1>6
<1> HIDE DEF Renamed, source, items
<1>9. /\ DOMAIN new = Fields
      /\ new.items = items /\ new.from = from /\ new.group = p.group /\ new.where = p.where
  BY <1>4
<1> HIDE DEF new, from, child, sums
<1>10. ASSUME NEW i \in ToSet(p.items)
       PROVE  /\ DOMAIN Renamed(i) = {"as", "agg", "dist", "of"} /\ Renamed(i).agg = i.agg
              /\ IF i.of.q = child THEN Renamed(i).of.q = sums ELSE Renamed(i) = i
  <2>1. DOMAIN i = {"as", "agg", "dist", "of"}
    BY <1>5
  <2>2. CASE i.of.q # child
    BY <2>1, <2>2 DEF Renamed
  <2>3. CASE i.of.q = child /\ i.agg = "sum"
    <3>1. Renamed(i) = [i EXCEPT !.of = Column(sums, GrainSum(i.of.c))]
      BY <2>3 DEF Renamed
    <3> QED
      BY <2>1, <2>3, <3>1 DEF Column
  <2>4. CASE i.of.q = child /\ i.agg # "sum"
    <3>1. Renamed(i) = [i EXCEPT !.of = Column(sums, i.of.c)]
      BY <2>4 DEF Renamed, Moved
    <3> QED
      BY <2>1, <2>4, <3>1 DEF Column
  <2> QED
    BY <2>2, <2>3, <2>4
<1>11. Len(p.items) \in Nat \ {0} /\ DOMAIN p.items = 1 .. Len(p.items)
  BY <1>4, LenProperties, EmptySeq
<1>12. Len(p.from) \in Nat \ {0} /\ DOMAIN p.from = 1 .. Len(p.from)
  BY <1>4, LenProperties, EmptySeq
<1>13. /\ ToSet(p.items) = {p.items[n] : n \in 1 .. Len(p.items)}
       /\ ToSet(p.from) = {p.from[n] : n \in 1 .. Len(p.from)}
  BY <1>11, <1>12 DEF ToSet
<1>14. items \in Seq(ToSet(items)) /\ items # <<>> /\ ToSet(items) = {Renamed(i) : i \in ToSet(p.items)}
  <2> HIDE DEF Renamed
  <2>1. items = [n \in 1 .. Len(p.items) |-> Renamed(p.items[n])]
    BY <1>11 DEF items
  <2>2. items \in [1 .. Len(p.items) -> ToSet(items)] /\ ToSet(items) = {items[n] : n \in 1 .. Len(p.items)}
    BY <2>1 DEF ToSet
  <2>3. items \in Seq(ToSet(items)) /\ 1 \in DOMAIN items
    BY <1>11, <2>1, <2>2, SeqDef
  <2>4. \A n \in 1 .. Len(p.items) : items[n] = Renamed(p.items[n])
    BY <2>1
  <2>5. ToSet(items) = {Renamed(i) : i \in ToSet(p.items)}
    BY <1>13, <2>2, <2>4
  <2> QED
    BY <2>3, <2>5
<1>15. /\ from \in Seq(ToSet(from)) /\ from # <<>> /\ DOMAIN from = DOMAIN p.from
       /\ \A n \in DOMAIN from : from[n] = IF n = at THEN source ELSE p.from[n]
  <2>1. /\ DOMAIN from = 1 .. Len(p.from)
        /\ \A n \in DOMAIN from : from[n] = IF n = at THEN source ELSE p.from[n]
        /\ from = [n \in 1 .. Len(p.from) |-> from[n]]
    BY <1>12 DEF from
  <2>2. from \in [1 .. Len(p.from) -> ToSet(from)]
    BY <2>1 DEF ToSet
  <2>3. from \in Seq(ToSet(from)) /\ 1 \in DOMAIN from
    BY <1>12, <2>1, <2>2, SeqDef
  <2> QED
    BY <1>12, <2>1, <2>3
<1>16. \A s \in ToSet(from) : s = source \/ s \in ToSet(p.from)
  <2>1. \A s \in ToSet(from) : \E n \in DOMAIN from : s = from[n]
    BY DEF ToSet
  <2>2. \A n \in DOMAIN p.from : p.from[n] \in ToSet(p.from)
    BY DEF ToSet
  <2> QED
    BY <1>15, <2>1, <2>2
<1>17. source \in ToSet(from) /\ \A n \in DOMAIN p.from : n # at => p.from[n] \in ToSet(from)
  <2>1. \A n \in DOMAIN from : from[n] \in ToSet(from)
    BY DEF ToSet
  <2> QED
    BY <1>6, <1>15, <2>1
<1>18. AliasesOf(new) = {s.alias : s \in ToSet(from)}
  BY <1>9 DEF AliasesOf
<1>20. sums \in AliasesOf(new) /\ \A a \in AliasesOf(p) : a # child => a \in AliasesOf(new)
  <2>1. sums \in AliasesOf(new)
    BY <1>8, <1>17, <1>18
  <2>2. ASSUME NEW a \in AliasesOf(p), a # child PROVE a \in AliasesOf(new)
    <3>1. PICK n \in DOMAIN p.from : a = p.from[n].alias
      BY <1>12, <1>13 DEF AliasesOf
    <3>2. n # at
      BY <2>2, <3>1 DEF child
    <3> QED
      BY <1>17, <1>18, <3>1, <3>2
  <2> QED
    BY <2>1, <2>2
<1>21. Aggregates(new) <=> Aggregates(p)
  <2>1. \A i \in ToSet(p.items) : IsAggregate(Renamed(i)) <=> IsAggregate(i)
    BY <1>10 DEF IsAggregate
  <2> QED
    BY <1>9, <1>14, <2>1 DEF Aggregates
<1>22. ASSUME NEW j \in ToSet(items)
       PROVE  /\ DOMAIN j = {"as", "agg", "dist", "of"}
              /\ j.agg \in {"none", "sum", "avg", "count", "star"}
              /\ IsStar(j) => j.of.q \in AliasesOf(new) \cup {""}
              /\ Aggregates(new) /\ new.group = {} => IsAggregate(j)
  <2> HIDE DEF Renamed
  <2>1. PICK i \in ToSet(p.items) : j = Renamed(i)
    BY <1>14
  <2>2. DOMAIN j = {"as", "agg", "dist", "of"} /\ j.agg = i.agg
    BY <1>10, <2>1
  <2>3. Aggregates(new) /\ new.group = {} => IsAggregate(j)
    BY <1>5, <1>9, <1>21, <2>2 DEF IsAggregate
  <2>4. CASE i.of.q = child
    <3>1. j.of.q = sums
      BY <1>10, <2>1, <2>4
    <3> QED
      BY <1>5, <1>7, <1>20, <2>2, <2>3, <3>1
  <2>5. CASE i.of.q # child
    <3>1. j = i
      BY <1>10, <2>1, <2>5
    <3>2. IsStar(j) => j.of.q \in AliasesOf(new) \cup {""}
      BY <1>5, <1>20, <2>5, <3>1
    <3> QED
      BY <1>5, <2>2, <2>3, <3>2
  <2> QED
    BY <2>4, <2>5
<1>23. \A m, n \in DOMAIN from : from[m].alias = from[n].alias => m = n
  <2>1. \A n \in DOMAIN p.from : p.from[n].alias # sums
    BY <1>7, <1>12, <1>13 DEF AliasesOf
  <2>2. \A n \in DOMAIN from : from[n].alias = IF n = at THEN sums ELSE p.from[n].alias
    BY <1>8, <1>15
  <2> QED
    BY <1>4, <1>15, <2>1, <2>2
<1>24. \A s \in ToSet(from) : DOMAIN s = SourceFields /\ s.inner \in 0 .. L /\ s.alias # ""
  <2>1. \A n \in 0 .. L - 1 : n \in 0 .. L
    BY <1>1
  <2>2. L \in 0 .. L
    BY <1>1
  <2> HIDE DEF L
  <2> QED
    BY <1>4, <1>7, <1>8, <1>16, <2>1, <2>2
\* The conditions are the ones before, the child's columns moved to its sums.
<1>24a. ASSUME NEW n \in DOMAIN from, NEW clause \in ToSet(from[n].on), NEW e \in ToSet(clause), NEW side \in {1, 2}
        PROVE  \E ref \in Compared(p) :
                 /\ e[side] = IF n = at THEN Moved(ref) ELSE ref
                 /\ \E was \in ToSet(p.from[n].on) : \E o \in ToSet(was) : ref = o[side]
  <2>1. ASSUME NEW was \in ToSet(p.from[n].on), NEW o \in ToSet(was) PROVE o[side] \in Compared(p)
    <3>1. p.from[n] \in ToSet(p.from)
      BY <1>15 DEF ToSet
    <3>2. was \in Clauses(p)
      BY <3>1 DEF Clauses
    <3>3. o \in Equalities(p)
      BY <3>2 DEF Equalities
    <3> QED
      BY <3>3 DEF Compared
  <2>2. CASE n = at
    <3>1. from[n].on = Condition(joined.on) /\ joined.on = p.from[n].on
      BY <1>8, <1>15, <2>2
    <3>2. PICK was \in ToSet(joined.on) : \E o \in ToSet(was) : e[1] = Moved(o[1]) /\ e[2] = Moved(o[2])
      BY <1>7a, <3>1
    <3>3. PICK o \in ToSet(was) : e[1] = Moved(o[1]) /\ e[2] = Moved(o[2])
      BY <3>2
    <3>4. e[side] = Moved(o[side])
      BY <3>3
    <3> QED
      BY <2>1, <2>2, <3>1, <3>4
  <2>3. CASE n # at
    <3>1. from[n] = p.from[n]
      BY <1>15, <2>3
    <3> QED
      BY <2>1, <2>3, <3>1
  <2> QED
    BY <2>2, <2>3
<1>24b. ASSUME NEW m \in DOMAIN from, NEW n \in DOMAIN from, m <= n,
               NEW clause \in ToSet(from[m].on), NEW e \in ToSet(clause), NEW side \in {1, 2}
        PROVE  e[side].q # "" /\ (e[side].q = from[n].alias => m = n)
  <2>1. PICK ref \in Compared(p) :
          /\ e[side] = IF m = at THEN Moved(ref) ELSE ref
          /\ \E was \in ToSet(p.from[m].on) : \E o \in ToSet(was) : ref = o[side]
    BY <1>24a
  <2>2. ref.q # "" /\ (ref.q = p.from[n].alias => m = n)
    <3>1. PICK was \in ToSet(p.from[m].on) : \E o \in ToSet(was) : ref = o[side]
      BY <2>1
    <3>2. PICK o \in ToSet(was) : ref = o[side]
      BY <3>1
    <3> QED
      BY <1>5a, <1>15, <1>24b, <3>2
  <2>3. from[n].alias = IF n = at THEN sums ELSE p.from[n].alias
    BY <1>8, <1>15
  <2>4. ref.q # sums
    BY <1>7
  <2>5. CASE m = at /\ ref.q = child
    <3>1. e[side].q = sums /\ sums # ""
      BY <1>7, <1>7b, <2>1, <2>5
    <3>2. n # at => p.from[n].alias # sums
      BY <1>7, <1>12, <1>13, <1>15 DEF AliasesOf
    <3> QED
      BY <2>3, <2>5, <3>1, <3>2
  <2>6. CASE m # at \/ ref.q # child
    <3>1. e[side] = ref
      BY <1>7b, <2>1, <2>6
    <3> QED
      BY <2>2, <2>3, <2>4, <3>1
  <2> QED
    BY <2>5, <2>6
<1>25. WellFormedSelect(r[L + 1], L + 1)
  <2>1. \A list \in {new.items, new.from} : list \in Seq(ToSet(list)) /\ list # <<>>
    BY <1>9, <1>14, <1>15
  <2>2. (L + 1) - 1 = L
    BY <1>1
  <2>3. \A i \in ToSet(new.items) :
          /\ DOMAIN i = {"as", "agg", "dist", "of"}
          /\ i.agg \in {"none", "sum", "avg", "count", "star"}
          /\ IsStar(i) => i.of.q \in AliasesOf(new) \cup {""}
          /\ Aggregates(new) /\ new.group = {} => IsAggregate(i)
    BY <1>9, <1>22
  <2>4. /\ \A s \in ToSet(new.from) : DOMAIN s = SourceFields /\ s.inner \in 0 .. (L + 1) - 1 /\ s.alias # ""
        /\ \A m, n \in DOMAIN new.from : new.from[m].alias = new.from[n].alias => m = n
    BY <1>9, <1>23, <1>24, <2>2
  <2>4a. \A m, n \in DOMAIN new.from : m <= n =>
           \A clause \in ToSet(new.from[m].on) : \A e \in ToSet(clause) : \A side \in {1, 2} :
             e[side].q # "" /\ (e[side].q = new.from[n].alias => m = n)
    <3>1. new.from = from
      BY <1>9
    <3>2. ASSUME NEW m \in DOMAIN new.from, NEW n \in DOMAIN new.from, m <= n,
                 NEW clause \in ToSet(new.from[m].on), NEW e \in ToSet(clause), NEW side \in {1, 2}
          PROVE  e[side].q # "" /\ (e[side].q = new.from[n].alias => m = n)
      <4>1. m \in DOMAIN from /\ n \in DOMAIN from /\ clause \in ToSet(from[m].on)
        BY <3>1
      <4>2. e[side].q # "" /\ (e[side].q = from[n].alias => m = n)
        BY <1>24b, <3>2, <4>1
      <4> QED
        BY <3>1, <4>2
    <3> QED
      BY <3>2
  <2> HIDE DEF L
  <2>5. WellFormedSelect(new, L + 1)
    BY <1>9, <2>1, <2>3, <2>4, <2>4a DEF WellFormedSelect
  <2> QED
    BY <1>3, <2>5
<1>26. \A s \in ToSet(new.from) : s \in ToSet(p.from) \/ (s.cte = FALSE /\ ~IsTable(s))
  BY <1>1, <1>8, <1>9, <1>16 DEF IsTable
<1> QED
  BY <1>1, <1>3, <1>25, <1>26 DEF p
\* What the normalizer writes in place of a query is again one of the language.
THEOREM RewriteIsWellFormed ==
  ASSUME NEW q, WellFormed(q), NamesAreFresh(q), NEW d, CanRewrite(q, d)
  PROVE  WellFormed(Rewrite(q, d))
<1> DEFINE L == Len(q)
           p == Last(q)
           edge == d.edges[1]
           joins == SupportedJoins(p, edge, TheAlias(p, edge.to), TheAlias(p, edge.from))
           at == CHOOSE n \in joins : TRUE
           read == p.from[at]
           sums == Preaggregated(q, edge, read)
           over == Summing(p, at, L)
           r == Front(q) \o <<sums, over>>
           Members == ToSet(q) \cup {sums, over}
<1>1. L \in Nat \ {0} /\ DOMAIN q = 1 .. L /\ p = q[L] /\ \A k \in 1 .. L : q[k] \in ToSet(q)
  BY ScopesAre DEF Last
<1>2. /\ Len(p.from) \in Nat /\ DOMAIN p.from = 1 .. Len(p.from)
      /\ \A n \in DOMAIN p.from : p.from[n] \in ToSet(p.from)
  <2>1. L \in DOMAIN q
    BY <1>1
  <2>2. /\ Len(q[L].from) \in Nat /\ DOMAIN q[L].from = 1 .. Len(q[L].from)
        /\ \A n \in DOMAIN q[L].from : q[L].from[n] \in ToSet(q[L].from)
    BY <2>1, SourcesAre
  <2> QED
    BY <2>2 DEF Last
<1>3. joins # {}
  BY DEF CanRewrite
<1>4. joins \subseteq DOMAIN p.from
  <2>1. joins \subseteq 2 .. Len(p.from)
    BY DEF SupportedJoins
  <2> HIDE DEF joins, p
  <2> QED
    BY <1>2, <2>1
<1>5. at \in DOMAIN p.from /\ read \in ToSet(p.from)
  <2>1. at \in joins
    BY <1>3
  <2> HIDE DEF joins, at
  <2> QED
    BY <1>2, <1>4, <2>1
<1>6. Rewrite(q, d) = r
  BY DEF Rewrite
<1> HIDE DEF sums, over, at
<1>7. Front(q) \in Seq(Members) /\ Len(Front(q)) = L - 1 /\ \A k \in 1 .. L - 1 : Front(q)[k] = q[k]
  <2>1. \A k \in 1 .. L - 1 : q[k] \in Members
    BY <1>1
  <2> HIDE DEF Members
  <2>2. /\ SubSeq(q, 1, L - 1) \in Seq(Members)
        /\ Len(SubSeq(q, 1, L - 1)) = IF 1 <= L - 1 THEN (L - 1) - 1 + 1 ELSE 0
        /\ \A k \in 1 .. (L - 1) - 1 + 1 : SubSeq(q, 1, L - 1)[k] = q[1 + k - 1]
    BY <1>1, <2>1, SubSeqProperties
  <2>3. Len(SubSeq(q, 1, L - 1)) = L - 1 /\ \A k \in 1 .. L - 1 : SubSeq(q, 1, L - 1)[k] = q[k]
    BY <1>1, <2>2
  <2> QED
    BY <2>2, <2>3 DEF Front
<1>8. <<sums, over>> \in Seq(Members) /\ Len(<<sums, over>>) = 2
  OBVIOUS
<1> HIDE DEF Members
<1>9. /\ r \in Seq(Members) /\ Len(r) = L + 1
      /\ \A k \in 1 .. L + 1 : r[k] = IF k <= L - 1 THEN Front(q)[k] ELSE <<sums, over>>[k - (L - 1)]
  BY <1>1, <1>7, <1>8, ConcatProperties
<1>10. /\ \A k \in 1 .. L - 1 : r[k] = q[k]
       /\ r[L] = sums /\ r[L + 1] = over
  BY <1>1, <1>7, <1>9
<1> HIDE DEF r
<1>11. DOMAIN r = 1 .. L + 1 /\ r # <<>> /\ r \in Seq(ToSet(r))
  BY <1>1, <1>9, LenProperties, EmptySeq, ElementsAre
<1>12. /\ WellFormedSelect(r[L], L)
       /\ \A s \in ToSet(r[L].from) : s.table = read.table /\ s.cte = read.cte /\ s.inner = read.inner
  BY <1>5, <1>10, PreaggregatedFits DEF sums
<1>13. /\ WellFormedSelect(r[L + 1], L + 1)
       /\ \A s \in ToSet(r[L + 1].from) : s \in ToSet(p.from) \/ (s.cte = FALSE /\ ~IsTable(s))
  BY <1>5, <1>10, SummingFits DEF over
<1>14. ASSUME NEW k \in DOMAIN r PROVE WellFormedSelect(r[k], k)
  <2>1. CASE k \in 1 .. L - 1
    <3>1. WellFormedSelect(q[k], k)
      BY <1>1, <2>1 DEF WellFormed
    <3> QED
      BY <1>10, <2>1, <3>1
  <2>2. k \in 1 .. L - 1 \/ k = L \/ k = L + 1
    BY <1>1, <1>11
  <2> QED
    BY <1>12, <1>13, <2>1, <2>2
<1>15. ASSUME NEW s \in Sources(r)
       PROVE  \/ \E o \in Sources(q) : s.table = o.table /\ s.cte = o.cte /\ s.inner = o.inner
              \/ s.cte = FALSE /\ ~IsTable(s)
  <2>1. PICK k \in DOMAIN r : s \in ToSet(r[k].from)
    <3>1. \E select \in ToSet(r) : s \in ToSet(select.from)
      BY DEF Sources
    <3> QED
      BY <3>1 DEF ToSet
  <2>2. \A j \in 1 .. L : ToSet(q[j].from) \subseteq Sources(q)
    BY <1>1 DEF Sources
  <2>3. ToSet(p.from) \subseteq Sources(q) /\ read \in Sources(q)
    BY <1>1, <1>5, <2>2
  <2>4. CASE k \in 1 .. L - 1
    <3>1. s \in Sources(q)
      BY <1>1, <1>10, <2>1, <2>2, <2>4
    <3> QED
      BY <3>1
  <2>5. k \in 1 .. L - 1 \/ k = L \/ k = L + 1
    BY <1>1, <1>11
  <2>6. CASE k = L
    BY <1>12, <2>1, <2>3, <2>6
  <2>7. CASE k = L + 1
    BY <1>13, <2>1, <2>3, <2>7
  <2> QED
    BY <2>4, <2>5, <2>6, <2>7
<1>16. CteNames(r) \subseteq CteNames(q) /\ TablesRead(r) \subseteq TablesRead(q)
  <2>1. ASSUME NEW s \in Sources(r), s.cte PROVE s.table \in CteNames(q)
    <3>1. PICK o \in Sources(q) : s.table = o.table /\ s.cte = o.cte
      BY <1>15, <2>1
    <3>2. o.cte
      BY <2>1, <3>1
    <3> QED
      BY <3>1, <3>2 DEF CteNames
  <2>2. \A s \in Sources(r) : IsTable(s) => s.table \in TablesRead(q)
    BY <1>15 DEF TablesRead, IsTable
  <2> QED
    BY <2>1, <2>2 DEF CteNames, TablesRead
<1>17. CteNames(r) \cap (Tables \cup TablesRead(r)) = {}
  BY <1>16 DEF WellFormed
<1>18. WellFormed(r)
  BY <1>11, <1>14, <1>17 DEF WellFormed
<1> QED
  BY <1>6, <1>18

-----------------------------------------------------------------------------
(***************************************************************************)
(* The gates.                                                              *)
(***************************************************************************)
\* Policy answers with one of its codes.
LEMMA VerdictsAre ==
  ASSUME NEW q, WellFormed(q)
  PROVE  Validate(q) \in Verdicts \ {"SEMANTIC_REJECTION"}
<1> DEFINE L == Len(q)
           columns == [k \in DOMAIN q |-> ValidateScopeColumns(q, k)]
           joins == [k \in DOMAIN q |-> ValidateJoins(q, k)]
           tables == ValidateTables(q)
           verdicts == <<tables>> \o columns \o joins
           refusing == {n \in DOMAIN verdicts : verdicts[n] # Allowed}
           Members == Verdicts \ {"SEMANTIC_REJECTION"}
<1>1. L \in Nat /\ DOMAIN q = 1 .. L
  BY ScopesAre
<1>2. tables \in Members
  BY DEF ValidateTables, Verdicts, Allowed
<1>3. \A k \in 1 .. L : ValidateScopeColumns(q, k) \in Members
  BY DEF ValidateScopeColumns, Verdicts, Allowed
<1>4. \A k \in 1 .. L : ValidateJoins(q, k) \in Members
  BY DEF ValidateJoins, Verdicts, Allowed
<1>5. Allowed \in Members
  BY DEF Verdicts, Allowed
<1> HIDE DEF Members
<1>6. columns \in Seq(Members) /\ joins \in Seq(Members) /\ <<tables>> \in Seq(Members)
  <2>1. columns \in [1 .. L -> Members] /\ joins \in [1 .. L -> Members]
    BY <1>1, <1>3, <1>4
  <2> QED
    BY <1>1, <1>2, <2>1, SeqDef
<1> HIDE DEF columns, joins, tables
<1>7. verdicts \in Seq(Members)
  BY <1>6, ConcatProperties
<1>8. Validate(q) = IF refusing = {} THEN Allowed ELSE verdicts[Min(refusing)]
  BY DEF Validate, FirstRefusal, columns, joins, tables
<1> HIDE DEF verdicts
<1>9. Len(verdicts) \in Nat /\ DOMAIN verdicts = 1 .. Len(verdicts)
  BY <1>7, LenProperties
<1>10. refusing # {} => Min(refusing) \in refusing
  <2>1. refusing \in SUBSET Nat
    BY <1>9
  <2> HIDE DEF refusing
  <2> QED
    BY <2>1, MinIs
<1>11. \A n \in refusing : verdicts[n] \in Members
  BY <1>7, <1>9, ElementOfSeq
<1> HIDE DEF refusing
<1>12. Validate(q) \in Members
  BY <1>5, <1>8, <1>10, <1>11
<1> QED
  BY <1>12 DEF Members

\* What the grain gate decides: the query as it is, or what it was rewritten to.
LEMMA DecisionsAre ==
  ASSUME NEW q, WellFormed(q), NamesAreFresh(q)
  PROVE  /\ Inspect(q).status \in {"REJECTED", "NORMALIZED", "UNCHANGED"}
         /\ Inspect(q).status # "NORMALIZED" => Inspect(q).selected = q
         /\ WellFormed(Inspect(q).selected)
<1> DEFINE d == Diagnose(q)
           decision == Inspect(q)
<1>1. \/ decision = Decision("REJECTED", q)
      \/ decision = Decision("UNCHANGED", q)
      \/ decision = Settled(q, Normalize(q, d))
  BY DEF Inspect, Judged
<1>2. \/ Normalize(q, d) = Decision("ABSTAIN", q)
      \/ CanRewrite(q, d) /\ Normalize(q, d) = Decision("NORMALIZED", Rewrite(q, d))
  BY DEF Normalize, Kept
<1> HIDE DEF d, decision
<1>3. \/ decision = Decision("REJECTED", q)
      \/ decision = Decision("UNCHANGED", q)
      \/ CanRewrite(q, d) /\ decision = Decision("NORMALIZED", Rewrite(q, d))
  BY <1>1, <1>2 DEF Settled, Decision
<1>4. CanRewrite(q, d) => WellFormed(Rewrite(q, d))
  BY RewriteIsWellFormed
<1>5. /\ decision.status \in {"REJECTED", "NORMALIZED", "UNCHANGED"}
      /\ decision.status # "NORMALIZED" => decision.selected = q
      /\ WellFormed(decision.selected)
  BY <1>3, <1>4 DEF Decision
<1> QED
  BY <1>5 DEF decision

(***************************************************************************)
(* The inductive invariant. What the gates still hold is of the language   *)
(* of queries, and is the candidate until the grain gate has judged it;    *)
(* what they planned is what policy let through last.                      *)
(***************************************************************************)
Inv ==
  /\ TypeOK
  /\ query \in Queries
  /\ WellFormed(selected)
  /\ stage = "POLICY" => selected = query
  /\ stage = "GRAIN" => selected = query /\ Validate(query) = Allowed
  /\ stage = "PLANNED" => Validate(selected) = Allowed

LEMMA InvInit == Init => Inv
<1> SUFFICES ASSUME Init PROVE Inv
  OBVIOUS
<1>1. query \in Queries /\ selected = query /\ stage = "POLICY" /\ verdict = Allowed
  BY DEF Init
<1>2. WellFormed(selected)
  BY <1>1, QueriesAssumption
<1>3. TypeOK
  BY <1>1 DEF TypeOK, Stages, Verdicts, Allowed
<1> QED
  BY <1>1, <1>2, <1>3 DEF Inv

LEMMA InvNext == Inv /\ [Next]_vars => Inv'
<1> SUFFICES ASSUME Inv, [Next]_vars PROVE Inv'
  OBVIOUS
<1>1. /\ TypeOK /\ query \in Queries /\ WellFormed(selected)
      /\ stage = "POLICY" => selected = query
      /\ stage = "GRAIN" => selected = query /\ Validate(query) = Allowed
      /\ stage = "PLANNED" => Validate(selected) = Allowed
  BY DEF Inv
<1>2. WellFormed(query) /\ NamesAreFresh(query)
  BY <1>1, QueriesAssumption
<1>3. CASE Policy
  <2>1. /\ stage = "POLICY" /\ UNCHANGED <<query, selected>>
        /\ IF Validate(query) # Allowed THEN stage' = "REFUSED" /\ verdict' = Validate(query)
           ELSE stage' = "GRAIN" /\ UNCHANGED verdict
    BY <1>3 DEF Policy, Heed, Refuse, GoOn
  <2>2. Validate(query) \in Verdicts
    BY <1>2, VerdictsAre
  <2>3. WellFormed(selected')
    BY <1>1, <2>1
  <2>4. TypeOK'
    BY <1>1, <2>1, <2>2 DEF TypeOK, Stages
  <2> QED
    BY <1>1, <2>1, <2>3, <2>4 DEF Inv
<1>4. CASE GrainSafety
  <2> DEFINE decision == Inspect(query)
  <2>1. /\ stage = "GRAIN" /\ UNCHANGED query /\ selected' = decision.selected
        /\ decision.status = "REJECTED" => stage' = "REFUSED" /\ verdict' = "SEMANTIC_REJECTION"
        /\ decision.status = "NORMALIZED" => stage' = "RECHECK" /\ UNCHANGED verdict
        /\ decision.status = "UNCHANGED" => stage' = "PLANNED" /\ UNCHANGED verdict
    BY <1>4 DEF GrainSafety, Follow, Refuse, GoOn
  <2>2. /\ decision.status \in {"REJECTED", "NORMALIZED", "UNCHANGED"}
        /\ decision.status # "NORMALIZED" => decision.selected = query
        /\ WellFormed(decision.selected)
    BY <1>2, DecisionsAre
  <2> HIDE DEF decision
  <2>3. WellFormed(selected')
    BY <2>1, <2>2
  <2>4. verdict = Allowed /\ Validate(query) = Allowed
    BY <1>1, <2>1 DEF TypeOK
  <2>5. TypeOK'
    BY <1>1, <2>1, <2>2, <2>4 DEF TypeOK, Stages, Verdicts, Allowed
  <2>6. stage' = "PLANNED" => Validate(selected') = Allowed
    <3>1. stage' = "PLANNED" => selected' = query
      BY <2>1, <2>2
    <3> QED
      BY <2>4, <3>1
  <2> QED
    BY <1>1, <2>1, <2>2, <2>3, <2>5, <2>6 DEF Inv
<1>5. CASE Recheck
  <2>1. /\ stage = "RECHECK" /\ UNCHANGED <<query, selected>>
        /\ IF Validate(selected) # Allowed THEN stage' = "REFUSED" /\ verdict' = "SEMANTIC_REJECTION"
           ELSE stage' = "PLANNED" /\ UNCHANGED verdict
    BY <1>5 DEF Recheck, Refuse, GoOn
  <2>2. WellFormed(selected')
    BY <1>1, <2>1
  <2>3. TypeOK'
    BY <1>1, <2>1 DEF TypeOK, Stages, Verdicts, Allowed
  <2> QED
    BY <1>1, <2>1, <2>2, <2>3 DEF Inv
<1>6. CASE UNCHANGED vars
  <2>1. UNCHANGED <<query, selected, stage, verdict>>
    BY <1>6 DEF vars
  <2> QED
    BY <1>1, <2>1 DEF Inv, TypeOK
<1> QED
  BY <1>3, <1>4, <1>5, <1>6 DEF Next

LEMMA InvAlways == Spec => []Inv
<1> QED
  BY InvInit, InvNext, PTL DEF Spec

\* A query is at one of the stages of planning, with a verdict once it is refused, and only
\* the grain gate gives it another text (SqlSafetyService._plan).
THEOREM QueryGatesTypeOK == Spec => []TypeOK
<1>1. Inv => TypeOK
  BY DEF Inv
<1> QED
  BY <1>1, InvAlways, PTL

\* A planned query none of whose outputs is a row with a hidden column shows no value of a
\* table or column that is not queryable, whatever catalog, query of the language and contents
\* of the database (SQLPolicy.validate).
THEOREM PlannedShowsOnlyQueryable == Spec => []OnlyQueryableShown
<1>1. Inv => OnlyQueryableShown
  <2>1. SUFFICES ASSUME Inv, Planned, ~ShowsAHidingRow(selected), NEW db \in Databases
                 PROVE  \A row \in Answer(selected, db) : \A c \in DOMAIN row.cells :
                          \A m \in BagToSet(row.cells[c].counts) : Queryable(m)
    BY DEF OnlyQueryableShown, AnswerQueryable
  <2>2. WellFormed(selected) /\ Validate(selected) = Allowed
    BY <2>1 DEF Inv, Planned
  <2> QED
    BY <2>1, <2>2, AllowedShowsOnlyQueryable
<1> QED
  BY <1>1, InvAlways, PTL
=============================================================================
