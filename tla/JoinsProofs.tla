---------------------------- MODULE JoinsProofs ----------------------------
(***************************************************************************)
(* Proofs about the joins of an accepted query, for all tables, columns    *)
(* and declared relationships: validate_joins reads graphs off the text of *)
(* a query, and the rows the planned query reads, one of each source of    *)
(* each SELECT, meet by declared relationships: policy.py, validate_joins, *)
(* _where_equalities, _outer_where_equality and _origin.                   *)
(***************************************************************************)
EXTENDS QueryGatesProofs

\* A name without an alias; a relation of a SELECT before.
Bare(ref)           == ref.q = ""
IsDerived(relation) == relation.table = ""

-----------------------------------------------------------------------------
(***************************************************************************)
(* The graph of a FROM list.                                               *)
(***************************************************************************)
\* Whatever holds one end of a path, and of each link both ends or none, holds the other.
LEMMA ConnectedBy ==
  ASSUME NEW a, NEW b, NEW links, Connected(a, b, links), NEW part, a \in part,
         \A l \in links : l \cap part # {} => l \subseteq part
  PROVE  b \in part
<1> DEFINE nodes == (UNION links) \cup {a, b}
           within == part \cap nodes
<1>1. within \in SUBSET nodes /\ a \in within
  OBVIOUS
<1>2. \A l \in links : l \cap within # {} => l \subseteq within
  OBVIOUS
<1>3. b \in within
  BY <1>1, <1>2 DEF Connected
<1> QED
  BY <1>3

\* Nodes added in turn, each hung on one that was there, put no other node into a part or
\* out of it: a part of the graph before is one of the graph with them.
Hanging(hung, node, edges) ==
  /\ \A m \in hung : \A x, y \in (UNION edges[m]) \ {node[m]} : x = y
  /\ \A m, n \in hung : m < n => node[n] \notin UNION edges[m]

Extends(S, part, hung, node, edges) ==
  /\ \A x : (\A m \in hung : x # node[m]) => (x \in S <=> x \in part)
  /\ \A m \in hung : \A e \in edges[m] : e \cap S # {} => e \subseteq S

LEMMA HangingNodes ==
  ASSUME NEW L \in Nat, NEW hung \in SUBSET (1 .. L), NEW node, NEW edges, NEW part,
         Hanging(hung, node, edges)
  PROVE  \E S : Extends(S, part, hung, node, edges)
<1>0. /\ \A m \in hung : \A x, y \in (UNION edges[m]) \ {node[m]} : x = y
      /\ \A m, n \in hung : m < n => node[n] \notin UNION edges[m]
  BY DEF Hanging
<1> DEFINE Same(S) == \A x : (\A m \in hung : x # node[m]) => (x \in S <=> x \in part)
           Closed(S, n) == \A m \in hung : m <= n => \A e \in edges[m] : e \cap S # {} => e \subseteq S
           Bad == {n \in 0 .. L : ~ \E S : Same(S) /\ Closed(S, n)}
<1>1. Bad = {}
  <2>1. SUFFICES ASSUME Bad # {} PROVE FALSE
    OBVIOUS
  <2>2. Bad \in SUBSET Nat
    OBVIOUS
  <2>3. PICK n \in Bad : \A m \in Bad : n <= m
    BY <2>1, <2>2, LeastOf
  <2>4. n # 0
    <3>1. Same(part) /\ Closed(part, 0)
      OBVIOUS
    <3> QED
      BY <2>3, <3>1
  <2>5. n \in 1 .. L /\ n - 1 \in 0 .. L /\ n - 1 \notin Bad
    <3> HIDE DEF Same, Closed
    <3> QED
      BY <2>3, <2>4
  <2>6. PICK T : Same(T) /\ Closed(T, n - 1)
    <3> HIDE DEF Same, Closed
    <3> QED
      BY <2>5
  <2> HIDE DEF Bad
  <2>7. CASE n \notin hung
    <3>1. Closed(T, n)
      BY <2>5, <2>6, <2>7
    <3> HIDE DEF Same, Closed
    <3> QED
      BY <2>3, <2>6, <3>1 DEF Bad
  <2>8. CASE n \in hung
    <3> DEFINE other == (UNION edges[n]) \ {node[n]}
               S == IF other \cap T # {} THEN T \cup {node[n]} ELSE T \ {node[n]}
    <3>1. \A x : x # node[n] => (x \in S <=> x \in T)
      OBVIOUS
    <3>2. Same(S)
      BY <2>6, <2>8, <3>1
    <3>3. ASSUME NEW m \in hung, m < n, NEW e \in edges[m], e \cap S # {} PROVE e \subseteq S
      <4>1. node[n] \notin e
        BY <1>0, <2>8, <3>3
      <4>2. e \cap T # {}
        BY <3>1, <3>3, <4>1
      <4>3. e \subseteq T
        BY <2>5, <2>6, <3>3, <4>2
      <4> QED
        BY <3>1, <4>1, <4>3
    <3>4. ASSUME NEW e \in edges[n], e \cap S # {} PROVE e \subseteq S
      <4>1. \A x, y \in other : x = y
        BY <1>0, <2>8
      <4>2. e \subseteq other \cup {node[n]}
        OBVIOUS
      <4>3. CASE other \cap T # {}
        <5>1. other \subseteq T
          BY <4>1, <4>3
        <5> QED
          BY <4>2, <4>3, <5>1
      <4>4. CASE other \cap T = {}
        <5>1. S = T \ {node[n]}
          BY <4>4
        <5>2. e \cap S = {}
          BY <4>2, <4>4, <5>1
        <5> QED
          BY <3>4, <5>2
      <4> QED
        BY <4>3, <4>4
    <3> HIDE DEF S
    <3>5. Closed(S, n)
      <4>1. \A m \in hung : m <= n => m < n \/ m = n
        BY <2>5
      <4> QED
        BY <3>3, <3>4, <4>1
    <3> HIDE DEF Same, Closed
    <3> QED
      BY <2>3, <3>2, <3>5 DEF Bad
  <2> QED
    BY <2>7, <2>8
<1>2. PICK S : Same(S) /\ Closed(S, L)
  <2>1. L \in 0 .. L
    OBVIOUS
  <2> HIDE DEF Same, Closed
  <2> QED
    BY <1>1, <2>1
<1>3. \A m \in hung : m <= L
  OBVIOUS
<1> QED
  BY <1>2, <1>3 DEF Extends

-----------------------------------------------------------------------------
(***************************************************************************)
(* The rows of a FROM list, source by source.                              *)
(***************************************************************************)
\* A name with an alias is of that source's row.
LEMMA QualifiedValue ==
  ASSUME NEW ref, ~Bare(ref), NEW b
  PROVE  Value(b, ref) = b[ref.q].cells[ref.c]
<1>1. (CHOOSE a \in {ref.q} : TRUE) = ref.q /\ ~ \E x, y \in {ref.q} : x # y
  OBVIOUS
<1> QED
  BY <1>1 DEF Bare, Value

\* A name alone is of the one row that has it.
LEMMA BareValue ==
  ASSUME NEW ref, Bare(ref), NEW b
  PROVE  LET owners == {a \in DOMAIN b : Has(b, a, ref.c)}
         IN  /\ \A a : owners = {a} => Value(b, ref) = b[a].cells[ref.c]
             /\ \A x, y \in owners : x # y => Value(b, ref).val = Null
<1> DEFINE owners == {a \in DOMAIN b : Has(b, a, ref.c)}
           all == IF ref.q # "" THEN {ref.q} ELSE owners
<1>1. Value(b, ref) = IF all = {} THEN WholeRow(b[ref.c])
                      ELSE IF \E x, y \in all : x # y THEN Missing
                      ELSE b[CHOOSE a \in all : TRUE].cells[ref.c]
  BY DEF Value
<1>2. all = owners
  BY DEF Bare
<1>3. Missing.val = Null
  BY DEF Missing, Cell
<1> HIDE DEF all, owners
<1>4. ASSUME NEW a, owners = {a} PROVE Value(b, ref) = b[a].cells[ref.c]
  <2>1. (CHOOSE x \in {a} : TRUE) = a /\ ~ \E x, y \in {a} : x # y
    OBVIOUS
  <2> QED
    BY <1>1, <1>2, <1>4, <2>1
<1>5. ASSUME NEW x \in owners, NEW y \in owners, x # y PROVE Value(b, ref).val = Null
  BY <1>1, <1>2, <1>3, <1>5
<1> QED
  BY <1>4, <1>5 DEF owners

\* A condition that names sources already there is not touched by one more.
LEMMA HoldsWithOneMore ==
  ASSUME NEW b, NEW alias, alias \notin DOMAIN b, NEW row, NEW on, Holds(b, on),
         \A clause \in ToSet(on) : \A e \in ToSet(clause) : \A ref \in {e[1], e[2]} :
           ~Bare(ref) /\ ref.q \in DOMAIN b
  PROVE  Holds(Bind(b, alias, row), on)
<1> DEFINE new == Bind(b, alias, row)
<1>1. ASSUME NEW ref, ~Bare(ref), ref.q \in DOMAIN b PROVE Value(new, ref) = Value(b, ref)
  <2>1. new[ref.q] = b[ref.q]
    BY <1>1 DEF Bind
  <2>2. \A d : Value(d, ref) = d[ref.q].cells[ref.c]
    BY <1>1, QualifiedValue
  <2> QED
    BY <2>1, <2>2
<1> HIDE DEF new
<1>2. ASSUME NEW clause \in ToSet(on)
      PROVE  \E e \in ToSet(clause) : Value(new, e[1]).val # Null /\ Value(new, e[1]).val = Value(new, e[2]).val
  <2>1. PICK e \in ToSet(clause) : Value(b, e[1]).val # Null /\ Value(b, e[1]).val = Value(b, e[2]).val
    BY DEF Holds
  <2>2. Value(new, e[1]) = Value(b, e[1]) /\ Value(new, e[2]) = Value(b, e[2])
    BY <1>1
  <2> QED
    BY <2>1, <2>2
<1>3. Holds(new, on)
  BY <1>2 DEF Holds
<1> QED
  BY <1>3 DEF new

\* A source gives one of its rows, its condition met, or with LEFT a missing one.
SourceKept(b, s, rows, columns) ==
  \/ b[s.alias] \in rows /\ Holds(b, s.on)
  \/ s.side = "LEFT" /\ b[s.alias] = MissingRow(columns)

\* ON names, by alias, sources as far as its own.
NamesSourcesSoFar(p) ==
  \A n \in 1 .. Len(p.from) : \A clause \in ToSet(p.from[n].on) : \A e \in ToSet(clause) :
    \A ref \in {e[1], e[2]} : ~Bare(ref) /\ \E m \in 1 .. n : ref.q = p.from[m].alias

LEMMA JoinedKeep ==
  ASSUME NEW p, Len(p.from) \in Nat, NEW rows, NEW columns,
         \A m, n \in 1 .. Len(p.from) : p.from[m].alias = p.from[n].alias => m = n,
         NamesSourcesSoFar(p)
  PROVE  \A b \in JoinedSources(p, rows, columns)[Len(p.from)] :
           \A n \in 1 .. Len(p.from) : SourceKept(b, p.from[n], rows[n], columns[n])
<1> DEFINE L == Len(p.from)
           joined == JoinedSources(p, rows, columns)
           Aliases0(n) == {p.from[m].alias : m \in 1 .. n}
           Of(b, n) == /\ DOMAIN b = Aliases0(n)
                       /\ \A m \in 1 .. n : SourceKept(b, p.from[m], rows[m], columns[m])
           Good(n) == \A b \in joined[n] : Of(b, n)
           Bad == {n \in 0 .. L : ~Good(n)}
<1>1. /\ joined[0] = {NoBinding}
      /\ \A n \in 1 .. L :
           joined[n] = UNION {JoinedTo(b, p.from[n], rows[n], columns[n]) : b \in joined[n - 1]}
  BY JoinedAre
<1>2. L \in Nat
  OBVIOUS
<1>3. \A m, n \in 1 .. L : p.from[m].alias = p.from[n].alias => m = n
  OBVIOUS
<1>4. ASSUME NEW n \in 1 .. L, NEW clause \in ToSet(p.from[n].on), NEW e \in ToSet(clause), NEW ref \in {e[1], e[2]}
      PROVE  ~Bare(ref) /\ ref.q \in Aliases0(n)
  <2>1. ~Bare(ref) /\ \E m \in 1 .. n : ref.q = p.from[m].alias
    BY DEF NamesSourcesSoFar
  <2> QED
    BY <2>1
<1> HIDE DEF L, joined
<1>5. Bad = {}
  <2>1. SUFFICES ASSUME Bad # {} PROVE FALSE
    OBVIOUS
  <2>2. Bad \in SUBSET Nat
    BY <1>2
  <2>3. PICK m \in Bad : \A n \in Bad : m <= n
    BY <2>1, <2>2, LeastOf
  <2>4. Good(0)
    <3>1. DOMAIN NoBinding = {}
      BY DEF NoBinding
    <3> QED
      BY <1>1, <3>1
  <2>5. m \in 1 .. L /\ m - 1 \in 0 .. L
    <3> HIDE DEF Good
    <3> QED
      BY <1>2, <2>3, <2>4
  <2>6. Good(m - 1)
    <3> HIDE DEF Bad
    <3>1. m - 1 \notin Bad
      BY <2>3, <2>5
    <3> HIDE DEF Good
    <3> QED
      BY <2>5, <3>1 DEF Bad
  <2>7. ASSUME NEW e \in joined[m] PROVE Of(e, m)
    <3> DEFINE s == p.from[m]
    <3>1. PICK b \in joined[m - 1] : e \in JoinedTo(b, s, rows[m], columns[m])
      BY <1>1, <2>5, <2>7
    <3>2. Of(b, m - 1)
      BY <2>6, <3>1
    <3>3. 1 .. m = (1 .. m - 1) \cup {m}
      BY <2>5
    <3>4. s.alias \notin DOMAIN b
      <4>1. \A n \in 1 .. m - 1 : n \in 1 .. L /\ n # m
        BY <1>2, <2>5
      <4> QED
        BY <1>3, <2>5, <3>2, <4>1
    <3>5. PICK row : e = Bind(b, s.alias, row) /\ SourceKept(e, s, rows[m], columns[m])
      <4>1. ASSUME NEW row PROVE Bind(b, s.alias, row)[s.alias] = row
        BY DEF Bind
      <4> HIDE DEF s
      <4> QED
        BY <3>1, <4>1 DEF JoinedTo, SourceKept
    <3>6. DOMAIN e = Aliases0(m)
      <4>1. DOMAIN e = DOMAIN b \cup {s.alias}
        BY <3>5 DEF Bind
      <4> QED
        BY <3>2, <3>3, <4>1
    <3>7. ASSUME NEW n \in 1 .. m - 1 PROVE SourceKept(e, p.from[n], rows[n], columns[n])
      <4>1. n \in 1 .. L
        BY <1>2, <2>5
      <4>2. p.from[n].alias \in DOMAIN b
        BY <3>2
      <4>3. e[p.from[n].alias] = b[p.from[n].alias]
        BY <3>4, <3>5, <4>2 DEF Bind
      <4>4. Aliases0(n) \subseteq DOMAIN b
        <5>1. 1 .. n \subseteq 1 .. m - 1
          BY <2>5
        <5> QED
          BY <3>2, <5>1
      <4>5. Holds(b, p.from[n].on) => Holds(e, p.from[n].on)
        <5>1. \A clause \in ToSet(p.from[n].on) : \A f \in ToSet(clause) : \A ref \in {f[1], f[2]} :
                ~Bare(ref) /\ ref.q \in DOMAIN b
          <6>1. ASSUME NEW clause \in ToSet(p.from[n].on), NEW f \in ToSet(clause), NEW ref \in {f[1], f[2]}
                PROVE  ~Bare(ref) /\ ref.q \in DOMAIN b
            <7>1. ~Bare(ref) /\ ref.q \in Aliases0(n)
              <8> HIDE DEF Aliases0
              <8> QED
                BY <1>4, <4>1, <6>1
            <7> QED
              BY <4>4, <7>1
          <6> QED
            BY <6>1
        <5> HIDE DEF s
        <5> QED
          BY <3>4, <3>5, <5>1, HoldsWithOneMore
      <4>6. SourceKept(b, p.from[n], rows[n], columns[n])
        BY <3>2
      <4> QED
        BY <4>3, <4>5, <4>6 DEF SourceKept
    <3> HIDE DEF SourceKept
    <3> QED
      BY <3>3, <3>5, <3>6, <3>7
  <2> QED
    BY <2>3, <2>7
<1>6. Good(L)
  <2>1. L \in 0 .. L
    BY <1>2
  <2> HIDE DEF Good
  <2> QED
    BY <1>5, <2>1
<1> QED
  BY <1>6 DEF L, joined

-----------------------------------------------------------------------------
(***************************************************************************)
(* What a column compared in an accepted query is read from.               *)
(***************************************************************************)
\* A finite set of one element, by its size.
LEMMA TheOnly ==
  ASSUME NEW S, IsFiniteSet(S), Cardinality(S) = 1
  PROVE  \E x : S = {x}
BY FS_Singleton

LEMMA AliasesFinite ==
  ASSUME NEW q, WellFormed(q), NEW k \in DOMAIN q
  PROVE  IsFiniteSet(AliasesOf(q[k]))
<1> DEFINE from == q[k].from
           alias == [s \in ToSet(from) |-> s.alias]
<1>1. from \in Seq(ToSet(from))
  BY DEF WellFormed, WellFormedSelect
<1>2. IsFiniteSet(ToSet(from))
  BY <1>1, ElementsFinite
<1>3. IsFiniteSet({alias[s] : s \in ToSet(from)})
  <2>1. DOMAIN alias = ToSet(from) /\ alias = [s \in ToSet(from) |-> alias[s]]
    OBVIOUS
  <2> HIDE DEF alias
  <2> QED
    BY <1>2, <2>1, ImageFinite
<1>4. {alias[s] : s \in ToSet(from)} = {s.alias : s \in ToSet(from)}
  OBVIOUS
<1> QED
  BY <1>3, <1>4 DEF AliasesOf

\* Where policy finds a name without an alias, EqualityLink finds it.
SourceNamed(relations, ref) == IF Bare(ref) THEN Owners(relations, ref.c) ELSE {ref.q} \cap DOMAIN relations

\* The columns a SELECT compares, or passes on as they are.
Named(p) == Compared(p) \cup {i.of : i \in {i \in ToSet(p.items) : i.agg = "none"}}

\* Such a column with an alias is of the relation called so, and the one relation it is of has it.
LEMMA NamedIs ==
  ASSUME NEW q, WellFormed(q), Validate(q) = Allowed, NEW k \in DOMAIN q, NEW ref \in Named(q[k])
  PROVE  /\ ~Bare(ref) => SourceNamed(ScopeRelations(q, k), ref) = {ref.q}
         /\ \A a : SourceNamed(ScopeRelations(q, k), ref) = {a} =>
              a \in DOMAIN ScopeRelations(q, k) /\ ref.c \in ScopeRelations(q, k)[a].columns
<1> DEFINE relations == ScopeRelations(q, k)
<1>1. ValidateScopeColumns(q, k) = Allowed
  BY ValidatedParts
<1>2. ~UnknownColumn(relations, ref)
  <2>1. ref \in ColumnsRead(q[k])
    <3>1. \A i \in ToSet(q[k].items) : i.agg = "none" => ~IsStar(i) /\ ~CountsRows(i)
      BY DEF IsStar, CountsRows
    <3> QED
      BY <3>1 DEF ColumnsRead, Named
  <2> QED
    BY <1>1, <2>1 DEF ValidateScopeColumns, Allowed
<1> HIDE DEF relations
<1>3. CASE ~Bare(ref)
  <2>1. Resolve(relations, ref) = {ref.q} \cap DOMAIN relations
    BY <1>3 DEF Bare, Resolve
  <2>2. ref.q \in DOMAIN relations /\ ref.c \in relations[ref.q].columns
    BY <1>2, <1>3, <2>1 DEF Bare, UnknownColumn
  <2>3. SourceNamed(relations, ref) = {ref.q}
    BY <1>3, <2>2 DEF SourceNamed
  <2> QED
    BY <1>3, <2>2, <2>3 DEF relations
<1>4. CASE Bare(ref)
  BY <1>4 DEF SourceNamed, Owners, relations
<1> QED
  BY <1>3, <1>4

\* Its value is that relation's.
LEMMA NamedValue ==
  ASSUME NEW q, NEW relations, NEW b, Binds(q, b, relations), NEW ref, NEW a, SourceNamed(relations, ref) = {a}
  PROVE  Value(b, ref) = b[a].cells[ref.c]
<1>1. CASE ~Bare(ref)
  BY <1>1, QualifiedValue DEF Bare, SourceNamed
<1>2. CASE Bare(ref)
  <2> DEFINE owners == {x \in DOMAIN b : Has(b, x, ref.c)}
  <2>1. Owners(relations, ref.c) = {a}
    BY <1>2 DEF SourceNamed
  <2>2. owners = {a}
    BY <2>1 DEF Has, Owners, Binds, Fits
  <2> QED
    BY <1>2, <2>2, BareValue
<1> QED
  BY <1>1, <1>2

LEMMA RelationFields ==
  ASSUME NEW t, NEW columns, NEW relation, relation = [table |-> t, columns |-> columns]
  PROVE  relation.table = t /\ relation.columns = columns
OBVIOUS

\* Each relation is of a source.
LEMMA SourceOf ==
  ASSUME NEW q, WellFormed(q), Validate(q) = Allowed, NEW k \in DOMAIN q, NEW a \in DOMAIN ScopeRelations(q, k)
  PROVE  \E n \in DOMAIN q[k].from :
           /\ q[k].from[n].alias = a
           /\ ~IsDerived(ScopeRelations(q, k)[a]) <=> IsTable(q[k].from[n])
           /\ IsTable(q[k].from[n]) =>
                /\ ScopeRelations(q, k)[a].table = q[k].from[n].table
                /\ ScopeRelations(q, k)[a].columns = Catalog[q[k].from[n].table].columns
<1> DEFINE from == q[k].from
           relations == ScopeRelations(q, k)
<1>1. ValidateTables(q) = Allowed
  BY ValidatedParts
<1>2. DOMAIN relations = AliasesOf(q[k])
  BY <1>1, RelationsAreSources
<1>3. PICK n \in DOMAIN from : from[n].alias = a
  BY <1>2 DEF AliasesOf, ToSet
<1>4. IF IsTable(from[n])
      THEN from[n].table \in Tables /\ relations[a] = [table |-> from[n].table, columns |-> Catalog[from[n].table].columns]
      ELSE relations[a] = [table |-> "", columns |-> OutputColumns(q)[from[n].inner]]
  BY <1>1, <1>3, RelationsAre
<1>5. "" \notin Tables
  BY CatalogAssumption
<1> HIDE DEF from, relations
<1>5a. CASE IsTable(from[n])
  <2>1. /\ relations[a].table = from[n].table
        /\ relations[a].columns = Catalog[from[n].table].columns
    BY <1>4, <1>5a
  <2>2. ~IsDerived(relations[a])
    BY <1>4, <1>5, <1>5a, <2>1, Zenon DEF IsDerived
  <2> QED
    BY <1>3, <1>5a, <2>1, <2>2 DEF from, relations
<1>5b. CASE ~IsTable(from[n])
  <2>1. IsDerived(relations[a])
    <3>1. relations[a] = [table |-> "", columns |-> OutputColumns(q)[from[n].inner]]
      BY <1>4, <1>5b
    <3> QED
      <4>1. \A t, c : relations[a] = [table |-> t, columns |-> c] => relations[a].table = t
        BY RelationFields
      <4> QED
        BY <3>1, <4>1, Zenon DEF IsDerived
  <2> QED
    BY <1>3, <1>5b, <2>1 DEF from, relations
<1> QED
  BY <1>5a, <1>5b

\* ON of an accepted query names sources so far.
LEMMA OnNamesSoFar ==
  ASSUME NEW q, WellFormed(q), Validate(q) = Allowed, NEW k \in DOMAIN q
  PROVE  NamesSourcesSoFar(q[k])
<1> DEFINE from == q[k].from
<1>1. DOMAIN from = 1 .. Len(from) /\ Len(from) \in Nat /\ \A n \in DOMAIN from : from[n] \in ToSet(from)
  BY SourcesAre
<1>2. WellFormedSelect(q[k], k)
  BY DEF WellFormed
<1>2a. \A m, n \in DOMAIN from : m <= n =>
        \A clause \in ToSet(from[m].on) : \A e \in ToSet(clause) : \A side \in {1, 2} :
          e[side].q # "" /\ (e[side].q = from[n].alias => m = n)
  BY <1>2 DEF WellFormedSelect
<1>3. ASSUME NEW n \in DOMAIN from, NEW m \in DOMAIN from, n <= m,
             NEW clause \in ToSet(from[n].on), NEW e \in ToSet(clause), NEW side \in {1, 2}
      PROVE  ~Bare(e[side]) /\ (e[side].q = from[m].alias => n = m)
  <2>1. e[side].q # "" /\ (e[side].q = from[m].alias => n = m)
    BY <1>2a, <1>3, Zenon
  <2> QED
    BY <2>1 DEF Bare
<1>4. ASSUME NEW n \in DOMAIN from, NEW clause \in ToSet(from[n].on), NEW e \in ToSet(clause), NEW ref \in {e[1], e[2]}
      PROVE  ref \in Compared(q[k])
  <2>1. from[n] \in ToSet(from)
    BY <1>1, <1>4
  <2>2. clause \in Clauses(q[k])
    BY <1>4, <2>1 DEF Clauses
  <2>3. e \in Equalities(q[k])
    BY <1>4, <2>2 DEF Equalities
  <2> QED
    BY <1>4, <2>3 DEF Compared
<1> HIDE DEF from
<1>5. ASSUME NEW n \in 1 .. Len(from), NEW clause \in ToSet(from[n].on), NEW e \in ToSet(clause), NEW ref \in {e[1], e[2]}
      PROVE  ~Bare(ref) /\ \E m \in 1 .. n : ref.q = from[m].alias
  <2>1. \A m \in DOMAIN from : n <= m => ~Bare(ref) /\ (ref.q = from[m].alias => n = m)
    BY <1>1, <1>3, <1>5
  <2>2. ~Bare(ref)
    BY <1>1, <1>5, <2>1
  <2>3. ref.q \in DOMAIN ScopeRelations(q, k)
    BY <1>1, <1>4, <1>5, <2>2, NamedIs DEF Named
  <2>4. PICK m \in DOMAIN from : from[m].alias = ref.q
    <3>1. \E m \in DOMAIN q[k].from : q[k].from[m].alias = ref.q
      BY <2>3, SourceOf
    <3> QED
      BY <3>1 DEF from
  <2>5. m \in 1 .. n
    BY <1>1, <1>5, <2>1, <2>4
  <2> QED
    BY <2>2, <2>4, <2>5
<1> QED
  BY <1>5 DEF NamesSourcesSoFar, from

\* Each row of the FROM list has a row of every source, its condition met, or a missing one.
LEMMA BindingKept ==
  ASSUME NEW q, WellFormed(q), Validate(q) = Allowed, NEW k \in DOMAIN q, NEW db,
         NEW b \in BindingsOf(q[k], db, OutputColumns(q), Answers(q, db))
  PROVE  /\ Binds(q, b, ScopeRelations(q, k))
         /\ Holds(b, q[k].where)
         /\ \A n \in DOMAIN q[k].from :
              SourceKept(b, q[k].from[n], SourceRows(q[k], db, Answers(q, db))[n],
                         SourceColumns(q[k], OutputColumns(q))[n])
<1> DEFINE p == q[k]
           rows == SourceRows(p, db, Answers(q, db))
           columns == SourceColumns(p, OutputColumns(q))
<1>1. Binds(q, b, ScopeRelations(q, k))
  <2>1. DOMAIN q = 1 .. Len(q) /\ Len(q) \in Nat
    BY ScopesAre
  <2>2. \A j \in 1 .. k - 1 : GoodRows(q, Answers(q, db)[j], OutputColumns(q)[j])
    BY <2>1, AnswersFit
  <2> QED
    BY <2>2, BindingsFit
<1>2. b \in JoinedSources(p, rows, columns)[Len(p.from)] /\ Holds(b, p.where)
  BY DEF BindingsOf, Bindings
<1>3. Len(p.from) \in Nat /\ DOMAIN p.from = 1 .. Len(p.from)
  BY SourcesAre
<1>4. \A m, n \in 1 .. Len(p.from) : p.from[m].alias = p.from[n].alias => m = n
  BY <1>3, AliasesDiffer
<1>5. NamesSourcesSoFar(p)
  BY OnNamesSoFar
<1> HIDE DEF p, rows, columns
<1>6. \A n \in 1 .. Len(p.from) : SourceKept(b, p.from[n], rows[n], columns[n])
  BY <1>2, <1>3, <1>4, <1>5, JoinedKeep
<1> QED
  BY <1>1, <1>2, <1>3, <1>6 DEF p, rows, columns

\* A value that is not NULL is of a row the source gives.
LEMMA PresentRow ==
  ASSUME NEW q, WellFormed(q), Validate(q) = Allowed, NEW k \in DOMAIN q, NEW db,
         NEW b \in BindingsOf(q[k], db, OutputColumns(q), Answers(q, db)),
         NEW n \in DOMAIN q[k].from,
         NEW c \in ScopeRelations(q, k)[q[k].from[n].alias].columns,
         b[q[k].from[n].alias].cells[c].val # Null
  PROVE  /\ b[q[k].from[n].alias] \in SourceRows(q[k], db, Answers(q, db))[n]
         /\ Holds(b, q[k].from[n].on)
<1> DEFINE s == q[k].from[n]
           rows == SourceRows(q[k], db, Answers(q, db))[n]
           columns == SourceColumns(q[k], OutputColumns(q))[n]
<1>1. SourceKept(b, s, rows, columns)
  BY BindingKept
<1>2. columns = ScopeRelations(q, k)[s.alias].columns
  <2>1. DOMAIN q = 1 .. Len(q) /\ Len(q) \in Nat
    BY ScopesAre
  <2>2. \A j \in 1 .. k - 1 : GoodRows(q, Answers(q, db)[j], OutputColumns(q)[j])
    BY <2>1, AnswersFit
  <2> QED
    BY <2>2, SourceFits
<1>3. MissingRow(columns).cells[c] = Missing
  BY <1>2 DEF MissingRow
<1>4. Missing.val = Null
  BY DEF Missing, Cell
<1> QED
  BY <1>1, <1>3, <1>4 DEF SourceKept

\* The cells of a table's row count one value of the table each.
LEMMA TableCell ==
  ASSUME NEW t, NEW db, NEW row \in TableRows(db, t), NEW c \in Catalog[t].columns
  PROVE  Origin(row.cells[c]) = {<<t, c>>}
<1> DEFINE cells(n) == [d \in Catalog[t].columns |-> Cell(db[t][n][d], SetToBag({<<t, d, n>>}))]
<1>1. PICK n \in DOMAIN db[t] : row = [of |-> <<n>>, cells |-> cells(n)]
  BY DEF TableRows
<1>2. row.cells[c] = Cell(db[t][n][c], SetToBag({<<t, c, n>>}))
  BY <1>1
<1>3. row.cells[c].counts = SetToBag({<<t, c, n>>})
  BY <1>2 DEF Cell
<1>4. BagToSet(row.cells[c].counts) = {<<t, c, n>>}
  BY <1>3 DEF SetToBag, BagToSet
<1> QED
  BY <1>4 DEF Origin

\* A column compared that is of one table is what its value counts.
LEMMA TableOrigin ==
  ASSUME NEW q, WellFormed(q), Validate(q) = Allowed, NEW k \in DOMAIN q, NEW db,
         NEW b \in BindingsOf(q[k], db, OutputColumns(q), Answers(q, db)),
         NEW ref \in Named(q[k]), Value(b, ref).val # Null,
         NEW a, SourceNamed(ScopeRelations(q, k), ref) = {a}, ~IsDerived(ScopeRelations(q, k)[a])
  PROVE  Origin(Value(b, ref)) = {<<ScopeRelations(q, k)[a].table, ref.c>>}
<1> DEFINE relations == ScopeRelations(q, k)
<1>1. a \in DOMAIN relations /\ ref.c \in relations[a].columns
  BY NamedIs
<1>2. Value(b, ref) = b[a].cells[ref.c]
  BY BindingKept, NamedValue
<1>3. PICK n \in DOMAIN q[k].from :
        /\ q[k].from[n].alias = a
        /\ ~IsDerived(relations[a]) <=> IsTable(q[k].from[n])
        /\ IsTable(q[k].from[n]) => /\ relations[a].table = q[k].from[n].table
                                    /\ relations[a].columns = Catalog[q[k].from[n].table].columns
  BY <1>1, SourceOf
<1> DEFINE t == q[k].from[n].table
<1>4. IsTable(q[k].from[n]) /\ relations[a].table = t /\ relations[a].columns = Catalog[t].columns
  BY <1>3
<1>5. b[a] \in SourceRows(q[k], db, Answers(q, db))[n]
  BY <1>1, <1>2, <1>3, PresentRow
<1>6. b[a] \in TableRows(db, t)
  BY <1>4, <1>5 DEF SourceRows
<1>7. Origin(b[a].cells[ref.c]) = {<<t, ref.c>>}
  BY <1>1, <1>4, <1>6, TableCell
<1> HIDE DEF relations
<1> QED
  BY <1>2, <1>4, <1>7 DEF relations

\* A name alone that has a value which is no row is of one relation.
LEMMA OwnerIs ==
  ASSUME NEW q, NEW relations, NEW b, Binds(q, b, relations), NEW ref, Bare(ref), Value(b, ref).val # Null,
         NEW a \in Owners(relations, ref.c)
  PROVE  SourceNamed(relations, ref) = {a}
<1> DEFINE owners == {x \in DOMAIN b : Has(b, x, ref.c)}
<1>1. owners = Owners(relations, ref.c)
  BY DEF Has, Owners, Binds, Fits
<1>2. \A x, y \in owners : x = y
  BY BareValue
<1> HIDE DEF owners
<1> QED
  BY <1>1, <1>2 DEF SourceNamed

\* What a column compared reads directly is what its value counts.
LEMMA DirectOrigin ==
  ASSUME NEW q, WellFormed(q), Validate(q) = Allowed, NEW k \in DOMAIN q, NEW db,
         NEW b \in BindingsOf(q[k], db, OutputColumns(q), Answers(q, db)),
         NEW ref \in Named(q[k]), Value(b, ref).val # Null,
         NEW o \in JoinColumn(ScopeRelations(q, k), ref)
  PROVE  Origin(Value(b, ref)) = {o}
<1> DEFINE relations == ScopeRelations(q, k)
<1>1. PICK a \in Resolve(relations, ref) :
        /\ o = <<relations[a].table, ref.c>>
        /\ relations[a].table # "" /\ ref.c \in relations[a].columns
  BY DEF JoinColumn
<1>2. ~IsDerived(relations[a])
  BY <1>1, Zenon DEF IsDerived
<1> HIDE DEF relations
<1>3. a \in DOMAIN relations
  BY <1>1 DEF Resolve, Owners
<1>4. SourceNamed(relations, ref) = {a}
  <2>1. CASE Bare(ref)
    <3>1. a \in Owners(relations, ref.c)
      BY <1>1, <1>3 DEF Owners
    <3>2. Binds(q, b, relations)
      BY BindingKept DEF relations
    <3> QED
      BY <2>1, <3>1, <3>2, OwnerIs
  <2>2. CASE ~Bare(ref)
    BY <1>1, <1>3, <2>2 DEF Bare, Resolve, SourceNamed
  <2> QED
    BY <2>1, <2>2
<1>5. Origin(Value(b, ref)) = {<<relations[a].table, ref.c>>}
  BY <1>2, <1>4, TableOrigin DEF relations
<1> QED
  BY <1>1, <1>5

-----------------------------------------------------------------------------
(***************************************************************************)
(* What a column is traced to through the SELECTs inside.                  *)
(***************************************************************************)
\* Readings followed one SELECT further in.
AllInward(q, readings) == UNION {TracedInward(q, r) : r \in readings}

Followed(q, k, ref, readings) ==
  /\ readings[0] = {<<k, ref>>}
  /\ \A n \in 1 .. k : readings[n] = AllInward(q, readings[n - 1])

LEMMA ReadingsAre ==
  ASSUME NEW q, NEW k \in Nat, NEW ref
  PROVE  Followed(q, k, ref, TracedReadings(q, k, ref))
<1> DEFINE L == k
           Step(before) == AllInward(q, before)
           Of(n, f) == IF n = 0 THEN {<<k, ref>>} ELSE Step(f[n - 1])
           Solves(f, n) == \A j \in 0 .. n : f[j] = Of(j, f)
           Whole(f) == f = [n \in 0 .. L |-> Of(n, f)]
           readings == TracedReadings(q, k, ref)
<1>1. readings = CHOOSE f : Whole(f)
  BY DEF TracedReadings, AllInward
<1>2. L \in Nat
  OBVIOUS
<1> HIDE DEF Step, L
<1>3. \A n \in 0 .. L : \E f : Solves(f, n)
  <2> DEFINE Bad == {n \in 0 .. L : ~ \E f : Solves(f, n)}
  <2>1. SUFFICES ASSUME Bad # {} PROVE FALSE
    OBVIOUS
  <2>2. Bad \in SUBSET Nat
    BY <1>2
  <2>3. PICK m \in Bad : \A n \in Bad : m <= n
    BY <2>1, <2>2, LeastOf
  <2>4. m \in 1 .. L /\ m - 1 \in 0 .. L
    <3>1. 0 \notin Bad
      <4> DEFINE f == [n \in 0 .. 0 |-> {<<k, ref>>}]
      <4>1. Solves(f, 0)
        OBVIOUS
      <4> QED
        BY <4>1
    <3> QED
      BY <1>2, <2>3, <3>1
  <2>5. \E g : Solves(g, m - 1)
    <3> HIDE DEF Bad
    <3>1. m - 1 \notin Bad
      BY <2>3, <2>4
    <3> HIDE DEF Solves
    <3> QED
      BY <2>4, <3>1 DEF Bad
  <2>6. PICK g : Solves(g, m - 1)
    BY <2>5
  <2> DEFINE f == [n \in 0 .. L |-> IF n < m THEN g[n] ELSE Step(g[m - 1])]
  <2>7. /\ \A n \in 0 .. m - 1 : f[n] = g[n]
        /\ f[m] = Step(g[m - 1])
    BY <1>2, <2>4
  <2> HIDE DEF f
  <2>8. ASSUME NEW n \in 0 .. m PROVE f[n] = Of(n, f)
    <3>1. CASE n \in 0 .. m - 1
      <4>1. f[n] = g[n] /\ g[n] = Of(n, g)
        BY <2>6, <2>7, <3>1
      <4>2. n # 0 => f[n - 1] = g[n - 1]
        BY <1>2, <2>4, <2>7, <3>1
      <4> QED
        BY <4>1, <4>2
    <3>2. CASE n = m
      BY <1>2, <2>4, <2>7, <3>2
    <3> QED
      BY <1>2, <2>4, <3>1, <3>2
  <2> QED
    BY <2>3, <2>8
<1>4. \E f : Whole(f)
  <2>1. L \in 0 .. L
    BY <1>2
  <2>2. \E f : Solves(f, L)
    <3> HIDE DEF Solves
    <3> QED
      BY <1>3, <2>1
  <2>3. PICK f : Solves(f, L)
    BY <2>2
  <2> DEFINE h == [n \in 0 .. L |-> f[n]]
  <2>4. ASSUME NEW n \in 0 .. L PROVE h[n] = Of(n, h)
    <3>1. h[n] = f[n] /\ f[n] = Of(n, f)
      BY <2>3
    <3>2. n # 0 => h[n - 1] = f[n - 1]
      BY <1>2
    <3> HIDE DEF h
    <3> QED
      BY <3>1, <3>2
  <2>5. h = [n \in 0 .. L |-> Of(n, h)]
    BY <2>4
  <2> QED
    BY <2>5
<1>5. Whole(readings)
  BY <1>1, <1>4
<1> HIDE DEF readings
<1>6. /\ readings[0] = {<<k, ref>>}
      /\ \A n \in 1 .. L : readings[n] = Step(readings[n - 1])
  <2>1. \A n \in 0 .. L : readings[n] = Of(n, readings)
    <3> HIDE DEF Of
    <3> QED
      BY <1>5
  <2>2. 0 \in 0 .. L /\ \A n \in 1 .. L : n \in 0 .. L /\ n # 0
    BY <1>2
  <2> QED
    BY <2>1, <2>2
<1> QED
  BY <1>6 DEF Followed, readings, Step, L

\* The source only a column can mean.
LEMMA OnlySourceIs ==
  ASSUME NEW q, WellFormed(q), NEW k \in DOMAIN q, NEW ref, NEW s \in OnlySource(q, k, ref)
  PROVE  /\ s \in ToSet(q[k].from)
         /\ ~Bare(ref) => s.alias = ref.q
         /\ Bare(ref) => s.alias \in Owners(ScopeRelations(q, k), ref.c)
         /\ Bare(ref) => \A t \in ToSet(q[k].from) : t.alias \in Owners(ScopeRelations(q, k), ref.c) => t = s
<1> DEFINE from == ToSet(q[k].from)
           Carries(t) == t.alias \in Owners(ScopeRelations(q, k), ref.c)
           candidates == {t \in from : IF Bare(ref) THEN Carries(t) ELSE t.alias = ref.q}
<1>1. OnlySource(q, k, ref) = IF Cardinality(candidates) = 1 THEN candidates ELSE {}
  BY DEF OnlySource, Bare, Owners
<1>2. IsFiniteSet(candidates)
  <2>1. q[k].from \in Seq(from)
    BY DEF WellFormed, WellFormedSelect
  <2>2. IsFiniteSet(from)
    BY <2>1, ElementsFinite
  <2>3. candidates \in SUBSET from
    OBVIOUS
  <2> HIDE DEF candidates, from
  <2> QED
    BY <2>2, <2>3, FS_Subset
<1>3. s \in candidates /\ Cardinality(candidates) = 1
  <2> HIDE DEF candidates
  <2> QED
    BY <1>1
<1>4. PICK x : candidates = {x}
  <2> HIDE DEF candidates
  <2> QED
    BY <1>2, <1>3, TheOnly
<1>5. \A t \in from : Bare(ref) /\ Carries(t) => t \in candidates
  OBVIOUS
<1> QED
  BY <1>3, <1>4, <1>5

\* A column of a SELECT reads the cell in some row of its FROM list.
Read(q, db, k, ref, cell) ==
  /\ k \in DOMAIN q
  /\ \E b \in BindingsOf(q[k], db, OutputColumns(q), Answers(q, db)) :
       \A s \in OnlySource(q, k, ref) : /\ ref.c \in ScopeRelations(q, k)[s.alias].columns
                                        /\ b[s.alias].cells[ref.c] = cell

LEMMA NamedRead ==
  ASSUME NEW q, WellFormed(q), Validate(q) = Allowed, NEW k \in DOMAIN q, NEW db,
         NEW b \in BindingsOf(q[k], db, OutputColumns(q), Answers(q, db)), NEW ref \in Named(q[k])
  PROVE  Read(q, db, k, ref, Value(b, ref))
<1> DEFINE relations == ScopeRelations(q, k)
<1>1. DOMAIN relations = AliasesOf(q[k])
  BY ValidatedParts, RelationsAreSources
<1> HIDE DEF relations
<1>2. ASSUME NEW s \in OnlySource(q, k, ref)
      PROVE  ref.c \in relations[s.alias].columns /\ b[s.alias].cells[ref.c] = Value(b, ref)
  <2>1. SourceNamed(relations, ref) = {s.alias}
    <3>1. CASE ~Bare(ref)
      BY <3>1, NamedIs, OnlySourceIs DEF relations
    <3>2. CASE Bare(ref)
      <4>1. s.alias \in Owners(relations, ref.c)
        BY <3>2, OnlySourceIs DEF relations
      <4>2. ASSUME NEW a \in Owners(relations, ref.c) PROVE a = s.alias
        <5>1. PICK t \in ToSet(q[k].from) : t.alias = a
          BY <1>1 DEF Owners, AliasesOf
        <5> QED
          BY <3>2, <5>1, OnlySourceIs DEF relations
      <4> QED
        BY <3>2, <4>1, <4>2 DEF SourceNamed
    <3> QED
      BY <3>1, <3>2
  <2>2. ref.c \in relations[s.alias].columns
    BY <2>1, NamedIs DEF relations
  <2>3. Binds(q, b, relations)
    BY BindingKept DEF relations
  <2> QED
    BY <2>1, <2>2, <2>3, NamedValue
<1> QED
  BY <1>2 DEF Read, relations

\* A row a SELECT gives is what a group of rows of its FROM list gives.
LEMMA RowIs ==
  ASSUME NEW p, NEW bindings, NEW row \in RowsOf(p, bindings)
  PROVE  \E group \in GroupsOf(p, bindings) : row.cells = Outputs(p, group)
<1> DEFINE Of(b) == [a \in DOMAIN b |-> b[a].of]
           rows == {[of |-> <<{Of(b) : b \in group}>>, cells |-> Outputs(p, group)] :
                      group \in GroupsOf(p, bindings)}
<1>1. row \in rows
  <2>1. RowsOf(p, bindings) = IF p.distinct THEN Different(rows) ELSE rows
    BY DEF RowsOf
  <2> HIDE DEF rows
  <2>2. Different(rows) \subseteq rows
    BY DEF Different
  <2> QED
    BY <2>1, <2>2
<1> QED
  BY <1>1

\* A column a SELECT passes straight through reads the cell the SELECT gives.
LEMMA PassedRead ==
  ASSUME NEW q, WellFormed(q), Validate(q) = Allowed, NEW k \in DOMAIN q, NEW db,
         NEW row \in Answers(q, db)[k], NEW c \in DOMAIN row.cells, NEW of \in Passed(q[k], c)
  PROVE  Read(q, db, k, of, row.cells[c])
<1> DEFINE p == q[k]
           relations == ScopeRelations(q, k)
           bindings == BindingsOf(p, db, OutputColumns(q), Answers(q, db))
<1>1. PICK group \in GroupsOf(p, bindings) : row.cells = Outputs(p, group)
  <2>1. Answers(q, db)[k] = RowsOf(p, bindings)
    <3> DEFINE answers == Answers(q, db)
               Of(j) == RowsOf(q[j], BindingsOf(q[j], db, OutputColumns(q), Answers(q, db)))
    <3>1. answers = [j \in DOMAIN q |-> Of(j)]
      BY AnswersAre
    <3> HIDE DEF answers, Of
    <3>2. answers[k] = Of(k)
      BY <3>1
    <3> QED
      BY <3>2 DEF answers, Of
  <2> QED
    BY <2>1, RowIs
<1>2. group \subseteq bindings /\ \A i \in ToSet(p.items) : group # {} \/ IsAggregate(i)
  BY GroupsAre
<1> DEFINE n == Projection(p, c)
           b == CHOOSE b \in group : TRUE
           Gives(i) == c \in DOMAIN Output(i, group)
           item == IF n # 0 THEN p.items[n] ELSE CHOOSE i \in ToSet(p.items) : Gives(i)
<1>3. row.cells[c] = Output(item, group)[c] /\ \E i \in ToSet(p.items) : Gives(i)
  BY <1>1 DEF Outputs
<1>4. /\ n # 0 => p.items[n] \in ToSet(p.items) /\ p.items[n].as = c /\ ~IsStar(p.items[n])
      /\ n = 0 => \A i \in ToSet(p.items) : i.as = c => IsStar(i)
  BY ProjectionIs
<1>5. Passed(p, c) = IF n # 0 THEN {i.of : i \in {i \in {p.items[n]} : i.agg = "none"}}
                     ELSE IF HasStar(p) THEN {Column("", c)} ELSE {}
  BY DEF Passed
<1>6. CASE n # 0
  <2>1. item = p.items[n] /\ item.agg = "none" /\ of = item.of
    BY <1>5, <1>6
  <2>2. item \in ToSet(p.items) /\ item.as = c
    BY <1>4, <1>6, <2>1
  <2> HIDE DEF item, n, p, b
  <2>3. b \in bindings
    <3>1. ~IsAggregate(item)
      BY <2>1 DEF IsAggregate
    <3>2. group # {}
      BY <1>2, <2>2, <3>1
    <3> QED
      BY <1>2, <3>2 DEF b
  <2>4. row.cells[c] = Value(b, of)
    <3>1. Output(item, group) = [d \in {item.as} |-> Value(b, item.of)]
      BY <2>1 DEF Output, b
    <3> QED
      BY <1>3, <2>1, <2>2, <3>1
  <2>5. of \in Named(p)
    BY <2>1, <2>2 DEF Named
  <2> QED
    BY <2>3, <2>4, <2>5, NamedRead DEF p
<1>7. CASE n = 0
  <2>1. of = Column("", c)
    BY <1>5, <1>7
  <2>2. item \in ToSet(p.items) /\ Gives(item)
    BY <1>3, <1>7
  <2> HIDE DEF item
  <2>3. IsStar(item)
    <3>1. DOMAIN Output(item, group) = ColumnsOf(item, relations)
      <4>1. \A e \in bindings : Binds(q, e, relations)
        BY BindingKept
      <4> QED
        BY <1>2, <2>2, <4>1, OutputFits
    <3>2. ~IsStar(item) => item.as = c
      BY <2>2, <3>1 DEF ColumnsOf
    <3> QED
      BY <1>4, <1>7, <2>2, <3>2
  <2> DEFINE among == IF item.of.q = "" THEN DOMAIN b ELSE {item.of.q}
             owner == CHOOSE a \in among : Has(b, a, c)
  <2> HIDE DEF b
  <2>4. b \in bindings
    <3>1. group # {}
      BY <1>2, <2>2, <2>3 DEF IsStar, IsAggregate
    <3> QED
      BY <1>2, <3>1 DEF b
  <2>5. row.cells[c] = b[owner].cells[c] /\ owner \in among /\ Has(b, owner, c)
    <3>1. Output(item, group) = Spelt(b, item)
      BY <2>3 DEF Output, IsStar, b
    <3>2. Spelt(b, item) = [d \in UNION {DOMAIN b[a].cells : a \in among} |->
                              b[CHOOSE a \in among : Has(b, a, d)].cells[d]]
      BY DEF Spelt
    <3> HIDE DEF among
    <3>3. c \in UNION {DOMAIN b[a].cells : a \in among}
      BY <2>2, <3>1, <3>2
    <3>4. \E a \in among : Has(b, a, c)
      BY <3>3 DEF Has
    <3>5. owner \in among /\ Has(b, owner, c)
      BY <3>4
    <3> QED
      BY <1>3, <3>1, <3>2, <3>3, <3>5
  <2>6. owner \in Owners(relations, c)
    <3>1. Binds(q, b, relations)
      BY <2>4, BindingKept
    <3>2. owner \in DOMAIN b
      <4>1. item.of.q \in DOMAIN relations \cup {""}
        BY <2>2, <2>3, OutputsAdmitted
      <4>2. DOMAIN b = DOMAIN relations
        BY <3>1 DEF Binds
      <4> HIDE DEF relations, owner
      <4> QED
        BY <2>5, <4>1, <4>2, Zenon
    <3> HIDE DEF relations, owner
    <3> QED
      BY <2>5, <3>1, <3>2 DEF Owners, Binds, Fits, Has
  <2>7. Bare(of) /\ of.c = c
    BY <2>1, Zenon DEF Bare, Column
  <2>8. ASSUME NEW s \in OnlySource(q, k, of)
        PROVE  s.alias = owner
    <3>1. PICK t \in ToSet(p.from) : t.alias = owner
      <4>1. ValidateTables(q) = Allowed
        BY ValidatedParts
      <4>2. DOMAIN relations = AliasesOf(p)
        BY <4>1, RelationsAreSources
      <4>3. owner \in DOMAIN relations
        BY <2>6 DEF Owners
      <4> HIDE DEF owner, relations
      <4> QED
        BY <4>2, <4>3 DEF AliasesOf
    <3>2. t = s
      <4>1. \A u \in ToSet(p.from) : u.alias \in Owners(relations, of.c) => u = s
        BY <2>7, OnlySourceIs
      <4>2. t.alias \in Owners(relations, of.c)
        <5> HIDE DEF owner
        <5> QED
          BY <2>6, <2>7, <3>1
      <4> QED
        BY <3>1, <4>1, <4>2
    <3> QED
      BY <3>1, <3>2
  <2>9. c \in relations[owner].columns
    BY <2>6 DEF Owners
  <2> HIDE DEF owner, relations, bindings, p
  <2>10. \A s \in OnlySource(q, k, of) : of.c \in relations[s.alias].columns /\ b[s.alias].cells[of.c] = row.cells[c]
    BY <2>5, <2>7, <2>8, <2>9
  <2> QED
    BY <2>4, <2>10 DEF Read, relations, bindings, p
<1> QED
  BY <1>6, <1>7

\* The SELECT a column is passed by reads the same cell.
LEMMA InwardRead ==
  ASSUME NEW q, WellFormed(q), Validate(q) = Allowed, NEW db, NEW cell, cell.val # Null,
         NEW reading, Read(q, db, reading[1], reading[2], cell), NEW inner \in TracedInward(q, reading)
  PROVE  Read(q, db, inner[1], inner[2], cell)
<1> DEFINE k == reading[1]
           c == reading[2].c
           from == q[k].from
<1>1. k \in DOMAIN q
  BY DEF Read
<1>2. PICK s \in OnlySource(q, k, reading[2]) : ~IsTable(s) /\ \E of \in Passed(q[s.inner], c) : inner = <<s.inner, of>>
  BY DEF TracedInward
<1>3. PICK of \in Passed(q[s.inner], c) : inner = <<s.inner, of>>
  BY <1>2
<1>4. PICK b \in BindingsOf(q[k], db, OutputColumns(q), Answers(q, db)) :
        c \in ScopeRelations(q, k)[s.alias].columns /\ b[s.alias].cells[c] = cell
  BY DEF Read
<1>5. s \in ToSet(from)
  BY <1>1, OnlySourceIs
<1>6. PICK n \in DOMAIN from : from[n] = s
  BY <1>5 DEF ToSet
<1>7. b[s.alias] \in Answers(q, db)[s.inner]
  <2>1. b[s.alias] \in SourceRows(q[k], db, Answers(q, db))[n]
    BY <1>1, <1>4, <1>6, PresentRow
  <2> QED
    BY <1>2, <1>6, <2>1 DEF SourceRows
<1>8. s.inner \in DOMAIN q
  <2>1. s.inner \in 1 .. k - 1
    BY <1>1, <1>2, <1>5, SourcesAre
  <2>2. DOMAIN q = 1 .. Len(q) /\ Len(q) \in Nat
    BY ScopesAre
  <2> HIDE DEF k
  <2> QED
    BY <1>1, <2>1, <2>2
<1>9. c \in DOMAIN b[s.alias].cells
  <2>1. Binds(q, b, ScopeRelations(q, k))
    BY <1>1, BindingKept
  <2>2. ValidateTables(q) = Allowed
    BY ValidatedParts
  <2>3. s.alias \in DOMAIN ScopeRelations(q, k)
    <3>1. s.alias \in AliasesOf(q[k])
      BY <1>5 DEF AliasesOf
    <3> QED
      BY <1>1, <2>2, <3>1, RelationsAreSources
  <2> QED
    BY <1>4, <2>1, <2>3 DEF Binds, Fits
<1>10. Read(q, db, s.inner, of, cell)
  BY <1>3, <1>4, <1>7, <1>8, <1>9, PassedRead
<1> QED
  BY <1>3, <1>10

\* A table column read is what the cell counts.
LEMMA ReadOrigin ==
  ASSUME NEW q, WellFormed(q), Validate(q) = Allowed, NEW db, NEW cell, cell.val # Null,
         NEW reading, Read(q, db, reading[1], reading[2], cell), NEW o \in TracedFrom(q, reading)
  PROVE  Origin(cell) = {o}
<1> DEFINE k == reading[1]
           c == reading[2].c
           from == q[k].from
<1>1. k \in DOMAIN q
  BY DEF Read
<1>2. PICK s \in OnlySource(q, k, reading[2]) : IsTable(s) /\ Known(s.table, c) /\ o = <<s.table, c>>
  BY DEF TracedFrom
<1>3. PICK b \in BindingsOf(q[k], db, OutputColumns(q), Answers(q, db)) :
        c \in ScopeRelations(q, k)[s.alias].columns /\ b[s.alias].cells[c] = cell
  BY DEF Read
<1>4. s \in ToSet(from)
  BY <1>1, OnlySourceIs
<1>5. PICK n \in DOMAIN from : from[n] = s
  BY <1>4 DEF ToSet
<1>6. b[s.alias] \in TableRows(db, s.table)
  <2>1. b[s.alias] \in SourceRows(q[k], db, Answers(q, db))[n]
    BY <1>1, <1>3, <1>5, PresentRow
  <2> QED
    BY <1>2, <1>5, <2>1 DEF SourceRows
<1>7. Origin(b[s.alias].cells[c]) = {<<s.table, c>>}
  BY <1>2, <1>6, TableCell DEF Known
<1> QED
  BY <1>2, <1>3, <1>7

\* The table column a column is traced to is what its value counts.
LEMMA TracedOrigin ==
  ASSUME NEW q, WellFormed(q), Validate(q) = Allowed, NEW k \in DOMAIN q, NEW db,
         NEW b \in BindingsOf(q[k], db, OutputColumns(q), Answers(q, db)),
         NEW ref \in Named(q[k]), Value(b, ref).val # Null,
         NEW o \in TracedColumn(q, k, ref)
  PROVE  Origin(Value(b, ref)) = {o}
<1> DEFINE readings == TracedReadings(q, k, ref)
           Good(r) == Read(q, db, r[1], r[2], Value(b, ref))
           Bad == {n \in 0 .. k : \E r \in readings[n] : ~Good(r)}
<1>1. k \in Nat
  BY ScopesAre
<1>2. readings[0] = {<<k, ref>>} /\ \A n \in 1 .. k : readings[n] = AllInward(q, readings[n - 1])
  <2>1. Followed(q, k, ref, TracedReadings(q, k, ref))
    BY <1>1, ReadingsAre
  <2> QED
    BY <2>1 DEF Followed
<1>3. Good(<<k, ref>>)
  BY NamedRead
<1>4. ASSUME NEW r, Good(r), NEW inner \in TracedInward(q, r) PROVE Good(inner)
  BY <1>4, InwardRead
<1> HIDE DEF readings, Good
<1>5. Bad = {}
  <2>1. SUFFICES ASSUME Bad # {} PROVE FALSE
    OBVIOUS
  <2>2. Bad \in SUBSET Nat
    BY <1>1
  <2>3. PICK n \in Bad : \A m \in Bad : n <= m
    BY <2>1, <2>2, LeastOf
  <2>4. n # 0
    BY <1>2, <1>3, <2>3
  <2>5. n \in 1 .. k /\ n - 1 \in 0 .. k /\ n - 1 \notin Bad
    BY <1>1, <2>3, <2>4
  <2>6. \A r \in readings[n - 1] : Good(r)
    BY <2>5
  <2>7. \A inner \in readings[n] : Good(inner)
    BY <1>2, <1>4, <2>5, <2>6 DEF AllInward
  <2> QED
    BY <2>3, <2>7
<1>6. PICK n \in 1 .. k : \E r \in readings[n] : o \in TracedFrom(q, r)
  BY DEF TracedColumn, readings
<1>6a. PICK r \in readings[n] : o \in TracedFrom(q, r)
  BY <1>6
<1>7. Good(r)
  <2>1. n \in 0 .. k /\ n \notin Bad
    BY <1>1, <1>5, <1>6
  <2> QED
    BY <1>6a, <2>1
<1> QED
  BY <1>6a, <1>7, ReadOrigin DEF Good

-----------------------------------------------------------------------------
(***************************************************************************)
(* Conditions: what holds of a row brings two of its rows together.        *)
(***************************************************************************)
Same(b, e) == Value(b, e[1]).val # Null /\ Value(b, e[1]).val = Value(b, e[2]).val

HoldsOne(b, clause) == \E e \in ToSet(clause) : Same(b, e)

Live(b) == {a \in DOMAIN b : \E c \in DOMAIN Vals(b[a]) : Vals(b[a])[c] # Null}

LEMMA NamedInClauses ==
  ASSUME NEW p, NEW clause \in Clauses(p), NEW e \in ToSet(clause)
  PROVE  e[1] \in Named(p) /\ e[2] \in Named(p)
<1>1. e \in Equalities(p)
  BY DEF Equalities
<1>2. {e[1], e[2]} \subseteq Compared(p)
  BY <1>1 DEF Compared
<1> QED
  BY <1>2 DEF Named

\* An equality that links relations has two columns of one relation each.
LEMMA LinkNames ==
  ASSUME NEW relations, IsFiniteSet(DOMAIN relations), NEW e, EqualityLink(relations, e) # {}
  PROVE  /\ \E a : SourceNamed(relations, e[1]) = {a}
         /\ \E a : SourceNamed(relations, e[2]) = {a}
<1> DEFINE Source(ref) == IF ref.q = "" THEN Owners(relations, ref.c) ELSE {ref.q} \cap DOMAIN relations
<1>1. \A side \in {1, 2} : Cardinality(Source(e[side])) = 1
  BY DEF EqualityLink
<1>2. ASSUME NEW side \in {1, 2} PROVE \E a : SourceNamed(relations, e[side]) = {a}
  <2>1. Source(e[side]) = SourceNamed(relations, e[side]) /\ Source(e[side]) \in SUBSET DOMAIN relations
    BY DEF SourceNamed, Bare, Owners
  <2> HIDE DEF Source
  <2>2. IsFiniteSet(Source(e[side]))
    BY <2>1, FS_Subset
  <2> QED
    BY <1>1, <2>1, <2>2, TheOnly
<1> QED
  BY <1>2

\* The relations of a SELECT are finitely many.
LEMMA RelationsFinite ==
  ASSUME NEW q, WellFormed(q), Validate(q) = Allowed, NEW k \in DOMAIN q
  PROVE  IsFiniteSet(DOMAIN ScopeRelations(q, k))
<1>1. DOMAIN ScopeRelations(q, k) = AliasesOf(q[k])
  BY ValidatedParts, RelationsAreSources
<1> QED
  BY <1>1, AliasesFinite

\* An equality links the relations its two columns are of.
LEMMA LinkIs ==
  ASSUME NEW relations, NEW e, NEW a1, NEW a2, SourceNamed(relations, e[1]) = {a1}, SourceNamed(relations, e[2]) = {a2},
         NEW l \in EqualityLink(relations, e)
  PROVE  /\ l = {a1, a2} /\ a1 # a2
         /\ \/ IsDerived(relations[a1]) \/ IsDerived(relations[a2])
            \/ relations[a1].table = relations[a2].table
            \/ Related(<<relations[a1].table, e[1].c>>, <<relations[a2].table, e[2].c>>)
<1> DEFINE Source(ref) == IF ref.q = "" THEN Owners(relations, ref.c) ELSE {ref.q} \cap DOMAIN relations
           Links(a, b) == \/ relations[a].table = "" \/ relations[b].table = ""
                          \/ relations[a].table = relations[b].table
                          \/ Related(<<relations[a].table, e[1].c>>, <<relations[b].table, e[2].c>>)
           pairs == {p \in Source(e[1]) \X Source(e[2]) : p[1] # p[2] /\ Links(p[1], p[2])}
<1>1. EqualityLink(relations, e) = IF \A side \in {1, 2} : Cardinality(Source(e[side])) = 1
                                   THEN {{p[1], p[2]} : p \in pairs} ELSE {}
  BY DEF EqualityLink
<1>2. Source(e[1]) = {a1} /\ Source(e[2]) = {a2}
  BY DEF SourceNamed, Bare
<1> HIDE DEF Source, Links
<1>3. PICK p \in pairs : l = {p[1], p[2]}
  BY <1>1
<1>4. p[1] = a1 /\ p[2] = a2
  BY <1>2, <1>3
<1>5. Links(a1, a2) /\ a1 # a2 /\ l = {a1, a2}
  BY <1>3, <1>4
<1> QED
  BY <1>5, Zenon DEF Links, IsDerived

LEMMA JoinedByIs ==
  ASSUME NEW relations, NEW clause, NEW l \in JoinedBy(relations, clause)
  PROVE  /\ \A e \in ToSet(clause) : EqualityLink(relations, e) = {l}
         /\ \E e \in ToSet(clause) : l \in EqualityLink(relations, e)
BY DEF JoinedBy

\* Columns that hold one value, where neither is NULL, are of rows that are there.
LEMMA SameIsLive ==
  ASSUME NEW q, NEW relations, NEW b, Binds(q, b, relations), NEW ref, Value(b, ref).val # Null,
         NEW a \in DOMAIN relations, SourceNamed(relations, ref) = {a}, ref.c \in relations[a].columns
  PROVE  a \in Live(b) /\ ref.c \in DOMAIN b[a].cells /\ Value(b, ref) = b[a].cells[ref.c]
<1>1. Value(b, ref) = b[a].cells[ref.c]
  BY NamedValue
<1>2. a \in DOMAIN b /\ ref.c \in DOMAIN b[a].cells
  BY DEF Binds, Fits
<1>3. ref.c \in DOMAIN Vals(b[a]) /\ Vals(b[a])[ref.c] # Null
  BY <1>1, <1>2 DEF Vals
<1> QED
  BY <1>1, <1>2, <1>3 DEF Live

LEMMA MissingIsDead ==
  ASSUME NEW b, NEW a, NEW columns, b[a] = MissingRow(columns)
  PROVE  a \notin Live(b)
<1>1. b[a].cells = [c \in columns |-> Missing]
  BY DEF MissingRow
<1>2. \A c \in DOMAIN Vals(b[a]) : Vals(b[a])[c] = Null
  BY <1>1 DEF Vals, Missing, Cell
<1> QED
  BY <1>2 DEF Live

\* The columns of an accepted pair hold one key.
LEMMA PairNames ==
  ASSUME NEW q, WellFormed(q), Validate(q) = Allowed, NEW k \in DOMAIN q, NEW db,
         NEW b \in BindingsOf(q[k], db, OutputColumns(q), Answers(q, db)),
         NEW clause \in Clauses(q[k]), NEW e \in ToSet(clause), Same(b, e),
         NEW pair \in PairOf(q, k, clause, e), Related(pair.left, pair.right) \/ ~Narrows(q, k, pair)
  PROVE  NameOneRow(Value(b, e[1]), Value(b, e[2]))
<1>1. pair.left \in SideColumn(q, k, e[1]) /\ pair.right \in SideColumn(q, k, e[2])
  BY DEF PairOf
<1>2. e[1] \in Named(q[k]) /\ e[2] \in Named(q[k])
  BY NamedInClauses
<1>3. Value(b, e[1]).val # Null /\ Value(b, e[2]).val # Null /\ Value(b, e[1]).val = Value(b, e[2]).val
  BY DEF Same
<1>4. Origin(Value(b, e[1])) = {pair.left} /\ Origin(Value(b, e[2])) = {pair.right}
  BY <1>1, <1>2, <1>3, DirectOrigin, TracedOrigin DEF SideColumn
<1>5. Related(pair.left, pair.right) \/ KeyOf(pair.left) = KeyOf(pair.right)
  <2>1. ~UnauthorizedPair(q, k)
    <3>1. ValidateJoins(q, k) = Allowed
      BY ValidatedParts
    <3> QED
      BY <3>1 DEF ValidateJoins, Allowed
  <2>2. pair \in JoinPairs(q, k)
    BY DEF JoinPairs
  <2> QED
    BY <2>1, <2>2 DEF UnauthorizedPair
<1> QED
  BY <1>3, <1>4, <1>5 DEF NameOneRow

\* What it joins is relations of the FROM list, those its columns are of.
LEMMA JoinedByNamed ==
  ASSUME NEW relations, NEW clause, NEW l \in JoinedBy(relations, clause), NEW a \in l
  PROVE  \E e \in ToSet(clause) : \E ref \in {e[1], e[2]} : a \in SourceNamed(relations, ref)
<1>1. PICK e \in ToSet(clause) : l \in EqualityLink(relations, e)
  BY JoinedByIs
<1> DEFINE Source(ref) == IF ref.q = "" THEN Owners(relations, ref.c) ELSE {ref.q} \cap DOMAIN relations
           Links(x, y) == \/ relations[x].table = "" \/ relations[y].table = ""
                          \/ relations[x].table = relations[y].table
                          \/ Related(<<relations[x].table, e[1].c>>, <<relations[y].table, e[2].c>>)
           pairs == {p \in Source(e[1]) \X Source(e[2]) : p[1] # p[2] /\ Links(p[1], p[2])}
<1>2. EqualityLink(relations, e) = IF \A side \in {1, 2} : Cardinality(Source(e[side])) = 1
                                   THEN {{p[1], p[2]} : p \in pairs} ELSE {}
  BY DEF EqualityLink
<1>3. \A ref : Source(ref) = SourceNamed(relations, ref)
  BY DEF SourceNamed, Bare
<1> HIDE DEF Source, Links
<1>4. PICK p \in pairs : l = {p[1], p[2]}
  BY <1>1, <1>2
<1>5. p[1] \in Source(e[1]) /\ p[2] \in Source(e[2])
  BY <1>4
<1> QED
  BY <1>1, <1>3, <1>4, <1>5

LEMMA SourceNamedIn ==
  ASSUME NEW relations, NEW ref
  PROVE  SourceNamed(relations, ref) \subseteq DOMAIN relations /\ (~Bare(ref) => SourceNamed(relations, ref) \subseteq {ref.q})
BY DEF SourceNamed, Owners

\* No set of at most two has three.
LEMMA AtMostTwo ==
  ASSUME NEW S, IsFiniteSet(S), ~(Cardinality(S) > 2), NEW x \in S, NEW y \in S, NEW z \in S
  PROVE  x = y \/ y = z \/ x = z
<1> SUFFICES ASSUME x # y, y # z, x # z PROVE FALSE
  OBVIOUS
<1> DEFINE one == {x}
           two == one \cup {y}
           three == two \cup {z}
<1>1. IsFiniteSet(one) /\ Cardinality(one) = 1 /\ y \notin one
  BY FS_Singleton
<1>2. z \notin two /\ three \in SUBSET S
  OBVIOUS
<1> HIDE DEF one
<1>3. IsFiniteSet(two) /\ Cardinality(two) = 2
  BY <1>1, FS_AddElement
<1> HIDE DEF two
<1>4. Cardinality(three) = 3
  BY <1>2, <1>3, FS_AddElement
<1> HIDE DEF three
<1>5. Cardinality(three) <= Cardinality(S) /\ Cardinality(S) \in Nat
  BY <1>2, FS_Subset, FS_CardinalityType
<1> QED
  BY <1>4, <1>5

\* The relations ON joins.
JoinedOn(relations, on) == UNION UNION {JoinedBy(relations, clause) : clause \in ToSet(on)}

NodesOf(relations, l) == {Node(relations, a) : a \in l}

\* ON of a LEFT JOIN joins at most two tables, its own one of them, which is not listed twice.
LEMMA OuterJoinIs ==
  ASSUME NEW q, WellFormed(q), Validate(q) = Allowed, ~LinkedByAnOuterJoin(q),
         NEW k \in DOMAIN q, NEW n \in DOMAIN q[k].from, q[k].from[n].side = "LEFT"
  PROVE  LET relations == ScopeRelations(q, k)
             s == q[k].from[n]
             nodes == NodesOf(relations, JoinedOn(relations, s.on) \cup {s.alias})
         IN  /\ \A x, y, z \in nodes : x = y \/ y = z \/ x = z
             /\ \A a \in DOMAIN relations : Node(relations, a) = Node(relations, s.alias) => a = s.alias
<1> DEFINE relations == ScopeRelations(q, k)
           s == q[k].from[n]
           joined == JoinedOn(relations, s.on)
           nodes == NodesOf(relations, joined \cup {s.alias})
<1>1. s \in ToSet(q[k].from)
  BY SourcesAre
<1>2. ~(Cardinality(nodes) > 2)
  BY <1>1 DEF LinkedByAnOuterJoin, JoinedOn, NodesOf
<1>3. \A a \in DOMAIN relations \ {s.alias} : Node(relations, a) # Node(relations, s.alias)
  BY <1>1 DEF LinkedByAnOuterJoin
<1>4. IsFiniteSet(nodes)
  <2>1. joined \cup {s.alias} \subseteq DOMAIN relations
    <3>1. joined \subseteq DOMAIN relations
      <4>1. ASSUME NEW clause, NEW l \in JoinedBy(relations, clause) PROVE l \subseteq DOMAIN relations
        BY <4>1, JoinedByNamed, SourceNamedIn
      <4> HIDE DEF relations
      <4> QED
        BY <4>1 DEF JoinedOn
    <3>2. DOMAIN relations = AliasesOf(q[k])
      BY ValidatedParts, RelationsAreSources
    <3> HIDE DEF relations, joined
    <3> QED
      BY <1>1, <3>1, <3>2 DEF AliasesOf
  <2>2. IsFiniteSet(DOMAIN relations)
    <3>1. DOMAIN relations = AliasesOf(q[k])
      BY ValidatedParts, RelationsAreSources
    <3> HIDE DEF relations
    <3> QED
      BY <3>1, AliasesFinite
  <2> HIDE DEF relations, joined
  <2>3. IsFiniteSet(joined \cup {s.alias})
    BY <2>1, <2>2, FS_Subset
  <2> DEFINE node == [a \in joined \cup {s.alias} |-> Node(relations, a)]
  <2>4. IsFiniteSet({node[a] : a \in joined \cup {s.alias}})
    <3>1. DOMAIN node = joined \cup {s.alias} /\ node = [a \in joined \cup {s.alias} |-> node[a]]
      OBVIOUS
    <3> HIDE DEF node
    <3> QED
      BY <2>3, <3>1, ImageFinite
  <2>5. {node[a] : a \in joined \cup {s.alias}} = nodes
    BY DEF NodesOf
  <2> QED
    BY <2>4, <2>5
<1> HIDE DEF nodes
<1>5. \A x, y, z \in nodes : x = y \/ y = z \/ x = z
  BY <1>2, <1>4, AtMostTwo
<1> HIDE DEF relations
<1>6. \A a \in DOMAIN relations : Node(relations, a) = Node(relations, s.alias) => a = s.alias
  BY <1>3
<1> QED
  BY <1>5, <1>6 DEF relations, nodes

\* A clause of an accepted query holds of a row, or it is of a LEFT JOIN whose row is missing.
Unmatched(b, s, columns) == s.side = "LEFT" /\ b[s.alias] = MissingRow(columns)

LEMMA ClauseHolds ==
  ASSUME NEW q, WellFormed(q), Validate(q) = Allowed, NEW k \in DOMAIN q, NEW db,
         NEW b \in BindingsOf(q[k], db, OutputColumns(q), Answers(q, db)), NEW clause \in Clauses(q[k])
  PROVE  \/ HoldsOne(b, clause)
         \/ \E n \in DOMAIN q[k].from :
              /\ clause \in ToSet(q[k].from[n].on)
              /\ Unmatched(b, q[k].from[n], SourceColumns(q[k], OutputColumns(q))[n])
<1>1. \A on : Holds(b, on) => \A c \in ToSet(on) : HoldsOne(b, c)
  BY DEF Holds, HoldsOne, Same
<1>2. CASE clause \in ToSet(q[k].where)
  BY <1>1, <1>2, BindingKept
<1>3. CASE \E s \in ToSet(q[k].from) : clause \in ToSet(s.on)
  <2>1. PICK n \in DOMAIN q[k].from : clause \in ToSet(q[k].from[n].on)
    BY <1>3 DEF ToSet
  <2>2. SourceKept(b, q[k].from[n], SourceRows(q[k], db, Answers(q, db))[n], SourceColumns(q[k], OutputColumns(q))[n])
    BY BindingKept
  <2> QED
    BY <1>1, <2>1, <2>2 DEF SourceKept, Unmatched
<1> QED
  BY <1>2, <1>3 DEF Clauses

\* A relation each, or two that are one table.
Together(b, relations, a1, a2) == Node(relations, a1) = Node(relations, a2) \/ Meet(b[a1], b[a2])

\* What an equality of two tables says of two rows that are there.
LEMMA TablesTogether ==
  ASSUME NEW q, WellFormed(q), Validate(q) = Allowed, NEW k \in DOMAIN q, NEW db,
         NEW b \in BindingsOf(q[k], db, OutputColumns(q), Answers(q, db)),
         NEW clause \in Clauses(q[k]), NEW e \in ToSet(clause), Same(b, e),
         NEW l \in EqualityLink(ScopeRelations(q, k), e),
         \/ \A a \in l : ~IsDerived(ScopeRelations(q, k)[a])
         \/ \E pair \in PairOf(q, k, clause, e) : Related(pair.left, pair.right) \/ ~Narrows(q, k, pair)
  PROVE  \E a1, a2 \in Live(b) : l = {a1, a2} /\ Together(b, ScopeRelations(q, k), a1, a2)
<1> DEFINE relations == ScopeRelations(q, k)
<1>1. e[1] \in Named(q[k]) /\ e[2] \in Named(q[k])
  BY NamedInClauses
<1>1a. /\ \E a : SourceNamed(relations, e[1]) = {a}
       /\ \E a : SourceNamed(relations, e[2]) = {a}
  <2>1. IsFiniteSet(DOMAIN relations) /\ EqualityLink(relations, e) # {}
    BY RelationsFinite
  <2> HIDE DEF relations
  <2> QED
    BY <2>1, LinkNames
<1>2. PICK a1 : SourceNamed(relations, e[1]) = {a1} /\ a1 \in DOMAIN relations /\ e[1].c \in relations[a1].columns
  BY <1>1, <1>1a, NamedIs
<1>3. PICK a2 : SourceNamed(relations, e[2]) = {a2} /\ a2 \in DOMAIN relations /\ e[2].c \in relations[a2].columns
  BY <1>1, <1>1a, NamedIs
<1>4. /\ l = {a1, a2}
      /\ \/ IsDerived(relations[a1]) \/ IsDerived(relations[a2])
         \/ relations[a1].table = relations[a2].table
         \/ Related(<<relations[a1].table, e[1].c>>, <<relations[a2].table, e[2].c>>)
  BY <1>2, <1>3, LinkIs
<1>5. Binds(q, b, relations)
  BY BindingKept
<1>6. Value(b, e[1]).val # Null /\ Value(b, e[2]).val # Null /\ Value(b, e[1]).val = Value(b, e[2]).val
  BY DEF Same
<1>7. a1 \in Live(b) /\ e[1].c \in DOMAIN b[a1].cells /\ Value(b, e[1]) = b[a1].cells[e[1].c]
  BY <1>2, <1>5, <1>6, SameIsLive
<1>8. a2 \in Live(b) /\ e[2].c \in DOMAIN b[a2].cells /\ Value(b, e[2]) = b[a2].cells[e[2].c]
  BY <1>3, <1>5, <1>6, SameIsLive
<1>9. NameOneRow(Value(b, e[1]), Value(b, e[2])) => Meet(b[a1], b[a2])
  BY <1>7, <1>8 DEF Meet
<1>10. Together(b, relations, a1, a2)
  <2>1. CASE \E pair \in PairOf(q, k, clause, e) : Related(pair.left, pair.right) \/ ~Narrows(q, k, pair)
    <3>1. NameOneRow(Value(b, e[1]), Value(b, e[2]))
      BY <2>1, PairNames
    <3> QED
      BY <1>9, <3>1 DEF Together
  <2>2. CASE \A a \in l : ~IsDerived(relations[a])
    <3>1. ~IsDerived(relations[a1]) /\ ~IsDerived(relations[a2])
      BY <1>4, <2>2
    <3>2. CASE relations[a1].table = relations[a2].table
      <4>1. Node(relations, a1) = <<"table", relations[a1].table>> /\ Node(relations, a2) = <<"table", relations[a2].table>>
        BY <3>1, Zenon DEF Node, IsDerived
      <4> QED
        BY <3>2, <4>1 DEF Together
    <3>3. CASE Related(<<relations[a1].table, e[1].c>>, <<relations[a2].table, e[2].c>>)
      <4>1. /\ Origin(Value(b, e[1])) = {<<relations[a1].table, e[1].c>>}
            /\ Origin(Value(b, e[2])) = {<<relations[a2].table, e[2].c>>}
        BY <1>1, <1>2, <1>3, <1>6, <3>1, TableOrigin
      <4>2. NameOneRow(Value(b, e[1]), Value(b, e[2]))
        BY <1>6, <3>3, <4>1 DEF NameOneRow
      <4> QED
        BY <1>9, <4>2 DEF Together
    <3> QED
      BY <1>4, <3>1, <3>2, <3>3
  <2> QED
    BY <2>1, <2>2
<1> HIDE DEF relations
<1> QED
  BY <1>4, <1>7, <1>8, <1>10 DEF relations

\* An equality that holds links two rows that are there.
LEMMA LinkLive ==
  ASSUME NEW q, WellFormed(q), Validate(q) = Allowed, NEW k \in DOMAIN q, NEW db,
         NEW b \in BindingsOf(q[k], db, OutputColumns(q), Answers(q, db)),
         NEW clause \in Clauses(q[k]), NEW e \in ToSet(clause), Same(b, e),
         NEW l \in EqualityLink(ScopeRelations(q, k), e)
  PROVE  \E a1, a2 \in Live(b) : l = {a1, a2} /\ a1 # a2
<1> DEFINE relations == ScopeRelations(q, k)
<1>1. e[1] \in Named(q[k]) /\ e[2] \in Named(q[k])
  BY NamedInClauses
<1>1a. /\ \E a : SourceNamed(relations, e[1]) = {a}
       /\ \E a : SourceNamed(relations, e[2]) = {a}
  <2>1. IsFiniteSet(DOMAIN relations) /\ EqualityLink(relations, e) # {}
    BY RelationsFinite
  <2> HIDE DEF relations
  <2> QED
    BY <2>1, LinkNames
<1>2. PICK a1 : SourceNamed(relations, e[1]) = {a1} /\ a1 \in DOMAIN relations /\ e[1].c \in relations[a1].columns
  BY <1>1, <1>1a, NamedIs
<1>3. PICK a2 : SourceNamed(relations, e[2]) = {a2} /\ a2 \in DOMAIN relations /\ e[2].c \in relations[a2].columns
  BY <1>1, <1>1a, NamedIs
<1>4. /\ l = {a1, a2} /\ a1 # a2
      /\ \/ IsDerived(relations[a1]) \/ IsDerived(relations[a2])
         \/ relations[a1].table = relations[a2].table
         \/ Related(<<relations[a1].table, e[1].c>>, <<relations[a2].table, e[2].c>>)
  BY <1>2, <1>3, LinkIs
<1>5. Value(b, e[1]).val # Null /\ Value(b, e[2]).val # Null
  BY DEF Same
<1>6. Binds(q, b, relations)
  BY BindingKept
<1>7. a1 \in Live(b) /\ a2 \in Live(b)
  BY <1>2, <1>3, <1>5, <1>6, SameIsLive
<1> QED
  BY <1>4, <1>7

\* Of two relations one of which is derived, each is a node of its own.
LEMMA NodesDiffer ==
  ASSUME NEW relations, NEW a1, NEW a2, a1 # a2, IsDerived(relations[a1]) \/ IsDerived(relations[a2])
  PROVE  Node(relations, a1) # Node(relations, a2)
<1>1. \A a : Node(relations, a) = IF ~IsDerived(relations[a]) THEN <<"table", relations[a].table>> ELSE <<"derived", a>>
  BY Zenon DEF Node, IsDerived
<1> QED
  BY <1>1

\* A clause that holds brings together the rows of what it joins.
LEMMA HoldingTogether ==
  ASSUME NEW q, WellFormed(q), Validate(q) = Allowed, ~LinkedByAnOuterJoin(q), ~LooselyJoined(q),
         NEW k \in DOMAIN q, NEW db,
         NEW b \in BindingsOf(q[k], db, OutputColumns(q), Answers(q, db)),
         NEW clause \in Clauses(q[k]), HoldsOne(b, clause), NEW l \in JoinedBy(ScopeRelations(q, k), clause)
  PROVE  \E a1, a2 \in Live(b) : l = {a1, a2} /\ Together(b, ScopeRelations(q, k), a1, a2)
<1> DEFINE relations == ScopeRelations(q, k)
<1>1. PICK e \in ToSet(clause) : Same(b, e)
  BY DEF HoldsOne
<1>2. l \in EqualityLink(relations, e)
  BY JoinedByIs
<1>3. CASE \A a \in l : ~IsDerived(relations[a])
  BY <1>1, <1>2, <1>3, TablesTogether
<1>4. CASE \E a \in l : IsDerived(relations[a])
  <2> DEFINE Tight(c, f) == \E pair \in PairOf(q, k, c, f) : Related(pair.left, pair.right) \/ ~Narrows(q, k, pair)
  <2>1. PICK other \in Clauses(q[k]) : JoinedBy(relations, other) = {l} /\ \A f \in ToSet(other) : Tight(other, f)
    <3> DEFINE joining == {c \in Clauses(q[k]) : JoinedBy(relations, c) = {l}}
    <3>1. l \in UNION {JoinedBy(relations, c) : c \in Clauses(q[k])}
      OBVIOUS
    <3>2. \E a \in l : relations[a].table = ""
      BY <1>4, Zenon DEF IsDerived
    <3>3. ~ \A c \in joining : \E f \in ToSet(c) : Loose(q, k, c, f)
      BY <3>1, <3>2, Zenon DEF LooselyJoined
    <3>4. PICK c \in joining : \A f \in ToSet(c) : ~Loose(q, k, c, f)
      BY <3>3
    <3>5. \A f \in ToSet(c) : Tight(c, f)
      BY <3>4 DEF Loose
    <3> QED
      BY <3>4, <3>5
  <2>2. CASE HoldsOne(b, other)
    <3>1. PICK f \in ToSet(other) : Same(b, f)
      BY <2>2 DEF HoldsOne
    <3>2. l \in EqualityLink(relations, f)
      BY <2>1, JoinedByIs
    <3> QED
      BY <2>1, <3>1, <3>2, TablesTogether
  <2>3. CASE \E n \in DOMAIN q[k].from : /\ other \in ToSet(q[k].from[n].on)
                                         /\ Unmatched(b, q[k].from[n], SourceColumns(q[k], OutputColumns(q))[n])
    <3>1. PICK n \in DOMAIN q[k].from : /\ other \in ToSet(q[k].from[n].on)
                                        /\ Unmatched(b, q[k].from[n], SourceColumns(q[k], OutputColumns(q))[n])
      BY <2>3
    <3> DEFINE s == q[k].from[n]
               nodes == NodesOf(relations, JoinedOn(relations, s.on) \cup {s.alias})
    <3>2. /\ \A x, y, z \in nodes : x = y \/ y = z \/ x = z
          /\ \A a \in DOMAIN relations : Node(relations, a) = Node(relations, s.alias) => a = s.alias
      BY <3>1, OuterJoinIs DEF Unmatched
    <3>3. PICK a1, a2 \in Live(b) : l = {a1, a2} /\ a1 # a2
      BY <1>1, <1>2, LinkLive
    <3>4. s.alias \notin Live(b)
      BY <3>1, MissingIsDead DEF Unmatched
    <3>5. l \subseteq JoinedOn(relations, s.on)
      BY <2>1, <3>1 DEF JoinedOn
    <3>6. /\ Node(relations, a1) \in nodes /\ Node(relations, a2) \in nodes
          /\ Node(relations, s.alias) \in nodes
      BY <3>3, <3>5 DEF NodesOf
    <3>7. Node(relations, a1) # Node(relations, a2)
      BY <1>4, <3>3, NodesDiffer
    <3>8. a1 \in DOMAIN relations /\ a2 \in DOMAIN relations
      <4>1. Binds(q, b, relations)
        BY BindingKept
      <4> QED
        BY <3>3, <4>1 DEF Binds, Live
    <3> HIDE DEF relations, nodes, s
    <3> QED
      BY <3>2, <3>3, <3>4, <3>6, <3>7, <3>8
  <2> QED
    BY <2>2, <2>3, ClauseHolds
<1> QED
  BY <1>3, <1>4

\* A table's rows meet along what links it: the rows of the FROM list are one part of the graph
\* of the rows that meet, since the LEFT JOINs that found none hang on it one by one.
LEMMA BindingMet ==
  ASSUME NEW q, WellFormed(q), Validate(q) = Allowed, ~LinkedByAnOuterJoin(q), ~LooselyJoined(q),
         NEW k \in DOMAIN q, NEW db,
         NEW b \in BindingsOf(q[k], db, OutputColumns(q), Answers(q, db))
  PROVE  Met(q, k, b)
<1> DEFINE relations == ScopeRelations(q, k)
           from == q[k].from
           L == Len(from)
           columns == SourceColumns(q[k], OutputColumns(q))
           NodeOf(a) == Node(relations, a)
           links == {{NodeOf(p[1]), NodeOf(p[2])} : p \in {p \in Live(b) \X Live(b) : Meet(b[p[1]], b[p[2]])}}
           tables == {a \in Live(b) : NodeOf(a) \in TableNodes(q, k)}
           hung == {n \in 1 .. L : Unmatched(b, from[n], columns[n])}
           node == [n \in 1 .. L |-> NodeOf(from[n].alias)]
           Edges(n) == {NodesOf(relations, l) : l \in UNION {JoinedBy(relations, c) : c \in ToSet(from[n].on)}}
           edges == [n \in 1 .. L |-> Edges(n)]
<1>1. L \in Nat /\ DOMAIN from = 1 .. L
  BY SourcesAre
<1>2. Live(b) \subseteq DOMAIN relations
  <2>1. Binds(q, b, relations)
    BY BindingKept
  <2> QED
    BY <2>1 DEF Binds, Live
<1>3. ASSUME NEW n \in hung PROVE from[n].alias \notin Live(b) /\ from[n].alias \in DOMAIN relations
  <2>1. Unmatched(b, from[n], columns[n]) /\ n \in DOMAIN from
    BY <1>1
  <2>2. from[n].alias \notin Live(b)
    BY <2>1, MissingIsDead DEF Unmatched
  <2>3. DOMAIN relations = AliasesOf(q[k])
    BY ValidatedParts, RelationsAreSources
  <2>4. from[n] \in ToSet(from)
    BY <2>1, SourcesAre
  <2> HIDE DEF relations, from
  <2> QED
    BY <2>2, <2>3, <2>4 DEF AliasesOf, from
<1>4. ASSUME NEW n \in hung
      PROVE  /\ \A x, y, z \in NodesOf(relations, JoinedOn(relations, from[n].on) \cup {from[n].alias}) :
                   x = y \/ y = z \/ x = z
             /\ \A a \in DOMAIN relations : NodeOf(a) = NodeOf(from[n].alias) => a = from[n].alias
  <2>1. Unmatched(b, from[n], columns[n]) /\ n \in DOMAIN from
    BY <1>1
  <2> QED
    BY <2>1, OuterJoinIs DEF Unmatched
<1>5. ASSUME NEW n \in hung
      PROVE  UNION edges[n] \subseteq NodesOf(relations, JoinedOn(relations, from[n].on) \cup {from[n].alias})
  <2>1. edges[n] = Edges(n)
    OBVIOUS
  <2>2. ASSUME NEW l \in UNION {JoinedBy(relations, c) : c \in ToSet(from[n].on)}
        PROVE  l \subseteq JoinedOn(relations, from[n].on)
    BY DEF JoinedOn
  <2> HIDE DEF relations, edges, from
  <2> QED
    BY <2>1, <2>2 DEF NodesOf
<1>6. \A m \in hung : \A x, y \in (UNION edges[m]) \ {node[m]} : x = y
  <2> SUFFICES ASSUME NEW m \in hung, NEW x \in (UNION edges[m]) \ {node[m]}, NEW y \in (UNION edges[m]) \ {node[m]}
               PROVE  x = y
    OBVIOUS
  <2> DEFINE nodes == NodesOf(relations, JoinedOn(relations, from[m].on) \cup {from[m].alias})
  <2>1. node[m] \in nodes
    BY DEF NodesOf
  <2>2. x \in nodes /\ y \in nodes
    BY <1>5
  <2>3. \A u, v, w \in nodes : u = v \/ v = w \/ u = w
    BY <1>4
  <2> HIDE DEF nodes, node, edges
  <2> QED
    BY <2>1, <2>2, <2>3
<1>7. \A m, n \in hung : m < n => node[n] \notin UNION edges[m]
  <2> SUFFICES ASSUME NEW m \in hung, NEW n \in hung, m < n, node[n] \in UNION edges[m] PROVE FALSE
    OBVIOUS
  <2>1. node[n] \in UNION Edges(m)
    OBVIOUS
  <2>2. PICK c \in ToSet(from[m].on) : \E l \in JoinedBy(relations, c) : node[n] \in NodesOf(relations, l)
    <3> HIDE DEF node, relations, from
    <3> QED
      BY <2>1
  <2>3. PICK l \in JoinedBy(relations, c) : node[n] \in NodesOf(relations, l)
    BY <2>2
  <2>4. PICK a \in l : node[n] = NodeOf(a)
    BY <2>3 DEF NodesOf
  <2>5. PICK e \in ToSet(c) : \E ref \in {e[1], e[2]} : a \in SourceNamed(relations, ref)
    BY JoinedByNamed
  <2>6. PICK ref \in {e[1], e[2]} : a \in SourceNamed(relations, ref)
    BY <2>5
  <2>7. ~Bare(ref) /\ \E j \in 1 .. m : ref.q = from[j].alias
    BY OnNamesSoFar DEF NamesSourcesSoFar
  <2>8. a \in DOMAIN relations /\ a = ref.q
    BY <2>6, <2>7, SourceNamedIn
  <2>9. a = from[n].alias
    <3>1. node[n] = NodeOf(from[n].alias)
      OBVIOUS
    <3> QED
      BY <1>4, <2>4, <2>8, <3>1
  <2>10. PICK j \in 1 .. m : from[j].alias = from[n].alias
    BY <2>7, <2>8, <2>9
  <2>11. j = n
    <3>1. j \in DOMAIN from /\ n \in DOMAIN from
      BY <1>1
    <3> QED
      BY <2>10, <3>1, AliasesDiffer
  <2> QED
    BY <1>1, <2>11
<1>8. ASSUME NEW a \in Live(b), NEW n \in hung PROVE NodeOf(a) # node[n]
  <2>1. node[n] = NodeOf(from[n].alias)
    OBVIOUS
  <2>2. a \in DOMAIN relations /\ a # from[n].alias
    BY <1>2, <1>3
  <2>3. NodeOf(a) # NodeOf(from[n].alias)
    BY <1>4, <2>2
  <2> HIDE DEF node, NodeOf
  <2> QED
    BY <2>1, <2>3
<1>9. ASSUME NEW part, \A l \in links : l \cap part # {} => l \subseteq part
      PROVE  \A a, a2 \in tables : NodeOf(a) \in part => NodeOf(a2) \in part
  <2>1. PICK S : /\ \A x : (\A m \in hung : x # node[m]) => (x \in S <=> x \in part)
                 /\ \A m \in hung : \A e \in edges[m] : e \cap S # {} => e \subseteq S
    <3>1. L \in Nat /\ hung \in SUBSET (1 .. L)
      BY <1>1
    <3> HIDE DEF L, hung, node, edges
    <3>2. Hanging(hung, node, edges)
      BY <1>6, <1>7 DEF Hanging
    <3>3. \E S : Extends(S, part, hung, node, edges)
      BY <3>1, <3>2, HangingNodes
    <3> QED
      BY <3>3 DEF Extends
  <2>2. \A a \in Live(b) : NodeOf(a) \in S <=> NodeOf(a) \in part
    <3> HIDE DEF hung, node
    <3> QED
      BY <1>8, <2>1
  <2>3. ASSUME NEW t \in TableLinks(q, k), t \cap S # {} PROVE t \subseteq S
    <3>1. PICK c \in Clauses(q[k]) : \E l \in JoinedBy(relations, c) : t = NodesOf(relations, l)
      BY DEF TableLinks, NodesOf
    <3>2. PICK l \in JoinedBy(relations, c) : t = NodesOf(relations, l)
      BY <3>1
    <3>3. CASE HoldsOne(b, c)
      <4>1. PICK a1, a2 \in Live(b) : l = {a1, a2} /\ Together(b, relations, a1, a2)
        BY <3>3, HoldingTogether
      <4>2. t = {NodeOf(a1), NodeOf(a2)}
        BY <3>2, <4>1 DEF NodesOf
      <4>3. NodeOf(a1) = NodeOf(a2) \/ {NodeOf(a1), NodeOf(a2)} \in links
        <5>1. Meet(b[a1], b[a2]) => {NodeOf(a1), NodeOf(a2)} \in links
          <6>1. <<a1, a2>> \in Live(b) \X Live(b) /\ <<a1, a2>>[1] = a1 /\ <<a1, a2>>[2] = a2
            OBVIOUS
          <6> HIDE DEF NodeOf
          <6> QED
            BY <6>1
        <5> HIDE DEF links
        <5> QED
          BY <4>1, <5>1 DEF Together
      <4> HIDE DEF links, NodeOf
      <4> QED
        BY <1>9, <2>2, <2>3, <4>1, <4>2, <4>3
    <3>4. CASE \E n \in DOMAIN from : c \in ToSet(from[n].on) /\ Unmatched(b, from[n], columns[n])
      <4>1. PICK n \in DOMAIN from : c \in ToSet(from[n].on) /\ Unmatched(b, from[n], columns[n])
        BY <3>4
      <4>2. n \in hung
        BY <1>1, <4>1
      <4>3. t \in Edges(n)
        <5>1. l \in UNION {JoinedBy(relations, d) : d \in ToSet(from[n].on)}
          BY <4>1
        <5> HIDE DEF relations, from
        <5> QED
          BY <3>2, <5>1
      <4>4. t \in edges[n]
        <5> HIDE DEF Edges
        <5> QED
          BY <4>2, <4>3
      <4> HIDE DEF hung, edges
      <4> QED
        BY <2>1, <2>3, <4>2, <4>4
    <3> QED
      BY <3>3, <3>4, ClauseHolds
  <2>4. ASSUME NEW a \in tables, NEW a2 \in tables PROVE Connected(NodeOf(a), NodeOf(a2), TableLinks(q, k))
    <3>1. ~UnlinkedTables(q, k)
      <4>1. ValidateJoins(q, k) = Allowed
        BY ValidatedParts
      <4> QED
        BY <4>1 DEF ValidateJoins, Allowed
    <3> HIDE DEF NodeOf
    <3> QED
      BY <3>1 DEF UnlinkedTables
  <2> SUFFICES ASSUME NEW a \in tables, NEW a2 \in tables, NodeOf(a) \in part PROVE NodeOf(a2) \in part
    OBVIOUS
  <2>5. a \in Live(b) /\ a2 \in Live(b)
    OBVIOUS
  <2>6. NodeOf(a) \in S
    BY <2>2, <2>5
  <2>7. NodeOf(a2) \in S
    <3> HIDE DEF NodeOf, tables
    <3>1. Connected(NodeOf(a), NodeOf(a2), TableLinks(q, k))
      BY <2>4
    <3> QED
      BY <2>3, <2>6, <3>1, ConnectedBy
  <2> QED
    BY <2>2, <2>5, <2>7
<1>10. \A a, a2 \in tables : Connected(NodeOf(a), NodeOf(a2), links)
  <2> HIDE DEF tables, links, NodeOf
  <2> QED
    BY <1>9 DEF Connected
<1> QED
  BY <1>10 DEF Met, Live

\* Whatever rows the contents give, the rows an accepted query pairs meet along relationships,
\* its LEFT JOINs linking no more than two tables and its derived tables joined on traced columns.
THEOREM AllowedMeetByRelationships ==
  ASSUME NEW q, WellFormed(q), Validate(q) = Allowed, ~LinkedByAnOuterJoin(q), ~LooselyJoined(q)
  PROVE  AllMet(q)
BY BindingMet DEF AllMet

\* RowsMeetByRelationships: of every query planned, and of every query the server planned in
\* its place (SQLPolicy._validate_joins).
THEOREM PlannedMeetByRelationships == Spec => []RowsMeetByRelationships
<1>1. Inv => RowsMeetByRelationships
  <2> SUFFICES ASSUME Inv, Planned, ~LinkedByAnOuterJoin(selected), ~LooselyJoined(selected) PROVE AllMet(selected)
    BY DEF RowsMeetByRelationships
  <2> QED
    BY AllowedMeetByRelationships DEF Inv, Planned
<1> QED
  BY <1>1, InvAlways, PTL
=============================================================================
