------------------------------- MODULE SqlPolicy -------------------------------
(***************************************************************************)
(* The policy gate (src/app/sql/policy.py): which tables and columns a     *)
(* query may read, and which rows it may pair. Validate gives the code of  *)
(* the first rejection, or Allowed.                                        *)
(***************************************************************************)
EXTENDS SqlQuery, TLC

Allowed == "ALLOWED"

\* A relation of a FROM list: a table of the catalog, or the columns a SELECT before gives.
Relations(p, given) ==
  LET known == {s \in ToSet(p.from) : IsTable(s) => s.table \in Tables}
  IN  [a \in {s.alias : s \in known} |->
         LET s == CHOOSE s \in known : s.alias = a
         IN  IF IsTable(s) THEN [table |-> s.table, columns |-> Catalog[s.table].columns]
             ELSE [table |-> "", columns |-> given[s.inner]]]

\* The columns a SELECT gives, * and alias.* spelt out.
Given(p, relations) ==
  LET Spelt(i) == IF i.of.q \in DOMAIN relations THEN {i.of.q} ELSE DOMAIN relations
  IN  UNION {IF IsStar(i) THEN UNION {relations[a].columns : a \in Spelt(i)} ELSE {i.as} :
               i \in ToSet(p.items)}

OutputColumns(q) ==
  LET given[k \in DOMAIN q] == Given(q[k], Relations(q[k], given)) IN given

ScopeRelations(q, k) == Relations(q[k], OutputColumns(q))

\* The relations a name without an alias can be read from.
Owners(relations, c) == {a \in DOMAIN relations : c \in relations[a].columns}

\* The relation a column is read from; none when nothing or more than one thing has it.
\* (No query here names a column of the query around it, where the search would go on.)
Resolve(relations, ref) ==
  IF ref.q # "" THEN {ref.q} \cap DOMAIN relations
  ELSE IF ref.c \in DOMAIN relations THEN {ref.c}
  ELSE IF Cardinality(Owners(relations, ref.c)) = 1 THEN Owners(relations, ref.c) ELSE {}

-----------------------------------------------------------------------------
ValidateTables(q) ==
  LET read == TablesRead(q) \ CteNames(q)
  IN  IF \E t \in read : t \notin Tables THEN "UNKNOWN_TABLE"
      ELSE IF \E t \in read : ~Catalog[t].queryable THEN "FORBIDDEN_TABLE"
      ELSE Allowed

\* Columns of this SELECT; an output's own alias may be named again in GROUP BY.
ColumnsRead(p) ==
  LET renamed == {i.as : i \in {i \in ToSet(p.items) : i.agg # "none" \/ i.as # i.of.c}}
  IN  {i.of : i \in {i \in ToSet(p.items) : ~IsStar(i) /\ ~CountsRows(i)}}
        \cup Compared(p)
        \cup p.filter
        \cup {g \in p.group : ~(g.q = "" /\ g.c \in renamed)}

Ambiguous(relations, ref) ==
  ref.q = "" /\ ref.c \notin DOMAIN relations /\ Cardinality(Owners(relations, ref.c)) > 1

\* * gives the columns of every relation, alias.* of one: all of them must be queryable.
HidesAColumn(relation) == relation.table # "" /\ Catalog[relation.table].hidden # {}

\* Faulty: only alias.* is looked at.
QualifiedStarDenied(relations, i) ==
  \E a \in DOMAIN relations : i.of.q = a /\ HidesAColumn(relations[a])

StarDenied(relations, i) ==
  \E a \in DOMAIN relations : i.of.q \in {"", a} /\ HidesAColumn(relations[a])

UnknownColumn(relations, ref) ==
  LET RowValue == ref.q = "" /\ ref.c \in DOMAIN relations
  IN  \/ Ambiguous(relations, ref)
      \/ Resolve(relations, ref) = {}
      \/ \E a \in Resolve(relations, ref) : ref.c \notin relations[a].columns /\ ~RowValue

ColumnDenied(relations, ref) ==
  \E a \in Resolve(relations, ref) :
    relations[a].table # "" /\ ref.c \in Catalog[relations[a].table].hidden

ValidateScopeColumns(q, k) ==
  LET relations == ScopeRelations(q, k)
  IN  IF \E ref \in ColumnsRead(q[k]) : UnknownColumn(relations, ref) THEN "UNKNOWN_COLUMN"
      ELSE IF \/ \E ref \in ColumnsRead(q[k]) : ColumnDenied(relations, ref)
              \/ \E i \in ToSet(q[k].items) : IsStar(i) /\ StarDenied(relations, i)
           THEN "FORBIDDEN_COLUMN"
      ELSE Allowed

-----------------------------------------------------------------------------
\* The table column a column of this SELECT reads directly, as a set of at most one.
JoinColumn(relations, ref) ==
  {<<relations[a].table, ref.c>> :
     a \in {a \in Resolve(relations, ref) :
              relations[a].table # "" /\ ref.c \in relations[a].columns}}

\* The source a column is read from, when only one can be meant.
OnlySource(q, k, ref) ==
  LET relations == ScopeRelations(q, k)
      Has(s) == s.alias \in DOMAIN relations /\ ref.c \in relations[s.alias].columns
      candidates == {s \in ToSet(q[k].from) : IF ref.q = "" THEN Has(s) ELSE s.alias = ref.q}
  IN  IF Cardinality(candidates) = 1 THEN candidates ELSE {}

\* What a SELECT passes straight through as a column of its own, as a set of at most one.
Passed(p, c) ==
  LET written == Projection(p, c)
  IN  IF written # 0 THEN {i.of : i \in {i \in {p.items[written]} : i.agg = "none"}}
      ELSE IF HasStar(p) THEN {Column("", c)} ELSE {}

\* A reading is the SELECT and the column it reads; followed into the SELECT it is passed by.
TracedInward(q, reading) ==
  LET derived == {s \in OnlySource(q, reading[1], reading[2]) : ~IsTable(s)}
  IN  UNION {{<<s.inner, of>> : of \in Passed(q[s.inner], reading[2].c)} : s \in derived}

TracedReadings(q, k, ref) ==
  LET readings[n \in 0 .. k] ==
        IF n = 0 THEN {<<k, ref>>} ELSE UNION {TracedInward(q, r) : r \in readings[n - 1]}
  IN  readings

TracedFrom(q, reading) ==
  LET tables == {s \in OnlySource(q, reading[1], reading[2]) : IsTable(s)}
  IN  {<<s.table, reading[2].c>> : s \in {s \in tables : Known(s.table, reading[2].c)}}

\* The table column the SELECTs inside pass straight through, followed to the table.
TracedColumn(q, k, ref) ==
  UNION {UNION {TracedFrom(q, r) : r \in TracedReadings(q, k, ref)[n]} : n \in 1 .. k}

\* The key a column names: the column it references, or itself.
KeyOf(col) ==
  LET naming == SelectSeq(References, LAMBDA r : r.from = col[1] /\ r.column = col[2])
  IN  IF naming = <<>> THEN col ELSE <<naming[1].to, naming[1].referenced>>

Related(a, b) ==
  \E r \in ToSet(References) : {<<r.from, r.column>>, <<r.to, r.referenced>>} = {a, b}

\* Whether a path of links leads from a to b: no nodes that links do not leave divide them.
Connected(a, b, links) ==
  \A part \in SUBSET ((UNION links) \cup {a, b}) :
    a \in part /\ (\A l \in links : l \cap part # {} => l \subseteq part) => b \in part

\* The table column a side of an equality stands for, directly or through SELECTs inside.
SideColumn(q, k, ref) ==
  LET direct == JoinColumn(ScopeRelations(q, k), ref)
  IN  IF direct # {} THEN direct ELSE TracedColumn(q, k, ref)

\* An equality between columns of two tables, as a set of at most one, with how it was found.
PairOf(q, k, clause, e) ==
  LET Traced(ref) == JoinColumn(ScopeRelations(q, k), ref) = {}
  IN  {p \in {[left |-> l, right |-> r, traced |-> Traced(e[1]) \/ Traced(e[2]),
                conjunct |-> Len(clause) = 1] :
                 l \in SideColumn(q, k, e[1]), r \in SideColumn(q, k, e[2])} :
         p.left[1] # p.right[1]}

JoinPairs(q, k) ==
  UNION {UNION {PairOf(q, k, clause, e) : e \in ToSet(clause)} : clause \in Clauses(q[k])}

\* Between tables that relationships ANDed into the SELECT join, a further equality only narrows.
Narrows(q, k, pair) ==
  LET related == {p \in JoinPairs(q, k) : p.conjunct /\ Related(p.left, p.right)}
  IN  pair.conjunct /\ Connected(pair.left[1], pair.right[1], {{p.left[1], p.right[1]} : p \in related})

UnauthorizedPair(q, k) ==
  \E p \in JoinPairs(q, k) : /\ ~Related(p.left, p.right)
                             /\ ~(p.traced /\ KeyOf(p.left) = KeyOf(p.right))
                             /\ ~Narrows(q, k, p)

\* The two relations an equality joins, when it may join them.
EqualityLink(relations, e) ==
  LET Source(ref) == IF ref.q = "" THEN Owners(relations, ref.c) ELSE {ref.q} \cap DOMAIN relations
      Links(a, b) == \/ relations[a].table = "" \/ relations[b].table = ""
                     \/ relations[a].table = relations[b].table
                     \/ Related(<<relations[a].table, e[1].c>>, <<relations[b].table, e[2].c>>)
  IN  IF \A side \in {1, 2} : Cardinality(Source(e[side])) = 1
      THEN {{p[1], p[2]} : p \in {p \in Source(e[1]) \X Source(e[2]) :
                                     p[1] # p[2] /\ Links(p[1], p[2])}}
      ELSE {}

\* What a clause joins, as a set of at most one: the two relations each of its alternatives joins.
JoinedBy(relations, clause) ==
  {l \in UNION {EqualityLink(relations, e) : e \in ToSet(clause)} :
     \A e \in ToSet(clause) : EqualityLink(relations, e) = {l}}

\* A FROM list as a graph: a table is one node however often it is listed, and each clause
\* that joins two relations an edge.
Node(relations, a) == IF relations[a].table # "" THEN <<"table", relations[a].table>> ELSE <<"derived", a>>

TableNodes(q, k) ==
  LET relations == ScopeRelations(q, k)
  IN  {n \in {Node(relations, a) : a \in DOMAIN relations} : n[1] = "table"}

TableLinks(q, k) ==
  LET relations == ScopeRelations(q, k)
      joined == UNION {JoinedBy(relations, clause) : clause \in Clauses(q[k])}
  IN  {{Node(relations, a) : a \in l} : l \in joined}

\* Faulty: a table that no condition mentions is overlooked.
UnlinkedWhereCompared(q, k) ==
  \E a, b \in TableNodes(q, k) \cap (UNION TableLinks(q, k)) : ~Connected(a, b, TableLinks(q, k))

\* Two tables of one SELECT that no conditions join.
UnlinkedTables(q, k) == \E a, b \in TableNodes(q, k) : ~Connected(a, b, TableLinks(q, k))

ValidateJoins(q, k) ==
  IF UnauthorizedPair(q, k) \/ UnlinkedTables(q, k) THEN "UNAUTHORIZED_JOIN" ELSE Allowed

\* The first verdict against a query, if any is.
FirstRefusal(verdicts) ==
  LET refusing == {n \in DOMAIN verdicts : verdicts[n] # Allowed}
  IN  IF refusing = {} THEN Allowed ELSE verdicts[Min(refusing)]

\* A query is judged by its tables, then each scope's columns, then its joins.
Validate(q) ==
  FirstRefusal(<<ValidateTables(q)>> \o [k \in DOMAIN q |-> ValidateScopeColumns(q, k)]
                                    \o [k \in DOMAIN q |-> ValidateJoins(q, k)])
=============================================================================
