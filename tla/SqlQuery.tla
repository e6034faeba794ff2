------------------------------- MODULE SqlQuery -------------------------------
(***************************************************************************)
(* A query as the gates see it, and the facts of the source's catalog they *)
(* judge it by (src/app/catalog/models.py, src/app/semantics/measures.py). *)
(*                                                                         *)
(* A query is the sequence of its SELECTs, each after those it reads from, *)
(* the outermost one last (sqlglot's traverse_scope). A SELECT is a record *)
(*   items     its output: [as, agg, dist, of], in order; agg is "none",   *)
(*             "sum", "avg", "count", or "star" for * and for alias.*      *)
(*   distinct  SELECT DISTINCT                                             *)
(*   from      its sources, in order, the first one FROM's own:            *)
(*             [alias, table, inner, cte, side, on]                        *)
(*   where     the equalities ANDed into WHERE, as on                      *)
(*   filter    the columns WHERE compares with a constant                  *)
(*   group     the columns of GROUP BY                                     *)
(* A source reads a table (inner = 0) or the inner-th SELECT, written in   *)
(* place or, with cte, named table in a WITH. A condition is a sequence of *)
(* clauses that must all hold, a clause a sequence of equalities of which  *)
(* one must; a column is [q, c], q = "" without an alias. Scalar           *)
(* subqueries, set operations, USING and expressions are left out: an      *)
(* output is one column or one aggregate of one.                           *)
(***************************************************************************)
EXTENDS Integers, FiniteSets, SequencesExt

CONSTANTS
  Tables,      \* the names the catalog knows
  Catalog,     \* [Tables -> [columns, key, numeric, hidden, queryable]]
  References   \* the foreign keys: a sequence of [from, column, to, referenced]

ASSUME CatalogAssumption ==
  /\ "" \notin Tables
  /\ \A t \in Tables : /\ Catalog[t].key \cup Catalog[t].numeric \cup Catalog[t].hidden
                             \subseteq Catalog[t].columns
                       /\ Catalog[t].queryable \in BOOLEAN
  /\ \A r \in ToSet(References) : /\ {r.from, r.to} \subseteq Tables
                                  /\ r.column \in Catalog[r.from].columns
                                  /\ r.referenced \in Catalog[r.to].columns

Keyed == {t \in Tables : Catalog[t].key # {}}

\* A numeric column that is no key of its table: a measure at its table's grain.
IsMeasure(t, c) ==
  /\ t \in Keyed
  /\ c \in Catalog[t].numeric \ Catalog[t].key
  /\ \A r \in ToSet(References) : r.from = t => r.column # c

\* Foreign keys between keyed tables: each row of one is of one row of the other.
Relationships == SelectSeq(References, LAMBDA r : {r.from, r.to} \subseteq Keyed)

\* The relationships that can give a row of t several rows, in the catalog's order.
FanoutEdgesFrom(t) == SelectSeq(Relationships, LAMBDA r : r.to = t)

Known(t, c) == t \in Tables /\ c \in Catalog[t].columns

-----------------------------------------------------------------------------
Column(q, c) == [q |-> q, c |-> c]

IsTable(s) == s.inner = 0

Sources(q)   == UNION {ToSet(p.from) : p \in ToSet(q)}
TablesRead(q) == {s.table : s \in {s \in Sources(q) : IsTable(s)}}
CteNames(q)  == {s.table : s \in {s \in Sources(q) : s.cte}}
AliasesOf(p) == {s.alias : s \in ToSet(p.from)}

IsAggregate(i) == i.agg \in {"sum", "avg", "count"}
CountsRows(i)  == i.agg = "count" /\ i.of.c = "*"
Aggregates(p)  == \E i \in ToSet(p.items) : IsAggregate(i)
IsStar(i)      == i.agg = "star"
HasStar(p)     == \E i \in ToSet(p.items) : IsStar(i)

\* Every clause ANDed into a JOIN ... ON or the WHERE, every equality and column in them.
Clauses(p)    == ToSet(p.where) \cup UNION {ToSet(s.on) : s \in ToSet(p.from)}
Equalities(p) == UNION {ToSet(clause) : clause \in Clauses(p)}
Compared(p)   == UNION {{e[1], e[2]} : e \in Equalities(p)}

\* Where in its output the SELECT writes a column of that name; 0 when it does not.
Projection(p, c) == SelectInSeq(p.items, LAMBDA i : i.as = c /\ ~IsStar(i))

\* The SELECTs written in each, and itself (find_all(exp.Select)). A WITH is the outermost's.
Within(q) ==
  LET Inside(p) == {s \in ToSet(p.from) : ~IsTable(s) /\ ~s.cte}
      within[k \in DOMAIN q] == {k} \cup UNION {within[s.inner] : s \in Inside(q[k])}
  IN  [within EXCEPT ![Len(q)] = DOMAIN q]

\* Those of one SELECT, outermost first.
Selects(q, k) == Reverse(SetToSortSeq(Within(q)[k], <))

-----------------------------------------------------------------------------
(***************************************************************************)
(* What every query here keeps to: the rules of SQL the parser and the     *)
(* source hold it to, and one name for one thing: a WITH gives no name a   *)
(* table has. ON names, by alias, no source listed after it.               *)
(***************************************************************************)
WellFormedSelect(p, k) ==
  /\ DOMAIN p = {"items", "distinct", "from", "where", "filter", "group"}
  /\ \A list \in {p.items, p.from} : list \in Seq(ToSet(list)) /\ list # <<>>
  /\ \A s \in ToSet(p.from) : /\ DOMAIN s = {"alias", "table", "inner", "cte", "side", "on"}
                              /\ s.inner \in 0 .. k - 1 /\ s.alias # ""
  /\ \A m, n \in DOMAIN p.from : p.from[m].alias = p.from[n].alias => m = n
  /\ \A i \in ToSet(p.items) :
       /\ DOMAIN i = {"as", "agg", "dist", "of"}
       /\ i.agg \in {"none", "sum", "avg", "count", "star"}
       /\ IsStar(i) => i.of.q \in AliasesOf(p) \cup {""}
       /\ Aggregates(p) /\ p.group = {} => IsAggregate(i)
  /\ \A m, n \in DOMAIN p.from : m <= n =>
       \A clause \in ToSet(p.from[m].on) : \A e \in ToSet(clause) : \A side \in {1, 2} :
         e[side].q # "" /\ (e[side].q = p.from[n].alias => m = n)

WellFormed(q) ==
  /\ q \in Seq(ToSet(q)) /\ q # <<>>
  /\ \A k \in DOMAIN q : WellFormedSelect(q[k], k)
  /\ CteNames(q) \cap (Tables \cup TablesRead(q)) = {}
=============================================================================
