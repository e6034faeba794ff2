--------------------------------- MODULE Grain ---------------------------------
(***************************************************************************)
(* The fan-out validator (src/app/semantics/grain.py): whether a query     *)
(* sums or averages a column of a table whose rows it has repeated by      *)
(* joining them to their children. Its catalog is the one every connection *)
(* gets (measures.py), where each measure is additive, each relationship   *)
(* many-to-one, and no measure derived or allowed another grain.           *)
(*                                                                         *)
(* A diagnostic is [code, table, edges]: the measure's table and the edge  *)
(* its rows are repeated along.                                            *)
(***************************************************************************)
EXTENDS SqlQuery, TLC

Diagnostic(code, table, edges) == [code |-> code, table |-> table, edges |-> edges]
NotApplicable == Diagnostic("NOT_APPLICABLE", "", <<>>)
Pass          == Diagnostic("PASS", "", <<>>)
Actionable(d) == d.code \notin {"PASS", "NOT_APPLICABLE"}

\* Only a sum over repeated rows can be hidden by DISTINCT: its code says so.
Fanout(item, table, edge) ==
  Diagnostic(IF item.dist THEN "DISTINCT_VALUE_FANOUT_MASK" ELSE "PARENT_MEASURE_FANOUT",
             table, <<edge>>)

Summed(p) == LET Rolls(i) == i.agg \in {"sum", "avg"} IN SelectSeq(p.items, Rolls)

-----------------------------------------------------------------------------
(***************************************************************************)
(* Where a column comes from. A path is the scopes a column passes through *)
(* on its way out, the reading one first, with the source each was entered *)
(* by; a reading is a column and the path to the scope it is read in, a    *)
(* lineage a set of <<table, column, path>>.                               *)
(***************************************************************************)
ColumnSources(q, k, ref) ==
  LET from == q[k].from
      Has(s) == IF IsTable(s) THEN IsMeasure(s.table, ref.c)
                ELSE Projection(q[s.inner], ref.c) # 0 \/ HasStar(q[s.inner])
  IN  {s \in ToSet(from) : IF ref.q # "" THEN s.alias = ref.q ELSE Len(from) = 1 \/ Has(s)}

Reading(ref, path) == [ref |-> ref, path |-> path]
ReadFrom(q, reading) == ColumnSources(q, Last(reading.path).scope, reading.ref)

\* What the queries a column is read from read it as, in turn.
Inward(q, reading) ==
  LET written(s) == Projection(q[s.inner], reading.ref.c)
      There(s) == Append(reading.path, [scope |-> s.inner, entered |-> <<s>>])
      As(s) == IF written(s) # 0 THEN q[s.inner].items[written(s)].of ELSE Column("", reading.ref.c)
  IN  {Reading(As(s), There(s)) :
         s \in {s \in ReadFrom(q, reading) :
                  ~IsTable(s) /\ (written(s) # 0 \/ HasStar(q[s.inner]))}}

Readings(q, k, ref) ==
  LET after[n \in 0 .. k] ==
        IF n = 0 THEN {Reading(ref, <<[scope |-> k, entered |-> <<>>]>>)}
        ELSE UNION {Inward(q, reading) : reading \in after[n - 1]}
  IN  UNION {after[n] : n \in 0 .. k}

Lineage(q, k, ref) ==
  UNION {{<<s.table, reading.ref.c, reading.path>> : s \in {s \in ReadFrom(q, reading) : IsTable(s)}} :
           reading \in Readings(q, k, ref)}

\* The table columns a column of the scope is read from.
Origins(q, k, ref) == {<<l[1], l[2]>> : l \in Lineage(q, k, ref)}

GroupedLineage(q, k) == UNION {Origins(q, k, g) : g \in q[k].group}

-----------------------------------------------------------------------------
(***************************************************************************)
(* How many rows a query written inside another gives.                     *)
(***************************************************************************)
PhysicalTables(p) == {s.table : s \in {s \in ToSet(p.from) : IsTable(s)}}

PassesThrough(p) ==
  /\ p.group = {} /\ ~p.distinct /\ ~Aggregates(p)
  /\ Len(p.from) = 1 /\ ~IsTable(p.from[1])

\* The output columns each query gives one row per, as a set of at most one set of names;
\* "?" is a key no output names, and {} says its rows are raw.
RowKeys(q) ==
  LET keys[k \in DOMAIN q] ==
        LET p == q[k]
            Written(ref) == SelectSeq(p.items, LAMBDA i : i.agg = "none" /\ i.of = ref)
            Name(ref) == IF Written(ref) # <<>> THEN Written(ref)[1].as ELSE ref.c
            Passed(c) == SelectSeq(p.items, LAMBDA i : i.agg = "none" /\ i.of.c = c)
            inner == keys[p.from[1].inner]
            dropped == {c \in UNION inner : c # "?" /\ Passed(c) = <<>>}
        IN  IF p.group # {} THEN {{Name(g) : g \in p.group}}
            ELSE IF p.distinct THEN {{i.as : i \in ToSet(p.items)}}
            ELSE IF Aggregates(p) THEN {{}}
            ELSE IF ~PassesThrough(p) THEN {}
            ELSE IF inner = {} \/ HasStar(p) THEN inner
            ELSE IF dropped # {} THEN {}
            ELSE {{IF c = "?" THEN c ELSE Passed(c)[1].as : c \in UNION inner}}
  IN  keys

CollapsesRows(q, k) == RowKeys(q)[k] # {}

\* The tables a query that repeats rows reads, a grouped one inside it at its own grain.
RepeatedTables(q) ==
  LET tables[k \in DOMAIN q, outermost \in BOOLEAN] ==
        IF ~outermost /\ CollapsesRows(q, k) THEN {}
        ELSE IF PassesThrough(q[k]) THEN tables[q[k].from[1].inner, TRUE]
        ELSE PhysicalTables(q[k]) \cup
             UNION {tables[s.inner, FALSE] : s \in {s \in ToSet(q[k].from) : ~IsTable(s)}}
  IN  tables

\* Columns of a source that the SELECT equates with a column of another.
JoinKeys(p, alias) ==
  {c \in UNION {{e[1].c, e[2].c} : e \in Equalities(p)} :
     \E e \in Equalities(p) : \E mine \in {1, 2} :
       /\ e[mine] = Column(alias, c)
       /\ e[3 - mine].q # alias}

\* Faulty: a grouped query is taken to give one row per key it is joined on.
RepeatsUngrouped(q, s, outward) == RowKeys(q)[s.inner] = {}

\* Whether a source can give more than one row per key it is joined on; outward are the
\* scopes from this one to the aggregating one.
RepeatsRows(q, s, outward) ==
  LET k == Last(outward)
      extras == (UNION RowKeys(q)[s.inner]) \ JoinKeys(q[k], s.alias)
      Grouped(c) == LET read == Origins(q, k, Column(s.alias, c))
                    IN  read # {} /\ \E j \in ToSet(outward) : read \subseteq GroupedLineage(q, j)
  IN  RowKeys(q)[s.inner] = {} \/ \E c \in extras : c = "?" \/ ~Grouped(c)

\* The tables behind the sources beside the one the measure arrived through.
DerivedChildTables(q, arrived, outward) ==
  LET Skipped(s) == \E a \in ToSet(arrived) : a.alias = s.alias \/ (a.cte /\ s.cte /\ a.table = s.table)
  IN  UNION {RepeatedTables(q)[s.inner, TRUE] :
               s \in {s \in ToSet(q[Last(outward)].from) : /\ ~IsTable(s) /\ ~Skipped(s)
                                                           /\ RepeatsRows(q, s, outward)}}

-----------------------------------------------------------------------------
(***************************************************************************)
(* A measure read straight from a table of the SELECT that aggregates it.  *)
(***************************************************************************)
NoTables == [a \in {} |-> ""]

\* The tables read under a source of FROM, by alias; the last one written keeps a name.
TablesUnder(q, s) ==
  LET Named(source) == source.alias :> source.table
      Reads(source) == IsTable(source) \/ source.cte
      under[k \in DOMAIN q] ==
        FoldLeft(LAMBDA found, inner : (IF Reads(inner) THEN Named(inner) ELSE under[inner.inner]) @@ found,
                 NoTables, q[k].from)
  IN  IF Reads(s) THEN Named(s) ELSE under[s.inner]

\* FROM is searched all the way down, JOIN only for tables.
DirectTableAliases(q, k) ==
  LET Joins(s) == IsTable(s) \/ s.cte
  IN  FoldLeft(LAMBDA found, s : TablesUnder(q, s) @@ found, TablesUnder(q, q[k].from[1]),
               SelectSeq(Tail(q[k].from), Joins))

ColumnTable(aliases, ref) ==
  LET owners == {t \in {aliases[a] : a \in DOMAIN aliases} : IsMeasure(t, ref.c)}
  IN  IF ref.q # "" THEN {aliases[a] : a \in {ref.q} \cap DOMAIN aliases}
      ELSE IF Cardinality(owners) = 1 THEN owners ELSE {}

\* An average grouped by the parent's key is right, its sum is not.
AveragesOneParent(p, item, aliases, table) ==
  /\ item.agg = "avg"
  /\ Catalog[table].key \subseteq {g.c : g \in {g \in p.group : ColumnTable(aliases, g) = {table}}}

MeasuredTables(aliases, item) == {t \in ColumnTable(aliases, item.of) : IsMeasure(t, item.of.c)}

\* What an aggregate of the SELECT's repeats, of the table it reads a measure of.
Exposed(p, item, aliases, joined) ==
  LET Of(t) == SelectSeq(FanoutEdgesFrom(t), LAMBDA edge :
                 edge.from \in joined /\ ~AveragesOneParent(p, item, aliases, t))
      Against(t, edge) == Fanout([item EXCEPT !.dist = @ /\ item.agg = "sum"], t, edge)
  IN  FoldSet(LAMBDA t, found : FoldLeft(LAMBDA f, edge : Append(f, Against(t, edge)), found, Of(t)),
              <<>>, MeasuredTables(aliases, item))

\* The first diagnostic against the query, or whether it is safe.
Foremost(diagnostics) ==
  LET actionable == {n \in DOMAIN diagnostics : Actionable(diagnostics[n])}
  IN  IF actionable # {} THEN diagnostics[Min(actionable)]
      ELSE IF Pass \in ToSet(diagnostics) THEN Pass
      ELSE NotApplicable

ValidateAggregates(p, summed, aliases, joined) ==
  Foremost(FoldLeft(LAMBDA found, item : found \o Exposed(p, item, aliases, joined),
                    IF \E item \in ToSet(summed) : MeasuredTables(aliases, item) # {}
                    THEN <<Pass>> ELSE <<>>,
                    summed))

\* The aggregates written inside the SELECT count as its own: they are under it in the tree.
ValidateSelect(q, k) ==
  LET summed == FoldLeft(LAMBDA all, j : all \o Summed(q[j]), <<>>, Selects(q, k))
      aliases == DirectTableAliases(q, k)
  IN  ValidateAggregates(q[k], summed, aliases,
        {aliases[a] : a \in DOMAIN aliases} \cup DerivedChildTables(q, <<>>, <<k>>))

-----------------------------------------------------------------------------
(***************************************************************************)
(* A measure that reaches the aggregate through other queries.             *)
(***************************************************************************)
\* Whether the scope is taken to leave one row per row of the table: it groups by the
\* table's key, or keeps rows distinct that carry it, or a column its joins equate with it.
KeepsNativeGrain(q, k, table, aggregating) ==
  LET p == q[k]
      columns == IF p.group # {} THEN p.group
                 ELSE IF p.distinct /\ ~aggregating THEN {i.of : i \in ToSet(p.items)} ELSE {}
      clauses == FlattenSeq([n \in DOMAIN p.from |-> p.from[n].on]) \o p.where
      equalities == FlattenSeq(clauses)
      grouped[n \in 0 .. Len(equalities)] ==
        IF n = 0 THEN UNION {Origins(q, k, c) : c \in columns}
        ELSE LET sides == UNION {Origins(q, k, ref) : ref \in ToSet(equalities[n])}
             IN  grouped[n - 1] \cup IF sides \cap grouped[n - 1] # {} THEN sides ELSE {}
  IN  /\ columns # {}
      /\ \A c \in Catalog[table].key : <<table, c>> \in grouped[Len(equalities)]

\* The tables joined on the way out and not collapsed since, the whole path long.
JoinedOnTheWay(q, path, table, item) ==
  LET joined[n \in DOMAIN path] ==
        LET k == path[n].scope
            deeper == IF n = Len(path) THEN {} ELSE joined[n + 1]
            arrived == IF n = Len(path) THEN <<>> ELSE path[n + 1].entered
            outward == [m \in 1 .. n |-> path[m].scope]
        IN  IF (n > 1 \/ item.agg = "avg") /\ KeepsNativeGrain(q, k, table, n = 1) THEN {}
            ELSE deeper \cup PhysicalTables(q[k]) \cup DerivedChildTables(q, arrived, outward)
  IN  joined[1]

\* The first of the edges that comes from one of the tables.
FirstMet(edges, tables) ==
  LET met == {n \in DOMAIN edges : edges[n].from \in tables}
  IN  IF met = {} THEN {} ELSE {edges[Min(met)]}

ExposedMeasure(q, table, path, item) ==
  {Fanout(item, table, edge) :
     edge \in FirstMet(FanoutEdgesFrom(table), JoinedOnTheWay(q, path, table, item))}

\* A measure the scope reads from its own tables is ValidateSelect's.
TracedFanout(q, k) ==
  LET Found(item) == UNION {ExposedMeasure(q, l[1], l[3], item) :
                              l \in {l \in Lineage(q, k, item.of) : Len(l[3]) > 1 /\ IsMeasure(l[1], l[2])}}
      summed == Summed(q[k])
  IN  Foremost(FlattenSeq([n \in DOMAIN summed |-> SetToSeq(Found(summed[n]))]))

Diagnose(q) ==
  LET selects == Selects(q, Len(q))
  IN  Foremost([n \in DOMAIN selects |-> ValidateSelect(q, selects[n])]
                 \o [k \in DOMAIN q |-> TracedFanout(q, k)])
=============================================================================
