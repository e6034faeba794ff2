---------------------------- MODULE GrainNormalizer ----------------------------
(***************************************************************************)
(* The one rewriting the server makes itself                               *)
(* (src/app/semantics/grain_normalizer.py): a LEFT JOIN of a table to its  *)
(* children, both summed, becomes a join to the children's sums per parent *)
(* key. Inspect is the boundary around it (grain_runtime.py). Why it       *)
(* abstains is not told apart: every reason refuses the query alike.       *)
(***************************************************************************)
EXTENDS Grain

\* The tables of the SELECT itself, by alias.
TableSources(p) ==
  LET direct == {s \in ToSet(p.from) : IsTable(s) \/ s.cte}
  IN  [a \in {s.alias : s \in direct} |-> (CHOOSE s \in direct : s.alias = a).table]

Aliases(p, table) == {a \in DOMAIN TableSources(p) : TableSources(p)[a] = table}
TheAlias(p, table) == CHOOSE a \in Aliases(p, table) : TRUE

\* Every column the part of the query mentions under that alias.
Uses(columns, alias) == \E ref \in columns : ref.q = alias

\* The LEFT JOIN of the child on the edge's key, and on nothing else.
SupportedJoins(p, edge, parent, child) ==
  {n \in 2..Len(p.from) :
     LET s == p.from[n]
         Key(e) == \/ e = <<Column(child, edge.column), Column(parent, edge.referenced)>>
                   \/ e = <<Column(parent, edge.referenced), Column(child, edge.column)>>
     IN  /\ s.side = "LEFT" /\ s.alias = child /\ (IsTable(s) \/ s.cte) /\ s.table = edge.from
         /\ s.on # <<>>
         /\ \A clause \in ToSet(s.on) : Len(clause) = 1 /\ Key(clause[1])}

\* Every other table joined is one the parent's rows point to: it repeats none of them.
OtherJoinsSafe(p, edge, child) ==
  \A n \in 2..Len(p.from) :
    LET s == p.from[n]
    IN  (IsTable(s) \/ s.cte) /\ s.alias # child =>
          \E r \in ToSet(Relationships) : r.from = edge.to /\ r.to = s.table

\* The sums of the child's columns, wherever in the query they are written.
ChildSums(q, child) ==
  UNION {{i \in ToSet(p.items) : i.agg = "sum" /\ ~i.dist /\ i.of.q = child} : p \in ToSet(q)}

\* The children are used for their sums and their key only.
ChildOnlySummed(p, edge, child) ==
  /\ ~Uses(p.filter \cup p.group, child)
  /\ ~Uses(UNION {{e[1], e[2]} : e \in ToSet(FlattenSeq(p.where))}, child)
  /\ \A i \in ToSet(p.items) :
       i.of.q = child => \/ i.of.c = edge.column
                         \/ i.agg = "sum" /\ ~i.dist /\ IsMeasure(edge.from, i.of.c)

CanRewrite(q, d) ==
  LET p == Last(q)
      edge == d.edges[1]
      parent == TheAlias(p, edge.to)
      child == TheAlias(p, edge.from)
      tables == {TableSources(p)[a] : a \in DOMAIN TableSources(p)}
      edges == SelectSeq(FanoutEdgesFrom(edge.to), LAMBDA r : r.from \in tables)
  IN  /\ \A table \in {edge.to, edge.from} : Cardinality(Aliases(p, table)) = 1
      /\ edges = <<edge>>
      /\ SupportedJoins(p, edge, parent, child) # {}
      /\ OtherJoinsSafe(p, edge, child)
      /\ ChildSums(q, child) # {}
      /\ \A i \in ChildSums(q, child) : IsMeasure(edge.from, i.of.c)
      /\ ChildOnlySummed(p, edge, child)

\* The names the normalizer makes up.
GrainSum(c)         == c \o "__grain_sum"
SumsAlias(child)    == child \o "__grain"
SourceAlias(child)  == child \o "__source"

\* Faulty: equal values of two rows of a parent are added once.
ChildSumDistinct(source, c) ==
  [as |-> GrainSum(c), agg |-> "sum", dist |-> TRUE, of |-> Column(source, c)]

ChildSum(source, c) ==
  [as |-> GrainSum(c), agg |-> "sum", dist |-> FALSE, of |-> Column(source, c)]

\* The child's rows, read from the source the join reads, summed per parent key.
Preaggregated(q, edge, read) ==
  LET alias   == SourceAlias(read.alias)
      key     == Column(alias, edge.column)
      columns == SetToSeq({i.of.c : i \in ChildSums(q, read.alias)})
  IN  [items |-> <<[as |-> edge.column, agg |-> "none", dist |-> FALSE, of |-> key]>> \o
                 [n \in DOMAIN columns |-> ChildSum(alias, columns[n])],
       distinct |-> FALSE,
       from |-> <<[read EXCEPT !.alias = alias, !.side = "FROM", !.on = <<>>]>>,
       where |-> <<>>, filter |-> {}, group |-> {key}]

\* The join, its condition and the output read the sums, the SELECT before the outermost.
Summing(p, at, preaggregated) ==
  LET joined == p.from[at]
      child  == joined.alias
      sums   == SumsAlias(child)
      Moved(ref) == IF ref.q = child THEN Column(sums, ref.c) ELSE ref
      Condition(on) == [n \in DOMAIN on |-> [m \in DOMAIN on[n] |->
                          <<Moved(on[n][m][1]), Moved(on[n][m][2])>>]]
      Output(i) == IF i.of.q # child THEN i
                   ELSE IF i.agg = "sum" THEN [i EXCEPT !.of = Column(sums, GrainSum(i.of.c))]
                   ELSE [i EXCEPT !.of = Moved(i.of)]
      source == [joined EXCEPT !.alias = sums, !.table = "", !.cte = FALSE,
                               !.inner = preaggregated, !.on = Condition(joined.on)]
  IN  [p EXCEPT !.from[at] = source, !.items = [n \in DOMAIN p.items |-> Output(p.items[n])]]

Rewrite(q, d) ==
  LET p    == Last(q)
      edge == d.edges[1]
      at   == CHOOSE n \in SupportedJoins(p, edge, TheAlias(p, edge.to), TheAlias(p, edge.from)) : TRUE
  IN  Front(q) \o <<Preaggregated(q, edge, p.from[at]), Summing(p, at, Len(q))>>

-----------------------------------------------------------------------------
Decision(status, selected) == [status |-> status, selected |-> selected]

\* A fan-out is rewritten, and kept only when the validator finds the result safe.
Kept(q, rewritten) ==
  IF Actionable(Diagnose(rewritten)) THEN Decision("ABSTAIN", q)
  ELSE Decision("NORMALIZED", rewritten)

Normalize(q, d) ==
  IF CanRewrite(q, d) THEN Kept(q, Rewrite(q, d)) ELSE Decision("ABSTAIN", q)

\* What is not rewritten is refused.
Settled(q, normalized) ==
  IF normalized.status = "NORMALIZED" THEN normalized ELSE Decision("REJECTED", q)

Judged(q, d) ==
  CASE d.code = "DISTINCT_VALUE_FANOUT_MASK" -> Decision("REJECTED", q)
    [] d.code = "PARENT_MEASURE_FANOUT"      -> Settled(q, Normalize(q, d))
    [] OTHER                                 -> Decision("UNCHANGED", q)

Inspect(q) == Judged(q, Diagnose(q))
================================================================================
