-------------------------- MODULE QueryGatesProperties --------------------------
(***************************************************************************)
(* What a query that came through the gates may be relied on for, judged   *)
(* by what it answers on real contents and not by how it is written.       *)
(***************************************************************************)
EXTENDS QueryGates, SqlAnswers

TypeOK ==
  /\ stage \in Stages
  /\ verdict \in Verdicts
  /\ verdict = Allowed <=> stage # "REFUSED"
  /\ selected # query => stage \in {"RECHECK", "PLANNED", "REFUSED"}

Planned == stage = "PLANNED"

-----------------------------------------------------------------------------
(***************************************************************************)
(* Fan-out. A value of the answer counts a stored measure of a table that  *)
(* has children at most once; an average weighs all it counts alike.       *)
(***************************************************************************)
ParentCells(bag) ==
  {m \in BagToSet(bag) : IsMeasure(m[1], m[2]) /\ FanoutEdgesFrom(m[1]) # <<>>}

CountsOnce(item, cell) ==
  IF item.agg = "avg"
  THEN \A m, n \in ParentCells(cell.counts) : Copies(m, cell.counts) = Copies(n, cell.counts)
  ELSE \A m \in ParentCells(cell.counts) : Copies(m, cell.counts) = 1

AnswerCountsOnce(q) ==
  \A db \in Databases : \A row \in Answer(q, db) : \A i \in ToSet(Last(q).items) :
    ~IsStar(i) => CountsOnce(i, row.cells[i.as])

\* A query inside that keeps a parent's key together with columns of other tables gives a
\* parent several rows; the validator takes it to give one.
KeepsMoreThanTheKey(q) ==
  \E t \in Tables : \E k \in 1 .. Len(q) - 1 :
    LET kept == IF q[k].group # {} THEN q[k].group
                ELSE IF q[k].distinct THEN {i.of : i \in ToSet(q[k].items)} ELSE {}
    IN  /\ KeepsNativeGrain(q, k, t, FALSE)
        /\ \E c \in kept : \E o \in Origins(q, k, c) : o[1] # t

\* A key of a joined query that is matched with something other than the parent, or only
\* as one of two alternatives, still leaves the parent several rows.
KeyMatchedElsewhere(q) ==
  \E p \in ToSet(q) : \E s \in ToSet(p.from) :
    /\ ~IsTable(s)
    /\ \/ Cardinality({(IF e[1].q = s.alias THEN e[2] ELSE e[1]).q :
                         e \in {e \in Equalities(p) : s.alias \in {e[1].q, e[2].q}}}) > 1
       \/ \E clause \in Clauses(p) : Len(clause) > 1

\* An aggregate of an accepted query counts each parent once, whatever children the query
\* joins to it, in place or through other queries (GrainSafetyValidator, the normalizer),
\* outside the two shapes the validator misjudges.
CountedOnce ==
  Planned /\ ~KeepsMoreThanTheKey(query) /\ ~KeyMatchedElsewhere(query) => AnswerCountsOnce(selected)

\* The same of every accepted query, as docs/architecture.md:253 and docs/security.md:75
\* have it: "aggregates must not fan out across a parent-child join".
NeverFansOut == Planned => AnswerCountsOnce(selected)

-----------------------------------------------------------------------------
\* A query the server has rewritten gives the groups the model asked for, the children's
\* sums it would have given, and each parent once where it would have repeated it
\* (GrainSafeNormalizer._rewrite).
Once(bag) == SetToBag(BagToSet(bag))

SameButOnce(before, after) ==
  \A n \in DOMAIN Last(query).items :
    LET i == Last(query).items[n]
        new == Last(selected).items[n]
        was == before.cells[i.as]
        is == after.cells[new.as]
    IN  IF i.agg = "none" \/ new.of # i.of THEN is.val = was.val
        ELSE i.agg \in {"sum", "avg"} => is.counts = Once(was.counts)

RewriteKeepsTheQuestion ==
  Planned /\ selected # query =>
    \A db \in Databases :
      LET before == Answer(query, db)
          after == Answer(selected, db)
      IN  /\ Cardinality(before) = Cardinality(after)
          /\ \A row \in before : \E new \in after : SameButOnce(row, new)

-----------------------------------------------------------------------------
(***************************************************************************)
(* Joins. Two rows of different tables meet in an accepted query only when *)
(* a chain of the source's relationships leads from one to the other.      *)
(***************************************************************************)
\* A LEFT JOIN keeps the rows its condition does not match: two sources before it that only
\* this condition links are paired row by row there, and a table listed elsewhere as well is
\* linked by this condition although the row has none of it here.
LinkedByAnOuterJoin(q) ==
  \E k \in DOMAIN q : \E s \in {s \in ToSet(q[k].from) : s.side = "LEFT"} :
    LET relations == ScopeRelations(q, k)
        joined == UNION UNION {JoinedBy(relations, clause) : clause \in ToSet(s.on)}
    IN  \/ Cardinality({Node(relations, a) : a \in joined \cup {s.alias}}) > 2
        \/ \E a \in DOMAIN relations \ {s.alias} : Node(relations, a) = Node(relations, s.alias)

\* A computed column, a column of the same table, or an equality that only narrows.
Loose(q, k, clause, e) ==
  \/ PairOf(q, k, clause, e) = {}
  \/ \E p \in PairOf(q, k, clause, e) : ~Related(p.left, p.right) /\ Narrows(q, k, p)

\* A derived table that only loose equalities join: what docs/architecture.md:331-334 and
\* security.md:65-68 leave unchecked.
LooselyJoined(q) ==
  \E k \in DOMAIN q :
    LET relations == ScopeRelations(q, k)
        joining(l) == {clause \in Clauses(q[k]) : JoinedBy(relations, clause) = {l}}
    IN  \E l \in UNION {JoinedBy(relations, clause) : clause \in Clauses(q[k])} :
          /\ \E a \in l : relations[a].table = ""
          /\ \A clause \in joining(l) : \E e \in ToSet(clause) : Loose(q, k, clause, e)

Origin(cell) == {<<m[1], m[2]>> : m \in BagToSet(cell.counts)}

\* Two cells that hold one key, or a key and a reference to it.
NameOneRow(x, y) ==
  /\ \E o \in Origin(x), p \in Origin(y) :
       {o} = Origin(x) /\ {p} = Origin(y) /\ (Related(o, p) \/ KeyOf(o) = KeyOf(p))
  /\ x.val = y.val /\ x.val # Null

Meet(row, other) ==
  \E c \in DOMAIN row.cells, d \in DOMAIN other.cells : NameOneRow(row.cells[c], other.cells[d])

Met(q, k, binding) ==
  LET live == {a \in DOMAIN binding : \E c \in DOMAIN Vals(binding[a]) : Vals(binding[a])[c] # Null}
      NodeOf(a) == Node(ScopeRelations(q, k), a)
      links == {{NodeOf(p[1]), NodeOf(p[2])} :
                  p \in {p \in live \X live : Meet(binding[p[1]], binding[p[2]])}}
      tables == {a \in live : NodeOf(a) \in TableNodes(q, k)}
  IN  \A a, b \in tables : Connected(NodeOf(a), NodeOf(b), links)

AllMet(q) ==
  \A db \in Databases : \A k \in DOMAIN q :
    \A binding \in BindingsOf(q[k], db, OutputColumns(q), Answers(q, db)) : Met(q, k, binding)

\* Every row of the FROM list of an accepted query, and of the queries in it, is made of
\* rows its relationships join (SQLPolicy._validate_joins), unless a LEFT JOIN links them or
\* a derived table is joined on what the policy does not trace.
RowsMeetByRelationships ==
  Planned /\ ~LinkedByAnOuterJoin(selected) /\ ~LooselyJoined(selected) => AllMet(selected)

\* The same of LEFT JOINs too, as docs/security.md:69 has it: "Every table in a SELECT's FROM
\* list must be joined to the others along such relationships".
NoTablesCrossed == Planned /\ ~LooselyJoined(selected) => AllMet(selected)

\* A stored value the catalog lets a query show.
Queryable(m) == m[1] \in Tables /\ Catalog[m[1]].queryable /\ m[2] \notin Catalog[m[1]].hidden

AnswerQueryable(q) ==
  \A db \in Databases : \A row \in Answer(q, db) : \A c \in DOMAIN row.cells :
    \A m \in BagToSet(row.cells[c].counts) : Queryable(m)

\* A name alone that a relation is called is taken for that relation's row, whose columns
\* are not looked at: it shows hidden ones, its own or, where it is the name of a column
\* instead, that one.
RowHidesAColumn(relations, ref) ==
  /\ ref.q = "" /\ ref.c \in DOMAIN relations
  /\ \E a \in DOMAIN relations :
       /\ HidesAColumn(relations[a])
       /\ IF a = ref.c THEN ref.c \notin relations[a].columns
          ELSE ref.c \in Catalog[relations[a].table].hidden

ShowsAHidingRow(q) ==
  \E k \in DOMAIN q : \E i \in ToSet(q[k].items) : RowHidesAColumn(ScopeRelations(q, k), i.of)

\* No value of a table or column that is not queryable reaches the answer, by name, by star,
\* in a total, in a row as a value or through the queries inside (SQLPolicy.validate, of the
\* query and of what the server rewrites it to), unless a row that has one is an output.
OnlyQueryableShown == Planned /\ ~ShowsAHidingRow(selected) => AnswerQueryable(selected)

\* The same of rows as values too, as src/app/catalog/default.py:36 has it of a column: "not
\* queryable", and tests/unit/test_sql_policy.py:267-268 of it by name and by star.
HiddenNeverShown == Planned => AnswerQueryable(selected)
=============================================================================
