------------------------------ MODULE SqlAnswers ------------------------------
(***************************************************************************)
(* What PostgreSQL answers to a query, as far as the gates' promises need: *)
(* the rows, and behind every value how often each stored value counts in  *)
(* it. A database gives each table a sequence of rows, column -> value. A  *)
(* cell is [val, counts], counts a bag of <<table, column, row>>; a row is *)
(* [of, cells], of telling it from the other rows of its source: the place *)
(* in the table, or the rows of the FROM list it was made of.              *)
(***************************************************************************)
EXTENDS SqlPolicy, Bags

CONSTANTS
  Databases,  \* contents of the tables to judge the answers by
  Null

Cell(val, counts) == [val |-> val, counts |-> counts]
Missing == Cell(Null, EmptyBag)

TableRows(db, t) ==
  {[of |-> <<n>>,
    cells |-> [c \in Catalog[t].columns |-> Cell(db[t][n][c], SetToBag({<<t, c, n>>}))]] :
     n \in DOMAIN db[t]}

MissingRow(columns) == [of |-> <<>>, cells |-> [c \in columns |-> Missing]]

\* A row of the FROM list is a binding of each alias to a row.
NoBinding == [a \in {} |-> MissingRow({})]
Bind(b, alias, row) == [a \in DOMAIN b \cup {alias} |-> IF a = alias THEN row ELSE b[a]]

Has(b, a, c) == c \in DOMAIN b[a].cells

Vals(row) == [c \in DOMAIN row.cells |-> row.cells[c].val]

Copies(m, counts) == IF BagIn(m, counts) THEN counts[m] ELSE 0

\* A row as one value. It shows every column, and counts what any of them counts.
WholeRow(row) ==
  LET Counted(m) == {Copies(m, row.cells[c].counts) : c \in DOMAIN row.cells}
  IN  Cell(IF row.of = <<>> THEN Null ELSE Vals(row),
           [m \in UNION {DOMAIN row.cells[c].counts : c \in DOMAIN row.cells} |-> Max(Counted(m))])

\* The value a column names. A name alone is of the row that has a column called so; when
\* none has, it is the row of the source called so. PostgreSQL refuses a name that two rows
\* have: it has no value.
Value(b, ref) ==
  LET owners == IF ref.q # "" THEN {ref.q} ELSE {a \in DOMAIN b : Has(b, a, ref.c)}
  IN  IF owners = {} THEN WholeRow(b[ref.c])
      ELSE IF \E x, y \in owners : x # y THEN Missing
      ELSE b[CHOOSE a \in owners : TRUE].cells[ref.c]

Holds(b, condition) ==
  \A clause \in ToSet(condition) : \E e \in ToSet(clause) :
    Value(b, e[1]).val # Null /\ Value(b, e[1]).val = Value(b, e[2]).val

\* WHERE column > 1.
Passes(b, filter) == \A ref \in filter : Value(b, ref).val # Null /\ Value(b, ref).val > 1

-----------------------------------------------------------------------------
\* One of the bindings for each value read.
OnePerValue(bindings, ref) ==
  {CHOOSE b \in bindings : Value(b, ref).val = v : v \in {Value(b, ref).val : b \in bindings}}

\* An aggregate of the bindings' cells, each counted as often as it is read.
Total(item, bindings) ==
  LET Read(b) == Value(b, item.of)
      total == MapThenSumSet(LAMBDA b : Read(b).val, bindings)
      counts == [m \in UNION {DOMAIN Read(b).counts : b \in bindings} |->
                   MapThenSumSet(LAMBDA b : Copies(m, Read(b).counts), bindings)]
  IN  IF item.agg = "count" THEN Cell(Cardinality(bindings), EmptyBag)
      ELSE IF bindings = {} THEN Missing
      ELSE Cell(IF item.agg = "avg" THEN total \div Cardinality(bindings) ELSE total, counts)

Aggregate(item, group) ==
  LET some == {b \in group : CountsRows(item) \/ Value(b, item.of).val # Null}
  IN  Total(item, IF item.dist THEN OnePerValue(some, item.of) ELSE some)

\* The columns a star stands for.
Spelt(b, i) ==
  LET of == IF i.of.q = "" THEN DOMAIN b ELSE {i.of.q}
  IN  [c \in UNION {DOMAIN b[a].cells : a \in of} |-> b[CHOOSE a \in of : Has(b, a, c)].cells[c]]

\* What an output of the SELECT gives for a group of bindings, by column name.
Output(i, group) ==
  LET b == CHOOSE b \in group : TRUE
  IN  CASE i.agg = "star" -> Spelt(b, i)
        [] i.agg = "none" -> [c \in {i.as} |-> Value(b, i.of)]
        [] OTHER          -> [c \in {i.as} |-> Aggregate(i, group)]

\* The columns, by name. Where two outputs give one name, which a query cannot tell apart,
\* the first one written stands for it.
Outputs(p, group) ==
  LET Gives(i, c) == c \in DOMAIN Output(i, group)
      Of(c) == IF Projection(p, c) # 0 THEN p.items[Projection(p, c)]
               ELSE CHOOSE i \in ToSet(p.items) : Gives(i, c)
  IN  [c \in UNION {DOMAIN Output(i, group) : i \in ToSet(p.items)} |-> Output(Of(c), group)[c]]

GroupsOf(p, bindings) ==
  LET Key(b) == [g \in p.group |-> Value(b, g).val]
  IN  IF p.group # {} THEN {{b \in bindings : Key(b) = key} : key \in {Key(b) : b \in bindings}}
      ELSE IF Aggregates(p) THEN {bindings}
      ELSE {{b} : b \in bindings}

\* One of the rows for each combination of values.
Different(rows) == {CHOOSE row \in rows : Vals(row) = v : v \in {Vals(row) : row \in rows}}

\* The rows a SELECT gives, each one the output of a group of rows of its FROM list.
RowsOf(p, bindings) ==
  LET Of(b) == [a \in DOMAIN b |-> b[a].of]
      rows == {[of |-> <<{Of(b) : b \in group}>>, cells |-> Outputs(p, group)] :
                 group \in GroupsOf(p, bindings)}
  IN  IF p.distinct THEN Different(rows) ELSE rows

-----------------------------------------------------------------------------
\* The rows and the columns of each source; answers and given are those of the SELECTs before.
SourceRows(p, db, answers) ==
  LET Rows(s) == IF IsTable(s) THEN TableRows(db, s.table) ELSE answers[s.inner]
  IN  [n \in DOMAIN p.from |-> Rows(p.from[n])]

SourceColumns(p, given) ==
  LET Columns(s) == IF IsTable(s) THEN Catalog[s.table].columns ELSE given[s.inner]
  IN  [n \in DOMAIN p.from |-> Columns(p.from[n])]

\* A binding of the sources before joined to one more.
JoinedTo(b, s, rows, columns) ==
  LET met == {e \in {Bind(b, s.alias, row) : row \in rows} : Holds(e, s.on)}
  IN  IF met = {} /\ s.side = "LEFT" THEN {Bind(b, s.alias, MissingRow(columns))} ELSE met

\* The FROM list joined from the left, as far as each of its sources.
JoinedSources(p, rows, columns) ==
  LET joined[n \in 0 .. Len(p.from)] ==
        IF n = 0 THEN {NoBinding}
        ELSE UNION {JoinedTo(b, p.from[n], rows[n], columns[n]) : b \in joined[n - 1]}
  IN  joined

\* The rows of the FROM list that WHERE keeps.
Bindings(p, rows, columns) ==
  {b \in JoinedSources(p, rows, columns)[Len(p.from)] : Holds(b, p.where) /\ Passes(b, p.filter)}

BindingsOf(p, db, given, answers) ==
  Bindings(p, SourceRows(p, db, answers), SourceColumns(p, given))

\* The rows of every SELECT, the outermost one's being the query's.
Answers(q, db) ==
  LET answers[k \in DOMAIN q] == RowsOf(q[k], BindingsOf(q[k], db, OutputColumns(q), answers))
  IN  answers

Answer(q, db) == Answers(q, db)[Len(q)]
=============================================================================
