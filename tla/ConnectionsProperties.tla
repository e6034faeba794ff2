------------------------- MODULE ConnectionsProperties -------------------------
(***************************************************************************)
(* What a saved connection must keep to, and what its documents say of it  *)
(* that the code does not do.                                              *)
(***************************************************************************)
EXTENDS Connections

Schema == [columns : SUBSET Column, keys : SUBSET Link]

Choice == [enabled : BOOLEAN, excluded : SUBSET Column]

Engines == 0 .. MaxEngines

Asking == {"links", "sharing", "statistics", "keep", "engine"}

Deleting == {"pop", "dispose", "forget", "unshare", "list", "undeclare"}

Kinds == {"none", "question", "values", "set", "declare", "delete"}

StepNames == Asking \cup Deleting \cup {"idle", "row", "schema", "choose", "unique", "save"}

Tasks == [kind : Kinds, step : StepNames, schema : Schema, links : SUBSET Link, sharing : Choice,
          hints : SUBSET Plain, wanted : SUBSET Link, choice : Choice, engine : Engines]

\* Where a request of each kind may stand.
Stands(r) ==
  /\ r.kind = "none" => r.step = "idle"
  /\ r.kind = "question" => r.step \in Asking \cup {"schema"}
  /\ r.kind = "values" => r.step \in {"row", "schema", "statistics", "keep"}
  /\ r.kind = "set" => r.step \in {"schema", "choose"}
  /\ r.kind = "declare" => r.step \in {"schema", "links", "unique", "save"}
  /\ r.kind = "delete" => r.step \in Deleting

\* Every variable keeps its type, each request stands at a step of its kind, and the
\* columns values were counted for are never ones whose name or type forbids it
\* (eligible_columns).
TypeOK ==
  /\ stored \in BOOLEAN
  /\ declared \subseteq Link
  /\ sharing \in Choice
  /\ source \in Schema
  /\ statistics \in [kept : BOOLEAN, hints : SUBSET Plain]
  /\ engine \in Engines /\ open \subseteq Engines
  /\ task \in [Thread -> Tasks]
  /\ \A t \in Thread : Stands(task[t])
  /\ since \in [Thread -> [shared : SUBSET Column, declared : SUBSET Link]]
  /\ together \subseteq SUBSET Link

\* A question is shown the stored values only of columns that some choice in force since
\* it began shares: turning sharing off, or excluding a column, holds for every question
\* asked afterwards, although the statistics themselves are kept ten minutes and were read
\* under other choices (question_source, _statistics, apply_known_values).
SharesOnlyChosen ==
  \A t \in Thread : At(t, "engine") => Shown(t) \subseteq since[t].shared

\* The engines open are the one kept and those a deletion under way is about to dispose of:
\* two questions never make an engine each, and none is dropped while open
\* (_reader_engine, delete).
EnginesHeld ==
  open = ({engine} \cup {task[t].engine : t \in Thread}) \ {NoEngine}

\* Two declared relationships lead from one table to different columns of another only if
\* they were declared at the same time, neither request reading the other's: one after
\* another, the second is rejected (check_declaration, _alternate_key_path).
SecondPathsMeet ==
  \A l, m \in declared : SecondPath(l, m) => {l, m} \in together

\* A deleted connection leaves no relationship and no sharing choice, also when they are
\* stored while it is being deleted, after its own cleanup (delete; the foreign keys of
\* declared_relationships and value_sharing).
NothingLeftBehind ==
  ~stored => declared = {} /\ sharing = NoChoice

\* docs/security.md says the values the model sees skip keys, and docs/architecture.md that
\* declared relationships are merged in like foreign keys and keys never carry stored
\* values.  A question would then be shown no values of a column that is an end of a
\* relationship in its own catalog.
KeysNeverShared ==
  \A t \in Thread :
    At(t, "engine") => Shown(t) \cap Ends(Merged(task[t].schema, task[t].links)) = {}
================================================================================
