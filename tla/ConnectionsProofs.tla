--------------------------- MODULE ConnectionsProofs ---------------------------
(***************************************************************************)
(* Proofs about Connections, for any columns, relationships, schemas and   *)
(* number of requests: what a question is shown was shared, relationships  *)
(* declared one after another leave one path, engines are held, and a      *)
(* deleted connection leaves nothing in the stores.                        *)
(***************************************************************************)
EXTENDS ConnectionsProperties, TLAPS

Statistics == [kept : BOOLEAN, hints : SUBSET Plain]

Since == [shared : SUBSET Column, declared : SUBSET Link]

\* What is so of a request r that began when n began to be recorded.
Fits(r, n) ==
  /\ r.kind = "question" => Shared(sharing) \subseteq n.shared
  /\ r.kind = "question" /\ r.step \in {"statistics", "keep", "engine"} =>
       Shared(r.sharing) \subseteq n.shared
  /\ r.step \in {"unique", "save"} =>
       \A l \in r.wanted, m \in declared \ n.declared : ~SecondPath(l, m)
  /\ \A l, m \in r.wanted : ~SecondPath(l, m)
  /\ r.engine # NoEngine => r.step = "dispose"

RequestsInv == \A t \in Thread : Fits(task[t], since[t])

\* No engine is in two places.
EnginesApart ==
  \A t \in Thread :
    task[t].engine # NoEngine =>
      /\ task[t].engine # engine
      /\ \A u \in Thread \ {t} : task[u].engine # task[t].engine

IInv == TypeOK /\ RequestsInv /\ EnginesHeld /\ EnginesApart /\ SecondPathsMeet
        /\ NothingLeftBehind

USE TableAssumption, PlainAssumption, LinkAssumption, SchemasAssumption, ChoicesAssumption,
    EnginesAssumption

LEMMA NoTaskTyped == NoTask \in Tasks /\ Stands(NoTask) /\ Nothing \in Since
BY DEF NoTask, Tasks, Stands, Nothing, Since, Schema, Choice, Engines, EmptySchema, NoChoice,
       NoEngine, Kinds, StepNames

\* The request of one thread goes on; the stores and the engines stay as they are.
LEMMA Moves ==
  ASSUME IInv, NEW t \in Thread, NEW r \in Tasks, NEW n \in Since,
         Goes(t, r), since' = [since EXCEPT ![t] = n],
         Stands(r), Fits(r, n), r.engine = NoEngine, task[t].engine = NoEngine,
         statistics' \in Statistics, UNCHANGED <<stores, source, engines, together>>
  PROVE  IInv'
<1> USE DEF IInv, TypeOK, Goes, stores, engines
<1>1. /\ task' \in [Thread -> Tasks] /\ since' \in [Thread -> Since]
      /\ task'[t] = r /\ since'[t] = n
      /\ \A u \in Thread \ {t} : task'[u] = task[u] /\ since'[u] = since[u]
  BY DEF Since
<1>2. TypeOK'
  BY <1>1 DEF Since, Statistics
<1>3. RequestsInv'
  BY <1>1 DEF RequestsInv, Fits, SecondPath
<1>4. \A u \in Thread : task'[u].engine = task[u].engine
  BY <1>1
<1>5. EnginesHeld' /\ EnginesApart'
  BY <1>4 DEF EnginesHeld, EnginesApart
<1>6. SecondPathsMeet' /\ NothingLeftBehind'
  BY DEF SecondPathsMeet, NothingLeftBehind, SecondPath
<1> QED BY <1>2, <1>3, <1>5, <1>6

\* A request ends.
LEMMA RequestEnds ==
  ASSUME IInv, NEW t \in Thread, Ended(t), task[t].engine = NoEngine,
         statistics' \in Statistics, UNCHANGED <<stores, source, engines, together>>
  PROVE  IInv'
<1>1. Fits(NoTask, Nothing) /\ NoTask.engine = NoEngine
  BY DEF Fits, NoTask, NoEngine
<1> QED BY <1>1, NoTaskTyped, Moves DEF Ended

\* A request goes on, and nothing is recorded of it.
LEMMA GoesOn ==
  ASSUME IInv, NEW t \in Thread, NEW r \in Tasks, Goes(t, r), UNCHANGED since,
         Stands(r), Fits(r, since[t]), r.engine = NoEngine, task[t].engine = NoEngine,
         statistics' \in Statistics, UNCHANGED <<stores, source, engines, together>>
  PROVE  IInv'
<1>1. since[t] \in Since /\ since' = [since EXCEPT ![t] = since[t]]
  BY DEF IInv, TypeOK, Since
<1> QED BY <1>1, Moves

\* What the invariant says of one request.
LEMMA OneRequest ==
  ASSUME IInv, NEW t \in Thread
  PROVE  /\ task[t] \in Tasks /\ Stands(task[t]) /\ Fits(task[t], since[t])
         /\ since[t] \in Since
         /\ task[t].step # "dispose" => task[t].engine = NoEngine
         /\ statistics \in Statistics
BY DEF IInv, TypeOK, RequestsInv, Fits, Since, Statistics

LEMMA BeginKeeps ==
  ASSUME IInv, NEW t \in Thread, NEW r \in Tasks, Stands(r), Begin(t, r),
         r.step \notin {"statistics", "keep", "engine", "unique", "save"},
         \A l, m \in r.wanted : ~SecondPath(l, m), r.engine = NoEngine
  PROVE  IInv'
<1> DEFINE n == [since[t] EXCEPT !.shared = IF r.kind = "question" THEN Shared(sharing) ELSE {}]
<1>1. n \in Since /\ Fits(r, n)
  BY OneRequest DEF Since, Fits, Shared
<1>2. since' = [since EXCEPT ![t] = n]
  BY DEF Begin
<1>3. task[t].engine = NoEngine
  BY DEF Begin, NoTask
<1> QED BY <1>1, <1>2, <1>3, Moves, OneRequest DEF Begin

LEMMA AskKeeps ==
  ASSUME IInv, NEW t \in Thread, Ask(t)
  PROVE  IInv'
<1> USE DEF Resolved, NoTask
<1>1. NoTask \in Tasks
  BY NoTaskTyped
<1>2. CASE AskQuestion(t)
  BY <1>1, <1>2, BeginKeeps DEF AskQuestion, Stands, Tasks, Kinds, StepNames, NoEngine
<1>3. CASE AskValues(t)
  BY <1>1, <1>3, BeginKeeps DEF AskValues, Stands, Tasks, Kinds, StepNames, NoEngine
<1>4. CASE AskSet(t)
  <2>1. PICK c \in Choices : Begin(t, [Resolved("set") EXCEPT !.choice = c])
    BY <1>4 DEF AskSet
  <2> QED BY <1>1, <2>1, BeginKeeps DEF Stands, Tasks, Kinds, StepNames, NoEngine, Choice
<1>5. CASE AskDeclare(t)
  <2>1. PICK l \in Link : Begin(t, [Resolved("declare") EXCEPT !.wanted = {l}])
    BY <1>5 DEF AskDeclare
  <2> QED BY <1>1, <2>1, BeginKeeps DEF Stands, Tasks, Kinds, StepNames, NoEngine, SecondPath
<1>6. CASE AskDelete(t)
  BY <1>1, <1>6, BeginKeeps DEF AskDelete, Stands, Tasks, Kinds, StepNames, NoEngine, Deleting
<1> QED BY <1>2, <1>3, <1>4, <1>5, <1>6 DEF Ask

\* A request with hints goes on to its engine, or ends.
LEMMA HintsKeep ==
  ASSUME IInv, NEW t \in Thread, NEW hints \in SUBSET Plain, HasHints(t, hints),
         task[t].step \in {"statistics", "keep"},
         statistics' \in Statistics, UNCHANGED <<stores, source, engines, together>>
  PROVE  IInv'
<1> USE OneRequest
<1>1. task[t].engine = NoEngine
  OBVIOUS
<1>2. CASE task[t].kind = "question"
  <2> DEFINE r == [task[t] EXCEPT !.hints = hints, !.step = "engine"]
  <2>1. r \in Tasks /\ Stands(r) /\ r.engine = NoEngine
    BY <1>1, <1>2 DEF Tasks, Stands, StepNames, Asking
  <2>2. Fits(r, since[t])
    BY <1>1, <1>2 DEF Fits, Tasks
  <2>3. Goes(t, r) /\ UNCHANGED since
    BY <1>2 DEF HasHints
  <2> QED BY <1>1, <2>1, <2>2, <2>3, GoesOn
<1>3. CASE task[t].kind # "question"
  BY <1>1, <1>3, RequestEnds DEF HasHints
<1> QED BY <1>2, <1>3

LEMMA ReadSchemaKeeps ==
  ASSUME IInv, NEW t \in Thread, ReadSchema(t)
  PROVE  IInv'
<1> USE OneRequest DEF At
<1> DEFINE next == CASE task[t].kind \in {"question", "declare"} -> "links"
                     [] task[t].kind = "values" -> "statistics"
                     [] OTHER -> "choose"
           r == [task[t] EXCEPT !.schema = source, !.step = next]
<1>1. task[t].step = "schema" /\ task[t].kind \in {"question", "values", "set", "declare"}
  BY DEF ReadSchema, Stands, Tasks, Kinds, Deleting
<1>2. source \in Schema
  BY DEF IInv, TypeOK
<1>3. /\ next \in {"links", "statistics", "choose"}
      /\ next = "links" <=> task[t].kind \in {"question", "declare"}
      /\ next = "statistics" <=> task[t].kind = "values"
  BY <1>1
<1>4. r \in Tasks /\ r.kind = task[t].kind /\ r.step = next /\ r.wanted = task[t].wanted
      /\ r.engine = task[t].engine /\ r.sharing = task[t].sharing
  BY <1>2, <1>3 DEF Tasks, StepNames, Asking
<1> HIDE DEF next, r
<1>5. Stands(r) /\ Fits(r, since[t]) /\ r.engine = NoEngine
  BY <1>1, <1>3, <1>4 DEF Stands, Fits, Asking
<1>6. Goes(t, r) /\ UNCHANGED <<since, stores, source, statistics, engines, together>>
  BY DEF ReadSchema, r, next
<1> QED BY <1>1, <1>4, <1>5, <1>6, GoesOn

LEMMA CountValuesKeeps ==
  ASSUME IInv, NEW t \in Thread, CountValues(t)
  PROVE  IInv'
<1> USE OneRequest DEF At
<1>1. PICK hints \in SUBSET Eligible(task[t].schema, Merged(task[t].schema, task[t].links)) :
        Goes(t, [task[t] EXCEPT !.schema = IF task[t].kind = "question" THEN @ ELSE EmptySchema,
                                !.hints = hints, !.step = "keep"])
  BY DEF CountValues
<1>2. hints \in SUBSET Plain
  BY DEF Eligible
<1> DEFINE r == [task[t] EXCEPT !.schema = IF task[t].kind = "question" THEN @ ELSE EmptySchema,
                                !.hints = hints, !.step = "keep"]
<1>3. task[t].step = "statistics" /\ task[t].engine = NoEngine
  BY DEF CountValues
<1>4. r \in Tasks /\ Stands(r) /\ r.engine = NoEngine
  <2>1. task[t] \in Tasks /\ task[t].kind \in {"question", "values"}
    BY <1>3 DEF Tasks, Stands, Kinds, Deleting
  <2>2. EmptySchema \in Schema
    BY DEF EmptySchema, Schema
  <2>3. r \in Tasks
    BY ONLY <1>2, <2>1, <2>2 DEF Tasks, StepNames, Asking
  <2>4. r.kind = task[t].kind /\ r.step = "keep" /\ r.engine = task[t].engine
    BY ONLY <2>1 DEF Tasks
  <2> HIDE DEF r
  <2> QED BY ONLY <1>3, <2>1, <2>3, <2>4 DEF Stands, Asking
<1>5. Fits(r, since[t])
  BY <1>3 DEF Fits, Tasks
<1> QED BY <1>1, <1>3, <1>4, <1>5, GoesOn DEF CountValues

\* A new engine is one that is not open.
LEMMA ReaderEngineKeeps ==
  ASSUME IInv, NEW t \in Thread, ReaderEngine(t)
  PROVE  IInv'
<1>1. task[t].engine = NoEngine /\ statistics \in Statistics
  BY OneRequest DEF ReaderEngine, At
<1>2. CASE engine # NoEngine
  BY <1>1, <1>2, RequestEnds DEF ReaderEngine
<1>3. CASE engine = NoEngine
  <2>1. /\ engine' \in (1 .. MaxEngines) \ open /\ open' = open \cup {engine'}
    BY <1>3 DEF ReaderEngine, MakeEngine
  <2>2. /\ task' \in [Thread -> Tasks] /\ since' \in [Thread -> Since]
        /\ task'[t] = NoTask /\ since'[t] = Nothing
        /\ \A u \in Thread \ {t} : task'[u] = task[u] /\ since'[u] = since[u]
    BY NoTaskTyped DEF ReaderEngine, Ended, Goes, IInv, TypeOK, Since
  <2>3. engine' \in Engines /\ open' \subseteq Engines /\ engine' # NoEngine
    BY <2>1 DEF IInv, TypeOK, Engines, NoEngine
  <2>4. UNCHANGED <<stored, declared, sharing, source, statistics, together>>
    BY DEF ReaderEngine, stores
  <2>5. TypeOK'
    BY <2>2, <2>3, <2>4, NoTaskTyped DEF IInv, TypeOK, Since
  <2>6. Fits(NoTask, Nothing)
    BY DEF Fits, NoTask
  <2>7. RequestsInv'
    BY <2>2, <2>4, <2>6 DEF IInv, RequestsInv, Fits, SecondPath
  <2>8. \A u \in Thread : task'[u].engine = task[u].engine
    BY <1>1, <2>2 DEF NoTask
  <2>9. \A u \in Thread : task[u].engine # NoEngine => task[u].engine \in open
    BY DEF IInv, EnginesHeld
  <2>10. EnginesHeld' /\ EnginesApart'
    BY <1>3, <2>1, <2>3, <2>8, <2>9 DEF IInv, EnginesHeld, EnginesApart
  <2>11. SecondPathsMeet' /\ NothingLeftBehind'
    BY <2>4 DEF IInv, SecondPathsMeet, NothingLeftBehind, SecondPath
  <2> QED BY <2>5, <2>7, <2>10, <2>11 DEF IInv
<1> QED BY <1>2, <1>3

LEMMA QuestionKeeps ==
  ASSUME IInv, NEW t \in Thread, Question(t)
  PROVE  IInv'
<1> USE OneRequest DEF At
<1>1. CASE ReadSchema(t)
  BY <1>1, ReadSchemaKeeps
<1>2. CASE ReadDeclared(t)
  <2> DEFINE r == [task[t] EXCEPT !.links = declared, !.step = "sharing"]
  <2>1. r \in Tasks /\ Stands(r) /\ r.engine = NoEngine /\ task[t].engine = NoEngine
    <3>1. declared \in SUBSET Link
      BY DEF IInv, TypeOK
    <3>2. task[t] \in Tasks /\ task[t].kind = "question" /\ task[t].engine = NoEngine
      BY <1>2 DEF ReadDeclared
    <3> QED BY ONLY <3>1, <3>2 DEF Tasks, Stands, StepNames, Asking
  <2>2. Fits(r, since[t])
    BY <1>2, <2>1 DEF ReadDeclared, Fits, Tasks
  <2> QED BY <1>2, <2>1, <2>2, GoesOn DEF ReadDeclared
<1>3. CASE ReadSharing(t)
  <2> DEFINE r == [task[t] EXCEPT !.sharing = sharing, !.step = "statistics"]
  <2>1. task[t].kind = "question" /\ task[t].engine = NoEngine
    BY <1>3 DEF ReadSharing, Stands, Tasks, Kinds, Deleting
  <2>2. r \in Tasks /\ Stands(r) /\ r.engine = NoEngine
    <3>1. sharing \in Choice /\ task[t] \in Tasks
      BY DEF IInv, TypeOK
    <3> QED BY ONLY <2>1, <3>1 DEF Tasks, Stands, StepNames, Asking
  <2>3. Fits(r, since[t])
    BY <1>3, <2>1 DEF ReadSharing, Fits, Tasks
  <2> QED BY <1>3, <2>1, <2>2, <2>3, GoesOn DEF ReadSharing
<1>4. CASE KeptStatistics(t)
  <2>1. statistics.hints \in SUBSET Plain
    BY DEF Statistics
  <2> QED BY <1>4, <2>1, HintsKeep DEF KeptStatistics
<1>5. CASE CountValues(t)
  BY <1>5, CountValuesKeeps
<1>6. CASE KeepStatistics(t)
  <2>1. task[t].hints \in SUBSET Plain
    BY DEF Tasks
  <2>2. statistics' \in Statistics
    BY <1>6, <2>1 DEF KeepStatistics, Statistics
  <2> QED BY <1>6, <2>1, <2>2, HintsKeep DEF KeepStatistics
<1>7. CASE ReaderEngine(t)
  BY <1>7, ReaderEngineKeeps
<1> QED BY <1>1, <1>2, <1>3, <1>4, <1>5, <1>6, <1>7 DEF Question

\* Every request that is under way records the choice stored.
LEMMA SetSharingKeeps ==
  ASSUME IInv, NEW t \in Thread, SetSharing(t)
  PROVE  IInv'
<1> DEFINE r == [NoTask EXCEPT !.kind = "values", !.step = "row"]
<1>1. r \in Tasks /\ r.kind = "values" /\ r.step = "row" /\ r.wanted = {} /\ r.engine = NoEngine
  BY NoTaskTyped DEF NoTask, Tasks, Kinds, StepNames
<1>2. task[t].kind = "set" /\ task[t].engine = NoEngine
  BY OneRequest DEF SetSharing, At, Stands, Tasks, Kinds, Deleting, Asking
<1>3. sharing' = task[t].choice /\ sharing' \in Choice /\ stored
  BY OneRequest DEF SetSharing, Tasks
<1>4. Shared(sharing') \subseteq Column
  BY DEF Shared
<1>5. /\ task' \in [Thread -> Tasks] /\ task'[t] = r
      /\ \A u \in Thread \ {t} : task'[u] = task[u]
  BY <1>1 DEF SetSharing, Goes, IInv, TypeOK
<1>6. /\ since' \in [Thread -> Since]
      /\ \A u \in Thread : since'[u].declared = since[u].declared
      /\ \A u \in Thread : task[u].kind = "question" =>
           since'[u].shared = since[u].shared \cup Shared(sharing')
  BY <1>4 DEF SetSharing, Busy, IInv, TypeOK, Since
<1> HIDE DEF r
<1>7. UNCHANGED <<stored, declared, source, statistics, engine, open, together>>
  BY DEF SetSharing, engines
<1>8. TypeOK'
  BY <1>1, <1>3, <1>5, <1>6, <1>7 DEF IInv, TypeOK, Stands, Since
<1>9. RequestsInv'
  <2> SUFFICES ASSUME NEW u \in Thread PROVE Fits(task[u], since[u])'
    BY DEF RequestsInv
  <2>1. CASE u = t
    BY <1>1, <1>5, <2>1 DEF Fits, SecondPath
  <2>2. CASE u # t
    <3>1. Fits(task[u], since[u]) /\ task'[u] = task[u]
      BY <1>5, <2>2 DEF IInv, RequestsInv
    <3> QED BY <1>6, <1>7, <3>1 DEF Fits, SecondPath
  <2> QED BY <2>1, <2>2
<1>10. \A u \in Thread : task'[u].engine = task[u].engine
  BY <1>1, <1>2, <1>5
<1>11. EnginesHeld' /\ EnginesApart'
  BY <1>7, <1>10 DEF IInv, EnginesHeld, EnginesApart
<1>12. SecondPathsMeet' /\ NothingLeftBehind'
  BY <1>3, <1>7 DEF IInv, SecondPathsMeet, NothingLeftBehind, SecondPath
<1> QED BY <1>8, <1>9, <1>11, <1>12 DEF IInv

\* A relationship not seen when another was checked was declared since, and so at the same
\* time.
LEMMA DeclareKeeps ==
  ASSUME IInv, NEW t \in Thread, Declare(t)
  PROVE  IInv'
<1>1. /\ task[t] \in Tasks /\ task[t].step = "save" /\ task[t].engine = NoEngine
      /\ Fits(task[t], since[t]) /\ stored
  BY OneRequest DEF Declare, At
<1>2. /\ task' \in [Thread -> Tasks] /\ task'[t] = NoTask
      /\ \A u \in Thread \ {t} : task'[u] = task[u]
  BY NoTaskTyped DEF Declare, Goes, IInv, TypeOK
<1>3. task[t].wanted \subseteq Link
  BY <1>1 DEF Tasks
<1>4. /\ since' \in [Thread -> Since] /\ since'[t] = Nothing
      /\ \A u \in Thread \ {t} :
           /\ since'[u].shared = since[u].shared
           /\ since[u].declared \subseteq since'[u].declared
           /\ task[u].kind = "declare" =>
                since'[u].declared = since[u].declared \cup task[t].wanted
  BY <1>3, NoTaskTyped DEF Declare, Busy, IInv, TypeOK, Since
<1>5. /\ declared' = declared \cup task[t].wanted
      /\ together' = together \cup {{l, m} : l \in task[t].wanted,
                                             m \in declared \cap since[t].declared}
      /\ UNCHANGED <<stored, sharing, source, statistics, engine, open>>
  BY DEF Declare, engines
<1>6. TypeOK'
  <2>1. together' \subseteq SUBSET Link
    BY <1>3, <1>5 DEF IInv, TypeOK
  <2> QED BY <1>2, <1>3, <1>4, <1>5, <2>1, NoTaskTyped DEF IInv, TypeOK, Since
<1>7. RequestsInv'
  <2> SUFFICES ASSUME NEW u \in Thread PROVE Fits(task[u], since[u])'
    BY DEF RequestsInv
  <2>1. CASE u = t
    BY <1>2, <2>1 DEF Fits, NoTask, SecondPath
  <2>2. CASE u # t
    <3>1. Fits(task[u], since[u]) /\ Stands(task[u]) /\ task'[u] = task[u] /\ task[u] \in Tasks
      BY <1>2, <2>2, OneRequest
    <3>2. task[u].step \in {"unique", "save"} => task[u].kind = "declare"
      BY <3>1 DEF Tasks, Kinds, Stands, Asking, Deleting
    <3> QED BY <1>4, <1>5, <2>2, <3>1, <3>2 DEF Fits, SecondPath
  <2> QED BY <2>1, <2>2
<1>8. \A u \in Thread : task'[u].engine = task[u].engine
  BY <1>1, <1>2 DEF NoTask
<1>9. EnginesHeld' /\ EnginesApart'
  BY <1>5, <1>8 DEF IInv, EnginesHeld, EnginesApart
<1>10. SecondPathsMeet'
  <2> SUFFICES ASSUME NEW l \in declared', NEW m \in declared', SecondPath(l, m)
               PROVE  {l, m} \in together'
    BY DEF SecondPathsMeet, SecondPath
  <2>1. SecondPath(m, l)
    BY DEF SecondPath
  <2>2. CASE l \in declared /\ m \in declared
    BY <1>5, <2>2 DEF IInv, SecondPathsMeet
  <2>3. CASE l \in task[t].wanted /\ m \in declared
    BY <1>1, <1>5, <2>3 DEF Fits
  <2>4. CASE l \in declared /\ m \in task[t].wanted
    <3>1. {m, l} \in together'
      BY <1>1, <1>5, <2>1, <2>4 DEF Fits
    <3>2. {l, m} = {m, l}
      OBVIOUS
    <3> QED BY <3>1, <3>2
  <2>5. CASE l \in task[t].wanted /\ m \in task[t].wanted
    BY <1>1, <2>5 DEF Fits
  <2> QED BY <1>5, <2>2, <2>3, <2>4, <2>5
<1>11. NothingLeftBehind'
  BY <1>1, <1>5 DEF NothingLeftBehind
<1> QED BY <1>6, <1>7, <1>9, <1>10, <1>11 DEF IInv

LEMMA AdministerKeeps ==
  ASSUME IInv, NEW t \in Thread, Administer(t)
  PROVE  IInv'
<1> USE OneRequest DEF At
<1>1. CASE SetSharing(t)
  BY <1>1, SetSharingKeeps
<1>2. CASE ShowValues(t)
  <2> DEFINE r == Resolved("values")
  <2>1. r \in Tasks /\ Stands(r) /\ Fits(r, since[t]) /\ r.engine = NoEngine
    BY ONLY NoTaskTyped DEF Resolved, NoTask, Tasks, Stands, Fits, Kinds, StepNames
  <2>2. task[t].engine = NoEngine
    BY <1>2 DEF ShowValues
  <2> QED BY <1>2, <2>1, <2>2, GoesOn DEF ShowValues
<1>3. CASE CheckDeclaration(t)
  <2> DEFINE r == [task[t] EXCEPT !.schema = EmptySchema, !.step = "unique"]
  <2>1. task[t] \in Tasks /\ task[t].kind = "declare" /\ task[t].engine = NoEngine
    BY <1>3 DEF CheckDeclaration
  <2>2. EmptySchema \in Schema
    BY DEF EmptySchema, Schema
  <2>3. r \in Tasks /\ Stands(r) /\ r.engine = NoEngine /\ r.wanted = task[t].wanted
        /\ r.kind = "declare"
    BY ONLY <2>1, <2>2 DEF Tasks, Stands, StepNames
  <2>4. \A l \in task[t].wanted, m \in declared : ~SecondPath(l, m)
    BY <1>3 DEF CheckDeclaration, Allowed
  <2>5. Fits(r, since[t])
    BY <2>3, <2>4 DEF Fits
  <2> QED BY <1>3, <2>1, <2>3, <2>5, GoesOn DEF CheckDeclaration
<1>4. CASE TargetUnique(t)
  <2> DEFINE r == [task[t] EXCEPT !.step = "save"]
  <2>1. task[t] \in Tasks /\ task[t].kind = "declare" /\ task[t].engine = NoEngine
    BY <1>4 DEF TargetUnique, Stands, Tasks, Kinds, Asking, Deleting
  <2>2. r \in Tasks /\ Stands(r) /\ r.engine = NoEngine /\ r.wanted = task[t].wanted
        /\ r.kind = "declare"
    BY ONLY <2>1 DEF Tasks, Stands, StepNames
  <2>3. Fits(r, since[t])
    BY <1>4, <2>2 DEF TargetUnique, Fits
  <2> QED BY <1>4, <2>1, <2>2, <2>3, GoesOn DEF TargetUnique
<1>5. CASE Declare(t)
  BY <1>5, DeclareKeeps
<1> QED BY <1>1, <1>2, <1>3, <1>4, <1>5 DEF Administer

\* The stores lose something, and nothing but deletions moves on.
LEMMA StoresShrink ==
  ASSUME IInv,
         task' \in [Thread -> Tasks], since' \in [Thread -> Since],
         \A u \in Thread :
           \/ task'[u] = task[u] /\ since'[u] = since[u]
           \/ /\ task'[u].kind \in {"none", "delete"} /\ Stands(task'[u])
              /\ task'[u].wanted \subseteq task[u].wanted
              /\ task'[u].engine = NoEngine,
         \A u \in Thread : task'[u].engine = task[u].engine,
         stored' \in BOOLEAN, stored' => stored,
         declared' \subseteq declared,
         sharing' \in Choice, Shared(sharing)' \subseteq Shared(sharing),
         together' \subseteq together,
         \A l, m \in declared' : {l, m} \in together => {l, m} \in together',
         ~stored' => declared' = {} /\ sharing' = NoChoice,
         UNCHANGED <<source, statistics, engines>>
  PROVE  IInv'
<1>1. TypeOK'
  BY DEF IInv, TypeOK, engines, Since
<1>2. RequestsInv'
  <2> SUFFICES ASSUME NEW u \in Thread PROVE Fits(task[u], since[u])'
    BY DEF RequestsInv
  <2>1. Fits(task[u], since[u])
    BY DEF IInv, RequestsInv
  <2>2. CASE task'[u] = task[u] /\ since'[u] = since[u]
    BY <2>1, <2>2 DEF Fits, SecondPath
  <2>3. CASE /\ task'[u].kind \in {"none", "delete"} /\ Stands(task'[u])
             /\ task'[u].wanted \subseteq task[u].wanted
             /\ task'[u].engine = NoEngine
    BY <2>1, <2>3 DEF Fits, Stands, Deleting, SecondPath
  <2> QED BY <2>2, <2>3
<1>3. EnginesHeld' /\ EnginesApart'
  BY DEF IInv, EnginesHeld, EnginesApart, engines
<1>4. SecondPathsMeet' /\ NothingLeftBehind'
  BY DEF IInv, SecondPathsMeet, NothingLeftBehind, SecondPath
<1> QED BY <1>1, <1>2, <1>3, <1>4 DEF IInv

\* Only the engine at hand changes place: from the service to the deletion, and out.
LEMMA EngineDropped ==
  ASSUME IInv, NEW t \in Thread, PopEngine(t) \/ Dispose(t)
  PROVE  IInv'
<1> DEFINE e == IF At(t, "pop") THEN engine ELSE NoEngine
           r == [task[t] EXCEPT !.engine = e,
                                !.step = IF At(t, "pop") THEN "dispose" ELSE "forget"]
<1>1. task[t] \in Tasks /\ task[t].kind = "delete" /\ task[t].step \in {"pop", "dispose"}
  BY OneRequest DEF PopEngine, Dispose, At, Stands, Tasks, Kinds, Asking
<1>2. e \in Engines
  BY DEF IInv, TypeOK, Engines, NoEngine
<1>3. /\ r \in Tasks /\ Stands(r) /\ r.kind = "delete" /\ r.wanted = task[t].wanted
      /\ r.engine = e /\ r.step \in {"dispose", "forget"}
      /\ r.engine # NoEngine => r.step = "dispose"
  BY ONLY <1>1, <1>2 DEF Tasks, Stands, StepNames, Deleting, At
<1>4. Goes(t, r)
  BY DEF PopEngine, Dispose, At
<1>5. /\ task' \in [Thread -> Tasks] /\ task'[t] = r
      /\ \A u \in Thread \ {t} : task'[u] = task[u]
  BY <1>3, <1>4 DEF Goes, IInv, TypeOK
<1>6. UNCHANGED <<stored, declared, sharing, source, statistics, since, together>>
  BY DEF PopEngine, Dispose, stores
<1>7. /\ At(t, "pop") => /\ engine' = NoEngine /\ open' = open /\ task'[t].engine = engine
                         /\ task[t].engine = NoEngine
      /\ ~At(t, "pop") => /\ engine' = engine /\ open' = open \ {task[t].engine}
                          /\ task'[t].engine = NoEngine
  BY <1>1, <1>3, <1>5, OneRequest DEF PopEngine, Dispose, At
<1> HIDE DEF r, e
<1>8. TypeOK'
  <2>1. engine' \in Engines /\ open' \subseteq Engines
    BY <1>2, <1>7 DEF IInv, TypeOK, Engines, NoEngine
  <2>2. \A u \in Thread : Stands(task'[u])
    BY <1>3, <1>5 DEF IInv, TypeOK
  <2> QED BY <1>5, <1>6, <2>1, <2>2 DEF IInv, TypeOK
<1>9. RequestsInv'
  <2> SUFFICES ASSUME NEW u \in Thread PROVE Fits(task[u], since[u])'
    BY DEF RequestsInv
  <2>1. Fits(task[u], since[u])
    BY DEF IInv, RequestsInv
  <2>2. CASE u = t
    BY <1>3, <1>5, <1>6, <2>1, <2>2 DEF Fits, SecondPath
  <2>3. CASE u # t
    BY <1>5, <1>6, <2>1, <2>3 DEF Fits, SecondPath
  <2> QED BY <2>2, <2>3
<1>10. EnginesHeld'
  BY <1>5, <1>7 DEF IInv, EnginesHeld, EnginesApart
<1>11. EnginesApart'
  BY <1>5, <1>7 DEF IInv, EnginesHeld, EnginesApart
<1>12. SecondPathsMeet' /\ NothingLeftBehind'
  BY <1>6 DEF IInv, SecondPathsMeet, NothingLeftBehind, SecondPath
<1> QED BY <1>8, <1>9, <1>10, <1>11, <1>12 DEF IInv

LEMMA DeleteKeeps ==
  ASSUME IInv, NEW t \in Thread, Delete(t)
  PROVE  IInv'
<1>1. task[t] \in Tasks /\ task[t].kind = "delete" /\ Fits(task[t], since[t])
  BY OneRequest DEF Delete, PopEngine, Dispose, ForgetStatistics, DeleteSharing,
     ListRelationships, DeleteRelationship, DeleteRow, At, Stands, Tasks, Kinds, Asking
<1>2. /\ task \in [Thread -> Tasks] /\ since \in [Thread -> Since] /\ declared \subseteq Link
      /\ stored \in BOOLEAN /\ sharing \in Choice /\ NoChoice \in Choice /\ Shared(NoChoice) = {}
  BY DEF IInv, TypeOK, Since, Choice, NoChoice, Shared
<1>3. CASE PopEngine(t) \/ Dispose(t)
  BY <1>3, EngineDropped
<1>4. CASE ForgetStatistics(t)
  <2> DEFINE r == [task[t] EXCEPT !.step = "unshare"]
  <2>1. task[t].engine = NoEngine /\ NoStatistics \in Statistics
    BY <1>4, OneRequest DEF ForgetStatistics, At, NoStatistics, Statistics
  <2>2. r \in Tasks /\ Stands(r) /\ r.engine = NoEngine /\ Fits(r, since[t])
    BY ONLY <1>1, <2>1 DEF Tasks, Stands, StepNames, Deleting, Fits
  <2> QED BY <1>4, <2>1, <2>2, GoesOn DEF ForgetStatistics, Step
<1>5. CASE DeleteSharing(t)
  <2> DEFINE r == [task[t] EXCEPT !.step = "list"]
  <2>1. task[t].engine = NoEngine
    BY <1>5, OneRequest DEF DeleteSharing, At
  <2>2. r \in Tasks /\ Stands(r) /\ r.kind = "delete" /\ r.wanted = task[t].wanted
        /\ r.engine = NoEngine
    BY ONLY <1>1, <2>1 DEF Tasks, Stands, StepNames, Deleting
  <2>3. task' = [task EXCEPT ![t] = r] /\ UNCHANGED since
    BY <1>5 DEF DeleteSharing, Step, Goes
  <2> HIDE DEF r
  <2>4. sharing' = NoChoice /\ UNCHANGED <<stored, declared, source, statistics, engines, together>>
    BY <1>5 DEF DeleteSharing
  <2>5. ~stored' => declared' = {}
    BY <2>4 DEF IInv, NothingLeftBehind
  <2>6. Shared(sharing)' = {}
    BY <1>2, <2>4
  <2> QED BY <1>2, <2>1, <2>2, <2>3, <2>4, <2>5, <2>6, StoresShrink
<1>6. CASE ListRelationships(t)
  <2> DEFINE r == [task[t] EXCEPT !.links = declared, !.step = "undeclare"]
  <2>1. task[t].engine = NoEngine
    BY <1>6, OneRequest DEF ListRelationships, At
  <2>2. r \in Tasks /\ Stands(r) /\ r.engine = NoEngine /\ Fits(r, since[t])
    BY ONLY <1>1, <1>2, <2>1 DEF Tasks, Stands, StepNames, Deleting, Fits
  <2> QED BY <1>6, <2>1, <2>2, GoesOn, OneRequest DEF ListRelationships
<1>7. CASE DeleteRelationship(t)
  <2>1. PICK l \in task[t].links :
          /\ declared' = declared \ {l}
          /\ together' = {p \in together : l \notin p}
          /\ Goes(t, [task[t] EXCEPT !.links = @ \ {l}])
    BY <1>7 DEF DeleteRelationship
  <2> DEFINE r == [task[t] EXCEPT !.links = @ \ {l}]
  <2>2. task[t].engine = NoEngine /\ Stands(task[t])
    BY <1>7, OneRequest DEF DeleteRelationship, At
  <2>3. r \in Tasks /\ Stands(r) /\ r.kind = "delete" /\ r.wanted = task[t].wanted
        /\ r.engine = NoEngine
    BY ONLY <1>1, <2>2 DEF Tasks, Stands
  <2>4. task' = [task EXCEPT ![t] = r] /\ UNCHANGED since
    BY <1>7, <2>1 DEF DeleteRelationship, Goes
  <2> HIDE DEF r
  <2>5. UNCHANGED <<stored, sharing, source, statistics, engines>>
    BY <1>7 DEF DeleteRelationship
  <2>6. ~stored' => declared' = {} /\ sharing' = NoChoice
    BY <2>1, <2>5 DEF IInv, NothingLeftBehind
  <2>7. Shared(sharing)' = Shared(sharing)
    BY <2>5 DEF Shared
  <2> QED BY <1>2, <2>1, <2>2, <2>3, <2>4, <2>5, <2>6, <2>7, StoresShrink
<1>8. CASE DeleteRow(t)
  <2>1. task[t].engine = NoEngine
    BY <1>8, OneRequest DEF DeleteRow, At
  <2>2. NoTask \in Tasks /\ Stands(NoTask) /\ NoTask.kind = "none" /\ NoTask.wanted = {}
        /\ NoTask.engine = NoEngine /\ Nothing \in Since
    BY NoTaskTyped DEF NoTask
  <2>3. task' = [task EXCEPT ![t] = NoTask] /\ since' = [since EXCEPT ![t] = Nothing]
    BY <1>8 DEF DeleteRow, Ended, Goes
  <2>4. /\ stored' = FALSE /\ declared' = {} /\ sharing' = NoChoice /\ together' = {}
        /\ UNCHANGED <<source, statistics, engines>>
    BY <1>8 DEF DeleteRow, Cascade
  <2>5. Shared(sharing)' = {}
    BY <1>2, <2>4
  <2> QED BY <1>2, <2>1, <2>2, <2>3, <2>4, <2>5, StoresShrink
<1> QED BY <1>3, <1>4, <1>5, <1>6, <1>7, <1>8 DEF Delete

LEMMA FailKeeps ==
  ASSUME IInv, NEW t \in Thread, Fail(t)
  PROVE  IInv'
<1>1. task[t].engine = NoEngine /\ statistics \in Statistics
  BY OneRequest DEF Fail, Local
<1> QED BY <1>1, RequestEnds DEF Fail

\* What happens around the requests.
LEMMA SurroundingsKeep ==
  ASSUME IInv, RemoveRelationship \/ Alter \/ Expire \/ Restart
  PROVE  IInv'
<1>1. /\ task \in [Thread -> Tasks] /\ since \in [Thread -> Since]
      /\ stored \in BOOLEAN /\ sharing \in Choice
  BY DEF IInv, TypeOK, Since
<1>2. CASE RemoveRelationship
  <2>1. PICK l \in declared : /\ declared' = declared \ {l}
                              /\ together' = {p \in together : l \notin p}
    BY <1>2 DEF RemoveRelationship
  <2>2. UNCHANGED <<stored, sharing, source, statistics, engines, task, since>>
    BY <1>2 DEF RemoveRelationship
  <2>3. ~stored' => declared' = {} /\ sharing' = NoChoice
    BY <2>1, <2>2 DEF IInv, NothingLeftBehind
  <2>4. Shared(sharing)' = Shared(sharing)
    BY <2>2 DEF Shared
  <2> QED BY <1>1, <2>1, <2>2, <2>3, <2>4, StoresShrink
<1>3. CASE Alter \/ Expire
  <2>1. /\ source' \in Schema /\ statistics' \in Statistics
        /\ UNCHANGED <<stored, declared, sharing, engine, open, task, since, together>>
    <3>1. source \in Schema /\ statistics \in Statistics /\ NoStatistics \in Statistics
      BY DEF IInv, TypeOK, Statistics, NoStatistics
    <3>2. Schemas \subseteq Schema
      BY DEF Schema
    <3>3. CASE Alter
      BY <3>1, <3>2, <3>3 DEF Alter, stores, engines
    <3>4. CASE Expire
      BY <3>1, <3>4 DEF Expire, stores, engines
    <3> QED BY <1>3, <3>3, <3>4
  <2>2. TypeOK'
    BY <2>1 DEF IInv, TypeOK, Statistics
  <2>3. RequestsInv'
    BY <2>1 DEF IInv, RequestsInv, Fits, SecondPath
  <2>4. EnginesHeld' /\ EnginesApart'
    BY <2>1 DEF IInv, EnginesHeld, EnginesApart
  <2>5. SecondPathsMeet' /\ NothingLeftBehind'
    BY <2>1 DEF IInv, SecondPathsMeet, NothingLeftBehind, SecondPath
  <2> QED BY <2>2, <2>3, <2>4, <2>5 DEF IInv
<1>4. CASE Restart
  <2>1. /\ statistics' = NoStatistics /\ engine' = NoEngine /\ open' = {}
        /\ task' = [t \in Thread |-> NoTask] /\ since' = [t \in Thread |-> Nothing]
        /\ UNCHANGED <<stored, declared, sharing, source, together>>
    BY <1>4 DEF Restart, stores
  <2>2. NoTask.engine = NoEngine /\ Fits(NoTask, Nothing)'
    BY DEF NoTask, Fits, SecondPath
  <2>3. TypeOK'
    <3>1. task' \in [Thread -> Tasks] /\ since' \in [Thread -> Since]
      BY <2>1, NoTaskTyped
    <3>2. \A t \in Thread : Stands(task'[t])
      BY <2>1, NoTaskTyped
    <3>3. statistics' \in Statistics /\ engine' \in Engines /\ open' \subseteq Engines
      BY <2>1 DEF Statistics, NoStatistics, Engines, NoEngine
    <3> QED BY <2>1, <3>1, <3>2, <3>3 DEF IInv, TypeOK, Since, Statistics
  <2>4. RequestsInv'
    BY <2>1, <2>2 DEF RequestsInv
  <2>5. EnginesHeld' /\ EnginesApart'
    BY <2>1, <2>2 DEF EnginesHeld, EnginesApart
  <2>6. SecondPathsMeet' /\ NothingLeftBehind'
    BY <2>1 DEF IInv, SecondPathsMeet, NothingLeftBehind, SecondPath
  <2> QED BY <2>3, <2>4, <2>5, <2>6 DEF IInv
<1> QED BY <1>2, <1>3, <1>4

\* The invariant is inductive: it holds of the connection just created and every step of
\* every request keeps it.
THEOREM Inductive == Spec => []IInv
<1>1. Init => IInv
  <2> SUFFICES ASSUME Init PROVE IInv
    OBVIOUS
  <2>1. NoTask.engine = NoEngine /\ Fits(NoTask, Nothing)
    BY DEF NoTask, Fits
  <2>2. TypeOK
    BY NoTaskTyped DEF Init, TypeOK, Since, NoStatistics, Engines, NoEngine, Schema, Choice,
       NoChoice
  <2>3. RequestsInv
    BY <2>1 DEF Init, RequestsInv
  <2>4. EnginesHeld /\ EnginesApart
    BY <2>1 DEF Init, EnginesHeld, EnginesApart
  <2>5. SecondPathsMeet /\ NothingLeftBehind
    BY DEF Init, SecondPathsMeet, NothingLeftBehind
  <2> QED BY <2>2, <2>3, <2>4, <2>5 DEF IInv
<1>2. IInv /\ [Next]_vars => IInv'
  <2> SUFFICES ASSUME IInv, [Next]_vars PROVE IInv'
    OBVIOUS
  <2>1. CASE Next
    <3>1. ASSUME NEW t \in Thread,
                 Ask(t) \/ Question(t) \/ Administer(t) \/ Delete(t) \/ Fail(t)
          PROVE  IInv'
      BY <3>1, AskKeeps, QuestionKeeps, AdministerKeeps, DeleteKeeps, FailKeeps
    <3> QED BY <2>1, <3>1, SurroundingsKeep DEF Next
  <2>2. CASE UNCHANGED vars
    <3>1. UNCHANGED <<stored, declared, sharing, source, statistics, engine, open, task, since,
                      together>>
      BY <2>2 DEF vars
    <3> QED BY <3>1 DEF IInv, TypeOK, RequestsInv, Fits, EnginesHeld, EnginesApart,
               SecondPathsMeet, NothingLeftBehind, SecondPath
  <2> QED BY <2>1, <2>2
<1> QED BY <1>1, <1>2, PTL DEF Spec

\* Every variable keeps its type, and values are counted for no column whose name or type
\* forbids it (eligible_columns).
THEOREM TypeCorrect == Spec => []TypeOK
BY Inductive, PTL DEF IInv

\* A question is shown the values of no column that was not shared since it began, however
\* old the statistics (question_source, _statistics).
THEOREM ChosenOnly == Spec => []SharesOnlyChosen
<1>1. IInv => SharesOnlyChosen
  <2> SUFFICES ASSUME IInv, NEW t \in Thread, At(t, "engine")
               PROVE  Shown(t) \subseteq since[t].shared
    BY DEF SharesOnlyChosen
  <2>1. task[t].kind = "question"
    BY OneRequest DEF At, Stands, Tasks, Kinds, Deleting
  <2> QED BY <2>1, OneRequest DEF Fits, At, Shown
<1> QED BY <1>1, Inductive, PTL

\* Second paths between two tables come only from declarations made at the same time
\* (declare_relationship).
THEOREM OnePathInTurn == Spec => []SecondPathsMeet
BY Inductive, PTL DEF IInv

\* The engines open are the one kept and those being disposed of: none is made twice or
\* dropped while open (_reader_engine, delete).
THEOREM EnginesKept == Spec => []EnginesHeld
BY Inductive, PTL DEF IInv

\* A deleted connection leaves nothing in its stores, whatever requests are under way (delete).
THEOREM DeletedWhole == Spec => []NothingLeftBehind
BY Inductive, PTL DEF IInv
================================================================================
