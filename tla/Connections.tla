------------------------------ MODULE Connections ------------------------------
(***************************************************************************)
(* One saved PostgreSQL connection and the requests that use and change    *)
(* it (src/app/metadata/service.py with its SQL stores): questions         *)
(* resolving their source, administrators declaring relationships and      *)
(* choosing which stored values are shared, and its deletion.              *)
(*                                                                         *)
(* Requests run at the same time in a thread pool.  Every read or write of *)
(* a store, of the source database or of the service's own engines and     *)
(* statistics is one step; each may fail and end its request, and the      *)
(* process may restart, which loses engines and statistics.                *)
(*                                                                         *)
(* Connection ids are never used again, so one connection, just created,   *)
(* is followed.  Notes, the connection test and the values an              *)
(* administrator is shown change nothing else and are left out.            *)
(***************************************************************************)
EXTENDS Integers, FiniteSets

CONSTANTS Thread,      \* requests served at the same time
          Column,      \* columns of the source
          TableOf,     \* the table of each column
          Plain,       \* columns whose name and type would let their values be shared
          Link,        \* relationships that may be declared, of compatible types
          Schemas,     \* what the source's schema may be
          Choices,     \* what administrators choose to share
          Requests,    \* the kinds of request that arrive
          MaxEngines   \* bound of the model: engines open at the same time

ASSUME TableAssumption == DOMAIN TableOf = Column
ASSUME PlainAssumption == Plain \subseteq Column
ASSUME LinkAssumption == /\ Link \subseteq [from : Column, to : Column]
                         /\ \A l \in Link : l.from # l.to
ASSUME SchemasAssumption ==
  /\ Schemas \subseteq [columns : SUBSET Column, keys : SUBSET Link]
  /\ Schemas # {}
ASSUME ChoicesAssumption == Choices \subseteq [enabled : BOOLEAN, excluded : SUBSET Column]
ASSUME EnginesAssumption == MaxEngines \in Nat

\* A connection nobody has chosen for shares nothing (ValueSharing's defaults).
NoChoice == [enabled |-> FALSE, excluded |-> {}]

NoStatistics == [kept |-> FALSE, hints |-> {}]

NoEngine == 0

VARIABLES
  stored,      \* the connection's row is there
  declared,    \* the declared relationships
  sharing,     \* the stored choice
  source,      \* the source's schema
  statistics,  \* the columns with known values kept by the service, until they expire
  engine,      \* the engine kept for the connection
  open,        \* the engines not disposed of
  task,        \* each thread's request
  since,       \* (history) columns shared, and relationships declared, since the request began
  together     \* (history) pairs of relationships declared at the same time

stores == <<stored, declared, sharing>>
engines == <<engine, open>>
vars == <<stored, declared, sharing, source, statistics, engine, open, task, since,
          together>>

Ends(links) == {l.from : l \in links} \cup {l.to : l \in links}

Shared(choice) == IF choice.enabled THEN Column \ choice.excluded ELSE {}

\* The declared relationships a schema still has the columns for.
Merged(schema, links) ==
  schema.keys \cup {l \in links : l.from \in schema.columns /\ l.to \in schema.columns}

\* Faulty: names that suggest personal data are not left out.
EligibleByKeysOnly(schema, keys) == schema.columns \ Ends(keys)

\* Columns whose values may be counted: plain ones that are no relationship's end.
Eligible(schema, keys) == (Plain \cap schema.columns) \ Ends(keys)

\* Two relationships between the same tables, to different columns.
SecondPath(l, m) == /\ TableOf[l.from] = TableOf[m.from]
                    /\ TableOf[l.to] = TableOf[m.to]
                    /\ l.to # m.to

EmptySchema == [columns |-> {}, keys |-> {}]

NoTask == [kind |-> "none", step |-> "idle", schema |-> EmptySchema, links |-> {},
           sharing |-> NoChoice, hints |-> {}, wanted |-> {}, choice |-> NoChoice,
           engine |-> NoEngine]

Nothing == [shared |-> {}, declared |-> {}]

Init ==
  /\ stored = TRUE /\ declared = {} /\ sharing = NoChoice
  /\ source \in Schemas
  /\ statistics = NoStatistics
  /\ engine = NoEngine /\ open = {}
  /\ task = [t \in Thread |-> NoTask]
  /\ since = [t \in Thread |-> Nothing]
  /\ together = {}

Busy(kind) == {t \in Thread : task[t].kind = kind}

Goes(t, changes) == task' = [task EXCEPT ![t] = changes]

Ended(t) == /\ Goes(t, NoTask)
            /\ since' = [since EXCEPT ![t] = Nothing]

(***************************************************************************)
(* A request begins.  All but a deletion read the row first, and stop if   *)
(* there is none.                                                          *)
(***************************************************************************)
Begin(t, request) ==
  /\ task[t] = NoTask
  /\ request.kind \in Requests
  /\ Goes(t, request)
  /\ since' = [since EXCEPT ![t].shared = IF request.kind = "question" THEN Shared(sharing) ELSE {}]
  /\ UNCHANGED <<stores, source, statistics, engines, together>>

Resolved(kind) == [NoTask EXCEPT !.kind = kind, !.step = "schema"]

AskQuestion(t) == stored /\ Begin(t, Resolved("question"))

AskValues(t) == stored /\ Begin(t, Resolved("values"))

AskSet(t) == \E c \in Choices : stored /\ Begin(t, [Resolved("set") EXCEPT !.choice = c])

AskDeclare(t) == \E l \in Link : stored /\ Begin(t, [Resolved("declare") EXCEPT !.wanted = {l}])

AskDelete(t) == Begin(t, [Resolved("delete") EXCEPT !.step = "pop"])

At(t, step) == task[t].step = step

\* The catalog is read from the source.
ReadSchema(t) ==
  /\ At(t, "schema")
  /\ Goes(t, [task[t] EXCEPT !.schema = source,
                             !.step = CASE task[t].kind \in {"question", "declare"} -> "links"
                                        [] task[t].kind = "values" -> "statistics"
                                        [] OTHER -> "choose"])
  /\ UNCHANGED <<stores, source, statistics, engines, since, together>>

ReadDeclared(t) ==
  /\ At(t, "links") /\ task[t].kind = "question"
  /\ Goes(t, [task[t] EXCEPT !.links = declared, !.step = "sharing"])
  /\ UNCHANGED <<stores, source, statistics, engines, since, together>>

ReadSharing(t) ==
  /\ At(t, "sharing")
  /\ Goes(t, [task[t] EXCEPT !.sharing = sharing, !.step = "statistics"])
  /\ UNCHANGED <<stores, source, statistics, engines, since, together>>

\* A question goes on to its engine; an administrator has the values asked for.
HasHints(t, hints) ==
  IF task[t].kind = "question"
  THEN /\ Goes(t, [task[t] EXCEPT !.hints = hints, !.step = "engine"])
       /\ UNCHANGED since
  ELSE Ended(t)

KeptStatistics(t) ==
  /\ At(t, "statistics") /\ statistics.kept
  /\ HasHints(t, statistics.hints)
  /\ UNCHANGED <<stores, source, statistics, engines, together>>

\* Which eligible columns have a small domain is the source's to say; none do when the
\* query for it fails.
CountValues(t) ==
  /\ At(t, "statistics") /\ ~statistics.kept
  /\ \E hints \in SUBSET Eligible(task[t].schema, Merged(task[t].schema, task[t].links)) :
       Goes(t, [task[t] EXCEPT !.schema = IF task[t].kind = "question" THEN @ ELSE EmptySchema,
                               !.hints = hints, !.step = "keep"])
  /\ UNCHANGED <<stores, source, statistics, engines, since, together>>

KeepStatistics(t) ==
  /\ At(t, "keep")
  /\ statistics' = [kept |-> TRUE, hints |-> task[t].hints]
  /\ HasHints(t, task[t].hints)
  /\ UNCHANGED <<stores, source, engines, together>>

\* Faulty: once sharing is on, the exclusions are forgotten.
ShownWhenEnabled(t) ==
  IF task[t].sharing.enabled THEN task[t].hints \cap task[t].schema.columns ELSE {}

\* The columns whose values a question is shown.
Shown(t) == task[t].hints \cap task[t].schema.columns \cap Shared(task[t].sharing)

MakeEngine ==
  LET free == (1 .. MaxEngines) \ open
  IN  /\ free # {}
      /\ engine' = CHOOSE e \in free : TRUE
      /\ open' = open \cup {engine'}

\* Faulty: the engine is made without looking for the one kept.
AnotherEngine(t) ==
  /\ At(t, "engine")
  /\ MakeEngine
  /\ Ended(t)
  /\ UNCHANGED <<stores, source, statistics, together>>

\* The engine kept for the connection, or a new one, under the lock.
ReaderEngine(t) ==
  /\ At(t, "engine")
  /\ IF engine # NoEngine
     THEN UNCHANGED engines
     ELSE MakeEngine
  /\ Ended(t)
  /\ UNCHANGED <<stores, source, statistics, together>>

(***************************************************************************)
(* Administrators.                                                         *)
(***************************************************************************)
\* The choice is stored when every column it excludes is known and the row is still there.
SetSharing(t) ==
  /\ At(t, "choose")
  /\ stored /\ task[t].choice.excluded \subseteq task[t].schema.columns
  /\ sharing' = task[t].choice
  /\ Goes(t, [NoTask EXCEPT !.kind = "values", !.step = "row"])
  /\ since' = [u \in Thread |-> IF u \in Busy("question")
                                THEN [since[u] EXCEPT !.shared = @ \cup Shared(sharing')]
                                ELSE since[u]]
  /\ UNCHANGED <<stored, declared, source, statistics, engines, together>>

\* The values the administrator is shown in return are a request of their own.
ShowValues(t) ==
  /\ At(t, "row") /\ stored
  /\ Goes(t, Resolved("values"))
  /\ UNCHANGED <<stores, source, statistics, engines, since, together>>

\* Faulty: only the source's own keys are looked at for a second path.
AllowedByKeysOnly(t, links) ==
  \A l \in task[t].wanted :
    /\ {l.from, l.to} \subseteq task[t].schema.columns /\ l \notin links
    /\ \A m \in task[t].schema.keys : l # m /\ ~SecondPath(l, m)

\* A declaration is checked against the catalog and the relationships read.
Allowed(t, links) ==
  \A l \in task[t].wanted :
    /\ {l.from, l.to} \subseteq task[t].schema.columns
    /\ \A m \in task[t].schema.keys \cup links : l # m /\ ~SecondPath(l, m)

CheckDeclaration(t) ==
  /\ At(t, "links") /\ task[t].kind = "declare"
  /\ Allowed(t, declared)
  /\ Goes(t, [task[t] EXCEPT !.schema = EmptySchema, !.step = "unique"])
  /\ UNCHANGED <<stores, source, statistics, engines, since, together>>

\* The source says whether the target's values are unique.
TargetUnique(t) ==
  /\ At(t, "unique")
  /\ Goes(t, [task[t] EXCEPT !.step = "save"])
  /\ UNCHANGED <<stores, source, statistics, engines, since, together>>

\* The store takes a relationship once, and only for a row that is there.
Declare(t) ==
  /\ At(t, "save")
  /\ stored /\ task[t].wanted \cap declared = {}
  /\ declared' = declared \cup task[t].wanted
  /\ together' = together \cup {{l, m} : l \in task[t].wanted, m \in declared \cap since[t].declared}
  /\ Goes(t, NoTask)
  /\ since' = [u \in Thread |-> IF u = t THEN Nothing
                                ELSE IF u \in Busy("declare")
                                THEN [since[u] EXCEPT !.declared = @ \cup task[t].wanted]
                                ELSE since[u]]
  /\ UNCHANGED <<stored, sharing, source, statistics, engines>>

RemoveRelationship ==
  /\ \E l \in declared : /\ declared' = declared \ {l}
                         /\ together' = {p \in together : l \notin p}
  /\ UNCHANGED <<stored, sharing, source, statistics, engines, task, since>>

(***************************************************************************)
(* Deletion: first what the service keeps, then each store, the row last.  *)
(***************************************************************************)
Step(t, step) == Goes(t, [task[t] EXCEPT !.step = step])

PopEngine(t) ==
  /\ At(t, "pop")
  /\ engine' = NoEngine
  /\ Goes(t, [task[t] EXCEPT !.engine = engine, !.step = "dispose"])
  /\ UNCHANGED <<stores, source, statistics, open, since, together>>

Dispose(t) ==
  /\ At(t, "dispose")
  /\ open' = open \ {task[t].engine}
  /\ Goes(t, [task[t] EXCEPT !.engine = NoEngine, !.step = "forget"])
  /\ UNCHANGED <<stores, source, statistics, engine, since, together>>

ForgetStatistics(t) ==
  /\ At(t, "forget")
  /\ statistics' = NoStatistics
  /\ Step(t, "unshare")
  /\ UNCHANGED <<stores, source, engines, since, together>>

DeleteSharing(t) ==
  /\ At(t, "unshare")
  /\ sharing' = NoChoice
  /\ Step(t, "list")
  /\ UNCHANGED <<stored, declared, source, statistics, engines, since, together>>

ListRelationships(t) ==
  /\ At(t, "list")
  /\ Goes(t, [task[t] EXCEPT !.links = declared, !.step = "undeclare"])
  /\ UNCHANGED <<stores, source, statistics, engines, since, together>>

DeleteRelationship(t) ==
  /\ At(t, "undeclare")
  /\ \E l \in task[t].links :
       /\ declared' = declared \ {l}
       /\ together' = {p \in together : l \notin p}
       /\ Goes(t, [task[t] EXCEPT !.links = @ \ {l}])
  /\ UNCHANGED <<stored, sharing, source, statistics, engines, since>>

\* Faulty: the foreign keys do not cascade.
NoCascade == UNCHANGED <<declared, sharing, together>>

\* The row goes, and by the foreign keys what the stores still hold for it.
Cascade == declared' = {} /\ sharing' = NoChoice /\ together' = {}

DeleteRow(t) ==
  /\ At(t, "undeclare") /\ task[t].links = {}
  /\ stored' = FALSE
  /\ Cascade
  /\ Ended(t)
  /\ UNCHANGED <<source, statistics, engines>>

\* A read or a write fails or a check rejects: the request ends there.
Local == {"idle", "dispose", "forget", "keep", "engine", "pop"}

Fail(t) ==
  /\ task[t].step \notin Local
  /\ Ended(t)
  /\ UNCHANGED <<stores, source, statistics, engines, together>>

(***************************************************************************)
(* Around the service: the schema changes, statistics expire, the process  *)
(* restarts.                                                               *)
(***************************************************************************)
Alter ==
  /\ source' \in Schemas \ {source}
  /\ UNCHANGED <<stores, statistics, engines, task, since, together>>

Expire ==
  /\ statistics.kept /\ statistics' = NoStatistics
  /\ UNCHANGED <<stores, source, engines, task, since, together>>

Restart ==
  /\ open # {} \/ statistics.kept \/ \E t \in Thread : task[t] # NoTask
  /\ statistics' = NoStatistics
  /\ engine' = NoEngine /\ open' = {}
  /\ task' = [t \in Thread |-> NoTask] /\ since' = [t \in Thread |-> Nothing]
  /\ UNCHANGED <<stores, source, together>>

Ask(t) == AskQuestion(t) \/ AskValues(t) \/ AskSet(t) \/ AskDeclare(t) \/ AskDelete(t)

Question(t) == \/ ReadSchema(t) \/ ReadDeclared(t) \/ ReadSharing(t) \/ KeptStatistics(t)
               \/ CountValues(t) \/ KeepStatistics(t) \/ ReaderEngine(t)

Administer(t) == SetSharing(t) \/ ShowValues(t) \/ CheckDeclaration(t)
                 \/ TargetUnique(t) \/ Declare(t)

Delete(t) == \/ PopEngine(t) \/ Dispose(t) \/ ForgetStatistics(t) \/ DeleteSharing(t)
             \/ ListRelationships(t) \/ DeleteRelationship(t) \/ DeleteRow(t)

Next == \/ \E t \in Thread : Ask(t) \/ Question(t) \/ Administer(t) \/ Delete(t) \/ Fail(t)
        \/ RemoveRelationship \/ Alter \/ Expire \/ Restart

Spec == Init /\ [][Next]_vars
================================================================================
