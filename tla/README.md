# Verification of decision-sql

decision-sql answers questions asked in plain language from a PostgreSQL database. A
language model proposes SQL; nothing it proposes is trusted. This directory holds TLA+
models of the parts of the program whose steps are hard to get right and hard to test,
the TLC configurations that check them on small instances, and TLAPS proofs of what
matters most for every instance.

Paths below are relative to `src/`. `PROJECT.json` maps every definition to the lines it
stands for.

## 1. The system

    request -> OperatorApplication.run --> DecisionSqlApplication.run --> SqlSafetyService
                     |                          |        |                     |
                 RunStore (audit)         model provider  AttemptBudget    PostgreSQL
                     |                          |
    report cards, follow-ups,              RunTraceCollector <------- (records its stages)
    conversations

    ReportService (requests + scheduler) --> OperatorApplication.run, ReportStore
    ConnectionService (requests)         --> connection, relationship, value, note stores

| Component | State it keeps | Operations | What is hard | What makes it correct |
|---|---|---|---|---|
| **Decision run** `app/decision` | the decision in hand, exploration open or closed, rounds, the attempt (plan and result), the budget | context, first decision, wider context, look-first, probe rounds, reading check, plan, repair, execute, result check, second attempt, replay | six kinds of model calls that each may fail, be refused or be cut off by the deadline; loops back to earlier stages; a second attempt that replaces the first after its stages were recorded | bounded calls, probes and queries; a limit never costs the decision in hand; the outcome, the trace and the answer tell the same story; a good result stands; every run ends |
| **Run trace** `app/observability/run_trace.py` | a status and reason per stage | record, forget, skip what is unrecorded | stages recorded twice, or for an attempt given up | final trace describes the final attempt |
| **SQL safety service** `app/sql/service.py`, `authority.py`, `execution/` | the plans it issued, the recorder | plan, explore, execute, probe_values | SQL rewritten after it was judged; plans judged in one transaction and run in another on a pooled connection; probes that must leave the trace alone | only gated statements reach the database, as the reader; what runs is what was costed |
| **SQL policy** `app/sql/policy.py` | none | a verdict on one syntax tree: tables, columns, joins | names resolved through CTEs, derived tables and stars; joins whose condition may hold without a relationship | rows meet along relationships only; what is not queryable is not shown |
| **Grain safety** `app/semantics` | none | a verdict on each aggregate, one rewriting | a measure repeated by a join made several queries away; SQL the server rewrites itself | no parent is counted once per child; the rewriting keeps the question |
| **Other SQL gates** `app/sql/values.py`, `precision.py`, `ordering.py`, `results.py`, ... | none | literals, digits, order of NULLs, result columns | wording and digits | |
| **Reports** `app/reports` | the report record with version, people, schedule, next refresh; snapshots | create, update, rename, share, schedule, accept, add a card, delete, scheduled refresh, snapshot by hand | requests on a thread pool and several worker processes write one row; the worker's claim does not move the version | no lost or unauthorised change; a turn taken once; bounded snapshots; what is due is taken |
| **Operator facade, audit store** `app/operator`, `app/metadata/store.py` | the append-only log of runs | run, get, list, thread, edit | runs finish in another order than they began; branches; eviction in memory | a conversation opens whole; edits start from the stored SQL |
| **Connections** `app/metadata` | saved connections, engines, cached statistics, declared relationships, value sharing, notes | create, test, delete, question_source, declare, share values, note | check-then-write on a thread pool, caches older than what they describe | declarations in turn leave one path between tables; no engine is lost; what is excluded is not shared; deletion leaves nothing |
| **Marks** `app/metadata/marks.py` | a name and a pin per person and item | set, list | the 500-mark limit is counted before the insert; a conversation's mark is kept by the root the sidebar computes | a mark names one entry of the list, which after a branch it does not (section 6) |
| **Connectors, drivers** | one install at a time (a lock) | test, introspect, statistics, install | I/O | |
| **HTTP API, scheduler** `app/api`, `app/main.py` | the progress queue of a stream | routes, the 60 s tick | a client that leaves does not stop its run | |
| **Retrieval, governance, provider, catalog, provenance, configuration** | none that changes | pure functions, declarations, I/O | | |
| **Web interface** `ui/src` | editor state, a version, debounced runs | pages over the API | stale answers after a newer question | |

The components interact by calls: one request runs one decision run, which is sequential
(`asyncio`, database calls awaited in threads), and whose only outside events are its
deadline and the answers of the model and of the database. Requests run at the same time
and share stores; the report scheduler runs in every server process. Real concurrency is
therefore found in the stores (reports, connections, the run log), within a run the hard
part is the order and the failure of steps, and in the gates it is the number of ways one
query can be written.

## 2. The modules

| Module | Models |
|---|---|
| `AttemptBudget` | `budget.py`: allowances per kind of call, probe queries, tokens, the deadline as one Boolean. Operators on a budget record. |
| `RunTrace` | `run_trace.py`: stages as a function from names to status and reason; `record_stage`, `forget`, `skip_unrecorded`. |
| `SqlGates` | the results a run can get from the SQL safety service (a plan or a failure, the gates passed, whether the failure can be repaired), and an execution's results. |
| `DecisionRun` | `DecisionSqlApplication.run`: one action per stage and per outcome of an outstanding model call. Extends the three above. |
| `QuestionRun` | abstract: what a user may count on of a run. |
| `DecisionRunProperties`, `MCDecisionRun`, `DecisionRunProofs`, `DecisionOutcomeProofs` | properties; instance; proofs: types, calls and the refinement; how a run ends and what its trace tells. |
| `SqlSafety` | `SqlSafetyService`: the gates one by one, transactions, plans, execution, probes, lookups. Extends `SqlGates`. |
| `QueryService` | abstract: what the decision run counts on of the service, in terms of the *same* `SqlGates` results that `DecisionRun` chooses from. |
| `SqlSafetyProperties`, `MCSqlSafety`, `SqlSafetyProofs` | properties; instance; proofs: what is sent, types and the refinement. |
| `Reports` | `ReportService`, `SqlReportStore`, `SqlSnapshotStore`, the scheduler: every read and write of the store is a step. |
| `SharedReport` | abstract: a report as its readers and editors see it. |
| `ReportsProperties`, `MCReports`, `ReportsProofs` | properties; instance; proofs: saves, claims and the refinement; how many snapshots are stored. |
| `Connections` | `ConnectionService` and its SQL stores for one saved connection: every read or write of a store, of the source, of the engines and of the kept statistics is a step. |
| `ConnectionsProperties`, `MCConnections`, `ConnectionsProofs` | properties; instance; proofs. |
| `RunLog` | the audit store (in memory or SQL) and what is read from it: the newest continuation of a run, `thread`, the list of an actor's runs, the sidebar's grouping. |
| `Conversations` | `OperatorApplication`, the routes and the report service as far as runs come about, end and are recorded. Extends `RunLog`. |
| `ConversationsProperties`, `MCConversations`, `ConversationsProofs` | properties; instance; proofs: walks, what a conversation holds, the sidebar, recorded history. |
| `SqlQuery` | a query as the sequence of its SELECTs, innermost first: outputs, sources (tables, or SELECTs before), conditions, grouping; what makes such a sequence a query (`WellFormed`); and the facts of the catalog. |
| `SqlPolicy` | `SQLPolicy`: tables, columns, joins. `Validate` gives the code of the first rejection. |
| `Grain` | `GrainSafetyValidator`: lineage of a column through queries, fan-out of each aggregate. |
| `GrainNormalizer` | `GrainSafeNormalizer` and the boundary around it (`grain_runtime.py`). |
| `QueryGates` | one query through policy, grain and, when rewritten, policy again. |
| `SqlAnswers` | reference: what PostgreSQL answers on given contents, with how often each stored value counts in each value of the answer. |
| `QueryGatesProperties`, `MCQueryGates`, `QueryGatesProofs`, `JoinsProofs` | properties; instance; proofs: what is shown, and that a rewritten query is a query; what the joins of an accepted query pair. |

**How they compose.** `DecisionRun` does not contain the gates: it chooses among
`SqlGates!PlanResults` and `ExecutionResults`. That this choice is neither too small nor
too large at the joint is what `SqlSafety => QueryService` shows: every call of the
service comes to one of those results, with exactly the trace that result has. `SqlSafety`
in turn takes the verdicts of policy and grain as facts about the SQL; `QueryGates` is
where these two gates decide, on queries. `Conversations` begins and ends runs and leaves
what happens in between to `DecisionRun`, whose `Termination` is the fairness it assumes.
`SharedReport` is what `Reports` promises the people who share a report.

**Correspondence.** In `DecisionRun` the variable `at` is the stage reached in the
pipeline of `service.py`; a model call is two steps (`Ask`, then a reply or a failure),
because the deadline may pass in between. The decision is a kind, a size (how many probes
or readings) and the call it came from. Actions of a stage follow its code, early returns
included; recording stages is part of the action. In `SqlSafety` SQL is a record of what
the gates can tell apart (relations read, policy verdict, grain verdict, state of the
literals); rewriting gates change that record. A transaction is opened on a connection
whose role is chosen freely and asked for by `configure_transaction`. In `Reports`, text,
cards and basis are named by the version that wrote them, so a lost update is visible as
an old name in a new version; a request is a read, then a commit conditioned on the
version. In `Connections` a thread's `task` holds what its request has read so far
(catalog, relationships, choice, statistics) and the step it stands at; `Fail` ends a
request wherever a store, the source or a check may raise, `Restart` loses what the process
keeps. What a source's statistics say of a column is chosen freely among the columns the
code lets be counted (`Eligible`).

In `Conversations` a run is its index in the order runs began (`created_at`), and `log` is
the order they were saved in; `Run` computes what a request records of where the run came
from (`follow_up_of`, `edited_from`) and whose SQL is sent to the model (`sent`). Under whose
name it is recorded decides nothing but whose list it is in, so records hold no name; what is
said of a person's list (`Listed`, of the runs that are `mine`) is said of every set of stored
runs. A client that leaves turns its run `UNHEARD`: the task goes on, shielded from the
response's cancellation; a run that failed or was under way when the process stopped is
kept in `runs` as `LOST`, with nothing else of it. An entry of the sidebar is
opened as the interface opens it, by its root (`OpenedBy`). In the
gates' modules a syntax tree is the sequence of its SELECTs, so that what the code does by
recursion on scopes is a function on their indices; the operators follow the methods of `policy.py`,
`grain.py` and `grain_normalizer.py`, early returns in their order. Nothing about answers is
taken from these files: `SqlAnswers` evaluates a query as SQL defines it, so the properties
compare what the gates decide with what the database would return.

**Left out within modelled parts.** Wording of prompts and feedback, durations and trace
events, row values. In `Reports`: running or asking a card (each is a decision run),
filters, pinning SQL from the audit log, and hiding a snapshot's rows when tables changed.
In `Connections`: creating and testing a connection, notes, suggestions, NULL shares and
patterns, the spelling of names, and the in-memory stores; value hints are on
(`value_examples`). In the gates' modules: scalar subqueries, set operations, correlated
columns, `USING`, expressions, the function allowlist; a query's output is a column or one
aggregate of a column.

## 3. The runs

| Run | Question | Distinct states |
|---|---|---|
| `decision_run` | Do budget, trace, decision and outcome agree in every run, does every run end, and does it keep `QuestionRun`? | 284,853 |
| `sql_safety` | Is the database sent only gated, costed statements as the reader, and does the service keep `QueryService`? | 460,363 |
| `reports_editing` | Two people whose roles change under them, a worker and a hand-taken snapshot: is every stored change allowed, complete and made from the version it replaces (`SharedReport`)? | 139,416 |
| `reports_refreshing` | Two workers, a saving owner, failures, crashes, downtime, deletion: are turns taken once per version, is the schedule never stuck, does no more than one snapshot beyond the limit stay per other one being stored, is the latest kept? | 119,758 |
| `connections` | Two requests of any kinds with the schema changing, statistics expiring, failures and restarts: is a question shown only what is shared, is no engine lost, do declarations in turn leave one path, is a deleted connection gone whole? | 1,744,260 |
| `conversations` | Runs of every kind, two at a time, on two sources, in either store, with clients leaving, failures and restarts: does a conversation open whole, does an entry of anyone's sidebar, opened by its root, show what it lists, is the past fixed, whose SQL goes back to the model, is every run recorded that did not fail or lose its process? | 393,866 |
| `query_gates` | Some fifteen thousand queries through policy, grain and rewriting: is each accepted one right about its answers on two databases? | 34,723 |
| `reports_turn_taken_once`, `reports_snapshots_go_with_report`, `connections_keys_never_shared`, `query_gates_never_fans_out`, `query_gates_no_tables_crossed` | Documented statements the code does not keep (section 6). | violations |

**Properties, and what each could go wrong with**

* *Decision run.* `CallsWithinAllowance` — the allowance is computed once and spent at six
  places; a seventh would be refused, or make a run too long. `DefaultProbesFit` — two
  stages share the default count of probe queries. `OneReplyOverTokenLimit` — the limit
  is read before a call and grows after it. `LimitsKeepTheDecision` — the only decision a
  limit may lose is a request to explore. `FinalDecision` —
  exploration must be closed on every way into the runtime. `TraceTellsOutcome`,
  `RepairTold` — stages of an attempt that was given up must be gone. `GoodResultStands` (action) — no later step replaces or loses
  rows nothing is wrong with. `Termination` (liveness). `KeepsPromises` (refinement of
  `QuestionRun`: calls within the sum of the allowances, at most two answering queries,
  one outcome, nothing after it).
* *SQL safety.* `OnlyGatedStatements` — four gates rewrite SQL after it was judged.
  `RunAsExplained` — a plan travels through callers between two transactions.
  `KeepsPromises` — probes borrow the recorder; transactions fail at set-up and at commit.
* *Reports.* `KeepsChanges` (refinement of `SharedReport`) — role read at one moment, record
  stored at another: whoever made a stored change might still make it then. `ScheduleHasNext` — claim and save each write one of two fields that
  belong together. `TurnTakenOncePerVersion`, `NoCatchingUp`,
  `LatestSnapshotKept`, and `DueIsTaken` (liveness). `SnapshotsBounded` — two transactions
  trim to the limit without seeing each other's insert: at most one snapshot more per other
  one being stored. That the limit itself is kept is what the documents say, and what
  `SnapshotsKept` shows it is not (section 6).
* *Connections.* `SharesOnlyChosen` — statistics kept ten minutes are shown under a choice
  read anew. `SecondPathsMeet` — a check, queries to the source, then a write.
  `EnginesHeld` — questions make what deletions drop. `NothingLeftBehind` — requests under
  way store again what the deletion has cleaned.
* *Conversations.* `OneConversation`, `OpensWhole` — a walk back along parents, then forward
  along the newest child, each with its own limit. `SidebarOpensWhatItLists` — the web
  interface groups the runs of one person by a walk of its own, follow-ups and edits of other
  people's runs among them, and opens an entry by the root it found: while no run of the
  conversation was continued twice and it is within the limit, that shows every run the entry's
  newest one comes from, whoever began which of them. After a branch, or beyond the limit, the
  newest run is not shown: `BranchOpensNewest` and `LongOpensNewest` (section 6). `SentIsModels` — follow-ups of edits of
  follow-ups, in any order. `HistoryKept` (action) — runs end in another order than they
  began. `StillAudited` (liveness) — a client may leave at any moment, and its run must end
  recorded all the same, not cancelled with its stream; a run that fails, or is under way when
  the process stops, is the exception.
* *Query gates.* `CountedOnce` — the validator decides by names whether rows are repeated
  several queries away. `RewriteKeepsTheQuestion` — the user never sees the rewriting until
  it ran. `RowsMeetByRelationships` — equalities under an OR, passed on through derived
  tables, or absent. `OnlyQueryableShown` — a hidden column by star or under another name.
  It sets aside queries one of whose outputs is a whole row with a hidden column
  (`ShowsAHidingRow`), which the policy lets through; `HiddenNeverShown` sets nothing aside,
  and is violated (section 6).
  All four are judged on answers. `CountedOnce` sets aside, by two named predicates, the
  shapes of the finding in section 6; `NeverFansOut` sets nothing aside and is violated.
  `RowsMeetByRelationships` sets aside two shapes as well: `LooselyJoined`, the gaps the
  documents name (`architecture.md:331-334`: computed columns and a table joined with itself;
  `security.md:65-68`: equalities that only narrow), where a derived table is what they join;
  and `LinkedByAnOuterJoin`, the shape of the other finding. `NoTablesCrossed` sets aside only
  the documented gaps, and is violated.

Every property of a passing run has a mutant in `PROJECT.json`: a plausible bug in a
mapped definition (a dropped guard, an off-by-one, a missing reset) under which TLC finds
that property violated.

**Bounds, and why they suffice**

* `DecisionRun`: six settings, each a change or two away from one with every step on. One
  token per reply and limits of 3 and 9 make the token limit fall before each of the later calls,
  or never; rounds 1 and 2 give both the last and a middle round; a
  probe limit of 1 refuses the second probe of a round. Decisions ask for one to
  three probes or none to four readings, as the contract does. The deadline may pass at any step. The run itself has no
  other bound: it ends by itself.
* `SqlSafety`: two calls (`MaxCalls`), so that each call follows each, with a trace, plans
  and a recorder left by the one before; two relations, one of them outside the
  authority of the request that names one; one query per fact a gate looks at, and those a normalizer may write in
  its place. A third call meets nothing the second does not: what a call leaves behind is
  the plans and the trace. The proofs are for any number of calls.
* `Reports`: three versions (a save can be overtaken by a save that is itself overtaken),
  two people or two workers, one kept snapshot with up to three taken, a clock of one or two
  ticks with an hourly (one tick) schedule: a turn due, one missed and one caught. `MaxVersion`, `MaxNow` and `MaxSnapshots`
  are in the guards.
* `Connections`: two requests, each of five kinds; one column that may point at two columns
  of another table, so that two declarations conflict; a second schema without one of them
  and with a foreign key, so that a catalog read is soon out of date; a choice that shares
  the one countable column and one that excludes it. `MaxEngines` = 3 is never reached: one
  engine kept, and one per deletion. The two threads are interchangeable (symmetry; the
  run has invariants only). The proofs are for any number of requests and columns.
* `Conversations`: four runs make a chain, a branch, and a branch off a chain; two at a time,
  so that they end in another order than they began; `MaxRuns` = 2 (the store in memory drops
  runs), `ThreadLimit` = `ListLimit` = 3 (a conversation, and the list, are cut off). The
  code's limits are larger; nothing depends on their values. One source with demo scenarios
  and one saved, the latter with reports; at most one client has left at a time. The sidebar
  is asked about for every set of stored runs that may be one person's. A conversation of 50
  runs, where the interface's own walk stops, is not reached.
* `QueryGates`: of the language, `WellFormed` and `NamesAreFresh`, which TLC evaluates on every
  query of the instance and the proofs assume of every query. They are rules of SQL (a SELECT
  has outputs and sources with distinct aliases; ON names no source listed after it; without
  GROUP BY, all outputs are totals or none is) and three conditions on names: no WITH gives the
  name of a table, ON names columns by alias, and no query uses a name the normalizer makes up
  (the code looks for a free one). Where two outputs of a SELECT bear one name, the first is
  read. A name without an alias is a column of the one source that has it, or, when none has,
  the whole row of the source called so; PostgreSQL refuses one that two sources have, and
  the reference gives it no value. Of the
  instance, a catalog of six tables with a chain of two relationships, two keys to one
  table, a hidden column and a table that may not be queried. The queries are products of
  named choices: a derived table or CTE alone, aggregated or listed; a derived table beside
  orders, inner or left, with five conditions, itself or passed through another query; orders
  inside and their items beside; the tables themselves with comma lists, OR'd and narrowed
  conditions, filters and a third table; whole rows among the outputs, summed, grouped by, and
  passed on by the query inside. So every measure is at most one join from its
  children and at most two queries away from its sum. The two databases hold orders with several items,
  one and none, and two alike. Two rows are enough to repeat one; that two databases suffice
  to tell apart the rules of the gates is what the mutants show.
* Deadlock checking is off where the model ends: a run ends, calls are used up, and time
  stops at its bound; the liveness properties say what must not stop before. It is on for
  `Connections`, which never stops.

**Fairness.** `DecisionRun` assumes weak fairness of the run's own step: a model call ends
by the provider's timeout and a query by `statement_timeout`, and nothing else is waited
for. The deadline is not fair: it may never pass. `Reports` assumes weak fairness of each
worker's loop (`main.py` wakes every 60 s for as long as the process lives; store calls
and card runs return or raise) and none of people, of the clock, or of crashes.
`Conversations` assumes weak fairness of each run's own work (it ends, `DecisionRun`'s
`Termination`; saving returns or raises), none of clients or requests. The other
specifications state no fairness: their properties are safety properties.

## 4. The proofs

Proved with TLAPS (SMT, Zenon, PTL), from these named assumptions only, which TLC also
evaluates: `SettingsAssumption` (settings within the ranges `config.py` declares),
`TokenAssumption` (token counts are naturals); `SwitchAssumption`, `QueriesAssumption`,
`AuthorityAssumption`, `MaxCallsAssumption` (the constants are of their kinds); in
`Connections`, `TableAssumption`, `PlainAssumption`, `LinkAssumption`, `SchemasAssumption`,
`ChoicesAssumption`, `EnginesAssumption` (likewise); in `Reports`, `PeopleAssumption` (the
owner is a person), `IntervalAssumption` (intervals are positive, and "off" is none),
`KeptAssumption` (at least one snapshot is kept), `TakersAssumption` (finitely many workers
and snapshots taken by hand at once); in `Conversations`, `MaxRunsAssumption`,
`ListLimitAssumption`, `SourceAssumption` and `BoundsAssumption` (the constants are of
their kinds), and `ThreadLimitAssumption` (a conversation is opened with fewer runs than the
web interface follows one back: 20 and 50 in the code); in `QueryGates`, `CatalogAssumption`
(keys, hidden and numeric columns are columns of their table, foreign keys join columns of
tables, and no table is nameless)
and `QueriesAssumption` (the queries are well formed and leave the rewriting a name to use).

* `DecisionRunProofs` — `Inductive`, and from it `TypeCorrect`, `AllowanceKept` and
  `PromisesKept`. That a call is never refused for want of an allowance is not inductive:
  it needs that rounds counted bound the exploration calls, that the call of a stage is
  unused before that stage, and that a run is at `repair` only while the repair is left.
  The invariant `IInv` adds these (`RoundsInv`, `CallsInv`), what an attempt in force says
  of the queries run (`QueriesInv`), and that a run has an outcome exactly when it is over
  (`EndInv`). One lemma per action shows that it keeps `IInv`; `PromisesKept` then shows
  every step to be a step of `QuestionRun` or to leave its variables alone.
* `DecisionOutcomeProofs` — beside `IInv`, an invariant `OInv` of how a run ends, and from
  it `FinalDecisionFits`, `DecisionKept`, `TokensBounded`, `DefaultProbesNeverRefused` and
  the action property `GoodResultKept`. An outcome is fixed by a decision taken many steps
  earlier, so `DecisionInv` says which decisions can be in hand at each step; `TokensInv`
  that a call is outstanding only below the limit; `ProbesInv` that the probes counted and
  those of the round still to come are within three per round begun, and the readings
  within three more; `StandsInv` that a step that may replace the attempt is never reached
  with a good result. The steps are proved once by what they do to the decision
  (`Ending`), to the budget (`Spending`) and to the rounds (`Probing`). `StepsRunOut` is the
  part of `Termination` that is safety: `Ahead`, a natural number of at most 27 + 5 *rounds*,
  falls with every step, a repair, a rewritten value and a second attempt included, so no run
  goes on longer than that. A run may go back a stage only in ways that cannot recur: to the
  probes, with a round spent (`RoundsInv`), or to `replan`, once a query has run. That a run
  not over can always take a step is left to TLC.
  In the same module, beside both, `TInv`: what the trace says by the step reached, and
  from it `OutcomeTold` and `RepairAlwaysTold`. A trace is overwritten and forgotten stage by
  stage as attempts are given up, so `AttemptTold` says that nothing of the runtime is
  recorded before a query is planned or planned again, that a query about to run has passed
  every gate and left no execution behind, and that the execution stage is that of the result
  in force. `RepairInv` says that the repair is unrecorded while it is asked for, and that a
  decision is the repair's only if its call was used.
* `SqlSafetyProofs` — `Inductive`, and from it `OnlyGated` and `CostedFirst`. What is sent
  depends on what was found many steps earlier, so `IInv` records for each step what the
  gates behind it have found of the SQL *now at hand* and of the candidate's own
  (`GatesInv`), the same for every plan issued (`PlansInv`), and that a query about to run
  is one of these. An execution finds its plan by identity, whatever a caller holds or
  alters: no invariant of the callers' plans is needed, or stated. The result is for any set of relations,
  queries, authorities and any number of calls.
  In the same module `TypeCorrect`, and `PromisesKept`: `SqlSafety` implements `QueryService`, whose results
  and stages are all that `DecisionRun` assumes of it. The trace a call is building is not
  seen until it returns, so `TraceInv` says what it has left since the call began: the gates
  behind the step it has reached, passed; nothing, for a probe or a lookup; the connection,
  for an execution. A call that goes on is then a stutter; one that returns is `Plan`,
  `Execute`, `Refuse`, `Break` or `Aside`. Every failure is matched with the one of
  `PlanFailures` that has its outcome, its feedback and its last stage.
* `ConnectionsProofs` — `Inductive`, and from it `TypeCorrect`, `ChosenOnly`,
  `OnePathInTurn`, `EnginesKept` and `DeletedWhole`. What is shown depends on a choice read steps earlier,
  so `IInv` says for each request (`Fits`) that the columns shared now, and those of the
  choice it read, are among the ones recorded since it began; that a declaration past its
  check conflicts only with relationships recorded since; and that no engine is in two
  places (`EnginesApart`), without which disposing of one could lose another. Two lemmas
  carry most steps: `Moves` (one request goes on, the stores stay) and `StoresShrink`
  (something is removed).

* `ReportsProofs` — `Inductive`, and from it `TypeCorrect`, `ScheduleStays`,
  `TurnsOncePerVersion`, `MissedTurnsPass`, `LatestStays`, and `ChangesKept` (`Reports` implements
  `SharedReport`). A request prepares a record from one read and stores it after another
  wherever the version still matches, so `EditsInv` says of each prepared record that, as
  long as its version is the one after the stored one, it is a change its maker may make *to the
  record stored now*: claims change none of its fields but the next refresh, saves move the
  version. `RefreshInv` says that what a transaction is about to drop is not the latest
  snapshot, `ClaimsInv` that claims of the version in force were of earlier turns than the next one.
  The refinement is then one step: `CommitShared` splits a stored change by the kind that
  prepared it; every other step leaves SharedReport's variables alone, but deletion.

  `SnapshotsStayBounded`, in the same module, has an invariant of its own. The bound is not
  inductive: a transaction drops what was beyond the latest when it read, and others commit
  in between, some more than once. `SnapshotsInv` gives each storing transaction the set of
  the others that have committed since it read; what it would leave is at most the ones kept
  and one per member. A member that stores a second time has itself read later, so its own
  set is smaller, and the bound holds again although the first did not see either snapshot.
  The sets are a witness of the invariant, not a variable of the model.

* `ConversationsProofs` — `Invariant`, and from it `TypeCorrect`, `SentIsAlwaysModels`,
  `AlwaysOneConversation`, `AlwaysOpensWhole`, `SidebarAlwaysOpens` and the action property
  `HistoryAlwaysKept`. The state invariant is short: each recorded run follows at most one
  earlier run, of the same source, and only runs that may be followed or edited are
  (`RunsPlaced`); runs are stored in the order of their numbers (`StoredInOrder`). The work
  is in what is read from the store, a walk from run to run that stops at a limit. `Walk` is a
  recursive function, and induction over what it computes is out of the prover's reach; so
  `IsWalk` says without recursion what a walk is (it starts at its run, each step is the next
  link, it ends where there is no link or at the limit), `WalkIsWalk` shows `Walk` to be one
  by a least counterexample (`LeastOf`), and `WalkUnique` that there is no other. Links point
  to earlier runs, so a walk back descends and ends (`Descends`, `BackEnds`); a walk
  from further on passes through every run of the walk from any it reaches (`BackPrefix`,
  `BackWhole`, `BackSuffix`). These carry the properties: what the model is sent is the tail of
  one walk. Where no run of a conversation was continued twice and it is within the limit, the walk
  forward from the root of an entry retraces the walk back from its newest run, so that opening
  the root shows every run of it (`SidebarAlwaysOpens`).

* `QueryGatesProofs` — `QueryGatesTypeOK` and `PlannedShowsOnlyQueryable`, for any catalog,
  references, queries and contents. Two facts about operators carry them.
  `AllowedShowsOnlyQueryable` says that a query the policy allows answers only with values
  counted from queryable columns, unless some output of it is a whole row with a hidden
  column: `ShowsAHidingRow`, the one shape the theorem leaves out, is what `HiddenNeverShown`
  is violated by (section 6). Policy (`OutputColumns`), reference (`Answers`) and joins
  (`JoinedSources`) are recursive functions over SELECTs and sources; `OutputColumnsAre`,
  `AnswersAre` and `JoinedAre` give their equations, each by the least SELECT (or
  source) where one would fail. What the policy believes of a SELECT then agrees with what it
  answers (`Fits`, `Binds`: the columns of every row are those the policy computed), and by
  the same argument every row inside is clean (`RowsFit`, `AnswersFit`): a value in it is read
  from one source or is a row with no hidden column (`ValueClean`, `WholeRowClean`), comes from
  a star, which is refused over a hidden column (`StarFits`), or totals such values
  (`TotalClean`). `RewriteIsWellFormed` says
  that what the normalizer writes is a query again: without it nothing above speaks of a
  rewritten query. The invariant `Inv` adds to the two properties that the query selected is
  well formed, and is the candidate, which policy allows, until the grain gate has judged it:
  a query is planned a step after the verdict that let it through.
* `JoinsProofs` — `AllowedMeetByRelationships`, and `PlannedMeetByRelationships` from it and the
  same `Inv`. The policy reads two graphs off the text of a SELECT, the pairs it compares and
  the relations it links; the property is about a third, of the rows one row of the FROM list
  is made of, with a link where two of them hold one key, or a key and a reference to it.
  `Connected` is stated as closed parts (every set of nodes that no link leaves holds both
  ends or none), which is how a path is used in a proof without induction (`ConnectedBy`).
  A row that a LEFT JOIN did not match is not there, with all the links of its condition;
  `HangingNodes` says that nodes added last, each on one node of the rest, may be taken away
  again. What remains is that each link the policy found is a link of rows: a condition that
  held has an equality that held (`ClauseHolds`); each side of an equality that links is a value
  of one row (`LinkNames`, `NamedValue`); a column of a table is its own and only origin
  (`TableOrigin`, `DirectOrigin`), and one
  passed on through SELECTs has the origin the policy traced it to (`TracedOrigin`: the
  readings on the way, `ReadingsAre`, are one per SELECT, and each holds the same cell,
  `PassedRead` and `InwardRead`); so the two rows hold related columns or one key
  (`PairNames`, `HoldingTogether`). `BindingMet` puts these together for one row of a SELECT.
  The first attempt did not set LEFT JOIN aside, and could not be finished where the condition
  that makes a link did not hold: that is the finding of `query_gates_no_tables_crossed`.

Only model-checked: `Termination` (beyond `StepsRunOut`), `DueIsTaken` and `StillAudited`
(liveness is out of the prover's reach), the violations of section 6, and two properties of
`QueryGates`, `CountedOnce` and `RewriteKeepsTheQuestion`. Both say how often a stored row counts in
a total, so both need what bags sum to over joined and grouped rows: sums over sets are
defined by recursion on a set, which would have to be followed by induction on data, out of
the prover's reach; only whether something counts at all, as in the two theorems
above, is told without it.

## 5. What is not modelled

* Within policy and grain: what section 2 lists as left out. With the catalog every connection gets
  (`measures.py`), no measure is derived or allowed another grain, so the code for those
  (`UNSAFE_ROLLUP`, `allowed_rollup`) is unreachable and not modelled.
* The literal check, widening of sums, order of NULLs, result columns and explanation judge
  wording, digits and literals; no model tells these apart. `SqlSafety` takes one thing
  from them on trust: they do not change what a query reads, its policy verdict or its grain.
* Retrieval, governance and prompts are ranking and formatting: the decision run takes their
  outcome as an input. The model and the database are external.
* Marks, provenance, connectors, drivers, configuration, declarations: no behaviour worth a
  model, or I/O.
* The web interface but for the sidebar's grouping: the report editor's debounced saves are
  the one part with state of its own.

## 6. Where the documents and the code differ

| Run | Document | Code |
|---|---|---|
| `reports_turn_taken_once` | `service.py:337-338`, `architecture.md:490-491`: two workers never take the same refresh | a save read before a claim writes the claimed turn back |
| `reports_snapshots_go_with_report` | `security.md:109-111`: snapshots are deleted with the report | one being taken is stored afterwards |
| `connections_keys_never_shared` | `security.md:14-16`, `architecture.md:45-51`: stored values skip keys, and declared relationships count like foreign keys | statistics are kept ten minutes, and `values()` reads them from a catalog without the declared relationships: a later question is shown values of a key of its own catalog |
| `query_gates_never_fans_out` | `architecture.md:253`, `security.md:75-78`: aggregates do not fan out, also not over a join made inside a CTE or derived table | a query inside that keeps the parent's key *and* a child's column distinct, or grouped, is taken to have one row per parent (`grain.py:600`); likewise one whose key is matched with another table, or under an OR |
| `query_gates_no_tables_crossed` | `security.md:69-71`, `architecture.md:242-245`: every table of a FROM list is joined to the others along relationships; a comma list is rejected | the condition of a LEFT JOIN counts as a link (`policy.py:325-331`), although it restricts none of the rows before it: two tables of a comma list, both named in the condition of a third LEFT JOINed to them, are paired row by row |

Four more statements of the documents are properties that the code breaks, each with a
configuration of its own. `PROJECT.json` lists no run for them; `tlc -config <configuration>
<module>` finds each violated within half a minute.

| Property, configuration and module | Document | Code |
|---|---|---|
| `SnapshotsKept`, `Reports_SnapshotsKept.cfg`, `MCReports` | `security.md:109-110`, `architecture.md:486-487`, `store.py:127-128`: at most 30 snapshots are stored of a report | two snapshots stored at the same time, a worker's and one taken by hand, each trim without the other's insert (`store.py:166-179`): one more stays until the next is stored |
| `BranchOpensNewest`, `Conversations_BranchOpensNewest.cfg`, `MCConversations` | `Sidebar.tsx:124`, `architecture.md:354-356`: an entry of the sidebar stands for its newest run, and opening it loads its chain | a run continued twice gives two entries with one root; an entry is opened by its root (`App.tsx:168`, `229`), and both show the newer branch. A name or a pin, kept by the root as well (`App.tsx:163-171`), is given to both |
| `LongOpensNewest`, `Conversations_LongOpensNewest.cfg`, `MCConversations` | `operator/service.py:308-310`: a conversation opens whole from its first run as well as from its last | opened by its root, one of more than 20 runs shows the first 20 (`service.py:318`, `326`) |
| `HiddenNeverShown`, `QueryGates_HiddenNeverShown.cfg`, `MCQueryGates` | `catalog/default.py:36`: `customers.external_key` is not queryable; `security.md:62` and `test_sql_policy.py:267-268`: naming it, or a star that would give it, is rejected | an output that is a source's alias stands for the whole row, and the policy goes on without looking at the row's columns (`policy.py:190-193`): `SELECT c FROM customers c` is allowed and its answer shows the key; the test of that branch reads a row that hides none (`test_sql_policy.py:222`) |

What the code does keep of all these, in its strongest form: `TurnTakenOncePerVersion`,
`SnapshotsBounded`, `OpensWhole` with `SidebarOpensWhatItLists`, `CountedOnce`,
`RowsMeetByRelationships`, `OnlyQueryableShown`.

Read, but not stated as properties:

* `budget.py:11-13` and `architecture.md:195-196` say that a run past its limits answers with the
  decision it has. After a probe round the only decision in hand is a request to explore, and
  a limit then ends the run without an answer (`decision/service.py:522`).
  `LimitsKeepTheDecision` is the strongest form that the code keeps.
* A look-first call that a limit stops records no stage of its own (`decision/service.py:418`);
  `architecture.md:203` says a stopped step records the limit.
* Tokens of a reply that does not parse are not counted (`decision/service.py:937`); the
  docstring at `:918-919` says those of each call are.
* `follow_up_of` is recorded for a demo replay although nothing earlier is sent to the model.
* After the rewriting, `COUNT` of a child's key or of rows counts parents; the normalizer does
  not abstain from it. `RewriteKeepsTheQuestion` speaks of groups, sums and averages only.
* Two children joined to one parent repeat each other's rows; the validator looks at parents'
  measures only. A foreign key of a table to itself refuses every sum over that table.

## 7. State of the plan

Done: the decision run, its budget and trace; the SQL safety service; reports; connections;
conversations; policy and grain on small join graphs; the proofs of section 4.

What would come next, in order: the literal check against the values of a column, as an
operator over a small alphabet; result columns; the report editor with its debounced saves.
