----------------------------- MODULE DecisionRun -----------------------------
(***************************************************************************)
(* One question, stage by stage: DecisionSqlApplication.run                *)
(* (src/app/decision/service.py).                                          *)
(*                                                                         *)
(* The context and the first decision open the run; every later stage      *)
(* moves the state on or ends the run; the last one runs the query.  The   *)
(* run is sequential, but its deadline may pass between any two steps and  *)
(* while a model call or a query is outstanding.  The model's replies, the *)
(* provider's failures, the gates' verdicts and the database's results are *)
(* chosen freely.                                                          *)
(***************************************************************************)
EXTENDS AttemptBudget, SqlGates

CONSTANTS SettingsSet,   \* the settings a run may be given
          CallTokens     \* the tokens one model call may use

ASSUME SettingsAssumption == SettingsSet \subseteq Settings
ASSUME TokenAssumption == CallTokens \subseteq Nat

VARIABLES
  settings,  \* read when the run starts, never changed
  replay,    \* a frozen decision is replayed
  at,        \* the step the run has reached
  late,      \* the run's deadline has passed
  budget,    \* AttemptBudget
  state,     \* DecisionState
  rounds,    \* rounds of probes begun
  left,      \* probes of this round, or readings, still to run
  attempt,   \* the plan and execution in force
  queries,   \* (history) answering queries the database ran
  trace,     \* RunTraceCollector
  outcome,   \* the result's runtime outcome, or "NONE" while the run goes on
  refused    \* (history) the calls a limit refused or cut off, with that limit

vars == <<settings, replay, at, late, budget, state, rounds, left, attempt, queries,
          trace, outcome, refused>>

(***************************************************************************)
(* Decisions.  size is the number of probes of EXPLORE, of interpretations *)
(* of NEEDS_CLARIFICATION, and of omitted tables BLOCKED_AUTHORITY names;  *)
(* by is the call whose reply it is (a replayed one counts as the first).  *)
(***************************************************************************)
Sizes == [ANSWER |-> {0}, BLOCKED_POLICY |-> {0}, BLOCKED_AUTHORITY |-> 0..1,
          NEEDS_CLARIFICATION |-> 0..4, EXPLORE |-> 1..MAX_PROBES]

DecisionType == DOMAIN Sizes

Decisions(call) ==
  UNION {[kind : {k}, size : Sizes[k], by : {call}] : k \in DecisionType}

Answer(call) == [kind |-> "ANSWER", size |-> 0, by |-> call]

\* A reply whose case id is not the run's.
Mismatch == [kind |-> "MISMATCH", size |-> 0, by |-> "NONE"]

\* _LOOK_FIRST: decisions sent back once when returned before any probe ran.
LookFirstKinds == {"NEEDS_CLARIFICATION", "BLOCKED_AUTHORITY"}

NewState == [decision |-> Mismatch, exploring |-> FALSE, open |-> FALSE, results |-> FALSE,
             lookedFirst |-> FALSE, assumption |-> FALSE, repairedFrom |-> FALSE]

NoPlan == Failure("NONE", FALSE, "NONE", "NONE")

NewAttempt == [plan |-> NoPlan, ran |-> "NONE", second |-> FALSE]

RuntimeOutcome == {"EXECUTED", "AUTHORITY_REJECTED", "POLICY_REJECTED",
                   "RUNTIME_REJECTED", "EXECUTION_ERROR", "NOT_ENTERED",
                   "GENERATION_ERROR"}

\* The step at which a call is outstanding.
Awaiting == [GENERATION |-> "await_generation", CONTEXT_EXPANSION |-> "await_expansion",
             LOOK_FIRST |-> "await_look", EXPLORATION |-> "await_round",
             READING_CHECK |-> "await_readings", REPAIR |-> "await_repair"]

Steps == {"context", "generation", "admit", "widen", "look", "explore", "probe", "round",
          "check_readings", "read", "query", "repair", "replan", "execute",
          "check_result", "probe_values", "respond", "done"}
         \cup {Awaiting[c] : c \in ModelCall}

Init ==
  /\ settings \in SettingsSet
  /\ replay \in BOOLEAN
  /\ at = "context"
  /\ late = FALSE
  /\ budget = NewBudget
  /\ state = [NewState EXCEPT !.exploring = ~replay /\ settings.exploration,
                              !.open = ~replay /\ settings.exploration]
  /\ rounds = 0 /\ left = 0
  /\ attempt = NewAttempt
  /\ queries = 0
  /\ trace = EmptyTrace
  /\ outcome = "NONE"
  /\ refused = {}

(***************************************************************************)
(* Model calls (_propose).  A call is taken from the budget, then          *)
(* outstanding until the model replies, the call fails, or the deadline    *)
(* cuts it off; only the first decision is never cut off.                  *)
(***************************************************************************)
Refused(call) == Refusal(budget, settings, replay, late, call)

Ask(call) ==
  /\ Refused(call) = None
  /\ budget' = TakeCall(budget, call)
  /\ at' = Awaiting[call]
  /\ UNCHANGED refused

\* The call returned a usable reply, and its tokens count.
Replied(call) ==
  /\ at = Awaiting[call]
  /\ late => call = "GENERATION"
  /\ \E n \in CallTokens : budget' = SpendTokens(budget, n)
  /\ UNCHANGED refused

\* The call was refused at its step, cut off, or failed; reason is what _failure
\* names it: the limit, or other.  The tokens of a reply that was no typed decision
\* are not counted.
Unanswered(call, step, other, reason) ==
  \/ /\ at = step
     /\ Refused(call) # None
     /\ reason = LimitReason[Refused(call)]
     /\ budget' = Stop(budget, Refused(call))
     /\ refused' = refused \cup {<<call, Refused(call)>>}
  \/ /\ at = Awaiting[call]
     /\ late /\ call # "GENERATION"
     /\ reason = LimitReason["DEADLINE"]
     /\ budget' = Stop(budget, "DEADLINE")
     /\ refused' = refused \cup {<<call, "DEADLINE">>}
  \/ /\ at = Awaiting[call]
     /\ late => call = "GENERATION"
     /\ reason = other
     /\ UNCHANGED <<budget, refused>>

NoCall == UNCHANGED <<budget, refused>>

\* What the stages before the query leave alone.
NoQuery == UNCHANGED <<attempt, queries>>

\* What no step of a run but the passing of time changes.
Fixed == UNCHANGED <<settings, replay, late>>

(***************************************************************************)
(* Ends of a run.                                                          *)
(***************************************************************************)
\* _close: the stages never reached are skipped.
Close(t, skipReason, status, response, result) ==
  /\ trace' = RecordStage(SkipUnrecorded(t, AfterContext, skipReason),
                          "response", status, response)
  /\ outcome' = result
  /\ at' = "done"

NonAnswer(t) == Close(t, "MODEL_NON_ANSWER", "PASS", "MODEL_NON_ANSWER", "NOT_ENTERED")

Stopped(t, skipReason, reason) ==
  Close(t, skipReason, "FAILED", reason, "GENERATION_ERROR")

GoOn(t, step) ==
  /\ trace' = t
  /\ at' = step
  /\ UNCHANGED outcome

-----------------------------------------------------------------------------
(***************************************************************************)
(* Opening: context and the first decision.                                *)
(***************************************************************************)
ResolveContext ==
  /\ at = "context"
  /\ \/ GoOn(RecordStage(trace, "context", "PASS", "NONE"), "generation")
     \/ Close(RecordStage(trace, "context", "FAILED", "CONTEXT_RESOLUTION_FAILURE"),
              "CONTEXT_RESOLUTION_FAILURE", "PASS", "CONTEXT_RESOLUTION_FAILURE",
              "NOT_ENTERED")
  /\ NoCall /\ NoQuery /\ Fixed
  /\ UNCHANGED <<state, rounds, left>>

\* A replayed decision is always a saved or edited query: an ANSWER.
ReplayDecision ==
  /\ at = "generation" /\ replay
  /\ state' = [state EXCEPT !.decision = Answer("GENERATION")]
  /\ GoOn(RecordStage(RecordStage(trace, "generation", "SKIPPED", "SAVED_QUERY"),
                      "proposal_replay", "PASS", "SERVER_BOUND_FROZEN_PROPOSAL"),
          "admit")
  /\ NoCall /\ NoQuery /\ Fixed
  /\ UNCHANGED <<rounds, left>>

AskFirst ==
  /\ at = "generation" /\ ~replay
  /\ Ask("GENERATION")
  /\ NoQuery /\ Fixed
  /\ UNCHANGED <<state, rounds, left, trace, outcome>>

FirstReply ==
  /\ Replied("GENERATION")
  /\ \E d \in Decisions("GENERATION") \cup {Mismatch} :
       state' = [state EXCEPT !.decision = d]
  /\ GoOn(RecordStage(RecordStage(trace, "generation", "PASS", "NONE"),
                      "proposal_replay", "SKIPPED", "LIVE_MODEL"),
          "admit")
  /\ NoQuery /\ Fixed
  /\ UNCHANGED <<rounds, left>>

\* A provider failure, or a reply that is no typed decision, ends the run.
FirstFails ==
  /\ Unanswered("GENERATION", "generation", "PROVIDER_FAILURE", "PROVIDER_FAILURE")
  /\ \/ Close(RecordStage(trace, "generation", "FAILED", "PROVIDER_FAILURE"),
              "PROVIDER_FAILURE", "FAILED", "PROVIDER_FAILURE", "GENERATION_ERROR")
     \/ Close(RecordStage(RecordStage(trace, "generation", "PASS",
                                      "TRANSPORT_RESPONSE_RECEIVED"),
                          "decision_admission", "FAILED", "INVALID_TYPED_DECISION"),
              "PROVIDER_FAILURE", "FAILED", "INVALID_TYPED_DECISION", "GENERATION_ERROR")
  /\ NoQuery /\ Fixed
  /\ UNCHANGED <<state, rounds, left>>

Admit ==
  /\ at = "admit"
  /\ IF state.decision = Mismatch
     THEN Stopped(RecordStage(trace, "decision_admission", "FAILED", "CASE_ID_MISMATCH"),
                  "DECISION_ADMISSION_FAILURE", "CASE_ID_MISMATCH")
     ELSE GoOn(RecordStage(trace, "decision_admission", "PASS", "NONE"),
               "widen")
  /\ NoCall /\ NoQuery /\ Fixed
  /\ UNCHANGED <<state, rounds, left>>

-----------------------------------------------------------------------------
(***************************************************************************)
(* Stages before the query.                                                *)
(***************************************************************************)
FailureReasons == {LimitReason[l] : l \in BudgetLimit}
                  \cup {"PROVIDER_FAILURE", "EXPANSION_FAILURE"}

\* The model refused for want of a table the context left out.
AsksForTables ==
  /\ ~replay /\ settings.expansion
  /\ state.decision.kind = "BLOCKED_AUTHORITY" /\ state.decision.size > 0

\* Faulty: a failed expansion ends the run.
ExpansionMustPass(status, reason) ==
  IF status = "FAILED"
  THEN Stopped(RecordStage(trace, "context_expansion", status, reason), reason, reason)
  ELSE GoOn(RecordStage(trace, "context_expansion", status, reason), "look")

ExpansionRecorded(status, reason) ==
  GoOn(RecordStage(trace, "context_expansion", status, reason), "look")

WidenContext ==
  /\ at = "widen"
  /\ \/ /\ AsksForTables
        /\ Ask("CONTEXT_EXPANSION")
        /\ UNCHANGED <<trace, outcome>>
     \/ /\ AsksForTables   \* the wider context could not be resolved
        /\ ExpansionRecorded("FAILED", "EXPANSION_FAILURE")
        /\ NoCall
     \/ /\ ~AsksForTables
        /\ ExpansionRecorded("SKIPPED", IF replay THEN "SAVED_QUERY"
                                        ELSE IF ~settings.expansion
                                        THEN "EXPANSION_NOT_ALLOWED" ELSE "NOT_NEEDED")
        /\ NoCall
  /\ NoQuery /\ Fixed
  /\ UNCHANGED <<state, rounds, left>>

ExpansionReply ==
  /\ Replied("CONTEXT_EXPANSION")
  /\ \/ /\ ExpansionRecorded("FAILED", "CASE_ID_MISMATCH")
        /\ UNCHANGED state
     \/ \E d \in Decisions("CONTEXT_EXPANSION") :
          /\ ExpansionRecorded("PASS", "NONE")
          /\ state' = [state EXCEPT !.decision = d]
  /\ NoQuery /\ Fixed
  /\ UNCHANGED <<rounds, left>>

ExpansionFails ==
  /\ at = "widen" => AsksForTables
  /\ \E reason \in FailureReasons :
       /\ Unanswered("CONTEXT_EXPANSION", "widen", "EXPANSION_FAILURE", reason)
       /\ ExpansionRecorded("FAILED", reason)
  /\ NoQuery /\ Fixed
  /\ UNCHANGED <<state, rounds, left>>

\* A question or refusal returned before any probe ran.
ReturnedWithoutLooking ==
  /\ state.exploring /\ state.open /\ ~state.results
  /\ state.decision.kind \in LookFirstKinds

LookFirst ==
  /\ at = "look"
  /\ IF ReturnedWithoutLooking
     THEN /\ Ask("LOOK_FIRST")
          /\ UNCHANGED <<trace, outcome>>
     ELSE GoOn(trace, "explore") /\ NoCall
  /\ NoQuery /\ Fixed
  /\ UNCHANGED <<state, rounds, left>>

LookFirstReply ==
  /\ Replied("LOOK_FIRST")
  /\ \E d \in Decisions("LOOK_FIRST") \cup {state.decision} :
       state' = [state EXCEPT !.decision = d, !.lookedFirst = TRUE]
  /\ GoOn(trace, "explore")
  /\ NoQuery /\ Fixed
  /\ UNCHANGED <<rounds, left>>

\* The original decision stands; the refusal is kept as metadata only.
LookFirstFails ==
  /\ at = "look" => ReturnedWithoutLooking
  /\ \E reason \in FailureReasons :
       Unanswered("LOOK_FIRST", "look", "PROVIDER_FAILURE", reason)
  /\ state' = [state EXCEPT !.lookedFirst = TRUE]
  /\ GoOn(trace, "explore")
  /\ NoQuery /\ Fixed
  /\ UNCHANGED <<rounds, left>>

ExplorationFailed(reason) ==
  Stopped(RecordStage(trace, "exploration", "FAILED", reason),
          "EXPLORATION_FAILURE", "EXPLORATION_FAILURE")

\* Faulty: the probes of the new round are not counted.
BeginRoundUncounted(d) ==
  /\ rounds' = rounds + 1
  /\ UNCHANGED left
  /\ state' = [state EXCEPT !.decision = d]
  /\ GoOn(trace, "probe")

\* One turn of the probe loop opens: _run_probes has size probes to run.
BeginRound(d) ==
  /\ rounds' = rounds + 1
  /\ left' = d.size
  /\ state' = [state EXCEPT !.decision = d]
  /\ GoOn(trace, "probe")

\* Later calls still see the results, but may not explore.
Closed(s) == [s EXCEPT !.open = FALSE]

Explore ==
  /\ at = "explore"
  /\ \/ /\ state.decision.kind = "EXPLORE" /\ state.open
        /\ BeginRound(state.decision)
     \/ /\ state.decision.kind = "EXPLORE" /\ ~state.open
        /\ ExplorationFailed("EXPLORATION_NOT_CLOSED")
        /\ UNCHANGED <<state, rounds, left>>
     \/ /\ state.decision.kind # "EXPLORE"
        /\ GoOn(RecordStage(trace, "exploration", "SKIPPED",
                            IF replay THEN "SAVED_QUERY"
                            ELSE IF state.lookedFirst THEN "DECLINED_TO_LOOK"
                            ELSE IF state.exploring THEN "NOT_REQUESTED"
                            ELSE "EXPLORATION_NOT_ALLOWED"),
                "check_readings")
        /\ state' = Closed(state)
        /\ UNCHANGED <<rounds, left>>
  /\ NoCall /\ NoQuery /\ Fixed

\* One probe query: refused by a limit, or run outside the trace.  The model hears
\* of either; the round ends with the last one.
ProbeTaken(refusal) ==
  /\ ProbeRefusal(budget, settings, late) = refusal
  /\ budget' = IF refusal = None THEN TakeProbeQuery(budget) ELSE Stop(budget, refusal)
  /\ UNCHANGED refused

RunProbe ==
  /\ at = "probe"
  /\ \E refusal \in BudgetLimit \cup {None} : ProbeTaken(refusal)
  /\ left' = left - 1
  /\ IF left = 1
     THEN /\ state' = [state EXCEPT !.open = rounds < settings.rounds, !.results = TRUE]
          /\ GoOn(trace, "round")
     ELSE GoOn(trace, "probe") /\ UNCHANGED state
  /\ NoQuery /\ Fixed
  /\ UNCHANGED rounds

AskAfterProbes ==
  /\ at = "round"
  /\ Ask("EXPLORATION")
  /\ NoQuery /\ Fixed
  /\ UNCHANGED <<state, rounds, left, trace, outcome>>

RoundReply ==
  /\ Replied("EXPLORATION")
  /\ \/ /\ ExplorationFailed("CASE_ID_MISMATCH")
        /\ UNCHANGED <<state, rounds, left>>
     \/ \E d \in Decisions("EXPLORATION") :
          \/ /\ d.kind = "EXPLORE" /\ state.open
             /\ BeginRound(d)
          \/ /\ d.kind = "EXPLORE" /\ ~state.open
             /\ ExplorationFailed("EXPLORATION_NOT_CLOSED")
             /\ UNCHANGED <<state, rounds, left>>
          \/ /\ d.kind # "EXPLORE"
             /\ GoOn(RecordStage(trace, "exploration", "PASS", "NONE"), "check_readings")
             /\ state' = Closed([state EXCEPT !.decision = d])
             /\ UNCHANGED <<rounds, left>>
  /\ NoQuery /\ Fixed

RoundFails ==
  /\ \E reason \in FailureReasons :
       /\ Unanswered("EXPLORATION", "round", "PROVIDER_FAILURE", reason)
       /\ ExplorationFailed(reason)
  /\ NoQuery /\ Fixed
  /\ UNCHANGED <<state, rounds, left>>

ReadingsRecorded(status, reason) ==
  GoOn(RecordStage(trace, "reading_check", status, reason), "query")

\* A clarification whose readings can be run, one probe each.
ReadingsCountable ==
  /\ ~replay /\ settings.readingCheck
  /\ state.decision.kind = "NEEDS_CLARIFICATION"
  /\ state.decision.size \in 2..MAX_PROBES

CheckReadings ==
  /\ at = "check_readings"
  /\ IF ReadingsCountable
     THEN /\ Ask("READING_CHECK")
          /\ UNCHANGED <<trace, outcome>>
     ELSE /\ NoCall
          /\ ReadingsRecorded("SKIPPED",
                              IF replay THEN "SAVED_QUERY"
                              ELSE IF state.decision.kind # "NEEDS_CLARIFICATION"
                              THEN "NOT_ASKED"
                              ELSE IF ~settings.readingCheck
                              THEN "READING_CHECK_NOT_ALLOWED" ELSE "READINGS_NOT_COUNTABLE")
  /\ NoQuery /\ Fixed
  /\ UNCHANGED <<state, rounds, left>>

\* The reply holds one probe per reading, or the clarification stands.
ReadingsReply ==
  /\ Replied("READING_CHECK")
  /\ \/ /\ ReadingsRecorded("PASS", "NO_SQL_PER_READING")
        /\ UNCHANGED left
     \/ /\ GoOn(trace, "read")
        /\ left' = state.decision.size
  /\ NoQuery /\ Fixed
  /\ UNCHANGED <<state, rounds>>

ReadingsFail ==
  /\ at = "check_readings" => ReadingsCountable
  /\ \E reason \in FailureReasons :
       /\ Unanswered("READING_CHECK", "check_readings", "PROVIDER_FAILURE", reason)
       /\ ReadingsRecorded("FAILED", reason)
  /\ NoQuery /\ Fixed
  /\ UNCHANGED <<state, rounds, left>>

\* Every reading ran: answer when they agree or the mode is to assume the first.
CompareReadings ==
  \/ /\ ReadingsRecorded("PASS", "READINGS_AGREE")
     /\ state' = [state EXCEPT !.decision = Answer("READING_CHECK")]
  \/ /\ settings.ambiguity = "ask"
     /\ ReadingsRecorded("PASS", "READINGS_DIFFER")
     /\ UNCHANGED state
  \/ /\ settings.ambiguity = "assume"
     /\ ReadingsRecorded("PASS", "READINGS_DIFFER_ASSUMED")
     /\ state' = [state EXCEPT !.decision = Answer("READING_CHECK"),
                               !.assumption = TRUE]

\* A reading that is refused, rejected, failed or cut off leaves the question standing.
RunReading ==
  /\ at = "read"
  /\ \/ /\ \E refusal \in BudgetLimit \cup {None} : ProbeTaken(refusal)
        /\ ReadingsRecorded("PASS", "READING_NOT_RUN")
        /\ UNCHANGED <<state, left>>
     \/ /\ ProbeTaken(None)
        /\ left' = left - 1
        /\ IF left = 1 THEN CompareReadings ELSE GoOn(trace, "read") /\ UNCHANGED state
  /\ NoQuery /\ Fixed
  /\ UNCHANGED rounds

-----------------------------------------------------------------------------
(***************************************************************************)
(* The query: admit, run, check the result, respond.                       *)
(***************************************************************************)
InQuery == UNCHANGED <<rounds, left>> /\ Fixed

\* Faulty: the repair round is offered whether or not it is used up.
RepairEnabled == settings.repair /\ ~replay

Repairable == Left(budget, settings, replay, "REPAIR") > 0

\* A plan goes to execution, or its rejection is the answer.  A second attempt's
\* rejection leaves the recorded result check.
Settle(t, p) ==
  IF p.accepted
  THEN GoOn(t, "execute")
  ELSE GoOn(SkipUnrecorded(t, ExecutionStages \cup {"result_check"},
                           "EARLIER_RUNTIME_REJECTION"), "respond")

\* Plan the SQL; a rejection the model can fix spends the repair round.
AdmitSql ==
  /\ at = "query"
  /\ IF state.decision.kind # "ANSWER"
     THEN NonAnswer(trace) /\ UNCHANGED attempt
     ELSE \E p \in PlanResults :
            /\ attempt' = [attempt EXCEPT !.plan = p]
            /\ IF Repairable /\ p.fixable
               THEN GoOn(RecordPlan(trace, p), "repair")
               ELSE Settle(RecordStage(RecordPlan(trace, p), "repair", "SKIPPED",
                                       IF p.accepted THEN "NOT_NEEDED"
                                       ELSE IF Repairable THEN "FINAL_REJECTION"
                                       ELSE "REPAIR_NOT_ALLOWED"), p)
  /\ NoCall /\ InQuery
  /\ UNCHANGED <<state, queries>>

AskRepair ==
  /\ at = "repair"
  /\ Ask("REPAIR")
  /\ InQuery
  /\ UNCHANGED <<state, attempt, queries, trace, outcome>>

\* Faulty: the model is asked until it replies.
AskAgain(t) == GoOn(t, "repair")

\* The original stands: the plan before execution, the result after it.
KeepOriginal(t) ==
  IF attempt.ran = "NONE" THEN Settle(t, attempt.plan) ELSE GoOn(t, "respond")

\* Faulty: a request to explore is taken as a replacement.
AnyReplacement == Decisions("REPAIR")

\* Faulty: the case id of a replacement is not compared.
UncheckedReplacement == {d \in Decisions("REPAIR") : d.kind # "EXPLORE"} \cup {Mismatch}

\* Replacements _repair takes: none that explores or has another case id.
Replacements == {d \in Decisions("REPAIR") : d.kind # "EXPLORE"}

\* One that is no answer ends the run; an answer is planned in place of the first.
RepairReply ==
  /\ Replied("REPAIR")
  /\ \/ /\ KeepOriginal(RecordStage(trace, "repair", "FAILED", "CASE_ID_MISMATCH"))
        /\ UNCHANGED state
     \/ \E d \in Replacements :
          /\ state' = [state EXCEPT !.decision = d, !.repairedFrom = TRUE]
          /\ LET t == Forget(RecordStage(trace, "repair", "PASS", "NONE"), RuntimeStages)
             IN  IF d.kind = "ANSWER" THEN GoOn(t, "replan") ELSE NonAnswer(t)
  /\ InQuery
  /\ UNCHANGED <<attempt, queries>>

RepairFails ==
  /\ \E reason \in FailureReasons :
       /\ Unanswered("REPAIR", "repair", "PROVIDER_FAILURE", reason)
       /\ KeepOriginal(RecordStage(trace, "repair", "FAILED", reason))
  /\ InQuery
  /\ UNCHANGED <<state, attempt, queries>>

\* The repaired or respelled query goes through every gate again.
Replan ==
  /\ at = "replan"
  /\ \E p \in PlanResults :
       /\ attempt' = [plan |-> p, ran |-> "NONE", second |-> attempt.ran # "NONE"]
       /\ Settle(RecordPlan(trace, p), p)
  /\ NoCall /\ InQuery
  /\ UNCHANGED <<state, queries>>

\* A second attempt's result is not checked again.
Execute ==
  /\ at = "execute"
  /\ \E result \in ExecutionResults :
       /\ attempt' = [attempt EXCEPT !.ran = result]
       /\ queries' = IF result \in {"NOT_CONNECTED", "WRONG_ROLE"} THEN queries
                     ELSE queries + 1
       /\ GoOn(RecordExecution(trace, result),
               IF attempt.second THEN "respond" ELSE "check_result")
  /\ NoCall /\ InQuery
  /\ UNCHANGED state

\* _repair_result: the run's repair round, if it is left and there is feedback.
RepairResult(t) ==
  IF Repairable THEN GoOn(Forget(t, {"repair"}), "repair") ELSE GoOn(t, "respond")

\* Faulty: rows that tie are taken for a percentage out of range.
TiedOutOfRange == {"OUT_OF_RANGE", "TIED_ROWS"}

\* Results with a percentage outside 0 to 100.
RangeResults == {"OUT_OF_RANGE"}

CheckResult ==
  /\ at = "check_result"
  /\ LET checking == ~replay /\ settings.resultCheck
         checked(status, reason) == RecordStage(trace, "result_check", status, reason)
     IN  CASE checking /\ attempt.ran \in RangeResults ->
                RepairResult(checked("PASS", "OUT_OF_RANGE"))
           [] checking /\ attempt.ran = "EMPTY" -> GoOn(trace, "probe_values")
           [] checking /\ attempt.ran = "TIED_ROWS" ->
                GoOn(checked("PASS", "TIED_ROWS"), "respond")
           [] attempt.ran \in FixableErrors /\ Repairable ->
                RepairResult(checked("SKIPPED", "EXECUTION_ERROR"))
           [] OTHER -> GoOn(checked("SKIPPED", "NOT_NEEDED"), "respond")
  /\ NoCall /\ InQuery
  /\ UNCHANGED <<state, attempt, queries>>

\* An empty result: a literal stored in one other spelling is rewritten and the query
\* planned again; otherwise the repair round, if it is left.
ProbeValues ==
  /\ at = "probe_values"
  /\ \/ GoOn(Forget(RecordStage(trace, "result_check", "PASS", "VALUE_REWRITTEN"),
                    RuntimeStages), "replan")
     \/ \E reason \in {"VALUE_NOT_STORED", "EMPTY_RESULT"} :
          RepairResult(RecordStage(trace, "result_check", "PASS", reason))
  /\ NoCall /\ InQuery
  /\ UNCHANGED <<state, attempt, queries>>

\* Faulty: an accepted plan counts as executed.
PlannedOutcome ==
  IF attempt.plan.accepted THEN "EXECUTED" ELSE attempt.plan.outcome

ResultOutcome ==
  IF attempt.ran = "NONE" THEN attempt.plan.outcome
  ELSE IF attempt.ran \in QueryResults THEN "EXECUTED" ELSE "EXECUTION_ERROR"

Respond ==
  /\ at = "respond"
  /\ trace' = RecordStage(trace, "response", "PASS", ResultOutcome)
  /\ outcome' = ResultOutcome
  /\ at' = "done"
  /\ NoCall /\ InQuery
  /\ UNCHANGED <<state, attempt, queries>>

-----------------------------------------------------------------------------
\* The deadline passes; a replay has none.
DeadlinePasses ==
  /\ ~replay /\ ~late /\ at # "done"
  /\ late' = TRUE
  /\ UNCHANGED <<settings, replay, at, budget, state, rounds, left, attempt, queries,
                 trace, outcome, refused>>

Opening == ResolveContext \/ ReplayDecision \/ AskFirst \/ FirstReply \/ FirstFails \/ Admit

Widening == WidenContext \/ ExpansionReply \/ ExpansionFails
            \/ LookFirst \/ LookFirstReply \/ LookFirstFails

Exploring == Explore \/ RunProbe \/ AskAfterProbes \/ RoundReply \/ RoundFails
             \/ CheckReadings \/ ReadingsReply \/ ReadingsFail \/ RunReading

Querying == AdmitSql \/ AskRepair \/ RepairReply \/ RepairFails \/ Replan \/ Execute
            \/ CheckResult \/ ProbeValues \/ Respond

RunStep == Opening \/ Widening \/ Exploring \/ Querying

Next == RunStep \/ DeadlinePasses

Spec == Init /\ [][Next]_vars

\* A model call ends by its own timeout and a query by the statement timeout, so the
\* run always takes its next step.
FairSpec == Spec /\ WF_vars(RunStep)
=============================================================================
