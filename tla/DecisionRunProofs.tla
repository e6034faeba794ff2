--------------------------- MODULE DecisionRunProofs ---------------------------
(***************************************************************************)
(* A run keeps to its types and its allowances, for all settings and all   *)
(* token counts.                                                           *)
(***************************************************************************)
EXTENDS DecisionRunProperties, TLAPS

(***************************************************************************)
(* The inductive invariant: what is counted so far, by the step reached.   *)
(***************************************************************************)
\* A round of probes, or of readings, has queries to run.
SizesInv ==
  /\ state.decision.kind = "EXPLORE" => state.decision.size \in 1..MAX_PROBES
  /\ at = "await_readings" => state.decision.size \in 1..MAX_PROBES
  /\ at \in {"probe", "read"} => left # 0

\* Rounds are begun only while exploring, and only when one is left.
RoundsInv ==
  /\ state.exploring => settings.exploration /\ ~replay
  /\ state.open \/ rounds > 0 => state.exploring
  /\ rounds <= settings.rounds
  /\ state.open /\ at # "probe" => rounds < settings.rounds
  /\ at = "probe" => rounds > 0

\* The steps at which a call made at most once is still to come.
BeforeGeneration == {"context", "generation"}

BeforeWidening == BeforeGeneration \cup {"await_generation", "admit", "widen"}

BeforeLooking == BeforeWidening \cup {"await_expansion", "look"}

BeforeReadings == BeforeLooking \cup {"await_look", "explore", "probe", "round",
                                      "await_round", "check_readings"}

\* Every call is within its allowance, and one is left wherever a call is made.
CallsInv ==
  /\ CallsWithinAllowance
  /\ at \in BeforeGeneration => budget.used["GENERATION"] = 0
  /\ at \in BeforeWidening => budget.used["CONTEXT_EXPANSION"] = 0
  /\ at \in BeforeLooking => budget.used["LOOK_FIRST"] = 0
  /\ at \in BeforeReadings => budget.used["READING_CHECK"] = 0
  /\ budget.used["EXPLORATION"] <= rounds
  /\ at \in {"probe", "round"} => budget.used["EXPLORATION"] < rounds
  /\ at = "repair" => Repairable

\* Steps from the first plan on.
Planned == {"execute", "check_result", "probe_values", "repair", "await_repair", "replan",
            "respond", "done"}

\* The attempt in force, and the one before it, account for the queries run.
QueriesInv ==
  /\ queries <= (IF attempt.second THEN 1 ELSE 0) + (IF attempt.ran = "NONE" THEN 0 ELSE 1)
  /\ attempt.ran \in QueryResults => queries > 0
  /\ at \notin Planned => attempt.ran = "NONE"
  /\ at = "execute" => attempt.ran = "NONE"
  /\ at \in {"check_result", "probe_values"} => attempt.ran # "NONE"
  /\ at \notin {"execute", "respond", "done"} => ~attempt.second
  /\ at \in Planned \ {"done"} => attempt.plan \in PlanResults
  /\ at = "respond" /\ attempt.ran = "NONE" => attempt.plan \in PlanFailures

\* A run has an outcome exactly when it is over.
EndInv == at = "done" <=> outcome # "NONE"

IInv == TypeOK /\ SizesInv /\ RoundsInv /\ CallsInv /\ QueriesInv /\ EndInv

-----------------------------------------------------------------------------
(***************************************************************************)
(* What the operators of the budget, the trace and the decisions return.   *)
(***************************************************************************)
Traces == [Stages -> StageResult]

LEMMA StageNames ==
  /\ Stages = PlanStages \cup ExecutionStages \cup
              {"context", "generation", "proposal_replay", "decision_admission",
               "context_expansion", "exploration", "reading_check", "repair",
               "result_check", "response"}
  /\ RuntimeStages \subseteq Stages /\ AfterContext \subseteq Stages
  /\ ExecutionStages \cup {"result_check"} \subseteq Stages
BY DEF Stages, RuntimeStages, PlanStages, ExecutionStages, AfterContext

LEMMA StatusNames ==
  /\ "PASS" \in StageStatus /\ "REJECTED" \in StageStatus
  /\ "FAILED" \in StageStatus /\ "SKIPPED" \in StageStatus
BY DEF StageStatus

LEMMA StepNames ==
  /\ {"context", "generation", "admit", "widen", "look", "explore", "probe", "round",
      "check_readings", "read", "query", "repair", "replan", "execute", "check_result",
      "probe_values", "respond", "done"} \subseteq Steps
  /\ \A call \in ModelCall : Awaiting[call] \in Steps
BY DEF Steps

\* Recording, forgetting and skipping stages keeps a trace a trace.
LEMMA RecordStageType ==
  ASSUME NEW t \in Traces, NEW name \in Stages, NEW status \in StageStatus,
         NEW reason \in StageReason
  PROVE  RecordStage(t, name, status, reason) \in Traces
<1>1. [status |-> status, reason |-> reason] \in StageResult
  BY DEF StageResult
<1> QED
  BY <1>1 DEF RecordStage, Traces

LEMMA ForgetType ==
  ASSUME NEW t \in Traces, NEW names
  PROVE  Forget(t, names) \in Traces
<1>1. Unrecorded \in StageResult
  BY DEF Unrecorded, StageResult, StageReason
<1> QED
  BY <1>1 DEF Forget, Traces

LEMMA SkipType ==
  ASSUME NEW t \in Traces, NEW names, NEW reason \in StageReason
  PROVE  SkipUnrecorded(t, names, reason) \in Traces
<1>1. [status |-> "SKIPPED", reason |-> reason] \in StageResult
  BY DEF StageResult, StageStatus
<1> QED
  BY <1>1 DEF SkipUnrecorded, Traces

LEMMA RecordPlanType ==
  ASSUME NEW t \in Traces, NEW p \in PlanResults
  PROVE  RecordPlan(t, p) \in Traces
<1>1. p.verdict \in StageStatus
  BY DEF PlanResults, PlanFailures, Accepted, Failure, StageStatus
<1>2. [status |-> p.verdict, reason |-> "NONE"] \in StageResult
  BY <1>1 DEF StageResult, StageReason
<1>3. [status |-> "PASS", reason |-> "NONE"] \in StageResult
  BY DEF StageResult, StageStatus, StageReason
<1> QED
  BY <1>2, <1>3 DEF RecordPlan, Traces

LEMMA RecordExecutionType ==
  ASSUME NEW t \in Traces, NEW result
  PROVE  RecordExecution(t, result) \in Traces
<1>1. {"execution_connection", "execution"} \subseteq Stages
  BY StageNames DEF ExecutionStages
<1>2. /\ {"PASS", "FAILED"} \subseteq StageStatus
      /\ {"NONE", "EXECUTION_ERROR"} \subseteq StageReason
  BY DEF StageStatus, StageReason
<1> DEFINE status == IF result = "NOT_CONNECTED" THEN "FAILED" ELSE "PASS"
           connected == RecordStage(t, "execution_connection", status, "NONE")
<1>3. connected \in Traces
  <2>1. status \in StageStatus
    BY <1>2
  <2> HIDE DEF status
  <2> QED
    BY <1>1, <1>2, <2>1, RecordStageType
<1>4. RecordStage(connected, "execution", "PASS", "NONE") \in Traces
  <2> HIDE DEF connected
  <2> QED
    BY <1>1, <1>2, <1>3, RecordStageType
<1>5. RecordStage(connected, "execution", "FAILED", "EXECUTION_ERROR") \in Traces
  <2> HIDE DEF connected
  <2> QED
    BY <1>1, <1>2, <1>3, RecordStageType
<1> QED
  BY <1>3, <1>4, <1>5 DEF RecordExecution

\* A decision's size by its kind.
LEMMA DecisionTypes ==
  ASSUME NEW call \in ModelCall, NEW d \in Decisions(call)
  PROVE  /\ d \in DecisionOrMismatch
         /\ d.kind \in DecisionType
         /\ d.kind = "EXPLORE" => d.size \in 1..MAX_PROBES
BY DEF Decisions, DecisionOrMismatch, DecisionType, Sizes, MAX_PROBES

LEMMA OtherDecisions ==
  /\ Mismatch \in DecisionOrMismatch /\ Mismatch.kind # "EXPLORE"
  /\ \A call \in ModelCall : /\ Answer(call) \in DecisionOrMismatch
                             /\ Answer(call).kind # "EXPLORE"
<1>1. "ANSWER" \in DecisionType
  BY DEF DecisionType, Sizes
<1>2. 0 \in 0..4
  OBVIOUS
<1> QED
  BY <1>1, <1>2 DEF Mismatch, Answer, DecisionOrMismatch

LEMMA FailureReasonType == FailureReasons \subseteq StageReason
BY DEF FailureReasons, LimitReason, BudgetLimit, StageReason
-----------------------------------------------------------------------------
(***************************************************************************)
(* What a model call and a probe query do to the budget.                   *)
(***************************************************************************)
LEMMA AllowedType ==
  ASSUME NEW s \in Settings, NEW r \in BOOLEAN
  PROVE  /\ Allowed(s, r) \in [ModelCall -> Nat]
         /\ ~r => Allowed(s, r)["GENERATION"] = 1
         /\ ~r /\ s.expansion => Allowed(s, r)["CONTEXT_EXPANSION"] = 1
         /\ ~r /\ s.exploration => /\ Allowed(s, r)["LOOK_FIRST"] = 1
                                   /\ Allowed(s, r)["EXPLORATION"] = s.rounds
         /\ ~r /\ s.readingCheck => Allowed(s, r)["READING_CHECK"] = 1
<1>1. s.rounds \in Nat
  BY DEF Settings
<1>2. CASE r
  BY <1>2 DEF Allowed
<1>3. CASE ~r
  <2>1. \A b, n : Times(b, n) \in {0, n}
    BY DEF Times
  <2> QED
    BY <1>1, <1>3, <2>1 DEF Allowed, ModelCall, Times
<1> QED
  BY <1>2, <1>3

\* A call is made only where the budget has one left, and uses it.
LEMMA AskSpends ==
  ASSUME TypeOK, NEW call \in ModelCall, Ask(call)
  PROVE  /\ budget' \in Budget
         /\ budget.used[call] < Allowed(settings, replay)[call]
         /\ budget'.used = [budget.used EXCEPT ![call] = @ + 1]
         /\ budget'.stopped = budget.stopped
<1>1. budget \in Budget /\ settings \in Settings /\ replay \in BOOLEAN
  BY DEF TypeOK
<1>2. Allowed(settings, replay)[call] \in Nat
  BY <1>1, AllowedType
<1>3. ~(Left(budget, settings, replay, call) <= 0)
  BY DEF Ask, Refused, Refusal, None
<1>4. budget' = [budget EXCEPT !.used[call] = @ + 1]
  BY DEF Ask, TakeCall
<1> QED
  BY <1>1, <1>2, <1>3, <1>4 DEF Budget, Left

LEMMA ReplySpendsTokens ==
  ASSUME TypeOK, NEW call \in ModelCall, Replied(call)
  PROVE  /\ budget' \in Budget
         /\ budget'.used = budget.used
         /\ budget'.stopped = budget.stopped
<1>1. PICK n \in CallTokens : budget' = [budget EXCEPT !.tokens = @ + n]
  BY DEF Replied, SpendTokens
<1>2. n \in Nat /\ budget \in Budget
  BY TokenAssumption DEF TypeOK
<1> QED
  BY <1>1, <1>2 DEF Budget

\* A limit that stops a step is remembered as itself or not at all.
LEMMA StopKeepsCalls ==
  ASSUME NEW b \in Budget, NEW limit \in BudgetLimit
  PROVE  /\ Stop(b, limit) \in Budget
         /\ Stop(b, limit).used = b.used
         /\ Stop(b, limit).stopped \in {b.stopped, limit}
BY DEF Stop, Budget

LEMMA LimitsThatRefuse ==
  ASSUME NEW b, NEW s, NEW l
  PROVE  /\ TimeOrTokens(b, s, l) \in {"DEADLINE", "TOKENS", None}
         /\ ProbeRefusal(b, s, l) \in {"PROBE_QUERIES", "DEADLINE", "TOKENS", None}
BY DEF TimeOrTokens, ProbeRefusal

\* A step that has a call left is never stopped for want of one.
LEMMA UnansweredKeepsCalls ==
  ASSUME TypeOK, NEW call \in ModelCall, NEW step, NEW other, NEW reason,
         Unanswered(call, step, other, reason),
         budget.stopped # "CALLS",
         at = step => Left(budget, settings, replay, call) > 0
  PROVE  /\ budget' \in Budget
         /\ budget'.used = budget.used
         /\ budget'.stopped # "CALLS"
         /\ refused' \subseteq ModelCall \X BudgetLimit
<1>1. /\ budget \in Budget /\ settings \in Settings /\ replay \in BOOLEAN
      /\ refused \subseteq ModelCall \X BudgetLimit
  BY DEF TypeOK
<1> DEFINE Kept == /\ budget' \in Budget
                   /\ budget'.used = budget.used
                   /\ budget'.stopped # "CALLS"
                   /\ refused' \subseteq ModelCall \X BudgetLimit
<1>2. ASSUME NEW limit \in BudgetLimit, limit # "CALLS",
             budget' = Stop(budget, limit),
             refused' = refused \cup {<<call, limit>>}
      PROVE  Kept
  <2>1. /\ budget' \in Budget /\ budget'.used = budget.used
        /\ budget'.stopped \in {budget.stopped, limit}
    BY <1>1, <1>2, StopKeepsCalls
  <2> QED
    BY <1>1, <1>2, <2>1
<1>3. CASE /\ at = step
           /\ Refused(call) # None
           /\ budget' = Stop(budget, Refused(call))
           /\ refused' = refused \cup {<<call, Refused(call)>>}
  <2>1. Left(budget, settings, replay, call) \in Int
    BY <1>1, AllowedType DEF Left, Budget
  <2>2. ~(Left(budget, settings, replay, call) <= 0)
    BY <1>3, <2>1
  <2>3. Refused(call) \in {"DEADLINE", "TOKENS", None}
    BY <2>2, LimitsThatRefuse DEF Refused, Refusal
  <2>4. Refused(call) \in BudgetLimit /\ Refused(call) # "CALLS"
    BY <1>3, <2>3 DEF BudgetLimit, None
  <2> QED
    BY <1>2, <1>3, <2>4
<1>4. CASE /\ budget' = Stop(budget, "DEADLINE")
           /\ refused' = refused \cup {<<call, "DEADLINE">>}
  BY <1>2, <1>4 DEF BudgetLimit
<1>5. CASE UNCHANGED <<budget, refused>>
  BY <1>1, <1>5
<1> QED
  BY <1>3, <1>4, <1>5 DEF Unanswered

LEMMA ProbeKeepsCalls ==
  ASSUME TypeOK, NEW refusal \in BudgetLimit \cup {None}, ProbeTaken(refusal),
         budget.stopped # "CALLS"
  PROVE  /\ budget' \in Budget
         /\ budget'.used = budget.used
         /\ budget'.stopped # "CALLS"
<1>1. budget \in Budget
  BY DEF TypeOK
<1>2. CASE refusal = None
  BY <1>1, <1>2 DEF ProbeTaken, TakeProbeQuery, Budget
<1>3. CASE refusal # None
  <2>1. refusal \in BudgetLimit /\ refusal # "CALLS"
    BY <1>3, LimitsThatRefuse DEF ProbeTaken, BudgetLimit, None
  <2>2. budget' = Stop(budget, refusal)
    BY <1>3 DEF ProbeTaken
  <2> QED
    BY <1>1, <2>1, <2>2, StopKeepsCalls
<1> QED
  BY <1>2, <1>3

-----------------------------------------------------------------------------
(***************************************************************************)
(* Ends of a run and steps on to the next stage.                           *)
(***************************************************************************)
LEMMA CloseEnds ==
  ASSUME NEW t \in Traces, NEW skipReason \in StageReason, NEW status \in StageStatus,
         NEW response \in StageReason, NEW result \in RuntimeOutcome,
         Close(t, skipReason, status, response, result)
  PROVE  trace' \in Traces /\ at' = "done" /\ outcome' = result
<1>1. SkipUnrecorded(t, AfterContext, skipReason) \in Traces
  BY SkipType
<1>2. "response" \in Stages
  BY StageNames
<1> QED
  BY <1>1, <1>2, RecordStageType DEF Close

\* Recording one stage, by its name.
LEMMA RecordsOne ==
  ASSUME NEW t \in Traces, NEW status \in StageStatus, NEW reason \in StageReason
  PROVE  /\ RecordStage(t, "context", status, reason) \in Traces
         /\ RecordStage(t, "generation", status, reason) \in Traces
         /\ RecordStage(t, "proposal_replay", status, reason) \in Traces
         /\ RecordStage(t, "decision_admission", status, reason) \in Traces
         /\ RecordStage(t, "context_expansion", status, reason) \in Traces
         /\ RecordStage(t, "exploration", status, reason) \in Traces
         /\ RecordStage(t, "reading_check", status, reason) \in Traces
         /\ RecordStage(t, "repair", status, reason) \in Traces
         /\ RecordStage(t, "result_check", status, reason) \in Traces
         /\ RecordStage(t, "response", status, reason) \in Traces
BY StageNames, RecordStageType

-----------------------------------------------------------------------------
(***************************************************************************)
(* The inductive invariant holds at the start, and every step keeps it.    *)
(***************************************************************************)
LEMMA InitInv == Init => IInv
<1> SUFFICES ASSUME Init PROVE IInv
  OBVIOUS
<1>1. settings \in Settings /\ replay \in BOOLEAN
  BY SettingsAssumption DEF Init
<1>2. TypeOK
  <2>1. budget \in Budget
    BY DEF Init, NewBudget, Budget, None
  <2>2. state \in States
    BY <1>1, OtherDecisions DEF Init, NewState, States, Settings
  <2>3. trace \in Traces
    BY DEF Init, EmptyTrace, Unrecorded, Traces, StageResult, StageReason
  <2>4. attempt \in Attempts
    BY DEF Init, NewAttempt, Attempts, Plans
  <2>5. /\ at \in Steps /\ late \in BOOLEAN
        /\ rounds \in 0..5 /\ left \in 0..MAX_PROBES /\ queries \in 0..2
    <3>1. at = "context" /\ rounds = 0 /\ left = 0 /\ queries = 0
      BY DEF Init
    <3>2. late \in BOOLEAN
      BY DEF Init
    <3> QED
      BY <3>1, <3>2, StepNames DEF MAX_PROBES
  <2>6. /\ outcome \in RuntimeOutcome \cup {"NONE"}
        /\ refused \subseteq ModelCall \X BudgetLimit
    BY DEF Init
  <2> QED
    BY <1>1, <2>1, <2>2, <2>3, <2>4, <2>5, <2>6 DEF TypeOK, Traces
<1>3. SizesInv
  BY DEF Init, SizesInv, NewState, Mismatch
<1>4. RoundsInv
  <2>1. settings.rounds \in 1..5
    BY <1>1 DEF Settings
  <2>2. /\ state.exploring => settings.exploration /\ ~replay
        /\ state.open => state.exploring
    <3> DEFINE looking == ~replay /\ settings.exploration
    <3>1. looking \in BOOLEAN
      OBVIOUS
    <3>2. state = [NewState EXCEPT !.exploring = looking, !.open = looking]
      BY DEF Init
    <3> HIDE DEF looking
    <3>3. state.exploring = looking /\ state.open = looking
      BY <3>1, <3>2 DEF NewState
    <3> QED
      BY <3>3 DEF looking
  <2>3. rounds = 0 /\ at = "context"
    BY DEF Init
  <2> QED
    BY <2>1, <2>2, <2>3 DEF RoundsInv
<1>5. CallsInv
  <2>1. CallsWithinAllowance
    BY <1>1, AllowedType DEF Init, NewBudget, CallsWithinAllowance, None, ModelCall
  <2> QED
    BY <2>1 DEF Init, NewBudget, CallsInv, ModelCall
<1>6. QueriesInv
  BY DEF Init, QueriesInv, NewAttempt, Planned, QueryResults
<1>7. EndInv
  BY DEF Init, EndInv
<1> QED
  BY <1>2, <1>3, <1>4, <1>5, <1>6, <1>7 DEF IInv

(***************************************************************************)
(* What a step keeps when it leaves most of the run alone.                 *)
(***************************************************************************)
LEMMA RoundsKept ==
  ASSUME RoundsInv, Fixed, UNCHANGED rounds, at # "probe", at' # "probe",
         state'.exploring = state.exploring, state'.open => state.open
  PROVE  RoundsInv'
BY DEF RoundsInv, Fixed

LEMMA CallsKept ==
  ASSUME CallsInv, Fixed, UNCHANGED rounds,
         budget'.used = budget.used, budget'.stopped # "CALLS",
         at' \in BeforeGeneration => at \in BeforeGeneration,
         at' \in BeforeWidening => at \in BeforeWidening,
         at' \in BeforeLooking => at \in BeforeLooking,
         at' \in BeforeReadings => at \in BeforeReadings,
         at' \in {"probe", "round"} => at \in {"probe", "round"},
         at' # "repair"
  PROVE  CallsInv'
BY DEF CallsInv, CallsWithinAllowance, Fixed

LEMMA QueriesKept ==
  ASSUME QueriesInv, NoQuery, at \notin Planned, at' \notin Planned \/ at' = "done"
  PROVE  QueriesInv'
BY DEF QueriesInv, NoQuery, Planned

\* The step at which a call is made.
AskedAt == [GENERATION |-> "generation", CONTEXT_EXPANSION |-> "widen",
            LOOK_FIRST |-> "look", EXPLORATION |-> "round",
            READING_CHECK |-> "check_readings", REPAIR |-> "repair"]

LEMMA CallsOfAsk ==
  ASSUME TypeOK, CallsInv, Fixed, UNCHANGED rounds,
         NEW call \in ModelCall, at = AskedAt[call], Ask(call)
  PROVE  CallsInv'
<1>1. /\ budget \in Budget /\ settings \in Settings /\ replay \in BOOLEAN
      /\ rounds \in Nat
  BY DEF TypeOK
<1>2. Allowed(settings, replay) \in [ModelCall -> Nat]
  BY <1>1, AllowedType
<1>3. /\ budget.used[call] < Allowed(settings, replay)[call]
      /\ budget'.used = [budget.used EXCEPT ![call] = @ + 1]
      /\ budget'.stopped = budget.stopped
      /\ at' = Awaiting[call]
  BY AskSpends DEF Ask
<1>4. CallsWithinAllowance'
  BY <1>1, <1>2, <1>3 DEF CallsInv, CallsWithinAllowance, Fixed, Budget
<1>5. CASE call = "GENERATION"
  BY <1>1, <1>3, <1>4, <1>5 DEF CallsInv, AskedAt, Awaiting, Budget, ModelCall,
     BeforeGeneration, BeforeWidening, BeforeLooking, BeforeReadings
<1>6. CASE call = "CONTEXT_EXPANSION"
  BY <1>1, <1>3, <1>4, <1>6 DEF CallsInv, AskedAt, Awaiting, Budget, ModelCall,
     BeforeGeneration, BeforeWidening, BeforeLooking, BeforeReadings
<1>7. CASE call = "LOOK_FIRST"
  BY <1>1, <1>3, <1>4, <1>7 DEF CallsInv, AskedAt, Awaiting, Budget, ModelCall,
     BeforeGeneration, BeforeWidening, BeforeLooking, BeforeReadings
<1>8. CASE call = "EXPLORATION"
  BY <1>1, <1>3, <1>4, <1>8 DEF CallsInv, AskedAt, Awaiting, Budget, ModelCall,
     BeforeGeneration, BeforeWidening, BeforeLooking, BeforeReadings
<1>9. CASE call = "READING_CHECK"
  BY <1>1, <1>3, <1>4, <1>9 DEF CallsInv, AskedAt, Awaiting, Budget, ModelCall,
     BeforeGeneration, BeforeWidening, BeforeLooking, BeforeReadings
<1>10. CASE call = "REPAIR"
  BY <1>1, <1>3, <1>4, <1>10 DEF CallsInv, AskedAt, Awaiting, Budget, ModelCall,
     BeforeGeneration, BeforeWidening, BeforeLooking, BeforeReadings
<1> QED
  BY <1>5, <1>6, <1>7, <1>8, <1>9, <1>10 DEF ModelCall

\* Every step that makes a model call.
LEMMA AskKeepsInv ==
  ASSUME IInv, NEW call \in ModelCall, at = AskedAt[call], Ask(call), Fixed,
         UNCHANGED <<state, rounds, left, attempt, queries, trace, outcome>>,
         call = "READING_CHECK" => state.decision.size \in 1..MAX_PROBES
  PROVE  IInv'
<1>1. budget' \in Budget /\ at' = Awaiting[call] /\ UNCHANGED refused
  BY AskSpends DEF IInv, Ask
<1>2. TypeOK'
  BY <1>1, StepNames DEF IInv, TypeOK, Fixed
<1>3. SizesInv'
  BY <1>1 DEF IInv, SizesInv, Awaiting, ModelCall
<1>4. RoundsInv'
  BY <1>1 DEF IInv, RoundsInv, Fixed, AskedAt, Awaiting, ModelCall
<1>5. CallsInv'
  BY CallsOfAsk DEF IInv
<1>6. QueriesInv'
  BY <1>1 DEF IInv, QueriesInv, Planned, AskedAt, Awaiting, ModelCall
<1>7. EndInv'
  BY <1>1 DEF IInv, EndInv, AskedAt, Awaiting, ModelCall
<1> QED
  BY <1>2, <1>3, <1>4, <1>5, <1>6, <1>7 DEF IInv

\* The steps of a run that come no earlier than the one it is at, the query's left out.
Onward ==
  /\ at' \notin Planned \cup {"probe", "round"} /\ at \notin Planned \cup {"probe"}
  /\ at' \in BeforeGeneration => at \in BeforeGeneration
  /\ at' \in BeforeWidening => at \in BeforeWidening
  /\ at' \in BeforeLooking => at \in BeforeLooking
  /\ at' \in BeforeReadings => at \in BeforeReadings

\* Every step before the query that begins no call and no round, or ends the run.
LEMMA StageKeepsInv ==
  ASSUME IInv, Fixed, NoQuery, UNCHANGED rounds,
         at' \in Steps, trace' \in Traces, state' \in States, left' \in 0..MAX_PROBES,
         budget' \in Budget, budget'.used = budget.used, budget'.stopped # "CALLS",
         refused' \subseteq ModelCall \X BudgetLimit,
         state'.exploring = state.exploring, state'.open => state.open,
         SizesInv',
         at \notin Planned \cup {"probe"},
         \/ Onward /\ UNCHANGED outcome
         \/ at' = "done" /\ outcome' \in RuntimeOutcome
  PROVE  IInv'
<1>1. TypeOK'
  BY DEF IInv, TypeOK, Fixed, NoQuery, Traces
<1>2. RoundsInv'
  BY RoundsKept DEF IInv, Onward
<1>3. CallsInv'
  BY CallsKept DEF IInv, Onward, Planned, BeforeGeneration, BeforeWidening,
     BeforeLooking, BeforeReadings
<1>4. QueriesInv'
  BY QueriesKept DEF IInv, Onward
<1>5. EndInv'
  BY DEF IInv, EndInv, Onward, Planned, RuntimeOutcome
<1> QED
  BY <1>1, <1>2, <1>3, <1>4, <1>5 DEF IInv

LEMMA ContextInv == IInv /\ ResolveContext => IInv'
<1> SUFFICES ASSUME IInv, ResolveContext PROVE IInv'
  OBVIOUS
<1>1. /\ trace' \in Traces
      /\ \/ at' = "generation" /\ outcome' = outcome
         \/ at' = "done" /\ outcome' = "NOT_ENTERED"
  <2>1. trace \in Traces
    BY DEF IInv, TypeOK, Traces
  <2>2. CASE GoOn(RecordStage(trace, "context", "PASS", "NONE"), "generation")
    BY <2>1, <2>2, RecordsOne, StatusNames DEF GoOn, StageReason
  <2>3. CASE Close(RecordStage(trace, "context", "FAILED", "CONTEXT_RESOLUTION_FAILURE"),
                   "CONTEXT_RESOLUTION_FAILURE", "PASS", "CONTEXT_RESOLUTION_FAILURE",
                   "NOT_ENTERED")
    <3>1. "CONTEXT_RESOLUTION_FAILURE" \in StageReason /\ "NOT_ENTERED" \in RuntimeOutcome
      BY DEF StageReason, RuntimeOutcome
    <3> QED
      BY <2>1, <2>3, <3>1, RecordsOne, CloseEnds, StatusNames
  <2> QED
    BY <2>2, <2>3 DEF ResolveContext
<1>2. at = "context" /\ NoCall /\ NoQuery /\ Fixed /\ UNCHANGED <<state, rounds, left>>
  BY DEF ResolveContext
<1>3. SizesInv'
  BY <1>1, <1>2 DEF IInv, SizesInv
<1> QED
  BY <1>1, <1>2, <1>3, StageKeepsInv, StepNames
     DEF IInv, TypeOK, CallsInv, CallsWithinAllowance, NoCall, Onward, Planned,
         RuntimeOutcome, BeforeGeneration, BeforeWidening, BeforeLooking, BeforeReadings

LEMMA ReplayInv == IInv /\ ReplayDecision => IInv'
<1> SUFFICES ASSUME IInv, ReplayDecision PROVE IInv'
  OBVIOUS
<1>1. trace' \in Traces /\ at' = "admit" /\ UNCHANGED outcome
  <2>1. {"SAVED_QUERY", "SERVER_BOUND_FROZEN_PROPOSAL"} \subseteq StageReason
    BY DEF StageReason
  <2>2. trace \in Traces
    BY DEF IInv, TypeOK, Traces
  <2>3. RecordStage(trace, "generation", "SKIPPED", "SAVED_QUERY") \in Traces
    BY <2>1, <2>2, RecordsOne, StatusNames
  <2> QED
    BY <2>1, <2>3, RecordsOne, StatusNames DEF ReplayDecision, GoOn
<1>2. /\ at = "generation" /\ NoCall /\ NoQuery /\ Fixed /\ UNCHANGED <<rounds, left>>
      /\ state' = [state EXCEPT !.decision = Answer("GENERATION")]
  BY DEF ReplayDecision
<1>3. /\ state' \in States
      /\ state'.decision.kind # "EXPLORE"
      /\ state'.exploring = state.exploring /\ state'.open = state.open
  BY <1>2, OtherDecisions DEF IInv, TypeOK, States, ModelCall
<1>4. SizesInv'
  BY <1>1, <1>2, <1>3 DEF IInv, SizesInv
<1> QED
  BY <1>1, <1>2, <1>3, <1>4, StageKeepsInv, StepNames
     DEF IInv, TypeOK, CallsInv, CallsWithinAllowance, NoCall, Onward, Planned,
         BeforeGeneration, BeforeWidening, BeforeLooking, BeforeReadings

LEMMA AskFirstInv == IInv /\ AskFirst => IInv'
BY AskKeepsInv DEF AskFirst, AskedAt, ModelCall, NoQuery

LEMMA FirstReplyInv == IInv /\ FirstReply => IInv'
<1> SUFFICES ASSUME IInv, FirstReply PROVE IInv'
  OBVIOUS
<1>1. trace' \in Traces /\ at' = "admit" /\ UNCHANGED outcome
  <2>1. {"NONE", "LIVE_MODEL"} \subseteq StageReason
    BY DEF StageReason
  <2>2. trace \in Traces
    BY DEF IInv, TypeOK, Traces
  <2>3. RecordStage(trace, "generation", "PASS", "NONE") \in Traces
    BY <2>1, <2>2, RecordsOne, StatusNames
  <2> QED
    BY <2>1, <2>3, RecordsOne, StatusNames DEF FirstReply, GoOn
<1>2. /\ at = "await_generation" /\ NoQuery /\ Fixed /\ UNCHANGED <<rounds, left>>
      /\ Replied("GENERATION") /\ UNCHANGED refused
  BY DEF FirstReply, Replied, Awaiting
<1>3. budget' \in Budget /\ budget'.used = budget.used /\ budget'.stopped = budget.stopped
  BY <1>2, ReplySpendsTokens DEF IInv, ModelCall
<1>4. /\ state' \in States
      /\ state'.decision.kind = "EXPLORE" => state'.decision.size \in 1..MAX_PROBES
      /\ state'.exploring = state.exploring /\ state'.open = state.open
  <2>1. PICK d \in Decisions("GENERATION") \cup {Mismatch} :
               state' = [state EXCEPT !.decision = d]
    BY DEF FirstReply
  <2>2. /\ d \in DecisionOrMismatch
        /\ d.kind = "EXPLORE" => d.size \in 1..MAX_PROBES
    BY OtherDecisions, DecisionTypes DEF ModelCall
  <2> QED
    BY <2>1, <2>2 DEF IInv, TypeOK, States
<1>5. SizesInv'
  BY <1>1, <1>2, <1>4 DEF IInv, SizesInv
<1> QED
  BY <1>1, <1>2, <1>3, <1>4, <1>5, StageKeepsInv, StepNames
     DEF IInv, TypeOK, CallsInv, CallsWithinAllowance, Onward, Planned,
         BeforeGeneration, BeforeWidening, BeforeLooking, BeforeReadings

\* Wherever an optional call is made, one is left.
LEMMA CallsLeft ==
  ASSUME IInv
  PROVE  /\ at = "widen" /\ AsksForTables =>
              Left(budget, settings, replay, "CONTEXT_EXPANSION") > 0
         /\ at = "look" /\ ReturnedWithoutLooking =>
              Left(budget, settings, replay, "LOOK_FIRST") > 0
         /\ at = "round" => Left(budget, settings, replay, "EXPLORATION") > 0
         /\ at = "check_readings" /\ ReadingsCountable =>
              Left(budget, settings, replay, "READING_CHECK") > 0
         /\ at = "repair" => Left(budget, settings, replay, "REPAIR") > 0
<1>1. /\ budget \in Budget /\ settings \in Settings /\ replay \in BOOLEAN /\ rounds \in Nat
  BY DEF IInv, TypeOK
<1>2. CallsInv /\ RoundsInv
  BY DEF IInv
<1>3. settings.rounds \in Nat /\ budget.used \in [ModelCall -> Nat]
  BY <1>1 DEF Settings, Budget
<1>4. CASE at = "widen" /\ AsksForTables
  BY <1>1, <1>2, <1>4, AllowedType DEF CallsInv, AsksForTables, BeforeWidening, Left
<1>5. CASE at = "look" /\ ReturnedWithoutLooking
  BY <1>1, <1>2, <1>5, AllowedType
     DEF CallsInv, RoundsInv, ReturnedWithoutLooking, BeforeLooking, Left
<1>6. CASE at = "round"
  BY <1>1, <1>2, <1>3, <1>6, AllowedType DEF CallsInv, RoundsInv, Left, ModelCall
<1>7. CASE at = "check_readings" /\ ReadingsCountable
  BY <1>1, <1>2, <1>7, AllowedType DEF CallsInv, ReadingsCountable, BeforeReadings, Left
<1>8. CASE at = "repair"
  BY <1>2, <1>8 DEF CallsInv, Repairable
<1> QED
  BY <1>4, <1>5, <1>6, <1>7, <1>8

LEMMA FirstFailsInv == IInv /\ FirstFails => IInv'
<1> SUFFICES ASSUME IInv, FirstFails PROVE IInv'
  OBVIOUS
<1>1. Unanswered("GENERATION", "generation", "PROVIDER_FAILURE", "PROVIDER_FAILURE")
      /\ NoQuery /\ Fixed /\ UNCHANGED <<state, rounds, left>>
  BY DEF FirstFails
<1>2. at = "await_generation"
  <2>1. Refused("GENERATION") \in BudgetLimit \cup {None}
    BY LimitsThatRefuse DEF Refused, Refusal, BudgetLimit
  <2>2. \A limit \in BudgetLimit : LimitReason[limit] # "PROVIDER_FAILURE"
    BY DEF BudgetLimit, LimitReason
  <2> QED
    BY <1>1, <2>1, <2>2 DEF Unanswered, Awaiting
<1>3. trace' \in Traces /\ at' = "done" /\ outcome' = "GENERATION_ERROR"
  <2>1. /\ {"PROVIDER_FAILURE", "TRANSPORT_RESPONSE_RECEIVED", "INVALID_TYPED_DECISION"}
             \subseteq StageReason
        /\ "GENERATION_ERROR" \in RuntimeOutcome
    BY DEF StageReason, RuntimeOutcome
  <2>2. trace \in Traces
    BY DEF IInv, TypeOK, Traces
  <2>3. /\ RecordStage(trace, "generation", "FAILED", "PROVIDER_FAILURE") \in Traces
        /\ RecordStage(trace, "generation", "PASS", "TRANSPORT_RESPONSE_RECEIVED") \in Traces
    BY <2>1, <2>2, RecordsOne, StatusNames
  <2>4. RecordStage(RecordStage(trace, "generation", "PASS", "TRANSPORT_RESPONSE_RECEIVED"),
                    "decision_admission", "FAILED", "INVALID_TYPED_DECISION") \in Traces
    BY <2>1, <2>3, RecordsOne, StatusNames
  <2> QED
    BY <2>1, <2>3, <2>4, CloseEnds, StatusNames DEF FirstFails
<1>4. /\ budget' \in Budget /\ budget'.used = budget.used /\ budget'.stopped # "CALLS"
      /\ refused' \subseteq ModelCall \X BudgetLimit
  BY <1>1, <1>2, UnansweredKeepsCalls
     DEF IInv, CallsInv, CallsWithinAllowance, ModelCall
<1>5. SizesInv'
  BY <1>1, <1>2, <1>3 DEF IInv, SizesInv
<1> QED
  BY <1>1, <1>2, <1>3, <1>4, <1>5, StageKeepsInv, StepNames
     DEF IInv, TypeOK, Planned, RuntimeOutcome

LEMMA AdmitInv == IInv /\ Admit => IInv'
<1> SUFFICES ASSUME IInv, Admit PROVE IInv'
  OBVIOUS
<1>1. at = "admit" /\ NoCall /\ NoQuery /\ Fixed /\ UNCHANGED <<state, rounds, left>>
  BY DEF Admit
<1>2. /\ trace' \in Traces
      /\ \/ at' = "widen" /\ UNCHANGED outcome
         \/ at' = "done" /\ outcome' = "GENERATION_ERROR"
  <2>1. /\ {"NONE", "CASE_ID_MISMATCH", "DECISION_ADMISSION_FAILURE"} \subseteq StageReason
        /\ "GENERATION_ERROR" \in RuntimeOutcome
    BY DEF StageReason, RuntimeOutcome
  <2>2. trace \in Traces
    BY DEF IInv, TypeOK, Traces
  <2>3. /\ RecordStage(trace, "decision_admission", "FAILED", "CASE_ID_MISMATCH") \in Traces
        /\ RecordStage(trace, "decision_admission", "PASS", "NONE") \in Traces
    BY <2>1, <2>2, RecordsOne, StatusNames
  <2> QED
    BY <2>1, <2>3, CloseEnds, StatusNames DEF Admit, Stopped, GoOn
<1>3. SizesInv'
  BY <1>1, <1>2 DEF IInv, SizesInv
<1> QED
  BY <1>1, <1>2, <1>3, StageKeepsInv, StepNames
     DEF IInv, TypeOK, CallsInv, CallsWithinAllowance, NoCall, Onward, Planned,
         RuntimeOutcome, BeforeGeneration, BeforeWidening, BeforeLooking, BeforeReadings

LEMMA ExpansionRecords ==
  ASSUME IInv, NEW status \in StageStatus, NEW reason \in StageReason,
         ExpansionRecorded(status, reason)
  PROVE  trace' \in Traces /\ at' = "look" /\ UNCHANGED outcome
BY RecordsOne DEF IInv, TypeOK, Traces, ExpansionRecorded, GoOn

LEMMA WidenInv == IInv /\ WidenContext => IInv'
<1> SUFFICES ASSUME IInv, WidenContext PROVE IInv'
  OBVIOUS
<1>1. at = "widen" /\ NoQuery /\ Fixed /\ UNCHANGED <<state, rounds, left>>
  BY DEF WidenContext
<1>2. CASE Ask("CONTEXT_EXPANSION") /\ UNCHANGED <<trace, outcome>>
  BY <1>1, <1>2, AskKeepsInv DEF AskedAt, ModelCall, NoQuery
<1>3. ASSUME NEW status \in StageStatus, NEW reason \in StageReason,
             ExpansionRecorded(status, reason), NoCall
      PROVE  IInv'
  <2>1. trace' \in Traces /\ at' = "look" /\ UNCHANGED outcome
    BY <1>3, ExpansionRecords
  <2>2. SizesInv'
    BY <1>1, <2>1 DEF IInv, SizesInv
  <2> QED
    BY <1>1, <1>3, <2>1, <2>2, StageKeepsInv, StepNames
       DEF IInv, TypeOK, CallsInv, CallsWithinAllowance, NoCall, Onward, Planned,
           BeforeGeneration, BeforeWidening, BeforeLooking, BeforeReadings
<1>4. /\ {"EXPANSION_FAILURE", "SAVED_QUERY", "EXPANSION_NOT_ALLOWED", "NOT_NEEDED"}
           \subseteq StageReason
      /\ {"FAILED", "SKIPPED"} \subseteq StageStatus
  BY DEF StageReason, StageStatus
<1> QED
  BY <1>2, <1>3, <1>4 DEF WidenContext

LEMMA ExpansionReplyInv == IInv /\ ExpansionReply => IInv'
<1> SUFFICES ASSUME IInv, ExpansionReply PROVE IInv'
  OBVIOUS
<1>1. /\ at = "await_expansion" /\ NoQuery /\ Fixed /\ UNCHANGED <<rounds, left>>
      /\ Replied("CONTEXT_EXPANSION") /\ UNCHANGED refused
  BY DEF ExpansionReply, Replied, Awaiting
<1>2. budget' \in Budget /\ budget'.used = budget.used /\ budget'.stopped = budget.stopped
  BY <1>1, ReplySpendsTokens DEF IInv, ModelCall
<1>3. trace' \in Traces /\ at' = "look" /\ UNCHANGED outcome
  <2>1. {"CASE_ID_MISMATCH", "NONE"} \subseteq StageReason
    BY DEF StageReason
  <2> QED
    BY <2>1, ExpansionRecords, StatusNames DEF ExpansionReply
<1>4. /\ state' \in States
      /\ state'.decision.kind = "EXPLORE" => state'.decision.size \in 1..MAX_PROBES
      /\ state'.exploring = state.exploring /\ state'.open = state.open
  <2>1. CASE UNCHANGED state
    BY <2>1 DEF IInv, TypeOK, SizesInv
  <2>2. CASE \E d \in Decisions("CONTEXT_EXPANSION") : state' = [state EXCEPT !.decision = d]
    BY <2>2, DecisionTypes DEF IInv, TypeOK, States, ModelCall
  <2> QED
    BY <2>1, <2>2 DEF ExpansionReply
<1>5. SizesInv'
  BY <1>1, <1>3, <1>4 DEF IInv, SizesInv
<1> QED
  BY <1>1, <1>2, <1>3, <1>4, <1>5, StageKeepsInv, StepNames
     DEF IInv, TypeOK, CallsInv, CallsWithinAllowance, Onward, Planned,
         BeforeGeneration, BeforeWidening, BeforeLooking, BeforeReadings

LEMMA ExpansionFailsInv == IInv /\ ExpansionFails => IInv'
<1> SUFFICES ASSUME IInv, ExpansionFails PROVE IInv'
  OBVIOUS
<1>1. PICK reason \in FailureReasons :
        /\ Unanswered("CONTEXT_EXPANSION", "widen", "EXPANSION_FAILURE", reason)
        /\ ExpansionRecorded("FAILED", reason)
  BY DEF ExpansionFails
<1>2. /\ at \in {"widen", "await_expansion"}
      /\ at = "widen" => AsksForTables
      /\ NoQuery /\ Fixed /\ UNCHANGED <<state, rounds, left>>
  BY <1>1 DEF ExpansionFails, Unanswered, Awaiting
<1>3. /\ budget' \in Budget /\ budget'.used = budget.used /\ budget'.stopped # "CALLS"
      /\ refused' \subseteq ModelCall \X BudgetLimit
  BY <1>1, <1>2, UnansweredKeepsCalls, CallsLeft
     DEF IInv, CallsInv, CallsWithinAllowance, ModelCall
<1>4. trace' \in Traces /\ at' = "look" /\ UNCHANGED outcome
  BY <1>1, ExpansionRecords, StatusNames, FailureReasonType
<1>5. SizesInv'
  BY <1>2, <1>4 DEF IInv, SizesInv
<1> QED
  BY <1>2, <1>3, <1>4, <1>5, StageKeepsInv, StepNames
     DEF IInv, TypeOK, Onward, Planned, BeforeGeneration, BeforeWidening, BeforeLooking,
         BeforeReadings

LEMMA LookFirstInv == IInv /\ LookFirst => IInv'
<1> SUFFICES ASSUME IInv, LookFirst PROVE IInv'
  OBVIOUS
<1>1. at = "look" /\ NoQuery /\ Fixed /\ UNCHANGED <<state, rounds, left>>
  BY DEF LookFirst
<1>2. CASE Ask("LOOK_FIRST") /\ UNCHANGED <<trace, outcome>>
  BY <1>1, <1>2, AskKeepsInv DEF AskedAt, ModelCall, NoQuery
<1>3. CASE GoOn(trace, "explore") /\ NoCall
  <2>1. SizesInv'
    BY <1>1, <1>3 DEF IInv, SizesInv, GoOn
  <2> QED
    BY <1>1, <1>3, <2>1, StageKeepsInv, StepNames
       DEF IInv, TypeOK, Traces, CallsInv, CallsWithinAllowance, NoCall, GoOn, Onward,
           Planned, BeforeGeneration, BeforeWidening, BeforeLooking, BeforeReadings
<1> QED
  BY <1>2, <1>3 DEF LookFirst

LEMMA LookFirstReplyInv == IInv /\ LookFirstReply => IInv'
<1> SUFFICES ASSUME IInv, LookFirstReply PROVE IInv'
  OBVIOUS
<1>1. /\ at = "await_look" /\ NoQuery /\ Fixed /\ UNCHANGED <<rounds, left>>
      /\ Replied("LOOK_FIRST") /\ UNCHANGED refused
      /\ GoOn(trace, "explore")
  BY DEF LookFirstReply, Replied, Awaiting
<1>2. budget' \in Budget /\ budget'.used = budget.used /\ budget'.stopped = budget.stopped
  BY <1>1, ReplySpendsTokens DEF IInv, ModelCall
<1>3. /\ state' \in States
      /\ state'.decision.kind = "EXPLORE" => state'.decision.size \in 1..MAX_PROBES
      /\ state'.exploring = state.exploring /\ state'.open = state.open
  <2>1. PICK d \in Decisions("LOOK_FIRST") \cup {state.decision} :
               state' = [state EXCEPT !.decision = d, !.lookedFirst = TRUE]
    BY DEF LookFirstReply
  <2>2. /\ d \in DecisionOrMismatch
        /\ d.kind = "EXPLORE" => d.size \in 1..MAX_PROBES
    BY DecisionTypes DEF ModelCall, IInv, TypeOK, States, SizesInv
  <2> QED
    BY <2>1, <2>2 DEF IInv, TypeOK, States
<1>4. SizesInv'
  BY <1>1, <1>3 DEF IInv, SizesInv, GoOn
<1> QED
  BY <1>1, <1>2, <1>3, <1>4, StageKeepsInv, StepNames
     DEF IInv, TypeOK, Traces, CallsInv, CallsWithinAllowance, GoOn, Onward, Planned,
         BeforeGeneration, BeforeWidening, BeforeLooking, BeforeReadings

LEMMA LookFirstFailsInv == IInv /\ LookFirstFails => IInv'
<1> SUFFICES ASSUME IInv, LookFirstFails PROVE IInv'
  OBVIOUS
<1>1. PICK reason \in FailureReasons :
        Unanswered("LOOK_FIRST", "look", "PROVIDER_FAILURE", reason)
  BY DEF LookFirstFails
<1>2. /\ at \in {"look", "await_look"}
      /\ at = "look" => ReturnedWithoutLooking
      /\ state' = [state EXCEPT !.lookedFirst = TRUE]
      /\ GoOn(trace, "explore") /\ NoQuery /\ Fixed /\ UNCHANGED <<rounds, left>>
  BY <1>1 DEF LookFirstFails, Unanswered, Awaiting
<1>3. /\ budget' \in Budget /\ budget'.used = budget.used /\ budget'.stopped # "CALLS"
      /\ refused' \subseteq ModelCall \X BudgetLimit
  BY <1>1, <1>2, UnansweredKeepsCalls, CallsLeft
     DEF IInv, CallsInv, CallsWithinAllowance, ModelCall
<1>4. /\ state' \in States /\ state'.decision = state.decision
      /\ state'.exploring = state.exploring /\ state'.open = state.open
  BY <1>2 DEF IInv, TypeOK, States
<1>5. SizesInv'
  BY <1>2, <1>4 DEF IInv, SizesInv, GoOn
<1> QED
  BY <1>2, <1>3, <1>4, <1>5, StageKeepsInv, StepNames
     DEF IInv, TypeOK, Traces, GoOn, Onward, Planned, BeforeGeneration, BeforeWidening,
         BeforeLooking, BeforeReadings

LEMMA ExplorationEnds ==
  ASSUME IInv, NEW reason \in StageReason, ExplorationFailed(reason)
  PROVE  trace' \in Traces /\ at' = "done" /\ outcome' = "GENERATION_ERROR"
<1>1. "EXPLORATION_FAILURE" \in StageReason /\ "GENERATION_ERROR" \in RuntimeOutcome
  BY DEF StageReason, RuntimeOutcome
<1>2. RecordStage(trace, "exploration", "FAILED", reason) \in Traces
  BY RecordsOne, StatusNames DEF IInv, TypeOK, Traces
<1> QED
  BY <1>1, <1>2, CloseEnds, StatusNames DEF ExplorationFailed, Stopped

LEMMA ExplorationRecords ==
  ASSUME IInv, NEW status \in StageStatus, NEW reason \in StageReason, NEW step,
         GoOn(RecordStage(trace, "exploration", status, reason), step)
  PROVE  trace' \in Traces /\ at' = step /\ UNCHANGED outcome
BY RecordsOne DEF IInv, TypeOK, Traces, GoOn

LEMMA BeginRoundKeepsInv ==
  ASSUME IInv, Fixed, NoQuery, at \in {"explore", "await_round"}, state.open,
         NEW d \in DecisionOrMismatch, d.size \in 1..MAX_PROBES, BeginRound(d),
         budget' \in Budget, budget'.used = budget.used, budget'.stopped # "CALLS",
         refused' \subseteq ModelCall \X BudgetLimit
  PROVE  IInv'
<1>1. /\ rounds' = rounds + 1 /\ left' = d.size /\ at' = "probe"
      /\ state' = [state EXCEPT !.decision = d] /\ UNCHANGED <<trace, outcome>>
  BY DEF BeginRound, GoOn
<1>2. /\ state' \in States /\ state'.decision = d
      /\ state'.exploring = state.exploring /\ state'.open = state.open
  BY <1>1 DEF IInv, TypeOK, States
<1>3. /\ rounds \in Nat /\ settings.rounds \in 1..5 /\ rounds < settings.rounds
      /\ state.exploring
  BY DEF IInv, TypeOK, Settings, RoundsInv
<1>4. TypeOK'
  <2>1. rounds' \in 0..5 /\ left' \in 0..MAX_PROBES
    BY <1>1, <1>3 DEF MAX_PROBES
  <2> QED
    BY <1>1, <1>2, <2>1, StepNames DEF IInv, TypeOK, Fixed, NoQuery
<1>5. SizesInv'
  BY <1>1, <1>2 DEF SizesInv, MAX_PROBES
<1>6. RoundsInv'
  BY <1>1, <1>2, <1>3 DEF IInv, RoundsInv, Fixed
<1>7. CallsInv'
  <2>1. budget.used["EXPLORATION"] \in Nat /\ budget.used["EXPLORATION"] <= rounds
    BY DEF IInv, TypeOK, Budget, ModelCall, CallsInv
  <2>2. budget'.used["EXPLORATION"] < rounds'
    BY <1>1, <1>3, <2>1
  <2>3. CallsWithinAllowance'
    BY DEF IInv, CallsInv, CallsWithinAllowance, Fixed
  <2> QED
    BY <1>1, <1>3, <2>1, <2>2, <2>3
       DEF IInv, CallsInv, BeforeGeneration, BeforeWidening, BeforeLooking, BeforeReadings
<1>8. QueriesInv'
  BY <1>1, QueriesKept DEF IInv, Planned
<1>9. EndInv'
  BY <1>1 DEF IInv, EndInv
<1> QED
  BY <1>4, <1>5, <1>6, <1>7, <1>8, <1>9 DEF IInv

LEMMA ExploreInv == IInv /\ Explore => IInv'
<1> SUFFICES ASSUME IInv, Explore PROVE IInv'
  OBVIOUS
<1>1. at = "explore" /\ NoCall /\ NoQuery /\ Fixed
  BY DEF Explore
<1>2. /\ budget' \in Budget /\ budget'.used = budget.used /\ budget'.stopped # "CALLS"
      /\ refused' \subseteq ModelCall \X BudgetLimit
  BY <1>1 DEF IInv, TypeOK, CallsInv, CallsWithinAllowance, NoCall
<1>3. CASE /\ state.decision.kind = "EXPLORE" /\ state.open
           /\ BeginRound(state.decision)
  <2>1. state.decision \in DecisionOrMismatch /\ state.decision.size \in 1..MAX_PROBES
    BY <1>3 DEF IInv, TypeOK, States, SizesInv
  <2> QED
    BY <1>1, <1>2, <1>3, <2>1, BeginRoundKeepsInv
<1>4. CASE ExplorationFailed("EXPLORATION_NOT_CLOSED") /\ UNCHANGED <<state, rounds, left>>
  <2>1. trace' \in Traces /\ at' = "done" /\ outcome' = "GENERATION_ERROR"
    BY <1>4, ExplorationEnds DEF StageReason
  <2>2. SizesInv'
    BY <1>4, <2>1 DEF IInv, SizesInv
  <2> QED
    BY <1>1, <1>2, <1>4, <2>1, <2>2, StageKeepsInv, StepNames
       DEF IInv, TypeOK, Planned, RuntimeOutcome
<1>5. ASSUME NEW reason \in StageReason,
             GoOn(RecordStage(trace, "exploration", "SKIPPED", reason), "check_readings"),
             state' = Closed(state), UNCHANGED <<rounds, left>>
      PROVE  IInv'
  <2>1. trace' \in Traces /\ at' = "check_readings" /\ UNCHANGED outcome
    BY <1>5, ExplorationRecords, StatusNames
  <2>2. /\ state' \in States /\ state'.decision = state.decision
        /\ state'.exploring = state.exploring /\ ~state'.open
    BY <1>5 DEF Closed, IInv, TypeOK, States
  <2>3. SizesInv'
    BY <1>5, <2>1, <2>2 DEF IInv, SizesInv
  <2> QED
    BY <1>1, <1>2, <1>5, <2>1, <2>2, <2>3, StageKeepsInv, StepNames
       DEF IInv, TypeOK, Onward, Planned, BeforeGeneration, BeforeWidening, BeforeLooking,
           BeforeReadings
<1>6. {"SAVED_QUERY", "DECLINED_TO_LOOK", "NOT_REQUESTED", "EXPLORATION_NOT_ALLOWED"}
        \subseteq StageReason
  BY DEF StageReason
<1> QED
  BY <1>3, <1>4, <1>5, <1>6 DEF Explore

LEMMA RunProbeInv == IInv /\ RunProbe => IInv'
<1> SUFFICES ASSUME IInv, RunProbe PROVE IInv'
  OBVIOUS
<1>1. /\ at = "probe" /\ left' = left - 1
      /\ NoQuery /\ Fixed /\ UNCHANGED rounds
  BY DEF RunProbe
<1>2. /\ budget' \in Budget /\ budget'.used = budget.used /\ budget'.stopped # "CALLS"
      /\ UNCHANGED refused
  <2>1. PICK refusal \in BudgetLimit \cup {None} : ProbeTaken(refusal)
    BY DEF RunProbe
  <2>2. UNCHANGED refused
    BY <2>1 DEF ProbeTaken
  <2> QED
    BY <2>1, <2>2, ProbeKeepsCalls DEF IInv, CallsInv, CallsWithinAllowance
<1>3. /\ left \in 1..3 /\ rounds \in 1..5 /\ settings.rounds \in 1..5
      /\ rounds <= settings.rounds /\ state.exploring
  BY <1>1 DEF IInv, TypeOK, SizesInv, RoundsInv, Settings, MAX_PROBES
<1>4. CASE /\ left = 1 /\ GoOn(trace, "round")
           /\ state' = [state EXCEPT !.open = rounds < settings.rounds, !.results = TRUE]
  <2> DEFINE more == rounds < settings.rounds
  <2>1. more \in BOOLEAN
    OBVIOUS
  <2>2. /\ state' \in States /\ state'.decision = state.decision
        /\ state'.exploring = state.exploring /\ state'.open = more
    <3>1. state' = [state EXCEPT !.open = more, !.results = TRUE]
      BY <1>4
    <3> HIDE DEF more
    <3> QED
      BY <2>1, <3>1 DEF IInv, TypeOK, States
  <2>3. at' = "round" /\ UNCHANGED <<trace, outcome>>
    BY <1>4 DEF GoOn
  <2>4. TypeOK'
    <3>1. left' \in 0..MAX_PROBES
      BY <1>1, <1>3 DEF MAX_PROBES
    <3> QED
      BY <1>1, <1>2, <2>2, <2>3, <3>1, StepNames DEF IInv, TypeOK, Fixed, NoQuery
  <2>5. SizesInv'
    BY <2>2, <2>3 DEF IInv, SizesInv
  <2>6. RoundsInv'
    BY <1>1, <1>3, <2>2, <2>3 DEF IInv, RoundsInv, Fixed
  <2>7. CallsInv'
    BY <1>1, <1>2, <2>3, CallsKept
       DEF IInv, BeforeGeneration, BeforeWidening, BeforeLooking, BeforeReadings
  <2>8. QueriesInv' /\ EndInv'
    BY <1>1, <2>3, QueriesKept DEF IInv, EndInv, Planned
  <2> QED
    BY <2>4, <2>5, <2>6, <2>7, <2>8 DEF IInv
<1>5. CASE left # 1 /\ GoOn(trace, "probe") /\ UNCHANGED state
  <2>1. at' = "probe" /\ UNCHANGED <<trace, outcome>>
    BY <1>5 DEF GoOn
  <2>2. TypeOK'
    <3>1. left' \in 0..MAX_PROBES
      BY <1>1, <1>3 DEF MAX_PROBES
    <3> QED
      BY <1>1, <1>2, <1>5, <2>1, <3>1, StepNames DEF IInv, TypeOK, Fixed, NoQuery
  <2>3. SizesInv'
    BY <1>1, <1>3, <1>5, <2>1 DEF IInv, SizesInv
  <2>4. RoundsInv'
    BY <1>1, <1>5, <2>1 DEF IInv, RoundsInv, Fixed
  <2>5. CallsInv'
    BY <1>1, <1>2, <2>1, CallsKept
       DEF IInv, BeforeGeneration, BeforeWidening, BeforeLooking, BeforeReadings
  <2>6. QueriesInv' /\ EndInv'
    BY <1>1, <2>1, QueriesKept DEF IInv, EndInv, Planned
  <2> QED
    BY <2>2, <2>3, <2>4, <2>5, <2>6 DEF IInv
<1> QED
  BY <1>4, <1>5 DEF RunProbe

LEMMA AskAfterProbesInv == IInv /\ AskAfterProbes => IInv'
BY AskKeepsInv DEF AskAfterProbes, AskedAt, ModelCall, NoQuery

LEMMA RoundReplyInv == IInv /\ RoundReply => IInv'
<1> SUFFICES ASSUME IInv, RoundReply PROVE IInv'
  OBVIOUS
<1>1. /\ at = "await_round" /\ NoQuery /\ Fixed
      /\ Replied("EXPLORATION") /\ UNCHANGED refused
  BY DEF RoundReply, Replied, Awaiting
<1>2. budget' \in Budget /\ budget'.used = budget.used /\ budget'.stopped = budget.stopped
  BY <1>1, ReplySpendsTokens DEF IInv, ModelCall
<1>3. /\ budget'.stopped # "CALLS"
      /\ refused' \subseteq ModelCall \X BudgetLimit
  BY <1>1, <1>2 DEF IInv, TypeOK, CallsInv, CallsWithinAllowance
<1>4. CASE /\ \E reason \in {"CASE_ID_MISMATCH", "EXPLORATION_NOT_CLOSED"} :
                ExplorationFailed(reason)
           /\ UNCHANGED <<state, rounds, left>>
  <2>1. {"CASE_ID_MISMATCH", "EXPLORATION_NOT_CLOSED"} \subseteq StageReason
    BY DEF StageReason
  <2>2. trace' \in Traces /\ at' = "done" /\ outcome' = "GENERATION_ERROR"
    BY <1>4, <2>1, ExplorationEnds
  <2>3. SizesInv'
    BY <1>4, <2>2 DEF IInv, SizesInv
  <2> QED
    BY <1>1, <1>2, <1>3, <1>4, <2>2, <2>3, StageKeepsInv, StepNames
       DEF IInv, TypeOK, Planned, RuntimeOutcome
<1>5. ASSUME NEW d \in Decisions("EXPLORATION"), d.kind = "EXPLORE", state.open,
             BeginRound(d)
      PROVE  IInv'
  <2>1. d \in DecisionOrMismatch /\ d.size \in 1..MAX_PROBES
    BY <1>5, DecisionTypes DEF ModelCall
  <2> QED
    BY <1>1, <1>2, <1>3, <1>5, <2>1, BeginRoundKeepsInv
<1>6. ASSUME NEW d \in Decisions("EXPLORATION"), d.kind # "EXPLORE",
             GoOn(RecordStage(trace, "exploration", "PASS", "NONE"), "check_readings"),
             state' = Closed([state EXCEPT !.decision = d]),
             UNCHANGED <<rounds, left>>
      PROVE  IInv'
  <2>1. trace' \in Traces /\ at' = "check_readings" /\ UNCHANGED outcome
    BY <1>6, ExplorationRecords, StatusNames DEF StageReason
  <2>2. /\ state' \in States /\ state'.decision = d
        /\ state'.exploring = state.exploring /\ ~state'.open
    BY <1>6, DecisionTypes DEF Closed, IInv, TypeOK, States, ModelCall
  <2>3. SizesInv'
    BY <1>1, <1>6, <2>1, <2>2 DEF IInv, SizesInv
  <2> QED
    BY <1>1, <1>2, <1>3, <1>6, <2>1, <2>2, <2>3, StageKeepsInv, StepNames
       DEF IInv, TypeOK, Onward, Planned, BeforeGeneration, BeforeWidening, BeforeLooking,
           BeforeReadings
<1> QED
  BY <1>4, <1>5, <1>6 DEF RoundReply

LEMMA RoundFailsInv == IInv /\ RoundFails => IInv'
<1> SUFFICES ASSUME IInv, RoundFails PROVE IInv'
  OBVIOUS
<1>1. PICK reason \in FailureReasons :
        /\ Unanswered("EXPLORATION", "round", "PROVIDER_FAILURE", reason)
        /\ ExplorationFailed(reason)
  BY DEF RoundFails
<1>2. /\ at \in {"round", "await_round"}
      /\ NoQuery /\ Fixed /\ UNCHANGED <<state, rounds, left>>
  BY <1>1 DEF RoundFails, Unanswered, Awaiting
<1>3. /\ budget' \in Budget /\ budget'.used = budget.used /\ budget'.stopped # "CALLS"
      /\ refused' \subseteq ModelCall \X BudgetLimit
  BY <1>1, <1>2, UnansweredKeepsCalls, CallsLeft
     DEF IInv, CallsInv, CallsWithinAllowance, ModelCall
<1>4. trace' \in Traces /\ at' = "done" /\ outcome' = "GENERATION_ERROR"
  BY <1>1, ExplorationEnds, FailureReasonType
<1>5. SizesInv'
  BY <1>2, <1>4 DEF IInv, SizesInv
<1> QED
  BY <1>2, <1>3, <1>4, <1>5, StageKeepsInv, StepNames
     DEF IInv, TypeOK, Planned, RuntimeOutcome

LEMMA ReadingsRecord ==
  ASSUME IInv, NEW status \in StageStatus, NEW reason \in StageReason,
         ReadingsRecorded(status, reason)
  PROVE  trace' \in Traces /\ at' = "query" /\ UNCHANGED outcome
BY RecordsOne DEF IInv, TypeOK, Traces, ReadingsRecorded, GoOn

LEMMA ReadingReasons ==
  {"SAVED_QUERY", "NOT_ASKED", "READING_CHECK_NOT_ALLOWED", "READINGS_NOT_COUNTABLE",
   "NO_SQL_PER_READING", "READING_NOT_RUN", "READINGS_AGREE", "READINGS_DIFFER",
   "READINGS_DIFFER_ASSUMED"} \subseteq StageReason
BY DEF StageReason

LEMMA CheckReadingsInv == IInv /\ CheckReadings => IInv'
<1> SUFFICES ASSUME IInv, CheckReadings PROVE IInv'
  OBVIOUS
<1>1. at = "check_readings" /\ NoQuery /\ Fixed /\ UNCHANGED <<state, rounds, left>>
  BY DEF CheckReadings
<1>2. CASE ReadingsCountable /\ Ask("READING_CHECK") /\ UNCHANGED <<trace, outcome>>
  <2>1. state.decision.size \in 1..MAX_PROBES
    BY <1>2 DEF ReadingsCountable, MAX_PROBES
  <2> QED
    BY <1>1, <1>2, <2>1, AskKeepsInv DEF AskedAt, ModelCall, NoQuery
<1>3. ASSUME NEW reason \in StageReason, ReadingsRecorded("SKIPPED", reason), NoCall
      PROVE  IInv'
  <2>1. trace' \in Traces /\ at' = "query" /\ UNCHANGED outcome
    BY <1>3, ReadingsRecord, StatusNames
  <2>2. SizesInv'
    BY <1>1, <2>1 DEF IInv, SizesInv
  <2> QED
    BY <1>1, <1>3, <2>1, <2>2, StageKeepsInv, StepNames
       DEF IInv, TypeOK, CallsInv, CallsWithinAllowance, NoCall, Onward, Planned,
           BeforeGeneration, BeforeWidening, BeforeLooking, BeforeReadings
<1> QED
  BY <1>2, <1>3, ReadingReasons DEF CheckReadings

LEMMA ReadingsReplyInv == IInv /\ ReadingsReply => IInv'
<1> SUFFICES ASSUME IInv, ReadingsReply PROVE IInv'
  OBVIOUS
<1>1. /\ at = "await_readings" /\ NoQuery /\ Fixed /\ UNCHANGED <<state, rounds>>
      /\ Replied("READING_CHECK") /\ UNCHANGED refused
  BY DEF ReadingsReply, Replied, Awaiting
<1>2. budget' \in Budget /\ budget'.used = budget.used /\ budget'.stopped = budget.stopped
  BY <1>1, ReplySpendsTokens DEF IInv, ModelCall
<1>3. /\ trace' \in Traces /\ UNCHANGED outcome
      /\ \/ at' = "query" /\ UNCHANGED left
         \/ at' = "read" /\ left' = state.decision.size
  <2>1. CASE ReadingsRecorded("PASS", "NO_SQL_PER_READING") /\ UNCHANGED left
    BY <2>1, ReadingsRecord, ReadingReasons, StatusNames
  <2>2. CASE GoOn(trace, "read") /\ left' = state.decision.size
    BY <2>2 DEF GoOn, IInv, TypeOK, Traces
  <2> QED
    BY <2>1, <2>2 DEF ReadingsReply
<1>4. state.decision.size \in 1..MAX_PROBES
  BY <1>1 DEF IInv, SizesInv
<1>5. SizesInv' /\ left' \in 0..MAX_PROBES
  BY <1>1, <1>3, <1>4 DEF IInv, TypeOK, SizesInv, MAX_PROBES
<1> QED
  BY <1>1, <1>2, <1>3, <1>5, StageKeepsInv, StepNames
     DEF IInv, TypeOK, CallsInv, CallsWithinAllowance, Onward, Planned,
         BeforeGeneration, BeforeWidening, BeforeLooking, BeforeReadings

LEMMA ReadingsFailInv == IInv /\ ReadingsFail => IInv'
<1> SUFFICES ASSUME IInv, ReadingsFail PROVE IInv'
  OBVIOUS
<1>1. PICK reason \in FailureReasons :
        /\ Unanswered("READING_CHECK", "check_readings", "PROVIDER_FAILURE", reason)
        /\ ReadingsRecorded("FAILED", reason)
  BY DEF ReadingsFail
<1>2. /\ at \in {"check_readings", "await_readings"}
      /\ at = "check_readings" => ReadingsCountable
      /\ NoQuery /\ Fixed /\ UNCHANGED <<state, rounds, left>>
  BY <1>1 DEF ReadingsFail, Unanswered, Awaiting
<1>3. /\ budget' \in Budget /\ budget'.used = budget.used /\ budget'.stopped # "CALLS"
      /\ refused' \subseteq ModelCall \X BudgetLimit
  BY <1>1, <1>2, UnansweredKeepsCalls, CallsLeft
     DEF IInv, CallsInv, CallsWithinAllowance, ModelCall
<1>4. trace' \in Traces /\ at' = "query" /\ UNCHANGED outcome
  BY <1>1, ReadingsRecord, StatusNames, FailureReasonType
<1>5. SizesInv'
  BY <1>2, <1>4 DEF IInv, SizesInv
<1> QED
  BY <1>2, <1>3, <1>4, <1>5, StageKeepsInv, StepNames
     DEF IInv, TypeOK, Onward, Planned, BeforeGeneration, BeforeWidening, BeforeLooking,
         BeforeReadings

LEMMA ReadingsCompared ==
  ASSUME IInv, CompareReadings
  PROVE  /\ trace' \in Traces /\ at' = "query" /\ UNCHANGED outcome
         /\ state' \in States
         /\ state'.decision = state.decision \/ state'.decision = Answer("READING_CHECK")
         /\ state'.exploring = state.exploring /\ state'.open = state.open
<1>1. Answer("READING_CHECK") \in DecisionOrMismatch
  BY OtherDecisions DEF ModelCall
<1>2. CASE /\ ReadingsRecorded("PASS", "READINGS_AGREE")
           /\ state' = [state EXCEPT !.decision = Answer("READING_CHECK")]
  BY <1>1, <1>2, ReadingsRecord, ReadingReasons, StatusNames DEF IInv, TypeOK, States
<1>3. CASE ReadingsRecorded("PASS", "READINGS_DIFFER") /\ UNCHANGED state
  BY <1>3, ReadingsRecord, ReadingReasons, StatusNames DEF IInv, TypeOK
<1>4. CASE /\ ReadingsRecorded("PASS", "READINGS_DIFFER_ASSUMED")
           /\ state' = [state EXCEPT !.decision = Answer("READING_CHECK"),
                                     !.assumption = TRUE]
  BY <1>1, <1>4, ReadingsRecord, ReadingReasons, StatusNames DEF IInv, TypeOK, States
<1> QED
  BY <1>2, <1>3, <1>4 DEF CompareReadings

LEMMA RunReadingInv == IInv /\ RunReading => IInv'
<1> SUFFICES ASSUME IInv, RunReading PROVE IInv'
  OBVIOUS
<1>1. at = "read" /\ NoQuery /\ Fixed /\ UNCHANGED rounds
  BY DEF RunReading
<1>2. /\ budget' \in Budget /\ budget'.used = budget.used /\ budget'.stopped # "CALLS"
      /\ UNCHANGED refused
  <2>1. PICK refusal \in BudgetLimit \cup {None} : ProbeTaken(refusal)
    BY DEF RunReading
  <2>2. UNCHANGED refused
    BY <2>1 DEF ProbeTaken
  <2> QED
    BY <2>1, <2>2, ProbeKeepsCalls DEF IInv, CallsInv, CallsWithinAllowance
<1>3. left \in 1..3
  BY <1>1 DEF IInv, TypeOK, SizesInv, MAX_PROBES
<1>4. /\ trace' \in Traces /\ UNCHANGED outcome
      /\ state' \in States
      /\ state'.decision = state.decision \/ state'.decision = Answer("READING_CHECK")
      /\ state'.exploring = state.exploring /\ state'.open = state.open
      /\ \/ at' = "query" /\ left' \in 0..MAX_PROBES
         \/ at' = "read" /\ left' \in 1..MAX_PROBES
  <2>1. CASE ReadingsRecorded("PASS", "READING_NOT_RUN") /\ UNCHANGED <<state, left>>
    BY <1>3, <2>1, ReadingsRecord, ReadingReasons, StatusNames DEF IInv, TypeOK
  <2>2. CASE left' = left - 1 /\ left = 1 /\ CompareReadings
    <3>1. left' \in 0..MAX_PROBES
      BY <2>2 DEF MAX_PROBES
    <3> QED
      BY <2>2, <3>1, ReadingsCompared
  <2>3. CASE left' = left - 1 /\ left # 1 /\ GoOn(trace, "read") /\ UNCHANGED state
    BY <1>3, <2>3 DEF GoOn, IInv, TypeOK, Traces, MAX_PROBES
  <2> QED
    BY <2>1, <2>2, <2>3 DEF RunReading
<1>5. SizesInv'
  BY <1>1, <1>4, OtherDecisions DEF IInv, SizesInv, MAX_PROBES, ModelCall
<1>6. left' \in 0..MAX_PROBES
  BY <1>4 DEF MAX_PROBES
<1> QED
  BY <1>1, <1>2, <1>4, <1>5, <1>6, StageKeepsInv, StepNames
     DEF IInv, TypeOK, Onward, Planned, BeforeGeneration, BeforeWidening, BeforeLooking,
         BeforeReadings

-----------------------------------------------------------------------------
(***************************************************************************)
(* The query's steps.                                                      *)
(***************************************************************************)
\* Every step of the query that makes no call.
LEMMA QueryStepKeepsInv ==
  ASSUME IInv, Fixed, UNCHANGED <<rounds, left>>,
         at \in (Planned \cup {"query"}) \ {"done"}, at' \in Planned,
         trace' \in Traces, state' \in States, attempt' \in Attempts, queries' \in 0..2,
         budget' \in Budget, budget'.used = budget.used, budget'.stopped # "CALLS",
         refused' \subseteq ModelCall \X BudgetLimit,
         state'.exploring = state.exploring, state'.open = state.open,
         state'.decision = state.decision \/ state'.decision.kind # "EXPLORE",
         at' = "repair" => Repairable,
         QueriesInv',
         \/ at' # "done" /\ UNCHANGED outcome
         \/ at' = "done" /\ outcome' \in RuntimeOutcome
  PROVE  IInv'
<1>1. TypeOK'
  BY StepNames DEF IInv, TypeOK, Fixed, Traces, Planned, Awaiting, ModelCall
<1>2. SizesInv'
  BY DEF IInv, SizesInv, Planned
<1>3. RoundsInv'
  BY RoundsKept DEF IInv, Planned
<1>4. CallsInv'
  BY DEF IInv, CallsInv, CallsWithinAllowance, Fixed, Repairable, Left, Planned,
     BeforeGeneration, BeforeWidening, BeforeLooking, BeforeReadings
<1>5. EndInv'
  BY DEF IInv, EndInv, RuntimeOutcome
<1> QED
  BY <1>1, <1>2, <1>3, <1>4, <1>5 DEF IInv

\* The attempt in force stays in force.
LEMMA AttemptKept ==
  ASSUME QueriesInv, UNCHANGED <<attempt, queries>>,
         at \in {"check_result", "probe_values", "repair", "await_repair"},
         at' \in {"probe_values", "repair", "replan", "execute", "respond", "done"},
         at' = "probe_values" => attempt.ran # "NONE",
         at' = "execute" => attempt.ran = "NONE",
         at' = "respond" /\ attempt.ran = "NONE" => attempt.plan \in PlanFailures
  PROVE  QueriesInv'
BY DEF QueriesInv, Planned

LEMMA Settles ==
  ASSUME IInv, NEW t \in Traces, NEW p \in PlanResults, Settle(t, p)
  PROVE  /\ trace' \in Traces /\ UNCHANGED outcome
         /\ at' = "execute" \/ (at' = "respond" /\ p \in PlanFailures)
<1>1. CASE p.accepted /\ GoOn(t, "execute")
  BY <1>1 DEF GoOn
<1>2. CASE /\ ~p.accepted
           /\ GoOn(SkipUnrecorded(t, ExecutionStages \cup {"result_check"},
                                  "EARLIER_RUNTIME_REJECTION"), "respond")
  <2>1. "EARLIER_RUNTIME_REJECTION" \in StageReason
    BY DEF StageReason
  <2>2. p \in PlanFailures
    BY <1>2 DEF PlanResults, Accepted
  <2> QED
    BY <1>2, <2>1, <2>2, SkipType DEF GoOn
<1> QED
  BY <1>1, <1>2 DEF Settle

LEMMA NonAnswerEnds ==
  ASSUME NEW t \in Traces, NonAnswer(t)
  PROVE  trace' \in Traces /\ at' = "done" /\ outcome' = "NOT_ENTERED"
<1>1. "MODEL_NON_ANSWER" \in StageReason /\ "NOT_ENTERED" \in RuntimeOutcome
  BY DEF StageReason, RuntimeOutcome
<1> QED
  BY <1>1, CloseEnds, StatusNames DEF NonAnswer

LEMMA AdmitSqlInv == IInv /\ AdmitSql => IInv'
<1> SUFFICES ASSUME IInv, AdmitSql PROVE IInv'
  OBVIOUS
<1>1. at = "query" /\ NoCall /\ Fixed /\ UNCHANGED <<rounds, left, state, queries>>
  BY DEF AdmitSql, InQuery
<1>2. /\ trace \in Traces /\ queries \in 0..2 /\ attempt \in Attempts /\ state \in States
      /\ budget' \in Budget /\ budget'.used = budget.used /\ budget'.stopped # "CALLS"
      /\ refused' \subseteq ModelCall \X BudgetLimit
  BY <1>1 DEF IInv, TypeOK, Traces, CallsInv, CallsWithinAllowance, NoCall
<1>3. attempt.ran = "NONE" /\ ~attempt.second /\ queries = 0
  BY <1>1, <1>2 DEF IInv, QueriesInv, Planned
<1>4. CASE NonAnswer(trace) /\ UNCHANGED attempt
  <2>1. trace' \in Traces /\ at' = "done" /\ outcome' = "NOT_ENTERED"
    BY <1>2, <1>4, NonAnswerEnds
  <2>2. QueriesInv'
    BY <1>1, <1>3, <1>4, <2>1 DEF QueriesInv, Planned, QueryResults
  <2> QED
    BY <1>1, <1>2, <1>4, <2>1, <2>2, QueryStepKeepsInv DEF Planned, RuntimeOutcome
<1>5. ASSUME NEW p \in PlanResults, attempt' = [attempt EXCEPT !.plan = p],
             trace' \in Traces, UNCHANGED outcome,
             \/ at' = "repair" /\ Repairable
             \/ at' = "execute"
             \/ at' = "respond" /\ p \in PlanFailures
      PROVE  IInv'
  <2>1. /\ attempt' \in Attempts /\ attempt'.plan = p
        /\ attempt'.ran = "NONE" /\ ~attempt'.second
    BY <1>2, <1>3, <1>5 DEF Attempts, Plans
  <2>2. QueriesInv'
    BY <1>1, <1>3, <1>5, <2>1 DEF QueriesInv, Planned, QueryResults
  <2> QED
    BY <1>1, <1>2, <1>5, <2>1, <2>2, QueryStepKeepsInv DEF Planned
<1>6. ASSUME NEW p \in PlanResults, attempt' = [attempt EXCEPT !.plan = p],
             GoOn(RecordPlan(trace, p), "repair"), Repairable
      PROVE  IInv'
  <2>1. RecordPlan(trace, p) \in Traces
    BY <1>2, RecordPlanType
  <2> QED
    BY <1>5, <1>6, <2>1 DEF GoOn
<1>7. ASSUME NEW p \in PlanResults, attempt' = [attempt EXCEPT !.plan = p],
             NEW reason \in StageReason,
             Settle(RecordStage(RecordPlan(trace, p), "repair", "SKIPPED", reason), p)
      PROVE  IInv'
  <2>1. RecordStage(RecordPlan(trace, p), "repair", "SKIPPED", reason) \in Traces
    BY <1>2, RecordPlanType, RecordsOne, StatusNames
  <2>2. /\ trace' \in Traces /\ UNCHANGED outcome
        /\ at' = "execute" \/ (at' = "respond" /\ p \in PlanFailures)
    BY <1>7, <2>1, Settles
  <2> QED
    BY <1>5, <1>7, <2>2
<1>8. {"NOT_NEEDED", "FINAL_REJECTION", "REPAIR_NOT_ALLOWED"} \subseteq StageReason
  BY DEF StageReason
<1> QED
  BY <1>4, <1>6, <1>7, <1>8 DEF AdmitSql

LEMMA AskRepairInv == IInv /\ AskRepair => IInv'
BY AskKeepsInv DEF AskRepair, AskedAt, ModelCall, InQuery

\* Where a repair that replaced nothing leaves the run.
LEMMA OriginalKept ==
  ASSUME IInv, at \in {"repair", "await_repair"}, UNCHANGED <<attempt, queries>>,
         NEW reason \in StageReason,
         KeepOriginal(RecordStage(trace, "repair", "FAILED", reason))
  PROVE  /\ trace' \in Traces /\ UNCHANGED outcome
         /\ at' \in {"execute", "respond"} /\ QueriesInv'
<1> DEFINE t == RecordStage(trace, "repair", "FAILED", reason)
<1>1. t \in Traces
  BY RecordsOne, StatusNames DEF IInv, TypeOK, Traces
<1>2. attempt.plan \in PlanResults
  BY DEF IInv, QueriesInv, Planned
<1>3. KeepOriginal(t)
  OBVIOUS
<1> HIDE DEF t
<1>4. CASE attempt.ran = "NONE" /\ Settle(t, attempt.plan)
  <2>1. /\ trace' \in Traces /\ UNCHANGED outcome
        /\ at' = "execute" \/ (at' = "respond" /\ attempt.plan \in PlanFailures)
    BY <1>1, <1>2, <1>4, Settles
  <2> QED
    BY <1>4, <2>1, AttemptKept DEF IInv
<1>5. CASE attempt.ran # "NONE" /\ GoOn(t, "respond")
  BY <1>1, <1>5, AttemptKept DEF IInv, GoOn
<1> QED
  BY <1>3, <1>4, <1>5 DEF KeepOriginal

LEMMA RepairReplyInv == IInv /\ RepairReply => IInv'
<1> SUFFICES ASSUME IInv, RepairReply PROVE IInv'
  OBVIOUS
<1>1. /\ at = "await_repair" /\ Fixed /\ UNCHANGED <<rounds, left, attempt, queries>>
      /\ Replied("REPAIR") /\ UNCHANGED refused
  BY DEF RepairReply, Replied, Awaiting, InQuery
<1>2. budget' \in Budget /\ budget'.used = budget.used /\ budget'.stopped = budget.stopped
  BY <1>1, ReplySpendsTokens DEF IInv, ModelCall
<1>3. /\ budget'.stopped # "CALLS" /\ queries' \in 0..2 /\ attempt' \in Attempts
      /\ refused' \subseteq ModelCall \X BudgetLimit
  BY <1>1, <1>2 DEF IInv, TypeOK, CallsInv, CallsWithinAllowance
<1>4. CASE /\ KeepOriginal(RecordStage(trace, "repair", "FAILED", "CASE_ID_MISMATCH"))
           /\ UNCHANGED state
  <2>1. "CASE_ID_MISMATCH" \in StageReason
    BY DEF StageReason
  <2>2. /\ trace' \in Traces /\ UNCHANGED outcome
        /\ at' \in {"execute", "respond"} /\ QueriesInv'
    BY <1>1, <1>4, <2>1, OriginalKept
  <2>3. state' \in States
    BY <1>4 DEF IInv, TypeOK
  <2> QED
    BY <1>1, <1>2, <1>3, <1>4, <2>2, <2>3, QueryStepKeepsInv DEF Planned
<1>5. ASSUME NEW d \in Replacements,
             state' = [state EXCEPT !.decision = d, !.repairedFrom = TRUE],
             LET t == Forget(RecordStage(trace, "repair", "PASS", "NONE"), RuntimeStages)
             IN  IF d.kind = "ANSWER" THEN GoOn(t, "replan") ELSE NonAnswer(t)
      PROVE  IInv'
  <2>1. /\ state' \in States /\ state'.decision.kind # "EXPLORE"
        /\ state'.exploring = state.exploring /\ state'.open = state.open
    BY <1>5, DecisionTypes DEF Replacements, IInv, TypeOK, States, ModelCall
  <2> DEFINE t == Forget(RecordStage(trace, "repair", "PASS", "NONE"), RuntimeStages)
  <2>2. t \in Traces
    <3>1. RecordStage(trace, "repair", "PASS", "NONE") \in Traces
      BY RecordsOne, StatusNames DEF IInv, TypeOK, Traces, StageReason
    <3> QED
      BY <3>1, ForgetType
  <2>3. IF d.kind = "ANSWER" THEN GoOn(t, "replan") ELSE NonAnswer(t)
    BY <1>5
  <2> HIDE DEF t
  <2>4. /\ trace' \in Traces
        /\ \/ at' = "replan" /\ UNCHANGED outcome
           \/ at' = "done" /\ outcome' = "NOT_ENTERED"
    BY <2>2, <2>3, NonAnswerEnds DEF GoOn
  <2>5. QueriesInv'
    BY <1>1, <2>4, AttemptKept DEF IInv
  <2> QED
    BY <1>1, <1>2, <1>3, <2>1, <2>4, <2>5, QueryStepKeepsInv DEF Planned, RuntimeOutcome
<1> QED
  BY <1>4, <1>5 DEF RepairReply

LEMMA RepairFailsInv == IInv /\ RepairFails => IInv'
<1> SUFFICES ASSUME IInv, RepairFails PROVE IInv'
  OBVIOUS
<1>1. PICK reason \in FailureReasons :
        /\ Unanswered("REPAIR", "repair", "PROVIDER_FAILURE", reason)
        /\ KeepOriginal(RecordStage(trace, "repair", "FAILED", reason))
  BY DEF RepairFails
<1>2. /\ at \in {"repair", "await_repair"}
      /\ Fixed /\ UNCHANGED <<rounds, left, state, attempt, queries>>
  BY <1>1 DEF RepairFails, Unanswered, Awaiting, InQuery
<1>3. /\ budget' \in Budget /\ budget'.used = budget.used /\ budget'.stopped # "CALLS"
      /\ refused' \subseteq ModelCall \X BudgetLimit
  BY <1>1, <1>2, UnansweredKeepsCalls, CallsLeft
     DEF IInv, CallsInv, CallsWithinAllowance, ModelCall
<1>4. /\ trace' \in Traces /\ UNCHANGED outcome
      /\ at' \in {"execute", "respond"} /\ QueriesInv'
  BY <1>1, <1>2, OriginalKept, FailureReasonType
<1>5. queries' \in 0..2 /\ attempt' \in Attempts /\ state' \in States
  BY <1>2 DEF IInv, TypeOK
<1> QED
  BY <1>2, <1>3, <1>4, <1>5, QueryStepKeepsInv DEF Planned

LEMMA ReplanInv == IInv /\ Replan => IInv'
<1> SUFFICES ASSUME IInv, Replan PROVE IInv'
  OBVIOUS
<1>1. at = "replan" /\ NoCall /\ Fixed /\ UNCHANGED <<rounds, left, state, queries>>
  BY DEF Replan, InQuery
<1>2. /\ trace \in Traces /\ queries' \in 0..2 /\ state' \in States
      /\ budget' \in Budget /\ budget'.used = budget.used /\ budget'.stopped # "CALLS"
      /\ refused' \subseteq ModelCall \X BudgetLimit
  BY <1>1 DEF IInv, TypeOK, Traces, CallsInv, CallsWithinAllowance, NoCall
<1>3. PICK p \in PlanResults :
        /\ attempt' = [plan |-> p, ran |-> "NONE", second |-> attempt.ran # "NONE"]
        /\ Settle(RecordPlan(trace, p), p)
  BY DEF Replan
<1>4. /\ trace' \in Traces /\ UNCHANGED outcome
      /\ at' = "execute" \/ (at' = "respond" /\ p \in PlanFailures)
  BY <1>2, <1>3, RecordPlanType, Settles
<1>5. /\ attempt' \in Attempts /\ attempt'.plan = p /\ attempt'.ran = "NONE"
      /\ attempt'.second <=> attempt.ran # "NONE"
  <2> DEFINE second == attempt.ran # "NONE"
  <2>1. second \in BOOLEAN
    OBVIOUS
  <2>2. attempt' = [plan |-> p, ran |-> "NONE", second |-> second]
    BY <1>3
  <2> HIDE DEF second
  <2>3. /\ attempt' \in Attempts /\ attempt'.plan = p /\ attempt'.ran = "NONE"
        /\ attempt'.second = second
    BY <1>3, <2>1, <2>2 DEF Attempts, Plans
  <2> QED
    BY <2>3 DEF second
<1>6. QueriesInv'
  <2>1. queries <= (IF attempt.ran = "NONE" THEN 0 ELSE 1)
    BY <1>1 DEF IInv, QueriesInv
  <2>2. queries' <= (IF attempt'.second THEN 1 ELSE 0)
    BY <1>1, <1>5, <2>1
  <2> QED
    BY <1>2, <1>4, <1>5, <2>2 DEF QueriesInv, Planned, QueryResults
<1> QED
  BY <1>1, <1>2, <1>4, <1>5, <1>6, QueryStepKeepsInv DEF Planned

LEMMA ExecuteInv == IInv /\ Execute => IInv'
<1> SUFFICES ASSUME IInv, Execute PROVE IInv'
  OBVIOUS
<1>1. at = "execute" /\ NoCall /\ Fixed /\ UNCHANGED <<rounds, left, state>>
  BY DEF Execute, InQuery
<1>2. /\ trace \in Traces /\ attempt \in Attempts /\ queries \in 0..2 /\ state' \in States
      /\ budget' \in Budget /\ budget'.used = budget.used /\ budget'.stopped # "CALLS"
      /\ refused' \subseteq ModelCall \X BudgetLimit
  BY <1>1 DEF IInv, TypeOK, Traces, CallsInv, CallsWithinAllowance, NoCall
<1>3. PICK result \in ExecutionResults :
        /\ attempt' = [attempt EXCEPT !.ran = result]
        /\ queries' = IF result \in {"NOT_CONNECTED", "WRONG_ROLE"} THEN queries
                      ELSE queries + 1
        /\ GoOn(RecordExecution(trace, result),
                IF attempt.second THEN "respond" ELSE "check_result")
  BY DEF Execute
<1>4. trace' \in Traces /\ UNCHANGED outcome
  BY <1>2, <1>3, RecordExecutionType DEF GoOn
<1>5. at' = IF attempt.second THEN "respond" ELSE "check_result"
  BY <1>3 DEF GoOn
<1>6. /\ attempt' \in Attempts /\ attempt'.plan = attempt.plan
      /\ attempt'.ran = result /\ attempt'.second = attempt.second
  BY <1>2, <1>3 DEF Attempts
<1>7. result # "NONE"
  BY DEF ExecutionResults, QueryResults, ExecutionErrors, FixableErrors, OtherErrors
<1>8. /\ queries <= (IF attempt.second THEN 1 ELSE 0)
      /\ attempt.plan \in PlanResults
  BY <1>1, <1>2 DEF IInv, QueriesInv, Planned
<1>9. queries' \in 0..2 /\ queries' <= (IF attempt.second THEN 1 ELSE 0) + 1
  BY <1>2, <1>3, <1>8
<1>10. result \in QueryResults => queries' > 0
  BY <1>2, <1>3 DEF QueryResults
<1>11. QueriesInv'
  BY <1>5, <1>6, <1>7, <1>8, <1>9, <1>10 DEF QueriesInv, Planned
<1> QED
  BY <1>1, <1>2, <1>4, <1>5, <1>6, <1>9, <1>11, QueryStepKeepsInv DEF Planned

LEMMA ResultRepaired ==
  ASSUME NEW t \in Traces, RepairResult(t)
  PROVE  /\ trace' \in Traces /\ UNCHANGED outcome
         /\ (at' = "repair" /\ Repairable) \/ at' = "respond"
BY ForgetType DEF RepairResult, GoOn

\* The steps that look at the result of the attempt in force.
LEMMA LookingAtResult ==
  ASSUME IInv, at \in {"check_result", "probe_values"}, NoCall, InQuery,
         UNCHANGED <<state, attempt, queries, outcome>>, trace' \in Traces,
         \/ at' = "repair" /\ Repairable
         \/ at' \in {"probe_values", "replan", "respond"}
  PROVE  IInv'
<1>1. QueriesInv'
  BY AttemptKept DEF IInv, QueriesInv
<1>2. /\ queries' \in 0..2 /\ attempt' \in Attempts /\ state' \in States
      /\ budget' \in Budget /\ budget'.used = budget.used /\ budget'.stopped # "CALLS"
      /\ refused' \subseteq ModelCall \X BudgetLimit
  BY DEF IInv, TypeOK, CallsInv, CallsWithinAllowance, NoCall
<1> QED
  BY <1>1, <1>2, QueryStepKeepsInv DEF Planned, InQuery

LEMMA CheckResultInv == IInv /\ CheckResult => IInv'
<1> SUFFICES ASSUME IInv, CheckResult PROVE IInv'
  OBVIOUS
<1>1. /\ at = "check_result" /\ NoCall /\ InQuery
      /\ UNCHANGED <<state, attempt, queries>>
  BY DEF CheckResult
<1> DEFINE checked(status, reason) == RecordStage(trace, "result_check", status, reason)
<1>2. /\ checked("PASS", "OUT_OF_RANGE") \in Traces
      /\ checked("PASS", "TIED_ROWS") \in Traces
      /\ checked("SKIPPED", "EXECUTION_ERROR") \in Traces
      /\ checked("SKIPPED", "NOT_NEEDED") \in Traces
  BY RecordsOne, StatusNames DEF IInv, TypeOK, Traces, StageReason
<1>3. \/ RepairResult(checked("PASS", "OUT_OF_RANGE"))
      \/ RepairResult(checked("SKIPPED", "EXECUTION_ERROR"))
      \/ GoOn(trace, "probe_values")
      \/ GoOn(checked("PASS", "TIED_ROWS"), "respond")
      \/ GoOn(checked("SKIPPED", "NOT_NEEDED"), "respond")
  BY DEF CheckResult
<1> HIDE DEF checked
<1>4. /\ trace' \in Traces /\ UNCHANGED outcome
      /\ \/ at' = "repair" /\ Repairable
         \/ at' \in {"probe_values", "respond"}
  BY <1>2, <1>3, ResultRepaired DEF GoOn, IInv, TypeOK, Traces
<1> QED
  BY <1>1, <1>4, LookingAtResult

LEMMA ProbeValuesInv == IInv /\ ProbeValues => IInv'
<1> SUFFICES ASSUME IInv, ProbeValues PROVE IInv'
  OBVIOUS
<1>1. /\ at = "probe_values" /\ NoCall /\ InQuery
      /\ UNCHANGED <<state, attempt, queries>>
  BY DEF ProbeValues
<1>2. \A reason \in {"VALUE_REWRITTEN", "VALUE_NOT_STORED", "EMPTY_RESULT"} :
        RecordStage(trace, "result_check", "PASS", reason) \in Traces
  BY RecordsOne, StatusNames DEF IInv, TypeOK, Traces, StageReason
<1>3. CASE GoOn(Forget(RecordStage(trace, "result_check", "PASS", "VALUE_REWRITTEN"),
                       RuntimeStages), "replan")
  <2>1. trace' \in Traces /\ at' = "replan" /\ UNCHANGED outcome
    BY <1>2, <1>3, ForgetType DEF GoOn
  <2> QED
    BY <1>1, <2>1, LookingAtResult
<1>4. ASSUME NEW reason \in {"VALUE_NOT_STORED", "EMPTY_RESULT"},
             RepairResult(RecordStage(trace, "result_check", "PASS", reason))
      PROVE  IInv'
  <2>1. /\ trace' \in Traces /\ UNCHANGED outcome
        /\ (at' = "repair" /\ Repairable) \/ at' = "respond"
    BY <1>2, <1>4, ResultRepaired
  <2> QED
    BY <1>1, <2>1, LookingAtResult
<1> QED
  BY <1>3, <1>4 DEF ProbeValues

\* The outcome of a run whose query was planned or run.
LEMMA ResultOutcomeType ==
  ASSUME IInv, at = "respond"
  PROVE  /\ ResultOutcome \in RuntimeOutcome /\ ResultOutcome \in StageReason
         /\ ResultOutcome = "EXECUTED" => queries > 0
<1>1. CASE attempt.ran = "NONE"
  <2>1. attempt.plan \in PlanFailures
    BY <1>1 DEF IInv, QueriesInv
  <2>2. attempt.plan.outcome \in {"RUNTIME_REJECTED", "AUTHORITY_REJECTED",
                                  "POLICY_REJECTED"}
    BY <2>1 DEF PlanFailures, Failure
  <2> QED
    BY <1>1, <2>2 DEF ResultOutcome, RuntimeOutcome, StageReason
<1>2. CASE attempt.ran # "NONE"
  BY <1>2 DEF ResultOutcome, RuntimeOutcome, StageReason, IInv, QueriesInv
<1> QED
  BY <1>1, <1>2

LEMMA RespondInv == IInv /\ Respond => IInv'
<1> SUFFICES ASSUME IInv, Respond PROVE IInv'
  OBVIOUS
<1>1. /\ at = "respond" /\ at' = "done" /\ outcome' = ResultOutcome
      /\ trace' = RecordStage(trace, "response", "PASS", ResultOutcome)
      /\ NoCall /\ Fixed /\ UNCHANGED <<rounds, left, state, attempt, queries>>
  BY DEF Respond, InQuery
<1>2. outcome' \in RuntimeOutcome /\ ResultOutcome \in StageReason
  BY <1>1, ResultOutcomeType
<1>3. trace' \in Traces
  BY <1>1, <1>2, RecordsOne, StatusNames DEF IInv, TypeOK, Traces
<1>4. /\ queries' \in 0..2 /\ attempt' \in Attempts /\ state' \in States
      /\ budget' \in Budget /\ budget'.used = budget.used /\ budget'.stopped # "CALLS"
      /\ refused' \subseteq ModelCall \X BudgetLimit
  BY <1>1 DEF IInv, TypeOK, CallsInv, CallsWithinAllowance, NoCall
<1>5. QueriesInv'
  BY <1>1 DEF IInv, QueriesInv, Planned
<1> QED
  BY <1>1, <1>2, <1>3, <1>4, <1>5, QueryStepKeepsInv DEF Planned

\* The invariant does not speak of the deadline.
LEMMA DeadlineInv == IInv /\ DeadlinePasses => IInv'
BY DEF DeadlinePasses, IInv, TypeOK, SizesInv, RoundsInv, CallsInv, CallsWithinAllowance,
   Repairable, QueriesInv, EndInv

LEMMA StutterInv == IInv /\ UNCHANGED vars => IInv'
BY DEF vars, IInv, TypeOK, SizesInv, RoundsInv, CallsInv, CallsWithinAllowance,
   Repairable, QueriesInv, EndInv

LEMMA NextInv == IInv /\ [Next]_vars => IInv'
<1> SUFFICES ASSUME IInv, [Next]_vars PROVE IInv'
  OBVIOUS
<1>1. CASE Opening
  BY <1>1, ContextInv, ReplayInv, AskFirstInv, FirstReplyInv, FirstFailsInv, AdmitInv
     DEF Opening
<1>2. CASE Widening
  BY <1>2, WidenInv, ExpansionReplyInv, ExpansionFailsInv, LookFirstInv,
     LookFirstReplyInv, LookFirstFailsInv DEF Widening
<1>3. CASE Exploring
  BY <1>3, ExploreInv, RunProbeInv, AskAfterProbesInv, RoundReplyInv, RoundFailsInv,
     CheckReadingsInv, ReadingsReplyInv, ReadingsFailInv, RunReadingInv DEF Exploring
<1>4. CASE Querying
  BY <1>4, AdmitSqlInv, AskRepairInv, RepairReplyInv, RepairFailsInv, ReplanInv,
     ExecuteInv, CheckResultInv, ProbeValuesInv, RespondInv DEF Querying
<1> QED
  BY <1>1, <1>2, <1>3, <1>4, DeadlineInv, StutterInv DEF Next, RunStep

\* The inductive invariant holds in every run, for all settings and token counts.
THEOREM Inductive == Spec => []IInv
BY InitInv, NextInv, PTL DEF Spec

\* Every variable keeps its type.
THEOREM TypeCorrect == Spec => []TypeOK
<1>1. IInv => TypeOK
  BY DEF IInv
<1> QED
  BY <1>1, Inductive, PTL

\* No step makes more calls than its allowance, and no call is ever refused for want of
\* one (AttemptBudget.take).
THEOREM AllowanceKept == Spec => []CallsWithinAllowance
<1>1. IInv => CallsWithinAllowance
  BY DEF IInv, CallsInv
<1> QED
  BY <1>1, Inductive, PTL

-----------------------------------------------------------------------------
(***************************************************************************)
(* The run implements QuestionRun: every step makes a call, runs a query,  *)
(* ends the run, or does none of these.                                    *)
(***************************************************************************)
Limit == CallLimit(settings, replay)

Used == Spent(budget)

\* Nothing that was promised changes.
Quiet == UNCHANGED <<Limit, Used, queries, outcome>>

\* A call, a query or the end of the run.
Promised ==
  \/ outcome = "NONE" /\ Used < Limit /\ Used' = Used + 1
     /\ UNCHANGED <<Limit, queries, outcome>>
  \/ outcome = "NONE" /\ queries < 2 /\ queries' = queries + 1
     /\ UNCHANGED <<Limit, Used, outcome>>
  \/ outcome = "NONE" /\ outcome' \in RuntimeOutcome
     /\ (outcome' = "EXECUTED" => queries > 0)
     /\ UNCHANGED <<Limit, Used, queries>>

LEMMA FixedKeepsLimit == Fixed => UNCHANGED Limit
BY DEF Fixed, Limit, CallLimit

\* Only a call taken counts as used.
LEMMA UsedKept ==
  ASSUME budget \in Budget
  PROVE  /\ NoCall => UNCHANGED Used
         /\ \A call : Replied(call) => UNCHANGED Used
         /\ \A call, step, other, reason :
              Unanswered(call, step, other, reason) => UNCHANGED Used
         /\ \A refusal : ProbeTaken(refusal) => UNCHANGED Used
<1>1. \A limit : Spent(Stop(budget, limit)) = Spent(budget)
  BY DEF Stop, Budget, Spent
<1>2. NoCall => UNCHANGED Used
  BY DEF NoCall, Used
<1>3. ASSUME NEW call, Replied(call) PROVE UNCHANGED Used
  BY <1>3 DEF Replied, SpendTokens, Used, Spent, Budget
<1>4. ASSUME NEW call, NEW step, NEW other, NEW reason,
             Unanswered(call, step, other, reason)
      PROVE  UNCHANGED Used
  <2>1. budget' = budget \/ \E limit : budget' = Stop(budget, limit)
    BY <1>4 DEF Unanswered
  <2>2. Used' = Spent(budget')
    BY DEF Used, Spent
  <2> QED
    BY <1>1, <2>1, <2>2 DEF Used
<1>5. ASSUME NEW refusal, ProbeTaken(refusal) PROVE UNCHANGED Used
  BY <1>5, <1>1 DEF ProbeTaken, TakeProbeQuery, Used, Spent, Budget
<1> QED
  BY <1>2, <1>3, <1>4, <1>5

\* A call is asked for while the run goes on and the sum of its allowances is not
\* used up.
LEMMA AskPromised ==
  ASSUME IInv, NEW call \in ModelCall, Ask(call), Fixed, at # "done",
         UNCHANGED <<queries, outcome>>
  PROVE  Promised
<1>1. /\ budget \in Budget /\ settings \in Settings /\ replay \in BOOLEAN
      /\ CallsWithinAllowance /\ outcome = "NONE"
  BY DEF IInv, TypeOK, CallsInv, EndInv
<1>2. Allowed(settings, replay) \in [ModelCall -> Nat]
  BY <1>1, AllowedType
<1>3. /\ budget.used[call] < Allowed(settings, replay)[call]
      /\ budget'.used = [budget.used EXCEPT ![call] = @ + 1]
  BY AskSpends DEF IInv
<1>4. budget.used \in [ModelCall -> Nat]
  BY <1>1 DEF Budget
<1> DEFINE a == Allowed(settings, replay)
           u == budget.used
<1>5. \A c \in ModelCall : u[c] \in Nat /\ a[c] \in Nat /\ u[c] <= a[c]
  BY <1>1, <1>2, <1>4 DEF CallsWithinAllowance
<1>6. /\ Used = u["GENERATION"] + u["CONTEXT_EXPANSION"] + u["LOOK_FIRST"]
                + u["EXPLORATION"] + u["READING_CHECK"] + u["REPAIR"]
      /\ Limit = a["GENERATION"] + a["CONTEXT_EXPANSION"] + a["LOOK_FIRST"]
                 + a["EXPLORATION"] + a["READING_CHECK"] + a["REPAIR"]
  BY DEF Used, Spent, Limit, CallLimit
<1>7. Used' = u'["GENERATION"] + u'["CONTEXT_EXPANSION"] + u'["LOOK_FIRST"]
              + u'["EXPLORATION"] + u'["READING_CHECK"] + u'["REPAIR"]
  BY DEF Used, Spent
<1>8. u' = [u EXCEPT ![call] = @ + 1] /\ u[call] < a[call] /\ u \in [ModelCall -> Nat]
  BY <1>3, <1>4
<1> HIDE DEF a, u
<1>9. Used < Limit /\ Used' = Used + 1
  BY <1>5, <1>6, <1>7, <1>8 DEF ModelCall
<1> QED
  BY <1>1, <1>9, FixedKeepsLimit DEF Promised

LEMMA OpeningPromised == IInv /\ Opening => Promised \/ Quiet
<1> SUFFICES ASSUME IInv, Opening PROVE Promised \/ Quiet
  OBVIOUS
<1>1. budget \in Budget /\ (at # "done" => outcome = "NONE")
  BY DEF IInv, TypeOK, EndInv
<1>2. {"NOT_ENTERED", "GENERATION_ERROR"} \subseteq RuntimeOutcome
  BY DEF RuntimeOutcome
<1>3. CASE ResolveContext
  BY <1>1, <1>2, <1>3, UsedKept, FixedKeepsLimit
     DEF ResolveContext, GoOn, Close, NoQuery, Promised, Quiet
<1>4. CASE ReplayDecision
  BY <1>1, <1>4, UsedKept, FixedKeepsLimit DEF ReplayDecision, GoOn, NoQuery, Quiet
<1>5. CASE AskFirst
  BY <1>5, AskPromised DEF AskFirst, NoQuery, ModelCall
<1>6. CASE FirstReply
  BY <1>1, <1>6, UsedKept, FixedKeepsLimit DEF FirstReply, GoOn, NoQuery, Quiet
<1>7. CASE FirstFails
  <2>1. at # "done"
    BY <1>7 DEF FirstFails, Unanswered, Awaiting
  <2> QED
    BY <1>1, <1>2, <1>7, <2>1, UsedKept, FixedKeepsLimit
       DEF FirstFails, Close, NoQuery, Promised
<1>8. CASE Admit
  BY <1>1, <1>2, <1>8, UsedKept, FixedKeepsLimit
     DEF Admit, Stopped, GoOn, Close, NoQuery, Promised, Quiet
<1> QED
  BY <1>3, <1>4, <1>5, <1>6, <1>7, <1>8 DEF Opening

LEMMA WideningPromised == IInv /\ Widening => Promised \/ Quiet
<1> SUFFICES ASSUME IInv, Widening PROVE Promised \/ Quiet
  OBVIOUS
<1>1. budget \in Budget
  BY DEF IInv, TypeOK
<1>2. CASE WidenContext
  BY <1>1, <1>2, UsedKept, FixedKeepsLimit, AskPromised
     DEF WidenContext, ExpansionRecorded, GoOn, NoQuery, Quiet, ModelCall
<1>3. CASE ExpansionReply
  BY <1>1, <1>3, UsedKept, FixedKeepsLimit
     DEF ExpansionReply, ExpansionRecorded, GoOn, NoQuery, Quiet
<1>4. CASE ExpansionFails
  BY <1>1, <1>4, UsedKept, FixedKeepsLimit
     DEF ExpansionFails, ExpansionRecorded, GoOn, NoQuery, Quiet
<1>5. CASE LookFirst
  BY <1>1, <1>5, UsedKept, FixedKeepsLimit, AskPromised
     DEF LookFirst, GoOn, NoQuery, Quiet, ModelCall
<1>6. CASE LookFirstReply
  BY <1>1, <1>6, UsedKept, FixedKeepsLimit DEF LookFirstReply, GoOn, NoQuery, Quiet
<1>7. CASE LookFirstFails
  BY <1>1, <1>7, UsedKept, FixedKeepsLimit DEF LookFirstFails, GoOn, NoQuery, Quiet
<1> QED
  BY <1>2, <1>3, <1>4, <1>5, <1>6, <1>7 DEF Widening

LEMMA ExploringPromised == IInv /\ Exploring => Promised \/ Quiet
<1> SUFFICES ASSUME IInv, Exploring PROVE Promised \/ Quiet
  OBVIOUS
<1>1. budget \in Budget /\ (at # "done" => outcome = "NONE")
  BY DEF IInv, TypeOK, EndInv
<1>2. \A reason : ExplorationFailed(reason) => outcome' = "GENERATION_ERROR"
  BY DEF ExplorationFailed, Stopped, Close
<1>3. "GENERATION_ERROR" \in RuntimeOutcome
  BY DEF RuntimeOutcome
<1>4. CASE Explore
  BY <1>1, <1>2, <1>3, <1>4, UsedKept, FixedKeepsLimit
     DEF Explore, BeginRound, GoOn, NoQuery, Quiet, Promised
<1>5. CASE RunProbe
  BY <1>1, <1>5, UsedKept, FixedKeepsLimit DEF RunProbe, GoOn, NoQuery, Quiet
<1>6. CASE AskAfterProbes
  BY <1>6, AskPromised DEF AskAfterProbes, NoQuery, ModelCall
<1>7. CASE RoundReply
  <2>1. at # "done"
    BY <1>7 DEF RoundReply, Replied, Awaiting
  <2> QED
    BY <1>1, <1>2, <1>3, <1>7, <2>1, UsedKept, FixedKeepsLimit
       DEF RoundReply, BeginRound, GoOn, NoQuery, Quiet, Promised
<1>8. CASE RoundFails
  <2>1. at # "done"
    BY <1>8 DEF RoundFails, Unanswered, Awaiting
  <2> QED
    BY <1>1, <1>2, <1>3, <1>8, <2>1, UsedKept, FixedKeepsLimit
       DEF RoundFails, NoQuery, Promised
<1>9. CASE CheckReadings
  BY <1>1, <1>9, UsedKept, FixedKeepsLimit, AskPromised
     DEF CheckReadings, ReadingsRecorded, GoOn, NoQuery, Quiet, ModelCall
<1>10. CASE ReadingsReply
  BY <1>1, <1>10, UsedKept, FixedKeepsLimit
     DEF ReadingsReply, ReadingsRecorded, GoOn, NoQuery, Quiet
<1>11. CASE ReadingsFail
  BY <1>1, <1>11, UsedKept, FixedKeepsLimit
     DEF ReadingsFail, ReadingsRecorded, GoOn, NoQuery, Quiet
<1>12. CASE RunReading
  BY <1>1, <1>12, UsedKept, FixedKeepsLimit
     DEF RunReading, CompareReadings, ReadingsRecorded, GoOn, NoQuery, Quiet
<1> QED
  BY <1>4, <1>5, <1>6, <1>7, <1>8, <1>9, <1>10, <1>11, <1>12 DEF Exploring

LEMMA QueryingPromised == IInv /\ Querying => Promised \/ Quiet
<1> SUFFICES ASSUME IInv, Querying PROVE Promised \/ Quiet
  OBVIOUS
<1>1. budget \in Budget /\ (at # "done" => outcome = "NONE")
  BY DEF IInv, TypeOK, EndInv
<1>2. /\ \A t : NonAnswer(t) => outcome' = "NOT_ENTERED"
      /\ \A t, p : Settle(t, p) => UNCHANGED outcome
      /\ \A t : KeepOriginal(t) => UNCHANGED outcome
      /\ \A t : RepairResult(t) => UNCHANGED outcome
      /\ \A t, step : GoOn(t, step) => UNCHANGED outcome
  BY DEF NonAnswer, Close, Settle, KeepOriginal, RepairResult, GoOn
<1>3. "NOT_ENTERED" \in RuntimeOutcome
  BY DEF RuntimeOutcome
<1>4. CASE AdmitSql
  BY <1>1, <1>2, <1>3, <1>4, UsedKept, FixedKeepsLimit DEF AdmitSql, InQuery, Quiet, Promised
<1>5. CASE AskRepair
  BY <1>5, AskPromised DEF AskRepair, InQuery, ModelCall
<1>6. CASE RepairReply
  <2>1. at # "done"
    BY <1>6 DEF RepairReply, Replied, Awaiting
  <2> QED
    BY <1>1, <1>2, <1>3, <1>6, <2>1, UsedKept, FixedKeepsLimit
       DEF RepairReply, InQuery, Quiet, Promised
<1>7. CASE RepairFails
  BY <1>1, <1>2, <1>7, UsedKept, FixedKeepsLimit DEF RepairFails, InQuery, Quiet
<1>8. CASE Replan
  BY <1>1, <1>2, <1>8, UsedKept, FixedKeepsLimit DEF Replan, InQuery, Quiet
<1>9. CASE Execute
  <2>1. at = "execute" /\ NoCall /\ Fixed /\ UNCHANGED outcome
    BY <1>2, <1>9 DEF Execute, InQuery
  <2>2. queries \in 0..1
    BY <2>1 DEF IInv, TypeOK, Attempts, QueriesInv
  <2>3. queries' \in {queries, queries + 1}
    BY <1>9 DEF Execute
  <2> QED
    BY <1>1, <2>1, <2>2, <2>3, UsedKept, FixedKeepsLimit DEF Quiet, Promised
<1>10. CASE CheckResult
  BY <1>1, <1>2, <1>10, UsedKept, FixedKeepsLimit DEF CheckResult, InQuery, Quiet
<1>11. CASE ProbeValues
  BY <1>1, <1>2, <1>11, UsedKept, FixedKeepsLimit DEF ProbeValues, InQuery, Quiet
<1>12. CASE Respond
  BY <1>1, <1>12, ResultOutcomeType, UsedKept, FixedKeepsLimit
     DEF Respond, InQuery, Promised
<1> QED
  BY <1>4, <1>5, <1>6, <1>7, <1>8, <1>9, <1>10, <1>11, <1>12 DEF Querying

\* The start of a run is the start of a question.
LEMMA InitPromised == Init => Run!QInit
<1> SUFFICES ASSUME Init PROVE Run!QInit
  OBVIOUS
<1>1. settings \in Settings /\ replay \in BOOLEAN
  BY SettingsAssumption DEF Init
<1>2. Allowed(settings, replay) \in [ModelCall -> Nat]
  BY <1>1, AllowedType
<1>3. CallLimit(settings, replay) \in Nat
  BY <1>2 DEF CallLimit, ModelCall
<1>4. Spent(budget) = 0
  BY DEF Init, NewBudget, Spent, ModelCall
<1> QED
  BY <1>3, <1>4 DEF Init, Run!QInit

LEMMA StepPromised == IInv /\ [Next]_vars => [Run!QNext]_(Run!qvars)
<1> SUFFICES ASSUME IInv, [Next]_vars PROVE Promised \/ Quiet
  BY DEF Promised, Quiet, Limit, Used, Run!QNext, Run!AskModel, Run!RunQuery, Run!End,
     Run!qvars
<1>1. CASE DeadlinePasses
  BY <1>1 DEF DeadlinePasses, Quiet, Limit, Used
<1>2. CASE UNCHANGED vars
  BY <1>2 DEF vars, Quiet, Limit, Used
<1> QED
  BY <1>1, <1>2, OpeningPromised, WideningPromised, ExploringPromised, QueryingPromised
     DEF Next, RunStep

\* A run keeps what QuestionRun promises: calls within the sum of its allowances, at most
\* two answering queries, one outcome given once and true to whether a query ran, and
\* nothing spent after it.
THEOREM PromisesKept == Spec => KeepsPromises
BY InitPromised, StepPromised, Inductive, PTL DEF Spec, KeepsPromises, Run!QSpec
=============================================================================
