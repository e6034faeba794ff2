------------------------- MODULE DecisionOutcomeProofs -------------------------
(***************************************************************************)
(* Proofs about how a run ends, for all settings and all token counts:     *)
(* what its final decision is, what its limits may cost it, that a good    *)
(* result stands, that it is near, and what its finished trace tells.      *)
(***************************************************************************)
EXTENDS DecisionRunProofs

(***************************************************************************)
(* The inductive invariant, beside that of DecisionRunProofs.              *)
(***************************************************************************)
\* The steps before a limit may refuse or cut off a call, with those of the first decision.
Beginning == {"context", "generation", "await_generation", "admit"}

Waiting == {Awaiting[c] : c \in ModelCall}

\* The decision in hand, by the step reached.
DecisionInv ==
  /\ at = "context" => state.decision.kind = "MISMATCH"
  /\ at \in {"probe", "round", "await_round"} => state.decision.kind = "EXPLORE"
  /\ at \in {"check_readings", "await_readings", "read", "query"} =>
       state.decision.kind # "EXPLORE"
  /\ at \in Planned \ {"done"} => state.decision.kind = "ANSWER"
  /\ at \in Beginning => refused = {}

\* A call is outstanding only if the tokens used before it were within the limit.
TokensInv ==
  /\ at \in {"context", "generation"} => budget.tokens = 0
  /\ at \in Waiting => budget.tokens < settings.tokenLimit
  /\ OneReplyOverTokenLimit

\* The probes counted, and those of this round still to come, by rounds begun; the readings
\* add as many as one round.
ProbesInv ==
  /\ at = "probe" => budget.probes + left <= MAX_PROBES * rounds
  /\ at \in {"await_readings", "read"} => settings.readingCheck
  /\ at = "read" => budget.probes + left <= MAX_PROBES * rounds + MAX_PROBES
  /\ at \in BeforeReadings \ {"probe"} \/ at = "await_readings" =>
       budget.probes <= MAX_PROBES * rounds
  /\ budget.probes <= MAX_PROBES * rounds
                       + (IF settings.readingCheck THEN MAX_PROBES ELSE 0)
  /\ DefaultProbesFit

\* Nothing that may replace the attempt is done to a good result.
StandsInv == at \in {"repair", "await_repair", "replan", "probe_values"} => ~GoodResult

EndsInv == FinalDecision /\ LimitsKeepTheDecision

OInv == DecisionInv /\ TokensInv /\ ProbesInv /\ StandsInv /\ EndsInv

-----------------------------------------------------------------------------
LEMMA InitOutcome == Init => OInv
<1> SUFFICES ASSUME Init PROVE OInv
  OBVIOUS
<1>1. /\ settings \in Settings /\ at = "context" /\ outcome = "NONE" /\ refused = {}
      /\ state.decision.kind = "MISMATCH"
      /\ budget.tokens = 0 /\ budget.probes = 0 /\ budget.stopped = None
      /\ rounds = 0 /\ attempt.ran = "NONE"
  BY SettingsAssumption DEF Init, NewState, Mismatch, NewBudget, NewAttempt
<1>2. /\ settings.tokenLimit \in Nat \ {0}
      /\ settings.probeLimit = Unset => ProbeQueryLimit(settings) >= 0
  BY <1>1 DEF Settings, ProbeQueryLimit, Times, MAX_PROBES, Unset
<1> QED
  BY <1>1, <1>2 DEF OInv, DecisionInv, TokensInv, ProbesInv, StandsInv, EndsInv, Planned,
     Waiting, Awaiting, BeforeReadings, BeforeLooking, BeforeWidening, BeforeGeneration,
     Beginning, ModelCall, OneReplyOverTokenLimit, DefaultProbesFit, FinalDecision,
     LimitsKeepTheDecision, MAX_PROBES, None, Settings

-----------------------------------------------------------------------------
(***************************************************************************)
(* The decision in hand.                                                   *)
(***************************************************************************)
\* The step at which each call is outstanding.
LEMMA WaitingSteps ==
  /\ Awaiting["GENERATION"] = "await_generation"
  /\ Awaiting["CONTEXT_EXPANSION"] = "await_expansion"
  /\ Awaiting["LOOK_FIRST"] = "await_look"
  /\ Awaiting["EXPLORATION"] = "await_round"
  /\ Awaiting["READING_CHECK"] = "await_readings"
  /\ Awaiting["REPAIR"] = "await_repair"
BY DEF Awaiting

\* The first decision is refused by no limit.
LEMMA FirstNotRefused ==
  ASSUME Unanswered("GENERATION", "generation", "PROVIDER_FAILURE", "PROVIDER_FAILURE")
  PROVE  UNCHANGED refused /\ at = "await_generation"
<1>1. Refused("GENERATION") \in {"CALLS", None}
  BY DEF Refused, Refusal
<1>2. LimitReason["CALLS"] # "PROVIDER_FAILURE"
  BY DEF LimitReason
<1> QED
  BY <1>1, <1>2, WaitingSteps DEF Unanswered

LEMMA OpeningDecision == IInv /\ DecisionInv /\ Opening => DecisionInv'
<1> SUFFICES ASSUME IInv, DecisionInv, Opening PROVE DecisionInv'
  OBVIOUS
<1>1. state \in States
  BY DEF IInv, TypeOK
<1> USE DEF DecisionInv, Beginning, Planned
<1>2. CASE ResolveContext
  BY <1>2 DEF ResolveContext, GoOn, Close, NoCall
<1>3. CASE ReplayDecision
  BY <1>1, <1>3, OtherDecisions DEF ReplayDecision, GoOn, NoCall
<1>4. CASE AskFirst
  BY <1>4, WaitingSteps DEF AskFirst, Ask
<1>5. CASE FirstReply
  BY <1>5, WaitingSteps DEF FirstReply, Replied, GoOn
<1>6. CASE FirstFails
  BY <1>6, FirstNotRefused DEF FirstFails, Close
<1>7. CASE Admit
  BY <1>7 DEF Admit, Stopped, Close, GoOn, NoCall
<1> QED
  BY <1>2, <1>3, <1>4, <1>5, <1>6, <1>7 DEF Opening

LEMMA WideningDecision == IInv /\ DecisionInv /\ Widening => DecisionInv'
<1> SUFFICES ASSUME IInv, DecisionInv, Widening PROVE DecisionInv'
  OBVIOUS
<1>1. at' \in {"await_expansion", "look", "await_look", "explore"}
  BY WaitingSteps DEF Widening, WidenContext, ExpansionReply, ExpansionFails, LookFirst,
     LookFirstReply, LookFirstFails, ExpansionRecorded, GoOn, Ask
<1> QED
  BY <1>1 DEF DecisionInv, Beginning, Planned

LEMMA ExploringDecision == IInv /\ DecisionInv /\ Exploring => DecisionInv'
<1> SUFFICES ASSUME IInv, DecisionInv, Exploring PROVE DecisionInv'
  OBVIOUS
<1>1. state \in States
  BY DEF IInv, TypeOK
<1> USE DEF DecisionInv, Beginning, Planned
<1>2. \A reason : ExplorationFailed(reason) => at' = "done"
  BY DEF ExplorationFailed, Stopped, Close
<1>3. \A d : BeginRound(d) => at' = "probe" /\ state'.decision = d
  BY <1>1 DEF BeginRound, GoOn, States
<1>4. \A s \in States : Closed(s).decision = s.decision
  BY DEF Closed, States
<1>5. CASE Explore
  BY <1>1, <1>2, <1>3, <1>4, <1>5 DEF Explore, GoOn
<1>6. CASE RunProbe
  BY <1>1, <1>6 DEF RunProbe, GoOn, States
<1>7. CASE AskAfterProbes
  BY <1>7, WaitingSteps DEF AskAfterProbes, Ask
<1>8. CASE RoundReply
  <2>1. CASE ExplorationFailed("CASE_ID_MISMATCH")
    BY <2>1, <1>2
  <2>2. ASSUME NEW d \in Decisions("EXPLORATION"), d.kind = "EXPLORE",
               BeginRound(d) \/ ExplorationFailed("EXPLORATION_NOT_CLOSED")
        PROVE  DecisionInv'
    BY <2>2, <1>2, <1>3
  <2>3. ASSUME NEW d \in Decisions("EXPLORATION"), d.kind # "EXPLORE",
               GoOn(RecordStage(trace, "exploration", "PASS", "NONE"), "check_readings"),
               state' = Closed([state EXCEPT !.decision = d])
        PROVE  DecisionInv'
    <3>1. state'.decision = d
      BY <1>1, <2>3 DEF Closed, States
    <3> QED
      BY <2>3, <3>1 DEF GoOn
  <2> QED
    BY <1>8, <2>1, <2>2, <2>3 DEF RoundReply
<1>9. CASE RoundFails
  BY <1>2, <1>9 DEF RoundFails
<1>10. CASE CheckReadings
  BY <1>10, WaitingSteps DEF CheckReadings, ReadingsRecorded, GoOn, Ask
<1>11. CASE ReadingsReply
  BY <1>11, WaitingSteps DEF ReadingsReply, ReadingsRecorded, GoOn, Replied
<1>12. CASE ReadingsFail
  BY <1>12, WaitingSteps DEF ReadingsFail, ReadingsRecorded, GoOn, Unanswered
<1>13. CASE RunReading
  <2>1. CompareReadings => /\ at' = "query"
                           /\ UNCHANGED state \/ state'.decision = Answer("READING_CHECK")
    BY <1>1 DEF CompareReadings, ReadingsRecorded, GoOn, States
  <2>2. \/ at' = "query" /\ UNCHANGED state
        \/ at' = "read" /\ UNCHANGED state
        \/ at' = "query" /\ state'.decision = Answer("READING_CHECK")
    BY <1>13, <2>1 DEF RunReading, ReadingsRecorded, GoOn
  <2>3. Answer("READING_CHECK").kind = "ANSWER"
    BY DEF Answer
  <2> QED
    BY <1>13, <2>2, <2>3 DEF RunReading
<1> QED
  BY <1>5, <1>6, <1>7, <1>8, <1>9, <1>10, <1>11, <1>12, <1>13 DEF Exploring

LEMMA QueryingDecision == IInv /\ DecisionInv /\ Querying => DecisionInv'
<1> SUFFICES ASSUME IInv, DecisionInv, Querying PROVE DecisionInv'
  OBVIOUS
<1>1. state \in States
  BY DEF IInv, TypeOK
<1>2. at' \in Planned
  BY WaitingSteps DEF Planned, Querying, AdmitSql, AskRepair, RepairReply, RepairFails,
     Replan, Execute, CheckResult, ProbeValues, Respond, NonAnswer, Close, Settle, KeepOriginal,
     RepairResult, GoOn, Ask
<1>3. \/ at' = "done"
      \/ /\ at = "query" => state.decision.kind = "ANSWER"
         /\ UNCHANGED state
      \/ state'.decision.kind = "ANSWER"
  <2>1. CASE RepairReply
    BY <1>1, <2>1, WaitingSteps
       DEF RepairReply, Replied, NonAnswer, Close, KeepOriginal, States
  <2> QED
    BY <2>1, WaitingSteps DEF Querying, AdmitSql, AskRepair, RepairFails, Replan, Execute,
       CheckResult, ProbeValues, Respond, NonAnswer, Close, Unanswered
<1>4. at \in (Planned \cup {"query"}) \ {"done"}
  BY WaitingSteps DEF Planned, Querying, AdmitSql, AskRepair, RepairReply, RepairFails,
     Replan, Execute, CheckResult, ProbeValues, Respond, Replied, Unanswered
<1> QED
  BY <1>2, <1>3, <1>4 DEF DecisionInv, Planned, Beginning

\* A passing deadline and a stutter touch no decision.
LEMMA StepDecision == IInv /\ DecisionInv /\ [Next]_vars => DecisionInv'
<1>1. DecisionInv /\ DeadlinePasses => DecisionInv'
  BY DEF DecisionInv, DeadlinePasses
<1>2. DecisionInv /\ UNCHANGED vars => DecisionInv'
  BY DEF DecisionInv, vars
<1> QED
  BY <1>1, <1>2, OpeningDecision, WideningDecision, ExploringDecision, QueryingDecision
     DEF Next, RunStep

-----------------------------------------------------------------------------
(***************************************************************************)
(* Ends of a run.                                                          *)
(***************************************************************************)
\* A step goes on, or ends the run with a decision the outcome fits.
Ending ==
  \/ UNCHANGED outcome
  \/ outcome' = "NOT_ENTERED" /\ state'.decision.kind # "EXPLORE"
  \/ /\ outcome' = "GENERATION_ERROR"
     /\ state'.decision.kind = "EXPLORE" \/ refused' = {}
  \/ outcome' \notin {"NONE", "GENERATION_ERROR"} /\ state'.decision.kind = "ANSWER"

LEMMA OpeningEnds == IInv /\ DecisionInv /\ Opening => Ending
<1> SUFFICES ASSUME IInv, DecisionInv, Opening PROVE Ending
  OBVIOUS
<1> USE DEF Ending
<1>1. CASE ResolveContext
  BY <1>1 DEF ResolveContext, GoOn, Close, DecisionInv
<1>2. CASE ReplayDecision \/ AskFirst \/ FirstReply
  BY <1>2 DEF ReplayDecision, AskFirst, FirstReply, GoOn
<1>3. CASE FirstFails
  BY <1>3, FirstNotRefused DEF FirstFails, Close, DecisionInv, Beginning
<1>4. CASE Admit
  BY <1>4 DEF Admit, Stopped, Close, GoOn, NoCall, DecisionInv, Beginning
<1> QED
  BY <1>1, <1>2, <1>3, <1>4 DEF Opening

LEMMA WideningEnds == Widening => Ending
BY DEF Ending, Widening, WidenContext, ExpansionReply, ExpansionFails, LookFirst,
   LookFirstReply, LookFirstFails, ExpansionRecorded, GoOn

\* Only a request to explore ends a run in exploration.
LEMMA ExploringEnds == IInv /\ DecisionInv /\ Exploring => Ending
<1> SUFFICES ASSUME IInv, DecisionInv, Exploring PROVE Ending
  OBVIOUS
<1> USE DEF Ending
<1>1. \A reason : ExplorationFailed(reason) => outcome' = "GENERATION_ERROR"
  BY DEF ExplorationFailed, Stopped, Close
<1>2. CASE Explore
  BY <1>1, <1>2 DEF Explore, BeginRound, GoOn
<1>3. CASE RoundReply
  BY <1>1, <1>3, WaitingSteps DEF RoundReply, Replied, BeginRound, GoOn, DecisionInv
<1>4. CASE RoundFails
  BY <1>1, <1>4, WaitingSteps DEF RoundFails, Unanswered, DecisionInv
<1>5. CASE RunProbe \/ AskAfterProbes
  BY <1>5 DEF RunProbe, AskAfterProbes, GoOn
<1>6. CASE CheckReadings \/ ReadingsReply \/ ReadingsFail \/ RunReading
  BY <1>6 DEF CheckReadings, ReadingsReply, ReadingsFail, RunReading, CompareReadings,
     ReadingsRecorded, GoOn
<1> QED
  BY <1>2, <1>3, <1>4, <1>5, <1>6 DEF Exploring

LEMMA QueryingEnds == IInv /\ DecisionInv /\ Querying => Ending
<1> SUFFICES ASSUME IInv, DecisionInv, Querying PROVE Ending
  OBVIOUS
<1> USE DEF Ending
<1>1. \A t : NonAnswer(t) => outcome' = "NOT_ENTERED"
  BY DEF NonAnswer, Close
<1>2. /\ \A t, p : Settle(t, p) => UNCHANGED outcome
      /\ \A t : KeepOriginal(t) => UNCHANGED outcome
      /\ \A t : RepairResult(t) => UNCHANGED outcome
      /\ \A t, step : GoOn(t, step) => UNCHANGED outcome
  BY DEF Settle, KeepOriginal, RepairResult, GoOn
<1>3. CASE AdmitSql
  BY <1>1, <1>2, <1>3 DEF AdmitSql, DecisionInv
<1>4. CASE RepairReply
  <2>1. \A d : [state EXCEPT !.decision = d, !.repairedFrom = TRUE].decision = d
    BY DEF IInv, TypeOK, States
  <2> QED
    BY <1>1, <1>2, <1>4, <2>1 DEF RepairReply, Replacements
<1>5. CASE Respond
  <2>1. at = "respond" /\ UNCHANGED state /\ outcome' = ResultOutcome
    BY <1>5 DEF Respond
  <2>2. state.decision.kind = "ANSWER"
    BY <2>1 DEF DecisionInv, Planned
  <2>3. attempt.ran = "NONE" => attempt.plan.outcome \notin {"NONE", "GENERATION_ERROR"}
    BY <2>1 DEF IInv, QueriesInv, PlanFailures, Failure
  <2> QED
    BY <2>1, <2>2, <2>3 DEF ResultOutcome
<1>6. CASE AskRepair \/ RepairFails \/ Replan \/ Execute \/ CheckResult \/ ProbeValues
  BY <1>2, <1>6 DEF AskRepair, RepairFails, Replan, Execute, CheckResult, ProbeValues
<1> QED
  BY <1>3, <1>4, <1>5, <1>6 DEF Querying

\* A run that is over takes no step.
LEMMA StepBeforeEnd == Next => at # "done"
BY WaitingSteps DEF Next, RunStep, DeadlinePasses,
   Opening, ResolveContext, ReplayDecision, AskFirst, FirstReply, FirstFails, Admit,
   Widening, WidenContext, ExpansionReply, ExpansionFails, LookFirst, LookFirstReply,
   LookFirstFails,
   Exploring, Explore, RunProbe, AskAfterProbes, RoundReply, RoundFails, CheckReadings,
   ReadingsReply, ReadingsFail, RunReading,
   Querying, AdmitSql, AskRepair, RepairReply, RepairFails, Replan, Execute, CheckResult,
   ProbeValues, Respond, Replied, Unanswered

LEMMA StepEnds == IInv /\ DecisionInv /\ EndsInv /\ [Next]_vars => EndsInv'
<1> SUFFICES ASSUME IInv, DecisionInv, EndsInv, [Next]_vars PROVE EndsInv'
  OBVIOUS
<1> USE DEF EndsInv, FinalDecision, LimitsKeepTheDecision
<1>1. CASE UNCHANGED vars
  BY <1>1 DEF vars
<1>2. CASE Next
  <2>1. outcome = "NONE"
    BY <1>2, StepBeforeEnd DEF IInv, EndInv
  <2>2. Ending
    BY <1>2, OpeningEnds, WideningEnds, ExploringEnds, QueryingEnds
       DEF Next, RunStep, DeadlinePasses, Ending
  <2> QED
    BY <2>1, <2>2 DEF Ending
<1> QED
  BY <1>1, <1>2

-----------------------------------------------------------------------------
(***************************************************************************)
(* A good result stands.                                                   *)
(***************************************************************************)
Replacing == {"repair", "await_repair", "replan", "probe_values"}

LEMMA ResultKept ==
  ASSUME UNCHANGED <<attempt, settings, replay>>
  PROVE  GoodResult' <=> GoodResult
BY DEF GoodResult

\* Before the first plan there is no result.
LEMMA NoResultYet ==
  ASSUME attempt.ran = "NONE"
  PROVE  ~GoodResult
BY DEF GoodResult, QueryResults

LEMMA BeforeQuery == Opening \/ Widening \/ Exploring => at' \notin Replacing
BY WaitingSteps DEF Replacing,
   Opening, ResolveContext, ReplayDecision, AskFirst, FirstReply, FirstFails, Admit,
   Widening, WidenContext, ExpansionReply, ExpansionFails, LookFirst, LookFirstReply,
   LookFirstFails, ExpansionRecorded,
   Exploring, Explore, RunProbe, AskAfterProbes, RoundReply, RoundFails, CheckReadings,
   ReadingsReply, ReadingsFail, RunReading, CompareReadings, ReadingsRecorded,
   ExplorationFailed, BeginRound, Stopped, Close, GoOn, Ask

\* Only a result something is wrong with is looked at again.
LEMMA LookedAtAgain ==
  ASSUME CheckResult, at' \in Replacing
  PROVE  ~GoodResult
<1>1. \/ attempt.ran \in RangeResults \cup {"EMPTY"} /\ ~replay /\ settings.resultCheck
      \/ attempt.ran \in FixableErrors
  BY DEF CheckResult, GoOn, Replacing
<1> QED
  BY <1>1 DEF GoodResult, RangeResults, QueryResults, FixableErrors

LEMMA StepStands == IInv /\ StandsInv /\ [Next]_vars => StandsInv'
<1> SUFFICES ASSUME IInv, StandsInv, [Next]_vars, at' \in Replacing PROVE ~GoodResult'
  BY DEF StandsInv, Replacing
<1>1. at \in Replacing => ~GoodResult
  BY DEF StandsInv, Replacing
<1>2. CASE AdmitSql
  <2>1. attempt.ran = "NONE" /\ attempt \in Attempts
    BY <1>2 DEF AdmitSql, IInv, TypeOK, QueriesInv, Planned
  <2>2. attempt' = attempt \/ \E p : attempt' = [attempt EXCEPT !.plan = p]
    BY <1>2 DEF AdmitSql
  <2>3. attempt'.ran = "NONE"
    BY <2>1, <2>2 DEF Attempts
  <2> QED
    BY <2>3 DEF GoodResult, QueryResults
<1>3. CASE CheckResult
  BY <1>3, LookedAtAgain, ResultKept DEF CheckResult, InQuery, Fixed
<1>4. CASE AskRepair \/ RepairReply \/ RepairFails \/ ProbeValues
  <2>1. at \in Replacing /\ UNCHANGED <<attempt, settings, replay>>
    BY <1>4, WaitingSteps DEF Replacing, AskRepair, RepairReply, RepairFails, ProbeValues,
       Replied, Unanswered, InQuery, Fixed
  <2> QED
    BY <1>1, <2>1, ResultKept
<1>5. CASE Replan \/ Execute \/ Respond
  <2>1. at' \in {"execute", "check_result", "respond", "done"}
    BY <1>5 DEF Replan, Execute, Respond, Settle, GoOn
  <2> QED
    BY <2>1 DEF Replacing
<1>6. CASE DeadlinePasses \/ UNCHANGED vars
  BY <1>1, <1>6, ResultKept DEF DeadlinePasses, vars
<1> QED
  BY <1>2, <1>3, <1>4, <1>5, <1>6, BeforeQuery DEF Next, RunStep, Querying

LEMMA StepLeavesGood ==
  ASSUME IInv, StandsInv, Next, GoodResult
  PROVE  attempt' = attempt /\ outcome' \in {"NONE", "EXECUTED"}
<1>1. /\ attempt.ran \in QueryResults /\ attempt.ran # "NONE"
      /\ outcome = "NONE" /\ at \in Planned /\ at # "execute"
  BY StepBeforeEnd DEF GoodResult, QueryResults, IInv, QueriesInv, EndInv
<1>2. at \notin Replacing
  BY DEF StandsInv, Replacing
<1>3. CASE Opening \/ Widening \/ Exploring
  <2>1. at \notin Planned
    BY <1>3, WaitingSteps DEF Planned,
       Opening, ResolveContext, ReplayDecision, AskFirst, FirstReply, FirstFails, Admit,
       Widening, WidenContext, ExpansionReply, ExpansionFails, LookFirst, LookFirstReply,
       LookFirstFails,
       Exploring, Explore, RunProbe, AskAfterProbes, RoundReply, RoundFails, CheckReadings,
       ReadingsReply, ReadingsFail, RunReading, Replied, Unanswered
  <2> QED
    BY <1>1, <2>1
<1>4. CASE \/ AdmitSql \/ Replan \/ Execute
           \/ AskRepair \/ RepairReply \/ RepairFails \/ ProbeValues
  BY <1>1, <1>2, <1>4, WaitingSteps DEF AdmitSql, Replan, Execute, AskRepair, RepairReply,
     RepairFails, ProbeValues, Replied, Unanswered, Planned, Replacing
<1>5. CASE CheckResult
  BY <1>1, <1>5 DEF CheckResult, RepairResult, GoOn
<1>6. CASE Respond
  BY <1>1, <1>6 DEF Respond, ResultOutcome
<1>7. CASE DeadlinePasses
  BY <1>1, <1>7 DEF DeadlinePasses
<1> QED
  BY <1>3, <1>4, <1>5, <1>6, <1>7 DEF Next, RunStep, Querying

-----------------------------------------------------------------------------
(***************************************************************************)
(* Tokens and probes.                                                      *)
(***************************************************************************)
\* What a step does to the tokens spent.
LEMMA TokensMove ==
  ASSUME TypeOK
  PROVE  /\ NoCall => UNCHANGED <<budget, refused>>
         /\ \A call \in ModelCall : Ask(call) =>
              /\ budget'.tokens = budget.tokens /\ budget'.probes = budget.probes
              /\ call = "GENERATION" \/ budget.tokens < settings.tokenLimit
              /\ budget'.stopped = budget.stopped
         /\ \A call \in ModelCall : Replied(call) =>
              /\ \E n \in CallTokens : budget'.tokens = budget.tokens + n
              /\ budget'.probes = budget.probes
              /\ budget'.stopped = budget.stopped
         /\ \A call \in ModelCall : \A step, other, reason :
              Unanswered(call, step, other, reason) =>
                /\ budget'.tokens = budget.tokens /\ budget'.probes = budget.probes
                /\ budget'.stopped \in {budget.stopped, "CALLS", "DEADLINE", "TOKENS"}
         /\ \A refusal : ProbeTaken(refusal) =>
              /\ budget'.tokens = budget.tokens
              /\ \/ /\ budget'.probes = budget.probes + 1
                    /\ budget.probes < ProbeQueryLimit(settings)
                    /\ budget'.stopped = budget.stopped
                 \/ /\ budget'.probes = budget.probes
                    /\ budget'.stopped \in {budget.stopped, "DEADLINE", "TOKENS"}
                 \/ /\ budget'.probes = budget.probes
                    /\ budget.probes >= ProbeQueryLimit(settings)
<1>1. budget \in Budget /\ settings \in Settings
  BY DEF TypeOK
<1>2. NoCall => UNCHANGED <<budget, refused>>
  BY DEF NoCall
<1>3. ASSUME NEW call \in ModelCall, Ask(call)
      PROVE  /\ budget'.tokens = budget.tokens /\ budget'.probes = budget.probes
             /\ call = "GENERATION" \/ budget.tokens < settings.tokenLimit
             /\ budget'.stopped = budget.stopped
  <2>1. budget'.tokens = budget.tokens /\ budget'.probes = budget.probes
        /\ budget'.stopped = budget.stopped
    BY <1>1, <1>3 DEF Ask, TakeCall, Budget
  <2>2. call = "GENERATION" \/ ~(budget.tokens >= settings.tokenLimit)
    BY <1>3 DEF Ask, Refused, Refusal, TimeOrTokens, None
  <2>3. budget.tokens \in Nat /\ settings.tokenLimit \in Nat
    BY <1>1 DEF Budget, Settings
  <2> QED
    BY <2>1, <2>2, <2>3
<1>4. ASSUME NEW call \in ModelCall, Replied(call)
      PROVE  /\ \E n \in CallTokens : budget'.tokens = budget.tokens + n
             /\ budget'.probes = budget.probes
             /\ budget'.stopped = budget.stopped
  BY <1>1, <1>4 DEF Replied, SpendTokens, Budget
<1>5. \A limit : /\ Stop(budget, limit).tokens = budget.tokens
                 /\ Stop(budget, limit).probes = budget.probes
                 /\ Stop(budget, limit).stopped \in {budget.stopped, limit}
  BY <1>1 DEF Stop, Budget
<1>6. ASSUME NEW call \in ModelCall, NEW step, NEW other, NEW reason,
             Unanswered(call, step, other, reason)
      PROVE  /\ budget'.tokens = budget.tokens /\ budget'.probes = budget.probes
             /\ budget'.stopped \in {budget.stopped, "CALLS", "DEADLINE", "TOKENS"}
  <2>1. Refused(call) \in {"CALLS", "DEADLINE", "TOKENS", None}
    BY LimitsThatRefuse DEF Refused, Refusal
  <2>2. budget' = budget \/ \E limit \in {"CALLS", "DEADLINE", "TOKENS"} :
                              budget' = Stop(budget, limit)
    BY <1>6, <2>1 DEF Unanswered
  <2> QED
    BY <1>5, <2>2
<1>7. ASSUME NEW refusal, ProbeTaken(refusal)
      PROVE  /\ budget'.tokens = budget.tokens
             /\ \/ /\ budget'.probes = budget.probes + 1
                   /\ budget.probes < ProbeQueryLimit(settings)
                   /\ budget'.stopped = budget.stopped
                \/ /\ budget'.probes = budget.probes
                   /\ budget'.stopped \in {budget.stopped, "DEADLINE", "TOKENS"}
                \/ /\ budget'.probes = budget.probes
                   /\ budget.probes >= ProbeQueryLimit(settings)
  <2>1. CASE refusal = None
    <3>1. ~(budget.probes >= ProbeQueryLimit(settings))
      BY <1>7, <2>1 DEF ProbeTaken, ProbeRefusal, None
    <3>2. ProbeQueryLimit(settings) \in Int /\ budget.probes \in Nat
      BY <1>1 DEF ProbeQueryLimit, Times, Settings, Unset, MAX_PROBES, Budget
    <3> QED
      BY <1>1, <1>7, <2>1, <3>1, <3>2 DEF ProbeTaken, TakeProbeQuery, Budget
  <2>2. CASE refusal # None
    <3>1. budget' = Stop(budget, refusal)
      BY <1>7, <2>2 DEF ProbeTaken
    <3>2. \/ refusal \in {"DEADLINE", "TOKENS"}
          \/ budget.probes >= ProbeQueryLimit(settings)
      BY <1>7, <2>2 DEF ProbeTaken, ProbeRefusal, TimeOrTokens
    <3> QED
      BY <1>5, <3>1, <3>2
  <2> QED
    BY <2>1, <2>2
<1> QED
  BY <1>2, <1>3, <1>4, <1>6, <1>7

\* Every step spends nothing, takes a call, hears of one or runs a probe; a call that is
\* taken is outstanding, and nothing else is.
Spending ==
  \/ /\ UNCHANGED budget /\ at' \notin {"context", "generation"}
     /\ at' \in Waiting => at' = at
  \/ /\ UNCHANGED budget /\ at \in {"context", "generation"}
     /\ at' \in {at, "generation"}
  \/ \E call \in ModelCall : /\ Ask(call)
                             /\ call = "GENERATION" => at = "generation"
                             /\ at' \notin {"context", "generation"}
  \/ /\ \/ \E call \in ModelCall : Replied(call)
        \/ \E call \in ModelCall : \E step, other, reason :
             Unanswered(call, step, other, reason)
        \/ \E refusal : ProbeTaken(refusal)
     /\ at' \notin Waiting \cup {"context", "generation"}

LEMMA StepSpends ==
  ASSUME Next
  PROVE  Spending /\ settings' = settings
<1>1. Waiting = {"await_generation", "await_expansion", "await_look", "await_round",
                 "await_readings", "await_repair"}
  BY WaitingSteps DEF Waiting, ModelCall
<1>2. settings' = settings
  BY DEF Next, RunStep, DeadlinePasses, Opening, ResolveContext, ReplayDecision, AskFirst,
     FirstReply, FirstFails, Admit, Widening, WidenContext, ExpansionReply, ExpansionFails,
     LookFirst, LookFirstReply, LookFirstFails, Exploring, Explore, RunProbe,
     AskAfterProbes, RoundReply, RoundFails, CheckReadings, ReadingsReply, ReadingsFail,
     RunReading, Querying, AdmitSql, AskRepair, RepairReply, RepairFails, Replan, Execute,
     CheckResult, ProbeValues, Respond, InQuery, Fixed
<1> SUFFICES Spending
  BY <1>2
<1> USE <1>1, WaitingSteps DEF ModelCall, Spending
<1>3. CASE ResolveContext \/ ReplayDecision \/ Admit
  BY <1>3 DEF ResolveContext, ReplayDecision, Admit, Stopped, Close, GoOn, NoCall
<1>4. CASE AskFirst
  BY <1>4 DEF AskFirst, Ask
<1>5. CASE FirstReply
  BY <1>5 DEF FirstReply, GoOn
<1>6. CASE FirstFails
  BY <1>6 DEF FirstFails, Close
<1>7. CASE WidenContext
  BY <1>7 DEF WidenContext, ExpansionRecorded, GoOn, NoCall, Ask
<1>8. CASE ExpansionReply
  BY <1>8 DEF ExpansionReply, ExpansionRecorded, GoOn
<1>9. CASE ExpansionFails
  BY <1>9 DEF ExpansionFails, ExpansionRecorded, GoOn
<1>10. CASE LookFirst
  BY <1>10 DEF LookFirst, GoOn, NoCall, Ask
<1>11. CASE LookFirstReply
  BY <1>11 DEF LookFirstReply, GoOn
<1>12. CASE LookFirstFails
  BY <1>12 DEF LookFirstFails, GoOn
<1>13. CASE Explore
  BY <1>13 DEF Explore, BeginRound, ExplorationFailed, Stopped, Close, GoOn, NoCall
<1>14. CASE RunProbe
  BY <1>14 DEF RunProbe, GoOn
<1>15. CASE AskAfterProbes
  BY <1>15 DEF AskAfterProbes, Ask
<1>16. CASE RoundReply
  BY <1>16 DEF RoundReply, BeginRound, ExplorationFailed, Stopped, Close, GoOn
<1>17. CASE RoundFails
  BY <1>17 DEF RoundFails, ExplorationFailed, Stopped, Close
<1>18. CASE CheckReadings
  BY <1>18 DEF CheckReadings, ReadingsRecorded, GoOn, NoCall, Ask
<1>19. CASE ReadingsReply
  BY <1>19 DEF ReadingsReply, ReadingsRecorded, GoOn
<1>20. CASE ReadingsFail
  BY <1>20 DEF ReadingsFail, ReadingsRecorded, GoOn
<1>21. CASE RunReading
  BY <1>21 DEF RunReading, CompareReadings, ReadingsRecorded, GoOn
<1>22. CASE AdmitSql \/ Replan
  BY <1>22 DEF AdmitSql, Replan, NonAnswer, Close, Settle, GoOn, NoCall
<1>23. CASE AskRepair
  BY <1>23 DEF AskRepair, Ask
<1>24. CASE RepairReply
  BY <1>24 DEF RepairReply, KeepOriginal, NonAnswer, Close, Settle, GoOn
<1>25. CASE RepairFails
  BY <1>25 DEF RepairFails, KeepOriginal, Settle, GoOn
<1>26. CASE Execute \/ CheckResult \/ ProbeValues \/ Respond
  BY <1>26 DEF Execute, CheckResult, ProbeValues, Respond, RepairResult, GoOn, NoCall
<1>27. CASE DeadlinePasses
  BY <1>27 DEF DeadlinePasses
<1> QED
  BY <1>3, <1>4, <1>5, <1>6, <1>7, <1>8, <1>9, <1>10, <1>11, <1>12, <1>13, <1>14, <1>15,
     <1>16, <1>17, <1>18, <1>19, <1>20, <1>21, <1>22, <1>23, <1>24, <1>25, <1>26, <1>27
     DEF Next, RunStep, Opening, Widening, Exploring, Querying

LEMMA StepTokens == IInv /\ TokensInv /\ [Next]_vars => TokensInv'
<1> SUFFICES ASSUME IInv, TokensInv, [Next]_vars PROVE TokensInv'
  OBVIOUS
<1> USE DEF TokensInv, OneReplyOverTokenLimit
<1>1. CASE UNCHANGED vars
  BY <1>1 DEF vars, Waiting
<1>2. CASE Next
  <2>1. /\ TypeOK /\ budget.tokens \in Nat /\ settings.tokenLimit \in Nat \ {0}
        /\ settings' = settings /\ CallTokens \subseteq Nat
    BY <1>2, StepSpends, TokenAssumption DEF IInv, TypeOK, Budget, Settings
  <2>2. Waiting \cap {"context", "generation"} = {} /\ Waiting' = Waiting
    BY WaitingSteps DEF Waiting, ModelCall
  <2> HIDE DEF Waiting
  <2>3. CASE /\ UNCHANGED budget /\ at' \notin {"context", "generation"}
             /\ at' \in Waiting => at' = at
    BY <2>1, <2>2, <2>3
  <2>4. CASE /\ UNCHANGED budget /\ at \in {"context", "generation"}
             /\ at' \in {at, "generation"}
    BY <2>1, <2>2, <2>4
  <2>5. ASSUME NEW call \in ModelCall, Ask(call), call = "GENERATION" => at = "generation",
               at' \notin {"context", "generation"}
        PROVE  TokensInv'
    <3>1. /\ budget'.tokens = budget.tokens
          /\ call = "GENERATION" \/ budget.tokens < settings.tokenLimit
      BY <2>1, <2>5, TokensMove
    <3>2. budget'.tokens < settings.tokenLimit
      BY <2>1, <2>5, <3>1
    <3> QED
      BY <2>1, <2>5, <3>1, <3>2
  <2>6. ASSUME NEW call \in ModelCall, Replied(call),
               at' \notin Waiting \cup {"context", "generation"}
        PROVE  TokensInv'
    <3>1. PICK n \in CallTokens : budget'.tokens = budget.tokens + n
      BY <2>1, <2>6, TokensMove
    <3>2. at \in Waiting
      BY <2>6 DEF Replied, Waiting
    <3>3. budget'.tokens < settings'.tokenLimit + n
      BY <2>1, <3>1, <3>2
    <3> QED
      BY <2>2, <2>6, <3>3
  <2>7. CASE /\ budget'.tokens = budget.tokens
             /\ at' \notin Waiting \cup {"context", "generation"}
    BY <2>1, <2>2, <2>7
  <2> QED
    BY <1>2, <2>1, <2>3, <2>4, <2>5, <2>6, <2>7, StepSpends, TokensMove DEF Spending
<1> QED
  BY <1>1, <1>2

\* The steps at which no reading has run yet and no probe is left of a round.
BetweenRounds == (BeforeReadings \ {"probe"}) \cup {"await_readings"}

\* What a step does to the rounds and to the queries left of one.
Probing ==
  \/ UNCHANGED <<budget, rounds, left, at>>
  \/ /\ \/ UNCHANGED budget
        \/ \E call \in ModelCall : \/ Ask(call) \/ Replied(call)
                                   \/ \E step, other, reason :
                                        Unanswered(call, step, other, reason)
     /\ \/ UNCHANGED rounds /\ at' \notin {"probe", "read", "await_readings"}
           /\ (at' \in BetweenRounds => at \in BetweenRounds)
        \/ UNCHANGED rounds /\ at \in BetweenRounds /\ at' = "await_readings"
           /\ settings.readingCheck
        \/ at \in BetweenRounds /\ rounds' = rounds + 1
           /\ at' = "probe" /\ left' \in 1..MAX_PROBES
        \/ UNCHANGED rounds /\ at = "await_readings"
           /\ at' = "read" /\ left' \in 1..MAX_PROBES
  \/ /\ \E refusal : ProbeTaken(refusal)
     /\ UNCHANGED rounds
     /\ \/ at = "probe" /\ at' \in {"probe", "round"} /\ left' = left - 1
        \/ at = "read" /\ at' = "read" /\ left' = left - 1
        \/ at = "read" /\ at' = "query"

LEMMA StepProbing ==
  ASSUME IInv, DecisionInv, Next
  PROVE  Probing
<1>1. BetweenRounds = {"context", "generation", "await_generation", "admit", "widen",
                       "await_expansion", "look", "await_look", "explore", "round",
                       "await_round", "check_readings", "await_readings"}
  BY DEF BetweenRounds, BeforeReadings, BeforeLooking, BeforeWidening, BeforeGeneration
<1>2. state.decision.kind = "EXPLORE" => state.decision.size \in 1..MAX_PROBES
  BY DEF IInv, SizesInv
<1>3. at = "await_readings" => state.decision.size \in 1..MAX_PROBES
  BY DEF IInv, SizesInv
<1> USE <1>1, WaitingSteps DEF ModelCall, Probing
<1>4. CASE ResolveContext \/ ReplayDecision \/ Admit
  BY <1>4 DEF ResolveContext, ReplayDecision, Admit, Stopped, Close, GoOn, NoCall
<1>5. CASE AskFirst
  BY <1>5 DEF AskFirst, Ask
<1>6. CASE FirstReply
  BY <1>6 DEF FirstReply, Replied, GoOn
<1>7. CASE FirstFails
  BY <1>7 DEF FirstFails, Close
<1>8. CASE WidenContext
  BY <1>8 DEF WidenContext, ExpansionRecorded, GoOn, NoCall, Ask
<1>9. CASE ExpansionReply
  BY <1>9 DEF ExpansionReply, ExpansionRecorded, Replied, GoOn
<1>10. CASE ExpansionFails
  <2>1. /\ \E step, other, reason : Unanswered("CONTEXT_EXPANSION", step, other, reason)
        /\ at \in {"widen", "await_expansion"} /\ at' = "look" /\ UNCHANGED rounds
    BY <1>10 DEF ExpansionFails, ExpansionRecorded, GoOn, Unanswered
  <2> QED
    BY <2>1
<1>11. CASE LookFirst
  BY <1>11 DEF LookFirst, GoOn, NoCall, Ask
<1>12. CASE LookFirstReply
  BY <1>12 DEF LookFirstReply, Replied, GoOn
<1>13. CASE LookFirstFails
  <2>1. /\ \E step, other, reason : Unanswered("LOOK_FIRST", step, other, reason)
        /\ at \in {"look", "await_look"} /\ at' = "explore" /\ UNCHANGED rounds
    BY <1>13 DEF LookFirstFails, GoOn, Unanswered
  <2> QED
    BY <2>1
<1>14. CASE Explore
  BY <1>2, <1>14 DEF Explore, BeginRound, ExplorationFailed, Stopped, Close, GoOn, NoCall
<1>15. CASE RunProbe
  BY <1>15 DEF RunProbe, GoOn
<1>16. CASE AskAfterProbes
  BY <1>16 DEF AskAfterProbes, Ask
<1>17. CASE RoundReply
  <2>1. \A d \in Decisions("EXPLORATION") :
          d.kind = "EXPLORE" => d.size \in 1..MAX_PROBES
    BY DecisionTypes
  <2>2. at = "await_round" /\ Replied("EXPLORATION")
    BY <1>17 DEF RoundReply, Replied
  <2> QED
    BY <1>17, <2>1, <2>2
       DEF RoundReply, BeginRound, ExplorationFailed, Stopped, Close, GoOn
<1>18. CASE RoundFails
  BY <1>18 DEF RoundFails, ExplorationFailed, Stopped, Close
<1>19. CASE CheckReadings
  BY <1>19 DEF CheckReadings, ReadingsCountable, ReadingsRecorded, GoOn, NoCall, Ask
<1>20. CASE ReadingsReply
  <2>1. at = "await_readings" /\ Replied("READING_CHECK") /\ UNCHANGED rounds
    BY <1>20 DEF ReadingsReply, Replied
  <2>2. at' = "query" \/ (at' = "read" /\ left' = state.decision.size)
    BY <1>20 DEF ReadingsReply, ReadingsRecorded, GoOn
  <2> QED
    BY <1>3, <2>1, <2>2
<1>21. CASE ReadingsFail
  BY <1>21 DEF ReadingsFail, ReadingsRecorded, GoOn
<1>22. CASE RunReading
  BY <1>22 DEF RunReading, CompareReadings, ReadingsRecorded, GoOn
<1>23. CASE AdmitSql \/ Replan
  BY <1>23 DEF AdmitSql, Replan, NonAnswer, Close, Settle, GoOn, NoCall, InQuery
<1>24. CASE AskRepair
  BY <1>24 DEF AskRepair, Ask, InQuery
<1>25. CASE RepairReply
  BY <1>25 DEF RepairReply, KeepOriginal, NonAnswer, Close, Settle, GoOn, InQuery
<1>26. CASE RepairFails
  BY <1>26 DEF RepairFails, KeepOriginal, Settle, GoOn, InQuery
<1>27. CASE Execute \/ CheckResult \/ ProbeValues \/ Respond
  BY <1>27 DEF Execute, CheckResult, ProbeValues, Respond, RepairResult, GoOn, NoCall,
     InQuery
<1>28. CASE DeadlinePasses
  BY <1>28 DEF DeadlinePasses
<1> QED
  BY <1>4, <1>5, <1>6, <1>7, <1>8, <1>9, <1>10, <1>11, <1>12, <1>13, <1>14, <1>15, <1>16,
     <1>17, <1>18, <1>19, <1>20, <1>21, <1>22, <1>23, <1>24, <1>25, <1>26, <1>27, <1>28
     DEF Next, RunStep, Opening, Widening, Exploring, Querying

\* The rounds begun, and the readings of a run that checks them, fit the default limit.
LEMMA DefaultIsRoomy ==
  ASSUME IInv, settings.probeLimit = Unset
  PROVE  MAX_PROBES * rounds + (IF settings.readingCheck THEN MAX_PROBES ELSE 0)
           <= ProbeQueryLimit(settings)
<1>1. /\ settings.rounds \in 1..5 /\ rounds \in 0..5
      /\ rounds <= settings.rounds
      /\ rounds > 0 => settings.exploration
  BY DEF IInv, TypeOK, RoundsInv, Settings
<1> QED
  BY <1>1 DEF ProbeQueryLimit, Times, MAX_PROBES

LEMMA StepProbes == IInv /\ DecisionInv /\ ProbesInv /\ [Next]_vars => ProbesInv'
<1> SUFFICES ASSUME IInv, DecisionInv, ProbesInv, [Next]_vars PROVE ProbesInv'
  OBVIOUS
<1>1. CASE UNCHANGED vars
  BY <1>1 DEF vars, ProbesInv, DefaultProbesFit
<1>2. CASE Next
  <2>1. IInv' /\ Probing /\ settings' = settings /\ TypeOK
    BY <1>2, NextInv, StepProbing, StepSpends DEF IInv
  <2> DEFINE Room(r) == MAX_PROBES * r
             Extra == IF settings.readingCheck THEN MAX_PROBES ELSE 0
             Rest == /\ at = "probe" => budget.probes + left <= Room(rounds)
                     /\ at \in {"await_readings", "read"} => settings.readingCheck
                     /\ at = "read" => budget.probes + left <= Room(rounds) + MAX_PROBES
                     /\ at \in BetweenRounds => budget.probes <= Room(rounds)
                     /\ budget.probes <= Room(rounds) + Extra
  <2>2. Rest /\ DefaultProbesFit
    BY DEF ProbesInv, BetweenRounds
  <2>3. /\ budget.probes \in Nat /\ rounds \in Nat /\ left \in Nat
        /\ budget'.probes \in Nat /\ rounds' \in Nat /\ left' \in Nat
        /\ at \in {"probe", "read"} => left > 0
    BY <2>1 DEF IInv, TypeOK, Budget, SizesInv
  <2>4. /\ \A call \in ModelCall :
             \/ Ask(call) \/ Replied(call)
             \/ \E step, other, reason : Unanswered(call, step, other, reason)
             => /\ budget'.probes = budget.probes
                /\ budget'.stopped \in {budget.stopped, "CALLS", "DEADLINE", "TOKENS"}
        /\ \A refusal : ProbeTaken(refusal) =>
             \/ /\ budget'.probes \in {budget.probes, budget.probes + 1}
                /\ budget'.stopped \in {budget.stopped, "DEADLINE", "TOKENS"}
             \/ /\ budget'.probes = budget.probes
                /\ budget.probes >= ProbeQueryLimit(settings)
    BY <2>1, TokensMove
  <2>5. Rest'
    <3>1. CASE UNCHANGED <<budget, rounds, left, at>>
      BY <2>1, <2>2, <3>1
    <3>2. CASE /\ at \in {"probe", "read"}
               /\ budget'.probes \in {budget.probes, budget.probes + 1}
               /\ UNCHANGED rounds
               /\ \/ at = "probe" /\ at' \in {"probe", "round"} /\ left' = left - 1
                  \/ at = "read" /\ at' = "read" /\ left' = left - 1
                  \/ at = "read" /\ at' = "query"
      BY <2>1, <2>2, <2>3, <3>2 DEF MAX_PROBES, BetweenRounds, BeforeReadings,
         BeforeLooking, BeforeWidening, BeforeGeneration
    <3>3. CASE /\ budget'.probes = budget.probes
               /\ \/ UNCHANGED rounds /\ at' \notin {"probe", "read", "await_readings"}
                     /\ (at' \in BetweenRounds => at \in BetweenRounds)
                  \/ UNCHANGED rounds /\ at \in BetweenRounds /\ at' = "await_readings"
                     /\ settings.readingCheck
                  \/ at \in BetweenRounds /\ rounds' = rounds + 1
                     /\ at' = "probe" /\ left' \in 1..MAX_PROBES
                  \/ UNCHANGED rounds /\ at = "await_readings"
                     /\ at' = "read" /\ left' \in 1..MAX_PROBES
      BY <2>1, <2>2, <2>3, <3>3 DEF MAX_PROBES, BetweenRounds, BeforeReadings,
         BeforeLooking, BeforeWidening, BeforeGeneration
    <3> QED
      BY <2>1, <2>4, <3>1, <3>2, <3>3 DEF Probing
  <2>6. DefaultProbesFit'
    <3> SUFFICES ASSUME settings.probeLimit = Unset
                 PROVE  /\ budget'.stopped # "PROBE_QUERIES"
                        /\ budget'.probes <= ProbeQueryLimit(settings)
      BY <2>1 DEF DefaultProbesFit, ProbeQueryLimit
    <3>1. ProbeQueryLimit(settings) \in Int
      BY <2>1 DEF TypeOK, Settings, ProbeQueryLimit, Times, MAX_PROBES
    <3>2. /\ Room(rounds) + Extra <= ProbeQueryLimit(settings)
          /\ Room(rounds') + Extra <= ProbeQueryLimit(settings)
      <4>1. ProbeQueryLimit(settings') = ProbeQueryLimit(settings)
        BY <2>1
      <4>2. MAX_PROBES * rounds' + (IF settings'.readingCheck THEN MAX_PROBES ELSE 0)
              <= ProbeQueryLimit(settings')
        BY <2>1 DEF IInv, TypeOK, RoundsInv, Settings, ProbeQueryLimit, Times, MAX_PROBES
      <4> QED
        BY <2>1, <4>1, <4>2, DefaultIsRoomy
    <3>3. budget'.probes <= ProbeQueryLimit(settings)
      BY <2>1, <2>3, <2>5, <3>1, <3>2 DEF MAX_PROBES
    <3>4. at \in {"probe", "read"} => budget.probes < ProbeQueryLimit(settings)
      BY <2>2, <2>3, <3>1, <3>2 DEF MAX_PROBES
    <3>5. budget.stopped # "PROBE_QUERIES"
      BY <2>2 DEF DefaultProbesFit
    <3>6. budget'.stopped \in {budget.stopped, "CALLS", "DEADLINE", "TOKENS"}
      BY <2>1, <2>3, <2>4, <3>1, <3>4 DEF Probing
    <3> QED
      BY <3>3, <3>5, <3>6
  <2> QED
    BY <2>5, <2>6 DEF ProbesInv, BetweenRounds
<1> QED
  BY <1>1, <1>2

-----------------------------------------------------------------------------
(***************************************************************************)
(* The theorems.                                                           *)
(***************************************************************************)
LEMMA StepOutcome == IInv /\ OInv /\ [Next]_vars => OInv'
BY StepDecision, StepTokens, StepProbes, StepStands, StepEnds DEF OInv

\* The inductive invariant holds in every run, for all settings and token counts.
THEOREM OutcomeInductive == Spec => []OInv
BY InitOutcome, StepOutcome, Inductive, PTL DEF Spec

\* No run ends with a request to explore as its decision, and one that entered the
\* runtime answered (decision_contract.py, DecisionType).
THEOREM FinalDecisionFits == Spec => []FinalDecision
<1>1. OInv => FinalDecision
  BY DEF OInv, EndsInv
<1> QED
  BY <1>1, OutcomeInductive, PTL

\* A run that ends for want of a usable decision after a limit stopped a step had only a
\* request to explore in hand (service.py, _explore).
THEOREM DecisionKept == Spec => []LimitsKeepTheDecision
<1>1. OInv => LimitsKeepTheDecision
  BY DEF OInv, EndsInv
<1> QED
  BY <1>1, OutcomeInductive, PTL

\* One reply may cross the token limit, and nothing is asked after it
\* (budget.py, AttemptBudget._check_time_and_tokens).
THEOREM TokensBounded == Spec => []OneReplyOverTokenLimit
<1>1. OInv => OneReplyOverTokenLimit
  BY DEF OInv, TokensInv
<1> QED
  BY <1>1, OutcomeInductive, PTL

\* The default probe limit never refuses a probe or a reading, whatever the number of
\* rounds (budget.py, AttemptBudget.for_run).
THEOREM DefaultProbesNeverRefused == Spec => []DefaultProbesFit
<1>1. OInv => DefaultProbesFit
  BY DEF OInv, ProbesInv
<1> QED
  BY <1>1, OutcomeInductive, PTL

\* No later step replaces or loses a result nothing is wrong with
\* (service.py, _check_result).
THEOREM GoodResultKept == Spec => GoodResultStands
<1> DEFINE Kept == GoodResult => attempt' = attempt /\ outcome' \in {"NONE", "EXECUTED"}
<1>1. IInv /\ OInv /\ [Next]_vars => [Kept]_vars
  BY StepLeavesGood DEF OInv
<1> HIDE DEF Kept
<1>2. Spec => [][Kept]_vars
  BY <1>1, Inductive, OutcomeInductive, PTL DEF Spec
<1> QED
  BY <1>2 DEF Kept, GoodResultStands
-----------------------------------------------------------------------------
(***************************************************************************)
(* How far a run is from its end.                                          *)
(***************************************************************************)
\* The steps, each with those that may still follow it in a first attempt and a single
\* round of probes.
Rung == [context |-> 26, generation |-> 25, await_generation |-> 24, admit |-> 23,
         widen |-> 22, await_expansion |-> 21, look |-> 20, await_look |-> 19,
         explore |-> 18, probe |-> 19, round |-> 19, await_round |-> 18,
         check_readings |-> 17, await_readings |-> 16, read |-> 12, query |-> 12,
         repair |-> 11, await_repair |-> 10, replan |-> 9, execute |-> 8,
         check_result |-> 7, probe_values |-> 6, respond |-> 1, done |-> 0]

\* The steps from which a round may still begin.
RoundsAhead == BeforeReadings \ {"check_readings"}

\* A result was already looked at: what is left is one more attempt at most.
Again == \/ at \in {"repair", "await_repair", "replan"} /\ attempt.ran # "NONE"
         \/ at = "execute" /\ attempt.second

\* No more than this many steps are left.  A round takes a step per probe and two for
\* the call that closes it.
Ahead ==
  Rung[at] - (IF Again THEN 6 ELSE 0)
  + (IF at \in RoundsAhead THEN (MAX_PROBES + 2) * (settings.rounds - rounds) ELSE 0)
  + (IF at \in {"probe", "read"} THEN left ELSE 0)
  + (IF late THEN 0 ELSE 1)

LEMMA RungValues ==
  /\ Rung["context"] = 26 /\ Rung["generation"] = 25 /\ Rung["await_generation"] = 24
  /\ Rung["admit"] = 23 /\ Rung["widen"] = 22 /\ Rung["await_expansion"] = 21
  /\ Rung["look"] = 20 /\ Rung["await_look"] = 19 /\ Rung["explore"] = 18
  /\ Rung["probe"] = 19 /\ Rung["round"] = 19 /\ Rung["await_round"] = 18
  /\ Rung["check_readings"] = 17 /\ Rung["await_readings"] = 16 /\ Rung["read"] = 12
  /\ Rung["query"] = 12 /\ Rung["repair"] = 11 /\ Rung["await_repair"] = 10
  /\ Rung["replan"] = 9 /\ Rung["execute"] = 8 /\ Rung["check_result"] = 7
  /\ Rung["probe_values"] = 6 /\ Rung["respond"] = 1 /\ Rung["done"] = 0
BY DEF Rung

\* The steps of a run, in the groups that Ahead tells apart.
Opened == {"context", "generation", "await_generation", "admit", "widen",
           "await_expansion", "look", "await_look", "explore"}

LEMMA StepGroups ==
  /\ Steps = Opened \cup {"probe", "round", "await_round", "check_readings",
                          "await_readings", "read", "query", "repair", "await_repair",
                          "replan", "execute", "check_result", "probe_values", "respond",
                          "done"}
  /\ RoundsAhead = Opened \cup {"probe", "round", "await_round"}
  /\ Awaiting["GENERATION"] = "await_generation"
  /\ Awaiting["CONTEXT_EXPANSION"] = "await_expansion"
  /\ Awaiting["LOOK_FIRST"] = "await_look"
  /\ Awaiting["EXPLORATION"] = "await_round"
  /\ Awaiting["READING_CHECK"] = "await_readings"
  /\ Awaiting["REPAIR"] = "await_repair"
BY DEF Steps, ModelCall, Awaiting, Opened, RoundsAhead, BeforeReadings, BeforeLooking,
       BeforeWidening, BeforeGeneration

\* What Ahead is, by step.
RoundsRest == 5 * (settings.rounds - rounds)

Clock == IF late THEN 0 ELSE 1

AheadFits ==
  /\ at \in Opened => Ahead = Rung[at] + RoundsRest + Clock
  /\ at = "probe" => Ahead = 19 + left + RoundsRest + Clock
  /\ at = "round" => Ahead = 19 + RoundsRest + Clock
  /\ at = "await_round" => Ahead = 18 + RoundsRest + Clock
  /\ at = "check_readings" => Ahead = 17 + Clock
  /\ at = "await_readings" => Ahead = 16 + Clock
  /\ at = "read" => Ahead = 12 + left + Clock
  /\ at = "query" => Ahead = 12 + Clock
  /\ at = "repair" => Ahead = (IF attempt.ran = "NONE" THEN 11 ELSE 5) + Clock
  /\ at = "await_repair" => Ahead = (IF attempt.ran = "NONE" THEN 10 ELSE 4) + Clock
  /\ at = "replan" => Ahead = (IF attempt.ran = "NONE" THEN 9 ELSE 3) + Clock
  /\ at = "execute" => Ahead = (IF attempt.second THEN 2 ELSE 8) + Clock
  /\ at = "check_result" => Ahead = 7 + Clock
  /\ at = "probe_values" => Ahead = 6 + Clock
  /\ at = "respond" => Ahead = 1 + Clock
  /\ at = "done" => Ahead = Clock

LEMMA AheadBySteps == TypeOK => AheadFits
<1> SUFFICES ASSUME TypeOK PROVE AheadFits
  OBVIOUS
<1>1. /\ settings.rounds \in 1..5 /\ rounds \in 0..5 /\ left \in 0..3 /\ late \in BOOLEAN
      /\ MAX_PROBES + 2 = 5
  BY DEF TypeOK, Settings, MAX_PROBES
<1>2. RoundsRest \in Int /\ Clock \in 0..1 /\ Clock = (IF late THEN 0 ELSE 1)
  BY <1>1 DEF RoundsRest, Clock
<1>3. RoundsRest = (MAX_PROBES + 2) * (settings.rounds - rounds)
  BY <1>1 DEF RoundsRest
<1>4. \A step \in Opened : Rung[step] \in Int
  BY RungValues DEF Opened
<1>5. /\ at \in RoundsAhead <=> at \in Opened \cup {"probe", "round", "await_round"}
      /\ Again <=> \/ at \in {"repair", "await_repair", "replan"} /\ attempt.ran # "NONE"
                   \/ at = "execute" /\ attempt.second
  BY StepGroups DEF Again
<1>6. Ahead = Rung[at] - (IF Again THEN 6 ELSE 0)
              + (IF at \in RoundsAhead THEN RoundsRest ELSE 0)
              + (IF at \in {"probe", "read"} THEN left ELSE 0) + Clock
  BY <1>2, <1>3 DEF Ahead
<1>7. CASE at \in Opened
  <2>1. ~Again /\ at \in RoundsAhead /\ at \notin {"probe", "read"}
    BY <1>5, <1>7 DEF Opened
  <2> QED
    BY <1>2, <1>4, <1>6, <1>7, <2>1 DEF AheadFits, Opened
<1>8. CASE at \in {"probe", "round", "await_round", "check_readings", "await_readings",
                   "read", "query"}
  <2>1. ~Again /\ at \notin Opened
    BY <1>5, <1>8 DEF Opened
  <2> QED
    BY <1>1, <1>2, <1>5, <1>6, <1>8, <2>1, RungValues DEF AheadFits
<1>9. CASE at \in {"repair", "await_repair", "replan", "execute", "check_result",
                   "probe_values", "respond", "done"}
  <2>1. at \notin RoundsAhead /\ at \notin {"probe", "read"} /\ at \notin Opened
    BY <1>5, <1>9 DEF Opened
  <2> QED
    BY <1>2, <1>5, <1>6, <1>9, <2>1, RungValues DEF AheadFits
<1> QED
  BY <1>7, <1>8, <1>9, StepGroups DEF TypeOK

\* What the proofs below use of the invariant, before and after a step.
LEMMA Counted ==
  ASSUME IInv
  PROVE  /\ AheadFits
         /\ settings.rounds \in 1..5 /\ rounds \in 0..5 /\ left \in 0..3
         /\ RoundsRest \in 0..25 /\ RoundsRest = 5 * (settings.rounds - rounds)
         /\ Clock \in 0..1 /\ Clock = (IF late THEN 0 ELSE 1) /\ at \in Steps
<1>1. /\ settings.rounds \in 1..5 /\ rounds \in 0..5 /\ left \in 0..3 /\ late \in BOOLEAN
      /\ rounds <= settings.rounds /\ at \in Steps
  BY DEF IInv, TypeOK, Settings, MAX_PROBES, RoundsInv
<1>2. RoundsRest \in 0..25
  BY <1>1 DEF RoundsRest
<1> QED
  BY <1>1, <1>2, AheadBySteps DEF IInv, RoundsRest, Clock

LEMMA AheadBounded == IInv => Ahead \in 0 .. 27 + 5 * settings.rounds
<1> SUFFICES ASSUME IInv PROVE Ahead \in 0 .. 27 + 5 * settings.rounds
  OBVIOUS
<1>1. \A step \in Opened : Rung[step] \in 18..26
  BY RungValues DEF Opened
<1>2. RoundsRest <= 5 * settings.rounds
  BY Counted
<1> QED
  BY <1>1, <1>2, Counted, StepGroups DEF AheadFits

LEMMA InitAhead == Init => Ahead <= 27 + 5 * settings.rounds
BY InitInv, AheadBounded

\* Until the probes, every step is to one that comes later.
LEMMA OpenedNears ==
  ASSUME IInv, IInv', at \in Opened, at' \in Opened \cup {"done"},
         UNCHANGED <<settings, rounds, late>>, Rung[at'] < Rung[at]
  PROVE  Ahead' < Ahead
<1>1. RoundsRest' = RoundsRest /\ Clock' = Clock
  BY DEF RoundsRest, Clock
<1>2. \A step \in Opened : Rung[step] \in 18..26
  BY RungValues DEF Opened
<1>3. AheadFits /\ RoundsRest \in 0..25 /\ Clock \in 0..1
  BY Counted
<1>4. AheadFits'
  BY AheadBySteps, PTL DEF IInv
<1> QED
  BY <1>1, <1>2, <1>3, <1>4 DEF AheadFits

LEMMA OpeningNears == IInv /\ IInv' /\ (Opening \/ Widening) => Ahead' < Ahead
<1> SUFFICES ASSUME IInv, IInv', Opening \/ Widening PROVE Ahead' < Ahead
  OBVIOUS
<1>1. UNCHANGED <<settings, rounds, late>>
  BY DEF Opening, Widening, ResolveContext, ReplayDecision, AskFirst, FirstReply,
         FirstFails, Admit, WidenContext, ExpansionReply, ExpansionFails, LookFirst,
         LookFirstReply, LookFirstFails, Fixed
<1>2. \A status, reason : ExpansionRecorded(status, reason) => at' = "look"
  BY DEF ExpansionRecorded, GoOn
<1>3. \/ at = "context" /\ at' \in {"generation", "done"}
      \/ at = "generation" /\ at' \in {"await_generation", "admit", "done"}
      \/ at = "await_generation" /\ at' \in {"admit", "done"}
      \/ at = "admit" /\ at' \in {"widen", "done"}
      \/ at = "widen" /\ at' \in {"await_expansion", "look"}
      \/ at = "await_expansion" /\ at' = "look"
      \/ at = "look" /\ at' \in {"await_look", "explore"}
      \/ at = "await_look" /\ at' = "explore"
  <2>1. CASE Opening
    BY <2>1, StepGroups
       DEF Opening, ResolveContext, ReplayDecision, AskFirst, FirstReply, FirstFails, Admit,
           GoOn, Close, Stopped, Ask, Replied, Unanswered
  <2>2. CASE WidenContext \/ ExpansionReply \/ ExpansionFails
    BY <1>2, <2>2, StepGroups
       DEF WidenContext, ExpansionReply, ExpansionFails, Ask, Replied, Unanswered
  <2>3. CASE LookFirst \/ LookFirstReply \/ LookFirstFails
    BY <2>3, StepGroups
       DEF LookFirst, LookFirstReply, LookFirstFails, GoOn, Ask, Replied, Unanswered
  <2> QED
    BY <2>1, <2>2, <2>3 DEF Widening
<1> QED
  BY <1>1, <1>3, RungValues, OpenedNears DEF Opened

\* What the exploring steps do to what Ahead counts.
LEMMA ExploringMoves ==
  ASSUME IInv, Exploring
  PROVE  /\ UNCHANGED <<settings, late>>
         /\ \/ /\ at \in {"explore", "await_round"} /\ at' = "probe"
               /\ rounds' = rounds + 1
            \/ /\ at = "probe" /\ UNCHANGED rounds
               /\ \/ at' = "round"
                  \/ at' = "probe" /\ left' = left - 1
            \/ /\ at = "round" /\ at' \in {"await_round", "done"} /\ UNCHANGED rounds
            \/ /\ at \in {"explore", "await_round"}
               /\ at' \in {"check_readings", "done"} /\ UNCHANGED rounds
            \/ /\ at = "check_readings" /\ at' \in {"await_readings", "query"}
            \/ /\ at = "await_readings" /\ at' \in {"read", "query"}
            \/ /\ at = "read"
               /\ \/ at' = "query"
                  \/ at' = "read" /\ left' = left - 1
<1>1. UNCHANGED <<settings, late>>
  BY DEF Exploring, Explore, RunProbe, AskAfterProbes, RoundReply, RoundFails,
         CheckReadings, ReadingsReply, ReadingsFail, RunReading, Fixed
<1>2. /\ \A reason : ExplorationFailed(reason) => at' = "done"
      /\ \A status, reason : ReadingsRecorded(status, reason) => at' = "query"
      /\ CompareReadings => at' = "query"
      /\ \A d : BeginRound(d) => at' = "probe" /\ rounds' = rounds + 1
      /\ \A t, step : GoOn(t, step) => at' = step
  BY DEF ExplorationFailed, Stopped, Close, ReadingsRecorded, GoOn, CompareReadings,
         BeginRound
<1>3. CASE Explore
  BY <1>1, <1>2, <1>3 DEF Explore
<1>4. CASE RunProbe
  BY <1>1, <1>2, <1>4 DEF RunProbe
<1>5. CASE AskAfterProbes
  BY <1>1, <1>5, StepGroups DEF AskAfterProbes, Ask
<1>6. CASE RoundReply
  BY <1>1, <1>2, <1>6, StepGroups DEF RoundReply, Replied
<1>7. CASE RoundFails
  BY <1>1, <1>2, <1>7, StepGroups DEF RoundFails, Unanswered
<1>8. CASE CheckReadings
  BY <1>1, <1>2, <1>8, StepGroups DEF CheckReadings, Ask
<1>9. CASE ReadingsReply
  BY <1>1, <1>2, <1>9, StepGroups DEF ReadingsReply, Replied
<1>10. CASE ReadingsFail
  BY <1>1, <1>2, <1>10, StepGroups DEF ReadingsFail, Unanswered
<1>11. CASE RunReading
  BY <1>1, <1>2, <1>11 DEF RunReading
<1> QED
  BY <1>3, <1>4, <1>5, <1>6, <1>7, <1>8, <1>9, <1>10, <1>11 DEF Exploring

LEMMA ExploringNears == IInv /\ IInv' /\ Exploring => Ahead' < Ahead
<1> SUFFICES ASSUME IInv, IInv', Exploring PROVE Ahead' < Ahead
  OBVIOUS
<1>1. /\ AheadFits /\ settings.rounds \in 1..5 /\ rounds \in 0..5 /\ left \in 0..3
      /\ RoundsRest \in 0..25 /\ RoundsRest = 5 * (settings.rounds - rounds)
      /\ Clock \in 0..1
  BY Counted
<1>2. /\ AheadFits' /\ rounds' \in 0..5 /\ left' \in 0..3
  <2>1. AheadFits'
    BY AheadBySteps, PTL DEF IInv
  <2>2. rounds' \in 0..5 /\ left' \in 0..3
    BY DEF IInv, TypeOK, MAX_PROBES
  <2> QED
    BY <2>1, <2>2
<1>3. Clock' = Clock /\ RoundsRest' = 5 * (settings.rounds - rounds')
  BY ExploringMoves DEF Clock, RoundsRest
<1>4. rounds' = rounds + 1 => RoundsRest' = RoundsRest - 5
  BY <1>1, <1>3
<1>5. Rung["explore"] = 18 /\ "explore" \in Opened
  BY RungValues DEF Opened
<1>6. at \in {"probe", "read"} => left # 0
  BY DEF IInv, SizesInv
<1>7. UNCHANGED rounds => RoundsRest' = RoundsRest
  BY <1>1, <1>3
<1>8. CASE at \in {"explore", "await_round"} /\ at' = "probe" /\ rounds' = rounds + 1
  <2>1. Ahead' = 19 + left' + (RoundsRest - 5) + Clock
    BY <1>2, <1>3, <1>4, <1>8 DEF AheadFits
  <2>2. Ahead = 18 + RoundsRest + Clock
    BY <1>1, <1>5, <1>8 DEF AheadFits
  <2> QED
    BY <1>1, <1>2, <2>1, <2>2
<1>9. CASE at = "probe" /\ UNCHANGED rounds
           /\ (at' = "round" \/ (at' = "probe" /\ left' = left - 1))
  BY <1>1, <1>2, <1>3, <1>6, <1>7, <1>9 DEF AheadFits
<1>10. CASE at = "round" /\ at' \in {"await_round", "done"} /\ UNCHANGED rounds
  BY <1>1, <1>2, <1>3, <1>7, <1>10 DEF AheadFits
<1>11. CASE at \in {"explore", "await_round"} /\ at' \in {"check_readings", "done"}
  BY <1>1, <1>2, <1>3, <1>5, <1>11 DEF AheadFits
<1>12. CASE \/ at = "check_readings" /\ at' \in {"await_readings", "query"}
            \/ at = "await_readings" /\ at' \in {"read", "query"}
            \/ at = "read" /\ (at' = "query" \/ (at' = "read" /\ left' = left - 1))
  BY <1>1, <1>2, <1>3, <1>6, <1>12 DEF AheadFits
<1> QED
  BY <1>8, <1>9, <1>10, <1>11, <1>12, ExploringMoves

\* What the querying steps do to what Ahead counts.
LEMMA QueryingMoves ==
  ASSUME IInv, Querying
  PROVE  /\ UNCHANGED late
         /\ \/ at = "query" /\ at' \in {"done", "repair", "execute", "respond"}
            \/ /\ at = "repair" /\ UNCHANGED attempt
               /\ \/ at' = "await_repair"
                  \/ at' = "execute" /\ attempt.ran = "NONE"
                  \/ at' = "respond"
            \/ /\ at = "await_repair" /\ UNCHANGED attempt
               /\ \/ at' \in {"replan", "respond", "done"}
                  \/ at' = "execute" /\ attempt.ran = "NONE"
            \/ /\ at = "replan"
               /\ \/ at' = "execute" /\ (attempt'.second <=> attempt.ran # "NONE")
                  \/ at' = "respond"
            \/ at = "execute" /\ at' = IF attempt.second THEN "respond" ELSE "check_result"
            \/ /\ at = "check_result" /\ UNCHANGED attempt
               /\ at' \in {"repair", "probe_values", "respond"}
            \/ /\ at = "probe_values" /\ UNCHANGED attempt
               /\ at' \in {"replan", "repair", "respond"}
            \/ at = "respond" /\ at' = "done"
<1>1. UNCHANGED late
  BY DEF Querying, AdmitSql, AskRepair, RepairReply, RepairFails, Replan, Execute,
         CheckResult, ProbeValues, Respond, InQuery, Fixed
<1>2. /\ \A t : NonAnswer(t) => at' = "done"
      /\ \A t, p : Settle(t, p) => at' \in {"execute", "respond"}
      /\ \A t : RepairResult(t) => at' \in {"repair", "respond"}
      /\ \A t, step : GoOn(t, step) => at' = step
  BY DEF NonAnswer, Close, Settle, RepairResult, GoOn
<1>3. \A t : KeepOriginal(t) => \/ at' = "execute" /\ attempt.ran = "NONE"
                                \/ at' = "respond"
  BY <1>2 DEF KeepOriginal
<1>4. CASE AdmitSql
  BY <1>1, <1>2, <1>4 DEF AdmitSql
<1>5. CASE AskRepair
  BY <1>1, <1>5, StepGroups DEF AskRepair, Ask
<1>6. CASE RepairReply
  BY <1>1, <1>2, <1>3, <1>6, StepGroups DEF RepairReply, Replied
<1>7. CASE RepairFails
  BY <1>1, <1>3, <1>7, StepGroups DEF RepairFails, Unanswered
<1>8. CASE Replan
  <2>1. at = "replan" /\ at' \in {"execute", "respond"}
    BY <1>2, <1>8 DEF Replan
  <2> DEFINE second == attempt.ran # "NONE"
  <2>2. PICK p \in PlanResults : attempt' = [plan |-> p, ran |-> "NONE", second |-> second]
    BY <1>8 DEF Replan
  <2> HIDE DEF second
  <2>3. attempt'.second = second
    BY <2>2
  <2>4. attempt'.second <=> attempt.ran # "NONE"
    BY <2>3 DEF second
  <2> QED
    BY <1>1, <2>1, <2>4
<1>9. CASE Execute
  BY <1>1, <1>2, <1>9 DEF Execute
<1>10. CASE CheckResult
  BY <1>1, <1>2, <1>10 DEF CheckResult
<1>11. CASE ProbeValues
  BY <1>1, <1>2, <1>11 DEF ProbeValues
<1>12. CASE Respond
  BY <1>1, <1>12 DEF Respond
<1> QED
  BY <1>4, <1>5, <1>6, <1>7, <1>8, <1>9, <1>10, <1>11, <1>12 DEF Querying

LEMMA QueryingNears == IInv /\ IInv' /\ Querying => Ahead' < Ahead
<1> SUFFICES ASSUME IInv, IInv', Querying PROVE Ahead' < Ahead
  OBVIOUS
<1>1. AheadFits /\ Clock \in 0..1
  BY Counted
<1>2. AheadFits'
  BY AheadBySteps, PTL DEF IInv
<1>3. Clock' = Clock
  BY QueryingMoves DEF Clock
<1>4. at \in {"check_result", "probe_values"} => attempt.ran # "NONE"
  BY DEF IInv, QueriesInv
<1>5. CASE at \in {"query", "repair", "await_repair", "replan"}
  <2>1. CASE at = "query"
    BY <1>1, <1>2, <1>3, <2>1, QueryingMoves DEF AheadFits
  <2>2. CASE at = "repair"
    BY <1>1, <1>2, <1>3, <2>2, QueryingMoves DEF AheadFits
  <2>3. CASE at = "await_repair"
    BY <1>1, <1>2, <1>3, <2>3, QueryingMoves DEF AheadFits
  <2>4. CASE at = "replan"
    BY <1>1, <1>2, <1>3, <2>4, QueryingMoves DEF AheadFits
  <2> QED
    BY <1>5, <2>1, <2>2, <2>3, <2>4
<1>6. CASE at \in {"execute", "check_result", "probe_values", "respond"}
  BY <1>1, <1>2, <1>3, <1>4, <1>6, QueryingMoves DEF AheadFits
<1> QED
  BY <1>5, <1>6, QueryingMoves

LEMMA DeadlineNears == IInv /\ IInv' /\ DeadlinePasses => Ahead' < Ahead
<1> SUFFICES ASSUME IInv, IInv', DeadlinePasses PROVE Ahead' < Ahead
  OBVIOUS
<1>1. /\ ~late /\ late' /\ UNCHANGED <<settings, at, rounds, left, attempt>>
  BY DEF DeadlinePasses
<1>2. Again' = Again
  BY <1>1 DEF Again
<1> DEFINE steps == Rung[at] - (IF Again THEN 6 ELSE 0)
                    + (IF at \in RoundsAhead THEN (MAX_PROBES + 2) * (settings.rounds - rounds)
                       ELSE 0)
                    + (IF at \in {"probe", "read"} THEN left ELSE 0)
<1>3. Ahead = steps + 1 /\ Ahead' = steps + 0
  BY <1>1, <1>2 DEF Ahead
<1>4. Ahead \in Int
  BY AheadBounded
<1>5. steps \in Int
  <2>1. \A step \in Steps : Rung[step] \in Int
    BY RungValues, StepGroups DEF Opened
  <2>2. /\ settings.rounds \in Int /\ rounds \in Int /\ left \in Int /\ MAX_PROBES \in Int
        /\ at \in Steps
    BY Counted DEF MAX_PROBES
  <2> QED
    BY <2>1, <2>2
<1> HIDE DEF steps
<1> QED
  BY <1>3, <1>5

\* Every run is over within 27 steps and five more per round it may begin, whatever the
\* model, the gates and the database answer, and also when a repair, a rewritten value or
\* a limit takes it back to an earlier stage: each step leaves fewer to come
\* (service.py, run and _respond).
THEOREM StepsRunOut ==
  Spec => /\ Ahead <= 27 + 5 * settings.rounds
          /\ [](Ahead \in Nat)
          /\ [][Ahead' < Ahead]_vars
<1>1. IInv => Ahead \in Nat
  BY AheadBounded, Counted
<1>2. IInv /\ IInv' /\ [Next]_vars => [Ahead' < Ahead]_vars
  BY OpeningNears, ExploringNears, QueryingNears, DeadlineNears DEF Next, RunStep
<1>3. Spec => [][Ahead' < Ahead]_vars
  BY <1>2, Inductive, PTL DEF Spec
<1>4. Spec => Ahead <= 27 + 5 * settings.rounds
  BY InitAhead DEF Spec
<1> QED
  BY <1>1, <1>3, <1>4, Inductive, PTL

-----------------------------------------------------------------------------
(***************************************************************************)
(* What the finished trace tells: the outcome, and whose SQL it is for,    *)
(* whatever earlier attempt was recorded in it.  The inductive invariant,  *)
(* beside the two before: what the trace says, by the step reached.        *)
(***************************************************************************)
\* Nothing is recorded of the runtime.
NoRuntime(t) == \A name \in RuntimeStages : ~Recorded(t, name)

\* No query has been planned, or asked about.
Early(t) == NoRuntime(t) /\ ~Recorded(t, "repair")

NotRun(t) == ~Recorded(t, "execution_connection") /\ ~Recorded(t, "execution")

\* Every gate let the query through, or is switched off.
GatesPassed(t) ==
  \A name \in PlanStages : Recorded(t, name) /\ t[name].status \notin {"REJECTED", "FAILED"}

\* The execution stage is that of the result in force.
RunTold(t) ==
  /\ GatesPassed(t)
  /\ t["execution"].status = "PASS" <=> attempt.ran \in QueryResults

Asking == {"repair", "await_repair"}

AttemptTold ==
  /\ at \notin Planned => Early(trace)
  /\ at = "replan" => NoRuntime(trace)
  /\ at \in Asking /\ attempt.ran = "NONE" =>
       NotRun(trace) /\ (attempt.plan.accepted => GatesPassed(trace))
  /\ at = "execute" => NotRun(trace) /\ GatesPassed(trace)
  /\ at \in Asking \cup {"check_result", "probe_values", "respond"} /\ attempt.ran # "NONE" =>
       RunTold(trace)
  /\ at = "respond" /\ attempt.ran = "NONE" =>
       Skipped("execution_connection") /\ Skipped("execution")

\* The repair stage, once the run has gone past it.
RepairRecorded ==
  /\ trace["repair"].status = "PASS" <=> state.decision.by = "REPAIR"
  /\ state.repairedFrom <=> state.decision.by = "REPAIR"
  /\ trace["repair"].status = "SKIPPED" =>
       /\ budget.used["REPAIR"] = 0
       /\ \A r \in refused : r[1] # "REPAIR"

NotRepaired == state.decision.by # "REPAIR" /\ ~state.repairedFrom

RepairUnasked ==
  /\ NotRepaired
  /\ budget.used["REPAIR"] = 0
  /\ \A r \in refused : r[1] # "REPAIR"

RepairInv ==
  /\ at \notin Planned => RepairUnasked
  /\ at \in Asking => NotRepaired /\ ~Recorded(trace, "repair")
  /\ at = "await_repair" => budget.used["REPAIR"] > 0
  /\ state.decision.by = "REPAIR" => budget.used["REPAIR"] > 0
  /\ at \in Planned \ (Asking \cup {"done"}) => RepairRecorded

TInv == AttemptTold /\ RepairInv /\ TraceTellsOutcome /\ RepairTold
-----------------------------------------------------------------------------
\* Nothing is recorded before the context is resolved.
LEMMA InitTold == Init => TInv
<1> SUFFICES ASSUME Init PROVE TInv
  OBVIOUS
<1>1. \A name \in Stages : ~Recorded(trace, name)
  BY DEF Init, EmptyTrace, Unrecorded, Recorded
<1>2. /\ at = "context" /\ outcome = "NONE" /\ refused = {}
      /\ state.decision.by = "NONE" /\ ~state.repairedFrom /\ budget.used["REPAIR"] = 0
  BY DEF Init, NewState, Mismatch, NewBudget, ModelCall
<1> QED
  BY <1>1, <1>2, StageNames DEF TInv, AttemptTold, RepairInv, Planned, Asking, Early,
     NoRuntime, RepairUnasked, NotRepaired, TraceTellsOutcome, RepairTold

-----------------------------------------------------------------------------
(***************************************************************************)
(* What recording a stage does to the others.                              *)
(***************************************************************************)
IsTrace(t) == DOMAIN t = Stages

LEMMA TraceTyped == TypeOK => IsTrace(trace)
BY DEF TypeOK, IsTrace

LEMMA StageRecorded ==
  ASSUME NEW t, IsTrace(t), NEW name \in Stages, NEW status, NEW reason
  PROVE  /\ IsTrace(RecordStage(t, name, status, reason))
         /\ RecordStage(t, name, status, reason)[name].status = status
         /\ \A n \in Stages \ {name} : RecordStage(t, name, status, reason)[n] = t[n]
BY DEF RecordStage, IsTrace

LEMMA StagesForgotten ==
  ASSUME NEW t, NEW names
  PROVE  /\ IsTrace(Forget(t, names))
         /\ \A n \in Stages : n \in names => ~Recorded(Forget(t, names), n)
         /\ \A n \in Stages \ names : Forget(t, names)[n] = t[n]
BY DEF Forget, Recorded, Unrecorded, IsTrace

LEMMA StagesSkipped ==
  ASSUME NEW t, NEW names, NEW reason
  PROVE  /\ IsTrace(SkipUnrecorded(t, names, reason))
         /\ \A n \in Stages : n \in names =>
              /\ Recorded(SkipUnrecorded(t, names, reason), n)
              /\ ~Recorded(t, n) =>
                   SkipUnrecorded(t, names, reason)[n].status = "SKIPPED"
         /\ \A n \in Stages : Recorded(t, n) \/ n \notin names =>
              SkipUnrecorded(t, names, reason)[n] = t[n]
BY DEF SkipUnrecorded, Recorded, IsTrace

EarlyStages == {"context", "generation", "proposal_replay", "decision_admission",
                "context_expansion", "exploration", "reading_check", "result_check",
                "response"}

LEMMA EarlyNames ==
  /\ EarlyStages \subseteq Stages /\ RuntimeStages \subseteq Stages /\ "repair" \in Stages
  /\ EarlyStages \cap RuntimeStages = {}
  /\ "repair" \notin RuntimeStages \cup EarlyStages
  /\ {"execution_connection", "execution"} \subseteq RuntimeStages
  /\ "null_ordering" \notin {"execution_connection", "execution", "repair"}
  /\ PlanStages \subseteq RuntimeStages
  /\ {"execution_connection", "execution"} \cap PlanStages = {}
  /\ RuntimeStages \ {"null_ordering"} \subseteq AfterContext
  /\ "repair" \in AfterContext /\ "response" \notin AfterContext
BY DEF EarlyStages, Stages, RuntimeStages, PlanStages, ExecutionStages, AfterContext

\* The other stages say nothing of the runtime or of the repair.
LEMMA EarlyRecorded ==
  ASSUME NEW t, IsTrace(t), NEW name \in EarlyStages, NEW status, NEW reason
  PROVE  /\ IsTrace(RecordStage(t, name, status, reason))
         /\ \A n \in RuntimeStages \cup {"repair"} :
              RecordStage(t, name, status, reason)[n] = t[n]
BY StageRecorded, EarlyNames

\* A run that closes with nothing of the runtime recorded tells so.
LEMMA Closing ==
  ASSUME NEW t, IsTrace(t), NoRuntime(t), NEW skip, NEW status, NEW response,
         NEW result \in {"NOT_ENTERED", "GENERATION_ERROR"},
         Close(t, skip, status, response, result)
  PROVE  /\ at' = "done" /\ outcome' = result
         /\ TraceTellsOutcome'
         /\ Recorded(t, "repair") => trace'["repair"].status = t["repair"].status
         /\ ~Recorded(t, "repair") => trace'["repair"].status = "SKIPPED"
<1> DEFINE u == SkipUnrecorded(t, AfterContext, skip)
<1>1. /\ IsTrace(u)
      /\ \A n \in Stages : n \in AfterContext =>
           Recorded(u, n) /\ (~Recorded(t, n) => u[n].status = "SKIPPED")
      /\ \A n \in Stages : Recorded(t, n) \/ n \notin AfterContext => u[n] = t[n]
  BY StagesSkipped
<1>2. trace' = RecordStage(u, "response", status, response)
      /\ at' = "done" /\ outcome' = result
  BY DEF Close
<1> HIDE DEF u
<1>3. \A n \in AfterContext : trace'[n] = u[n]
  BY <1>1, <1>2, StageRecorded, StageNames, EarlyNames
<1>4. \A n \in AfterContext : Recorded(trace', n)
  BY <1>1, <1>3, StageNames DEF Recorded
<1>5. \A n \in RuntimeStages \ {"null_ordering"} : trace'[n].status = "SKIPPED"
  BY <1>1, <1>3, EarlyNames DEF NoRuntime
<1>6. TraceTellsOutcome'
  BY <1>2, <1>4, <1>5, EarlyNames DEF TraceTellsOutcome, Skipped, Recorded
<1> QED
  BY <1>1, <1>2, <1>3, <1>6, EarlyNames

-----------------------------------------------------------------------------
(***************************************************************************)
(* Before the query.                                                       *)
(***************************************************************************)
\* What the stages before the query do to the trace.
EarlyStep ==
  \/ at' \notin Planned /\ Early(trace')
  \/ at' = "done" /\ TraceTellsOutcome' /\ trace'["repair"].status = "SKIPPED"

LEMMA EarlySteps ==
  ASSUME TypeOK, Early(trace), Opening \/ Widening \/ Exploring
  PROVE  EarlyStep
<1> DEFINE Fine(t) == IsTrace(t) /\ Early(t)
<1>1. Fine(trace)
  BY TraceTyped
<1>2. ASSUME NEW t, Fine(t), NEW name \in EarlyStages, NEW status, NEW reason
      PROVE  Fine(RecordStage(t, name, status, reason))
  BY <1>2, EarlyRecorded DEF Early, NoRuntime, Recorded
<1>3. \A t, step : Fine(t) /\ step \notin Planned /\ GoOn(t, step) => EarlyStep
  BY DEF GoOn, EarlyStep
<1>4. ASSUME NEW t, Fine(t), NEW skip, NEW status, NEW response,
             NEW result \in {"NOT_ENTERED", "GENERATION_ERROR"},
             Close(t, skip, status, response, result)
      PROVE  EarlyStep
  BY <1>4, Closing DEF Early, EarlyStep
<1>5. ASSUME NEW call \in ModelCall \ {"REPAIR"}, Ask(call), trace' = trace
      PROVE  EarlyStep
  BY <1>1, <1>5, WaitingSteps DEF Ask, EarlyStep, Planned, ModelCall
<1>6. \A name \in EarlyStages : \A status, reason :
        Fine(RecordStage(trace, name, status, reason))
  BY <1>1, <1>2
<1> HIDE DEF Fine
<1>7. /\ {"context", "generation", "proposal_replay", "decision_admission",
          "context_expansion", "exploration", "reading_check"} \subseteq EarlyStages
      /\ {"generation", "admit", "widen", "look", "explore", "probe", "round",
          "check_readings", "read", "query"} \cap Planned = {}
      /\ {"GENERATION", "CONTEXT_EXPANSION", "LOOK_FIRST", "EXPLORATION", "READING_CHECK"}
           \subseteq ModelCall \ {"REPAIR"}
  BY DEF EarlyStages, Planned, ModelCall
<1>8. \A reason : ExplorationFailed(reason) => EarlyStep
  BY <1>4, <1>6, <1>7 DEF ExplorationFailed, Stopped
<1>9. \A d : BeginRound(d) => EarlyStep
  BY <1>1, <1>3, <1>7 DEF BeginRound
<1>10. \A status, reason : ReadingsRecorded(status, reason) => EarlyStep
  BY <1>3, <1>6, <1>7 DEF ReadingsRecorded
<1>11. \A status, reason : ExpansionRecorded(status, reason) => EarlyStep
  BY <1>3, <1>6, <1>7 DEF ExpansionRecorded
<1>12. CASE Opening
  <2>1. CASE ResolveContext
    BY <1>3, <1>4, <1>6, <1>7, <2>1 DEF ResolveContext
  <2>2. CASE ReplayDecision
    BY <1>2, <1>3, <1>6, <1>7, <2>2 DEF ReplayDecision
  <2>3. CASE AskFirst
    BY <1>5, <1>7, <2>3 DEF AskFirst
  <2>4. CASE FirstReply
    BY <1>2, <1>3, <1>6, <1>7, <2>4 DEF FirstReply
  <2>5. CASE FirstFails
    BY <1>2, <1>4, <1>6, <1>7, <2>5 DEF FirstFails
  <2>6. CASE Admit
    BY <1>3, <1>4, <1>6, <1>7, <2>6 DEF Admit, Stopped
  <2> QED
    BY <1>12, <2>1, <2>2, <2>3, <2>4, <2>5, <2>6 DEF Opening
<1>13. CASE Widening
  <2>1. CASE WidenContext
    BY <1>5, <1>7, <1>11, <2>1 DEF WidenContext
  <2>2. CASE ExpansionReply \/ ExpansionFails
    BY <1>11, <2>2 DEF ExpansionReply, ExpansionFails
  <2>3. CASE LookFirst
    BY <1>1, <1>3, <1>5, <1>7, <2>3 DEF LookFirst
  <2>4. CASE LookFirstReply \/ LookFirstFails
    BY <1>1, <1>3, <1>7, <2>4 DEF LookFirstReply, LookFirstFails
  <2> QED
    BY <1>13, <2>1, <2>2, <2>3, <2>4 DEF Widening
<1>14. CASE Exploring
  <2>1. CASE Explore
    BY <1>3, <1>6, <1>7, <1>8, <1>9, <2>1 DEF Explore
  <2>2. CASE RunProbe
    BY <1>1, <1>3, <1>7, <2>2 DEF RunProbe
  <2>3. CASE AskAfterProbes
    BY <1>5, <1>7, <2>3 DEF AskAfterProbes
  <2>4. CASE RoundReply
    BY <1>3, <1>6, <1>7, <1>8, <1>9, <2>4 DEF RoundReply
  <2>5. CASE RoundFails
    BY <1>8, <2>5 DEF RoundFails
  <2>6. CASE CheckReadings
    BY <1>5, <1>7, <1>10, <2>6 DEF CheckReadings
  <2>7. CASE ReadingsReply
    BY <1>1, <1>3, <1>7, <1>10, <2>7 DEF ReadingsReply
  <2>8. CASE ReadingsFail
    BY <1>10, <2>8 DEF ReadingsFail
  <2>9. CASE RunReading
    BY <1>1, <1>3, <1>7, <1>10, <2>9 DEF RunReading, CompareReadings
  <2> QED
    BY <1>14, <2>1, <2>2, <2>3, <2>4, <2>5, <2>6, <2>7, <2>8, <2>9 DEF Exploring
<1> QED
  BY <1>12, <1>13, <1>14

\* The repair's call is neither used nor refused.
RepairUnspent == budget.used["REPAIR"] = 0 /\ \A r \in refused : r[1] # "REPAIR"

LEMMA RepairUsed ==
  ASSUME TypeOK
  PROVE  /\ NoCall => UNCHANGED <<budget, refused>>
         /\ \A call \in ModelCall : Ask(call) =>
              /\ budget'.used["REPAIR"] =
                   budget.used["REPAIR"] + (IF call = "REPAIR" THEN 1 ELSE 0)
              /\ refused' = refused
         /\ \A call : Replied(call) =>
              budget'.used = budget.used /\ refused' = refused
         /\ \A call, step, other, reason : Unanswered(call, step, other, reason) =>
              /\ budget'.used = budget.used
              /\ \A r \in refused' : r \in refused \/ r[1] = call
         /\ \A refusal : ProbeTaken(refusal) =>
              budget'.used = budget.used /\ refused' = refused
<1>1. budget \in Budget
  BY DEF TypeOK
<1>2. \A limit : Stop(budget, limit).used = budget.used
  BY <1>1 DEF Stop, Budget
<1>3. ASSUME NEW call \in ModelCall, Ask(call)
      PROVE  /\ budget'.used["REPAIR"] =
                  budget.used["REPAIR"] + (IF call = "REPAIR" THEN 1 ELSE 0)
             /\ refused' = refused
  <2>1. budget'.used = [budget.used EXCEPT ![call] = @ + 1]
    BY <1>1, <1>3 DEF Ask, TakeCall, Budget
  <2>2. budget.used \in [ModelCall -> Nat] /\ "REPAIR" \in ModelCall
    BY <1>1 DEF Budget, ModelCall
  <2> QED
    BY <1>3, <2>1, <2>2 DEF Ask
<1>4. \A call : Replied(call) => budget'.used = budget.used /\ refused' = refused
  BY <1>1 DEF Replied, SpendTokens, Budget
<1>5. ASSUME NEW call, NEW step, NEW other, NEW reason,
             Unanswered(call, step, other, reason)
      PROVE  /\ budget'.used = budget.used
             /\ \A r \in refused' : r \in refused \/ r[1] = call
  BY <1>2, <1>5 DEF Unanswered
<1>6. \A refusal : ProbeTaken(refusal) => budget'.used = budget.used /\ refused' = refused
  BY <1>1, <1>2 DEF ProbeTaken, TakeProbeQuery, Budget
<1> QED
  BY <1>3, <1>4, <1>5, <1>6 DEF NoCall

\* No stage before the query takes the repair's call, or a decision of it.
LEMMA EarlySpends ==
  ASSUME TypeOK, RepairUnspent, Opening \/ Widening \/ Exploring
  PROVE  RepairUnspent'
<1>1. {"GENERATION", "CONTEXT_EXPANSION", "LOOK_FIRST", "EXPLORATION", "READING_CHECK"}
        = ModelCall \ {"REPAIR"}
  BY DEF ModelCall
<1>2. \/ UNCHANGED <<budget, refused>>
      \/ \E call \in ModelCall \ {"REPAIR"} :
           \/ Ask(call) \/ Replied(call)
           \/ \E step, other, reason : Unanswered(call, step, other, reason)
      \/ \E refusal : ProbeTaken(refusal)
  <2>1. CASE Opening
    BY <1>1, <2>1, Zenon DEF Opening, ResolveContext, ReplayDecision, AskFirst, FirstReply,
       FirstFails, Admit, NoCall
  <2>2. CASE Widening
    BY <1>1, <2>2 DEF Widening, WidenContext, ExpansionReply, ExpansionFails,
       LookFirst, LookFirstReply, LookFirstFails, NoCall
  <2>3. CASE Exploring
    BY <1>1, <2>3 DEF Exploring, Explore, RunProbe, AskAfterProbes, RoundReply,
       RoundFails, CheckReadings, ReadingsReply, ReadingsFail, RunReading, NoCall
  <2> QED
    BY <2>1, <2>2, <2>3
<1>3. budget.used["REPAIR"] \in Nat
  BY DEF TypeOK, Budget, ModelCall
<1> QED
  BY <1>2, <1>3, RepairUsed DEF RepairUnspent

LEMMA EarlyDecides ==
  ASSUME TypeOK, NotRepaired, Opening \/ Widening \/ Exploring
  PROVE  NotRepaired'
<1>1. state \in States
  BY DEF TypeOK
<1>2. /\ \A call \in ModelCall \ {"REPAIR"} : \A d \in Decisions(call) : d.by # "REPAIR"
      /\ Mismatch.by # "REPAIR"
      /\ \A call \in ModelCall \ {"REPAIR"} : Answer(call).by # "REPAIR"
  BY DEF Decisions, Mismatch, Answer
<1>3. {"GENERATION", "CONTEXT_EXPANSION", "LOOK_FIRST", "EXPLORATION", "READING_CHECK"}
        \subseteq ModelCall \ {"REPAIR"}
  BY DEF ModelCall
<1> DEFINE Decided == /\ state'.repairedFrom = state.repairedFrom
                      /\ \/ state'.decision = state.decision
                         \/ state'.decision = Mismatch
                         \/ \E call \in ModelCall \ {"REPAIR"} :
                              \/ state'.decision \in Decisions(call)
                              \/ state'.decision = Answer(call)
<1>4. Decided => NotRepaired'
  BY <1>2 DEF NotRepaired
<1>5. CASE Opening
  BY <1>1, <1>3, <1>4, <1>5 DEF Opening, ResolveContext, ReplayDecision, AskFirst,
     FirstReply, FirstFails, Admit, States
<1>6. CASE Widening
  BY <1>1, <1>3, <1>4, <1>6 DEF Widening, WidenContext, ExpansionReply, ExpansionFails,
     LookFirst, LookFirstReply, LookFirstFails, States
<1>7. CASE Exploring
  <2>1. \A d : /\ [state EXCEPT !.decision = d].decision = d
               /\ [state EXCEPT !.decision = d].repairedFrom = state.repairedFrom
               /\ Closed([state EXCEPT !.decision = d]).decision = d
               /\ Closed([state EXCEPT !.decision = d]).repairedFrom = state.repairedFrom
    BY <1>1 DEF States, Closed
  <2>2. CASE Explore
    BY <1>1, <1>4, <2>1, <2>2 DEF Explore, BeginRound, Closed, States
  <2>3. CASE RoundReply
    <3>1. \/ state' = state
          \/ \E d \in Decisions("EXPLORATION") :
               state' \in {[state EXCEPT !.decision = d],
                           Closed([state EXCEPT !.decision = d])}
      BY <2>3, Zenon DEF RoundReply, BeginRound
    <3>2. \/ state' = state
          \/ /\ state'.decision \in Decisions("EXPLORATION")
             /\ state'.repairedFrom = state.repairedFrom
      BY <2>1, <3>1
    <3> QED
      BY <1>3, <1>4, <3>2
  <2>4. CASE RunReading
    BY <1>1, <1>3, <1>4, <2>4 DEF RunReading, CompareReadings, States
  <2>5. CASE RunProbe
    BY <1>1, <1>4, <2>5 DEF RunProbe, States
  <2>6. CASE AskAfterProbes \/ RoundFails \/ CheckReadings \/ ReadingsReply \/ ReadingsFail
    BY <1>4, <2>6 DEF AskAfterProbes, RoundFails, CheckReadings, ReadingsReply, ReadingsFail
  <2> QED
    BY <1>7, <2>2, <2>3, <2>4, <2>5, <2>6 DEF Exploring
<1> QED
  BY <1>5, <1>6, <1>7

LEMMA EarlyTold ==
  ASSUME IInv, TInv, IInv', at \notin Planned, Opening \/ Widening \/ Exploring
  PROVE  TInv'
<1>1. TypeOK /\ Early(trace) /\ RepairUnasked
  BY DEF IInv, TInv, AttemptTold, RepairInv
<1>2. EarlyStep
  BY <1>1, EarlySteps
<1>3. RepairUnasked'
  BY <1>1, EarlySpends, EarlyDecides DEF RepairUnasked, RepairUnspent
<1>4. CASE at' \notin Planned /\ Early(trace')
  <2>1. outcome' = "NONE"
    BY <1>4 DEF IInv, EndInv, Planned
  <2> QED
    BY <1>3, <1>4, <2>1 DEF TInv, AttemptTold, RepairInv, Planned, Asking, RepairUnasked,
       NotRepaired, TraceTellsOutcome, RepairTold
<1>5. CASE at' = "done" /\ TraceTellsOutcome' /\ trace'["repair"].status = "SKIPPED"
  BY <1>3, <1>5 DEF TInv, AttemptTold, RepairInv, Planned, Asking, RepairUnasked,
     NotRepaired, RepairTold
<1> QED
  BY <1>2, <1>4, <1>5 DEF EarlyStep

-----------------------------------------------------------------------------
(***************************************************************************)
(* Planning and running the query.                                         *)
(***************************************************************************)
LEMMA PlanRecorded ==
  ASSUME NEW t, IsTrace(t), NEW p \in PlanResults
  PROVE  /\ IsTrace(RecordPlan(t, p))
         /\ \A n \in Stages \ PlanStages : RecordPlan(t, p)[n] = t[n]
         /\ p.accepted => \A n \in PlanStages : RecordPlan(t, p)[n].status = "PASS"
<1>1. DOMAIN Gates = 1..9 /\ PlanStages = {Gates[i] : i \in 1..9} /\ Gates[9] = "cost_gate"
      /\ \A i \in 1..9 : Gates[i] = "cost_gate" => i = 9
  BY DEF Gates, PlanStages
<1>2. p.gate \in PlanStages /\ (p.accepted => p.gate = "cost_gate" /\ p.verdict = "PASS")
  BY DEF PlanResults, PlanFailures, Accepted, Failure, PlanStages
<1> DEFINE last == CHOOSE i \in DOMAIN Gates : Gates[i] = p.gate
<1>3. last \in 1..9 /\ Gates[last] = p.gate
  BY <1>1, <1>2
<1>4. RecordPlan(t, p) =
        [name \in Stages |->
           IF name = p.gate THEN [status |-> p.verdict, reason |-> "NONE"]
           ELSE IF \E i \in 1..(last - 1) : Gates[i] = name
                THEN [status |-> "PASS", reason |-> "NONE"] ELSE t[name]]
  BY DEF RecordPlan
<1> HIDE DEF last
<1>5. \A n \in Stages \ PlanStages : RecordPlan(t, p)[n] = t[n]
  BY <1>1, <1>2, <1>3, <1>4
<1>6. ASSUME p.accepted, NEW n \in PlanStages
      PROVE  RecordPlan(t, p)[n].status = "PASS"
  <2>1. last = 9
    BY <1>1, <1>2, <1>3, <1>6
  <2>2. n = p.gate \/ \E i \in 1..(last - 1) : Gates[i] = n
    BY <1>1, <1>2, <1>6, <2>1
  <2>3. n \in Stages
    BY EarlyNames
  <2> QED
    BY <1>2, <1>4, <1>6, <2>2, <2>3
<1> QED
  BY <1>4, <1>5, <1>6 DEF IsTrace

\* A plan that was issued passed every gate, and nothing has run.
LEMMA PlanTold ==
  ASSUME NEW t, IsTrace(t), NoRuntime(t), NEW p \in PlanResults
  PROVE  /\ IsTrace(RecordPlan(t, p)) /\ NotRun(RecordPlan(t, p))
         /\ p.accepted => GatesPassed(RecordPlan(t, p))
         /\ RecordPlan(t, p)["repair"] = t["repair"]
<1>1. /\ IsTrace(RecordPlan(t, p))
      /\ \A n \in Stages \ PlanStages : RecordPlan(t, p)[n] = t[n]
      /\ p.accepted => \A n \in PlanStages : RecordPlan(t, p)[n].status = "PASS"
  BY PlanRecorded
<1> QED
  BY <1>1, EarlyNames DEF NoRuntime, NotRun, GatesPassed, Recorded

\* What else is recorded before the query runs.
LEMMA RepairStage ==
  ASSUME NEW t, IsTrace(t), NEW status, NEW reason
  PROVE  /\ IsTrace(RecordStage(t, "repair", status, reason))
         /\ RecordStage(t, "repair", status, reason)["repair"].status = status
         /\ \A n \in RuntimeStages : RecordStage(t, "repair", status, reason)[n] = t[n]
BY StageRecorded, EarlyNames

\* A plan goes to execution, or its rejection is told.
LEMMA Settling ==
  ASSUME NEW t, IsTrace(t), NEW p, NotRun(t), p.accepted => GatesPassed(t), Settle(t, p)
  PROVE  /\ \/ at' = "execute" /\ NotRun(trace') /\ GatesPassed(trace')
            \/ at' = "respond" /\ Skipped("execution_connection")' /\ Skipped("execution")'
         /\ trace'["repair"] = t["repair"]
<1>1. CASE p.accepted
  BY <1>1 DEF Settle, GoOn
<1>2. CASE ~p.accepted
  <2> DEFINE names == ExecutionStages \cup {"result_check"}
  <2>1. trace' = SkipUnrecorded(t, names, "EARLIER_RUNTIME_REJECTION") /\ at' = "respond"
    BY <1>2 DEF Settle, GoOn
  <2>2. {"execution_connection", "execution"} \subseteq names /\ "repair" \notin names
    BY DEF ExecutionStages
  <2> HIDE DEF names
  <2> QED
    BY <2>1, <2>2, StagesSkipped, EarlyNames DEF NotRun, Skipped
<1> QED
  BY <1>1, <1>2

\* A run that goes on has nothing to tell yet.
LEMMA OnwardTold ==
  ASSUME IInv', at' # "done", AttemptTold', RepairInv'
  PROVE  TInv'
<1>1. outcome' = "NONE"
  BY DEF IInv, EndInv
<1> QED
  BY <1>1 DEF TInv, TraceTellsOutcome, RepairTold

\* After settling, before anything of this attempt has run.
LEMMA SettledTold ==
  ASSUME IInv', NEW t, IsTrace(t), NEW p, NotRun(t), p.accepted => GatesPassed(t),
         Settle(t, p), attempt'.ran = "NONE",
         state'.decision.by = "REPAIR" => budget'.used["REPAIR"] > 0,
         t["repair"].status = "PASS" <=> state'.decision.by = "REPAIR",
         state'.repairedFrom <=> state'.decision.by = "REPAIR",
         t["repair"].status = "SKIPPED" => RepairUnspent'
  PROVE  TInv'
<1>1. /\ \/ at' = "execute" /\ NotRun(trace') /\ GatesPassed(trace')
         \/ at' = "respond" /\ Skipped("execution_connection")' /\ Skipped("execution")'
      /\ trace'["repair"] = t["repair"]
  BY Settling
<1>2. AttemptTold'
  BY <1>1 DEF AttemptTold, Planned, Asking
<1>3. RepairInv'
  BY <1>1 DEF RepairInv, RepairRecorded, RepairUnspent, Planned, Asking
<1> QED
  BY <1>1, <1>2, <1>3, OnwardTold

LEMMA AdmitSqlTold ==
  ASSUME IInv, TInv, IInv', AdmitSql
  PROVE  TInv'
<1>1. /\ at = "query" /\ IsTrace(trace) /\ Early(trace) /\ RepairUnasked
      /\ attempt.ran = "NONE" /\ attempt \in Attempts
      /\ UNCHANGED <<state, budget, refused>>
  BY TraceTyped DEF AdmitSql, IInv, TInv, TypeOK, AttemptTold, RepairInv, QueriesInv,
     Planned, NoCall
<1>2. RepairUnasked'
  BY <1>1 DEF RepairUnasked, NotRepaired
<1>3. CASE NonAnswer(trace)
  <2>1. at' = "done" /\ TraceTellsOutcome' /\ trace'["repair"].status = "SKIPPED"
    BY <1>1, <1>3, Closing DEF NonAnswer, Early
  <2> QED
    BY <1>2, <2>1 DEF TInv, AttemptTold, RepairInv, Planned, Asking, RepairUnasked,
       NotRepaired, RepairTold
<1>4. ASSUME NEW p \in PlanResults, attempt' = [attempt EXCEPT !.plan = p],
             GoOn(RecordPlan(trace, p), "repair")
      PROVE  TInv'
  <2>1. attempt'.ran = "NONE" /\ attempt'.plan = p
    BY <1>1, <1>4 DEF Attempts
  <2>2. /\ NotRun(trace') /\ (p.accepted => GatesPassed(trace'))
        /\ ~Recorded(trace', "repair")
    BY <1>1, <1>4, PlanTold DEF GoOn, Early, Recorded
  <2>3. at' = "repair"
    BY <1>4 DEF GoOn
  <2> QED
    BY <1>2, <2>1, <2>2, <2>3, OnwardTold
       DEF AttemptTold, RepairInv, Planned, Asking, RepairUnasked, NotRepaired
<1>5. ASSUME NEW p \in PlanResults, attempt' = [attempt EXCEPT !.plan = p], NEW reason,
             Settle(RecordStage(RecordPlan(trace, p), "repair", "SKIPPED", reason), p)
      PROVE  TInv'
  <2> DEFINE planned == RecordPlan(trace, p)
             t == RecordStage(planned, "repair", "SKIPPED", reason)
  <2>1. IsTrace(planned) /\ NotRun(planned) /\ (p.accepted => GatesPassed(planned))
    BY <1>1, PlanTold DEF Early
  <2> HIDE DEF planned
  <2>2. /\ IsTrace(t) /\ NotRun(t) /\ (p.accepted => GatesPassed(t))
        /\ t["repair"].status = "SKIPPED"
    BY <2>1, RepairStage, EarlyNames DEF NotRun, GatesPassed, Recorded
  <2>3. attempt'.ran = "NONE" /\ Settle(t, p)
    BY <1>1, <1>5 DEF Attempts, planned
  <2> HIDE DEF t
  <2> QED
    BY <1>2, <2>2, <2>3, SettledTold DEF RepairUnasked, RepairUnspent, NotRepaired
<1> QED
  BY <1>3, <1>4, <1>5 DEF AdmitSql

LEMMA AskRepairTold ==
  ASSUME IInv, TInv, IInv', AskRepair
  PROVE  TInv'
<1>1. at = "repair" /\ at' = "await_repair" /\ UNCHANGED <<state, attempt, trace>>
  BY WaitingSteps DEF AskRepair, Ask
<1>2. budget'.used["REPAIR"] > 0
  <2>1. budget.used["REPAIR"] \in Nat
    BY DEF IInv, TypeOK, Budget, ModelCall
  <2>2. TypeOK /\ "REPAIR" \in ModelCall /\ Ask("REPAIR")
    BY DEF AskRepair, IInv, ModelCall
  <2>3. budget'.used["REPAIR"] = budget.used["REPAIR"] + 1
    BY <2>2, RepairUsed
  <2> QED
    BY <2>1, <2>3
<1>3. AttemptTold'
  BY <1>1 DEF TInv, AttemptTold, Planned, Asking, RunTold
<1>4. RepairInv'
  BY <1>1, <1>2 DEF TInv, RepairInv, Planned, Asking, NotRepaired
<1> QED
  BY <1>1, <1>3, <1>4, OnwardTold

\* The original stands, before or after it was run.
LEMMA OriginalTold ==
  ASSUME IInv, TInv, IInv', at \in Asking, UNCHANGED <<attempt, state>>, NEW reason,
         KeepOriginal(RecordStage(trace, "repair", "FAILED", reason))
  PROVE  TInv'
<1> DEFINE t == RecordStage(trace, "repair", "FAILED", reason)
<1>1. /\ IsTrace(t) /\ t["repair"].status = "FAILED"
      /\ \A n \in RuntimeStages : t[n] = trace[n]
  BY RepairStage, TraceTyped DEF IInv
<1>2. NotRepaired
  BY DEF TInv, RepairInv
<1>3. CASE attempt.ran = "NONE"
  <2>1. NotRun(t) /\ (attempt.plan.accepted => GatesPassed(t)) /\ Settle(t, attempt.plan)
    BY <1>1, <1>3, EarlyNames
       DEF TInv, AttemptTold, NotRun, GatesPassed, Recorded, KeepOriginal
  <2> HIDE DEF t
  <2> QED
    BY <1>1, <1>2, <1>3, <2>1, SettledTold DEF NotRepaired
<1>4. CASE attempt.ran # "NONE"
  <2>1. trace' = t /\ at' = "respond"
    BY <1>4 DEF KeepOriginal, GoOn
  <2>2. RunTold(trace)
    BY <1>4 DEF TInv, AttemptTold
  <2> HIDE DEF t
  <2>3. RunTold(trace)'
    BY <1>1, <2>1, <2>2, EarlyNames DEF RunTold, GatesPassed, Recorded
  <2>4. AttemptTold'
    BY <1>4, <2>1, <2>3 DEF AttemptTold, Planned, Asking
  <2>5. RepairInv'
    BY <1>1, <1>2, <2>1 DEF RepairInv, RepairRecorded, NotRepaired, Planned, Asking
  <2> QED
    BY <2>1, <2>4, <2>5, OnwardTold
<1> QED
  BY <1>3, <1>4

\* A replacement is planned, or ends the run; what the first query had recorded is gone.
LEMMA RepairReplyTold ==
  ASSUME IInv, TInv, IInv', RepairReply
  PROVE  TInv'
<1>1. at = "await_repair" /\ UNCHANGED attempt /\ Replied("REPAIR")
  BY WaitingSteps DEF RepairReply, Replied
<1>2. CASE /\ KeepOriginal(RecordStage(trace, "repair", "FAILED", "CASE_ID_MISMATCH"))
           /\ UNCHANGED state
  BY <1>1, <1>2, OriginalTold DEF Asking
<1> DEFINE passed == RecordStage(trace, "repair", "PASS", "NONE")
           t == Forget(passed, RuntimeStages)
<1>3. ASSUME NEW d \in Replacements,
             state' = [state EXCEPT !.decision = d, !.repairedFrom = TRUE],
             GoOn(t, "replan") \/ NonAnswer(t)
      PROVE  TInv'
  <2>1. state'.decision.by = "REPAIR" /\ state'.repairedFrom
    BY <1>3 DEF IInv, TypeOK, States, Replacements, Decisions
  <2>2. budget'.used["REPAIR"] > 0
    BY <1>1, RepairUsed DEF IInv, TInv, RepairInv
  <2>3. IsTrace(passed) /\ passed["repair"].status = "PASS"
    BY RepairStage, TraceTyped DEF IInv
  <2> HIDE DEF passed
  <2>4. IsTrace(t) /\ NoRuntime(t) /\ t["repair"].status = "PASS"
    BY <2>3, StagesForgotten, EarlyNames DEF NoRuntime
  <2> HIDE DEF t
  <2>5. CASE GoOn(t, "replan")
    <3>1. AttemptTold' /\ RepairInv'
      BY <2>1, <2>2, <2>4, <2>5 DEF GoOn, AttemptTold, RepairInv, RepairRecorded, Planned,
         Asking
    <3> QED
      BY <2>5, <3>1, OnwardTold DEF GoOn
  <2>6. CASE NonAnswer(t)
    <3>1. Recorded(t, "repair")
      BY <2>4 DEF Recorded
    <3>2. at' = "done" /\ TraceTellsOutcome' /\ trace'["repair"].status = "PASS"
      BY <2>4, <2>6, <3>1, Closing DEF NonAnswer
    <3> QED
      BY <2>1, <2>2, <3>2 DEF TInv, AttemptTold, RepairInv, Planned, Asking, RepairTold
  <2> QED
    BY <1>3, <2>5, <2>6
<1> QED
  BY <1>2, <1>3 DEF RepairReply

LEMMA RepairFailsTold ==
  ASSUME IInv, TInv, IInv', RepairFails
  PROVE  TInv'
<1>1. at \in Asking /\ UNCHANGED <<attempt, state>>
  BY WaitingSteps DEF RepairFails, Unanswered, Asking
<1>2. PICK reason : KeepOriginal(RecordStage(trace, "repair", "FAILED", reason))
  BY DEF RepairFails
<1> QED
  BY <1>1, <1>2, OriginalTold

LEMMA ReplanTold ==
  ASSUME IInv, TInv, IInv', Replan
  PROVE  TInv'
<1>1. /\ at = "replan" /\ NoRuntime(trace) /\ IsTrace(trace)
      /\ UNCHANGED <<state, budget, refused>>
  BY TraceTyped DEF Replan, NoCall, IInv, TInv, AttemptTold
<1>2. PICK p \in PlanResults :
        /\ attempt' = [plan |-> p, ran |-> "NONE", second |-> attempt.ran # "NONE"]
        /\ Settle(RecordPlan(trace, p), p)
  BY DEF Replan
<1> DEFINE t == RecordPlan(trace, p)
<1>3. /\ IsTrace(t) /\ NotRun(t) /\ (p.accepted => GatesPassed(t))
      /\ t["repair"] = trace["repair"]
  BY <1>1, PlanTold
<1>4. /\ RepairRecorded
      /\ state.decision.by = "REPAIR" => budget.used["REPAIR"] > 0
  BY <1>1 DEF TInv, RepairInv, Planned, Asking
<1>5. Settle(t, p) /\ attempt'.ran = "NONE"
  BY <1>2
<1> HIDE DEF t
<1> QED
  BY <1>1, <1>3, <1>4, <1>5, SettledTold DEF RepairRecorded, RepairUnspent

\* What a query came to is in the execution stage.
LEMMA ExecutionRecorded ==
  ASSUME NEW t, IsTrace(t), NotRun(t), GatesPassed(t), NEW result
  PROVE  /\ GatesPassed(RecordExecution(t, result))
         /\ RecordExecution(t, result)["execution"].status = "PASS" <=>
              result \in QueryResults
         /\ RecordExecution(t, result)["repair"] = t["repair"]
<1> DEFINE status == IF result = "NOT_CONNECTED" THEN "FAILED" ELSE "PASS"
           connected == RecordStage(t, "execution_connection", status, "NONE")
<1>1. "WRONG_ROLE" \notin QueryResults
  BY DEF QueryResults
<1>2. RecordExecution(t, result) =
        IF result = "WRONG_ROLE" THEN connected
        ELSE IF result \in QueryResults
        THEN RecordStage(connected, "execution", "PASS", "NONE")
        ELSE RecordStage(connected, "execution", "FAILED", "EXECUTION_ERROR")
  BY DEF RecordExecution
<1> HIDE DEF status
<1>3. /\ IsTrace(connected)
      /\ \A n \in Stages \ {"execution_connection"} : connected[n] = t[n]
  BY StageRecorded, EarlyNames
<1> HIDE DEF connected
<1>4. \A s, reason :
        LET u == RecordStage(connected, "execution", s, reason)
        IN  /\ u["execution"].status = s
            /\ \A n \in Stages \ {"execution_connection", "execution"} : u[n] = t[n]
  BY <1>3, StageRecorded, EarlyNames
<1>5. \A n \in Stages \ {"execution_connection", "execution"} :
        RecordExecution(t, result)[n] = t[n]
  BY <1>2, <1>3, <1>4
<1>6. RecordExecution(t, result)["execution"].status = "PASS" <=> result \in QueryResults
  BY <1>1, <1>2, <1>3, <1>4, EarlyNames DEF NotRun, Recorded
<1> QED
  BY <1>5, <1>6, EarlyNames DEF GatesPassed, Recorded

LEMMA ExecuteTold ==
  ASSUME IInv, TInv, IInv', Execute
  PROVE  TInv'
<1>1. /\ at = "execute" /\ NotRun(trace) /\ GatesPassed(trace) /\ IsTrace(trace)
      /\ attempt \in Attempts /\ UNCHANGED <<state, budget, refused>>
  BY TraceTyped DEF Execute, NoCall, IInv, TInv, TypeOK, AttemptTold
<1>2. PICK result \in ExecutionResults :
        /\ attempt' = [attempt EXCEPT !.ran = result]
        /\ trace' = RecordExecution(trace, result)
        /\ at' \in {"respond", "check_result"}
  BY DEF Execute, GoOn
<1>3. attempt'.ran = result /\ result # "NONE"
  BY <1>1, <1>2 DEF Attempts, ExecutionResults, QueryResults, ExecutionErrors,
     FixableErrors, OtherErrors
<1>4. RunTold(trace)' /\ trace'["repair"] = trace["repair"]
  BY <1>1, <1>2, <1>3, ExecutionRecorded DEF RunTold
<1>5. AttemptTold'
  BY <1>2, <1>3, <1>4 DEF AttemptTold, Planned, Asking
<1>6. RepairInv'
  BY <1>1, <1>2, <1>4 DEF TInv, RepairInv, RepairRecorded, Planned, Asking
<1> QED
  BY <1>2, <1>5, <1>6, OnwardTold

-----------------------------------------------------------------------------
(***************************************************************************)
(* Looking at the result.                                                  *)
(***************************************************************************)
\* A repair that is left has not been asked for.
LEMMA RepairLeft ==
  ASSUME TypeOK, Repairable
  PROVE  budget.used["REPAIR"] = 0
<1>1. budget.used["REPAIR"] \in Nat /\ settings \in Settings /\ replay \in BOOLEAN
  BY DEF TypeOK, Budget, ModelCall
<1>2. Allowed(settings, replay)["REPAIR"] \in {0, 1}
  <2>1. CASE replay
    BY <2>1 DEF Allowed, ModelCall
  <2>2. CASE ~replay
    <3>1. \A b : Times(b, 1) \in {0, 1}
      BY DEF Times
    <3> QED
      BY <2>2, <3>1 DEF Allowed
  <2> QED
    BY <2>1, <2>2
<1> QED
  BY <1>1, <1>2 DEF Repairable, Left

\* Only the result check is recorded, and the run goes on, looks at values or asks.
LEMMA ResultLookedAt ==
  ASSUME IInv, TInv, IInv', at \in {"check_result", "probe_values"},
         UNCHANGED <<state, attempt, budget, refused>>,
         NEW t, IsTrace(t), \A n \in RuntimeStages \cup {"repair"} : t[n] = trace[n],
         \/ GoOn(t, "respond") \/ GoOn(t, "probe_values") \/ RepairResult(t)
  PROVE  TInv'
<1>1. attempt.ran # "NONE" /\ RunTold(trace) /\ RepairRecorded /\ TypeOK
      /\ (state.decision.by = "REPAIR" => budget.used["REPAIR"] > 0)
  BY DEF IInv, QueriesInv, TInv, AttemptTold, RepairInv, Planned, Asking
<1>2. CASE trace' = t /\ at' \in {"respond", "probe_values"}
  <2>1. RunTold(trace)' /\ trace'["repair"] = trace["repair"]
    BY <1>1, <1>2, EarlyNames DEF RunTold, GatesPassed, Recorded
  <2>2. AttemptTold'
    BY <1>1, <1>2, <2>1 DEF AttemptTold, Planned, Asking
  <2>3. RepairInv'
    BY <1>1, <1>2, <2>1 DEF RepairInv, RepairRecorded, Planned, Asking
  <2> QED
    BY <1>2, <2>2, <2>3, OnwardTold
<1>3. CASE Repairable /\ trace' = Forget(t, {"repair"}) /\ at' = "repair"
  <2>1. ~Recorded(trace', "repair") /\ \A n \in RuntimeStages : trace'[n] = trace[n]
    BY <1>3, StagesForgotten, EarlyNames
  <2>2. NotRepaired
    BY <1>1, <1>3, RepairLeft DEF NotRepaired, RepairRecorded
  <2>3. RunTold(trace)'
    BY <1>1, <2>1, EarlyNames DEF RunTold, GatesPassed, Recorded
  <2>4. AttemptTold'
    BY <1>1, <1>3, <2>3 DEF AttemptTold, Planned, Asking
  <2>5. RepairInv'
    BY <1>3, <2>1, <2>2 DEF RepairInv, NotRepaired, Planned, Asking
  <2> QED
    BY <1>3, <2>4, <2>5, OnwardTold
<1> QED
  BY <1>2, <1>3 DEF GoOn, RepairResult

LEMMA CheckResultTold ==
  ASSUME IInv, TInv, IInv', CheckResult
  PROVE  TInv'
<1>1. at = "check_result" /\ UNCHANGED <<state, attempt, budget, refused>>
      /\ IsTrace(trace)
  BY TraceTyped DEF CheckResult, NoCall, IInv
<1>2. "result_check" \in EarlyStages
  BY DEF EarlyStages
<1>3. \/ GoOn(trace, "probe_values")
      \/ \E status, reason :
           \/ GoOn(RecordStage(trace, "result_check", status, reason), "respond")
           \/ RepairResult(RecordStage(trace, "result_check", status, reason))
  BY DEF CheckResult
<1>4. \A status, reason :
        /\ IsTrace(RecordStage(trace, "result_check", status, reason))
        /\ \A n \in RuntimeStages \cup {"repair"} :
             RecordStage(trace, "result_check", status, reason)[n] = trace[n]
  BY <1>1, <1>2, EarlyRecorded
<1> QED
  BY <1>1, <1>3, <1>4, ResultLookedAt

\* A respelled query is planned with nothing left of the first one's stages.
LEMMA ProbeValuesTold ==
  ASSUME IInv, TInv, IInv', ProbeValues
  PROVE  TInv'
<1>1. at = "probe_values" /\ UNCHANGED <<state, attempt, budget, refused>>
      /\ IsTrace(trace)
  BY TraceTyped DEF ProbeValues, NoCall, IInv
<1>2. "result_check" \in EarlyStages
  BY DEF EarlyStages
<1>3. \A reason :
        /\ IsTrace(RecordStage(trace, "result_check", "PASS", reason))
        /\ \A n \in RuntimeStages \cup {"repair"} :
             RecordStage(trace, "result_check", "PASS", reason)[n] = trace[n]
  BY <1>1, <1>2, EarlyRecorded
<1>4. CASE GoOn(Forget(RecordStage(trace, "result_check", "PASS", "VALUE_REWRITTEN"),
                       RuntimeStages), "replan")
  <2>1. NoRuntime(trace') /\ trace'["repair"] = trace["repair"] /\ at' = "replan"
    BY <1>3, <1>4, StagesForgotten, EarlyNames DEF GoOn, NoRuntime
  <2>2. AttemptTold'
    BY <2>1 DEF AttemptTold, Planned, Asking
  <2>3. RepairInv'
    BY <1>1, <2>1 DEF TInv, RepairInv, RepairRecorded, Planned, Asking
  <2> QED
    BY <2>1, <2>2, <2>3, OnwardTold
<1>5. CASE \E reason : RepairResult(RecordStage(trace, "result_check", "PASS", reason))
  BY <1>1, <1>3, <1>5, ResultLookedAt
<1> QED
  BY <1>4, <1>5 DEF ProbeValues

LEMMA RespondTold ==
  ASSUME IInv, TInv, Respond
  PROVE  TInv'
<1>1. /\ at = "respond" /\ at' = "done" /\ IsTrace(trace)
      /\ trace' = RecordStage(trace, "response", "PASS", ResultOutcome)
      /\ outcome' = ResultOutcome
      /\ UNCHANGED <<state, attempt, budget, refused>>
  BY TraceTyped DEF Respond, NoCall, IInv
<1>2. \A n \in RuntimeStages \cup {"repair"} : trace'[n] = trace[n]
  BY <1>1, EarlyRecorded DEF EarlyStages
<1>3. RepairRecorded /\ (state.decision.by = "REPAIR" => budget.used["REPAIR"] > 0)
  BY <1>1 DEF TInv, RepairInv, Planned, Asking
<1>4. TraceTellsOutcome'
  <2>1. CASE attempt.ran = "NONE"
    <3>1. Skipped("execution_connection") /\ Skipped("execution")
      BY <1>1, <2>1 DEF TInv, AttemptTold
    <3>2. outcome' \in {"AUTHORITY_REJECTED", "POLICY_REJECTED", "RUNTIME_REJECTED"}
      BY <1>1, <2>1 DEF ResultOutcome, IInv, QueriesInv, PlanFailures, Failure
    <3> QED
      BY <1>2, <3>1, <3>2, EarlyNames DEF TraceTellsOutcome, Skipped
  <2>2. CASE attempt.ran # "NONE"
    <3>1. RunTold(trace)
      BY <1>1, <2>2 DEF TInv, AttemptTold
    <3>2. outcome' = IF attempt.ran \in QueryResults THEN "EXECUTED" ELSE "EXECUTION_ERROR"
      BY <1>1, <2>2 DEF ResultOutcome
    <3> QED
      BY <1>2, <3>1, <3>2, EarlyNames
         DEF TraceTellsOutcome, RunTold, GatesPassed, Recorded, Rejected
  <2> QED
    BY <2>1, <2>2
<1>5. RepairTold' /\ RepairInv' /\ AttemptTold'
  BY <1>1, <1>2, <1>3 DEF RepairTold, RepairInv, RepairRecorded, AttemptTold, Planned,
     Asking
<1> QED
  BY <1>4, <1>5 DEF TInv

-----------------------------------------------------------------------------
(***************************************************************************)
(* The theorems.                                                           *)
(***************************************************************************)
\* Each stage starts at a step of its own.
LEMMA EarlyStepsStart == Opening \/ Widening \/ Exploring => at \notin Planned
BY WaitingSteps DEF Planned,
   Opening, ResolveContext, ReplayDecision, AskFirst, FirstReply, FirstFails, Admit,
   Widening, WidenContext, ExpansionReply, ExpansionFails, LookFirst, LookFirstReply,
   LookFirstFails,
   Exploring, Explore, RunProbe, AskAfterProbes, RoundReply, RoundFails, CheckReadings,
   ReadingsReply, ReadingsFail, RunReading, Replied, Unanswered

LEMMA StepTold == IInv /\ TInv /\ [Next]_vars => TInv'
<1> SUFFICES ASSUME IInv, TInv, [Next]_vars PROVE TInv'
  OBVIOUS
<1>1. IInv'
  BY NextInv
<1>2. CASE DeadlinePasses \/ UNCHANGED vars
  <2>1. UNCHANGED <<at, budget, state, attempt, trace, outcome, refused>>
    BY <1>2 DEF DeadlinePasses, vars
  <2>2. AttemptTold' /\ RepairInv'
    BY <2>1 DEF TInv, AttemptTold, RunTold, Skipped, RepairInv, RepairUnasked, NotRepaired,
       RepairRecorded
  <2>3. TraceTellsOutcome' /\ RepairTold'
    BY <2>1 DEF TInv, TraceTellsOutcome, Skipped, Rejected, RepairTold
  <2> QED
    BY <2>2, <2>3 DEF TInv
<1>3. CASE Opening \/ Widening \/ Exploring
  BY <1>1, <1>3, EarlyStepsStart, EarlyTold
<1>4. CASE Querying
  BY <1>1, <1>4, AdmitSqlTold, AskRepairTold, RepairReplyTold, RepairFailsTold, ReplanTold,
     ExecuteTold, CheckResultTold, ProbeValuesTold, RespondTold DEF Querying
<1> QED
  BY <1>2, <1>3, <1>4 DEF Next, RunStep

\* What the trace says fits the step reached, however many attempts it has recorded.
THEOREM TraceInductive == Spec => []TInv
BY InitTold, StepTold, Inductive, PTL DEF Spec

\* A finished trace tells its run's outcome: an earlier attempt's stages are never taken
\* for the last one's (service.py, _repair, _probe_values and _close).
THEOREM OutcomeTold == Spec => []TraceTellsOutcome
<1>1. TInv => TraceTellsOutcome
  BY DEF TInv
<1> QED
  BY <1>1, TraceInductive, PTL

\* The repair stage of a finished trace tells whose SQL the result is for
\* (service.py, _repair and _admit_sql).
THEOREM RepairAlwaysTold == Spec => []RepairTold
<1>1. TInv => RepairTold
  BY DEF TInv
<1> QED
  BY <1>1, TraceInductive, PTL
=============================================================================
