------------------------ MODULE DecisionRunProperties ------------------------
(***************************************************************************)
(* What a run of the decision service must keep to, and what its documents *)
(* say of it that the code does not do.                                    *)
(***************************************************************************)
EXTENDS DecisionRun

Plans == PlanResults \cup {NoPlan}

DecisionOrMismatch ==
  [kind : DecisionType \cup {"MISMATCH"}, size : 0..4, by : ModelCall \cup {"NONE"}]

States == [decision : DecisionOrMismatch, exploring : BOOLEAN, open : BOOLEAN,
           results : BOOLEAN, lookedFirst : BOOLEAN, assumption : BOOLEAN,
           repairedFrom : BOOLEAN]

Attempts == [plan : Plans, ran : ExecutionResults \cup {"NONE"}, second : BOOLEAN]

\* Every variable keeps its type.
TypeOK ==
  /\ settings \in Settings
  /\ replay \in BOOLEAN /\ late \in BOOLEAN
  /\ at \in Steps
  /\ budget \in Budget
  /\ state \in States
  /\ rounds \in 0..5 /\ left \in 0..MAX_PROBES
  /\ attempt \in Attempts
  /\ queries \in 0..2
  /\ trace \in [Stages -> StageResult]
  /\ outcome \in RuntimeOutcome \cup {"NONE"}
  /\ refused \subseteq ModelCall \X BudgetLimit

-----------------------------------------------------------------------------
\* No step of a run makes more calls than its allowance, and the code never even
\* tries: the call limit is a guard no path reaches (budget.py, AttemptBudget.take).
CallsWithinAllowance ==
  /\ \A c \in ModelCall : budget.used[c] <= Allowed(settings, replay)[c]
  /\ budget.stopped # "CALLS"

\* With the default limit every probe round and a reading check fit in full: only a
\* configured limit refuses a probe (budget.py, AttemptBudget.for_run).
DefaultProbesFit ==
  settings.probeLimit = Unset => /\ budget.stopped # "PROBE_QUERIES"
                                 /\ budget.probes <= ProbeQueryLimit(settings)

\* The token limit is overrun by the reply that crosses it and no more.
OneReplyOverTokenLimit ==
  \E n \in CallTokens \cup {0} : budget.tokens < settings.tokenLimit + n

\* A limit never costs a run the decision it has: a run that ends for want of a usable
\* decision after a limit stopped a step had only a request to explore in hand.
LimitsKeepTheDecision ==
  outcome = "GENERATION_ERROR" /\ refused # {} => state.decision.kind = "EXPLORE"

\* EXPLORE is never a run's final decision, and a run that entered the runtime
\* answered (decision_contract.py, DecisionType).
FinalDecision ==
  /\ outcome \notin {"NONE", "GENERATION_ERROR"} => state.decision.kind # "EXPLORE"
  /\ outcome \notin {"NONE", "GENERATION_ERROR", "NOT_ENTERED"} =>
       state.decision.kind = "ANSWER"

Rejected(name) == trace[name].status \in {"REJECTED", "FAILED"}

Skipped(name) == trace[name].status = "SKIPPED"

\* The finished trace tells the outcome, whatever earlier attempt it had recorded:
\* a passed execution stage exactly when rows are returned, with every gate behind it
\* passed; no execution after a rejection; nothing of the runtime in a run that never
\* entered it, and then no stage left out.
TraceTellsOutcome ==
  outcome # "NONE" =>
    /\ outcome = "EXECUTED" <=> trace["execution"].status = "PASS"
    /\ outcome \in {"EXECUTED", "EXECUTION_ERROR"} =>
         \A name \in PlanStages : Recorded(trace, name) /\ ~Rejected(name)
    /\ outcome \in {"AUTHORITY_REJECTED", "POLICY_REJECTED", "RUNTIME_REJECTED"} =>
         Skipped("execution_connection") /\ Skipped("execution")
    /\ outcome \in {"NOT_ENTERED", "GENERATION_ERROR"} =>
         /\ \A name \in RuntimeStages \ {"null_ordering"} : Skipped(name)
         /\ \A name \in AfterContext : Recorded(trace, name)

\* The repair stage tells whose SQL the result is for: it passed exactly when the
\* decision in force is the repair's, and it is skipped when no repair was asked for.
RepairTold ==
  outcome \notin {"NONE", "GENERATION_ERROR"} =>
    /\ trace["repair"].status = "PASS" <=> state.decision.by = "REPAIR"
    /\ state.repairedFrom <=> state.decision.by = "REPAIR"
    /\ trace["repair"].status = "SKIPPED" =>
         /\ budget.used["REPAIR"] = 0
         /\ \A r \in refused : r[1] # "REPAIR"

\* A result nothing is wrong with stands: no later step replaces it or loses it.
GoodResult ==
  \/ attempt.ran \in {"ROWS", "TIED_ROWS"}
  \/ attempt.ran \in QueryResults /\ (replay \/ ~settings.resultCheck)

GoodResultStands ==
  [][GoodResult => attempt' = attempt /\ outcome' \in {"NONE", "EXECUTED"}]_vars

\* Every run ends.
Termination == <>(outcome # "NONE")

\* A run keeps the promises of QuestionRun.
Run == INSTANCE QuestionRun WITH Outcomes <- RuntimeOutcome,
                                 limit <- CallLimit(settings, replay),
                                 calls <- Spent(budget),
                                 queries <- queries,
                                 outcome <- outcome
KeepsPromises == Run!QSpec
=============================================================================
