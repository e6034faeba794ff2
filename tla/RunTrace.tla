------------------------------- MODULE RunTrace -------------------------------
(***************************************************************************)
(* The stages of one run's trace (src/app/observability/run_trace.py): at  *)
(* most one result per stage, the last one recorded.  The "request" stage  *)
(* is recorded by the caller before a run begins and is left out.          *)
(***************************************************************************)

StageStatus == {"PASS", "REJECTED", "FAILED", "SKIPPED"}

\* Recorded while a query is planned, gate by gate.
PlanStages == {"sql_parse", "global_policy", "execution_authority", "grain_safety",
               "value_check", "null_ordering", "planning_connection", "explain",
               "cost_gate"}

\* _EXECUTION_STAGES of the decision service.
ExecutionStages == {"planning_connection", "explain", "cost_gate",
                    "execution_connection", "execution"}

\* _RUNTIME_STAGES: recorded again when a repaired or respelled query is planned.
RuntimeStages == PlanStages \cup ExecutionStages

Stages == RuntimeStages \cup
          {"context", "generation", "proposal_replay", "decision_admission",
           "context_expansion", "exploration", "reading_check", "repair",
           "result_check", "response"}

\* _AFTER_CONTEXT: TRACE_STAGE_ORDER without request, context and response.
\* null_ordering is not in TRACE_STAGE_ORDER.
AfterContext == Stages \ {"context", "response", "null_ordering"}

Unrecorded == [status |-> "NONE", reason |-> "NONE"]

\* Why a stage was skipped or failed, or what it found.
StageReason ==
  {"NONE", "SAVED_QUERY", "LIVE_MODEL", "SERVER_BOUND_FROZEN_PROPOSAL", "CASE_ID_MISMATCH",
   "CONTEXT_RESOLUTION_FAILURE", "PROVIDER_FAILURE", "TRANSPORT_RESPONSE_RECEIVED",
   "INVALID_TYPED_DECISION", "DECISION_ADMISSION_FAILURE", "MODEL_NON_ANSWER",
   "EXPANSION_FAILURE", "EXPANSION_NOT_ALLOWED", "NOT_NEEDED", "DECLINED_TO_LOOK",
   "NOT_REQUESTED", "EXPLORATION_NOT_ALLOWED", "EXPLORATION_NOT_CLOSED",
   "EXPLORATION_FAILURE", "NOT_ASKED", "READING_CHECK_NOT_ALLOWED",
   "READINGS_NOT_COUNTABLE", "NO_SQL_PER_READING", "READING_NOT_RUN", "READINGS_AGREE",
   "READINGS_DIFFER", "READINGS_DIFFER_ASSUMED", "FINAL_REJECTION", "REPAIR_NOT_ALLOWED",
   "EARLIER_RUNTIME_REJECTION", "EXECUTION_ERROR", "OUT_OF_RANGE", "TIED_ROWS",
   "VALUE_REWRITTEN", "VALUE_NOT_STORED", "EMPTY_RESULT",
   "BUDGET_CALLS", "BUDGET_DEADLINE", "BUDGET_TOKENS", "BUDGET_PROBE_QUERIES",
   "EXECUTED", "AUTHORITY_REJECTED", "POLICY_REJECTED", "RUNTIME_REJECTED"}

StageResult == [status : StageStatus \cup {"NONE"}, reason : StageReason]

EmptyTrace == [name \in Stages |-> Unrecorded]

Recorded(trace, name) == trace[name].status # "NONE"

RecordStage(trace, name, status, reason) ==
  [trace EXCEPT ![name] = [status |-> status, reason |-> reason]]

\* Faulty: what an earlier attempt recorded is left standing.
ForgetNothing(trace, names) == trace

Forget(trace, names) ==
  [name \in Stages |-> IF name \in names THEN Unrecorded ELSE trace[name]]

SkipUnrecorded(trace, names, reason) ==
  [name \in Stages |-> IF name \in names /\ ~Recorded(trace, name)
                       THEN [status |-> "SKIPPED", reason |-> reason]
                       ELSE trace[name]]
=============================================================================
