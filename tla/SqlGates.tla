------------------------------- MODULE SqlGates -------------------------------
(***************************************************************************)
(* What planning and executing one query can come to, as its callers see   *)
(* it (src/app/sql/service.py): the result and the stages it recorded.     *)
(*                                                                         *)
(* A plan result is a record                                               *)
(*   accepted  a QueryPlan was issued                                      *)
(*   outcome   the runtime outcome it gives (feedback.runtime_from_plan)   *)
(*   fixable   repair_feedback has something to tell the model             *)
(*   gate      the last gate that recorded a stage                         *)
(*   verdict   the status that gate recorded                               *)
(***************************************************************************)
EXTENDS Integers, Sequences, RunTrace

Gates == <<"sql_parse", "global_policy", "execution_authority", "grain_safety",
           "value_check", "null_ordering", "planning_connection", "explain",
           "cost_gate">>

Failure(outcome, fixable, gate, verdict) ==
  [accepted |-> FALSE, outcome |-> outcome, fixable |-> fixable,
   gate |-> gate, verdict |-> verdict]

\* An accepted plan; fixable when it filters on a value no shared column stores.
Accepted(blind) ==
  [accepted |-> TRUE, outcome |-> "PLANNED", fixable |-> blind,
   gate |-> "cost_gate", verdict |-> "PASS"]

PlanFailures ==
  { \* the gate that rejects records why
    Failure("RUNTIME_REJECTED", TRUE, "sql_parse", "FAILED"),
    Failure("AUTHORITY_REJECTED", FALSE, "execution_authority", "REJECTED"),
    Failure("RUNTIME_REJECTED", TRUE, "grain_safety", "REJECTED"),
    Failure("RUNTIME_REJECTED", FALSE, "planning_connection", "FAILED"),
    Failure("RUNTIME_REJECTED", FALSE, "explain", "FAILED"),
    Failure("RUNTIME_REJECTED", TRUE, "cost_gate", "REJECTED"),
    \* the normalized SQL failed a check run on it again: no stage says so
    Failure("RUNTIME_REJECTED", TRUE, "grain_safety", "PASS"),
    Failure("AUTHORITY_REJECTED", FALSE, "grain_safety", "PASS"),
    \* the transaction could not be set up after connecting, or did not commit
    Failure("RUNTIME_REJECTED", FALSE, "planning_connection", "PASS"),
    Failure("RUNTIME_REJECTED", FALSE, "cost_gate", "PASS"),
    Failure("RUNTIME_REJECTED", FALSE, "cost_gate", "REJECTED") }
  \cup {Failure("POLICY_REJECTED", fixable, "global_policy", "REJECTED") :
          fixable \in BOOLEAN}

PlanResults == PlanFailures \cup {Accepted(blind) : blind \in BOOLEAN}

\* The stages a plan result leaves in the trace: every gate before the last passed (the
\* gates a connection has switched off are recorded as skipped; PASS stands for both).
RecordPlan(trace, p) ==
  LET last == CHOOSE i \in DOMAIN Gates : Gates[i] = p.gate
  IN  [name \in Stages |->
         IF name = p.gate THEN [status |-> p.verdict, reason |-> "NONE"]
         ELSE IF \E i \in 1..(last - 1) : Gates[i] = name
              THEN [status |-> "PASS", reason |-> "NONE"]
              ELSE trace[name]]

(***************************************************************************)
(* Execution of an accepted plan: a result with rows (tied or not, in      *)
(* range or not), an empty one, or an error.                               *)
(***************************************************************************)
QueryResults    == {"ROWS", "TIED_ROWS", "OUT_OF_RANGE", "EMPTY"}
FixableErrors   == {"ERROR_CLASS"}        \* EXECUTION_MESSAGES has a sentence for it
OtherErrors     == {"ERROR", "NOT_CONNECTED", "WRONG_ROLE"}
ExecutionErrors == FixableErrors \cup OtherErrors
ExecutionResults == QueryResults \cup ExecutionErrors

\* A reader with the wrong role is refused inside the transaction: no stage says so.
RecordExecution(trace, result) ==
  LET connected == RecordStage(trace, "execution_connection",
                               IF result = "NOT_CONNECTED" THEN "FAILED" ELSE "PASS", "NONE")
  IN  IF result = "WRONG_ROLE" THEN connected
      ELSE IF result \in QueryResults
      THEN RecordStage(connected, "execution", "PASS", "NONE")
      ELSE RecordStage(connected, "execution", "FAILED", "EXECUTION_ERROR")
=============================================================================
