------------------------------ MODULE QueryService ------------------------------
(***************************************************************************)
(* What the SQL safety service promises the decision service, one call at  *)
(* a time: a planned or executed query comes to one of the results SqlGates *)
(* lists and leaves that result's stages in the trace, and a probe leaves  *)
(* none.                                                                    *)
(***************************************************************************)
EXTENDS SqlGates

VARIABLES shown,  \* the trace after the last call
          answer  \* what the last call returned

NoAnswer == [call |-> "NONE"]

\* What a caller can tell of a plan's result.
Planned(p) == [call |-> "PLAN", accepted |-> p.accepted, outcome |-> p.outcome,
               fixable |-> p.fixable]

Executed(result) == [call |-> "EXECUTE", result |-> result]

Plan == \E p \in PlanResults : answer' = Planned(p) /\ shown' = RecordPlan(shown, p)

Execute ==
  \E result \in ExecutionResults :
    answer' = Executed(result) /\ shown' = RecordExecution(shown, result)

\* A plan the service did not issue is refused, and nothing is recorded.
Refuse == answer' = [call |-> "REFUSED"] /\ UNCHANGED shown

\* A gate failed in a way it does not handle: the gates it had passed are recorded.
Break ==
  /\ answer' = [call |-> "RAISED"]
  /\ \E last \in 0..Len(Gates) :
       shown' = [name \in Stages |-> IF \E i \in 1..last : Gates[i] = name
                                     THEN [status |-> "PASS", reason |-> "NONE"]
                                     ELSE shown[name]]

\* A probe, or the lookups of an empty result.
Aside == answer' \in [call : {"PROBE", "LOOKUP"}] /\ UNCHANGED shown

QInit == shown = EmptyTrace /\ answer = NoAnswer

QNext == Plan \/ Execute \/ Refuse \/ Break \/ Aside

QSpec == QInit /\ [][QNext]_<<shown, answer>>
=============================================================================
