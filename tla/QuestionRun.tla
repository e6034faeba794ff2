------------------------------ MODULE QuestionRun ------------------------------
(***************************************************************************)
(* What a run promises its user, without its stages: a bounded number of   *)
(* model calls and of answering queries, then one outcome, given once,     *)
(* that tells whether a query ran and after which nothing is spent.        *)
(***************************************************************************)
EXTENDS Integers

CONSTANT Outcomes

VARIABLES limit,    \* model calls the run may make
          calls,    \* model calls made
          queries,  \* answering queries the database ran
          outcome   \* "NONE" until the run ends

qvars == <<limit, calls, queries, outcome>>

QInit ==
  /\ limit \in Nat
  /\ calls = 0 /\ queries = 0 /\ outcome = "NONE"

AskModel ==
  /\ outcome = "NONE" /\ calls < limit
  /\ calls' = calls + 1
  /\ UNCHANGED <<limit, queries, outcome>>

\* A first answer and at most one in its place.
RunQuery ==
  /\ outcome = "NONE" /\ queries < 2
  /\ queries' = queries + 1
  /\ UNCHANGED <<limit, calls, outcome>>

End ==
  /\ outcome = "NONE"
  /\ outcome' \in Outcomes
  /\ outcome' = "EXECUTED" => queries > 0
  /\ UNCHANGED <<limit, calls, queries>>

QNext == AskModel \/ RunQuery \/ End

QSpec == QInit /\ [][QNext]_qvars
=============================================================================
