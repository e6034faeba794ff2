----------------------------- MODULE MCDecisionRun -----------------------------
(***************************************************************************)
(* A small instance of DecisionRun: the settings that matter, one at a     *)
(* time away from the defaults, and with every limit within reach.         *)
(***************************************************************************)
EXTENDS DecisionRunProperties

\* Every step allowed and one round of probes: no limit a run could reach.
Roomy ==
  [expansion |-> TRUE, exploration |-> TRUE, rounds |-> 1, readingCheck |-> TRUE,
   ambiguity |-> "assume", repair |-> TRUE, resultCheck |-> TRUE,
   tokenLimit |-> 9, probeLimit |-> Unset]

MCSettings ==
  {Roomy,
   [Roomy EXCEPT !.ambiguity = "ask", !.tokenLimit = 3],
   [Roomy EXCEPT !.rounds = 2, !.expansion = FALSE, !.repair = FALSE,
                 !.resultCheck = FALSE],
   [Roomy EXCEPT !.exploration = FALSE, !.tokenLimit = 3],
   [Roomy EXCEPT !.readingCheck = FALSE, !.resultCheck = FALSE],
   [Roomy EXCEPT !.probeLimit = 1, !.expansion = FALSE]}
=============================================================================
