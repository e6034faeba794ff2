------------------------------ MODULE QueryGates ------------------------------
(***************************************************************************)
(* One query through the gates that read its text, in the order planning   *)
(* runs them (SqlSafetyService._plan): policy, grain, and policy again on  *)
(* a query the server has rewritten itself. SqlSafety models what planning *)
(* and executing do around these gates; here the gates themselves decide.  *)
(***************************************************************************)
EXTENDS GrainNormalizer, SqlPolicy

CONSTANT Queries  \* the queries a model may write

\* No query uses a name the normalizer makes up.
NamesAreFresh(q) ==
  LET p == Last(q) IN
  \A child \in AliasesOf(p) :
    /\ "" \notin {SumsAlias(child), SourceAlias(child)}
    /\ SumsAlias(child) \notin AliasesOf(p) \cup {ref.q : ref \in Compared(p)}

ASSUME QueriesAssumption == \A q \in Queries : WellFormed(q) /\ NamesAreFresh(q)

VARIABLES
  query,     \* the candidate
  selected,  \* the query that goes on to be explained and run
  stage,     \* how far planning has come
  verdict    \* what stopped it, or that nothing has

vars == <<query, selected, stage, verdict>>

Stages   == {"POLICY", "GRAIN", "RECHECK", "PLANNED", "REFUSED"}
Verdicts == {Allowed, "UNKNOWN_TABLE", "FORBIDDEN_TABLE", "UNKNOWN_COLUMN", "FORBIDDEN_COLUMN",
             "UNAUTHORIZED_JOIN", "SEMANTIC_REJECTION"}

Init ==
  /\ query \in Queries
  /\ selected = query
  /\ stage = "POLICY"
  /\ verdict = Allowed

\* Faulty: what refused the query is not told.
RefuseUntold(why) == stage' = "REFUSED" /\ UNCHANGED verdict

Refuse(why) == stage' = "REFUSED" /\ verdict' = why
GoOn(to)    == stage' = to /\ UNCHANGED verdict

Heed(refusal) == IF refusal # Allowed THEN Refuse(refusal) ELSE GoOn("GRAIN")

Policy ==
  /\ stage = "POLICY"
  /\ Heed(Validate(query))
  /\ UNCHANGED <<query, selected>>

\* What the boundary decided on the grain, and the query it selected.
Follow(decision) ==
  /\ CASE decision.status = "REJECTED"   -> Refuse("SEMANTIC_REJECTION")
       [] decision.status = "NORMALIZED" -> GoOn("RECHECK")
       [] OTHER                          -> GoOn("PLANNED")
  /\ selected' = decision.selected

GrainSafety ==
  /\ stage = "GRAIN"
  /\ Follow(Inspect(query))
  /\ UNCHANGED query

\* The rewritten query is new text: what it reads and joins is judged again.
Recheck ==
  /\ stage = "RECHECK"
  /\ IF Validate(selected) # Allowed THEN Refuse("SEMANTIC_REJECTION") ELSE GoOn("PLANNED")
  /\ UNCHANGED <<query, selected>>

Next == Policy \/ GrainSafety \/ Recheck

Spec == Init /\ [][Next]_vars
=============================================================================
