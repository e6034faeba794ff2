-------------------------- MODULE SqlSafetyProperties --------------------------
(***************************************************************************)
(* What the SQL safety service must keep to.                               *)
(***************************************************************************)
EXTENDS SqlSafety

Candidates == [sql : Queries \cup {NoSql}, source : Source,
               authority : (SUBSET Relation) \cup {NotGiven}]

\* A candidate's SQL, or what the rewriting gates made of it.
Rewritten == Queries \cup {NoSql} \cup {[q EXCEPT !.value = "STORED"] : q \in Queries}

QueryPlans == [number : Nat, sql : Rewritten, asked : Candidates, copied : BOOLEAN]

Statements == [how : {"EXPLAIN", "QUERY", "LOOKUP"}, sql : Rewritten, asked : Candidates,
               role : Roles, cheap : BOOLEAN]

CallNames == {"none", "plan", "explore", "execute", "lookup"}

Steps == {"idle", "parse", "policy", "authority", "grain", "values", "ordering", "connect",
          "explain", "refuse", "issue", "run", "query", "lookup"}

\* Every variable keeps its type, and the recorder is away only while a probe is served.
TypeOK ==
  /\ switches \in Switch
  /\ call \in CallNames /\ at \in Steps
  /\ at = "idle" <=> call = "none"
  /\ asked \in Candidates /\ sql \in Rewritten
  /\ recording = (call # "explore")
  /\ trace \in [Stages -> StageResult] /\ before \in [Stages -> StageResult]
  /\ plans \in Seq(QueryPlans) /\ held \subseteq QueryPlans
  /\ running \in QueryPlans
  /\ role \in Roles \cup {"NONE"}
  /\ sent \subseteq Statements
  /\ calls \in 0..MaxCalls

\* Whatever was rewritten on the way, the database is sent only statements that pass the
\* policy, read what their candidate was allowed and no more, and, where grain safety is
\* on and rows count, count none twice; and it is sent them as the reader
\* (service.py _plan and _execute, authority.py, reader.py configure_transaction).
OnlyGatedStatements ==
  \A s \in sent :
    /\ s.role = "READER"
    /\ s.sql.policy = "PASS"
    /\ ~Missing(s.asked)
    /\ s.sql.reads \subseteq Allowed(s.asked)
    /\ switches.grain /\ s.how # "LOOKUP" => s.sql.grain = "SAFE"

\* A query that ran is, to the letter, one whose cost was estimated for the same
\* candidate and found within limits (service.py, _execute).
RunAsExplained ==
  \A s \in sent : s.how = "QUERY" =>
    \E e \in sent : e.how = "EXPLAIN" /\ e.cheap /\ e.sql = s.sql /\ e.asked = s.asked

\* Gates that are switched off count as passed.
Shown(t) ==
  [name \in Stages |->
     IF t[name].status = "SKIPPED" THEN [status |-> "PASS", reason |-> "NONE"] ELSE t[name]]

\* The service does what QueryService promises the decision service: each call comes to
\* one of the listed results, with exactly that result's stages, and a probe leaves no
\* mark on the trace of the answer, whatever became of it (service.py, explore).
Service == INSTANCE QueryService WITH shown <- Shown(IF at = "idle" THEN trace ELSE before),
                                      answer <- answer
KeepsPromises == Service!QSpec
=============================================================================
