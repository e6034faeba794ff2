------------------------------- MODULE SqlSafety -------------------------------
(***************************************************************************)
(* The SQL safety service of one request (src/app/sql/service.py): it takes *)
(* SQL nobody trusts through its gates, issues a plan for what passed them, *)
(* runs issued plans only, runs probes outside the trace, and looks up the  *)
(* literals of a query that came back empty.                                *)
(*                                                                         *)
(* One call runs at a time.  Each transaction is opened on a connection     *)
(* whose role is only known once it is asked for.  SQL is the few facts the *)
(* gates look at; the stage reasons are left out.                           *)
(***************************************************************************)
EXTENDS SqlGates

CONSTANTS Switches,     \* the gates a connection may have on
          Relation,     \* the relations SQL may read
          Queries,      \* the SQL that parses: candidates, and what normalizing may write
          Requests,     \* who asks: the candidate's source and authority
          NotGiven,     \* no authority: execution_authority is None
          Default,      \* default_execution_authority
          MaxCalls      \* bound of the model

(***************************************************************************)
(* reads   the relations it depends on (external_relations)                *)
(* policy  passes, or is rejected for a reason the model may fix, or not   *)
(* grain   the coordinator's verdict: safe, a fan-out, or a violation      *)
(* value   its literals: stored, stored in one other spelling, or not      *)
(*         stored in a column whose values the model saw, or did not see   *)
(***************************************************************************)
QueryShape == [reads  : SUBSET Relation,
               policy : {"PASS", "FIXABLE", "FINAL"},
               grain  : {"SAFE", "FANOUT", "VIOLATION"},
               value  : {"STORED", "RESPELLED", "SHARED", "BLIND"}]

Source == {"LLM", "COMPILER", "INTERNAL"}

\* grain_normalization_enabled; there are value sets to check literals against.
Switch == [grain : BOOLEAN, values : BOOLEAN]

Request == [source : Source, authority : (SUBSET Relation) \cup {NotGiven}]

ASSUME SwitchAssumption == Switches \subseteq Switch
ASSUME QueriesAssumption == Queries \subseteq QueryShape
ASSUME AuthorityAssumption == Default \subseteq Relation /\ Requests \subseteq Request
ASSUME MaxCallsAssumption == MaxCalls \in Nat

VARIABLES
  switches,  \* the gates that are on
  call,      \* the call being served: plan, explore, execute, lookup, or "none"
  at,        \* the step it has reached
  asked,     \* the candidate: its SQL, source and authority
  sql,       \* parsed_for_plan: the SQL as rewritten so far
  recording, \* stage_recorder is set
  trace,     \* RunTraceCollector
  before,    \* (history) the trace when the call began
  plans,     \* _accepted_plans, in the order they were issued
  held,      \* the plans the service has returned
  running,   \* the plan being executed
  role,      \* the role of the open connection, or "NONE"
  sent,      \* (history) statements the database was sent
  answer,    \* what the last call returned
  calls      \* calls begun

vars == <<switches, call, at, asked, sql, recording, trace, before, plans, held, running,
          role, sent, answer, calls>>

NoSql == [reads |-> {}, policy |-> "PASS", grain |-> "SAFE", value |-> "STORED"]

NoAsk == [sql |-> NoSql, source |-> "LLM", authority |-> {}]

\* number stands for plan_id; copied tells an altered copy from the plan issued.
NoQueryPlan == [number |-> 0, sql |-> NoSql, asked |-> NoAsk, copied |-> FALSE]

NoAnswer == [call |-> "NONE"]

Init ==
  /\ switches \in Switches
  /\ call = "none" /\ at = "idle"
  /\ asked = NoAsk /\ sql = NoSql
  /\ recording = TRUE
  /\ trace = EmptyTrace /\ before = EmptyTrace
  /\ plans = <<>> /\ held = {} /\ running = NoQueryPlan
  /\ role = "NONE"
  /\ sent = {}
  /\ answer = NoAnswer
  /\ calls = 0

-----------------------------------------------------------------------------
(***************************************************************************)
(* Calls.                                                                  *)
(***************************************************************************)
Begin(name, step) ==
  /\ at = "idle" /\ calls < MaxCalls
  /\ calls' = calls + 1
  /\ call' = name /\ at' = step
  /\ before' = trace

\* _record_stage, after what the trace t holds: without a recorder nothing is recorded.
RecordingIn(t, name, status, reason) ==
  IF recording THEN RecordStage(t, name, status, reason) ELSE t

Recording(name, status) == RecordingIn(trace, name, status, "NONE")

\* What no step within a call changes.
InCall == UNCHANGED <<switches, call, before, held, calls>>

\* Faulty: the recorder is put back only by a call that had it.
OnlyIfOn == recording

\* A probe's recorder is put back however the probe ends.
Restored == TRUE

\* The call returns; its connection goes back.
Returns(result) ==
  /\ at' = "idle" /\ call' = "none"
  /\ asked' = NoAsk /\ sql' = NoSql /\ running' = NoQueryPlan /\ role' = "NONE"
  /\ answer' = IF call = "explore" THEN [call |-> "PROBE"] ELSE result
  /\ recording' = Restored
  /\ UNCHANGED <<switches, before, calls>>

\* Faulty: the recorder stays on for a probe.
Unmuted(name) == TRUE

\* explore takes the recorder away while the probe runs.
Muted(name) == name # "explore"

\* plan and explore, with a candidate of their own.
Take(name) ==
  /\ Begin(name, "parse")
  /\ \E q \in Queries, r \in Requests :
       asked' = [sql |-> q, source |-> r.source, authority |-> r.authority]
  /\ recording' = (recording /\ Muted(name))
  /\ UNCHANGED <<switches, sql, trace, plans, held, running, role, sent, answer>>

PlanCall == Take("plan")

Explore == Take("explore")

(***************************************************************************)
(* Planning.  A gate passes, or the call ends with a failure.               *)
(***************************************************************************)
\* runtime_from_plan and repair_feedback, of an SqlPlanFailure.
RuntimeFromPlan(f) ==
  IF f.status = "AUTHORITY_REJECTION" THEN "AUTHORITY_REJECTED"
  ELSE IF f.status = "POLICY_REJECTION" THEN "POLICY_REJECTED"
  ELSE "RUNTIME_REJECTED"

RepairFeedback(f) ==
  \/ f.status \in {"SQL_PARSE_ERROR", "QUERY_COST_REJECTION", "SEMANTIC_REJECTION"}
  \/ f.status = "POLICY_REJECTION" /\ f.rejection = "FIXABLE"

PlanFailure(status, rejection) == [status |-> status, rejection |-> rejection]

Fails(f) ==
  /\ Returns([call |-> "PLAN", accepted |-> FALSE, outcome |-> RuntimeFromPlan(f),
              fixable |-> RepairFeedback(f)])
  /\ UNCHANGED held

NoStatement == UNCHANGED <<plans, sent>>

\* The next gate; sql is what it is given.
GoesOn(step) ==
  /\ at' = step
  /\ InCall
  /\ UNCHANGED <<asked, recording, running, role, answer>>

Parse ==
  /\ at = "parse"
  /\ \/ /\ GoesOn("policy")
        /\ sql' = asked.sql
        /\ trace' = Recording("sql_parse", "PASS")
     \/ /\ Fails(PlanFailure("SQL_PARSE_ERROR", "NONE"))
        /\ trace' = Recording("sql_parse", "FAILED")
  /\ NoStatement

Policy ==
  /\ at = "policy"
  /\ IF sql.policy = "PASS"
     THEN GoesOn("authority") /\ trace' = Recording("global_policy", "PASS") /\ UNCHANGED sql
     ELSE /\ Fails(PlanFailure("POLICY_REJECTION", sql.policy))
          /\ trace' = Recording("global_policy", "REJECTED")
  /\ NoStatement

\* The relations a candidate may read; SQL of the program's own with no authority may
\* read any.
Allowed(c) ==
  IF c.authority # NotGiven THEN c.authority
  ELSE IF c.source = "INTERNAL" THEN Relation ELSE Default

Missing(c) == c.authority = NotGiven /\ c.source = "LLM"

\* validate_authority.
Authorized(q) == q.reads \subseteq Allowed(asked)

Authority ==
  /\ at = "authority"
  /\ IF ~Missing(asked) /\ Authorized(sql)
     THEN /\ GoesOn("grain")
          /\ trace' = Recording("execution_authority",
                                IF asked.authority = NotGiven /\ asked.source = "INTERNAL"
                                THEN "SKIPPED" ELSE "PASS")
          /\ UNCHANGED sql
     ELSE /\ Fails(PlanFailure("AUTHORITY_REJECTION", "NONE"))
          /\ trace' = Recording("execution_authority", "REJECTED")
  /\ NoStatement

\* Faulty: the normalized SQL is taken to read what the candidate read.
AnyNormalized(q) == TRUE

\* The normalized SQL passes the earlier checks again.
NormalizedPasses(q) == q.policy = "PASS" /\ Authorized(q)

\* What a normalizer that follows no rule but its own check may write: SQL, safe.
Normalized == {q \in Queries : q.grain = "SAFE"}

\* The recorded verdict is the coordinator's: what is found in the normalized SQL
\* afterwards has no stage.
Grain ==
  /\ at = "grain"
  /\ IF ~switches.grain
     THEN GoesOn("values") /\ trace' = Recording("grain_safety", "SKIPPED") /\ UNCHANGED sql
     ELSE \/ /\ sql.grain = "SAFE"
             /\ GoesOn("values") /\ UNCHANGED sql
             /\ trace' = Recording("grain_safety", "PASS")
          \/ /\ sql.grain # "SAFE"         \* a violation, or not normalized
             /\ Fails(PlanFailure("SEMANTIC_REJECTION", "NONE"))
             /\ trace' = Recording("grain_safety", "REJECTED")
          \/ /\ sql.grain = "FANOUT"
             /\ trace' = Recording("grain_safety", "PASS")
             /\ \/ Fails(PlanFailure("SEMANTIC_REJECTION", "NONE"))   \* it does not parse
                \/ \E q \in Normalized :
                     \/ NormalizedPasses(q) /\ GoesOn("values") /\ sql' = q
                     \/ /\ ~NormalizedPasses(q)
                        /\ Fails(IF q.policy # "PASS"
                                 THEN PlanFailure("SEMANTIC_REJECTION", q.policy)
                                 ELSE PlanFailure("AUTHORITY_REJECTION", "NONE"))
  /\ NoStatement

\* A literal stored in one other spelling is rewritten; nothing else of the SQL changes.
Values ==
  /\ at = "values"
  /\ GoesOn("ordering")
  /\ sql' = IF switches.values /\ sql.value = "RESPELLED"
            THEN [sql EXCEPT !.value = "STORED"] ELSE sql
  /\ trace' = Recording("value_check", IF switches.values THEN "PASS" ELSE "SKIPPED")
  /\ NoStatement

\* Sums are widened and NULLs put last: no gate looks at either.
Ordering ==
  /\ at = "ordering"
  /\ GoesOn("connect")
  /\ trace' = Recording("null_ordering", "PASS")
  /\ UNCHANGED sql /\ NoStatement

\* A gate fails in a way it does not handle: nothing is caught before the connection.
GateRaises ==
  /\ at \in {"parse", "policy", "authority", "grain", "values", "ordering"}
  /\ Returns([call |-> "RAISED"])
  /\ UNCHANGED <<trace, held>> /\ NoStatement

-----------------------------------------------------------------------------
(***************************************************************************)
(* Transactions.                                                           *)
(***************************************************************************)
Roles == {"READER", "OTHER"}

\* configure_transaction asks in every transaction.
RoleChecked == role = "READER"

\* A connection is opened; whose it is, the pool decides.
Opens(stage, step) ==
  /\ at' = step
  /\ role' \in Roles
  /\ trace' = Recording(stage, "PASS")
  /\ InCall
  /\ UNCHANGED <<asked, sql, recording, running, answer>>

Statement(how, q, cheap) ==
  [how |-> how, sql |-> q, asked |-> asked, role |-> role, cheap |-> cheap]

Unplannable == PlanFailure("EXECUTION_ERROR", "NONE")

ConnectPlanning ==
  /\ at = "connect"
  /\ \/ Opens("planning_connection", "explain") /\ UNCHANGED held
     \/ Fails(Unplannable) /\ trace' = Recording("planning_connection", "FAILED")
  /\ NoStatement

\* The transaction cannot be set up: the role is wrong, or the connection is lost.
SetUpFails ==
  /\ at = "explain"
  /\ Fails(Unplannable)
  /\ UNCHANGED trace /\ NoStatement

Explain ==
  /\ at = "explain" /\ RoleChecked
  /\ \/ /\ Fails(Unplannable)
        /\ trace' = Recording("explain", "FAILED")
        /\ sent' = sent \cup {Statement("EXPLAIN", sql, FALSE)}
     \/ /\ \E cheap \in BOOLEAN :
             /\ GoesOn(IF cheap THEN "issue" ELSE "refuse")
             /\ sent' = sent \cup {Statement("EXPLAIN", sql, cheap)}
        /\ trace' = Recording("explain", "PASS")
        /\ UNCHANGED sql
  /\ UNCHANGED plans

\* The query is too expensive, whether or not the transaction commits.
TooExpensive ==
  /\ at = "refuse"
  /\ \E status \in {"QUERY_COST_REJECTION", "EXECUTION_ERROR"} :
       Fails(PlanFailure(status, "NONE"))
  /\ trace' = Recording("cost_gate", "REJECTED")
  /\ NoStatement

\* The plan is issued, and returned if the transaction commits; a probe goes on with it.
Issue ==
  LET plan == [number |-> Len(plans) + 1, sql |-> sql, asked |-> asked, copied |-> FALSE]
  IN  /\ at = "issue"
      /\ plans' = Append(plans, plan)
      /\ trace' = Recording("cost_gate", "PASS")
      /\ \/ Fails(Unplannable)
         \/ /\ call = "plan"
            /\ held' = held \cup {plan}
            /\ Returns([call |-> "PLAN", accepted |-> TRUE, outcome |-> "PLANNED",
                        fixable |-> switches.values /\ sql.value = "BLIND"])
         \/ /\ call = "explore"
            /\ at' = "run" /\ running' = plan /\ role' = "NONE"
            /\ InCall
            /\ UNCHANGED <<asked, sql, recording, answer>>
      /\ UNCHANGED sent

-----------------------------------------------------------------------------
(***************************************************************************)
(* Execution.                                                              *)
(***************************************************************************)
\* A caller may present a plan it holds, or an altered copy of one.
Execute ==
  /\ Begin("execute", "run")
  /\ \E p \in held :
       \E plan \in {p} \cup {[p EXCEPT !.sql = q, !.copied = TRUE] : q \in Queries} :
         running' = plan /\ asked' = plan.asked
  /\ UNCHANGED <<switches, sql, recording, trace, plans, held, role, sent, answer>>

\* Faulty: the number of a plan is enough.
KnownNumber(plan) == plan.number \in DOMAIN plans

\* The plan itself is the one issued, not another with its number.
Issued(plan) == \E i \in DOMAIN plans : plans[i] = plan

\* What an execution returns; a failed one has recorded so unless it found another role.
Ends(result) ==
  Returns([call |-> "EXECUTE", result |-> result]) /\ UNCHANGED <<plans, held>>

ExecutionFailed(t) == RecordingIn(t, "execution", "FAILED", "EXECUTION_ERROR")

ConnectExecution ==
  /\ at = "run"
  /\ IF ~Issued(running)
     THEN Returns([call |-> "REFUSED"]) /\ UNCHANGED <<trace, held>>
     ELSE \/ Opens("execution_connection", "query") /\ UNCHANGED held
          \/ /\ Ends("NOT_CONNECTED")
             /\ trace' = ExecutionFailed(Recording("execution_connection", "FAILED"))
  /\ NoStatement

\* Set-up finds another role, or fails.
ExecutionSetUpFails ==
  /\ at = "query"
  /\ \/ role # "READER" /\ Ends("WRONG_ROLE") /\ UNCHANGED trace
     \/ Ends("ERROR") /\ trace' = ExecutionFailed(trace)
  /\ UNCHANGED sent

\* The query runs; when the commit after it fails its rows are not returned.
Query ==
  /\ at = "query" /\ RoleChecked
  /\ sent' = sent \cup {Statement("QUERY", running.sql, TRUE)}
  /\ \/ \E result \in QueryResults :
          \/ Ends(result) /\ trace' = Recording("execution", "PASS")
          \/ Ends("ERROR") /\ trace' = ExecutionFailed(Recording("execution", "PASS"))
     \/ \E result \in {"ERROR_CLASS", "ERROR"} :
          Ends(result) /\ trace' = ExecutionFailed(trace)

(***************************************************************************)
(* Lookups: a query that ran came back empty.                              *)
(***************************************************************************)
ProbeValues ==
  /\ Begin("lookup", "lookup")
  /\ \E s \in sent : s.how = "QUERY" /\ asked' = s.asked
  /\ UNCHANGED <<switches, sql, recording, trace, plans, held, running, role, sent, answer>>

\* Whatever goes wrong counts as no answer.
Lookup ==
  /\ at = "lookup"
  /\ \/ /\ role = "NONE"
        /\ at' = "lookup" /\ role' \in Roles
        /\ InCall
        /\ UNCHANGED <<asked, sql, recording, running, answer, sent>>
     \/ Returns([call |-> "LOOKUP"]) /\ UNCHANGED <<held, sent>>
     \/ /\ RoleChecked
        /\ Returns([call |-> "LOOKUP"])
        /\ sent' = sent \cup {Statement("LOOKUP", asked.sql, TRUE)}
        /\ UNCHANGED held
  /\ UNCHANGED <<trace, plans>>

Planning == Parse \/ Policy \/ Authority \/ Grain \/ Values \/ Ordering \/ GateRaises
            \/ ConnectPlanning \/ SetUpFails \/ Explain \/ TooExpensive \/ Issue

Next == PlanCall \/ Explore \/ Execute \/ ProbeValues
        \/ Planning \/ ConnectExecution \/ ExecutionSetUpFails \/ Query \/ Lookup

Spec == Init /\ [][Next]_vars
=============================================================================
