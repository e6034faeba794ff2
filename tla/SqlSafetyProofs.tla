---------------------------- MODULE SqlSafetyProofs ----------------------------
(***************************************************************************)
(* Proofs about SqlSafety, for any relations, any SQL and any callers: the *)
(* database is sent only statements that pass every gate, and runs only    *)
(* queries whose cost it has estimated; and the service keeps the promises *)
(* of QueryService: every call comes to a result the decision service      *)
(* knows, with exactly that result's stages in the trace.                  *)
(***************************************************************************)
EXTENDS SqlSafetyProperties, SequenceTheorems, TLAPS

Candidate == [sql : QueryShape, source : Source,
              authority : (SUBSET Relation) \cup {NotGiven}]

IssuedPlan == [number : Nat, sql : QueryShape, asked : Candidate, copied : BOOLEAN]

\* SQL the policy and the candidate's authority let through.
Gated(q, c) == q.policy = "PASS" /\ ~Missing(c) /\ q.reads \subseteq Allowed(c)

\* SQL every gate let through.
Judged(q, c) == Gated(q, c) /\ (switches.grain => q.grain = "SAFE")

\* Its cost was estimated for that candidate and found within limits.
Costed(q, c) ==
  \E e \in sent : e.how = "EXPLAIN" /\ e.cheap /\ e.sql = q /\ e.asked = c

Typed ==
  /\ asked \in Candidate
  /\ sql \in QueryShape
  /\ running \in IssuedPlan
  /\ plans \in Seq(IssuedPlan)
  /\ held \subseteq IssuedPlan
  /\ \A s \in sent : s.asked \in Candidate

\* What the gates behind a step have found.
GatesInv ==
  /\ at = "policy" => sql = asked.sql
  /\ at = "authority" => sql = asked.sql /\ sql.policy = "PASS"
  /\ at = "grain" => sql = asked.sql /\ Gated(sql, asked)
  /\ at \in {"values", "ordering", "connect", "explain", "refuse", "issue"} =>
       Judged(sql, asked) /\ Gated(asked.sql, asked)
  /\ at = "issue" => Costed(sql, asked)
  /\ at = "lookup" => Gated(asked.sql, asked)

\* What is so of every plan that was issued, and of the one about to run.
PlansInv ==
  /\ \A i \in DOMAIN plans :
       /\ Judged(plans[i].sql, plans[i].asked)
       /\ Gated(plans[i].asked.sql, plans[i].asked)
       /\ Costed(plans[i].sql, plans[i].asked)
  /\ at \in {"run", "query"} => asked = running.asked
  /\ at = "query" => Issued(running)

\* What is so of every statement the database was sent.
SentInv ==
  \A s \in sent :
    /\ s.role = "READER"
    /\ Gated(s.sql, s.asked)
    /\ switches.grain /\ s.how # "LOOKUP" => s.sql.grain = "SAFE"
    /\ s.how = "QUERY" => Gated(s.asked.sql, s.asked) /\ Costed(s.sql, s.asked)

IInv == Typed /\ GatesInv /\ PlansInv /\ SentInv

-----------------------------------------------------------------------------
\* The values of an idle service are of their types.
LEMMA IdleTyped ==
  NoSql \in QueryShape /\ NoAsk \in Candidate /\ NoQueryPlan \in IssuedPlan
BY DEF NoSql, QueryShape, NoAsk, Candidate, Source, NoQueryPlan, IssuedPlan

\* The plans issued so far, as a function.
LEMMA PlansTyped ==
  ASSUME Typed
  PROVE  /\ Len(plans) \in Nat
         /\ DOMAIN plans = 1..Len(plans)
         /\ \A i \in 1..Len(plans) : plans[i] \in IssuedPlan
BY LenProperties, ElementOfSeq DEF Typed

\* The invariant holds at the start.
LEMMA InitGated == Init => IInv
<1> SUFFICES ASSUME Init PROVE IInv
  OBVIOUS
<1>1. Typed
  BY IdleTyped, EmptySeq DEF Init, Typed
<1>2. GatesInv /\ PlansInv /\ SentInv
  BY DEF Init, GatesInv, PlansInv, SentInv
<1> QED
  BY <1>1, <1>2 DEF IInv

\* A call that returns without a plan or a statement of its own keeps the invariant.
LEMMA ReturnGated ==
  ASSUME IInv, NEW result, Returns(result), UNCHANGED <<plans, held, sent>>
  PROVE  IInv'
<1>1. Typed'
  BY IdleTyped DEF IInv, Typed, Returns
<1>2. GatesInv'
  BY DEF GatesInv, Returns
<1>3. PlansInv'
  BY DEF IInv, PlansInv, Returns, Judged, Gated, Costed
<1>4. SentInv'
  BY DEF IInv, SentInv, Returns, Gated, Costed
<1> QED
  BY <1>1, <1>2, <1>3, <1>4 DEF IInv

\* So does one that fails.
LEMMA FailureGated ==
  ASSUME IInv, NEW f, Fails(f), UNCHANGED <<plans, sent>>
  PROVE  IInv'
BY ReturnGated DEF Fails

\* A call that only begins, or moves between steps no gate stands behind.
LEMMA PlansKept ==
  ASSUME IInv, UNCHANGED <<switches, plans, sent>>,
         at' \in {"run", "query"} => asked' = running'.asked,
         at' = "query" => Issued(running)'
  PROVE  PlansInv' /\ SentInv'
<1>1. PlansInv'
  BY DEF IInv, PlansInv, Judged, Gated, Costed
<1>2. SentInv'
  BY DEF IInv, SentInv, Gated, Costed
<1> QED
  BY <1>1, <1>2

\* Calls are taken.
LEMMA CallsGated ==
  ASSUME IInv, PlanCall \/ Explore \/ Execute \/ ProbeValues
  PROVE  IInv'
<1>1. CASE PlanCall \/ Explore
  <2>1. PICK q \in Queries, r \in Requests :
          asked' = [sql |-> q, source |-> r.source, authority |-> r.authority]
    BY <1>1 DEF PlanCall, Explore, Take
  <2>2. asked' \in Candidate
    BY <2>1, QueriesAssumption, AuthorityAssumption DEF Candidate, Request
  <2>3. at' = "parse" /\ UNCHANGED <<switches, sql, plans, held, running, sent>>
    BY <1>1 DEF PlanCall, Explore, Take, Begin
  <2>4. Typed' /\ GatesInv'
    BY <2>2, <2>3 DEF IInv, Typed, GatesInv
  <2> QED
    BY <2>3, <2>4, PlansKept DEF IInv
<1>2. CASE Execute
  <2>1. PICK p \in held :
          \E plan \in {p} \cup {[p EXCEPT !.sql = q, !.copied = TRUE] : q \in Queries} :
            running' = plan /\ asked' = plan.asked
    BY <1>2 DEF Execute
  <2>2. p \in IssuedPlan
    BY <2>1 DEF IInv, Typed
  <2>3. running' \in IssuedPlan /\ asked' = running'.asked
    BY <2>1, <2>2, QueriesAssumption DEF IssuedPlan
  <2>4. asked' \in Candidate
    BY <2>3 DEF IssuedPlan
  <2>5. at' = "run" /\ UNCHANGED <<switches, sql, plans, held, sent>>
    BY <1>2 DEF Execute, Begin
  <2>6. Typed' /\ GatesInv'
    BY <2>3, <2>4, <2>5 DEF IInv, Typed, GatesInv
  <2> QED
    BY <2>3, <2>5, <2>6, PlansKept DEF IInv
<1>3. CASE ProbeValues
  <2>1. PICK s \in sent : s.how = "QUERY" /\ asked' = s.asked
    BY <1>3 DEF ProbeValues
  <2>2. at' = "lookup" /\ UNCHANGED <<switches, sql, plans, held, running, sent>>
    BY <1>3 DEF ProbeValues, Begin
  <2>3. Typed' /\ GatesInv'
    BY <2>1, <2>2 DEF IInv, Typed, GatesInv, SentInv, Gated
  <2> QED
    BY <2>2, <2>3, PlansKept DEF IInv
<1> QED
  BY <1>1, <1>2, <1>3

-----------------------------------------------------------------------------
\* A step to the next gate that gives it gated SQL.
LEMMA NextGateGated ==
  ASSUME IInv, NEW step, GoesOn(step), step \notin {"run", "query"},
         sql' \in QueryShape, GatesInv',
         plans' = plans, sent' = sent
  PROVE  IInv'
<1>1. Typed'
  BY DEF IInv, Typed, GoesOn, InCall
<1>2. PlansInv' /\ SentInv'
  BY PlansKept DEF GoesOn, InCall
<1> QED
  BY <1>1, <1>2 DEF IInv

\* The gates before the connection.
LEMMA GatesGated ==
  ASSUME IInv, Parse \/ Policy \/ Authority \/ Grain \/ Values \/ Ordering \/ GateRaises
  PROVE  IInv'
<1> USE DEF NoStatement
<1>1. CASE Parse
  <2>1. CASE GoesOn("policy") /\ sql' = asked.sql
    <3>1. sql' \in QueryShape /\ GatesInv'
      BY <2>1 DEF IInv, Typed, Candidate, GatesInv, GoesOn
    <3> QED
      BY <1>1, <2>1, <3>1, NextGateGated DEF Parse
  <2> QED
    BY <1>1, <2>1, FailureGated DEF Parse
<1>2. CASE Policy
  <2>1. CASE sql.policy = "PASS"
    <3>1. GoesOn("authority") /\ UNCHANGED sql
      BY <1>2, <2>1 DEF Policy
    <3>2. sql' \in QueryShape /\ GatesInv'
      BY <1>2, <2>1, <3>1 DEF IInv, Typed, GatesInv, GoesOn, Policy
    <3> QED
      BY <1>2, <3>1, <3>2, NextGateGated DEF Policy
  <2> QED
    BY <1>2, <2>1, FailureGated DEF Policy
<1>3. CASE Authority
  <2>1. CASE ~Missing(asked) /\ Authorized(sql)
    <3>1. GoesOn("grain") /\ UNCHANGED sql
      BY <1>3, <2>1 DEF Authority
    <3>2. sql' \in QueryShape /\ GatesInv'
      BY <1>3, <2>1, <3>1 DEF IInv, Typed, GatesInv, GoesOn, Authority, Gated, Authorized
    <3> QED
      BY <1>3, <3>1, <3>2, NextGateGated DEF Authority
  <2> QED
    BY <1>3, <2>1, FailureGated DEF Authority
<1>4. CASE Grain
  <2>0. sql = asked.sql /\ Gated(sql, asked)
    BY <1>4 DEF Grain, IInv, GatesInv
  <2>1. CASE GoesOn("values") /\ UNCHANGED sql /\ (switches.grain => sql.grain = "SAFE")
    <3>1. sql' \in QueryShape /\ GatesInv'
      BY <2>0, <2>1 DEF IInv, Typed, GatesInv, GoesOn, InCall, Judged, Gated
    <3> QED
      BY <1>4, <2>1, <3>1, NextGateGated DEF Grain
  <2>2. CASE \E f : Fails(f)
    BY <1>4, <2>2, FailureGated DEF Grain
  <2>3. CASE \E q \in Normalized : NormalizedPasses(q) /\ GoesOn("values") /\ sql' = q
    <3>1. PICK q \in Normalized : NormalizedPasses(q) /\ GoesOn("values") /\ sql' = q
      BY <2>3
    <3>2. q \in QueryShape /\ q.grain = "SAFE"
      BY <3>1, QueriesAssumption DEF Normalized
    <3>3. Judged(q, asked) /\ Gated(asked.sql, asked)
      BY <2>0, <3>1, <3>2 DEF Judged, Gated, NormalizedPasses, Authorized
    <3>4. GatesInv'
      BY <3>1, <3>2, <3>3 DEF GatesInv, GoesOn, InCall, Judged, Gated
    <3> QED
      BY <1>4, <3>1, <3>2, <3>4, NextGateGated DEF Grain
  <2> QED
    BY <1>4, <2>1, <2>2, <2>3 DEF Grain
<1>5. CASE Values
  <2>1. GoesOn("ordering") /\ at = "values" /\ plans' = plans /\ sent' = sent
    BY <1>5 DEF Values
  <2>2. /\ sql' \in QueryShape
        /\ sql'.policy = sql.policy /\ sql'.reads = sql.reads /\ sql'.grain = sql.grain
    BY <1>5 DEF Values, IInv, Typed, QueryShape
  <2>3. GatesInv'
    BY <2>1, <2>2 DEF IInv, GatesInv, GoesOn, InCall, Judged, Gated
  <2> QED
    BY <2>1, <2>2, <2>3, NextGateGated
<1>6. CASE Ordering
  <2>1. GoesOn("connect") /\ at = "ordering" /\ UNCHANGED <<sql, plans, sent>>
    BY <1>6 DEF Ordering
  <2>2. sql' \in QueryShape /\ GatesInv'
    BY <2>1 DEF IInv, Typed, GatesInv, GoesOn, InCall, Judged, Gated
  <2> QED
    BY <2>1, <2>2, NextGateGated
<1>7. CASE GateRaises
  BY <1>7, ReturnGated DEF GateRaises
<1> QED
  BY <1>1, <1>2, <1>3, <1>4, <1>5, <1>6, <1>7

-----------------------------------------------------------------------------
\* Statements are sent for gated SQL only, on a connection whose role was asked.
LEMMA SentKept ==
  ASSUME IInv, NEW s, sent' = sent \cup {s}, UNCHANGED <<switches, plans>>,
         s.role = "READER", Gated(s.sql, s.asked),
         switches.grain /\ s.how # "LOOKUP" => s.sql.grain = "SAFE",
         s.how = "QUERY" => Gated(s.asked.sql, s.asked) /\ Costed(s.sql, s.asked)
  PROVE  SentInv'
<1>1. \A q, c : Costed(q, c) => Costed(q, c)'
  BY DEF Costed
<1> QED
  BY <1>1 DEF IInv, SentInv, Gated

LEMMA PlansCosted ==
  ASSUME IInv, UNCHANGED <<switches, plans>>, sent \subseteq sent',
         at' \in {"run", "query"} => asked' = running'.asked,
         at' = "query" => Issued(running)'
  PROVE  PlansInv'
BY DEF IInv, PlansInv, Judged, Gated, Costed

\* A statement sent as a call returns.
LEMMA LastStatementGated ==
  ASSUME IInv, NEW result, Returns(result), UNCHANGED <<plans, held>>,
         NEW s, sent' = sent \cup {s}, s.asked = asked,
         SentInv'
  PROVE  IInv'
<1>1. Typed'
  BY IdleTyped DEF IInv, Typed, Returns
<1>2. GatesInv'
  BY DEF GatesInv, Returns
<1>3. PlansInv'
  BY PlansCosted DEF Returns
<1> QED
  BY <1>1, <1>2, <1>3 DEF IInv

\* The planning transaction.
LEMMA PlanningGated ==
  ASSUME IInv, ConnectPlanning \/ SetUpFails \/ Explain \/ TooExpensive
  PROVE  IInv'
<1>1. CASE ConnectPlanning
  <2>1. CASE Opens("planning_connection", "explain") /\ UNCHANGED held
    <3>1. /\ at = "connect" /\ at' = "explain"
          /\ UNCHANGED <<switches, asked, sql, running, plans, held, sent>>
      BY <1>1, <2>1 DEF ConnectPlanning, Opens, InCall, NoStatement
    <3>2. Typed' /\ GatesInv'
      BY <3>1 DEF IInv, Typed, GatesInv, Judged, Gated
    <3> QED
      BY <3>1, <3>2, PlansKept DEF IInv
  <2> QED
    BY <1>1, <2>1, FailureGated DEF ConnectPlanning, NoStatement
<1>2. CASE SetUpFails
  BY <1>2, FailureGated DEF SetUpFails, NoStatement
<1>3. CASE Explain
  <2>1. at = "explain" /\ role = "READER" /\ plans' = plans
    BY <1>3 DEF Explain, RoleChecked
  <2>2. Judged(sql, asked) /\ Gated(asked.sql, asked)
    BY <2>1 DEF IInv, GatesInv
  <2>3. CASE Fails(Unplannable) /\ sent' = sent \cup {Statement("EXPLAIN", sql, FALSE)}
    <3>1. PICK result : Returns(result) /\ held' = held
      BY <2>3 DEF Fails
    <3>2. switches' = switches
      BY <3>1 DEF Returns
    <3>3. SentInv'
      BY <2>1, <2>2, <2>3, <3>2, SentKept DEF Statement, Judged
    <3>4. Statement("EXPLAIN", sql, FALSE).asked = asked
      BY DEF Statement
    <3> QED
      BY <2>1, <2>3, <3>1, <3>3, <3>4, LastStatementGated
  <2>4. CASE \E cheap \in BOOLEAN :
               /\ GoesOn(IF cheap THEN "issue" ELSE "refuse")
               /\ sent' = sent \cup {Statement("EXPLAIN", sql, cheap)}
               /\ sql' = sql
    <3>1. PICK cheap \in BOOLEAN : /\ GoesOn(IF cheap THEN "issue" ELSE "refuse")
                                   /\ sent' = sent \cup {Statement("EXPLAIN", sql, cheap)}
                                   /\ sql' = sql
      BY <2>4
    <3>2. /\ at' = IF cheap THEN "issue" ELSE "refuse"
          /\ UNCHANGED <<switches, asked, running, held>>
      BY <3>1 DEF GoesOn, InCall
    <3>3. SentInv'
      BY <2>1, <2>2, <3>1, <3>2, SentKept DEF Statement, Judged
    <3>4. Typed'
      BY <2>1, <3>1, <3>2 DEF IInv, Typed, Statement
    <3>5. at' = "issue" => Costed(sql, asked)'
      <4> SUFFICES ASSUME at' = "issue" PROVE Costed(sql, asked)'
        OBVIOUS
      <4>1. cheap
        BY <3>2
      <4>2. Statement("EXPLAIN", sql, TRUE) \in sent'
        BY <3>1, <4>1
      <4> QED
        BY <3>1, <3>2, <4>2 DEF Costed, Statement
    <3>6. GatesInv'
      BY <2>2, <3>1, <3>2, <3>5 DEF GatesInv, Judged, Gated
    <3>7. PlansInv'
      BY <2>1, <3>1, <3>2, PlansCosted
    <3> QED
      BY <3>3, <3>4, <3>6, <3>7 DEF IInv
  <2> QED
    BY <1>3, <2>3, <2>4 DEF Explain
<1>4. CASE TooExpensive
  BY <1>4, FailureGated DEF TooExpensive, NoStatement
<1> QED
  BY <1>1, <1>2, <1>3, <1>4

\* A plan is issued.
LEMMA IssueGated ==
  ASSUME IInv, Issue
  PROVE  IInv'
<1> DEFINE plan == [number |-> Len(plans) + 1, sql |-> sql, asked |-> asked,
                    copied |-> FALSE]
<1>1. /\ at = "issue" /\ plans' = Append(plans, plan) /\ sent' = sent
      /\ \/ Fails(Unplannable)
         \/ /\ held' = held \cup {plan}
            /\ \E result : Returns(result)
         \/ /\ at' = "run" /\ running' = plan
            /\ UNCHANGED <<switches, held, asked, sql>>
  BY DEF Issue, InCall
<1>2. plan \in IssuedPlan
  BY PlansTyped DEF IInv, Typed, IssuedPlan
<1>3. /\ plans' \in Seq(IssuedPlan)
      /\ Len(plans') = Len(plans) + 1 /\ DOMAIN plans' = 1..(Len(plans) + 1)
      /\ \A i \in 1..Len(plans) : plans'[i] = plans[i]
      /\ plans'[Len(plans) + 1] = plan
  BY <1>1, <1>2, AppendProperties, LenProperties DEF IInv, Typed
<1>4. Judged(sql, asked) /\ Gated(asked.sql, asked) /\ Costed(sql, asked)
  BY <1>1 DEF IInv, GatesInv
<1>5. switches' = switches
  BY <1>1 DEF Fails, Returns
<1>6. \A i \in DOMAIN plans' :
        /\ Judged(plans'[i].sql, plans'[i].asked)
        /\ Gated(plans'[i].asked.sql, plans'[i].asked)
        /\ Costed(plans'[i].sql, plans'[i].asked)
  <2> SUFFICES ASSUME NEW i \in 1..(Len(plans) + 1)
               PROVE  /\ Judged(plans'[i].sql, plans'[i].asked)
                      /\ Gated(plans'[i].asked.sql, plans'[i].asked)
                      /\ Costed(plans'[i].sql, plans'[i].asked)
    BY <1>3
  <2>1. CASE i = Len(plans) + 1
    BY <1>3, <1>4, <2>1
  <2>2. CASE i # Len(plans) + 1
    <3>1. i \in 1..Len(plans) /\ i \in DOMAIN plans
      BY <2>2, PlansTyped DEF IInv
    <3> QED
      BY <1>3, <3>1 DEF IInv, PlansInv
  <2> QED
    BY <2>1, <2>2
<1>7. (\A i \in DOMAIN plans :
        /\ Judged(plans[i].sql, plans[i].asked)
        /\ Gated(plans[i].asked.sql, plans[i].asked)
        /\ Costed(plans[i].sql, plans[i].asked))'
  BY <1>1, <1>5, <1>6 DEF Judged, Gated, Costed
<1>8. SentInv'
  BY <1>1, <1>5 DEF IInv, SentInv, Gated, Costed
<1>9. CASE \E result : Returns(result)
  <2>1. held' \subseteq IssuedPlan
    BY <1>1, <1>2 DEF IInv, Typed, Fails, Issue, InCall
  <2>2. Typed' /\ GatesInv'
    BY <1>1, <1>3, <1>9, <2>1, IdleTyped DEF IInv, Typed, GatesInv, Returns
  <2>3. PlansInv'
    BY <1>7, <1>9 DEF PlansInv, Returns
  <2> QED
    BY <1>8, <2>2, <2>3 DEF IInv
<1>10. CASE at' = "run" /\ running' = plan /\ UNCHANGED <<held, asked, sql>>
  <2>1. Typed' /\ GatesInv'
    BY <1>1, <1>2, <1>3, <1>10 DEF IInv, Typed, GatesInv
  <2>2. PlansInv'
    BY <1>7, <1>10 DEF PlansInv
  <2> QED
    BY <1>8, <2>1, <2>2 DEF IInv
<1> QED
  BY <1>1, <1>9, <1>10 DEF Fails

-----------------------------------------------------------------------------
\* The execution of an issued plan.
LEMMA ExecutionGated ==
  ASSUME IInv, ConnectExecution \/ ExecutionSetUpFails \/ Query
  PROVE  IInv'
<1>1. CASE ConnectExecution
  <2>1. CASE \E result : Returns(result) /\ held' = held
    BY <1>1, <2>1, ReturnGated DEF ConnectExecution, NoStatement
  <2>2. CASE Issued(running) /\ Opens("execution_connection", "query") /\ held' = held
    <3>1. /\ at = "run" /\ at' = "query"
          /\ UNCHANGED <<switches, asked, sql, running, plans, held, sent>>
      BY <1>1, <2>2 DEF ConnectExecution, Opens, InCall, NoStatement
    <3>2. Typed' /\ GatesInv'
      BY <3>1 DEF IInv, Typed, GatesInv
    <3>3. asked' = running'.asked /\ Issued(running)'
      BY <2>2, <3>1 DEF IInv, PlansInv, Issued
    <3> QED
      BY <3>1, <3>2, <3>3, PlansKept DEF IInv
  <2> QED
    BY <1>1, <2>1, <2>2 DEF ConnectExecution, Ends
<1>2. CASE ExecutionSetUpFails
  BY <1>2, ReturnGated DEF ExecutionSetUpFails, Ends
<1>3. CASE Query
  <2>1. /\ at = "query" /\ role = "READER" /\ UNCHANGED <<plans, held>>
        /\ sent' = sent \cup {Statement("QUERY", running.sql, TRUE)}
    BY <1>3 DEF Query, RoleChecked, Ends
  <2>2. PICK result : Returns(result)
    BY <1>3 DEF Query, Ends
  <2>3. switches' = switches
    BY <2>2 DEF Returns
  <2>4. PICK i \in DOMAIN plans : plans[i] = running
    BY <2>1 DEF IInv, PlansInv, Issued
  <2>5. /\ Judged(running.sql, asked) /\ Gated(asked.sql, asked)
        /\ Costed(running.sql, asked)
    BY <2>1, <2>4 DEF IInv, PlansInv
  <2> DEFINE query == Statement("QUERY", running.sql, TRUE)
  <2>6. /\ query.how = "QUERY" /\ query.sql = running.sql /\ query.asked = asked
        /\ query.role = "READER"
    BY <2>1 DEF Statement
  <2>7. sent' = sent \cup {query}
    BY <2>1
  <2> HIDE DEF query
  <2>8. SentInv'
    BY <2>1, <2>3, <2>5, <2>6, <2>7, SentKept DEF Judged
  <2> QED
    BY <2>1, <2>2, <2>6, <2>7, <2>8, LastStatementGated
<1> QED
  BY <1>1, <1>2, <1>3

\* A lookup reads what its candidate was allowed.
LEMMA LookupGated ==
  ASSUME IInv, Lookup
  PROVE  IInv'
<1> DEFINE lookup == Statement("LOOKUP", asked.sql, TRUE)
<1>1. CASE at' = "lookup" /\ UNCHANGED <<switches, asked, sql, running, held, sent>>
  <2>1. at = "lookup" /\ plans' = plans
    BY DEF Lookup
  <2>2. Typed' /\ GatesInv'
    BY <1>1, <2>1 DEF IInv, Typed, GatesInv, Gated
  <2> QED
    BY <1>1, <2>1, <2>2, PlansKept DEF IInv
<1>2. CASE Returns([call |-> "LOOKUP"]) /\ UNCHANGED <<held, sent>>
  BY <1>2, ReturnGated DEF Lookup
<1>3. CASE /\ RoleChecked /\ Returns([call |-> "LOOKUP"]) /\ held' = held
           /\ sent' = sent \cup {lookup}
  <2>1. at = "lookup" /\ role = "READER" /\ UNCHANGED <<plans, held, switches>>
    BY <1>3 DEF Lookup, RoleChecked, Returns
  <2>2. /\ lookup.how = "LOOKUP" /\ lookup.sql = asked.sql /\ lookup.asked = asked
        /\ lookup.role = "READER"
    BY <2>1 DEF Statement
  <2>3. Gated(asked.sql, asked)
    BY <2>1 DEF IInv, GatesInv
  <2> HIDE DEF lookup
  <2>4. SentInv'
    BY <1>3, <2>1, <2>2, <2>3, SentKept
  <2> QED
    BY <1>3, <2>1, <2>2, <2>4, LastStatementGated
<1> QED
  BY <1>1, <1>2, <1>3 DEF Lookup, InCall

-----------------------------------------------------------------------------
\* Every step keeps the invariant.
LEMMA StepGated == IInv /\ [Next]_vars => IInv'
<1> SUFFICES ASSUME IInv, [Next]_vars PROVE IInv'
  OBVIOUS
<1>1. CASE Next
  BY <1>1, CallsGated, GatesGated, PlanningGated, IssueGated, ExecutionGated, LookupGated
     DEF Next, Planning
<1>2. CASE UNCHANGED vars
  <2>1. Typed' /\ GatesInv'
    BY <1>2 DEF IInv, Typed, GatesInv, Judged, Gated, Costed, vars
  <2>2. UNCHANGED <<switches, plans, sent, at, asked, running>>
    BY <1>2 DEF vars
  <2>3. PlansInv' /\ SentInv'
    BY <2>2, PlansKept DEF IInv, PlansInv, Issued
  <2> QED
    BY <2>1, <2>3 DEF IInv
<1> QED
  BY <1>1, <1>2

\* What the gates found of the SQL at hand, of every plan issued and of every statement
\* sent stays so for as long as the service runs (service.py).
THEOREM Inductive == Spec => []IInv
BY InitGated, StepGated, PTL DEF Spec

\* For any relations, any SQL and any callers, the database is sent only statements that
\* passed the policy, read what their candidate was allowed, count no row twice where
\* that is checked, and run as the reader (service.py, authority.py, reader.py).
THEOREM OnlyGated == Spec => []OnlyGatedStatements
<1>1. IInv => OnlyGatedStatements
  BY DEF IInv, SentInv, Gated, OnlyGatedStatements
<1> QED
  BY <1>1, Inductive, PTL

\* For any number of plans issued and held, a query that runs is one whose cost was
\* estimated, for the same candidate, and found within limits (service.py, _execute).
THEOREM CostedFirst == Spec => []RunAsExplained
<1>1. IInv => RunAsExplained
  BY DEF IInv, SentInv, Costed, RunAsExplained
<1> QED
  BY <1>1, Inductive, PTL

-----------------------------------------------------------------------------
(***************************************************************************)
(* The promises of the service.                                            *)
(***************************************************************************)
Traces == [Stages -> StageResult]

\* The gates behind a step of planning.
GatesBehind == [parse |-> 0, policy |-> 1, authority |-> 2, grain |-> 3, values |-> 4,
                ordering |-> 5, connect |-> 6, explain |-> 7, refuse |-> 8, issue |-> 8]

PlanningSteps == DOMAIN GatesBehind

\* The trace t once the first k gates have passed.
Passed(t, k) ==
  [name \in Stages |-> IF \E i \in 1..k : Gates[i] = name
                       THEN [status |-> "PASS", reason |-> "NONE"] ELSE t[name]]

\* Each step belongs to a call, and only a probe is served without a recorder.
ServedInv ==
  /\ recording = (call # "explore")
  /\ at = "idle" <=> call = "none"
  /\ at \in PlanningSteps => call \in {"plan", "explore"}
  /\ at \in {"run", "query"} => call \in {"execute", "explore"}
  /\ at = "lookup" => call = "lookup"
  /\ at \in PlanningSteps \cup {"idle", "run", "query", "lookup"}

\* What the call has left in the trace since it began.
TraceInv ==
  /\ trace \in Traces /\ before \in Traces
  /\ call \in {"explore", "lookup"} => trace = before
  /\ call = "plan" => Shown(trace) = Passed(Shown(before), GatesBehind[at])
  /\ at = "run" => trace = before
  /\ at = "query" /\ call = "execute" =>
       Shown(trace) = RecordStage(Shown(before), "execution_connection", "PASS", "NONE")

SInv == ServedInv /\ TraceInv

-----------------------------------------------------------------------------
(***************************************************************************)
(* The gates and the traces they leave.                                    *)
(***************************************************************************)
LEMMA GateNames ==
  /\ DOMAIN Gates = 1..9
  /\ Gates[1] = "sql_parse" /\ Gates[2] = "global_policy"
  /\ Gates[3] = "execution_authority" /\ Gates[4] = "grain_safety"
  /\ Gates[5] = "value_check" /\ Gates[6] = "null_ordering"
  /\ Gates[7] = "planning_connection" /\ Gates[8] = "explain" /\ Gates[9] = "cost_gate"
  /\ \A k \in 1..9 : Gates[k] \in Stages
  /\ \A i, k \in 1..9 : Gates[i] = Gates[k] => i = k
BY DEF Gates, Stages, RuntimeStages, PlanStages, ExecutionStages

LEMMA GateSteps ==
  /\ PlanningSteps = {"parse", "policy", "authority", "grain", "values", "ordering",
                      "connect", "explain", "refuse", "issue"}
  /\ GatesBehind["parse"] = 0 /\ GatesBehind["policy"] = 1
  /\ GatesBehind["authority"] = 2 /\ GatesBehind["grain"] = 3
  /\ GatesBehind["values"] = 4 /\ GatesBehind["ordering"] = 5
  /\ GatesBehind["connect"] = 6 /\ GatesBehind["explain"] = 7
  /\ GatesBehind["refuse"] = 8 /\ GatesBehind["issue"] = 8
BY DEF PlanningSteps, GatesBehind

\* The stages of a plan whose last gate is the k-th.
LEMMA StagesOfPlan ==
  ASSUME NEW t, NEW p, NEW k \in 1..9, p.gate = Gates[k]
  PROVE  RecordPlan(t, p) =
           [name \in Stages |->
              IF name = Gates[k] THEN [status |-> p.verdict, reason |-> "NONE"]
              ELSE IF \E i \in 1..(k - 1) : Gates[i] = name
                   THEN [status |-> "PASS", reason |-> "NONE"] ELSE t[name]]
<1>1. (CHOOSE i \in DOMAIN Gates : Gates[i] = p.gate) = k
  BY GateNames
<1> QED
  BY <1>1 DEF RecordPlan

LEMMA ShownStage ==
  ASSUME NEW t \in Traces, NEW name \in Stages, NEW status \in StageStatus,
         NEW reason \in StageReason
  PROVE  /\ RecordStage(t, name, status, reason) \in Traces
         /\ status # "SKIPPED" =>
              Shown(RecordStage(t, name, status, reason)) =
                RecordStage(Shown(t), name, status, reason)
         /\ status = "SKIPPED" =>
              Shown(RecordStage(t, name, status, reason)) =
                RecordStage(Shown(t), name, "PASS", "NONE")
<1>1. [status |-> status, reason |-> reason] \in StageResult
  BY DEF StageResult
<1> QED
  BY <1>1 DEF Traces, RecordStage, Shown

\* The next gate passes, or is switched off.
LEMMA OneMorePassed ==
  ASSUME NEW t, NEW k \in 0..8
  PROVE  RecordStage(Passed(t, k), Gates[k + 1], "PASS", "NONE") = Passed(t, k + 1)
<1>1. \A name : (\E i \in 1..(k + 1) : Gates[i] = name)
                  <=> name = Gates[k + 1] \/ \E i \in 1..k : Gates[i] = name
  OBVIOUS
<1> QED
  BY <1>1, GateNames DEF RecordStage, Passed

\* The next gate is the one the plan failed at.
LEMMA LastRejected ==
  ASSUME NEW t, NEW k \in 0..8, NEW p, p.gate = Gates[k + 1]
  PROVE  RecordStage(Passed(t, k), Gates[k + 1], p.verdict, "NONE") = RecordPlan(t, p)
<1>1. k + 1 \in 1..9 /\ (k + 1) - 1 = k
  OBVIOUS
<1>2. Gates[k + 1] \in Stages
  BY <1>1, GateNames
<1>3. RecordPlan(t, p) =
        [name \in Stages |->
           IF name = Gates[k + 1] THEN [status |-> p.verdict, reason |-> "NONE"]
           ELSE IF \E i \in 1..k : Gates[i] = name
                THEN [status |-> "PASS", reason |-> "NONE"] ELSE t[name]]
  BY <1>1, StagesOfPlan
<1> QED
  BY <1>2, <1>3 DEF RecordStage, Passed

\* The plan failed, or was issued, after the last gate it had passed.
LEMMA LastPassed ==
  ASSUME NEW t, NEW k \in 1..9, NEW p, p.gate = Gates[k], p.verdict = "PASS"
  PROVE  Passed(t, k) = RecordPlan(t, p)
<1>1. RecordPlan(t, p) =
        [name \in Stages |->
           IF name = Gates[k] THEN [status |-> "PASS", reason |-> "NONE"]
           ELSE IF \E i \in 1..(k - 1) : Gates[i] = name
                THEN [status |-> "PASS", reason |-> "NONE"] ELSE t[name]]
  BY StagesOfPlan
<1>2. \A name : (\E i \in 1..k : Gates[i] = name)
                  <=> name = Gates[k] \/ \E i \in 1..(k - 1) : Gates[i] = name
  OBVIOUS
<1> QED
  BY <1>1, <1>2 DEF Passed

\* What QueryService calls a result and its stages is what SqlGates does.
LEMMA SameGates ==
  /\ Service!PlanResults = PlanResults
  /\ Service!ExecutionResults = ExecutionResults
  /\ Service!Gates = Gates
  /\ Service!Stages = Stages
  /\ \A t, p : Service!RecordPlan(t, p) = RecordPlan(t, p)
  /\ \A t, result : Service!RecordExecution(t, result) = RecordExecution(t, result)
  /\ Service!EmptyTrace = EmptyTrace
<1>1. Service!Gates = Gates
  BY DEF Service!Gates, Gates
<1>2. Service!Stages = Stages
  BY DEF Service!Stages, Stages, Service!RuntimeStages, RuntimeStages, Service!PlanStages,
     PlanStages, Service!ExecutionStages, ExecutionStages
<1>3. Service!PlanResults = PlanResults
  BY DEF Service!PlanResults, PlanResults, Service!PlanFailures, PlanFailures,
     Service!Failure, Failure, Service!Accepted, Accepted
<1>4. Service!ExecutionResults = ExecutionResults /\ Service!QueryResults = QueryResults
  BY DEF Service!ExecutionResults, ExecutionResults, Service!QueryResults, QueryResults,
     Service!ExecutionErrors, ExecutionErrors, Service!FixableErrors, FixableErrors,
     Service!OtherErrors, OtherErrors
<1>5. \A t, name, status, reason : Service!RecordStage(t, name, status, reason)
                                      = RecordStage(t, name, status, reason)
  BY DEF Service!RecordStage, RecordStage
<1>6. \A t, p : Service!RecordPlan(t, p) = RecordPlan(t, p)
  BY <1>1, <1>2 DEF Service!RecordPlan, RecordPlan
<1>7. \A t, result : Service!RecordExecution(t, result) = RecordExecution(t, result)
  BY <1>4, <1>5 DEF Service!RecordExecution, RecordExecution
<1>8. Service!EmptyTrace = EmptyTrace
  BY <1>2 DEF Service!EmptyTrace, EmptyTrace, Service!Unrecorded, Unrecorded
<1> QED
  BY <1>1, <1>2, <1>3, <1>4, <1>6, <1>7, <1>8

-----------------------------------------------------------------------------
(***************************************************************************)
(* The trace the decision service sees: that before the call, until the    *)
(* call returns.                                                           *)
(***************************************************************************)
Now == Shown(IF at = "idle" THEN trace ELSE before)

LEMMA ReturnServed ==
  ASSUME SInv, NEW result, Returns(result), trace' \in Traces, at # "idle"
  PROVE  SInv' /\ Now = Shown(before) /\ Now' = Shown(trace')
BY GateSteps DEF SInv, ServedInv, TraceInv, Returns, Restored, Now

\* A probe leaves no mark.
LEMMA ProbeAside ==
  ASSUME SInv, NEW result, Returns(result), call = "explore", trace' = trace, at # "idle"
  PROVE  SInv' /\ Service!QNext
<1>1. SInv' /\ Now = Shown(before) /\ Now' = Shown(trace')
  BY ReturnServed DEF SInv, TraceInv
<1>2. Now' = Now
  BY <1>1 DEF SInv, TraceInv
<1>3. answer' \in [call : {"PROBE", "LOOKUP"}]
  BY DEF Returns
<1> QED
  BY <1>1, <1>2, <1>3 DEF Service!QNext, Service!Aside, Now

\* A plan that fails, or is issued, with exactly its stages.
LEMMA PlanServed ==
  ASSUME SInv, NEW p \in PlanResults, Returns(Service!Planned(p)),
         at \in PlanningSteps,
         trace' \in Traces,
         call = "explore" => trace' = trace,
         call = "plan" => Shown(trace') = RecordPlan(Shown(before), p)
  PROVE  SInv' /\ Service!QNext
<1>1. at # "idle" /\ call \in {"plan", "explore"}
  BY GateSteps DEF SInv, ServedInv
<1>2. CASE call = "explore"
  BY <1>1, <1>2, ProbeAside
<1>3. CASE call = "plan"
  <2>1. SInv' /\ Now = Shown(before) /\ Now' = Shown(trace')
    BY <1>1, ReturnServed
  <2>2. answer' = Service!Planned(p)
    BY <1>3 DEF Returns
  <2>3. p \in Service!PlanResults /\ Now' = Service!RecordPlan(Now, p)
    BY <1>3, <2>1, SameGates
  <2> QED
    BY <2>1, <2>2, <2>3 DEF Service!QNext, Service!Plan, Now
<1> QED
  BY <1>1, <1>2, <1>3

\* The outcomes of failures, and whether the model is told of them.
LEMMA FailureOutcomes ==
  /\ RuntimeFromPlan(PlanFailure("SQL_PARSE_ERROR", "NONE")) = "RUNTIME_REJECTED"
  /\ RepairFeedback(PlanFailure("SQL_PARSE_ERROR", "NONE")) = TRUE
  /\ RuntimeFromPlan(PlanFailure("AUTHORITY_REJECTION", "NONE")) = "AUTHORITY_REJECTED"
  /\ RepairFeedback(PlanFailure("AUTHORITY_REJECTION", "NONE")) = FALSE
  /\ RuntimeFromPlan(PlanFailure("QUERY_COST_REJECTION", "NONE")) = "RUNTIME_REJECTED"
  /\ RepairFeedback(PlanFailure("QUERY_COST_REJECTION", "NONE")) = TRUE
  /\ RuntimeFromPlan(PlanFailure("EXECUTION_ERROR", "NONE")) = "RUNTIME_REJECTED"
  /\ RepairFeedback(PlanFailure("EXECUTION_ERROR", "NONE")) = FALSE
  /\ \A rejection :
       /\ RuntimeFromPlan(PlanFailure("SEMANTIC_REJECTION", rejection)) = "RUNTIME_REJECTED"
       /\ RepairFeedback(PlanFailure("SEMANTIC_REJECTION", rejection)) = TRUE
       /\ RuntimeFromPlan(PlanFailure("POLICY_REJECTION", rejection)) = "POLICY_REJECTED"
       /\ RepairFeedback(PlanFailure("POLICY_REJECTION", rejection)) \in BOOLEAN
BY DEF RuntimeFromPlan, RepairFeedback, PlanFailure

\* A failure is known by its outcome, its feedback and the last gate's stage.
LEMMA KnownFailures ==
  /\ Failure("RUNTIME_REJECTED", TRUE, "sql_parse", "FAILED") \in PlanFailures
  /\ Failure("AUTHORITY_REJECTED", FALSE, "execution_authority", "REJECTED") \in PlanFailures
  /\ Failure("RUNTIME_REJECTED", TRUE, "grain_safety", "REJECTED") \in PlanFailures
  /\ Failure("RUNTIME_REJECTED", FALSE, "planning_connection", "FAILED") \in PlanFailures
  /\ Failure("RUNTIME_REJECTED", FALSE, "explain", "FAILED") \in PlanFailures
  /\ Failure("RUNTIME_REJECTED", TRUE, "cost_gate", "REJECTED") \in PlanFailures
  /\ Failure("RUNTIME_REJECTED", TRUE, "grain_safety", "PASS") \in PlanFailures
  /\ Failure("AUTHORITY_REJECTED", FALSE, "grain_safety", "PASS") \in PlanFailures
  /\ Failure("RUNTIME_REJECTED", FALSE, "planning_connection", "PASS") \in PlanFailures
  /\ Failure("RUNTIME_REJECTED", FALSE, "cost_gate", "PASS") \in PlanFailures
  /\ Failure("RUNTIME_REJECTED", FALSE, "cost_gate", "REJECTED") \in PlanFailures
  /\ \A fixable \in BOOLEAN :
       Failure("POLICY_REJECTED", fixable, "global_policy", "REJECTED") \in PlanFailures
BY DEF PlanFailures

\* The failure a gate returns is one the decision service knows.
LEMMA FailureServed ==
  ASSUME SInv, NEW f, NEW gate, NEW verdict, Fails(f), at \in PlanningSteps,
         Failure(RuntimeFromPlan(f), RepairFeedback(f), gate, verdict) \in PlanFailures,
         trace' \in Traces,
         call = "explore" => trace' = trace,
         call = "plan" =>
           Shown(trace') = RecordPlan(Shown(before), Failure(RuntimeFromPlan(f),
                                                             RepairFeedback(f),
                                                             gate, verdict))
  PROVE  SInv' /\ Service!QNext
<1> DEFINE p == Failure(RuntimeFromPlan(f), RepairFeedback(f), gate, verdict)
<1>1. Service!Planned(p) = [call |-> "PLAN", accepted |-> FALSE,
                            outcome |-> RuntimeFromPlan(f), fixable |-> RepairFeedback(f)]
  BY DEF Service!Planned, Failure
<1>2. p \in PlanResults
  BY DEF PlanResults
<1>3. Returns(Service!Planned(p))
  BY <1>1 DEF Fails
<1> HIDE DEF p
<1>4. call = "plan" => Shown(trace') = RecordPlan(Shown(before), p)
  BY DEF p
<1> QED
  BY <1>2, <1>3, <1>4, PlanServed

\* A gate rejects: its stage is the last.
LEMMA RejectionServed ==
  ASSUME SInv, NEW f, NEW k \in 0..8, NEW verdict \in StageStatus \ {"SKIPPED"}, Fails(f),
         at \in PlanningSteps, GatesBehind[at] = k,
         Failure(RuntimeFromPlan(f), RepairFeedback(f), Gates[k + 1], verdict)
           \in PlanFailures,
         trace' = Recording(Gates[k + 1], verdict)
  PROVE  SInv' /\ Service!QNext
<1> DEFINE p == Failure(RuntimeFromPlan(f), RepairFeedback(f), Gates[k + 1], verdict)
<1>1. p.gate = Gates[k + 1] /\ p.verdict = verdict
  BY DEF Failure
<1>2. Gates[k + 1] \in Stages /\ "NONE" \in StageReason /\ trace \in Traces
  BY GateNames DEF StageReason, SInv, TraceInv
<1>3. recording => trace' = RecordStage(trace, Gates[k + 1], verdict, "NONE")
  BY DEF Recording, RecordingIn
<1>4. ~recording => trace' = trace
  BY DEF Recording, RecordingIn
<1>5. trace' \in Traces
  BY <1>2, <1>3, <1>4, ShownStage
<1>6. ASSUME call = "plan" PROVE Shown(trace') = RecordPlan(Shown(before), p)
  <2>1. recording /\ Shown(trace) = Passed(Shown(before), k)
    BY <1>6 DEF SInv, ServedInv, TraceInv
  <2>2. Shown(trace') = RecordStage(Shown(trace), Gates[k + 1], verdict, "NONE")
    BY <1>2, <1>3, <2>1, ShownStage
  <2> HIDE DEF p
  <2> QED
    BY <1>1, <2>1, <2>2, LastRejected
<1>7. call = "explore" => trace' = trace
  BY <1>4 DEF SInv, ServedInv
<1> QED
  BY <1>5, <1>6, <1>7, FailureServed

\* The call fails after a gate that had passed: no stage says so.
LEMMA SilenceServed ==
  ASSUME SInv, NEW f, Fails(f), at \in PlanningSteps, GatesBehind[at] # 0,
         Failure(RuntimeFromPlan(f), RepairFeedback(f), Gates[GatesBehind[at]], "PASS")
           \in PlanFailures,
         trace' = trace
  PROVE  SInv' /\ Service!QNext
<1> DEFINE p == Failure(RuntimeFromPlan(f), RepairFeedback(f), Gates[GatesBehind[at]], "PASS")
<1>1. p.gate = Gates[GatesBehind[at]] /\ p.verdict = "PASS" /\ GatesBehind[at] \in 1..9
  BY GateSteps DEF Failure
<1>2. call = "plan" => Shown(trace') = Passed(Shown(before), GatesBehind[at])
  BY DEF SInv, TraceInv
<1> HIDE DEF p
<1>3. call = "plan" => Shown(trace') = RecordPlan(Shown(before), p)
  BY <1>1, <1>2, LastPassed
<1> QED
  BY <1>3, FailureServed DEF p, SInv, TraceInv

\* A gate passes and the next is reached: nothing is seen of it yet.
LEMMA PassServed ==
  ASSUME SInv, NEW step, NEW k \in 0..8, NEW status \in {"PASS", "SKIPPED"},
         at' = step, InCall, UNCHANGED <<recording, answer>>,
         at \in PlanningSteps, GatesBehind[at] = k,
         step \in PlanningSteps, GatesBehind[step] = k + 1,
         trace' = Recording(Gates[k + 1], status)
  PROVE  SInv' /\ UNCHANGED <<Now, answer>>
<1>1. Gates[k + 1] \in Stages /\ "NONE" \in StageReason /\ trace \in Traces
      /\ status \in StageStatus
  BY GateNames DEF StageReason, StageStatus, SInv, TraceInv
<1>2. recording => trace' = RecordStage(trace, Gates[k + 1], status, "NONE")
  BY DEF Recording, RecordingIn
<1>3. ~recording => trace' = trace
  BY DEF Recording, RecordingIn
<1>4. trace' \in Traces
  BY <1>1, <1>2, <1>3, ShownStage
<1>5. ASSUME call = "plan" PROVE Shown(trace') = Passed(Shown(before), k + 1)
  <2>1. recording /\ Shown(trace) = Passed(Shown(before), k)
    BY <1>5 DEF SInv, ServedInv, TraceInv
  <2>2. Shown(trace') = RecordStage(Shown(trace), Gates[k + 1], "PASS", "NONE")
    BY <1>1, <1>2, <2>1, ShownStage
  <2> QED
    BY <2>1, <2>2, OneMorePassed
<1>6. ServedInv'
  BY GateSteps DEF SInv, ServedInv, InCall
<1>7. TraceInv'
  BY <1>3, <1>4, <1>5, GateSteps DEF SInv, ServedInv, TraceInv, InCall
<1>8. UNCHANGED Now
  BY GateSteps DEF Now, InCall
<1> QED
  BY <1>6, <1>7, <1>8 DEF SInv

-----------------------------------------------------------------------------
(***************************************************************************)
(* The steps, one by one.                                                  *)
(***************************************************************************)
Kept == SInv' /\ (Service!QNext \/ UNCHANGED <<Now, answer>>)

LEMMA TakeServed ==
  ASSUME SInv, PlanCall \/ Explore \/ Execute \/ ProbeValues
  PROVE  Kept
<1> DEFINE Begun(name, step) ==
             /\ Begin(name, step)
             /\ UNCHANGED <<trace, answer>>
             /\ recording' = (recording /\ name # "explore")
<1>1. /\ PlanCall => Begun("plan", "parse")
      /\ Explore => Begun("explore", "parse")
  BY DEF PlanCall, Explore, Take, Muted
<1>2. /\ Execute => Begun("execute", "run")
      /\ ProbeValues => Begun("lookup", "lookup")
  BY DEF Execute, ProbeValues, SInv, ServedInv, Begin
<1>3. PICK name \in {"plan", "explore", "execute", "lookup"},
           step \in {"parse", "run", "lookup"} :
        /\ (step = "parse") = (name \in {"plan", "explore"})
        /\ (step = "run") = (name = "execute")
        /\ Begun(name, step)
  <2>1. CASE PlanCall
    BY <1>1, <2>1
  <2>2. CASE Explore
    BY <1>1, <2>2
  <2>3. CASE Execute
    BY <1>2, <2>3
  <2>4. CASE ProbeValues
    BY <1>2, <2>4
  <2> QED
    BY <2>1, <2>2, <2>3, <2>4
<1>4. /\ at = "idle" /\ recording /\ trace \in Traces
      /\ call' = name /\ before' = trace /\ at' \in {"parse", "run", "lookup"}
      /\ (at' = "parse") = (name \in {"plan", "explore"})
      /\ (at' = "run") = (name = "execute")
      /\ recording' = (name # "explore")
  BY <1>3 DEF Begin, SInv, ServedInv, TraceInv
<1>5. \A t : Passed(Shown(t), 0) = Shown(t)
  BY DEF Passed, Shown
<1>6. ServedInv'
  BY <1>4, GateSteps DEF ServedInv
<1>7. TraceInv'
  BY <1>3, <1>4, <1>5, GateSteps DEF TraceInv
<1>8. UNCHANGED <<Now, answer>>
  BY <1>3, <1>4 DEF Now
<1> QED
  BY <1>6, <1>7, <1>8 DEF Kept, SInv

LEMMA ParseServed ==
  ASSUME SInv, Parse
  PROVE  Kept
<1>1. at = "parse"
  BY DEF Parse
<1>2. CASE GoesOn("policy") /\ trace' = Recording("sql_parse", "PASS")
  BY <1>1, <1>2, GateSteps, GateNames, PassServed DEF GoesOn, Kept
<1>3. CASE /\ Fails(PlanFailure("SQL_PARSE_ERROR", "NONE"))
           /\ trace' = Recording("sql_parse", "FAILED")
  <2> DEFINE f == PlanFailure("SQL_PARSE_ERROR", "NONE")
  <2>1. Failure(RuntimeFromPlan(f), RepairFeedback(f), "sql_parse", "FAILED")
          \in PlanFailures
    BY Zenon, FailureOutcomes, KnownFailures
  <2> HIDE DEF f
  <2>2. Fails(f) /\ "FAILED" \in StageStatus \ {"SKIPPED"}
    BY <1>3 DEF f, StageStatus
  <2> QED
    BY <1>1, <1>3, <2>1, <2>2, GateSteps, GateNames, RejectionServed DEF Kept
<1> QED
  BY <1>2, <1>3 DEF Parse

LEMMA PolicyServed ==
  ASSUME SInv, Policy
  PROVE  Kept
<1>1. at = "policy"
  BY DEF Policy
<1>2. CASE GoesOn("authority") /\ trace' = Recording("global_policy", "PASS")
  BY <1>1, <1>2, GateSteps, GateNames, PassServed DEF GoesOn, Kept
<1>3. CASE /\ Fails(PlanFailure("POLICY_REJECTION", sql.policy))
           /\ trace' = Recording("global_policy", "REJECTED")
  <2> DEFINE f == PlanFailure("POLICY_REJECTION", sql.policy)
  <2>1. Failure(RuntimeFromPlan(f), RepairFeedback(f), "global_policy", "REJECTED")
          \in PlanFailures
    BY Zenon, FailureOutcomes, KnownFailures
  <2> HIDE DEF f
  <2>2. Fails(f) /\ "REJECTED" \in StageStatus \ {"SKIPPED"}
    BY <1>3 DEF f, StageStatus
  <2> QED
    BY <1>1, <1>3, <2>1, <2>2, GateSteps, GateNames, RejectionServed DEF Kept
<1> QED
  BY <1>2, <1>3 DEF Policy

LEMMA AuthorityServed ==
  ASSUME SInv, Authority
  PROVE  Kept
<1>1. at = "authority"
  BY DEF Authority
<1>2. ASSUME NEW status \in {"PASS", "SKIPPED"}, GoesOn("grain"),
             trace' = Recording("execution_authority", status)
      PROVE  Kept
  BY <1>1, <1>2, GateSteps, GateNames, PassServed DEF GoesOn, Kept
<1>3. CASE /\ Fails(PlanFailure("AUTHORITY_REJECTION", "NONE"))
           /\ trace' = Recording("execution_authority", "REJECTED")
  <2> DEFINE f == PlanFailure("AUTHORITY_REJECTION", "NONE")
  <2>1. Failure(RuntimeFromPlan(f), RepairFeedback(f), "execution_authority", "REJECTED")
          \in PlanFailures
    BY Zenon, FailureOutcomes, KnownFailures
  <2> HIDE DEF f
  <2>2. Fails(f) /\ "REJECTED" \in StageStatus \ {"SKIPPED"}
    BY <1>3 DEF f, StageStatus
  <2> QED
    BY <1>1, <1>3, <2>1, <2>2, GateSteps, GateNames, RejectionServed DEF Kept
<1> QED
  BY <1>2, <1>3 DEF Authority

LEMMA GrainServed ==
  ASSUME SInv, Grain
  PROVE  Kept
<1>1. at = "grain" /\ GatesBehind[at] = 3 /\ Gates[3 + 1] = "grain_safety"
  BY GateSteps, GateNames DEF Grain
<1>2. ASSUME NEW status \in {"PASS", "SKIPPED"}, GoesOn("values"),
             trace' = Recording("grain_safety", status)
      PROVE  Kept
  BY <1>1, <1>2, GateSteps, GateNames, PassServed DEF GoesOn, Kept
<1>3. ASSUME NEW f, Fails(f), NEW verdict \in {"PASS", "REJECTED"},
             trace' = Recording("grain_safety", verdict),
             Failure(RuntimeFromPlan(f), RepairFeedback(f), "grain_safety", verdict)
               \in PlanFailures
      PROVE  Kept
  <2>1. verdict \in StageStatus \ {"SKIPPED"}
    BY DEF StageStatus
  <2> QED
    BY <1>1, <1>3, <2>1, GateSteps, RejectionServed DEF Kept
<1>4. \A rejection, verdict :
        verdict \in {"PASS", "REJECTED"} =>
          Failure(RuntimeFromPlan(PlanFailure("SEMANTIC_REJECTION", rejection)),
                  RepairFeedback(PlanFailure("SEMANTIC_REJECTION", rejection)),
                  "grain_safety", verdict) \in PlanFailures
  BY Zenon, FailureOutcomes, KnownFailures
<1>5. Failure(RuntimeFromPlan(PlanFailure("AUTHORITY_REJECTION", "NONE")),
              RepairFeedback(PlanFailure("AUTHORITY_REJECTION", "NONE")),
              "grain_safety", "PASS") \in PlanFailures
  BY Zenon, FailureOutcomes, KnownFailures
<1>6. \/ \E status \in {"PASS", "SKIPPED"} :
           GoesOn("values") /\ trace' = Recording("grain_safety", status)
      \/ \E rejection : \E verdict \in {"PASS", "REJECTED"} :
           /\ Fails(PlanFailure("SEMANTIC_REJECTION", rejection))
           /\ trace' = Recording("grain_safety", verdict)
      \/ /\ Fails(PlanFailure("AUTHORITY_REJECTION", "NONE"))
         /\ trace' = Recording("grain_safety", "PASS")
  BY DEF Grain
<1> QED
  BY <1>2, <1>3, <1>4, <1>5, <1>6

LEMMA RewritingServed ==
  ASSUME SInv, Values \/ Ordering
  PROVE  Kept
<1>1. CASE Values
  <2>1. PICK status \in {"PASS", "SKIPPED"} : trace' = Recording("value_check", status)
    BY <1>1 DEF Values
  <2> QED
    BY <1>1, <2>1, GateSteps, GateNames, PassServed DEF Values, GoesOn, Kept
<1>2. CASE Ordering
  BY <1>2, GateSteps, GateNames, PassServed DEF Ordering, GoesOn, Kept
<1> QED
  BY <1>1, <1>2

\* A gate that fails as it should not leaves the gates before it.
LEMMA GateRaisesServed ==
  ASSUME SInv, GateRaises
  PROVE  Kept
<1>1. /\ at \in PlanningSteps /\ at # "idle" /\ trace' = trace
      /\ Returns([call |-> "RAISED"]) /\ GatesBehind[at] \in 0..9
      /\ call \in {"plan", "explore"}
  BY GateSteps DEF GateRaises, SInv, ServedInv
<1>2. CASE call = "explore"
  BY <1>1, <1>2, ProbeAside DEF Kept
<1>3. CASE call = "plan"
  <2>1. SInv' /\ Now = Shown(before) /\ Now' = Shown(trace')
    BY <1>1, ReturnServed DEF SInv, TraceInv
  <2>2. answer' = [call |-> "RAISED"]
    BY <1>1, <1>3 DEF Returns
  <2>3. Now' = Passed(Now, GatesBehind[at])
    BY <1>1, <1>3, <2>1 DEF SInv, TraceInv
  <2>4. Len(Service!Gates) = 9
    BY DEF Service!Gates
  <2>5. Now' = [name \in Service!Stages |->
                  IF \E i \in 1..GatesBehind[at] : Service!Gates[i] = name
                  THEN [status |-> "PASS", reason |-> "NONE"] ELSE Now[name]]
    BY <2>3, SameGates DEF Passed
  <2>6. GatesBehind[at] \in 0..Len(Service!Gates)
    BY <1>1, <2>4
  <2>7. Service!Break
    BY <2>2, <2>5, <2>6, Zenon DEF Service!Break, Now
  <2> QED
    BY <2>1, <2>7 DEF Service!QNext, Kept
<1> QED
  BY <1>1, <1>2, <1>3

-----------------------------------------------------------------------------
\* A failure in the planning transaction is one the model is not told of.
LEMMA UnplannableServed ==
  \A gate, verdict :
    Failure("RUNTIME_REJECTED", FALSE, gate, verdict) \in PlanFailures =>
      Failure(RuntimeFromPlan(Unplannable), RepairFeedback(Unplannable), gate, verdict)
        \in PlanFailures
<1>1. Unplannable = PlanFailure("EXECUTION_ERROR", "NONE")
  BY DEF Unplannable
<1> QED
  BY <1>1, Zenon, FailureOutcomes

\* The gates it may fail at.
LEMMA UnplannableKnown ==
  /\ Failure(RuntimeFromPlan(Unplannable), RepairFeedback(Unplannable),
             "planning_connection", "FAILED") \in PlanFailures
  /\ Failure(RuntimeFromPlan(Unplannable), RepairFeedback(Unplannable),
             "planning_connection", "PASS") \in PlanFailures
  /\ Failure(RuntimeFromPlan(Unplannable), RepairFeedback(Unplannable),
             "explain", "FAILED") \in PlanFailures
  /\ Failure(RuntimeFromPlan(Unplannable), RepairFeedback(Unplannable),
             "cost_gate", "PASS") \in PlanFailures
BY Zenon, UnplannableServed, KnownFailures

LEMMA PlanningServed ==
  ASSUME SInv, ConnectPlanning \/ SetUpFails \/ Explain \/ TooExpensive
  PROVE  Kept
<1>1. "FAILED" \in StageStatus \ {"SKIPPED"} /\ "REJECTED" \in StageStatus \ {"SKIPPED"}
  BY DEF StageStatus
<1>2. CASE ConnectPlanning
  <2>1. at = "connect"
    BY <1>2 DEF ConnectPlanning
  <2>2. CASE Opens("planning_connection", "explain")
    BY <2>1, <2>2, GateSteps, GateNames, PassServed DEF Opens, Kept
  <2>3. CASE Fails(Unplannable) /\ trace' = Recording("planning_connection", "FAILED")
    BY <1>1, <2>1, <2>3, GateSteps, GateNames, UnplannableKnown, RejectionServed DEF Kept
  <2> QED
    BY <1>2, <2>2, <2>3 DEF ConnectPlanning
<1>3. CASE SetUpFails
  BY <1>3, GateSteps, GateNames, UnplannableKnown, SilenceServed
     DEF SetUpFails, Kept
<1>4. CASE Explain
  <2>1. at = "explain"
    BY <1>4 DEF Explain
  <2>2. CASE Fails(Unplannable) /\ trace' = Recording("explain", "FAILED")
    BY <1>1, <2>1, <2>2, GateSteps, GateNames, UnplannableKnown, RejectionServed DEF Kept
  <2>3. CASE /\ \E cheap \in BOOLEAN : GoesOn(IF cheap THEN "issue" ELSE "refuse")
             /\ trace' = Recording("explain", "PASS")
    <3>1. PICK step \in {"issue", "refuse"} : GoesOn(step)
      BY <2>3
    <3> QED
      BY <2>1, <2>3, <3>1, GateSteps, GateNames, PassServed DEF GoesOn, Kept
  <2> QED
    BY <1>4, <2>2, <2>3 DEF Explain
<1>5. CASE TooExpensive
  <2>1. at = "refuse" /\ trace' = Recording("cost_gate", "REJECTED")
    BY <1>5 DEF TooExpensive
  <2>2. PICK status \in {"QUERY_COST_REJECTION", "EXECUTION_ERROR"} :
          Fails(PlanFailure(status, "NONE"))
    BY <1>5 DEF TooExpensive
  <2> DEFINE f == PlanFailure(status, "NONE")
  <2>3. Failure(RuntimeFromPlan(f), RepairFeedback(f), "cost_gate", "REJECTED")
          \in PlanFailures
    BY Zenon, FailureOutcomes, KnownFailures
  <2> HIDE DEF f
  <2>4. Fails(f)
    BY <2>2 DEF f
  <2> QED
    BY <1>1, <2>1, <2>3, <2>4, GateSteps, GateNames, RejectionServed DEF Kept
<1> QED
  BY <1>2, <1>3, <1>4, <1>5

\* An issued plan is accepted with every gate passed, or run as a probe.
LEMMA IssueServed ==
  ASSUME SInv, Issue
  PROVE  Kept
<1>1. at = "issue" /\ trace' = Recording("cost_gate", "PASS") /\ call \in {"plan", "explore"}
  BY GateSteps DEF Issue, SInv, ServedInv
<1>2. CASE Fails(Unplannable)
  <2>1. "PASS" \in StageStatus \ {"SKIPPED"}
    BY DEF StageStatus
  <2> QED
    BY <1>1, <1>2, <2>1, GateSteps, GateNames, UnplannableKnown, RejectionServed DEF Kept
<1>3. ASSUME call = "plan", NEW blind \in BOOLEAN,
             Returns([call |-> "PLAN", accepted |-> TRUE, outcome |-> "PLANNED",
                      fixable |-> blind])
      PROVE  Kept
  <2> DEFINE p == Accepted(blind)
  <2>1. /\ p.gate = Gates[8 + 1] /\ p.verdict = "PASS" /\ p \in PlanResults
        /\ Service!Planned(p) = [call |-> "PLAN", accepted |-> TRUE, outcome |-> "PLANNED",
                                 fixable |-> blind]
    <3>1. p \in PlanResults
      BY DEF PlanResults
    <3>2. p.gate = Gates[8 + 1] /\ p.verdict = "PASS"
      BY GateNames DEF Accepted
    <3>3. p.accepted = TRUE /\ p.outcome = "PLANNED" /\ p.fixable = blind
      <4>1. CASE blind = TRUE
        BY <4>1 DEF Accepted
      <4>2. CASE blind = FALSE
        BY <4>2 DEF Accepted
      <4> QED
        BY <4>1, <4>2
    <3> HIDE DEF p
    <3> QED
      BY <3>1, <3>2, <3>3, Zenon DEF Service!Planned
  <2> HIDE DEF p
  <2>2. recording /\ trace \in Traces /\ Shown(trace) = Passed(Shown(before), 8)
    BY <1>1, <1>3, GateSteps DEF SInv, ServedInv, TraceInv
  <2>3. trace' = RecordStage(trace, Gates[8 + 1], "PASS", "NONE")
    BY <1>1, <2>2, GateNames DEF Recording, RecordingIn
  <2>4. /\ trace' \in Traces
        /\ Shown(trace') = RecordStage(Passed(Shown(before), 8), Gates[8 + 1], "PASS", "NONE")
    BY <2>2, <2>3, GateNames, ShownStage DEF StageStatus, StageReason
  <2>5. Shown(trace') = RecordPlan(Shown(before), p)
    BY <2>1, <2>4, LastRejected
  <2>6. at \in PlanningSteps
    BY <1>1, GateSteps
  <2> QED
    BY <1>3, <2>1, <2>4, <2>5, <2>6, PlanServed DEF Kept
<1>4. CASE call = "explore" /\ at' = "run" /\ InCall /\ UNCHANGED <<recording, answer>>
  <2>1. trace' = trace /\ trace = before
    BY <1>1, <1>4 DEF Recording, RecordingIn, SInv, ServedInv, TraceInv
  <2>2. SInv'
    BY <1>4, <2>1, GateSteps DEF SInv, ServedInv, TraceInv, InCall
  <2>3. UNCHANGED <<Now, answer>>
    BY <1>1, <1>4, <2>1 DEF Now, InCall
  <2> QED
    BY <2>2, <2>3 DEF Kept
<1> QED
  BY <1>2, <1>3, <1>4 DEF Issue

-----------------------------------------------------------------------------
(***************************************************************************)
(* Execution and lookups.                                                  *)
(***************************************************************************)
LEMMA ExecutionNames ==
  /\ {"execution_connection", "execution"} \subseteq Stages
  /\ {"PASS", "FAILED"} \subseteq StageStatus
  /\ {"NONE", "EXECUTION_ERROR"} \subseteq StageReason
BY DEF Stages, RuntimeStages, ExecutionStages, StageStatus, StageReason

\* The stages of each result.
LEMMA StagesOfExecution ==
  ASSUME NEW t
  PROVE  /\ RecordExecution(t, "NOT_CONNECTED") =
              RecordStage(RecordStage(t, "execution_connection", "FAILED", "NONE"),
                          "execution", "FAILED", "EXECUTION_ERROR")
         /\ RecordExecution(t, "WRONG_ROLE") =
              RecordStage(t, "execution_connection", "PASS", "NONE")
         /\ \A result \in {"ERROR", "ERROR_CLASS"} :
              RecordExecution(t, result) =
                RecordStage(RecordStage(t, "execution_connection", "PASS", "NONE"),
                            "execution", "FAILED", "EXECUTION_ERROR")
         /\ \A result \in QueryResults :
              RecordExecution(t, result) =
                RecordStage(RecordStage(t, "execution_connection", "PASS", "NONE"),
                            "execution", "PASS", "NONE")
BY DEF RecordExecution, QueryResults

\* A stage recorded twice is recorded as it was last.
LEMMA RecordedTwice ==
  ASSUME NEW t, NEW name, NEW a, NEW b, NEW c, NEW d
  PROVE  RecordStage(RecordStage(t, name, a, b), name, c, d) = RecordStage(t, name, c, d)
BY DEF RecordStage

LEMMA ResultServed ==
  ASSUME SInv, NEW result \in ExecutionResults, Ends(result), at \in {"run", "query"},
         trace' \in Traces,
         call = "explore" => trace' = trace,
         call = "execute" => Shown(trace') = RecordExecution(Shown(before), result)
  PROVE  Kept
<1>1. at # "idle" /\ call \in {"execute", "explore"}
  BY DEF SInv, ServedInv
<1>2. Returns(Service!Executed(result))
  BY DEF Ends, Service!Executed
<1>3. CASE call = "explore"
  BY <1>1, <1>2, <1>3, ProbeAside DEF Kept
<1>4. CASE call = "execute"
  <2>1. SInv' /\ Now = Shown(before) /\ Now' = Shown(trace')
    BY <1>1, <1>2, ReturnServed
  <2>2. answer' = Service!Executed(result)
    BY <1>2, <1>4 DEF Returns
  <2>3. result \in Service!ExecutionResults /\ Now' = Service!RecordExecution(Now, result)
    BY <1>4, <2>1, SameGates
  <2> QED
    BY <2>1, <2>2, <2>3 DEF Service!QNext, Service!Execute, Now, Kept
<1> QED
  BY <1>1, <1>3, <1>4

LEMMA ConnectExecutionServed ==
  ASSUME SInv, ConnectExecution
  PROVE  Kept
<1>1. /\ at = "run" /\ call \in {"execute", "explore"} /\ trace = before /\ trace \in Traces
      /\ recording = (call # "explore")
  BY DEF ConnectExecution, SInv, ServedInv, TraceInv
<1>2. CASE Returns([call |-> "REFUSED"]) /\ trace' = trace
  <2>1. CASE call = "explore"
    BY <1>1, <1>2, <2>1, ProbeAside DEF Kept
  <2>2. CASE call # "explore"
    <3>1. SInv' /\ Now = Shown(before) /\ Now' = Shown(trace')
      BY <1>1, <1>2, ReturnServed
    <3>2. Service!Refuse
      BY <1>1, <1>2, <2>2, <3>1 DEF Service!Refuse, Returns, Now
    <3> QED
      BY <3>1, <3>2 DEF Service!QNext, Kept
  <2> QED
    BY <2>1, <2>2
<1>3. CASE Opens("execution_connection", "query")
  <2>1. trace' \in Traces
    BY <1>1, <1>3, ShownStage, ExecutionNames DEF Opens, Recording, RecordingIn
  <2>2. call = "explore" => trace' = trace
    BY <1>1, <1>3 DEF Opens, Recording, RecordingIn
  <2>3. call = "execute" =>
          Shown(trace') = RecordStage(Shown(before), "execution_connection", "PASS", "NONE")
    BY <1>1, <1>3, ShownStage, ExecutionNames DEF Opens, Recording, RecordingIn
  <2>4. at' = "query" /\ InCall /\ UNCHANGED <<recording, answer>>
    BY <1>3 DEF Opens
  <2>5. SInv'
    BY <1>1, <2>1, <2>2, <2>3, <2>4, GateSteps DEF SInv, ServedInv, TraceInv, InCall
  <2>6. UNCHANGED <<Now, answer>>
    BY <1>1, <2>4 DEF Now, InCall
  <2> QED
    BY <2>5, <2>6 DEF Kept
<1>4. CASE /\ Ends("NOT_CONNECTED")
           /\ trace' = ExecutionFailed(Recording("execution_connection", "FAILED"))
  <2>1. call = "explore" => trace' = trace
    BY <1>1, <1>4 DEF ExecutionFailed, Recording, RecordingIn
  <2> DEFINE failed == RecordStage(trace, "execution_connection", "FAILED", "NONE")
  <2>2. failed \in Traces
        /\ Shown(failed) = RecordStage(Shown(before), "execution_connection", "FAILED", "NONE")
    BY <1>1, ShownStage, ExecutionNames
  <2>3. recording => trace' = RecordStage(failed, "execution", "FAILED", "EXECUTION_ERROR")
    BY <1>4 DEF ExecutionFailed, Recording, RecordingIn
  <2> HIDE DEF failed
  <2>4. recording => /\ trace' \in Traces
                     /\ Shown(trace') = RecordStage(Shown(failed), "execution", "FAILED",
                                                    "EXECUTION_ERROR")
    BY <2>2, <2>3, ShownStage, ExecutionNames
  <2>5. call = "execute" => Shown(trace') = RecordExecution(Shown(before), "NOT_CONNECTED")
    BY <1>1, <2>2, <2>4, StagesOfExecution
  <2>6. trace' \in Traces
    BY <1>1, <2>1, <2>4
  <2>7. "NOT_CONNECTED" \in ExecutionResults
    BY DEF ExecutionResults, ExecutionErrors, OtherErrors
  <2> QED
    BY <1>1, <1>4, <2>1, <2>5, <2>6, <2>7, ResultServed
<1> QED
  BY <1>2, <1>3, <1>4 DEF ConnectExecution

\* What the connection found is in the trace: the result's own stage is the next.
LEMMA QueryServed ==
  ASSUME SInv, ExecutionSetUpFails \/ Query
  PROVE  Kept
<1>1. /\ at = "query" /\ call \in {"execute", "explore"} /\ trace \in Traces
      /\ recording = (call # "explore")
      /\ call = "execute" =>
           Shown(trace) = RecordStage(Shown(before), "execution_connection", "PASS", "NONE")
  BY DEF ExecutionSetUpFails, Query, SInv, ServedInv, TraceInv
<1>2. ExecutionResults = QueryResults \cup {"ERROR_CLASS", "ERROR", "NOT_CONNECTED",
                                            "WRONG_ROLE"}
  BY DEF ExecutionResults, ExecutionErrors, FixableErrors, OtherErrors
<1>3. CASE Ends("WRONG_ROLE") /\ trace' = trace
  <2>1. call = "execute" => Shown(trace') = RecordExecution(Shown(before), "WRONG_ROLE")
    BY <1>1, <1>3, StagesOfExecution
  <2> QED
    BY <1>1, <1>2, <1>3, <2>1, ResultServed
<1>4. ASSUME NEW result \in {"ERROR", "ERROR_CLASS"}, Ends(result),
             trace' = ExecutionFailed(trace)
      PROVE  Kept
  <2>1. recording => trace' = RecordStage(trace, "execution", "FAILED", "EXECUTION_ERROR")
    BY <1>4 DEF ExecutionFailed, RecordingIn
  <2>2. ~recording => trace' = trace
    BY <1>4 DEF ExecutionFailed, RecordingIn
  <2>3. recording => /\ trace' \in Traces
                     /\ Shown(trace') = RecordStage(Shown(trace), "execution", "FAILED",
                                                    "EXECUTION_ERROR")
    BY <1>1, <2>1, ShownStage, ExecutionNames
  <2>4. call = "execute" => Shown(trace') = RecordExecution(Shown(before), result)
    BY <1>1, <2>3, StagesOfExecution
  <2>5. trace' \in Traces
    BY <1>1, <2>2, <2>3
  <2> QED
    BY <1>1, <1>2, <1>4, <2>2, <2>4, <2>5, ResultServed
<1>5. ASSUME NEW result \in QueryResults, Ends(result),
             trace' = Recording("execution", "PASS")
      PROVE  Kept
  <2>1. recording => trace' = RecordStage(trace, "execution", "PASS", "NONE")
    BY <1>5 DEF Recording, RecordingIn
  <2>2. ~recording => trace' = trace
    BY <1>5 DEF Recording, RecordingIn
  <2>3. recording => /\ trace' \in Traces
                     /\ Shown(trace') = RecordStage(Shown(trace), "execution", "PASS", "NONE")
    BY <1>1, <2>1, ShownStage, ExecutionNames
  <2>4. call = "execute" => Shown(trace') = RecordExecution(Shown(before), result)
    BY <1>1, <2>3, StagesOfExecution
  <2>5. trace' \in Traces
    BY <1>1, <2>2, <2>3
  <2> QED
    BY <1>1, <1>2, <1>5, <2>2, <2>4, <2>5, ResultServed
<1>6. CASE Ends("ERROR") /\ trace' = ExecutionFailed(Recording("execution", "PASS"))
  <2> DEFINE passed == RecordStage(trace, "execution", "PASS", "NONE")
  <2>1. recording => trace' = RecordStage(passed, "execution", "FAILED", "EXECUTION_ERROR")
    BY <1>6 DEF ExecutionFailed, Recording, RecordingIn
  <2>2. RecordStage(passed, "execution", "FAILED", "EXECUTION_ERROR")
          = RecordStage(trace, "execution", "FAILED", "EXECUTION_ERROR")
    BY RecordedTwice
  <2> HIDE DEF passed
  <2>3. trace' = ExecutionFailed(trace)
    BY <1>6, <2>1, <2>2 DEF ExecutionFailed, Recording, RecordingIn
  <2> QED
    BY <1>4, <1>6, <2>3
<1> QED
  BY <1>3, <1>4, <1>5, <1>6 DEF ExecutionSetUpFails, Query

LEMMA LookupServed ==
  ASSUME SInv, Lookup
  PROVE  Kept
<1>1. at = "lookup" /\ call = "lookup" /\ trace = before /\ trace \in Traces
      /\ trace' = trace
  BY DEF Lookup, SInv, ServedInv, TraceInv
<1>2. CASE at' = "lookup" /\ InCall /\ UNCHANGED <<recording, answer>>
  <2>1. SInv'
    BY <1>1, <1>2, GateSteps DEF SInv, ServedInv, TraceInv, InCall
  <2>2. UNCHANGED <<Now, answer>>
    BY <1>1, <1>2 DEF Now, InCall
  <2> QED
    BY <2>1, <2>2 DEF Kept
<1>3. CASE Returns([call |-> "LOOKUP"])
  <2>1. SInv' /\ Now = Shown(before) /\ Now' = Shown(trace')
    BY <1>1, <1>3, ReturnServed
  <2>2. Service!Aside
    BY <1>1, <1>3, <2>1 DEF Service!Aside, Returns, Now
  <2> QED
    BY <2>1, <2>2 DEF Service!QNext, Kept
<1> QED
  BY <1>2, <1>3 DEF Lookup

-----------------------------------------------------------------------------
\* An idle service has no call, and nothing is in the trace.
LEMMA InitServed == Init => SInv /\ Service!QInit
<1> SUFFICES ASSUME Init PROVE SInv /\ Service!QInit
  OBVIOUS
<1>1. EmptyTrace \in Traces /\ Shown(EmptyTrace) = EmptyTrace
  BY DEF EmptyTrace, Traces, Unrecorded, StageResult, StageReason, Shown
<1>2. SInv
  BY <1>1, GateSteps DEF Init, SInv, ServedInv, TraceInv
<1>3. Service!QInit
  BY <1>1, SameGates DEF Init, Service!QInit, NoAnswer, Service!NoAnswer
<1> QED
  BY <1>2, <1>3

LEMMA StepServed == SInv /\ [Next]_vars => Kept
<1> SUFFICES ASSUME SInv, [Next]_vars PROVE Kept
  OBVIOUS
<1>1. CASE UNCHANGED vars
  BY <1>1 DEF vars, Kept, SInv, ServedInv, TraceInv, Now
<1>2. CASE Next
  BY <1>2, TakeServed, ParseServed, PolicyServed, AuthorityServed, GrainServed,
     RewritingServed, GateRaisesServed, PlanningServed, IssueServed, ConnectExecutionServed,
     QueryServed, LookupServed DEF Next, Planning
<1> QED
  BY <1>1, <1>2

\* What a call has left in the trace fits the step it has reached, however it was
\* served, and only a probe is served without a recorder.
THEOREM ServedInductive == Spec => []SInv
<1>1. SInv /\ [Next]_vars => SInv'
  BY StepServed DEF Kept
<1> QED
  BY InitServed, <1>1, PTL DEF Spec

\* The service implements QueryService: whatever a gate finds or fails with, a call
\* comes to a result the decision service knows, with exactly that result's stages, and a
\* probe or a lookup leaves no mark (service.py, plan, execute and explore).
THEOREM PromisesKept == Spec => KeepsPromises
<1>1. SInv /\ [Next]_vars => [Service!QNext]_<<Now, answer>>
  BY StepServed DEF Kept
<1> QED
  BY InitServed, ServedInductive, <1>1, PTL DEF Spec, KeepsPromises, Service!QSpec, Now

-----------------------------------------------------------------------------
(***************************************************************************)
(* Types: what calls carry, beside the trace.                              *)
(***************************************************************************)
DataOK ==
  /\ switches \in Switch /\ call \in CallNames
  /\ asked \in Candidates /\ sql \in Rewritten
  /\ plans \in Seq(QueryPlans) /\ held \subseteq QueryPlans
  /\ running \in QueryPlans
  /\ role \in Roles \cup {"NONE"}
  /\ sent \subseteq Statements
  /\ calls \in 0..MaxCalls

LEMMA IdleData ==
  /\ NoSql \in Rewritten /\ NoAsk \in Candidates /\ NoQueryPlan \in QueryPlans
  /\ Queries \subseteq Rewritten
  /\ \A c \in Candidates : c.sql \in Rewritten
BY DEF NoSql, NoAsk, NoQueryPlan, Rewritten, Candidates, QueryPlans, Source

\* A literal's spelling is rewritten once: SQL that was rewritten is not RESPELLED.
LEMMA RespelledOnce ==
  ASSUME NEW q \in Rewritten, q.value = "RESPELLED"
  PROVE  [q EXCEPT !.value = "STORED"] \in Rewritten
<1>1. NoSql.value = "STORED"
  BY DEF NoSql
<1>2. \A r \in Queries : [r EXCEPT !.value = "STORED"].value = "STORED"
  BY QueriesAssumption DEF QueryShape
<1> QED
  BY <1>1, <1>2 DEF Rewritten

LEMMA InitTyped == Init => DataOK
<1> SUFFICES ASSUME Init PROVE DataOK
  OBVIOUS
<1> QED
  BY IdleData, EmptySeq, SwitchAssumption, MaxCallsAssumption
     DEF Init, DataOK, CallNames

\* A call begins.
LEMMA BeginTyped ==
  ASSUME DataOK, PlanCall \/ Explore \/ Execute \/ ProbeValues
  PROVE  DataOK'
<1>1. calls' \in 0..MaxCalls /\ call' \in CallNames
  <2>1. PICK name \in CallNames, step \in {"parse", "run", "lookup"} : Begin(name, step)
    BY Zenon DEF PlanCall, Explore, Take, Execute, ProbeValues, CallNames
  <2> QED
    BY <2>1, MaxCallsAssumption DEF DataOK, Begin
<1>2. UNCHANGED <<switches, sql, plans, held, role, sent>>
  BY DEF PlanCall, Explore, Take, Execute, ProbeValues
<1>3. CASE PlanCall \/ Explore
  <2>1. PICK q \in Queries, r \in Requests :
          asked' = [sql |-> q, source |-> r.source, authority |-> r.authority]
    BY <1>3 DEF PlanCall, Explore, Take
  <2>2. r.source \in Source /\ r.authority \in (SUBSET Relation) \cup {NotGiven}
    BY AuthorityAssumption DEF Request
  <2>3. asked' \in Candidates /\ running' = running
    BY <1>3, <2>1, <2>2 DEF Candidates, PlanCall, Explore, Take
  <2> QED
    BY <1>1, <1>2, <2>3 DEF DataOK
<1>4. CASE Execute
  <2>1. PICK p \in held :
          \E plan \in {p} \cup {[p EXCEPT !.sql = q, !.copied = TRUE] : q \in Queries} :
            running' = plan /\ asked' = plan.asked
    BY <1>4 DEF Execute
  <2>2. p \in QueryPlans
    BY <2>1 DEF DataOK
  <2>3. running' \in QueryPlans /\ asked' = running'.asked
    BY <2>1, <2>2, IdleData DEF QueryPlans
  <2>4. asked' \in Candidates
    BY <2>3 DEF QueryPlans
  <2> QED
    BY <1>1, <1>2, <2>3, <2>4 DEF DataOK
<1>5. CASE ProbeValues
  <2>1. asked' \in Candidates /\ running' = running
    BY <1>5 DEF ProbeValues, DataOK, Statements
  <2> QED
    BY <1>1, <1>2, <2>1 DEF DataOK
<1> QED
  BY <1>3, <1>4, <1>5

\* A call returns.
LEMMA ReturnTyped ==
  ASSUME DataOK, NEW result, Returns(result), held' \subseteq QueryPlans,
         plans' \in Seq(QueryPlans), sent' \subseteq Statements
  PROVE  DataOK'
BY IdleData DEF DataOK, Returns, CallNames

\* A step within a call that changes at most its SQL, its role and what was sent.
LEMMA WithinTyped ==
  ASSUME DataOK, InCall, UNCHANGED <<asked, running, plans>>, sql' \in Rewritten,
         role' \in Roles \cup {"NONE"}, sent' \subseteq Statements
  PROVE  DataOK'
BY DEF DataOK, InCall

\* A statement of a transaction.
LEMMA StatementTyped ==
  ASSUME DataOK, RoleChecked, NEW how \in {"EXPLAIN", "QUERY", "LOOKUP"},
         NEW q \in Rewritten, NEW cheap \in BOOLEAN
  PROVE  sent \cup {Statement(how, q, cheap)} \subseteq Statements
BY DEF DataOK, RoleChecked, Statement, Statements, Roles

LEMMA FailureTyped ==
  ASSUME DataOK, NEW f, Fails(f), plans' \in Seq(QueryPlans), sent' \subseteq Statements
  PROVE  DataOK'
BY ReturnTyped DEF Fails, DataOK

\* The gates before the connection.
LEMMA GatesTyped ==
  ASSUME DataOK, Parse \/ Policy \/ Authority \/ Grain \/ Values \/ Ordering \/ GateRaises
  PROVE  DataOK'
<1>1. UNCHANGED <<plans, sent>>
  BY DEF Parse, Policy, Authority, Grain, Values, Ordering, GateRaises, NoStatement
<1>2. ASSUME NEW f, Fails(f)
      PROVE  DataOK'
  BY <1>1, <1>2, FailureTyped DEF DataOK
<1>3. ASSUME NEW step, GoesOn(step), sql' \in Rewritten
      PROVE  DataOK'
  BY <1>1, <1>3, WithinTyped DEF GoesOn, DataOK
<1>4. CASE Parse
  BY <1>2, <1>3, <1>4, IdleData DEF Parse, DataOK
<1>5. CASE Policy \/ Authority \/ Ordering
  BY <1>2, <1>3, <1>5 DEF Policy, Authority, Ordering, DataOK
<1>6. CASE Grain
  <2>1. \/ \E step : GoesOn(step) /\ sql' \in {sql} \cup Queries
        \/ \E f : Fails(f)
    BY <1>6 DEF Grain, Normalized
  <2> QED
    BY <1>2, <1>3, <2>1, IdleData DEF DataOK
<1>7. CASE Values
  BY <1>3, <1>7, RespelledOnce DEF Values, DataOK
<1>8. CASE GateRaises
  BY <1>1, <1>8, ReturnTyped DEF GateRaises, DataOK
<1> QED
  BY <1>4, <1>5, <1>6, <1>7, <1>8

LEMMA PlanningTyped ==
  ASSUME DataOK, ConnectPlanning \/ SetUpFails \/ Explain \/ TooExpensive
  PROVE  DataOK'
<1>1. plans' = plans
  BY DEF ConnectPlanning, SetUpFails, Explain, TooExpensive, NoStatement
<1>2. CASE Explain
  <2>1. PICK cheap \in BOOLEAN : sent' = sent \cup {Statement("EXPLAIN", sql, cheap)}
    BY <1>2 DEF Explain
  <2>2. sent' \subseteq Statements
    BY <1>2, <2>1, StatementTyped DEF Explain, DataOK
  <2>3. CASE Fails(Unplannable)
    BY <1>1, <2>2, <2>3, FailureTyped DEF DataOK
  <2>4. CASE sql' = sql /\ \E step : GoesOn(step)
    BY <1>1, <2>2, <2>4, WithinTyped DEF GoesOn, DataOK
  <2> QED
    BY <1>2, <2>3, <2>4 DEF Explain
<1>3. CASE ConnectPlanning \/ SetUpFails \/ TooExpensive
  <2>1. sent' = sent
    BY <1>3 DEF ConnectPlanning, SetUpFails, TooExpensive, NoStatement
  <2>2. CASE Opens("planning_connection", "explain")
    BY <1>1, <2>1, <2>2, WithinTyped DEF Opens, DataOK
  <2>3. CASE \E f : Fails(f)
    BY <1>1, <2>1, <2>3, FailureTyped DEF DataOK
  <2> QED
    BY <1>3, <2>2, <2>3 DEF ConnectPlanning, SetUpFails, TooExpensive
<1> QED
  BY <1>2, <1>3

\* A plan is issued.
LEMMA IssueTyped ==
  ASSUME DataOK, Issue
  PROVE  DataOK'
<1> DEFINE plan == [number |-> Len(plans) + 1, sql |-> sql, asked |-> asked,
                    copied |-> FALSE]
<1>1. plan \in QueryPlans
  BY LenProperties DEF DataOK, QueryPlans
<1>2. plans' = Append(plans, plan) /\ sent' = sent
  BY DEF Issue
<1>3. \/ Fails(Unplannable)
      \/ held' = held \cup {plan} /\ \E result : Returns(result)
      \/ running' = plan /\ role' = "NONE" /\ InCall /\ UNCHANGED <<asked, sql>>
  BY DEF Issue
<1> HIDE DEF plan
<1>4. plans' \in Seq(QueryPlans)
  BY <1>1, <1>2, AppendProperties DEF DataOK
<1>5. CASE Fails(Unplannable)
  BY <1>2, <1>4, <1>5, FailureTyped DEF DataOK
<1>6. CASE held' = held \cup {plan} /\ \E result : Returns(result)
  BY <1>1, <1>2, <1>4, <1>6, ReturnTyped DEF DataOK
<1>7. CASE running' = plan /\ role' = "NONE" /\ InCall /\ UNCHANGED <<asked, sql>>
  BY <1>1, <1>2, <1>4, <1>7 DEF DataOK, InCall
<1> QED
  BY <1>3, <1>5, <1>6, <1>7

LEMMA ExecutionTyped ==
  ASSUME DataOK, ConnectExecution \/ ExecutionSetUpFails \/ Query
  PROVE  DataOK'
<1>1. ASSUME NEW result, Ends(result), sent' \subseteq Statements
      PROVE  DataOK'
  BY <1>1, ReturnTyped DEF Ends, DataOK
<1>2. CASE ConnectExecution
  <2>1. UNCHANGED <<plans, sent>>
    BY <1>2 DEF ConnectExecution, NoStatement
  <2>2. CASE Returns([call |-> "REFUSED"]) /\ UNCHANGED held
    BY <2>1, <2>2, ReturnTyped DEF DataOK
  <2>3. CASE Opens("execution_connection", "query")
    BY <2>1, <2>3, WithinTyped DEF Opens, DataOK
  <2>4. CASE Ends("NOT_CONNECTED")
    BY <1>1, <2>1, <2>4 DEF DataOK
  <2> QED
    BY <1>2, <2>2, <2>3, <2>4 DEF ConnectExecution
<1>3. CASE ExecutionSetUpFails
  BY <1>1, <1>3 DEF ExecutionSetUpFails, DataOK
<1>4. CASE Query
  <2>1. running.sql \in Rewritten /\ RoleChecked
    BY <1>4 DEF Query, DataOK, QueryPlans
  <2>2. sent' \subseteq Statements
    BY <1>4, <2>1, StatementTyped DEF Query
  <2> QED
    BY <1>1, <1>4, <2>2 DEF Query
<1> QED
  BY <1>2, <1>3, <1>4

LEMMA LookupTyped ==
  ASSUME DataOK, Lookup
  PROVE  DataOK'
<1>1. plans' = plans /\ asked.sql \in Rewritten
  BY IdleData DEF Lookup, DataOK
<1>2. \/ InCall /\ role' \in Roles /\ UNCHANGED <<asked, sql, running, sent>>
      \/ /\ Returns([call |-> "LOOKUP"]) /\ UNCHANGED held
         /\ \/ sent' = sent
            \/ RoleChecked /\ sent' = sent \cup {Statement("LOOKUP", asked.sql, TRUE)}
  BY DEF Lookup
<1>3. CASE InCall /\ role' \in Roles /\ UNCHANGED <<asked, sql, running, sent>>
  BY <1>1, <1>3, WithinTyped DEF DataOK
<1>4. CASE Returns([call |-> "LOOKUP"]) /\ UNCHANGED <<held, sent>>
  BY <1>1, <1>4, ReturnTyped DEF DataOK
<1>5. CASE /\ Returns([call |-> "LOOKUP"]) /\ UNCHANGED held
           /\ RoleChecked /\ sent' = sent \cup {Statement("LOOKUP", asked.sql, TRUE)}
  BY <1>1, <1>5, StatementTyped, ReturnTyped DEF DataOK
<1> QED
  BY <1>2, <1>3, <1>4, <1>5

\* Every variable of the service keeps its type: whatever the gates rewrite, the SQL of a
\* plan or a statement is a candidate's, or what a gate may make of one.
THEOREM TypeCorrect == Spec => []TypeOK
<1>1. DataOK /\ [Next]_vars => DataOK'
  <2> SUFFICES ASSUME DataOK, [Next]_vars PROVE DataOK'
    OBVIOUS
  <2>1. CASE UNCHANGED vars
    BY <2>1 DEF vars, DataOK
  <2>2. CASE Next
    BY <2>2, BeginTyped, GatesTyped, PlanningTyped, IssueTyped, ExecutionTyped, LookupTyped
       DEF Next, Planning
  <2> QED
    BY <2>1, <2>2
<1>2. SInv /\ DataOK => TypeOK
  BY GateSteps DEF SInv, ServedInv, TraceInv, Traces, DataOK, TypeOK, Steps
<1> QED
  BY InitTyped, ServedInductive, <1>1, <1>2, PTL DEF Spec
=============================================================================
