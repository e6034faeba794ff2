----------------------------- MODULE Conversations -----------------------------
(***************************************************************************)
(* Runs as their users meet them: questions, follow-ups, edited queries    *)
(* and report cards are run by OperatorApplication (src/app/operator/      *)
(* service.py) at the request of src/app/api/routes.py and the report      *)
(* service, several at a time, and recorded when they end.                 *)
(*                                                                         *)
(* A request reads the earlier run and then begins its own in one step: a  *)
(* stored record never changes, so what may happen between the two reads   *)
(* may as well happen after the second.  What a run does between beginning *)
(* and ending is DecisionRun.                                              *)
(*                                                                         *)
(* A run is recorded under the name of whoever began it, which decides     *)
(* nothing but whose list it is in: anyone may follow up on, edit or open  *)
(* anyone's run.  So records hold no name, and what is said of a list is   *)
(* said of any set of stored runs that may be one person's.                *)
(***************************************************************************)
EXTENDS RunLog

CONSTANTS Source,        \* the databases that may be asked
          Governed,      \* the built-in one, the only one with demo scenarios
          ReportSource,  \* those that have reports
          MaxRequests,   \* bound of the model: runs begun
          MaxRunning     \* bound of the model: runs under way at the same time

ASSUME SourceAssumption == Governed \in Source /\ ReportSource \subseteq Source
ASSUME BoundsAssumption == MaxRequests \in Nat /\ MaxRunning \in Nat

VARIABLES durable,  \* which store the server was started with
          runs,     \* every run begun
          log       \* the runs stored

vars == <<durable, runs, log>>

\* Where a run's SQL comes from (ProposalSource; the two replays are one).
Modes == {"LIVE_MODEL", "EDITED_QUERY", "SAVED_QUERY", "REPLAY"}

Begun == DOMAIN runs
Known == ToSet(log)

Init == durable \in BOOLEAN /\ runs = <<>> /\ log = <<>>

Editable(run) == run.mode \in {"LIVE_MODEL", "EDITED_QUERY"} /\ run.proposed

\* Faulty: any run with a query is built on.
AnyQuery(run) == run.proposed

\* Only the model's own proposal, or one a user edited, goes back to the model.
EarlierAnswer(run) == run.mode \in {"LIVE_MODEL", "EDITED_QUERY"} /\ run.proposed

\* A connection has no scenarios; the built-in source replays one before anything else.
ServiceFor(source, replay, saved) ==
  IF source = Governed /\ replay THEN "REPLAY"
  ELSE IF saved THEN "SAVED_QUERY" ELSE "LIVE_MODEL"

\* The run of a request.  sent is the earlier run whose SQL went to the model with the
\* question: none does when the SQL of this run is known.
Run(source, replay, saved, followed, edited) ==
  LET earlier == IF followed # NoRun /\ EarlierAnswer(runs[followed]) THEN followed ELSE NoRun
      mode    == ServiceFor(source, replay, saved)
  IN  [mode |-> IF edited # NoRun THEN "EDITED_QUERY" ELSE mode,
       source |-> source, followUp |-> earlier, edited |-> edited,
       sent |-> IF mode = "LIVE_MODEL" THEN earlier ELSE NoRun,
       proposed |-> FALSE, stage |-> "RUNNING"]

\* Under way, with a client that hears of it or without.
Running(r) == r \in Begun /\ runs[r].stage \in {"RUNNING", "UNHEARD"}

Begin(run) == /\ Len(runs) < MaxRequests
              /\ Cardinality({r \in Begun : Running(r)}) < MaxRunning
              /\ runs' = Append(runs, run)
              /\ UNCHANGED <<durable, log>>

\* Faulty: a follow-up may name a run on any source.
MayFollowAny(source, followed) == followed = NoRun \/ followed \in Known

\* A follow-up names a stored run on the same source.
MayFollow(source, followed) ==
  followed # NoRun => followed \in Known /\ runs[followed].source = source

\* A question, or a scenario's replay, asked on its own or as a follow-up of anyone's run.
Ask(source, replay, followed) ==
  /\ replay => source = Governed
  /\ MayFollow(source, followed)
  /\ Begin(Run(source, replay, FALSE, followed, NoRun))

\* A stored run's query with other values, on that run's source.
Edit(r) ==
  /\ r \in Known /\ Editable(runs[r])
  /\ Begin(Run(runs[r].source, FALSE, TRUE, NoRun, r))

\* A report runs the query it keeps, for the reader who refreshes it.
RunCard(source) == Begin(Run(source, FALSE, TRUE, NoRun, NoRun))

\* A question about a report's card; the card's run is on the report's connection.
FollowCard(r) ==
  /\ r \in Known /\ runs[r].mode = "LIVE_MODEL" /\ runs[r].proposed
  /\ Begin(Run(runs[r].source, FALSE, FALSE, r, NoRun))

\* Nothing is known afterwards of a run that failed or whose process stopped.
Lost ==
  [mode |-> "LIVE_MODEL", source |-> Governed, followUp |-> NoRun,
   edited |-> NoRun, sent |-> NoRun, proposed |-> FALSE, stage |-> "LOST"]

Stored(r, proposed) ==
  /\ runs' = [runs EXCEPT ![r].stage = "STORED", ![r].proposed = proposed]
  /\ log' = Saved(log, r, durable)
  /\ UNCHANGED durable

\* A run ends, with a query or without, and is saved.
Finish(r) ==
  /\ Running(r)
  /\ \E proposed \in BOOLEAN : Stored(r, proposed)

\* A gate or the store raises: the client is told, and nothing is recorded.
Fail(r) ==
  /\ Running(r)
  /\ runs' = [runs EXCEPT ![r] = Lost]
  /\ UNCHANGED <<durable, log>>

\* Faulty: the run is cancelled with the stream that tells of it.
Cancelled(run) == [Lost EXCEPT !.stage = "CANCELLED"]

\* A run whose stream is closed is a task of its own, shielded: it goes on as it was.
Unheard(run) == [run EXCEPT !.stage = "UNHEARD"]

\* The client closes the stream.  (One at a time, a bound of the model.)
ClientLeaves(r) ==
  /\ r \in Begun /\ runs[r].stage = "RUNNING"
  /\ \A s \in Begun : runs[s].stage # "UNHEARD"
  /\ runs' = [runs EXCEPT ![r] = Unheard(@)]
  /\ UNCHANGED <<durable, log>>

\* Runs under way are lost with the process, and so is the store in memory.
Restart ==
  /\ \E r \in Begun : Running(r)
  /\ runs' = [r \in Begun |-> IF Running(r) THEN Lost ELSE runs[r]]
  /\ log' = IF durable THEN log ELSE <<>>
  /\ UNCHANGED durable

Work(r) == Finish(r) \/ Fail(r)

Next ==
  \/ \E source \in Source, replay \in BOOLEAN, followed \in Begun \cup {NoRun} :
       Ask(source, replay, followed)
  \/ \E source \in ReportSource : RunCard(source)
  \/ \E r \in Begun : Edit(r) \/ FollowCard(r) \/ Work(r) \/ ClientLeaves(r)
  \/ Restart

\* Every run ends by itself (DecisionRun!Termination), and no one else waits for it.
Fairness == \A r \in 1..MaxRequests : WF_vars(Work(r))

Spec == Init /\ [][Next]_vars /\ Fairness
================================================================================
