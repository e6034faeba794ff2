------------------------------- MODULE Reports -------------------------------
(***************************************************************************)
(* One shared report: the people who edit it, the workers that refresh it  *)
(* on its schedule, and its snapshots (src/app/reports/service.py and      *)
(* store.py).                                                              *)
(*                                                                         *)
(* A request reads the report, prepares the whole record it would store,   *)
(* and writes it only over the version it read; requests run at the same   *)
(* time in a thread pool.  A worker claims the report when its next        *)
(* refresh is due, runs its cards and stores a snapshot.  Each read or     *)
(* write of the store is one step.                                         *)
(*                                                                         *)
(* Report ids are never used again, so one report, just created, is        *)
(* followed.  A title, a set of cards (with filters) or a basis is named   *)
(* by the version that wrote it.                                           *)
(***************************************************************************)
EXTENDS Integers, FiniteSets

CONSTANTS Person,       \* people who may open the report
          Owner,        \* the one who created it
          Workers,      \* processes that run the scheduler
          Hands,        \* snapshots taken by hand at the same time
          Interval,     \* SCHEDULE_INTERVALS, in ticks of the clock
          Kept,         \* SNAPSHOTS_KEPT
          MaxVersion, MaxNow, MaxSnapshots  \* bounds of the model

ASSUME PeopleAssumption == Owner \in Person
ASSUME IntervalAssumption == /\ "off" \notin DOMAIN Interval
                             /\ \A s \in DOMAIN Interval : Interval[s] \in Nat \ {0}
ASSUME KeptAssumption == Kept \in Nat \ {0}
ASSUME TakersAssumption == IsFiniteSet(Workers) /\ IsFiniteSet(Hands)

Takers == Workers \cup Hands

Never == -1

Schedule == DOMAIN Interval \cup {"off"}

Role == {"none", "viewer", "editor"}

Report == [version : Nat \ {0}, title : Nat \ {0}, cards : Nat \ {0}, basis : Nat \ {0},
           people : [Person -> Role], schedule : Schedule, next : Nat \cup {Never}]

NewReport == [version |-> 1, title |-> 1, cards |-> 1, basis |-> 1,
              people |-> [p \in Person |-> "none"], schedule |-> "off", next |-> Never]

VARIABLES
  now,        \* the clock
  live,       \* the report is stored
  report,     \* the stored record, or the last one
  view,       \* what each person's editor was last given
  task,       \* each person's request
  job,        \* each worker's refresh, and a snapshot taken by hand
  snapshots,  \* the stored snapshots, by when they were taken
  taken,      \* snapshots taken so far
  by,         \* (history) who made the last save
  how,        \* (history) whether the last save named the version it was made from
  claims,     \* (history) refreshes claimed: the version and the time claimed
  newest      \* (history) the latest snapshot ever stored

edits == <<live, report, view, task, by, how>>
refreshes == <<job, snapshots, taken, claims, newest>>
vars == <<now, live, report, view, task, by, how, job, snapshots, taken, claims, newest>>

\* The text an editor shows, and the version it was opened at.
TextOf(r) == [version |-> r.version, title |-> r.title, cards |-> r.cards]

NoTask == [step |-> "idle", saved |-> NewReport, sent |-> TextOf(NewReport), kind |-> "none"]

NoJob == [step |-> "idle", now |-> 0, read |-> NewReport, stamp |-> 0, dropped |-> {}]

Init ==
  /\ now = 0
  /\ live = TRUE /\ report = NewReport
  /\ view = [p \in Person |-> TextOf(NewReport)]
  /\ task = [p \in Person |-> NoTask]
  /\ job = [t \in Takers |-> NoJob]
  /\ snapshots = {} /\ taken = 0
  /\ by = Owner /\ how = "versioned" /\ claims = {} /\ newest = 0

CanOpen(p) == live /\ (p = Owner \/ report.people[p] # "none")

\* _open with need = _EDIT.
CanEdit(p) == live /\ (p = Owner \/ report.people[p] = "editor")

-----------------------------------------------------------------------------
(***************************************************************************)
(* Requests that change the report.                                        *)
(***************************************************************************)
\* Faulty: the version is left for the store to fill in.
Unnumbered == 0

Following == report.version + 1

Open(p) ==
  /\ CanOpen(p) /\ view[p] # TextOf(report)
  /\ view' = [view EXCEPT ![p] = TextOf(report)]
  /\ UNCHANGED <<now, live, report, task, by, how>> /\ UNCHANGED refreshes

\* The request has read the report and prepared the record it will store.
Prepared(p, saved, kind) ==
  /\ task' = [task EXCEPT ![p] = [NoTask EXCEPT !.step = "commit", !.saved = saved,
                                                !.kind = kind]]
  /\ UNCHANGED <<now, live, report, view, by, how>> /\ UNCHANGED refreshes

Ended(p) ==
  /\ task' = [task EXCEPT ![p] = NoTask]
  /\ UNCHANGED <<now, live, report, view, by, how>> /\ UNCHANGED refreshes

Asks(p) == task[p].step = "idle" /\ CanEdit(p) /\ report.version < MaxVersion

\* update refuses a text made from another version than the one it reads.
VersionMatches(text) == text.version = report.version

\* A save of the text in the editor, with or without the version it was opened at.
Update(p) ==
  /\ Asks(p)
  /\ \E kind \in {"versioned", "unversioned"},
        title \in {view[p].title, Following}, cards \in {view[p].cards, Following} :
       /\ kind = "versioned" => VersionMatches(view[p])
       /\ Prepared(p, [report EXCEPT !.version = Following, !.title = title,
                                     !.cards = cards], kind)

Rename(p) ==
  /\ Asks(p)
  /\ Prepared(p, [report EXCEPT !.version = Following, !.title = Following], "versioned")

Share(p) ==
  /\ Asks(p) /\ p = Owner
  /\ \E people \in [Person -> Role] :
       /\ people[Owner] = "none"
       /\ Prepared(p, [report EXCEPT !.version = Following, !.people = people], "versioned")

FirstTurn(s) == IF s = "off" THEN Never ELSE now + Interval[s]

SetSchedule(p) ==
  /\ Asks(p)
  /\ \E s \in Schedule :
       Prepared(p, [report EXCEPT !.version = Following, !.schedule = s,
                                  !.next = FirstTurn(s)], "versioned")

Accept(p) ==
  /\ Asks(p)
  /\ Prepared(p, [report EXCEPT !.version = Following, !.basis = Following], "versioned")

\* add_card reads the report, then saves the text it read plus a card as update does.
AddCard(p) ==
  /\ Asks(p)
  /\ task' = [task EXCEPT ![p] = [NoTask EXCEPT !.step = "added", !.sent = TextOf(report)]]
  /\ UNCHANGED <<now, live, report, view, by, how>> /\ UNCHANGED refreshes

UpdateAdded(p) ==
  /\ task[p].step = "added"
  /\ LET sent == task[p].sent
     IN  IF CanEdit(p) /\ VersionMatches(sent)
         THEN Prepared(p, [report EXCEPT !.version = Following, !.title = sent.title,
                                         !.cards = Following], "versioned")
         ELSE Ended(p)

\* Faulty: the stored version is not compared.
Overwrites(saved) == live

\* The store's condition for writing a record.
StillAt(saved) == live /\ report.version = saved.version - 1

Commit(p) ==
  /\ task[p].step = "commit"
  /\ LET saved == task[p].saved
     IN  /\ IF StillAt(saved)
            THEN /\ report' = saved
                 /\ by' = p /\ how' = task[p].kind
                 /\ view' = [view EXCEPT ![p] = TextOf(saved)]
            ELSE UNCHANGED <<report, by, how, view>>
         /\ task' = [task EXCEPT ![p] = NoTask]
  /\ UNCHANGED <<now, live>> /\ UNCHANGED refreshes

\* The report goes with the snapshots stored by then.
Delete ==
  /\ live
  /\ live' = FALSE
  /\ snapshots' = {}
  /\ UNCHANGED <<now, report, view, task, by, how, job, taken, claims, newest>>

-----------------------------------------------------------------------------
(***************************************************************************)
(* Refreshes.                                                              *)
(***************************************************************************)
\* Faulty: a report is due from the moment after its next refresh.
PastDue == live /\ report.next # Never /\ report.next < now

Due == live /\ report.next # Never /\ report.next <= now

\* due: the scheduler reads the clock once, then the reports that are due.
Scan(w) ==
  /\ job[w].step = "idle"
  /\ Due
  /\ job' = [job EXCEPT ![w] = [NoJob EXCEPT !.step = "claim", !.now = now, !.read = report]]
  /\ UNCHANGED edits /\ UNCHANGED <<now, snapshots, taken, claims, newest>>

\* Faulty: after downtime every missed refresh is caught up with.
EveryTurn(read, at) ==
  IF read.schedule = "off" THEN Never ELSE read.next + Interval[read.schedule]

\* The turn after the one claimed; missed turns are passed over.
NextTurn(read, at) ==
  IF read.schedule = "off" THEN Never
  ELSE IF read.next + Interval[read.schedule] <= at
       THEN at + Interval[read.schedule]
       ELSE read.next + Interval[read.schedule]

\* Faulty: whoever read the report as due takes it.
StillThere(read) == live

\* The store's condition for moving the next refresh on.
Unclaimed(read) == live /\ report.next = read.next

\* Only the next refresh is written; the version stays.
Claim(w) ==
  /\ job[w].step = "claim"
  /\ LET read == job[w].read
     IN  IF Unclaimed(read)
         THEN /\ report' = [report EXCEPT !.next = NextTurn(read, job[w].now)]
              /\ job' = [job EXCEPT ![w] = [NoJob EXCEPT !.step = "run"]]
              /\ claims' = claims \cup {[turn |-> read.next, version |-> report.version,
                                         number |-> Cardinality(claims), at |-> job[w].now]}
         ELSE /\ job' = [job EXCEPT ![w] = NoJob]
              /\ UNCHANGED <<report, claims>>
  /\ UNCHANGED <<now, live, view, task, by, how, snapshots, taken, newest>>

\* take_snapshot: any reader of the report may ask for one.
TakeByHand(h) ==
  /\ job[h].step = "idle"
  /\ \E p \in Person : CanOpen(p)
  /\ job' = [job EXCEPT ![h] = [NoJob EXCEPT !.step = "run"]]
  /\ UNCHANGED edits /\ UNCHANGED <<now, snapshots, taken, claims, newest>>

\* Every card is run, and the snapshot stamped.
RunCards(t) ==
  /\ job[t].step = "run" /\ taken < MaxSnapshots
  /\ taken' = taken + 1
  /\ job' = [job EXCEPT ![t] = [@ EXCEPT !.step = "trim", !.stamp = taken + 1]]
  /\ UNCHANGED edits /\ UNCHANGED <<now, snapshots, claims, newest>>

\* The connection is gone or a card's run raised: nothing is stored.
RunFails(t) ==
  /\ job[t].step = "run"
  /\ job' = [job EXCEPT ![t] = NoJob]
  /\ UNCHANGED edits /\ UNCHANGED <<now, snapshots, taken, claims, newest>>

\* Faulty: the latest snapshots are dropped instead of the oldest.
BeyondOldest(stamps) == {s \in stamps : Cardinality({o \in stamps : o < s}) >= Kept}

\* Faulty: one more than Kept is left.
BeyondOneMore(stamps) == {s \in stamps : Cardinality({o \in stamps : o > s}) > Kept}

\* The snapshots beyond the Kept latest ones.
Beyond(stamps) == {s \in stamps : Cardinality({o \in stamps : o > s}) >= Kept}

\* The storing transaction inserts the snapshot and deletes the oldest: it sees its own
\* row and those committed so far.
Trim(t) ==
  /\ job[t].step = "trim"
  /\ job' = [job EXCEPT ![t] = [@ EXCEPT !.step = "store",
                                        !.dropped = Beyond(snapshots \cup {job[t].stamp})]]
  /\ UNCHANGED edits /\ UNCHANGED <<now, snapshots, taken, claims, newest>>

\* It commits.  Nothing asks whether the report is still there.
Store(t) ==
  /\ job[t].step = "store"
  /\ snapshots' = (snapshots \cup {job[t].stamp}) \ job[t].dropped
  /\ newest' = IF job[t].stamp > newest THEN job[t].stamp ELSE newest
  /\ job' = [job EXCEPT ![t] = NoJob]
  /\ UNCHANGED edits /\ UNCHANGED <<now, taken, claims>>

\* The process stops; a claim it made is not given back.  Before the claim nothing is
\* lost that the next scan does not find again.
Crash(t) ==
  /\ job[t].step \in {"run", "trim", "store"}
  /\ job' = [job EXCEPT ![t] = NoJob]
  /\ UNCHANGED edits /\ UNCHANGED <<now, snapshots, taken, claims, newest>>

Tick ==
  /\ now < MaxNow
  /\ now' = now + 1
  /\ UNCHANGED edits /\ UNCHANGED refreshes

-----------------------------------------------------------------------------
Edit(p) == Open(p) \/ Update(p) \/ Rename(p) \/ Share(p) \/ SetSchedule(p) \/ Accept(p)
           \/ AddCard(p) \/ UpdateAdded(p) \/ Commit(p)

Take(t) == RunCards(t) \/ RunFails(t) \/ Trim(t) \/ Store(t)

Refresh(w) == Scan(w) \/ Claim(w) \/ Take(w)

Next == \/ \E p \in Person : Edit(p)
        \/ Delete
        \/ \E w \in Workers : Refresh(w)
        \/ \E h \in Hands : TakeByHand(h) \/ Take(h)
        \/ \E t \in Takers : Crash(t)
        \/ Tick

Spec == Init /\ [][Next]_vars

\* The scheduler's loop runs for as long as its process does: it wakes every
\* SCHEDULER_TICK_SECONDS, and every store call and card run returns or raises.
FairSpec == Spec /\ \A w \in Workers : WF_vars(Refresh(w))
=============================================================================
