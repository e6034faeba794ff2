-------------------------- MODULE ReportsProperties --------------------------
(***************************************************************************)
(* What a shared report and its schedule must keep to, and what its        *)
(* documents say of it that the code does not do.                          *)
(***************************************************************************)
EXTENDS Reports

Texts == [version : Nat \ {0}, title : Nat \ {0}, cards : Nat \ {0}]

Kinds == {"versioned", "unversioned"}

Tasks == [step : {"idle", "added", "commit"}, saved : Report, sent : Texts,
          kind : Kinds \cup {"none"}]

Jobs == [step : {"idle", "claim", "run", "trim", "store"}, now : Nat, read : Report,
         stamp : Nat, dropped : SUBSET Nat]

Claims == [turn : Nat, version : Nat \ {0}, number : Nat, at : Nat]

\* Every variable keeps its type.
TypeOK ==
  /\ now \in Nat
  /\ live \in BOOLEAN
  /\ report \in Report
  /\ view \in [Person -> Texts]
  /\ task \in [Person -> Tasks]
  /\ job \in [Takers -> Jobs]
  /\ snapshots \subseteq Nat /\ taken \in Nat
  /\ by \in Person /\ how \in Kinds
  /\ claims \subseteq Claims
  /\ newest \in Nat

\* A report has a next refresh exactly when it has a schedule, whoever wrote the two last.
ScheduleHasNext == report.next = Never <=> report.schedule = "off"

\* While nobody saves the report, no turn of its schedule is taken twice, whatever the
\* workers read and however they interleave (service.py, run_due).
TurnTakenOncePerVersion ==
  \A c, d \in claims : c.turn = d.turn /\ c.version = d.version => c = d

\* After downtime a worker does not catch up run by run: of the turns one version claimed
\* in time with the clock, no two were due at one reading of it (service.py, run_due).
NoCatchingUp ==
  \A c, d \in claims : c.version = d.version /\ c.at = d.at => c = d

\* The strongest bound the store keeps: the Kept latest snapshots, and one further per other
\* transaction that stored its own at the same time (store.py, SqlSnapshotStore.save).  The
\* documents promise Kept alone, SnapshotsKept below.
SnapshotsBounded == Cardinality(snapshots) <= Kept + Cardinality(Takers) - 1

\* The latest snapshot stored is never dropped while the report is there, in whatever order
\* snapshots taken at the same time are stored.
LatestSnapshotKept == live /\ newest # 0 => newest \in snapshots

\* A report that is due is claimed, deleted or no longer due in the end, whatever crashes
\* and saves happen.
DueIsTaken ==
  (live /\ report.next # Never /\ report.next <= now)
    ~> (~live \/ report.next = Never \/ report.next > now)

\* A record without the time of its next refresh.
DocOf(r) == [version |-> r.version, title |-> r.title, cards |-> r.cards, basis |-> r.basis,
             people |-> r.people, schedule |-> r.schedule]

\* A shared report: every change is made by someone who may make it when it is stored, from
\* the version it replaces, and changes nothing else.
Doc == INSTANCE SharedReport WITH doc <- DocOf(report)
KeepsChanges == Doc!SSpec

-----------------------------------------------------------------------------
(***************************************************************************)
(* What the documents say.                                                 *)
(***************************************************************************)
\* service.py:337-338 and architecture.md:490-491: a claim moves the next refresh on, so no
\* refresh is taken twice.
TurnTakenOnce == \A c, d \in claims : c.turn = d.turn => c = d

\* security.md:109-111: snapshots are deleted with the report.
SnapshotsGoWithReport == ~live => snapshots = {}

\* security.md:109-110, architecture.md:486-487 and store.py:127-128: a report keeps its 30
\* most recent snapshots; storing one drops the oldest beyond them.
SnapshotsKept == Cardinality(snapshots) <= Kept
=============================================================================
