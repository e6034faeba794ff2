----------------------------- MODULE ReportsProofs -----------------------------
(***************************************************************************)
(* Proofs about Reports, for any people, workers, schedules and bounds:    *)
(* a shared report is changed only as SharedReport allows, its schedule    *)
(* and its next refresh agree, one version takes a turn once, the latest   *)
(* snapshot is kept, and the store never holds more than the ones kept and *)
(* one further per other transaction.                                      *)
(***************************************************************************)
EXTENDS ReportsProperties, FiniteSetTheorems, WellFoundedInduction, TLAPS

USE PeopleAssumption, IntervalAssumption, KeptAssumption

Agree(r) == r.next = Never <=> r.schedule = "off"

\* A text is no newer than the stored one, and the stored one if it names its version.
Current(text) ==
  /\ text.version <= report.version
  /\ text.version = report.version => text = TextOf(report)
  /\ text.title <= text.version /\ text.cards <= text.version

\* One person's change of r, as SharedReport has it.
Changes(p, r, saved, kind) ==
  /\ p = Owner \/ r.people[p] = "editor"
  /\ \/ /\ kind \in Kinds
        /\ saved.basis = r.basis /\ saved.people = r.people /\ saved.schedule = r.schedule
        /\ kind = "versioned" => /\ saved.title \in {r.title, r.version + 1}
                                 /\ saved.cards \in {r.cards, r.version + 1}
     \/ /\ kind = "versioned"
        /\ saved.title = r.title /\ saved.cards = r.cards /\ saved.people = r.people
        /\ \/ saved.basis = r.version + 1 /\ saved.schedule = r.schedule
           \/ saved.basis = r.basis
     \/ /\ kind = "versioned" /\ p = Owner
        /\ saved.title = r.title /\ saved.cards = r.cards /\ saved.basis = r.basis
        /\ saved.schedule = r.schedule

\* What a request holds: a text that is current, or a record to store. While the version the
\* record was made from is stored, it is a change of the stored record.
Prepares(p, r) ==
  /\ r.step = "added" => Current(r.sent)
  /\ r.step = "commit" =>
       /\ Agree(r.saved)
       /\ r.saved.title <= r.saved.version /\ r.saved.cards <= r.saved.version
       /\ r.saved.version <= report.version + 1
       /\ r.saved.version = report.version + 1 => Changes(p, report, r.saved, r.kind)

EditsInv ==
  /\ Agree(report) /\ Current(TextOf(report))
  /\ \A p \in Person : Current(view[p]) /\ Prepares(p, task[p])

\* What a refresh holds: a report that was due, and snapshots to drop that are not the latest.
Works(j) ==
  /\ j.step = "claim" => Agree(j.read) /\ j.read.next # Never /\ j.read.next <= j.now
  /\ j.step = "store" => \A d \in j.dropped : d < newest \/ d < j.stamp

RefreshInv ==
  /\ \A t \in Takers : Works(job[t])
  /\ \A s \in snapshots : s <= newest
  /\ LatestSnapshotKept

\* The turns taken of the stored version are behind its next refresh, and so are the times
\* they were taken at.
ClaimsInv ==
  /\ IsFiniteSet(claims)
  /\ \A c \in claims :
       /\ c.version <= report.version
       /\ c.version = report.version =>
            report.next # Never /\ c.turn < report.next /\ c.at < report.next
  /\ TurnTakenOncePerVersion /\ NoCatchingUp

IInv == TypeOK /\ EditsInv /\ RefreshInv /\ ClaimsInv

-----------------------------------------------------------------------------
LEMMA NewTyped == NewReport \in Report /\ TextOf(NewReport) \in Texts /\ NoTask \in Tasks /\ NoJob \in Jobs
BY DEF NewReport, Report, TextOf, Texts, NoTask, Tasks, Kinds, NoJob, Jobs, Schedule, Role, Never

LEMMA TextTyped == ASSUME NEW r \in Report PROVE TextOf(r) \in Texts
BY DEF TextOf, Texts, Report

LEMMA InitInv == Init => IInv
<1> SUFFICES ASSUME Init PROVE IInv
  OBVIOUS
<1>1. TypeOK
  BY NewTyped DEF Init, TypeOK, Kinds
<1>2. EditsInv
  BY DEF Init, EditsInv, Agree, Current, Prepares, NewReport, TextOf, NoTask, Never
<1>3. RefreshInv
  BY DEF Init, RefreshInv, Works, NoJob, LatestSnapshotKept
<1>4. ClaimsInv
  BY FS_EmptySet DEF Init, ClaimsInv, TurnTakenOncePerVersion, NoCatchingUp
<1> QED
  BY <1>1, <1>2, <1>3, <1>4 DEF IInv

LEMMA FollowingTyped ==
  ASSUME report \in Report PROVE Following \in Nat \ {0} /\ Following = report.version + 1
BY DEF Following, Report

-----------------------------------------------------------------------------
\* A request goes on while the report stays as it is.
LEMMA RequestMoves ==
  ASSUME IInv, NEW p \in Person, NEW r \in Tasks, Prepares(p, r),
         task' = [task EXCEPT ![p] = r], UNCHANGED <<now, live, report, view, by, how>>,
         UNCHANGED refreshes
  PROVE  IInv'
<1>1. TypeOK'
  BY DEF IInv, TypeOK, refreshes
<1>2. EditsInv'
  BY DEF IInv, TypeOK, EditsInv, Agree, Current, Prepares, Changes
<1>3. RefreshInv'
  BY DEF IInv, RefreshInv, Works, LatestSnapshotKept, refreshes
<1>4. ClaimsInv'
  BY DEF IInv, ClaimsInv, TurnTakenOncePerVersion, NoCatchingUp, refreshes
<1> QED
  BY <1>1, <1>2, <1>3, <1>4 DEF IInv

\* A record prepared from the stored one, by someone who may change it.
LEMMA PreparedKeeps ==
  ASSUME IInv, NEW p \in Person, NEW saved \in Report, NEW kind \in Kinds,
         Prepared(p, saved, kind), Agree(saved), saved.version = report.version + 1,
         saved.title <= saved.version, saved.cards <= saved.version,
         Changes(p, report, saved, kind)
  PROVE  IInv'
<1> DEFINE r == [NoTask EXCEPT !.step = "commit", !.saved = saved, !.kind = kind]
<1>1. r \in Tasks /\ r.step = "commit" /\ r.saved = saved /\ r.kind = kind
  BY NewTyped DEF Tasks, NoTask, Kinds
<1>2. Prepares(p, r)
  BY <1>1 DEF Prepares, IInv, TypeOK, Report
<1> QED
  BY <1>1, <1>2, RequestMoves DEF Prepared

LEMMA EndedKeeps ==
  ASSUME IInv, NEW p \in Person, Ended(p)
  PROVE  IInv'
<1>1. NoTask \in Tasks /\ Prepares(p, NoTask)
  BY NewTyped DEF Prepares, NoTask
<1> QED
  BY <1>1, RequestMoves DEF Ended

LEMMA OpenKeeps == ASSUME IInv, NEW p \in Person, Open(p) PROVE IInv'
<1>1. TypeOK'
  BY TextTyped DEF IInv, TypeOK, Open, refreshes
<1>2. EditsInv'
  BY DEF IInv, TypeOK, EditsInv, Open, Agree, Current, Prepares, Changes
<1>3. RefreshInv'
  BY DEF IInv, RefreshInv, Works, LatestSnapshotKept, refreshes, Open
<1>4. ClaimsInv'
  BY DEF IInv, ClaimsInv, TurnTakenOncePerVersion, NoCatchingUp, refreshes, Open
<1> QED
  BY <1>1, <1>2, <1>3, <1>4 DEF IInv

LEMMA UpdateKeeps == ASSUME IInv, NEW p \in Person, Update(p) PROVE IInv'
<1> PICK kind \in Kinds, title \in {view[p].title, Following}, cards \in {view[p].cards, Following} :
      /\ kind = "versioned" => VersionMatches(view[p])
      /\ Prepared(p, [report EXCEPT !.version = Following, !.title = title, !.cards = cards], kind)
  BY DEF Update, Kinds
<1> DEFINE saved == [report EXCEPT !.version = Following, !.title = title, !.cards = cards]
<1>1. report \in Report /\ view[p] \in Texts /\ Current(view[p]) /\ Agree(report)
  BY DEF IInv, TypeOK, EditsInv
<1>2. saved \in Report /\ saved.version = report.version + 1 /\ Agree(saved)
  BY <1>1, FollowingTyped DEF Report, Texts, Agree
<1>3. saved.title <= saved.version /\ saved.cards <= saved.version
  BY <1>1 DEF Report, Texts, Following, Current
<1>4. Changes(p, report, saved, kind)
  BY <1>1 DEF Changes, Update, Asks, CanEdit, Report, Texts, Following, Current, VersionMatches, TextOf
<1>5. Prepared(p, saved, kind)
  OBVIOUS
<1> HIDE DEF saved
<1> QED
  BY <1>2, <1>3, <1>4, <1>5, PreparedKeeps

LEMMA RenameKeeps == ASSUME IInv, NEW p \in Person, Rename(p) PROVE IInv'
<1> DEFINE saved == [report EXCEPT !.version = Following, !.title = Following]
<1>1. report \in Report /\ Current(TextOf(report)) /\ Agree(report)
  BY DEF IInv, TypeOK, EditsInv
<1>2. saved \in Report /\ saved.version = report.version + 1 /\ Agree(saved)
  BY <1>1, FollowingTyped DEF Report, Agree
<1>3. saved.title <= saved.version /\ saved.cards <= saved.version
  BY <1>1 DEF Report, Following, Current, TextOf
<1>4. Changes(p, report, saved, "versioned") /\ "versioned" \in Kinds
  BY <1>1 DEF Changes, Rename, Asks, CanEdit, Report, Following, Kinds
<1>5. Prepared(p, saved, "versioned")
  BY DEF Rename
<1> HIDE DEF saved
<1> QED
  BY <1>2, <1>3, <1>4, <1>5, PreparedKeeps

LEMMA ShareKeeps == ASSUME IInv, NEW p \in Person, Share(p) PROVE IInv'
<1> PICK people \in [Person -> Role] :
      Prepared(p, [report EXCEPT !.version = Following, !.people = people], "versioned")
  BY DEF Share
<1> DEFINE saved == [report EXCEPT !.version = Following, !.people = people]
<1>1. report \in Report /\ Current(TextOf(report)) /\ Agree(report)
  BY DEF IInv, TypeOK, EditsInv
<1>2. saved \in Report /\ saved.version = report.version + 1 /\ Agree(saved)
  BY <1>1, FollowingTyped DEF Report, Agree
<1>3. saved.title <= saved.version /\ saved.cards <= saved.version
  BY <1>1 DEF Report, Following, Current, TextOf
<1>4. Changes(p, report, saved, "versioned") /\ "versioned" \in Kinds
  BY <1>1 DEF Changes, Share, Report, Following, Kinds
<1>5. Prepared(p, saved, "versioned")
  OBVIOUS
<1> HIDE DEF saved
<1> QED
  BY <1>2, <1>3, <1>4, <1>5, PreparedKeeps

LEMMA SetScheduleKeeps == ASSUME IInv, NEW p \in Person, SetSchedule(p) PROVE IInv'
<1> PICK s \in Schedule :
      Prepared(p, [report EXCEPT !.version = Following, !.schedule = s, !.next = FirstTurn(s)], "versioned")
  BY DEF SetSchedule
<1> DEFINE saved == [report EXCEPT !.version = Following, !.schedule = s, !.next = FirstTurn(s)]
<1>1. report \in Report /\ Current(TextOf(report)) /\ now \in Nat
  BY DEF IInv, TypeOK, EditsInv
<1>2. FirstTurn(s) \in Nat \cup {Never} /\ (FirstTurn(s) = Never <=> s = "off")
  BY <1>1 DEF FirstTurn, Schedule, Never
<1>3. saved \in Report /\ saved.version = report.version + 1 /\ Agree(saved)
  BY <1>1, <1>2, FollowingTyped DEF Report, Agree
<1>4. saved.title <= saved.version /\ saved.cards <= saved.version
  BY <1>1 DEF Report, Following, Current, TextOf
<1>5. Changes(p, report, saved, "versioned") /\ "versioned" \in Kinds
  BY <1>1 DEF Changes, SetSchedule, Asks, CanEdit, Report, Following, Kinds
<1>6. Prepared(p, saved, "versioned")
  OBVIOUS
<1> HIDE DEF saved
<1> QED
  BY <1>3, <1>4, <1>5, <1>6, PreparedKeeps

LEMMA AcceptKeeps == ASSUME IInv, NEW p \in Person, Accept(p) PROVE IInv'
<1> DEFINE saved == [report EXCEPT !.version = Following, !.basis = Following]
<1>1. report \in Report /\ Current(TextOf(report)) /\ Agree(report)
  BY DEF IInv, TypeOK, EditsInv
<1>2. saved \in Report /\ saved.version = report.version + 1 /\ Agree(saved)
  BY <1>1, FollowingTyped DEF Report, Agree
<1>3. saved.title <= saved.version /\ saved.cards <= saved.version
  BY <1>1 DEF Report, Following, Current, TextOf
<1>4. Changes(p, report, saved, "versioned") /\ "versioned" \in Kinds
  BY <1>1 DEF Changes, Accept, Asks, CanEdit, Report, Following, Kinds
<1>5. Prepared(p, saved, "versioned")
  BY DEF Accept
<1> HIDE DEF saved
<1> QED
  BY <1>2, <1>3, <1>4, <1>5, PreparedKeeps

LEMMA AddCardKeeps == ASSUME IInv, NEW p \in Person, AddCard(p) PROVE IInv'
<1> DEFINE r == [NoTask EXCEPT !.step = "added", !.sent = TextOf(report)]
<1>1. r \in Tasks /\ r.step = "added" /\ r.sent = TextOf(report)
  BY NewTyped, TextTyped DEF Tasks, NoTask, IInv, TypeOK
<1>2. Prepares(p, r)
  BY <1>1 DEF Prepares, IInv, EditsInv
<1> QED
  BY <1>1, <1>2, RequestMoves DEF AddCard

LEMMA UpdateAddedKeeps == ASSUME IInv, NEW p \in Person, UpdateAdded(p) PROVE IInv'
<1> DEFINE sent == task[p].sent
           saved == [report EXCEPT !.version = Following, !.title = sent.title, !.cards = Following]
<1>1. report \in Report /\ sent \in Texts /\ Agree(report) /\ Current(sent)
  BY DEF IInv, TypeOK, EditsInv, Prepares, Tasks, UpdateAdded
<1>2. CASE CanEdit(p) /\ VersionMatches(sent)
  <2>1. saved \in Report /\ saved.version = report.version + 1 /\ Agree(saved)
    BY <1>1, FollowingTyped DEF Report, Texts, Agree
  <2>2. saved.title <= saved.version /\ saved.cards <= saved.version
    BY <1>1 DEF Report, Texts, Following, Current
  <2>3. Changes(p, report, saved, "versioned") /\ "versioned" \in Kinds
    BY <1>1, <1>2 DEF Changes, CanEdit, Report, Texts, Following, Current, VersionMatches, TextOf, Kinds
  <2>4. Prepared(p, saved, "versioned")
    BY <1>2 DEF UpdateAdded
  <2> HIDE DEF saved
  <2> QED
    BY <2>1, <2>2, <2>3, <2>4, PreparedKeeps
<1>3. CASE ~(CanEdit(p) /\ VersionMatches(sent))
  BY <1>3, EndedKeeps DEF UpdateAdded
<1> QED
  BY <1>2, <1>3

LEMMA CommitKeeps == ASSUME IInv, NEW p \in Person, Commit(p) PROVE IInv'
<1> DEFINE saved == task[p].saved
<1>1. /\ saved \in Report /\ NoTask \in Tasks /\ task[p].kind \in Kinds \cup {"none"}
      /\ Prepares(p, task[p]) /\ task[p].step = "commit"
  BY NewTyped DEF IInv, TypeOK, EditsInv, Tasks, Commit
<1>2. CASE StillAt(saved)
  <2>1. /\ report' = saved /\ how' = task[p].kind /\ by' = p
        /\ view' = [view EXCEPT ![p] = TextOf(saved)]
        /\ task' = [task EXCEPT ![p] = NoTask]
        /\ UNCHANGED <<now, live>> /\ UNCHANGED refreshes
    BY <1>2 DEF Commit
  <2>2. saved.version = report.version + 1
    BY <1>1, <1>2 DEF StillAt, Report, IInv, TypeOK
  <2>3. TypeOK'
    <3>1. how' \in Kinds
      BY <1>1, <2>1, <2>2 DEF Prepares, Changes, Kinds
    <3> QED
      BY <1>1, <2>1, <3>1, TextTyped DEF IInv, TypeOK, refreshes
  <2>4. Agree(saved) /\ saved.title <= saved.version /\ saved.cards <= saved.version
    BY <1>1 DEF Prepares
  <2>5. EditsInv'
    <3>1. Agree(report)' /\ Current(TextOf(report))'
      BY <2>1, <2>4, <1>1 DEF Agree, Current, TextOf, Report
    <3>2. ASSUME NEW q \in Person PROVE Current(view[q])'
      <4>1. CASE q = p
        BY <4>1, <2>1, <3>1 DEF Current, IInv, TypeOK
      <4>2. CASE q # p
        <5>1. view'[q] = view[q] /\ Current(view[q]) /\ view[q] \in Texts
          BY <4>2, <2>1 DEF IInv, TypeOK, EditsInv
        <5> QED
          BY <5>1, <2>1, <2>2 DEF Current, Texts, IInv, TypeOK, Report
      <4> QED
        BY <4>1, <4>2
    <3>3. ASSUME NEW q \in Person PROVE Prepares(q, task[q])'
      <4>1. CASE q = p
        BY <4>1, <2>1 DEF Prepares, NoTask, IInv, TypeOK
      <4>2. CASE q # p
        <5>1. task'[q] = task[q] /\ Prepares(q, task[q]) /\ task[q] \in Tasks
          BY <4>2, <2>1 DEF IInv, TypeOK, EditsInv
        <5> QED
          BY <5>1, <2>1, <2>2 DEF Prepares, Current, Tasks, Texts, IInv, TypeOK, Report
      <4> QED
        BY <4>1, <4>2
    <3> QED
      BY <3>1, <3>2, <3>3 DEF EditsInv
  <2>6. RefreshInv'
    BY <2>1 DEF IInv, RefreshInv, Works, LatestSnapshotKept, refreshes
  <2>7. ClaimsInv'
    <3>1. \A c \in claims : c.version <= report.version /\ c.version \in Nat
      BY DEF IInv, ClaimsInv, TypeOK, Claims
    <3>2. \A c \in claims : c.version <= saved.version /\ c.version # saved.version
      BY <3>1, <2>2 DEF IInv, TypeOK, Report
    <3> QED
      BY <3>2, <2>1 DEF IInv, ClaimsInv, TurnTakenOncePerVersion, NoCatchingUp, refreshes
  <2> QED
    BY <2>3, <2>5, <2>6, <2>7 DEF IInv
<1>3. CASE ~StillAt(saved)
  BY <1>3, EndedKeeps DEF Commit, Ended
<1> QED
  BY <1>2, <1>3

LEMMA DeleteKeeps == ASSUME IInv, Delete PROVE IInv'
<1>1. TypeOK'
  BY DEF IInv, TypeOK, Delete
<1>2. EditsInv'
  BY DEF IInv, EditsInv, Delete, Agree, Current, Prepares, Changes
<1>3. RefreshInv'
  BY DEF IInv, RefreshInv, Works, LatestSnapshotKept, Delete
<1>4. ClaimsInv'
  BY DEF IInv, ClaimsInv, TurnTakenOncePerVersion, NoCatchingUp, Delete
<1> QED
  BY <1>1, <1>2, <1>3, <1>4 DEF IInv

-----------------------------------------------------------------------------
\* A refresh goes on while the report, its turns and its snapshots stay as they are.
LEMMA JobMoves ==
  ASSUME IInv, NEW t \in Takers, NEW j \in Jobs, Works(j),
         job' = [job EXCEPT ![t] = j], taken' \in Nat,
         UNCHANGED edits, UNCHANGED <<now, snapshots, claims, newest>>
  PROVE  IInv'
<1>1. TypeOK'
  BY DEF IInv, TypeOK, edits
<1>2. EditsInv'
  BY DEF IInv, EditsInv, edits, Agree, Current, Prepares, Changes
<1>3. RefreshInv'
  BY DEF IInv, TypeOK, RefreshInv, Works, Agree, LatestSnapshotKept, edits
<1>4. ClaimsInv'
  BY DEF IInv, ClaimsInv, TurnTakenOncePerVersion, NoCatchingUp, edits
<1> QED
  BY <1>1, <1>2, <1>3, <1>4 DEF IInv

LEMMA JobDropped ==
  ASSUME IInv, NEW t \in Takers, job' = [job EXCEPT ![t] = NoJob],
         UNCHANGED edits, UNCHANGED <<now, snapshots, taken, claims, newest>>
  PROVE  IInv'
<1>1. NoJob \in Jobs /\ Works(NoJob) /\ taken \in Nat
  BY NewTyped DEF Works, NoJob, IInv, TypeOK
<1> QED
  BY <1>1, JobMoves

LEMMA ScanKeeps == ASSUME IInv, NEW w \in Takers, Scan(w) PROVE IInv'
<1> DEFINE j == [NoJob EXCEPT !.step = "claim", !.now = now, !.read = report]
<1>1. /\ j \in Jobs /\ j.step = "claim" /\ j.now = now /\ j.read = report
      /\ taken \in Nat
  BY NewTyped DEF Jobs, NoJob, IInv, TypeOK
<1>2. Works(j)
  BY <1>1 DEF Works, Scan, Due, IInv, EditsInv
<1> QED
  BY <1>1, <1>2, JobMoves DEF Scan

LEMMA TakeByHandKeeps == ASSUME IInv, NEW h \in Takers, TakeByHand(h) PROVE IInv'
<1> DEFINE j == [NoJob EXCEPT !.step = "run"]
<1>1. j \in Jobs /\ Works(j) /\ taken \in Nat
  BY NewTyped DEF Jobs, NoJob, IInv, TypeOK, Works
<1> QED
  BY <1>1, JobMoves DEF TakeByHand

LEMMA RunCardsKeeps == ASSUME IInv, NEW t \in Takers, RunCards(t) PROVE IInv'
<1> DEFINE j == [job[t] EXCEPT !.step = "trim", !.stamp = taken + 1]
<1>1. job[t] \in Jobs /\ taken + 1 \in Nat
  BY DEF IInv, TypeOK
<1>2. j \in Jobs /\ j.step = "trim"
  BY <1>1 DEF Jobs
<1>3. Works(j)
  BY <1>2 DEF Works
<1> QED
  BY <1>1, <1>2, <1>3, JobMoves DEF RunCards

\* Whatever is dropped has a later snapshot that is not.
LEMMA BeyondIsOlder ==
  ASSUME NEW stamps \in SUBSET Nat, NEW d \in Beyond(stamps)
  PROVE  d \in stamps /\ \E o \in stamps : o > d
<1>1. Cardinality({o \in stamps : o > d}) >= Kept
  BY DEF Beyond
<1>2. {o \in stamps : o > d} # {}
  BY <1>1, FS_EmptySet
<1> QED
  BY <1>2 DEF Beyond

LEMMA TrimKeeps == ASSUME IInv, NEW t \in Takers, Trim(t) PROVE IInv'
<1> DEFINE stamps == snapshots \cup {job[t].stamp}
           j == [job[t] EXCEPT !.step = "store", !.dropped = Beyond(stamps)]
<1>1. job[t] \in Jobs /\ stamps \in SUBSET Nat /\ newest \in Nat /\ taken \in Nat
  BY DEF Jobs, IInv, TypeOK
<1>2. Beyond(stamps) \in SUBSET Nat
  BY <1>1 DEF Beyond
<1>3. j \in Jobs /\ j.step = "store" /\ j.dropped = Beyond(stamps) /\ j.stamp = job[t].stamp
  BY <1>1, <1>2 DEF Jobs
<1>4. \A d \in Beyond(stamps) : d < newest \/ d < job[t].stamp
  <2> SUFFICES ASSUME NEW d \in Beyond(stamps) PROVE d < newest \/ d < job[t].stamp
    OBVIOUS
  <2>1. PICK o \in stamps : o > d
    BY <1>1, BeyondIsOlder
  <2>2. o = job[t].stamp \/ o <= newest
    BY DEF IInv, RefreshInv
  <2> QED
    BY <1>1, <1>2, <2>1, <2>2
<1>5. Works(j)
  BY <1>3, <1>4 DEF Works
<1> HIDE DEF j
<1> QED
  BY <1>1, <1>3, <1>5, JobMoves DEF Trim, j

LEMMA StoreKeeps == ASSUME IInv, NEW t \in Takers, Store(t) PROVE IInv'
<1>1. /\ job[t] \in Jobs /\ job[t].step = "store" /\ Works(job[t])
      /\ newest \in Nat /\ NoJob \in Jobs /\ snapshots \subseteq Nat
      /\ \A s \in snapshots : s <= newest
      /\ LatestSnapshotKept
  BY NewTyped DEF IInv, TypeOK, RefreshInv, Store
<1> DEFINE stamp == job[t].stamp
           dropped == job[t].dropped
<1>2. stamp \in Nat /\ dropped \in SUBSET Nat /\ \A d \in dropped : d < newest \/ d < stamp
  BY <1>1 DEF Jobs, Works
<1>3. /\ snapshots' = (snapshots \cup {stamp}) \ dropped
      /\ newest' = IF stamp > newest THEN stamp ELSE newest
      /\ job' = [job EXCEPT ![t] = NoJob]
      /\ UNCHANGED edits /\ UNCHANGED <<now, taken, claims>>
  BY DEF Store
<1> HIDE DEF stamp, dropped
<1>8. /\ newest' \in Nat /\ newest <= newest' /\ stamp <= newest'
      /\ newest' = newest \/ (newest' = stamp /\ stamp > newest)
  BY <1>1, <1>2, <1>3
<1>4. TypeOK'
  BY <1>1, <1>2, <1>3, <1>8 DEF IInv, TypeOK, edits
<1>5. EditsInv'
  BY <1>3 DEF IInv, EditsInv, edits, Agree, Current, Prepares, Changes
<1>6. RefreshInv'
  <2>1. \A s \in snapshots' : s <= newest'
    <3>1. \A s \in snapshots : s <= newest'
      BY <1>1, <1>8
    <3> QED
      BY <3>1, <1>3, <1>8
  <2>2. LatestSnapshotKept'
    BY <1>1, <1>2, <1>3, <1>8 DEF LatestSnapshotKept, edits
  <2>3. ASSUME NEW u \in Takers PROVE Works(job[u])'
    <3>1. CASE u = t
      BY <3>1, <1>3 DEF Works, NoJob, IInv, TypeOK
    <3>2. CASE u # t
      <4>1. job'[u] = job[u] /\ job[u] \in Jobs /\ Works(job[u])
        BY <3>2, <1>3 DEF IInv, TypeOK, RefreshInv
      <4> QED
        BY <4>1, <1>1, <1>3, <1>8 DEF Works, Jobs, Agree
    <3> QED
      BY <3>1, <3>2
  <2> QED
    BY <2>1, <2>2, <2>3 DEF RefreshInv
<1>7. ClaimsInv'
  BY <1>3 DEF IInv, ClaimsInv, TurnTakenOncePerVersion, NoCatchingUp, edits
<1> QED
  BY <1>4, <1>5, <1>6, <1>7 DEF IInv

-----------------------------------------------------------------------------
\* The turn after one that was due lies ahead of it and of the clock.
LEMMA NextTurnAhead ==
  ASSUME NEW read \in Report, NEW at \in Nat, Agree(read), read.next # Never
  PROVE  /\ NextTurn(read, at) \in Nat
         /\ NextTurn(read, at) > read.next /\ NextTurn(read, at) > at
<1>1. read.next \in Nat /\ read.schedule # "off" /\ Interval[read.schedule] \in Nat \ {0}
  BY DEF Agree, Report, Schedule
<1> QED
  BY <1>1 DEF NextTurn

LEMMA ClaimKeeps == ASSUME IInv, NEW w \in Takers, Claim(w) PROVE IInv'
<1> DEFINE read == job[w].read
           at == job[w].now
<1>1. /\ job[w] \in Jobs /\ read \in Report /\ at \in Nat
      /\ Agree(read) /\ read.next # Never /\ read.next <= at
      /\ report \in Report /\ Agree(report) /\ NoJob \in Jobs
  BY NewTyped DEF IInv, TypeOK, EditsInv, RefreshInv, Works, Claim, Jobs
<1>2. CASE Unclaimed(read)
  <2> DEFINE turn == NextTurn(read, at)
             j == [NoJob EXCEPT !.step = "run"]
             claim == [turn |-> read.next, version |-> report.version,
                       number |-> Cardinality(claims), at |-> at]
  <2>1. /\ report' = [report EXCEPT !.next = turn]
        /\ job' = [job EXCEPT ![w] = j]
        /\ claims' = claims \cup {claim}
        /\ UNCHANGED <<now, live, view, task, by, how, snapshots, taken, newest>>
    BY <1>2 DEF Claim
  <2>2. turn \in Nat /\ turn > read.next /\ turn > at /\ turn # Never
    BY <1>1, NextTurnAhead DEF Never
  <2>3. /\ read.next = report.next /\ read.next \in Nat
        /\ j \in Jobs /\ Works(j)
    BY <1>1, <1>2 DEF Unclaimed, Report, Never, Jobs, NoJob, Works
  <2> HIDE DEF turn, j
  <2>4. /\ report' \in Report /\ report'.next = turn /\ report'.version = report.version
        /\ report'.title = report.title /\ report'.cards = report.cards
        /\ report'.basis = report.basis /\ report'.people = report.people
        /\ report'.schedule = report.schedule
    BY <1>1, <2>1, <2>2 DEF Report
  <2>5. claim \in Claims /\ claim.turn = read.next /\ claim.version = report.version /\ claim.at = at
    <3>1. Cardinality(claims) \in Nat
      BY FS_CardinalityType DEF IInv, ClaimsInv
    <3> QED
      BY <3>1, <1>1, <2>3 DEF Claims, Report
  <2> HIDE DEF claim
  <2>6. TypeOK'
    BY <2>1, <2>3, <2>4, <2>5 DEF IInv, TypeOK
  <2>7. EditsInv'
    <3>1. Agree(report)'
      BY <1>1, <2>2, <2>3, <2>4 DEF Agree
    <3>2. TextOf(report)' = TextOf(report)
      BY <2>4 DEF TextOf
    <3>3. \A text : Current(text) => Current(text)'
      BY <2>4, <3>2 DEF Current
    <3>4. \A p \in Person : Prepares(p, task[p]) => Prepares(p, task[p])'
      BY <2>1, <2>4, <3>2 DEF Prepares, Changes, Agree, Current
    <3> QED
      BY <2>1, <3>1, <3>2, <3>3, <3>4 DEF IInv, EditsInv, Current
  <2>8. RefreshInv'
    BY <2>1, <2>3 DEF IInv, TypeOK, RefreshInv, Works, Agree, LatestSnapshotKept
  <2>9. ClaimsInv'
    <3>1. \A c \in claims : /\ c \in Claims /\ c.version <= report.version
                            /\ c.version = report.version => c.turn < read.next /\ c.at < read.next
      BY <2>3 DEF IInv, TypeOK, ClaimsInv
    <3>2. IsFiniteSet(claims')
      BY <2>1, FS_AddElement DEF IInv, ClaimsInv
    <3>3. \A c \in claims' : /\ c.version <= report'.version
                             /\ c.version = report'.version =>
                                  report'.next # Never /\ c.turn < report'.next /\ c.at < report'.next
      <4> SUFFICES ASSUME NEW c \in claims'
                   PROVE /\ c.version <= report'.version
                         /\ c.version = report'.version =>
                              report'.next # Never /\ c.turn < report'.next /\ c.at < report'.next
        OBVIOUS
      <4>1. CASE c \in claims
        BY <4>1, <3>1, <2>2, <2>3, <2>4 DEF Claims, Report
      <4>2. CASE c = claim
        BY <4>2, <1>1, <2>2, <2>4, <2>5 DEF Report
      <4> QED
        BY <4>1, <4>2, <2>1
    <3>4. \A c \in claims : c.version = claim.version => c.turn # claim.turn /\ c.at # claim.at
      BY <3>1, <1>1, <2>3, <2>5 DEF Claims
    <3>5. TurnTakenOncePerVersion' /\ NoCatchingUp'
      BY <3>4, <2>1 DEF IInv, ClaimsInv, TurnTakenOncePerVersion, NoCatchingUp
    <3> QED
      BY <3>2, <3>3, <3>5 DEF ClaimsInv
  <2> QED
    BY <2>6, <2>7, <2>8, <2>9 DEF IInv
<1>3. CASE ~Unclaimed(read)
  BY <1>3, JobDropped DEF Claim, edits
<1> QED
  BY <1>2, <1>3

LEMMA TickKeeps == ASSUME IInv, Tick PROVE IInv'
<1>1. TypeOK'
  BY DEF IInv, TypeOK, Tick, edits, refreshes
<1>2. EditsInv'
  BY DEF IInv, EditsInv, Tick, edits, Agree, Current, Prepares, Changes
<1>3. RefreshInv'
  BY DEF IInv, RefreshInv, Works, Agree, LatestSnapshotKept, Tick, edits, refreshes
<1>4. ClaimsInv'
  BY DEF IInv, ClaimsInv, TurnTakenOncePerVersion, NoCatchingUp, Tick, edits, refreshes
<1> QED
  BY <1>1, <1>2, <1>3, <1>4 DEF IInv

LEMMA StutterKeeps == ASSUME IInv, UNCHANGED vars PROVE IInv'
<1>1. TypeOK'
  BY DEF IInv, TypeOK, vars
<1>2. EditsInv'
  BY DEF IInv, EditsInv, vars, Agree, Current, Prepares, Changes
<1>3. RefreshInv'
  BY DEF IInv, RefreshInv, Works, Agree, LatestSnapshotKept, vars
<1>4. ClaimsInv'
  BY DEF IInv, ClaimsInv, TurnTakenOncePerVersion, NoCatchingUp, vars
<1> QED
  BY <1>1, <1>2, <1>3, <1>4 DEF IInv

LEMMA TakeKeeps == ASSUME IInv, NEW t \in Takers, Take(t) PROVE IInv'
<1>1. CASE RunCards(t)
  BY <1>1, RunCardsKeeps
<1>2. CASE RunFails(t)
  BY <1>2, JobDropped DEF RunFails
<1>3. CASE Trim(t)
  BY <1>3, TrimKeeps
<1>4. CASE Store(t)
  BY <1>4, StoreKeeps
<1> QED
  BY <1>1, <1>2, <1>3, <1>4 DEF Take

LEMMA NextInv == IInv /\ [Next]_vars => IInv'
<1> SUFFICES ASSUME IInv, [Next]_vars PROVE IInv'
  OBVIOUS
<1>1. ASSUME NEW p \in Person, Edit(p) PROVE IInv'
  BY <1>1, OpenKeeps, UpdateKeeps, RenameKeeps, ShareKeeps, SetScheduleKeeps, AcceptKeeps,
     AddCardKeeps, UpdateAddedKeeps, CommitKeeps DEF Edit
<1>2. CASE Delete
  BY <1>2, DeleteKeeps
<1>3. ASSUME NEW w \in Workers, Refresh(w) PROVE IInv'
  BY <1>3, ScanKeeps, ClaimKeeps, TakeKeeps DEF Refresh, Takers
<1>4. ASSUME NEW h \in Hands, TakeByHand(h) \/ Take(h) PROVE IInv'
  BY <1>4, TakeByHandKeeps, TakeKeeps DEF Takers
<1>5. ASSUME NEW t \in Takers, Crash(t) PROVE IInv'
  BY <1>5, JobDropped DEF Crash
<1>6. CASE Tick
  BY <1>6, TickKeeps
<1>7. CASE UNCHANGED vars
  BY <1>7, StutterKeeps
<1> QED
  BY <1>1, <1>2, <1>3, <1>4, <1>5, <1>6, <1>7 DEF Next

\* What requests and refreshes hold fits the stored record, in every interleaving
\* (ReportService, SqlReportStore, SqlSnapshotStore).
THEOREM Inductive == Spec => []IInv
<1> QED
  BY InitInv, NextInv, PTL DEF Spec

\* Every variable of Reports keeps its type, the records requests carry included.
THEOREM TypeCorrect == Spec => []TypeOK
BY Inductive, PTL DEF IInv

\* A report has a next refresh exactly when it has a schedule, although saves and claims
\* each write one of the two without asking for the other (_commit, claim).
THEOREM ScheduleStays == Spec => []ScheduleHasNext
<1>1. IInv => ScheduleHasNext
  BY DEF IInv, EditsInv, Agree, ScheduleHasNext
<1> QED
  BY <1>1, Inductive, PTL

\* No two workers take one turn of one version (SqlReportStore.claim).
THEOREM TurnsOncePerVersion == Spec => []TurnTakenOncePerVersion
<1>1. IInv => TurnTakenOncePerVersion
  BY DEF IInv, ClaimsInv
<1> QED
  BY <1>1, Inductive, PTL

\* Turns missed while no worker ran are passed over, never taken one by one (run_due).
THEOREM MissedTurnsPass == Spec => []NoCatchingUp
<1>1. IInv => NoCatchingUp
  BY DEF IInv, ClaimsInv
<1> QED
  BY <1>1, Inductive, PTL

\* However storing transactions interleave, none drops the latest snapshot
\* (SqlSnapshotStore.save).
THEOREM LatestStays == Spec => []LatestSnapshotKept
<1>1. IInv => LatestSnapshotKept
  BY DEF IInv, RefreshInv
<1> QED
  BY <1>1, Inductive, PTL

-----------------------------------------------------------------------------
(***************************************************************************)
(* Reports implements SharedReport.                                        *)
(***************************************************************************)
LEMMA InitShared == Init => Doc!SInit
BY DEF Init, Doc!SInit, DocOf, NewReport

\* A step that leaves the record alone, but for its next refresh, is none of SharedReport's.
LEMMA Unshared ==
  ASSUME DocOf(report)' = DocOf(report), UNCHANGED <<live, by, how>>
  PROVE  [Doc!SNext]_(Doc!svars)
BY DEF Doc!svars

LEMMA CommitShared ==
  ASSUME IInv, NEW p \in Person, Commit(p)
  PROVE  [Doc!SNext]_(Doc!svars)
<1> DEFINE saved == task[p].saved
           kind == task[p].kind
           d == DocOf(report)
           d2 == DocOf(report)'
<1>1. /\ report \in Report /\ saved \in Report /\ task[p].step = "commit"
      /\ Prepares(p, task[p])
  BY DEF IInv, TypeOK, EditsInv, Tasks, Commit
<1>2. CASE ~StillAt(saved)
  BY <1>2, Unshared DEF Commit, DocOf
<1>3. CASE StillAt(saved)
  <2>1. /\ report' = saved /\ by' = p /\ how' = kind /\ live /\ UNCHANGED live
        /\ saved.version = report.version + 1
    BY <1>1, <1>3 DEF Commit, StillAt, Report
  <2>2. d2 = [version |-> saved.version, title |-> saved.title, cards |-> saved.cards,
              basis |-> saved.basis, people |-> saved.people, schedule |-> saved.schedule]
    BY <2>1 DEF DocOf
  <2>old. /\ d.version = report.version /\ d.title = report.title /\ d.cards = report.cards
        /\ d.people = report.people /\ d.basis = report.basis /\ d.schedule = report.schedule
        /\ d = DocOf(report) /\ d2 = DocOf(report)'
    BY DEF DocOf
  <2>3. /\ saved.title \in 1..saved.version /\ saved.cards \in 1..saved.version
        /\ saved.people \in [Person -> Role] /\ saved.schedule \in Schedule
    BY <1>1 DEF Prepares, Report
  <2>4. Changes(p, report, saved, kind)
    BY <1>1, <2>1 DEF Prepares
  <2>5. /\ p = Owner \/ d.people[p] = "editor"
        /\ saved.version = d.version + 1
    BY <2>old, <2>1, <2>4 DEF Changes
  <2>6. CASE kind = "unversioned"
    <3>1. saved.basis = d.basis /\ saved.people = d.people /\ saved.schedule = d.schedule
      BY <2>old, <2>4, <2>6 DEF Changes
    <3>2. d2 \in [version : {d.version + 1}, title : 1..(d.version + 1), cards : 1..(d.version + 1),
                  basis : {d.basis}, people : {d.people}, schedule : {d.schedule}]
      BY ONLY <2>2, <2>3, <2>5, <3>1
    <3>3. Doc!Overwrite(p)
      BY <2>1, <2>5, <2>6, <3>2 DEF Doc!Overwrite, Doc!Saved, Doc!MayEdit, Doc!Following
    <3> QED
      BY <3>3 DEF Doc!SNext
  <2>7. CASE kind = "versioned" /\ saved.basis = report.basis /\ saved.people = report.people
             /\ saved.schedule = report.schedule
             /\ saved.title \in {report.title, report.version + 1}
             /\ saved.cards \in {report.cards, report.version + 1}
    <3>1. d2 \in [version : {d.version + 1}, title : {d.title, d.version + 1},
                  cards : {d.cards, d.version + 1}, basis : {d.basis}, people : {d.people},
                  schedule : {d.schedule}]
      BY ONLY <2>old, <2>2, <2>5, <2>7
    <3>2. Doc!Change(p)
      BY <2>1, <2>5, <2>7, <3>1
         DEF Doc!Change, Doc!ChangeText, Doc!Saved, Doc!MayEdit, Doc!Following
    <3> QED
      BY <3>2 DEF Doc!SNext
  <2>8. CASE kind = "versioned" /\ saved.title = report.title /\ saved.cards = report.cards
             /\ saved.people = report.people
             /\ saved.basis = report.version + 1 /\ saved.schedule = report.schedule
    <3>1. d2 \in [version : {d.version + 1}, title : {d.title}, cards : {d.cards},
                  basis : {d.version + 1}, people : {d.people}, schedule : {d.schedule}]
      BY ONLY <2>old, <2>2, <2>5, <2>8
    <3>2. Doc!Change(p)
      BY <2>1, <2>5, <2>8, <3>1
         DEF Doc!Change, Doc!AcceptTables, Doc!Saved, Doc!MayEdit, Doc!Following
    <3> QED
      BY <3>2 DEF Doc!SNext
  <2>9. CASE kind = "versioned" /\ saved.title = report.title /\ saved.cards = report.cards
             /\ saved.people = report.people /\ saved.basis = report.basis
    <3>1. d2 \in [version : {d.version + 1}, title : {d.title}, cards : {d.cards},
                  basis : {d.basis}, people : {d.people}, schedule : Schedule]
      BY ONLY <2>old, <2>2, <2>3, <2>5, <2>9
    <3>2. Doc!Change(p)
      BY <2>1, <2>5, <2>9, <3>1
         DEF Doc!Change, Doc!Reschedule, Doc!Saved, Doc!MayEdit, Doc!Following
    <3> QED
      BY <3>2 DEF Doc!SNext
  <2>10. CASE kind = "versioned" /\ p = Owner /\ saved.title = report.title
              /\ saved.cards = report.cards /\ saved.basis = report.basis
              /\ saved.schedule = report.schedule
    <3>1. d2 \in [version : {d.version + 1}, title : {d.title}, cards : {d.cards},
                  basis : {d.basis}, people : [Person -> Role], schedule : {d.schedule}]
      BY ONLY <2>old, <2>2, <2>3, <2>5, <2>10
    <3>2. Doc!Share
      BY <2>1, <2>10, <3>1 DEF Doc!Share, Doc!Saved, Doc!Following, Role
    <3> QED
      BY <3>2 DEF Doc!SNext
  <2> QED
    BY <2>4, <2>6, <2>7, <2>8, <2>9, <2>10 DEF Changes, Kinds
<1> QED
  BY <1>2, <1>3

LEMMA StepShared == IInv /\ [Next]_vars => [Doc!SNext]_(Doc!svars)
<1> SUFFICES ASSUME IInv, [Next]_vars PROVE [Doc!SNext]_(Doc!svars)
  OBVIOUS
<1>1. ASSUME NEW p \in Person, Edit(p) PROVE [Doc!SNext]_(Doc!svars)
  <2>1. CASE Commit(p)
    BY <2>1, CommitShared
  <2>2. CASE Open(p) \/ Update(p) \/ Rename(p) \/ Share(p) \/ SetSchedule(p) \/ Accept(p)
             \/ AddCard(p) \/ UpdateAdded(p)
    <3>1. UNCHANGED <<live, report, by, how>>
      BY <2>2 DEF Open, Update, Rename, Share, SetSchedule, Accept, AddCard, UpdateAdded,
                  Prepared, Ended
    <3> QED
      BY <3>1, Unshared DEF DocOf
  <2> QED
    BY <1>1, <2>1, <2>2 DEF Edit
<1>2. CASE Delete
  <2>1. Doc!Remove
    BY <1>2 DEF Delete, Doc!Remove, DocOf
  <2> QED
    BY <2>1 DEF Doc!SNext
<1>3. ASSUME NEW w \in Workers, Claim(w) PROVE [Doc!SNext]_(Doc!svars)
  <2>1. report \in Report
    BY DEF IInv, TypeOK
  <2>2. DocOf(report)' = DocOf(report) /\ UNCHANGED <<live, by, how>>
    BY <1>3, <2>1 DEF Claim, DocOf, Report
  <2> QED
    BY <2>2, Unshared
<1>4. ASSUME NEW t \in Takers, Scan(t) \/ TakeByHand(t) \/ Take(t) \/ Crash(t)
      PROVE [Doc!SNext]_(Doc!svars)
  <2>1. UNCHANGED edits
    BY <1>4 DEF Scan, TakeByHand, Take, RunCards, RunFails, Trim, Store, Crash
  <2> QED
    BY <2>1, Unshared DEF edits, DocOf
<1>5. CASE Tick \/ UNCHANGED vars
  BY <1>5, Unshared DEF Tick, edits, vars, DocOf
<1> QED
  BY <1>1, <1>2, <1>3, <1>4, <1>5 DEF Next, Refresh, Takers

\* Every stored change of a report was made by someone who might make it at that moment, from
\* the version it replaces, and changed nothing else, however requests, claims and deletion
\* interleave (_open, _commit, SqlReportStore.save).
THEOREM ChangesKept == Spec => KeepsChanges
<1>1. Init => Doc!SInit
  BY InitShared
<1>2. IInv /\ [Next]_vars => [Doc!SNext]_(Doc!svars)
  BY StepShared
<1> QED
  BY <1>1, <1>2, Inductive, PTL DEF Spec, KeepsChanges, Doc!SSpec

-----------------------------------------------------------------------------
(***************************************************************************)
(* How many snapshots are stored.                                          *)
(***************************************************************************)
\* What would be stored if t's transaction committed now.
Left(t) == (snapshots \cup {job[t].stamp}) \ job[t].dropped

Storing(t) == job[t].step = "store"

\* passed[t] holds the others that have committed since t's transaction read the store: t
\* did not see those snapshots, nor drop them. One of passed[t] that is storing again read
\* the store after t did.
Accounts(passed) ==
  \A t \in Takers : Storing(t) =>
    /\ t \notin passed[t]
    /\ Cardinality(Left(t)) <= Kept + Cardinality(passed[t])
    /\ \A u \in passed[t] : Storing(u) => passed[u] \subseteq passed[t]

SnapshotsInv ==
  /\ IsFiniteSet(snapshots)
  /\ SnapshotsBounded
  /\ \E passed \in [Takers -> SUBSET Takers] : Accounts(passed)

-----------------------------------------------------------------------------
LEMMA TakersFinite == IsFiniteSet(Takers) /\ Cardinality(Takers) \in Nat
BY TakersAssumption, FS_Union, FS_CardinalityType DEF Takers

\* A part of S that leaves one out is smaller.
LEMMA OneLess ==
  ASSUME NEW S, IsFiniteSet(S), NEW x \in S, NEW T \in SUBSET (S \ {x})
  PROVE  /\ IsFiniteSet(T)
         /\ Cardinality(T) \in Nat
         /\ Cardinality(T) <= Cardinality(S) - 1
<1>1. IsFiniteSet(S \ {x}) /\ Cardinality(S \ {x}) = Cardinality(S) - 1
  BY FS_RemoveElement
<1> QED
  BY <1>1, FS_Subset, FS_CardinalityType

\* A set with one element more, or less of it.
LEMMA OneMore ==
  ASSUME NEW S, IsFiniteSet(S), NEW x, NEW T \in SUBSET (S \cup {x})
  PROVE  /\ Cardinality(T) \in Nat
         /\ Cardinality(T) <= Cardinality(S) + 1
<1>1. Cardinality(S) \in Nat
  BY FS_CardinalityType
<1>2. /\ IsFiniteSet(S \cup {x})
      /\ Cardinality(S \cup {x}) = IF x \in S THEN Cardinality(S) ELSE Cardinality(S) + 1
  BY FS_AddElement, Zenon
<1>3. IsFiniteSet(T) /\ Cardinality(T) <= Cardinality(S \cup {x})
  BY <1>2, FS_Subset
<1>4. Cardinality(T) \in Nat /\ Cardinality(S \cup {x}) \in Nat
  BY <1>2, <1>3, FS_CardinalityType
<1> QED
  BY <1>1, <1>2, <1>3, <1>4

\* A set of takers that leaves one out is smaller than Takers.
LEMMA OneOut ==
  ASSUME NEW t \in Takers, NEW S \in SUBSET Takers, t \notin S
  PROVE  IsFiniteSet(S) /\ Cardinality(S) \in Nat /\ Cardinality(S) <= Cardinality(Takers) - 1
<1> QED
  BY TakersFinite, OneLess

\* Of a non-empty set of naturals one is the least.
LEMMA LeastOf ==
  ASSUME NEW S \in SUBSET Nat, S # {}
  PROVE  \E m \in S : \A s \in S : m <= s
<1>1. PICK m \in S : \A s \in S : ~ (<<s, m>> \in OpToRel(<, Nat))
  BY NatLessThanWellFounded, WFMin
<1>2. \A s \in S : ~ (s < m)
  BY <1>1 DEF OpToRel
<1> QED
  BY <1>2

\* What is not beyond the latest Kept of a set is Kept of them at most: all of it but its
\* least member is after that member.
LEMMA AtMostKept ==
  ASSUME NEW S \in SUBSET Nat, IsFiniteSet(S)
  PROVE  /\ IsFiniteSet(S \ Beyond(S))
         /\ Cardinality(S \ Beyond(S)) <= Kept
<1> DEFINE K == S \ Beyond(S)
           After(m) == {o \in S : o > m}
<1>1. IsFiniteSet(K)
  BY FS_Subset
<1>2. CASE K = {}
  BY <1>1, <1>2, FS_EmptySet
<1>3. CASE K # {}
  <2>1. PICK m \in K : \A s \in K : m <= s
    BY <1>3, LeastOf
  <2>2. IsFiniteSet(After(m)) /\ Cardinality(After(m)) \in Nat
    BY FS_Subset, FS_CardinalityType
  <2>3. Cardinality(After(m)) < Kept
    BY <2>2 DEF Beyond
  <2>4. K \ {m} \in SUBSET After(m)
    <3>1. \A s \in K \ {m} : s \in S /\ s > m
      BY <2>1
    <3> QED
      BY <3>1
  <2>5. Cardinality(K \ {m}) <= Cardinality(After(m))
    BY <2>2, <2>4, FS_Subset
  <2>6. Cardinality(K \ {m}) = Cardinality(K) - 1 /\ Cardinality(K) \in Nat
    BY <1>1, <2>1, FS_RemoveElement, FS_CardinalityType
  <2> HIDE DEF K, After
  <2>7. Cardinality(K) <= Kept
    BY <2>2, <2>3, <2>5, <2>6
  <2> QED
    BY <1>1, <2>7 DEF K
<1> QED
  BY <1>2, <1>3

LEMMA InitBounded == Init => SnapshotsInv
<1> SUFFICES ASSUME Init PROVE SnapshotsInv
  OBVIOUS
<1>1. IsFiniteSet(snapshots) /\ SnapshotsBounded
  BY TakersFinite, FS_EmptySet DEF Init, SnapshotsBounded
<1> DEFINE none == [t \in Takers |-> {}]
<1>2. none \in [Takers -> SUBSET Takers] /\ Accounts(none)
  BY DEF Init, Accounts, Storing, NoJob
<1> QED
  BY <1>1, <1>2 DEF SnapshotsInv

-----------------------------------------------------------------------------
\* Nothing is added to the store, and no transaction reads it.
LEMMA QuietBounded ==
  ASSUME SnapshotsInv, snapshots' \subseteq snapshots,
         \A t \in Takers : job'[t].step = "store" => job'[t] = job[t]
  PROVE  SnapshotsInv'
<1>1. IsFiniteSet(snapshots') /\ Cardinality(snapshots') <= Cardinality(snapshots)
  BY FS_Subset DEF SnapshotsInv
<1>2. SnapshotsBounded'
  BY <1>1, TakersFinite, FS_CardinalityType DEF SnapshotsInv, SnapshotsBounded
<1>3. PICK passed \in [Takers -> SUBSET Takers] : Accounts(passed)
  BY DEF SnapshotsInv
<1>4. ASSUME NEW t \in Takers, Storing(t)'
      PROVE  /\ t \notin passed[t]
             /\ Cardinality(Left(t)') <= Kept + Cardinality(passed[t])
             /\ \A u \in passed[t] : Storing(u)' => passed[u] \subseteq passed[t]
  <2>1. Storing(t) /\ job'[t] = job[t]
    BY <1>4 DEF Storing
  <2>2. Left(t)' \in SUBSET Left(t)
    BY <2>1 DEF Left
  <2>3. IsFiniteSet(Left(t))
    BY FS_AddElement, FS_Difference DEF Left, SnapshotsInv
  <2>4. /\ Cardinality(Left(t)') <= Cardinality(Left(t))
        /\ Cardinality(Left(t)') \in Nat /\ Cardinality(Left(t)) \in Nat
    BY <2>2, <2>3, FS_Subset, FS_CardinalityType
  <2>5. t \notin passed[t] /\ Cardinality(Left(t)) <= Kept + Cardinality(passed[t])
    BY <1>3, <2>1 DEF Accounts
  <2>6. Cardinality(passed[t]) \in Nat
    BY <2>5, OneOut
  <2>7. ASSUME NEW u \in passed[t], Storing(u)' PROVE passed[u] \subseteq passed[t]
    <3>1. Storing(u)
      BY <2>7 DEF Storing
    <3> QED
      BY <1>3, <2>1, <3>1 DEF Accounts
  <2> QED
    BY <2>4, <2>5, <2>6, <2>7
<1>5. Accounts(passed)'
  BY <1>4 DEF Accounts
<1> QED
  BY <1>1, <1>2, <1>3, <1>5 DEF SnapshotsInv

\* The transaction reads the store: nobody has committed since.
LEMMA TrimBounded ==
  ASSUME TypeOK, SnapshotsInv, NEW t \in Takers, Trim(t) PROVE SnapshotsInv'
<1>1. /\ snapshots' = snapshots
      /\ job'[t].step = "store" /\ job'[t].stamp = job[t].stamp
      /\ job'[t].dropped = Beyond(snapshots \cup {job[t].stamp})
      /\ \A u \in Takers : u # t => job'[u] = job[u]
  BY DEF Trim, TypeOK, Jobs
<1>2. job[t].stamp \in Nat /\ snapshots \subseteq Nat
  BY DEF TypeOK, Jobs
<1>3. Cardinality(Left(t)') <= Kept
  <2>1. IsFiniteSet(snapshots \cup {job[t].stamp})
    BY FS_AddElement DEF SnapshotsInv
  <2> QED
    BY <1>1, <1>2, <2>1, AtMostKept DEF Left
<1>4. PICK before \in [Takers -> SUBSET Takers] : Accounts(before)
  BY DEF SnapshotsInv
<1> DEFINE passed == [before EXCEPT ![t] = {}]
<1>5. passed \in [Takers -> SUBSET Takers] /\ passed[t] = {}
  OBVIOUS
<1>6. Accounts(passed)'
  <2>1. ASSUME NEW u \in Takers, Storing(u)', u # t
        PROVE  /\ u \notin passed[u]
               /\ Cardinality(Left(u)') <= Kept + Cardinality(passed[u])
               /\ \A v \in passed[u] : Storing(v)' => passed[v] \subseteq passed[u]
    <3>1. Storing(u) /\ Left(u)' = Left(u) /\ passed[u] = before[u]
      BY <1>1, <2>1 DEF Storing, Left
    <3>2. ASSUME NEW v \in passed[u], Storing(v)' PROVE passed[v] \subseteq passed[u]
      <4>1. CASE v = t
        BY <1>5, <4>1
      <4>2. CASE v # t
        BY <1>1, <1>4, <2>1, <3>1, <3>2, <4>2 DEF Storing, Accounts
      <4> QED
        BY <4>1, <4>2
    <3> QED
      BY <1>4, <3>1, <3>2 DEF Accounts
  <2>2. Cardinality(Left(t)') <= Kept + Cardinality(passed[t])
    BY <1>3, <1>5, FS_EmptySet
  <2> QED
    BY <1>5, <2>1, <2>2 DEF Accounts
<1> QED
  BY <1>1, <1>5, <1>6 DEF SnapshotsInv, SnapshotsBounded

\* One commits: every other transaction now misses its snapshot. A taker that had already
\* committed since t's read read the store later than t, and leaves that much less.
LEMMA StoreBounded ==
  ASSUME TypeOK, SnapshotsInv, NEW t \in Takers, Store(t) PROVE SnapshotsInv'
<1>1. /\ Storing(t) /\ snapshots' = Left(t)
      /\ job'[t].step = "idle"
      /\ \A u \in Takers : u # t => job'[u] = job[u]
  BY DEF Store, Storing, Left, TypeOK, NoJob
<1>2. PICK before \in [Takers -> SUBSET Takers] : Accounts(before)
  BY DEF SnapshotsInv
<1>3. IsFiniteSet(snapshots') /\ Cardinality(snapshots') \in Nat
  BY <1>1, FS_AddElement, FS_Difference, FS_CardinalityType DEF SnapshotsInv, Left
<1>4. Cardinality(snapshots') <= Kept + Cardinality(before[t]) /\ t \notin before[t]
  BY <1>1, <1>2 DEF Accounts
<1>5. SnapshotsBounded'
  BY <1>3, <1>4, OneOut, TakersFinite DEF SnapshotsBounded
<1> DEFINE passed == [u \in Takers |-> before[u] \cup {t}]
<1>6. passed \in [Takers -> SUBSET Takers]
  OBVIOUS
<1>7. ASSUME NEW u \in Takers, Storing(u)'
      PROVE  /\ u \notin passed[u]
             /\ Cardinality(Left(u)') <= Kept + Cardinality(passed[u])
             /\ \A v \in passed[u] : Storing(v)' => passed[v] \subseteq passed[u]
  <2>1. u # t /\ Storing(u) /\ job'[u] = job[u]
    BY <1>1, <1>7 DEF Storing
  <2>2. /\ u \notin before[u]
        /\ Cardinality(Left(u)) <= Kept + Cardinality(before[u])
        /\ \A v \in before[u] : Storing(v) => before[v] \subseteq before[u]
    BY <1>2, <2>1 DEF Accounts
  <2>3. /\ IsFiniteSet(before[u]) /\ Cardinality(before[u]) \in Nat
        /\ IsFiniteSet(before[t]) /\ Cardinality(before[t]) \in Nat
    BY <1>4, <2>2, OneOut
  <2>4. Cardinality(Left(u)') <= Kept + Cardinality(passed[u])
    <3>1. CASE t \in before[u]
      <4>1. before[t] \in SUBSET (before[u] \ {t})
        BY <1>1, <1>4, <2>2, <3>1
      <4>2. Cardinality(before[t]) <= Cardinality(before[u]) - 1
        BY <2>3, <3>1, <4>1, OneLess
      <4>3. Left(u)' \in SUBSET (snapshots' \cup {job[u].stamp})
        BY <2>1 DEF Left
      <4>4. Cardinality(Left(u)') <= Cardinality(snapshots') + 1 /\ Cardinality(Left(u)') \in Nat
        BY <1>3, <4>3, OneMore
      <4>5. passed[u] = before[u]
        BY <3>1
      <4> HIDE DEF passed
      <4> QED
        BY <1>3, <1>4, <2>3, <4>2, <4>4, <4>5
    <3>2. CASE t \notin before[u]
      <4>1. Left(u)' \in SUBSET (Left(u) \cup {job[t].stamp})
        BY <1>1, <2>1 DEF Left
      <4>2. IsFiniteSet(Left(u)) /\ Cardinality(Left(u)) \in Nat
        BY FS_AddElement, FS_Difference, FS_CardinalityType DEF Left, SnapshotsInv
      <4>3. Cardinality(Left(u)') <= Cardinality(Left(u)) + 1 /\ Cardinality(Left(u)') \in Nat
        BY <4>1, <4>2, OneMore
      <4>4. Cardinality(passed[u]) = Cardinality(before[u]) + 1
        BY <2>3, <3>2, FS_AddElement
      <4> HIDE DEF passed
      <4> QED
        BY <2>2, <2>3, <4>2, <4>3, <4>4
    <3> QED
      BY <3>1, <3>2
  <2>5. ASSUME NEW v \in passed[u], Storing(v)' PROVE passed[v] \subseteq passed[u]
    <3>1. v # t /\ v \in before[u] /\ v \in Takers
      BY <1>1, <1>2, <2>5 DEF Storing
    <3>2. Storing(v)
      BY <1>1, <2>5, <3>1 DEF Storing
    <3> QED
      BY <2>2, <3>1, <3>2
  <2> QED
    BY <2>1, <2>2, <2>4, <2>5
<1>8. Accounts(passed)'
  BY <1>7 DEF Accounts
<1> QED
  BY <1>3, <1>5, <1>6, <1>8 DEF SnapshotsInv

\* A refresh goes on, or ends, without reading the store for its snapshot.
LEMMA MoveBounded ==
  ASSUME TypeOK, SnapshotsInv, NEW t \in Takers, NEW j, j.step # "store",
         job' = [job EXCEPT ![t] = j], snapshots' = snapshots
  PROVE  SnapshotsInv'
<1>1. job'[t] = j /\ \A u \in Takers : u # t => job'[u] = job[u]
  BY DEF TypeOK
<1> QED
  BY <1>1, QuietBounded

\* Edits leave the snapshots alone.
LEMMA EditQuiet == ASSUME NEW p \in Person, Edit(p) PROVE UNCHANGED <<snapshots, job>>
<1>1. CASE Open(p)
  BY <1>1 DEF Open, refreshes
<1>2. CASE Update(p)
  BY <1>2 DEF Update, Prepared, refreshes
<1>3. CASE Rename(p)
  BY <1>3 DEF Rename, Prepared, refreshes
<1>4. CASE Share(p)
  BY <1>4 DEF Share, Prepared, refreshes
<1>5. CASE SetSchedule(p)
  BY <1>5 DEF SetSchedule, Prepared, refreshes
<1>6. CASE Accept(p)
  BY <1>6 DEF Accept, Prepared, refreshes
<1>7. CASE AddCard(p)
  BY <1>7 DEF AddCard, refreshes
<1>8. CASE UpdateAdded(p)
  BY <1>8 DEF UpdateAdded, Prepared, Ended, refreshes
<1>9. CASE Commit(p)
  BY <1>9 DEF Commit, refreshes
<1> QED
  BY <1>1, <1>2, <1>3, <1>4, <1>5, <1>6, <1>7, <1>8, <1>9 DEF Edit

LEMMA NextBounded == TypeOK /\ SnapshotsInv /\ [Next]_vars => SnapshotsInv'
<1> SUFFICES ASSUME TypeOK, SnapshotsInv, [Next]_vars PROVE SnapshotsInv'
  OBVIOUS
<1> USE DEF TypeOK
<1>1. CASE \E p \in Person : Edit(p)
  BY <1>1, EditQuiet, QuietBounded
<1>2. CASE Delete
  BY <1>2, QuietBounded DEF Delete
<1>3. CASE \E t \in Takers : Trim(t)
  BY <1>3, TrimBounded
<1>4. CASE \E t \in Takers : Store(t)
  BY <1>4, StoreBounded
<1>5. CASE \E t \in Takers : Scan(t) \/ TakeByHand(t) \/ RunCards(t) \/ RunFails(t) \/ Crash(t)
  <2>1. PICK t \in Takers : Scan(t) \/ TakeByHand(t) \/ RunCards(t) \/ RunFails(t) \/ Crash(t)
    BY <1>5
  <2>2. CASE Scan(t)
    BY <2>2, MoveBounded DEF Scan, NoJob
  <2>3. CASE TakeByHand(t)
    BY <2>3, MoveBounded DEF TakeByHand, NoJob
  <2>4. CASE RunCards(t)
    <3> DEFINE j == [job[t] EXCEPT !.step = "trim", !.stamp = taken + 1]
    <3>1. j.step # "store"
      BY DEF TypeOK, Jobs
    <3>2. job' = [job EXCEPT ![t] = j] /\ snapshots' = snapshots
      BY <2>4 DEF RunCards
    <3> HIDE DEF j
    <3> QED
      BY <3>1, <3>2, MoveBounded
  <2>5. CASE RunFails(t) \/ Crash(t)
    BY <2>5, MoveBounded DEF RunFails, Crash, NoJob
  <2> QED
    BY <2>1, <2>2, <2>3, <2>4, <2>5
<1>6. CASE \E t \in Takers : Claim(t)
  BY <1>6, MoveBounded DEF Claim, NoJob
<1>7. CASE Tick \/ UNCHANGED vars
  BY <1>7, QuietBounded DEF Tick, refreshes, vars
<1> QED
  BY <1>1, <1>2, <1>3, <1>4, <1>5, <1>6, <1>7 DEF Next, Refresh, Take, Takers

\* What each transaction would leave is accounted for by the ones that committed after it
\* read the store, in every interleaving of any number of them.
THEOREM SnapshotsInductive == Spec => []SnapshotsInv
<1>1. Init => SnapshotsInv
  BY InitBounded
<1>2. TypeOK /\ SnapshotsInv /\ [Next]_vars => SnapshotsInv'
  BY NextBounded
<1> QED
  BY <1>1, <1>2, TypeCorrect, PTL DEF Spec

\* The store never holds more than the snapshots kept and one further per other transaction
\* (store.py, SqlSnapshotStore.save).
THEOREM SnapshotsStayBounded == Spec => []SnapshotsBounded
<1>1. SnapshotsInv => SnapshotsBounded
  BY DEF SnapshotsInv
<1> QED
  BY <1>1, SnapshotsInductive, PTL
=============================================================================
