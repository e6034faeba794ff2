----------------------------- MODULE SharedReport -----------------------------
(***************************************************************************)
(* What a report promises the people who share it, without requests,       *)
(* workers or time: it moves from one version to the next by one person's  *)
(* change at a time, made by someone who may make it at that moment and    *)
(* changing nothing but what they meant to change, until its owner deletes *)
(* it for good.                                                            *)
(***************************************************************************)
EXTENDS Integers

CONSTANTS Person, Owner, Schedule

VARIABLES live,  \* the report exists
          doc,   \* its text, people and schedule
          by,    \* who made the last save
  how    \* whether it named the version it was made from

svars == <<live, doc, by, how>>

MayEdit(p) == p = Owner \/ doc.people[p] = "editor"

Following == doc.version + 1

\* The documents one save may write over this one: each field from the values it may take.
Saved(titles, cards, bases, peoples, schedules) ==
  [version : {Following}, title : titles, cards : cards, basis : bases,
   people : peoples, schedule : schedules]

\* A title, a set of cards or a basis is named by the version that wrote it.
ChangeText ==
  doc' \in Saved({doc.title, Following}, {doc.cards, Following},
                 {doc.basis}, {doc.people}, {doc.schedule})

AcceptTables ==
  doc' \in Saved({doc.title}, {doc.cards}, {Following}, {doc.people}, {doc.schedule})

Reschedule ==
  doc' \in Saved({doc.title}, {doc.cards}, {doc.basis}, {doc.people}, Schedule)

Change(p) ==
  /\ live /\ MayEdit(p)
  /\ ChangeText \/ AcceptTables \/ Reschedule
  /\ by' = p /\ how' = "versioned"
  /\ UNCHANGED live

\* The owner's alone.
Share ==
  /\ live
  /\ doc' \in Saved({doc.title}, {doc.cards}, {doc.basis},
                    [Person -> {"none", "viewer", "editor"}], {doc.schedule})
  /\ by' = Owner /\ how' = "versioned"
  /\ UNCHANGED live

\* A client that names no version puts its own text over whatever is there.
Overwrite(p) ==
  /\ live /\ MayEdit(p)
  /\ doc' \in Saved(1..Following, 1..Following, {doc.basis}, {doc.people}, {doc.schedule})
  /\ by' = p /\ how' = "unversioned"
  /\ UNCHANGED live

Remove ==
  /\ live /\ live' = FALSE
  /\ UNCHANGED <<doc, by, how>>

SInit ==
  /\ live = TRUE
  /\ doc \in [version : {1}, title : {1}, cards : {1}, basis : {1},
              people : {[p \in Person |-> "none"]}, schedule : {"off"}]
  /\ by = Owner /\ how = "versioned"

SNext == (\E p \in Person : Change(p) \/ Overwrite(p)) \/ Share \/ Remove

SSpec == SInit /\ [][SNext]_svars
=============================================================================
