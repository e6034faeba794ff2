-------------------------------- MODULE RunLog --------------------------------
(***************************************************************************)
(* The audit store (src/app/metadata/store.py) and what is read back from  *)
(* it: the newest continuation of a run, the conversation a run            *)
(* belongs to (src/app/operator/service.py, thread), and the conversations *)
(* the web interface makes of the list of its user's runs                  *)
(* (src/ui/src/App.tsx, src/ui/src/components/Sidebar.tsx).                *)
(*                                                                         *)
(* runs is the sequence of run records in the order they began, which is   *)
(* the order of created_at; log is the sequence of the runs stored, in the *)
(* order they were saved.  A durable store keeps every one.                *)
(***************************************************************************)
EXTENDS Integers, Sequences, FiniteSets, SequencesExt, FiniteSetsExt

CONSTANTS MaxRuns,     \* runs the in-memory store keeps
          ThreadLimit, \* runs a conversation is opened with
          ListLimit    \* runs of its user the web interface lists

ASSUME MaxRunsAssumption == MaxRuns \in Nat \ {0}
ASSUME ListLimitAssumption == ListLimit \in Nat \ {0}

NoRun == 0

\* Runs the web interface follows a conversation back.
MAX_TURNS == 50

\* A conversation is cut (20 runs) before the web interface stops following it.
ASSUME ThreadLimitAssumption == ThreadLimit \in 1 .. MAX_TURNS - 1

Parent(run) == IF run.followUp # NoRun THEN run.followUp ELSE run.edited

\* Faulty: only follow-ups continue a run.
FollowsUp(run, r) == r = run.followUp

Continues(run, r) == r \in {run.followUp, run.edited}

\* Faulty: the store in memory keeps everything.
SavedUnbounded(log, r, durable) == Append(log, r)

\* Faulty: the audit log is trimmed like the store in memory.
SavedTrimmed(log, r, durable) ==
  LET all == Append(log, r) IN IF Len(all) <= MaxRuns THEN all ELSE Tail(all)

\* The in-memory store drops the run saved first once it holds too many.
Saved(log, r, durable) ==
  LET all == Append(log, r)
  IN  IF durable \/ Len(all) <= MaxRuns THEN all ELSE Tail(all)

\* In SQL the newest is the one that began last, in memory the one saved last.
LatestChild(runs, log, durable, r) ==
  LET places == {i \in DOMAIN log : Continues(runs[log[i]], r)}
  IN  IF places = {} THEN NoRun
      ELSE IF durable THEN Max({log[i] : i \in places}) ELSE log[Max(places)]

\* Go on from the end of a chain until the next run is not there, was met, or is too many.
Walk(next, chain, limit) ==
  LET walk[s \in Seq(DOMAIN next)] ==
        LET n == next[Last(s)]
        IN  IF n \notin DOMAIN next \/ n \in ToSet(s) \/ Len(s) >= limit
            THEN s ELSE walk[Append(s, n)]
  IN  walk[chain]

\* A conversation, oldest run first: back from the run, then forward along the newest.
Thread(runs, log, durable, r) ==
  LET stored == ToSet(log)
      back   == [c \in stored |-> Parent(runs[c])]
      forth  == [c \in stored |-> LatestChild(runs, log, durable, c)]
  IN  IF r \notin stored THEN <<>>
      ELSE Walk(forth, Reverse(Walk(back, <<r>>, ThreadLimit)), ThreadLimit)

\* The newest of the runs recorded under one actor's name, mine: as LatestChild has it, by
\* when they began or were saved.
Listed(log, durable, mine) ==
  LET theirs   == {i \in DOMAIN log : log[i] \in mine}
      Newer(i) == {j \in theirs : IF durable THEN log[j] > log[i] ELSE j > i}
  IN  {log[i] : i \in {i \in theirs : Cardinality(Newer(i)) < ListLimit}}

\* How the web interface groups the listed runs: every run nothing continues ends a
\* conversation, named by its oldest run here or by the run that one came from.
Sidebar(runs, listed) ==
  LET asked     == {r \in listed : runs[r].mode # "SAVED_QUERY"}
      back      == [r \in asked |-> Parent(runs[r])]
      continued == {runs[r].followUp : r \in asked} \cup {runs[r].edited : r \in asked}
      entry(r)  == LET chain  == Walk(back, <<r>>, MAX_TURNS)
                       oldest == Last(chain)
                   IN  [root |-> IF back[oldest] # NoRun THEN back[oldest] ELSE oldest,
                        last |-> r, turns |-> Len(chain)]
  IN  {entry(r) : r \in asked \ continued}
===============================================================================
