------------------------ MODULE ConversationsProperties ------------------------
(***************************************************************************)
(* What a user may count on of the conversations the run log holds, and    *)
(* what its documents say of it that the code does not do.                 *)
(***************************************************************************)
EXTENDS Conversations

CONSTANT Watched  \* a run whose end is waited for

RunIds == 0 .. MaxRequests

RunRecords == [mode : Modes, source : Source, followUp : RunIds, edited : RunIds,
               sent : RunIds, proposed : BOOLEAN,
               stage : {"RUNNING", "UNHEARD", "STORED", "LOST"}]

\* Records and store keep their types; only runs that ended are stored, each once, and
\* the store in memory never holds more than it may (save).
TypeOK ==
  /\ durable \in BOOLEAN
  /\ runs \in Seq(RunRecords) /\ Len(runs) <= MaxRequests
  /\ log \in Seq(Begun) /\ IsInjective(log)
  /\ \A r \in Known : runs[r].stage = "STORED"
  /\ ~durable => Len(log) <= MaxRuns

\* Every stored run with the conversation it is opened with.
Opened == [r \in Known |-> Thread(runs, log, durable, r)]

\* A conversation opened from any of its runs is one: it holds that run, each run of it
\* continues the one before it and began later, all are on one source, and it is no longer
\* than the limit (thread, _prepare, edit_run).
OneConversation ==
  LET opened == Opened IN
  \A r \in Known :
    LET thread == opened[r] IN
    /\ r \in ToSet(thread)
    /\ Len(thread) <= ThreadLimit
    /\ \A i \in 1 .. Len(thread) - 1 :
         /\ Continues(runs[thread[i + 1]], thread[i])
         /\ thread[i] < thread[i + 1]
         /\ runs[thread[i]].source = runs[thread[i + 1]].source

Children(r) == {c \in Known : Continues(runs[c], r)}

\* The stored runs from which a run comes, with the run itself.
Before(r) == ToSet(Walk([c \in Known |-> Parent(runs[c])], <<r>>, Len(runs)))

\* No run of a conversation that ends with this one was continued twice.
Unbranched(r) == \A earlier \in Before(r) : Cardinality(Children(earlier)) <= 1

\* "a conversation opens whole from its first run as well as from its last" (thread): it does
\* when no run of it was continued twice, none was dropped and it is within the limit.
OpensWhole ==
  LET opened == Opened IN
  \A last \in Known :
    (Children(last) = {} /\ Len(opened[last]) < ThreadLimit /\ Unbranched(last))
      => \A r \in Before(last) : opened[r] = opened[last]

\* The runs that end at most as many as are opened, none of which was continued twice.
Whole == {r \in Known : Cardinality(Before(r)) <= ThreadLimit /\ Unbranched(r)}

\* What the sidebar makes of the list of a person whose runs are mine.
Entries(mine) == Sidebar(runs, Listed(log, durable, mine))

\* What the web interface shows when an entry is opened: the conversation of its root.
OpenedBy(e) == Thread(runs, log, durable, e.root)

\* Whoever began which runs, every entry of a person's sidebar is named by a run its newest
\* one comes from.  While no run of its conversation was continued twice and it is within the
\* limit, opening it shows every run its newest one comes from, those of other people too;
\* while all of those are listed, it begins with the run it is named by and counts each once
\* (conversations in Sidebar.tsx, openItem in App.tsx, thread).
SidebarOpensWhatItLists ==
  LET whole == Whole IN
  \A mine \in SUBSET Known :
    LET listed == Listed(log, durable, mine) IN
    \A e \in Sidebar(runs, listed) :
      LET before == Before(e.last)
          thread == OpenedBy(e)
      IN  /\ durable => e.root \in before
          /\ (e.root \in Known /\ e.last \in whole) =>
               /\ before \subseteq ToSet(thread)
               /\ before \subseteq listed =>
                    Head(thread) = e.root /\ e.turns = Cardinality(before)

\* What the audit log shows of how a run came about never changes: no earlier run is put in
\* or taken away while it is stored, whatever is saved later and in whatever order (save,
\* _prepare).
HistoryKept ==
  [][durable => \A r \in Known : r \in Known' /\ Before(r)' = Before(r)]_log

\* SQL goes back to the model only if the model wrote it, in this run's conversation and for
\* this source, possibly with values a user changed since: every edited query leads back,
\* edit by edit, to a live answer (_earlier_answer, edit_run).
SentIsModels ==
  LET edits == [c \in Begun |-> runs[c].edited]
  IN  \A r \in Begun :
        runs[r].sent # NoRun =>
          LET first == runs[Last(Walk(edits, <<runs[r].sent>>, Len(runs)))]
          IN  first.mode = "LIVE_MODEL" /\ first.proposed /\ first.source = runs[r].source

\* Every run that began is recorded, also when its client left in the middle of it, unless
\* it failed or the process stopped first (playground_query_stream: "it is still audited").
StillAudited ==
  Running(Watched) ~>
    (Watched \in Known \/ (Watched \in Begun /\ runs[Watched].stage = "LOST"))

-----------------------------------------------------------------------------
(***************************************************************************)
(* What the documents say.                                                 *)
(***************************************************************************)
\* architecture.md:354-356 and Sidebar.tsx:124: the sidebar lists conversations with the
\* newest run of each, and opening one shows it - here, also after a branch.
BranchOpensNewest ==
  durable => \A mine \in SUBSET Known : \A e \in Entries(mine) :
    (e.root \in Known /\ Cardinality(Before(e.last)) <= ThreadLimit)
      => e.last \in ToSet(OpenedBy(e))

\* The same of a conversation that never branched, however long it is; thread says that one
\* opens whole from its first run as well as from its last (service.py:308-310).
LongOpensNewest ==
  durable => \A mine \in SUBSET Known : \A e \in Entries(mine) :
    (e.root \in Known /\ Unbranched(e.last)) => e.last \in ToSet(OpenedBy(e))
================================================================================
