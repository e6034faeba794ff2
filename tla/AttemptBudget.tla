---------------------------- MODULE AttemptBudget ----------------------------
(***************************************************************************)
(* What one question may spend (src/app/decision/budget.py): model calls   *)
(* by step, time, tokens and probe queries.                                *)
(*                                                                         *)
(* A budget is a record                                                    *)
(*   used     calls taken so far, per step                                 *)
(*   tokens   tokens of the calls that returned a usable reply             *)
(*   probes   probe and reading queries started                            *)
(*   stopped  the first limit that refused a step, or "NONE"               *)
(* Wall-clock time is one Boolean, late: the deadline has passed.          *)
(***************************************************************************)
EXTENDS Integers

\* decision_contract.MAX_PROBES: queries in one EXPLORE decision.
MAX_PROBES == 3

ModelCall == {"GENERATION", "CONTEXT_EXPANSION", "LOOK_FIRST", "EXPLORATION",
              "READING_CHECK", "REPAIR"}

BudgetLimit == {"CALLS", "DEADLINE", "TOKENS", "PROBE_QUERIES"}

None == "NONE"

\* A probe query limit left out of the settings.
Unset == -1

(***************************************************************************)
(* The settings a run reads.                                               *)
(***************************************************************************)
Settings ==
  [expansion    : BOOLEAN,       \* context_expansion_enabled
   exploration  : BOOLEAN,       \* exploration_enabled
   rounds       : 1..5,          \* exploration_rounds
   readingCheck : BOOLEAN,       \* reading_check_enabled
   ambiguity    : {"ask", "assume"},
   repair       : BOOLEAN,       \* repair_enabled
   resultCheck  : BOOLEAN,       \* result_check_enabled
   tokenLimit   : Nat \ {0},     \* run_token_limit
   probeLimit   : Nat \cup {Unset}]

Times(switch, n) == IF switch THEN n ELSE 0

\* A frozen replay is never sent to the model; a live run gets what settings allow.
Allowed(s, replay) ==
  IF replay
  THEN [c \in ModelCall |-> 0]
  ELSE [GENERATION        |-> 1,
        CONTEXT_EXPANSION |-> Times(s.expansion, 1),
        LOOK_FIRST        |-> Times(s.exploration, 1),
        EXPLORATION       |-> Times(s.exploration, s.rounds),
        READING_CHECK     |-> Times(s.readingCheck, 1),
        REPAIR            |-> Times(s.repair, 1)]

\* Faulty: the default forgets the reading check.
ProbeQueryLimitOfRounds(s) ==
  IF s.probeLimit # Unset THEN s.probeLimit
  ELSE MAX_PROBES * Times(s.exploration, s.rounds)

ProbeQueryLimit(s) ==
  IF s.probeLimit # Unset
  THEN s.probeLimit
  ELSE MAX_PROBES * (Times(s.exploration, s.rounds) + Times(s.readingCheck, 1))

Budget ==
  [used : [ModelCall -> Nat], tokens : Nat, probes : Nat,
   stopped : BudgetLimit \cup {None}]

NewBudget == [used |-> [c \in ModelCall |-> 0], tokens |-> 0, probes |-> 0,
              stopped |-> None]

Left(b, s, replay, call) == Allowed(s, replay)[call] - b.used[call]

Spent(b) == b.used["GENERATION"] + b.used["CONTEXT_EXPANSION"] + b.used["LOOK_FIRST"]
            + b.used["EXPLORATION"] + b.used["READING_CHECK"] + b.used["REPAIR"]

CallLimit(s, replay) ==
  LET a == Allowed(s, replay)
  IN  a["GENERATION"] + a["CONTEXT_EXPANSION"] + a["LOOK_FIRST"]
      + a["EXPLORATION"] + a["READING_CHECK"] + a["REPAIR"]

\* Faulty: one call too many is let through.
TimeOrTokensOver(b, s, late) ==
  IF late THEN "DEADLINE" ELSE IF b.tokens > s.tokenLimit THEN "TOKENS" ELSE None

\* The time or token limit that refuses an optional step now, or None.
TimeOrTokens(b, s, late) ==
  IF late THEN "DEADLINE" ELSE IF b.tokens >= s.tokenLimit THEN "TOKENS" ELSE None

\* The limit that refuses a call; the first decision is refused only for want of
\* an allowance.
Refusal(b, s, replay, late, call) ==
  IF Left(b, s, replay, call) <= 0 THEN "CALLS"
  ELSE IF call = "GENERATION" THEN None
  ELSE TimeOrTokens(b, s, late)

\* The limit that refuses one more probe or reading query.
ProbeRefusal(b, s, late) ==
  IF b.probes >= ProbeQueryLimit(s) THEN "PROBE_QUERIES" ELSE TimeOrTokens(b, s, late)

TakeCall(b, call)     == [b EXCEPT !.used[call] = @ + 1]
TakeProbeQuery(b)     == [b EXCEPT !.probes = @ + 1]
SpendTokens(b, count) == [b EXCEPT !.tokens = @ + count]

\* A refusal is remembered as the run's first stop.
Stop(b, limit) == [b EXCEPT !.stopped = IF @ = None THEN limit ELSE @]

\* The trace reason of a step a limit stopped.
LimitReason == [CALLS         |-> "BUDGET_CALLS",
                DEADLINE      |-> "BUDGET_DEADLINE",
                TOKENS        |-> "BUDGET_TOKENS",
                PROBE_QUERIES |-> "BUDGET_PROBE_QUERIES"]
=============================================================================
