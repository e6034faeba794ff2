------------------------------ MODULE MCSqlSafety ------------------------------
(***************************************************************************)
(* A small instance of SqlSafety: two relations, of which the request may  *)
(* read one, and one query for each fact a gate looks at.                  *)
(***************************************************************************)
EXTENDS SqlSafetyProperties

MCSwitches == [grain : BOOLEAN, values : BOOLEAN]

Plain == [reads |-> {"orders"}, policy |-> "PASS", grain |-> "SAFE", value |-> "STORED"]

MCQueries ==
  {Plain,
   [Plain EXCEPT !.reads = {"orders", "items"}],
   [Plain EXCEPT !.policy = "FIXABLE"],
   [Plain EXCEPT !.reads = {"items"}, !.policy = "FINAL"],
   [Plain EXCEPT !.grain = "FANOUT"],
   [Plain EXCEPT !.grain = "VIOLATION"],
   [Plain EXCEPT !.value = "RESPELLED"],
   [Plain EXCEPT !.value = "BLIND"]}

MCRequests ==
  {[source |-> "LLM", authority |-> {"orders"}], [source |-> "LLM", authority |-> NotGiven],
   [source |-> "COMPILER", authority |-> NotGiven],
   [source |-> "INTERNAL", authority |-> NotGiven]}
=============================================================================
