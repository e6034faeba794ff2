----------------------------- MODULE MCConnections -----------------------------
(***************************************************************************)
(* A small instance of Connections: a column a of one table that may point *)
(* at two columns of another, of which the schema may lose one and gain a  *)
(* foreign key to the other.                                               *)
(***************************************************************************)
EXTENDS ConnectionsProperties, TLC

CONSTANTS t1, t2, a, k, l

MCTableOf == (a :> "orders") @@ (k :> "customers") @@ (l :> "customers")

ToK == [from |-> a, to |-> k]
ToL == [from |-> a, to |-> l]

MCLink == {ToK, ToL}

MCSchemas == {[columns |-> {a, k, l}, keys |-> {}], [columns |-> {a, k}, keys |-> {ToK}]}

MCChoices == {[enabled |-> TRUE, excluded |-> {}], [enabled |-> TRUE, excluded |-> {k}]}

Threads == Permutations({t1, t2})
================================================================================
