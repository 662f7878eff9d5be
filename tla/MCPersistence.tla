----------------------------- MODULE MCPersistence -----------------------------
(* One account with its ship, one squadron and one or two request tasks. *)
EXTENDS Persistence, TLC

CONSTANTS p1, s1

MCShipOf == [p \in Players |-> s1]
=============================================================================
