------------------------------ MODULE MCP2PNet ------------------------------
(* Instances of P2PNet for TLC. *)
EXTENDS P2PNetProperties

CONSTANTS a, b, c

(* b and c boot from a, as in the test "chain connect 3 -> 1 <-> 2". *)
ChainBoot == [n \in Nodes |-> IF n = a THEN {} ELSE {a}]

(* b dials a, and a dials c, which with TwoNets is a stranger. *)
LineBoot == [n \in Nodes |-> CASE n = a -> {c} [] n = b -> {a} [] n = c -> {}]

OneNet == [n \in Nodes |-> 0]

(* c is of another network. *)
TwoNets == [n \in Nodes |-> IF n = c THEN 1 ELSE 0]
=============================================================================
