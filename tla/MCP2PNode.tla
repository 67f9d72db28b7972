----------------------------- MODULE MCP2PNode -----------------------------
(* Instances of P2PNode for TLC. *)
EXTENDS P2PNodeProperties, TLC

(* Tasks and descriptors are interchangeable; users are not, only some call *)
(* connect() themselves.                                                    *)
Symmetry == Permutations(Tasks) \cup Permutations(Fds)
=============================================================================
