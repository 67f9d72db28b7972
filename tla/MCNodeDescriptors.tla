------------------------- MODULE MCNodeDescriptors --------------------------
(* Instance of NodeDescriptors for TLC. *)
EXTENDS NodeDescriptors, TLC

(* The ports are interchangeable; no property of this run is about liveness. *)
Symmetry == Permutations(Ports)
=============================================================================
