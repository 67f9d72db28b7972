--------------------------- MODULE NodeLifecycle ---------------------------
(* What the owner of a node can rely on.  A node goes down and up as it is  *)
(* stopped and started, and may fall: its loop ends although nobody stopped *)
(* it.  A fallen node never gets up again and cannot be destroyed: the only *)
(* way out of it is the end of the whole process, which nothing excludes    *)
(* while the node exists.                                                   *)
VARIABLE life  \* "down", "up", "fallen", "gone" (destroyed) or "dead"

Init == life = "down"

Start     == life = "down" /\ life' = "up"
Stop      == life = "up" /\ life' = "down"
Fall      == life = "up" /\ life' = "fallen"
Destroy   == life = "down" /\ life' = "gone"
Terminate == life \in {"down", "up", "fallen"} /\ life' = "dead"

Next == Start \/ Stop \/ Fall \/ Destroy \/ Terminate

Spec == Init /\ [][Next]_life
=============================================================================
