----------------------------- MODULE Handshake ------------------------------
(* What one connection goes through, seen from outside: dialled, accepted,  *)
(* the node that was dialled knows the dialler, then each knows the other.  *)
(* A connection mistaken for an earlier one is answered too early, and both *)
(* may come to know each other in the other order.  Either end may close it *)
(* at any time; it is used again only when both ends have.                  *)
CONSTANT Conns

VARIABLE phase  \* one of Phases for each connection

Phases == {"closed", "dialled", "accepted", "mistaken", "early", "known",
           "mutual", "closing"}

Init == phase = [c \in Conns |-> "closed"]

Turns(c, from, to) == phase[c] = from /\ phase' = [phase EXCEPT ![c] = to]

Open(c) == Turns(c, "closed", "dialled")

Accept(c)  == Turns(c, "dialled", "accepted")
Mistake(c) == Turns(c, "dialled", "mistaken")

(* The node that was dialled comes to know the dialler. *)
Introduce(c) ==
  \/ Turns(c, "accepted", "known")
  \/ Turns(c, "mistaken", "known")
  \/ Turns(c, "early", "mutual")

(* The dialler comes to know the node it dialled. *)
Answer(c) == Turns(c, "known", "mutual") \/ Turns(c, "mistaken", "early")

(* A node that stops, or whose process ends, closes its ends of all its     *)
(* connections, both ends of one to itself.                                 *)
Close ==
  /\ phase' \in [Conns -> Phases]
  /\ \A c \in Conns :
       \/ phase'[c] = phase[c]
       \/ phase[c] # "closed" /\ phase'[c] \in {"closing", "closed"}

Next ==
  \/ \E c \in Conns :
       Open(c) \/ Accept(c) \/ Mistake(c) \/ Introduce(c) \/ Answer(c)
  \/ Close

Spec == Init /\ [][Next]_phase
=============================================================================
