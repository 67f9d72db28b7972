-------------------------- MODULE P2PNetProperties --------------------------
(* What the handshake and the discovery give the nodes. *)
EXTENDS P2PNet

(* Every variable keeps its type, and the ends in mPeers have a descriptor. *)
TypeOK ==
  /\ up \subseteq Nodes
  /\ starts \in 0..MaxStarts
  /\ dialing \in [Nodes -> Addresses]
  /\ pool \in [Nodes -> Addresses]
  /\ trying \subseteq up
  /\ events \in [Nodes -> Seq(Records)]
  /\ route \in [Conns -> Nodes \X Nodes]
  /\ stage \in [Ends -> {"gone", "backlog", "peer"}]
  /\ fd \in [Ends -> Fds \cup {NoFd}]
  /\ \A e \in Ends : fd[e] \in Fds <=> stage[e] = "peer"
  /\ met \subseteq Ends
  /\ ready \subseteq Ends
  /\ inbox \in [Ends -> Seq(Messages)]
  /\ unpacker \in [Ends -> Seq(Messages)]

(* An address a node learns is that of a node of its own network, although  *)
(* nothing in decodeMsg_Discovery (p2p_msg.cpp:34-40) checks who sent it:   *)
(* the PEER_INFO that goes first keeps the networks apart.                  *)
AddressesStayInNetwork ==
  \A n, a \in Nodes :
    pool[n][a] > 0 \/ (dialing[n][a] > 0 /\ a \notin Boot[n])
      => NetId[a] = NetId[n]

(* The node that was dialled has not answered and is not about to. *)
Silent(c) ==
  /\ ~Posted(route[c][2], fd[<<c, "IN">>])
  /\ inbox[<<c, "OUT">>] = <<>>

(* How far a connection is. *)
Progress(c) ==
  LET out == <<c, "OUT">>
      in  == <<c, "IN">>
  IN  IF stage[out] = "gone" /\ stage[in] = "gone" THEN "closed"
      ELSE IF stage[out] = "gone" \/ stage[in] = "gone" THEN "closing"
      ELSE IF out \in met /\ in \in met THEN "mutual"
      ELSE IF in \in met THEN "known"
      ELSE IF out \in met THEN "early"
      ELSE IF stage[in] = "backlog" THEN "dialled"
      ELSE IF Silent(c) THEN "accepted" ELSE "mistaken"

phase == [c \in Conns |-> Progress(c)]

HandshakeOf == INSTANCE Handshake WITH Conns <- Conns, phase <- phase

(* Every connection goes through the handshake in order, whatever numbers   *)
(* and slots it reuses: the node that was dialled answers only once it has  *)
(* accepted the dialler's PEER_INFO (p2p_msg.cpp:68-73), unless accept()    *)
(* gave the connection a number that a PEER_WELCOME left in the pipe names  *)
(* (p2p.cpp:206, 291).  Even then both ends meet in one of two orders, and  *)
(* nothing that happens to it later makes a connection a mistaken one.      *)
HandshakeSpec == HandshakeOf!Spec

(* Both ends of a connection come to know each other, or it is closed.      *)
HandshakeCompletes ==
  \A c \in Conns :
    stage[<<c, "OUT">>] = "peer"
      ~> \/ {<<c, "OUT">>, <<c, "IN">>} \subseteq met
         \/ \E e \in {<<c, "OUT">>, <<c, "IN">>} : stage[e] = "gone"

(* A connection of a node to itself, or between networks. *)
Strange(c) ==
  route[c][1] = route[c][2] \/ NetId[route[c][1]] # NetId[route[c][2]]

(* A connection of a node to itself, or between networks, does not last:    *)
(* both its ends are closed ("do not let more msg from coming from it",     *)
(* p2p_msg.cpp:49).                                                         *)
StrangersPart ==
  \A c \in Conns :
    Strange(c) /\ stage[<<c, "OUT">>] = "peer"
      ~> \A e \in {<<c, "OUT">>, <<c, "IN">>} : stage[e] = "gone"

(* When a node closes its end, the other node drops its own.                *)
ClosedIsNoticed ==
  \A e \in Ends :
    stage[e] = "peer" /\ stage[Other(e)] = "gone"
      ~> stage[e] = "gone"

(* Once all nodes run, each is connected to every other, by one connection. *)
AllMeet ==
  <>[](\A n \in Nodes : Cardinality(Peers(n)) = Cardinality(Nodes) - 1)
=============================================================================
