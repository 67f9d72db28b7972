------------------------------- MODULE P2PNet -------------------------------
(* Several nodes and the connections between them: the handshake and the    *)
(* discovery of p2p_msg.cpp.                                                *)
(*                                                                          *)
(* A step is all that a node's loop does for one event or one read of a     *)
(* socket, or all that one connect() does.  The threads inside a node, and  *)
(* what can go wrong between them, are in P2PNode; here the records in the  *)
(* event pipe stay whole.  A record names a descriptor: one whose peer is   *)
(* gone is meant for nobody, or for the next peer with that number.         *)
EXTENDS Naturals, Sequences, FiniteSets

CONSTANTS
  Nodes,           \* nodes, and their addresses and mUIDs
  NetId,           \* mOwnPeerInfo.mNetID of each node
  Boot,            \* mBootStrap of each node, a set of addresses
  kTargetNumPeers, \* connections TRY_CONNECT aims at
  MaxConns,        \* bound: connections there are at one time
  Fds,             \* bound: the descriptors a node has for its peers
  Scattered,       \* whether a node may be given any of those that are free
  NoFd,            \* the descriptor of an end that is not in mPeers
  MaxStarts,       \* bound: how often nodes are started, in all
  Stops,           \* whether nodes are stopped, and processes end
  Patient,         \* a node is started once what it boots from is up and
                   \* the others have nothing left to do
  Coalesce         \* whether one read may return several messages

ASSUME NetAssumption ==
  /\ Nodes # {}
  /\ NetId \in [Nodes -> Nat]
  /\ Boot \in [Nodes -> SUBSET Nodes]
  /\ kTargetNumPeers \in Nat
  /\ MaxConns \in Nat /\ MaxStarts \in Nat
  /\ NoFd \notin Fds /\ Scattered \in BOOLEAN
  /\ Stops \in BOOLEAN /\ Patient \in BOOLEAN /\ Coalesce \in BOOLEAN

Conns == 1..MaxConns

(* Each connection is a peer in the mPeers of two nodes, or twice of one. *)
Ends == Conns \X {"OUT", "IN"}

Other(e) == <<e[1], IF e[2] = "OUT" THEN "IN" ELSE "OUT">>

(* Addresses with their multiplicity: mAddressPool and mAddresses. *)
Addresses == [Nodes -> Nat]

NoAddress == [a \in Nodes |-> 0]

Messages ==
  [type : {"PEER_INFO", "DISCONNECT"}] \cup
  [type : {"DISCOVERY"}, addresses : Addresses]

(* The records of the event pipe. *)
Records ==
  [type : {"PEER_WELCOME"}, fd : Fds] \cup [type : {"TRY_CONNECT"}]

Greeting(f) == [type |-> "PEER_WELCOME", fd |-> f]

VARIABLES
  up,       \* nodes that run
  starts,   \* how often nodes were started
  dialing,  \* connect() calls under way, by address
  pool,     \* mAddressPool
  trying,   \* nodes whose loop is in the while of TRY_CONNECT
  events,   \* mEventPipe
  route,    \* the two nodes of each connection
  stage,    \* of each end: not there, waiting to be accepted, in mPeers
  fd,       \* mFd of each end in mPeers, its key there
  met,      \* ends whose PEER_INFO was accepted
  ready,    \* ends whose mReady is set
  inbox,    \* messages in the receive buffer of each end's socket
  unpacker  \* messages in its mUnpacker, read and not decoded

vars == <<up, starts, dialing, pool, trying, events, route, stage, fd, met,
          ready, inbox, unpacker>>

owners == <<up, starts>>
peers  == <<stage, fd, met, ready>>
socket == <<inbox, unpacker>>

Init ==
  /\ up = {}
  /\ starts = 0
  /\ dialing = [n \in Nodes |-> NoAddress]
  /\ pool = [n \in Nodes |-> NoAddress]
  /\ trying = {}
  /\ events = [n \in Nodes |-> <<>>]
  /\ route = [c \in Conns |-> CHOOSE r \in Nodes \X Nodes : TRUE]
  /\ stage = [e \in Ends |-> "gone"]
  /\ fd = [e \in Ends |-> NoFd]
  /\ met = {} /\ ready = {}
  /\ inbox = [e \in Ends |-> <<>>]
  /\ unpacker = [e \in Ends |-> <<>>]

(* The node whose end it is. *)
Owner(e) == IF e[2] = "OUT" THEN route[e[1]][1] ELSE route[e[1]][2]

Peers(n) == {e \in Ends : stage[e] = "peer" /\ Owner(e) = n}

(* Nothing is under way: no connection being made, nothing to read. *)
Settled ==
  /\ dialing = [n \in Nodes |-> NoAddress]
  /\ trying = {}
  /\ \A n \in Nodes : events[n] = <<>>
  /\ \A e \in Ends :
       /\ stage[e] # "backlog"
       /\ inbox[e] = <<>>
       /\ stage[e] = "gone" => stage[Other(e)] = "gone"

(* Mutant of Idle: the loop is not waited for. *)
IdleWhenUp(n) == n \in up

(* The loop of n runs and is not in the while of TRY_CONNECT. *)
Idle(n) == n \in up \ trying

(* The loop of n has yet to greet the peer with the number f. *)
Posted(n, f) == \E i \in 1..Len(events[n]) : events[n][i] = Greeting(f)

FreeFds(n) == Fds \ {fd[e] : e \in Peers(n)}

(* What socket() and accept() may return: the lowest number that is free,   *)
(* which is any of these where the rest of the process opens and closes     *)
(* files as well.                                                           *)
NewFds(n) ==
  {f \in FreeFds(n) : Scattered \/ f = CHOOSE g \in FreeFds(n) : TRUE}

-----------------------------------------------------------------------------
(* start() and stop() *)

Start(n) ==
  /\ n \notin up
  /\ starts < MaxStarts
  /\ Patient => Settled /\ Boot[n] \subseteq up
  /\ up' = up \cup {n}
  /\ starts' = starts + 1
  /\ dialing' = [dialing EXCEPT ![n] = [a \in Nodes |->
                                          IF a \in Boot[n] THEN 1 ELSE 0]]
  /\ UNCHANGED <<pool, trying, events, route, peers, socket>>

(* Mutant of Close: what is known of the peers stays. *)
CloseKeepsMet(es) ==
  /\ stage' = [e \in Ends |-> IF e \in es THEN "gone" ELSE stage[e]]
  /\ fd' = [e \in Ends |-> IF e \in es THEN NoFd ELSE fd[e]]
  /\ unpacker' = [e \in Ends |-> IF e \in es THEN <<>> ELSE unpacker[e]]
  /\ UNCHANGED <<met, ready>>

(* Closes the ends of es: what they had not read is lost.  The records that *)
(* name them stay in the pipe.                                              *)
Close(es) ==
  /\ stage' = [e \in Ends |-> IF e \in es THEN "gone" ELSE stage[e]]
  /\ fd' = [e \in Ends |-> IF e \in es THEN NoFd ELSE fd[e]]
  /\ met' = met \ es
  /\ ready' = ready \ es
  /\ unpacker' = [e \in Ends |-> IF e \in es THEN <<>> ELSE unpacker[e]]

(* The loop of n is no more and every socket of it is closed. *)
Leave(n) ==
  LET es == {e \in Ends : stage[e] # "gone" /\ Owner(e) = n} IN
  /\ up' = up \ {n}
  /\ Close(es)
  /\ inbox' = [e \in Ends |-> IF e \in es THEN <<>> ELSE inbox[e]]
  /\ events' = [events EXCEPT ![n] = <<>>]
  /\ UNCHANGED <<starts, route>>

(* Waits for the node's connections under way and for the records they      *)
(* posted of peers that are there.  mAddressPool stays.                     *)
Stop(n) ==
  /\ Idle(n)
  /\ Stops
  /\ dialing[n] = NoAddress
  /\ \A e \in Peers(n) : e[2] = "OUT" => ~Posted(n, fd[e])
  /\ Leave(n)
  /\ UNCHANGED <<dialing, pool, trying>>

(* The process of the node ends in the middle of whatever it does, and the  *)
(* next start() is that of a new process.                                   *)
Crash(n) ==
  /\ n \in up
  /\ Stops
  /\ Leave(n)
  /\ dialing' = [dialing EXCEPT ![n] = NoAddress]
  /\ pool' = [pool EXCEPT ![n] = NoAddress]
  /\ trying' = trying \ {n}

-----------------------------------------------------------------------------
(* connect() *)

(* Neither end of c is there. *)
Free(c) == stage[<<c, "OUT">>] = "gone" /\ stage[<<c, "IN">>] = "gone"

Dialed(n, a) ==
  /\ n \in up
  /\ dialing[n][a] > 0
  /\ dialing' = [dialing EXCEPT ![n][a] = @ - 1]

(* Nobody listens there, or there is no descriptor left. *)
DialFails(n, a) ==
  /\ Dialed(n, a)
  /\ a \notin up \/ FreeFds(n) = {}
  /\ UNCHANGED <<owners, pool, trying, events, route, peers, socket>>

(* insertPeer and PEER_WELCOME here; the connection waits there to be       *)
(* accepted.                                                                *)
Dial(n, a) ==
  /\ Dialed(n, a)
  /\ a \in up
  /\ \E c \in Conns, f \in NewFds(n) :
       /\ Free(c) /\ \A d \in 1..(c - 1) : ~Free(d)
       /\ route' = [route EXCEPT ![c] = <<n, a>>]
       /\ stage' = [stage EXCEPT ![<<c, "OUT">>] = "peer",
                                 ![<<c, "IN">>] = "backlog"]
       /\ fd' = [fd EXCEPT ![<<c, "OUT">>] = f]
       /\ events' = [events EXCEPT ![n] = Append(@, Greeting(f))]
  /\ UNCHANGED <<owners, pool, trying, met, ready, socket>>

-----------------------------------------------------------------------------
(* threadLoop: what the loop of node n does next *)

Accept(n) ==
  /\ Idle(n)
  /\ \E e \in Ends, f \in NewFds(n) :
       /\ stage[e] = "backlog" /\ Owner(e) = n
       /\ stage' = [stage EXCEPT ![e] = "peer"]
       /\ fd' = [fd EXCEPT ![e] = f]
  /\ UNCHANGED <<owners, dialing, pool, trying, events, route, met, ready,
                 socket>>

(* What sendMsg leaves at the other end of the connection. *)
Delivered(e, msgs) ==
  IF stage[Other(e)] = "gone" THEN inbox[Other(e)]
                              ELSE inbox[Other(e)] \o msgs

(* The addresses sendMsg_Discovery lists: those of the ready peers. *)
Ready(n) ==
  [a \in Nodes |->
     Cardinality({e \in Peers(n) \cap ready : Owner(Other(e)) = a})]

(* Mutant of Welcome: the discovery goes first. *)
WelcomeReversed(n) ==
  (IF Ready(n) = NoAddress
   THEN <<>> ELSE <<[type |-> "DISCOVERY", addresses |-> Ready(n)]>>)
    \o <<[type |-> "PEER_INFO"]>>

(* PEER_INFO, and DISCOVERY unless it would be empty. *)
Welcome(n) ==
  <<[type |-> "PEER_INFO"]>> \o
  IF Ready(n) = NoAddress
  THEN <<>> ELSE <<[type |-> "DISCOVERY", addresses |-> Ready(n)]>>

(* The peer that has the number now is greeted, whoever the record meant. *)
HandleWelcome(n) ==
  LET greeted == {e \in Peers(n) : fd[e] = Head(events[n]).fd} IN
  /\ Idle(n)
  /\ events[n] # <<>> /\ Head(events[n]).type = "PEER_WELCOME"
  /\ events' = [events EXCEPT ![n] = Tail(@)]
  /\ \/ greeted = {} /\ UNCHANGED inbox
     \/ \E e \in greeted :
          inbox' = [inbox EXCEPT ![Other(e)] = Delivered(e, Welcome(n))]
  /\ UNCHANGED <<owners, dialing, pool, trying, route, peers,
                 unpacker>>

HandleTryConnect(n) ==
  /\ Idle(n)
  /\ events[n] # <<>> /\ Head(events[n]).type = "TRY_CONNECT"
  /\ events' = [events EXCEPT ![n] = Tail(@)]
  /\ trying' = trying \cup {n}
  /\ UNCHANGED <<owners, dialing, pool, route, peers, socket>>

WantsPeers(n) ==
  Cardinality(Peers(n)) < kTargetNumPeers /\ pool[n] # NoAddress

Launch(n) ==
  /\ n \in trying
  /\ WantsPeers(n)
  /\ \E a \in Nodes :
       /\ pool[n][a] > 0
       /\ pool' = [pool EXCEPT ![n][a] = @ - 1]
       /\ dialing' = [dialing EXCEPT ![n][a] = @ + 1]
  /\ UNCHANGED <<owners, trying, events, route, peers, socket>>

LaunchEnds(n) ==
  /\ n \in trying
  /\ ~WantsPeers(n)
  /\ trying' = trying \ {n}
  /\ UNCHANGED <<owners, dialing, pool, events, route, peers, socket>>

-----------------------------------------------------------------------------
(* threadLoop: servePeer and decodeMsg *)

(* read() returns k of the messages that arrived; one message is decoded,   *)
(* the others stay in the unpacker until there is more to read.             *)
Receives(n, e, k) ==
  /\ Idle(n)
  /\ e \in Peers(n)
  /\ k \in 1..Len(inbox[e])
  /\ Coalesce \/ k = 1

Arrived(e, k) == unpacker[e] \o SubSeq(inbox[e], 1, k)

(* The read leaves k messages fewer in the socket, msgs go to the other end. *)
ReadAndSend(e, k, msgs) ==
  inbox' = [inbox EXCEPT ![e] = SubSeq(@, k + 1, Len(@)),
                         ![Other(e)] = Delivered(e, msgs)]

(* Mutant of Acceptable: any network will do. *)
AcceptableAnyNetwork(e) == Owner(Other(e)) # Owner(e)

Acceptable(e) ==
  /\ NetId[Owner(Other(e))] = NetId[Owner(e)]
  /\ Owner(Other(e)) # Owner(e)

(* Mutant of MustWelcome: the peer is only marked ready. *)
MustWelcomeNobody(e) == FALSE

(* Peers that connected to us are welcomed once they introduce themselves. *)
MustWelcome(e) == e \notin ready /\ e[2] = "IN"

DecodePeerInfo(n, e, k) ==
  /\ Receives(n, e, k)
  /\ Head(Arrived(e, k)).type = "PEER_INFO"
  /\ Acceptable(e)
  /\ ReadAndSend(e, k, <<>>)
  /\ unpacker' = [unpacker EXCEPT ![e] = Tail(Arrived(e, k))]
  /\ met' = met \cup {e}
  /\ IF MustWelcome(e)
     THEN /\ ready' = ready \cup {e}
          /\ events' = [events EXCEPT ![n] = Append(@, Greeting(fd[e]))]
     ELSE UNCHANGED <<ready, events>>
  /\ UNCHANGED <<owners, dialing, pool, trying, route, stage, fd>>

(* Another network is told so; we just drop ourselves. *)
DecodeReject(n, e, k) ==
  /\ Receives(n, e, k)
  /\ Head(Arrived(e, k)).type = "PEER_INFO"
  /\ ~Acceptable(e)
  /\ inbox' = [inbox EXCEPT
                 ![e] = <<>>,
                 ![Other(e)] =
                   IF NetId[Owner(Other(e))] # NetId[n]
                   THEN Delivered(e, <<[type |-> "DISCONNECT"]>>) ELSE @]
  /\ Close({e})
  /\ UNCHANGED <<owners, dialing, pool, trying, events, route>>

DecodeDiscovery(n, e, k) ==
  LET m == Head(Arrived(e, k)) IN
  /\ Receives(n, e, k)
  /\ m.type = "DISCOVERY"
  /\ ReadAndSend(e, k, <<>>)
  /\ unpacker' = [unpacker EXCEPT ![e] = Tail(Arrived(e, k))]
  /\ pool' = [pool EXCEPT ![n] = [a \in Nodes |-> @[a] + m.addresses[a]]]
  /\ events' = [events EXCEPT ![n] = Append(@, [type |-> "TRY_CONNECT"])]
  /\ UNCHANGED <<owners, dialing, trying, route, peers>>

Drop(e) ==
  /\ inbox' = [inbox EXCEPT ![e] = <<>>]
  /\ Close({e})
  /\ UNCHANGED <<owners, dialing, pool, trying, events, route>>

DecodeDisconnect(n, e, k) ==
  /\ Receives(n, e, k)
  /\ Head(Arrived(e, k)).type = "DISCONNECT"
  /\ Drop(e)

(* Mutant of Hears: the end of the stream is not noticed. *)
HearsNothing(e) == FALSE

(* The other end is closed.  What it had sent before may be lost with it:   *)
(* the connection is reset if it was closed with something unread, or       *)
(* written to since.                                                        *)
Hears(e) == stage[Other(e)] = "gone"

ReadEof(n, e) ==
  /\ Idle(n)
  /\ e \in Peers(n)
  /\ Hears(e)
  /\ Drop(e)

-----------------------------------------------------------------------------
Serve(n) ==
  \E e \in Ends :
    \/ ReadEof(n, e)
    \/ \E k \in 1..Len(inbox[e]) :
         \/ DecodePeerInfo(n, e, k) \/ DecodeReject(n, e, k)
         \/ DecodeDiscovery(n, e, k) \/ DecodeDisconnect(n, e, k)

Loop(n) ==
  \/ Accept(n) \/ HandleWelcome(n) \/ HandleTryConnect(n)
  \/ Launch(n) \/ LaunchEnds(n) \/ Serve(n)

Connect(n) == \E a \in Nodes : Dial(n, a) \/ DialFails(n, a)

Next == \E n \in Nodes : Start(n) \/ Stop(n) \/ Crash(n) \/ Connect(n) \/ Loop(n)

Spec == Init /\ [][Next]_vars

(* The loop of a node that runs and its connecting threads keep running. *)
Fairness == \A n \in Nodes : WF_vars(Loop(n)) /\ WF_vars(Connect(n))

(* Every node is started. *)
Starting == \A n \in Nodes : WF_vars(Start(n))

FairSpec == Spec /\ Fairness

StartedSpec == FairSpec /\ Starting
=============================================================================
