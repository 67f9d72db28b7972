--------------------------- MODULE P2PNet_proofs ----------------------------
(* Theorems about P2PNet: what the handshake guarantees to any number of    *)
(* nodes and connections, however they are started, stopped and killed.     *)
EXTENDS P2PNetProperties, FiniteSetTheorems, SequenceTheorems, TLAPS

(* What an honest node sends to e: it lists nodes of its own network. *)
HonestFor(e) ==
  {m \in Messages :
     m.type = "DISCOVERY" =>
       \A a \in Nodes : m.addresses[a] > 0 => NetId[a] = NetId[Owner(Other(e))]}

(* An end keeps to the handshake.  As long as it has not met the other node *)
(* nothing is decoded, and no DISCOVERY is the first thing to decode; what  *)
(* it is sent is honest.                                                    *)
EndInv(e) ==
  /\ stage[e] = "backlog" => e[2] = "IN"
  /\ stage[e] = "gone" => inbox[e] = <<>>
  /\ e \in met => stage[e] = "peer" /\ Acceptable(e)
  /\ e \notin met =>
       /\ unpacker[e] = <<>>
       /\ inbox[e] # <<>> => Head(inbox[e]).type # "DISCOVERY"
  /\ e \in ready => e \in met
  /\ inbox[e] \in Seq(HonestFor(e)) /\ unpacker[e] \in Seq(HonestFor(e))

(* The peers of a node have descriptors of their own. *)
Distinct ==
  \A e, f \in Ends :
    stage[e] = "peer" /\ stage[f] = "peer" /\ Owner(e) = Owner(f) /\ fd[e] = fd[f]
      => e = f

(* Nobody answers before the connection is accepted. *)
Unanswered(c) ==
  stage[<<c, "IN">>] = "backlog" =>
    <<c, "OUT">> \notin met /\ inbox[<<c, "OUT">>] = <<>>

(* The inductive invariant. *)
HandshakeInv ==
  /\ TypeOK
  /\ \A e \in Ends : EndInv(e)
  /\ Distinct
  /\ \A c \in Conns : Unanswered(c)

-----------------------------------------------------------------------------
(* Types *)

(* A node's ready peers can be counted. *)
LEMMA ReadyType ==
  ASSUME NEW n \in Nodes PROVE Ready(n) \in Addresses
<1>1. IsFiniteSet(Ends)
  <2>1. IsFiniteSet(Conns)
    <3>1. 1 \in Int /\ MaxConns \in Int
      BY NetAssumption
    <3>. QED
      BY <3>1, FS_Interval, Zenon DEF Conns
  <2>2. IsFiniteSet({"OUT", "IN"})
    <3>1. IsFiniteSet({"OUT"} \cup {"IN"})
      BY FS_Singleton, FS_AddElement, Zenon
    <3>. QED
      BY <3>1
  <2>. QED
    BY <2>1, <2>2, FS_Product DEF Ends
<1>2. ASSUME NEW a \in Nodes
      PROVE Cardinality({e \in Peers(n) \cap ready : Owner(Other(e)) = a})
              \in Nat
  BY <1>1, FS_Subset, FS_CardinalityType DEF Peers
<1>. QED
  BY <1>2 DEF Ready, Addresses

(* A welcome is made of messages. *)
LEMMA WelcomeType ==
  ASSUME NEW n \in Nodes PROVE Welcome(n) \in Seq(Messages)
<1>1. [type |-> "PEER_INFO"] \in Messages
  BY DEF Messages
<1>2. [type |-> "DISCOVERY", addresses |-> Ready(n)] \in Messages
  BY ReadyType DEF Messages
<1>. QED
  BY <1>1, <1>2 DEF Welcome

(* The other end of an end. *)
LEMMA OtherFact ==
  \A e \in Ends : /\ Other(e) \in Ends /\ Other(e) # e /\ Other(Other(e)) = e
                  /\ Other(e)[1] = e[1] /\ e[1] \in Conns
                  /\ e[2] = "IN" <=> Other(e)[2] = "OUT"
                  /\ e[2] \in {"IN", "OUT"}
BY DEF Ends, Other

(* The records of the pipe. *)
LEMMA RecordFact ==
  ASSUME NEW r \in Records, r.type = "PEER_WELCOME"
  PROVE  r.fd \in Fds
BY DEF Records

LEMMA InitType == Init => TypeOK
<1>1. (CHOOSE r \in Nodes \X Nodes : TRUE) \in Nodes \X Nodes
  <2>1. PICK n \in Nodes : TRUE
    BY NetAssumption
  <2>2. <<n, n>> \in Nodes \X Nodes
    BY <2>1
  <2>. QED
    BY <2>2, Zenon
<1>2. NoAddress \in Addresses
  BY DEF NoAddress, Addresses
<1>. QED
  BY <1>1, <1>2, NetAssumption DEF Init, TypeOK

(* What is left of a type after Close. *)
LEMMA CloseType ==
  ASSUME TypeOK, NEW es, Close(es)
  PROVE  /\ stage' \in [Ends -> {"gone", "backlog", "peer"}]
         /\ fd' \in [Ends -> Fds \cup {NoFd}]
         /\ \A e \in Ends : fd'[e] \in Fds <=> stage'[e] = "peer"
         /\ met' \subseteq Ends /\ ready' \subseteq Ends
         /\ unpacker' \in [Ends -> Seq(Messages)]
BY NetAssumption DEF Close, TypeOK

(* What a read and a reply leave in the sockets. *)
LEMMA InboxType ==
  ASSUME TypeOK, NEW e \in Ends, NEW msgs \in Seq(Messages)
  PROVE  /\ Delivered(e, msgs) \in Seq(Messages)
         /\ \A k \in 1..Len(inbox[e]) :
              ReadAndSend(e, k, msgs) => inbox' \in [Ends -> Seq(Messages)]
         /\ [inbox EXCEPT ![Other(e)] = Delivered(e, msgs)]
              \in [Ends -> Seq(Messages)]
<1>1. Delivered(e, msgs) \in Seq(Messages)
  BY OtherFact, ConcatProperties DEF Delivered, TypeOK
<1>2. ASSUME NEW k \in 1..Len(inbox[e])
      PROVE  SubSeq(inbox[e], k + 1, Len(inbox[e])) \in Seq(Messages)
  <2>1. inbox[e] \in Seq(Messages)
    BY DEF TypeOK
  <2>2. \A i \in (k + 1)..Len(inbox[e]) : inbox[e][i] \in Messages
    BY <2>1, ElementOfSeq
  <2>. QED
    BY <2>1, <2>2, SubSeqProperties, LenProperties
<1>. QED
  BY <1>1, <1>2 DEF ReadAndSend, TypeOK

(* What the decoder has before it. *)
LEMMA ArrivedType ==
  ASSUME TypeOK, NEW e \in Ends, NEW k \in 1..Len(inbox[e])
  PROVE  /\ Arrived(e, k) \in Seq(Messages) /\ Arrived(e, k) # <<>>
         /\ Head(Arrived(e, k)) \in Messages
         /\ Tail(Arrived(e, k)) \in Seq(Messages)
<1>1. inbox[e] \in Seq(Messages) /\ unpacker[e] \in Seq(Messages)
  BY DEF TypeOK
<1>2. SubSeq(inbox[e], 1, k) \in Seq(Messages) /\ Len(SubSeq(inbox[e], 1, k)) = k
  <2>1. \A i \in 1..k : inbox[e][i] \in Messages
    BY <1>1, ElementOfSeq
  <2>. QED
    BY <2>1, SubSeqProperties
<1>3. /\ Arrived(e, k) \in Seq(Messages)
      /\ Len(Arrived(e, k)) = Len(unpacker[e]) + k
  BY <1>1, <1>2, ConcatProperties DEF Arrived
<1>4. Arrived(e, k) # <<>>
  BY <1>1, <1>3, LenProperties, EmptySeq
<1>. QED
  BY <1>3, <1>4, HeadTailProperties

(* Addresses are taken from a pool and added to one. *)
LEMMA CountType ==
  ASSUME NEW f \in [Nodes -> Addresses], NEW n \in Nodes, NEW a \in Nodes
  PROVE  /\ [f EXCEPT ![n][a] = @ + 1] \in [Nodes -> Addresses]
         /\ f[n][a] > 0 => [f EXCEPT ![n][a] = @ - 1] \in [Nodes -> Addresses]
<1>1. f[n] \in [Nodes -> Nat]
  BY DEF Addresses
<1>2. /\ [f[n] EXCEPT ![a] = @ + 1] \in Addresses
      /\ f[n][a] > 0 => [f[n] EXCEPT ![a] = @ - 1] \in Addresses
  BY <1>1 DEF Addresses
<1>. QED
  BY <1>2

(* Each step of a node keeps the types. *)
LEMMA StepType ==
  ASSUME TypeOK, NEW n \in Nodes,
         Start(n) \/ Stop(n) \/ Crash(n) \/ Connect(n) \/ Loop(n)
  PROVE  TypeOK'
<1>. USE NetAssumption
<1>1. CASE Start(n)
  <2>1. [a \in Nodes |-> IF a \in Boot[n] THEN 1 ELSE 0] \in Addresses
    BY DEF Addresses
  <2>2. dialing' \in [Nodes -> Addresses]
    BY <1>1, <2>1 DEF Start, TypeOK
  <2>. QED
    BY <1>1, <2>2 DEF TypeOK, Start, peers, socket
<1>2. ASSUME Leave(n), trying' = trying \ {n} \/ (n \notin trying /\ trying' = trying)
      PROVE  /\ up' \subseteq Nodes /\ starts' \in 0..MaxStarts
             /\ trying' \subseteq up'
             /\ events' \in [Nodes -> Seq(Records)]
             /\ route' \in [Conns -> Nodes \X Nodes]
             /\ stage' \in [Ends -> {"gone", "backlog", "peer"}]
             /\ fd' \in [Ends -> Fds \cup {NoFd}]
             /\ \A e \in Ends : fd'[e] \in Fds <=> stage'[e] = "peer"
             /\ met' \subseteq Ends /\ ready' \subseteq Ends
             /\ inbox' \in [Ends -> Seq(Messages)]
             /\ unpacker' \in [Ends -> Seq(Messages)]
  BY <1>2, CloseType DEF TypeOK, Leave
<1>3. CASE Stop(n)
  BY <1>2, <1>3 DEF Stop, Idle, TypeOK
<1>4. CASE Crash(n)
  BY <1>2, <1>4 DEF Crash, TypeOK, NoAddress, Addresses
<1>5. ASSUME NEW a \in Nodes, Dialed(n, a)
      PROVE  dialing' \in [Nodes -> Addresses]
  BY <1>5, CountType DEF Dialed, TypeOK
<1>6. ASSUME NEW a \in Nodes, DialFails(n, a)
      PROVE  TypeOK'
  BY <1>5, <1>6 DEF DialFails, TypeOK, owners, peers, socket
<1>7. ASSUME NEW a \in Nodes, Dial(n, a)
      PROVE  TypeOK'
  <2>1. PICK c \in Conns, f \in Fds :
          /\ Free(c)
          /\ route' = [route EXCEPT ![c] = <<n, a>>]
          /\ stage' = [stage EXCEPT ![<<c, "OUT">>] = "peer",
                                    ![<<c, "IN">>] = "backlog"]
          /\ fd' = [fd EXCEPT ![<<c, "OUT">>] = f]
          /\ events' = [events EXCEPT ![n] = Append(@, Greeting(f))]
    BY <1>7 DEF Dial, NewFds, FreeFds
  <2>2. Greeting(f) \in Records
    BY DEF Greeting, Records
  <2>3. events' \in [Nodes -> Seq(Records)]
    BY <2>1, <2>2, AppendProperties DEF TypeOK
  <2>4. dialing' \in [Nodes -> Addresses]
    BY <1>5, <1>7 DEF Dial
  <2>5. \A e \in Ends : fd'[e] \in Fds <=> stage'[e] = "peer"
    <3>1. <<c, "OUT">> \in Ends /\ <<c, "IN">> \in Ends
      BY DEF Ends
    <3>2. fd[<<c, "IN">>] \notin Fds
      BY <2>1, <3>1 DEF Free, TypeOK
    <3>3. \A e \in Ends \ {<<c, "OUT">>, <<c, "IN">>} :
            fd'[e] = fd[e] /\ stage'[e] = stage[e]
      BY <2>1 DEF TypeOK
    <3>4. fd'[<<c, "OUT">>] = f /\ fd'[<<c, "IN">>] = fd[<<c, "IN">>]
      BY <2>1, <3>1 DEF TypeOK
    <3>5. stage'[<<c, "OUT">>] = "peer" /\ stage'[<<c, "IN">>] = "backlog"
      BY <2>1, <3>1 DEF TypeOK
    <3>. QED
      BY <2>1, <3>1, <3>2, <3>3, <3>4, <3>5 DEF TypeOK
  <2>6. fd' \in [Ends -> Fds \cup {NoFd}]
    BY <2>1 DEF TypeOK
  <2>. QED
    BY <1>7, <2>1, <2>3, <2>4, <2>5, <2>6 DEF Dial, TypeOK, owners, peers, socket
<1>8. CASE Accept(n)
  BY <1>8 DEF Accept, NewFds, FreeFds, TypeOK, owners, peers, socket
<1>9. CASE HandleWelcome(n)
  <2>1. events' \in [Nodes -> Seq(Records)]
    BY <1>9, HeadTailProperties DEF HandleWelcome, TypeOK
  <2>2. inbox' \in [Ends -> Seq(Messages)]
    <3>1. ASSUME NEW e \in Peers(n)
          PROVE  [inbox EXCEPT ![Other(e)] = Delivered(e, Welcome(n))]
                   \in [Ends -> Seq(Messages)]
      BY InboxType, WelcomeType DEF Peers
    <3>. QED
      BY <1>9, <3>1 DEF HandleWelcome, TypeOK
  <2>. QED
    BY <1>9, <2>1, <2>2 DEF HandleWelcome, TypeOK, owners, peers
<1>10. CASE HandleTryConnect(n)
  <2>1. events' \in [Nodes -> Seq(Records)]
    BY <1>10, HeadTailProperties DEF HandleTryConnect, TypeOK
  <2>. QED
    BY <1>10, <2>1 DEF HandleTryConnect, Idle, TypeOK, owners, peers, socket
<1>11. CASE Launch(n)
  <2>1. pool' \in [Nodes -> Addresses] /\ dialing' \in [Nodes -> Addresses]
    <3>1. PICK a \in Nodes :
            /\ pool[n][a] > 0
            /\ pool' = [pool EXCEPT ![n][a] = @ - 1]
            /\ dialing' = [dialing EXCEPT ![n][a] = @ + 1]
      BY <1>11 DEF Launch
    <3>. QED
      BY <3>1, CountType DEF TypeOK
  <2>. QED
    BY <1>11, <2>1 DEF Launch, TypeOK, owners, peers, socket
<1>12. CASE LaunchEnds(n)
  BY <1>12 DEF LaunchEnds, TypeOK, owners, peers, socket
<1>13. ASSUME NEW e \in Ends, Drop(e)
       PROVE  TypeOK'
  <2>1. inbox' = [inbox EXCEPT ![e] = <<>>] /\ Close({e})
        /\ UNCHANGED <<up, starts, dialing, pool, trying, events, route>>
    BY <1>13 DEF Drop, owners
  <2>2. inbox' \in [Ends -> Seq(Messages)]
    <3>1. inbox \in [Ends -> Seq(Messages)]
      BY DEF TypeOK
    <3>. QED
      BY <2>1, <3>1, EmptySeq
  <2>3. /\ stage' \in [Ends -> {"gone", "backlog", "peer"}]
        /\ fd' \in [Ends -> Fds \cup {NoFd}]
        /\ \A d \in Ends : fd'[d] \in Fds <=> stage'[d] = "peer"
        /\ met' \subseteq Ends /\ ready' \subseteq Ends
        /\ unpacker' \in [Ends -> Seq(Messages)]
    BY <2>1, CloseType, Zenon
  <2>. QED
    BY <2>1, <2>2, <2>3 DEF TypeOK
<1>14. ASSUME NEW e \in Ends, NEW k \in 1..Len(inbox[e]), DecodePeerInfo(n, e, k)
       PROVE  TypeOK'
  <2>1. inbox' \in [Ends -> Seq(Messages)]
    BY <1>14, InboxType, EmptySeq DEF DecodePeerInfo
  <2>2. unpacker' \in [Ends -> Seq(Messages)]
    BY <1>14, ArrivedType DEF DecodePeerInfo, TypeOK
  <2>3. Greeting(fd[e]) \in Records
    <3>1. fd[e] \in Fds
      BY <1>14 DEF DecodePeerInfo, Receives, Peers, TypeOK
    <3>. QED
      BY <3>1 DEF Greeting, Records
  <2>4. events' \in [Nodes -> Seq(Records)]
    <3>1. Append(events[n], Greeting(fd[e])) \in Seq(Records)
      BY <2>3, AppendProperties DEF TypeOK
    <3>2. events' = events
            \/ events' = [events EXCEPT ![n] = Append(@, Greeting(fd[e]))]
      BY <1>14, Zenon DEF DecodePeerInfo
    <3>. QED
      BY <3>1, <3>2 DEF TypeOK
  <2>. QED
    BY <1>14, <2>1, <2>2, <2>4 DEF DecodePeerInfo, TypeOK, owners
<1>15. ASSUME NEW e \in Ends, NEW k \in 1..Len(inbox[e]), DecodeReject(n, e, k)
       PROVE  TypeOK'
  <2>1. <<[type |-> "DISCONNECT"]>> \in Seq(Messages)
    BY DEF Messages
  <2>2. /\ inbox \in [Ends -> Seq(Messages)] /\ <<>> \in Seq(Messages)
        /\ Delivered(e, <<[type |-> "DISCONNECT"]>>) \in Seq(Messages)
        /\ inbox[Other(e)] \in Seq(Messages)
    <3>1. Delivered(e, <<[type |-> "DISCONNECT"]>>) \in Seq(Messages)
      BY <2>1, InboxType, Zenon
    <3>2. Other(e) \in Ends
      BY OtherFact
    <3>. QED
      BY <3>1, <3>2 DEF TypeOK
  <2>3. inbox' \in [Ends -> Seq(Messages)]
    BY <1>15, <2>2 DEF DecodeReject
  <2>. QED
    BY <1>15, <2>3, CloseType DEF DecodeReject, TypeOK, owners
<1>16. ASSUME NEW e \in Ends, NEW k \in 1..Len(inbox[e]), DecodeDiscovery(n, e, k)
       PROVE  TypeOK'
  <2>1. inbox' \in [Ends -> Seq(Messages)]
    BY <1>16, InboxType, EmptySeq DEF DecodeDiscovery
  <2>2. unpacker' \in [Ends -> Seq(Messages)]
    BY <1>16, ArrivedType DEF DecodeDiscovery, TypeOK
  <2>3. [type |-> "TRY_CONNECT"] \in Records
    BY DEF Records
  <2>4. events' \in [Nodes -> Seq(Records)]
    BY <1>16, <2>3, AppendProperties DEF DecodeDiscovery, TypeOK
  <2>5. Head(Arrived(e, k)).addresses \in Addresses
    BY <1>16, ArrivedType DEF DecodeDiscovery, Messages
  <2>6. [a \in Nodes |-> pool[n][a] + Head(Arrived(e, k)).addresses[a]]
          \in Addresses
    <3>1. pool[n] \in [Nodes -> Nat]
      BY DEF TypeOK, Addresses
    <3>2. \A a \in Nodes :
            pool[n][a] + Head(Arrived(e, k)).addresses[a] \in Nat
      BY <3>1, <2>5 DEF Addresses
    <3>. QED
      BY <3>2 DEF Addresses
  <2>7. pool' \in [Nodes -> Addresses]
    BY <1>16, <2>6 DEF DecodeDiscovery, TypeOK
  <2>. QED
    BY <1>16, <2>1, <2>2, <2>4, <2>7 DEF DecodeDiscovery, TypeOK, owners, peers
<1>17. CASE Serve(n)
  BY <1>13, <1>14, <1>15, <1>16, <1>17
  DEF Serve, ReadEof, DecodeDisconnect
<1>. QED
  BY <1>1, <1>3, <1>4, <1>6, <1>7, <1>8, <1>9, <1>10, <1>11, <1>12, <1>17
  DEF Connect, Loop

(* Every variable keeps its type: TypeOK, for any nodes, networks and       *)
(* bounds.                                                                  *)
THEOREM NetTypes == Spec => []TypeOK
<1>1. TypeOK /\ [Next]_vars => TypeOK'
  <2>1. TypeOK /\ UNCHANGED vars => TypeOK'
    BY DEF TypeOK, vars
  <2>. QED
    BY <2>1, StepType DEF Next
<1>. QED
  BY <1>1, InitType, PTL DEF Spec

-----------------------------------------------------------------------------
(* An end in a step *)

(* What an end is sent stays honest while the connection is the same.       *)
LEMMA SameHonest ==
  ASSUME NEW e \in Ends, route'[e[1]] = route[e[1]]
  PROVE  /\ Owner(e)' = Owner(e) /\ Owner(Other(e))' = Owner(Other(e))
         /\ HonestFor(e)' = HonestFor(e) /\ Acceptable(e)' = Acceptable(e)
<1>1. Owner(e)' = Owner(e)
  BY DEF Owner
<1>2. Owner(Other(e))' = Owner(Other(e))
  BY DEF Owner, Other
<1>. QED
  BY <1>1, <1>2 DEF HonestFor, Acceptable

(* An end that a step leaves alone. *)
LEMMA SameEnd ==
  ASSUME NEW e \in Ends, EndInv(e),
         route'[e[1]] = route[e[1]], stage'[e] = stage[e],
         e \in met' <=> e \in met, e \in ready' => e \in ready,
         inbox'[e] = inbox[e], unpacker'[e] = unpacker[e]
  PROVE  EndInv(e)'
BY SameHonest DEF EndInv

(* An end that is closed. *)
LEMMA GoneEnd ==
  ASSUME NEW e \in Ends,
         stage'[e] = "gone", e \notin met', e \notin ready',
         inbox'[e] = <<>>, unpacker'[e] = <<>>
  PROVE  EndInv(e)'
BY EmptySeq DEF EndInv

(* An end that is sent something. *)
LEMMA SentEnd ==
  ASSUME NEW e \in Ends, EndInv(e), stage[e] # "gone",
         route'[e[1]] = route[e[1]], stage'[e] = stage[e],
         e \in met' <=> e \in met, e \in ready' => e \in ready,
         NEW msgs \in Seq(HonestFor(e)), msgs # <<>>,
         Head(msgs).type # "DISCOVERY",
         inbox'[e] = inbox[e] \o msgs, unpacker'[e] = unpacker[e]
  PROVE  EndInv(e)'
<1>1. inbox[e] \in Seq(HonestFor(e))
  BY DEF EndInv
<1>2. inbox'[e] \in Seq(HonestFor(e))
  BY <1>1, ConcatProperties
<1>3. inbox[e] = <<>> => inbox'[e] = msgs
  BY ConcatEmptySeq
<1>4. inbox[e] # <<>> => Head(inbox'[e]) = Head(inbox[e])
  BY <1>1, ConcatProperties
<1>. QED
  BY <1>2, <1>3, <1>4, SameHonest DEF EndInv

(* What is before the decoder is honest, and read in order. *)
LEMMA HonestArrived ==
  ASSUME TypeOK, NEW e \in Ends, EndInv(e), NEW k \in 1..Len(inbox[e])
  PROVE  /\ Head(Arrived(e, k)) \in HonestFor(e)
         /\ Tail(Arrived(e, k)) \in Seq(HonestFor(e))
         /\ SubSeq(inbox[e], k + 1, Len(inbox[e])) \in Seq(HonestFor(e))
         /\ inbox[e] # <<>>
         /\ Head(Arrived(e, k)).type = "DISCOVERY" => e \in met
<1>1. inbox[e] \in Seq(HonestFor(e)) /\ unpacker[e] \in Seq(HonestFor(e))
  BY DEF EndInv
<1>2. \A i \in 1..Len(inbox[e]) : inbox[e][i] \in HonestFor(e)
  BY <1>1, ElementOfSeq
<1>3. /\ SubSeq(inbox[e], 1, k) \in Seq(HonestFor(e))
      /\ SubSeq(inbox[e], k + 1, Len(inbox[e])) \in Seq(HonestFor(e))
      /\ Len(SubSeq(inbox[e], 1, k)) = k
      /\ SubSeq(inbox[e], 1, k)[1] = inbox[e][1]
  <2>1. k \in Int /\ k + 1 \in Int /\ Len(inbox[e]) \in Nat
    BY <1>1, LenProperties
  <2>2. /\ \A i \in 1..k : inbox[e][i] \in HonestFor(e)
        /\ \A i \in (k + 1)..Len(inbox[e]) : inbox[e][i] \in HonestFor(e)
    BY <1>2, <2>1
  <2>. QED
    BY <2>1, <2>2, SubSeqProperties
<1>4. Arrived(e, k) \in Seq(HonestFor(e)) /\ Arrived(e, k) # <<>>
  BY <1>1, <1>3, ConcatProperties, ArrivedType DEF Arrived
<1>5. e \notin met => Head(Arrived(e, k)) = Head(inbox[e])
  <2>1. e \notin met => Arrived(e, k) = SubSeq(inbox[e], 1, k)
    BY <1>3, ConcatEmptySeq DEF EndInv, Arrived
  <2>. QED
    BY <1>1, <1>3, <2>1
<1>6. inbox[e] # <<>>
  BY <1>1
<1>. QED
  BY <1>3, <1>4, <1>5, <1>6, HeadTailProperties DEF EndInv

(* An end that decodes a message and stays. *)
LEMMA DecodedEnd ==
  ASSUME TypeOK, NEW e \in Ends, EndInv(e), NEW k \in 1..Len(inbox[e]),
         route'[e[1]] = route[e[1]], stage'[e] = stage[e], stage[e] = "peer",
         Acceptable(e), e \in met',
         inbox'[e] = SubSeq(inbox[e], k + 1, Len(inbox[e])),
         unpacker'[e] = Tail(Arrived(e, k))
  PROVE  EndInv(e)'
BY SameHonest, HonestArrived DEF EndInv

-----------------------------------------------------------------------------
(* HandshakeInv in a step *)

(* Descriptors stay with their peers. *)
LEMMA SameDistinct ==
  ASSUME Distinct, UNCHANGED <<route, stage, fd>>
  PROVE  Distinct'
BY DEF Distinct, Owner

(* A step that touches no end. *)
LEMMA QuietKeeps ==
  ASSUME HandshakeInv, TypeOK', UNCHANGED <<route, peers, socket>>
  PROVE  HandshakeInv'
<1>1. ASSUME NEW e \in Ends
      PROVE  EndInv(e)'
  BY SameEnd DEF HandshakeInv, peers, socket
<1>2. ASSUME NEW c \in Conns
      PROVE  Unanswered(c)'
  BY DEF HandshakeInv, Unanswered, peers, socket
<1>. QED
  BY <1>1, <1>2, SameDistinct DEF HandshakeInv, peers

(* Ends that are closed, by a node that leaves or one by one.  The others   *)
(* are left alone or sent a DISCONNECT.                                     *)
LEMMA CloseKeeps ==
  ASSUME HandshakeInv, TypeOK', UNCHANGED route,
         NEW es \in SUBSET Ends, Close(es),
         \A e \in es : inbox'[e] = <<>>,
         \A e \in Ends \ es :
           \/ inbox'[e] = inbox[e]
           \/ /\ stage[e] # "gone" /\ Other(e) \in es
              /\ inbox'[e] = inbox[e] \o <<[type |-> "DISCONNECT"]>>
  PROVE  HandshakeInv'
<1>1. /\ \A e \in Ends : EndInv(e)
      /\ \A e \in es : /\ stage'[e] = "gone" /\ unpacker'[e] = <<>>
                       /\ e \notin met' /\ e \notin ready'
      /\ \A e \in Ends \ es :
            /\ stage'[e] = stage[e] /\ unpacker'[e] = unpacker[e]
            /\ fd'[e] = fd[e]
            /\ e \in met' <=> e \in met
            /\ e \in ready' <=> e \in ready
  BY DEF HandshakeInv, Close
<1>2. ASSUME NEW e \in Ends
      PROVE  EndInv(e)'
  <2>1. CASE e \in es
    BY <1>1, <2>1, GoneEnd
  <2>2. CASE e \notin es /\ inbox'[e] = inbox[e]
    BY <1>1, <2>2, SameEnd
  <2>3. CASE /\ e \notin es /\ stage[e] # "gone"
             /\ inbox'[e] = inbox[e] \o <<[type |-> "DISCONNECT"]>>
    <3>1. [type |-> "DISCONNECT"] \in HonestFor(e)
      BY DEF HonestFor, Messages
    <3>2. /\ <<[type |-> "DISCONNECT"]>> \in Seq(HonestFor(e))
          /\ <<[type |-> "DISCONNECT"]>> # <<>>
          /\ Head(<<[type |-> "DISCONNECT"]>>).type # "DISCOVERY"
      BY <3>1
    <3>. QED
      BY <1>1, <2>3, <3>2, SentEnd
  <2>. QED
    BY <2>1, <2>2, <2>3
<1>3. ASSUME NEW c \in Conns
      PROVE  Unanswered(c)'
  <2>1. /\ <<c, "IN">> \in Ends /\ <<c, "OUT">> \in Ends
        /\ Other(<<c, "OUT">>) = <<c, "IN">>
    BY DEF Ends, Other
  <2>2. CASE <<c, "IN">> \in es
    BY <1>1, <2>2 DEF Unanswered
  <2>3. CASE <<c, "IN">> \notin es
    BY <1>1, <2>1, <2>3 DEF HandshakeInv, Unanswered
  <2>. QED
    BY <2>2, <2>3
<1>4. Distinct'
  <2>1. \A e \in Ends : stage'[e] = "peer" =>
          stage[e] = "peer" /\ fd'[e] = fd[e] /\ Owner(e)' = Owner(e)
    BY <1>1 DEF Owner
  <2>. QED
    BY <2>1 DEF HandshakeInv, Distinct
<1>. QED
  BY <1>2, <1>3, <1>4 DEF HandshakeInv

(* A node that stops or whose process ends. *)
LEMMA LeaveKeeps ==
  ASSUME HandshakeInv, TypeOK', NEW n \in Nodes, Leave(n)
  PROVE  HandshakeInv'
<1>. DEFINE es == {e \in Ends : stage[e] # "gone" /\ Owner(e) = n}
<1>1. /\ Close(es) /\ UNCHANGED route
      /\ inbox' = [e \in Ends |-> IF e \in es THEN <<>> ELSE inbox[e]]
  BY DEF Leave
<1>2. es \in SUBSET Ends
  OBVIOUS
<1>3. \A e \in es : inbox'[e] = <<>>
  BY <1>1, <1>2
<1>4. \A e \in Ends \ es : inbox'[e] = inbox[e]
  BY <1>1
<1>. HIDE DEF es
<1>. QED
  BY <1>1, <1>2, <1>3, <1>4, CloseKeeps

(* An end that is closed by its node. *)
LEMMA DropKeeps ==
  ASSUME HandshakeInv, TypeOK', NEW e \in Ends, Drop(e)
  PROVE  HandshakeInv'
<1>1. /\ Close({e}) /\ UNCHANGED route
      /\ inbox' = [inbox EXCEPT ![e] = <<>>] /\ TypeOK
  BY DEF Drop, HandshakeInv
<1>2. /\ \A f \in {e} : inbox'[f] = <<>>
      /\ \A f \in Ends \ {e} : inbox'[f] = inbox[f]
  BY <1>1 DEF TypeOK
<1>3. {e} \in SUBSET Ends
  OBVIOUS
<1>. QED
  BY <1>1, <1>2, <1>3, CloseKeeps

LEMMA RejectKeeps ==
  ASSUME HandshakeInv, TypeOK', NEW n \in Nodes, NEW e \in Ends,
         NEW k \in 1..Len(inbox[e]), DecodeReject(n, e, k)
  PROVE  HandshakeInv'
<1>1. /\ Close({e}) /\ UNCHANGED route /\ TypeOK
      /\ inbox' = [inbox EXCEPT
                     ![e] = <<>>,
                     ![Other(e)] =
                       IF NetId[Owner(Other(e))] # NetId[n]
                       THEN Delivered(e, <<[type |-> "DISCONNECT"]>>) ELSE @]
  BY DEF DecodeReject, HandshakeInv
<1>2. \A f \in {e} : inbox'[f] = <<>>
  BY <1>1, OtherFact DEF TypeOK
<1>3. ASSUME NEW f \in Ends \ {e}
      PROVE  \/ inbox'[f] = inbox[f]
             \/ /\ stage[f] # "gone" /\ Other(f) \in {e}
                /\ inbox'[f] = inbox[f] \o <<[type |-> "DISCONNECT"]>>
  <2>1. CASE f = Other(e)
    BY <1>1, <2>1, OtherFact DEF TypeOK, Delivered
  <2>2. CASE f # Other(e)
    BY <1>1, <2>2 DEF TypeOK
  <2>. QED
    BY <2>1, <2>2
<1>4. {e} \in SUBSET Ends
  OBVIOUS
<1>. QED
  BY <1>1, <1>2, <1>3, <1>4, CloseKeeps

(* A new peer gets a number that no peer of the node has. *)
LEMMA NewDistinct ==
  ASSUME Distinct, TypeOK, NEW g \in Ends, NEW f \in FreeFds(Owner(g)'),
         fd' = [fd EXCEPT ![g] = f],
         \A e \in Ends \ {g} :
           /\ stage'[e] = "peer" => stage[e] = "peer"
           /\ stage[e] = "peer" => Owner(e)' = Owner(e)
  PROVE  Distinct'
<1>1. ASSUME NEW e \in Ends \ {g}, stage'[e] = "peer", Owner(e)' = Owner(g)'
      PROVE  fd'[e] # f
  BY <1>1 DEF FreeFds, Peers, TypeOK
<1>2. \A e \in Ends \ {g} : fd'[e] = fd[e]
  BY DEF TypeOK
<1>3. fd'[g] = f
  BY DEF TypeOK
<1>. QED
  BY <1>1, <1>2, <1>3 DEF Distinct

LEMMA DialKeeps ==
  ASSUME HandshakeInv, TypeOK', NEW n \in Nodes, NEW a \in Nodes, Dial(n, a)
  PROVE  HandshakeInv'
<1>1. PICK c \in Conns, f \in FreeFds(n) :
        /\ Free(c)
        /\ route' = [route EXCEPT ![c] = <<n, a>>]
        /\ stage' = [stage EXCEPT ![<<c, "OUT">>] = "peer",
                                  ![<<c, "IN">>] = "backlog"]
        /\ fd' = [fd EXCEPT ![<<c, "OUT">>] = f]
  BY DEF Dial, NewFds
<1>2. UNCHANGED <<met, ready, inbox, unpacker>> /\ TypeOK
  BY DEF Dial, HandshakeInv, socket
<1>3. /\ <<c, "IN">> \in Ends /\ <<c, "OUT">> \in Ends
      /\ \A e \in Ends : e[1] = c <=> e \in {<<c, "IN">>, <<c, "OUT">>}
  BY DEF Ends
<1>4. \A e \in {<<c, "IN">>, <<c, "OUT">>} :
        e \notin met /\ e \notin ready /\ inbox[e] = <<>> /\ unpacker[e] = <<>>
  BY <1>1, <1>3 DEF Free, HandshakeInv, EndInv
<1>5. ASSUME NEW e \in Ends
      PROVE  EndInv(e)'
  <2>1. CASE e[1] = c
    <3>1. /\ e \notin met' /\ e \notin ready'
          /\ inbox'[e] = <<>> /\ unpacker'[e] = <<>>
      BY <1>2, <1>3, <1>4, <2>1
    <3>2. stage'[e] = "peer" \/ (stage'[e] = "backlog" /\ e[2] = "IN")
      <4>1. /\ stage'[<<c, "OUT">>] = "peer"
            /\ stage'[<<c, "IN">>] = "backlog"
        BY <1>1, <1>2, <1>3 DEF TypeOK
      <4>. QED
        BY <1>3, <2>1, <4>1
    <3>. QED
      BY <3>1, <3>2, EmptySeq DEF EndInv
  <2>2. CASE e[1] # c
    <3>1. route'[e[1]] = route[e[1]]
      BY <1>1, <1>2, <2>2, OtherFact DEF TypeOK
    <3>2. e \notin {<<c, "IN">>, <<c, "OUT">>}
      BY <2>2
    <3>3. stage'[e] = stage[e]
      BY <1>1, <1>2, <3>2 DEF TypeOK
    <3>. QED
      BY <1>2, <3>1, <3>3, SameEnd DEF HandshakeInv
  <2>. QED
    BY <2>1, <2>2
<1>6. ASSUME NEW d \in Conns
      PROVE  Unanswered(d)'
  <2>1. CASE d = c
    BY <1>2, <1>4, <2>1 DEF Unanswered
  <2>2. CASE d # c
    <3>1. stage'[<<d, "IN">>] = stage[<<d, "IN">>]
      BY <1>1, <1>2, <2>2 DEF TypeOK, Ends
    <3>. QED
      BY <1>2, <3>1 DEF HandshakeInv, Unanswered
  <2>. QED
    BY <2>1, <2>2
<1>7. Distinct'
  <2>1. Owner(<<c, "OUT">>)' = n
    BY <1>1, <1>2 DEF Owner, TypeOK
  <2>2. ASSUME NEW e \in Ends \ {<<c, "OUT">>}
        PROVE  /\ stage'[e] = "peer" => stage[e] = "peer"
               /\ stage[e] = "peer" => Owner(e)' = Owner(e)
    <3>1. CASE e[1] = c
      <4>1. e = <<c, "IN">>
        BY <1>3, <3>1
      <4>. QED
        BY <1>1, <1>2, <1>3, <4>1 DEF Free, TypeOK
    <3>2. CASE e[1] # c
      <4>1. route'[e[1]] = route[e[1]]
        BY <1>1, <1>2, <3>2, OtherFact DEF TypeOK
      <4>2. stage'[e] = stage[e]
        BY <1>1, <1>2, <3>2 DEF TypeOK
      <4>. QED
        BY <4>1, <4>2 DEF Owner
    <3>. QED
      BY <3>1, <3>2
  <2>. QED
    BY <1>1, <1>2, <1>3, <2>1, <2>2, NewDistinct DEF HandshakeInv
<1>. QED
  BY <1>5, <1>6, <1>7 DEF HandshakeInv

LEMMA AcceptKeeps ==
  ASSUME HandshakeInv, TypeOK', NEW n \in Nodes, Accept(n)
  PROVE  HandshakeInv'
<1>1. PICK g \in Ends, f \in FreeFds(n) :
        /\ stage[g] = "backlog" /\ Owner(g) = n
        /\ stage' = [stage EXCEPT ![g] = "peer"]
        /\ fd' = [fd EXCEPT ![g] = f]
  BY DEF Accept, NewFds
<1>2. UNCHANGED <<route, met, ready, inbox, unpacker, events>> /\ TypeOK
  BY DEF Accept, HandshakeInv, socket
<1>3. \A e \in Ends : stage'[e] = stage[e] \/ (stage[e] = "backlog" /\ stage'[e] = "peer")
  BY <1>1, <1>2 DEF TypeOK
<1>4. ASSUME NEW e \in Ends
      PROVE  EndInv(e)'
  <2>1. EndInv(e)
    BY DEF HandshakeInv
  <2>2. CASE stage'[e] = stage[e]
    BY <1>2, <2>1, <2>2, SameEnd
  <2>3. CASE stage[e] = "backlog" /\ stage'[e] = "peer"
    BY <1>2, <2>1, <2>3, SameHonest DEF EndInv
  <2>. QED
    BY <1>3, <2>2, <2>3
<1>5. ASSUME NEW c \in Conns
      PROVE  Unanswered(c)'
  <2>1. <<c, "IN">> \in Ends
    BY DEF Ends
  <2>. QED
    BY <1>2, <1>3, <2>1 DEF HandshakeInv, Unanswered
<1>6. Distinct'
  <2>1. \A e \in Ends : Owner(e)' = Owner(e)
    BY <1>2 DEF Owner
  <2>2. \A e \in Ends \ {g} : stage'[e] = stage[e]
    BY <1>1, <1>2 DEF TypeOK
  <2>. QED
    BY <1>1, <1>2, <2>1, <2>2, NewDistinct DEF HandshakeInv
<1>. QED
  BY <1>4, <1>5, <1>6 DEF HandshakeInv

(* The peers a discovery lists are of the node's own network. *)
LEMMA HonestReady ==
  ASSUME HandshakeInv, NEW n \in Nodes, NEW a \in Nodes, Ready(n)[a] > 0
  PROVE  NetId[a] = NetId[n]
<1>1. Cardinality({e \in Peers(n) \cap ready : Owner(Other(e)) = a}) # 0
  BY DEF Ready
<1>2. {e \in Peers(n) \cap ready : Owner(Other(e)) = a} # {}
  BY <1>1, FS_EmptySet, Zenon
<1>3. PICK e \in Peers(n) \cap ready : Owner(Other(e)) = a
  BY <1>2
<1>4. e \in Ends /\ Owner(e) = n /\ e \in met
  BY <1>3 DEF Peers, HandshakeInv, EndInv
<1>. QED
  BY <1>3, <1>4 DEF HandshakeInv, EndInv, Acceptable

(* A welcome starts with the PEER_INFO and is honest. *)
LEMMA HonestWelcome ==
  ASSUME HandshakeInv, NEW n \in Nodes, NEW e \in Ends, Owner(Other(e)) = n
  PROVE  /\ Welcome(n) \in Seq(HonestFor(e)) /\ Welcome(n) # <<>>
         /\ Head(Welcome(n)).type # "DISCOVERY"
<1>1. [type |-> "PEER_INFO"] \in HonestFor(e)
  BY DEF HonestFor, Messages
<1>2. [type |-> "DISCOVERY", addresses |-> Ready(n)] \in HonestFor(e)
  BY ReadyType, HonestReady DEF HonestFor, Messages
<1>. DEFINE info == <<[type |-> "PEER_INFO"]>>
            rest == IF Ready(n) = NoAddress THEN <<>>
                    ELSE <<[type |-> "DISCOVERY", addresses |-> Ready(n)]>>
<1>3. /\ info \in Seq(HonestFor(e)) /\ rest \in Seq(HonestFor(e))
      /\ Len(info) = 1 /\ info[1].type = "PEER_INFO"
  BY <1>1, <1>2
<1>4. Welcome(n) = info \o rest
  BY DEF Welcome
<1>. HIDE DEF info, rest
<1>5. /\ Welcome(n) \in Seq(HonestFor(e))
      /\ Len(Welcome(n)) = 1 + Len(rest) /\ Welcome(n)[1] = info[1]
  BY <1>3, <1>4, ConcatProperties, LenProperties
<1>6. Welcome(n) # <<>>
  BY <1>3, <1>5, LenProperties, EmptySeq
<1>. QED
  BY <1>3, <1>5, <1>6

LEMMA WelcomeKeeps ==
  ASSUME HandshakeInv, TypeOK', NEW n \in Nodes, HandleWelcome(n)
  PROVE  HandshakeInv'
<1>1. TypeOK /\ UNCHANGED <<route, peers, unpacker>>
  BY DEF HandleWelcome, HandshakeInv
<1>2. CASE UNCHANGED inbox
  BY <1>1, <1>2, QuietKeeps DEF socket
<1>3. ASSUME NEW e \in Peers(n),
             inbox' = [inbox EXCEPT ![Other(e)] = Delivered(e, Welcome(n))]
      PROVE  HandshakeInv'
  <2>1. /\ e \in Ends /\ Other(e) \in Ends /\ Other(Other(e)) = e
        /\ Owner(e) = n /\ stage[e] = "peer"
    BY OtherFact DEF Peers
  <2>2. CASE stage[Other(e)] = "gone"
    <3>1. UNCHANGED inbox
      BY <1>1, <1>3, <2>1, <2>2 DEF Delivered, TypeOK
    <3>. QED
      BY <1>2, <3>1
  <2>3. CASE stage[Other(e)] # "gone"
    <3>1. /\ inbox'[Other(e)] = inbox[Other(e)] \o Welcome(n)
          /\ \A f \in Ends \ {Other(e)} : inbox'[f] = inbox[f]
      BY <1>1, <1>3, <2>1, <2>3 DEF Delivered, TypeOK
    <3>2. ASSUME NEW f \in Ends
          PROVE  EndInv(f)'
      <4>1. CASE f = Other(e)
        BY <1>1, <2>1, <2>3, <3>1, <4>1, SentEnd, HonestWelcome
        DEF HandshakeInv, peers
      <4>2. CASE f # Other(e)
        BY <1>1, <3>1, <4>2, SameEnd DEF HandshakeInv, peers
      <4>. QED
        BY <4>1, <4>2
    <3>3. ASSUME NEW c \in Conns
          PROVE  Unanswered(c)'
      <4>1. stage[<<c, "IN">>] = "backlog" => Other(e) # <<c, "OUT">>
        BY <2>1 DEF Other, Ends
      <4>2. <<c, "OUT">> \in Ends
        BY DEF Ends
      <4>. QED
        BY <1>1, <3>1, <4>1, <4>2 DEF HandshakeInv, Unanswered, peers
    <3>. QED
      BY <1>1, <3>2, <3>3, SameDistinct DEF HandshakeInv, peers
  <2>. QED
    BY <2>2, <2>3
<1>. QED
  BY <1>2, <1>3 DEF HandleWelcome

(* What a read that is not answered does to the sockets. *)
LEMMA DecodeAside ==
  ASSUME TypeOK, NEW e \in Ends, NEW k \in 1..Len(inbox[e]),
         ReadAndSend(e, k, <<>>),
         unpacker' = [unpacker EXCEPT ![e] = Tail(Arrived(e, k))]
  PROVE  /\ inbox'[e] = SubSeq(inbox[e], k + 1, Len(inbox[e]))
         /\ unpacker'[e] = Tail(Arrived(e, k))
         /\ \A f \in Ends \ {e} : /\ inbox'[f] = inbox[f]
                                 /\ unpacker'[f] = unpacker[f]
<1>1. /\ Other(e) \in Ends /\ Other(e) # e
      /\ inbox[Other(e)] \in Seq(Messages)
  BY OtherFact DEF TypeOK
<1>2. Delivered(e, <<>>) = inbox[Other(e)]
  BY <1>1, ConcatEmptySeq DEF Delivered
<1>. QED
  BY <1>1, <1>2 DEF ReadAndSend, TypeOK

(* Nobody reads at the end of a connection that nobody has answered. *)
LEMMA DecodeUnanswered ==
  ASSUME TypeOK, NEW c \in Conns, Unanswered(c), NEW e \in Ends,
         NEW k \in 1..Len(inbox[e]), ReadAndSend(e, k, <<>>),
         unpacker' = [unpacker EXCEPT ![e] = Tail(Arrived(e, k))],
         UNCHANGED stage, met' = met \cup {e}
  PROVE  Unanswered(c)'
<1>1. <<c, "IN">> \in Ends /\ <<c, "OUT">> \in Ends
  BY DEF Ends
<1>2. stage[<<c, "IN">>] = "backlog" => e # <<c, "OUT">>
  BY EmptySeq DEF Unanswered
<1>. QED
  BY <1>1, <1>2, DecodeAside DEF Unanswered

LEMMA PeerInfoKeeps ==
  ASSUME HandshakeInv, TypeOK', NEW n \in Nodes, NEW e \in Ends,
         NEW k \in 1..Len(inbox[e]), DecodePeerInfo(n, e, k)
  PROVE  HandshakeInv'
<1>1. /\ TypeOK /\ UNCHANGED <<route, stage, fd>> /\ Acceptable(e)
      /\ e \in Peers(n) /\ ReadAndSend(e, k, <<>>)
      /\ unpacker' = [unpacker EXCEPT ![e] = Tail(Arrived(e, k))]
      /\ met' = met \cup {e} /\ ready' \in {ready, ready \cup {e}}
  BY DEF DecodePeerInfo, HandshakeInv, Receives
<1>2. stage[e] = "peer"
  BY <1>1 DEF Peers
<1>3. ASSUME NEW f \in Ends
      PROVE  EndInv(f)'
  BY <1>1, <1>2, DecodeAside, DecodedEnd, SameEnd DEF HandshakeInv
<1>4. ASSUME NEW c \in Conns
      PROVE  Unanswered(c)'
  BY <1>1, DecodeUnanswered DEF HandshakeInv
<1>. QED
  BY <1>1, <1>3, <1>4, SameDistinct DEF HandshakeInv

LEMMA DiscoveryKeeps ==
  ASSUME HandshakeInv, TypeOK', NEW n \in Nodes, NEW e \in Ends,
         NEW k \in 1..Len(inbox[e]), DecodeDiscovery(n, e, k)
  PROVE  HandshakeInv'
<1>1. /\ TypeOK /\ UNCHANGED <<route, stage, fd, met, ready>>
      /\ e \in Peers(n) /\ ReadAndSend(e, k, <<>>)
      /\ unpacker' = [unpacker EXCEPT ![e] = Tail(Arrived(e, k))]
      /\ Head(Arrived(e, k)).type = "DISCOVERY"
  BY DEF DecodeDiscovery, HandshakeInv, Receives, peers
<1>2. e \in met /\ stage[e] = "peer" /\ Acceptable(e)
  BY <1>1, HonestArrived DEF HandshakeInv, EndInv
<1>3. ASSUME NEW f \in Ends
      PROVE  EndInv(f)'
  BY <1>1, <1>2, DecodeAside, DecodedEnd, SameEnd DEF HandshakeInv
<1>4. ASSUME NEW c \in Conns
      PROVE  Unanswered(c)'
  BY <1>1, <1>2, DecodeUnanswered DEF HandshakeInv
<1>. QED
  BY <1>1, <1>3, <1>4, SameDistinct DEF HandshakeInv

-----------------------------------------------------------------------------
(* The invariant *)

LEMMA InitHandshake == Init => HandshakeInv
<1>. SUFFICES ASSUME Init PROVE HandshakeInv
  OBVIOUS
<1>1. TypeOK
  BY InitType
<1>2. ASSUME NEW e \in Ends
      PROVE  EndInv(e)
  BY EmptySeq DEF Init, EndInv
<1>3. ASSUME NEW c \in Conns
      PROVE  Unanswered(c)
  <2>1. <<c, "IN">> \in Ends
    BY DEF Ends
  <2>. QED
    BY <2>1 DEF Init, Unanswered
<1>4. Distinct
  BY DEF Init, Distinct
<1>. QED
  BY <1>1, <1>2, <1>3, <1>4 DEF HandshakeInv

LEMMA StepHandshake ==
  ASSUME HandshakeInv, NEW n \in Nodes,
         Start(n) \/ Stop(n) \/ Crash(n) \/ Connect(n) \/ Loop(n)
  PROVE  HandshakeInv'
<1>1. TypeOK /\ TypeOK'
  BY StepType DEF HandshakeInv
<1>2. CASE UNCHANGED <<route, peers, socket>>
  BY <1>1, <1>2, QuietKeeps
<1>3. CASE Start(n)
  BY <1>2, <1>3 DEF Start
<1>4. CASE Stop(n) \/ Crash(n)
  BY <1>1, <1>4, LeaveKeeps DEF Stop, Crash
<1>5. CASE Connect(n)
  BY <1>1, <1>2, <1>5, DialKeeps DEF Connect, DialFails
<1>6. CASE Accept(n) \/ HandleWelcome(n)
  BY <1>1, <1>6, AcceptKeeps, WelcomeKeeps
<1>7. CASE HandleTryConnect(n) \/ Launch(n) \/ LaunchEnds(n)
  BY <1>2, <1>7 DEF HandleTryConnect, Launch, LaunchEnds
<1>8. CASE Serve(n)
  BY <1>1, <1>8, DropKeeps, PeerInfoKeeps, RejectKeeps, DiscoveryKeeps
  DEF Serve, ReadEof, DecodeDisconnect
<1>. QED
  BY <1>3, <1>4, <1>5, <1>6, <1>7, <1>8 DEF Loop

(* The handshake keeps its order at every end, and what it is sent honest.  *)
THEOREM HandshakeInvariant == Spec => []HandshakeInv
<1>1. HandshakeInv /\ [Next]_vars => HandshakeInv'
  <2>1. HandshakeInv /\ UNCHANGED vars => HandshakeInv'
    <3>. SUFFICES ASSUME HandshakeInv, UNCHANGED vars PROVE HandshakeInv'
      OBVIOUS
    <3>1. TypeOK'
      BY DEF HandshakeInv, TypeOK, vars
    <3>. QED
      BY <3>1, QuietKeeps DEF vars, peers, socket
  <2>. QED
    BY <2>1, StepHandshake DEF Next
<1>. QED
  BY <1>1, InitHandshake, PTL DEF Spec

-----------------------------------------------------------------------------
(* What the nodes learn *)

(* A step in which no address appears. *)
LEMMA NoNewAddress ==
  ASSUME AddressesStayInNetwork,
         \A n, a \in Nodes : pool'[n][a] > 0 => pool[n][a] > 0,
         \A n, a \in Nodes :
           dialing'[n][a] > 0 => dialing[n][a] > 0 \/ a \in Boot[n]
  PROVE  AddressesStayInNetwork'
BY DEF AddressesStayInNetwork

(* What is listed to an end that has met the node that lists it. *)
LEMMA ListFact ==
  ASSUME NEW e \in Ends, NEW m \in HonestFor(e), m.type = "DISCOVERY"
  PROVE  /\ m.addresses \in [Nodes -> Nat]
         /\ \A a \in Nodes :
              m.addresses[a] > 0 => NetId[a] = NetId[Owner(Other(e))]
<1>1. m \in Messages
  BY DEF HonestFor
<1>. QED
  BY <1>1 DEF HonestFor, Messages, Addresses

(* Only a DISCOVERY brings addresses, and the end that decodes it has met   *)
(* the node that sent it.                                                   *)
LEMMA StepAddresses ==
  ASSUME HandshakeInv, AddressesStayInNetwork, NEW n \in Nodes,
         Start(n) \/ Stop(n) \/ Crash(n) \/ Connect(n) \/ Loop(n)
  PROVE  AddressesStayInNetwork'
<1>1. /\ pool \in [Nodes -> Addresses] /\ dialing \in [Nodes -> Addresses]
      /\ \A p, a \in Nodes : pool[p][a] \in Nat /\ dialing[p][a] \in Nat
  BY DEF HandshakeInv, TypeOK, Addresses
<1>2. CASE UNCHANGED <<pool, dialing>>
  BY <1>2 DEF AddressesStayInNetwork
<1>3. CASE Start(n)
  <2>1. /\ pool' = pool
        /\ dialing' = [dialing EXCEPT ![n] = [a \in Nodes |->
                                          IF a \in Boot[n] THEN 1 ELSE 0]]
    BY <1>3 DEF Start
  <2>2. \A p, a \in Nodes :
          dialing'[p][a] > 0 => dialing[p][a] > 0 \/ a \in Boot[p]
    BY <1>1, <2>1
  <2>. QED
    BY <2>1, <2>2, NoNewAddress
<1>4. CASE Stop(n)
  BY <1>2, <1>4 DEF Stop
<1>5. CASE Crash(n)
  <2>1. /\ pool' = [pool EXCEPT ![n] = NoAddress]
        /\ dialing' = [dialing EXCEPT ![n] = NoAddress]
        /\ \A a \in Nodes : NoAddress[a] = 0
    BY <1>5 DEF Crash, NoAddress
  <2>2. \A p, a \in Nodes : pool'[p][a] > 0 => pool[p][a] > 0
    BY <1>1, <2>1
  <2>3. \A p, a \in Nodes : dialing'[p][a] > 0 => dialing[p][a] > 0
    BY <1>1, <2>1
  <2>. QED
    BY <2>2, <2>3, NoNewAddress
<1>6. CASE Connect(n)
  <2>1. PICK a \in Nodes :
          dialing' = [dialing EXCEPT ![n][a] = @ - 1] /\ pool' = pool
    BY <1>6 DEF Connect, Dial, DialFails, Dialed
  <2>2. \A p, b \in Nodes : dialing'[p][b] > 0 => dialing[p][b] > 0
    BY <1>1, <2>1 DEF Addresses
  <2>. QED
    BY <2>1, <2>2, NoNewAddress
<1>7. CASE Accept(n) \/ HandleWelcome(n) \/ HandleTryConnect(n) \/ LaunchEnds(n)
  BY <1>2, <1>7 DEF Accept, HandleWelcome, HandleTryConnect, LaunchEnds
<1>8. CASE Launch(n)
  <2>1. PICK a \in Nodes :
          /\ pool[n][a] > 0
          /\ pool' = [pool EXCEPT ![n][a] = @ - 1]
          /\ dialing' = [dialing EXCEPT ![n][a] = @ + 1]
    BY <1>8 DEF Launch
  <2>2. \A p, b \in Nodes : pool'[p][b] > 0 => pool[p][b] > 0
    BY <1>1, <2>1 DEF Addresses
  <2>3. \A p, b \in Nodes :
          dialing'[p][b] > 0 => dialing[p][b] > 0 \/ (p = n /\ b = a)
    BY <1>1, <2>1 DEF Addresses
  <2>. QED
    BY <2>1, <2>2, <2>3 DEF AddressesStayInNetwork
<1>9. ASSUME NEW e \in Ends, NEW k \in 1..Len(inbox[e]), DecodeDiscovery(n, e, k)
      PROVE  AddressesStayInNetwork'
  <2>. DEFINE m == Head(Arrived(e, k))
  <2>1. /\ pool' = [pool EXCEPT ![n] = [a \in Nodes |-> @[a] + m.addresses[a]]]
        /\ dialing' = dialing /\ m.type = "DISCOVERY" /\ Owner(e) = n
    BY <1>9 DEF DecodeDiscovery, Receives, Peers
  <2>2. e \in met /\ m \in HonestFor(e) /\ Acceptable(e)
    BY <2>1, HonestArrived DEF HandshakeInv, EndInv
  <2>3. /\ m.addresses \in [Nodes -> Nat]
        /\ \A a \in Nodes : m.addresses[a] > 0 => NetId[a] = NetId[n]
    BY <2>1, <2>2, ListFact DEF Acceptable
  <2>. HIDE DEF m
  <2>4. \A p, a \in Nodes :
          pool'[p][a] > 0 =>
            pool[p][a] > 0 \/ (p = n /\ m.addresses[a] > 0)
    BY <1>1, <2>1, <2>3
  <2>5. \A p, a \in Nodes : pool'[p][a] > 0 => NetId[a] = NetId[p]
    BY <2>3, <2>4 DEF AddressesStayInNetwork
  <2>. QED
    BY <2>1, <2>5 DEF AddressesStayInNetwork
<1>10. CASE Serve(n)
  BY <1>2, <1>9, <1>10
  DEF Serve, ReadEof, DecodeDisconnect, Drop, DecodePeerInfo, DecodeReject
<1>. QED
  BY <1>3, <1>4, <1>5, <1>6, <1>7, <1>8, <1>10 DEF Loop

(* A node learns, and dials, only addresses of its own network, beside what *)
(* it boots from: AddressesStayInNetwork (p2p_msg.cpp:34-40, 46-55).        *)
THEOREM NetworksStayApart == Spec => []AddressesStayInNetwork
<1>1. Init => AddressesStayInNetwork
  BY DEF Init, AddressesStayInNetwork, NoAddress
<1>2. HandshakeInv /\ AddressesStayInNetwork /\ [Next]_vars
        => AddressesStayInNetwork'
  <2>1. AddressesStayInNetwork /\ UNCHANGED vars => AddressesStayInNetwork'
    BY DEF AddressesStayInNetwork, vars
  <2>. QED
    BY <2>1, StepAddresses DEF Next
<1>. QED
  BY <1>1, <1>2, HandshakeInvariant, PTL DEF Spec

-----------------------------------------------------------------------------
(* The records in a pipe *)

(* s has a greeting for the number f. *)
Names(s, f) == \E i \in 1..Len(s) : s[i] = Greeting(f)

(* Greetings of different numbers differ. *)
LEMMA GreetingFact ==
  /\ \A e, f : Greeting(e) = Greeting(f) => e = f
  /\ \A e : [type |-> "TRY_CONNECT"] # Greeting(e)
  /\ \A e \in Fds : Greeting(e) \in Records
  /\ [type |-> "TRY_CONNECT"] \in Records
  /\ \A r \in Records : r.type = "PEER_WELCOME" => r = Greeting(r.fd)
  /\ \A r \in Records : \A f : r.type = "TRY_CONNECT" => r # Greeting(f)
BY DEF Greeting, Records

(* A greeting is there until it is handled. *)
LEMMA NamesTail ==
  ASSUME NEW s \in Seq(Records), s # <<>>, NEW f, Head(s) # Greeting(f)
  PROVE  Names(Tail(s), f) <=> Names(s, f)
<1>1. /\ Tail(s) \in Seq(Records) /\ Len(Tail(s)) = Len(s) - 1
      /\ \A i \in 1..Len(Tail(s)) : Tail(s)[i] = s[i + 1]
      /\ Head(s) = s[1] /\ Len(s) \in Nat
  BY HeadTailProperties, LenProperties
<1>2. Names(Tail(s), f) => Names(s, f)
  BY <1>1 DEF Names
<1>3. ASSUME NEW i \in 1..Len(s), s[i] = Greeting(f)
      PROVE  Names(Tail(s), f)
  <2>1. i # 1
    BY <1>1, <1>3
  <2>2. i - 1 \in 1..Len(Tail(s)) /\ (i - 1) + 1 = i
    BY <1>1, <2>1
  <2>3. Tail(s)[i - 1] = s[i]
    BY <1>1, <2>2
  <2>. QED
    BY <1>3, <2>2, <2>3 DEF Names
<1>. QED
  BY <1>2, <1>3 DEF Names

(* One is there only when it is posted. *)
LEMMA NamesAppend ==
  ASSUME NEW s \in Seq(Records), NEW r \in Records, NEW f, r # Greeting(f)
  PROVE  Names(Append(s, r), f) <=> Names(s, f)
<1>1. /\ Len(Append(s, r)) = Len(s) + 1 /\ Len(s) \in Nat
      /\ \A i \in 1..Len(s) : Append(s, r)[i] = s[i]
      /\ Append(s, r)[Len(s) + 1] = r
  BY AppendProperties, LenProperties
<1>2. \A i \in 1..Len(Append(s, r)) : i \in 1..Len(s) \/ i = Len(s) + 1
  BY <1>1
<1>3. \A i \in 1..Len(s) : i \in 1..Len(Append(s, r))
  BY <1>1
<1>. QED
  BY <1>1, <1>2, <1>3 DEF Names

-----------------------------------------------------------------------------
(* The handshake as seen from outside *)

(* What HandshakeInv says of the two ends of a connection. *)
LEMMA BothEnds ==
  ASSUME HandshakeInv, NEW c \in Conns
  PROVE  /\ <<c, "OUT">> \in Ends /\ <<c, "IN">> \in Ends
         /\ stage[<<c, "OUT">>] \in {"gone", "peer"}
         /\ stage[<<c, "IN">>] \in {"gone", "backlog", "peer"}
         /\ stage[<<c, "IN">>] = "peer" => <<c, "IN">> \in Peers(route[c][2])
         /\ route[c][2] \in Nodes
         /\ <<c, "IN">> \in met => stage[<<c, "IN">>] = "peer"
         /\ Unanswered(c)
<1>1. <<c, "OUT">> \in Ends /\ <<c, "IN">> \in Ends
  BY DEF Ends
<1>2. Owner(<<c, "IN">>) = route[c][2]
  BY DEF Owner
<1>. QED
  BY <1>1, <1>2 DEF HandshakeInv, EndInv, TypeOK, Peers

(* The phases before and after a step. *)
LEMMA PhaseFact ==
  /\ phase = [c \in Conns |-> Progress(c)]
  /\ phase' = [c \in Conns |-> Progress(c)']
BY DEF phase

(* Silence, in terms of the pipe. *)
LEMMA SilentFact ==
  ASSUME NEW c
  PROVE  /\ Silent(c) <=> /\ ~Names(events[route[c][2]], fd[<<c, "IN">>])
                          /\ inbox[<<c, "OUT">>] = <<>>
         /\ Silent(c)' <=> /\ ~Names(events'[route'[c][2]], fd'[<<c, "IN">>])
                           /\ inbox'[<<c, "OUT">>] = <<>>
BY DEF Silent, Posted, Names

(* A connection none of whose ends is closed, accepted, meets the other or  *)
(* breaks its silence stays where it is.                                    *)
LEMMA SamePhase ==
  ASSUME NEW c \in Conns,
         \A e \in {<<c, "OUT">>, <<c, "IN">>} :
           stage'[e] = stage[e] /\ (e \in met' <=> e \in met),
         stage[<<c, "IN">>] = "peer" /\ <<c, "OUT">> \notin met
           => (Silent(c)' <=> Silent(c)),
         stage[<<c, "IN">>] \in {"gone", "backlog", "peer"}
  PROVE  Progress(c)' = Progress(c)
BY DEF Progress

(* One that is nobody's business in a step. *)
LEMMA AsidePhase ==
  ASSUME HandshakeInv, NEW c \in Conns, route'[c] = route[c],
         \A e \in {<<c, "OUT">>, <<c, "IN">>} :
           /\ stage'[e] = stage[e] /\ (e \in met' <=> e \in met)
           /\ fd'[e] = fd[e],
         inbox'[<<c, "OUT">>] = inbox[<<c, "OUT">>]
           \/ <<c, "OUT">> \in met,
         stage[<<c, "IN">>] = "peer" =>
           (Names(events'[route[c][2]], fd[<<c, "IN">>])
              <=> Names(events[route[c][2]], fd[<<c, "IN">>]))
  PROVE  Progress(c)' = Progress(c)
<1>1. ASSUME stage[<<c, "IN">>] = "peer", <<c, "OUT">> \notin met
      PROVE  Silent(c)' <=> Silent(c)
  <2>1. /\ fd'[<<c, "IN">>] = fd[<<c, "IN">>]
        /\ inbox'[<<c, "OUT">>] = inbox[<<c, "OUT">>]
    BY <1>1
  <2>2. Names(events'[route'[c][2]], fd'[<<c, "IN">>])
          <=> Names(events[route[c][2]], fd[<<c, "IN">>])
    BY <1>1, <2>1
  <2>. QED
    BY <2>1, <2>2, SilentFact
<1>. QED
  BY <1>1, BothEnds, SamePhase

(* A step that touches no end. *)
LEMMA QuietPhase ==
  ASSUME HandshakeInv, UNCHANGED <<route, peers, socket>>,
         \A c \in Conns :
           stage[<<c, "IN">>] = "peer" =>
             (Names(events'[route[c][2]], fd[<<c, "IN">>])
                <=> Names(events[route[c][2]], fd[<<c, "IN">>]))
  PROVE  UNCHANGED phase
<1>1. \A c \in Conns : Progress(c)' = Progress(c)
  BY AsidePhase DEF peers, socket
<1>. QED
  BY <1>1, PhaseFact

(* One connection goes on, the others stay. *)
LEMMA TurnPhase ==
  ASSUME NEW c \in Conns,
         \A d \in Conns \ {c} : Progress(d)' = Progress(d)
  PROVE  phase' = [phase EXCEPT ![c] = Progress(c)']
BY PhaseFact

(* Closed ends take their connections to "closing" or "closed". *)
LEMMA ClosePhase ==
  ASSUME HandshakeInv, UNCHANGED route,
         NEW es \in SUBSET Ends, Close(es), \A e \in es : stage[e] # "gone",
         \A c \in Conns :
           <<c, "OUT">> \notin es /\ <<c, "IN">> \notin es =>
             /\ inbox'[<<c, "OUT">>] = inbox[<<c, "OUT">>]
             /\ stage[<<c, "IN">>] = "peer"
                  => events'[route[c][2]] = events[route[c][2]]
  PROVE  HandshakeOf!Close
<1>1. /\ \A e \in es : stage[e] # "gone" /\ stage'[e] = "gone"
      /\ \A e \in Ends \ es :
           /\ stage'[e] = stage[e] /\ fd'[e] = fd[e]
           /\ e \in met' <=> e \in met
  BY DEF Close
<1>2. ASSUME NEW c \in Conns
      PROVE  \/ Progress(c)' = Progress(c)
             \/ Progress(c) # "closed" /\ Progress(c)' \in {"closing", "closed"}
  <2>1. <<c, "OUT">> \in Ends /\ <<c, "IN">> \in Ends
    BY BothEnds
  <2>2. CASE <<c, "OUT">> \notin es /\ <<c, "IN">> \notin es
    <3>1. /\ inbox'[<<c, "OUT">>] = inbox[<<c, "OUT">>]
          /\ stage[<<c, "IN">>] = "peer" =>
               (Names(events'[route[c][2]], fd[<<c, "IN">>])
                  <=> Names(events[route[c][2]], fd[<<c, "IN">>]))
      BY <2>2
    <3>2. \A e \in {<<c, "OUT">>, <<c, "IN">>} :
            /\ stage'[e] = stage[e] /\ (e \in met' <=> e \in met)
            /\ fd'[e] = fd[e]
      <4>1. \A e \in {<<c, "OUT">>, <<c, "IN">>} : e \in Ends \ es
        BY <2>1, <2>2
      <4>. QED
        BY <1>1, <4>1, Zenon
    <3>. QED
      BY <3>1, <3>2, AsidePhase
  <2>3. CASE <<c, "OUT">> \in es \/ <<c, "IN">> \in es
    BY <1>1, <2>1, <2>3 DEF Progress
  <2>. QED
    BY <2>2, <2>3
<1>3. \A c \in Conns : Progress(c)' \in HandshakeOf!Phases
  BY DEF Progress, HandshakeOf!Phases
<1>4. phase' \in [Conns -> HandshakeOf!Phases]
  BY <1>3, PhaseFact
<1>5. \A c \in Conns :
        \/ phase'[c] = phase[c]
        \/ phase[c] # "closed" /\ phase'[c] \in {"closing", "closed"}
  BY <1>2, PhaseFact
<1>. QED
  BY <1>4, <1>5 DEF HandshakeOf!Close

(* A node that stops or whose process ends.  The other nodes' pipes stay. *)
LEMMA LeavePhase ==
  ASSUME HandshakeInv, NEW n \in Nodes, Leave(n)
  PROVE  HandshakeOf!Close
<1>. DEFINE es == {e \in Ends : stage[e] # "gone" /\ Owner(e) = n}
<1>1. /\ Close(es) /\ UNCHANGED route /\ es \in SUBSET Ends
      /\ \A e \in es : stage[e] # "gone"
      /\ inbox' = [e \in Ends |-> IF e \in es THEN <<>> ELSE inbox[e]]
      /\ events' = [events EXCEPT ![n] = <<>>]
  BY DEF Leave
<1>2. ASSUME NEW c \in Conns, <<c, "IN">> \notin es, stage[<<c, "IN">>] = "peer"
      PROVE  events'[route[c][2]] = events[route[c][2]]
  <2>1. <<c, "IN">> \in Peers(route[c][2]) /\ route[c][2] \in Nodes
    BY <1>2, BothEnds
  <2>2. route[c][2] # n
    BY <1>2, <2>1 DEF Peers
  <2>. QED
    BY <1>1, <2>1, <2>2 DEF HandshakeInv, TypeOK
<1>3. \A c \in Conns : <<c, "OUT">> \in Ends
  BY BothEnds
<1>. HIDE DEF es
<1>4. \A c \in Conns :
        <<c, "OUT">> \notin es => inbox'[<<c, "OUT">>] = inbox[<<c, "OUT">>]
  BY <1>1, <1>3
<1>. QED
  BY <1>1, <1>2, <1>4, ClosePhase

(* An end that its node closes; the other may be sent a DISCONNECT. *)
LEMMA DropPhase ==
  ASSUME HandshakeInv, NEW n \in Nodes, NEW e \in Peers(n), Close({e}),
         UNCHANGED <<route, events>>,
         \A f \in Ends \ {e, Other(e)} : inbox'[f] = inbox[f]
  PROVE  HandshakeOf!Close
<1>1. e \in Ends /\ {e} \in SUBSET Ends /\ \A f \in {e} : stage[f] # "gone"
  BY DEF Peers
<1>2. ASSUME NEW c \in Conns, <<c, "OUT">> \notin {e}, <<c, "IN">> \notin {e}
      PROVE  inbox'[<<c, "OUT">>] = inbox[<<c, "OUT">>]
  <2>1. <<c, "OUT">> \in Ends /\ <<c, "OUT">> # Other(e)
    BY <1>1, <1>2 DEF Ends, Other
  <2>. QED
    BY <1>2, <2>1
<1>. QED
  BY <1>1, <1>2, ClosePhase

(* The dialler's socket is connected: "dialled". *)
LEMMA DialPhase ==
  ASSUME HandshakeInv, NEW n \in Nodes, NEW a \in Nodes, Dial(n, a)
  PROVE  HandshakeOf!Next
<1>1. PICK c \in Conns, f \in FreeFds(n) :
        /\ Free(c)
        /\ route' = [route EXCEPT ![c] = <<n, a>>]
        /\ stage' = [stage EXCEPT ![<<c, "OUT">>] = "peer",
                                  ![<<c, "IN">>] = "backlog"]
        /\ fd' = [fd EXCEPT ![<<c, "OUT">>] = f]
        /\ events' = [events EXCEPT ![n] = Append(@, Greeting(f))]
  BY DEF Dial, NewFds
<1>2. UNCHANGED <<met, inbox>> /\ TypeOK
  BY DEF Dial, HandshakeInv, socket
<1>3. <<c, "OUT">> \in Ends /\ <<c, "IN">> \in Ends
  BY BothEnds
<1>4. /\ stage'[<<c, "OUT">>] = "peer" /\ stage'[<<c, "IN">>] = "backlog"
      /\ <<c, "OUT">> \notin met /\ <<c, "IN">> \notin met
  BY <1>1, <1>2, <1>3 DEF Free, HandshakeInv, EndInv, TypeOK
<1>5. f \in Fds /\ \A e \in Peers(n) : fd[e] # f
  BY DEF FreeFds
<1>6. ASSUME NEW d \in Conns \ {c}
      PROVE  Progress(d)' = Progress(d)
  <2>1. \A e \in {<<d, "OUT">>, <<d, "IN">>} :
          e \in Ends /\ e # <<c, "OUT">> /\ e # <<c, "IN">>
    BY DEF Ends
  <2>2. \A e \in {<<d, "OUT">>, <<d, "IN">>} :
          stage'[e] = stage[e] /\ fd'[e] = fd[e]
    BY <1>1, <1>2, <2>1 DEF TypeOK
  <2>3. route'[d] = route[d]
    BY <1>1, <1>2 DEF TypeOK
  <2>4. ASSUME stage[<<d, "IN">>] = "peer"
        PROVE  Names(events'[route[d][2]], fd[<<d, "IN">>])
                 <=> Names(events[route[d][2]], fd[<<d, "IN">>])
    <3>1. <<d, "IN">> \in Peers(route[d][2]) /\ route[d][2] \in Nodes
      BY <2>4, BothEnds
    <3>2. CASE route[d][2] = n
      <4>1. Greeting(f) # Greeting(fd[<<d, "IN">>]) /\ Greeting(f) \in Records
        BY <1>5, <3>1, <3>2, GreetingFact
      <4>2. /\ events'[n] = Append(events[n], Greeting(f))
            /\ events[n] \in Seq(Records)
        BY <1>1, <1>2 DEF TypeOK
      <4>. QED
        BY <3>2, <4>1, <4>2, NamesAppend
    <3>3. CASE route[d][2] # n
      BY <1>1, <1>2, <3>1, <3>3 DEF TypeOK
    <3>. QED
      BY <3>2, <3>3
  <2>. QED
    BY <1>2, <2>2, <2>3, <2>4, AsidePhase
<1>7. Progress(c) = "closed" /\ Progress(c)' = "dialled"
  BY <1>1, <1>2, <1>4 DEF Progress, Free
<1>. QED
  BY <1>6, <1>7, TurnPhase, PhaseFact
  DEF HandshakeOf!Next, HandshakeOf!Open, HandshakeOf!Turns

(* accept(): what the pipe says of the number tells how it goes on. *)
LEMMA AcceptPhase ==
  ASSUME HandshakeInv, NEW n \in Nodes, Accept(n)
  PROVE  HandshakeOf!Next \/ UNCHANGED phase
<1>1. PICK g \in Ends, f \in FreeFds(n) :
        /\ stage[g] = "backlog" /\ Owner(g) = n
        /\ stage' = [stage EXCEPT ![g] = "peer"]
        /\ fd' = [fd EXCEPT ![g] = f]
  BY DEF Accept, NewFds
<1>2. UNCHANGED <<route, met, inbox, events>> /\ TypeOK
  BY DEF Accept, HandshakeInv, socket
<1>3. PICK c \in Conns : g = <<c, "IN">>
  BY <1>1 DEF HandshakeInv, EndInv, Ends
<1>4. ASSUME NEW d \in Conns \ {c}
      PROVE  Progress(d)' = Progress(d)
  <2>1. \A e \in {<<d, "OUT">>, <<d, "IN">>} : e \in Ends /\ e # g
    BY <1>3 DEF Ends
  <2>2. \A e \in {<<d, "OUT">>, <<d, "IN">>} :
          stage'[e] = stage[e] /\ fd'[e] = fd[e]
    BY <1>1, <1>2, <2>1 DEF TypeOK
  <2>. QED
    BY <1>2, <2>2, AsidePhase
<1>5. /\ stage'[<<c, "IN">>] = "peer"
      /\ stage'[<<c, "OUT">>] = stage[<<c, "OUT">>]
      /\ stage[<<c, "OUT">>] \in {"gone", "peer"}
      /\ <<c, "IN">> \notin met /\ <<c, "OUT">> \notin met
  BY <1>1, <1>2, <1>3, BothEnds DEF TypeOK, Unanswered
<1>6. CASE stage[<<c, "OUT">>] = "gone"
  <2>1. Progress(c)' = Progress(c)
    BY <1>1, <1>3, <1>5, <1>6 DEF Progress
  <2>2. \A d \in Conns : Progress(d)' = Progress(d)
    BY <1>4, <2>1
  <2>. QED
    BY <2>2, PhaseFact
<1>7. CASE stage[<<c, "OUT">>] = "peer"
  <2>1. Progress(c) = "dialled" /\ Progress(c)' \in {"accepted", "mistaken"}
    BY <1>1, <1>2, <1>3, <1>5, <1>7 DEF Progress
  <2>. QED
    BY <1>4, <2>1, TurnPhase, PhaseFact
    DEF HandshakeOf!Next, HandshakeOf!Accept, HandshakeOf!Mistake,
        HandshakeOf!Turns
<1>. QED
  BY <1>5, <1>6, <1>7

(* A PEER_WELCOME: the peer it names, if any, is no longer silent. *)
LEMMA WelcomePhase ==
  ASSUME HandshakeInv, NEW n \in Nodes, HandleWelcome(n)
  PROVE  UNCHANGED phase
<1>. DEFINE r == Head(events[n])
<1>1. /\ TypeOK /\ UNCHANGED <<route, peers, unpacker>>
      /\ events[n] # <<>> /\ r.type = "PEER_WELCOME"
      /\ events' = [events EXCEPT ![n] = Tail(@)]
  BY DEF HandleWelcome, HandshakeInv
<1>2. events[n] \in Seq(Records) /\ r = Greeting(r.fd)
  BY <1>1, HeadTailProperties, GreetingFact DEF TypeOK
<1>3. \A p \in Nodes : events'[p] = IF p = n THEN Tail(events[n]) ELSE events[p]
  BY <1>1 DEF TypeOK
<1>. HIDE DEF r
<1>4. ASSUME NEW c \in Conns, stage[<<c, "IN">>] = "peer",
             ~(route[c][2] = n /\ fd[<<c, "IN">>] = r.fd)
      PROVE  Names(events'[route[c][2]], fd[<<c, "IN">>])
               <=> Names(events[route[c][2]], fd[<<c, "IN">>])
  <2>1. route[c][2] \in Nodes
    BY BothEnds
  <2>2. CASE route[c][2] = n
    <3>1. Head(events[n]) # Greeting(fd[<<c, "IN">>])
      BY <1>2, <1>4, <2>2, GreetingFact DEF r
    <3>. QED
      BY <1>1, <1>2, <1>3, <2>2, <3>1, NamesTail
  <2>3. CASE route[c][2] # n
    BY <1>3, <2>1, <2>3
  <2>. QED
    BY <2>2, <2>3
<1>5. CASE {e \in Peers(n) : fd[e] = r.fd} = {} /\ UNCHANGED inbox
  <2>1. \A c \in Conns : stage[<<c, "IN">>] = "peer" =>
          ~(route[c][2] = n /\ fd[<<c, "IN">>] = r.fd)
    BY <1>5, BothEnds
  <2>. QED
    BY <1>1, <1>4, <1>5, <2>1, QuietPhase DEF socket
<1>6. ASSUME NEW e \in Peers(n), fd[e] = r.fd,
             inbox' = [inbox EXCEPT ![Other(e)] = Delivered(e, Welcome(n))]
      PROVE  UNCHANGED phase
  <2>1. /\ e \in Ends /\ Other(e) \in Ends /\ Owner(e) = n /\ stage[e] = "peer"
        /\ Other(Other(e)) = e
    BY OtherFact DEF Peers
  <2>2. ASSUME NEW c \in Conns, e # <<c, "IN">>
        PROVE  Progress(c)' = Progress(c)
    <3>1. <<c, "OUT">> \in Ends /\ <<c, "OUT">> # Other(e)
      BY <2>1, <2>2 DEF Ends, Other
    <3>2. inbox'[<<c, "OUT">>] = inbox[<<c, "OUT">>]
      BY <1>1, <1>6, <3>1 DEF TypeOK
    <3>3. stage[<<c, "IN">>] = "peer" =>
            ~(route[c][2] = n /\ fd[<<c, "IN">>] = r.fd)
      BY <1>6, <2>1, <2>2, BothEnds DEF HandshakeInv, Distinct, Owner
    <3>. QED
      BY <1>1, <1>4, <3>2, <3>3, AsidePhase DEF peers
  <2>3. ASSUME NEW c \in Conns, e = <<c, "IN">>
        PROVE  Progress(c)' = Progress(c)
    <3>1. Other(e) = <<c, "OUT">> /\ route[c][2] = n
      BY <2>1, <2>3 DEF Other, Owner
    <3>2. CASE stage[<<c, "OUT">>] = "gone"
      BY <1>1, <2>1, <2>3, <3>2 DEF Progress, peers
    <3>3. CASE stage[<<c, "OUT">>] # "gone"
      <4>1. /\ Welcome(n) # <<>> /\ Welcome(n) \in Seq(Messages)
            /\ inbox[Other(e)] \in Seq(Messages)
            /\ inbox'[Other(e)] = inbox[Other(e)] \o Welcome(n)
        BY <1>1, <1>6, <2>1, <3>1, <3>3, WelcomeType, HonestWelcome
        DEF Delivered, TypeOK
      <4>2. inbox'[<<c, "OUT">>] # <<>>
        BY <3>1, <4>1, ConcatProperties, LenProperties, EmptySeq
      <4>3. Names(events[n], fd[e])
        <5>1. events[n][1] = Greeting(fd[e]) /\ 1 \in 1..Len(events[n])
          BY <1>1, <1>2, <1>6, HeadTailProperties, LenProperties DEF r
        <5>. QED
          BY <5>1 DEF Names
      <4>4. ~Silent(c) /\ ~Silent(c)'
        BY <2>3, <3>1, <4>2, <4>3, SilentFact
      <4>. QED
        <5>1. UNCHANGED <<stage, met>>
          BY <1>1 DEF peers
        <5>2. stage[<<c, "IN">>] \in {"gone", "backlog", "peer"}
          BY BothEnds
        <5>. QED
          BY <4>4, <5>1, <5>2, SamePhase
    <3>. QED
      BY <3>2, <3>3
  <2>. QED
    BY <2>2, <2>3, PhaseFact
<1>. QED
  BY <1>5, <1>6 DEF HandleWelcome, r

(* A PEER_INFO: the node that decodes it meets the other. *)
LEMMA PeerInfoPhase ==
  ASSUME HandshakeInv, NEW n \in Nodes, NEW e \in Ends,
         NEW k \in 1..Len(inbox[e]), DecodePeerInfo(n, e, k)
  PROVE  HandshakeOf!Next \/ UNCHANGED phase
<1>1. /\ TypeOK /\ UNCHANGED <<route, stage, fd>> /\ met' = met \cup {e}
      /\ e \in Peers(n) /\ stage[e] = "peer" /\ Owner(e) = n
      /\ ReadAndSend(e, k, <<>>)
      /\ unpacker' = [unpacker EXCEPT ![e] = Tail(Arrived(e, k))]
      /\ events' = events
           \/ events' = [events EXCEPT ![n] = Append(@, Greeting(fd[e]))]
  BY DEF DecodePeerInfo, HandshakeInv, Receives, Peers
<1>2. /\ \A f \in Ends \ {e} : inbox'[f] = inbox[f]
      /\ inbox[e] # <<>>
  BY <1>1, DecodeAside, HonestArrived DEF HandshakeInv
<1>3. ASSUME NEW c \in Conns, e \notin {<<c, "OUT">>, <<c, "IN">>}
      PROVE  Progress(c)' = Progress(c)
  <2>1. <<c, "OUT">> \in Ends /\ <<c, "IN">> \in Ends
    BY BothEnds
  <2>2. ASSUME stage[<<c, "IN">>] = "peer"
        PROVE  Names(events'[route[c][2]], fd[<<c, "IN">>])
                 <=> Names(events[route[c][2]], fd[<<c, "IN">>])
    <3>1. <<c, "IN">> \in Peers(route[c][2]) /\ route[c][2] \in Nodes
      BY <2>2, BothEnds
    <3>2. CASE events' = events
      BY <3>2
    <3>3. CASE /\ route[c][2] # n
               /\ events' = [events EXCEPT ![n] = Append(@, Greeting(fd[e]))]
      BY <1>1, <3>1, <3>3 DEF TypeOK
    <3>4. CASE /\ route[c][2] = n
               /\ events' = [events EXCEPT ![n] = Append(@, Greeting(fd[e]))]
      <4>1. fd[e] # fd[<<c, "IN">>]
        BY <1>1, <1>3, <2>1, <3>1, <3>4 DEF HandshakeInv, Distinct, Peers
      <4>2. fd[e] \in Fds
        BY <1>1 DEF TypeOK
      <4>3. /\ Greeting(fd[e]) # Greeting(fd[<<c, "IN">>])
            /\ Greeting(fd[e]) \in Records
        BY <4>1, <4>2, GreetingFact
      <4>4. /\ events'[n] = Append(events[n], Greeting(fd[e]))
            /\ events[n] \in Seq(Records)
        BY <1>1, <3>4 DEF TypeOK
      <4>. QED
        BY <3>4, <4>3, <4>4, NamesAppend
    <3>. QED
      BY <1>1, <3>2, <3>3, <3>4
  <2>. QED
    BY <1>1, <1>2, <1>3, <2>1, <2>2, AsidePhase
<1>4. PICK c \in Conns : e \in {<<c, "OUT">>, <<c, "IN">>}
  BY DEF Ends
<1>5. \A d \in Conns \ {c} : Progress(d)' = Progress(d)
  BY <1>3, <1>4
<1>6. /\ stage[<<c, "OUT">>] \in {"gone", "peer"}
      /\ stage[<<c, "IN">>] \in {"gone", "backlog", "peer"}
      /\ Unanswered(c) /\ (<<c, "IN">> \in met => stage[<<c, "IN">>] = "peer")
  BY BothEnds
<1>7. \/ Progress(c)' = Progress(c)
      \/ /\ Progress(c) \in {"accepted", "mistaken"}
         /\ Progress(c)' = "known"
      \/ Progress(c) = "early" /\ Progress(c)' = "mutual"
      \/ Progress(c) = "known" /\ Progress(c)' = "mutual"
      \/ Progress(c) = "mistaken" /\ Progress(c)' = "early"
  <2>1. CASE stage[<<c, "OUT">>] = "gone" \/ stage[<<c, "IN">>] = "gone"
    BY <1>1, <2>1 DEF Progress
  <2>2. CASE /\ stage[<<c, "OUT">>] # "gone" /\ stage[<<c, "IN">>] # "gone"
             /\ e = <<c, "IN">>
    BY <1>1, <2>2 DEF Progress
  <2>3. CASE /\ stage[<<c, "OUT">>] # "gone" /\ stage[<<c, "IN">>] # "gone"
             /\ e = <<c, "OUT">>
    <3>1. stage[<<c, "IN">>] = "peer" /\ ~Silent(c)
      BY <1>2, <1>6, <2>3 DEF Unanswered, Silent
    <3>. QED
      BY <1>1, <2>3, <3>1 DEF Progress
  <2>. QED
    BY <1>4, <2>1, <2>2, <2>3
<1>8. CASE Progress(c)' = Progress(c)
  <2>1. \A d \in Conns : Progress(d)' = Progress(d)
    BY <1>5, <1>8
  <2>. QED
    BY <2>1, PhaseFact
<1>9. CASE \/ /\ Progress(c) \in {"accepted", "mistaken"}
              /\ Progress(c)' = "known"
           \/ Progress(c) = "early" /\ Progress(c)' = "mutual"
  BY <1>5, <1>9, TurnPhase, PhaseFact
  DEF HandshakeOf!Next, HandshakeOf!Introduce, HandshakeOf!Turns
<1>10. CASE \/ Progress(c) = "known" /\ Progress(c)' = "mutual"
            \/ Progress(c) = "mistaken" /\ Progress(c)' = "early"
  BY <1>5, <1>10, TurnPhase, PhaseFact
  DEF HandshakeOf!Next, HandshakeOf!Answer, HandshakeOf!Turns
<1>. QED
  BY <1>7, <1>8, <1>9, <1>10

(* A DISCOVERY: the end that decodes it has met the other. *)
LEMMA DiscoveryPhase ==
  ASSUME HandshakeInv, NEW n \in Nodes, NEW e \in Ends,
         NEW k \in 1..Len(inbox[e]), DecodeDiscovery(n, e, k)
  PROVE  UNCHANGED phase
<1>1. /\ TypeOK /\ UNCHANGED <<route, peers>> /\ ReadAndSend(e, k, <<>>)
      /\ unpacker' = [unpacker EXCEPT ![e] = Tail(Arrived(e, k))]
      /\ events' = [events EXCEPT ![n] = Append(@, [type |-> "TRY_CONNECT"])]
      /\ Head(Arrived(e, k)).type = "DISCOVERY"
  BY DEF DecodeDiscovery, HandshakeInv
<1>2. /\ \A f \in Ends \ {e} : inbox'[f] = inbox[f]
      /\ e \in met
  BY <1>1, DecodeAside, HonestArrived DEF HandshakeInv
<1>3. ASSUME NEW c \in Conns
      PROVE  Progress(c)' = Progress(c)
  <2>1. <<c, "OUT">> \in Ends /\ route[c][2] \in Nodes
    BY BothEnds
  <2>2. Names(events'[route[c][2]], fd[<<c, "IN">>])
          <=> Names(events[route[c][2]], fd[<<c, "IN">>])
    <3>1. /\ events[route[c][2]] \in Seq(Records)
          /\ \/ events'[route[c][2]] = events[route[c][2]]
             \/ events'[route[c][2]] =
                  Append(events[route[c][2]], [type |-> "TRY_CONNECT"])
      BY <1>1, <2>1 DEF TypeOK
    <3>2. \A s \in Seq(Records) :
            Names(Append(s, [type |-> "TRY_CONNECT"]), fd[<<c, "IN">>])
              <=> Names(s, fd[<<c, "IN">>])
      BY GreetingFact, NamesAppend
    <3>. QED
      BY <3>1, <3>2, Zenon
  <2>. QED
    BY <1>1, <1>2, <2>1, <2>2, AsidePhase DEF peers
<1>. QED
  BY <1>3, PhaseFact

(* Each step of a node is one of Handshake, or leaves the phases alone.     *)
LEMMA StepPhase ==
  ASSUME HandshakeInv, NEW n \in Nodes,
         Start(n) \/ Stop(n) \/ Crash(n) \/ Connect(n) \/ Loop(n)
  PROVE  HandshakeOf!Next \/ UNCHANGED phase
<1>1. CASE UNCHANGED <<route, peers, socket, events>>
  BY <1>1, QuietPhase
<1>2. CASE Start(n)
  BY <1>1, <1>2 DEF Start
<1>3. CASE Stop(n) \/ Crash(n)
  BY <1>3, LeavePhase DEF Stop, Crash, HandshakeOf!Next
<1>4. CASE Connect(n)
  BY <1>1, <1>4, DialPhase DEF Connect, DialFails
<1>5. CASE Accept(n) \/ HandleWelcome(n)
  BY <1>5, AcceptPhase, WelcomePhase
<1>6. CASE HandleTryConnect(n)
  <2>1. /\ UNCHANGED <<route, peers, socket>> /\ TypeOK
        /\ events[n] # <<>> /\ Head(events[n]).type = "TRY_CONNECT"
        /\ events' = [events EXCEPT ![n] = Tail(@)]
    BY <1>6 DEF HandleTryConnect, HandshakeInv
  <2>2. events[n] \in Seq(Records) /\ \A f : Head(events[n]) # Greeting(f)
    BY <2>1, HeadTailProperties, GreetingFact DEF TypeOK
  <2>3. ASSUME NEW p \in Nodes, NEW f
        PROVE  Names(events'[p], f) <=> Names(events[p], f)
    BY <2>1, <2>2, NamesTail DEF TypeOK
  <2>4. \A c \in Conns : route[c][2] \in Nodes
    BY BothEnds
  <2>. QED
    BY <2>1, <2>3, <2>4, QuietPhase
<1>7. CASE Launch(n) \/ LaunchEnds(n)
  BY <1>1, <1>7 DEF Launch, LaunchEnds
<1>8. ASSUME NEW e \in Ends, e \in Peers(n), Drop(e)
      PROVE  HandshakeOf!Next
  <2>1. \A f \in Ends \ {e, Other(e)} : inbox'[f] = inbox[f]
    BY <1>8 DEF Drop, HandshakeInv, TypeOK
  <2>. QED
    BY <1>8, <2>1, DropPhase DEF Drop, HandshakeOf!Next
<1>9. ASSUME NEW e \in Ends, NEW k \in 1..Len(inbox[e]), DecodeReject(n, e, k)
      PROVE  HandshakeOf!Next
  <2>1. \A f \in Ends \ {e, Other(e)} : inbox'[f] = inbox[f]
    BY <1>9 DEF DecodeReject, HandshakeInv, TypeOK
  <2>2. e \in Peers(n) /\ Close({e}) /\ UNCHANGED <<route, events>>
    BY <1>9 DEF DecodeReject, Receives
  <2>. QED
    BY <2>1, <2>2, DropPhase DEF HandshakeOf!Next
<1>10. CASE Serve(n)
  BY <1>8, <1>9, <1>10, PeerInfoPhase, DiscoveryPhase
  DEF Serve, ReadEof, DecodeDisconnect, Receives
<1>. QED
  BY <1>2, <1>3, <1>4, <1>5, <1>6, <1>7, <1>10 DEF Loop

LEMMA InitPhase == Init => HandshakeOf!Init
<1>. SUFFICES ASSUME Init PROVE HandshakeOf!Init
  OBVIOUS
<1>1. \A c \in Conns : Progress(c) = "closed"
  BY DEF Progress, Init, Ends
<1>. QED
  BY <1>1, PhaseFact DEF HandshakeOf!Init

(* Every connection goes through the handshake in order, whatever the other *)
(* connections, stops and crashes do and whatever numbers are used again:   *)
(* HandshakeSpec (p2p_msg.cpp:46-73, p2p.cpp:206, 287-295).                 *)
THEOREM ImplementsHandshake == Spec => HandshakeSpec
<1>1. HandshakeInv /\ [Next]_vars => [HandshakeOf!Next]_phase
  <2>. SUFFICES ASSUME HandshakeInv, [Next]_vars
                PROVE  HandshakeOf!Next \/ UNCHANGED phase
    OBVIOUS
  <2>1. CASE UNCHANGED vars
    BY <2>1, QuietPhase DEF vars, peers, socket
  <2>. QED
    BY <2>1, StepPhase DEF Next
<1>. QED
  BY <1>1, InitPhase, HandshakeInvariant, PTL
  DEF Spec, HandshakeSpec, HandshakeOf!Spec

=============================================================================
