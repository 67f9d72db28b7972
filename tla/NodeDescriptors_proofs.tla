----------------------- MODULE NodeDescriptors_proofs -----------------------
(* Theorems about NodeDescriptors: whose each open descriptor is, for a     *)
(* table of any size and any number of threads that connect.                *)
EXTENDS NodeDescriptors, FiniteSetTheorems, WellFoundedInduction, TLAPS

(* Where the node stands: start() and stop() exclude each other, and        *)
(* mRunning says that a loop runs, or has ended without a SHUTDOWN.         *)
Control ==
  /\ starting # "no" \/ loop = "none" => ~running /\ ~stopping
  /\ loop = "run" => running

(* The listening sockets: a port has one at most.  A loop serves one and    *)
(* until it has closed it mMainSocket is a socket of the node, if any; then *)
(* the number may be anybody's, but its port is only in a start()'s hands.  *)
MainInv ==
  /\ starting = "bind" /\ loop = "none" =>
       mMainSocket \in Fds /\ use[mMainSocket] = "main"
  /\ loop = "run" \/ (loop = "none" /\ starting \in {"pipe", "epoll", "launch"}) =>
       mMainSocket \in Fds /\ use[mMainSocket] \in Ports
  /\ mMainSocket \in Fds /\ loop # "unset" => use[mMainSocket] \in {"main"} \cup Ports
  /\ mMainSocket \in Fds /\ loop = "unset" /\ (running \/ stopping) =>
       use[mMainSocket] \notin Ports
  /\ \A f \in Fds : use[f] = "main" => f = mMainSocket
  /\ \A f, g \in Fds : use[f] \in Ports /\ use[f] = use[g] => f = g

(* How far a start() is, and what a loop still has to close. *)
HasPipe  == starting \in {"epoll", "launch"} /\ loop = "none"
HasEpoll == starting = "launch" /\ loop = "none"
ToClose(places) == loop \in {"run", "close"} \cup places

(* The pipe and the epoll set: each is open from start() to the close() of  *)
(* the loop, under the noted number.  A start() that got past mRunning      *)
(* while a loop is closing puts its own in their place.                     *)
PipeInv ==
  /\ HasPipe \/ ToClose({"close_read"}) => use[mEventPipe[1]] = "read"
  /\ HasPipe \/ ToClose({"close_read", "close_write"})
       => use[mEventPipe[2]] = "write"
  /\ (HasEpoll \/ ToClose({})) /\ mEpollFd # None => use[mEpollFd] = "epoll"
  /\ \A f \in Fds :
       /\ use[f] = "read" =>
            /\ f = mEventPipe[1]
            /\ \/ ToClose({"close_read"})
               \/ starting \in {"epoll", "launch", "terminated"}
       /\ use[f] = "write" =>
            /\ f = mEventPipe[2]
            /\ \/ ToClose({"close_read", "close_write"})
               \/ starting \in {"epoll", "launch", "terminated"}
       /\ use[f] = "epoll" =>
            /\ f = mEpollFd
            /\ ToClose({}) \/ starting \in {"launch", "terminated"}

(* The sockets of the connections, made and being made. *)
SocketInv ==
  /\ \A f \in Fds : use[f] = "peer" <=> f \in peers
  /\ \A f \in Fds :
       use[f] = "dial" => \E c \in Connectors : conn[c] = "dial" /\ sock[c] = f
  /\ \A c \in Connectors : conn[c] # "idle" => sock[c] \in Fds
  /\ \A c \in Connectors : conn[c] = "dial" => use[sock[c]] = "dial"
  /\ \A c, d \in Connectors :
       conn[c] = "dial" /\ conn[d] = "dial" /\ sock[c] = sock[d] => c = d

(* The inductive invariant. *)
DescInv == TypeOK /\ Control /\ MainInv /\ PipeInv /\ SocketInv

-----------------------------------------------------------------------------
(* What the kernel gives out *)

(* The least of some numbers. *)
LEMMA LeastNumber ==
  ASSUME NEW S \in SUBSET Nat, S # {}
  PROVE  \E m \in S : \A k \in S : ~(k < m)
<1>1. \E m \in S : \A k \in S : ~(<<k, m>> \in OpToRel(<, Nat))
  BY WFMin, NatLessThanWellFounded, Zenon
<1>. QED
  BY <1>1 DEF OpToRel

(* The numbers given out are unused; if there is one, exactly one is next,  *)
(* and it is what open() returns.                                           *)
LEMMA Given ==
  /\ \A k : Lowest(k) \subseteq Unused
  /\ Unused = {} => NewFd = None /\ Lowest(1) = {}
  /\ Unused # {} => NewFd \in Unused /\ Lowest(1) = {NewFd}
<1>1. \A k : Lowest(k) \subseteq Unused
  BY DEF Lowest
<1>2. Unused \subseteq Nat /\ IsFiniteSet(Unused)
  <2>1. IsFiniteSet(Fds)
    BY DescriptorsAssumption, FS_Interval DEF Fds
  <2>. QED
    BY <2>1, FS_Subset, DescriptorsAssumption DEF Unused, Fds
<1>3. ASSUME NEW f \in Unused
      PROVE  f \in Lowest(1) <=> \A g \in Unused : ~(g < f)
  <2>. DEFINE below == {g \in Unused : g < f}
  <2>1. IsFiniteSet(below)
    BY <1>2, FS_Subset
  <2>2. Cardinality(below) \in Nat /\ (Cardinality(below) = 0 <=> below = {})
    BY <2>1, FS_CardinalityType, FS_EmptySet
  <2>3. f \in Lowest(1) <=> Cardinality(below) < 1
    BY DEF Lowest
  <2>. QED
    BY <2>2, <2>3
<1>4. ASSUME Unused # {}
      PROVE  \E f \in Unused : Lowest(1) = {f}
  <2>1. PICK f \in Unused : \A g \in Unused : ~(g < f)
    BY <1>2, <1>4, LeastNumber
  <2>2. ASSUME NEW h \in Lowest(1)
        PROVE  h = f
    <3>1. h \in Unused
      BY <1>1
    <3>2. ~(f < h) /\ ~(h < f)
      BY <1>3, <2>1, <3>1
    <3>. QED
      BY <1>2, <3>1, <3>2
  <2>. QED
    BY <1>3, <2>1, <2>2
<1>5. Unused # {} => NewFd \in Unused /\ Lowest(1) = {NewFd}
  BY <1>4 DEF NewFd
<1>. QED
  BY <1>1, <1>5 DEF NewFd

(* None is no number, and an unused one is open for nobody. *)
LEMMA NumberFact ==
  /\ None \notin Fds /\ 0 \in Fds
  /\ \A f \in Unused : f \in Fds /\ use[f] = "free"
BY DescriptorsAssumption DEF Fds, Unused

(* A port is no other use of a descriptor. *)
LEMMA PortFact ==
  \A p \in Ports :
    p \notin {"free", "foreign", "main", "read", "write", "epoll", "dial",
             "peer", "lost"}
BY DescriptorsAssumption DEF Uses

USE PortFact DEF HasPipe, HasEpoll, ToClose

LEMMA InitDesc == Init => DescInv
<1>. SUFFICES ASSUME Init PROVE DescInv
  OBVIOUS
<1>1. /\ \A f \in Fds : use[f] \in {"free", "foreign"}
      /\ \A c \in Connectors : conn[c] = "idle"
      /\ peers = {} /\ starting = "no" /\ loop = "none"
      /\ running = FALSE /\ stopping = FALSE
      /\ mMainSocket = None
  BY DEF Init
<1>2. TypeOK
  BY NumberFact DEF Init, TypeOK, Uses
<1>3. Control /\ MainInv /\ PipeInv
  BY <1>1, PortFact, NumberFact DEF Control, MainInv, PipeInv
<1>4. SocketInv
  BY <1>1 DEF SocketInv
<1>. QED
  BY <1>2, <1>3, <1>4 DEF DescInv

-----------------------------------------------------------------------------
(* Steps that only give, take or lose descriptors of others *)

(* The table changes only among the uses that the node does not know of.    *)
LEMMA AsideKeeps ==
  ASSUME DescInv, UNCHANGED <<names, peers, owner, loop, callers>>,
         use' \in [Fds -> Uses \cup Ports],
         \A f \in Fds :
           \/ use'[f] = use[f]
           \/ {use[f], use'[f]} \subseteq {"free", "foreign", "lost"}
  PROVE  DescInv'
<1>1. TypeOK'
  BY DEF DescInv, TypeOK, names, owner, callers
<1>2. Control'
  BY DEF DescInv, Control, owner
<1>3. MainInv'
  BY DEF DescInv, MainInv, names, owner
<1>4. PipeInv'
  BY DEF DescInv, PipeInv, TypeOK, names, owner
<1>5. SocketInv'
  BY DEF DescInv, SocketInv, callers
<1>. QED
  BY <1>1, <1>2, <1>3, <1>4, <1>5 DEF DescInv

LEMMA ForeignKeeps == ASSUME DescInv, ForeignOpen \/ ForeignClose PROVE DescInv'
<1>1. use \in [Fds -> Uses \cup Ports] /\ \A k : Lowest(k) \subseteq Unused
  BY Given DEF DescInv, TypeOK
<1>2. CASE ForeignOpen
  <2>1. /\ use' = [f \in Fds |-> IF f \in Lowest(1) THEN "foreign" ELSE use[f]]
        /\ UNCHANGED <<names, peers, owner, loop, callers>>
    BY <1>2 DEF ForeignOpen, With
  <2>. QED
    BY <1>1, <2>1, AsideKeeps, NumberFact DEF Uses
<1>3. CASE ForeignClose
  <2>1. PICK g \in Fds : /\ use[g] = "foreign"
                        /\ use' = [f \in Fds |-> IF f = g THEN "free" ELSE use[f]]
                        /\ UNCHANGED <<names, peers, owner, loop, callers>>
    BY <1>3 DEF ForeignClose, With
  <2>. QED
    BY <1>1, <2>1, AsideKeeps DEF Uses
<1>. QED
  BY <1>2, <1>3

-----------------------------------------------------------------------------
(* start() and stop() *)

LEMMA StartSocketKeeps == ASSUME DescInv, StartSocket PROVE DescInv'
<1>1. /\ TypeOK /\ Control /\ MainInv /\ PipeInv /\ SocketInv
      /\ starting = "no" /\ ~stopping /\ ~running
      /\ UNCHANGED <<mEventPipe, mEpollFd, peers, running, stopping, loop, conn, sock>>
      /\ starting' = IF NewFd = None THEN "no" ELSE "bind"
      /\ mMainSocket' = NewFd
  BY DEF StartSocket, DescInv, ThreadMutexFree, callers
<1>2. \A f \in Fds :
        /\ f \in Lowest(1) => use[f] = "free" /\ use'[f] = "main" /\ f = NewFd
        /\ f \notin Lowest(1) /\ use[f] = "main" => use'[f] = "lost"
        /\ f \notin Lowest(1) /\ use[f] # "main" => use'[f] = use[f]
  BY Given, NumberFact DEF StartSocket
<1>3. /\ NewFd \in Fds \cup {None}
      /\ NewFd # None => NewFd \in Fds /\ NewFd \in Lowest(1)
  BY Given, NumberFact
<1>4. TypeOK'
  <2>1. \A f \in Fds : use'[f] \in Uses \cup Ports
    BY <1>1, <1>2 DEF TypeOK, Uses
  <2>2. use' \in [Fds -> Uses \cup Ports]
    BY <2>1 DEF StartSocket
  <2>. QED
    BY <1>1, <1>3, <2>2 DEF TypeOK
<1>5. Control'
  BY <1>1 DEF Control
<1>6. MainInv'
  BY <1>1, <1>2, <1>3, NumberFact DEF MainInv, TypeOK, Control
<1>7. PipeInv'
  BY <1>1, <1>2 DEF PipeInv, TypeOK
<1>8. SocketInv'
  BY <1>1, <1>2 DEF SocketInv
<1>. QED
  BY <1>4, <1>5, <1>6, <1>7, <1>8 DEF DescInv

LEMMA StartListenKeeps == ASSUME DescInv, StartListen PROVE DescInv'
<1>1. /\ TypeOK /\ Control /\ MainInv /\ PipeInv /\ SocketInv
      /\ starting = "bind" /\ starting' = "pipe" /\ ~running /\ ~stopping
      /\ UNCHANGED <<names, peers, running, stopping, loop, callers>>
      /\ UNCHANGED <<mMainSocket, mEventPipe, mEpollFd, conn, sock>>
      /\ mMainSocket \in Fds
  BY DEF StartListen, DescInv, TypeOK, Control, names, callers
<1>2. CASE use[mMainSocket] \in {"foreign", "dial"} /\ UNCHANGED use
  <2>1. loop = "unset"
    BY <1>1, <1>2 DEF MainInv
  <2>2. TypeOK' /\ Control' /\ MainInv'
    BY <1>1, <1>2, <2>1 DEF TypeOK, Control, MainInv
  <2>3. PipeInv' /\ SocketInv'
    BY <1>1, <1>2, <2>1 DEF PipeInv, SocketInv
  <2>. QED
    BY <2>2, <2>3 DEF DescInv
<1>3. ASSUME NEW p \in Ports, PortFree(p), use[mMainSocket] \in {"main", "lost"},
             use' = With({mMainSocket}, p)
      PROVE  DescInv'
  <2>1. /\ use'[mMainSocket] = p
        /\ \A f \in Fds \ {mMainSocket} : use'[f] = use[f] /\ use[f] # p
        /\ use' \in [Fds -> Uses \cup Ports]
    BY <1>1, <1>3 DEF With, TypeOK, PortFree
  <2>2. TypeOK' /\ Control'
    BY <1>1, <2>1 DEF TypeOK, Control
  <2>3. MainInv'
    BY <1>1, <1>3, <2>1 DEF MainInv
  <2>4. PipeInv'
    BY <1>1, <1>3, <2>1 DEF PipeInv, TypeOK
  <2>5. SocketInv'
    BY <1>1, <1>3, <2>1 DEF SocketInv
  <2>. QED
    BY <2>2, <2>3, <2>4, <2>5 DEF DescInv
<1>. QED
  BY <1>2, <1>3 DEF StartListen

LEMMA StartPipeKeeps == ASSUME DescInv, StartPipe PROVE DescInv'
<1>1. /\ TypeOK /\ Control /\ MainInv /\ PipeInv /\ SocketInv
      /\ starting = "pipe" /\ ~running /\ ~stopping
      /\ UNCHANGED <<mMainSocket, mEpollFd, peers, running, stopping, loop, conn, sock>>
  BY DEF StartPipe, DescInv, Control, callers
<1>2. CASE starting' = "no" /\ UNCHANGED <<use, mEventPipe>>
  <2>1. TypeOK' /\ Control' /\ MainInv'
    BY <1>1, <1>2 DEF TypeOK, Control, MainInv
  <2>2. PipeInv' /\ SocketInv'
    BY <1>1, <1>2 DEF PipeInv, SocketInv
  <2>. QED
    BY <2>1, <2>2 DEF DescInv
<1>3. CASE /\ starting' = "epoll"
           /\ \E r, w \in Lowest(2) :
                /\ r < w
                /\ mEventPipe' = <<r, w>>
                /\ use' = [f \in Fds |->
                             CASE f = r -> "read"
                               [] f = w -> "write"
                               [] use[f] \in {"read", "write"} -> "lost"
                               [] OTHER -> use[f]]
  <2>1. PICK r \in Lowest(2), w \in Lowest(2) :
           /\ r < w
           /\ mEventPipe' = <<r, w>>
           /\ use' = [f \in Fds |->
                        CASE f = r -> "read"
                          [] f = w -> "write"
                          [] use[f] \in {"read", "write"} -> "lost"
                          [] OTHER -> use[f]]
    BY <1>3
  <2>2. /\ r \in Fds /\ w \in Fds /\ r # w
        /\ use[r] = "free" /\ use[w] = "free"
    BY <2>1, Given, NumberFact, DescriptorsAssumption DEF Fds
  <2>3. /\ use'[r] = "read" /\ use'[w] = "write"
        /\ \A f \in Fds \ {r, w} :
             IF use[f] \in {"read", "write"} THEN use'[f] = "lost"
                                             ELSE use'[f] = use[f]
    BY <2>1, <2>2
  <2>4. use' \in [Fds -> Uses \cup Ports]
    <3>1. \A f \in Fds : use'[f] \in Uses \cup Ports
      BY <1>1, <2>2, <2>3 DEF TypeOK, Uses
    <3>. QED
      BY <2>1, <3>1
  <2>5. /\ mEventPipe'[1] = r /\ mEventPipe'[2] = w
        /\ mEventPipe' \in Fds \X Fds
    BY <2>1, <2>2
  <2>6. TypeOK' /\ Control'
    BY <1>1, <1>3, <2>4, <2>5 DEF TypeOK, Control
  <2>7. MainInv'
    BY <1>1, <1>3, <2>2, <2>3 DEF MainInv, TypeOK
  <2>8. PipeInv'
    BY <1>1, <1>3, <2>2, <2>3, <2>5 DEF PipeInv, TypeOK
  <2>9. SocketInv'
    BY <1>1, <2>2, <2>3 DEF SocketInv
  <2>. QED
    BY <2>6, <2>7, <2>8, <2>9 DEF DescInv
<1>. QED
  BY <1>2, <1>3 DEF StartPipe, PipeFails

LEMMA StartEpollKeeps == ASSUME DescInv, StartEpoll PROVE DescInv'
<1>1. /\ TypeOK /\ Control /\ MainInv /\ PipeInv /\ SocketInv
      /\ starting = "epoll" /\ starting' = "launch" /\ ~running /\ ~stopping
      /\ UNCHANGED <<mMainSocket, mEventPipe, peers, running, stopping, loop,
                     conn, sock>>
      /\ mEpollFd' = NewFd
  BY DEF StartEpoll, DescInv, Control, callers
<1>2. \A f \in Fds :
        /\ f \in Lowest(1) => use[f] = "free" /\ use'[f] = "epoll" /\ f = NewFd
        /\ f \notin Lowest(1) /\ use[f] = "epoll" => use'[f] = "lost"
        /\ f \notin Lowest(1) /\ use[f] # "epoll" => use'[f] = use[f]
  BY Given, NumberFact DEF StartEpoll
<1>3. /\ NewFd \in Fds \cup {None}
      /\ NewFd # None => NewFd \in Fds /\ NewFd \in Lowest(1)
  BY Given, NumberFact
<1>4. TypeOK'
  <2>1. \A f \in Fds : use'[f] \in Uses \cup Ports
    BY <1>1, <1>2 DEF TypeOK, Uses
  <2>2. use' \in [Fds -> Uses \cup Ports]
    BY <2>1 DEF StartEpoll
  <2>. QED
    BY <1>1, <1>3, <2>2 DEF TypeOK
<1>5. Control'
  BY <1>1 DEF Control
<1>6. MainInv'
  BY <1>1, <1>2 DEF MainInv, TypeOK
<1>7. PipeInv'
  BY <1>1, <1>2, <1>3 DEF PipeInv, TypeOK
<1>8. SocketInv'
  BY <1>1, <1>2 DEF SocketInv
<1>. QED
  BY <1>4, <1>5, <1>6, <1>7, <1>8 DEF DescInv

LEMMA StartLaunchKeeps == ASSUME DescInv, StartLaunch PROVE DescInv'
<1>1. /\ TypeOK /\ Control /\ MainInv /\ PipeInv /\ SocketInv
      /\ starting = "launch" /\ loop = "none" /\ ~stopping
      /\ starting' = "no" /\ loop' = "run" /\ running' = TRUE /\ peers' = {}
      /\ UNCHANGED <<mMainSocket, mEventPipe, mEpollFd, stopping, conn, sock>>
  BY DEF StartLaunch, DescInv, Control, callers, names
<1>2. /\ \A f \in Fds : use'[f] = IF use[f] = "peer" THEN "lost" ELSE use[f]
      /\ use' \in [Fds -> Uses \cup Ports]
  BY <1>1 DEF StartLaunch, With, SocketInv, TypeOK, Uses
<1>3. TypeOK' /\ Control'
  BY <1>1, <1>2 DEF TypeOK, Control
<1>4. MainInv'
  BY <1>1, <1>2 DEF MainInv
<1>5. PipeInv'
  BY <1>1, <1>2 DEF PipeInv, TypeOK
<1>6. SocketInv'
  BY <1>1, <1>2 DEF SocketInv
<1>. QED
  BY <1>3, <1>4, <1>5, <1>6 DEF DescInv

(* Steps of start() and stop() that change no descriptor. *)
LEMMA OwnerKeeps ==
  ASSUME DescInv, \/ StartFails \/ StartOverThread \/ StopSend \/ StopJoin
  PROVE  DescInv'
<1>1. /\ TypeOK /\ Control /\ MainInv /\ PipeInv /\ SocketInv
      /\ UNCHANGED <<use, mMainSocket, mEventPipe, mEpollFd, peers, conn, sock>>
  BY DEF DescInv, StartFails, StartOverThread, StopSend, StopJoin, names, callers
<1>2. SocketInv'
  BY <1>1 DEF SocketInv
<1>3. CASE StartFails
  BY <1>1, <1>2, <1>3
     DEF DescInv, TypeOK, Control, MainInv, PipeInv, StartFails
<1>4. CASE StartOverThread
  BY <1>1, <1>2, <1>4
     DEF DescInv, TypeOK, Control, MainInv, PipeInv, StartOverThread
<1>5. CASE StopSend
  BY <1>1, <1>2, <1>5
     DEF DescInv, TypeOK, Control, MainInv, PipeInv, StopSend, ThreadMutexFree
<1>6. CASE StopJoin
  BY <1>1, <1>2, <1>6
     DEF DescInv, TypeOK, Control, MainInv, PipeInv, StopJoin
<1>. QED
  BY <1>3, <1>4, <1>5, <1>6

-----------------------------------------------------------------------------
(* connect() *)

LEMMA ConnOpenKeeps ==
  ASSUME DescInv, NEW c \in Connectors, ConnOpen(c) PROVE DescInv'
<1>1. /\ TypeOK /\ Control /\ MainInv /\ PipeInv /\ SocketInv
      /\ UNCHANGED <<names, peers, owner, loop>> /\ conn[c] = "idle"
      /\ UNCHANGED <<mMainSocket, mEventPipe, mEpollFd, running, starting, stopping>>
  BY DEF ConnOpen, DescInv, names, owner
<1>2. CASE use' = With(Unused, "lost") /\ UNCHANGED callers
  BY <1>1, <1>2, AsideKeeps DEF With, TypeOK, Uses, Unused
<1>3. CASE \E f, g \in Lowest(2) :
             /\ f < g
             /\ use' = [use EXCEPT ![f] = "lost", ![g] = "dial"]
             /\ sock' = [sock EXCEPT ![c] = g]
             /\ conn' = [conn EXCEPT ![c] = "dial"]
  <2>1. PICK f \in Lowest(2), g \in Lowest(2) :
             /\ f < g
             /\ use' = [use EXCEPT ![f] = "lost", ![g] = "dial"]
             /\ sock' = [sock EXCEPT ![c] = g]
             /\ conn' = [conn EXCEPT ![c] = "dial"]
    BY <1>3
  <2>2. /\ f \in Fds /\ g \in Fds /\ f # g
        /\ use[f] = "free" /\ use[g] = "free"
    BY <2>1, Given, NumberFact, DescriptorsAssumption DEF Fds
  <2>3. /\ use'[f] = "lost" /\ use'[g] = "dial"
        /\ \A h \in Fds \ {f, g} : use'[h] = use[h]
        /\ use' \in [Fds -> Uses \cup Ports]
    BY <1>1, <2>1, <2>2 DEF TypeOK, Uses
  <2>4. /\ conn'[c] = "dial" /\ sock'[c] = g
        /\ \A d \in Connectors \ {c} : conn'[d] = conn[d] /\ sock'[d] = sock[d]
        /\ conn' \in [Connectors -> {"idle", "dial", "register", "event"}]
        /\ sock' \in [Connectors -> Fds \cup {None}]
    BY <1>1, <2>1, <2>2 DEF TypeOK
  <2>5. TypeOK' /\ Control'
    BY <1>1, <2>3, <2>4 DEF TypeOK, Control
  <2>6. MainInv'
    BY <1>1, <2>2, <2>3 DEF MainInv
  <2>7. PipeInv'
    BY <1>1, <2>2, <2>3 DEF PipeInv, TypeOK
  <2>8. SocketInv'
    BY <1>1, <2>2, <2>3, <2>4 DEF SocketInv
  <2>. QED
    BY <2>5, <2>6, <2>7, <2>8 DEF DescInv
<1>. QED
  BY <1>2, <1>3 DEF ConnOpen

(* A connection that was being made becomes a peer, or fails. *)
LEMMA DialledKeeps ==
  ASSUME DescInv, NEW c \in Connectors, ConnFails(c) \/ ConnInsert(c)
  PROVE  DescInv'
<1>1. /\ TypeOK /\ Control /\ MainInv /\ PipeInv /\ SocketInv
      /\ UNCHANGED <<mMainSocket, mEventPipe, mEpollFd, running, starting,
                     stopping, loop>>
      /\ conn[c] = "dial"
  BY DEF ConnFails, ConnInsert, DescInv, names, owner
<1>2. sock[c] \in Fds /\ use[sock[c]] = "dial"
  BY <1>1 DEF SocketInv
<1>3. /\ \/ /\ use'[sock[c]] = "peer" /\ peers' = peers \cup {sock[c]}
            /\ conn'[c] = "register" /\ sock'[c] = sock[c]
         \/ use'[sock[c]] = "lost" /\ peers' = peers /\ conn'[c] = "idle"
      /\ \A f \in Fds \ {sock[c]} : use'[f] = use[f]
      /\ use' \in [Fds -> Uses \cup Ports]
      /\ \A d \in Connectors \ {c} : conn'[d] = conn[d] /\ sock'[d] = sock[d]
      /\ conn' \in [Connectors -> {"idle", "dial", "register", "event"}]
      /\ sock' \in [Connectors -> Fds \cup {None}]
  BY <1>1, <1>2 DEF ConnFails, ConnInsert, With, TypeOK, Uses
<1>4. TypeOK' /\ Control'
  BY <1>1, <1>2, <1>3 DEF TypeOK, Control
<1>5. MainInv'
  BY <1>1, <1>2, <1>3 DEF MainInv
<1>6. PipeInv'
  BY <1>1, <1>2, <1>3 DEF PipeInv, TypeOK
<1>7. SocketInv'
  BY <1>1, <1>2, <1>3 DEF SocketInv
<1>. QED
  BY <1>4, <1>5, <1>6, <1>7 DEF DescInv

(* The rest of connect() changes no descriptor. *)
LEMMA PostingKeeps ==
  ASSUME DescInv, NEW c \in Connectors, ConnRegister(c) \/ ConnWrite(c)
  PROVE  DescInv'
<1>1. /\ TypeOK /\ Control /\ MainInv /\ PipeInv /\ SocketInv
      /\ UNCHANGED <<use, mMainSocket, mEventPipe, mEpollFd, peers, running,
                     starting, stopping, loop>>
      /\ conn[c] \in {"register", "event"}
  BY DEF ConnRegister, ConnWrite, DescInv, names, owner
<1>2. /\ \/ conn'[c] = "event" /\ sock'[c] = sock[c]
         \/ conn'[c] = "idle"
      /\ \A d \in Connectors \ {c} : conn'[d] = conn[d] /\ sock'[d] = sock[d]
      /\ conn' \in [Connectors -> {"idle", "dial", "register", "event"}]
      /\ sock' \in [Connectors -> Fds \cup {None}]
  BY <1>1 DEF ConnRegister, ConnWrite, TypeOK
<1>3. TypeOK' /\ Control'
  BY <1>1, <1>2 DEF TypeOK, Control
<1>4. MainInv' /\ PipeInv'
  BY <1>1 DEF MainInv, PipeInv
<1>5. SocketInv'
  BY <1>1, <1>2 DEF SocketInv
<1>. QED
  BY <1>3, <1>4, <1>5 DEF DescInv

-----------------------------------------------------------------------------
(* threadLoop *)

LEMMA AcceptKeeps == ASSUME DescInv, LoopAccept PROVE DescInv'
<1>1. /\ TypeOK /\ Control /\ MainInv /\ PipeInv /\ SocketInv
      /\ UNCHANGED <<mMainSocket, mEventPipe, mEpollFd, running, starting,
                     stopping, loop, conn, sock>>
      /\ NewFd # None /\ NewSock = {NewFd}
  BY DEF LoopAccept, DescInv, names, owner, callers, NewSock
<1>2. NewFd \in Fds /\ use[NewFd] = "free"
  BY <1>1, Given, NumberFact
<1>3. /\ use'[NewFd] = "peer" /\ peers' = peers \cup {NewFd}
      /\ \A f \in Fds \ {NewFd} : use'[f] = use[f]
      /\ use' \in [Fds -> Uses \cup Ports]
  BY <1>1, <1>2 DEF LoopAccept, With, TypeOK, Uses
<1>4. TypeOK' /\ Control'
  BY <1>1, <1>2, <1>3 DEF TypeOK, Control
<1>5. MainInv'
  BY <1>1, <1>2, <1>3 DEF MainInv
<1>6. PipeInv'
  BY <1>1, <1>2, <1>3 DEF PipeInv, TypeOK
<1>7. SocketInv'
  BY <1>1, <1>2, <1>3 DEF SocketInv
<1>. QED
  BY <1>4, <1>5, <1>6, <1>7 DEF DescInv

(* The loop closes peers: one of them, or at its end all. *)
LEMMA ForgetKeeps ==
  ASSUME DescInv, LoopRemove \/ LoopDrop PROVE DescInv'
<1>1. /\ TypeOK /\ Control /\ MainInv /\ PipeInv /\ SocketInv
      /\ UNCHANGED <<mMainSocket, mEventPipe, mEpollFd, running, starting,
                     stopping, conn, sock>>
      /\ loop' = loop \/ (loop = "drop" /\ loop' = "main")
  BY DEF LoopRemove, LoopDrop, DescInv, names, owner, callers
<1>2. PICK fs \in SUBSET peers :
        use' = With(fs, "free") /\ peers' = peers \ fs
  <2>1. CASE LoopRemove
    <3>1. PICK f \in peers : use' = With({f}, "free") /\ Forget(f)
      BY <2>1 DEF LoopRemove
    <3>. QED
      BY <3>1 DEF Forget
  <2>2. CASE LoopDrop
    <3>1. use' = With(peers, "free") /\ peers' = peers \ peers
      BY <2>2 DEF LoopDrop
    <3>. QED
      BY <3>1
  <2>. QED
    BY <2>1, <2>2
<1>3. /\ \A f \in fs : f \in Fds /\ use[f] = "peer" /\ use'[f] = "free"
      /\ \A f \in Fds \ fs : use'[f] = use[f]
      /\ use' \in [Fds -> Uses \cup Ports]
  BY <1>1, <1>2 DEF With, TypeOK, Uses, SocketInv
<1>4. TypeOK' /\ Control'
  BY <1>1, <1>2, <1>3 DEF TypeOK, Control
<1>5. MainInv'
  BY <1>1, <1>3 DEF MainInv
<1>6. PipeInv'
  BY <1>1, <1>3 DEF PipeInv, TypeOK
<1>7. SocketInv'
  BY <1>1, <1>2, <1>3 DEF SocketInv
<1>. QED
  BY <1>4, <1>5, <1>6, <1>7 DEF DescInv

(* The loop ends, and has closed nothing yet. *)
LEMMA LeaveLoopKeeps ==
  ASSUME DescInv, LoopShutdown \/ LoopBreak PROVE DescInv'
<1>1. /\ TypeOK /\ Control /\ MainInv /\ PipeInv /\ SocketInv
      /\ UNCHANGED <<use, mMainSocket, mEventPipe, mEpollFd, peers, starting,
                     stopping, conn, sock>>
      /\ running' \in {FALSE, running} /\ loop = "run" /\ loop' = "close"
  BY DEF LoopShutdown, LoopBreak, DescInv, names, owner, callers
<1>2. TypeOK' /\ Control'
  BY <1>1 DEF TypeOK, Control
<1>3. MainInv' /\ PipeInv'
  BY <1>1 DEF MainInv, PipeInv
<1>4. SocketInv'
  BY <1>1 DEF SocketInv
<1>. QED
  BY <1>2, <1>3, <1>4 DEF DescInv

(* One close() on the way out: of a descriptor that is the node's. *)
LEMMA LoopClosesKeeps ==
  ASSUME DescInv,
         \/ LoopCloseEpoll \/ LoopCloseRead \/ LoopCloseWrite \/ LoopCloseMain
  PROVE  DescInv'
<1>1. /\ TypeOK /\ Control /\ MainInv /\ PipeInv /\ SocketInv
      /\ UNCHANGED <<mMainSocket, mEventPipe, mEpollFd, peers, running, starting,
                     stopping, conn, sock>>
  BY DEF LoopCloseEpoll, LoopCloseRead, LoopCloseWrite, LoopCloseMain,
         LoopCloses, DescInv, names, owner, callers
<1>2. ASSUME NEW fd \in Fds \cup {None}, use' = Closed(fd)
      PROVE  /\ fd # None => use'[fd] = "free"
             /\ \A f \in Fds \ {fd} : use'[f] = use[f]
             /\ use' \in [Fds -> Uses \cup Ports]
  BY <1>1, <1>2 DEF Closed, With, TypeOK, Uses
<1>3. CASE LoopCloseEpoll
  <2>1. /\ loop = "close" /\ loop' = "close_read"
        /\ mEpollFd # None => use[mEpollFd] = "epoll" /\ use'[mEpollFd] = "free"
        /\ \A f \in Fds \ {mEpollFd} : use'[f] = use[f]
        /\ use' \in [Fds -> Uses \cup Ports]
    BY <1>1, <1>2, <1>3 DEF LoopCloseEpoll, LoopCloses, TypeOK, PipeInv
  <2>2. TypeOK' /\ Control'
    BY <1>1, <2>1 DEF TypeOK, Control
  <2>3. MainInv'
    BY <1>1, <2>1, NumberFact DEF MainInv, TypeOK
  <2>4. PipeInv'
    BY <1>1, <2>1, NumberFact DEF PipeInv, TypeOK
  <2>5. SocketInv'
    BY <1>1, <2>1, NumberFact DEF SocketInv, TypeOK
  <2>. QED
    BY <2>2, <2>3, <2>4, <2>5 DEF DescInv
<1>4. CASE LoopCloseRead
  <2>1. /\ loop = "close_read" /\ loop' = "close_write"
        /\ mEventPipe[1] \in Fds /\ use[mEventPipe[1]] = "read"
        /\ use'[mEventPipe[1]] = "free"
        /\ \A f \in Fds \ {mEventPipe[1]} : use'[f] = use[f]
        /\ use' \in [Fds -> Uses \cup Ports]
    BY <1>1, <1>2, <1>4, NumberFact DEF LoopCloseRead, LoopCloses, TypeOK, PipeInv
  <2>2. TypeOK' /\ Control'
    BY <1>1, <2>1 DEF TypeOK, Control
  <2>3. MainInv'
    BY <1>1, <2>1 DEF MainInv, TypeOK
  <2>4. PipeInv'
    BY <1>1, <2>1 DEF PipeInv, TypeOK
  <2>5. SocketInv'
    BY <1>1, <2>1 DEF SocketInv, TypeOK
  <2>. QED
    BY <2>2, <2>3, <2>4, <2>5 DEF DescInv
<1>5. CASE LoopCloseWrite
  <2>1. /\ loop = "close_write" /\ loop' = "drop"
        /\ mEventPipe[2] \in Fds /\ use[mEventPipe[2]] = "write"
        /\ use'[mEventPipe[2]] = "free"
        /\ \A f \in Fds \ {mEventPipe[2]} : use'[f] = use[f]
        /\ use' \in [Fds -> Uses \cup Ports]
    BY <1>1, <1>2, <1>5, NumberFact DEF LoopCloseWrite, LoopCloses, TypeOK, PipeInv
  <2>2. TypeOK' /\ Control'
    BY <1>1, <2>1 DEF TypeOK, Control
  <2>3. MainInv'
    BY <1>1, <2>1 DEF MainInv, TypeOK
  <2>4. PipeInv'
    BY <1>1, <2>1 DEF PipeInv, TypeOK
  <2>5. SocketInv'
    BY <1>1, <2>1 DEF SocketInv, TypeOK
  <2>. QED
    BY <2>2, <2>3, <2>4, <2>5 DEF DescInv
<1>6. CASE LoopCloseMain
  <2>1. /\ loop = "main" /\ loop' = "unset"
        /\ mMainSocket # None =>
             /\ use[mMainSocket] \in {"main"} \cup Ports
             /\ use'[mMainSocket] = "free"
        /\ \A f \in Fds \ {mMainSocket} : use'[f] = use[f]
        /\ use' \in [Fds -> Uses \cup Ports]
    BY <1>1, <1>2, <1>6 DEF LoopCloseMain, LoopCloses, TypeOK, MainInv
  <2>2. TypeOK' /\ Control'
    BY <1>1, <2>1 DEF TypeOK, Control
  <2>3. MainInv'
    BY <1>1, <2>1, NumberFact DEF MainInv, TypeOK
  <2>4. PipeInv'
    BY <1>1, <2>1, NumberFact DEF PipeInv, TypeOK
  <2>5. SocketInv'
    BY <1>1, <2>1, NumberFact DEF SocketInv, TypeOK
  <2>. QED
    BY <2>2, <2>3, <2>4, <2>5 DEF DescInv
<1>. QED
  BY <1>3, <1>4, <1>5, <1>6

LEMMA LoopUnsetKeeps == ASSUME DescInv, LoopUnset PROVE DescInv'
<1>1. /\ TypeOK /\ Control /\ MainInv /\ PipeInv /\ SocketInv
      /\ UNCHANGED <<mEventPipe, mEpollFd, peers, running, starting,
                     stopping, conn, sock>>
      /\ loop = "unset" /\ loop' = "exit" /\ mMainSocket' = None
  BY DEF LoopUnset, DescInv, owner, callers
<1>2. /\ \A f \in Fds : use'[f] = IF use[f] = "main" THEN "lost" ELSE use[f]
      /\ use' \in [Fds -> Uses \cup Ports]
  BY <1>1 DEF LoopUnset, TypeOK, Uses
<1>3. TypeOK' /\ Control'
  BY <1>1, <1>2 DEF TypeOK, Control
<1>4. MainInv'
  BY <1>1, <1>2, NumberFact DEF MainInv
<1>5. PipeInv'
  BY <1>1, <1>2 DEF PipeInv
<1>6. SocketInv'
  BY <1>1, <1>2 DEF SocketInv
<1>. QED
  BY <1>3, <1>4, <1>5, <1>6 DEF DescInv

-----------------------------------------------------------------------------
(* The invariant *)

LEMMA StepDesc == DescInv /\ [Next]_vars => DescInv'
<1>. SUFFICES ASSUME DescInv, [Next]_vars PROVE DescInv'
  OBVIOUS
<1>1. CASE UNCHANGED vars
  <2>1. use' = use /\ UNCHANGED <<names, peers, owner, loop, callers>>
    BY <1>1 DEF vars, names, owner, callers
  <2>. QED
    BY <2>1, AsideKeeps DEF DescInv, TypeOK
<1>2. CASE Owner
  BY <1>2, StartSocketKeeps, StartListenKeeps, StartPipeKeeps,
     StartEpollKeeps, StartLaunchKeeps, OwnerKeeps
  DEF Owner
<1>3. CASE Loop
  BY <1>3, AcceptKeeps, ForgetKeeps, LeaveLoopKeeps, LoopClosesKeeps,
     LoopUnsetKeeps
  DEF Loop
<1>4. ASSUME NEW c \in Connectors, Connect(c)
      PROVE  DescInv'
  BY <1>4, ConnOpenKeeps, DialledKeeps, PostingKeeps DEF Connect
<1>. QED
  BY <1>1, <1>2, <1>3, <1>4, ForeignKeeps DEF Next

(* The node knows which descriptor is which, at every point of every call.  *)
THEOREM DescriptorsInvariant == Spec => []DescInv
BY InitDesc, StepDesc, PTL DEF Spec

(* Every variable keeps its type: TypeOK. *)
THEOREM DescriptorTypes == Spec => []TypeOK
<1>1. DescInv => TypeOK
  BY DEF DescInv
<1>. QED
  BY <1>1, DescriptorsInvariant, PTL

(* No descriptor of a node that was stopped stays open, but for those it    *)
(* has lost: StoppedHoldsNothing (p2p.cpp:228-233, 356-369).                *)
THEOREM NothingLeftOpen == Spec => []StoppedHoldsNothing
<1>1. DescInv => StoppedHoldsNothing
  BY DEF DescInv, MainInv, PipeInv, SocketInv, Control, StoppedHoldsNothing
<1>. QED
  BY <1>1, DescriptorsInvariant, PTL

(* What is written to the event pipe while the loop runs reaches it:        *)
(* EventsReachThePipe (p2p.cpp:87).                                         *)
THEOREM EventsArrive == Spec => EventsReachThePipe
<1>1. DescInv => (EventWritten /\ loop = "run" => use[mEventPipe[2]] = "write")
  BY DEF DescInv, PipeInv
<1>. QED
  BY <1>1, DescriptorsInvariant, PTL DEF Spec, EventsReachThePipe

-----------------------------------------------------------------------------
(* What the node never takes *)

(* start(), stop(), connect() and the loop change descriptors that are      *)
(* their own; a listening socket is closed in one place.                    *)
LEMMA OthersUntouched ==
  ASSUME DescInv, Next, ~ForeignClose,
         NEW f \in Fds, use[f] \in {"foreign"} \cup Ports
  PROVE  \/ use'[f] = use[f]
         \/ use[f] \in Ports /\ f = mMainSocket /\ LoopCloseMain
<1>1. /\ use \in [Fds -> Uses \cup Ports]
      /\ \A k : f \notin Lowest(k)
      /\ f \notin Unused
      /\ f \notin peers
      /\ \A c \in Connectors : conn[c] = "dial" => f # sock[c]
      /\ TypeOK /\ MainInv /\ PipeInv
  BY Given, NumberFact DEF DescInv, TypeOK, SocketInv
<1>2. CASE ForeignOpen
  BY <1>1, <1>2 DEF ForeignOpen, With
<1>3. CASE Owner
  <2>1. CASE StartSocket
    BY <1>1, <2>1 DEF StartSocket
  <2>2. CASE StartListen
    <3>1. CASE UNCHANGED use
      BY <3>1
    <3>2. ASSUME NEW p \in Ports, use[mMainSocket] \in {"main", "lost"},
                 use' = With({mMainSocket}, p)
          PROVE  use'[f] = use[f]
      BY <1>1, <3>2 DEF With
    <3>. QED
      BY <2>2, <3>1, <3>2 DEF StartListen
  <2>3. CASE StartPipe \/ StartEpoll
    BY <1>1, <2>3 DEF StartPipe, StartEpoll
  <2>4. CASE StartLaunch
    BY <1>1, <2>4 DEF StartLaunch, With
  <2>. QED
    BY <1>3, <2>1, <2>2, <2>3, <2>4
       DEF Owner, StartFails, StartOverThread, StopSend, StopJoin
<1>4. CASE Loop
  <2>1. CASE LoopAccept
    <3>1. NewSock \subseteq Unused
      BY Given DEF NewSock
    <3>. QED
      BY <1>1, <2>1, <3>1 DEF LoopAccept, With
  <2>2. CASE LoopRemove \/ LoopDrop
    BY <1>1, <2>2 DEF LoopRemove, LoopDrop, With
  <2>3. CASE LoopCloseEpoll
    BY <1>1, <2>3 DEF LoopCloseEpoll, LoopCloses, Closed, With, PipeInv
  <2>4. CASE LoopCloseRead
    BY <1>1, <2>4 DEF LoopCloseRead, LoopCloses, Closed, With, PipeInv
  <2>5. CASE LoopCloseWrite
    BY <1>1, <2>5 DEF LoopCloseWrite, LoopCloses, Closed, With, PipeInv
  <2>6. CASE LoopCloseMain
    <3>1. f = mMainSocket => use[f] \in Ports
      BY <1>1, <2>6 DEF LoopCloseMain, LoopCloses, MainInv
    <3>2. f # mMainSocket => use'[f] = use[f]
      BY <1>1, <2>6 DEF LoopCloseMain, LoopCloses, Closed, With
    <3>. QED
      BY <2>6, <3>1, <3>2
  <2>7. CASE LoopUnset
    BY <1>1, <2>7 DEF LoopUnset
  <2>. QED
    BY <1>4, <2>1, <2>2, <2>3, <2>4, <2>5, <2>6, <2>7
       DEF Loop, LoopShutdown, LoopBreak
<1>5. ASSUME NEW c \in Connectors, Connect(c)
      PROVE  use'[f] = use[f]
  <2>1. CASE ConnOpen(c)
    BY <1>1, <2>1 DEF ConnOpen, With
  <2>2. CASE ConnFails(c) \/ ConnInsert(c)
    BY <1>1, <2>2 DEF ConnFails, ConnInsert, With
  <2>. QED
    BY <1>5, <2>1, <2>2 DEF Connect, ConnRegister, ConnWrite
<1>. QED
  BY <1>2, <1>3, <1>4, <1>5 DEF Next

(* The node closes and takes over no descriptor of the rest of the process, *)
(* whatever numbers it has noted and not reset: ClosesItsOwn (p2p.cpp:232,  *)
(* 356-369).                                                                *)
THEOREM ForeignLeftAlone == Spec => ClosesItsOwn
<1>1. ASSUME DescInv, Next, NEW f \in Fds,
             use[f] = "foreign" /\ use'[f] # "foreign"
      PROVE  UNCHANGED <<names, peers, owner, loop, callers>>
  <2>1. ForeignClose
    BY <1>1, OthersUntouched
  <2>. QED
    BY <2>1 DEF ForeignClose
<1>2. DescInv /\ Next =>
        \A f \in Fds : use[f] = "foreign" /\ use'[f] # "foreign"
          => UNCHANGED <<names, peers, owner, loop, callers>>
  BY <1>1
<1>. QED
  BY <1>2, DescriptorsInvariant, PTL DEF Spec, ClosesItsOwn

-----------------------------------------------------------------------------
(* Ports that are lost *)

(* What moves mMainSocket, and what takes start() and the loop from place   *)
(* to place.                                                                *)
LEMMA WhoMoves ==
  ASSUME Next
  PROVE  /\ mMainSocket' = mMainSocket \/ StartSocket \/ LoopUnset
         /\ \/ starting' = starting
            \/ StartSocket \/ StartListen \/ StartFails \/ StartPipe
            \/ StartEpoll \/ StartLaunch \/ StartOverThread
         /\ loop' \in {"none", "unset", "exit"} =>
              loop \in {"none", "unset", "exit"} \/ LoopCloseMain
         /\ loop \in {"none", "unset", "exit"} =>
              loop' \in {"none", "unset", "exit"} \/ StartLaunch
<1>1. CASE ForeignOpen \/ ForeignClose
  BY <1>1 DEF ForeignOpen, ForeignClose, names, owner
<1>2. CASE Owner
  BY <1>2
  DEF Owner, StartSocket, StartListen, StartFails, StartPipe, StartEpoll,
      StartLaunch, StartOverThread, StopSend, StopJoin, names
<1>3. CASE Loop
  BY <1>3
  DEF Loop, LoopAccept, LoopRemove, LoopShutdown, LoopBreak, LoopCloseEpoll,
      LoopCloseRead, LoopCloseWrite, LoopDrop, LoopCloseMain, LoopCloses,
      LoopUnset, names, owner
<1>4. ASSUME NEW c \in Connectors, Connect(c)
      PROVE  UNCHANGED <<names, owner, loop>>
  BY <1>4 DEF Connect, ConnOpen, ConnFails, ConnInsert, ConnRegister,
              ConnWrite
<1>. QED
  BY <1>1, <1>2, <1>3, <1>4 DEF Next, names, owner

(* Only listen() gives a descriptor a port. *)
LEMMA OnlyListenGives ==
  ASSUME DescInv, Next, NEW f \in Fds, use[f] \notin Ports, use'[f] \in Ports
  PROVE  StartListen /\ f = mMainSocket
<1>1. use \in [Fds -> Uses \cup Ports]
  BY DEF DescInv, TypeOK
<1>2. CASE ForeignOpen \/ ForeignClose
  BY <1>1, <1>2 DEF ForeignOpen, ForeignClose, With
<1>3. CASE Owner
  <2>1. CASE StartSocket \/ StartPipe \/ StartEpoll \/ StartLaunch
    BY <1>1, <2>1 DEF StartSocket, StartPipe, StartEpoll, StartLaunch, With
  <2>2. CASE StartListen
    BY <1>1, <2>2 DEF StartListen, With
  <2>. QED
    BY <1>3, <2>1, <2>2
       DEF Owner, StartFails, StartOverThread, StopSend, StopJoin
<1>4. CASE Loop
  <2>1. CASE LoopAccept \/ LoopRemove \/ LoopDrop
    BY <1>1, <2>1 DEF LoopAccept, LoopRemove, LoopDrop, With
  <2>2. CASE LoopUnset
    BY <1>1, <2>2 DEF LoopUnset
  <2>3. CASE LoopCloseEpoll \/ LoopCloseRead \/ LoopCloseWrite \/ LoopCloseMain
    BY <1>1, <2>3
    DEF LoopCloseEpoll, LoopCloseRead, LoopCloseWrite, LoopCloseMain,
        LoopCloses, Closed, With
  <2>. QED
    BY <1>4, <2>1, <2>2, <2>3 DEF Loop, LoopShutdown, LoopBreak
<1>5. ASSUME NEW c \in Connectors, Connect(c)
      PROVE  FALSE
  BY <1>1, <1>5
  DEF Connect, ConnOpen, ConnFails, ConnInsert, ConnRegister, ConnWrite, With
<1>. QED
  BY <1>2, <1>3, <1>4, <1>5 DEF Next

(* A socket that listens for nobody does so for ever, and no start() gets   *)
(* its port: PortsStayLost (p2p.cpp:73, 88, 117).                           *)
THEOREM LostPortsStay == Spec => PortsStayLost
<1>1. ASSUME DescInv, Next, NEW f \in Fds, Stray(f)
      PROVE  Stray(f)' /\ \A g \in Fds \ {f} : use'[g] # use[f]
  <2>1. use[f] \in Ports /\ use'[f] = use[f]
    <3>1. use[f] \in Ports /\ ~(f = mMainSocket /\ LoopCloseMain)
      BY <1>1 DEF Stray, LoopCloseMain, LoopCloses
    <3>2. CASE ForeignClose
      BY <3>1, <3>2 DEF ForeignClose, With
    <3>. QED
      BY <1>1, <3>1, <3>2, OthersUntouched
  <2>2. f # NewFd /\ f # None
    BY <2>1, Given, NumberFact
  <2>3. Stray(f)'
    <3>1. CASE StartSocket \/ LoopUnset
      BY <2>1, <2>2, <3>1 DEF Stray, StartSocket, LoopUnset
    <3>2. CASE f # mMainSocket /\ ~StartSocket /\ ~LoopUnset
      BY <1>1, <2>1, <3>2, WhoMoves DEF Stray
    <3>3. CASE f = mMainSocket /\ ~StartSocket /\ ~LoopUnset
      <4>1. loop \in {"none", "unset", "exit"} /\ starting = "no"
        BY <1>1, <3>3 DEF Stray
      <4>2. starting' = "no" /\ ~StartLaunch
        BY <1>1, <3>3, <4>1, WhoMoves
        DEF StartListen, StartFails, StartPipe, StartEpoll, StartLaunch,
            StartOverThread
      <4>. QED
        BY <1>1, <2>1, <4>1, <4>2, WhoMoves DEF Stray
    <3>. QED
      BY <3>1, <3>2, <3>3
  <2>4. \A g \in Fds \ {f} : use'[g] # use[f]
    BY <1>1, <2>1, StepDesc DEF DescInv, MainInv
  <2>. QED
    BY <2>3, <2>4
<1>2. DescInv /\ Next =>
        \A f \in Fds : Stray(f) =>
          Stray(f)' /\ \A g \in Fds \ {f} : use'[g] # use[f]
  BY <1>1
<1>. QED
  BY <1>2, DescriptorsInvariant, PTL DEF Spec, PortsStayLost

(* A port is lost by pipe() failing in start(), or by a start() that meets  *)
(* a loop on its way out: PortLostOnlyIf (p2p.cpp:36, 88, 356-370).         *)
THEOREM HowPortsAreLost == Spec => PortLostOnlyIf
<1>1. ASSUME DescInv, Next, NEW f \in Fds, ~Stray(f), Stray(f)',
             ~(starting = "pipe" /\ starting' = "no"),
             ~(loop # "none" /\ ~running /\ ~stopping)
      PROVE  FALSE
  <2>1. /\ DescInv' /\ Control /\ MainInv
        /\ use'[f] \in Ports
        /\ f # mMainSocket' \/ (loop' \in {"none", "unset", "exit"}
                                 /\ starting' = "no")
    BY <1>1, StepDesc DEF Stray, DescInv
  <2>2. use[f] \in Ports
    <3>1. SUFFICES ASSUME use[f] \notin Ports PROVE FALSE
      OBVIOUS
    <3>2. StartListen /\ f = mMainSocket
      BY <1>1, <2>1, <3>1, OnlyListenGives
    <3>. QED
      BY <2>1, <3>2 DEF StartListen, names
  <2>3. /\ f = mMainSocket
        /\ loop \notin {"none", "unset", "exit"} \/ starting # "no"
    BY <1>1, <2>2 DEF Stray
  <2>4. ~StartSocket /\ ~LoopUnset
    BY <1>1, <2>1, <2>3
    DEF StartSocket, LoopUnset, ThreadMutexFree, Control
  <2>5. mMainSocket' = mMainSocket
    BY <1>1, <2>4, WhoMoves
  <2>6. loop' \in {"none", "unset", "exit"} /\ starting' = "no"
    BY <2>1, <2>3, <2>5
  <2>7. CASE starting # "no"
    <3>1. StartFails
      BY <1>1, <2>4, <2>6, <2>7, WhoMoves
      DEF StartListen, StartPipe, StartEpoll, StartLaunch, StartOverThread
    <3>. QED
      BY <1>1, <2>1, <2>2, <2>3, <3>1 DEF StartFails, Control, MainInv
  <2>8. CASE starting = "no"
    <3>1. LoopCloseMain
      BY <1>1, <2>3, <2>6, <2>8, WhoMoves
    <3>. QED
      BY <1>1, <2>1, <2>3, <3>1, NumberFact
      DEF LoopCloseMain, LoopCloses, Closed, With
  <2>. QED
    BY <2>7, <2>8
<1>2. DescInv /\ Next =>
        \A f \in Fds : ~Stray(f) /\ Stray(f)' =>
          \/ starting = "pipe" /\ starting' = "no"
          \/ loop # "none" /\ ~running /\ ~stopping
  BY <1>1
<1>. QED
  BY <1>2, DescriptorsInvariant, PTL DEF Spec, PortLostOnlyIf

=============================================================================
