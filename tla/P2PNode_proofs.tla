--------------------------- MODULE P2PNode_proofs ---------------------------
(* Proofs about P2PNode: they hold for every number of users, tasks and     *)
(* descriptors, any capacity of the pipe and whatever peers send.           *)
EXTENDS P2PNodeProperties, TLAPS

(* The operators the actions are written with, and the sets of places. *)
USE DEF Threads, StartPCs, StopPCs, ConnPCs, ThreadPCs, BodyPCs, EndPCs,
        LoopPCs, callers, mutexes, loopVars, channel, marks, table, net,
        At, LoopAt, Goto, LoopGoto, OnlyGoto, OnlyLoopGoto, Free, Up

-----------------------------------------------------------------------------
(* What ReadPayload makes of the pipe: a descriptor or none, and tokens. *)
LEMMA PayloadType ==
  ASSUME NEW s \in Seq(Event \cup Fds), s # <<>>
  PROVE  /\ PayloadFd(s) \in Fds \cup {None}
         /\ AfterPayload(s) \in Seq(Event \cup Fds)
<1>1. PayloadFd(s) \in Fds \cup {None}
  BY DEF PayloadFd
<1>2. SubSeq(s, 5, Len(s)) \in Seq(Event \cup Fds)
  OBVIOUS
<1>3. ASSUME NEW n
      PROVE  [i \in 1..(Len(s) - 1) |-> IF i <= n THEN "SHUTDOWN" ELSE s[i + 1]]
               \in Seq(Event \cup Fds)
  BY DEF Event
<1> QED
  BY <1>1, <1>2, <1>3 DEF AfterPayload

(* A write leaves tokens in the pipe. *)
LEMMA WriteType ==
  ASSUME pipe \in Seq(Event \cup Fds), NEW tok \in Event \cup Fds, Write(tok)
  PROVE  pipe' \in Seq(Event \cup Fds)
<1>1. Append(pipe, tok) \in Seq(Event \cup Fds)
  OBVIOUS
<1> QED
  BY <1>1 DEF Write

(* The node starts in a state of the invariant. *)
LEMMA InitInv ==
  ASSUME Init
  PROVE  NodeInv
<1> USE ThreadsAssumption, BoundsAssumption DEF Init
<1>1. TypeOK
  <2>1. pc \in [Threads -> ThreadPCs] /\ sock \in [Threads -> Fds \cup {None}]
    OBVIOUS
  <2>2. boot \in 0..NBoot /\ pool \in 0..MaxPool /\ pipe \in Seq(Event \cup Fds)
    OBVIOUS
  <2> QED
    BY <2>1, <2>2 DEF TypeOK
<1>2. LockInv /\ SockInv /\ LoopFdInv /\ LoopInv /\ DyingInv
  BY DEF LockInv, SockInv, LoopFdInv, LoopInv, DyingInv
<1>3. QuiescentJoin /\ TablesAgree /\ JoinedClean
  BY DEF QuiescentJoin, TablesAgree, JoinedClean
<1> QED
  BY <1>1, <1>2, <1>3 DEF NodeInv

-----------------------------------------------------------------------------
(* Every step keeps the invariant: one lemma per operation of the node, one *)
(* case per action.                                                         *)

(* start(). *)
LEMMA StartKeeps ==
  ASSUME NodeInv, NEW u \in Users,
         \/ StartEnter(u) \/ StartSpawn(u) \/ StartOverThread(u)
         \/ StartBoot(u) \/ StartReturn(u)
  PROVE  NodeInv'
<1> USE ThreadsAssumption, BoundsAssumption
        DEF NodeInv, TypeOK, LockInv, SockInv, LoopFdInv, LoopInv,
            DyingInv, QuiescentJoin, TablesAgree, JoinedClean
<1>1. CASE StartEnter(u)
  BY <1>1 DEF StartEnter
<1>2. CASE StartSpawn(u)
  BY <1>2 DEF StartSpawn, Erase, Joinable
<1>3. CASE StartOverThread(u)
  BY <1>3 DEF StartOverThread, Joinable
<1>4. CASE StartBoot(u)
  BY <1>4 DEF StartBoot, Spawn
<1>5. CASE StartReturn(u)
  BY <1>5 DEF StartReturn
<1> QED
  BY <1>1, <1>2, <1>3, <1>4, <1>5

(* stop(), also as the destructor calls it. *)
LEMMA StopKeeps ==
  ASSUME NodeInv, NEW u \in Users,
         \/ CallStop(u) \/ CallDestroy(u) \/ StopLock(u)
         \/ StopRunning(u) \/ StopNotRunning(u) \/ StopSend(u)
         \/ StopJoin(u)
  PROVE  NodeInv'
<1> USE ThreadsAssumption, BoundsAssumption
        DEF NodeInv, TypeOK, LockInv, SockInv, LoopFdInv, LoopInv,
            DyingInv, QuiescentJoin, TablesAgree, JoinedClean
<1>1. CASE CallStop(u)
  BY <1>1 DEF CallStop
<1>2. CASE CallDestroy(u)
  BY <1>2 DEF CallDestroy
<1>3. CASE StopLock(u)
  BY <1>3 DEF StopLock
<1>4. CASE StopRunning(u)
  BY <1>4 DEF StopRunning, TasksOver
<1>5. CASE StopNotRunning(u)
  BY <1>5 DEF StopNotRunning, TasksOver
<1>6. CASE StopSend(u)
  <2>1. pipe' \in Seq(Event \cup Fds)
    BY <1>6, WriteType DEF StopSend, Event
  <2>2. TypeOK'
    BY <1>6, <2>1 DEF StopSend, Write, Event
  <2>3. LockInv' /\ DyingInv' /\ QuiescentJoin' /\ JoinedClean'
    BY <1>6 DEF StopSend, Write, Event
  <2>4. SockInv' /\ LoopFdInv' /\ TablesAgree' /\ LoopInv'
    BY <1>6 DEF StopSend, Write, Event
  <2> QED
    BY <2>2, <2>3, <2>4
<1>7. CASE StopJoin(u)
  <2>1. \A t \in Tasks : pc'[t] = "idle"
    BY <1>7 DEF StopJoin
  <2>2. TypeOK' /\ LockInv' /\ QuiescentJoin' /\ JoinedClean'
    BY <1>7 DEF StopJoin
  <2>3. SockInv' /\ LoopFdInv' /\ LoopInv' /\ TablesAgree'
    BY <1>7 DEF StopJoin
  <2>4. DyingInv'
    BY <1>7, <2>1 DEF StopJoin
  <2> QED
    BY <2>2, <2>3, <2>4
<1> QED
  BY <1>1, <1>2, <1>3, <1>4, <1>5, <1>6, <1>7

(* The members of the object after stop(). *)
LEMMA DestructKeeps ==
  ASSUME NodeInv,
         \/ Destruct
  PROVE  NodeInv'
<1> USE ThreadsAssumption, BoundsAssumption
        DEF NodeInv, TypeOK, LockInv, SockInv, LoopFdInv, LoopInv,
            DyingInv, QuiescentJoin, TablesAgree, JoinedClean
<1>1. CASE Destruct
  BY <1>1 DEF Destruct, Erase, Joinable
<1> QED
  BY <1>1

(* aConnect(), and a call of connect(). *)
LEMMA CallKeeps ==
  ASSUME NodeInv, NEW u \in Users,
         \/ AConnect(u) \/ DirectConnect(u)
  PROVE  NodeInv'
<1> USE ThreadsAssumption, BoundsAssumption
        DEF NodeInv, TypeOK, LockInv, SockInv, LoopFdInv, LoopInv,
            DyingInv, QuiescentJoin, TablesAgree, JoinedClean
<1>1. CASE AConnect(u)
  BY <1>1 DEF AConnect, Spawn
<1>2. CASE DirectConnect(u)
  BY <1>2 DEF DirectConnect
<1> QED
  BY <1>1, <1>2

(* connect() in whatever thread. *)
LEMMA ConnectKeeps ==
  ASSUME NodeInv, NEW t \in Threads,
         \/ ConnectFails(t) \/ Connected(t) \/ ConnectInsert(t)
         \/ ConnectRegister(t) \/ ConnectEvent(t) \/ ConnectData(t)
  PROVE  NodeInv'
<1> USE ThreadsAssumption, BoundsAssumption
        DEF NodeInv, TypeOK, LockInv, SockInv, LoopFdInv, LoopInv,
            DyingInv, QuiescentJoin, TablesAgree, JoinedClean
<1>1. CASE ConnectFails(t)
  BY <1>1 DEF ConnectFails
<1>2. CASE Connected(t)
  BY <1>2 DEF Connected
<1>3. CASE ConnectInsert(t)
  BY <1>3 DEF ConnectInsert
<1>4. CASE ConnectRegister(t)
  <2>1. TypeOK'
    BY <1>4 DEF ConnectRegister, Register
  <2>2. LockInv' /\ QuiescentJoin'
    BY <1>4 DEF ConnectRegister
  <2>3. DyingInv' /\ JoinedClean'
    BY <1>4 DEF ConnectRegister
  <2>4. SockInv' /\ LoopFdInv' /\ TablesAgree'
    BY <1>4 DEF ConnectRegister, Register
  <2>5. LoopInv'
    BY <1>4 DEF ConnectRegister, Register
  <2> QED
    BY <2>1, <2>2, <2>3, <2>4, <2>5
<1>5. CASE ConnectEvent(t)
  <2>1. pipe' \in Seq(Event \cup Fds)
    BY <1>5, WriteType DEF ConnectEvent, Event
  <2>2. TypeOK'
    BY <1>5, <2>1 DEF ConnectEvent, Write, Event
  <2>3. LockInv' /\ DyingInv' /\ QuiescentJoin' /\ JoinedClean'
    BY <1>5 DEF ConnectEvent, Write, Event
  <2>4. SockInv' /\ LoopFdInv' /\ TablesAgree' /\ LoopInv'
    BY <1>5 DEF ConnectEvent, Write, Event
  <2> QED
    BY <2>2, <2>3, <2>4
<1>6. CASE ConnectData(t)
  <2>1. pipe' \in Seq(Event \cup Fds)
    BY <1>6, WriteType DEF ConnectData
  <2>2. TypeOK'
    BY <1>6, <2>1 DEF ConnectData, Write
  <2>3. LockInv' /\ DyingInv' /\ QuiescentJoin' /\ JoinedClean'
    BY <1>6 DEF ConnectData, Write
  <2>4. SockInv' /\ LoopFdInv' /\ TablesAgree' /\ LoopInv'
    BY <1>6 DEF ConnectData, Write
  <2> QED
    BY <2>2, <2>3, <2>4
<1> QED
  BY <1>1, <1>2, <1>3, <1>4, <1>5, <1>6

(* handleEvents. *)
LEMMA EventKeeps ==
  ASSUME NodeInv,
         \/ HandleShutdown \/ HandleWelcome \/ ReadPayload
         \/ Greet \/ HandleTryConnect \/ TryConnect
         \/ Launch
  PROVE  NodeInv'
<1> USE ThreadsAssumption, BoundsAssumption
        DEF NodeInv, TypeOK, LockInv, SockInv, LoopFdInv, LoopInv,
            DyingInv, QuiescentJoin, TablesAgree, JoinedClean
<1>1. CASE HandleShutdown
  <2>1. pipe' \in Seq(Event \cup Fds)
    BY <1>1 DEF HandleShutdown
  <2>2. TypeOK'
    BY <1>1, <2>1 DEF HandleShutdown
  <2>3. LockInv' /\ DyingInv' /\ QuiescentJoin' /\ JoinedClean'
    BY <1>1 DEF HandleShutdown
  <2>4. SockInv' /\ LoopFdInv' /\ TablesAgree' /\ LoopInv'
    BY <1>1 DEF HandleShutdown
  <2> QED
    BY <2>2, <2>3, <2>4
<1>2. CASE HandleWelcome
  <2>1. pipe' \in Seq(Event \cup Fds)
    BY <1>2 DEF HandleWelcome
  <2>2. TypeOK'
    BY <1>2, <2>1 DEF HandleWelcome
  <2>3. LockInv' /\ DyingInv' /\ QuiescentJoin' /\ JoinedClean'
    BY <1>2 DEF HandleWelcome
  <2>4. SockInv' /\ LoopFdInv' /\ TablesAgree' /\ LoopInv'
    BY <1>2 DEF HandleWelcome
  <2> QED
    BY <2>2, <2>3, <2>4
<1>3. CASE ReadPayload
  BY <1>3, PayloadType DEF ReadPayload
<1>4. CASE Greet
  BY <1>4 DEF Greet, ToGreet, SendMsg
<1>5. CASE HandleTryConnect
  <2>1. pipe' \in Seq(Event \cup Fds)
    BY <1>5 DEF HandleTryConnect
  <2>2. TypeOK'
    BY <1>5, <2>1 DEF HandleTryConnect
  <2>3. LockInv' /\ DyingInv' /\ QuiescentJoin' /\ JoinedClean'
    BY <1>5 DEF HandleTryConnect
  <2>4. SockInv' /\ LoopFdInv' /\ TablesAgree' /\ LoopInv'
    BY <1>5 DEF HandleTryConnect
  <2> QED
    BY <2>2, <2>3, <2>4
<1>6. CASE TryConnect
  BY <1>6 DEF TryConnect, WantsPeers
<1>7. CASE Launch
  BY <1>7 DEF Launch, Spawn
<1> QED
  BY <1>1, <1>2, <1>3, <1>4, <1>5, <1>6, <1>7

(* newPeer. *)
LEMMA AcceptKeeps ==
  ASSUME NodeInv,
         \/ Accept \/ AcceptInsert \/ AcceptRegister
         \/ AcceptReturn
  PROVE  NodeInv'
<1> USE ThreadsAssumption, BoundsAssumption
        DEF NodeInv, TypeOK, LockInv, SockInv, LoopFdInv, LoopInv,
            DyingInv, QuiescentJoin, TablesAgree, JoinedClean
<1>1. CASE Accept
  BY <1>1 DEF Accept
<1>2. CASE AcceptInsert
  BY <1>2 DEF AcceptInsert
<1>3. CASE AcceptRegister
  BY <1>3 DEF AcceptRegister, Register
<1>4. CASE AcceptReturn
  BY <1>4 DEF AcceptReturn
<1> QED
  BY <1>1, <1>2, <1>3, <1>4

(* servePeer and what it calls. *)
LEMMA ServeKeeps ==
  ASSUME NodeInv,
         \/ Serve \/ DecodePeerInfo \/ DecodeReject
         \/ DecodeDisconnect \/ DecodeDiscovery \/ ReadEof
         \/ PostWelcome \/ PostFd \/ PostTryConnect
         \/ RemovePeer \/ Unwind
  PROVE  NodeInv'
<1> USE ThreadsAssumption, BoundsAssumption
        DEF NodeInv, TypeOK, LockInv, SockInv, LoopFdInv, LoopInv,
            DyingInv, QuiescentJoin, TablesAgree, JoinedClean
<1>1. CASE Serve
  BY <1>1 DEF Serve
<1>2. CASE DecodePeerInfo
  BY <1>2 DEF DecodePeerInfo, Receives
<1>3. CASE DecodeReject
  BY <1>3 DEF DecodeReject, Receives, SendMsg
<1>4. CASE DecodeDisconnect
  BY <1>4 DEF DecodeDisconnect, Receives
<1>5. CASE DecodeDiscovery
  BY <1>5 DEF DecodeDiscovery, Receives
<1>6. CASE ReadEof
  BY <1>6 DEF ReadEof, Receives
<1>7. CASE PostWelcome
  <2>1. pipe' \in Seq(Event \cup Fds)
    BY <1>7, WriteType DEF PostWelcome, Event
  <2>2. TypeOK'
    BY <1>7, <2>1 DEF PostWelcome, Write, Event
  <2>3. LockInv' /\ DyingInv' /\ QuiescentJoin' /\ JoinedClean'
    BY <1>7 DEF PostWelcome, Write, Event
  <2>4. SockInv' /\ LoopFdInv' /\ TablesAgree' /\ LoopInv'
    BY <1>7 DEF PostWelcome, Write, Event
  <2> QED
    BY <2>2, <2>3, <2>4
<1>8. CASE PostFd
  <2>1. pipe' \in Seq(Event \cup Fds)
    BY <1>8, WriteType DEF PostFd
  <2>2. TypeOK'
    BY <1>8, <2>1 DEF PostFd, Write
  <2>3. LockInv' /\ DyingInv' /\ QuiescentJoin' /\ JoinedClean'
    BY <1>8 DEF PostFd, Write
  <2>4. SockInv' /\ LoopFdInv' /\ TablesAgree' /\ LoopInv'
    BY <1>8 DEF PostFd, Write
  <2> QED
    BY <2>2, <2>3, <2>4
<1>9. CASE PostTryConnect
  <2>1. pipe' \in Seq(Event \cup Fds)
    BY <1>9, WriteType DEF PostTryConnect, Event
  <2>2. TypeOK'
    BY <1>9, <2>1 DEF PostTryConnect, Write, Event
  <2>3. LockInv' /\ DyingInv' /\ QuiescentJoin' /\ JoinedClean'
    BY <1>9 DEF PostTryConnect, Write, Event
  <2>4. SockInv' /\ LoopFdInv' /\ TablesAgree' /\ LoopInv'
    BY <1>9 DEF PostTryConnect, Write, Event
  <2> QED
    BY <2>2, <2>3, <2>4
<1>10. CASE RemovePeer
  BY <1>10 DEF RemovePeer, Erase, CloseSockets
<1>11. CASE Unwind
  BY <1>11 DEF Unwind
<1> QED
  BY <1>1, <1>2, <1>3, <1>4, <1>5, <1>6, <1>7, <1>8, <1>9, <1>10, <1>11

(* the end of the loop. *)
LEMMA EndKeeps ==
  ASSUME NodeInv,
         \/ PollFails \/ CloseReadEnd \/ CloseWriteEnd
         \/ DropPeers
  PROVE  NodeInv'
<1> USE ThreadsAssumption, BoundsAssumption
        DEF NodeInv, TypeOK, LockInv, SockInv, LoopFdInv, LoopInv,
            DyingInv, QuiescentJoin, TablesAgree, JoinedClean
<1>1. CASE PollFails
  BY <1>1 DEF PollFails
<1>2. CASE CloseReadEnd
  BY <1>2 DEF CloseReadEnd
<1>3. CASE CloseWriteEnd
  BY <1>3 DEF CloseWriteEnd
<1>4. CASE DropPeers
  BY <1>4 DEF DropPeers, Erase, CloseSockets
<1> QED
  BY <1>1, <1>2, <1>3, <1>4

(* A step of the node, or none. *)
LEMMA NextKeeps ==
  ASSUME NodeInv, [Next]_vars
  PROVE  NodeInv'
<1>1. CASE \E u \in Users : UserCalls(u) \/ UserSteps(u)
  <2>1. PICK u \in Users : UserCalls(u) \/ UserSteps(u)
    BY <1>1
  <2>2. CASE \/ StartEnter(u) \/ StartSpawn(u) \/ StartOverThread(u)
             \/ StartBoot(u) \/ StartReturn(u)
    BY <2>2, StartKeeps
  <2>3. CASE \/ CallStop(u) \/ CallDestroy(u) \/ StopLock(u)
             \/ StopRunning(u) \/ StopNotRunning(u) \/ StopSend(u)
             \/ StopJoin(u)
    BY <2>3, StopKeeps
  <2>4. CASE AConnect(u) \/ DirectConnect(u)
    BY <2>4, CallKeeps
  <2> QED
    BY <2>1, <2>2, <2>3, <2>4 DEF UserCalls, UserSteps
<1>2. CASE \E t \in Threads : ConnectSteps(t)
  BY <1>2, ConnectKeeps DEF ConnectSteps
<1>3. CASE Destruct
  BY <1>3, DestructKeeps
<1>4. CASE LoopSteps \/ HandleEvents \/ Accept \/ Serve \/ PollFails
  BY <1>4, EventKeeps, AcceptKeeps, ServeKeeps, EndKeeps
     DEF LoopSteps, HandleEvents
<1>5. CASE UNCHANGED vars
  BY <1>5 DEF vars, NodeInv, TypeOK, LockInv, SockInv, LoopFdInv, LoopInv,
              DyingInv, QuiescentJoin, TablesAgree, JoinedClean
<1> QED
  BY <1>1, <1>2, <1>3, <1>4, <1>5 DEF Next

-----------------------------------------------------------------------------
(* The inductive invariant holds in every reachable state. *)
THEOREM NodeInvariant == Spec => []NodeInv
<1>1. Init => NodeInv
  BY InitInv
<1>2. NodeInv /\ [Next]_vars => NodeInv'
  BY NextKeeps
<1> QED
  BY <1>1, <1>2, PTL DEF Spec

(* Every variable keeps its type. *)
THEOREM TypeCorrect == Spec => []TypeOK
<1>1. NodeInv => TypeOK
  BY DEF NodeInv
<1> QED
  BY <1>1, NodeInvariant, PTL

(* No asynchronous connection runs while stop() joins the loop. *)
THEOREM JoinIsQuiescent == Spec => []QuiescentJoin
<1>1. NodeInv => QuiescentJoin
  BY DEF NodeInv
<1> QED
  BY <1>1, NodeInvariant, PTL

(* The epoll set, mPeers and the open sockets never disagree. *)
THEOREM TablesAlwaysAgree == Spec => []TablesAgree
<1>1. NodeInv => TablesAgree
  BY DEF NodeInv
<1> QED
  BY <1>1, NodeInvariant, PTL

(* stop() leaves no peer behind. *)
THEOREM JoinIsClean == Spec => []JoinedClean
<1>1. NodeInv => JoinedClean
  BY DEF NodeInv
<1> QED
  BY <1>1, NodeInvariant, PTL

-----------------------------------------------------------------------------
(* The types, in the form the proofs about special nodes use them. *)
LEMMA NodeTypes ==
  ASSUME NodeInv
  PROVE  /\ pc \in [Threads -> ThreadPCs] /\ sock \in [Threads -> Fds \cup {None}]
         /\ loop \in LoopPCs /\ running \in BOOLEAN
         /\ pipe \in Seq(Event \cup Fds) /\ pipeEnds \in {"open", "half", "closed"}
         /\ peers \subseteq Fds
         /\ fate \in {"alive", "dying", "destroyed", "terminated"}
BY DEF NodeInv, TypeOK

(* Who excludes whom, by the mutexes: start() and stop() each other ...     *)
LEMMA OwnersExclude ==
  ASSUME NodeInv, NEW u \in Users, NEW v \in Users,
         pc[u] \in StartPCs \cup StopPCs, pc[v] \in StartPCs \cup StopPCs
  PROVE  u = v
BY DEF NodeInv, LockInv

(* ... connectors with their peer in mPeers each other ...                  *)
LEMMA ConnectorsExclude ==
  ASSUME NodeInv, NEW t \in Threads, NEW s \in Threads,
         pc[t] \in {"start_boot", "conn_thread", "conn_event", "conn_data"},
         pc[s] \in {"start_boot", "conn_thread", "conn_event", "conn_data"}
  PROVE  t = s
<1>1. peersMutex = t
  BY DEF NodeInv, LockInv
<1>2. peersMutex = s
  BY DEF NodeInv, LockInv
<1> QED
  BY <1>1, <1>2

(* ... and a stop() that ends the loop all asynchronous connections.        *)
LEMMA StopExcludes ==
  ASSUME NodeInv, NEW u \in Users, pc[u] \in {"stop_send", "stop_join"}
  PROVE  \A t \in Tasks : pc[t] = "idle"
BY DEF NodeInv, QuiescentJoin

-----------------------------------------------------------------------------
(* While a connector holds mPeersMutex, those that wait for it wait on. *)
LEMMA HeldUpStay ==
  ASSUME NodeInv, [Next]_vars, peersMutex # None,
         NEW t \in Threads, HoldsUpTasks(t)
  PROVE  HoldsUpTasks(t)'
<1>1. ASSUME NEW s \in Tasks, pc[s] = "conn_peers"
      PROVE  pc'[s] = "conn_peers"
  <2> USE ThreadsAssumption DEF NodeInv, TypeOK
  <2>1. ASSUME NEW u \in Users, UserCalls(u) \/ UserSteps(u)
        PROVE  pc'[s] = "conn_peers"
    BY <1>1, <2>1
       DEF UserCalls, UserSteps, StartEnter, StartSpawn, StartOverThread,
           StartBoot, StartReturn, CallStop, CallDestroy, StopLock,
           StopRunning, StopNotRunning, StopSend, StopJoin, AConnect,
           DirectConnect, Spawn
  <2>2. ASSUME NEW c \in Threads, ConnectSteps(c)
        PROVE  pc'[s] = "conn_peers"
    BY <1>1, <2>2
       DEF ConnectSteps, ConnectFails, Connected, ConnectInsert,
           ConnectRegister, ConnectEvent, ConnectData
  <2>3. CASE LoopSteps \/ HandleEvents \/ Accept \/ Serve \/ PollFails
    BY <1>1, <2>3
       DEF LoopSteps, HandleEvents, ReadPayload, Greet, TryConnect, Launch,
           AcceptInsert, AcceptRegister, AcceptReturn, DecodePeerInfo,
           DecodeReject, DecodeDisconnect, DecodeDiscovery, ReadEof,
           PostWelcome, PostFd, PostTryConnect, RemovePeer, Unwind,
           CloseReadEnd, CloseWriteEnd, DropPeers, HandleShutdown,
           HandleWelcome, HandleTryConnect, Accept, Serve, PollFails, Spawn
  <2>4. CASE Destruct \/ UNCHANGED vars
    BY <1>1, <2>4 DEF Destruct, vars
  <2> QED
    BY <2>1, <2>2, <2>3, <2>4 DEF Next
<1> QED
  BY <1>1 DEF HoldsUpTasks

(* No step undoes a circular wait: each thread in it is stopped by another. *)
LEMMA ConnectWedgeStays ==
  ASSUME NodeInv, ConnectWedged, [Next]_vars
  PROVE  ConnectWedged'
<1> USE ThreadsAssumption DEF NodeInv, TypeOK, LockInv
<1>1. PICK c \in Threads, w \in Users :
        /\ pc[c] = "conn_thread"
        /\ \/ pc[w] = "start_peers"
           \/ pc[w] = "stop_tasks" /\ HoldsUpTasks(c)
           \/ pc[w] \in {"stop_send", "stop_join"} /\ loop # "exit"
  BY DEF ConnectWedged
<1>2. /\ threadMutex = w /\ threadMutex # None
      /\ peersMutex = c /\ peersMutex # None
  BY <1>1
<1>3. HoldsUpTasks(c) => HoldsUpTasks(c)' /\ ~TasksOver
  <2>1. HoldsUpTasks(c) => ~TasksOver
    BY <1>1 DEF HoldsUpTasks, TasksOver
  <2> QED
    BY <1>2, <2>1, HeldUpStay
<1>4. ASSUME NEW u \in Users, UserCalls(u) \/ UserSteps(u)
      PROVE  ConnectWedged'
  BY <1>1, <1>2, <1>3, <1>4
     DEF ConnectWedged, UserCalls, UserSteps, StartEnter, StartSpawn,
         StartOverThread, StartBoot, StartReturn, CallStop, CallDestroy,
         StopLock, StopRunning, StopNotRunning, StopSend, StopJoin, AConnect,
         DirectConnect, Spawn
<1>5. ASSUME NEW t \in Threads, ConnectSteps(t)
      PROVE  ConnectWedged'
  BY <1>1, <1>2, <1>3, <1>5
     DEF ConnectWedged, ConnectSteps, ConnectFails, Connected, ConnectInsert,
         ConnectRegister, ConnectEvent, ConnectData
<1>6. CASE LoopSteps \/ HandleEvents \/ Accept \/ Serve \/ PollFails
  <2>1. pc'[c] = pc[c] /\ pc'[w] = pc[w]
    BY <1>1, <1>6
       DEF LoopSteps, HandleEvents, ReadPayload, Greet, TryConnect, Launch,
           AcceptInsert, AcceptRegister, AcceptReturn, DecodePeerInfo,
           DecodeReject, DecodeDisconnect, DecodeDiscovery, ReadEof,
           PostWelcome, PostFd, PostTryConnect, RemovePeer, Unwind,
           CloseReadEnd, CloseWriteEnd, DropPeers, HandleShutdown,
           HandleWelcome, HandleTryConnect, Accept, Serve, PollFails, Spawn
  <2>2. loop # "exit" => loop' # "exit"
    BY <1>2, <1>6
       DEF LoopSteps, HandleEvents, ReadPayload, Greet, TryConnect, Launch,
           AcceptInsert, AcceptRegister, AcceptReturn, DecodePeerInfo,
           DecodeReject, DecodeDisconnect, DecodeDiscovery, ReadEof,
           PostWelcome, PostFd, PostTryConnect, RemovePeer, Unwind,
           CloseReadEnd, CloseWriteEnd, DropPeers, HandleShutdown,
           HandleWelcome, HandleTryConnect, Accept, Serve, PollFails
  <2> QED
    BY <1>1, <1>3, <2>1, <2>2 DEF ConnectWedged
<1>7. CASE Destruct \/ UNCHANGED vars
  BY <1>1, <1>3, <1>7 DEF Destruct, vars, ConnectWedged
<1> QED
  BY <1>4, <1>5, <1>6, <1>7 DEF Next

LEMMA LoopWedgeStays ==
  ASSUME NodeInv, LoopWedged, [Next]_vars
  PROVE  LoopWedged'
<1> USE ThreadsAssumption DEF NodeInv, TypeOK, LockInv
<1>1. PICK w \in Users : pc[w] \in {"stop_send", "stop_join"}
  BY DEF LoopWedged
<1>2. loop \in {"accept_thread", "launch"}
  BY DEF LoopWedged
<1>3. threadMutex = w /\ tasksMutex = w /\ w # None
  BY <1>1
<1>4. ASSUME NEW u \in Users, UserCalls(u) \/ UserSteps(u)
      PROVE  LoopWedged'
  BY <1>1, <1>2, <1>3, <1>4
     DEF LoopWedged, UserCalls, UserSteps, StartEnter, StartSpawn,
         StartOverThread, StartBoot, StartReturn, CallStop, CallDestroy,
         StopLock, StopRunning, StopNotRunning, StopSend, StopJoin, AConnect,
         DirectConnect, Spawn, TasksOver, Joinable
<1>5. ASSUME NEW t \in Threads, ConnectSteps(t)
      PROVE  LoopWedged'
  BY <1>1, <1>2, <1>3, <1>5
     DEF LoopWedged, ConnectSteps, ConnectFails, Connected, ConnectInsert,
         ConnectRegister, ConnectEvent, ConnectData
<1>6. ~(LoopSteps \/ HandleEvents \/ Accept \/ Serve \/ PollFails)
  BY <1>2, <1>3
     DEF LoopSteps, HandleEvents, ReadPayload, Greet, TryConnect, Launch,
         AcceptInsert, AcceptRegister, AcceptReturn, DecodePeerInfo,
         DecodeReject, DecodeDisconnect, DecodeDiscovery, ReadEof, Receives,
         PostWelcome, PostFd, PostTryConnect, RemovePeer, Unwind,
         CloseReadEnd, CloseWriteEnd, DropPeers, HandleShutdown,
         HandleWelcome, HandleTryConnect, Accept, Serve, PollFails
<1>7. CASE Destruct \/ UNCHANGED vars
  BY <1>1, <1>2, <1>7 DEF Destruct, vars, LoopWedged
<1> QED
  BY <1>4, <1>5, <1>6, <1>7 DEF Next

LEMMA PipeWedgeStays ==
  ASSUME NodeInv, PipeWedged, [Next]_vars
  PROVE  PipeWedged'
<1> USE ThreadsAssumption DEF NodeInv, TypeOK, LockInv
<1>1. /\ pipeEnds = "open"
      /\ ~(Len(pipe) < PipeCap)
      /\ running
      /\ loop \in BodyPCs
  BY BoundsAssumption DEF PipeWedged, LoopInv
<1>2. ASSUME NEW u \in Users, UserCalls(u) \/ UserSteps(u)
      PROVE  PipeWedged'
  <2>1. UNCHANGED <<pipe, pipeEnds, loop>>
    BY <1>1, <1>2
       DEF UserCalls, UserSteps, StartEnter, StartSpawn, StartOverThread,
           StartBoot, StartReturn, CallStop, CallDestroy, StopLock,
           StopRunning, StopNotRunning, StopSend, StopJoin, AConnect,
           DirectConnect, Write, Joinable
  <2>2. \A t \in Threads :
          pc[t] \in {"conn_event", "conn_data"} => pc'[t] = pc[t]
    BY <1>2
       DEF UserCalls, UserSteps, StartEnter, StartSpawn, StartOverThread,
           StartBoot, StartReturn, CallStop, CallDestroy, StopLock,
           StopRunning, StopNotRunning, StopSend, StopJoin, AConnect,
           DirectConnect, Spawn
  <2>3. ASSUME NEW t \in Threads, pc[t] \in {"conn_event", "conn_data"},
               HoldsUpTasks(t), NEW v \in Users, pc[v] = "stop_tasks"
        PROVE  pc'[v] = "stop_tasks" /\ HoldsUpTasks(t)'
    <3>1. ~TasksOver
      BY <2>3 DEF HoldsUpTasks, TasksOver
    <3>2. HoldsUpTasks(t)'
      BY <2>3, HeldUpStay
    <3>3. pc'[v] = "stop_tasks"
      BY <1>2, <2>3, <3>1
         DEF UserCalls, UserSteps, StartEnter, StartSpawn, StartOverThread,
             StartBoot, StartReturn, CallStop, CallDestroy, StopLock,
             StopRunning, StopNotRunning, StopSend, StopJoin, AConnect,
             DirectConnect, Spawn
    <3> QED
      BY <3>2, <3>3
  <2> QED
    BY <2>1, <2>2, <2>3 DEF PipeWedged
<1>3. ASSUME NEW t \in Threads, ConnectSteps(t)
      PROVE  PipeWedged'
  <2>1. pc[t] \notin {"conn_event", "conn_data"}
    BY <1>1, <1>3
       DEF ConnectSteps, ConnectFails, Connected, ConnectInsert,
           ConnectRegister, ConnectEvent, ConnectData, Write
  <2>2. /\ UNCHANGED <<pipe, pipeEnds, loop>>
        /\ \A s \in Threads \ {t} : pc'[s] = pc[s]
        /\ \A u \in Users : pc[u] = "stop_tasks" => pc'[u] = "stop_tasks"
    BY <1>3, <2>1
       DEF ConnectSteps, ConnectFails, Connected, ConnectInsert,
           ConnectRegister, ConnectEvent, ConnectData
  <2>3. ASSUME NEW s \in Threads, pc[s] \in {"conn_event", "conn_data"},
               HoldsUpTasks(s)
        PROVE  HoldsUpTasks(s)'
    BY <2>3, HeldUpStay
  <2> QED
    BY <2>1, <2>2, <2>3 DEF PipeWedged
<1>4. ~(LoopSteps \/ HandleEvents \/ Accept \/ Serve \/ PollFails)
  <2>1. CASE loop \in {"post_welcome", "post_fd", "post_try"}
    BY <1>1, <2>1
       DEF LoopSteps, HandleEvents, ReadPayload, Greet, TryConnect, Launch,
           AcceptInsert, AcceptRegister, AcceptReturn, DecodePeerInfo,
           DecodeReject, DecodeDisconnect, DecodeDiscovery, ReadEof, Receives,
           PostWelcome, PostFd, PostTryConnect, RemovePeer, Unwind,
           CloseReadEnd, CloseWriteEnd, DropPeers, HandleShutdown,
           HandleWelcome, HandleTryConnect, Accept, Serve, PollFails, Write
  <2>2. CASE loop \notin {"post_welcome", "post_fd", "post_try"}
    <3>1. PICK t \in Threads :
            /\ pc[t] \in {"conn_event", "conn_data"}
            /\ \/ loop \in {"greet", "try", "accept_peers", "serve", "remove",
                            "remove_serving"}
               \/ /\ loop \in {"launch", "accept_thread"}
                  /\ \E u \in Users : pc[u] = "stop_tasks"
      BY <2>2 DEF PipeWedged
    <3>2. peersMutex # None
      BY <3>1
    <3>3. loop \in {"launch", "accept_thread"}
            => threadMutex # None /\ tasksMutex # None
      BY <3>1
    <3> QED
      BY <3>1, <3>2, <3>3
         DEF LoopSteps, HandleEvents, ReadPayload, Greet, TryConnect, Launch,
             AcceptInsert, AcceptRegister, AcceptReturn, DecodePeerInfo,
             DecodeReject, DecodeDisconnect, DecodeDiscovery, ReadEof,
             Receives, PostWelcome, PostFd, PostTryConnect, RemovePeer,
             Unwind, CloseReadEnd, CloseWriteEnd, DropPeers, HandleShutdown,
             HandleWelcome, HandleTryConnect, Accept, Serve, PollFails
  <2> QED
    BY <2>1, <2>2
<1>5. CASE Destruct \/ UNCHANGED vars
  BY <1>5 DEF Destruct, vars, PipeWedged, HoldsUpTasks
<1> QED
  BY <1>2, <1>3, <1>4, <1>5 DEF Next

(* A circular wait, once formed, is never resolved: stop() and start() that *)
(* are part of it never return (p2p.cpp:99, 116, 120, 133, 195).            *)
THEOREM WedgesLast == Spec => WedgeIsPermanent
<1>1. NodeInv /\ [Next]_vars => (Wedged => Wedged')
  BY ConnectWedgeStays, LoopWedgeStays, PipeWedgeStays DEF Wedged
<1>2. NodeInv /\ [Next]_vars => [Wedged => Wedged']_vars
  BY <1>1
<1> QED
  BY <1>2, NodeInvariant, PTL DEF Spec, WedgeIsPermanent

-----------------------------------------------------------------------------
(* Only start() and the destructor forget open sockets, and only those of   *)
(* peers inserted with no loop: connect() and newPeer hand theirs to mPeers *)
(* (p2p.cpp:174-193), removePeer and the end of the loop close what they    *)
(* take out (lines 232-234, 361-367).                                       *)
THEOREM OrphansAreOfStopped == Spec => OrphansOnlyOfStopped
<1> DEFINE Kept ==
      \/ Orphans' \subseteq Orphans
      \/ /\ loop = "none"
         /\ Orphans' \subseteq Orphans \cup peers
         /\ peers' = {}
         /\ fate = "dying" \/ \E u \in Users : pc[u] = "start_peers"
<1>1. ASSUME NodeInv, Next
      PROVE  Kept
  <2> USE <1>1, ThreadsAssumption
      DEF NodeInv, TypeOK, LockInv, SockInv, LoopFdInv, Orphans
  <2>1. ASSUME NEW u \in Users, UserCalls(u) \/ UserSteps(u)
        PROVE  Kept
    <3>1. CASE StartSpawn(u)
      BY <3>1 DEF StartSpawn, Erase, Joinable
    <3>2. CASE ~StartSpawn(u)
      BY <2>1, <3>2
         DEF UserCalls, UserSteps, StartEnter, StartOverThread, StartBoot,
             StartReturn, CallStop, CallDestroy, StopLock, StopRunning,
             StopNotRunning, StopSend, StopJoin, AConnect, DirectConnect
    <3> QED
      BY <3>1, <3>2
  <2>2. ASSUME NEW t \in Threads, ConnectSteps(t)
        PROVE  Kept
    <3>1. CASE ConnectFails(t) \/ ConnectRegister(t) \/ ConnectEvent(t)
      BY <3>1 DEF ConnectFails, ConnectRegister, ConnectEvent
    <3>2. CASE Connected(t)
      BY <3>2 DEF Connected
    <3>3. CASE ConnectInsert(t)
      BY <3>3 DEF ConnectInsert
    <3>4. CASE ConnectData(t)
      BY <3>4 DEF ConnectData
    <3> QED
      BY <2>2, <3>1, <3>2, <3>3, <3>4 DEF ConnectSteps
  <2>3. CASE Accept \/ AcceptInsert
    BY <2>3 DEF Accept, AcceptInsert
  <2>4. CASE RemovePeer
    BY <2>4 DEF RemovePeer, Erase, CloseSockets
  <2>5. CASE DropPeers
    BY <2>5 DEF DropPeers, Erase, CloseSockets
  <2>6. ASSUME UNCHANGED <<open, peers, sock>>, loop' # "accept_peers",
               loop # "accept_peers"
        PROVE  Kept
    BY <2>6
  <2>7. CASE LoopSteps /\ ~AcceptInsert /\ ~RemovePeer /\ ~DropPeers
    <3>1. UNCHANGED <<open, peers, sock>>
      BY <2>7
         DEF LoopSteps, ReadPayload, Greet, TryConnect, Launch,
             AcceptRegister, AcceptReturn, DecodePeerInfo, DecodeReject,
             DecodeDisconnect, DecodeDiscovery, ReadEof, PostWelcome, PostFd,
             PostTryConnect, Unwind, CloseReadEnd, CloseWriteEnd
    <3>2. loop # "accept_peers" /\ loop' # "accept_peers"
      BY <2>7
         DEF LoopSteps, ReadPayload, Greet, TryConnect, Launch,
             AcceptRegister, AcceptReturn, DecodePeerInfo, DecodeReject,
             DecodeDisconnect, DecodeDiscovery, ReadEof, Receives,
             PostWelcome, PostFd, PostTryConnect, Unwind, CloseReadEnd,
             CloseWriteEnd
    <3> QED
      BY <2>6, <3>1, <3>2
  <2>8. CASE HandleEvents \/ Serve \/ PollFails
    BY <2>8
       DEF HandleEvents, HandleShutdown, HandleWelcome, HandleTryConnect,
           Serve, PollFails
  <2>9. CASE Destruct
    BY <2>9 DEF Destruct, Erase, Joinable
  <2> QED
    BY <2>1, <2>2, <2>3, <2>4, <2>5, <2>7, <2>8, <2>9 DEF Next
<1>2. UNCHANGED vars => Orphans' = Orphans
  BY DEF vars, Orphans
<1>3. NodeInv /\ [Next]_vars => [Kept]_vars
  BY <1>1, <1>2
<1> QED
  BY <1>3, NodeInvariant, PTL DEF Spec, OrphansOnlyOfStopped

-----------------------------------------------------------------------------
(* The value of life, one case at a time. *)
LifeMeaning ==
  /\ life = "gone" <=> fate = "destroyed"
  /\ life = "dead" <=> fate = "terminated"
  /\ life = "down" <=> Up /\ loop = "none"
  /\ life = "up" <=>
       /\ Up /\ loop # "none"
       /\ running \/ \E u \in Users : pc[u] \in {"stop_send", "stop_join"}
  /\ life \in {"gone", "dead", "down", "up", "fallen"}

LEMMA LifeValue == TypeOK => LifeMeaning
<1> DEFINE Joining == \E u \in Users : pc[u] \in {"stop_send", "stop_join"}
<1> SUFFICES ASSUME TypeOK
             PROVE  LifeMeaning
  OBVIOUS
<1>1. fate \in {"alive", "dying", "destroyed", "terminated"}
  BY DEF TypeOK
<1>2. CASE fate = "destroyed"
  BY <1>2 DEF life, LifeMeaning
<1>3. CASE fate = "terminated"
  BY <1>3 DEF life, LifeMeaning
<1>4. CASE Up /\ loop = "none"
  BY <1>4 DEF life, LifeMeaning
<1>5. CASE Up /\ loop # "none" /\ (running \/ Joining)
  BY <1>5 DEF life, LifeMeaning
<1>6. CASE Up /\ loop # "none" /\ ~(running \/ Joining)
  BY <1>6 DEF life, LifeMeaning
<1> QED
  BY <1>1, <1>2, <1>3, <1>4, <1>5, <1>6

(* A step of the node is a step of its life cycle, or none. *)
LEMMA LifeStep ==
  ASSUME NodeInv, NodeInv', LifeMeaning, LifeMeaning', Next
  PROVE  Lifecycle!Next \/ UNCHANGED life
<1> DEFINE Joining == \E u \in Users : pc[u] \in {"stop_send", "stop_join"}
<1> USE ThreadsAssumption DEF NodeInv, TypeOK, LoopInv, LockInv
<1>1. CASE fate' = "terminated" /\ Up
  BY <1>1 DEF LifeMeaning, Lifecycle!Next, Lifecycle!Terminate
<1>2. CASE Destruct
  BY <1>2
     DEF LifeMeaning, Destruct, Joinable, Lifecycle!Next, Lifecycle!Destroy,
         Lifecycle!Terminate
<1>3. ASSUME NEW u \in Users, StartSpawn(u)
      PROVE  Lifecycle!Next
  BY <1>3
     DEF LifeMeaning, StartSpawn, Joinable, Lifecycle!Next, Lifecycle!Start
<1>4. ASSUME NEW u \in Users, StopJoin(u)
      PROVE  Lifecycle!Next
  BY <1>4 DEF LifeMeaning, StopJoin, Lifecycle!Next, Lifecycle!Stop
<1>5. ASSUME Up, Up', loop' = "none" <=> loop = "none",
             loop # "none" =>
               (running' \/ Joining' => running \/ Joining)
      PROVE  Lifecycle!Next \/ UNCHANGED life
  BY <1>5 DEF LifeMeaning, Lifecycle!Next, Lifecycle!Fall
<1>6. ASSUME NEW u \in Users, UserCalls(u) \/ UserSteps(u),
             ~StartSpawn(u), ~StopJoin(u), fate' # "terminated"
      PROVE  Lifecycle!Next \/ UNCHANGED life
  <2>1. Up /\ Up' /\ loop' = loop /\ running' = running
    BY <1>6
       DEF UserCalls, UserSteps, StartEnter, StartOverThread, StartBoot,
           StartReturn, CallStop, CallDestroy, StopLock, StopRunning,
           StopNotRunning, StopSend, AConnect, DirectConnect, Write
  <2>2. Joining' => running \/ Joining
    BY <1>6
       DEF UserCalls, UserSteps, StartEnter, StartOverThread, StartBoot,
           StartReturn, CallStop, CallDestroy, StopLock, StopRunning,
           StopNotRunning, StopSend, AConnect, DirectConnect, Spawn
  <2> QED
    BY <1>5, <2>1, <2>2
<1>7. ASSUME NEW t \in Threads, ConnectSteps(t), fate' # "terminated"
      PROVE  Lifecycle!Next \/ UNCHANGED life
  <2>1. Up /\ Up' /\ loop' = loop /\ running' = running
    BY <1>7
       DEF ConnectSteps, ConnectFails, Connected, ConnectInsert,
           ConnectRegister, ConnectEvent, ConnectData, Write
  <2>2. Joining' => Joining
    BY <1>7
       DEF ConnectSteps, ConnectFails, Connected, ConnectInsert,
           ConnectRegister, ConnectEvent, ConnectData
  <2> QED
    BY <1>5, <2>1, <2>2
<1>8. CASE /\ LoopSteps \/ HandleEvents \/ Accept \/ Serve \/ PollFails
           /\ fate' # "terminated"
  <2>1. Up /\ Up' /\ loop # "none" /\ loop' # "none"
    BY <1>8
       DEF LoopSteps, HandleEvents, ReadPayload, Greet, TryConnect, Launch,
           AcceptInsert, AcceptRegister, AcceptReturn, DecodePeerInfo,
           DecodeReject, DecodeDisconnect, DecodeDiscovery, ReadEof, Receives,
           PostWelcome, PostFd, PostTryConnect, RemovePeer, Unwind,
           CloseReadEnd, CloseWriteEnd, DropPeers, HandleShutdown,
           HandleWelcome, HandleTryConnect, Accept, Serve, PollFails, Write,
           SendMsg
  <2>2. (running' => running) /\ (Joining' => Joining)
    BY <1>8
       DEF LoopSteps, HandleEvents, ReadPayload, Greet, TryConnect, Launch,
           AcceptInsert, AcceptRegister, AcceptReturn, DecodePeerInfo,
           DecodeReject, DecodeDisconnect, DecodeDiscovery, ReadEof,
           PostWelcome, PostFd, PostTryConnect, RemovePeer, Unwind,
           CloseReadEnd, CloseWriteEnd, DropPeers, HandleShutdown,
           HandleWelcome, HandleTryConnect, Accept, Serve, PollFails, Spawn
  <2> QED
    BY <1>5, <2>1, <2>2
<1>9. Up
  BY DEF Next, Destruct, UserCalls, UserSteps, ConnectSteps, LoopSteps,
         HandleEvents, StartEnter, StartSpawn, StartOverThread, StartBoot,
         StartReturn, CallStop, CallDestroy, StopLock, StopRunning,
         StopNotRunning, StopSend, StopJoin, AConnect, DirectConnect,
         ConnectFails, Connected, ConnectInsert, ConnectRegister, ConnectEvent,
         ConnectData, ReadPayload, Greet, TryConnect, Launch, AcceptInsert,
         AcceptRegister, AcceptReturn, DecodePeerInfo, DecodeReject,
         DecodeDisconnect, DecodeDiscovery, ReadEof, Receives, PostWelcome,
         PostFd, PostTryConnect, RemovePeer, Unwind, CloseReadEnd,
         CloseWriteEnd, DropPeers, HandleShutdown, HandleWelcome,
         HandleTryConnect, Accept, Serve, PollFails
<1> QED
  BY <1>1, <1>2, <1>3, <1>4, <1>6, <1>7, <1>8, <1>9 DEF Next

(* The node implements its life cycle: once its loop has ended by itself,   *)
(* stop() does not join it (line 117), start() does not replace it (line    *)
(* 102) and the destructor does not return.                                 *)
THEOREM ImplementsLifecycle == Spec => LifecycleSpec
<1>1. Init => Lifecycle!Init
  BY DEF Init, Lifecycle!Init, life
<1>2. NodeInv => TypeOK
  BY DEF NodeInv
<1>3. /\ NodeInv /\ NodeInv' /\ LifeMeaning /\ LifeMeaning' /\ [Next]_vars
      => [Lifecycle!Next]_life
  <2>1. UNCHANGED vars => UNCHANGED life
    BY DEF vars, life
  <2> QED
    BY <2>1, LifeStep
<1> QED
  BY <1>1, <1>2, <1>3, LifeValue, NodeInvariant, PTL
     DEF Spec, LifecycleSpec, Lifecycle!Spec
=============================================================================
