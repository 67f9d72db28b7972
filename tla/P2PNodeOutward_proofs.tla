----------------------- MODULE P2PNodeOutward_proofs ------------------------
(* Proofs about a P2P node that only connects outwards: what its event pipe *)
(* holds, why its loop ends, and that it does not end its process.          *)
EXTENDS P2PNode_proofs, FiniteSetTheorems, SequenceTheorems

(* A node nobody connects to, whose users connect through aConnect() while  *)
(* it runs, and whose peers introduce themselves and hang up.  It is no     *)
(* stronger than it need be: TLC finds RecordsIntact or NeverDies violated  *)
(* as soon as one conjunct is dropped or peers may send another message.    *)
OutwardOnly ==
  /\ ~Inbound
  /\ ~EarlyConnect
  /\ DirectCallers = {}
  /\ Incoming \subseteq {"peer_info", "eof"}
  /\ ~EpollFails

(* A stop() waits in join: the last thing written was its SHUTDOWN. *)
Closing == \E u \in Users : pc[u] = "stop_join"

(* What the loop does in such a node, and never more. *)
LoopPlaces ==
  /\ loop \in {"none", "wait", "welcome", "greet", "serve", "remove"} \cup EndPCs
  /\ inbound = {}

(* mRunning says where the loop is: in its body, or on its way out for a    *)
(* stop() that waits.                                                       *)
LoopRuns ==
  /\ running <=> loop \in BodyPCs
  /\ running => pipeEnds = "open"
  /\ loop \in EndPCs => Closing
  /\ Closing => loop # "none"

(* Threads that will write to the pipe, while there is a loop to read it.   *)
WritersRun ==
  /\ \A t \in Tasks : pc[t] # "idle" => running
  /\ \A u \in Users :
       /\ pc[u] \in {"start_boot", "stop_send"} => running
       /\ pc[u] = "start_peers" =>
            loop = "none" /\ pipe = <<>> /\ pipeEnds = "open"

(* The destructor: it is in its stop(), or that stop() is over. *)
Dying ==
  /\ fate # "terminated"
  /\ fate = "dying" =>
       /\ \A u \in Users : pc[u] \in {"idle", "stop"} \cup StopPCs
       /\ running => \E u \in Users : pc[u] # "idle"

(* The next record is still to get its descriptor. *)
RecordOpen ==
  IF pipe = <<>> THEN loop = "welcome" ELSE pipe[Len(pipe)] = "PEER_WELCOME"

(* RecordsIntact, told by the pipe alone, and who makes it so: connectors   *)
(* keep mPeersMutex from the first write of a record to the second.         *)
PipeShape ==
  /\ pipe # <<>> => (pipe[1] \in Fds <=> loop = "welcome")
  /\ \A i \in 2..Len(pipe) : pipe[i] \in Fds <=> pipe[i - 1] = "PEER_WELCOME"
  /\ \A i \in 1..Len(pipe) : pipe[i] # "TRY_CONNECT"
  /\ RecordOpen <=> \E t \in Tasks : pc[t] = "conn_data"
  /\ loop \in BodyPCs =>
       \A i \in 1..Len(pipe) : pipe[i] = "SHUTDOWN" => Closing

(* The inductive invariant of an outward node. *)
OutwardInv ==
  /\ NodeInv
  /\ LoopPlaces /\ LoopRuns /\ WritersRun /\ Dying /\ PipeShape

USE DEF Threads, StartPCs, StopPCs, ConnPCs, ThreadPCs, BodyPCs, EndPCs,
        LoopPCs, callers, mutexes, loopVars, channel, marks, table, net,
        At, LoopAt, Goto, LoopGoto, OnlyGoto, OnlyLoopGoto, Free, Up

-----------------------------------------------------------------------------
(* No user of the node is itself in connect(). *)
LEMMA UsersPlaces ==
  ASSUME OutwardOnly, NodeInv
  PROVE  /\ \A u \in Users : pc[u] \in {"idle", "stop"} \cup StartPCs \cup StopPCs
         /\ \A t \in Tasks : pc[t] \in {"idle"} \cup ConnPCs
         /\ \A u \in Users : u \notin Tasks
BY NodeTypes, ThreadsAssumption DEF OutwardOnly, NodeInv, LockInv

(* A step that leaves the pipe, and what the threads owe it. *)
LEMMA PipeStays ==
  ASSUME PipeShape, pipe' = pipe,
         loop' = "welcome" <=> loop = "welcome",
         loop' \in BodyPCs => loop \in BodyPCs,
         \A t \in Tasks : pc'[t] = "conn_data" <=> pc[t] = "conn_data",
         Closing => Closing'
  PROVE  PipeShape'
BY DEF PipeShape, RecordOpen

(* A step that writes a token. *)
LEMMA PipeGrows ==
  ASSUME NodeInv, PipeShape, NEW tok \in {"SHUTDOWN", "PEER_WELCOME"} \cup Fds,
         pipe' = Append(pipe, tok), loop' = loop,
         tok \in Fds <=> \E t \in Tasks : pc[t] = "conn_data",
         tok = "PEER_WELCOME" <=> \E t \in Tasks : pc'[t] = "conn_data",
         tok = "SHUTDOWN" => Closing',
         Closing => Closing'
  PROVE  PipeShape'
<1>1. /\ pipe \in Seq(Event \cup Fds) /\ Len(pipe) \in Nat
      /\ pipe' # <<>> /\ Len(pipe') = Len(pipe) + 1
      /\ \A i \in 1..Len(pipe) : pipe'[i] = pipe[i]
      /\ pipe'[Len(pipe) + 1] = tok
      /\ pipe = <<>> <=> Len(pipe) = 0
  BY NodeTypes DEF Event
<1>2. tok \in Fds <=> RecordOpen
  BY DEF PipeShape
<1>3. tok # "TRY_CONNECT"
  BY TokensAssumption DEF Event
<1>4. pipe'[1] \in Fds <=> loop = "welcome"
  BY <1>1, <1>2 DEF PipeShape, RecordOpen
<1>5. ASSUME NEW i \in 2..Len(pipe')
      PROVE  pipe'[i] \in Fds <=> pipe'[i - 1] = "PEER_WELCOME"
  <2>1. CASE i \in 2..Len(pipe)
    <3>1. pipe'[i] = pipe[i] /\ pipe'[i - 1] = pipe[i - 1]
      BY <1>1, <2>1
    <3>. QED
      BY <2>1, <3>1 DEF PipeShape
  <2>2. CASE i = Len(pipe) + 1
    <3>1. pipe # <<>> /\ pipe'[i - 1] = pipe[Len(pipe)]
      BY <1>1, <1>5, <2>2
    <3>. QED
      BY <1>1, <1>2, <2>2, <3>1 DEF RecordOpen
  <2>. QED
    BY <1>1, <2>1, <2>2
<1>6. \A i \in 1..Len(pipe') :
        (pipe'[i] = pipe[i] /\ i \in 1..Len(pipe)) \/ pipe'[i] = tok
  BY <1>1
<1>7. RecordOpen' <=> tok = "PEER_WELCOME"
  BY <1>1 DEF RecordOpen
<1>. QED
  BY <1>1, <1>3, <1>4, <1>5, <1>6, <1>7 DEF PipeShape

-----------------------------------------------------------------------------
(* Steps of the users *)

LEMMA InitOutward == Init => OutwardInv
<1>. SUFFICES ASSUME Init PROVE OutwardInv
  OBVIOUS
<1>1. /\ \A t \in Threads : pc[t] = "idle"
      /\ loop = "none" /\ running = FALSE /\ inbound = {} /\ fate = "alive"
      /\ pipe = <<>> /\ Len(pipe) = 0
  BY DEF Init
<1>2. PipeShape
  BY <1>1 DEF PipeShape, RecordOpen
<1>3. LoopPlaces /\ LoopRuns /\ WritersRun /\ Dying
  BY <1>1 DEF LoopPlaces, LoopRuns, WritersRun, Dying, Closing
<1>. QED
  BY <1>2, <1>3, InitInv DEF OutwardInv

(* start(). *)
LEMMA StartOutward ==
  ASSUME OutwardOnly, OutwardInv, NEW u \in Users,
         \/ StartEnter(u) \/ StartSpawn(u) \/ StartOverThread(u)
         \/ StartBoot(u) \/ StartReturn(u)
  PROVE  LoopPlaces' /\ LoopRuns' /\ WritersRun' /\ Dying' /\ PipeShape'
<1>. USE DEF LoopPlaces, LoopRuns, WritersRun, Dying, Closing
<1>1. /\ NodeInv /\ LoopPlaces /\ LoopRuns /\ WritersRun /\ Dying /\ PipeShape
      /\ pc \in [Threads -> ThreadPCs]
      /\ \A v \in Users : v \notin Tasks /\ v \in Threads
  BY NodeTypes, UsersPlaces DEF OutwardInv
<1>2. ~StartOverThread(u)
  BY <1>1 DEF StartOverThread, Joinable
<1>3. CASE StartEnter(u)
  <2>1. /\ ~running /\ fate = "alive" /\ UNCHANGED <<loop, running, inbound, fate>>
        /\ pc'[u] = "start_peers" /\ pipe' = <<>> /\ pipeEnds' = "open"
        /\ \A t \in Threads \ {u} : pc'[t] = pc[t]
        /\ threadMutex = None
    BY <1>1, <1>3 DEF StartEnter
  <2>2. \A v \in Users : pc[v] \notin StartPCs \cup StopPCs
    BY <1>1, <2>1, ThreadsAssumption DEF NodeInv, LockInv
  <2>3. loop = "none"
    BY <1>1, <2>1, <2>2
  <2>4. \A t \in Tasks : pc'[t] = "idle"
    BY <1>1, <2>1
  <2>5. LoopPlaces' /\ LoopRuns' /\ WritersRun' /\ Dying'
    BY <1>1, <2>1, <2>2, <2>3, <2>4
  <2>6. PipeShape'
    BY <2>1, <2>3, <2>4 DEF PipeShape, RecordOpen
  <2>. QED
    BY <2>5, <2>6
<1>4. CASE StartSpawn(u)
  <2>1. /\ pc[u] = "start_peers" /\ running' = TRUE /\ loop' = "wait"
        /\ pc'[u] = "start_boot" /\ UNCHANGED <<pipe, pipeEnds, fate>>
        /\ \A t \in Threads \ {u} : pc'[t] = pc[t]
        /\ inbound' = {}
        /\ loop = "none" /\ pipe = <<>> /\ pipeEnds = "open"
    BY <1>1, <1>4 DEF StartSpawn, Erase
  <2>2. \A v \in Users \ {u} : pc[v] \notin StartPCs \cup StopPCs
    BY <1>1, <2>1, OwnersExclude
  <2>3. \A t \in Tasks : pc'[t] = "idle"
    BY <1>1, <2>1
  <2>4. LoopPlaces' /\ LoopRuns' /\ WritersRun' /\ Dying'
    BY <1>1, <2>1, <2>2, <2>3
  <2>5. PipeShape'
    BY <2>1, <2>3 DEF PipeShape, RecordOpen
  <2>. QED
    BY <2>4, <2>5
<1>5. CASE StartBoot(u)
  <2>1. /\ pc[u] = "start_boot" /\ running
        /\ UNCHANGED <<loop, running, inbound, pipe, pipeEnds, fate>>
        /\ \A v \in Users : pc'[v] = pc[v]
        /\ \A t \in Tasks : pc'[t] = pc[t] \/ (pc[t] = "idle" /\ pc'[t] = "connect")
    BY <1>1, <1>5 DEF StartBoot, Spawn
  <2>2. LoopPlaces' /\ LoopRuns' /\ WritersRun' /\ Dying'
    BY <1>1, <2>1
  <2>3. PipeShape'
    BY <1>1, <2>1, PipeStays
  <2>. QED
    BY <2>2, <2>3
<1>6. CASE StartReturn(u)
  <2>1. /\ pc[u] = "start_boot" /\ pc'[u] = "idle"
        /\ UNCHANGED <<loop, running, inbound, pipe, pipeEnds, fate>>
        /\ \A t \in Threads \ {u} : pc'[t] = pc[t]
    BY <1>1, <1>6 DEF StartReturn
  <2>2. LoopPlaces' /\ LoopRuns' /\ WritersRun' /\ Dying'
    BY <1>1, <2>1
  <2>3. PipeShape'
    BY <1>1, <2>1, PipeStays
  <2>. QED
    BY <2>2, <2>3
<1>. QED
  BY <1>2, <1>3, <1>4, <1>5, <1>6

(* stop(), and the destructor. *)
LEMMA StopOutward ==
  ASSUME OutwardOnly, OutwardInv, NEW u \in Users,
         \/ CallStop(u) \/ CallDestroy(u) \/ StopLock(u) \/ StopRunning(u)
         \/ StopNotRunning(u) \/ StopSend(u) \/ StopJoin(u)
  PROVE  LoopPlaces' /\ LoopRuns' /\ WritersRun' /\ Dying' /\ PipeShape'
<1>. USE DEF LoopPlaces, LoopRuns, WritersRun, Dying, Closing
<1>1. /\ NodeInv /\ LoopPlaces /\ LoopRuns /\ WritersRun /\ Dying /\ PipeShape
      /\ pc \in [Threads -> ThreadPCs]
      /\ \A v \in Users : v \notin Tasks /\ v \in Threads
  BY NodeTypes, UsersPlaces DEF OutwardInv
<1>2. CASE CallStop(u) \/ CallDestroy(u) \/ StopLock(u)
  <2>1. /\ UNCHANGED <<loop, running, inbound, pipe, pipeEnds>>
        /\ \A t \in Threads \ {u} : pc'[t] = pc[t]
        /\ \/ pc[u] = "idle" /\ pc'[u] = "stop"
           \/ pc[u] = "stop" /\ pc'[u] = "stop_tasks"
        /\ \/ fate' = fate
           \/ fate' = "dying" /\ \A v \in Users : pc[v] = "idle"
    BY <1>1, <1>2 DEF CallStop, CallDestroy, StopLock
  <2>2. LoopPlaces' /\ LoopRuns' /\ WritersRun'
    BY <1>1, <2>1
  <2>3. Dying'
    BY <1>1, <2>1
  <2>4. PipeShape'
    BY <1>1, <2>1, PipeStays
  <2>. QED
    BY <2>2, <2>3, <2>4
<1>3. CASE StopRunning(u) \/ StopNotRunning(u)
  <2>1. /\ UNCHANGED <<loop, running, inbound, pipe, pipeEnds, fate>>
        /\ \A t \in Threads \ {u} : pc'[t] = pc[t]
        /\ \/ running /\ pc'[u] = "stop_send"
           \/ ~running /\ pc'[u] = "idle"
        /\ pc[u] = "stop_tasks"
    BY <1>1, <1>3 DEF StopRunning, StopNotRunning
  <2>2. LoopPlaces' /\ LoopRuns' /\ WritersRun' /\ Dying'
    BY <1>1, <2>1
  <2>3. PipeShape'
    BY <1>1, <2>1, PipeStays
  <2>. QED
    BY <2>2, <2>3
<1>4. CASE StopSend(u)
  <2>1. /\ pc[u] = "stop_send" /\ pc'[u] = "stop_join"
        /\ UNCHANGED <<loop, running, inbound, pipeEnds>>
        /\ \A t \in Threads \ {u} : pc'[t] = pc[t]
        /\ running /\ pipeEnds = "open"
    BY <1>1, <1>4 DEF StopSend, Write
  <2>2. pipe' = Append(pipe, "SHUTDOWN") /\ fate' = fate
    BY <1>4, <2>1 DEF StopSend, Write
  <2>3. \A t \in Tasks : pc[t] = "idle" /\ pc'[t] = "idle"
    BY <1>1, <2>1, StopExcludes
  <2>4. LoopPlaces' /\ LoopRuns' /\ WritersRun' /\ Dying'
    <3>1. \A v \in Users \ {u} : pc[v] \notin StartPCs \cup StopPCs
      BY <1>1, <2>1, OwnersExclude
    <3>. QED
      BY <1>1, <2>1, <2>2, <2>3, <3>1
  <2>5. "SHUTDOWN" \notin Fds
    BY TokensAssumption DEF Event
  <2>6. PipeShape'
    BY <1>1, <2>1, <2>2, <2>3, <2>5, PipeGrows
  <2>. QED
    BY <2>4, <2>6
<1>5. CASE StopJoin(u)
  <2>1. /\ pc[u] = "stop_join" /\ pc'[u] = "idle"
        /\ loop = "exit" /\ loop' = "none" /\ running' = FALSE
        /\ UNCHANGED <<inbound, pipe, pipeEnds, fate>>
        /\ \A t \in Threads \ {u} : pc'[t] = pc[t]
    BY <1>1, <1>5 DEF StopJoin
  <2>2. /\ \A v \in Users \ {u} : pc[v] \notin StartPCs \cup StopPCs
        /\ \A t \in Tasks : pc[t] = "idle" /\ pc'[t] = "idle"
    BY <1>1, <2>1, OwnersExclude, StopExcludes
  <2>3. LoopPlaces' /\ LoopRuns' /\ WritersRun' /\ Dying'
    BY <1>1, <2>1, <2>2
  <2>4. PipeShape'
    BY <1>1, <2>1, <2>2 DEF PipeShape, RecordOpen
  <2>. QED
    BY <2>3, <2>4
<1>. QED
  BY <1>2, <1>3, <1>4, <1>5

(* The members after the destructor's stop(): no thread is left. *)
LEMMA DestructOutward ==
  ASSUME OutwardOnly, OutwardInv, Destruct
  PROVE  LoopPlaces' /\ LoopRuns' /\ WritersRun' /\ Dying' /\ PipeShape'
<1>. USE DEF LoopPlaces, LoopRuns, WritersRun, Dying, Closing
<1>1. /\ LoopPlaces /\ LoopRuns /\ WritersRun /\ Dying /\ PipeShape
      /\ UNCHANGED <<pc, loop, running, pipe, pipeEnds>>
      /\ inbound' = {}
      /\ \A u \in Users : pc[u] = "idle"
      /\ fate = "dying"
  BY DEF OutwardInv, Destruct, Erase
<1>2. loop = "none" /\ fate' = "destroyed"
  BY <1>1 DEF Destruct, Joinable
<1>3. PipeShape'
  BY <1>1, PipeStays
<1>. QED
  BY <1>1, <1>2, <1>3

-----------------------------------------------------------------------------
(* Steps of connect() *)

(* aConnect(); users make no connection themselves. *)
LEMMA CallOutward ==
  ASSUME OutwardOnly, OutwardInv, NEW u \in Users,
         AConnect(u) \/ DirectConnect(u)
  PROVE  LoopPlaces' /\ LoopRuns' /\ WritersRun' /\ Dying' /\ PipeShape'
<1>. USE DEF LoopPlaces, LoopRuns, WritersRun, Dying, Closing
<1>1. /\ NodeInv /\ LoopPlaces /\ LoopRuns /\ WritersRun /\ Dying /\ PipeShape
      /\ pc \in [Threads -> ThreadPCs]
      /\ \A v \in Users : v \notin Tasks /\ v \in Threads
  BY NodeTypes, UsersPlaces DEF OutwardInv
<1>2. AConnect(u)
  BY DEF OutwardOnly, DirectConnect
<1>3. /\ running
      /\ UNCHANGED <<loop, running, inbound, pipe, pipeEnds, fate>>
      /\ \A v \in Users : pc'[v] = pc[v]
      /\ \A t \in Tasks : pc'[t] = pc[t] \/ (pc[t] = "idle" /\ pc'[t] = "connect")
  BY <1>1, <1>2 DEF AConnect, Spawn, OutwardOnly
<1>4. PipeShape'
  BY <1>1, <1>3, PipeStays
<1>. QED
  BY <1>1, <1>3, <1>4

LEMMA ConnectOutward ==
  ASSUME OutwardOnly, OutwardInv, NEW t \in Threads, ConnectSteps(t)
  PROVE  LoopPlaces' /\ LoopRuns' /\ WritersRun' /\ Dying' /\ PipeShape'
<1>. USE DEF LoopPlaces, LoopRuns, WritersRun, Dying, Closing
<1>1. /\ NodeInv /\ LoopPlaces /\ LoopRuns /\ WritersRun /\ Dying /\ PipeShape
      /\ pc \in [Threads -> ThreadPCs]
      /\ \A v \in Users : v \notin Tasks /\ v \in Threads
  BY NodeTypes, UsersPlaces DEF OutwardInv
<1>2. pc[t] \in ConnPCs
  BY DEF ConnectSteps, ConnectFails, Connected, ConnectInsert, ConnectRegister,
         ConnectEvent, ConnectData
<1>3. t \in Tasks /\ running /\ pipeEnds = "open"
  BY <1>1, <1>2, UsersPlaces
<1>4. /\ UNCHANGED <<loop, running, inbound, pipeEnds>>
      /\ \A s \in Threads \ {t} : pc'[s] = pc[s]
      /\ pc'[t] \in {"idle"} \cup ConnPCs
  BY <1>1 DEF ConnectSteps, ConnectFails, Connected, ConnectInsert,
              ConnectRegister, ConnectEvent, ConnectData, Write
<1>5. CASE ConnectEvent(t)
  <2>1. /\ pc[t] = "conn_event" /\ pc'[t] = "conn_data"
        /\ pipe' = Append(pipe, "PEER_WELCOME") /\ fate' = fate
    BY <1>1, <1>3, <1>5 DEF ConnectEvent, Write
  <2>2. ~\E s \in Tasks : pc[s] = "conn_data"
    BY <1>1, <1>3, <2>1, ConnectorsExclude
  <2>3. "PEER_WELCOME" \notin Fds
    BY TokensAssumption DEF Event
  <2>4. PipeShape'
    BY <1>1, <1>3, <1>4, <2>1, <2>2, <2>3, PipeGrows
  <2>. QED
    BY <1>1, <1>3, <1>4, <2>1, <2>4
<1>6. CASE ConnectData(t)
  <2>1. /\ pc[t] = "conn_data" /\ pc'[t] = "idle"
        /\ pipe' = Append(pipe, sock[t]) /\ fate' = fate
    BY <1>1, <1>3, <1>6 DEF ConnectData, Write
  <2>2. sock[t] \in Fds
    BY <1>1, <2>1, NodeTypes DEF NodeInv, SockInv
  <2>3. ~\E s \in Tasks : pc'[s] = "conn_data"
    BY <1>1, <1>3, <1>4, <2>1, ConnectorsExclude
  <2>4. sock[t] \notin {"SHUTDOWN", "PEER_WELCOME"}
    BY <2>2, TokensAssumption DEF Event
  <2>5. PipeShape'
    BY <1>1, <1>3, <1>4, <2>1, <2>2, <2>3, <2>4, PipeGrows
  <2>. QED
    BY <1>1, <1>3, <1>4, <2>1, <2>5
<1>7. CASE ~ConnectEvent(t) /\ ~ConnectData(t)
  <2>1. /\ pc[t] # "conn_data" /\ pc'[t] # "conn_data"
        /\ UNCHANGED <<pipe, fate>>
    BY <1>1, <1>7 DEF ConnectSteps, ConnectFails, Connected, ConnectInsert,
                      ConnectRegister
  <2>2. PipeShape'
    BY <1>1, <1>3, <1>4, <2>1, PipeStays
  <2>. QED
    BY <1>1, <1>3, <1>4, <2>1, <2>2
<1>. QED
  BY <1>5, <1>6, <1>7

-----------------------------------------------------------------------------
(* Steps of the loop *)

(* A descriptor at the front is read whole, and nothing with it. *)
LEMMA PayloadAlone ==
  ASSUME NEW s \in Seq(Event \cup Fds), s # <<>>, s[1] \in Fds
  PROVE  AfterPayload(s) = Tail(s)
<1>1. Len(s) \in Nat \ {0} /\ s = [i \in 1..Len(s) |-> s[i]]
  BY EmptySeq, LenProperties
<1>2. s[1] \notin Event
  BY TokensAssumption
<1>3. {k \in 1..Len(s) : \A i \in 1..k : s[i] \in Event} = {}
  BY <1>1, <1>2
<1>4. EventRun(s) = 0
  BY <1>3, FS_EmptySet DEF EventRun
<1>5. EventRun(s) < 4 /\ EventRun(s) < Len(s)
  BY <1>1, <1>4
<1>. DEFINE rest == [i \in 1..(Len(s) - 1) |->
                       IF i <= EventRun(s) THEN "SHUTDOWN" ELSE s[i + 1]]
<1>6. AfterPayload(s) = rest
  BY <1>5, Zenon DEF AfterPayload
<1>7. /\ rest \in Seq(Event \cup Fds) /\ Len(rest) = Len(s) - 1
      /\ \A i \in 1..Len(rest) : rest[i] = s[i + 1]
  BY <1>1, <1>4
<1>8. /\ Tail(s) \in Seq(Event \cup Fds) /\ Len(Tail(s)) = Len(s) - 1
      /\ \A i \in 1..Len(Tail(s)) : Tail(s)[i] = s[i + 1]
  BY HeadTailProperties
<1>9. \A i \in 1..Len(rest) : rest[i] = Tail(s)[i]
  BY <1>7, <1>8
<1>10. rest = Tail(s)
  <2>. HIDE DEF rest
  <2>. QED
    BY <1>7, <1>8, <1>9, SeqEqual
<1>. QED
  BY <1>6, <1>10

(* A step of the loop that reads a token. *)
LEMMA PipeShrinks ==
  ASSUME NodeInv, PipeShape, pipe # <<>>, pipe' = Tail(pipe), pc' = pc,
         loop \in BodyPCs,
         loop' = "welcome" <=> pipe[1] = "PEER_WELCOME"
  PROVE  PipeShape'
<1>1. /\ pipe \in Seq(Event \cup Fds) /\ Len(pipe) \in Nat \ {0}
      /\ Len(pipe') = Len(pipe) - 1
      /\ pipe' \in Seq(Event \cup Fds)
      /\ \A i \in 1..Len(pipe') : pipe'[i] = pipe[i + 1]
      /\ pipe' = <<>> <=> Len(pipe) = 1
  <2>1. pipe \in Seq(Event \cup Fds) /\ Len(pipe) \in Nat \ {0}
    BY NodeTypes, EmptySeq, LenProperties
  <2>2. /\ pipe' \in Seq(Event \cup Fds) /\ Len(pipe') = Len(pipe) - 1
        /\ \A i \in 1..Len(pipe') : pipe'[i] = pipe[i + 1]
    BY <2>1, HeadTailProperties
  <2>3. pipe' = <<>> <=> Len(pipe') = 0
    BY <2>2, EmptySeq
  <2>4. Len(pipe') = 0 <=> Len(pipe) = 1
    BY <2>1, <2>2
  <2>. QED
    BY <2>1, <2>2, <2>3, <2>4
<1>2. \A i \in 2..Len(pipe) : pipe[i] \in Fds <=> pipe[i - 1] = "PEER_WELCOME"
  BY DEF PipeShape
<1>3. pipe' # <<>> => (pipe'[1] \in Fds <=> loop' = "welcome")
  <2>1. HAVE pipe' # <<>>
  <2>2. 2 \in 2..Len(pipe) /\ 1 \in 1..Len(pipe')
    BY <1>1, <2>1
  <2>. QED
    BY <1>1, <1>2, <2>2
<1>4. ASSUME NEW i \in 2..Len(pipe')
      PROVE  pipe'[i] \in Fds <=> pipe'[i - 1] = "PEER_WELCOME"
  <2>1. /\ i + 1 \in 2..Len(pipe) /\ i \in 1..Len(pipe')
        /\ i - 1 \in 1..Len(pipe') /\ (i - 1) + 1 = i /\ (i + 1) - 1 = i
    BY <1>1
  <2>. QED
    BY <1>1, <1>2, <2>1
<1>5. \A i \in 1..Len(pipe') : i + 1 \in 1..Len(pipe) /\ pipe'[i] = pipe[i + 1]
  BY <1>1
<1>6. RecordOpen' <=> RecordOpen
  <2>1. CASE Len(pipe) = 1
    BY <1>1, <2>1 DEF RecordOpen
  <2>2. CASE Len(pipe) # 1
    <3>1. pipe' # <<>> /\ pipe'[Len(pipe')] = pipe[Len(pipe)]
      BY <1>1, <2>2
    <3>. QED
      BY <3>1 DEF RecordOpen
  <2>. QED
    BY <2>1, <2>2
<1>. QED
  BY <1>3, <1>4, <1>5, <1>6 DEF PipeShape, Closing

LEMMA EventOutward ==
  ASSUME OutwardOnly, OutwardInv,
         \/ HandleShutdown \/ HandleWelcome \/ HandleTryConnect \/ ReadPayload
         \/ Greet
  PROVE  LoopPlaces' /\ LoopRuns' /\ WritersRun' /\ Dying' /\ PipeShape'
<1>. USE DEF LoopPlaces, LoopRuns, WritersRun, Dying, Closing
<1>1. /\ NodeInv /\ LoopPlaces /\ LoopRuns /\ WritersRun /\ Dying /\ PipeShape
      /\ pipe \in Seq(Event \cup Fds)
      /\ pipe # <<>> => Head(pipe) = pipe[1] /\ 1 \in 1..Len(pipe)
  BY NodeTypes DEF OutwardInv
<1>2. CASE HandleShutdown
  <2>1. /\ loop = "wait" /\ pipe # <<>> /\ pipe' = Tail(pipe)
        /\ pipe[1] \notin {"PEER_WELCOME", "TRY_CONNECT"}
        /\ UNCHANGED <<pc, inbound, pipeEnds, fate>>
        /\ running' = FALSE /\ loop' = "close_read"
    BY <1>1, <1>2 DEF HandleShutdown
  <2>2. pipe[1] = "SHUTDOWN"
    BY <1>1, <2>1 DEF PipeShape, Event
  <2>3. PICK w \in Users : pc[w] = "stop_join"
    BY <1>1, <2>1, <2>2 DEF PipeShape
  <2>4. /\ \A t \in Tasks : pc[t] = "idle"
        /\ \A v \in Users : pc[v] \in StartPCs \cup StopPCs => v = w
    BY <1>1, <2>3, OwnersExclude, StopExcludes
  <2>5. PipeShape'
    BY <1>1, <2>1, PipeShrinks
  <2>. QED
    BY <1>1, <2>1, <2>3, <2>4, <2>5
<1>3. CASE HandleWelcome
  <2>1. /\ loop = "wait" /\ pipe # <<>> /\ pipe' = Tail(pipe)
        /\ pipe[1] = "PEER_WELCOME"
        /\ UNCHANGED <<pc, inbound, running, pipeEnds, fate>>
        /\ loop' = "welcome"
    BY <1>1, <1>3 DEF HandleWelcome
  <2>2. PipeShape'
    BY <1>1, <2>1, PipeShrinks
  <2>. QED
    BY <1>1, <2>1, <2>2
<1>4. ~HandleTryConnect
  BY <1>1 DEF HandleTryConnect, PipeShape
<1>5. CASE ReadPayload
  <2>1. /\ loop = "welcome" /\ pipe # <<>> /\ pipe' = AfterPayload(pipe)
        /\ UNCHANGED <<pc, inbound, running, pipeEnds, fate>>
        /\ loop' = "greet"
    BY <1>1, <1>5 DEF ReadPayload
  <2>2. pipe[1] \in Fds
    BY <1>1, <2>1 DEF PipeShape
  <2>3. pipe' = Tail(pipe) /\ pipe[1] # "PEER_WELCOME"
    BY <1>1, <2>1, <2>2, PayloadAlone, TokensAssumption DEF Event
  <2>4. PipeShape'
    BY <1>1, <2>1, <2>3, PipeShrinks
  <2>. QED
    BY <1>1, <2>1, <2>4
<1>6. CASE Greet
  <2>1. /\ loop = "greet" /\ loop' = "wait"
        /\ UNCHANGED <<pc, pipe, inbound, running, pipeEnds, fate>>
    BY <1>6 DEF Greet, SendMsg, OutwardOnly
  <2>2. PipeShape'
    BY <1>1, <2>1, PipeStays
  <2>. QED
    BY <1>1, <2>1, <2>2
<1>. QED
  BY <1>2, <1>3, <1>4, <1>5, <1>6

(* What the loop never does in such a node. *)
LEMMA NotOutward ==
  ASSUME OutwardOnly, OutwardInv
  PROVE  /\ ~TryConnect /\ ~Launch /\ ~PollFails
         /\ ~Accept /\ ~AcceptInsert /\ ~AcceptRegister /\ ~AcceptReturn
         /\ ~DecodeReject /\ ~DecodeDisconnect /\ ~DecodeDiscovery
         /\ ~PostWelcome /\ ~PostFd /\ ~PostTryConnect /\ ~Unwind
BY DEF OutwardOnly, OutwardInv, LoopPlaces, TryConnect, Launch, PollFails,
       Accept, AcceptInsert, AcceptRegister, AcceptReturn, DecodeReject,
       DecodeDisconnect, DecodeDiscovery, Receives, PostWelcome, PostFd,
       PostTryConnect, Unwind

LEMMA LoopOutward ==
  ASSUME OutwardOnly, OutwardInv,
         \/ Serve \/ DecodePeerInfo \/ ReadEof \/ RemovePeer
         \/ CloseReadEnd \/ CloseWriteEnd \/ DropPeers
  PROVE  LoopPlaces' /\ LoopRuns' /\ WritersRun' /\ Dying' /\ PipeShape'
<1>. USE DEF LoopPlaces, LoopRuns, WritersRun, Dying, Closing
<1>1. LoopPlaces /\ LoopRuns /\ WritersRun /\ Dying /\ PipeShape
  BY DEF OutwardInv
<1>2. CASE Serve \/ DecodePeerInfo \/ ReadEof \/ RemovePeer
  <2>1. /\ loop \in {"wait", "serve", "remove"}
        /\ loop' \in {"wait", "serve", "remove"}
        /\ UNCHANGED <<pc, pipe, running, pipeEnds, fate>>
        /\ inbound' = {}
    BY <1>1, <1>2 DEF Serve, DecodePeerInfo, ReadEof, Receives, RemovePeer, Erase
  <2>2. PipeShape'
    BY <1>1, <2>1, PipeStays
  <2>. QED
    BY <1>1, <2>1, <2>2
<1>3. CASE CloseReadEnd \/ CloseWriteEnd \/ DropPeers
  <2>1. /\ loop \in EndPCs /\ loop' \in EndPCs
        /\ UNCHANGED <<pc, running, fate>>
        /\ inbound' = {}
        /\ pipe' = <<>> \/ pipe' = pipe
    BY <1>1, <1>3 DEF CloseReadEnd, CloseWriteEnd, DropPeers, Erase
  <2>2. ~running /\ \A t \in Tasks : pc[t] = "idle" /\ pc'[t] = "idle"
    BY <1>1, <2>1
  <2>3. PipeShape'
    <3>1. CASE pipe' = <<>>
      BY <2>1, <2>2, <3>1 DEF PipeShape, RecordOpen
    <3>2. CASE pipe' = pipe
      BY <1>1, <2>1, <2>2, <3>2, PipeStays
    <3>. QED
      BY <2>1, <3>1, <3>2
  <2>4. \A u \in Users : pc[u] # "start_peers"
    BY <1>1, <2>1
  <2>. QED
    BY <1>1, <2>1, <2>2, <2>3, <2>4
<1>. QED
  BY <1>2, <1>3

-----------------------------------------------------------------------------
LEMMA NextOutward ==
  ASSUME OutwardOnly, OutwardInv, [Next]_vars
  PROVE  OutwardInv'
<1>1. NodeInv'
  BY NextKeeps DEF OutwardInv
<1>. SUFFICES LoopPlaces' /\ LoopRuns' /\ WritersRun' /\ Dying' /\ PipeShape'
  BY <1>1 DEF OutwardInv
<1>2. ASSUME NEW u \in Users, UserCalls(u) \/ UserSteps(u)
      PROVE  LoopPlaces' /\ LoopRuns' /\ WritersRun' /\ Dying' /\ PipeShape'
  BY <1>2, StartOutward, StopOutward, CallOutward DEF UserCalls, UserSteps
<1>3. ASSUME NEW t \in Threads, ConnectSteps(t)
      PROVE  LoopPlaces' /\ LoopRuns' /\ WritersRun' /\ Dying' /\ PipeShape'
  BY <1>3, ConnectOutward
<1>4. CASE Destruct
  BY <1>4, DestructOutward
<1>5. CASE LoopSteps \/ HandleEvents \/ Accept \/ Serve \/ PollFails
  BY <1>5, EventOutward, LoopOutward, NotOutward DEF LoopSteps, HandleEvents
<1>6. CASE UNCHANGED vars
  BY <1>6, PipeStays
  DEF vars, OutwardInv, LoopPlaces, LoopRuns, WritersRun, Dying, Closing
<1>. QED
  BY <1>2, <1>3, <1>4, <1>5, <1>6 DEF Next

(* The inductive invariant holds in every reachable state of a node that    *)
(* only connects outwards.                                                  *)
THEOREM OutwardInvariant ==
  ASSUME OutwardOnly
  PROVE  Spec => []OutwardInv
<1>1. Init => OutwardInv
  BY InitOutward
<1>2. OutwardInv /\ [Next]_vars => OutwardInv'
  BY NextOutward
<1>. QED
  BY <1>1, <1>2, PTL DEF Spec

(* What the loop reads are whole records, although several threads write    *)
(* theirs in two pieces and no mutex is named for the pipe: RecordsIntact   *)
(* (p2p.cpp:175-180, 287-289).                                              *)
THEOREM RecordsStayIntact ==
  ASSUME OutwardOnly
  PROVE  Spec => []RecordsIntact
<1>1. ASSUME OutwardInv
      PROVE  RecordsIntact
  <2>1. PipeShape /\ pipe \in Seq(Event \cup Fds) /\ Len(pipe) \in Nat
        /\ (pipe = <<>> <=> Len(pipe) = 0)
    BY <1>1, NodeTypes DEF OutwardInv
  <2>2. "PEER_WELCOME" \notin Fds
    BY TokensAssumption DEF Event
  <2>3. CASE loop = "welcome"
    <3>. DEFINE s == <<"PEER_WELCOME">> \o pipe
    <3>1. /\ Len(s) = Len(pipe) + 1 /\ s[1] = "PEER_WELCOME"
          /\ \A i \in 2..Len(s) : s[i] = pipe[i - 1]
      BY <2>1 DEF Event
    <3>2. ASSUME NEW i \in 1..Len(s)
          PROVE  s[i] \in Fds <=> i > 1 /\ s[i - 1] = "PEER_WELCOME"
      <4>1. CASE i = 1
        BY <2>2, <3>1, <4>1
      <4>2. CASE i = 2
        <5>1. s[2] = pipe[1] /\ pipe # <<>> /\ s[i - 1] = "PEER_WELCOME"
          BY <2>1, <3>1, <4>2
        <5>. QED
          BY <2>1, <2>3, <4>2, <5>1 DEF PipeShape
      <4>3. CASE i > 2
        <5>1. /\ i - 1 \in 2..Len(pipe) /\ i - 1 \in 2..Len(s)
              /\ s[i] = pipe[i - 1] /\ s[i - 1] = pipe[(i - 1) - 1]
          BY <2>1, <3>1, <4>3
        <5>. QED
          BY <2>1, <4>3, <5>1 DEF PipeShape
      <4>. QED
        BY <2>1, <3>1, <4>1, <4>2, <4>3
    <3>. QED
      BY <2>3, <3>2 DEF RecordsIntact
  <2>4. CASE loop # "welcome"
    <3>1. ASSUME NEW i \in 1..Len(pipe)
          PROVE  pipe[i] \in Fds <=> i > 1 /\ pipe[i - 1] = "PEER_WELCOME"
      <4>1. CASE i = 1
        BY <2>1, <2>4, <4>1 DEF PipeShape
      <4>2. CASE i \in 2..Len(pipe)
        BY <2>1, <4>2 DEF PipeShape
      <4>. QED
        BY <2>1, <4>1, <4>2
    <3>. QED
      BY <2>4, <3>1 DEF RecordsIntact
  <2>. QED
    BY <2>3, <2>4
<1>. QED
  BY <1>1, OutwardInvariant, PTL

(* The loop of such a node winds up for a stop() that is there to join it:  *)
(* ShutdownOnlyWhenClosing (p2p.h:21, p2p.cpp:117-120, 283-285).            *)
THEOREM LoopEndsForStop ==
  ASSUME OutwardOnly
  PROVE  Spec => []ShutdownOnlyWhenClosing
<1>1. OutwardInv => ShutdownOnlyWhenClosing
  BY NodeTypes
  DEF OutwardInv, LoopPlaces, LoopRuns, Closing, ShutdownOnlyWhenClosing
<1>. QED
  BY <1>1, OutwardInvariant, PTL

(* Such a node does not end its process: NeverDies (p2p.cpp:102, 199, 249,  *)
(* 357).                                                                    *)
THEOREM OutwardNodeSurvives ==
  ASSUME OutwardOnly
  PROVE  Spec => []NeverDies
<1>1. OutwardInv => NeverDies
  BY DEF OutwardInv, Dying, NeverDies
<1>. QED
  BY <1>1, OutwardInvariant, PTL

(* What its owner sees of NodeLifecycle: a node that is down, up or gone.   *)
(* It never falls, which leaves a thread that stop() does not join (p2p.cpp *)
(* :117) and start() must not replace (102).                                *)
THEOREM OutwardNodeNeverFalls ==
  ASSUME OutwardOnly
  PROVE  Spec => [](life \in {"down", "up", "gone"})
<1>1. ASSUME OutwardInv
      PROVE  life \in {"down", "up", "gone"}
  <2>1. LifeMeaning
    BY <1>1, LifeValue DEF OutwardInv, NodeInv
  <2>2. life # "dead"
    BY <1>1, <2>1 DEF OutwardInv, Dying, LifeMeaning
  <2>3. life # "fallen"
    <3>1. fate \in {"alive", "dying", "destroyed"} /\ loop \in LoopPCs
      BY <1>1, NodeTypes DEF OutwardInv, Dying
    <3>2. loop = "none" \/ running \/ Closing
      BY <1>1, <3>1 DEF OutwardInv, LoopRuns
    <3>. QED
      BY <2>1, <3>1, <3>2 DEF LifeMeaning, Closing
  <2>. QED
    BY <2>1, <2>2, <2>3 DEF LifeMeaning
<1>. QED
  BY <1>1, OutwardInvariant, PTL
=============================================================================
