------------------------------ MODULE P2PNode ------------------------------
(* One P2P node: the object of p2p.h with the threads that run inside it.   *)
(*                                                                          *)
(* Users call start, stop, aConnect, connect and the destructor; Tasks are  *)
(* the std::async threads of mTasks, each running connect; the loop is the  *)
(* thread of threadLoop.  They share three mutexes, the event pipe, the     *)
(* epoll set and the map of peers.  A step is the code between two points   *)
(* where a thread can wait or be seen by another: taking a mutex, writing   *)
(* to or reading from the pipe, joining.                                    *)
(*                                                                          *)
(* A descriptor is reused as soon as it is closed, as the kernel does.      *)
EXTENDS Naturals, Sequences, FiniteSets

CONSTANTS
  Users,           \* threads of the program that own the node
  Tasks,           \* bound: std::async connections running at one time
  DirectCallers,   \* the users that also call connect() themselves
  EarlyConnect,    \* whether users connect while the node is not running
  Fds,             \* bound: the descriptors sockets of peers can get
  None,            \* no thread, no descriptor
  Inbound,         \* whether other nodes connect to the listening socket
  Incoming,        \* what peers may send: a subset of MsgKinds
  NBoot,           \* length of mBootStrap
  kTargetNumPeers, \* connections TRY_CONNECT aims at
  PipeCap,         \* bound: tokens the event pipe holds before write blocks
  MaxPool,         \* bound: addresses in mAddressPool
  EpollFails       \* whether epoll_wait may return -1 (a signal: EINTR)

(* What reading a peer's socket can give the loop: a PEER_INFO that is      *)
(* accepted, one that is not (wrong network or our own UID), a DISCOVERY,   *)
(* a DISCONNECT, the end of the stream.  "reset" is no message: with it a   *)
(* peer may have reset its socket, and a write to it raises SIGPIPE.        *)
MsgKinds == {"peer_info", "reject", "discovery", "disconnect", "eof", "reset"}

ASSUME ThreadsAssumption ==
  /\ Users \cap Tasks = {}
  /\ DirectCallers \subseteq Users
  /\ None \notin Users \cup Tasks \cup Fds

ASSUME EnvAssumption ==
  /\ EarlyConnect \in BOOLEAN
  /\ Inbound \in BOOLEAN
  /\ EpollFails \in BOOLEAN
  /\ Incoming \subseteq MsgKinds

ASSUME BoundsAssumption ==
  /\ NBoot \in Nat
  /\ kTargetNumPeers \in Nat
  /\ PipeCap \in Nat \ {0}
  /\ MaxPool \in Nat

(* The bytes of enum Event that are ever written.  The other tokens of the  *)
(* pipe are descriptors, the four bytes sendThreadEventData writes.         *)
Event == {"SHUTDOWN", "PEER_WELCOME", "TRY_CONNECT"}

ASSUME TokensAssumption == Event \cap Fds = {} /\ None \notin Event

VARIABLES
  pc,           \* where each user and each task is
  sock,         \* descriptor of the connection a thread is making
  boot,         \* bootstrap addresses start() still has to launch
  threadMutex,  \* owner of mThreadMutex
  tasksMutex,   \* owner of mTasksMutex
  peersMutex,   \* owner of mPeersMutex, when held across a wait
  running,      \* mRunning
  loop,         \* where the loop thread is; "none": mThread not joinable
  loopFd,       \* descriptor the loop is working on
  pipe,         \* contents of mEventPipe
  pipeEnds,     \* which ends of mEventPipe are open
  pool,         \* size of mAddressPool
  open,         \* peer sockets the process has open
  peers,        \* keys of mPeers
  inbound,      \* peers whose mDirection is IN
  ready,        \* peers whose mReady is set
  greeted,      \* peers that were sent our PEER_INFO
  epoll,        \* peer sockets registered with mEpollFd
  fate          \* of the object: in use, in its destructor, or over

vars == <<pc, sock, boot, threadMutex, tasksMutex, peersMutex, running, loop,
          loopFd, pipe, pipeEnds, pool, open, peers, inbound, ready, greeted,
          epoll, fate>>

callers  == <<pc, sock, boot>>
mutexes  == <<threadMutex, tasksMutex, peersMutex>>
loopVars == <<running, loop, loopFd>>
channel  == <<pipe, pipeEnds>>
marks    == <<inbound, ready, greeted>>
table    == <<open, peers, inbound, ready, greeted>>
net      == <<pool, open, peers, inbound, ready, greeted, epoll>>

Threads == Users \cup Tasks

StartPCs == {"start_peers", "start_boot"}
StopPCs  == {"stop_tasks", "stop_send", "stop_join"}
ConnPCs  == {"connect", "conn_peers", "conn_thread", "conn_event", "conn_data"}

ThreadPCs == {"idle", "stop"} \cup StartPCs \cup StopPCs \cup ConnPCs

(* Inside the while of threadLoop, and after it. *)
BodyPCs == {"wait", "welcome", "greet", "try", "launch", "accept_peers",
            "accept_thread", "accept_return", "serve", "post_welcome",
            "post_fd", "post_try", "remove", "remove_serving", "unwind"}
EndPCs  == {"close_read", "close_write", "drop", "exit"}

LoopPCs == {"none"} \cup BodyPCs \cup EndPCs

-----------------------------------------------------------------------------
Init ==
  /\ pc = [t \in Threads |-> "idle"]
  /\ sock = [t \in Threads |-> None]
  /\ boot = 0
  /\ threadMutex = None /\ tasksMutex = None /\ peersMutex = None
  /\ running = FALSE
  /\ loop = "none" /\ loopFd = None
  /\ pipe = <<>> /\ pipeEnds = "closed"
  /\ pool = 0
  /\ open = {} /\ peers = {} /\ inbound = {} /\ ready = {} /\ greeted = {}
  /\ epoll = {}
  /\ fate = "alive"

Up == fate \in {"alive", "dying"}

Free(u)    == fate = "alive" /\ pc[u] = "idle"  \* may call an operation
At(t, l)   == Up /\ pc[t] = l
LoopAt(l)  == Up /\ loop = l
Goto(t, l) == pc' = [pc EXCEPT ![t] = l]
LoopGoto(l) == loop' = l /\ UNCHANGED loopFd

(* Steps that change nothing else. *)
OnlyGoto(t, l) ==
  Goto(t, l) /\ UNCHANGED <<sock, boot, mutexes, loopVars, channel, net, fate>>
OnlyLoopGoto(l) ==
  LoopGoto(l) /\ UNCHANGED <<callers, mutexes, running, channel, net, fate>>

(* write() to the pipe: it waits for room, kills the process with SIGPIPE   *)
(* when only the read end is closed, and on a closed descriptor fails with  *)
(* EBADF or hits whatever socket was given that number since.               *)
Write(tok) ==
  /\ UNCHANGED pipeEnds
  /\ \/ /\ pipeEnds = "open"
        /\ Len(pipe) < PipeCap
        /\ pipe' = Append(pipe, tok)
        /\ fate' = fate
     \/ /\ pipeEnds = "half"
        /\ pipe' = pipe
        /\ fate' = "terminated"
     \/ /\ pipeEnds = "closed"
        /\ pipe' = pipe
        /\ fate' \in {fate, "terminated"}

(* write() to a peer's socket. *)
SendMsg ==
  fate' \in IF "reset" \in Incoming THEN {fate, "terminated"} ELSE {fate}

(* mTasks.emplace_back(std::async(connect)).  An attempt that finds no slot *)
(* among Tasks stands for one that fails at once.                           *)
Spawn ==
  \/ \E t \in Tasks : pc[t] = "idle" /\ Goto(t, "connect")
  \/ (\A t \in Tasks : pc[t] # "idle") /\ UNCHANGED pc

(* Mutants of Erase: what is known of the peer stays, or all of it does.    *)
EraseKeysOnly(fds) == peers' = peers \ fds /\ UNCHANGED marks
EraseNothing(fds)  == UNCHANGED <<peers, marks>>

(* Takes peers out of the map. *)
Erase(fds) ==
  /\ peers' = peers \ fds
  /\ inbound' = inbound \ fds
  /\ ready' = ready \ fds
  /\ greeted' = greeted \ fds

(* Mutant of CloseSockets: the descriptors are not closed. *)
CloseNothing(fds) == UNCHANGED open

CloseSockets(fds) == open' = open \ fds

(* Mutant of Joinable: a thread that has returned counts as joined. *)
JoinableUntilExit == loop \notin {"none", "exit"}

(* mThread is a thread nobody joined, finished or not. *)
Joinable == loop # "none"

-----------------------------------------------------------------------------
(* start() *)

(* Takes mThreadMutex, finds the node not running, opens the listening      *)
(* socket, the pipe and the epoll set.  Returning early, because the node   *)
(* runs or a call fails, changes nothing the model has.                     *)
StartEnter(u) ==
  /\ Free(u)
  /\ threadMutex = None
  /\ ~running
  /\ threadMutex' = u
  /\ Goto(u, "start_peers")
  /\ pipe' = <<>>
  /\ pipeEnds' = "open"
  /\ epoll' = {}
  /\ UNCHANGED <<sock, boot, tasksMutex, peersMutex, loopVars, pool, table,
                 fate>>

(* Clears the map and launches the loop. *)
StartSpawn(u) ==
  /\ At(u, "start_peers")
  /\ peersMutex = None
  /\ ~Joinable
  /\ peersMutex' = u
  /\ Erase(peers)
  /\ running' = TRUE
  /\ loop' = "wait"
  /\ boot' = NBoot
  /\ Goto(u, "start_boot")
  /\ UNCHANGED <<sock, threadMutex, tasksMutex, loopFd, channel, pool, open,
                 epoll, fate>>

(* Assigning to an mThread that is still joinable: std::terminate. *)
StartOverThread(u) ==
  /\ At(u, "start_peers")
  /\ peersMutex = None
  /\ Joinable
  /\ fate' = "terminated"
  /\ UNCHANGED <<callers, mutexes, loopVars, channel, net>>

StartBoot(u) ==
  /\ At(u, "start_boot")
  /\ boot > 0
  /\ tasksMutex = None
  /\ Spawn
  /\ boot' = boot - 1
  /\ UNCHANGED <<sock, mutexes, loopVars, channel, net, fate>>

StartReturn(u) ==
  /\ At(u, "start_boot")
  /\ boot = 0
  /\ threadMutex' = None
  /\ peersMutex' = None
  /\ Goto(u, "idle")
  /\ UNCHANGED <<sock, boot, tasksMutex, loopVars, channel, net, fate>>

-----------------------------------------------------------------------------
(* stop() and the destructor *)

CallStop(u) ==
  /\ Free(u)
  /\ OnlyGoto(u, "stop")

(* ~P2P() calls stop(); nobody else may be using the object. *)
CallDestroy(u) ==
  /\ fate = "alive"
  /\ \A v \in Users : pc[v] = "idle"
  /\ fate' = "dying"
  /\ Goto(u, "stop")
  /\ UNCHANGED <<sock, boot, mutexes, loopVars, channel, net>>

(* std::lock takes both mutexes or waits holding neither. *)
StopLock(u) ==
  /\ At(u, "stop")
  /\ threadMutex = None
  /\ tasksMutex = None
  /\ threadMutex' = u
  /\ tasksMutex' = u
  /\ Goto(u, "stop_tasks")
  /\ UNCHANGED <<sock, boot, peersMutex, loopVars, channel, net, fate>>

(* Mutant of TasksOver: the futures are dropped without waiting. *)
TasksDetached == TRUE

(* Destroying the futures of mTasks waits for their threads. *)
TasksOver == \A t \in Tasks : pc[t] = "idle"

StopRunning(u) ==
  /\ At(u, "stop_tasks")
  /\ TasksOver
  /\ running
  /\ OnlyGoto(u, "stop_send")

StopNotRunning(u) ==
  /\ At(u, "stop_tasks")
  /\ TasksOver
  /\ ~running
  /\ threadMutex' = None
  /\ tasksMutex' = None
  /\ Goto(u, "idle")
  /\ UNCHANGED <<sock, boot, peersMutex, loopVars, channel, net, fate>>

StopSend(u) ==
  /\ At(u, "stop_send")
  /\ Write("SHUTDOWN")
  /\ Goto(u, "stop_join")
  /\ UNCHANGED <<sock, boot, mutexes, loopVars, net>>

StopJoin(u) ==
  /\ At(u, "stop_join")
  /\ loop = "exit"
  /\ loop' = "none"
  /\ running' = FALSE
  /\ threadMutex' = None
  /\ tasksMutex' = None
  /\ Goto(u, "idle")
  /\ UNCHANGED <<sock, boot, peersMutex, loopFd, channel, net, fate>>

(* The members go after stop(): a joinable std::thread ends the process.    *)
(* The map goes as it is, for a stop() that found the node not running      *)
(* closes nothing: the sockets of peers inserted since then stay open.      *)
Destruct ==
  /\ fate = "dying"
  /\ \A u \in Users : pc[u] = "idle"
  /\ \/ Joinable /\ fate' = "terminated" /\ UNCHANGED <<peers, marks>>
     \/ ~Joinable /\ fate' = "destroyed" /\ Erase(peers)
  /\ UNCHANGED <<callers, mutexes, loopVars, channel, pool, open, epoll>>

-----------------------------------------------------------------------------
(* aConnect() and connect() *)

AConnect(u) ==
  /\ Free(u)
  /\ running \/ EarlyConnect
  /\ tasksMutex = None
  /\ Spawn
  /\ UNCHANGED <<sock, boot, mutexes, loopVars, channel, net, fate>>

DirectConnect(u) ==
  /\ Free(u)
  /\ u \in DirectCallers
  /\ running \/ EarlyConnect
  /\ OnlyGoto(u, "connect")

(* A bad address, or nobody listens there.  The descriptors the code leaks  *)
(* (lines 149 and 151) are never seen again and not modelled.               *)
ConnectFails(t) ==
  /\ At(t, "connect")
  /\ OnlyGoto(t, "idle")

Connected(t) ==
  /\ At(t, "connect")
  /\ \E f \in Fds \ open :
       /\ open' = open \cup {f}
       /\ sock' = [sock EXCEPT ![t] = f]
  /\ Goto(t, "conn_peers")
  /\ UNCHANGED <<boot, mutexes, loopVars, channel, pool, peers, marks, epoll,
                 fate>>

(* Mutant of ConnectInsert: mPeersMutex is released after the insertion. *)
ConnectInsertUnlocked(t) ==
  /\ At(t, "conn_peers")
  /\ peersMutex = None
  /\ peers' = peers \cup {sock[t]}
  /\ Goto(t, "conn_thread")
  /\ UNCHANGED <<sock, boot, mutexes, loopVars, channel, pool, open, marks,
                 epoll, fate>>

(* insertPeer, first block.  mPeersMutex stays locked until connect returns. *)
ConnectInsert(t) ==
  /\ At(t, "conn_peers")
  /\ peersMutex = None
  /\ peersMutex' = t
  /\ peers' = peers \cup {sock[t]}
  /\ Goto(t, "conn_thread")
  /\ UNCHANGED <<sock, boot, threadMutex, tasksMutex, loopVars, channel,
                 pool, open, marks, epoll, fate>>

(* insertPeer, second block.  Once the loop has closed mEpollFd the         *)
(* registration fails.                                                      *)
Register(f) ==
  epoll' = IF running /\ pipeEnds = "open" THEN epoll \cup {f} ELSE epoll

ConnectRegister(t) ==
  /\ At(t, "conn_thread")
  /\ threadMutex = None
  /\ Register(sock[t])
  /\ Goto(t, "conn_event")
  /\ UNCHANGED <<sock, boot, mutexes, loopVars, channel, pool, table, fate>>

ConnectEvent(t) ==
  /\ At(t, "conn_event")
  /\ Write("PEER_WELCOME")
  /\ Goto(t, "conn_data")
  /\ UNCHANGED <<sock, boot, mutexes, loopVars, net>>

ConnectData(t) ==
  /\ At(t, "conn_data")
  /\ Write(sock[t])
  /\ peersMutex' = None
  /\ sock' = [sock EXCEPT ![t] = None]
  /\ Goto(t, "idle")
  /\ UNCHANGED <<boot, threadMutex, tasksMutex, loopVars, net>>

-----------------------------------------------------------------------------
(* threadLoop: events from the pipe *)

(* SHUTDOWN, or a byte that is no event: the default case falls through.    *)
(* What else is in the pipe is never read.                                  *)
HandleShutdown ==
  /\ LoopAt("wait")
  /\ pipe # <<>>
  /\ Head(pipe) \notin {"PEER_WELCOME", "TRY_CONNECT"}
  /\ pipe' = Tail(pipe)
  /\ running' = FALSE
  /\ LoopGoto("close_read")
  /\ UNCHANGED <<callers, mutexes, pipeEnds, net, fate>>

HandleWelcome ==
  /\ LoopAt("wait")
  /\ pipe # <<>>
  /\ Head(pipe) = "PEER_WELCOME"
  /\ pipe' = Tail(pipe)
  /\ LoopGoto("welcome")
  /\ UNCHANGED <<callers, mutexes, running, pipeEnds, net, fate>>

(* The events at the front of s. *)
EventRun(s) ==
  Cardinality({k \in 1..Len(s) : \A i \in 1..k : s[i] \in Event})

(* read() of the four bytes of an int.  If n events come first it takes     *)
(* them and, if a descriptor follows, only the first 4 - n bytes of it: the *)
(* n bytes left over are zero, and zero is SHUTDOWN.  What was read is then *)
(* the descriptor of no peer.  (A peer's descriptor is taken to be between  *)
(* 4 and 255: its first byte is no event with a case of its own, the other  *)
(* three are zero.)                                                         *)
PayloadFd(s) == IF Head(s) \in Event THEN None ELSE Head(s)

(* Mutant of AfterPayload: the left-over bytes are lost. *)
AfterPayloadSwallowed(s) == SubSeq(s, 5, Len(s))

AfterPayload(s) ==
  LET n == EventRun(s) IN
  IF n < 4 /\ n < Len(s)
  THEN [i \in 1..(Len(s) - 1) |-> IF i <= n THEN "SHUTDOWN" ELSE s[i + 1]]
  ELSE SubSeq(s, 5, Len(s))

ReadPayload ==
  /\ LoopAt("welcome")
  /\ pipe # <<>>
  /\ loopFd' = PayloadFd(pipe)
  /\ pipe' = AfterPayload(pipe)
  /\ loop' = "greet"
  /\ UNCHANGED <<callers, mutexes, running, pipeEnds, net, fate>>

(* Mutant of ToGreet: only peers that introduced themselves are greeted. *)
ToGreetReady == {loopFd} \cap ready

(* The peer of the record, if it is still there. *)
ToGreet == {loopFd} \cap peers

(* sendMsg_PeerInfo and sendMsg_Discovery. *)
Greet ==
  /\ LoopAt("greet")
  /\ peersMutex = None
  /\ greeted' = greeted \cup ToGreet
  /\ IF ToGreet = {} THEN fate' = fate ELSE SendMsg
  /\ loop' = "wait"
  /\ loopFd' = None
  /\ UNCHANGED <<callers, mutexes, running, channel, pool, open, peers,
                 inbound, ready, epoll>>

HandleTryConnect ==
  /\ LoopAt("wait")
  /\ pipe # <<>>
  /\ Head(pipe) = "TRY_CONNECT"
  /\ pipe' = Tail(pipe)
  /\ LoopGoto("try")
  /\ UNCHANGED <<callers, mutexes, running, pipeEnds, net, fate>>

(* Mutant of WantsPeers: an empty pool is not noticed. *)
WantsPeersUnchecked == Cardinality(peers) < kTargetNumPeers

(* The condition of the while of TRY_CONNECT. *)
WantsPeers == Cardinality(peers) < kTargetNumPeers /\ pool > 0

TryConnect ==
  /\ LoopAt("try")
  /\ peersMutex = None
  /\ OnlyLoopGoto(IF WantsPeers THEN "launch" ELSE "wait")

Launch ==
  /\ LoopAt("launch")
  /\ tasksMutex = None
  /\ Spawn
  /\ pool' = pool - 1
  /\ LoopGoto("try")
  /\ UNCHANGED <<sock, boot, mutexes, running, channel, table, epoll, fate>>

-----------------------------------------------------------------------------
(* threadLoop: newPeer *)

Accept ==
  /\ LoopAt("wait")
  /\ Inbound
  /\ \E f \in Fds \ open :
       /\ open' = open \cup {f}
       /\ loopFd' = f
  /\ loop' = "accept_peers"
  /\ UNCHANGED <<callers, mutexes, running, channel, pool, peers, marks,
                 epoll, fate>>

AcceptInsert ==
  /\ LoopAt("accept_peers")
  /\ peersMutex = None
  /\ peers' = peers \cup {loopFd}
  /\ inbound' = inbound \cup {loopFd}
  /\ LoopGoto("accept_thread")
  /\ UNCHANGED <<callers, mutexes, running, channel, pool, open, ready,
                 greeted, epoll, fate>>

AcceptRegister ==
  /\ LoopAt("accept_thread")
  /\ threadMutex = None
  /\ Register(loopFd)
  /\ LoopGoto("accept_return")
  /\ UNCHANGED <<callers, mutexes, running, channel, pool, table, fate>>

(* "return mPeers[sock]" with no lock, while a connector may be inserting:  *)
(* a data race on the map.                                                  *)
MapRace == \E t \in Threads : pc[t] = "conn_peers" /\ peersMutex = None

AcceptReturn ==
  /\ LoopAt("accept_return")
  /\ fate' \in IF MapRace THEN {fate, "terminated"} ELSE {fate}
  /\ loop' = "wait"
  /\ loopFd' = None
  /\ UNCHANGED <<callers, mutexes, running, channel, net>>

-----------------------------------------------------------------------------
(* threadLoop: servePeer and the decodeMsg handlers *)

Serve ==
  /\ LoopAt("wait")
  /\ loopFd' \in epoll
  /\ loop' = "serve"
  /\ UNCHANGED <<callers, mutexes, running, channel, net, fate>>

(* The lookup takes mPeersMutex; nobody but the loop removes the peer after *)
(* that, so finding it, reading one message and decoding it are one step.   *)
Receives(kind) ==
  /\ LoopAt("serve")
  /\ peersMutex = None
  /\ kind \in Incoming

DecodePeerInfo ==
  /\ Receives("peer_info")
  /\ IF loopFd \in inbound \ ready
     THEN /\ ready' = ready \cup {loopFd}
          /\ LoopGoto("post_welcome")
     ELSE /\ loop' = "wait"
          /\ loopFd' = None
          /\ UNCHANGED ready
  /\ UNCHANGED <<callers, mutexes, running, channel, pool, open, peers,
                 inbound, greeted, epoll, fate>>

(* The wrong network is answered with a DISCONNECT before the peer goes. *)
DecodeReject ==
  /\ Receives("reject")
  /\ SendMsg
  /\ LoopGoto("remove_serving")
  /\ UNCHANGED <<callers, mutexes, running, channel, net>>

DecodeDisconnect == Receives("disconnect") /\ OnlyLoopGoto("remove_serving")

DecodeDiscovery ==
  /\ Receives("discovery")
  /\ pool < MaxPool
  /\ pool' = pool + 1
  /\ loop' = "post_try"
  /\ loopFd' = None
  /\ UNCHANGED <<callers, mutexes, running, channel, table, epoll, fate>>

ReadEof == Receives("eof") /\ OnlyLoopGoto("remove")

PostWelcome ==
  /\ LoopAt("post_welcome")
  /\ Write("PEER_WELCOME")
  /\ LoopGoto("post_fd")
  /\ UNCHANGED <<callers, mutexes, running, net>>

PostFd ==
  /\ LoopAt("post_fd")
  /\ Write(loopFd)
  /\ loop' = "wait"
  /\ loopFd' = None
  /\ UNCHANGED <<callers, mutexes, running, net>>

PostTryConnect ==
  /\ LoopAt("post_try")
  /\ Write("TRY_CONNECT")
  /\ LoopGoto("wait")
  /\ UNCHANGED <<callers, mutexes, running, net>>

(* removePeer: close() also takes the socket out of the epoll set. *)
RemovePeer ==
  /\ Up
  /\ loop \in {"remove", "remove_serving"}
  /\ peersMutex = None
  /\ Erase({loopFd})
  /\ CloseSockets({loopFd})
  /\ epoll' = epoll \ {loopFd}
  /\ loop' = IF loop = "remove" THEN "wait" ELSE "unwind"
  /\ loopFd' = None
  /\ UNCHANGED <<callers, mutexes, running, channel, pool, fate>>

(* Back in servePeer, peerLock unlocks the mutex of the Peer that was just  *)
(* destroyed: undefined, it goes unnoticed or ends the process.             *)
Unwind ==
  /\ LoopAt("unwind")
  /\ fate' \in {fate, "terminated"}
  /\ LoopGoto("wait")
  /\ UNCHANGED <<callers, mutexes, running, channel, net>>

-----------------------------------------------------------------------------
(* threadLoop: the end of the thread *)

(* epoll_wait returns -1: break, with mRunning still set. *)
PollFails ==
  /\ LoopAt("wait")
  /\ EpollFails
  /\ OnlyLoopGoto("close_read")

CloseReadEnd ==
  /\ LoopAt("close_read")
  /\ pipeEnds' = "half"
  /\ pipe' = <<>>
  /\ epoll' = {}
  /\ LoopGoto("close_write")
  /\ UNCHANGED <<callers, mutexes, running, pool, table, fate>>

CloseWriteEnd ==
  /\ LoopAt("close_write")
  /\ pipeEnds' = "closed"
  /\ pipe' = <<>>
  /\ LoopGoto("drop")
  /\ UNCHANGED <<callers, mutexes, running, net, fate>>

DropPeers ==
  /\ LoopAt("drop")
  /\ peersMutex = None
  /\ CloseSockets(peers)
  /\ Erase(peers)
  /\ LoopGoto("exit")
  /\ UNCHANGED <<callers, mutexes, running, channel, pool, epoll, fate>>

-----------------------------------------------------------------------------
UserCalls(u) ==
  \/ StartEnter(u) \/ CallStop(u) \/ CallDestroy(u)
  \/ AConnect(u) \/ DirectConnect(u)

UserSteps(u) ==
  \/ StartSpawn(u) \/ StartOverThread(u) \/ StartBoot(u) \/ StartReturn(u)
  \/ StopLock(u) \/ StopRunning(u) \/ StopNotRunning(u)
  \/ StopSend(u) \/ StopJoin(u)

ConnectSteps(t) ==
  \/ ConnectFails(t) \/ Connected(t) \/ ConnectInsert(t) \/ ConnectRegister(t)
  \/ ConnectEvent(t) \/ ConnectData(t)

(* What the loop does once it has something to do. *)
LoopSteps ==
  \/ ReadPayload \/ Greet \/ TryConnect \/ Launch
  \/ AcceptInsert \/ AcceptRegister \/ AcceptReturn
  \/ DecodePeerInfo \/ DecodeReject \/ DecodeDisconnect \/ DecodeDiscovery
  \/ ReadEof \/ PostWelcome \/ PostFd \/ PostTryConnect \/ RemovePeer \/ Unwind
  \/ CloseReadEnd \/ CloseWriteEnd \/ DropPeers

HandleEvents == HandleShutdown \/ HandleWelcome \/ HandleTryConnect

Next ==
  \/ \E u \in Users : UserCalls(u) \/ UserSteps(u)
  \/ \E t \in Threads : ConnectSteps(t)
  \/ Destruct
  \/ LoopSteps \/ HandleEvents \/ Accept \/ Serve \/ PollFails

Spec == Init /\ [][Next]_vars

(* Every thread the scheduler can run runs again, and a thread waiting for  *)
(* a mutex or for room in the pipe that is free again and again gets it.    *)
(* epoll_wait returns ready descriptors in turn, so a pipe with data is     *)
(* read however busy the sockets are.  Users need not call anything, peers  *)
(* need not send or connect, epoll_wait need not fail.                      *)
Fairness ==
  /\ \A u \in Users : SF_vars(UserSteps(u))
  /\ \A t \in Tasks \cup DirectCallers : SF_vars(ConnectSteps(t))
  /\ SF_vars(LoopSteps)
  /\ SF_vars(HandleEvents)

FairSpec == Spec /\ Fairness
=============================================================================
