------------------------- MODULE P2PNodeProperties -------------------------
(* What makes a P2P node correct, and what does not hold of it. *)
EXTENDS P2PNode

(* Every variable keeps its type. *)
TypeOK ==
  /\ pc \in [Threads -> ThreadPCs]
  /\ sock \in [Threads -> Fds \cup {None}]
  /\ boot \in 0..NBoot
  /\ threadMutex \in Users \cup {None}
  /\ tasksMutex \in Users \cup {None}
  /\ peersMutex \in Threads \cup {None}
  /\ running \in BOOLEAN
  /\ loop \in LoopPCs
  /\ loopFd \in Fds \cup {None}
  /\ pipe \in Seq(Event \cup Fds)
  /\ pipeEnds \in {"open", "half", "closed"}
  /\ pool \in 0..MaxPool
  /\ open \subseteq Fds
  /\ peers \subseteq Fds
  /\ inbound \subseteq Fds
  /\ ready \subseteq Fds
  /\ greeted \subseteq Fds
  /\ epoll \subseteq Fds
  /\ fate \in {"alive", "dying", "destroyed", "terminated"}

(* While stop() hands SHUTDOWN to the loop and joins it, no asynchronous    *)
(* connection is running, and none can be launched: lines 113-120.          *)
QuiescentJoin ==
  (\E u \in Users : pc[u] \in {"stop_send", "stop_join"})
    => \A t \in Tasks : pc[t] = "idle"

(* The kernel's epoll set, mPeers and the open sockets never disagree: the  *)
(* loop is only woken for sockets that are in mPeers ("Serve peer requested *)
(* on unknown FD", line 243, is never logged), mPeers never names a closed  *)
(* descriptor, and what is known of a peer goes with it, so that a peer     *)
(* that reuses its descriptor starts as a stranger.                         *)
TablesAgree ==
  /\ epoll \subseteq peers
  /\ peers \subseteq open
  /\ ready \subseteq inbound
  /\ inbound \cup greeted \subseteq peers

(* Once a loop that stop() told to end has ended, no peer is left, except   *)
(* one that a user's own connect() is just inserting.                       *)
JoinedClean ==
  (\E u \in Users : pc[u] \in {"stop_send", "stop_join"}) =>
    (loop = "exit" /\ ~running =>
       \A f \in peers :
         \E c \in DirectCallers : pc[c] = "conn_thread" /\ sock[c] = f)

(* Who holds which mutex, by where it is. *)
LockInv ==
  /\ \A u \in Users : pc[u] \in StartPCs \cup StopPCs => threadMutex = u
  /\ \A u \in Users : pc[u] \in StopPCs => tasksMutex = u
  /\ \A t \in Threads :
       pc[t] \in {"start_boot", "conn_thread", "conn_event", "conn_data"}
         => peersMutex = t
  /\ \A t \in Tasks : pc[t] \in {"idle"} \cup ConnPCs
  /\ \A u \in Users : pc[u] \in ConnPCs => u \in DirectCallers

(* A connector's socket is open, its own until it is inserted, and cannot   *)
(* leave the map while the connector holds mPeersMutex.                     *)
SockInv ==
  /\ \A t \in Threads : pc[t] = "conn_peers" =>
       /\ sock[t] \in open \ peers
       /\ loop = "accept_peers" => loopFd # sock[t]
       /\ \A s \in Threads : pc[s] = "conn_peers" /\ sock[s] = sock[t] => s = t
  /\ \A t \in Threads :
       pc[t] \in {"conn_thread", "conn_event", "conn_data"} => sock[t] \in peers
  /\ \A t \in Threads : pc[t] \notin ConnPCs \/ pc[t] = "connect" => sock[t] = None

(* The descriptor the loop works on. *)
LoopFdInv ==
  /\ loop = "accept_peers" => loopFd \in open \ peers
  /\ loop \in {"accept_thread", "accept_return", "serve", "post_welcome",
                "post_fd", "remove", "remove_serving"} => loopFd \in peers

(* The loop against mRunning and the descriptors it owns. *)
LoopInv ==
  /\ loop \in BodyPCs => running
  /\ loop = "none" => ~running
  /\ loop = "close_write" /\ running => pipeEnds = "half"
  /\ loop \in {"drop", "exit"} /\ running => pipeEnds = "closed"
  /\ loop \in {"close_write", "drop", "exit", "none"} => epoll = {}
  /\ loop = "launch" => pool > 0
  /\ \A u \in Users : pc[u] = "start_peers" => ~running /\ epoll = {}

(* In the destructor users are in its stop() or nowhere; and once that      *)
(* stop() has returned no connection is under way that could still insert a *)
(* peer, unless a thread is left to be joined.                              *)
DyingInv ==
  fate = "dying" =>
    /\ \A u \in Users : pc[u] \in {"idle", "stop"} \cup StopPCs
    /\ (\A u \in Users : pc[u] = "idle") =>
         loop # "none" \/ \A t \in Tasks : pc[t] = "idle"

(* The inductive invariant: a peer in mPeers, a socket on its way there and *)
(* a socket in the epoll set are told apart at every step of every thread.  *)
NodeInv ==
  /\ TypeOK
  /\ LockInv /\ SockInv /\ LoopFdInv /\ LoopInv /\ DyingInv
  /\ QuiescentJoin /\ TablesAgree /\ JoinedClean

(* Sockets the process has open and no part of it will ever close. *)
Orphans ==
  open \ (peers \cup {sock[t] : t \in Threads}
                \cup {f \in {loopFd} : loop = "accept_peers"})

(* A socket is orphaned only when a node without a loop throws its whole    *)
(* map away, in the mPeers.clear() of start() (p2p.cpp:100) or with the     *)
(* object (p2p.h:48, 101): the connections made while the node was stopped. *)
(* It is never lost on the way between connect, accept, removePeer and the  *)
(* loop, whichever of them come together.                                   *)
OrphansOnlyOfStopped ==
  [][\/ Orphans' \subseteq Orphans
     \/ /\ loop = "none"
        /\ Orphans' \subseteq Orphans \cup peers
        /\ peers' = {}
        /\ fate = "dying" \/ \E u \in Users : pc[u] = "start_peers"]_vars

(* A connector that holds mPeersMutex keeps an asynchronous connection from *)
(* ending: its own, or one that waits to be inserted.                       *)
HoldsUpTasks(t) == t \in Tasks \/ \E s \in Tasks : pc[s] = "conn_peers"

(* Circular waits.  A connector that holds mPeersMutex waits for            *)
(* mThreadMutex, whose owner waits for it.                                  *)
ConnectWedged ==
  \E t \in Threads, u \in Users :
    /\ pc[t] = "conn_thread"
    /\ \/ pc[u] = "start_peers"
       \/ pc[u] = "stop_tasks" /\ HoldsUpTasks(t)
       \/ pc[u] \in {"stop_send", "stop_join"} /\ loop # "exit"

(* The loop waits for a mutex of the stop() that joins it. *)
LoopWedged ==
  /\ \E u \in Users : pc[u] \in {"stop_send", "stop_join"}
  /\ loop \in {"accept_thread", "launch"}

(* The pipe is full and its only reader, the loop, is not going to read it: *)
(* it writes to it, or waits for a mutex that is not released before a      *)
(* connector has written to it.                                             *)
PipeWedged ==
  /\ pipeEnds = "open"
  /\ Len(pipe) >= PipeCap
  /\ \/ loop \in {"post_welcome", "post_fd", "post_try"}
     \/ \E t \in Threads :
          /\ pc[t] \in {"conn_event", "conn_data"}
          /\ \/ loop \in {"greet", "try", "accept_peers", "serve", "remove",
                          "remove_serving"}
             \/ /\ HoldsUpTasks(t)
                /\ loop \in {"launch", "accept_thread"}
                /\ \E u \in Users : pc[u] = "stop_tasks"

Wedged == ConnectWedged \/ LoopWedged \/ PipeWedged

(* What a thread, or the loop, needs of others for its next step. *)
PipeTakes == pipeEnds = "open" => Len(pipe) < PipeCap

CanGoOn(t) ==
  \/ pc[t] = "connect"
  \/ pc[t] \in {"start_peers", "conn_peers"} /\ peersMutex = None
  \/ pc[t] = "start_boot" /\ (boot = 0 \/ tasksMutex = None)
  \/ pc[t] = "stop" /\ threadMutex = None /\ tasksMutex = None
  \/ pc[t] = "stop_tasks" /\ TasksOver
  \/ pc[t] = "conn_thread" /\ threadMutex = None
  \/ pc[t] \in {"stop_send", "conn_event", "conn_data"} /\ PipeTakes
  \/ pc[t] = "stop_join" /\ loop = "exit"

LoopCanGoOn ==
  \/ loop \in {"wait", "welcome"} /\ pipe # <<>>
  \/ /\ loop \in {"greet", "try", "accept_peers", "serve", "remove",
                  "remove_serving", "drop"}
     /\ peersMutex = None
  \/ loop = "launch" /\ tasksMutex = None
  \/ loop = "accept_thread" /\ threadMutex = None
  \/ loop \in {"post_welcome", "post_fd", "post_try"} /\ PipeTakes
  \/ loop \in {"accept_return", "unwind", "close_read", "close_write"}

(* While a call is under way, somebody can go on with it or with what it    *)
(* waits for, unless there is a circular wait of the kinds above: there is  *)
(* no other deadlock, and no SHUTDOWN that stop() (p2p.cpp:119) waits for   *)
(* in vain.                                                                 *)
NoOtherDeadlock ==
  Up /\ (\E t \in Threads : pc[t] # "idle")
    => Wedged \/ LoopCanGoOn \/ \E t \in Threads : CanGoOn(t)

(* Each of these waits is for ever: no thread of the node can undo it.      *)
WedgeIsPermanent == [][Wedged => Wedged']_vars

(* stop() returns unless a circular wait forms or the process dies: there   *)
(* is no other way for it to hang.                                          *)
StopReturnsOrWedges ==
  \A u \in Users : pc[u] = "stop" ~> pc[u] = "idle" \/ Wedged \/ ~Up

(* A peer we connected to while the loop runs is sent our PEER_INFO, unless *)
(* it goes first or the loop ends: no connection is forgotten in the pipe.  *)
ConnectedIsGreeted ==
  \A t \in Tasks \cup DirectCallers, f \in Fds :
    pc[t] = "conn_data" /\ sock[t] = f /\ loop \in BodyPCs
      ~> \/ f \in greeted \/ f \notin peers
         \/ loop \notin BodyPCs \/ Wedged \/ ~Up

(* Event SHUTDOWN is for "When is closing" (p2p.h:21): the loop winds up    *)
(* because a stop() told it to, and that stop() is there to join it.        *)
ShutdownOnlyWhenClosing ==
  loop # "none" /\ ~running => \E u \in Users : pc[u] = "stop_join"

(* What the loop is going to read: a descriptor follows each PEER_WELCOME   *)
(* and nothing else.                                                        *)
RecordsIntact ==
  LET s == IF loop = "welcome" THEN <<"PEER_WELCOME">> \o pipe ELSE pipe
  IN  \A i \in 1..Len(s) : s[i] \in Fds <=> i > 1 /\ s[i - 1] = "PEER_WELCOME"

(* A node that only connects outwards, whose peers may hang up but do not   *)
(* reset or send DISCONNECT, does not end the process, whatever its users   *)
(* do through start, stop, aConnect and the destructor: no unprotected read *)
(* of the map (p2p.cpp:199), no mutex unlocked after its peer (249), no     *)
(* write to half a pipe (357), no thread left joinable (102).  A write to a *)
(* peer that hung up takes no more than its data here: a second one, which  *)
(* raises SIGPIPE (p2p_msg.cpp:81), is left out.                            *)
NeverDies == fate # "terminated"

(* An accepted peer is greeted after its PEER_INFO was accepted, and is     *)
(* ready from then on (p2p_msg.cpp:68-72; "Not ready until we check peer    *)
(* info", p2p.cpp:191).                                                     *)
GreetedAfterInfo == greeted \cap inbound \subseteq ready

(* What the owner sees: a loop that ended is still to be joined, by the     *)
(* stop() that told it to end or, if mRunning is still set, by a later one; *)
(* with mRunning cleared by the loop itself and no stop() under way, no     *)
(* stop() will join it.                                                     *)
life ==
  CASE fate = "destroyed"  -> "gone"
    [] fate = "terminated" -> "dead"
    [] Up /\ loop = "none" -> "down"
    [] /\ Up /\ loop # "none"
       /\ running \/ \E u \in Users : pc[u] \in {"stop_send", "stop_join"}
                           -> "up"
    [] OTHER               -> "fallen"

Lifecycle == INSTANCE NodeLifecycle WITH life <- life

(* The node implements its life cycle: once the loop has ended by itself,   *)
(* neither stop() (line 117) nor start() (line 102) brings the node back.   *)
LifecycleSpec == Lifecycle!Spec

(* stop() always comes back, as the tests that call it assume. *)
StopReturns == \A u \in Users : pc[u] = "stop" ~> pc[u] = "idle" \/ ~Up
=============================================================================
