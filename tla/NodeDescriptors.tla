-------------------------- MODULE NodeDescriptors ---------------------------
(* The file descriptors of a P2P node in a process with a limited table of  *)
(* them, where other code opens and closes descriptors too.  The kernel     *)
(* gives out the lowest free number; close() and write() act on a number,   *)
(* whoever has it by then.                                                  *)
(*                                                                          *)
(* Modelled: every call that opens or closes a descriptor of the node, and  *)
(* each of them failing.  The mutexes are here only as far as they keep     *)
(* these calls apart; the waits they cause, and what is in the pipe, are in *)
(* P2PNode.                                                                 *)
EXTENDS Naturals, FiniteSets

CONSTANTS
  MaxFd,         \* the limit of the table: descriptors are 0..MaxFd
  MaxForeign,    \* bound: descriptors the rest of the process has open
  Tasks,         \* bound: asynchronous connections at one time
  DirectCallers, \* threads that call connect() themselves
  Ports,         \* bound: the values the program gives mListenPort
  None           \* no descriptor, -1 in the code

Fds == 0..MaxFd

Connectors == Tasks \cup DirectCallers

(* What a descriptor is: not open, somebody else's, the socket start() has  *)
(* made, the ends of the event pipe, the epoll set, a connection being      *)
(* made, a peer, or open and named by nobody.  A socket that listens is the *)
(* port it listens on.                                                      *)
Uses == {"free", "foreign", "main", "read", "write", "epoll", "dial", "peer",
         "lost"}

ASSUME DescriptorsAssumption ==
  /\ MaxFd \in Nat /\ MaxForeign \in Nat
  /\ None \notin Nat
  /\ Tasks \cap DirectCallers = {}
  /\ Ports \cap Uses = {}

VARIABLES
  use,         \* the table
  mMainSocket,
  mEventPipe,  \* the two numbers, never reset
  mEpollFd,    \* never reset
  peers,       \* keys of mPeers
  running,     \* mRunning
  starting,    \* what the start() under way does next; it has mThreadMutex
  stopping,    \* a stop() joins the loop; it has mThreadMutex
  loop,        \* where the loop is; "none": mThread is not joinable
  conn,        \* where each connector is
  sock         \* its socket

vars == <<use, mMainSocket, mEventPipe, mEpollFd, peers, running, starting,
          stopping, loop, conn, sock>>

names   == <<mMainSocket, mEventPipe, mEpollFd>>
owner   == <<running, starting, stopping>>
callers == <<conn, sock>>

Init ==
  /\ use = [f \in Fds |-> IF f = 0 THEN "foreign" ELSE "free"]
  /\ mMainSocket = None
  /\ mEventPipe = <<0, 0>>
  /\ mEpollFd = None
  /\ peers = {}
  /\ running = FALSE /\ starting = "no" /\ stopping = FALSE
  /\ loop = "none"
  /\ conn = [c \in Connectors |-> "idle"]
  /\ sock = [c \in Connectors |-> None]

-----------------------------------------------------------------------------
(* The table *)

Unused == {f \in Fds : use[f] = "free"}

(* The next k numbers the kernel gives out, if there are as many.           *)
Lowest(k) == {f \in Unused : Cardinality({g \in Unused : g < f}) < k}

(* The number open() and the like return, None if the table is full. *)
NewFd == IF Unused = {} THEN None ELSE CHOOSE f \in Lowest(1) : TRUE

(* The table after numbers become something. *)
With(fds, kind) == [f \in Fds |-> IF f \in fds THEN kind ELSE use[f]]

ThreadMutexFree == starting = "no" /\ ~stopping

(* A connector keeps mPeersMutex from its insertion to the end. *)
PeersMutexFree == \A c \in Connectors : conn[c] \notin {"register", "event"}

(* The rest of the process. *)
ForeignOpen ==
  /\ Cardinality({f \in Fds : use[f] = "foreign"}) < MaxForeign
  /\ use' = With(Lowest(1), "foreign")
  /\ UNCHANGED <<names, peers, owner, loop, callers>>

ForeignClose ==
  /\ \E f \in Fds : use[f] = "foreign" /\ use' = With({f}, "free")
  /\ UNCHANGED <<names, peers, owner, loop, callers>>

-----------------------------------------------------------------------------
(* start() *)

(* socket().  start() only looks at mRunning, so it gets here also while a  *)
(* loop that cleared it by itself is still closing what it had.  What       *)
(* mMainSocket named is overwritten: a socket that listened goes on.        *)
StartSocket ==
  /\ ThreadMutexFree
  /\ ~running
  /\ mMainSocket' = NewFd
  /\ use' = [f \in Fds |-> CASE f \in Lowest(1) -> "main"
                             [] use[f] = "main" -> "lost"
                             [] OTHER -> use[f]]
  /\ starting' = IF NewFd = None THEN "no" ELSE "bind"
  /\ UNCHANGED <<mEventPipe, mEpollFd, peers, running, stopping, loop, callers>>

(* Mutant of PortFree: as if a port could be shared. *)
PortShared(p) == TRUE

(* SO_REUSEADDR does not let two sockets listen on one port. *)
PortFree(p) == \A f \in Fds : use[f] # p

(* bind() and listen() on the port that mListenPort was for this start(),   *)
(* the program may change it between two.  A closing loop may have closed   *)
(* the number in the meantime; if it is a socket again, nobody's or not the *)
(* node's, that one is made to listen (the latter are not followed here).   *)
StartListen ==
  /\ starting = "bind"
  /\ mMainSocket # None
  /\ \E p \in Ports :
       /\ PortFree(p)
       /\ \/ /\ use[mMainSocket] \in {"main", "lost"}
             /\ use' = With({mMainSocket}, p)
          \/ /\ use[mMainSocket] \in {"foreign", "dial"}
             /\ UNCHANGED use
  /\ starting' = "pipe"
  /\ UNCHANGED <<names, peers, running, stopping, loop, callers>>

(* setsockopt, bind or listen fails: return with the socket open. *)
StartFails ==
  /\ starting = "bind"
  /\ starting' = "no"
  /\ UNCHANGED <<use, names, peers, running, stopping, loop, callers>>

(* Mutant of PipeFails: pipe() is not looked at. *)
PipeUnchecked == FALSE

PipeFails == Cardinality(Unused) < 2

(* pipe(); if it fails, start() returns with the socket listening.  The     *)
(* numbers of a pipe the loop has not closed yet are overwritten.           *)
StartPipe ==
  /\ starting = "pipe"
  /\ IF Cardinality(Unused) < 2
     THEN UNCHANGED <<use, mEventPipe>>
     ELSE \E r, w \in Lowest(2) :
            /\ r < w
            /\ mEventPipe' = <<r, w>>
            /\ use' = [f \in Fds |-> CASE f = r -> "read"
                                       [] f = w -> "write"
                                       [] use[f] \in {"read", "write"} -> "lost"
                                       [] OTHER -> use[f]]
  /\ starting' = IF PipeFails THEN "no" ELSE "epoll"
  /\ UNCHANGED <<mMainSocket, mEpollFd, peers, running, stopping, loop, callers>>

(* epoll_create(), unchecked. *)
StartEpoll ==
  /\ starting = "epoll"
  /\ mEpollFd' = NewFd
  /\ use' = [f \in Fds |-> CASE f \in Lowest(1) -> "epoll"
                             [] use[f] = "epoll" -> "lost"
                             [] OTHER -> use[f]]
  /\ starting' = "launch"
  /\ UNCHANGED <<mMainSocket, mEventPipe, peers, running, stopping, loop, callers>>

(* mPeers.clear(), which closes nothing, and the thread is launched. *)
StartLaunch ==
  /\ starting = "launch"
  /\ PeersMutexFree
  /\ loop = "none"
  /\ use' = With(peers, "lost")
  /\ peers' = {}
  /\ running' = TRUE
  /\ loop' = "run"
  /\ starting' = "no"
  /\ UNCHANGED <<names, stopping, callers>>

(* Assigning to an mThread that was not joined ends the process. *)
StartOverThread ==
  /\ starting = "launch"
  /\ PeersMutexFree
  /\ loop # "none"
  /\ starting' = "terminated"
  /\ UNCHANGED <<use, names, peers, running, stopping, loop, callers>>

-----------------------------------------------------------------------------
(* stop(): waits for the tasks, writes SHUTDOWN and joins the loop *)

StopSend ==
  /\ ThreadMutexFree
  /\ \A t \in Tasks : conn[t] = "idle"
  /\ running
  /\ stopping' = TRUE
  /\ UNCHANGED <<use, names, peers, running, starting, loop, callers>>

StopJoin ==
  /\ stopping
  /\ loop = "exit"
  /\ loop' = "none"
  /\ running' = FALSE
  /\ stopping' = FALSE
  /\ UNCHANGED <<use, names, peers, starting, callers>>

-----------------------------------------------------------------------------
(* connect() *)

(* Two sockets: sockfd, which nothing uses or closes, and sock. *)
ConnOpen(c) ==
  /\ conn[c] = "idle"
  /\ c \in Tasks => ~stopping
  /\ IF Cardinality(Unused) < 2
     THEN use' = With(Unused, "lost") /\ UNCHANGED callers
     ELSE \E f, g \in Lowest(2) :
            /\ f < g
            /\ use' = [use EXCEPT ![f] = "lost", ![g] = "dial"]
            /\ sock' = [sock EXCEPT ![c] = g]
            /\ conn' = [conn EXCEPT ![c] = "dial"]
  /\ UNCHANGED <<names, peers, owner, loop>>

(* inet_pton or connect fails: return with sock open. *)
ConnFails(c) ==
  /\ conn[c] = "dial"
  /\ use' = With({sock[c]}, "lost")
  /\ conn' = [conn EXCEPT ![c] = "idle"]
  /\ sock' = [sock EXCEPT ![c] = None]
  /\ UNCHANGED <<names, peers, owner, loop>>

ConnInsert(c) ==
  /\ conn[c] = "dial"
  /\ PeersMutexFree
  /\ use' = With({sock[c]}, "peer")
  /\ peers' = peers \cup {sock[c]}
  /\ conn' = [conn EXCEPT ![c] = "register"]
  /\ UNCHANGED <<names, owner, loop, sock>>

ConnRegister(c) ==
  /\ conn[c] = "register"
  /\ ThreadMutexFree
  /\ conn' = [conn EXCEPT ![c] = "event"]
  /\ UNCHANGED <<use, names, peers, owner, loop, sock>>

(* Writes the record to mEventPipe[1], running or not. *)
ConnWrite(c) ==
  /\ conn[c] = "event"
  /\ conn' = [conn EXCEPT ![c] = "idle"]
  /\ sock' = [sock EXCEPT ![c] = None]
  /\ UNCHANGED <<use, names, peers, owner, loop>>

-----------------------------------------------------------------------------
(* threadLoop *)

(* Mutant of NewSock: accept() is not looked at. *)
NewSockUnchecked == {NewFd}

(* What newPeer adds to mPeers: nothing when the table is full, and then    *)
(* epoll_wait reports the same connection again at once.                    *)
NewSock == {NewFd} \ {None}

LoopAccept ==
  /\ loop = "run" /\ mEpollFd # None
  /\ PeersMutexFree /\ ThreadMutexFree
  /\ NewSock # {}
  /\ use' = With(NewSock, "peer")
  /\ peers' = peers \cup NewSock
  /\ UNCHANGED <<names, owner, loop, callers>>

(* Mutant of Forget: the descriptor stays in mPeers. *)
ForgetNothing(f) == UNCHANGED peers

Forget(f) == peers' = peers \ {f}

LoopRemove ==
  /\ loop = "run" /\ mEpollFd # None
  /\ PeersMutexFree
  /\ \E f \in peers : use' = With({f}, "free") /\ Forget(f)
  /\ UNCHANGED <<names, owner, loop, callers>>

(* A SHUTDOWN: sent by stop(), or made of other bytes (see P2PNode).        *)
LoopShutdown ==
  /\ loop = "run" /\ mEpollFd # None
  /\ running' = FALSE
  /\ loop' = "close"
  /\ UNCHANGED <<use, names, peers, starting, stopping, callers>>

(* epoll_wait fails: interrupted, or there is no epoll set. *)
LoopBreak ==
  /\ loop = "run"
  /\ loop' = "close"
  /\ UNCHANGED <<use, names, peers, owner, callers>>

(* Mutant of Closed: the call is forgotten. *)
ClosedNot(fd) == use

(* The table after close(fd); -1 is no descriptor. *)
Closed(fd) == With({fd} \ {None}, "free")

(* close(fd) on the loop's way out, and on to the next one. *)
LoopCloses(place, fd, next) ==
  /\ loop = place
  /\ use' = Closed(fd)
  /\ loop' = next
  /\ UNCHANGED <<names, peers, owner, callers>>

LoopCloseEpoll == LoopCloses("close", mEpollFd, "close_read")
LoopCloseRead  == LoopCloses("close_read", mEventPipe[1], "close_write")
LoopCloseWrite == LoopCloses("close_write", mEventPipe[2], "drop")

LoopDrop ==
  /\ loop = "drop"
  /\ PeersMutexFree
  /\ use' = With(peers, "free")
  /\ peers' = {}
  /\ loop' = "main"
  /\ UNCHANGED <<names, owner, callers>>

LoopCloseMain  == LoopCloses("main", mMainSocket, "unset")

(* mMainSocket = -1: of what a start() has put there since, no trace.       *)
LoopUnset ==
  /\ loop = "unset"
  /\ mMainSocket' = None
  /\ use' = [f \in Fds |-> IF use[f] = "main" THEN "lost" ELSE use[f]]
  /\ loop' = "exit"
  /\ UNCHANGED <<mEventPipe, mEpollFd, peers, owner, callers>>

-----------------------------------------------------------------------------
Owner == \/ StartSocket \/ StartListen \/ StartFails \/ StartPipe
         \/ StartEpoll \/ StartLaunch \/ StartOverThread
         \/ StopSend \/ StopJoin

Connect(c) == \/ ConnOpen(c) \/ ConnFails(c) \/ ConnInsert(c)
              \/ ConnRegister(c) \/ ConnWrite(c)

Loop == \/ LoopAccept \/ LoopRemove \/ LoopShutdown \/ LoopBreak
        \/ LoopCloseEpoll \/ LoopCloseRead \/ LoopCloseWrite
        \/ LoopDrop \/ LoopCloseMain \/ LoopUnset

Next ==
  /\ starting # "terminated"
  /\ \/ ForeignOpen \/ ForeignClose
     \/ Owner \/ Loop
     \/ \E c \in Connectors : Connect(c)

Spec == Init /\ [][Next]_vars

-----------------------------------------------------------------------------
(* Every variable keeps its type. *)
TypeOK ==
  /\ use \in [Fds -> Uses \cup Ports]
  /\ mMainSocket \in Fds \cup {None}
  /\ mEventPipe \in Fds \X Fds
  /\ mEpollFd \in Fds \cup {None}
  /\ peers \subseteq Fds
  /\ running \in BOOLEAN /\ stopping \in BOOLEAN
  /\ starting \in {"no", "bind", "pipe", "epoll", "launch", "terminated"}
  /\ loop \in {"none", "run", "close", "close_read", "close_write", "drop",
               "main", "unset", "exit"}
  /\ conn \in [Connectors -> {"idle", "dial", "register", "event"}]
  /\ sock \in [Connectors -> Fds \cup {None}]

(* The node closes no descriptor of somebody else, although it closes       *)
(* numbers it noted long ago (p2p.cpp:232, 356-369) and never resets those  *)
(* of the pipe and the epoll set: each number is closed once and forgotten  *)
(* before it can be given out again and closed again.                       *)
ClosesItsOwn ==
  [][\A f \in Fds : use[f] = "foreign" /\ use'[f] # "foreign"
       => UNCHANGED <<names, peers, owner, loop, callers>>]_vars

(* A write to mEventPipe[1]: a record, or SHUTDOWN. *)
EventWritten ==
  \/ \E c \in Connectors : conn[c] = "event" /\ conn'[c] = "idle"
  \/ ~stopping /\ stopping'

(* While the loop runs what is written to it reaches its pipe and no other  *)
(* descriptor ("Event Fd to send data to the thread", p2p.cpp:87).  When it *)
(* does not, mEventPipe[1] is a number anybody may have by then, and before *)
(* the first start() it is 0.                                               *)
EventsReachThePipe ==
  [][EventWritten /\ loop = "run" => use[mEventPipe[2]] = "write"]_vars

(* The descriptors the node still knows: none is forgotten but "lost" ones  *)
(* and listening sockets.  Once the loop is past closing them, by a stop()  *)
(* or of its own, the node keeps nothing else open, unless a start() is at  *)
(* it again; and while the loop runs it has a socket that listens.          *)
StoppedHoldsNothing ==
  /\ \A f \in Fds :
       /\ use[f] = "peer" => f \in peers
       /\ use[f] = "main" => f = mMainSocket
       /\ use[f] = "dial" => \E c \in Connectors : sock[c] = f
       /\ use[f] = "epoll" =>
            /\ f = mEpollFd
            /\ loop \in {"run", "close"} \/ starting \in {"launch", "terminated"}
       /\ use[f] = "read" =>
            /\ f = mEventPipe[1]
            /\ \/ loop \in {"run", "close", "close_read"}
               \/ starting \in {"epoll", "launch", "terminated"}
       /\ use[f] = "write" =>
            /\ f = mEventPipe[2]
            /\ \/ loop \in {"run", "close", "close_read", "close_write"}
               \/ starting \in {"epoll", "launch", "terminated"}
  /\ loop = "run" => mMainSocket \in Fds /\ use[mMainSocket] \in Ports

(* A socket that listens, that no loop serves or will close and that no     *)
(* start() is about to give one.                                            *)
Stray(f) ==
  /\ use[f] \in Ports
  /\ \/ f # mMainSocket
     \/ loop \in {"none", "unset", "exit"} /\ starting = "no"

(* Such a socket is never closed, nor does a start() ever open its port     *)
(* again: each on that port fails at bind (p2p.cpp:73), and stop() does     *)
(* nothing for a node that does not run (117).  Another port still works    *)
(* (test_p2p.cpp:36-40).                                                    *)
PortsStayLost ==
  [][\A f \in Fds : Stray(f) =>
       Stray(f)' /\ \A g \in Fds \ {f} : use'[g] # use[f]]_vars

(* It takes one of two things to lose a port: pipe() fails in start()       *)
(* (p2p.cpp:88), or start() gets past mRunning (36) while a loop that no    *)
(* stop() is going to join is on its way out (356-370).                     *)
PortLostOnlyIf ==
  [][\A f \in Fds : ~Stray(f) /\ Stray(f)' =>
       \/ starting = "pipe" /\ starting' = "no"
       \/ loop # "none" /\ ~running /\ ~stopping]_vars
=============================================================================
