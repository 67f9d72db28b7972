----------------------------- MODULE LegacyP2P ------------------------------
(* The first P2P node, _old_code/p2p.cpp: start() launches a loop thread    *)
(* that accepts clients and reads what they send; stop() joins it.  One     *)
(* thread, its owner's, calls start() and stop(), so that mThreadMutex is   *)
(* free whenever it is wanted; mDataMutex is what owner and loop share.     *)
(*                                                                          *)
(* The variables and actions here are used by LegacyCore, which owns the    *)
(* node and says what its calls are part of.                                *)
EXTENDS Naturals, FiniteSets

CONSTANTS
  Fds,  \* bound: the descriptors clients' sockets can get
  None  \* no descriptor

ASSUME LegacyP2PAssumption == None \notin Fds

VARIABLES
  mRunning,
  thread,     \* where the loop is; "none": mThread is not joinable
  starting,   \* start() has launched the thread and holds mDataMutex
  signalled,  \* the counter of mEventFd is not 0
  main,       \* the loop's main socket is open
  open,       \* client sockets the process has open
  clients,    \* keys of mClientSocket
  epoll,      \* client sockets registered with epfd
  buffered,   \* clients whose rxBuf is not empty
  serving     \* the client epoll_wait reported

p2p == <<mRunning, thread, starting, signalled, main, open, clients, epoll,
         buffered, serving>>

state == <<mRunning, starting, signalled>>
table == <<open, clients, epoll, buffered>>

P2PInit ==
  /\ mRunning = FALSE
  /\ thread = "none"
  /\ starting = FALSE /\ signalled = FALSE
  /\ main = FALSE
  /\ open = {} /\ clients = {} /\ epoll = {} /\ buffered = {}
  /\ serving = None

(* Its process has ended. *)
P2PGone ==
  /\ mRunning' = FALSE
  /\ thread' = "none"
  /\ starting' = FALSE /\ signalled' = FALSE
  /\ main' = FALSE
  /\ open' = {} /\ clients' = {} /\ epoll' = {} /\ buffered' = {}
  /\ serving' = None

Joinable == thread # "none"

DataMutexFree == ~starting

-----------------------------------------------------------------------------
(* start() *)

(* Opens the main socket and the event descriptor and launches the thread,  *)
(* which then runs before mRunning is set.                                  *)
StartLaunch ==
  /\ ~mRunning /\ ~starting
  /\ main' = TRUE
  /\ signalled' = FALSE
  /\ clients' = {} /\ buffered' = {}
  /\ thread' = "check"
  /\ starting' = TRUE
  /\ UNCHANGED <<mRunning, open, epoll, serving>>

StartReturn ==
  /\ starting
  /\ mRunning' = TRUE
  /\ starting' = FALSE
  /\ UNCHANGED <<thread, signalled, main, table, serving>>

-----------------------------------------------------------------------------
(* stop() *)

StopSignal ==
  /\ mRunning
  /\ signalled' = TRUE
  /\ UNCHANGED <<mRunning, thread, starting, main, table, serving>>

StopJoin ==
  /\ mRunning
  /\ thread = "exit"
  /\ thread' = "none"
  /\ mRunning' = FALSE
  /\ signalled' = FALSE
  /\ UNCHANGED <<starting, main, table, serving>>

-----------------------------------------------------------------------------
(* thread_loop() *)

Goto(l) == thread' = l /\ UNCHANGED <<state, main, table, serving>>

(* "while (mRunning)", the first time perhaps before start() has set it.    *)
LoopCheck ==
  /\ thread = "check"
  /\ Goto(IF mRunning THEN "wait" ELSE "end")

(* epoll_wait fails: interrupted by a signal. *)
PollFails == thread = "wait" /\ Goto("end")

(* Mutant of ExitSignal: the event descriptor is not looked at. *)
ExitSignalIgnored == FALSE

ExitSignal == signalled

HandleSignal == thread = "wait" /\ ExitSignal /\ Goto("end")

(* accept() gives a client, or fails and nothing changes. *)
Accept ==
  /\ thread = "wait"
  /\ DataMutexFree
  /\ \E f \in Fds \ open :
       /\ open' = open \cup {f}
       /\ clients' = clients \cup {f}
       /\ epoll' = epoll \cup {f}
  /\ thread' = "check"
  /\ UNCHANGED <<state, main, buffered, serving>>

(* A client's socket has something to read.                                 *)
Serve ==
  /\ thread = "wait"
  /\ serving' \in epoll
  /\ thread' = "read"
  /\ UNCHANGED <<state, main, table>>

Served == thread' = "check" /\ serving' = None /\ UNCHANGED <<state, main>>

(* What arrives is kept, and nothing takes it out again. *)
ReadData ==
  /\ thread = "read"
  /\ DataMutexFree
  /\ buffered' = buffered \cup {serving}
  /\ Served
  /\ UNCHANGED <<open, clients, epoll>>

(* Mutant of EraseClient: the entry stays. *)
EraseNothing == UNCHANGED <<clients, buffered>>

EraseClient ==
  /\ clients' = clients \ {serving}
  /\ buffered' = buffered \ {serving}

ReadEof ==
  /\ thread = "read"
  /\ DataMutexFree
  /\ EraseClient
  /\ open' = open \ {serving}
  /\ epoll' = epoll \ {serving}
  /\ Served

(* read() returned -1, which is added to the size like a length: the buffer *)
(* loses its last byte, perhaps its only one.                               *)
ReadError ==
  /\ thread = "read"
  /\ DataMutexFree
  /\ serving \in buffered
  /\ buffered' \in {buffered, buffered \ {serving}}
  /\ Served
  /\ UNCHANGED <<open, clients, epoll>>

(* With an empty buffer resize() throws, out of the thread: the caller ends *)
(* the process.                                                             *)
ReadThrows == thread = "read" /\ DataMutexFree /\ serving \notin buffered

(* Mutant of RunningAfterLoop: the loop clears mRunning, as the new one does. *)
NotRunningAfterLoop == FALSE

RunningAfterLoop == mRunning

(* Closes epfd, then, with mDataMutex, all sockets.  mRunning stays set. *)
LoopEnd ==
  /\ thread = "end"
  /\ DataMutexFree
  /\ open' = open \ clients
  /\ clients' = {} /\ epoll' = {} /\ buffered' = {}
  /\ main' = FALSE
  /\ mRunning' = RunningAfterLoop
  /\ thread' = "exit"
  /\ UNCHANGED <<starting, signalled, serving>>

(* The steps that the loop takes by itself. *)
LoopRuns == LoopCheck \/ LoopEnd

ReadReturns == ReadData \/ ReadEof \/ ReadError

=============================================================================
