-------------------------------- MODULE Log ---------------------------------
(* The log of core/log.h: a static map of callbacks behind one mutex.       *)
(*                                                                          *)
(* Loggers call log(), which holds mMutex while it goes through the map;    *)
(* owners add a callback each and remove it through the Lazy that add()     *)
(* returned; the switches of the two callbacks that print are atomics that  *)
(* change at any time.                                                      *)
EXTENDS Naturals, FiniteSets

CONSTANTS
  Loggers,    \* threads that log
  Owners,     \* users that add and remove callbacks
  Rejecting,  \* owners whose filter rejects what is logged
  Reentrant,  \* owners whose callback may itself use the log
  None,       \* no thread, no callback
  MaxID       \* bound: ids given to callbacks

ASSUME LogAssumption ==
  /\ Rejecting \subseteq Owners
  /\ Reentrant \subseteq Owners
  /\ None \notin Loggers /\ None \notin Nat
  /\ MaxID \in Nat \ {0, 1}

(* Ids of the callbacks that print, uncolored and colored. *)
Plain   == 0
Colored == 1
Outputs == {Plain, Colored}

VARIABLES
  mCallbacks, \* ids of the callbacks
  mID,        \* last id given out
  mMutex,     \* its owner
  mStdout,    \* whether anything is printed
  mColored,   \* by which of the two
  lazy,       \* what each owner's Lazy does: the id it removes
  waiting,    \* owners in Lazy::wait()
  ownerOf,    \* the owner of each id given out
  pc,         \* of each logger
  pos,        \* id from which on its loop has yet to come
  called,     \* ids it has called for the line it logs
  switched    \* whether a switch changed since it took the mutex

vars == <<mCallbacks, mID, mMutex, mStdout, mColored, lazy, waiting, ownerOf,
          pc, pos, called, switched>>

registry == <<mCallbacks, mID, lazy, waiting, ownerOf>>
switches == <<mStdout, mColored>>
line     == <<pos, called, switched>>

Init ==
  /\ mCallbacks = Outputs
  /\ mID = 2
  /\ mMutex = None
  /\ mStdout = TRUE /\ mColored = TRUE
  /\ lazy = [o \in Owners |-> None]
  /\ waiting = {}
  /\ ownerOf = [i \in 3..MaxID |-> None]
  /\ pc = [t \in Loggers |-> "idle"]
  /\ pos = [t \in Loggers |-> 0]
  /\ called = [t \in Loggers |-> {}]
  /\ switched = [t \in Loggers |-> FALSE]

-----------------------------------------------------------------------------
(* add() and the Lazy it returns *)

(* Mutant of NewID: the id before the increment. *)
OldID == mID

NewID == mID + 1

Add(o) ==
  /\ lazy[o] = None
  /\ mMutex = None
  /\ mID < MaxID
  /\ mID' = mID + 1
  /\ mCallbacks' = mCallbacks \cup {NewID}
  /\ ownerOf' = [ownerOf EXCEPT ![NewID] = o]
  /\ lazy' = [lazy EXCEPT ![o] = NewID]
  /\ UNCHANGED <<mMutex, waiting, switches, pc, line>>

(* wait(), or the destructor: the first of them runs the function. *)
CallWait(o) ==
  /\ lazy[o] # None
  /\ o \notin waiting
  /\ waiting' = waiting \cup {o}
  /\ UNCHANGED <<mCallbacks, mID, mMutex, switches, lazy, ownerOf, pc, line>>

(* Mutant of MayErase: the map is changed without the mutex. *)
MayEraseAnyTime == TRUE

MayErase == mMutex = None

Wait(o) ==
  /\ o \in waiting
  /\ MayErase
  /\ mCallbacks' = mCallbacks \ {lazy[o]}
  /\ lazy' = [lazy EXCEPT ![o] = None]
  /\ waiting' = waiting \ {o}
  /\ UNCHANGED <<mID, mMutex, switches, ownerOf, pc, line>>

(* The owner of the switches sets them. *)
Switch ==
  /\ \/ mStdout' = ~mStdout /\ UNCHANGED mColored
     \/ mColored' = ~mColored /\ UNCHANGED mStdout
  /\ switched' = [t \in Loggers |-> pc[t] \in {"loop", "call", "stuck"}]
  /\ UNCHANGED <<registry, mMutex, pc, pos, called>>

-----------------------------------------------------------------------------
(* log() *)

CallLog(t) ==
  /\ pc[t] = "idle"
  /\ pc' = [pc EXCEPT ![t] = "lock"]
  /\ UNCHANGED <<registry, mMutex, switches, line>>

Lock(t) ==
  /\ pc[t] = "lock"
  /\ mMutex = None
  /\ mMutex' = t
  /\ pc' = [pc EXCEPT ![t] = "loop"]
  /\ UNCHANGED <<registry, switches, line>>

(* Entries the loop has not come to. *)
Left(t) == {i \in mCallbacks : i >= pos[t]}

(* Mutant of Filter: the plain output does not look at mColored. *)
FilterAlwaysPlain(i) ==
  \/ i \in Outputs /\ mStdout /\ (i = Colored => mColored)
  \/ i \notin Outputs /\ ownerOf[i] \notin Rejecting

(* The filter of a callback, for a line at or above mVerboseLevel. *)
Filter(i) ==
  \/ i \in Outputs /\ mStdout /\ (i = Colored <=> mColored)
  \/ i \notin Outputs /\ ownerOf[i] \notin Rejecting

Visit(t) ==
  /\ pc[t] = "loop"
  /\ \E i \in Left(t) :
       /\ \A j \in Left(t) : i <= j
       /\ pos' = [pos EXCEPT ![t] = i + 1]
       /\ IF Filter(i)
          THEN /\ pc' = [pc EXCEPT ![t] = "call"]
               /\ called' = [called EXCEPT ![t] = @ \cup {i}]
          ELSE UNCHANGED <<pc, called>>
  /\ UNCHANGED <<registry, mMutex, switches, switched>>

(* The callback that t runs. *)
Running(t) == pos[t] - 1

CallReturns(t) ==
  /\ pc[t] = "call"
  /\ pc' = [pc EXCEPT ![t] = "loop"]
  /\ UNCHANGED <<registry, mMutex, switches, line>>

(* A callback that logs, adds or removes locks a mutex its thread holds. *)
Reenter(t) ==
  /\ pc[t] = "call"
  /\ Running(t) \notin Outputs
  /\ ownerOf[Running(t)] \in Reentrant
  /\ pc' = [pc EXCEPT ![t] = "stuck"]
  /\ UNCHANGED <<registry, mMutex, switches, line>>

(* Mutant of Release: the mutex stays locked. *)
ReleaseNothing == UNCHANGED mMutex

Release == mMutex' = None

Unlock(t) ==
  /\ pc[t] = "loop"
  /\ Left(t) = {}
  /\ Release
  /\ pc' = [pc EXCEPT ![t] = "idle"]
  /\ pos' = [pos EXCEPT ![t] = 0]
  /\ called' = [called EXCEPT ![t] = {}]
  /\ switched' = [switched EXCEPT ![t] = FALSE]
  /\ UNCHANGED <<registry, switches>>

-----------------------------------------------------------------------------
LogSteps(t) == Visit(t) \/ CallReturns(t) \/ Unlock(t)

Next ==
  \/ \E o \in Owners : Add(o) \/ CallWait(o) \/ Wait(o)
  \/ \E t \in Loggers : CallLog(t) \/ Lock(t) \/ LogSteps(t) \/ Reenter(t)
  \/ Switch

Spec == Init /\ [][Next]_vars

(* Threads run, callbacks return, and a mutex that is free again and again  *)
(* is got.  Nobody need call anything.                                      *)
Fairness ==
  /\ \A t \in Loggers : SF_vars(Lock(t)) /\ WF_vars(LogSteps(t))
  /\ \A o \in Owners : SF_vars(Wait(o))

FairSpec == Spec /\ Fairness

-----------------------------------------------------------------------------
(* Every variable keeps its type. *)
TypeOK ==
  /\ mCallbacks \subseteq 0..MaxID
  /\ mID \in 2..MaxID
  /\ mMutex \in Loggers \cup {None}
  /\ mStdout \in BOOLEAN /\ mColored \in BOOLEAN
  /\ lazy \in [Owners -> 3..MaxID \cup {None}]
  /\ waiting \subseteq Owners
  /\ ownerOf \in [3..MaxID -> Owners \cup {None}]
  /\ pc \in [Loggers -> {"idle", "lock", "loop", "call", "stuck"}]
  /\ pos \in [Loggers -> 0..(MaxID + 1)]
  /\ called \in [Loggers -> SUBSET (0..MaxID)]
  /\ switched \in [Loggers -> BOOLEAN]

(* A callback that runs is in the map: once wait() has returned, or the     *)
(* Lazy is destroyed, the callback does not run and never will, so what it  *)
(* refers to may go (log.cpp:70-76; tests/test_log.cpp:11 refers to a local *)
(* variable).                                                               *)
RemovedIsSilent ==
  \A t \in Loggers : pc[t] \in {"call", "stuck"} => Running(t) \in mCallbacks

(* When log() ends it has called each callback of the map whose filter      *)
(* accepts the line, and no other: the map is the same all the time.        *)
DeliveredToAll ==
  \A t \in Loggers :
    pc[t] = "loop" /\ Left(t) = {} =>
      called[t] \ Outputs = {i \in mCallbacks \ Outputs : Filter(i)}

(* A line is printed by one of the two outputs if mStdout, by neither if    *)
(* not, unless somebody uses the switches meanwhile: each filter reads      *)
(* mColored for itself (log.cpp:17, 31).                                    *)
PrintedOnce ==
  \A t \in Loggers :
    pc[t] = "loop" /\ Left(t) = {} /\ ~switched[t] =>
      Cardinality(called[t] \cap Outputs) = IF mStdout THEN 1 ELSE 0

Holding(t) == pc[t] \in {"loop", "call", "stuck"}

(* The mutex is its holder's, and a line starts afresh. *)
MutexInv ==
  \A t \in Loggers :
    /\ Holding(t) <=> mMutex = t
    /\ ~Holding(t) => pos[t] = 0 /\ called[t] = {} /\ ~switched[t]

(* The outputs stay in the map; the other ids in it were given out. *)
MapInv == Outputs \subseteq mCallbacks /\ mCallbacks \subseteq Outputs \cup 3..mID

(* A running callback is where the loop is. *)
CallInv ==
  \A t \in Loggers : pc[t] \in {"call", "stuck"} => pos[t] > 0

(* What has been called so far of what the loop has passed. *)
LineInv ==
  \A t \in Loggers :
    Holding(t) =>
      /\ called[t] \ Outputs =
           {i \in mCallbacks \ Outputs : i < pos[t] /\ Filter(i)}
      /\ ~switched[t] =>
           called[t] \cap Outputs = {i \in Outputs : i < pos[t] /\ Filter(i)}

(* The inductive invariant: the map is still while somebody goes through it *)
(* (log.h:68, log.cpp:67, 71), and what was called is what was passed.      *)
LogInv ==
  /\ TypeOK /\ MutexInv /\ MapInv /\ CallInv /\ RemovedIsSilent /\ LineInv

Stuck == \E t \in Loggers : pc[t] = "stuck"

(* A call of log() comes to its turn and to its end while others log, add   *)
(* and remove, unless a callback uses the log (log.h:68-77).                *)
LogReturns ==
  \A t \in Loggers : pc[t] = "lock" ~> pc[t] = "idle" \/ Stuck

(* wait() returns, unless a callback uses the log: the callback it removes  *)
(* may run when it is called (log.cpp:70-76).                               *)
WaitReturns ==
  \A o \in Owners : o \in waiting ~> o \notin waiting \/ Stuck
=============================================================================
