----------------------------- MODULE Log_proofs -----------------------------
(* Proofs about Log: for any number of loggers and owners, and any number   *)
(* of callbacks added.                                                      *)
EXTENDS Log, FiniteSetTheorems, TLAPS

USE LogAssumption DEF Plain, Colored, Outputs, registry, switches, line, Holding

(* The log starts in a state of the invariant. *)
LEMMA LogInitInv ==
  ASSUME Init
  PROVE  LogInv
<1> USE DEF Init
<1>1. TypeOK
  BY DEF TypeOK
<1>2. MutexInv /\ MapInv /\ CallInv /\ RemovedIsSilent /\ LineInv
  BY DEF MutexInv, MapInv, CallInv, RemovedIsSilent, LineInv
<1> QED
  BY <1>1, <1>2 DEF LogInv

(* While the mutex is free nobody is in the middle of a line. *)
LEMMA FreeMeansIdle ==
  ASSUME MutexInv, mMutex = None
  PROVE  \A t \in Loggers : ~Holding(t)
BY DEF MutexInv

(* Adding and removing callbacks. *)
LEMMA RegistrySteps ==
  ASSUME LogInv, NEW o \in Owners, Add(o) \/ CallWait(o) \/ Wait(o)
  PROVE  LogInv'
<1> USE DEF LogInv
<1>1. CASE Add(o)
  <2>1. NewID \in 3..MaxID /\ mID' = NewID
    BY <1>1 DEF Add, NewID, TypeOK
  <2>2. TypeOK'
    BY <1>1, <2>1 DEF Add, TypeOK
  <2>3. MutexInv'
    BY <1>1 DEF Add, MutexInv
  <2>4. MapInv'
    BY <1>1, <2>1 DEF Add, MapInv, TypeOK, NewID
  <2>5. (\A t \in Loggers : ~Holding(t))'
    BY <1>1, FreeMeansIdle DEF Add
  <2>6. (CallInv /\ RemovedIsSilent /\ LineInv)'
    BY <2>5 DEF CallInv, RemovedIsSilent, LineInv
  <2> QED
    BY <2>2, <2>3, <2>4, <2>6
<1>2. CASE CallWait(o)
  <2>1. TypeOK'
    BY <1>2 DEF CallWait, TypeOK
  <2>2. (MutexInv /\ MapInv /\ CallInv /\ RemovedIsSilent)'
    BY <1>2 DEF CallWait, MutexInv, MapInv, CallInv, RemovedIsSilent, Running
  <2>3. LineInv'
    BY <1>2 DEF CallWait, LineInv, Filter
  <2> QED
    BY <2>1, <2>2, <2>3
<1>3. CASE Wait(o)
  <2>1. TypeOK'
    BY <1>3 DEF Wait, TypeOK
  <2>2. MutexInv'
    BY <1>3 DEF Wait, MutexInv
  <2>3. MapInv'
    <3>1. lazy[o] \notin Outputs
      BY DEF TypeOK
    <3> QED
      BY <1>3, <3>1 DEF Wait, MapInv
  <2>4. (\A t \in Loggers : ~Holding(t))'
    BY <1>3, FreeMeansIdle DEF Wait, MayErase
  <2>5. (CallInv /\ RemovedIsSilent /\ LineInv)'
    BY <2>4 DEF CallInv, RemovedIsSilent, LineInv
  <2> QED
    BY <2>1, <2>2, <2>3, <2>5
<1> QED
  BY <1>1, <1>2, <1>3

(* Using the switches. *)
LEMMA SwitchStep ==
  ASSUME LogInv, Switch
  PROVE  LogInv'
<1> USE DEF LogInv, Switch
<1>1. TypeOK'
  <2>1. switched' \in [Loggers -> BOOLEAN]
    OBVIOUS
  <2>2. mStdout' \in BOOLEAN /\ mColored' \in BOOLEAN
    BY DEF TypeOK
  <2> QED
    BY <2>1, <2>2 DEF TypeOK
<1>2. (MutexInv /\ MapInv /\ CallInv /\ RemovedIsSilent)'
  BY DEF MutexInv, MapInv, CallInv, RemovedIsSilent, Running, TypeOK
<1>3. LineInv'
  <2> SUFFICES ASSUME NEW t \in Loggers, Holding(t)'
               PROVE  /\ called'[t] \ Outputs =
                          {i \in mCallbacks' \ Outputs : i < pos'[t] /\ Filter(i)'}
                      /\ switched'[t]
    BY DEF LineInv
  <2>1. \A i \in mCallbacks \ Outputs : Filter(i)' <=> Filter(i)
    BY DEF Filter
  <2> QED
    BY <2>1 DEF LineInv
<1> QED
  BY <1>1, <1>2, <1>3

(* log(), up to the loop and after a callback returned. *)
LEMMA CallSteps ==
  ASSUME LogInv, NEW t \in Loggers,
         CallLog(t) \/ Lock(t) \/ CallReturns(t) \/ Reenter(t)
  PROVE  LogInv'
<1> USE DEF LogInv
<1>1. UNCHANGED <<registry, switches, line>>
  BY DEF CallLog, Lock, CallReturns, Reenter
<1>2. TypeOK'
  BY <1>1 DEF TypeOK, CallLog, Lock, CallReturns, Reenter
<1>3. MutexInv'
  <2>1. CASE CallLog(t)
    BY <1>1, <2>1 DEF MutexInv, TypeOK, CallLog
  <2>2. CASE Lock(t)
    BY <1>1, <2>2 DEF MutexInv, TypeOK, Lock
  <2>3. CASE CallReturns(t) \/ Reenter(t)
    BY <1>1, <2>3 DEF MutexInv, TypeOK, CallReturns, Reenter
  <2> QED
    BY <2>1, <2>2, <2>3
<1>4. MapInv'
  BY <1>1 DEF MapInv
<1>5. (CallInv /\ RemovedIsSilent)'
  BY <1>1 DEF CallInv, RemovedIsSilent, Running, TypeOK, CallLog, Lock,
              CallReturns, Reenter
<1>6. LineInv'
  <2>1. \A i : Filter(i)' <=> Filter(i)
    BY <1>1 DEF Filter
  <2>2. \A s \in Loggers : Holding(s)' => Holding(s) \/ (s = t /\ Lock(t))
    BY DEF TypeOK, CallLog, Lock, CallReturns, Reenter
  <2>3. ASSUME NEW s \in Loggers, Holding(s)', Holding(s)
        PROVE  /\ called'[s] \ Outputs =
                    {i \in mCallbacks' \ Outputs : i < pos'[s] /\ Filter(i)'}
               /\ ~switched'[s] =>
                    called'[s] \cap Outputs =
                      {i \in Outputs : i < pos'[s] /\ Filter(i)'}
    BY <1>1, <2>1, <2>3 DEF LineInv
  <2>4. ASSUME Lock(t)
        PROVE  /\ called[t] \ Outputs =
                    {i \in mCallbacks \ Outputs : i < pos[t] /\ Filter(i)}
               /\ called[t] \cap Outputs =
                    {i \in Outputs : i < pos[t] /\ Filter(i)}
    <3>1. pos[t] = 0 /\ called[t] = {}
      BY <2>4 DEF Lock, MutexInv
    <3>2. \A i \in mCallbacks \cup Outputs : ~(i < pos[t])
      <4>1. mCallbacks \cup Outputs \subseteq Nat
        BY DEF TypeOK
      <4> HIDE DEF LogInv
      <4> QED
        BY <3>1, <4>1
    <3> QED
      BY <3>1, <3>2
  <2>5. ASSUME NEW s \in Loggers, Holding(s)', ~Holding(s)
        PROVE  /\ called'[s] \ Outputs =
                    {i \in mCallbacks' \ Outputs : i < pos'[s] /\ Filter(i)'}
               /\ ~switched'[s] =>
                    called'[s] \cap Outputs =
                      {i \in Outputs : i < pos'[s] /\ Filter(i)'}
    <3>1. s = t /\ Lock(t)
      BY <2>2, <2>5
    <3> QED
      BY <1>1, <2>1, <2>4, <3>1
  <2> QED
    BY <2>3, <2>5 DEF LineInv
<1> QED
  BY <1>2, <1>3, <1>4, <1>5, <1>6

(* The loop comes to the next entry. *)
LEMMA VisitStep ==
  ASSUME LogInv, NEW t \in Loggers, Visit(t)
  PROVE  LogInv'
<1> USE DEF LogInv
<1>1. PICK i \in Left(t) :
        /\ \A j \in Left(t) : i <= j
        /\ pos' = [pos EXCEPT ![t] = i + 1]
        /\ IF Filter(i)
           THEN /\ pc' = [pc EXCEPT ![t] = "call"]
                /\ called' = [called EXCEPT ![t] = @ \cup {i}]
           ELSE UNCHANGED <<pc, called>>
  BY DEF Visit
<1>2. /\ i \in mCallbacks /\ i \in 0..MaxID /\ i >= pos[t]
      /\ \A j \in mCallbacks : j < i + 1 <=> j < pos[t] \/ j = i
  BY <1>1 DEF Left, TypeOK
<1>3. pc[t] = "loop" /\ Holding(t)
      /\ UNCHANGED <<registry, mMutex, switches, switched>>
  BY DEF Visit
<1>4. \A j : Filter(j)' <=> Filter(j)
  BY <1>3 DEF Filter
<1>5. TypeOK'
  <2>1. pos' \in [Loggers -> 0..(MaxID + 1)]
    BY <1>1, <1>2 DEF TypeOK
  <2>2. called' \in [Loggers -> SUBSET (0..MaxID)]
    <3>1. called[t] \cup {i} \in SUBSET (0..MaxID)
      BY <1>2 DEF TypeOK
    <3> QED
      BY <1>1, <3>1 DEF TypeOK
  <2>3. pc' \in [Loggers -> {"idle", "lock", "loop", "call", "stuck"}]
    BY <1>1 DEF TypeOK
  <2> QED
    BY <1>3, <2>1, <2>2, <2>3 DEF TypeOK
<1>6. (MutexInv /\ MapInv)'
  BY <1>1, <1>2, <1>3 DEF MutexInv, MapInv, TypeOK
<1>7. (CallInv /\ RemovedIsSilent)'
  BY <1>1, <1>2, <1>3 DEF CallInv, RemovedIsSilent, Running, TypeOK
<1>8. LineInv'
  <2>1. ASSUME NEW s \in Loggers, Holding(s)', s # t
        PROVE  /\ called'[s] \ Outputs =
                    {j \in mCallbacks' \ Outputs : j < pos'[s] /\ Filter(j)'}
               /\ ~switched'[s] =>
                    called'[s] \cap Outputs =
                      {j \in Outputs : j < pos'[s] /\ Filter(j)'}
    <3>1. Holding(s) /\ called'[s] = called[s] /\ pos'[s] = pos[s]
      BY <1>1, <2>1 DEF TypeOK
    <3> QED
      BY <1>3, <1>4, <3>1 DEF LineInv
  <2>2. /\ called'[t] = IF Filter(i) THEN called[t] \cup {i} ELSE called[t]
        /\ pos'[t] = i + 1
    BY <1>1 DEF TypeOK
  <2>3. called'[t] \ Outputs =
          {j \in mCallbacks' \ Outputs : j < pos'[t] /\ Filter(j)'}
    BY <1>2, <1>3, <1>4, <2>2 DEF LineInv
  <2>4. ~switched'[t] =>
          called'[t] \cap Outputs =
            {j \in Outputs : j < pos'[t] /\ Filter(j)'}
    BY <1>2, <1>3, <1>4, <2>2 DEF LineInv, MapInv
  <2> QED
    BY <2>1, <2>3, <2>4 DEF LineInv
<1> QED
  BY <1>5, <1>6, <1>7, <1>8

(* The loop is at the end of the map. *)
LEMMA UnlockStep ==
  ASSUME LogInv, NEW t \in Loggers, Unlock(t)
  PROVE  LogInv'
<1> USE DEF LogInv, Unlock, Release
<1>1. TypeOK'
  BY DEF TypeOK
<1>2. MutexInv'
  BY DEF MutexInv, TypeOK
<1>3. MapInv'
  BY DEF MapInv
<1>4. (\A s \in Loggers : ~Holding(s))'
  BY <1>2 DEF MutexInv
<1>5. (CallInv /\ RemovedIsSilent /\ LineInv)'
  BY <1>4 DEF CallInv, RemovedIsSilent, LineInv
<1> QED
  BY <1>1, <1>2, <1>3, <1>5

-----------------------------------------------------------------------------
(* The inductive invariant of the log. *)
THEOREM LogInvariant == Spec => []LogInv
<1>1. Init => LogInv
  BY LogInitInv
<1>2. LogInv /\ [Next]_vars => LogInv'
  <2> SUFFICES ASSUME LogInv, [Next]_vars
               PROVE  LogInv'
    OBVIOUS
  <2>1. CASE UNCHANGED vars
    BY <2>1 DEF vars, LogInv, TypeOK, MutexInv, MapInv, CallInv,
                RemovedIsSilent, Running, LineInv, Filter
  <2>2. CASE Next
    BY <2>2, RegistrySteps, SwitchStep, CallSteps, VisitStep, UnlockStep
       DEF Next, LogSteps
  <2> QED
    BY <2>1, <2>2
<1> QED
  BY <1>1, <1>2, PTL DEF Spec

(* Every variable keeps its type. *)
THEOREM LogTypeCorrect == Spec => []TypeOK
BY LogInvariant, PTL DEF LogInv

(* A callback that was removed never runs: log.cpp:70-76 erases under the   *)
(* mutex that log.h:68 holds for as long as callbacks run.                  *)
THEOREM RemovedStaysSilent == Spec => []RemovedIsSilent
BY LogInvariant, PTL DEF LogInv

(* A line reaches each callback of the map that accepts it, and no other.   *)
THEOREM EveryLineDelivered == Spec => []DeliveredToAll
<1>1. LogInv => DeliveredToAll
  <2> SUFFICES ASSUME LogInv, NEW t \in Loggers, pc[t] = "loop", Left(t) = {}
               PROVE  called[t] \ Outputs =
                        {i \in mCallbacks \ Outputs : Filter(i)}
    BY DEF DeliveredToAll
  <2>1. \A i \in mCallbacks : i < pos[t]
    BY DEF LogInv, TypeOK, Left
  <2> QED
    BY <2>1 DEF LogInv, LineInv
<1> QED
  BY <1>1, LogInvariant, PTL

(* A line is printed once if printing is on, whatever the switches were     *)
(* before: the two filters (log.cpp:17, 31) exclude each other.             *)
THEOREM LinePrintedOnce == Spec => []PrintedOnce
<1>1. LogInv => PrintedOnce
  <2> SUFFICES ASSUME LogInv, NEW t \in Loggers, pc[t] = "loop",
                      Left(t) = {}, ~switched[t]
               PROVE  Cardinality(called[t] \cap Outputs) =
                        IF mStdout THEN 1 ELSE 0
    BY DEF PrintedOnce
  <2>1. \A i \in Outputs : i \in mCallbacks /\ i < pos[t]
    BY DEF LogInv, TypeOK, MapInv, Left
  <2>2. called[t] \cap Outputs = {i \in Outputs : Filter(i)}
    BY <2>1 DEF LogInv, LineInv
  <2>3. {i \in Outputs : Filter(i)} =
          IF mStdout THEN {IF mColored THEN Colored ELSE Plain} ELSE {}
    BY DEF Filter, LogInv, TypeOK
  <2> QED
    BY <2>2, <2>3, FS_EmptySet, FS_Singleton
<1> QED
  BY <1>1, LogInvariant, PTL
=============================================================================
