------------------------ MODULE P2PNodeWaits_proofs -------------------------
(* Proofs about the waits of a P2P node: the circular waits of Wedged are   *)
(* the only deadlocks it has, whatever its environment and however many     *)
(* threads there are.                                                       *)
EXTENDS P2PNode_proofs, Integers, FiniteSetTheorems, SequenceTheorems,
        WellFoundedInduction

(* No mutex is left locked: each is held by a thread that is between taking *)
(* and releasing it.                                                        *)
HeldInv ==
  /\ threadMutex # None =>
       threadMutex \in Users /\ pc[threadMutex] \in StartPCs \cup StopPCs
  /\ tasksMutex # None =>
       tasksMutex \in Users /\ pc[tasksMutex] \in StopPCs
  /\ peersMutex # None =>
       /\ peersMutex \in Threads
       /\ pc[peersMutex] \in {"start_boot", "conn_thread", "conn_event", "conn_data"}

(* A stop() has written its SHUTDOWN and waits. *)
Joining == \E u \in Users : pc[u] = "stop_join"

(* start() is about to launch the loop. *)
Starting == \E u \in Users : pc[u] = "start_peers"

(* The pipe is open for the loop that reads it, and before that for what    *)
(* one connector still had to write when start() opened it.                 *)
OpenInv ==
  /\ loop \in BodyPCs => pipeEnds = "open"
  /\ pipeEnds = "open" => loop \in BodyPCs \cup {"close_read"} \/ Starting
  /\ Starting =>
       /\ loop = "none" => pipeEnds = "open"
       /\ Len(pipe) <= 2
       /\ \A t \in Threads :
            /\ pc[t] = "conn_event" => Len(pipe) = 0
            /\ pc[t] = "conn_data" => Len(pipe) <= 1
  /\ \A u \in Users : pc[u] \in {"stop_send", "stop_join"} => loop # "none"

(* What a token does to the number of descriptors the loop still has to     *)
(* read: SHUTDOWN is taken for one when it comes too early.                 *)
Weight(tok) ==
  IF tok = "PEER_WELCOME" THEN 1 ELSE IF tok = "TRY_CONNECT" THEN 0 ELSE -1

(* A connector has written its PEER_WELCOME and not its descriptor. *)
HalfWritten == \E t \in Threads : pc[t] = "conn_data"

(* The descriptors still to be written, but for the one token more that a   *)
(* SHUTDOWN under way is.                                                   *)
Margin ==
  (IF HalfWritten THEN 1 ELSE 0) + (IF loop = "post_fd" THEN 1 ELSE 0)
    - (IF Joining THEN 1 ELSE 0)

(* The sum of the weights, token by token. *)
Sums(d) ==
  /\ d[0] = IF loop = "welcome" THEN 1 ELSE 0
  /\ \A i \in 1..Len(pipe) : d[i] = d[i - 1] + Weight(pipe[i])

(* The loop will not wait for a descriptor nobody is going to write. *)
Balanced ==
  \E d \in [0..Len(pipe) -> Int] : Sums(d) /\ d[Len(pipe)] <= Margin

(* At most one SHUTDOWN is in the pipe, that of the stop() that waits. *)
OneShutdown ==
  \A i \in 1..Len(pipe) : pipe[i] = "SHUTDOWN" =>
    Joining /\ \A j \in 1..Len(pipe) : pipe[j] = "SHUTDOWN" => j = i

(* The loop is out of step and ends with the next event it reads. *)
Doomed ==
  /\ loop # "welcome" /\ pipe # <<>>
  /\ pipe[1] \notin {"PEER_WELCOME", "TRY_CONNECT"}

(* A loop is reading the pipe, or will be once start() has launched it. *)
Reading == loop \in BodyPCs \/ (Starting /\ loop = "none")

(* A SHUTDOWN is not lost, although a read that comes too early takes the   *)
(* bytes of up to four events for a descriptor.                             *)
InStep == Doomed \/ (Balanced /\ OneShutdown)

ReadInv == Reading => InStep

(* The inductive invariant. *)
WaitInv == NodeInv /\ HeldInv /\ OpenInv /\ ReadInv

USE DEF Threads, StartPCs, StopPCs, ConnPCs, ThreadPCs, BodyPCs, EndPCs,
        LoopPCs, callers, mutexes, loopVars, channel, marks, table, net,
        At, LoopAt, Goto, LoopGoto, OnlyGoto, OnlyLoopGoto, Free, Up

-----------------------------------------------------------------------------
(* Mutexes *)

(* Every step keeps each mutex with a thread that is going to release it.   *)
LEMMA NextHeld ==
  ASSUME NodeInv, HeldInv, [Next]_vars
  PROVE  HeldInv'
<1>. USE ThreadsAssumption
<1>1. /\ pc \in [Threads -> ThreadPCs]
      /\ LockInv
  BY NodeTypes DEF NodeInv
<1>2. ASSUME NEW u \in Users, UserCalls(u)
      PROVE  HeldInv'
  BY <1>1, <1>2
  DEF HeldInv, UserCalls, StartEnter, CallStop, CallDestroy, AConnect,
      DirectConnect, Spawn
<1>3. ASSUME NEW u \in Users, UserSteps(u)
      PROVE  HeldInv'
  BY <1>1, <1>3
  DEF HeldInv, LockInv, UserSteps, StartSpawn, StartOverThread, StartBoot,
      StartReturn, StopLock, StopRunning, StopNotRunning, StopSend, StopJoin,
      Spawn
<1>4. ASSUME NEW t \in Threads, ConnectSteps(t)
      PROVE  HeldInv'
  BY <1>1, <1>4
  DEF HeldInv, LockInv, ConnectSteps, ConnectFails, Connected, ConnectInsert,
      ConnectRegister, ConnectEvent, ConnectData
<1>5. CASE LoopSteps \/ HandleEvents \/ Accept \/ Serve \/ PollFails
  <2>1. /\ UNCHANGED mutexes
        /\ \A t \in Threads : pc[t] # "idle" => pc'[t] = pc[t]
    BY <1>1, <1>5
    DEF LoopSteps, HandleEvents, ReadPayload, Greet, TryConnect, Launch,
        AcceptInsert, AcceptRegister, AcceptReturn, DecodePeerInfo,
        DecodeReject, DecodeDisconnect, DecodeDiscovery, ReadEof,
        PostWelcome, PostFd, PostTryConnect, RemovePeer, Unwind,
        CloseReadEnd, CloseWriteEnd, DropPeers, HandleShutdown,
        HandleWelcome, HandleTryConnect, Accept, Serve, PollFails, Spawn
  <2>. QED
    BY <2>1 DEF HeldInv
<1>6. CASE Destruct \/ UNCHANGED vars
  BY <1>6 DEF HeldInv, Destruct, vars
<1>. QED
  BY <1>2, <1>3, <1>4, <1>5, <1>6 DEF Next

-----------------------------------------------------------------------------
(* What the pipe holds *)

LEMMA PipeFacts ==
  ASSUME NodeInv
  PROVE  /\ pipe \in Seq(Event \cup Fds) /\ Len(pipe) \in Nat
         /\ pipe = <<>> <=> Len(pipe) = 0
         /\ \A i \in 1..Len(pipe) : pipe[i] \in Event \cup Fds
         /\ Margin \in Int
<1>1. pipe \in Seq(Event \cup Fds) /\ Len(pipe) \in Nat
  BY NodeTypes, LenProperties
<1>2. pipe = <<>> <=> Len(pipe) = 0
  BY <1>1, EmptySeq
<1>3. \A i \in 1..Len(pipe) : pipe[i] \in Event \cup Fds
  BY <1>1
<1>. QED
  BY <1>1, <1>2, <1>3 DEF Margin

LEMMA WeightType == \A tok : Weight(tok) \in Int
BY DEF Weight

(* A step that leaves the pipe as it is. *)
LEMMA ReadStays ==
  ASSUME InStep, pipe' = pipe, loop' = "welcome" <=> loop = "welcome",
         Margin \in Int, Margin' \in Int, Margin <= Margin', Joining => Joining',
         Len(pipe) \in Nat
  PROVE  InStep'
<1>1. CASE Doomed
  BY <1>1 DEF Doomed, InStep
<1>2. CASE Balanced /\ OneShutdown
  <2>1. PICK d \in [0..Len(pipe) -> Int] : Sums(d) /\ d[Len(pipe)] <= Margin
    BY <1>2 DEF Balanced
  <2>2. Sums(d)' /\ d \in [0..Len(pipe') -> Int]
    BY <2>1 DEF Sums
  <2>3. d[Len(pipe')] <= Margin'
    BY <2>1
  <2>4. Balanced'
    BY <2>2, <2>3 DEF Balanced
  <2>5. OneShutdown'
    BY <1>2 DEF OneShutdown
  <2>. QED
    BY <2>4, <2>5 DEF InStep
<1>. QED
  BY <1>1, <1>2 DEF InStep

(* A step that writes a token. *)
LEMMA ReadGrows ==
  ASSUME NodeInv, InStep, NEW tok \in Event \cup Fds, pipe' = Append(pipe, tok),
         loop' = "welcome" <=> loop = "welcome",
         Margin' \in Int, Margin + Weight(tok) <= Margin', Joining => Joining',
         tok = "SHUTDOWN" => ~Joining /\ Joining'
  PROVE  InStep'
<1>1. /\ Len(pipe) \in Nat /\ Margin \in Int
      /\ Len(pipe') = Len(pipe) + 1 /\ pipe' # <<>>
      /\ \A i \in 1..Len(pipe) : pipe'[i] = pipe[i]
      /\ pipe'[Len(pipe) + 1] = tok
      /\ pipe = <<>> <=> Len(pipe) = 0
  BY PipeFacts
<1>2. CASE Doomed
  <2>1. pipe'[1] = pipe[1]
    BY <1>1, <1>2 DEF Doomed
  <2>. QED
    BY <1>1, <1>2, <2>1 DEF Doomed, InStep
<1>3. CASE Balanced /\ OneShutdown
  <2>1. PICK d \in [0..Len(pipe) -> Int] : Sums(d) /\ d[Len(pipe)] <= Margin
    BY <1>3 DEF Balanced
  <2>. DEFINE e == [i \in 0..(Len(pipe) + 1) |->
                      IF i <= Len(pipe) THEN d[i] ELSE d[Len(pipe)] + Weight(tok)]
  <2>2. /\ e \in [0..Len(pipe') -> Int]
        /\ \A i \in 0..Len(pipe) : e[i] = d[i]
        /\ e[Len(pipe')] = d[Len(pipe)] + Weight(tok)
        /\ d[Len(pipe)] \in Int
    BY <1>1, <2>1, WeightType
  <2>. HIDE DEF e
  <2>3. ASSUME NEW i \in 1..Len(pipe')
        PROVE  e[i] = e[i - 1] + Weight(pipe'[i])
    <3>1. CASE i \in 1..Len(pipe)
      <4>1. i \in 0..Len(pipe) /\ i - 1 \in 0..Len(pipe)
        BY <1>1, <3>1
      <4>2. e[i] = d[i] /\ e[i - 1] = d[i - 1] /\ pipe'[i] = pipe[i]
        BY <1>1, <2>2, <3>1, <4>1
      <4>. QED
        BY <2>1, <3>1, <4>2 DEF Sums
    <3>2. CASE i = Len(pipe) + 1
      BY <1>1, <2>2, <3>2
    <3>. QED
      BY <1>1, <3>1, <3>2
  <2>4. e[0] = IF loop' = "welcome" THEN 1 ELSE 0
    BY <1>1, <2>1, <2>2 DEF Sums
  <2>5. e[Len(pipe')] <= Margin'
    BY <1>1, <2>1, <2>2, WeightType
  <2>6. Balanced'
    BY <2>2, <2>3, <2>4, <2>5 DEF Balanced, Sums
  <2>7. OneShutdown'
    BY <1>1, <1>3 DEF OneShutdown
  <2>. QED
    BY <2>6, <2>7 DEF InStep
<1>. QED
  BY <1>2, <1>3 DEF InStep

(* A step that reads the first m tokens, of which it makes what it should:  *)
(* the sum is what it then waits for.                                       *)
LEMMA ReadDrops ==
  ASSUME NodeInv, OneShutdown,
         NEW d \in [0..Len(pipe) -> Int], Sums(d), d[Len(pipe)] <= Margin,
         NEW m \in 0..Len(pipe),
         Len(pipe') = Len(pipe) - m,
         \A i \in 1..(Len(pipe) - m) : pipe'[i] = pipe[i + m],
         d[m] >= IF loop' = "welcome" THEN 1 ELSE 0,
         Margin' \in Int, Margin <= Margin', Joining => Joining'
  PROVE  InStep'
<1>1. Len(pipe) \in Nat /\ Margin \in Int /\ Len(pipe') \in Nat /\ m \in Nat
  BY PipeFacts
<1>. DEFINE first == IF loop' = "welcome" THEN 1 ELSE 0
<1>2. /\ first \in Int /\ d[m] \in Int /\ d[m] >= first
      /\ \A i \in 0..Len(pipe') : i + m \in 0..Len(pipe) /\ d[i + m] \in Int
  BY <1>1
<1>3. PICK e \in [0..Len(pipe') -> Int] :
        \A i \in 0..Len(pipe') : e[i] = (d[i + m] - d[m]) + first
  <2>. DEFINE rest == [i \in 0..Len(pipe') |-> (d[i + m] - d[m]) + first]
  <2>1. rest \in [0..Len(pipe') -> Int]
    BY <1>2
  <2>. QED
    BY <2>1
<1>. HIDE DEF first
<1>4. e[0] = first
  BY <1>1, <1>2, <1>3
<1>5. ASSUME NEW i \in 1..Len(pipe')
      PROVE  e[i] = e[i - 1] + Weight(pipe'[i])
  <2>1. /\ i + m \in 1..Len(pipe) /\ (i + m) - 1 = (i - 1) + m
        /\ i \in 0..Len(pipe') /\ i - 1 \in 0..Len(pipe')
        /\ pipe'[i] = pipe[i + m]
    BY <1>1
  <2>2. d[i + m] = d[(i - 1) + m] + Weight(pipe[i + m])
    BY <2>1 DEF Sums
  <2>3. /\ d[(i - 1) + m] \in Int /\ Weight(pipe[i + m]) \in Int
        /\ e[i] = (d[i + m] - d[m]) + first
        /\ e[i - 1] = (d[(i - 1) + m] - d[m]) + first
    BY <1>2, <1>3, <2>1, WeightType
  <2>. QED
    BY <1>2, <2>1, <2>2, <2>3
<1>6. e[Len(pipe')] <= Margin'
  <2>1. Len(pipe') + m = Len(pipe) /\ Len(pipe') \in 0..Len(pipe')
    BY <1>1
  <2>2. e[Len(pipe')] = (d[Len(pipe)] - d[m]) + first /\ d[Len(pipe)] \in Int
    BY <1>2, <1>3, <2>1
  <2>. QED
    BY <1>1, <1>2, <2>2
<1>7. Balanced'
  <2>1. Sums(e)'
    BY <1>4, <1>5 DEF Sums, first
  <2>. QED
    BY <1>3, <1>6, <2>1 DEF Balanced
<1>8. OneShutdown'
  <2>1. \A i \in 1..Len(pipe') : i + m \in 1..Len(pipe) /\ pipe'[i] = pipe[i + m]
    BY <1>1
  <2>2. \A i, j \in 1..Len(pipe') : j + m = i + m => j = i
    BY <1>1
  <2>. QED
    BY <2>1, <2>2 DEF OneShutdown
<1>. QED
  BY <1>7, <1>8 DEF InStep

-----------------------------------------------------------------------------
(* What the read of a descriptor takes *)

(* The least of some numbers. *)
LEMMA LeastNumber ==
  ASSUME NEW S \in SUBSET Nat, S # {}
  PROVE  \E m \in S : \A k \in S : ~(k < m)
<1>1. \E m \in S : \A k \in S : ~(<<k, m>> \in OpToRel(<, Nat))
  BY WFMin, NatLessThanWellFounded, Zenon
<1>. QED
  BY <1>1 DEF OpToRel

(* EventRun counts the events before the first token that is none. *)
LEMMA EventRunCounts ==
  ASSUME NEW s \in Seq(Event \cup Fds)
  PROVE  /\ EventRun(s) \in 0..Len(s)
         /\ \A i \in 1..EventRun(s) : s[i] \in Event
         /\ EventRun(s) < Len(s) => s[EventRun(s) + 1] \notin Event
<1>. DEFINE others == {k \in 1..Len(s) : s[k] \notin Event}
            run == {k \in 1..Len(s) : \A i \in 1..k : s[i] \in Event}
<1>1. Len(s) \in Nat
  BY LenProperties
<1>2. \E n \in 0..Len(s) :
        /\ \A i \in 1..n : s[i] \in Event
        /\ n < Len(s) => s[n + 1] \notin Event
  <2>1. CASE others = {}
    <3>1. \A i \in 1..Len(s) : s[i] \in Event
      BY <2>1
    <3>2. Len(s) \in 0..Len(s) /\ ~(Len(s) < Len(s))
      BY <1>1
    <3>. QED
      BY <3>1, <3>2
  <2>2. CASE others # {}
    <3>1. others \in SUBSET Nat
      OBVIOUS
    <3>2. PICK m \in others : \A k \in others : ~(k < m)
      BY <2>2, <3>1, LeastNumber
    <3>3. /\ m - 1 \in 0..Len(s) /\ (m - 1) + 1 = m
          /\ \A i \in 1..(m - 1) : i \in 1..Len(s) /\ i < m
      BY <1>1
    <3>4. \A i \in 1..(m - 1) : s[i] \in Event
      BY <3>2, <3>3
    <3>5. s[(m - 1) + 1] \notin Event
      BY <3>3
    <3>. QED
      BY <3>3, <3>4, <3>5
  <2>. QED
    BY <2>1, <2>2
<1>3. PICK n \in 0..Len(s) :
        /\ \A i \in 1..n : s[i] \in Event
        /\ n < Len(s) => s[n + 1] \notin Event
  BY <1>2
<1>4. run = 1..n
  <2>1. ASSUME NEW k \in run
        PROVE  k \in 1..n
    <3>1. k \in 1..Len(s) /\ \A i \in 1..k : s[i] \in Event
      OBVIOUS
    <3>2. ~(n < k)
      <4>1. SUFFICES ASSUME n < k PROVE FALSE
        OBVIOUS
      <4>2. n + 1 \in 1..k /\ n < Len(s)
        BY <1>1, <3>1, <4>1
      <4>. QED
        BY <1>3, <3>1, <4>2
    <3>. QED
      BY <1>1, <3>1, <3>2
  <2>2. ASSUME NEW k \in 1..n
        PROVE  k \in run
    <3>1. k \in 1..Len(s) /\ \A i \in 1..k : i \in 1..n
      BY <1>1
    <3>2. \A i \in 1..k : s[i] \in Event
      BY <1>3, <3>1
    <3>. QED
      BY <3>1, <3>2
  <2>. QED
    BY <2>1, <2>2
<1>5. Cardinality(1..n) = n
  BY FS_Interval
<1>6. EventRun(s) = n
  BY <1>4, <1>5 DEF EventRun
<1>. HIDE DEF others, run
<1>. QED
  BY <1>3, <1>6, Zenon

(* A read that finds only events of which at most one is a SHUTDOWN leaves  *)
(* nothing owed by those it took.                                           *)
LEMMA RunBalances ==
  ASSUME NodeInv, OneShutdown,
         NEW d \in [0..Len(pipe) -> Int], Sums(d), d[0] = 1,
         NEW m \in 0..Len(pipe), m <= 4, \A i \in 1..m : pipe[i] \in Event
  PROVE  d[m] >= 0
<1>. DEFINE P(i) == i <= m =>
                      /\ d[i] >= 0
                      /\ (\A j \in 1..i : pipe[j] # "SHUTDOWN") => d[i] >= 1
<1>1. Len(pipe) \in Nat /\ m \in Nat
  BY PipeFacts
<1>2. P(0)
  OBVIOUS
<1>3. ASSUME NEW i \in 1..4, P(i - 1)
      PROVE  P(i)
  <2>1. SUFFICES ASSUME i <= m PROVE P(i)
    OBVIOUS
  <2>2. /\ i \in 1..Len(pipe) /\ i \in 1..m /\ i - 1 <= m
        /\ i - 1 \in 0..Len(pipe) /\ i \in 0..Len(pipe)
        /\ \A j \in 1..(i - 1) : j \in 1..i /\ j \in 1..Len(pipe) /\ j # i
    BY <1>1, <2>1
  <2>3. /\ d[i] = d[i - 1] + Weight(pipe[i]) /\ d[i - 1] \in Int /\ d[i] \in Int
        /\ d[i - 1] >= 0
        /\ (\A j \in 1..(i - 1) : pipe[j] # "SHUTDOWN") => d[i - 1] >= 1
    BY <1>3, <2>2 DEF Sums
  <2>4. CASE pipe[i] = "SHUTDOWN"
    <3>1. \A j \in 1..(i - 1) : pipe[j] # "SHUTDOWN"
      BY <2>2, <2>4 DEF OneShutdown
    <3>2. Weight(pipe[i]) = -1
      BY <2>4 DEF Weight
    <3>3. i \in 1..i
      OBVIOUS
    <3>. QED
      BY <2>3, <2>4, <3>1, <3>2, <3>3
  <2>5. CASE pipe[i] # "SHUTDOWN"
    <3>1. Weight(pipe[i]) \in {0, 1}
      BY <2>2, <2>5 DEF Weight, Event
    <3>2. (\A j \in 1..i : pipe[j] # "SHUTDOWN")
            => \A j \in 1..(i - 1) : pipe[j] # "SHUTDOWN"
      BY <2>2
    <3>. QED
      BY <2>3, <3>1, <3>2
  <2>. QED
    BY <2>4, <2>5
<1>4. P(1)
  BY <1>2, <1>3
<1>5. P(2)
  BY <1>3, <1>4
<1>6. P(3)
  BY <1>3, <1>5
<1>7. P(4)
  BY <1>3, <1>6
<1>8. m \in 0..4
  BY <1>1
<1>. QED
  BY <1>2, <1>4, <1>5, <1>6, <1>7, <1>8

(* The read of a descriptor, whatever comes first. *)
LEMMA PayloadReads ==
  ASSUME NodeInv, ReadInv, ReadPayload
  PROVE  InStep'
<1>1. /\ loop = "welcome" /\ loop' = "greet" /\ pipe # <<>>
      /\ pipe' = AfterPayload(pipe) /\ pc' = pc
  BY DEF ReadPayload
<1>2. /\ pipe \in Seq(Event \cup Fds) /\ Len(pipe) \in Nat \ {0} /\ Margin \in Int
      /\ \A i \in 1..Len(pipe) : pipe[i] \in Event \cup Fds
  BY <1>1, PipeFacts
<1>3. /\ Margin' \in Int /\ Margin <= Margin' /\ Joining' = Joining
  <2>1. (HalfWritten' <=> HalfWritten) /\ Joining' = Joining
    BY <1>1 DEF HalfWritten, Joining
  <2>. QED
    BY <1>1, <2>1 DEF Margin
<1>4. Balanced /\ OneShutdown
  BY <1>1 DEF ReadInv, Reading, InStep, Doomed
<1>5. PICK d \in [0..Len(pipe) -> Int] : Sums(d) /\ d[Len(pipe)] <= Margin
  BY <1>4 DEF Balanced
<1>6. d[0] = 1
  BY <1>1, <1>5 DEF Sums
<1>. DEFINE n == EventRun(pipe)
            rest == [i \in 1..(Len(pipe) - 1) |->
                       IF i <= n THEN "SHUTDOWN" ELSE pipe[i + 1]]
<1>7. /\ n \in 0..Len(pipe)
      /\ \A i \in 1..n : pipe[i] \in Event
      /\ n < Len(pipe) => pipe[n + 1] \notin Event
  BY <1>2, EventRunCounts
<1>8. pipe' = IF n < 4 /\ n < Len(pipe) THEN rest ELSE SubSeq(pipe, 5, Len(pipe))
  BY <1>1, Zenon DEF AfterPayload
<1>9. CASE n < 4 /\ n < Len(pipe)
  <2>1. /\ pipe' = rest /\ Len(pipe') = Len(pipe) - 1
        /\ \A i \in 1..(Len(pipe) - 1) :
             pipe'[i] = IF i <= n THEN "SHUTDOWN" ELSE pipe[i + 1]
    <3>1. pipe' = rest
      BY <1>8, <1>9
    <3>2. Len(rest) = Len(pipe) - 1
      <4>1. rest \in Seq(Event \cup Fds)
        BY <1>2, <1>7 DEF Event
      <4>2. DOMAIN rest = 1..(Len(pipe) - 1) /\ Len(pipe) - 1 \in Nat
        BY <1>2
      <4>. QED
        BY <4>1, <4>2, LenProperties
    <3>. QED
      BY <3>1, <3>2
  <2>2. CASE n = 0
    <3>1. 1 \in 0..Len(pipe) /\ 1 \in 1..Len(pipe) /\ pipe[1] \in Fds
      BY <1>2, <1>7, <2>2, TokensAssumption
    <3>2. Weight(pipe[1]) = -1
      BY <3>1, TokensAssumption DEF Weight, Event
    <3>3. d[1] = 0
      BY <1>5, <1>6, <3>1, <3>2 DEF Sums
    <3>4. \A i \in 1..(Len(pipe) - 1) : pipe'[i] = pipe[i + 1]
      BY <2>1, <2>2
    <3>. QED
      BY <1>1, <1>3, <1>4, <1>5, <2>1, <3>1, <3>3, <3>4, ReadDrops
  <2>3. CASE n # 0
    <3>1. 1 \in 1..(Len(pipe) - 1) /\ 1 <= n
      BY <1>2, <1>7, <1>9, <2>3
    <3>2. pipe'[1] = "SHUTDOWN" /\ Len(pipe') # 0
      <4>. HIDE DEF rest, n
      <4>. QED
        BY <1>2, <2>1, <3>1
    <3>3. pipe' # <<>>
      BY <3>2, LenProperties, EmptySeq
    <3>. QED
      BY <1>1, <3>2, <3>3 DEF InStep, Doomed
  <2>. QED
    BY <2>2, <2>3
<1>10. CASE ~(n < 4 /\ n < Len(pipe))
  <2>. DEFINE m == IF Len(pipe) <= 4 THEN Len(pipe) ELSE 4
  <2>1. pipe' = SubSeq(pipe, 5, Len(pipe))
    BY <1>8, <1>10
  <2>2. /\ m \in 0..Len(pipe) /\ m <= 4
        /\ \A i \in 1..m : pipe[i] \in Event
    BY <1>2, <1>7, <1>10
  <2>3. /\ Len(pipe') = Len(pipe) - m
        /\ \A i \in 1..(Len(pipe) - m) : pipe'[i] = pipe[i + m]
    BY <1>2, <2>1
  <2>4. d[m] >= 0
    BY <1>4, <1>5, <1>6, <2>2, RunBalances
  <2>. HIDE DEF m
  <2>. QED
    BY <1>1, <1>3, <1>4, <1>5, <2>2, <2>3, <2>4, ReadDrops
<1>. QED
  BY <1>9, <1>10

-----------------------------------------------------------------------------
(* Every step keeps the pipe open for the loop, and the loop in step *)

LEMMA InitWait == Init => WaitInv
<1>. SUFFICES ASSUME Init PROVE WaitInv
  OBVIOUS
<1>1. /\ \A t \in Threads : pc[t] = "idle"
      /\ loop = "none" /\ pipeEnds = "closed"
      /\ threadMutex = None /\ tasksMutex = None /\ peersMutex = None
  BY DEF Init
<1>. QED
  BY <1>1, InitInv
  DEF WaitInv, HeldInv, OpenInv, Starting, ReadInv, Reading

(* A step that neither reads nor writes, nor changes who does. *)
LEMMA QuietStep ==
  ASSUME WaitInv, UNCHANGED <<pipe, pipeEnds>>,
         \/ UNCHANGED loop
         \/ /\ loop \in BodyPCs \ {"welcome", "post_fd"}
            /\ loop' \in BodyPCs \ {"welcome", "post_fd"},
         \A t \in Threads :
           /\ pc[t] = "conn_data" <=> pc'[t] = "conn_data"
           /\ pc[t] = "start_peers" <=> pc'[t] = "start_peers"
           /\ pc[t] = "stop_join" <=> pc'[t] = "stop_join"
           /\ pc'[t] = "conn_event" => pc[t] = "conn_event" \/ ~Starting
           /\ pc'[t] = "stop_send" => pc[t] = "stop_send" \/ loop # "none"
  PROVE  OpenInv' /\ ReadInv'
<1>1. /\ NodeInv /\ OpenInv /\ ReadInv
      /\ Len(pipe) \in Nat /\ Margin \in Int
  BY PipeFacts DEF WaitInv
<1>2. /\ HalfWritten' <=> HalfWritten
      /\ Starting' <=> Starting
      /\ Joining' <=> Joining
  BY DEF HalfWritten, Starting, Joining
<1>3. Margin' = Margin
  BY <1>2 DEF Margin
<1>4. OpenInv'
  BY <1>1, <1>2 DEF OpenInv
<1>5. Reading' => Reading
  BY <1>2 DEF Reading
<1>6. ReadInv'
  BY <1>1, <1>2, <1>3, <1>5, ReadStays DEF ReadInv
<1>. QED
  BY <1>4, <1>6

(* start(). *)
LEMMA StartWaits ==
  ASSUME WaitInv, NEW u \in Users,
         \/ StartEnter(u) \/ StartSpawn(u) \/ StartOverThread(u)
         \/ StartBoot(u) \/ StartReturn(u)
  PROVE  OpenInv' /\ ReadInv'
<1>1. /\ NodeInv /\ OpenInv /\ ReadInv /\ LockInv /\ LoopInv
      /\ pc \in [Threads -> ThreadPCs] /\ u \in Threads
      /\ Len(pipe) \in Nat /\ Margin \in Int
  BY NodeTypes, PipeFacts DEF WaitInv, NodeInv
<1>2. CASE StartEnter(u)
  <2>1. /\ ~running /\ pc'[u] = "start_peers" /\ loop' = loop
        /\ pipe' = <<>> /\ pipeEnds' = "open" /\ Len(pipe') = 0
        /\ \A t \in Threads \ {u} : pc'[t] = pc[t]
        /\ threadMutex = None
    BY <1>1, <1>2 DEF StartEnter
  <2>2. \A v \in Users : pc[v] \notin StartPCs \cup StopPCs
    BY <1>1, <2>1, ThreadsAssumption DEF LockInv
  <2>3. Starting' /\ ~Joining' /\ loop \notin BodyPCs
    BY <1>1, <2>1, <2>2 DEF Starting, Joining, LoopInv
  <2>4. OpenInv'
    BY <2>1, <2>2, <2>3 DEF OpenInv
  <2>5. ASSUME Reading'
        PROVE  InStep'
    <3>1. loop' = "none"
      BY <2>1, <2>3, <2>5 DEF Reading
    <3>2. Margin' \in Int /\ Margin' >= 0
      BY <2>3, <3>1 DEF Margin
    <3>. DEFINE d == [i \in 0..0 |-> 0]
    <3>3. d \in [0..0 -> Int] /\ d[0] = 0
      OBVIOUS
    <3>. HIDE DEF d
    <3>4. Balanced'
      BY <2>1, <3>1, <3>2, <3>3 DEF Balanced, Sums
    <3>5. OneShutdown'
      BY <2>1 DEF OneShutdown
    <3>. QED
      BY <3>4, <3>5 DEF InStep
  <2>. QED
    BY <2>4, <2>5 DEF ReadInv
<1>3. CASE StartSpawn(u)
  <2>1. /\ pc[u] = "start_peers" /\ loop = "none" /\ loop' = "wait"
        /\ pc'[u] = "start_boot" /\ UNCHANGED <<pipe, pipeEnds>>
        /\ \A t \in Threads \ {u} : pc'[t] = pc[t]
    BY <1>1, <1>3 DEF StartSpawn, Joinable
  <2>2. \A v \in Users \ {u} : pc[v] \notin StartPCs \cup StopPCs
    BY <1>1, <2>1, OwnersExclude
  <2>3. Starting /\ ~Starting' /\ ~Joining /\ ~Joining' /\ (HalfWritten <=> HalfWritten')
    BY <1>1, <2>1, <2>2 DEF Starting, Joining, HalfWritten
  <2>4. OpenInv'
    BY <1>1, <2>1, <2>2, <2>3 DEF OpenInv
  <2>5. Margin' = Margin
    BY <2>1, <2>3 DEF Margin
  <2>6. InStep
    BY <1>1, <2>1, <2>3 DEF ReadInv, Reading
  <2>7. InStep'
    BY <1>1, <2>1, <2>3, <2>5, <2>6, ReadStays
  <2>. QED
    BY <2>4, <2>7 DEF ReadInv
<1>4. CASE StartOverThread(u)
  BY <1>4, QuietStep DEF StartOverThread
<1>5. CASE StartBoot(u) \/ StartReturn(u)
  <2>1. /\ UNCHANGED <<loop, pipe, pipeEnds>>
        /\ \A t \in Threads :
             \/ pc'[t] = pc[t]
             \/ pc[t] = "idle" /\ pc'[t] = "connect"
             \/ pc[t] = "start_boot" /\ pc'[t] = "idle"
    BY <1>1, <1>5 DEF StartBoot, StartReturn, Spawn
  <2>. QED
    BY <2>1, QuietStep
<1>. QED
  BY <1>2, <1>3, <1>4, <1>5

(* stop(), and the destructor. *)
LEMMA StopWaits ==
  ASSUME WaitInv, NEW u \in Users,
         \/ CallStop(u) \/ CallDestroy(u) \/ StopLock(u) \/ StopRunning(u)
         \/ StopNotRunning(u) \/ StopSend(u) \/ StopJoin(u)
  PROVE  OpenInv' /\ ReadInv'
<1>1. /\ NodeInv /\ OpenInv /\ ReadInv /\ LoopInv
      /\ pc \in [Threads -> ThreadPCs] /\ u \in Threads
      /\ Len(pipe) \in Nat /\ Margin \in Int
  BY NodeTypes, PipeFacts DEF WaitInv, NodeInv
<1>2. CASE \/ CallStop(u) \/ CallDestroy(u) \/ StopLock(u) \/ StopRunning(u)
           \/ StopNotRunning(u)
  <2>1. /\ UNCHANGED <<loop, pipe, pipeEnds>>
        /\ \A t \in Threads \ {u} : pc'[t] = pc[t]
        /\ pc[u] \in {"idle", "stop", "stop_tasks"}
        /\ \/ pc'[u] \in {"idle", "stop", "stop_tasks"}
           \/ pc'[u] = "stop_send" /\ running
    <3>1. CASE CallStop(u) \/ CallDestroy(u)
      BY <1>1, <3>1 DEF CallStop, CallDestroy
    <3>2. CASE StopLock(u) \/ StopRunning(u) \/ StopNotRunning(u)
      BY <1>1, <3>2 DEF StopLock, StopRunning, StopNotRunning
    <3>. QED
      BY <1>2, <3>1, <3>2
  <2>2. running => loop # "none"
    BY <1>1 DEF LoopInv
  <2>. QED
    BY <2>1, <2>2, QuietStep
<1>3. CASE StopSend(u)
  <2>1. /\ pc[u] = "stop_send" /\ pc'[u] = "stop_join"
        /\ UNCHANGED <<loop, pipeEnds>>
        /\ \A t \in Threads \ {u} : pc'[t] = pc[t]
        /\ pipeEnds = "open" => pipe' = Append(pipe, "SHUTDOWN")
    BY <1>1, <1>3 DEF StopSend, Write
  <2>2. \A v \in Users \ {u} : pc[v] \notin StartPCs \cup StopPCs
    BY <1>1, <2>1, OwnersExclude
  <2>3. ~Starting /\ ~Starting' /\ ~Joining /\ Joining' /\ (HalfWritten <=> HalfWritten')
    BY <1>1, <2>1, <2>2 DEF Starting, Joining, HalfWritten
  <2>4. OpenInv'
    BY <1>1, <2>1, <2>2, <2>3 DEF OpenInv
  <2>5. ASSUME Reading'
        PROVE  InStep'
    <3>1. Reading /\ pipeEnds = "open"
      BY <1>1, <2>1, <2>3, <2>5 DEF Reading, OpenInv
    <3>2. Margin' = Margin - 1 /\ Weight("SHUTDOWN") = -1
      BY <2>1, <2>3 DEF Margin, Weight
    <3>3. "SHUTDOWN" \in Event
      BY DEF Event
    <3>. QED
      BY <1>1, <2>1, <2>3, <3>1, <3>2, <3>3, ReadGrows DEF ReadInv
  <2>. QED
    BY <2>4, <2>5 DEF ReadInv
<1>4. CASE StopJoin(u)
  <2>1. /\ pc[u] = "stop_join" /\ pc'[u] = "idle"
        /\ loop = "exit" /\ loop' = "none" /\ UNCHANGED <<pipe, pipeEnds>>
        /\ \A t \in Threads \ {u} : pc'[t] = pc[t]
    BY <1>1, <1>4 DEF StopJoin
  <2>2. \A v \in Users \ {u} : pc[v] \notin StartPCs \cup StopPCs
    BY <1>1, <2>1, OwnersExclude
  <2>3. ~Starting /\ ~Starting'
    BY <1>1, <2>1, <2>2 DEF Starting
  <2>4. OpenInv'
    BY <1>1, <2>1, <2>2, <2>3 DEF OpenInv
  <2>5. ~Reading'
    BY <2>1, <2>3 DEF Reading
  <2>. QED
    BY <2>4, <2>5 DEF ReadInv
<1>. QED
  BY <1>2, <1>3, <1>4

(* aConnect(), and a call of connect(). *)
LEMMA CallWaits ==
  ASSUME WaitInv, NEW u \in Users, AConnect(u) \/ DirectConnect(u)
  PROVE  OpenInv' /\ ReadInv'
<1>1. pc \in [Threads -> ThreadPCs] /\ u \in Threads
  BY NodeTypes DEF WaitInv
<1>2. /\ UNCHANGED <<loop, pipe, pipeEnds>>
      /\ \A t \in Threads :
           pc'[t] = pc[t] \/ (pc[t] = "idle" /\ pc'[t] = "connect")
  BY <1>1 DEF AConnect, DirectConnect, Spawn
<1>. QED
  BY <1>2, QuietStep

(* connect() in whatever thread: it writes its record in two pieces. *)
LEMMA ConnectWaits ==
  ASSUME WaitInv, NEW t \in Threads, ConnectSteps(t)
  PROVE  OpenInv' /\ ReadInv'
<1>1. /\ NodeInv /\ OpenInv /\ ReadInv /\ LockInv
      /\ pc \in [Threads -> ThreadPCs]
      /\ Len(pipe) \in Nat /\ Margin \in Int /\ pipe \in Seq(Event \cup Fds)
  BY NodeTypes, PipeFacts DEF WaitInv, NodeInv
<1>2. CASE \/ ConnectFails(t) \/ Connected(t) \/ ConnectInsert(t)
           \/ ConnectRegister(t)
  <2>1. /\ UNCHANGED <<loop, pipe, pipeEnds>>
        /\ \A s \in Threads \ {t} : pc'[s] = pc[s]
        /\ pc[t] \in {"connect", "conn_peers", "conn_thread"}
        /\ \/ pc'[t] \in {"idle", "conn_peers", "conn_thread"}
           \/ pc'[t] = "conn_event" /\ threadMutex = None
    BY <1>1, <1>2 DEF ConnectFails, Connected, ConnectInsert, ConnectRegister
  <2>2. threadMutex = None => ~Starting
    BY <1>1, ThreadsAssumption DEF LockInv, Starting
  <2>. QED
    BY <2>1, <2>2, QuietStep
<1>3. CASE ConnectEvent(t)
  <2>1. /\ pc[t] = "conn_event" /\ pc'[t] = "conn_data"
        /\ UNCHANGED <<loop, pipeEnds>>
        /\ \A s \in Threads \ {t} : pc'[s] = pc[s]
        /\ pipe' = pipe \/ pipe' = Append(pipe, "PEER_WELCOME")
        /\ pipeEnds = "open" => pipe' = Append(pipe, "PEER_WELCOME")
    BY <1>1, <1>3 DEF ConnectEvent, Write
  <2>2. \A s \in Threads \ {t} : pc[s] \notin {"conn_event", "conn_data"}
    BY <1>1, <2>1, ConnectorsExclude
  <2>3. /\ Starting <=> Starting'
        /\ Joining <=> Joining'
        /\ ~HalfWritten /\ HalfWritten'
    BY <1>1, <2>1, <2>2 DEF Starting, Joining, HalfWritten
  <2>4. "PEER_WELCOME" \in Event
    BY DEF Event
  <2>5. Len(pipe') = Len(pipe) \/ Len(pipe') = Len(pipe) + 1
    BY <1>1, <2>1
  <2>6. OpenInv'
    BY <1>1, <2>1, <2>2, <2>3, <2>5 DEF OpenInv
  <2>7. ASSUME Reading'
        PROVE  InStep'
    <3>1. Reading /\ pipeEnds = "open"
      BY <1>1, <2>1, <2>3, <2>7 DEF Reading, OpenInv
    <3>2. Margin' = Margin + 1 /\ Weight("PEER_WELCOME") = 1
      BY <2>1, <2>3 DEF Margin, Weight
    <3>. QED
      BY <1>1, <2>1, <2>3, <2>4, <3>1, <3>2, ReadGrows DEF ReadInv
  <2>. QED
    BY <2>6, <2>7 DEF ReadInv
<1>4. CASE ConnectData(t)
  <2>1. /\ pc[t] = "conn_data" /\ pc'[t] = "idle"
        /\ UNCHANGED <<loop, pipeEnds>>
        /\ \A s \in Threads \ {t} : pc'[s] = pc[s]
        /\ pipe' = pipe \/ pipe' = Append(pipe, sock[t])
        /\ pipeEnds = "open" => pipe' = Append(pipe, sock[t])
    BY <1>1, <1>4 DEF ConnectData, Write
  <2>2. \A s \in Threads \ {t} : pc[s] \notin {"conn_event", "conn_data"}
    BY <1>1, <2>1, ConnectorsExclude
  <2>3. /\ Starting <=> Starting'
        /\ Joining <=> Joining'
        /\ HalfWritten /\ ~HalfWritten'
    BY <1>1, <2>1, <2>2 DEF Starting, Joining, HalfWritten
  <2>4. sock[t] \in Fds
    BY <1>1, <2>1, NodeTypes DEF NodeInv, SockInv
  <2>5. Len(pipe') = Len(pipe) \/ Len(pipe') = Len(pipe) + 1
    BY <1>1, <2>1
  <2>6. OpenInv'
    BY <1>1, <2>1, <2>2, <2>3, <2>5 DEF OpenInv
  <2>7. ASSUME Reading'
        PROVE  InStep'
    <3>1. Reading /\ pipeEnds = "open"
      BY <1>1, <2>1, <2>3, <2>7 DEF Reading, OpenInv
    <3>2. sock[t] \notin {"SHUTDOWN", "PEER_WELCOME", "TRY_CONNECT"}
      BY <2>4, TokensAssumption DEF Event
    <3>3. Margin' = Margin - 1 /\ Weight(sock[t]) = -1
      BY <2>1, <2>3, <3>2 DEF Margin, Weight
    <3>. QED
      BY <1>1, <2>1, <2>3, <2>4, <3>1, <3>2, <3>3, ReadGrows DEF ReadInv
  <2>. QED
    BY <2>6, <2>7 DEF ReadInv
<1>. QED
  BY <1>2, <1>3, <1>4 DEF ConnectSteps

(* What the loop writes to its own pipe. *)
LEMMA PostWaits ==
  ASSUME WaitInv, PostWelcome \/ PostFd \/ PostTryConnect
  PROVE  OpenInv' /\ ReadInv'
<1>1. /\ NodeInv /\ OpenInv /\ ReadInv /\ LoopInv /\ LoopFdInv
      /\ Margin \in Int /\ peers \subseteq Fds
  BY NodeTypes, PipeFacts DEF WaitInv, NodeInv
<1>2. /\ loop \in {"post_welcome", "post_fd", "post_try"}
      /\ loop' \in {"post_fd", "wait"}
      /\ UNCHANGED <<pc, pipeEnds>>
  BY DEF PostWelcome, PostFd, PostTryConnect, Write
<1>3. /\ pipeEnds = "open" /\ Reading /\ ~Starting
      /\ Starting' <=> Starting
      /\ Joining' <=> Joining
      /\ HalfWritten' <=> HalfWritten
  BY <1>1, <1>2 DEF OpenInv, Reading, Starting, Joining, HalfWritten, LoopInv
<1>4. OpenInv'
  BY <1>1, <1>2, <1>3 DEF OpenInv
<1>5. CASE PostWelcome
  <2>1. /\ loop = "post_welcome" /\ loop' = "post_fd"
        /\ pipe' = Append(pipe, "PEER_WELCOME") /\ "PEER_WELCOME" \in Event
    BY <1>3, <1>5 DEF PostWelcome, Write, Event
  <2>2. Margin' = Margin + 1 /\ Weight("PEER_WELCOME") = 1
    BY <1>3, <2>1 DEF Margin, Weight
  <2>. QED
    BY <1>1, <1>3, <1>4, <2>1, <2>2, ReadGrows DEF ReadInv
<1>6. CASE PostFd
  <2>1. /\ loop = "post_fd" /\ loop' = "wait"
        /\ pipe' = Append(pipe, loopFd) /\ loopFd \in Fds
    BY <1>1, <1>3, <1>6 DEF PostFd, Write, LoopFdInv
  <2>2. loopFd \notin {"SHUTDOWN", "PEER_WELCOME", "TRY_CONNECT"}
    BY <2>1, TokensAssumption DEF Event
  <2>3. Margin' = Margin - 1 /\ Weight(loopFd) = -1
    BY <1>3, <2>1, <2>2 DEF Margin, Weight
  <2>. QED
    BY <1>1, <1>3, <1>4, <2>1, <2>2, <2>3, ReadGrows DEF ReadInv
<1>7. CASE PostTryConnect
  <2>1. /\ loop = "post_try" /\ loop' = "wait"
        /\ pipe' = Append(pipe, "TRY_CONNECT") /\ "TRY_CONNECT" \in Event
    BY <1>3, <1>7 DEF PostTryConnect, Write, Event
  <2>2. Margin' = Margin /\ Weight("TRY_CONNECT") = 0
    BY <1>3, <2>1 DEF Margin, Weight
  <2>. QED
    BY <1>1, <1>3, <1>4, <2>1, <2>2, ReadGrows DEF ReadInv
<1>. QED
  BY <1>5, <1>6, <1>7

(* What the loop reads from its pipe. *)
LEMMA EventWaits ==
  ASSUME WaitInv, HandleEvents \/ ReadPayload
  PROVE  OpenInv' /\ ReadInv'
<1>1. /\ NodeInv /\ OpenInv /\ ReadInv /\ LoopInv
      /\ pipe \in Seq(Event \cup Fds) /\ Len(pipe) \in Nat /\ Margin \in Int
      /\ pipe = <<>> <=> Len(pipe) = 0
  BY PipeFacts DEF WaitInv, NodeInv
<1>2. /\ loop \in {"wait", "welcome"} /\ loop' \in {"welcome", "try", "greet", "close_read"}
      /\ UNCHANGED <<pc, pipeEnds>>
  BY DEF HandleEvents, HandleShutdown, HandleWelcome, HandleTryConnect, ReadPayload
<1>3. /\ pipeEnds = "open" /\ Reading /\ ~Starting
      /\ Starting' <=> Starting
      /\ Joining' <=> Joining
      /\ HalfWritten' <=> HalfWritten
  BY <1>1, <1>2 DEF OpenInv, Reading, Starting, Joining, HalfWritten, LoopInv
<1>4. OpenInv'
  BY <1>1, <1>2, <1>3 DEF OpenInv
<1>5. CASE HandleShutdown
  <2>1. loop' = "close_read"
    BY <1>5 DEF HandleShutdown
  <2>. QED
    BY <1>3, <1>4, <2>1 DEF ReadInv, Reading
<1>6. CASE HandleWelcome \/ HandleTryConnect
  <2>1. /\ loop = "wait" /\ pipe # <<>> /\ pipe' = Tail(pipe) /\ Head(pipe) = pipe[1]
        /\ \/ pipe[1] = "PEER_WELCOME" /\ loop' = "welcome"
           \/ pipe[1] = "TRY_CONNECT" /\ loop' = "try"
    BY <1>1, <1>6 DEF HandleWelcome, HandleTryConnect
  <2>2. Balanced /\ OneShutdown
    BY <1>1, <1>3, <2>1 DEF ReadInv, InStep, Doomed
  <2>3. PICK d \in [0..Len(pipe) -> Int] : Sums(d) /\ d[Len(pipe)] <= Margin
    BY <2>2 DEF Balanced
  <2>4. 1 \in 1..Len(pipe) /\ 1 \in 0..Len(pipe)
    BY <1>1, <2>1
  <2>5. d[0] = 0 /\ d[1] = d[0] + Weight(pipe[1])
    BY <2>1, <2>3, <2>4 DEF Sums
  <2>6. d[1] = IF loop' = "welcome" THEN 1 ELSE 0
    BY <2>1, <2>5 DEF Weight
  <2>7. /\ Len(pipe') = Len(pipe) - 1
        /\ \A i \in 1..(Len(pipe) - 1) : pipe'[i] = pipe[i + 1]
    BY <1>1, <2>1, HeadTailProperties
  <2>8. Margin' = Margin
    BY <1>3, <2>1 DEF Margin
  <2>9. InStep'
    BY <1>1, <1>3, <2>2, <2>3, <2>4, <2>6, <2>7, <2>8, ReadDrops
  <2>. QED
    BY <1>4, <2>9 DEF ReadInv
<1>7. CASE ReadPayload
  BY <1>1, <1>4, <1>7, PayloadReads DEF ReadInv
<1>. QED
  BY <1>5, <1>6, <1>7 DEF HandleEvents

(* What else the loop does, up to its end. *)
LEMMA LoopWaits ==
  ASSUME WaitInv,
         \/ Greet \/ TryConnect \/ Launch \/ Accept \/ AcceptInsert
         \/ AcceptRegister \/ AcceptReturn \/ Serve \/ DecodePeerInfo
         \/ DecodeReject \/ DecodeDisconnect \/ DecodeDiscovery \/ ReadEof
         \/ RemovePeer \/ Unwind
  PROVE  OpenInv' /\ ReadInv'
<1>1. pc \in [Threads -> ThreadPCs]
  BY NodeTypes DEF WaitInv
<1>2. UNCHANGED <<pipe, pipeEnds>>
  BY DEF Greet, TryConnect, Launch, Accept, AcceptInsert, AcceptRegister,
         AcceptReturn, Serve, DecodePeerInfo, DecodeReject, DecodeDisconnect,
         DecodeDiscovery, ReadEof, Receives, RemovePeer, Unwind
<1>3. loop \in BodyPCs \ {"welcome", "post_fd"}
  BY DEF Greet, TryConnect, Launch, Accept, AcceptInsert, AcceptRegister,
         AcceptReturn, Serve, DecodePeerInfo, DecodeReject, DecodeDisconnect,
         DecodeDiscovery, ReadEof, Receives, RemovePeer, Unwind
<1>4. loop' \in BodyPCs \ {"welcome", "post_fd"}
  BY DEF Greet, TryConnect, Launch, Accept, AcceptInsert, AcceptRegister,
         AcceptReturn, Serve, DecodePeerInfo, DecodeReject, DecodeDisconnect,
         DecodeDiscovery, ReadEof, Receives, RemovePeer, Unwind
<1>5. \A t \in Threads :
        pc'[t] = pc[t] \/ (pc[t] = "idle" /\ pc'[t] = "connect")
  BY <1>1
  DEF Greet, TryConnect, Launch, Accept, AcceptInsert, AcceptRegister,
      AcceptReturn, Serve, DecodePeerInfo, DecodeReject, DecodeDisconnect,
      DecodeDiscovery, ReadEof, RemovePeer, Unwind, Spawn
<1>. QED
  BY <1>2, <1>3, <1>4, <1>5, QuietStep

LEMMA EndWaits ==
  ASSUME WaitInv, PollFails \/ CloseReadEnd \/ CloseWriteEnd \/ DropPeers
  PROVE  OpenInv' /\ ReadInv'
<1>1. OpenInv /\ LoopInv /\ Len(pipe) \in Nat
  BY PipeFacts DEF WaitInv, NodeInv
<1>2. /\ loop' \in EndPCs /\ UNCHANGED pc
      /\ loop \in {"wait", "close_read", "close_write", "drop"}
      /\ pipeEnds' = "open" =>
           pipeEnds = "open" /\ (loop' = "close_read" \/ Starting)
      /\ pipe' = pipe \/ (pipe' = <<>> /\ Len(pipe') = 0)
  BY <1>1
  DEF PollFails, CloseReadEnd, CloseWriteEnd, DropPeers, OpenInv
<1>3. Starting' <=> Starting
  BY <1>2 DEF Starting
<1>4. OpenInv'
  BY <1>1, <1>2, <1>3 DEF OpenInv
<1>. QED
  BY <1>2, <1>4 DEF ReadInv, Reading

-----------------------------------------------------------------------------
LEMMA NextWait ==
  ASSUME WaitInv, [Next]_vars
  PROVE  WaitInv'
<1>1. NodeInv' /\ HeldInv'
  BY NextKeeps, NextHeld DEF WaitInv
<1>. SUFFICES OpenInv' /\ ReadInv'
  BY <1>1 DEF WaitInv
<1>2. ASSUME NEW u \in Users, UserCalls(u) \/ UserSteps(u)
      PROVE  OpenInv' /\ ReadInv'
  BY <1>2, StartWaits, StopWaits, CallWaits DEF UserCalls, UserSteps
<1>3. ASSUME NEW t \in Threads, ConnectSteps(t)
      PROVE  OpenInv' /\ ReadInv'
  BY <1>3, ConnectWaits
<1>4. CASE Destruct \/ UNCHANGED vars
  <2>1. UNCHANGED <<pc, loop, pipe, pipeEnds>>
    BY <1>4 DEF Destruct, vars
  <2>. QED
    BY <2>1, QuietStep
<1>5. CASE LoopSteps \/ HandleEvents \/ Accept \/ Serve \/ PollFails
  BY <1>5, PostWaits, EventWaits, LoopWaits, EndWaits DEF LoopSteps
<1>. QED
  BY <1>2, <1>3, <1>4, <1>5 DEF Next

(* The inductive invariant holds in every reachable state. *)
THEOREM WaitInvariant == Spec => []WaitInv
<1>1. Init => WaitInv
  BY InitWait
<1>2. WaitInv /\ [Next]_vars => WaitInv'
  BY NextWait
<1>. QED
  BY <1>1, <1>2, PTL DEF Spec

(* No operation of the node returns, or goes back to waiting for events,    *)
(* with a mutex still locked: HeldInv (p2p.cpp:30, 99, 115, 133, 174-195).  *)
THEOREM NoMutexLeftLocked == Spec => []HeldInv
<1>1. WaitInv => HeldInv
  BY DEF WaitInv
<1>. QED
  BY <1>1, WaitInvariant, PTL

-----------------------------------------------------------------------------
(* Deadlock *)

(* Nobody goes on, and no circular wait explains it. *)
Stuck ==
  /\ ~Wedged /\ ~LoopCanGoOn
  /\ \A t \in Threads : ~CanGoOn(t)

LEMMA StuckFacts ==
  ASSUME WaitInv
  PROVE  /\ NodeInv /\ HeldInv /\ OpenInv /\ ReadInv /\ LockInv /\ LoopInv
         /\ \A t \in Threads : pc[t] \in ThreadPCs
         /\ \A t \in Tasks : pc[t] \in {"idle"} \cup ConnPCs
         /\ \A u \in Users : u \in Threads /\ u \notin Tasks
         /\ \A t \in Tasks : t \in Threads
         /\ boot \in Nat /\ loop \in LoopPCs
         /\ pipeEnds \in {"open", "half", "closed"}
         /\ Len(pipe) \in Nat /\ (pipe = <<>> <=> Len(pipe) = 0)
         /\ PipeCap \in Nat
BY PipeFacts, ThreadsAssumption, BoundsAssumption
DEF WaitInv, NodeInv, TypeOK, LockInv

(* A start() that launches its bootstrap connections is never waited for in *)
(* vain: no stop() can have taken mTasksMutex.                              *)
LEMMA BootGoesOn ==
  ASSUME WaitInv, Stuck
  PROVE  \A t \in Threads : pc[t] # "start_boot"
<1>. SUFFICES ASSUME NEW t \in Threads, pc[t] = "start_boot" PROVE FALSE
  OBVIOUS
<1>1. t \in Users
  BY StuckFacts
<1>2. boot # 0 /\ tasksMutex # None
  BY DEF Stuck, CanGoOn
<1>3. tasksMutex \in Users /\ pc[tasksMutex] \in StopPCs
  BY <1>2, StuckFacts DEF HeldInv
<1>. QED
  BY <1>1, <1>3, StuckFacts, OwnersExclude

(* A stop() that waits for the tasks waits for one that a connector with    *)
(* its peer in mPeers holds up.                                             *)
LEMMA TasksHeldUp ==
  ASSUME WaitInv, Stuck, NEW u \in Users, pc[u] = "stop_tasks",
         NEW t \in Threads, pc[t] \in {"conn_thread", "conn_event", "conn_data"}
  PROVE  HoldsUpTasks(t)
<1>1. PICK s \in Tasks : pc[s] # "idle"
  BY StuckFacts DEF Stuck, CanGoOn, TasksOver
<1>2. pc[s] \in {"conn_peers", "conn_thread", "conn_event", "conn_data"}
  BY <1>1, StuckFacts DEF Stuck, CanGoOn
<1>3. pc[s] # "conn_peers" => s = t
  BY <1>2, StuckFacts, ConnectorsExclude
<1>. QED
  BY <1>2, <1>3 DEF HoldsUpTasks

(* What a full pipe means: the loop that reads it waits for a mutex. *)
LEMMA FullPipe ==
  ASSUME WaitInv, Stuck, PipeCap >= 2, ~PipeTakes,
         NEW t \in Threads, pc[t] \in {"stop_send", "conn_event", "conn_data"}
  PROVE  /\ pipeEnds = "open" /\ Len(pipe) >= PipeCap /\ running
         /\ \/ /\ loop \in {"greet", "try", "accept_peers", "serve", "remove",
                            "remove_serving"}
               /\ peersMutex # None
            \/ loop = "launch" /\ tasksMutex # None
            \/ loop = "accept_thread" /\ threadMutex # None
<1>1. pipeEnds = "open" /\ Len(pipe) >= PipeCap /\ Len(pipe) >= 2
  BY StuckFacts DEF PipeTakes
<1>2. ~Starting
  <2>1. pc[t] = "stop_send" => t \in Users
    BY StuckFacts
  <2>2. pc[t] = "stop_send" => ~Starting
    BY <2>1, StuckFacts, OwnersExclude DEF Starting
  <2>3. Starting => Len(pipe) = 0 \/ Len(pipe) <= 1
    BY <2>2, StuckFacts DEF OpenInv
  <2>. QED
    BY <1>1, <2>3
<1>3. loop \in BodyPCs /\ running
  BY <1>1, <1>2, StuckFacts DEF OpenInv, LoopInv, Stuck, LoopCanGoOn
<1>4. loop \notin {"post_welcome", "post_fd", "post_try"}
  BY <1>1 DEF Stuck, Wedged, PipeWedged
<1>5. pipe # <<>>
  BY <1>1, StuckFacts
<1>. QED
  BY <1>1, <1>3, <1>4, <1>5 DEF Stuck, LoopCanGoOn

(* Who may hold mThreadMutex or mTasksMutex when the loop waits for it. *)
LEMMA LoopWaitsForTasks ==
  ASSUME WaitInv, Stuck, running,
         \/ loop = "launch" /\ tasksMutex # None
         \/ loop = "accept_thread" /\ threadMutex # None
  PROVE  \E u \in Users : pc[u] = "stop_tasks"
<1>1. PICK u \in Users : pc[u] \in StartPCs \cup StopPCs
  BY StuckFacts DEF HeldInv
<1>2. pc[u] # "start_boot"
  BY StuckFacts, BootGoesOn
<1>3. pc[u] # "start_peers"
  BY StuckFacts DEF LoopInv
<1>4. pc[u] \notin {"stop_send", "stop_join"}
  BY DEF Stuck, Wedged, LoopWedged
<1>. QED
  BY <1>1, <1>2, <1>3, <1>4

(* No connector waits for room in the pipe ... *)
LEMMA WritersGoOn ==
  ASSUME WaitInv, Stuck, PipeCap >= 2
  PROVE  \A t \in Threads : pc[t] \notin {"conn_event", "conn_data"}
<1>. SUFFICES ASSUME NEW t \in Threads, pc[t] \in {"conn_event", "conn_data"}
              PROVE  FALSE
  OBVIOUS
<1>1. ~PipeTakes
  BY DEF Stuck, CanGoOn
<1>2. ~PipeWedged
  BY DEF Stuck, Wedged
<1>3. /\ pipeEnds = "open" /\ Len(pipe) >= PipeCap /\ running
      /\ loop \in {"launch", "accept_thread"}
      /\ \/ loop = "launch" /\ tasksMutex # None
         \/ loop = "accept_thread" /\ threadMutex # None
  BY <1>1, <1>2, FullPipe DEF PipeWedged
<1>4. PICK u \in Users : pc[u] = "stop_tasks"
  BY <1>3, LoopWaitsForTasks
<1>5. HoldsUpTasks(t)
  BY <1>4, TasksHeldUp
<1>. QED
  BY <1>2, <1>3, <1>4, <1>5 DEF PipeWedged

(* ... or for mThreadMutex ... *)
LEMMA ConnectorsGoOn ==
  ASSUME WaitInv, Stuck
  PROVE  \A t \in Threads : pc[t] # "conn_thread"
<1>. SUFFICES ASSUME NEW t \in Threads, pc[t] = "conn_thread"
              PROVE  FALSE
  OBVIOUS
<1>1. threadMutex # None
  BY DEF Stuck, CanGoOn
<1>2. PICK u \in Users : pc[u] \in StartPCs \cup StopPCs
  BY <1>1, StuckFacts DEF HeldInv
<1>3. ~ConnectWedged
  BY DEF Stuck, Wedged
<1>4. pc[u] \notin {"start_boot", "start_peers"}
  BY <1>3, StuckFacts, BootGoesOn DEF ConnectWedged
<1>5. pc[u] # "stop_tasks"
  BY <1>3, TasksHeldUp DEF ConnectWedged
<1>6. pc[u] \in {"stop_send", "stop_join"} /\ loop = "exit"
  BY <1>2, <1>3, <1>4, <1>5 DEF ConnectWedged
<1>7. pc[u] = "stop_send"
  BY <1>6, StuckFacts DEF Stuck, CanGoOn
<1>8. pipeEnds = "open"
  BY <1>7, StuckFacts DEF Stuck, CanGoOn, PipeTakes
<1>9. ~Starting
  BY <1>7, StuckFacts, OwnersExclude DEF Starting
<1>. QED
  BY <1>6, <1>8, <1>9, StuckFacts DEF OpenInv

(* ... so that mPeersMutex is free, and no asynchronous connection is left. *)
LEMMA PeersFree ==
  ASSUME WaitInv, Stuck, PipeCap >= 2
  PROVE  /\ peersMutex = None
         /\ \A t \in Threads : pc[t] \notin ConnPCs \cup {"start_peers"}
         /\ TasksOver
<1>1. peersMutex = None
  BY StuckFacts, BootGoesOn, WritersGoOn, ConnectorsGoOn DEF HeldInv
<1>2. \A t \in Threads : pc[t] \notin ConnPCs \cup {"start_peers"}
  BY <1>1, WritersGoOn, ConnectorsGoOn DEF Stuck, CanGoOn
<1>3. TasksOver
  BY <1>2, StuckFacts DEF TasksOver
<1>. QED
  BY <1>1, <1>2, <1>3

(* A stop() that ends the loop gets its SHUTDOWN written and read. *)
LEMMA StopGoesOn ==
  ASSUME WaitInv, Stuck, PipeCap >= 2
  PROVE  \A u \in Users : pc[u] \notin StopPCs
<1>1. SUFFICES ASSUME NEW u \in Users, pc[u] \in StopPCs
               PROVE  FALSE
  OBVIOUS
<1>2. u \in Threads /\ pc[u] \in {"stop_send", "stop_join"}
  BY <1>1, PeersFree, StuckFacts DEF Stuck, CanGoOn
<1>3. loop \notin {"accept_thread", "launch"}
  BY <1>2 DEF Stuck, Wedged, LoopWedged
<1>4. CASE pc[u] = "stop_send"
  <2>1. ~PipeTakes
    BY <1>2, <1>4 DEF Stuck, CanGoOn
  <2>. QED
    BY <1>2, <1>3, <1>4, <2>1, FullPipe, PeersFree
<1>5. CASE pc[u] = "stop_join"
  <2>1. loop # "exit" /\ loop # "none"
    BY <1>2, <1>5, StuckFacts DEF Stuck, CanGoOn, OpenInv
  <2>2. loop \in {"wait", "welcome", "post_welcome", "post_fd", "post_try"}
    BY <1>3, <2>1, StuckFacts, PeersFree DEF Stuck, LoopCanGoOn
  <2>3. loop \notin {"post_welcome", "post_fd", "post_try"}
    BY StuckFacts DEF Stuck, Wedged, PipeWedged, LoopCanGoOn, PipeTakes
  <2>4. loop \in {"wait", "welcome"} /\ pipe = <<>> /\ Len(pipe) = 0
    BY <2>2, <2>3, StuckFacts DEF Stuck, LoopCanGoOn
  <2>5. Balanced
    BY <2>4, StuckFacts DEF ReadInv, Reading, InStep, Doomed
  <2>6. PICK d \in [0..Len(pipe) -> Int] : Sums(d) /\ d[Len(pipe)] <= Margin
    BY <2>5 DEF Balanced
  <2>7. d[0] \in {0, 1} /\ d[0] <= Margin
    BY <2>4, <2>6 DEF Sums
  <2>8. Joining /\ ~HalfWritten
    BY <1>2, <1>5, PeersFree DEF Joining, HalfWritten
  <2>9. Margin = -1
    BY <2>4, <2>8 DEF Margin
  <2>. QED
    BY <2>7, <2>9
<1>. QED
  BY <1>2, <1>4, <1>5

(* In a node whose pipe has room for one record, a call under way goes on,  *)
(* or something it waits for, unless it is in one of the circular waits of  *)
(* Wedged: NoOtherDeadlock.  In particular no stop() waits for a loop that  *)
(* has lost its SHUTDOWN (p2p.cpp:117-120), although a read of the loop may *)
(* take the events of others for a descriptor (line 289).                   *)
THEOREM OnlyTheseDeadlocks ==
  ASSUME PipeCap >= 2
  PROVE  Spec => []NoOtherDeadlock
<1>1. ASSUME WaitInv, Stuck
      PROVE  \A t \in Threads : pc[t] = "idle"
  <2>1. \A u \in Users : pc[u] \notin StartPCs \cup StopPCs
    BY <1>1, StuckFacts, BootGoesOn, PeersFree, StopGoesOn
  <2>2. threadMutex = None /\ tasksMutex = None
    BY <1>1, <2>1, StuckFacts DEF HeldInv
  <2>3. \A t \in Threads : pc[t] # "stop"
    BY <1>1, <2>2 DEF Stuck, CanGoOn
  <2>4. \A t \in Threads : pc[t] \notin ConnPCs
    BY <1>1, PeersFree
  <2>. QED
    BY <1>1, <2>1, <2>3, <2>4, StuckFacts
<1>2. WaitInv => NoOtherDeadlock
  BY <1>1 DEF NoOtherDeadlock, Stuck
<1>. QED
  BY <1>2, WaitInvariant, PTL
=============================================================================
