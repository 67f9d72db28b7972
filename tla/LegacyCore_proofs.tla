------------------------- MODULE LegacyCore_proofs --------------------------
(* Theorems about LegacyCore: what the result of initialize() says of the   *)
(* databases, whatever failed in it and wherever processes were killed.     *)
EXTENDS LegacyCore, TLAPS

Owned == <<file, held, pc, created, result, faults, fate>>

(* The kinds of value the argument needs. *)
DataType ==
  /\ file \in [DBs -> {Absent, Damaged} \cup Nat]
  /\ held \in [DBs -> {"none", "disk", "unlinked", "unusable"}]
  /\ created \in [DBs -> Nat]
  /\ faults \subseteq Faults
  /\ \A d \in DBs : file[d] \in Contents(d) /\ created[d] \in 0..Tables[d]

(* Both databases are as initialize() promises. *)
Good ==
  \A d \in DBs :
    /\ held[d] = "disk"
    /\ Complete(d) \/ (file[d] = Damaged /\ "remove" \in faults)

(* Why initialize() is about to throw the files away. *)
Doubt == faults \cap {"open", "read"} # {} \/ \E d \in DBs : ~Complete(d)

CheckInv ==
  /\ pc = "check" => "open" \in faults \/ \A d \in DBs : held[d] = "disk"
  /\ pc = "remove" => Doubt

(* Between the calls of reCreateDBs(): what rm has left has left a fault,   *)
(* and each table was created in the file that is there.                    *)
BuildInv ==
  /\ pc = "reopen" =>
       \A d \in DBs : file[d] = Absent \/ "remove" \in faults
  /\ pc = "create" =>
       \A d \in DBs :
         /\ file[d] = Damaged => "remove" \in faults
         /\ created[d] # 0 =>
              held[d] = "disk" /\ file[d] \in {created[d], Damaged}
         /\ faults = {} => held[d] = "disk" /\ file[d] = created[d]

(* The inductive invariant. *)
CoreInv ==
  /\ DataType
  /\ CheckInv /\ BuildInv
  /\ pc \in {"start", "starting"} => Good
  /\ result = "ok" => Good /\ pc \in {"idle", "join", "destruct"}
  /\ result = "failed" => faults # {}
  /\ fate # "runs" => pc = "idle" /\ result = "none"

-----------------------------------------------------------------------------
(* The databases have tables. *)
LEMMA TablesFact ==
  /\ DBs = {"Chain", "Main"}
  /\ Tables["Chain"] = 2 /\ Tables["Main"] = 3
  /\ \A d \in DBs : Tables[d] \in Nat /\ Tables[d] # 0
BY DEF DBs, Tables

LEMMA InitCore == Init => CoreInv
BY LegacyCoreAssumption
DEF Init, CoreInv, DataType, CheckInv, BuildInv, Good, DBs, Contents, Tables

(* Opening the databases leaves a type and, without a fault, files.         *)
LEMMA Opening ==
  ASSUME DataType, NEW before \in SUBSET Faults, ReOpenDBs(before)
  PROVE  /\ file' \in [DBs -> {Absent, Damaged} \cup Nat]
         /\ held' \in [DBs -> {"none", "disk", "unlinked", "unusable"}]
         /\ \A d \in DBs : file'[d] \in Contents(d)
         /\ faults' \subseteq Faults /\ before \subseteq faults'
         /\ \A d \in DBs : file'[d] = Damaged => file[d] = Damaged
         /\ \A d \in DBs : file[d] = Absent /\ faults' = {} => file'[d] = 0
         /\ "open" \in faults' \/ \A d \in DBs : held'[d] = "disk"
<1>1. PICK failed \in SUBSET DBs :
        /\ held' = [d \in DBs |-> IF d \in failed THEN "unusable" ELSE "disk"]
        /\ file' = [d \in DBs |-> IF file[d] = Absent /\ d \notin failed
                                  THEN 0 ELSE file[d]]
        /\ faults' = before \cup IF failed = {} THEN {} ELSE {"open"}
  BY DEF ReOpenDBs
<1>2. "open" \in faults' \/ failed = {}
  BY <1>1
<1>3. \A d \in DBs : Absent \in Contents(d) /\ 0 \in Contents(d)
  BY TablesFact DEF Contents
<1>4. \A d \in DBs : file'[d] \in Contents(d)
  BY <1>1, <1>3 DEF DataType
<1>. QED
  BY <1>1, <1>2, <1>4, LegacyCoreAssumption DEF DataType, Faults

-----------------------------------------------------------------------------
(* The calls of initialize() *)

LEMMA InitializeKeeps == ASSUME CoreInv, Initialize PROVE CoreInv'
<1>1. /\ DataType /\ ReOpenDBs({}) /\ fate = "runs" /\ fate' = fate
      /\ pc' = "check" /\ result' = "none" /\ created' = created
  BY DEF Initialize, At, CoreInv
<1>2. DataType'
  BY <1>1, Opening DEF DataType
<1>3. CheckInv'
  BY <1>1, Opening DEF CheckInv
<1>. QED
  BY <1>1, <1>2, <1>3 DEF CoreInv, BuildInv

LEMMA CheckKeeps == ASSUME CoreInv, CheckStructure PROVE CoreInv'
<1>1. /\ UNCHANGED <<file, held, created, result, fate>>
      /\ pc = "check" /\ fate = "runs"
      /\ pc' \in {"start", "remove"}
      /\ faults' \in {faults, faults \cup {"read"}}
      /\ pc' = "start" => Matches /\ faults' = faults
      /\ pc' = "remove" => ~Matches \/ faults' = faults \cup {"read"}
  BY DEF CheckStructure, At, data
<1>2. pc' = "start" => Good'
  BY <1>1 DEF Matches, Good, Complete
<1>3. DataType'
  BY <1>1 DEF CoreInv, DataType, Faults
<1>4. pc' = "remove" => Doubt'
  <2>1. faults' = faults \cup {"read"} => Doubt'
    BY DEF Doubt
  <2>2. ~Matches => Doubt
    BY <1>1 DEF Matches, CoreInv, CheckInv, Doubt
  <2>3. Doubt /\ faults' = faults => Doubt'
    BY <1>1 DEF Doubt, Complete
  <2>. QED
    BY <1>1, <2>1, <2>2, <2>3
<1>. QED
  BY <1>1, <1>2, <1>3, <1>4 DEF CoreInv, CheckInv, BuildInv

LEMMA RemoveKeeps == ASSUME CoreInv, Remove PROVE CoreInv'
<1>1. PICK gone \in SUBSET Removable :
       /\ file' = [d \in DBs |-> IF d \in gone THEN Absent ELSE file[d]]
       /\ held' = [d \in DBs |-> IF d \in gone /\ held[d] = "disk"
                                 THEN "unlinked" ELSE held[d]]
       /\ faults' = faults \cup IF gone = Removable THEN {} ELSE {"remove"}
  BY DEF Remove
<1>2. /\ pc = "remove" /\ pc' = "reopen" /\ fate = "runs"
      /\ UNCHANGED <<created, result, fate>>
  BY DEF Remove, At
<1>3. \A d \in DBs : file'[d] = Absent \/ "remove" \in faults'
  BY <1>1 DEF Removable
<1>4. DataType'
  <2>1. \A d \in DBs : Absent \in Contents(d)
    BY DEF Contents
  <2>. QED
    BY <1>1, <1>2, <2>1 DEF CoreInv, DataType, Faults
<1>. QED
  BY <1>1, <1>2, <1>3, <1>4 DEF CoreInv, CheckInv, BuildInv

LEMMA ReOpenKeeps == ASSUME CoreInv, ReOpen PROVE CoreInv'
<1>1. /\ DataType /\ ReOpenDBs(faults) /\ faults \in SUBSET Faults
      /\ pc = "reopen" /\ pc' = "create" /\ fate = "runs"
      /\ created' = [d \in DBs |-> 0] /\ UNCHANGED <<result, fate>>
  BY DEF ReOpen, At, CoreInv, DataType
<1>2. \A d \in DBs : file[d] = Absent \/ "remove" \in faults
  BY <1>1 DEF CoreInv, CheckInv, BuildInv
<1>3. DataType'
  BY <1>1, TablesFact, Opening DEF DataType
<1>4. BuildInv'
  <2>1. \A d \in DBs : file'[d] = Damaged => "remove" \in faults'
    BY <1>1, <1>2, Opening, LegacyCoreAssumption
  <2>2. \A d \in DBs :
          faults' = {} => held'[d] = "disk" /\ file'[d] = created'[d]
    <3>1. faults \subseteq faults'
      BY <1>1, Opening
    <3>. QED
      BY <1>1, <1>2, <3>1, Opening
  <2>. QED
    BY <1>1, <2>1, <2>2 DEF BuildInv
<1>5. faults \subseteq faults'
  BY <1>1, Opening
<1>. QED
  BY <1>1, <1>3, <1>4, <1>5 DEF CoreInv, CheckInv

LEMMA CreateTableKeeps == ASSUME CoreInv, CreateTable PROVE CoreInv'
<1>. DEFINE d == Current
<1>1. d \in DBs
  BY DEF Current, DBs
<1>2. /\ pc = "create" /\ fate = "runs" /\ UNCHANGED <<held, pc, result, faults, fate>>
      /\ held[d] = "disk" /\ file[d] \in {created[d], Damaged}
      /\ file' = [file EXCEPT ![d] = IF @ = Damaged THEN @ ELSE @ + 1]
      /\ created' = [created EXCEPT ![d] = @ + 1]
  BY DEF CreateTable, At, Creatable
<1>3. created[d] \in Nat /\ created[d] # Damaged /\ created[d] + 1 # Damaged
  BY <1>1, LegacyCoreAssumption DEF CoreInv, DataType
<1>0. created[d] < Tables[d]
  <2>1. pc = "create" /\ created # Tables
    BY DEF CreateTable, At
  <2>2. created["Chain"] < 2 \/ created["Main"] < 3
    <3>1. created = [e \in DBs |-> created[e]] /\ Tables = [e \in DBs |-> Tables[e]]
      BY DEF CoreInv, DataType, Tables, DBs
    <3>2. created["Chain"] # 2 \/ created["Main"] # 3
      BY <2>1, <3>1, TablesFact
    <3>. QED
      BY <3>2, TablesFact DEF CoreInv, DataType
  <2>. QED
    BY <2>2, TablesFact DEF Current, CoreInv, DataType
<1>. HIDE DEF d
<1>4. /\ created'[d] = created[d] + 1
      /\ file'[d] = IF file[d] = Damaged THEN Damaged ELSE created[d] + 1
      /\ \A e \in DBs \ {d} : file'[e] = file[e] /\ created'[e] = created[e]
  BY <1>1, <1>2 DEF CoreInv, DataType
<1>5. DataType'
  <2>1. created[d] + 1 \in 0..Tables[d]
    BY <1>0, <1>1, <1>3, TablesFact DEF CoreInv, DataType
  <2>2. file'[d] \in Contents(d)
    BY <1>4, <2>1 DEF Contents
  <2>. QED
    BY <1>1, <1>2, <1>3, <1>4, <2>1, <2>2 DEF CoreInv, DataType
<1>6. BuildInv'
  BY <1>1, <1>2, <1>3, <1>4 DEF CoreInv, CheckInv, BuildInv
<1>. QED
  BY <1>2, <1>5, <1>6 DEF CoreInv, CheckInv

LEMMA CreateFailsKeeps == ASSUME CoreInv, CreateFails PROVE CoreInv'
<1>1. /\ pc = "create" /\ fate = "runs" /\ UNCHANGED <<file, held, created, fate>>
      /\ result' = "failed" /\ pc' = "idle"
      /\ faults' = faults \cup IF Creatable(Current) THEN {"write"} ELSE {}
  BY DEF CreateFails, Fails, At, data
<1>2. faults' # {}
  <2>1. Current \in DBs
    BY DEF Current, DBs
  <2>2. faults = {} => Creatable(Current)
    BY <1>1, <2>1 DEF CoreInv, BuildInv, Creatable
  <2>. QED
    BY <1>1, <2>2
<1>3. DataType'
  BY <1>1 DEF CoreInv, DataType, Faults
<1>. QED
  BY <1>1, <1>2, <1>3 DEF CoreInv, CheckInv, BuildInv

LEMMA CreateEndsKeeps == ASSUME CoreInv, CreateEnds PROVE CoreInv'
<1>1. /\ pc = "create" /\ pc' = "start" /\ fate = "runs" /\ created = Tables
      /\ UNCHANGED <<file, held, created, result, faults, fate>>
  BY DEF CreateEnds, At, data
<1>2. Good'
  BY <1>1, TablesFact DEF CoreInv, BuildInv, Good, Doubt, Complete
<1>. QED
  BY <1>1, <1>2 DEF CoreInv, DataType, CheckInv, BuildInv

(* Steps that keep the databases and their history: of the node, and at the *)
(* ends of initialize() and of the Core.                                    *)
LEMMA QuietKeeps ==
  ASSUME CoreInv, UNCHANGED <<file, held, created, faults, fate>>,
         pc' \notin {"check", "remove", "reopen", "create"},
         result' = "ok" => Good /\ pc' \in {"idle", "join", "destruct"},
         pc' \in {"start", "starting"} => Good,
         result' = "failed" => result = "failed",
         fate # "runs" => pc' = pc /\ result' = result
  PROVE  CoreInv'
BY DEF CoreInv, DataType, CheckInv, BuildInv, Good, Doubt, Complete

LEMMA EndKeeps == ASSUME CoreInv, NEW how, Ends(how) PROVE CoreInv'
<1>1. /\ held' = [d \in DBs |-> "none"] /\ created' = [d \in DBs |-> 0]
      /\ pc' = "idle" /\ result' = "none" /\ faults' = {} /\ file' = file
  BY DEF Ends
<1>2. DataType'
  BY <1>1, TablesFact DEF CoreInv, DataType
<1>. QED
  BY <1>1, <1>2 DEF CoreInv, CheckInv, BuildInv

LEMMA FileKeeps ==
  ASSUME CoreInv, NEW d \in DBs, Damage(d) \/ Lose(d)
  PROVE  CoreInv'
<1>1. /\ fate # "runs" /\ file' \in [DBs -> {Absent, Damaged} \cup Nat]
      /\ UNCHANGED <<held, pc, created, result, faults, fate>>
  BY DEF Damage, Lose, CoreInv, DataType
<1>2. \A e \in DBs : file'[e] \in Contents(e)
  BY DEF Damage, Lose, CoreInv, DataType, Contents
<1>. QED
  BY <1>1, <1>2 DEF CoreInv, DataType, CheckInv, BuildInv

-----------------------------------------------------------------------------
LEMMA StartKeeps ==
  ASSUME CoreInv, AlreadyStarted \/ StartFails \/ Start \/ Started
  PROVE  CoreInv'
<1>1. CASE AlreadyStarted \/ Started
  <2>1. /\ pc \in {"start", "starting"} /\ pc' = "idle" /\ result' = "ok"
        /\ fate = "runs" /\ UNCHANGED <<file, held, created, faults, fate>>
    BY <1>1 DEF AlreadyStarted, Started, Succeeds, At, data
  <2>. QED
    BY <2>1, QuietKeeps DEF CoreInv
<1>2. CASE StartFails
  <2>1. /\ pc' = "idle" /\ result' = "failed" /\ faults' = faults \cup {"start"}
        /\ fate = "runs" /\ UNCHANGED <<file, held, created, fate>>
    BY <1>2 DEF StartFails, Fails, At, data
  <2>. QED
    BY <2>1 DEF CoreInv, DataType, CheckInv, BuildInv, Faults
<1>3. CASE Start
  <2>1. /\ pc = "start" /\ pc' = "starting" /\ fate = "runs"
        /\ UNCHANGED <<file, held, created, result, faults, fate>>
    BY <1>3 DEF Start, At, data
  <2>. QED
    BY <2>1, QuietKeeps DEF CoreInv
<1>. QED
  BY <1>1, <1>2, <1>3

LEMMA DestroyKeeps ==
  ASSUME CoreInv, Destroy \/ Join \/ Destruct
  PROVE  CoreInv'
<1>1. CASE Destroy \/ Join
  <2>1. /\ pc \in {"idle", "join"} /\ pc' \in {"join", "destruct"}
        /\ fate = "runs"
        /\ UNCHANGED <<file, held, created, result, faults, fate>>
    BY <1>1 DEF Destroy, Join, At, data
  <2>. QED
    BY <2>1, QuietKeeps DEF CoreInv
<1>2. CASE Destruct
  BY <1>2, EndKeeps DEF Destruct
<1>. QED
  BY <1>1, <1>2

LEMMA LoopKeeps == ASSUME CoreInv, NEW step, Loop(step) PROVE CoreInv'
<1>1. UNCHANGED Owned
  BY DEF Loop, Owned, data
<1>. QED
  BY <1>1 DEF Owned, CoreInv, DataType, CheckInv, BuildInv, Good, Doubt, Complete

LEMMA NextCore == CoreInv /\ [Next]_vars => CoreInv'
<1>. SUFFICES ASSUME CoreInv, [Next]_vars PROVE CoreInv'
  OBVIOUS
<1>1. CASE OwnerSteps
  BY <1>1, CheckKeeps, RemoveKeeps, ReOpenKeeps, CreateTableKeeps,
     CreateFailsKeeps, CreateEndsKeeps, StartKeeps, DestroyKeeps
  DEF OwnerSteps
<1>2. CASE Initialize \/ Destroy
  BY <1>2, InitializeKeeps, DestroyKeeps
<1>3. CASE \/ Loop(LoopRuns) \/ Loop(ReadReturns) \/ Loop(Accept)
           \/ Loop(Serve) \/ Loop(PollFails) \/ Loop(HandleSignal)
  BY <1>3, LoopKeeps
<1>4. CASE Throws \/ Crash
  BY <1>4, EndKeeps DEF Throws, Crash
<1>5. CASE Restart
  <2>1. /\ fate # "runs" /\ fate' = "runs"
        /\ UNCHANGED <<file, held, pc, created, result, faults>>
    BY <1>5 DEF Restart
  <2>. QED
    BY <2>1 DEF CoreInv, DataType, CheckInv, BuildInv
<1>6. CASE \E d \in DBs : Damage(d) \/ Lose(d)
  BY <1>6, FileKeeps
<1>7. CASE UNCHANGED vars
  <2>1. UNCHANGED Owned
    BY <1>7 DEF vars, Owned
  <2>. QED
    BY <2>1 DEF Owned, CoreInv, DataType, CheckInv, BuildInv, Good, Doubt, Complete
<1>. QED
  BY <1>1, <1>2, <1>3, <1>4, <1>5, <1>6, <1>7 DEF Next

(* The inductive invariant of the Core (core.cpp:16-94), for any clients of *)
(* its node and any number of crashes and restarts.                         *)
THEOREM CoreInvariant == Spec => []CoreInv
BY InitCore, NextCore, PTL DEF Spec

(* initialize() returns true only with both databases open, on disk and of  *)
(* the right structure (core.cpp:16-25), except for a file that rm failed   *)
(* to remove (48).                                                          *)
THEOREM InitializeTells == Spec => []InitializedOnDisk
<1>1. CoreInv => InitializedOnDisk
  BY DEF CoreInv, Good, InitializedOnDisk
<1>. QED
  BY <1>1, CoreInvariant, PTL

(* initialize() returns false only if something failed in it, whatever was  *)
(* left in the files (core.cpp:21-25).                                      *)
THEOREM GivesUpWithReason == Spec => []GivesUpOnlyOnFault
<1>1. CoreInv => GivesUpOnlyOnFault
  BY DEF CoreInv, GivesUpOnlyOnFault
<1>. QED
  BY <1>1, CoreInvariant, PTL

-----------------------------------------------------------------------------
(* Only rm takes a table from a file while the process runs, and it is run  *)
(* only in doubt.                                                           *)
LEMMA ChainStep ==
  ASSUME CoreInv, Next, fate = "runs",
         Complete("Chain"), file'["Chain"] # Tables["Chain"]
  PROVE  ~Complete("Main") \/ faults \cap {"open", "read"} # {}
<1>1. "Chain" \in DBs /\ file["Chain"] = 2 /\ file["Chain"] \in Nat
  BY TablesFact DEF Complete
<1>2. file' # file
  BY DEF Complete
<1>3. Remove \/ Initialize \/ ReOpen \/ CreateTable
  BY <1>2 DEF Next, OwnerSteps, CheckStructure, CreateFails, CreateEnds, Fails,
              AlreadyStarted, StartFails, Start, Started, Succeeds, Join,
              Destruct, Ends, Destroy, Loop, Crash, Throws, Restart, Damage,
              Lose, data
<1>4. CASE Remove
  BY <1>4, TablesFact DEF Remove, At, CoreInv, CheckInv, Doubt, Complete
<1>5. CASE Initialize \/ ReOpen
  <2>1. file'["Chain"] = file["Chain"]
    BY <1>1, <1>5, LegacyCoreAssumption DEF Initialize, ReOpen, ReOpenDBs
  <2>. QED
    BY <2>1 DEF Complete
<1>6. CASE CreateTable
  <2>1. Current = "Chain" => created["Chain"] < 2
    BY TablesFact DEF Current
  <2>2. Current = "Main"
    BY <1>1, <1>6, <2>1, LegacyCoreAssumption
    DEF CreateTable, Creatable, Current, CoreInv, DataType
  <2>3. file'["Chain"] = file["Chain"]
    BY <1>6, <2>2, TablesFact DEF CreateTable, CoreInv, DataType
  <2>. QED
    BY <2>3 DEF Complete
<1>. QED
  BY <1>3, <1>4, <1>5, <1>6

(* A good chain is thrown away only with a main database that is not, or in *)
(* doubt about either (core.cpp:48-51).                                     *)
THEOREM SparesChain == Spec => ChainLostOnlyOnDoubt
<1>. DEFINE A == Complete("Chain") /\ file'["Chain"] # Tables["Chain"]
                   /\ fate = "runs"
                   => ~Complete("Main") \/ faults \cap {"open", "read"} # {}
<1>1. CoreInv /\ [Next]_vars => [A]_vars
  BY ChainStep
<1>. QED
  BY <1>1, CoreInvariant, PTL DEF Spec, ChainLostOnlyOnDoubt

-----------------------------------------------------------------------------
(* The node *)

CtrlType ==
  /\ pc \in {"idle", "check", "remove", "reopen", "create", "start",
             "starting", "join", "destruct"}
  /\ result \in {"none", "ok", "failed"}
  /\ fate \in {"runs", "returned", "killed"}

NodeType ==
  /\ mRunning \in BOOLEAN /\ starting \in BOOLEAN /\ signalled \in BOOLEAN
  /\ main \in BOOLEAN
  /\ thread \in {"none", "check", "wait", "read", "end", "exit"}
  /\ clients \subseteq Fds /\ serving \in Fds \cup {None}

(* mRunning is set as long as there is a thread to be joined, save within   *)
(* start().                                                                 *)
ThreadInv ==
  /\ starting => ~mRunning
  /\ Joinable <=> mRunning \/ starting
  /\ starting <=> pc = "starting"
  /\ pc = "destruct" \/ fate # "runs" => ~Joinable

ServeInv == CtrlType /\ NodeType /\ ThreadInv /\ ClientsAgree

LEMMA InitServe == Init => ServeInv
BY DEF Init, P2PInit, ServeInv, CtrlType, NodeType, ThreadInv, ClientsAgree,
       Joinable

LEMMA CtrlKeeps == ASSUME CtrlType, [Next]_vars PROVE CtrlType'
BY DEF CtrlType, vars, data, Next, OwnerSteps, Initialize, CheckStructure, Remove,
       ReOpen, CreateTable, CreateFails, CreateEnds, Fails, AlreadyStarted,
       StartFails, Start, Started, Succeeds, Join, Destruct, Ends, Destroy,
       Loop, Crash, Throws, Restart, Damage, Lose

(* The loop and its clients. *)
LEMMA LoopServes ==
  ASSUME ServeInv,
         \/ Loop(LoopRuns) \/ Loop(ReadReturns) \/ Loop(Accept)
         \/ Loop(Serve) \/ Loop(PollFails) \/ Loop(HandleSignal)
  PROVE  NodeType' /\ ThreadInv' /\ ClientsAgree'
<1>. USE DEF ServeInv, NodeType, ThreadInv, ClientsAgree, Joinable, Loop, state,
             table
<1>1. CASE Loop(LoopRuns)
  <2>1. CASE Loop(LoopCheck)
    BY <2>1 DEF LoopCheck, Goto
  <2>2. CASE Loop(LoopEnd)
    <3>1. /\ thread = "end" /\ thread' = "exit" /\ main' = FALSE
          /\ UNCHANGED <<mRunning, starting, signalled, serving, pc, fate>>
      BY <2>2 DEF LoopEnd, RunningAfterLoop
    <3>2. open' = {} /\ clients' = {} /\ epoll' = {} /\ buffered' = {}
      BY <2>2 DEF LoopEnd
    <3>3. NodeType'
      BY <3>1, <3>2
    <3>4. ThreadInv'
      BY <3>1
    <3>. QED
      BY <3>1, <3>2, <3>3, <3>4
  <2>. QED
    BY <1>1, <2>1, <2>2 DEF LoopRuns
<1>2. CASE Loop(ReadReturns)
  BY <1>2 DEF ReadReturns, ReadData, ReadEof, ReadError, Served, EraseClient
<1>3. CASE Loop(Accept)
  BY <1>3 DEF Accept
<1>4. CASE Loop(Serve)
  BY <1>4 DEF Serve
<1>5. CASE Loop(PollFails) \/ Loop(HandleSignal)
  BY <1>5 DEF PollFails, HandleSignal, Goto
<1>. QED
  BY <1>1, <1>2, <1>3, <1>4, <1>5

(* start() and stop(). *)
LEMMA OwnerServes ==
  ASSUME ServeInv, Start \/ Started \/ Destroy \/ Join
  PROVE  NodeType' /\ ThreadInv' /\ ClientsAgree'
<1>. USE DEF ServeInv, NodeType, ThreadInv, ClientsAgree, Joinable, At, state,
             table, p2p
<1>1. CASE Start
  BY <1>1 DEF Start, StartLaunch, DataMutexFree
<1>2. CASE Started
  BY <1>2 DEF Started, StartReturn, Succeeds
<1>3. CASE Destroy
  <2>1. CASE mRunning
    BY <1>3, <2>1 DEF Destroy, StopSignal
  <2>2. CASE ~mRunning
    BY <1>3, <2>2 DEF Destroy
  <2>. QED
    BY <2>1, <2>2
<1>4. CASE Join
  BY <1>4 DEF Join, StopJoin
<1>. QED
  BY <1>1, <1>2, <1>3, <1>4

(* Steps of the Core that leave the node alone. *)
LEMMA CoreServes ==
  ASSUME ServeInv,
         \/ Initialize \/ CheckStructure \/ Remove \/ ReOpen
         \/ CreateTable \/ CreateFails \/ CreateEnds
         \/ AlreadyStarted \/ StartFails \/ Restart
         \/ \E d \in DBs : Damage(d) \/ Lose(d)
         \/ UNCHANGED vars
  PROVE  NodeType' /\ ThreadInv' /\ ClientsAgree'
<1>1. UNCHANGED p2p
  BY DEF Initialize, CheckStructure, Remove, ReOpen, CreateTable, CreateFails,
         CreateEnds, AlreadyStarted, StartFails, Restart, Damage, Lose, vars
<1>2. /\ pc' = "starting" <=> pc = "starting"
      /\ pc' = "destruct" => pc = "destruct"
      /\ fate' # "runs" => fate # "runs"
  BY DEF Initialize, CheckStructure, Remove, ReOpen, CreateTable, CreateFails,
         CreateEnds, Fails, AlreadyStarted, Succeeds, StartFails, Restart,
         Damage, Lose, vars, At
<1>. QED
  BY <1>1, <1>2 DEF p2p, ServeInv, NodeType, ThreadInv, ClientsAgree, Joinable

LEMMA EndServes ==
  ASSUME NEW how, Ends(how)
  PROVE  NodeType' /\ ThreadInv' /\ ClientsAgree'
BY DEF Ends, P2PGone, NodeType, ThreadInv, ClientsAgree, Joinable

LEMMA NextServe == ServeInv /\ [Next]_vars => ServeInv'
<1>. SUFFICES ASSUME ServeInv, [Next]_vars PROVE ServeInv'
  OBVIOUS
<1>1. CtrlType'
  BY CtrlKeeps DEF ServeInv
<1>2. NodeType' /\ ThreadInv' /\ ClientsAgree'
  <2>1. CASE Destruct \/ Throws \/ Crash
    BY <2>1, EndServes DEF Destruct, Throws, Crash
  <2>. QED
    BY <2>1, LoopServes, OwnerServes, CoreServes DEF Next, OwnerSteps
<1>. QED
  BY <1>1, <1>2 DEF ServeInv

THEOREM ServeInvariant == Spec => []ServeInv
BY InitServe, NextServe, PTL DEF Spec

(* The sockets, mClientSocket and the epoll set of the legacy node agree,   *)
(* and a loop that ended leaves none (_old_code/p2p.cpp:133-192).           *)
THEOREM ClientsAlwaysAgree == Spec => []ClientsAgree
BY ServeInvariant, PTL DEF ServeInv

(* Every variable keeps its type. *)
THEOREM TypeCorrect == Spec => []TypeOK
<1>1. CoreInv /\ ServeInv => TypeOK
  BY DEF CoreInv, DataType, ServeInv, CtrlType, NodeType, ClientsAgree, TypeOK
<1>. QED
  BY <1>1, CoreInvariant, ServeInvariant, PTL

-----------------------------------------------------------------------------
(* The life cycle *)

(* What the owner sees, spelt out: the node is never fallen. *)
LifeValues ==
  /\ fate = "returned" <=> legacyLife = "gone"
  /\ fate = "killed" <=> legacyLife = "dead"
  /\ fate = "runs" /\ ~Joinable <=> legacyLife = "down"
  /\ fate = "runs" /\ Joinable <=> legacyLife = "up"
  /\ legacyLife \in {"gone", "dead", "down", "up"}

LEMMA LifeMeaning == ServeInv => LifeValues
<1>. SUFFICES ASSUME ServeInv PROVE LifeValues
  OBVIOUS
<1>1. fate \in {"runs", "returned", "killed"}
  BY DEF ServeInv, CtrlType
<1>2. fate = "returned" => legacyLife = "gone"
  BY DEF legacyLife
<1>3. fate = "killed" => legacyLife = "dead"
  BY DEF legacyLife
<1>4. fate = "runs" /\ ~Joinable => legacyLife = "down"
  BY DEF legacyLife, ServeInv, ThreadInv
<1>5. fate = "runs" /\ Joinable => legacyLife = "up"
  BY DEF legacyLife, ServeInv, ThreadInv
<1>. QED
  BY <1>1, <1>2, <1>3, <1>4, <1>5 DEF LifeValues

LifeStep ==
  \/ Lifecycle!Start \/ Lifecycle!Stop \/ Lifecycle!Destroy
  \/ Lifecycle!Terminate \/ Reborn

LEMMA LifeGoesOn ==
  ASSUME ServeInv, LifeValues, LifeValues', [Next]_vars
  PROVE  LifeStep \/ UNCHANGED legacyLife
<1>1. fate = "runs" /\ fate' = "returned" => ~Joinable
  BY DEF Next, OwnerSteps, Initialize, CheckStructure, Remove, ReOpen,
         CreateTable, CreateFails, CreateEnds, Fails, AlreadyStarted,
         StartFails, Start, Started, Succeeds, Join, Destruct, Ends, Destroy,
         Loop, Crash, Throws, Restart, Damage, Lose, At, vars
<1>2. fate # "runs" => fate' \in {fate, "runs"}
  BY DEF Next, OwnerSteps, Initialize, CheckStructure, Remove, ReOpen,
         CreateTable, CreateFails, CreateEnds, Fails, AlreadyStarted,
         StartFails, Start, Started, Succeeds, Join, Destruct, Ends, Destroy,
         Loop, Crash, Throws, Restart, Damage, Lose, At, vars
<1>3. fate # "runs" /\ fate' = "runs" => ~Joinable'
  BY DEF Next, OwnerSteps, Initialize, CheckStructure, Remove, ReOpen,
         CreateTable, CreateFails, CreateEnds, Fails, AlreadyStarted,
         StartFails, Start, Started, Succeeds, Join, Destruct, Ends, Destroy,
         Loop, Crash, Throws, Restart, Damage, Lose, At, vars, p2p, Joinable,
         ServeInv, ThreadInv
<1>. QED
  BY <1>1, <1>2, <1>3
  DEF LifeValues, LifeStep, Lifecycle!Start, Lifecycle!Stop, Lifecycle!Destroy,
      Lifecycle!Terminate, Reborn

(* The legacy node implements the life cycle of its successor and never     *)
(* falls: mRunning stays set until stop() has joined the loop, however the  *)
(* loop ended (_old_code/p2p.cpp:89-106).                                   *)
THEOREM ImplementsLegacyLife == Spec => LegacyLifeSpec
<1>1. Init => Lifecycle!Init
  BY DEF Init, P2PInit, legacyLife, Joinable, Lifecycle!Init
<1>2. ServeInv /\ LifeValues /\ LifeValues' /\ [Next]_vars
        => [LifeStep]_legacyLife
  BY LifeGoesOn
<1>. QED
  BY <1>1, <1>2, LifeMeaning, ServeInvariant, PTL DEF Spec, LegacyLifeSpec, LifeStep
=============================================================================
