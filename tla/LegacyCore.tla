----------------------------- MODULE LegacyCore -----------------------------
(* The first program, _old_code/core.cpp: a Core opens its databases,       *)
(* creates them again if they are not as they must be, starts its P2P node  *)
(* (LegacyP2P) and its miner, and is destroyed.  One thread owns it.  The   *)
(* process may be killed at any step and run again with the files it left.  *)
(*                                                                          *)
(* Modelled failures: opening, reading or writing a database, removing a    *)
(* file, starting the node; files damaged or removed while nobody runs.     *)
(* Each SQL statement is a transaction, and a crash leaves no trace of one  *)
(* that was not completed.                                                  *)
EXTENDS LegacyP2P

CONSTANTS Absent, Damaged  \* no file; a file with other contents

ASSUME LegacyCoreAssumption ==
  Absent # Damaged /\ Absent \notin Nat /\ Damaged \notin Nat

DBs == {"Chain", "Main"}

(* How many tables each database has. *)
Tables == [Chain |-> 2, Main |-> 3]

(* What a file holds: no file, the first n tables, or something else. *)
Contents(d) == {Absent, Damaged} \cup 0..Tables[d]

(* What may go wrong in an initialize(). *)
Faults == {"open", "read", "remove", "write", "start"}

VARIABLES
  file,    \* on disk
  held,    \* what mDB has open: nothing, the file on disk, a file that was
           \* removed since, or a handle on which every statement fails
  pc,      \* of the thread that owns the Core
  created, \* tables reCreateDBs has created in each database
  result,  \* of the last initialize()
  faults,  \* history: what went wrong since initialize() was called
  fate     \* of the process: it runs, has returned from main or was killed

vars == <<p2p, file, held, pc, created, result, faults, fate>>

data == <<file, held, created>>

Init ==
  /\ P2PInit
  /\ held = [d \in DBs |-> "none"]
  /\ pc = "idle"
  /\ created = [d \in DBs |-> 0]
  /\ result = "none"
  /\ faults = {}
  /\ fate = "runs"
  /\ file = [d \in DBs |-> Absent]

At(l) == fate = "runs" /\ pc = l

-----------------------------------------------------------------------------
(* initialize(): the databases *)

(* SQL::DB(path) creates an empty file if there is none; swap() closes what *)
(* was open before.  Nothing looks at the status.                           *)
ReOpenDBs(before) ==
  \E failed \in SUBSET DBs :
    /\ held' = [d \in DBs |-> IF d \in failed THEN "unusable" ELSE "disk"]
    /\ file' = [d \in DBs |-> IF file[d] = Absent /\ d \notin failed
                              THEN 0 ELSE file[d]]
    /\ faults' = before \cup IF failed = {} THEN {} ELSE {"open"}

Initialize ==
  /\ At("idle")
  /\ ReOpenDBs({})
  /\ pc' = "check"
  /\ result' = "none"
  /\ UNCHANGED <<p2p, created, fate>>

Complete(d) == file[d] = Tables[d]

(* Mutant of Matches: only the first database is compared. *)
MatchesChain == held["Chain"] = "disk" /\ Complete("Chain")

(* Mutant of Matches: one of the strings compared has the root pages too.   *)
MatchesNever == FALSE

(* sqlite_master of each is what creating the tables makes it. *)
Matches == \A d \in DBs : held[d] = "disk" /\ Complete(d)

(* A read that fails gives an empty or a shorter string: that is a mismatch *)
(* like any other.                                                          *)
CheckStructure ==
  /\ At("check")
  /\ \/ /\ pc' = IF Matches THEN "start" ELSE "remove"
        /\ UNCHANGED faults
     \/ /\ pc' = "remove"
        /\ faults' = faults \cup {"read"}
  /\ UNCHANGED <<p2p, data, result, fate>>

(* Mutant of Removable: rm is never run. *)
RemovableNothing == {}

(* What "rm chain main" can remove. *)
Removable == {d \in DBs : file[d] # Absent}

(* The rm of reCreateDBs(), whose result nothing looks at. *)
Remove ==
  /\ At("remove")
  /\ \E gone \in SUBSET Removable :
       /\ file' = [d \in DBs |-> IF d \in gone THEN Absent ELSE file[d]]
       /\ held' = [d \in DBs |-> IF d \in gone /\ held[d] = "disk"
                                 THEN "unlinked" ELSE held[d]]
       /\ faults' = faults \cup IF gone = Removable THEN {} ELSE {"remove"}
  /\ pc' = "reopen"
  /\ UNCHANGED <<p2p, created, result, fate>>

ReOpen ==
  /\ At("reopen")
  /\ ReOpenDBs(faults)
  /\ created' = [d \in DBs |-> 0]
  /\ pc' = "create"
  /\ UNCHANGED <<p2p, result, fate>>

(* Mutant of Current: an off-by-one, one table too many. *)
CurrentLate == IF created["Chain"] <= Tables["Chain"] THEN "Chain" ELSE "Main"

(* The database whose next table is to be created. *)
Current == IF created["Chain"] < Tables["Chain"] THEN "Chain" ELSE "Main"

(* Whether CREATE TABLE may succeed: not if the table exists, perhaps in a  *)
(* database that holds other things.                                        *)
Creatable(d) == held[d] = "disk" /\ file[d] \in {created[d], Damaged}

CreateTable ==
  /\ At("create")
  /\ created # Tables
  /\ Creatable(Current)
  /\ file' = [file EXCEPT ![Current] = IF @ = Damaged THEN @ ELSE @ + 1]
  /\ created' = [created EXCEPT ![Current] = @ + 1]
  /\ UNCHANGED <<p2p, held, pc, result, faults, fate>>

Fails(fault) ==
  /\ result' = "failed"
  /\ pc' = "idle"
  /\ faults' = faults \cup fault
  /\ UNCHANGED <<data, fate>>

(* Mutant of CreateFails: the error is passed over. *)
CreateGoesOn ==
  /\ At("create")
  /\ created # Tables
  /\ ~Creatable(Current)
  /\ created' = [created EXCEPT ![Current] = @ + 1]
  /\ UNCHANGED <<p2p, file, held, pc, result, faults, fate>>

(* The table exists, the handle is of no use, or the statement fails. *)
CreateFails ==
  /\ At("create")
  /\ created # Tables
  /\ Fails(IF Creatable(Current) THEN {"write"} ELSE {})
  /\ UNCHANGED p2p

CreateEnds ==
  /\ At("create")
  /\ created = Tables
  /\ pc' = "start"
  /\ UNCHANGED <<p2p, data, result, faults, fate>>

-----------------------------------------------------------------------------
(* initialize(): the node and the miner, whose start() only returns true *)

Succeeds == result' = "ok" /\ pc' = "idle" /\ UNCHANGED <<data, faults, fate>>

(* The node runs since an earlier initialize(). *)
AlreadyStarted == At("start") /\ mRunning /\ Succeeds /\ UNCHANGED p2p

(* getaddrinfo, socket, setsockopt, bind, listen or eventfd. *)
StartFails == At("start") /\ ~mRunning /\ Fails({"start"}) /\ UNCHANGED p2p

Start ==
  /\ At("start")
  /\ StartLaunch
  /\ pc' = "starting"
  /\ UNCHANGED <<data, result, faults, fate>>

Started == At("starting") /\ StartReturn /\ Succeeds

-----------------------------------------------------------------------------
(* The end of the process *)

(* Nothing is left but the files. *)
Ends(how) ==
  /\ fate' = how
  /\ P2PGone
  /\ held' = [d \in DBs |-> "none"]
  /\ pc' = "idle"
  /\ created' = [d \in DBs |-> 0]
  /\ result' = "none"
  /\ faults' = {}
  /\ UNCHANGED file

(* ~Core(): mP2P goes first and stops. *)
Destroy ==
  /\ At("idle")
  /\ IF mRunning THEN StopSignal ELSE UNCHANGED p2p
  /\ pc' = IF mRunning THEN "join" ELSE "destruct"
  /\ UNCHANGED <<data, result, faults, fate>>

Join ==
  /\ At("join")
  /\ StopJoin
  /\ pc' = "destruct"
  /\ UNCHANGED <<data, result, faults, fate>>

(* stop() ends without the value it is to return, and ~Timer() reads a flag *)
(* nobody set and may join a thread there is not: either goes unnoticed or  *)
(* ends the process.  So does, always, an mThread that is still joinable.   *)
Destruct ==
  /\ At("destruct")
  /\ \/ ~Joinable /\ Ends("returned")
     \/ Ends("killed")

Crash  == fate = "runs" /\ Ends("killed")
Throws == fate = "runs" /\ ReadThrows /\ Ends("killed")

Damage(d) ==
  /\ fate # "runs"
  /\ file' = [file EXCEPT ![d] = Damaged]
  /\ UNCHANGED <<p2p, held, pc, created, result, faults, fate>>

Lose(d) ==
  /\ fate # "runs"
  /\ file' = [file EXCEPT ![d] = Absent]
  /\ UNCHANGED <<p2p, held, pc, created, result, faults, fate>>

Restart ==
  /\ fate # "runs"
  /\ fate' = "runs"
  /\ UNCHANGED <<p2p, file, held, pc, created, result, faults>>

-----------------------------------------------------------------------------
OwnerSteps ==
  \/ CheckStructure \/ Remove \/ ReOpen
  \/ CreateTable \/ CreateFails \/ CreateEnds
  \/ AlreadyStarted \/ StartFails \/ Start \/ Started
  \/ Join \/ Destruct

Loop(step) ==
  /\ fate = "runs"
  /\ step
  /\ UNCHANGED <<data, pc, result, faults, fate>>

Next ==
  \/ Initialize \/ Destroy \/ OwnerSteps
  \/ Loop(LoopRuns) \/ Loop(ReadReturns) \/ Loop(Accept) \/ Loop(Serve)
  \/ Loop(PollFails) \/ Loop(HandleSignal) \/ Throws
  \/ Crash \/ Restart
  \/ \E d \in DBs : Damage(d) \/ Lose(d)

Spec == Init /\ [][Next]_vars

(* Both threads run; epoll_wait reports ready descriptors in turn, so that  *)
(* the event descriptor is not passed over for ever.                        *)
Fairness ==
  /\ WF_vars(OwnerSteps)
  /\ WF_vars(Loop(LoopRuns))
  /\ WF_vars(Loop(ReadReturns))
  /\ SF_vars(Loop(HandleSignal))

FairSpec == Spec /\ Fairness

-----------------------------------------------------------------------------
(* Every variable keeps its type. *)
TypeOK ==
  /\ mRunning \in BOOLEAN /\ starting \in BOOLEAN /\ signalled \in BOOLEAN
  /\ main \in BOOLEAN
  /\ thread \in {"none", "check", "wait", "read", "end", "exit"}
  /\ open \subseteq Fds /\ clients \subseteq Fds /\ epoll \subseteq Fds
  /\ buffered \subseteq Fds
  /\ serving \in Fds \cup {None}
  /\ \A d \in DBs : file[d] \in Contents(d) /\ created[d] \in 0..Tables[d]
  /\ held \in [DBs -> {"none", "disk", "unlinked", "unusable"}]
  /\ pc \in {"idle", "check", "remove", "reopen", "create", "start",
             "starting", "join", "destruct"}
  /\ result \in {"none", "ok", "failed"}
  /\ faults \subseteq Faults
  /\ fate \in {"runs", "returned", "killed"}

(* initialize() returns true only with both databases open, on disk and     *)
(* with the structure that checkStructure asks for, whatever failed in it   *)
(* and wherever earlier processes were killed (core.cpp:16-25).  The one    *)
(* exception is a file with other contents that rm failed to remove: that   *)
(* it is still there is noticed by the next initialize() only.              *)
InitializedOnDisk ==
  result = "ok" \/ pc \in {"start", "starting"} =>
    \A d \in DBs :
      /\ held[d] = "disk"
      /\ Complete(d) \/ (file[d] = Damaged /\ "remove" \in faults)

(* initialize() returns false only if something went wrong in it: what a    *)
(* crash, or anybody, has left in the files it copes with (core.cpp:21-25). *)
GivesUpOnlyOnFault == result = "failed" => faults # {}

(* A good chain is thrown away only together with a main database that is   *)
(* not, or when a file could not be opened or read (core.cpp:48-51 removes  *)
(* both files whichever does not match).                                    *)
ChainLostOnlyOnDoubt ==
  [][Complete("Chain") /\ file'["Chain"] # Tables["Chain"] /\ fate = "runs"
       => ~Complete("Main") \/ faults \cap {"open", "read"} # {}]_vars

(* The sockets of clients, mClientSocket and the epoll set never disagree,  *)
(* and a loop that has ended, for whatever reason, leaves none of them.     *)
ClientsAgree ==
  /\ open = clients /\ epoll = clients
  /\ buffered \subseteq clients
  /\ thread = "read" => serving \in clients
  /\ thread \in {"none", "exit"} => clients = {} /\ ~main

(* What the owner of the node sees. *)
legacyLife ==
  CASE fate = "returned" -> "gone"
    [] fate = "killed"   -> "dead"
    [] fate = "runs" /\ ~Joinable /\ ~mRunning -> "down"
    [] fate = "runs" /\ Joinable /\ (mRunning \/ starting) -> "up"
    [] OTHER -> "fallen"

Lifecycle == INSTANCE NodeLifecycle WITH life <- legacyLife

(* The node of a process that is run again. *)
Reborn == legacyLife \in {"gone", "dead"} /\ legacyLife' = "down"

(* This node implements the life cycle that its successor in p2p/p2p.cpp    *)
(* implements too, and never falls: however its loop ended, before mRunning *)
(* was set (p2p.cpp:89-90), by a signal (124) or by stop(), mRunning stays  *)
(* set until stop() has joined it, so that no thread is left joinable.      *)
LegacyLifeSpec ==
  /\ Lifecycle!Init
  /\ [][Lifecycle!Start \/ Lifecycle!Stop \/ Lifecycle!Destroy
          \/ Lifecycle!Terminate \/ Reborn]_legacyLife

(* initialize() and the destructor come to an end: stop() does not wait for *)
(* a loop that waits for it (contrast P2PNodeProperties!StopReturns).       *)
CallsReturn == pc # "idle" ~> pc = "idle"
=============================================================================
