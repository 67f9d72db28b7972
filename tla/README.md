# A verification of FreedomDB in TLA+

TLA+ modules that model FreedomDB - the peer-to-peer node, the protocol between
nodes, the log, and the earlier node and database core kept in `_old_code/` - with TLC configurations that check
them on small instances and TLAPS proofs that hold for every instance. Paths
below are relative to `src/` of the repository; `p2p.cpp:116` is line 116 of
`source/p2p/p2p.cpp`.

## 1. The system

FreedomDB is at an early stage: a library of two live components and a few
programs around them. What `CMakeLists.txt` builds is `source/` without
`_old_code/`.

| Component | State it keeps | Operations |
|---|---|---|
| **P2P node** `p2p/p2p.{h,cpp}`, `p2p/peer.h` | `mPeers` (descriptor -> `Peer`), `mAddressPool`, `mTasks` (futures), `mThread`, `mRunning`, the listening socket, the event pipe, the epoll set; `mThreadMutex`, `mTasksMutex`, `mPeersMutex`, a mutex per peer | `start`, `stop`, the destructor, `aConnect`, `connect`, `getNumClients`, `isRunning`; in the loop: `newPeer`, `servePeer`, `removePeer`, `handleEvents` |
| **P2P protocol** `p2p/p2p_msg.cpp`, `p2p/msg.h` | `mReady`, `mUnpacker` and the peer's information in each `Peer`; what is in the sockets | `decodeMsg_PeerInfo`, `_Discovery`, `_Disconnect` and the senders of the three |
| **Log** `core/log.{h,cpp}`, `common/lazy.h` | `mCallbacks`, `mID`, `mMutex`; the switches `mStdout`, `mColored`, `mVerboseLevel` | `log`, `add`, and removal by the `Lazy` that `add` returns |
| NoCopyOrMove `common/nocopyormove.h` | none | none |
| Programs and bindings `main.cpp`, `freedom_db.*`, `pybindings.cpp` | none | start and destroy a node; demo functions |
| Legacy P2P `_old_code/p2p.*` (not built) | `mClientSocket`, `mRunning`, `mThread`, the event descriptor; `mThreadMutex`, `mDataMutex` | `start`, `stop`, `thread_loop` |
| Legacy Core `_old_code/core.*` with `config.*`, `sqlite_util.*` (not built) | two databases on disk and their handles, a node, a miner, a timer | `initialize` (`reOpenDBs`, `checkStructure`, `reCreateDBs`), the destructor |
| Legacy Logger, Miner, Timer, console `_old_code/` (not built) | callbacks; nothing; a thread never launched | an earlier `log`; empty functions |
| SQLite, SHA-3 `_old_code/sqlite3.*`, `sha3sum.*` | third-party | |

How they interact:

- A **user's thread** calls `start`, which opens the listening socket, the pipe
  and the epoll set and starts the **loop thread** (`threadLoop`), and launches a
  `std::async` **connector** for each bootstrap address. `stop` waits for the
  connectors, writes `SHUTDOWN` to the pipe and joins the loop.
- A connector that has its TCP connection puts the socket into `mPeers` and the
  epoll set and writes `PEER_WELCOME` and the descriptor, one after the other,
  to the pipe.
- The **loop** waits for the pipe, the listening socket or a peer's socket and
  handles one thing at a time. The handlers write to the pipe themselves: the
  loop is reader and writer of it.
- **Two nodes** share only sockets. The dialler greets with `PEER_INFO` (and
  `DISCOVERY`, the addresses of its ready peers); the node that was dialled
  checks network and UID, marks the peer ready and greets in turn. A
  `DISCOVERY` fills the pool of addresses, from which `TRY_CONNECT` dials.
- The **legacy Core** opens its databases, removes and creates them again if their
  structure is not the one `Config` asks for, then starts its node, whose loop
  thread accepts clients and reads from them. What outlives the process is the
  files.
- Every thread logs. A log line goes through all the callbacks with the mutex
  of the log held.

### What is hard

Three mutexes are taken in different orders by users, connectors and the loop;
two of them are held while `stop` waits for other threads. A record of the pipe
is two writes. Descriptors are reused at once and are the only names of peers.
A `PEER_WELCOME` is handled long after it was posted. The loop may end by
itself (a `SHUTDOWN` nobody sent, `epoll_wait` interrupted), while the owner
knows nothing of it. Between nodes, messages arrive in arbitrary groups, ends
of streams race with answers, nodes dial themselves and each other at once. In
the log, callbacks go while others run and switches change between two filters.
Numbers of closed descriptors are kept and closed or written to again, and each
call that opens one may fail. A killed process leaves connections half done at
its peers and, in the legacy core, databases half created on disk.
`PROJECT.json` lists each of these hazards at its line.

### What makes each part correct

- **Node**: the tables name the same sockets; no socket is lost; nothing runs
  behind the back of a `stop` that joins; `stop` returns; the records in the
  pipe are read as they were written; who is connected to is greeted, and who
  is accepted is greeted only after its `PEER_INFO`.
- **Protocol**: each connection goes through the handshake in order; it
  completes or closes; strangers do not stay; addresses stay in their network;
  nodes that boot from one another all meet.
- **Descriptors**: the node closes only its own, writes to its own pipe while it
  runs, and keeps none after `stop`.
- **Legacy Core**: `initialize` returns true only with good databases on disk, and
  false only if something failed meanwhile; a good chain is not thrown away
  without a reason; the node never falls.
- **Log**: a callback that was removed is silent; each callback that accepts a
  line gets it; a line is printed once; `log` and the removal return.

## 2. The modules

| Module | What it is |
|---|---|
| `P2PNode` | one node, thread by thread |
| `P2PNodeProperties` | its invariants, action and temporal properties |
| `NodeLifecycle` | what the owner of a node sees: the abstract specification |
| `P2PNode_proofs` | theorems about `P2PNode` |
| `P2PNodeOutward_proofs` | theorems about a node that only connects outwards |
| `P2PNodeWaits_proofs` | theorems about the waits of any node: its deadlocks are the named ones |
| `NodeDescriptors`, `NodeDescriptors_proofs` | the same node as a user of the process's table of descriptors, theorems |
| `MCP2PNode`, `MCNodeDescriptors` | instances of the two for TLC |
| `P2PNet` | several nodes and the connections between them |
| `P2PNetProperties`, `P2PNet_proofs` | their properties, theorems |
| `Handshake` | what one connection goes through, one mistaken for an earlier one included: the abstract specification |
| `MCP2PNet` | topologies for TLC |
| `Log`, `Log_proofs` | the log with its properties, theorems |
| `LegacyP2P` | the steps of the first node, `_old_code/p2p.cpp` |
| `LegacyCore` | the first program around it, `_old_code/core.cpp`: composes `LegacyP2P` with the databases and the process; implements `NodeLifecycle` |
| `LegacyCore_proofs` | theorems about both |

`PROJECT.json` maps each definition to the lines it models.

### P2PNode: one node

Threads are `Users` (they own the node), `Tasks` (the `std::async` connectors of
`mTasks`) and the loop. `pc` and `loop` say where each is; a step is the code
between two points where a thread can wait or be seen: taking a mutex, writing
or reading the pipe, joining. `sock[t]` is the socket a connector works on,
`loopFd` the loop's. `peers`, `inbound`, `ready` are `mPeers` and two fields of its
entries, `epoll` the kernel's set, `open` the descriptors that are open; `greeted`
records who was sent our `PEER_INFO`. `fate` is the object's, and the process's.

| Actions | Code |
|---|---|
| `StartEnter`, `StartSpawn`, `StartOverThread`, `StartBoot`, `StartReturn` | `start`, p2p.cpp:28-110; `StartOverThread` is the assignment to a joinable `std::thread`, which ends the process |
| `CallStop`, `CallDestroy`, `StopLock`, `StopRunning`, `StopNotRunning`, `StopSend`, `StopJoin`, `Destruct` | `stop` and `~P2P`, 112-123 |
| `AConnect`, `DirectConnect`, `ConnectFails`, `Connected`, `ConnectInsert`, `ConnectRegister`, `ConnectEvent`, `ConnectData` | `aConnect`, `connect`, `insertPeer`, 132-200 |
| `Accept...` | `newPeer`, `insertPeer`, 185-215 |
| `Serve`, `Decode...`, `ReadEof`, `Post...`, `RemovePeer`, `Unwind` | `servePeer`, `removePeer`, the handlers of p2p_msg.cpp |
| `Handle...`, `ReadPayload`, `Greet`, `TryConnect`, `Launch` | `handleEvents`, 277-318 |
| `PollFails`, `CloseReadEnd`, `CloseWriteEnd`, `DropPeers` | the end of `threadLoop`, 337-373 |

What is abstracted, and how:

- The pipe holds tokens: an event is one byte, a descriptor four. Reading a
  descriptor where an event lies first takes that byte and three more;
  `AfterPayload` gives what is left, for descriptors between 4 and 255: the
  bytes left over are zero, that is `SHUTDOWN`.
- Undefined behaviour is a choice of outcomes: the read of `mPeers` without its
  mutex (`MapRace`, 199), the unlock of a destroyed mutex (`Unwind`, 249), a write
  to a closed pipe (no effect or `SIGPIPE`).
- A thread launched when no slot of `Tasks` is free stands for one whose
  connection fails at once. A failed `start` is a stutter here, and descriptors
  that are leaked (`sockfd` at 149, a socket that failed to connect, those of a
  failed `start`) are left out: both are in `NodeDescriptors`.
- `PEER_CLOSE` is never sent and the unknown-descriptor branch of `servePeer` is
  never reached (that is what `TablesAgree` says): neither is an action.
  `getNumClients` and `isRunning` only read.
- Messages are well formed. A read that completes no message is a stutter.

### NodeDescriptors: one node and the table

`use` says what each number of the process's table is; the rest of the process
opens and closes numbers too (`ForeignOpen`, `ForeignClose`). A new descriptor gets
the lowest free number, as in POSIX, or none when the table is full: that is how
`socket`, `pipe`, `epoll_create` and `accept` fail, and bind or listen may fail
besides. `mMainSocket`, `mEventPipe` and `mEpollFd` are the numbers as the node has
them, stale ones included, and closing acts on the number. A descriptor nobody
names any more becomes `"lost"`. Between the two descriptors of one `pipe`, and the
two sockets of one `connect`, nothing else opens one. The mutexes are here
only as far as they keep these calls apart; the waits they cause are `P2PNode`'s.

`start` looks at `mRunning` only (p2p.cpp:32), which a loop that ends by a
`SHUTDOWN` nobody sent clears (285) before it closes anything (356-370). So
`StartSocket` has no other guard, and every close of the loop is a step of its own
(`LoopCloseEpoll` to `LoopUnset`): a `start` in between replaces `mMainSocket`, and
goes on to fail at `bind`, or, the program having changed `mListenPort` as
`test_p2p.cpp:36-40` does, to open its own pipe and epoll set over those being
closed. It ends at the assignment to the thread nobody joined (`StartOverThread`,
and with it the process). `Ports` are the values `mListenPort` takes; a socket that
listens is, in `use`, its port. If the loop closes the number `start` is about to
listen on and somebody else gets it, `start` makes that socket listen: what then
happens to a stranger's socket is not followed.

### P2PNet: nodes among themselves

A step is all a loop does for one event or one read, or all of one `connect`;
what goes on between the threads of a node is `P2PNode`'s. In particular records
of the pipe are whole here. They name a descriptor, as in the code, and stay in
the pipe when its peer goes: `fd[e]` is the number an end has in the `mPeers` of its
node, `NewFds` what `socket` or `accept` may return, and `HandleWelcome` greets whoever
has the number by then. A connection is a number
`c` with two ends `<<c, "OUT">>` and `<<c, "IN">>`, each an entry in the `mPeers` of
the node that `Owner` names; one node may own both. `inbox[e]` is what is in the
socket, `unpacker[e]` what was read and not decoded: a read takes any number of
messages (`Coalesce`) and decodes one (p2p.cpp:267-273). Closing an end loses what
it had not read, and lets the other end lose what was sent (a reset) or read it
first; what is written to a closed end is lost (the `SIGPIPE` it may raise is in
`P2PNode`). Addresses are counted (`Addresses`): the pool is a list with repetitions,
taken from at random. `Stop` is one step, possible when no connection of the node
is under way: how `stop` gets there is `P2PNode`'s business. `Crash` is the end of
the process at any step (each of `P2PNode`'s, or a signal): the kernel closes the
sockets, and the next `Start` is a new process with an empty pool. `kListenQueueLen` is
not modelled.

### Log

`Lock`, `Visit`, `CallReturns`, `Unlock` are `log()` entry by entry; `Add` and `Wait`
the changes of the map; `Switch` the atomics, at any time. `pos` is the position
of the loop, `called` what it called. `Reenter` is a callback that uses the log: the
thread waits for a mutex it holds, for ever. Levels are left out: a line is one
at or above `mVerboseLevel`.

### LegacyP2P and LegacyCore

`LegacyP2P` has the first node's variables and steps: `StartLaunch`, `StartReturn` are
the two halves of `start` between which the loop thread already runs (`_old_code/`
p2p.cpp:89-90); `StopSignal`, `StopJoin` are `stop`; the rest is `thread_loop` (108-197),
with a client's buffer only as empty or not, which decides whether a failed
`read` throws (170). `LegacyCore` puts them into `Core`: `Initialize`, `CheckStructure`,
`Remove`, `ReOpen`, `Create...` are `initialize` (core.cpp:16-126) call by call, `Start...`
its end, `Destroy`, `Join`, `Destruct` the destructor. `file` is what is on disk: no
file (`Absent`), the first n tables (a `CREATE TABLE` is a transaction), or something
else (`Damaged`); `held` is what the handle refers to, which after `rm` may be a file
that has no name. `Crash` may come at any step, `Damage` and `Lose` while no process
runs. `faults` remembers what failed since `initialize` was called. What SQLite does
is modelled from how Core uses it: opening creates an empty file, a failed
statement changes nothing, a killed process leaves no half of one. Undefined
behaviour in the destructor (`stop` has no return statement; `~Timer` reads a flag
nobody set) either goes unnoticed or ends the process.

## 3. What TLC checks

| Run | Instance | What it shows |
|---|---|---|
| `node_safety` | `MCP2PNode` | the tables agree, `stop` joins a quiet node, no socket is orphaned but the peers of a node without a loop, by `start` or with the object, there is no deadlock but the named circular waits, and these last, the inductive invariant `NodeInv` holds, `NodeLifecycle` is implemented |
| `node_liveness` | | `stop` returns or one of the named circular waits has formed; who is connected to is greeted |
| `node_outbound` | nobody connects in | connectors alone keep records whole; the loop ends only when `stop` asks; nothing ends the process (`NeverDies`: what does, elsewhere, are 102, 199, 249, 357 and a write to a peer that reset, p2p_msg.cpp:81; the run's constants exclude 199, 249 and the reset, and a second write to a peer that merely hung up, which may raise `SIGPIPE` as well, is not modelled) |
| `node_stop_hangs` | | **violation**: `stop` and a connector wait for each other |
| `node_spurious_shutdown` | | **violation**: the loop shuts down unasked |
| `node_stale_welcome` | | **violation**: a peer is greeted before its `PEER_INFO` |
| `net` | three nodes in a line, the last of another network, stops, crashes and restarts, any free descriptor for a new connection | addresses stay in their network; each connection implements `Handshake`, one that a stale welcome mistakes for another included; handshakes complete or close; strangers part; a closed end is noticed |
| `net_chain` | the chain of tests/test_p2p.cpp:90-104 | all meet, each pair by one connection, if reads return one message each |
| `net_lost_discovery` | the same, reads of several messages | **violation**: two nodes never meet |
| `log` | two loggers, two owners | `LogInv`, which has the type invariant, and the invariants that follow from it; `log` and `wait` return unless a callback uses the log |
| `node_descriptors` | six descriptors, one of them possibly somebody else's, a thread that connects, two ports | no number is closed that is not the node's; records reach the pipe; what is open has a name or was lost; a port is lost only by a `start` whose `pipe` fails or one that overlaps the end of a loop, and then for the life of the process |
| `legacy_core` | two databases, two clients' sockets | `initialize` tells the truth about the databases, gives up only on a failure, spares a good chain; the tables of the node agree; it implements the life cycle without ever falling; calls return |

Each property of a passing run has a mutant, a change of one definition like a
plausible bug in the code, under which TLC finds the property violated; the
mutated forms stand beside the definitions they replace.

### The findings

1. **`stop` may hang** (p2p.cpp:116). It waits for the connectors with
   `mThreadMutex` held, and a connector past its TCP connection needs
   `mThreadMutex` in `insertPeer` (195). Also with the loop (120 against 195 and
   133). And with a `connect` that a user calls himself: it has no future, but
   with `mPeersMutex` in its hands it holds up the connectors `stop` waits for
   (`HoldsUpTasks`). The tests call `stop` and go on.
2. **A shutdown nobody asked for** (p2p_msg.cpp:71). The loop and a connector
   write the halves of two records interleaved; out of step, a zero byte is
   read as `SHUTDOWN`, which is "When is closing" (p2p.h:21).
3. **A stale welcome** (p2p.cpp:291). The record of a peer that went is taken
   for the next peer with its descriptor, which is greeted unchecked ("Not
   ready until we check peer info", 191).
4. **A lost discovery** (p2p.cpp:268). `PEER_INFO` and `DISCOVERY` are sent back to
   back; if one `read` returns both, only the first is decoded. The test "chain
   connect 3 -> 1 <-> 2" then fails.

### Bounds, and why they are enough

- `Users`, `Tasks`, `Fds`: two each suffice for each circular wait and each reuse
  of a descriptor (a connector and its rival; a socket and its successor). The
  theorems lift these bounds for safety.
- `PipeCap` is a few tokens instead of 64 KiB, so that a full pipe happens. A
  longer pipe only delays it. With room for one token only there would be a
  deadlock of its own, which no real pipe has: a connector fills the pipe that
  `start` has just opened, before there is a loop to read it. `OnlyTheseDeadlocks`
  asks for two. `MaxPool`, `NBoot`: one address at least is
  launched, by `start` and by `TRY_CONNECT`.
- `MaxConns`: slots for connections that exist at one time, each used again when
  both ends are closed, lowest first; a dial with no slot free waits. In
  `net_chain` the six are never all needed. `MaxStarts` limits restarts, which
  are in the program's hands.
- In `net` two connections at a time are enough for a number and a slot to be used
  again while another connection goes on: a peer and a stranger, a peer and a
  connection of a node to itself, the same two nodes connected twice.
- `Fds` of the nets: the numbers a node has for its peers. `Scattered` lets a new
  connection have any that is free, as in a process that opens and closes files
  as well; without it (`net_chain`) a free number is given out the same way each
  time. TLC reaches `mistaken` and `early` of `Handshake`, the phases of a connection
  that got a number with a stale welcome, in `net`. There the numbers are one more
  than the connections, so that they do not run out: a node whose every number is
  taken by connections to itself that it cannot accept any more would wait for
  ever (as in the code, with the limit of the process in place of `Fds`), and
  `HandshakeCompletes` does not speak of that.
- `MaxID` in the log: ids given out; three are enough for a callback to be
  removed before, at and after the position of the loop.
- `MaxFd` is five: with the six descriptors a running node of one peer needs four
  to eight, so that every call that opens one also meets a full table, and a
  number comes back as something else at once. `MaxForeign` one: a stranger to
  hit. `Ports` two: the one a lost socket keeps and another. One thread that
  connects: a connection in every state beside `start` and the loop; `Tasks` only
  restrict when `stop` may go on, and the theorems have any number of both.
- `Fds` of `legacy_core`: a client being served and another one. The files are
  finite; nothing bounds how often processes crash and start.
- Symmetry: tasks and descriptors in `node_safety`, the ports in `node_descriptors`,
  which have safety properties only.

`CHECK_DEADLOCK FALSE` stands where the system may stop: the node in a circular
wait, after its destructor or with its process; the nets when all starts are
used up and everything is settled; a process that `start` has ended; a log with a
callback that uses it (there the switches, which anybody may set at any time,
would hide a deadlock anyway: that nobody waits for ever is `LogReturns` and
`WaitReturns`). `legacy_core` checks for deadlock.

### Fairness, and why the code justifies it

- `P2PNode`: strong fairness of each user's, each connector's and the loop's own
  steps, and of the handling of events: threads are scheduled, and a mutex or a
  place in the pipe that is free again and again is got. `epoll_wait` reports
  ready descriptors in turn, so an event is not passed over for ever. Nothing is
  assumed of what users call, what peers send, who connects, whether
  `epoll_wait` fails.
- `P2PNet`: weak fairness of each node's loop and connectors. Nothing
  is assumed of starts, stops and crashes in `net`. `net_chain` and
  `net_lost_discovery` also start every node, as the test does, each when the
  others have settled (`Patient`), which is what the test sleeps for.
- `LegacyCore`: weak fairness of the owner's steps inside a call and of the loop's
  own, strong fairness of noticing the event descriptor among clients
  (`epoll_wait` reports ready ones in turn). Nothing is assumed of clients or of
  crashes.
- `Log`: weak fairness of the steps of a line (callbacks return), strong fairness
  of getting the mutex. Nobody need call anything.

## 4. What is proved

For every value of the constants, with `P2PNode`'s assumptions
`ThreadsAssumption`, `EnvAssumption`, `BoundsAssumption`, `TokensAssumption`, the
log's `LogAssumption`, `DescriptorsAssumption`, `NetAssumption`,
`LegacyP2PAssumption` and `LegacyCoreAssumption` (kinds of thread are disjoint,
`None` is none of them, bounds are numbers, a pipe holds something, there is a
node, networks are numbers, `Absent` and `Damaged` are no
numbers), which TLC evaluates on each run:

- **`NodeInvariant`**: `Spec => []NodeInv`. `TablesAgree` is not inductive: whether
  erasing a peer leaves the epoll set right depends on where every thread that
  has a socket in its hands is. `NodeInv` adds who holds which mutex (`LockInv`),
  that a connector's socket is open, its own until inserted and in the map while
  it holds `mPeersMutex` (`SockInv`), what the loop's descriptor is (`LoopFdInv`), and
  how `mRunning`, the pipe and the epoll set follow the loop (`LoopInv`). One lemma
  per operation, one case per action. From it follow `TypeCorrect`,
  `JoinIsQuiescent`, `TablesAlwaysAgree` and `JoinIsClean`.
- **`WedgesLast`**: `[][Wedged => Wedged']_vars`. By kind of wait: the threads in it
  have no step, and no other thread can release what they wait for.
- **`OrphansAreOfStopped`**: an open socket belongs to the map, a connector or the
  loop, save those of the map that `start` clears (p2p.cpp:100) or that goes with
  the object (p2p.h:48, 101), in a node without a loop. That the loop is over when
  the object goes, and no connector is left, is `DyingInv`, a conjunct of `NodeInv`.
- **`ImplementsLifecycle`**: each step of the node is one of `NodeLifecycle` or a
  stutter. `LifeMeaning` spells the mapping out and `LifeStep` goes through the
  actions.
- **`OutwardInvariant`**: `OutwardOnly` implies `Spec => []OutwardInv`. What
  `node_outbound` checks does not hold of every node, and `OutwardOnly` says of
  which: nobody connects to it, its users connect through `aConnect` while it
  runs, its peers send `PEER_INFO` or hang up, no signal interrupts `epoll_wait`.
  TLC finds `RecordsIntact` or `NeverDies` violated when any one of these is
  dropped and when peers may send any other message: the hypothesis is as weak as
  the code allows. That the records stay whole needs who may write
  (`WritersRun`), and that a record is open, its descriptor still to come, just
  while a connector is between its two writes (`PipeShape`); that nothing ends
  the process needs that the pipe is open while anybody writes (`LoopRuns`), and
  what the destructor waits for (`Dying`). The recursion is mutual: the loop
  runs as long as the connectors do because no byte is taken for a `SHUTDOWN`,
  and none is because the records are whole. `PayloadAlone` is where the
  four-byte read gives back a descriptor and takes nothing else. From it follow
  `RecordsStayIntact`, `LoopEndsForStop`, `OutwardNodeSurvives`,
  `OutwardNodeNeverFalls`.
- **`OnlyTheseDeadlocks`**: with `PipeCap >= 2`, `Spec => []NoOtherDeadlock`, for any
  environment and any number of threads: while a call is under way somebody can
  go on with it or with what it waits for, unless `Wedged`. It is the safety half
  of `StopReturnsOrWedges`; `CanGoOn` and `LoopCanGoOn` spell the guards out, so that
  no `ENABLED` is needed. `WaitInv` adds to `NodeInv` that each mutex is with
  somebody who is going to release it (`HeldInv`, theorem `NoMutexLeftLocked`), for
  whom the pipe is open (`OpenInv`), and that a `SHUTDOWN` is not lost (`ReadInv`).
  The last is the hard one, since a loop that is out of step takes the bytes of
  up to four events for a descriptor. Each token has a `Weight`, what it does to
  the number of descriptors still to be read; the sum over the pipe never
  exceeds what connectors are about to write (`Balanced`), so a loop that waits
  for a descriptor finds one or has a writer - or the loop is so far out of step
  that the next event ends it (`Doomed`). `RunBalances` and `PayloadReads` show that
  the four-byte read keeps this. Then `BootGoesOn`, `TasksHeldUp`, ...,
  `StopGoesOn` go through who waits for whom.
- **`DescriptorsInvariant`**: `Spec => []DescInv`. `StoppedHoldsNothing` says which
  open numbers have a name; that closing by number closes the right one needs the
  converse, at the moment of each close. While the loop runs and until it has
  closed them the noted numbers of the pipe and the epoll set are those
  descriptors, unless a `start` over it has put its own there (`PipeInv`); a port
  has one socket at most and `mMainSocket` is the loop's until it is closed
  (`MainInv`); the keys of `mPeers` are the peers' sockets and a connector's socket
  is its own (`SocketInv`); `start` and `stop` exclude each other, and a loop that
  runs has `mRunning` set (`Control`). That the kernel gives out unused numbers
  (`Given`) rests on the least element of a set of numbers, from the well-founded
  order of `Nat`. From it follow `DescriptorTypes`, `NothingLeftOpen`, `EventsArrive`
  and, with a look at what each step does to a foreign or a listening number,
  `ForeignLeftAlone`, `LostPortsStay` and `HowPortsAreLost`.
- **`HandshakeInvariant`**: `Spec => []HandshakeInv` for any number of nodes,
  networks, connections and descriptors. That addresses stay in their network
  (`NetworksStayApart`) is about pools; the reason is in the sockets: what an end
  that has not met the other node has to decode first is no `DISCOVERY`, and
  what it may be sent lists nodes of the sender's network only (`EndInv`). The
  peers of a node have numbers of their own (`Distinct`), so that a record greets
  one at most, and nobody answers before he has accepted (`Unanswered`).
  **`ImplementsHandshake`** then maps each step to a step of `Handshake`, or a
  stutter, for every way of reusing numbers: an accepted connection is `mistaken`
  if the pipe or the socket already holds an answer that was not meant for it
  (`Silent`), and no step but `accept` makes one so - a record is posted for a
  number only by the peer that has it. `PhaseFact` spells the mapping out, the
  lemmas about `Names` say which records a step of the pipe adds and takes.
  `NetTypes` is proved by itself.
- **`LogInvariant`**: `Spec => []LogInv`. That callbacks are called right needs that
  the map is still meanwhile: the mutex is its holder's (`MutexInv`), ids in the
  map were given out (`MapInv`), a callback runs where the loop is (`CallInv`), and
  `called` is what was passed and accepted (`LineInv`). From it follow
  `LogTypeCorrect`, `RemovedStaysSilent`, `EveryLineDelivered`, `LinePrintedOnce`.
- **`CoreInvariant`**: `Spec => []CoreInv` for the legacy Core. `InitializedOnDisk`
  speaks of the end of a call and is not inductive; `CoreInv` adds why the files
  are about to be removed (`CheckInv`) and, between `rm` and the last table, that
  whatever `rm` left has left a fault and that each table was created in the
  file that is there (`BuildInv`). One lemma per call. From it follow
  `InitializeTells`, `GivesUpWithReason` and, with one look at the steps that change a
  file, `SparesChain`.
- **`ServeInvariant`**: its node's threads and tables: there is a thread to join
  just when `mRunning` is set or `start` is under way (`ThreadInv`). From it follow
  `ClientsAlwaysAgree`, `TypeCorrect` and **`ImplementsLegacyLife`**: `LifeMeaning` spells
  the mapping out, "fallen" does not occur in it, and then only three facts about
  the steps are needed: a process returns from `main` with no thread left, a
  process that ended stays so or is run again, and it is run again with none.

Each safety invariant, each action property and each refinement that a passing
run checks is thereby proved. Only model-checked is what needs fairness:
`StopReturnsOrWedges`, `ConnectedIsGreeted`, `HandshakeCompletes`, `StrangersPart`,
`ClosedIsNoticed`, `AllMeet`, `LogReturns`, `WaitReturns` and `CallsReturn` (liveness,
and with it `ENABLED`, is out of the prover's reach). So is that `OutwardOnly` is
needed, which is a matter of counterexamples.

## 5. Not modelled, and why

- Partial writes to a socket and messages that do not decode: the first is
  logged and forgotten, the second throws and ends the process.
- The futures of `mTasks` that only `stop` collects: growth that no step depends
  on. How many connections `TRY_CONNECT` (p2p.cpp:308) may launch beyond its
  target: it counts peers, not dials, and promises no bound.
- A bootstrap address that did not answer is not dialled again, and a lost peer
  is replaced only if a `DISCOVERY` comes: `P2PNet` has it, but nothing is
  promised that it could be checked against. The same goes for a machine that
  goes without closing its connections: there is no timeout in the code.
- `NoCopyOrMove`: a property of types. `main.cpp`, `FreedomDB`, the Python
  bindings: no state of their own.
- Of `_old_code/`, which nothing builds: the Logger, an earlier form of `Log`; the
  Miner, whose functions are empty; the Timer, whose thread is never launched
  (its destructor's effect is in `Destruct`); the window and the console; of
  `Config` and the SQL wrappers, the text of the SQL and the column readers.
- SQLite and SHA-3: third-party code, 219,000 of the repository's 222,000 lines.
  That is why the share of the repository's lines that the modules cover stays
  near nothing, although they cover the code of the project itself.
- In `LegacyCore`: two threads that call `initialize` at once, or two processes on
  the same files (one thread of one window does it), and a crash of the machine,
  where SQLite's journals come in.

## 6. Plan

Done, in this order: `P2PNode` with its properties and the proof of its
invariant; the life cycle and its refinement proof; `P2PNet` and `Handshake`;
`Log` with its proofs; the descriptors of a node and the failures in the middle of
`start` (`NodeDescriptors`); crashes in `P2PNet`; the legacy core and node, with
their proofs. The order follows the weight of the behaviour: the threads of one node first, since
everything else runs on them.

Then the proofs: the net and its refinement of `Handshake`; the descriptors; the
node that only connects outwards; the deadlocks of any node. This last one found
that `Wedged` had left out the user's own `connect` that holds up a task.

What is left:

1. The same safety half for the other waits that only liveness covers: a `log`
   that waits has a holder with a step, or one whose callback uses the log; a
   call of the legacy Core always has a step of its own or of the loop.
2. More about a connection whose number a stale record names: `Handshake` says in
   which orders its ends meet, not how often each is greeted. `GreetedAfterInfo`
   for a node whose pipe holds no stale record.
