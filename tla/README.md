# UDAF in TLA+

TLA+ models of UDAF, a C++ framework that discovers hosts on a network, connects nodes in a
topology, runs commands and moves files on them and keeps an audit trail. The modules are
translated from `src/src`; docs and tests are quoted only where they say what the code is
meant to do. TLC checks the models on small instances, TLAPS proves the most important
invariants for every value of the constants.

- `X.tla` models a component, `MCX.tla` instantiates it for TLC, `*.cfg` is one run,
  `XProofs.tla` holds theorems and proofs.
- `tlc -config Wal.cfg MCWal` repeats a run, `tlapm WalProofs.tla` a proof.
- `PROJECT.json` has the map from definitions to source lines, the runs, the mutants (how a
  plausible bug in a mapped definition breaks each property), the hazards and the theorems.
- A definition `Def_Something` is a mutated form of `Def` and is used by nothing else.

## 1. The system

| Part | State | Operations | Talks to |
|---|---|---|---|
| `platform/fs` WAL | one append-only file; `next_seq_`, `entry_count_`, `size_bytes_` under a mutex | create, append, fsync, replay, truncate, truncate_all | the file system; survives kill and power loss |
| `ability_b` InprocChannel | three priority queues, `closed_`, a condition variable | send_base, recv_base (0, finite, infinite timeout), close | senders and receivers in threads |
| `ability_b` TcpChannel | a ZeroMQ socket, `closed_`, `connected_`, `next_seq_`; a mutex for connect and close only | connect, send_base, recv_base, close | libzmq, the peer |
| `ability_b` Channel<T> | the transport it was given | forwards send, recv, close | InprocChannel or TcpChannel |
| `ability_b` Port | bounded deque, condition variable | push, recv, try_recv; OutputPort::try_send | nodes |
| `ability_b` Topology | `nodes_`, `edges_` under a mutex | transactions of add/remove items, commit, clear, has_cycle | SDK, DiscoveryBridge |
| `ability_c` nodes | `running_`, the worker thread, the LifecycleState | start, stop, reload, the worker loop | Port, ProcessExecutor, the file system |
| `ability_c` ProcessExecutor | none between calls; two pipes and a child within one | execute | the child process |
| `ability_a` Advertiser, Scanner | `state_`, the thread, the socket; the nonce window | start, stop, broadcast_once, poll_once/handle_frame | UDP broadcast, ServiceRegistry |
| `ability_a` UdpSocket | descriptor, time stamps of two rate limiters | send, recv, close | the network |
| `ability_a` ServiceRegistry | `nodes_` and the callbacks, two mutexes | register_node, unregister_node, clear, subscribe, notify | subscribers, DiscoveryBridge |
| `ability_a` PeerWhitelist | a map under a mutex | add, remove, contains | SDK |
| `audit` | `seq_`, `prev_hash_`, a text file | construct, append, verify_chain | the file system |
| `crypto` keystore | a key file and its `.tmp` | save, load | other processes on the same file |
| `crypto` PSK handshake | `done_`, `keys_`, the request | begin_handshake, process_handshake, encrypt, decrypt | the peer, over an unreliable channel |
| `core` RingBuffer | `head_`, `tail_`, storage, no lock | write by one thread, read by another | data path |
| `sdk` Client | whitelist, registry, topology, audit logger | ~20 calls from any thread | all of the above |
| `sdk` C API, `cli`, observability, config, log, serializer, PKI/TLS | little or no shared state | | |

What is hard here, and to test: files that are written in several steps and read after a crash
(WAL, keystore, audit); thread objects, flags and states that are changed without a common lock
(nodes, advertiser, scanner); condition variables and a predicate with a side effect (channel);
a socket that is used without the lock it is closed under (TCP channel); callbacks outside the
lock (registry); a lock-free ring; two pipes and a child process that other children may
inherit; files opened anew for every chunk; UDP frames that are lost, repeated, damaged and
reordered; a check and its use in two critical sections (SDK). PROJECT.json lists them as
hazards with their lines.

## 2. Modules

| Module | Models | State and actions against the code |
|---|---|---|
| `Wal` | `platform/fs/wal.cpp` | `file` is the sequence of records, each whole or torn in its header or body; `disk` is the image at the last fsync. One action per public call (the mutex makes them atomic), one per way it fails: short write, failing fsync, kill within append, header write or truncate, power loss |
| `DurableLog` | what `wal.hpp` promises | a set of numbered entries, extended at the top, cut from below, untouched by restarts |
| `InprocChannel` | `inproc_channel.cpp` | senders and receivers with program counters; the lock, the wait, the wake-up and the notification after the unlock are separate steps. The predicate of the wait pops, as in the code; `lost` records what the second pop overwrites |
| `TcpChannel` | `tcp_channel.cpp` | every call of libzmq with the socket is a step, because `send_base` and `recv_base` do not take the mutex; `sock` is open, freed by `close` but not yet null, or null. Frames are bytes: `encode_frame` and `decode_frame` are translated as they are, a number four bytes at a time. The library's queues and its `ZMQ_RCVTIMEO` are in `zmq`; library and peer are external |
| `Channel` | `channel.hpp` | the channel a user sees, over one of the two transports |
| `DiscoveryLifecycle` | `start`/`stop` of Scanner and Advertiser | one step per atomic access: compare-and-swap, spawn, spin, exchange, close, joinable, join; the thread's own stores. `class` tells the two apart (Scanner closes its socket before the join, Advertiser after it) and is chosen at the start; `sock` says whether there is a socket still |
| `NodeLifecycle` | `start`/`stop`/`reload` of the worker nodes | the same for `running_`, `worker_` and the state of the base class |
| `ProcessExecutor` | `execute` | whitelist, pipes, spawn, the two read loops, waitpid, each with its failure; the child writes and exits, or goes on for ever, or is killed; `heir` is a child that another node spawns while the pipes are open and that keeps them. Pipes hold `Capacity` chunks |
| `CmdExecNode` | composition of the last two with the input port | the worker tests `running_`, takes a request from the port, executes it and replies |
| `FileXferNode` | the node that writes chunks of files, on `NodeLifecycle` | the worker takes a chunk, checks its path, opens the file ("r+b", else "w+b"), seeks, writes and answers; one action per outcome. A byte of a file is the number of the chunk that wrote it |
| `NetInfoNode` | the node with two input ports, on `NodeLifecycle` | the worker tries the queries and, only when there is none, the set requests |
| `WorkerNodes` | a node of any of the three classes | composition; `kind` is the class |
| `ServiceRegistry` | `service_registry.cpp` | the change, the copy of the callbacks and each callback are steps; `mirror` is what a subscriber that applies events would hold, as DiscoveryBridge's receiver does |
| `AuditLog` | `audit.cpp` | lines are records, a hash is the term it is computed from; a failing write leaves nothing, the line without its newline, an event whose params_json or params_hash is cut, the first digits of its number, or a part that leads nowhere; `Join` is what such a line reads as once the next is written behind it |
| `SdkClient` | `sdk.cpp`, extends `AuditLog` | whitelist change and its audit record are two steps of a thread; a client is made and dropped again and again over one file. `Audit` is Client::audit, which records whatever its caller says and looks at no whitelist |
| `Topology`, `TopologyCycle` | `topology.cpp` | a transaction is a sequence of items, commit applies them to the graph one after the other (`Stages`); `has_cycle` is the coloured depth-first search. A call of `dfs` is a function of what the calls share (`visited`, `stack`, `has`) and a name, the two loops are one operator (`Loop`), and the orders of the hash tables are parameters |
| `Discovery` | advertiser, UDP, scanner | the limiter's reading of the clock, its test and the store of that reading with the send are three steps; frames are lost, repeated, damaged and delivered in any order; `handle_frame` is one action per outcome. Time is a tick, ages are counted up to the window |
| `RingBuffer` | `buffer.hpp`, `buffer.cpp` | byte by byte, counters that wrap, each memcpy and each store of an index a step. A byte is named by the position its entry was written at and its place in the entry |
| `KeyStore` | `keystore.cpp` | inodes, the path and the `.tmp` path; open, write, close, rename by two savers, load at any time |
| `PskHandshake` | `psk_authenticator.cpp`, `psk.cpp` | messages are records; a key is the pair of PSK and salt it is derived from; a MAC or tag is valid or not. After the handshake either side encrypts and the other decrypts |

Conventions. Bytes, names and payloads are abstracted to what the properties tell apart.
Environments (a configuration and the faults it meets) are chosen by `Init` where one module
is checked in several, so that one run covers them: `env` in `Wal`, `class` in
`DiscoveryLifecycle`, `dynamic` in `RingBuffer`, `peers` and `named` in `Discovery`,
`serverPsk` in `PskHandshake`, `kind` in `WorkerNodes`, `transport` and `cast` (the threads that
call) in `Channel`. Variables marked *history* in their comment influence no
action and only serve the properties.

## 3. Runs

Every run checks deadlock unless the threads may legitimately all stop (bounded numbers of
calls); the configurations say which.

| Run | Bounds | Shows |
|---|---|---|
| `Wal` | 4 append attempts; settings calm, durable, hostile | `SeqOrder`, `NextSeqAbove`, `EntriesBounded` in all of them; `SafeReadable` with fsync on append; `LiveExact` and the refinement `ImplementsDurableLog` without write errors and crashes |
| `Channel` | in process: 2 senders, 2 receivers, capacity 1, 2 messages, all timeouts; over TCP: each pair of two threads that can meet (senders, receivers, a connector) beside close, send_hwm 1, 2 frames sent, 1 received of 5 kinds, every failure | in process `Accounted`, `DeliveredInOrder`, `NoLostWakeup`, and `CloseUnblocks` under fairness; over TCP `ClosedStaysDown`, `FramesExact`, `NumbersAscend`, `TimeoutIsOwn` |
| `ChannelHeartbeat` | 1 sender, 1 receiver | **violated**: `HeartbeatNeverDropped`, see 6 |
| `Lifecycle` | 3 callers, 4 starts, both classes | `QuietConsistent`, `CallsReturn` (a process that was terminated returns from nothing) |
| `CmdExec` | each class with 2 callers and 2 starts. CmdExecNode: port of 1, 2 requests, pipes of 1 chunk, 2 chunks to write on each, every failure. FileXferNode: 2 of 6 chunks (overlapping, behind a hole, empty, beyond a long, refused), every failure. NetInfoNode: queries without end, 2 set requests | `QuietConsistent`, `OutputComplete`, `DescriptorsClosed`, `StoredAsAcked`, `StopReturns`, `AllServed` |
| `Registry` | 2 writers, 2 nodes, 2 versions, 2 subscribers, 3 changes, 1 clear | `MirrorExact`, `HearsEveryChange` |
| `Sdk` | 2 threads, 1 peer, 3 appends, 2 clients, 2 faults, numbers below 100; callers of Client::audit record an addition or a use that never was, several lines, or a target with a separator | `RecordsExact`, `VerifiedIsHonest`, `GapsDetected`, `WhitelistRecorded`, `UsesAccounted` |
| `Topology` | 3 names, 2 items a transaction, 3 commits, 1 clear | `CycleExact`, `CommitMeaning` |
| `Discovery` | 1 host, 2 nonces, 2 frames on the way, window 2, gap 3, period 2, a clock reading stored at most 1 later | `RegistryAuthentic`, `OncePerWindow`, `BroadcastBound`, `Discovered` |
| `Ring` | 16 bytes, header of 4, counters modulo 32, entries of 0, 3, 12 and 13 bytes | `EntriesInOrder`, `MemorySafe` |
| `RingDynamic` | the same storage | **violated**: `StorageKept`, see 6 |
| `Crypto` | key file: 2 savers, 3 keys, 4 inodes, kills, failing flush; handshake: 3 begun, 3 messages on the way, equal or different PSKs, session data both ways | `LoadWhole`, `ServerHadKeys`, `SessionReadable` |

Why the bounds are enough. Two threads of a kind are needed for every race modelled, and the
code treats further ones alike. A bound of a queue, pipe or port is smaller than the number of
messages, so that it is full and empty. In `Ring` the counters wrap twice around the storage and
entries start at every offset. In `CmdExec` a child has one chunk more to write than a pipe
holds, so it blocks unless it is read, and its output is read in pieces. Two chunks of a file
make one that overwrites, extends or follows another. Over TCP two threads and close are enough,
as each call touches the socket at most six times and only close changes it for all; the timeout
zero is left out there since the library treats it as a finite one. Over TCP the priorities are
Heartbeat and Data: send_base treats Control as Data. In `Wal` four appends cover: one before a
fault, the fault, one after, and one after a restart. In `Sdk` one fault may be followed by
another and by a restart; three appends and numbers of two digits are enough for a number that is
cut and continued by the next, and one peer for every change of trust, since peers share nothing
but the log. `Discovery` has one host because hosts share nothing but the nonce
table, whose entries are per nonce; two nonces make a frame that is new while another is
remembered.

Exceptions stated in the properties. Some guarantees hold except where two calls get in each
other's way or a write fails; the property then names exactly those cases with a history
variable, and the exception ends as soon as the code's own behaviour ends it:

- `raced` (`Registry`): nodes whose last two changes were notified of at the same time, until
  the next change notified of alone; `unsaid`: nodes dropped by `clear`, which tells nobody.
- `spoilt` (`Crypto`): files written by two savers at once or whose writing at close failed.
- `ragged` (`Ring`): a DynamicRingBuffer was given a span whose length is no multiple of the
  header's; it may write behind its storage from then on, which `RingDynamic` shows.
- `harmed` (`Sdk`): a write of the log failed, a field held the separator, or one had several
  lines; `unsure`, `lost`: peers whose last change raced with another, or whose append failed, or
  about whom a caller of Client::audit made up a change. `UsesAccounted` is about the peers that
  push_file, pull_file, run_remote and auth_psk let be used: a record that says so may also come
  from Client::audit.
- `Hung` (`CmdExec`): the child never ends of its own accord, and `execute` has no timeout;
  `Choked`: the child waits for room in a pipe that `execute` does not read; `heir`: another
  node's child holds the pipes for ever; queries that never end, for the set requests of
  NetInfoNode. All four are cases in which the code does hang or starve; the properties say that
  there is no fifth.
- `damaged` (`CmdExec`): chunks written short on a full disk, and chunks of a file that was
  emptied because "r+b" failed on it.
- `overlapped` (`Channel`): two calls of recv_base have been under way at a time. `stray` marks
  the use of a freed socket by a call that began after close; calls under way do meet it.

Fairness. `Channel`: a thread inside send_base or close finishes, and a receiver that was
notified or whose timeout passes runs again; nobody is sure to send or close. `Lifecycle` and
`CmdExec`: calls under way and the worker loop run on; nobody is sure to call, push or fail. All
of it weak, which any scheduler that starves no thread provides. Of the child of `CmdExec`
nothing is assumed: it is some program, and one that loops, waits or writes without end is one
that takes the step `Hang`, which is open to it at any time and for ever; the fairness of the
child only says that one that did not take that step runs. The TCP transport
has no liveness property, as libzmq's progress is not the code's. `Discovery`: time
passes, the loop of run() runs, a call of broadcast_once ends once begun and no frame is under way
for ever (weak); of a host that goes on
broadcasting, some send succeeds and some frame gets through intact (strong): without that
nothing could be promised over UDP.

## 4. Proofs

Every theorem holds for all values of the constants that their named assumptions allow: any
number of threads, peers, keys, hosts or records, any bound. The assumptions give types and keep
the markers (`None`, `Unknown`, `Short`, ...) apart from real values; that `Senders` and
`Receivers` are finite (`ChannelAssumption`) is used to count notified receivers and numbers
drawn, that the names of a topology are (`NamesAssumption`) that its search ends. Only the life cycles, the numbers on the wire and the ring need more, see below. Each
theorem rests on one inductive invariant, which stands with its parts named in the component's
module or, for the ring (`RingInv`) and the wire (`WireInv`), before the proofs; TLC has checked
each of them on the bounds of section 3.

`WalProofs` (`Wal`, for every `Settings`).

- `SeqOrder` is not inductive. `OrderInv` adds that the image a power loss can bring back is
  ordered as well, that an open log's `next_seq` is above everything that can be read, that a
  file without a header holds no records (ftruncate may give it bytes that readers accept as
  one), and the types. The work is in the steps that rewrite the file: a truncate that fails half
  way, and a reopening that recomputes `next_seq` from a scan which sees more than a reader
  accepts (torn bodies) and never less. `OrderInvariant`, `TypeCorrect`, `ReplayAscending`
  (`SeqOrder`), `NextIsFresh` (`NextSeqAbove`).
- `BoundInv`: what can be read lies within the first `entry_count` records of the file, and
  within the first `max_entries` of file and durable image alike. `LimitHolds`
  (`EntriesBounded`).
- `SafeInv`: a safe record is in the durable image and below `floor`, the part of the file that
  every image after a power loss contains. `AcksAreDurable` (`SafeReadable`).
- `OrderlyInv`: without write errors and crashes nothing is torn, and record identities stay
  below the number of attempts. `ReplayIsExact` (`LiveExact`), and with it the refinement
  `WalImplementsLog` (`ImplementsDurableLog`): each step maps to a step of `DurableLog` or to
  none.

`ChannelProofs` (`Channel`, `InprocChannel`, `TcpChannel`).

- In process, `InprocInv`. `FrameInv` says that a queue ascends and holds frames of its own
  priority, that what was returned or lost was taken out before all that its queue still holds,
  that every number has a frame somewhere, and that the counts add up; it takes queues and
  history as parameters because a wakeup pops twice. `EnoughNotified` says that there is a
  notified receiver or a notify to come for every queued frame, unless all that wait are
  notified: `NoLostWakeup` alone is not inductive, as it forgets how many there are.
  `FramesAccounted`, `FramesInOrder`, `WakeupsNotLost`.
- Over TCP, `TcpInv`: a call past the check of `closed_` began before close, and once the socket
  is freed there is no connection; while calls of recv_base do not overlap there is one at most,
  and at each point of it the socket has the timeout that belongs there. `TcpInvariant`,
  `ClosedChannelStaysDown`, `TimeoutsAreOwn`.
- On the wire, first `FrameRoundTrip`: `decode_frame` gives back what `encode_frame` was given,
  whatever follows it, if the number fits its 8 bytes and the length its 4; `Layout` says which
  bytes of a frame carry which field. With it `FramesAreExact`. `NumbersAscend` is not inductive,
  as it speaks only of what the peer has. `WireInv` takes it together with what the library still
  holds, and adds that a number drawn and not yet sent is above all of its sender and different
  from all others, drawn or sent (`Orderly`). The numbers are assumed to fit their 8 bytes
  (`NumbersAssumption`): up to the bound `TcpSeq` plus one for each sender, as all of them may have
  passed the bound's guard before the first draws. `WireInv` therefore counts the calls that are
  about to draw. `WireInvariant`, `NumbersAreAscending`.

`DiscoveryProofs` and `NodeProofs`, the life cycles. `SerialInv` says that calls under
way are of one kind, that only one of them is past the compare-and-swap or exchange, and which
state, thread and (Scanner, Advertiser) socket go with each of its stages. It is inductive when
starts, stops and reloads do not overlap (`Overlap = FALSE`, and a stopped node is not
reloaded), which is an assumption of the theorems (`Serial`): without it the properties are
false, see 6. Results: `SerialInvariant` and `SafeLifecycle` (`NoTerminate` and
`QuietConsistent`) for both. `NodeProofs` then shows that what the workers do with messages
leaves the life cycle alone: `CmdStep`, `FileStep` and `NetStep` say of each class that every
step of it is a step of `NodeLifecycle` or changes nothing of it, `CmdImplements` and
`NodesImplement` are the refinements, and `CmdSafe` and `NodesSafe` carry the result over to a
node of any class, whatever its child processes, files and ports do.

`NodeProofs`, the work (also when starts and stops overlap). `WorkInv` joins `ExecInv` of
`ProcessExecutor` (what was read and what a pipe still holds are together all that the child
wrote; a stream read to its end is empty for good; which descriptors are open at each stage) and
`FileInv` of `FileXferNode` (only chunks the worker has taken are answered, and the one in its
hands is not yet). `WorkInvariant`, `OutputIsComplete`, `DescriptorsAreClosed`, `ChunksStored`.

`DiscoveryProofs`, the protocol. `DiscoveryInv`: an intact frame says what its host announces or
announced before, a nonce that registered something is in the cache at the same age until the
window has passed. None of it leans on the limiter, whose own property, `BroadcastBound`, is only
model-checked. `DiscoveryInvariant`, `RegisteredIsAuthentic`, and the action property
`RegisteredOncePerWindow` (`OncePerWindow`).

`RegistryProofs` (`ServiceRegistry`). `RegistryInv`: a change a subscriber has not heard of is
still on its way to it; a copy that differs from the registry will be put right by a writer under
way; a node that is not `raced` has one such writer at most, and it tells what the registry
holds. `RegistryInvariant`, `SubscribersHearEveryChange`, `MirrorsAreExact`.

`SdkProofs` (`AuditLog`, `SdkClient`). `ClientInv` has a part for the log and one for the
whitelist. The log: `ExactInv`, a logger is where its file ends while nothing has failed. For
`VerifiedIsHonest` it is not enough to look at the file as it is: a file that ends in digits does
not verify, and may once the next event is written behind them. So the inductive invariant is
about the file without such digits (`Base`): if that verifies it is honest (`HonestBase`), and the
hash in memory is never behind that of its last line, and where the two agree so do the numbers
(`InStep`). A failed append leaves the hash ahead until the logger restarts, and nothing appended
meanwhile can verify. The digits themselves ascend because a number with digits in front of it is
larger than the number (`JoinedIsLarger`), and the first digits of a number are no larger than it
(`LeadingSmaller`). The whitelist: `DueAgrees`, a change still to be recorded that races with no
other and is not made up is what the whitelist shows; `UsableAdded`, peers that may be used, or
were, were added; `FreshClient`, a client keeps nothing of the one before. The proofs about
`verify_chain` rest on what a hash is modelled as, the term it is computed from: equal hashes come
from equal chains. `ClientInvariant`, `LogIsExact`, `ChainIsHonest`, `ChainShowsGaps`,
`WhitelistIsRecorded`, `UsedPeersWereAdded`.

`CryptoProofs` (`KeyStore`, `PskHandshake`). `KeyInv`, of inodes that are not spoilt: one saver at
most has such an inode open, it holds the saver's key once the stream is closed, and once it is
the file nobody can write to it. `KeyInvariant`, `LoadsAreWhole`. `SessionInv`: the keys of every
response and encrypted message under way and of both sides were derived by the server, from its
PSK and the salt of a request that the client began or that was damaged. `SessionInvariant`,
`ClientKeysFromServer`, `SessionIsReadable`.

`StructureProofs`, the ring (`RingBuffer`). `RingInv`, with distances measured from `tail`, so that
counters that wrap and an index that wraps elsewhere do not show: entries lie one behind the other
up to `head` (`InLine`), with room left for the one being written (`Room`); the storage holds each
whole (`Held`), and of the one being written what has been written (`Written`); the reader has the
length of the oldest (`Copied`). Both properties follow, once it is known that positions less than
`Capacity` apart never share a byte (`OneCell`). `InStep` and `Fence` are for DynamicRingBuffer:
as long as all lengths were multiples of the header's, entries begin at such multiples and no
length field crosses the end of the storage. A first length that is none ends this, so the
invariant (`RaggedOrKept`) and both results hold until then, and always for RingBuffer.
`RingAssumption` asks that the header divides the capacity and the capacity the range of the
counters, as powers of two do. `RingInvariant`, `EntriesAreInOrder`, `MemoryIsSafe`.

`StructureProofs`, the topology (`Topology`). That the loop of commit has a result for every
transaction (`StagesExist`), and that what no later item changes stays (`Settled`), are inductions
over the items; they are done by taking the least number for which the claim fails. One item is a
matter of cases (`ItemOnNode`, `ItemOnEdge`), and `CommitsMeanLastWins` (`CommitMeaning`) puts
them together. The only invariant it needs is the type of the transactions.

`StructureProofs`, the search (`TopologyCycle`), on the graph of any state, for a finite set of
names (`NamesAssumption`). `Reaches` is independent of the search: n lies in every set that is
closed under successors and holds those of u. `Sound` says of what the calls share that the stack
was visited, and that what was visited and left (`Black`) has only such successors and lies on no
cycle. A name may be called while the search is sound and everything on the stack reaches it
(`Callable`); such a call ends sound, with the stack as before and the name among those left, or
it has found a cycle that the name reaches (`Returned`). This is shown for one turn of a loop
(`TurnReturns`), then for a loop (`LoopReturns`), for a call given the calls it makes
(`VisitReturns`), and by induction on the names not yet visited for all calls (`SearchCorrect`);
each call but the innermost visits one, so calls are never nested deeper than there are names and
one more, which is why `dfs` as defined is the whole recursion. With `NodesAreNames` follow
`CyclesAreExact` (`CycleExact`, one order for all) and `CyclesInAnyOrder`, in which the roots and
the successors of each node have orders of their own, as the hash table and the vectors of the
code have them.

Only model-checked, and why:

- liveness (`CloseUnblocks`, `CallsReturn`, `StopReturns`, `AllServed`, `Discovered`), which is out
  of the prover's reach, as is ENABLED;
- `BroadcastBound`: its bound of three is a count over the ways in which two callers meet, and is
  for two callers only.

## 5. Not modelled

- DiscoveryBridge: keeps no state and is wired up by tests only. What it would forward is what a
  subscriber of `ServiceRegistry` hears; that module's `mirror` stands for its receiver.
- The unicast limiter of UdpSocket: its only caller, `send_to`, is called by nothing in `src/src`.
- The C API: copies of results into buffers of C. What can go wrong is the lifetime of pointers,
  see 6; a model would have to assume the answer.
- Observability: each update and each export is one critical section or one atomic.
- Serializer, config, log, error codes, CLI, message types: parsing and formatting without
  shared state. HeartbeatNode and `init()` of the nodes only store a state.
- PKI, TLS and the primitives of OpenSSL, whose correctness is assumed, and libzmq, of which
  only what `tcp_channel.cpp` relies on is stated. Failures of memory allocation.
- Names of nodes with the separator '|' in `Topology`: `edge_key` joins two names with it
  (topology.cpp:41-43, 68-72), so that the edges of ("a|b", "c") and ("a", "b|c") have one key and
  the second is not added. The model has edges as pairs, that is, names without it.
- In `AuditLog`, fields and params_json whose own text, split at its separators and newlines,
  reads as events again: the further lines of a field are taken for lines that do not parse.
  (Lines that are all empty are skipped by the code, and are as good as none.)
- In `PskHandshake`, a damaged length of the ciphertext near 2^32, where 112 + len wraps
  (psk_authenticator.cpp:66) and bytes behind the response are read: a damaged length is one that
  does not fit, and is refused.
- In `Wal`, a record header torn after 8 bytes is not told apart from one torn later (wal.cpp:160-173);
  no reader accepts either. A file header written short (wal.cpp:143-146) is left out; open takes
  such a file for an empty one (wal.cpp:187), as it does the file that a kill before the header
  leaves, which is modelled.

## 6. Divergences met while modelling

Where the code does not do what a doc or comment says, the models follow the code and the
properties are stated for what it does guarantee. The run `ChannelHeartbeat` shows the first
one, the run `RingDynamic` that of `buffer.cpp:43`; the others follow from the models in the same
way.

- `inproc_channel.cpp:64`: the wait predicate already popped a message; the second pick
  overwrites it or returns Timeout ("HEARTBEAT 永远不被丢弃", line 25).
- `wal.cpp:461`: a failed append leaves its bytes in the file; records appended behind them
  are acknowledged and never read ("fsync 保证 tx 不丢失", docs/03-detailed-design.md:3455).
- `wal.cpp:471`: the result of fsync is ignored.
- `wal.cpp:187`: an empty file, left by a kill before the header was written, is accepted, and
  what is appended to it lies at offset 0, where no reader looks.
- `wal.cpp:505`: replay reports an error for a torn last record and does not cut it off
  (docs/03-detailed-design.md:1929).
- `wal.cpp:586`: a kill while truncate rewrites the file loses records it was to keep.
- `wal.cpp:218`: numbers of truncated records are handed out again after a reopen
  ("全局唯一递增", wal.hpp:53).
- `scanner.cpp:40`: the thread's store undoes a stop that overlaps the start, whose join then
  waits for ever (the comment on line 39 says it is waited for). `DiscoveryLifecycle` with
  `Overlap = TRUE` shows it.
- `nodes.cpp:45` and `:59`: a stop during a start, and a reload of a stopped node, leave the
  state Running without a worker (docs/04-module-design.md:1036, :1122). `NodeLifecycle` with
  `Overlap` or `ReloadStopped` TRUE shows it.
- `nodes.cpp:86`: a result that the output port refuses is dropped without a word.
- `process_executor.cpp:82`: stdout is read to its end before stderr, without a timeout; a
  child with more on stderr than a pipe holds blocks for ever, and stop() with it. An
  interrupted read has the same effect for stdout. A child that never ends does so whatever it
  writes: the timeout_ms of a command (messages.hpp:14, process_executor.hpp:24) is passed on
  by nobody and looked at by nobody. `:43`: a failing second pipe() leaks the
  two ends of the first.
- `service_registry.cpp:58`, `:133`, `:105`: events of two writers may arrive in the opposite
  order of the changes; a callback may run after its subscription was released; clear tells
  nobody.
- `audit.cpp:168`: a failed write takes back `seq_` but neither the bytes written nor
  `prev_hash_` (the comment says both, "防止链断裂"): the chain is broken from there on.
  `audit.cpp:58`: a field with the separator is accepted and makes the file unverifiable; so does
  a params_json of several lines (`:167`), though append answers ok.
- `audit.cpp:163`: when only the digit 2 of event 2 reaches the file and the logger restarts, the
  next event, again 2, is written behind it and reads 22: the chain verifies with the numbers 1
  and 22 ("全局递增序列号", audit.hpp:85). `VerifiedIsHonest` says how far this can go.
- `sdk.cpp:60`: Client::audit records uses of peers that are not in the whitelist, and changes of
  it that never were. The records alone do not prove either.
- `topology.cpp:50`: commit does not consume the transaction (topology.hpp:99); `:141`: a single
  node with an edge to itself is reported acyclic.
- `udp_socket.cpp:112`: two callers may pass the broadcast limiter side by side, and the slower
  one may store an older reading of the clock over a newer one (`:116`), so that both pass again:
  up to three broadcasts within a period (one is promised, udp_socket.hpp:48); `:98`: the
  unicast limiter reads the clock before it takes the lock (udp_socket.hpp:48).
- `scanner.cpp:154`: a delayed announcement overwrites a newer one (docs/02-architecture.md:352).
- `buffer.cpp:43`: DynamicRingBuffer stores and reads a length field in one piece, behind the
  storage if the entry starts in its last three bytes, which lengths that are no multiples of four
  lead to. RingBuffer splits it, and the two are said to be equivalent (buffer.hpp:166); tests write
  spans of one byte (test_buffer_props.cpp:104) and of other lengths (test_buffer.cpp:210-228).
- `keystore.cpp:63`, `:73`: savers share one temporary file; success is decided before the
  buffer is flushed.
- `tcp_channel.cpp:212`, `:248`: the socket is used without the mutex and by any thread, though a
  ZeroMQ socket belongs to one at a time ("保护 impl_ 的连接/重连状态", tcp_channel.hpp:95): a call
  under way may meet the socket that close has freed; of two receivers that overlap, one may
  wait with the other's timeout or leave it behind (`:244`); numbers drawn by two senders may
  arrive out of order (`:205`).
- `channel.hpp:79`: Channel<T>::send drops the value it is given and sends an empty frame.
- `nodes.cpp:205`: when "r+b" fails for another reason than a missing file, "w+b" empties it
  (the comment says the file does not exist); `:233`: a short write is answered with ok;
  `is_last` is never looked at ("is_last=true 时关闭文件描述符并返回 ok=true", nodes.hpp:92).
- `nodes.cpp:273`: set requests wait for as long as there are queries.
- `scanner.cpp:59`: a scanner or an advertiser that was stopped can be started again and says it
  runs, without a socket.
- `process_executor.cpp:42`: the pipes are inherited by children that other threads spawn, and
  are not at their end before these are.
- `udaf_c.cpp`: discover and trust_list keep their strings in one buffer per client, so the
  second call invalidates what the first returned.
- `psk_authenticator.cpp:102`: beginning again leaves the client done with its old keys.
- `sdk.cpp:210`: a change of the whitelist stands although its audit record failed.

## 7. Plan

The modules of the plan are written: the core, then the TCP transport beside the one in process,
the other two worker nodes, the session after the handshake, the socket of scanner and
advertiser, and the pipes a foreign child inherits. All safety properties of the
passing runs are proved. What is left is the result of the fsync in append (`wal.cpp:471`), which
the code ignores: a property of it would have to say what a caller of append may rely on when the
disk fails.
