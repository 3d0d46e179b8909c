# A TLA+ model of raft-a-tui

raft-a-tui is a replicated key-value store: three servers run the raft-rs
consensus core in a loop of their own, keep its log in a sled database, talk to
each other over TCP and serve PUT and GET over gRPC to a "smart" client that
follows leader redirects. This directory models the parts of it that the
repository itself implements, checks them with TLC on small instances and proves
what matters most about the storage, the Ready loop, the cluster, the terminal,
the client and the transport with TLAPS for all instances.

Run a check with `tlc -config <run>.cfg <MC module>`, a proof with
`tlapm <module>Proofs.tla`. PROJECT.json lists the runs, what each one is
about, the source lines behind every definition, and for every property a
mutation of the model that breaks it.

## The system

| Part | State | Operations | Interacts with |
|---|---|---|---|
| `DiskStorage` (disk_storage.rs) | sled trees `entries`, `snapshots`, `meta`; cached applied index | append, apply_snapshot, set_hardstate, set_conf_state, set_applied_index, compact; first_index, last_index, term, entries, initial_state | called by the Ready processor, the entry applicator and the raft-rs core |
| `RaftStorage` (storage.rs) | one of two backends | forwards; initialize_with_conf_state | as above |
| `RaftDriver` (raft_loop.rs) | owns everything below | one input, tick, ready check, ready processing; shutdown | command, message, shutdown and state channels |
| `CommandHandler` (command_handler.rs) | none | gRPC PUT/GET, TUI PUT/GET/KEYS/STATUS/CAMPAIGN | RaftNode, Node |
| `DefaultReadyProcessor` (ready_processor.rs) | previous leader (display) | send, store snapshot, append, store hard state, send, apply, advance, apply | storage, transport, applicator |
| `KvEntryApplicator` (entry_applicator.rs), `Node` (node.rs) | the map | apply a PUT, restore a snapshot | callbacks in RaftNode, storage |
| `RaftNode` (raft_node.rs) | the raft-rs `RawNode`; callbacks by uuid | new, propose_command, take_callback | raft-rs |
| `RaftKvService` (server.rs) | command channel, peer addresses | put, get | command channel, oneshot replies |
| smart client (raft-client) | leader hint | put with up to 5 attempts, get | gRPC |
| `TcpTransport` (tcp_transport.rs) | a queue and a connection per peer | send; sender, listener and handler threads | message channel of the peer |
| `App`, `run_tui` (raft-server/src/main.rs) | input line and cursor, mirror of the map, shutdown | keys, submit, drain updates, quit; main joins the loop thread | command, update and shutdown channels |
| the cluster | the servers' logs and maps together | elections, replication, PUT, local GET | what every client relies on |

What is hard in it: a crash can fall between any two sled writes, and the store
is then read by a core that panics on what it does not accept; messages must
leave only after what they promise is flushed; a restart replays the log into an
empty map; a leader can be replaced with requests in flight; the client retries
requests that may still be alive; connections are replaced while the old one is
still being read; elections read the store of a backend that does not truncate;
the terminal and the loop run on threads of their own and end each other. The hazards in PROJECT.json name the lines.

## The modules

**DiskStore** says what a store is: a record of the contents of the sled trees,
its reads as operators, errors included, and for every operation the successive
stores of its single writes. It has no variables. **DiskStorage** keeps one store:
`view` is what reads see, `disk` what a crash leaves. Every operation puts the
successive stores into `todo`; `Write` performs one of them, `Flush` ends the
call. sled keeps one log for the whole database, so the durable store is always a
prefix of the writes made (`BackgroundFlush`), and a flush of any tree makes all
of them durable; `apply_snapshot`'s three flushes in a row are therefore one.

**StorageCalls** drives DiskStorage alone, with the calls of RaftStorage, as a
caller that keeps raft's contract: no gap, nothing below the commit index
replaced, hard state and commit only move forward, no snapshot at or below the
commit index. Beside it runs raft-rs's MemStorage (external) with the same calls.
Of it `mem` and `goal` are the log (before and after the running call), `raft_state`
the hard state and configuration.
`stored` and `promised` record the entries that a returned call, or the running
call once it returns, makes the caller rely on. Two switches widen the caller:
`Overwrites` (a log suffix may be replaced) and `Compaction` (compact() is used).

**ReadyLoop** is one server: the loop, command handler, Ready processor,
applicator and map on top of DiskStorage. `pc` is the position of the loop
thread: `input`, `tick`, `ready`, then the stages of process_ready (`snapshot`,
`restore`, `append`, `hardstate`, `persisted`, `apply`, `light`), and around the
loop `open`, `new`, `panicked`, `stopped`. A stage that stores something starts a
storage call, and the next stage waits for its flush; `Crash` may happen at any
time and reopens the store. The raft-rs core is external and reduced to what the
loop can see of it: hard state, unstable entries, pending snapshot, queued
messages, how far committed entries were handed out. Messages are kept as the
promises they make (a vote, leading a term, having stored a prefix). The other
servers are an environment that keeps Raft's guarantees (`LeaderHolds`,
`MayChoose`): one log per leader and term, which never changes where it is known
and contains what was chosen; a snapshot stands for entries such a leader has
committed and carries the map they give. Whatever the *other* servers do within
those guarantees, this server must keep its own part.

**ReplicatedMap** is what the cluster promises its users: one order of writes
that only grows, a PUT answered with success only when its write is in it, every
server's map (what a local GET answers from) a prefix of it, a refused or lost PUT
either in it or not.

**Cluster** is all servers together, each with a DiskStore or a MemStorage as its
log, its map and its waiting PUTs. A step is one iteration of a server's loop; the
raft-rs core is modelled with its elections (votes counted, any of them lost),
appends, commit rule and term changes, on what the *store* answers for
`last_index` and `term`. `Implements == Abstract!Spec` instantiates ReplicatedMap
with the committed prefix of the server that has the highest commit index as the
order of writes; a PUT is pending while its callback is registered. What keeps the
module small, and why it may: a memory server has no restarts, as its process has
nothing to come back to; a late, repeated or overtaken append is covered because a
leader may send from any position it has not seen acknowledged and with any
commit index it has had; a step on which raft-rs panics is not taken; crashes
inside a Ready are ReadyLoop's subject. ReadyLoop assumes Raft's guarantees of the
other servers, and Cluster shows where they come from, and that the disk backend
can break them (cluster_disk).

**SmartClient** is the client's PUT loop, the gRPC service, the command channel
and the callbacks. The cluster is reduced to a chosen log and, for each server,
the entries after it. A leader that was replaced and has not heard of it still
accepts requests, since check_quorum is off. A GET changes no state; `GetServers`
is the set of servers that would answer one.

**TcpTransport** is one direction between two servers: the unbounded queue, the
sender thread with its three attempts per message, one connection after the
other, and one reader per connection, all of which run concurrently. TCP is
external: it delivers a prefix of what was written, and a writer may learn late
or never that the connection is gone.

**ServerApp** is the process around the loop: the terminal thread with its input
line (characters of one and of two bytes, since the cursor counts characters and
String counts bytes), parse_command, the mirror of the map that updates keep, and
the loop thread reduced to what the terminal can tell of it, with the command,
update and shutdown channels between the two and the join at the end.

**MC*** modules give the constants their values. **DiskStorageLemmas** and the
seven **\*Proofs** modules hold the proofs. (ReadyLoop has two of them, one for
the hard state and one for log and map.)

## What the runs check

| Run | Bounds | Shows |
|---|---|---|
| storage_crash | 3 indices, 2 terms, batches of 2, 1 crash, 2 configurations (interchangeable), overwrites and compaction | `DurableBetweenCalls`, `StoredSurvives`, `LogHasNoHole` at every crash point; `LogReadsAgree`: first_index, term and entries answer on disk as in memory, while the disk's last_index may count a stale tail; `InitialStateAgrees`: so does initial_state, except between a snapshot and the next hard state |
| loop_durable | 2 servers, 2 terms, 2 indices, snapshots, 1 crash | `VotesDurable`, `AcksDurable`; `OneVotePerTerm`: the votes sent before and after the crash never name two candidates in one term |
| loop_kv | 1 term, 3 indices, an own and a foreign PUT, 1 crash | `KvIsReplay`, `Restartable` |
| loop_single | 1 server, 3 terms, 4 indices, 2 PUTs, 2 crashes | `KvIsReplay`, `AnsweredIsChosen` on the LightReady path; `CommittedIsApplied` under fairness |
| cluster_map | 3 servers, 2 PUTs; memory: 3 terms, 3 indices; disk: 2 terms, 2 indices, 2 restarts | `LeaderHoldsCommitted`, and `Implements`: the cluster refines ReplicatedMap |
| client_order | 3 servers, 2 PUTs, 3 attempts, 2 elections, 1 crash, 1 broken connection | `SuccessIsChosen`, `AttemptOnce`, `WritesInOrder` |
| tcp_faults | 5 messages, 3 attempts, 6 faults | `NoDuplicate`, `OrderedWithoutFaults`, `DroppedStaysDropped`, `QueueDrains` |
| app_terminal | lines of 5 characters over a one-byte letter, a two-byte letter and the blank; 1 key, 2 writes, 1 queued command | `AsciiNeverPanics`, `MirrorFollowsMap`, `ProcessEnds` |

Why the bounds are enough for the cases meant: two terms and two indices give a
deposed leader an entry that its successor overwrites, before and after it was
stored; a batch of two gives a crash in the middle of an append; one crash falls
between any two writes, and after it the whole behaviour continues. In
ReadyLoop one peer suffices, because the environment stands for all other
servers. In Cluster three terms over three servers let two leaders in a row be
replaced, each with its PUT in flight, and the second restart of a disk server
meets what the first one's replay left. Six faults over five messages use up the
attempts of a message twice. Five characters hold every command with a key and a
value of one character (`p`, blank, key, blank, value), and the cursor can stand
before, on and behind a two-byte letter in each of them. Every `Max...` constant
bounds a counter in a guard. Deadlock is not checked: the bounded models stop when
their inputs are used up.

Four further runs end in a violation: the code does something else than a line of
the repository says, which PROJECT.json quotes.

- **cluster_disk** (4 terms, 3 indices, no crash): `append` removes nothing above
  the entries it writes. A conflicting append that is shorter than what it replaces
  leaves the old tail readable, `last_index` reports it, and raft-rs compares
  last_index and its term when it votes. In the run a leader X takes two PUTs in
  term 1 alone; C leads term 2, Y stores its entry; Y leads term 3 and its shorter
  log overwrites the head of X's, whose last entry of term 1 stays; Y's entry is
  committed by X and Y; in term 4 C, which lacks it, is elected with X's vote,
  since X answers with the stale entry's term for its last one.
- **loop_snapshot_crash**: a crash between storing a snapshot and storing the
  hard state leaves a store that RaftNode::new panics on.
- **client_hangs**: the callback of an overwritten proposal is never called or
  dropped, and the PUT that waits for it never returns.
- **client_get**: server and client both add 1000 to the port, so a redirect to the
  leader on 7001 leads to 8001. A PUT whose fifth attempt is redirected keeps that
  hint; `get` makes one attempt, at the hint, and leaves it, so every later GET
  fails while all servers are up.

More observations belong here although no run of their own records them.

- `compact` without a newer snapshot lets last_index fall below the commit index;
  no code calls it.
- A restart never loads the stored snapshot into the map, so `KvIsReplay` is
  claimed without snapshots only. No server creates one today, since neither
  create_snapshot nor compact has a caller; the snapshot cases need a leader that
  has one to send.
- A restarted server applies entries at or below the stored applied index again:
  RaftNode::new leaves `Config::applied` at 0. That is what makes the map right,
  since it starts empty, although storage.rs says that the index is kept "to
  prevent reapplication on restart".
- A restored snapshot sends no KvUpdate, so the terminal's mirror is stale for the
  keys it set until they are written again; `MirrorFollowsMap` leaves them out.
- With a character of more than one byte in the input line the cursor (characters)
  and the line (bytes) disagree, and a key press can panic in String::insert or
  String::remove; `AsciiNeverPanics` claims the line without such characters.
- After a terminal error run_tui returns without a shutdown and main waits in
  join() for ever. `ProcessEnds` claims the end after a quit, and after a command
  that found the loop gone.
- The client's own terminal is blocked while a PUT waits.

`WritesInOrder` does not hold once a connection has broken while its server lives:
the abandoned request stays in the command channel and can be chosen after a later
PUT. The property says exactly under which condition the order is kept.

## Fairness

- *ReadyLoop*: weak fairness of the storage writes, of starting, of the input
  select (it has a timeout), of the tick and of ready processing: one thread runs
  all of them in a loop and blocks only in storage calls. Nothing is assumed of
  messages, commands or elections.
- *SmartClient*: the client task, the loops of live servers and the leader's
  messages make progress, and a server that died is started again by its
  operator. Elections are not assumed to happen.
- *TcpTransport*: the sender thread and the handler threads make progress;
  connect has a timeout.
- *ServerApp*: both threads run. `select!` chooses at random among the channels
  that are ready, so the shutdown is taken if it stays ready while other channels
  come and go: strong fairness of that one step. Nothing is assumed of the user,
  the terminal or the cluster.
- *Cluster* has safety properties only.

## What is proved

**StorageCallsProofs** proves, for all payloads, configurations, bounds and both
switches, that `TypeOK`, `DurableBetweenCalls`, `StoredSurvives`, `LogHasNoHole`,
`LogReadsAgree` and `InitialStateAgrees` are invariants of StorageCalls (`TypeCorrect`,
`CallsAreDurable`, `EntriesSurvive`, `NoHoleAnywhere`, `LogReadsInterchange`,
`InitialStateInterchange`). The assumptions are `StorageConstants` and
`CallConstants`, which TLC evaluates in every storage run.

None of the six is inductive. A crash replaces what is visible by what is
durable, and what is durable may be the result of any single write of a call. The
inductive invariant `Inv` therefore speaks of *every* store that can still be
seen: the durable one, the visible one and the pending ones (`Stores`). Each of
them is `Good` (typed, with a snapshot, without a hole, and complete above
snapshot and commit index: `FullAbove`, the fact that makes an append that starts
there leave no hole, also after a compaction or a crash inside one) and keeps
what neither the running call nor an earlier one gave up (`Keeps(s, Kept)`). The
store a call ends with (`Final`) keeps everything promised, so that the return of
the call may turn promises into facts. The proof has one lemma per operation;
DiskStorageLemmas states what the sequences of writes contain (`append_writes`,
`removal_writes`, `apply_snapshot_writes`) and keeps the arithmetic out of the
main argument.

For `LogReadsAgree` a second invariant, `Matches`, compares the store the running
call ends with to what MemStorage holds once it has returned (`goal`): either
every entry of the memory log is there behind the same snapshot (`Agrees`), or a
committed entry is neither there nor covered (`Lost`), which only compact() ahead
of the snapshot brings about and which `IsWhole`, the condition of the property,
excludes since a store has no hole. A crash starts the comparison anew, because
what RaftLog::new reads back is the run of entries behind the snapshot, whatever
write was the last. `SameEntries` is then one lemma about `entries()`: for every
range and every size limit its quota, its stop at the first gap and MemStorage's
slice give the same sequence.

`InitialStateAgrees` has an invariant of its own, `StateMatches`, again about the
store the running call ends with: its configuration is that of MemStorage's
`raft_state`, and its hard state is the same or was left behind by a snapshot
(`Raised`: commit index before the snapshot, memory's at it, memory's term no lower,
votes equal). MemStorage's apply_snapshot raises its hard state and DiskStorage's
does not; the guard that a snapshot lies above the commit index is what makes the
difference visible as a commit index before the first index, and the next
set_hardstate ends it. loop_snapshot_crash is the crash that falls in between.

The backends are not interchangeable in the two other reads, and nothing is claimed
of them: `last_index` may be higher on disk (only `>=` is in `LogReadsAgree`;
cluster_disk shows the effect), and `snapshot()` ignores the requested index on
disk, where it returns the last stored snapshot, or a default one at index 0, while
MemStorage makes up a snapshot without data at its commit index or, when that is
lower than the requested index, at the latter.

**SmartClientProofs** proves `TypeOK`, `SuccessIsChosen`, `AttemptOnce` and
`WritesInOrder` for any finite set of servers, any ports, attempts, PUTs,
elections, crashes and broken connections, from `ClientConstants`. A request is on
its way through four places: issued by the client, in one command channel, in the
logs of some servers, chosen. `OnceEach` says that it is in at most one channel,
not at the same time in a log or chosen, and at most once in each log, so no step
can bring it into the chosen log twice. `Waiting` ties the reply the client has to
the request it waits for, which gives `SuccessIsChosen`. `InOrder` is claimed only
as long as no connection has broken (`broken = 0`): then the one request still in a
channel is the newest, and every log continues the chosen one with requests of the
same PUT or later ones.

**TcpTransportProofs** proves `TypeOK`, `NoDuplicate`, `OrderedWithoutFaults` and
`DroppedStaysDropped` for any number of messages, attempts and faults, from
`TransportConstants`. `Counted` says how far the thread has come in the sequence
of numbers, `OnePlace` that a number behind that point is on one connection, in
the inbox or given up, and in one of them only, and that the number being worked
on is in none; `InStep` that before the first fault inbox, connection and thread
together hold exactly the numbers from 1 on, in order.

**ReadyLoopProofs** proves `VotesDurable` and `OneVotePerTerm` for any number of
servers, terms, entries, snapshots and crashes, from `LoopConstants` and
`StorageConstants`. The hard state exists four times: in the core, in the last
Ready, in what reads of the store see, on disk. `Handed` says, for each position
`pc` of the loop, which of the four agree; `HsWritten` that the pending writes of
a storage call carry the right one; `Yields` that none of them takes back a term
or a vote that a later one has. `Backed` says of each message, where it waits (in
the core, in the Ready, with the transport), which hard state already covers it:
the core's own before the Ready is processed, the one on disk once it is sent.
`Elected` is what makes step 1 of process_ready, which sends a leader's messages
first, harmless: a server leads only in a term that is on disk with its vote.
`OneVotePerTerm` needs one more fact, `Agreed`: the vote messages sent and those
that can still be sent (`Cast`) name one candidate per term.

**ReadyLogProofs** builds on ReadyLoopProofs and proves `AcksDurable` and
`AnsweredIsChosen`, for the same constants and with snapshots on or off. A log
entry exists in as many places as the hard state, and a crash may cut a call that
stores several of them, so the invariant `LogInv` follows the log through the
loop. `Final` is the store a running call ends with and `CoreLog` the log the core
sees once it has: no write of a call changes either, which makes a call one step
for the core and leaves its stores to be looked at one by one (`StoresKeep`: no
hole, committed entries are the chosen ones, everything acknowledged is there).
`AcksKeep` says of an acknowledgement, in the core, in the Ready or sent, that the
core's log honours it, so that it may leave once the log is stored; `Placed` where
the log's parts are at each position `pc`, which is how the order of
process_ready enters the proof; `CoreKeeps` that the committed part of the core's
log is chosen; `Leading` that a leader's log is what is known of its term, without
which a leader's own append could contradict what it had acknowledged; `Alone` that
a single server chooses only what it has flushed; `Delivered` that a batch handed
to apply_entries is chosen. `AcksDurable` allows for an entry that a later leader
is known to lack (`Superseded`): an acknowledgement of a leader that lost is
rightly overwritten. Both theorems rest on what the module assumes of the other
servers, log matching for appends and snapshots included, which the stale tail of
the disk backend can break (cluster_disk).

**ServerAppProofs** proves `MirrorFollowsMap` and `AsciiNeverPanics` for any
alphabet, any length of lines, any keys and any number of writes, from
`AppConstants`. For the mirror the invariant is the property with the types of
map, mirror and queue; the work lies in `After`, what the mirror shows once a
queue of updates has been taken over: a further update decides its key and no
other. For the line, the cursor lies between 0 and the number of characters while
the line is ASCII, in which bytes and characters count the same (`PlainLine`);
taking out the last wide character gives an ASCII line again, with the cursor
where that character began.

The last part of ReadyLogProofs is about the map. Without snapshots it proves
`Restartable` and `KvIsReplay`. `Plain` says that a store has at most the empty
snapshot it was created with and that its commit index is an entry of its log:
process_ready stores the hard state after the entries, and append removes
nothing, so no crash separates the two. `Replayed` says where the map stands.
`since` is the last index the core has handed out and `Rest` what of it is still
to be applied, in the Ready or in the batch; the entries of `Rest` follow
`since - Len(Rest)` one by one (`Follows`), and the map is what the chosen log up
to there makes it. Applying one entry decides its key and no other
(`LastPutNext`); a restart sets both the map and `since` back. Neither theorem
holds with snapshots: a crash between apply_snapshot and set_hardstate leaves a
store that RaftNode::new rejects (loop_snapshot_crash), and a restart leaves the
stored snapshot out of the map. `TypeOK` is proved with snapshots and without.

**ClusterProofs** proves `TypeOK`, `LeaderHoldsCommitted` and `Implements`, the
refinement of ReplicatedMap, for any number of servers, PUTs, terms, indices and
restarts. On the memory backend they hold as they stand
(`backend = "memory" /\ Spec => ...`; the backend is chosen in `Init` and never
changes; such a server is not started again). On the disk backend the last two are
false as soon as the bounds leave room for it: cluster_disk is the counterexample,
with the terms and indices it takes, and cluster_map checks both backends below
them. What is proved there is that the stale tail is the only reason: the theorems
`ClusterTypeOK`, `ClusterLeaderHoldsCommitted` and `ClusterImplements` assume
`[][TailFree]_vars`, and `TailFree` says of a step on disk that an entry it replaces
is the last one of its log afterwards. MemStorage's append always leaves it so,
DiskStorage's unless the entries it writes are fewer than those they conflict with;
raft-rs sends one entry per append here (max_size_per_msg is 0), so the condition
breaks when a follower's conflicting suffix is longer than one entry, and holds
through all other elections, appends and restarts. The memory theorems are the case in which `TailFree` is
trivial (`MemoryTailFree`). The assumptions are `ClusterConstants` and
`StorageConstants`; that there is at least one server is one of them, as the server
itself is one.

The invariant `Inv` has three parts. `Shape` ties the other variables to the
store: the next entry follows the last, the map is the committed prefix of the
log, or empty since a restart (`MapsFit`). `Safety` speaks of the logs as one value G and of terms, votes, commit
indices, leaders and acknowledgements as C, V, K, L and M, without history
variables. `Matching` is Raft's log matching. `Taken` says that a quorum has left
a term or voted in it, so nobody can win a term any entry has. An entry is
`Settled` when every log with a later term holds it, `Anchored` when a quorum holds
it too: then whoever wins an election has been compared by UpToDate to a server
that holds it. `MayCommit` says it of entries not committed yet: if enough servers have
acknowledged an entry of the leader's term *or still may* (they have not left its
term behind), the entry is settled, so that the quorum LeaderCommit counts makes
it anchored. `Covered` says that what any server takes for committed lies below an
anchored entry. The steps change the logs in two ways only, and what each of them
does to every part is a lemma on its own: a log grows by one entry (`Grown`: a
PUT, a new leader's empty entry), or becomes the beginning of the leader's
(`Copied`: an append behind which nothing is left, which is where `TailFree` is
needed, and nowhere else). A restart changes no log, term or vote: for `Safety` it is
a leader stepping down. `Waiting` follows a PUT: it has one callback while it has no
answer, unless a restart has dropped it, and one entry index over all logs.

For the refinement each step of Cluster is mapped to `Send`, `Refuse`, `Progress`,
`Restart` or a stutter of ReplicatedMap. The order of writes is the committed prefix of the
server furthest ahead; any two committed prefixes are one the beginning of the
other (from `Covered`), so it only grows when that server changes, and every map
is a beginning of it. A PUT is answered by the server whose callback it was and
whose map has it, and `Waiting` shows that it is chosen then, once.

**ServerAppProofs** also proves `TypeOK` (`AppTypeOK`), which is where the cursor
is shown to stay within the line, wide characters included, and every parsed
command to be one the loop knows.

All liveness (`QueueDrains`, `CommittedIsApplied`, `ProcessEnds`) is
model-checked only: it is out of the prover's reach, as is ENABLED. That the disk
backend keeps `LeaderHoldsCommitted` and `Implements` without the condition
`TailFree`, below the terms and indices a stale tail takes, is shown by cluster_map
within its bounds. Every other property of a passing run is a theorem.

## What is not modelled

- Configuration changes and entries that do not decode: the applicator handles
  them, no code proposes them.
- KEYS and STATUS: reads of local state that change nothing.
- Drawing, command history, messages and logs of the terminal, the choice of the
  data directory, command-line parsing; the client's own terminal.
- The in-process LocalTransport of the tests, test support, generated protobuf
  code.
- The read `snapshot()` of the storage: only a leader that compacted its log calls
  it, which no server does; how the backends differ in it is said above.
- Frames for another node and sends to unknown peers: dropped by the transport.
- Encoding of entries and snapshots, except that zero bytes decode to the empty
  map.

## Plan

What is left is ReadyLoop as a refinement of a server of Cluster, which would
replace its environment's assumptions by the other servers.
