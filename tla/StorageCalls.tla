---------------------------- MODULE StorageCalls ----------------------------
(***************************************************************************)
(* DiskStorage driven alone, through the calls RaftStorage (storage.rs)    *)
(* forwards to it, with a crash possible between any two sled writes.      *)
(*                                                                         *)
(* The caller keeps the contract of raft's Storage users: entries follow   *)
(* the log without a gap and never start below the commit index, the hard  *)
(* state moves forward and its commit index stays within the log, and a    *)
(* snapshot is never older than the commit index.  `mem` is the other      *)
(* backend of RaftStorage, raft-rs's MemStorage, given the same calls.     *)
(***************************************************************************)
EXTENDS DiskStorage

CONSTANTS
    MaxIndex,     \* bound on log indices
    MaxTerm,      \* bound on terms
    MaxBatch,     \* bound on the entries of one append
    MaxCrashes,   \* bound on crashes
    Overwrites,   \* BOOLEAN: appends and snapshots may replace a log suffix
    Compaction    \* BOOLEAN: the caller uses compact()

VARIABLES
    mem,         \* MemStorage after the completed calls: [index, term, log]
    goal,        \* mem once the running call has returned
    raft_state,  \* MemStorage's RaftState once the running call has returned
    stored,      \* the entries whose append has returned, by index
    promised,    \* stored once the running call has returned
    crashes

ghostVars == <<mem, goal, raft_state, stored, promised>>
vars == <<storageVars, ghostVars, crashes>>

ASSUME CallConstants ==
    /\ MaxIndex \in Nat /\ MaxTerm \in Nat /\ MaxBatch \in Nat
    /\ MaxCrashes \in Nat
    /\ Confs # {}
    /\ Overwrites \in BOOLEAN /\ Compaction \in BOOLEAN

----------------------------------------------------------------------------
(* MemStorage (raft-rs, external): a snapshot position and a log after it. *)

MemFirst(m) == m.index + 1
MemLast(m) == m.index + Len(m.log)
MemTerm(m, i) == IF i = m.index THEN m.term ELSE m.log[i - m.index].term

MemEntries(m, low, high, max) ==
    LET len == high - low
        quota == IF max = 0 THEN 1 ELSE max
    IN  SubSeq(m.log, low - m.index,
               low - m.index + (IF quota < len THEN quota ELSE len) - 1)

\* MemStorage drops the stored suffix an append replaces (and panics on a
\* gap: its state is then of no interest).
MemAppend(m, base, es) ==
    IF base > MemLast(m) THEN m
    ELSE [m EXCEPT !.log = SubSeq(m.log, 1, base - m.index) \o es]

\* MemStorage keeps the entry at the compaction index.
MemCompact(m, i) ==
    IF i \notin MemFirst(m)..MemLast(m) THEN m
    ELSE [index |-> i - 1, term |-> MemTerm(m, i - 1),
          log |-> SubSeq(m.log, i - m.index, Len(m.log))]

MemApplySnapshot(m, snapshot) ==
    [index |-> snapshot.index, term |-> snapshot.term, log |-> << >>]

\* The same call on MemStorage's raft_state: it raises the hard state to the
\* snapshot, where DiskStorage writes the ConfState alone.
MemRaised(r, snapshot) ==
    [hard_state |->
        [term |-> IF r.hard_state.term < snapshot.term THEN snapshot.term
                  ELSE r.hard_state.term,
         vote |-> r.hard_state.vote,
         commit |-> snapshot.index],
     conf_state |-> snapshot.conf]

\* The log of a store read back entry by entry, as RaftLog::new sees it.
MemOf(s) ==
    LET base == first_index(s) - 1
        run == {i \in DOMAIN s.entries :
                    i > base /\ (base + 1)..i \subseteq DOMAIN s.entries}
        top == IF run = {} THEN base ELSE Highest(run)
    IN  [index |-> base, term |-> IF HasSnapshot(s) THEN s.snap.term ELSE 0,
         log |-> [k \in 1..(top - base) |-> s.entries[base + k]]]

initial_state(s) == [hard_state |-> s.hs, conf_state |-> s.conf]

----------------------------------------------------------------------------
(* The caller                                                              *)

Committed == view.hs.commit

Upto(f, i) == [j \in {k \in DOMAIN f : k <= i} |-> f[j]]

\* What was stored before the running call and is to stay after it.
Kept ==
    [i \in {j \in DOMAIN stored \cap DOMAIN promised : stored[j] = promised[j]}
        |-> stored[i]]

Batches ==
    UNION {[1..n -> [term : 1..MaxTerm, payload : Payload]] : n \in 1..MaxBatch}

\* A new database, once the peers are its configuration.
NewStore(c) ==
    [EmptyStore EXCEPT
        !.snap = [index |-> 0, term |-> 0, conf |-> c, data |-> NoData], !.conf = c]

CallInit ==
    /\ \E c \in Confs : view = NewStore(c)
    /\ disk = view /\ todo = << >> /\ busy = FALSE /\ applied_index = 0
    /\ mem = [index |-> 0, term |-> 0, log |-> << >>]
    /\ goal = mem /\ raft_state = initial_state(view)
    /\ stored = << >> /\ promised = << >>
    /\ crashes = 0

CallAppend ==
    \E base \in Committed..last_index(view), es \in Batches :
        /\ base + Len(es) <= MaxIndex
        /\ base >= first_index(view) - 1
        /\ Overwrites \/ base = last_index(view)
        /\ append(base, es)
        /\ goal' = MemAppend(mem, base, es)
        /\ promised' = InsertFirst(Upto(stored, base), base, es, Len(es))
        /\ UNCHANGED <<mem, raft_state, stored, crashes>>

CallSetHardState ==
    \E t \in view.hs.term..MaxTerm, c \in Committed..last_index(view) :
        /\ set_hardstate([term |-> t, vote |-> 0, commit |-> c])
        /\ view.hs # [term |-> t, vote |-> 0, commit |-> c]
        /\ raft_state' = [hard_state |-> [term |-> t, vote |-> 0, commit |-> c],
                          conf_state |-> raft_state.conf_state]
        /\ goal' = mem /\ promised' = stored
        /\ UNCHANGED <<mem, stored, crashes>>

CallApplySnapshot ==
    \E i \in 1..MaxIndex, t \in 1..MaxTerm, c \in Confs, d \in SnapData :
        LET snapshot == [index |-> i, term |-> t, conf |-> c, data |-> d] IN
        /\ i > Committed /\ i >= first_index(view)
        /\ Overwrites \/ i >= last_index(view)
        /\ apply_snapshot(snapshot)
        /\ goal' = MemApplySnapshot(mem, snapshot)
        /\ raft_state' = MemRaised(raft_state, snapshot)
        /\ promised' = Upto(stored, i)
        /\ UNCHANGED <<mem, stored, crashes>>

CallSetConfState ==
    \E c \in Confs :
        /\ view.conf # c
        /\ set_conf_state(c)
        /\ raft_state' = [hard_state |-> raft_state.hard_state, conf_state |-> c]
        /\ goal' = mem /\ promised' = stored
        /\ UNCHANGED <<mem, stored, crashes>>

CallSetAppliedIndex ==
    \E i \in 0..Committed :
        /\ i # applied_index
        /\ set_applied_index(i)
        /\ goal' = mem /\ promised' = stored
        /\ UNCHANGED <<mem, raft_state, stored, crashes>>

\* Compaction gives up what it removes.
CallCompact ==
    \E i \in 1..Committed :
        /\ Compaction
        /\ DOMAIN view.entries \cap 1..i # {}
        /\ compact(i)
        /\ goal' = MemCompact(mem, i)
        /\ promised' = Without(stored, 0..i)
        /\ UNCHANGED <<mem, raft_state, stored, crashes>>

CallStep == Write /\ UNCHANGED <<ghostVars, crashes>>

CallReturn ==
    /\ Flush
    /\ mem' = goal /\ stored' = promised
    /\ UNCHANGED <<goal, raft_state, promised, crashes>>

CallBackground == BackgroundFlush /\ UNCHANGED <<ghostVars, crashes>>

\* What the interrupted call was to replace is no longer promised.
Crash ==
    /\ crashes < MaxCrashes
    /\ crashes' = crashes + 1
    /\ Reopen
    /\ mem' = MemOf(disk) /\ goal' = mem' /\ raft_state' = initial_state(disk)
    /\ stored' = Kept /\ promised' = Kept

Next ==
    \/ CallAppend \/ CallSetHardState \/ CallApplySnapshot
    \/ CallSetConfState \/ CallSetAppliedIndex \/ CallCompact
    \/ CallStep \/ CallReturn \/ CallBackground \/ Crash

Spec == CallInit /\ [][Next]_vars

----------------------------------------------------------------------------
(* Properties                                                              *)

TypeOK ==
    /\ StorageTypeOK
    /\ stored \in [DOMAIN stored -> Entry]
    /\ promised \in [DOMAIN promised -> Entry]
    /\ crashes \in 0..MaxCrashes

\* A call that has returned is on disk as a whole, and the cached applied
\* index is the stored one: a crash between two calls loses nothing
\* (disk_storage.rs flushes at the end of every operation).
DurableBetweenCalls ==
    ~busy => disk = view /\ applied_index = view.applied

\* An entry whose append has returned stays on disk as it was appended until
\* a later append replaces it, a snapshot on disk covers it, or the caller
\* compacts it away, wherever a crash falls: apply_snapshot writes the
\* snapshot before it removes the entries the snapshot replaces.
StoredSurvives ==
    \A i \in DOMAIN Kept :
        \/ i \in DOMAIN disk.entries /\ disk.entries[i] = Kept[i]
        \/ HasSnapshot(disk) /\ i <= disk.snap.index

\* The stored indices form one run without a hole, on disk as well, in the
\* middle of an append, an apply_snapshot or a compact too: entries() stops
\* at the first hole and would hide everything behind it.
NoHole(s) == \A i, j \in DOMAIN s.entries : i..j \subseteq DOMAIN s.entries
LogHasNoHole == NoHole(view) /\ NoHole(disk)

\* Between calls first_index, term and entries answer on disk as in memory,
\* through overwriting appends, snapshots and restarts: what RaftStorage's
\* two backends may differ in of the log is the end of it.  There last_index
\* may be higher on disk, since append() removes nothing (what that leads to
\* is Cluster's subject).  Left out are stores a compact() without a snapshot
\* or a crash inside apply_snapshot left without the start or the end of
\* their log.  initial_state is the subject of InitialStateAgrees; snapshot()
\* is not compared: the disk returns the last stored snapshot, data included,
\* whatever index is asked for, while MemStorage makes up one without data
\* at its commit index or the requested one.
IsWhole(s) ==
    /\ first_index(s) \in DOMAIN s.entries \cup {last_index(s) + 1}
    /\ s.hs.commit <= last_index(s)
LogReadsAgree ==
    ~busy /\ IsWhole(view) =>
        /\ first_index(view) = MemFirst(mem)
        /\ last_index(view) >= MemLast(mem)
        /\ \A i \in mem.index..MemLast(mem) : term(view, i) = MemTerm(mem, i)
        /\ \A low \in MemFirst(mem)..MemLast(mem) :
             \A high \in (low + 1)..(MemLast(mem) + 1), max \in 0..MaxIndex :
                entries(view, low, high, max) = MemEntries(mem, low, high, max)

\* Between calls initial_state gives the configuration and the hard state
\* MemStorage gives, with one exception: after an apply_snapshot, until the
\* next set_hardstate, the disk's commit index lies before its snapshot (a
\* store RaftNode::new panics on, unless no hard state was ever stored) and
\* memory's commit index, perhaps its term too, is ahead.
\* The votes are the same even then.
InitialStateAgrees ==
    ~busy =>
        LET hs == raft_state.hard_state IN
        /\ view.conf = raft_state.conf_state
        /\ \/ view.hs = hs
           \/ /\ view.hs.commit < view.snap.index /\ hs.commit = view.snap.index
              /\ view.hs.term <= hs.term /\ view.snap.term <= hs.term
              /\ view.hs.vote = hs.vote
=============================================================================
