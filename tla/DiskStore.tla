----------------------------- MODULE DiskStore -----------------------------
(***************************************************************************)
(* What the sled trees of crates/raft-core/src/disk_storage.rs hold, what  *)
(* is read from them, and what each operation writes to them.              *)
(*                                                                         *)
(* A store is the contents of the three sled trees: the entries tree, the  *)
(* snapshots tree (key "latest") and the keys "hardstate", "confstate" and *)
(* "applied_index" of the meta tree.  The module has no variables:         *)
(* DiskStorage keeps one store through writes, flushes and crashes,        *)
(* Cluster keeps one per server.                                           *)
(***************************************************************************)
EXTENDS Integers, Sequences

CONSTANTS
    Payload,      \* what a log entry carries besides its term
    SnapData,     \* what a snapshot carries: encoded key-value maps
    NoData,       \* the empty snapshot payload (zero bytes)
    Confs,        \* configurations with at least one voter
    NoConf,       \* ConfState::default(), no voters
    NoSnapshot    \* nothing stored under "latest"

HardState == [term : Nat, vote : Nat, commit : Nat]
NoHardState == [term |-> 0, vote |-> 0, commit |-> 0]
Entry == [term : Nat, payload : Payload]
Snapshot == [index : Nat, term : Nat, conf : Confs, data : SnapData]

ASSUME StorageConstants ==
    /\ NoConf \notin Confs
    /\ NoSnapshot \notin Snapshot
    /\ NoData \in SnapData

EmptyStore ==
    [entries |-> << >>, snap |-> NoSnapshot, hs |-> NoHardState,
     conf |-> NoConf, applied |-> 0]

IsStore(s) ==
    /\ DOMAIN s = {"entries", "snap", "hs", "conf", "applied"}
    /\ s.entries \in [DOMAIN s.entries -> Entry]
    /\ DOMAIN s.entries \subseteq Nat
    /\ s.snap \in Snapshot \cup {NoSnapshot}
    /\ s.hs \in HardState
    /\ s.conf \in Confs \cup {NoConf}
    /\ s.applied \in Nat

Contents(q) == {q[k] : k \in DOMAIN q}

----------------------------------------------------------------------------
(* Reads                                                                   *)

HasSnapshot(s) == s.snap # NoSnapshot

Lowest(S) == CHOOSE i \in S : \A j \in S : i <= j
Highest(S) == CHOOSE i \in S : \A j \in S : j <= i

\* The snapshot decides; without one, the first key of the entries tree.
first_index(s) ==
    IF HasSnapshot(s) THEN s.snap.index + 1
    ELSE IF DOMAIN s.entries # {} THEN Lowest(DOMAIN s.entries)
    ELSE 1

\* The last key of the entries tree decides, whatever the snapshot says.
last_index(s) ==
    IF DOMAIN s.entries # {} THEN Highest(DOMAIN s.entries)
    ELSE IF HasSnapshot(s) THEN s.snap.index
    ELSE 0

\* StorageError::Compacted and StorageError::Unavailable.
Compacted == -1
Unavailable == -2

\* Mutant: the snapshot's own index counts as compacted.
term_Mutant(s, i) ==
    IF HasSnapshot(s) /\ i <= s.snap.index THEN Compacted
    ELSE IF i \in DOMAIN s.entries THEN s.entries[i].term
    ELSE Unavailable

\* A term, or the error the code returns.
term(s, i) ==
    IF HasSnapshot(s) /\ i = s.snap.index THEN s.snap.term
    ELSE IF HasSnapshot(s) /\ i < s.snap.index THEN Compacted
    ELSE IF i \in DOMAIN s.entries THEN s.entries[i].term
    ELSE Unavailable

\* The entries low .. high-1 up to the first one missing, and at most `max`
\* of them but never none (entries are given the unit size).  The error is
\* returned when the missing one is covered by the snapshot.
entries(s, low, high, max) ==
    LET gaps == {i \in low..(high - 1) : i \notin DOMAIN s.entries}
        quota == low + (IF max = 0 THEN 1 ELSE max)
        upto == Lowest(gaps \cup {high, quota})
    IN  IF upto \in gaps /\ HasSnapshot(s) /\ upto <= s.snap.index
        THEN Compacted
        ELSE [k \in 1..(upto - low) |-> s.entries[low + k - 1]]

\* RaftLog::new and load_state (raft-rs): a stored hard state is accepted
\* when its commit index lies within the stored log.
Loadable(s) ==
    s.hs = NoHardState
        \/ (first_index(s) - 1 <= s.hs.commit /\ s.hs.commit <= last_index(s))

----------------------------------------------------------------------------
(* The successive stores of each call                                      *)

Without(f, S) == [i \in DOMAIN f \ S |-> f[i]]

\* f with the first n of the entries es inserted under base + 1, base + 2...
\* Nothing above the last inserted key is removed.
InsertFirst(f, base, es, n) ==
    [i \in DOMAIN f \cup (base + 1)..(base + n) |->
        IF i \in (base + 1)..(base + n) THEN es[i - base] ELSE f[i]]

\* One insert per entry.
append_writes(s, base, es) ==
    [k \in 1..Len(es) |->
        [s EXCEPT !.entries = InsertFirst(s.entries, base, es, k)]]

\* Mutant: keys are removed in descending order.
removal_writes_Mutant(s, upto) ==
    [k \in 1..upto |->
        [s EXCEPT !.entries = Without(s.entries, (upto - k + 1)..upto)]]

\* Keys at or below `upto` are removed one by one in ascending order; the
\* store is repeated where there is no such key.
removal_writes(s, upto) ==
    [k \in 1..upto |-> [s EXCEPT !.entries = Without(s.entries, 0..k)]]

\* Mutant: the covered entries go first.
apply_snapshot_writes_Mutant(s, snapshot) ==
    LET s1 == [s EXCEPT !.entries = Without(s.entries, 0..snapshot.index)]
        s2 == [s1 EXCEPT !.snap = snapshot]
    IN  removal_writes(s, snapshot.index)
            \o <<s2, [s2 EXCEPT !.conf = snapshot.conf]>>

\* Mutant: the ConfState key keeps the old configuration.
apply_snapshot_writes_OldConf(s, snapshot) ==
    LET s1 == [s EXCEPT !.snap = snapshot]
    IN  <<s1>> \o removal_writes(s1, snapshot.index)

\* Snapshot, ConfState, then the covered entries.  The hard state and the
\* entries above the snapshot stay as they are.
apply_snapshot_writes(s, snapshot) ==
    LET s1 == [s EXCEPT !.snap = snapshot]
        s2 == [s1 EXCEPT !.conf = snapshot.conf]
    IN  <<s1, s2>> \o removal_writes(s2, snapshot.index)
=============================================================================
