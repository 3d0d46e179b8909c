---------------------------- MODULE DiskStorage ----------------------------
(***************************************************************************)
(* The storage component of crates/raft-core/src/disk_storage.rs: one      *)
(* DiskStore through its operations.                                       *)
(*                                                                         *)
(* `view` is what reads see, `disk` is what survives a crash.  Every       *)
(* operation of the code is a run of single sled writes closed by a flush; *)
(* `todo` holds the successive stores the running call still has to write, *)
(* so a crash can fall between any two of them.  sled keeps one log for    *)
(* the whole database and may write it out at any moment, so the durable   *)
(* store is always some prefix of the writes made so far, and a flush of   *)
(* any tree makes all of them durable.                                     *)
(*                                                                         *)
(* StorageCalls drives the component alone, ReadyLoop from the Raft loop.  *)
(***************************************************************************)
EXTENDS DiskStore

VARIABLES
    view,           \* contents of the trees as get() and iter() see them
    disk,           \* contents a crash leaves behind
    todo,           \* the stores the running call has yet to write
    busy,           \* a call is running (it returns after its flush)
    applied_index   \* the Arc<Mutex<u64>> cache

storageVars == <<view, disk, todo, busy, applied_index>>

StorageTypeOK ==
    /\ IsStore(view)
    /\ IsStore(disk)
    /\ todo \in Seq(Contents(todo))
    /\ \A k \in DOMAIN todo : IsStore(todo[k])
    /\ busy \in BOOLEAN
    /\ applied_index \in Nat

----------------------------------------------------------------------------
(* The operations: each starts a call, Write and Flush carry it out.       *)

StartCall(stores) ==
    /\ ~busy
    /\ busy' = TRUE
    /\ todo' = stores
    /\ UNCHANGED <<view, disk>>

\* Entries are numbered base + 1, base + 2, ...
append(base, es) ==
    /\ StartCall(append_writes(view, base, es))
    /\ UNCHANGED applied_index

apply_snapshot(snapshot) ==
    /\ StartCall(apply_snapshot_writes(view, snapshot))
    /\ UNCHANGED applied_index

set_hardstate(hs) ==
    /\ StartCall(<<[view EXCEPT !.hs = hs]>>)
    /\ UNCHANGED applied_index

set_conf_state(cs) ==
    /\ StartCall(<<[view EXCEPT !.conf = cs]>>)
    /\ UNCHANGED applied_index

\* Mutant: the predecessor is stored.
set_applied_index_Mutant(i) ==
    /\ StartCall(<<[view EXCEPT !.applied = i - 1]>>)
    /\ applied_index' = i

\* The cache changes first, then the key is written.
set_applied_index(i) ==
    /\ StartCall(<<[view EXCEPT !.applied = i]>>)
    /\ applied_index' = i

compact(i) ==
    /\ StartCall(removal_writes(view, i))
    /\ UNCHANGED applied_index

\* One insert or remove on a sled tree.
Write ==
    /\ busy
    /\ todo # << >>
    /\ view' = Head(todo)
    /\ todo' = Tail(todo)
    /\ UNCHANGED <<disk, busy, applied_index>>

\* Mutant: the call returns without a flush.
Flush_Mutant ==
    /\ busy
    /\ todo = << >>
    /\ busy' = FALSE
    /\ UNCHANGED <<view, disk, todo, applied_index>>

\* The flush that ends every call.
Flush ==
    /\ busy
    /\ todo = << >>
    /\ disk' = view
    /\ busy' = FALSE
    /\ UNCHANGED <<view, todo, applied_index>>

\* sled writes its log out on its own every so often.
BackgroundFlush ==
    /\ disk # view
    /\ disk' = view
    /\ UNCHANGED <<view, todo, busy, applied_index>>

\* The process dies and DiskStorage::open loads what is on disk.
Reopen ==
    /\ view' = disk
    /\ todo' = << >>
    /\ busy' = FALSE
    /\ applied_index' = disk.applied
    /\ UNCHANGED disk

StorageInit ==
    /\ view = EmptyStore
    /\ disk = EmptyStore
    /\ todo = << >>
    /\ busy = FALSE
    /\ applied_index = 0

StorageStep == Write \/ Flush \/ BackgroundFlush
=============================================================================
