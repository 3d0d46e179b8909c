------------------------- MODULE StorageCallsProofs -------------------------
(***************************************************************************)
(* What the disk store keeps across crashes, for every payload set, every  *)
(* set of configurations and all bounds of StorageCalls.                   *)
(*                                                                         *)
(* None of the properties is inductive: a crash replaces `view` by `disk`, *)
(* and `disk` may have been written out after any of the single writes of  *)
(* a call.  The invariant Inv therefore speaks of every store the trees    *)
(* can still hold, the pending ones included, and of the store a running   *)
(* call ends with.  Matches adds the log of the memory backend given the   *)
(* same calls, StateMatches its hard state and configuration.              *)
(***************************************************************************)
EXTENDS StorageCalls, DiskStorageLemmas

Stores == {disk, view} \cup Contents(todo)
Final == IF todo = << >> THEN view ELSE todo[Len(todo)]

Keeps(s, f) ==
    \A i \in DOMAIN f :
        \/ i \in DOMAIN s.entries /\ s.entries[i] = f[i]
        \/ i <= s.snap.index

\* Indices are missing below a stored one only where they are committed or
\* covered: an append starts above both, so it leaves no hole.
FullAbove(s) ==
    \A i \in DOMAIN s.entries, j \in Nat :
        (j > s.snap.index /\ j > s.hs.commit /\ j <= i) => j \in DOMAIN s.entries

Good(s) ==
    /\ IsStore(s)
    /\ HasSnapshot(s)
    /\ DOMAIN s.entries \subseteq 1..MaxIndex
    /\ NoHole(s)
    /\ FullAbove(s)

LogMap(f) == f \in [DOMAIN f -> Entry] /\ DOMAIN f \subseteq Nat

Inv ==
    /\ todo \in Seq(Contents(todo))
    /\ busy \in BOOLEAN
    /\ applied_index \in Nat
    /\ crashes \in 0..MaxCrashes
    /\ LogMap(stored) /\ LogMap(promised)
    /\ \A s \in Stores : Good(s) /\ Keeps(s, Kept)
    /\ Keeps(Final, promised)
    /\ Final.applied = applied_index
    /\ ~busy => disk = view /\ todo = << >> /\ promised = stored

(* A call that starts: it is enough to look at the stores it will write.   *)
LEMMA CallStarts ==
    ASSUME Inv, NEW q, StartCall(q), q \in Seq(Contents(q)), q # << >>,
           UNCHANGED <<stored, crashes>>, LogMap(promised'),
           applied_index' \in Nat, q[Len(q)].applied = applied_index',
           \A x \in Contents(q) :
                Good(x) /\ \A i \in DOMAIN stored \cap DOMAIN promised' :
                    stored[i] = promised'[i] =>
                        \/ i \in DOMAIN x.entries /\ x.entries[i] = stored[i]
                        \/ i <= x.snap.index,
           Keeps(q[Len(q)], promised')
    PROVE  Inv'
  <1>1. /\ ~busy /\ busy' = TRUE /\ todo' = q /\ view' = view /\ disk' = disk
        /\ disk = view /\ promised = stored
    BY DEF StartCall, Inv
  <1>2. Good(view) /\ Keeps(view, stored)
    <2>1. Good(view) /\ Keeps(view, Kept)
      BY DEF Inv, Stores
    <2>2. Kept = stored
      BY <1>1 DEF Kept, Inv, LogMap
    <2> QED BY <2>1, <2>2
  <1>3. /\ DOMAIN Kept' \subseteq DOMAIN stored \cap DOMAIN promised'
        /\ \A i \in DOMAIN Kept' : Kept'[i] = stored[i] /\ stored[i] = promised'[i]
    BY DEF Kept
  <1>4. Stores' = {view} \cup Contents(q)
    BY <1>1 DEF Stores
  <1>5. \A s \in Stores' : Good(s) /\ Keeps(s, Kept')
    BY <1>2, <1>3, <1>4 DEF Keeps
  <1>6. (\A s \in Stores : Good(s) /\ Keeps(s, Kept))'
    BY <1>5 DEF Good
  <1>7. Final' = q[Len(q)]
    BY <1>1 DEF Final
  <1>8. (Keeps(Final, promised))' /\ (Final.applied = applied_index)'
    BY <1>7 DEF Keeps
  <1> QED BY <1>1, <1>6, <1>8 DEF Inv, LogMap

(* Calls that write one key of the meta tree.                              *)
LEMMA MetaCall ==
    ASSUME Inv, NEW x, StartCall(<<x>>), IsStore(x),
           x.entries = view.entries, x.snap = view.snap,
           x.hs.commit >= view.hs.commit,
           applied_index' \in Nat, x.applied = applied_index',
           promised' = stored, UNCHANGED <<stored, crashes>>
    PROVE  Inv'
  <1>1. ~busy /\ promised = stored
    BY DEF StartCall, Inv
  <1>2. Good(view) /\ Keeps(view, stored)
    <2>1. Good(view) /\ Keeps(view, Kept)
      BY DEF Inv, Stores
    <2>2. Kept = stored
      BY <1>1 DEF Kept, Inv, LogMap
    <2> QED BY <2>1, <2>2
  <1>3. Good(x)
    <2>1. FullAbove(x)
      BY <1>2 DEF Good, FullAbove, IsStore, HardState
    <2> QED BY <1>2, <2>1 DEF Good, NoHole, HasSnapshot
  <1>4. Keeps(x, stored)
    BY <1>2 DEF Keeps
  <1> DEFINE q == <<x>>
  <1>5. q \in Seq(Contents(q)) /\ q # << >> /\ q[Len(q)] = x /\ Contents(q) = {x}
    BY DEF Contents
  <1>6. LogMap(promised')
    BY DEF Inv
  <1>7. StartCall(q) OBVIOUS
  <1>8. \A y \in Contents(q) :
                Good(y) /\ \A i \in DOMAIN stored \cap DOMAIN promised' :
                    stored[i] = promised'[i] =>
                        \/ i \in DOMAIN y.entries /\ y.entries[i] = stored[i]
                        \/ i <= y.snap.index
    BY <1>3, <1>4, <1>5 DEF Keeps
  <1>9. Keeps(q[Len(q)], promised')
    BY <1>4, <1>5
  <1>10. q[Len(q)].applied = applied_index'
    BY <1>5
  <1> HIDE DEF q
  <1> QED BY <1>5, <1>6, <1>7, <1>8, <1>9, <1>10, CallStarts

(* What holds of the store a call starts from.                             *)
LEMMA BetweenCalls ==
    ASSUME Inv, ~busy
    PROVE  /\ Good(view) /\ Keeps(view, stored) /\ promised = stored
           /\ view.applied = applied_index
           /\ view.snap.index \in Nat /\ view.hs.commit \in Nat
           /\ LogMap(stored)
  <1>1. promised = stored /\ todo = << >>
    BY DEF Inv
  <1>2. Good(view) /\ Keeps(view, Kept)
    BY DEF Inv, Stores
  <1>3. Kept = stored
    BY <1>1 DEF Kept, Inv, LogMap
  <1>4. view.applied = applied_index
    BY <1>1 DEF Inv, Final
  <1>5. view.snap.index \in Nat /\ view.hs.commit \in Nat
    BY <1>2 DEF Good, HasSnapshot, IsStore, Snapshot, HardState
  <1> QED BY <1>1, <1>2, <1>3, <1>4, <1>5 DEF Inv

\* append leaves no hole and loses nothing it does not replace.
LEMMA AppendPreserves ==
    ASSUME Inv, CallAppend
    PROVE  Inv'
  <1>1. PICK base \in Committed..last_index(view), es \in Batches :
            /\ base + Len(es) <= MaxIndex
            /\ base >= first_index(view) - 1
            /\ append(base, es)
            /\ promised' = InsertFirst(Upto(stored, base), base, es, Len(es))
            /\ UNCHANGED <<mem, stored, crashes>>
    BY DEF CallAppend
  <1> DEFINE q == append_writes(view, base, es)
             f == view.entries
             H == last_index(view)
  <1>2. ~busy /\ StartCall(q) /\ applied_index' = applied_index
    BY <1>1 DEF append, StartCall
  <1>3. /\ Good(view) /\ Keeps(view, stored) /\ view.applied = applied_index
        /\ view.snap.index \in Nat /\ view.hs.commit \in Nat
        /\ LogMap(stored)
    BY <1>2, BetweenCalls
  <1>4. IsStore(view) /\ HasSnapshot(view) /\ DOMAIN f \subseteq 1..MaxIndex
        /\ NoHole(view) /\ FullAbove(view)
    BY <1>3 DEF Good
  <1>5. es \in Seq(Entry) /\ Len(es) \in Nat \ {0}
    <2>1. PICK n \in 1..MaxBatch : es \in [1..n -> [term : 1..MaxTerm, payload : Payload]]
      BY DEF Batches
    <2>2. [term : 1..MaxTerm, payload : Payload] \subseteq Entry
      BY CallConstants DEF Entry
    <2>3. n \in Nat \ {0}
      BY CallConstants
    <2>4. es \in [1..n -> Entry]
      BY <2>1, <2>2
    <2>5. es \in Seq(Entry)
      BY <2>3, <2>4, SeqDef
    <2>6. Len(es) = n
      BY <2>3, <2>4, <2>5, LenProperties
    <2> QED BY <2>3, <2>5, <2>6
  <1>6. /\ H = IF DOMAIN f # {} THEN Highest(DOMAIN f) ELSE view.snap.index
        /\ DOMAIN f # {} => H \in DOMAIN f /\ \A j \in DOMAIN f : j <= H
    <2>1. MaxIndex \in Nat /\ DOMAIN f \subseteq 0..MaxIndex
      BY <1>4, CallConstants
    <2> QED BY <1>4, <2>1, HighestIsGreatest DEF last_index
  <1>7. H \in Nat
    BY <1>3, <1>4, <1>6 DEF IsStore
  <1>8. base \in Nat /\ base <= H /\ base >= view.hs.commit /\ base >= view.snap.index
    BY <1>1, <1>3, <1>4, <1>7 DEF Committed, first_index
  <1>9. /\ q \in Seq(Contents(q)) /\ Len(q) = Len(es)
        /\ Contents(q) = {q[k] : k \in 1..Len(es)}
        /\ \A k \in 1..Len(es) :
             /\ IsStore(q[k])
             /\ q[k].entries = InsertFirst(f, base, es, k)
             /\ q[k].snap = view.snap /\ q[k].hs = view.hs
             /\ q[k].conf = view.conf /\ q[k].applied = view.applied
    <2> HIDE DEF f
    <2>1. IsStore(view) /\ base \in Nat /\ es \in Seq(Entry)
      BY <1>4, <1>5, <1>8
    <2> QED BY <2>1, AppendWrites, Zenon DEF f
  <1> HIDE DEF q
  <1>10. ASSUME NEW k \in 1..Len(es)
         PROVE  Good(q[k])
    <2> DEFINE D == DOMAIN f \cup (base + 1)..(base + k)
    <2>1. DOMAIN q[k].entries = D
      BY <1>9 DEF InsertFirst
    <2>2. D \subseteq 1..MaxIndex
      BY <1>1, <1>4, <1>5, <1>8, CallConstants
    <2>3. \A i \in D, j \in Nat :
             (j > view.snap.index /\ j > view.hs.commit /\ j <= i) => j \in D
      <3> SUFFICES ASSUME NEW i \in D, NEW j \in Nat, j > view.snap.index,
                          j > view.hs.commit, j <= i, j \notin (base + 1)..(base + k)
                   PROVE  j \in DOMAIN f
        OBVIOUS
      <3>1. CASE i \in DOMAIN f
        BY <3>1, <1>4 DEF FullAbove
      <3>2. CASE i \notin DOMAIN f
        <4>1. j <= base
          BY <3>2, <1>8
        <4>2. DOMAIN f # {}
          BY <4>1, <1>3, <1>6, <1>8
        <4>3. H \in DOMAIN f /\ j <= H
          BY <4>1, <4>2, <1>6, <1>7, <1>8
        <4> QED BY <4>3, <1>4 DEF FullAbove
      <3> QED BY <3>1, <3>2
    <2>4. \A i, j \in D : i..j \subseteq D
      <3> SUFFICES ASSUME NEW i \in D, NEW j \in D, NEW m \in i..j,
                          m \notin (base + 1)..(base + k)
                   PROVE  m \in DOMAIN f
        OBVIOUS
      <3>1. i \in Nat /\ j \in Nat /\ m \in Nat /\ i <= m /\ m <= j
        BY <2>2
      <3>2. CASE m <= base
        <4>1. i \in DOMAIN f
          BY <3>1, <3>2, <1>8
        <4>2. H \in DOMAIN f /\ m \in i..H
          BY <4>1, <3>1, <3>2, <1>6, <1>7, <1>8
        <4> QED BY <4>1, <4>2, <1>4 DEF NoHole
      <3>3. CASE m > base + k
        <4>1. j \in DOMAIN f
          BY <3>1, <3>3, <1>8
        <4>2. m > view.snap.index /\ m > view.hs.commit
          BY <3>1, <3>3, <1>3, <1>8
        <4> QED BY <4>1, <4>2, <3>1, <1>4 DEF FullAbove
      <3> QED BY <3>1, <3>2, <3>3, <1>8
    <2>5. NoHole(q[k])
      BY <2>1, <2>4 DEF NoHole
    <2>6. FullAbove(q[k])
      BY <2>1, <2>3, <1>9 DEF FullAbove
    <2>7. HasSnapshot(q[k]) /\ IsStore(q[k])
      BY <1>4, <1>9 DEF HasSnapshot
    <2> QED BY <2>1, <2>2, <2>5, <2>6, <2>7 DEF Good
  <1>11. /\ DOMAIN promised' = {i \in DOMAIN stored : i <= base}
                                    \cup (base + 1)..(base + Len(es))
         /\ \A i \in (base + 1)..(base + Len(es)) : promised'[i] = es[i - base]
         /\ \A i \in DOMAIN stored : i <= base => promised'[i] = stored[i]
    BY <1>1, <1>3, <1>8 DEF InsertFirst, Upto, LogMap
  <1>12. LogMap(promised')
    <2>1. \A i \in (base + 1)..(base + Len(es)) : es[i - base] \in Entry
      BY <1>5, <1>8, ElementOfSeq
    <2>2. \A i \in DOMAIN promised' : promised'[i] \in Entry /\ i \in Nat
      BY <2>1, <1>3, <1>8, <1>11 DEF LogMap
    <2>3. promised' = [i \in DOMAIN promised' |-> promised'[i]]
      BY <1>1 DEF InsertFirst
    <2> QED BY <2>2, <2>3 DEF LogMap
  <1>13. ASSUME NEW k \in 1..Len(es), NEW i \in DOMAIN promised',
                i <= base + k \/ (i \in DOMAIN stored /\ stored[i] = promised'[i])
         PROVE  \/ i \in DOMAIN q[k].entries /\ q[k].entries[i] = promised'[i]
                \/ i <= q[k].snap.index
    <2>1. CASE i \in (base + 1)..(base + k)
      <3>1. i \in (base + 1)..(base + Len(es))
        BY <2>1, <1>5, <1>8
      <3>2. q[k].entries = InsertFirst(f, base, es, k)
        BY <1>9
      <3>3. i \in DOMAIN q[k].entries /\ q[k].entries[i] = es[i - base]
        BY <2>1, <3>2 DEF InsertFirst
      <3> QED BY <3>1, <3>3, <1>11
    <2>2. CASE i \notin (base + 1)..(base + k)
      <3>1. i \in DOMAIN stored /\ stored[i] = promised'[i]
        BY <2>2, <1>5, <1>8, <1>11, <1>13
      <3>2. q[k].entries = InsertFirst(f, base, es, k) /\ q[k].snap = view.snap
        BY <1>9
      <3>3. i \in DOMAIN f => i \in DOMAIN q[k].entries /\ q[k].entries[i] = f[i]
        BY <2>2, <3>2 DEF InsertFirst
      <3>4. (i \in DOMAIN f /\ f[i] = stored[i]) \/ i <= view.snap.index
        BY <3>1, <1>3 DEF Keeps
      <3> QED BY <3>1, <3>2, <3>3, <3>4
    <2> QED BY <2>1, <2>2
  <1>14. \A x \in Contents(q) :
            Good(x) /\ \A i \in DOMAIN stored \cap DOMAIN promised' :
                stored[i] = promised'[i] =>
                    \/ i \in DOMAIN x.entries /\ x.entries[i] = stored[i]
                    \/ i <= x.snap.index
    BY <1>9, <1>10, <1>13
  <1>15. Keeps(q[Len(q)], promised')
    <2>1. \A i \in DOMAIN promised' : i <= base + Len(es)
      BY <1>3, <1>5, <1>8, <1>11 DEF LogMap
    <2>2. Len(es) \in 1..Len(es) /\ Len(q) = Len(es)
      BY <1>5, <1>9
    <2>3. \A i \in DOMAIN promised' :
             \/ i \in DOMAIN q[Len(es)].entries /\ q[Len(es)].entries[i] = promised'[i]
             \/ i <= q[Len(es)].snap.index
      BY <2>1, <2>2, <1>13
    <2> QED BY <2>2, <2>3 DEF Keeps
  <1>16. q # << >> /\ q[Len(q)].applied = applied_index' /\ applied_index' \in Nat
    <2>1. applied_index \in Nat
      BY DEF Inv
    <2>2. Len(es) \in 1..Len(es) /\ Len(q) = Len(es) /\ Len(es) > 0
      BY <1>5, <1>9
    <2>3. q[Len(es)].applied = view.applied
      BY <2>2, <1>9
    <2>4. q # << >>
      BY <2>2
    <2> QED BY <2>1, <2>2, <2>3, <2>4, <1>2, <1>3
  <1> QED BY <1>1, <1>2, <1>9, <1>12, <1>14, <1>15, <1>16, CallStarts

(* Calls that drop the lowest keys of the entries tree.                    *)
LEMMA TailIsGood ==
    ASSUME NEW s, NEW x, NEW upto \in Nat, Good(s), IsStore(x), HasSnapshot(x),
           IsTail(x.entries, s.entries, upto), x.hs = s.hs,
           upto <= s.hs.commit \/ upto <= x.snap.index,
           x.snap.index >= s.snap.index
    PROVE  Good(x)
  <1> DEFINE D == DOMAIN x.entries
             E == DOMAIN s.entries
  <1>1. /\ E \subseteq 1..MaxIndex /\ NoHole(s) /\ FullAbove(s)
        /\ IsStore(s) /\ HasSnapshot(s)
    BY DEF Good
  <1>2. /\ s.snap.index \in Nat /\ x.snap.index \in Nat /\ s.hs.commit \in Nat
    BY <1>1 DEF HasSnapshot, IsStore, Snapshot, HardState
  <1>3. /\ D \subseteq E
        /\ \A i \in E : i > upto => i \in D
        /\ \A i \in D, j \in E : i <= j => j \in D
    BY DEF IsTail
  <1>4. \A i, j \in D : i..j \subseteq D
    <2> SUFFICES ASSUME NEW i \in D, NEW j \in D, NEW m \in i..j
                 PROVE  m \in D
      OBVIOUS
    <2>1. m \in E
      BY <1>1, <1>3 DEF NoHole
    <2>2. i <= m
      BY <1>1, <1>3
    <2> QED BY <2>1, <2>2, <1>3
  <1>5. FullAbove(x)
    <2> SUFFICES ASSUME NEW i \in D, NEW j \in Nat, j > x.snap.index,
                        j > x.hs.commit, j <= i
                 PROVE  j \in D
      BY DEF FullAbove
    <2>1. j \in E
      BY <1>1, <1>2, <1>3 DEF FullAbove
    <2>2. j > upto
      BY <1>2
    <2> QED BY <2>1, <2>2, <1>3
  <1> QED BY <1>1, <1>3, <1>4, <1>5 DEF Good, NoHole

\* apply_snapshot stores the snapshot before it removes what that covers.
LEMMA SnapshotPreserves ==
    ASSUME Inv, CallApplySnapshot
    PROVE  Inv'
  <1>1. PICK i \in 1..MaxIndex, t \in 1..MaxTerm, c \in Confs, d \in SnapData :
            /\ i >= first_index(view)
            /\ apply_snapshot([index |-> i, term |-> t, conf |-> c, data |-> d])
            /\ promised' = Upto(stored, i)
            /\ UNCHANGED <<mem, stored, crashes>>
    BY DEF CallApplySnapshot
  <1> DEFINE snapshot == [index |-> i, term |-> t, conf |-> c, data |-> d]
             q == apply_snapshot_writes(view, snapshot)
  <1>2. ~busy /\ StartCall(q) /\ applied_index' = applied_index
    BY <1>1 DEF apply_snapshot, StartCall
  <1>3. /\ Good(view) /\ Keeps(view, stored) /\ view.applied = applied_index
        /\ view.snap.index \in Nat /\ LogMap(stored)
    BY <1>2, BetweenCalls
  <1>4. snapshot \in Snapshot /\ snapshot.index = i /\ i \in Nat
    BY CallConstants DEF Snapshot
  <1>5. snapshot.index > view.snap.index
    BY <1>1, <1>3, <1>4 DEF Good, first_index
  <1> HIDE DEF snapshot
  <1>6. /\ q \in Seq(Contents(q)) /\ q # << >>
        /\ \A x \in Contents(q) :
             /\ IsStore(x)
             /\ IsTail(x.entries, view.entries, snapshot.index)
             /\ x.snap = snapshot /\ x.hs = view.hs /\ x.applied = view.applied
    <2>1. IsStore(view) /\ snapshot \in Snapshot
      BY <1>3, <1>4 DEF Good
    <2> QED BY <2>1, SnapshotWrites, Zenon
  <1> HIDE DEF q
  <1>7. \A x \in Contents(q) : Good(x)
    <2> SUFFICES ASSUME NEW x \in Contents(q) PROVE Good(x)
      OBVIOUS
    <2>1. /\ IsStore(x) /\ IsTail(x.entries, view.entries, i)
          /\ x.snap = snapshot /\ x.hs = view.hs
      BY <1>4, <1>6
    <2>2. HasSnapshot(x)
      BY <2>1, <1>4, StorageConstants DEF HasSnapshot
    <2>3. x.snap.index = i /\ i <= x.snap.index /\ x.snap.index >= view.snap.index
      BY <2>1, <1>3, <1>4, <1>5
    <2> QED BY <2>1, <2>2, <2>3, <1>3, <1>4, TailIsGood
  <1>8. /\ LogMap(promised')
        /\ \A j \in DOMAIN promised' : j <= i
    BY <1>1, <1>3 DEF LogMap, Upto
  <1>9. q[Len(q)] \in Contents(q)
    BY <1>6, EmptySeq, LenProperties, ElementOfSeq
  <1>10. \A x \in Contents(q) : x.snap.index = i
    BY <1>4, <1>6
  <1>11. Keeps(q[Len(q)], promised')
    BY <1>8, <1>9, <1>10 DEF Keeps
  <1>12. \A x \in Contents(q) :
            Good(x) /\ \A j \in DOMAIN stored \cap DOMAIN promised' :
                stored[j] = promised'[j] =>
                    \/ j \in DOMAIN x.entries /\ x.entries[j] = stored[j]
                    \/ j <= x.snap.index
    BY <1>7, <1>8, <1>10
  <1>13. q[Len(q)].applied = applied_index' /\ applied_index' \in Nat
    BY <1>2, <1>3, <1>6, <1>9 DEF Inv
  <1> QED BY <1>1, <1>2, <1>6, <1>8, <1>11, <1>12, <1>13, CallStarts

\* compact removes from the front, one key at a time.
LEMMA CompactPreserves ==
    ASSUME Inv, CallCompact
    PROVE  Inv'
  <1>1. PICK i \in 1..Committed :
            /\ compact(i)
            /\ promised' = Without(stored, 0..i)
            /\ UNCHANGED <<mem, stored, crashes>>
    BY DEF CallCompact
  <1> DEFINE q == removal_writes(view, i)
  <1>2. ~busy /\ StartCall(q) /\ applied_index' = applied_index
    BY <1>1 DEF compact, StartCall
  <1>3. /\ Good(view) /\ Keeps(view, stored) /\ view.applied = applied_index
        /\ view.snap.index \in Nat /\ view.hs.commit \in Nat /\ LogMap(stored)
    BY <1>2, BetweenCalls
  <1>4. i \in Nat \ {0} /\ i <= view.hs.commit
    BY <1>3 DEF Committed
  <1>5. /\ q \in Seq(Contents(q)) /\ Len(q) = i
        /\ Contents(q) = {q[k] : k \in 1..i}
        /\ \A k \in 1..i :
             /\ IsStore(q[k])
             /\ q[k].entries = Without(view.entries, 0..k)
             /\ q[k].snap = view.snap /\ q[k].hs = view.hs
             /\ q[k].conf = view.conf /\ q[k].applied = view.applied
    <2>1. IsStore(view) /\ i \in Nat
      BY <1>3, <1>4 DEF Good
    <2> QED BY <2>1, RemovalWrites, Zenon
  <1> HIDE DEF q
  <1>6. ASSUME NEW k \in 1..i
        PROVE  Good(q[k])
    <2>1. IsTail(q[k].entries, view.entries, i)
      <3>1. DOMAIN view.entries \subseteq Nat /\ k \in Nat /\ k <= i
        BY <1>3, <1>4 DEF Good, IsStore
      <3> QED BY <3>1, <1>4, <1>5, WithoutIsTail
    <2>2. IsStore(q[k]) /\ HasSnapshot(q[k]) /\ q[k].hs = view.hs
          /\ q[k].snap.index >= view.snap.index
      BY <1>3, <1>5 DEF Good, HasSnapshot
    <2> QED BY <2>1, <2>2, <1>3, <1>4, TailIsGood
  <1>7. /\ LogMap(promised')
        /\ \A j \in DOMAIN promised' : /\ j \in DOMAIN stored /\ j > i
                                       /\ promised'[j] = stored[j]
    BY <1>1, <1>3, <1>4 DEF LogMap, Without
  <1>8. ASSUME NEW k \in 1..i, NEW j \in DOMAIN promised'
        PROVE  \/ j \in DOMAIN q[k].entries /\ q[k].entries[j] = promised'[j]
               \/ j <= q[k].snap.index
    <2>1. j \in DOMAIN stored /\ j > i /\ promised'[j] = stored[j] /\ j \notin 0..k
      BY <1>7, <1>4
    <2>2. \/ j \in DOMAIN view.entries /\ view.entries[j] = promised'[j]
          \/ j <= view.snap.index
      BY <2>1, <1>3 DEF Keeps
    <2>3. q[k].entries = Without(view.entries, 0..k) /\ q[k].snap = view.snap
      BY <1>5
    <2>4. j \in DOMAIN view.entries =>
            /\ j \in DOMAIN Without(view.entries, 0..k)
            /\ Without(view.entries, 0..k)[j] = view.entries[j]
      BY <2>1 DEF Without
    <2> QED BY <2>2, <2>3, <2>4
  <1>9. Keeps(q[Len(q)], promised')
    BY <1>4, <1>5, <1>8 DEF Keeps
  <1>10. \A x \in Contents(q) :
            Good(x) /\ \A j \in DOMAIN stored \cap DOMAIN promised' :
                stored[j] = promised'[j] =>
                    \/ j \in DOMAIN x.entries /\ x.entries[j] = stored[j]
                    \/ j <= x.snap.index
    BY <1>5, <1>6, <1>8
  <1>11. q # << >> /\ q[Len(q)].applied = applied_index' /\ applied_index' \in Nat
    BY <1>2, <1>3, <1>4, <1>5 DEF Inv
  <1> QED BY <1>1, <1>2, <1>5, <1>7, <1>9, <1>10, <1>11, CallStarts

\* The calls that write a key of the meta tree leave the log alone.
LEMMA MetaCallsPreserve ==
    ASSUME Inv, CallSetHardState \/ CallSetConfState \/ CallSetAppliedIndex
    PROVE  Inv'
  <1>1. ~busy
    BY DEF CallSetHardState, CallSetConfState, CallSetAppliedIndex, set_hardstate,
           set_conf_state, set_applied_index, StartCall
  <1>2. /\ IsStore(view) /\ view.applied = applied_index /\ view.hs.commit \in Nat
        /\ DOMAIN view = {"entries", "snap", "hs", "conf", "applied"}
        /\ applied_index \in Nat
    BY <1>1, BetweenCalls DEF Good, Inv, IsStore
  <1>3. CASE CallSetHardState
    <2>1. PICK t \in view.hs.term..MaxTerm, c \in Committed..last_index(view) :
             /\ set_hardstate([term |-> t, vote |-> 0, commit |-> c])
             /\ promised' = stored /\ UNCHANGED <<mem, stored, crashes>>
      BY <1>3 DEF CallSetHardState
    <2> DEFINE x == [view EXCEPT !.hs = [term |-> t, vote |-> 0, commit |-> c]]
    <2>2. /\ x.hs = [term |-> t, vote |-> 0, commit |-> c]
          /\ x.entries = view.entries /\ x.snap = view.snap
          /\ x.conf = view.conf /\ x.applied = view.applied
          /\ DOMAIN x = DOMAIN view
      BY <1>2
    <2>3. t \in Nat /\ c \in Nat /\ c >= view.hs.commit
      BY <1>2, CallConstants DEF Committed, IsStore, HardState
    <2>4. StartCall(<<x>>) /\ applied_index' = applied_index
      BY <2>1 DEF set_hardstate
    <2> HIDE DEF x
    <2>5. IsStore(x) /\ x.hs.commit >= view.hs.commit
      BY <1>2, <2>2, <2>3 DEF IsStore, HardState
    <2> QED BY <1>2, <2>1, <2>2, <2>4, <2>5, MetaCall
  <1>4. CASE CallSetConfState
    <2>1. PICK c \in Confs :
             /\ set_conf_state(c)
             /\ promised' = stored /\ UNCHANGED <<mem, stored, crashes>>
      BY <1>4 DEF CallSetConfState
    <2> DEFINE x == [view EXCEPT !.conf = c]
    <2>2. /\ x.hs = view.hs /\ x.conf = c
          /\ x.entries = view.entries /\ x.snap = view.snap
          /\ x.applied = view.applied /\ DOMAIN x = DOMAIN view
      BY <1>2
    <2>3. StartCall(<<x>>) /\ applied_index' = applied_index
      BY <2>1 DEF set_conf_state
    <2> HIDE DEF x
    <2>4. IsStore(x) /\ x.hs.commit >= view.hs.commit
      BY <1>2, <2>2 DEF IsStore
    <2> QED BY <1>2, <2>1, <2>2, <2>3, <2>4, MetaCall
  <1>5. CASE CallSetAppliedIndex
    <2>1. PICK i \in 0..Committed :
             /\ set_applied_index(i)
             /\ promised' = stored /\ UNCHANGED <<mem, stored, crashes>>
      BY <1>5 DEF CallSetAppliedIndex
    <2> DEFINE x == [view EXCEPT !.applied = i]
    <2>2. /\ x.hs = view.hs /\ x.conf = view.conf
          /\ x.entries = view.entries /\ x.snap = view.snap
          /\ x.applied = i /\ DOMAIN x = DOMAIN view
      BY <1>2
    <2>3. StartCall(<<x>>) /\ applied_index' = i
      BY <2>1 DEF set_applied_index
    <2>4. i \in Nat
      BY <1>2 DEF Committed
    <2> HIDE DEF x
    <2>5. IsStore(x) /\ x.hs.commit >= view.hs.commit
      BY <1>2, <2>2, <2>4 DEF IsStore
    <2> QED BY <1>2, <2>1, <2>2, <2>3, <2>4, <2>5, MetaCall
  <1> QED BY <1>3, <1>4, <1>5

(* A single write: what was pending first is now seen by reads.            *)
LEMMA StepPreserves ==
    ASSUME Inv, CallStep
    PROVE  Inv'
  <1>1. /\ busy /\ todo # << >> /\ view' = Head(todo) /\ todo' = Tail(todo)
        /\ busy' = TRUE
        /\ UNCHANGED <<disk, applied_index, stored, promised, crashes>>
    BY DEF CallStep, Write, ghostVars, Inv
  <1>2. todo \in Seq(Contents(todo))
    BY DEF Inv
  <1>3. /\ Head(todo) \in Contents(todo)
        /\ Tail(todo) \in Seq(Contents(Tail(todo)))
        /\ Contents(Tail(todo)) \subseteq Contents(todo)
        /\ Tail(todo) = << >> => Head(todo) = todo[Len(todo)]
        /\ Tail(todo) # << >> => Tail(todo)[Len(Tail(todo))] = todo[Len(todo)]
    BY <1>1, <1>2, TailContents
  <1>4. (todo \in Seq(Contents(todo)))'
    BY <1>1, <1>3
  <1>5. Stores' \subseteq Stores
    <2>1. Contents(todo)' = Contents(Tail(todo))
      BY <1>1 DEF Contents
    <2> QED BY <1>1, <1>3, <2>1 DEF Stores
  <1>6. Final' = Final
    BY <1>1, <1>3 DEF Final
  <1>7. Kept' = Kept
    BY <1>1 DEF Kept
  <1>8. (\A s \in Stores : Good(s) /\ Keeps(s, Kept))'
    BY <1>5, <1>7 DEF Inv, Keeps, Good
  <1>9. (Keeps(Final, promised) /\ Final.applied = applied_index)'
    BY <1>1, <1>6 DEF Inv, Keeps
  <1> QED BY <1>1, <1>4, <1>8, <1>9 DEF Inv, LogMap

(* The closing flush: what the call promised is now what is stored.        *)
LEMMA ReturnPreserves ==
    ASSUME Inv, CallReturn
    PROVE  Inv'
  <1>1. /\ busy /\ todo = << >> /\ view' = view /\ disk' = view /\ todo' = todo
        /\ busy' = FALSE /\ stored' = promised
        /\ UNCHANGED <<applied_index, promised, crashes>>
    BY DEF CallReturn, Flush
  <1>2. Good(view) /\ Keeps(view, promised) /\ view.applied = applied_index
    BY <1>1 DEF Inv, Stores, Final
  <1>3. Contents(todo) = {} /\ Contents(todo)' = {}
    BY <1>1 DEF Contents
  <1>4. Stores' = {view}
    BY <1>1, <1>3 DEF Stores
  <1>5. Kept' = promised
    BY <1>1 DEF Kept, Inv, LogMap
  <1>6. (\A s \in Stores : Good(s) /\ Keeps(s, Kept))'
    BY <1>2, <1>4, <1>5 DEF Keeps, Good
  <1>7. (Keeps(Final, promised) /\ Final.applied = applied_index)'
    BY <1>1, <1>2 DEF Final, Keeps
  <1>8. (todo \in Seq(Contents(todo)))'
    BY <1>1, <1>3 DEF Inv
  <1> QED BY <1>1, <1>6, <1>7, <1>8 DEF Inv, LogMap

(* sled writes its log out in the middle of a call.                        *)
LEMMA BackgroundPreserves ==
    ASSUME Inv, CallBackground
    PROVE  Inv'
  <1>1. /\ disk' = view /\ disk # view
        /\ UNCHANGED <<view, todo, busy, applied_index, stored, promised, crashes>>
    BY DEF CallBackground, BackgroundFlush, ghostVars
  <1>2. Stores' \subseteq Stores /\ Kept' = Kept /\ Final' = Final
        /\ Contents(todo)' = Contents(todo)
    BY <1>1 DEF Stores, Kept, Final, Contents
  <1>3. (\A s \in Stores : Good(s) /\ Keeps(s, Kept))'
    BY <1>2 DEF Inv, Keeps, Good
  <1>4. (Keeps(Final, promised) /\ Final.applied = applied_index)'
    BY <1>1, <1>2 DEF Inv, Keeps
  <1> QED BY <1>1, <1>2, <1>3, <1>4 DEF Inv, LogMap

(* A crash: the durable store, whichever write it stopped at, keeps what   *)
(* the interrupted call was not to replace.                                *)
LEMMA CrashPreserves ==
    ASSUME Inv, Crash
    PROVE  Inv'
  <1>1. /\ view' = disk /\ disk' = disk /\ todo' = << >> /\ busy' = FALSE
        /\ applied_index' = disk.applied /\ stored' = Kept /\ promised' = Kept
        /\ crashes < MaxCrashes /\ crashes' = crashes + 1
    BY DEF Crash, Reopen
  <1>2. Good(disk) /\ Keeps(disk, Kept)
    BY DEF Inv, Stores
  <1>3. Contents(todo)' = {} /\ Stores' = {disk}
    BY <1>1 DEF Contents, Stores
  <1>4. LogMap(Kept)
    BY DEF Kept, LogMap, Inv
  <1>5. Kept' = Kept
    <2> DEFINE K == Kept
    <2>1. K = [i \in DOMAIN K |-> K[i]]
      BY DEF Kept
    <2>2. Kept' = [i \in {j \in DOMAIN K \cap DOMAIN K : K[j] = K[j]} |-> K[i]]
      BY <1>1 DEF Kept
    <2> HIDE DEF K
    <2>3. Kept' = K
      BY <2>1, <2>2
    <2> QED BY <2>3 DEF K
  <1>6. (\A s \in Stores : Good(s) /\ Keeps(s, Kept))'
    BY <1>2, <1>3, <1>5 DEF Keeps, Good
  <1>7. (Keeps(Final, promised) /\ Final.applied = applied_index)'
    BY <1>1, <1>2 DEF Final, Keeps
  <1>8. (LogMap(stored) /\ LogMap(promised))'
    BY <1>1, <1>4 DEF LogMap
  <1>9. (todo \in Seq(Contents(todo)))' /\ crashes' \in 0..MaxCrashes
    BY <1>1, CallConstants DEF Inv
  <1>10. applied_index' \in Nat
    BY <1>1, <1>2 DEF Good, IsStore
  <1> QED BY <1>1, <1>6, <1>7, <1>8, <1>9, <1>10 DEF Inv

\* A new store has nothing to lose.
LEMMA InitEstablishes == CallInit => Inv
  <1> SUFFICES ASSUME CallInit PROVE Inv
    OBVIOUS
  <1>0. PICK c \in Confs : view = NewStore(c)
    BY DEF CallInit
  <1> DEFINE boot == [index |-> 0, term |-> 0, conf |-> c, data |-> NoData]
             s == NewStore(c)
  <1>1. /\ view = s /\ disk = s /\ todo = << >> /\ busy = FALSE
        /\ applied_index = 0 /\ stored = << >> /\ promised = << >> /\ crashes = 0
    BY <1>0 DEF CallInit
  <1>2. boot \in Snapshot /\ boot.index = 0 /\ boot.conf \in Confs
    BY CallConstants, StorageConstants DEF Snapshot
  <1> HIDE DEF boot
  <1>3. /\ DOMAIN s = {"entries", "snap", "hs", "conf", "applied"}
        /\ s.entries = << >> /\ s.snap = boot /\ s.hs = NoHardState
        /\ s.conf = boot.conf /\ s.applied = 0
    BY DEF EmptyStore, NewStore, boot
  <1> HIDE DEF s
  <1>4. DOMAIN s.entries = {}
    BY <1>3
  <1>5. IsStore(s) /\ HasSnapshot(s)
    BY <1>2, <1>3, <1>4, StorageConstants DEF IsStore, HasSnapshot, NoHardState, HardState
  <1>6. Good(s)
    BY <1>4, <1>5 DEF Good, NoHole, FullAbove
  <1>7. Contents(todo) = {} /\ Stores = {s}
    BY <1>1 DEF Contents, Stores
  <1>8. LogMap(stored) /\ LogMap(promised) /\ DOMAIN Kept = {} /\ DOMAIN promised = {}
    BY <1>1 DEF LogMap, Kept
  <1>9. \A x \in Stores : Good(x) /\ Keeps(x, Kept)
    BY <1>6, <1>7, <1>8 DEF Keeps
  <1>10. Keeps(Final, promised) /\ Final.applied = applied_index
    BY <1>1, <1>3, <1>8 DEF Final, Keeps
  <1>11. todo \in Seq(Contents(todo)) /\ crashes \in 0..MaxCrashes
    BY <1>1, CallConstants
  <1>12. /\ busy \in BOOLEAN /\ applied_index \in Nat
         /\ disk = view /\ todo = << >> /\ promised = stored
    BY <1>1
  <1> QED BY <1>8, <1>9, <1>10, <1>11, <1>12 DEF Inv

\* Every call, write, flush and crash keeps the invariant.
LEMMA NextPreserves == Inv /\ [Next]_vars => Inv'
  <1> SUFFICES ASSUME Inv, [Next]_vars PROVE Inv'
    OBVIOUS
  <1>1. CASE CallAppend
    BY <1>1, AppendPreserves
  <1>2. CASE CallSetHardState \/ CallSetConfState \/ CallSetAppliedIndex
    BY <1>2, MetaCallsPreserve
  <1>3. CASE CallApplySnapshot
    BY <1>3, SnapshotPreserves
  <1>4. CASE CallCompact
    BY <1>4, CompactPreserves
  <1>5. CASE CallStep
    BY <1>5, StepPreserves
  <1>6. CASE CallReturn
    BY <1>6, ReturnPreserves
  <1>7. CASE CallBackground
    BY <1>7, BackgroundPreserves
  <1>8. CASE Crash
    BY <1>8, CrashPreserves
  <1>9. CASE UNCHANGED vars
    BY <1>9 DEF vars, storageVars, ghostVars, Inv, LogMap, Stores, Contents, Final,
               Kept, Keeps, Good
  <1> QED BY <1>1, <1>2, <1>3, <1>4, <1>5, <1>6, <1>7, <1>8, <1>9 DEF Next

(* The invariant holds in every reachable state.                           *)
THEOREM Invariance == Spec => []Inv
  BY InitEstablishes, NextPreserves, PTL DEF Spec

(* The stores the trees hold, the durable one and the pending ones are     *)
(* well-formed in every state of disk_storage.rs, a crash at any write     *)
(* included.                                                               *)
THEOREM TypeCorrect == Spec => []TypeOK
  <1>1. Inv => TypeOK
    <2> SUFFICES ASSUME Inv PROVE TypeOK
      OBVIOUS
    <2>1. \A s \in Stores : IsStore(s)
      BY DEF Inv, Good
    <2>2. \A k \in DOMAIN todo : todo[k] \in Stores
      BY DEF Stores, Contents
    <2> QED BY <2>1, <2>2 DEF Inv, TypeOK, StorageTypeOK, Stores, LogMap
  <1> QED BY <1>1, Invariance, PTL

(* Between two calls the durable store is the store reads see, and the     *)
(* cached applied index the stored one.                                    *)
THEOREM CallsAreDurable == Spec => []DurableBetweenCalls
  <1>1. Inv => DurableBetweenCalls
    BY DEF Inv, Final, DurableBetweenCalls
  <1> QED BY <1>1, Invariance, PTL

(* An appended entry outlives every crash until a later append replaces    *)
(* it, a snapshot covers it or the caller compacts it.                     *)
THEOREM EntriesSurvive == Spec => []StoredSurvives
  <1>1. Inv => StoredSurvives
    <2> SUFFICES ASSUME Inv PROVE StoredSurvives
      OBVIOUS
    <2>1. Good(disk) /\ Keeps(disk, Kept)
      BY DEF Inv, Stores
    <2> QED BY <2>1 DEF Good, Keeps, StoredSurvives
  <1> QED BY <1>1, Invariance, PTL

(* No write of any call opens a hole in the stored log, so no crash can    *)
(* leave one.                                                              *)
THEOREM NoHoleAnywhere == Spec => []LogHasNoHole
  <1>1. Inv => LogHasNoHole
    BY DEF Inv, Stores, Good, LogHasNoHole
  <1> QED BY <1>1, Invariance, PTL

----------------------------------------------------------------------------
(* The two backends                                                        *)

(* A memory log m is all there from the snapshot on, with the same terms   *)
(* and entries.  The store may hold more above it.                         *)
Agrees(s, m) ==
    /\ m.index = s.snap.index /\ m.term = s.snap.term
    /\ m.log \in Seq(Entry)
    /\ \A k \in 1..Len(m.log) :
         m.index + k \in DOMAIN s.entries /\ s.entries[m.index + k] = m.log[k]

(* A committed entry neither there nor covered: only a compact() ahead of  *)
(* the snapshot brings it about, and only a snapshot ends it.              *)
Lost(s) ==
    \E j \in (s.snap.index + 1)..s.hs.commit : j \notin DOMAIN s.entries

(* LogReadsAgree speaks of the state between two calls; what carries it    *)
(* through the writes of a call is the store that call ends with.          *)
Matches ==
    /\ Agrees(Final, goal) \/ Lost(Final)
    /\ ~busy => mem = goal

(* Between calls the store reads see is the final one.                     *)
LEMMA MatchesBetweenCalls ==
    ASSUME Inv, Matches, ~busy
    PROVE  (Agrees(view, mem) \/ Lost(view)) /\ mem = goal
  <1>1. Final = view
    BY DEF Inv, Final
  <1> QED BY <1>1 DEF Matches

(* A call that starts: it is enough to look at the last store it writes.   *)
LEMMA StartMatches ==
    ASSUME NEW q, StartCall(q), q # << >>,
           Agrees(q[Len(q)], goal') \/ Lost(q[Len(q)])
    PROVE  Matches'
  <1>1. busy' = TRUE /\ Final' = q[Len(q)]
    BY DEF StartCall, Final
  <1> QED BY <1>1 DEF Matches, Agrees, Lost

(* A call that writes one key of the meta tree.                            *)
LEMMA MetaMatches ==
    ASSUME Inv, Matches, NEW x, StartCall(<<x>>),
           x.entries = view.entries, x.snap = view.snap,
           x.hs.commit \in Nat, x.hs.commit >= view.hs.commit, goal' = mem
    PROVE  Matches'
  <1>1. ~busy
    BY DEF StartCall
  <1>2. view.snap.index \in Nat /\ view.hs.commit \in Nat
    BY <1>1, BetweenCalls
  <1>3. Agrees(view, mem) \/ Lost(view)
    BY <1>1, MatchesBetweenCalls
  <1>4. Agrees(x, goal') \/ Lost(x)
    <2>1. CASE Agrees(view, mem)
      BY <2>1 DEF Agrees
    <2>2. CASE Lost(view)
      BY <2>2, <1>2 DEF Lost
    <2> QED BY <2>1, <2>2, <1>3
  <1> DEFINE q == <<x>>
  <1>5. q # << >> /\ q[Len(q)] = x /\ StartCall(q)
    OBVIOUS
  <1> HIDE DEF q
  <1> QED BY <1>4, <1>5, StartMatches

(* The hard state, the ConfState and the applied index are not part of the *)
(* log either backend reads back.                                          *)
LEMMA MetaCallsMatch ==
    ASSUME Inv, Matches, CallSetHardState \/ CallSetConfState \/ CallSetAppliedIndex
    PROVE  Matches'
  <1>1. ~busy
    BY DEF CallSetHardState, CallSetConfState, CallSetAppliedIndex, set_hardstate,
           set_conf_state, set_applied_index, StartCall
  <1>2. /\ DOMAIN view = {"entries", "snap", "hs", "conf", "applied"}
        /\ view.hs.commit \in Nat /\ IsStore(view)
    BY <1>1, BetweenCalls DEF Good, IsStore
  <1>3. CASE CallSetHardState
    <2>1. PICK t \in view.hs.term..MaxTerm, c \in Committed..last_index(view) :
             /\ set_hardstate([term |-> t, vote |-> 0, commit |-> c])
             /\ goal' = mem
      BY <1>3 DEF CallSetHardState
    <2> DEFINE x == [view EXCEPT !.hs = [term |-> t, vote |-> 0, commit |-> c]]
    <2>2. /\ x.hs = [term |-> t, vote |-> 0, commit |-> c]
          /\ x.entries = view.entries /\ x.snap = view.snap
      BY <1>2
    <2>3. x.hs.commit \in Nat /\ x.hs.commit >= view.hs.commit
      BY <1>2, <2>2 DEF Committed
    <2>4. StartCall(<<x>>)
      BY <2>1 DEF set_hardstate
    <2> HIDE DEF x
    <2> QED BY <2>1, <2>2, <2>3, <2>4, MetaMatches
  <1>4. CASE CallSetConfState
    <2>1. PICK c \in Confs : set_conf_state(c) /\ goal' = mem
      BY <1>4 DEF CallSetConfState
    <2> DEFINE x == [view EXCEPT !.conf = c]
    <2>2. x.hs = view.hs /\ x.entries = view.entries /\ x.snap = view.snap
      BY <1>2
    <2>3. StartCall(<<x>>)
      BY <2>1 DEF set_conf_state
    <2> HIDE DEF x
    <2>4. x.hs.commit \in Nat /\ x.hs.commit >= view.hs.commit
      BY <1>2, <2>2
    <2> QED BY <2>1, <2>2, <2>3, <2>4, MetaMatches
  <1>5. CASE CallSetAppliedIndex
    <2>1. PICK i \in 0..Committed : set_applied_index(i) /\ goal' = mem
      BY <1>5 DEF CallSetAppliedIndex
    <2> DEFINE x == [view EXCEPT !.applied = i]
    <2>2. x.hs = view.hs /\ x.entries = view.entries /\ x.snap = view.snap
      BY <1>2
    <2>3. StartCall(<<x>>)
      BY <2>1 DEF set_applied_index
    <2> HIDE DEF x
    <2>4. x.hs.commit \in Nat /\ x.hs.commit >= view.hs.commit
      BY <1>2, <2>2
    <2> QED BY <2>1, <2>2, <2>3, <2>4, MetaMatches
  <1> QED BY <1>3, <1>4, <1>5

(* compact() keeps what the memory log holds, or loses the entry at its    *)
(* own index.                                                              *)
LEMMA CompactMatches ==
    ASSUME Inv, Matches, CallCompact
    PROVE  Matches'
  <1>1. PICK i \in 1..Committed : compact(i) /\ goal' = MemCompact(mem, i)
    BY DEF CallCompact
  <1> DEFINE q == removal_writes(view, i)
             x == q[i]
  <1>2. ~busy /\ StartCall(q)
    BY <1>1 DEF compact, StartCall
  <1>3. /\ IsStore(view) /\ view.snap.index \in Nat /\ view.hs.commit \in Nat
        /\ Agrees(view, mem) \/ Lost(view)
    BY <1>2, BetweenCalls, MatchesBetweenCalls DEF Good
  <1>4. i \in Nat \ {0} /\ i <= view.hs.commit
    BY <1>3 DEF Committed
  <1>5. /\ q \in Seq(Contents(q)) /\ Len(q) = i
        /\ \A k \in 1..i :
             /\ q[k].entries = Without(view.entries, 0..k)
             /\ q[k].snap = view.snap /\ q[k].hs = view.hs
    <2>1. IsStore(view) /\ i \in Nat
      BY <1>3, <1>4
    <2> QED BY <2>1, RemovalWrites, Zenon
  <1> HIDE DEF q
  <1>6. /\ x.snap = view.snap /\ x.hs = view.hs
        /\ x.entries = Without(view.entries, 0..i)
    BY <1>4, <1>5
  <1>7. DOMAIN x.entries = DOMAIN view.entries \ 0..i
    BY <1>6 DEF Without
  <1>8. \A j \in DOMAIN view.entries : j \notin 0..i => x.entries[j] = view.entries[j]
    BY <1>6 DEF Without
  <1>9. q # << >> /\ q[Len(q)] = x
    BY <1>4, <1>5
  <1> HIDE DEF x
  <1>10. Agrees(x, goal') \/ Lost(x)
    <2>1. CASE Lost(view)
      BY <2>1, <1>3, <1>6, <1>7 DEF Lost
    <2>2. CASE i > view.snap.index
      <3>1. i \in (x.snap.index + 1)..x.hs.commit /\ i \notin DOMAIN x.entries
        BY <2>2, <1>3, <1>4, <1>6, <1>7
      <3> QED BY <3>1 DEF Lost
    <2>3. CASE Agrees(view, mem) /\ i <= view.snap.index
      <3>1. goal' = mem
        <4>1. i \notin MemFirst(mem)..MemLast(mem)
          BY <2>3, <1>3, <1>4 DEF Agrees, MemFirst
        <4> QED BY <4>1, <1>1 DEF MemCompact
      <3>2. Len(mem.log) \in Nat
        BY <2>3, LenProperties DEF Agrees
      <3>3. ASSUME NEW k \in 1..Len(mem.log)
            PROVE  /\ mem.index + k \in DOMAIN x.entries
                   /\ x.entries[mem.index + k] = mem.log[k]
        <4>1. /\ mem.index + k \in DOMAIN view.entries
              /\ view.entries[mem.index + k] = mem.log[k]
              /\ mem.index = view.snap.index
          BY <2>3 DEF Agrees
        <4>2. mem.index + k \notin 0..i
          BY <4>1, <3>2, <2>3, <1>3, <1>4
        <4> QED BY <4>1, <4>2, <1>7, <1>8
      <3> QED BY <3>1, <3>3, <2>3, <1>6 DEF Agrees
    <2> QED BY <2>1, <2>2, <2>3, <1>3, <1>4
  <1> QED BY <1>2, <1>9, <1>10, StartMatches

(* apply_snapshot leaves the memory log empty, and the disk store agrees   *)
(* whatever it was before.                                                 *)
LEMMA SnapshotMatches ==
    ASSUME Inv, Matches, CallApplySnapshot
    PROVE  Matches'
  <1>1. PICK i \in 1..MaxIndex, t \in 1..MaxTerm, c \in Confs, d \in SnapData :
            /\ apply_snapshot([index |-> i, term |-> t, conf |-> c, data |-> d])
            /\ goal' = MemApplySnapshot(mem, [index |-> i, term |-> t, conf |-> c,
                                              data |-> d])
    BY DEF CallApplySnapshot
  <1> DEFINE snapshot == [index |-> i, term |-> t, conf |-> c, data |-> d]
             q == apply_snapshot_writes(view, snapshot)
             x == q[Len(q)]
  <1>2. ~busy /\ StartCall(q)
    BY <1>1 DEF apply_snapshot, StartCall
  <1>3. IsStore(view)
    BY <1>2, BetweenCalls DEF Good
  <1>4. snapshot \in Snapshot
    BY CallConstants DEF Snapshot
  <1>5. /\ goal'.index = snapshot.index /\ goal'.term = snapshot.term
        /\ goal'.log = << >>
    BY <1>1 DEF MemApplySnapshot
  <1> HIDE DEF snapshot
  <1>6. /\ q \in Seq(Contents(q)) /\ q # << >>
        /\ \A y \in Contents(q) : y.snap = snapshot
    BY <1>3, <1>4, SnapshotWrites, Zenon
  <1> HIDE DEF q
  <1>7. x \in Contents(q)
    <2>1. Len(q) \in Nat \ {0} /\ DOMAIN q = 1..Len(q)
      BY <1>6, EmptySeq, LenProperties
    <2> QED BY <2>1 DEF Contents
  <1>8. Agrees(x, goal')
    BY <1>5, <1>6, <1>7 DEF Agrees
  <1> QED BY <1>2, <1>6, <1>8, StartMatches

(* append writes the same entries at the same indices in both backends;    *)
(* what stays above them on the disk is above the end of the memory log.   *)
LEMMA AppendMatches ==
    ASSUME Inv, Matches, CallAppend
    PROVE  Matches'
  <1>1. PICK base \in Committed..last_index(view), es \in Batches :
            /\ base >= first_index(view) - 1
            /\ append(base, es)
            /\ goal' = MemAppend(mem, base, es)
    BY DEF CallAppend
  <1> DEFINE q == append_writes(view, base, es)
             x == q[Len(q)]
             n == Len(es)
             m == mem.index
             log == mem.log
  <1>2. ~busy /\ StartCall(q)
    BY <1>1 DEF append, StartCall
  <1>3. /\ Good(view) /\ IsStore(view)
        /\ view.snap.index \in Nat /\ view.hs.commit \in Nat
        /\ Agrees(view, mem) \/ Lost(view)
    BY <1>2, BetweenCalls, MatchesBetweenCalls DEF Good
  <1>4. es \in Seq(Entry) /\ n \in Nat \ {0}
    <2>1. PICK k \in 1..MaxBatch : es \in [1..k -> [term : 1..MaxTerm, payload : Payload]]
      BY DEF Batches
    <2>2. [term : 1..MaxTerm, payload : Payload] \subseteq Entry
      BY CallConstants DEF Entry
    <2>3. k \in Nat \ {0}
      BY CallConstants
    <2>4. es \in [1..k -> Entry]
      BY <2>1, <2>2
    <2>5. es \in Seq(Entry)
      BY <2>3, <2>4, SeqDef
    <2>6. Len(es) = k
      BY <2>3, <2>4, <2>5, LenProperties
    <2> QED BY <2>3, <2>5, <2>6
  <1>5. base \in Nat /\ base >= view.hs.commit /\ base >= view.snap.index
    <2>1. first_index(view) = view.snap.index + 1
      BY <1>3 DEF first_index, Good
    <2> QED BY <2>1, <1>1, <1>3 DEF Committed
  <1>6. /\ q \in Seq(Contents(q)) /\ Len(q) = n
        /\ \A k \in 1..n :
             /\ q[k].entries = InsertFirst(view.entries, base, es, k)
             /\ q[k].snap = view.snap /\ q[k].hs = view.hs
    <2>1. IsStore(view) /\ base \in Nat /\ es \in Seq(Entry)
      BY <1>3, <1>4, <1>5
    <2> QED BY <2>1, AppendWrites, Zenon
  <1> HIDE DEF q
  <1>7. /\ x.entries = InsertFirst(view.entries, base, es, n)
        /\ x.snap = view.snap /\ x.hs = view.hs
        /\ q # << >> /\ q[Len(q)] = x
    BY <1>4, <1>6
  <1> HIDE DEF x
  <1>8. /\ DOMAIN x.entries = DOMAIN view.entries \cup (base + 1)..(base + n)
        /\ \A i \in (base + 1)..(base + n) : x.entries[i] = es[i - base]
        /\ \A i \in DOMAIN view.entries :
             i \notin (base + 1)..(base + n) => x.entries[i] = view.entries[i]
    BY <1>7 DEF InsertFirst
  <1>9. Agrees(x, goal') \/ Lost(x)
    <2>1. CASE Lost(view)
      <3>1. PICK j \in (view.snap.index + 1)..view.hs.commit :
                j \notin DOMAIN view.entries
        BY <2>1 DEF Lost
      <3>2. j \notin DOMAIN x.entries
        BY <3>1, <1>3, <1>5, <1>8
      <3> QED BY <3>1, <3>2, <1>7 DEF Lost
    <2>2. CASE Agrees(view, mem)
      <3>1. /\ m = view.snap.index /\ m \in Nat /\ mem.term = view.snap.term
            /\ log \in Seq(Entry) /\ Len(log) \in Nat
            /\ \A k \in 1..Len(log) :
                 m + k \in DOMAIN view.entries /\ view.entries[m + k] = log[k]
        BY <2>2, <1>3, LenProperties DEF Agrees
      <3>2. CASE base > m + Len(log)
        <4>1. goal' = mem
          BY <3>2, <1>1 DEF MemAppend, MemLast
        <4>2. ASSUME NEW k \in 1..Len(log)
              PROVE  m + k \in DOMAIN x.entries /\ x.entries[m + k] = log[k]
          <5>1. m + k \notin (base + 1)..(base + n) /\ m + k \in DOMAIN view.entries
            BY <3>1, <3>2, <1>5
          <5> QED BY <5>1, <3>1, <1>8
        <4> QED BY <4>1, <4>2, <3>1, <1>7 DEF Agrees
      <3>3. CASE base <= m + Len(log)
        <4> DEFINE keep == base - m
                   head == SubSeq(log, 1, keep)
                   new == head \o es
        <4>1. keep \in Nat /\ keep <= Len(log)
          BY <3>1, <3>3, <1>5
        <4>2. goal' = [mem EXCEPT !.log = new]
          BY <3>1, <3>3, <1>1, <1>5 DEF MemAppend, MemLast
        <4>3. head \in Seq(Entry) /\ Len(head) = keep
              /\ \A k \in 1..keep : head[k] = log[k]
          <5> HIDE DEF keep
          <5>1. \A k \in 1..keep : log[k] \in Entry
            BY <4>1, <3>1, ElementOfSeq
          <5>2. keep \in Int
            BY <4>1
          <5>3. /\ SubSeq(log, 1, keep) \in Seq(Entry)
                /\ Len(SubSeq(log, 1, keep)) = IF 1 <= keep THEN keep - 1 + 1 ELSE 0
                /\ \A k \in 1..(keep - 1 + 1) : SubSeq(log, 1, keep)[k] = log[1 + k - 1]
            BY <5>1, <5>2, SubSeqProperties
          <5>4. Len(head) = keep
            BY <5>3, <4>1
          <5>5. ASSUME NEW k \in 1..keep PROVE head[k] = log[k]
            <6>1. k \in 1..(keep - 1 + 1) /\ 1 + k - 1 = k
              BY <4>1
            <6> QED BY <6>1, <5>3
          <5> QED BY <5>3, <5>4, <5>5
        <4> HIDE DEF head
        <4>4. /\ new \in Seq(Entry) /\ Len(new) = keep + n
              /\ \A k \in 1..(keep + n) :
                    new[k] = IF k <= keep THEN log[k] ELSE es[k - keep]
          <5> HIDE DEF keep
          <5>1. new \in Seq(Entry) /\ Len(new) = Len(head) + Len(es)
                /\ \A k \in 1..(Len(head) + Len(es)) :
                     new[k] = IF k <= Len(head) THEN head[k] ELSE es[k - Len(head)]
            BY <4>3, <1>4, ConcatProperties
          <5> HIDE DEF new
          <5> QED BY <5>1, <4>1, <4>3
        <4> HIDE DEF new
        <4>5. ASSUME NEW k \in 1..(keep + n)
              PROVE  m + k \in DOMAIN x.entries /\ x.entries[m + k] = new[k]
          <5>1. CASE k <= keep
            <6>1. m + k \notin (base + 1)..(base + n) /\ k \in 1..Len(log)
              <7>1. /\ m \in Nat /\ base \in Nat /\ k \in Nat /\ k >= 1
                    /\ k <= Len(log) /\ k <= base - m /\ Len(log) \in Nat
                BY <5>1, <4>1, <3>1, <1>5
              <7> HIDE DEF m, log, n
              <7> QED BY <7>1
            <6>2. m + k \in DOMAIN view.entries /\ view.entries[m + k] = log[k]
              BY <6>1, <3>1
            <6>3. m + k \in DOMAIN x.entries /\ x.entries[m + k] = view.entries[m + k]
              <7>1. /\ DOMAIN view.entries \subseteq DOMAIN x.entries
                    /\ \A i \in DOMAIN view.entries :
                          i \notin (base + 1)..(base + n) => x.entries[i] = view.entries[i]
                BY <1>8
              <7> QED BY <6>1, <6>2, <7>1, Zenon
            <6>4. new[k] = log[k]
              BY <5>1, <4>4
            <6> QED BY <6>2, <6>3, <6>4
          <5>2. CASE k > keep
            <6>1. m \in Nat /\ n \in Nat /\ base \in Nat /\ k \in Nat
              BY <4>1, <3>1, <1>4, <1>5
            <6>2. m + k \in (base + 1)..(base + n) /\ (m + k) - base = k - keep
              BY <5>2, <6>1
            <6>3. new[k] = es[k - keep]
              BY <5>2, <6>1, <4>1, <4>4
            <6>4. /\ m + k \in DOMAIN x.entries
                  /\ x.entries[m + k] = es[(m + k) - base]
              <7>1. \A i \in (base + 1)..(base + n) :
                       i \in DOMAIN x.entries /\ x.entries[i] = es[i - base]
                BY <1>8
              <7> QED BY <7>1, <6>2, Zenon
            <6> QED BY <6>2, <6>3, <6>4
          <5> QED BY <5>1, <5>2, <4>1, <1>4
        <4>6. goal'.index = m /\ goal'.term = mem.term /\ goal'.log = new
          BY <4>2, <2>2 DEF Agrees
        <4> QED BY <4>4, <4>5, <4>6, <3>1, <1>7 DEF Agrees
      <3> QED BY <3>1, <3>2, <3>3, <1>5
    <2> QED BY <2>1, <2>2, <1>3
  <1> QED BY <1>2, <1>7, <1>9, StartMatches

(* A restart: RaftLog::new reads back from the disk exactly the run of     *)
(* entries that follows the snapshot, so whatever the crash interrupted    *)
(* the memory log it compares with agrees.                                 *)
LEMMA CrashMatches ==
    ASSUME Inv, Crash
    PROVE  Matches'
  <1> DEFINE base == first_index(disk) - 1
             run == {i \in DOMAIN disk.entries :
                        i > base /\ (base + 1)..i \subseteq DOMAIN disk.entries}
             top == IF run = {} THEN base ELSE Highest(run)
             log == [k \in 1..(top - base) |-> disk.entries[base + k]]
  <1>1. /\ view' = disk /\ todo' = << >> /\ goal' = MemOf(disk) /\ mem' = goal'
    BY DEF Crash, Reopen
  <1>2. Good(disk)
    BY DEF Inv, Stores
  <1>3. /\ DOMAIN disk.entries \subseteq 1..MaxIndex /\ HasSnapshot(disk)
        /\ disk.snap.index \in Nat /\ disk.entries \in [DOMAIN disk.entries -> Entry]
    BY <1>2 DEF Good, HasSnapshot, IsStore, Snapshot
  <1>4. base = disk.snap.index
    BY <1>3 DEF first_index
  <1>5. goal'.index = base /\ goal'.term = disk.snap.term /\ goal'.log = log
    BY <1>1, <1>3 DEF MemOf
  <1> HIDE DEF base
  <1>6. base \in Nat
    BY <1>3, <1>4
  <1>7. /\ top \in Nat /\ top >= base
        /\ \A i \in (base + 1)..top : i \in DOMAIN disk.entries
    <2>1. CASE run = {}
      BY <2>1, <1>6
    <2>2. CASE run # {}
      <3>1. MaxIndex \in Nat /\ run \subseteq 0..MaxIndex
        BY <1>3, CallConstants
      <3>2. Highest(run) \in run
        <4> HIDE DEF run
        <4> QED BY <2>2, <3>1, HighestIsGreatest
      <3>3. top \in run
        BY <2>2, <3>2
      <3> HIDE DEF top
      <3> QED BY <3>1, <3>3, <1>6
    <2> QED BY <2>1, <2>2
  <1> HIDE DEF top
  <1>8. \A k \in 1..(top - base) : base + k \in DOMAIN disk.entries
    BY <1>6, <1>7
  <1>9. log \in Seq(Entry) /\ Len(log) = top - base
    <2>1. top - base \in Nat
      BY <1>6, <1>7
    <2>2. log \in [1..(top - base) -> Entry]
      BY <1>3, <1>8
    <2>3. log \in Seq(Entry)
      BY <2>1, <2>2, SeqDef
    <2>4. DOMAIN log = 1..(top - base)
      OBVIOUS
    <2> HIDE DEF log
    <2> QED BY <2>1, <2>3, <2>4, LenProperties
  <1>10. \A k \in 1..(top - base) : log[k] = disk.entries[base + k]
    OBVIOUS
  <1> HIDE DEF log
  <1>11. Agrees(disk, goal')
    BY <1>4, <1>5, <1>8, <1>9, <1>10 DEF Agrees
  <1>12. Final' = disk
    BY <1>1 DEF Final
  <1> QED BY <1>1, <1>11, <1>12 DEF Matches, Agrees

(* A write takes the next pending store: the one the call ends with stays. *)
LEMMA StepMatches ==
    ASSUME Inv, Matches, CallStep
    PROVE  Matches'
  <1>1. /\ busy' = TRUE /\ todo # << >> /\ view' = Head(todo) /\ todo' = Tail(todo)
        /\ goal' = goal
    BY DEF CallStep, Write, ghostVars, Inv
  <1>2. todo \in Seq(Contents(todo))
    BY DEF Inv
  <1>3. Final' = Final
    <2>1. /\ Tail(todo) = << >> => Head(todo) = todo[Len(todo)]
          /\ Tail(todo) # << >> => Tail(todo)[Len(Tail(todo))] = todo[Len(todo)]
      BY <1>1, <1>2, TailContents
    <2> QED BY <1>1, <2>1 DEF Final
  <1> QED BY <1>1, <1>3 DEF Matches, Agrees, Lost

(* Both backends start out empty at index 0, and no step parts them.       *)
LEMMA MatchesInit == CallInit => Matches
  <1> SUFFICES ASSUME CallInit PROVE Matches
    OBVIOUS
  <1>1. PICK c \in Confs : view = NewStore(c)
    BY DEF CallInit
  <1>2. view.snap.index = 0 /\ view.snap.term = 0
    BY <1>1 DEF NewStore, EmptyStore
  <1>3. /\ todo = << >> /\ goal = mem
        /\ mem = [index |-> 0, term |-> 0, log |-> << >>]
    BY DEF CallInit
  <1>4. mem.index = 0 /\ mem.term = 0 /\ mem.log = << >>
    BY <1>3
  <1>5. Agrees(view, goal)
    BY <1>2, <1>3, <1>4 DEF Agrees
  <1> QED BY <1>3, <1>5 DEF Matches, Final

(* Every call, write, flush and crash keeps the two backends together.     *)
LEMMA MatchesNext == Inv /\ Matches /\ [Next]_vars => Matches'
  <1> SUFFICES ASSUME Inv, Matches, [Next]_vars PROVE Matches'
    OBVIOUS
  <1>1. CASE CallAppend
    BY <1>1, AppendMatches
  <1>2. CASE CallSetHardState \/ CallSetConfState \/ CallSetAppliedIndex
    BY <1>2, MetaCallsMatch
  <1>3. CASE CallApplySnapshot
    BY <1>3, SnapshotMatches
  <1>4. CASE CallCompact
    BY <1>4, CompactMatches
  <1>5. CASE CallStep
    BY <1>5, StepMatches
  <1>6. CASE CallReturn
    <2>1. goal' = goal /\ mem' = goal /\ view' = view /\ todo' = todo
      BY <1>6 DEF CallReturn, Flush
    <2> QED BY <2>1 DEF Matches, Final, Agrees, Lost
  <1>7. CASE CallBackground
    BY <1>7 DEF CallBackground, BackgroundFlush, ghostVars, Matches, Final, Agrees, Lost
  <1>8. CASE Crash
    BY <1>8, CrashMatches
  <1>9. CASE UNCHANGED vars
    BY <1>9 DEF vars, storageVars, ghostVars, Matches, Final, Agrees, Lost
  <1> QED BY <1>1, <1>2, <1>3, <1>4, <1>5, <1>6, <1>7, <1>8, <1>9 DEF Next

(* A store with a start and an end that fit has lost nothing: its keys     *)
(* have no hole.                                                           *)
LEMMA WholeIsNotLost ==
    ASSUME NEW s, Good(s), IsWhole(s)
    PROVE  ~ Lost(s)
  <1> SUFFICES ASSUME NEW j \in (s.snap.index + 1)..s.hs.commit,
                      j \notin DOMAIN s.entries
               PROVE  FALSE
    BY DEF Lost
  <1> DEFINE D == DOMAIN s.entries
  <1>1. /\ s.snap.index \in Nat /\ s.hs.commit \in Nat /\ HasSnapshot(s)
        /\ D \subseteq 1..MaxIndex /\ \A a, b \in D : a..b \subseteq D
    BY DEF Good, HasSnapshot, IsStore, Snapshot, HardState, NoHole
  <1>2. /\ first_index(s) = s.snap.index + 1
        /\ last_index(s) = IF D # {} THEN Highest(D) ELSE s.snap.index
    BY <1>1 DEF first_index, last_index
  <1>3. s.hs.commit <= last_index(s) /\ first_index(s) \in D \cup {last_index(s) + 1}
    BY DEF IsWhole
  <1>4. CASE D = {}
    BY <1>1, <1>2, <1>3, <1>4
  <1>5. CASE D # {}
    <2>1. MaxIndex \in Nat /\ D \subseteq 0..MaxIndex
      BY <1>1, CallConstants
    <2>2. Highest(D) \in D
      <3> HIDE DEF D
      <3> QED BY <1>5, <2>1, HighestIsGreatest
    <2>3. Highest(D) \in Nat /\ j <= Highest(D)
      BY <1>1, <1>2, <1>3, <1>5, <2>1, <2>2
    <2>4. s.snap.index + 1 \in D
      BY <1>1, <1>2, <1>3, <2>3
    <2>5. j \in (s.snap.index + 1)..Highest(D)
      BY <1>1, <2>3
    <2> QED BY <2>2, <2>4, <2>5, <1>1
  <1> QED BY <1>4, <1>5

(* entries() answers with as much of the memory log as was asked for.      *)
LEMMA SameEntries ==
    ASSUME NEW s, NEW m, Agrees(s, m), m.index \in Nat,
           NEW low \in MemFirst(m)..MemLast(m),
           NEW high \in (low + 1)..(MemLast(m) + 1), NEW max \in Nat
    PROVE  entries(s, low, high, max) = MemEntries(m, low, high, max)
  <1> DEFINE gaps == {i \in low..(high - 1) : i \notin DOMAIN s.entries}
             quota == IF max = 0 THEN 1 ELSE max
             len == high - low
             n == IF quota < len THEN quota ELSE len
             upto == Lowest(gaps \cup {high, low + quota})
             b == m.index
             log == m.log
             read == [k \in 1..n |-> s.entries[low + k - 1]]
             want == SubSeq(log, low - b, low - b + n - 1)
  <1>1. /\ log \in Seq(Entry) /\ Len(log) \in Nat /\ b \in Nat
        /\ \A k \in 1..Len(log) :
             b + k \in DOMAIN s.entries /\ s.entries[b + k] = log[k]
    BY LenProperties DEF Agrees
  <1>2. /\ low \in Nat /\ high \in Nat /\ b + 1 <= low /\ low <= b + Len(log)
        /\ low < high /\ high <= b + Len(log) + 1
    BY <1>1 DEF MemFirst, MemLast
  <1>3. quota \in Nat \ {0}
    OBVIOUS
  <1> HIDE DEF quota
  <1>4. n \in Nat \ {0} /\ n <= len /\ n <= quota /\ (n = quota \/ n = len)
    BY <1>2, <1>3
  <1>5. low + n = IF high <= low + quota THEN high ELSE low + quota
    BY <1>2, <1>3
  <1>6. ASSUME NEW i \in low..(high - 1)
        PROVE  i \in DOMAIN s.entries /\ s.entries[i] = log[i - b]
    <2>1. i - b \in 1..Len(log) /\ b + (i - b) = i
      BY <1>1, <1>2
    <2> QED BY <2>1, <1>1
  <1>7. gaps = {}
    BY <1>6
  <1>8. upto = low + n
    <2> HIDE DEF n
    <2>1. gaps \cup {high, low + quota} = {high, low + quota}
      BY <1>7
    <2> HIDE DEF gaps
    <2>2. Lowest({high, low + quota}) = low + n
      <3>1. low + n \in {high, low + quota} /\ \A j \in {high, low + quota} : low + n <= j
        BY <1>2, <1>3, <1>5
      <3>2. \A i \in {high, low + quota} :
               (\A j \in {high, low + quota} : i <= j) => i = low + n
        BY <3>1, <1>2, <1>3
      <3> QED BY <3>1, <3>2 DEF Lowest
    <2> QED BY <2>1, <2>2
  <1>9. entries(s, low, high, max) = [k \in 1..((low + n) - low) |-> s.entries[low + k - 1]]
    <2> DEFINE cut == [k \in 1..(upto - low) |-> s.entries[low + k - 1]]
    <2>1. entries(s, low, high, max) =
            IF upto \in gaps /\ HasSnapshot(s) /\ upto <= s.snap.index
            THEN Compacted ELSE cut
      BY Zenon DEF entries, quota
    <2>2. upto \notin gaps
      BY <1>7
    <2>3. entries(s, low, high, max) = cut
      <3> HIDE DEF cut, gaps, upto
      <3> QED BY <2>1, <2>2
    <2> HIDE DEF upto, n
    <2> QED BY <2>3, <1>8, Zenon
  <1>10. (low + n) - low = n
    BY <1>2, <1>4
  <1>11. entries(s, low, high, max) = read
    BY <1>9, <1>10
  <1>12. MemEntries(m, low, high, max) = want
    BY DEF MemEntries, quota
  <1> HIDE DEF n
  <1>13. ASSUME NEW k \in 1..n
         PROVE  /\ low + k - 1 \in low..(high - 1)
                /\ low - b + k - 1 = low + k - 1 - b
                /\ low - b + k - 1 \in 1..Len(log)
    <2>1. /\ k \in Nat /\ 1 <= k /\ k <= n /\ n <= high - low
          /\ low \in Nat /\ high \in Nat /\ b \in Nat /\ n \in Nat /\ Len(log) \in Nat
      BY <1>1, <1>2, <1>4
    <2> HIDE DEF len, b, log
    <2>2. low <= low + k - 1 /\ low + k - 1 <= high - 1
      BY <2>1
    <2>3. low - b + k - 1 >= 1 /\ low - b + k - 1 <= Len(log)
      BY <1>2, <2>1
    <2> QED BY <2>1, <2>2, <2>3
  <1>14. read \in Seq(Entry) /\ Len(read) = n
    <2>1. ASSUME NEW k \in 1..n PROVE s.entries[low + k - 1] \in Entry
      <3> DEFINE i == low + k - 1
      <3>1. s.entries[low + k - 1] = log[low - b + k - 1]
        <4>1. i \in low..(high - 1) /\ low - b + k - 1 = i - b
          BY <1>13
        <4> HIDE DEF i
        <4>2. s.entries[i] = log[i - b]
          BY <4>1, <1>6
        <4> QED BY <4>1, <4>2 DEF i
      <3> QED BY <3>1, <1>1, <1>13, ElementOfSeq
    <2>2. read \in [1..n -> Entry] /\ DOMAIN read = 1..n
      BY <2>1
    <2> HIDE DEF read
    <2>3. read \in Seq(Entry)
      BY <2>2, <1>4, SeqDef
    <2> QED BY <2>2, <2>3, <1>4, LenProperties
  <1>15. /\ want \in Seq(Entry) /\ Len(want) = n
         /\ \A k \in 1..n : want[k] = log[low - b + k - 1]
    <2> DEFINE from == low - b
               to == low - b + n - 1
    <2>1. from \in Int /\ to \in Int /\ from <= to /\ to - from + 1 = n
          /\ from >= 1 /\ to <= Len(log)
      <3>1. /\ low \in Nat /\ high \in Nat /\ b \in Nat /\ n \in Nat /\ Len(log) \in Nat
            /\ n > 0 /\ n <= high - low
        BY <1>1, <1>2, <1>4
      <3> HIDE DEF len, b, log
      <3> QED BY <1>2, <3>1
    <2> HIDE DEF from, to
    <2>2. \A i \in from..to : log[i] \in Entry
      BY <2>1, <1>1, ElementOfSeq
    <2>3. /\ SubSeq(log, from, to) \in Seq(Entry)
          /\ Len(SubSeq(log, from, to)) = IF from <= to THEN to - from + 1 ELSE 0
          /\ \A i \in 1..(to - from + 1) : SubSeq(log, from, to)[i] = log[from + i - 1]
      BY <2>1, <2>2, SubSeqProperties
    <2>4. want = SubSeq(log, from, to)
      BY DEF from, to
    <2> HIDE DEF want
    <2>5. Len(want) = n /\ \A i \in 1..n : want[i] = log[from + i - 1]
      BY <2>1, <2>3, <2>4
    <2> QED BY <2>3, <2>4, <2>5 DEF from
  <1>16. \A k \in 1..n : read[k] = s.entries[low + k - 1]
    OBVIOUS
  <1> HIDE DEF read, want
  <1>17. \A k \in 1..n : read[k] = want[k]
    <2> TAKE k \in 1..n
    <2> DEFINE i == low + k - 1
    <2>1. i \in low..(high - 1) /\ low - b + k - 1 = i - b
      BY <1>13
    <2>2. read[k] = s.entries[i] /\ want[k] = log[i - b]
      BY <2>1, <1>15, <1>16
    <2> HIDE DEF i
    <2>3. s.entries[i] = log[i - b]
      BY <2>1, <1>6
    <2> QED BY <2>2, <2>3
  <1>18. read = want
    BY <1>14, <1>15, <1>17, SeqEqual
  <1> QED BY <1>11, <1>12, <1>18

(* What the log reads of the two backends (first_index, term, entries) say *)
(* between calls is the same, for logs, batches and limits of any size; the*)
(* last_index of the disk is at least memory's.                            *)
THEOREM LogReadsInterchange == Spec => []LogReadsAgree
  <1>1. Inv /\ Matches => LogReadsAgree
    <2> SUFFICES ASSUME Inv, Matches, ~busy, IsWhole(view)
                 PROVE  /\ first_index(view) = MemFirst(mem)
                        /\ last_index(view) >= MemLast(mem)
                        /\ \A i \in mem.index..MemLast(mem) :
                              term(view, i) = MemTerm(mem, i)
                        /\ \A low \in MemFirst(mem)..MemLast(mem) :
                             \A high \in (low + 1)..(MemLast(mem) + 1), max \in 0..MaxIndex :
                                entries(view, low, high, max)
                                    = MemEntries(mem, low, high, max)
      BY DEF LogReadsAgree
    <2>1. Good(view) /\ view.snap.index \in Nat
      BY BetweenCalls
    <2>2. Agrees(view, mem)
      BY <2>1, MatchesBetweenCalls, WholeIsNotLost
    <2> DEFINE b == mem.index
               log == mem.log
               D == DOMAIN view.entries
    <2>3. /\ HasSnapshot(view) /\ D \subseteq 1..MaxIndex
          /\ b = view.snap.index /\ b \in Nat /\ mem.term = view.snap.term
          /\ log \in Seq(Entry) /\ Len(log) \in Nat
          /\ \A k \in 1..Len(log) :
               b + k \in D /\ view.entries[b + k] = log[k]
      BY <2>1, <2>2, LenProperties DEF Agrees, Good
    <2>4. first_index(view) = MemFirst(mem)
      BY <2>3 DEF first_index, MemFirst
    <2>5. last_index(view) >= MemLast(mem)
      <3>1. CASE D # {}
        <4>1. MaxIndex \in Nat /\ D \subseteq 0..MaxIndex
          BY <2>3, CallConstants
        <4>2. Highest(D) \in D /\ \A j \in D : j <= Highest(D)
          <5> HIDE DEF D
          <5> QED BY <3>1, <4>1, HighestIsGreatest
        <4>3. last_index(view) = Highest(D) /\ last_index(view) \in Nat
          BY <3>1, <4>1, <4>2 DEF last_index
        <4>4. CASE Len(log) = 0
          <5>1. b + 1 \in D \cup {last_index(view) + 1}
            BY <2>4 DEF IsWhole, MemFirst
          <5>2. b + 1 <= last_index(view) + 1
            BY <5>1, <4>2, <4>3, <2>3
          <5> QED BY <5>2, <4>3, <4>4, <2>3 DEF MemLast
        <4>5. CASE Len(log) # 0
          <5>1. b + Len(log) \in D
            BY <4>5, <2>3
          <5> QED BY <5>1, <4>2, <4>3 DEF MemLast
        <4> QED BY <4>4, <4>5
      <3>2. CASE D = {}
        <4>1. Len(log) = 0
          BY <3>2, <2>3
        <4>2. last_index(view) = view.snap.index
          BY <3>2, <2>3 DEF last_index
        <4> QED BY <4>1, <4>2, <2>3 DEF MemLast
      <3> QED BY <3>1, <3>2
    <2>6. ASSUME NEW i \in b..MemLast(mem)
          PROVE  term(view, i) = MemTerm(mem, i)
      <3>1. i \in Nat /\ b <= i /\ i <= b + Len(log)
        BY <2>3 DEF MemLast
      <3>2. CASE i = b
        BY <3>2, <2>3 DEF term, MemTerm
      <3>3. CASE i # b
        <4>1. i - b \in 1..Len(log) /\ b + (i - b) = i /\ ~ (i <= b)
          BY <3>1, <3>3, <2>3
        <4>2. i \in D /\ view.entries[i] = log[i - b]
          BY <4>1, <2>3
        <4>3. term(view, i) = view.entries[i].term
          BY <4>1, <4>2, <3>1, <3>3, <2>3 DEF term
        <4>4. MemTerm(mem, i) = log[i - b].term
          BY <3>3 DEF MemTerm
        <4> QED BY <4>2, <4>3, <4>4
      <3> QED BY <3>2, <3>3
    <2>7. ASSUME NEW low \in MemFirst(mem)..MemLast(mem),
                 NEW high \in (low + 1)..(MemLast(mem) + 1), NEW max \in 0..MaxIndex
          PROVE  entries(view, low, high, max) = MemEntries(mem, low, high, max)
      <3>1. max \in Nat /\ mem.index \in Nat
        BY <2>3, CallConstants
      <3> QED BY <3>1, <2>2, SameEntries
    <2> QED BY <2>4, <2>5, <2>6, <2>7
  <1>2. Spec => [](Inv /\ Matches)
    BY InitEstablishes, NextPreserves, MatchesInit, MatchesNext, PTL DEF Spec
  <1> QED BY <1>1, <1>2, PTL

----------------------------------------------------------------------------
(* What a restart of the core would be told: initial_state of the store    *)
(* the running call ends with, and MemStorage's raft_state after it.       *)

(* Memory's hard state is ahead, because a snapshot has raised it.         *)
Raised(s, hs) ==
    /\ s.hs.commit < s.snap.index /\ hs.commit = s.snap.index
    /\ s.hs.term <= hs.term /\ s.snap.term <= hs.term
    /\ s.hs.vote = hs.vote

SameState(s, r) ==
    /\ r.hard_state \in HardState
    /\ s.conf = r.conf_state
    /\ s.hs = r.hard_state \/ Raised(s, r.hard_state)

StateMatches == SameState(Final, raft_state)

(* A call that starts: it is enough to look at the last store it writes.   *)
LEMMA StartState ==
    ASSUME NEW q, StartCall(q), q # << >>, SameState(q[Len(q)], raft_state')
    PROVE  StateMatches'
  <1>1. Final' = q[Len(q)]
    BY DEF StartCall, Final
  <1> QED BY <1>1 DEF StateMatches, SameState, Raised

(* append, compact and set_applied_index touch neither state.              *)
LEMMA StateUntouched ==
    ASSUME Inv, StateMatches, NEW q, StartCall(q), q # << >>,
           q[Len(q)].hs = view.hs, q[Len(q)].conf = view.conf,
           q[Len(q)].snap = view.snap, raft_state' = raft_state
    PROVE  StateMatches'
  <1>1. Final = view
    BY DEF StartCall, Inv, Final
  <1>2. SameState(q[Len(q)], raft_state')
    BY <1>1 DEF StateMatches, SameState, Raised
  <1> QED BY <1>2, StartState

LEMMA AppendState ==
    ASSUME Inv, StateMatches, CallAppend
    PROVE  StateMatches'
  <1>1. PICK base \in Committed..last_index(view), es \in Batches :
            /\ base >= first_index(view) - 1
            /\ append(base, es)
            /\ raft_state' = raft_state
    BY DEF CallAppend
  <1> DEFINE q == append_writes(view, base, es)
  <1>2. ~busy /\ StartCall(q)
    BY <1>1 DEF append, StartCall
  <1>3. Good(view) /\ view.snap.index \in Nat /\ view.hs.commit \in Nat
    BY <1>2, BetweenCalls
  <1>4. base \in Nat
    BY <1>1, <1>3 DEF Committed, first_index, Good
  <1>5. PICK k \in 1..MaxBatch : es \in [1..k -> [term : 1..MaxTerm, payload : Payload]]
    BY DEF Batches
  <1>6. es \in Seq(Entry) /\ Len(es) \in Nat \ {0}
    <2>1. k \in Nat \ {0} /\ es \in [1..k -> Entry]
      BY <1>5, CallConstants DEF Entry
    <2>2. es \in Seq(Entry)
      BY <2>1, SeqDef
    <2> QED BY <2>1, <2>2, LenProperties
  <1>7. /\ q \in Seq(Contents(q)) /\ Len(q) = Len(es)
        /\ \A j \in 1..Len(es) :
             q[j].snap = view.snap /\ q[j].hs = view.hs /\ q[j].conf = view.conf
    <2>1. IsStore(view) /\ base \in Nat /\ es \in Seq(Entry)
      BY <1>3, <1>4, <1>6 DEF Good
    <2> QED BY <2>1, AppendWrites, Zenon
  <1> HIDE DEF q
  <1>8. /\ q # << >> /\ q[Len(q)].snap = view.snap
        /\ q[Len(q)].hs = view.hs /\ q[Len(q)].conf = view.conf
    BY <1>6, <1>7
  <1> QED BY <1>1, <1>2, <1>8, StateUntouched

LEMMA CompactState ==
    ASSUME Inv, StateMatches, CallCompact
    PROVE  StateMatches'
  <1>1. PICK i \in 1..Committed : compact(i) /\ raft_state' = raft_state
    BY DEF CallCompact
  <1> DEFINE q == removal_writes(view, i)
  <1>2. ~busy /\ StartCall(q)
    BY <1>1 DEF compact, StartCall
  <1>3. IsStore(view) /\ view.hs.commit \in Nat
    BY <1>2, BetweenCalls DEF Good
  <1>4. i \in Nat \ {0}
    BY <1>3 DEF Committed
  <1>5. /\ q \in Seq(Contents(q)) /\ Len(q) = i
        /\ \A k \in 1..i :
             q[k].snap = view.snap /\ q[k].hs = view.hs /\ q[k].conf = view.conf
    <2>1. i \in Nat
      BY <1>4
    <2> QED BY <2>1, <1>3, RemovalWrites, Zenon
  <1> HIDE DEF q
  <1>6. /\ q # << >> /\ q[Len(q)].snap = view.snap
        /\ q[Len(q)].hs = view.hs /\ q[Len(q)].conf = view.conf
    BY <1>4, <1>5
  <1> QED BY <1>1, <1>2, <1>6, StateUntouched

(* The snapshot lies behind the commit index of the store it is put into,  *)
(* whose hard state stays: memory's is the raised one.                     *)
LEMMA SnapshotState ==
    ASSUME Inv, StateMatches, CallApplySnapshot
    PROVE  StateMatches'
  <1>1. PICK i \in 1..MaxIndex, t \in 1..MaxTerm, c \in Confs, d \in SnapData :
            /\ i > Committed
            /\ apply_snapshot([index |-> i, term |-> t, conf |-> c, data |-> d])
            /\ raft_state' = MemRaised(raft_state, [index |-> i, term |-> t,
                                                   conf |-> c, data |-> d])
    BY DEF CallApplySnapshot
  <1> DEFINE snapshot == [index |-> i, term |-> t, conf |-> c, data |-> d]
             q == apply_snapshot_writes(view, snapshot)
             x == q[Len(q)]
             old == raft_state.hard_state
             new == raft_state'.hard_state
  <1>2. ~busy /\ StartCall(q)
    BY <1>1 DEF apply_snapshot, StartCall
  <1>3. IsStore(view) /\ view.hs \in HardState /\ Final = view
    BY <1>2, BetweenCalls DEF Good, IsStore, Inv, Final
  <1>4. /\ snapshot \in Snapshot /\ snapshot.index \in Nat /\ snapshot.term \in Nat
        /\ snapshot.index > view.hs.commit
    BY <1>1, CallConstants DEF Snapshot, Committed
  <1>5. /\ new = [term |-> IF old.term < snapshot.term THEN snapshot.term
                           ELSE old.term,
                  vote |-> old.vote, commit |-> snapshot.index]
        /\ raft_state'.conf_state = snapshot.conf
    BY <1>1 DEF MemRaised
  <1> HIDE DEF snapshot
  <1>6. /\ q \in Seq(Contents(q)) /\ q # << >>
        /\ \A y \in Contents(q) : y.snap = snapshot /\ y.hs = view.hs
        /\ x.conf = snapshot.conf
    BY <1>3, <1>4, SnapshotWrites, Zenon
  <1> HIDE DEF q
  <1>7. x.snap = snapshot /\ x.hs = view.hs
    <2>1. Len(q) \in Nat \ {0} /\ DOMAIN q = 1..Len(q)
      BY <1>6, EmptySeq, LenProperties
    <2> QED BY <2>1, <1>6 DEF Contents
  <1> HIDE DEF x
  <1>8. /\ old \in HardState /\ view.hs.term <= old.term /\ view.hs.vote = old.vote
    BY <1>3 DEF StateMatches, SameState, Raised, HardState
  <1>9. new \in HardState /\ Raised(x, new)
    <2> HIDE DEF new, old
    <2> QED BY <1>3, <1>4, <1>5, <1>7, <1>8 DEF HardState, Raised
  <1>10. SameState(x, raft_state')
    BY <1>5, <1>6, <1>9 DEF SameState
  <1> QED BY <1>2, <1>6, <1>10, StartState DEF x

(* The calls that write one key of the meta tree.                          *)
LEMMA MetaState ==
    ASSUME Inv, StateMatches,
           CallSetHardState \/ CallSetConfState \/ CallSetAppliedIndex
    PROVE  StateMatches'
  <1>1. ~busy
    BY DEF CallSetHardState, CallSetConfState, CallSetAppliedIndex, set_hardstate,
           set_conf_state, set_applied_index, StartCall
  <1>2. /\ DOMAIN view = {"entries", "snap", "hs", "conf", "applied"}
        /\ view.hs \in HardState /\ Good(view) /\ Final = view
        /\ view.snap.index \in Nat
    BY <1>1, BetweenCalls DEF Good, IsStore, Inv, Final
  <1>3. CASE CallSetHardState
    <2>1. PICK t \in view.hs.term..MaxTerm, c \in Committed..last_index(view) :
             /\ set_hardstate([term |-> t, vote |-> 0, commit |-> c])
             /\ raft_state' = [hard_state |-> [term |-> t, vote |-> 0, commit |-> c],
                               conf_state |-> raft_state.conf_state]
      BY <1>3 DEF CallSetHardState
    <2> DEFINE hs == [term |-> t, vote |-> 0, commit |-> c]
               x == [view EXCEPT !.hs = hs]
               q == <<x>>
    <2>2. hs \in HardState
      BY <1>2 DEF HardState, Committed
    <2>3. x.hs = hs /\ x.conf = view.conf
      BY <1>2
    <2>4. /\ raft_state'.hard_state = hs
          /\ raft_state'.conf_state = raft_state.conf_state
      BY <2>1
    <2>5. StartCall(q)
      BY <2>1 DEF set_hardstate
    <2> HIDE DEF x, hs
    <2>6. SameState(x, raft_state')
      BY <1>2, <2>2, <2>3, <2>4 DEF StateMatches, SameState
    <2>7. q # << >> /\ q[Len(q)] = x
      OBVIOUS
    <2> HIDE DEF q
    <2> QED BY <2>5, <2>6, <2>7, StartState
  <1>4. CASE CallSetConfState
    <2>1. PICK c \in Confs :
             /\ set_conf_state(c)
             /\ raft_state' = [hard_state |-> raft_state.hard_state, conf_state |-> c]
      BY <1>4 DEF CallSetConfState
    <2> DEFINE x == [view EXCEPT !.conf = c]
               q == <<x>>
    <2>2. x.hs = view.hs /\ x.snap = view.snap /\ x.conf = c
      BY <1>2
    <2>3. /\ raft_state'.hard_state = raft_state.hard_state
          /\ raft_state'.conf_state = c
      BY <2>1
    <2>4. StartCall(q)
      BY <2>1 DEF set_conf_state
    <2> HIDE DEF x
    <2>5. SameState(x, raft_state')
      BY <1>2, <2>2, <2>3 DEF StateMatches, SameState, Raised
    <2>6. q # << >> /\ q[Len(q)] = x
      OBVIOUS
    <2> HIDE DEF q
    <2> QED BY <2>4, <2>5, <2>6, StartState
  <1>5. CASE CallSetAppliedIndex
    <2>1. PICK i \in 0..Committed : set_applied_index(i) /\ raft_state' = raft_state
      BY <1>5 DEF CallSetAppliedIndex
    <2> DEFINE x == [view EXCEPT !.applied = i]
               q == <<x>>
    <2>2. x.hs = view.hs /\ x.snap = view.snap /\ x.conf = view.conf
      BY <1>2
    <2>3. StartCall(q)
      BY <2>1 DEF set_applied_index
    <2> HIDE DEF x
    <2>4. q # << >> /\ q[Len(q)] = x
      OBVIOUS
    <2> HIDE DEF q
    <2> QED BY <2>1, <2>2, <2>3, <2>4, StateUntouched
  <1> QED BY <1>3, <1>4, <1>5

LEMMA StateInit == CallInit => StateMatches
  <1> SUFFICES ASSUME CallInit PROVE StateMatches
    OBVIOUS
  <1>1. PICK c \in Confs : view = NewStore(c)
    BY DEF CallInit
  <1>2. view.hs = NoHardState
    BY <1>1 DEF NewStore, EmptyStore
  <1>3. NoHardState \in HardState
    BY DEF NoHardState, HardState
  <1>4. Final = view /\ raft_state = initial_state(view)
    BY DEF CallInit, Final
  <1>5. raft_state.hard_state = view.hs /\ raft_state.conf_state = view.conf
    BY <1>4 DEF initial_state
  <1> QED BY <1>2, <1>3, <1>4, <1>5 DEF StateMatches, SameState

LEMMA StateNext == Inv /\ StateMatches /\ [Next]_vars => StateMatches'
  <1> SUFFICES ASSUME Inv, StateMatches, [Next]_vars PROVE StateMatches'
    OBVIOUS
  <1>1. CASE CallAppend
    BY <1>1, AppendState
  <1>2. CASE CallSetHardState \/ CallSetConfState \/ CallSetAppliedIndex
    BY <1>2, MetaState
  <1>3. CASE CallApplySnapshot
    BY <1>3, SnapshotState
  <1>4. CASE CallCompact
    BY <1>4, CompactState
  <1>5. CASE CallStep
    <2>1. /\ todo # << >> /\ view' = Head(todo) /\ todo' = Tail(todo)
          /\ raft_state' = raft_state /\ todo \in Seq(Contents(todo))
      BY <1>5 DEF CallStep, Write, ghostVars, Inv
    <2>2. /\ Tail(todo) = << >> => Head(todo) = todo[Len(todo)]
          /\ Tail(todo) # << >> => Tail(todo)[Len(Tail(todo))] = todo[Len(todo)]
      BY <2>1, TailContents
    <2>3. Final' = Final
      BY <2>1, <2>2 DEF Final
    <2> QED BY <2>1, <2>3 DEF StateMatches, SameState, Raised
  <1>6. CASE CallReturn
    BY <1>6 DEF CallReturn, Flush, StateMatches, SameState, Raised, Final
  <1>7. CASE CallBackground
    BY <1>7 DEF CallBackground, BackgroundFlush, ghostVars, StateMatches, SameState,
                Raised, Final
  <1>8. CASE Crash
    <2>1. view' = disk /\ todo' = << >> /\ raft_state' = initial_state(disk)
      BY <1>8 DEF Crash, Reopen
    <2>2. disk.hs \in HardState
      BY DEF Inv, Stores, Good, IsStore
    <2>3. Final' = disk
      BY <2>1 DEF Final
    <2>4. raft_state'.hard_state = disk.hs /\ raft_state'.conf_state = disk.conf
      BY <2>1 DEF initial_state
    <2>5. SameState(disk, raft_state')
      BY <2>2, <2>4 DEF SameState
    <2> QED BY <2>3, <2>5 DEF StateMatches, SameState, Raised
  <1>9. CASE UNCHANGED vars
    BY <1>9 DEF vars, storageVars, ghostVars, StateMatches, SameState, Raised, Final
  <1> QED BY <1>1, <1>2, <1>3, <1>4, <1>5, <1>6, <1>7, <1>8, <1>9 DEF Next

(* Between calls a restart reads from the disk the configuration and the   *)
(* hard state MemStorage would give, unless a snapshot was applied and no  *)
(* hard state stored since: then the votes agree, and memory's commit      *)
(* index is the snapshot's while the disk's lies before it.                *)
THEOREM InitialStateInterchange == Spec => []InitialStateAgrees
  <1>1. Inv /\ StateMatches => InitialStateAgrees
    <2> SUFFICES ASSUME Inv, StateMatches, ~busy
                 PROVE  /\ view.conf = raft_state.conf_state
                        /\ \/ view.hs = raft_state.hard_state
                           \/ Raised(view, raft_state.hard_state)
      BY DEF InitialStateAgrees, Raised
    <2>1. Final = view
      BY DEF Inv, Final
    <2> QED BY <2>1 DEF StateMatches, SameState
  <1>2. Spec => [](Inv /\ StateMatches)
    BY InitEstablishes, NextPreserves, StateInit, StateNext, PTL DEF Spec
  <1> QED BY <1>1, <1>2, PTL

=============================================================================
