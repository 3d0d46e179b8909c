-------------------------- MODULE ReadyLoopProofs --------------------------
(***************************************************************************)
(* What a server has told the others about its votes and its leadership    *)
(* is on disk, for any number of servers, terms, entries and crashes.      *)
(*                                                                         *)
(* The hard state passes through four places: the core's own, the one last *)
(* handed out in a Ready, the one reads of the store see, the one on disk. *)
(* None of them may take back what a later one has (Yields), and which of  *)
(* them agree depends on how far process_ready has come (Handed).  A       *)
(* message waits in one of three: in the core, in the Ready, with the      *)
(* transport (Backed).                                                     *)
(***************************************************************************)
EXTENDS ReadyLoop, DiskStorageLemmas

Inputs == {"input", "tick", "ready"}
Storing == {"snapshot", "restore", "append", "hardstate"}
Outside == {"open", "new", "panicked", "stopped"}

\* Types, with the bound on indices that makes the last key of a tree exist.
Bounded(s) ==
    /\ IsStore(s)
    /\ \A i \in DOMAIN s.entries : 1 <= i /\ i <= MaxIndex
    /\ s.snap # NoSnapshot => s.snap.index <= MaxIndex

Batch(b) == b \in Seq(Contents(b)) /\ \A k \in DOMAIN b : b[k].index \in Nat

StoreShape ==
    /\ Bounded(view) /\ Bounded(disk) /\ busy \in BOOLEAN
    /\ todo \in Seq(Contents(todo)) /\ \A k \in DOMAIN todo : Bounded(todo[k])

CoreShape ==
    /\ hs \in HardState /\ prev_hs \in HardState
    /\ unstable \in Seq(Entry) /\ offset \in Nat \ {0}
    /\ offset + Len(unstable) <= MaxIndex + 1
    /\ usnap \in Snapshot \cup {NoSnapshot}
    /\ usnap # NoSnapshot => usnap.index <= MaxIndex
    /\ persisted \in Nat /\ since \in Nat
    /\ pc \in Outside => unstable = << >> /\ role = "Follower"

ReadyShape ==
    /\ pc \in Pcs
    /\ rd.hs \in HardState /\ rd.has_hs \in BOOLEAN
    /\ rd.ents \in Seq(Entry) /\ rd.base \in Nat
    /\ rd.base + Len(rd.ents) <= MaxIndex
    /\ rd.snap \in Snapshot \cup {NoSnapshot}
    /\ rd.snap # NoSnapshot => rd.snap.index <= MaxIndex
    /\ pc \in {"snapshot", "restore"} => rd.snap # NoSnapshot
    /\ Batch(batch) /\ Batch(rd.committed)

Shape == StoreShape /\ CoreShape /\ ReadyShape

\* b keeps the term and the vote of a, or has a later term.
Yields(a, b) ==
    b.term > a.term \/ (b.term = a.term /\ (a.vote = 0 \/ b.vote = a.vote))

SameVote(a, b) == a.term = b.term /\ a.vote = b.vote

\* A message binds this server to a vote for someone.
Binding(m) == m.type \in {"vote", "lead"}
Named(m) == Binding(m) => m.term \in Nat /\ m.arg # 0

\* What the store holds of the hard state.
HsWritten ==
    /\ Yields(disk.hs, view.hs)
    /\ ~busy => disk = view /\ todo = << >>
    /\ \A k \in DOMAIN todo :
            todo[k].hs = IF pc = "persisted" /\ rd.has_hs THEN rd.hs ELSE view.hs

\* Where the four hard states agree.
Handed ==
    /\ pc \in Inputs \cup Storing => SameVote(view.hs, prev_hs) /\ Yields(prev_hs, hs)
    /\ pc \in Storing \cup {"persisted", "apply"} =>
            rd.hs = hs /\ rd.has_hs = (hs # prev_hs)
    /\ pc = "hardstate" => rd.has_hs
    /\ pc = "persisted" =>
            IF rd.has_hs THEN Yields(view.hs, hs) /\ (todo # << >> \/ SameVote(view.hs, hs))
            ELSE SameVote(view.hs, hs)
    /\ pc \in {"apply", "light"} => SameVote(view.hs, hs)
    /\ pc = "light" => prev_hs = hs

\* What a role stands for.
Elected ==
    /\ role \in {"Leader", "Candidate"} => hs.vote = Self
    /\ role = "Leader" /\ Peers # {} => Covers(disk.hs, Leads(hs.term))
    /\ Peers = {} => role \notin {"PreCandidate", "Candidate"} /\ msgs = {}

\* Every message is backed by a hard state where it waits.
Queued ==
    /\ \A m \in msgs : Named(m) /\ (Binding(m) => Covers(hs, m))
    /\ \A m \in msgs : role = "Leader" /\ Binding(m) => Covers(disk.hs, m)

Backed ==
    /\ Queued
    /\ pc \notin {"tick", "ready"} => msgs = {}
    /\ \A m \in sent : Named(m)
    /\ pc \in Storing \cup {"persisted"} =>
            \A m \in rd.persisted_msgs : Named(m) /\ (Binding(m) => Covers(hs, m))
    /\ VotesDurable

Kept == HsWritten /\ Handed /\ Elected /\ Backed

Inv == Shape /\ Kept

----------------------------------------------------------------------------
(* Hard states                                                             *)

\* A hard state yields to itself.
LEMMA YieldsIsReflexive == \A a \in HardState : Yields(a, a)
  BY DEF Yields, HardState

\* Yielding passes along a chain of hard states.
LEMMA YieldsIsTransitive ==
    \A a, b, c \in HardState : Yields(a, b) /\ Yields(b, c) => Yields(a, c)
  BY DEF Yields, HardState

\* Hard states with the same term and vote stand for each other.
LEMMA SameYields ==
    \A a, b, c \in HardState :
        /\ SameVote(a, b) => Yields(a, b)
        /\ SameVote(a, b) /\ Yields(b, c) => Yields(a, c)
        /\ Yields(a, b) /\ SameVote(b, c) => Yields(a, c)
  BY DEF Yields, SameVote, HardState

\* Whatever a hard state covers is covered by every later one.
LEMMA CoversStays ==
    ASSUME NEW a \in HardState, NEW b \in HardState, Yields(a, b),
           NEW m, Named(m), Binding(m), Covers(a, m)
    PROVE  Covers(b, m)
  BY DEF Yields, Covers, Named, HardState

----------------------------------------------------------------------------
(* Indices                                                                 *)

\* The lowest element of a set of indices belongs to it.
LEMMA LowestIsNat ==
    ASSUME NEW S, S \subseteq Nat, S # {} PROVE Lowest(S) \in S
  <1>1. PICK n \in S : \A y \in S : ~ (<<y, n>> \in OpToRel(<, Nat))
    BY NatLessThanWellFounded, WFMin
  <1>2. \A y \in S : n <= y
    <2> SUFFICES ASSUME NEW y \in S PROVE n <= y
      OBVIOUS
    <2>1. y \in Nat /\ n \in Nat
      OBVIOUS
    <2>2. ~(y < n)
      BY <1>1, <2>1 DEF OpToRel
    <2> QED BY <2>1, <2>2
  <1>3. \E i \in S : \A j \in S : i <= j
    BY <1>2
  <1> QED BY <1>3 DEF Lowest

\* The first index of a store is never 0.
LEMMA FirstIsNat ==
    ASSUME NEW s, Bounded(s) PROVE first_index(s) \in Nat \ {0}
  <1>1. CASE HasSnapshot(s)
    BY <1>1 DEF Bounded, IsStore, first_index, HasSnapshot, Snapshot
  <1>2. CASE ~HasSnapshot(s) /\ DOMAIN s.entries # {}
    <2>1. Lowest(DOMAIN s.entries) \in DOMAIN s.entries
      BY <1>2, LowestIsNat DEF Bounded, IsStore
    <2> QED BY <1>2, <2>1 DEF Bounded, IsStore, first_index
  <1>3. CASE ~HasSnapshot(s) /\ DOMAIN s.entries = {}
    BY <1>3 DEF first_index
  <1> QED BY <1>1, <1>2, <1>3

\* The last index of a store keeps the bound of its entries.
LEMMA LastIsBounded ==
    ASSUME NEW s, Bounded(s) PROVE last_index(s) \in 0..MaxIndex
  <1>1. CASE DOMAIN s.entries # {}
    <2> DEFINE S == DOMAIN s.entries
    <2>1. S \subseteq 0..MaxIndex /\ MaxIndex \in Nat
      BY LoopConstants DEF Bounded, IsStore
    <2>2. Highest(S) \in S
      BY <1>1, <2>1, HighestIsGreatest
    <2> QED BY <1>1, <2>1, <2>2 DEF last_index
  <1>2. CASE DOMAIN s.entries = {}
    BY <1>2, LoopConstants DEF last_index, Bounded, IsStore, HasSnapshot, Snapshot
  <1> QED BY <1>1, <1>2

\* So does the last index of the core's log.
LEMMA CoreLastIsBounded ==
    ASSUME Shape PROVE CoreLast \in 0..MaxIndex
  <1>1. /\ unstable \in Seq(Entry) /\ offset \in Nat \ {0} /\ MaxIndex \in Nat
        /\ offset + Len(unstable) <= MaxIndex + 1
    BY LoopConstants DEF Shape, CoreShape
  <1>2. CASE unstable # << >>
    <2>1. Len(unstable) \in Nat \ {0}
      BY <1>1, <1>2
    <2> QED BY <1>1, <1>2, <2>1 DEF CoreLast
  <1>3. CASE unstable = << >> /\ usnap # NoSnapshot
    BY <1>1, <1>3 DEF CoreLast, Shape, CoreShape, Snapshot
  <1>4. CASE unstable = << >> /\ usnap = NoSnapshot
    BY <1>4, LastIsBounded DEF CoreLast, Shape, StoreShape
  <1> QED BY <1>2, <1>3, <1>4

\* Entries that follow on leave the unstable log well-formed.
LEMMA TruncateShape ==
    ASSUME CoreShape, NEW first \in Nat \ {0}, NEW es \in Seq(Entry),
           first + Len(es) <= MaxIndex + 1, TruncateAndAppend(first, es)
    PROVE  /\ unstable' \in Seq(Entry) /\ offset' \in Nat \ {0}
           /\ offset' + Len(unstable') <= MaxIndex + 1
  <1>1. unstable \in Seq(Entry) /\ offset \in Nat \ {0} /\ Len(unstable) \in Nat
        /\ Len(es) \in Nat
    BY DEF CoreShape
  <1>2. CASE first > offset
    <2> DEFINE n == first - offset
               kept == SubSeq(unstable, 1, n)
    <2>1. first <= offset + Len(unstable) /\ n \in Nat /\ n <= Len(unstable) /\ 1 <= n
      BY <1>1, <1>2 DEF TruncateAndAppend
    <2>2. \A i \in 1..n : unstable[i] \in Entry
      BY <1>1, <2>1
    <2>3. kept \in Seq(Entry) /\ Len(kept) = n
      <3> HIDE DEF n
      <3> QED BY <2>1, <2>2, SubSeqProperties
    <2>4. kept \o es \in Seq(Entry) /\ Len(kept \o es) = n + Len(es)
      <3> HIDE DEF kept, n
      <3> QED BY <2>3, ConcatProperties
    <2>5. unstable' = kept \o es /\ offset' = offset
      BY <1>2 DEF TruncateAndAppend
    <2> QED BY <1>1, <2>1, <2>4, <2>5
  <1>3. CASE ~(first > offset)
    BY <1>1, <1>3 DEF TruncateAndAppend
  <1> QED BY <1>2, <1>3

\* What the core hands out as committed is a well-formed batch.
LEMMA NextEntriesBatch ==
    ASSUME NEW s, Bounded(s), NEW last \in Nat, NEW from \in Nat, NEW n \in Nat
    PROVE  /\ Batch(NextEntries(last, s, from))
           /\ LastOf(NextEntries(last, s, from), n) \in Nat
  <1> DEFINE low == Greater(from + 1, first_index(s))
             k == IF last < low THEN 0 ELSE last - low + 1
             b == NextEntries(last, s, from)
  <1>1. low \in Nat /\ k \in Nat
    <2>1. first_index(s) \in Nat
      BY FirstIsNat
    <2> QED BY <2>1 DEF Greater
  <1>2. b = [i \in 1..k |-> [index |-> low + i - 1, entry |-> s.entries[low + i - 1]]]
    BY DEF NextEntries
  <1> HIDE DEF low, k, b
  <1>3. DOMAIN b = 1..k /\ \A i \in 1..k : b[i].index = low + i - 1
    BY <1>2
  <1>4. b = [i \in 1..k |-> b[i]]
    BY <1>2
  <1>5. b \in Seq(Contents(b)) /\ Len(b) = k
    BY <1>1, <1>4, FunctionContents
  <1>6. Batch(b)
    BY <1>1, <1>3, <1>5 DEF Batch
  <1>7. LastOf(b, n) \in Nat
    <2>1. CASE b = << >>
      BY <2>1 DEF LastOf
    <2>2. CASE b # << >>
      <3>1. k # 0
        BY <1>5, <2>2, EmptySeq
      <3>2. k \in 1..k
        BY <1>1, <3>1
      <3> QED BY <1>1, <1>3, <1>5, <2>2, <3>2 DEF LastOf
    <2> QED BY <2>1, <2>2
  <1> QED BY <1>6, <1>7 DEF b

----------------------------------------------------------------------------
(* Storage calls: what they keep of types and hard states.                 *)

\* A call leaves the visible and the durable store alone until it writes.
CallShape(h) ==
    /\ StoreShape' /\ ~busy /\ busy' /\ UNCHANGED <<view, disk>>
    /\ \A k \in DOMAIN todo' : todo'[k].hs = h

\* A call whose stores are bounded and carry the hard state h has CallShape.
LEMMA CallStarts ==
    ASSUME StoreShape, NEW h, NEW q, q \in Seq(Contents(q)), StartCall(q),
           \A x \in Contents(q) : Bounded(x) /\ x.hs = h
    PROVE  CallShape(h)
  <1>1. ~busy /\ busy' = TRUE /\ todo' = q /\ UNCHANGED <<view, disk>>
    BY DEF StartCall
  <1>2. \A k \in DOMAIN q : q[k] \in Contents(q)
    BY DEF Contents
  <1>3. \A k \in DOMAIN todo' : Bounded(todo'[k]) /\ todo'[k].hs = h
    BY <1>1, <1>2
  <1>4. todo' \in Seq(Contents(todo'))
    BY <1>1
  <1>5. StoreShape'
    BY <1>1, <1>3, <1>4 DEF StoreShape, Bounded
  <1> QED BY <1>1, <1>3, <1>5 DEF CallShape

\* A call of one write.
LEMMA SingleCall ==
    ASSUME StoreShape, NEW x, Bounded(x), StartCall(<<x>>)
    PROVE  CallShape(x.hs) /\ todo' # << >>
  <1> DEFINE q == <<x>>
  <1>1. q \in Seq(Contents(q)) /\ Contents(q) = {x} /\ q # << >>
    BY DEF Contents
  <1>2. todo' = q
    BY DEF StartCall
  <1> HIDE DEF q
  <1>3. StartCall(q)
    BY DEF q
  <1> QED BY <1>1, <1>2, <1>3, CallStarts

\* set_hard_state leaves its argument behind.
LEMMA HardStateCall ==
    ASSUME StoreShape, NEW h \in HardState, set_hardstate(h)
    PROVE  CallShape(h) /\ todo' # << >>
  <1> DEFINE x == [view EXCEPT !.hs = h]
  <1>1. IsStore(view) /\ Bounded(view)
    BY DEF StoreShape, Bounded
  <1>2. DOMAIN x = DOMAIN view /\ x.hs = h /\ x.entries = view.entries
        /\ x.snap = view.snap /\ x.conf = view.conf /\ x.applied = view.applied
    BY <1>1 DEF IsStore
  <1>3. StartCall(<<x>>)
    BY DEF set_hardstate
  <1> HIDE DEF x
  <1>4. Bounded(x)
    BY <1>1, <1>2 DEF Bounded, IsStore
  <1> QED BY <1>2, <1>3, <1>4, SingleCall

\* set_applied_index keeps the hard state.
LEMMA AppliedCall ==
    ASSUME StoreShape, NEW i \in Nat, set_applied_index(i)
    PROVE  CallShape(view.hs)
  <1> DEFINE x == [view EXCEPT !.applied = i]
  <1>1. IsStore(view) /\ Bounded(view)
    BY DEF StoreShape, Bounded
  <1>2. DOMAIN x = DOMAIN view /\ x.hs = view.hs /\ x.entries = view.entries
        /\ x.snap = view.snap /\ x.conf = view.conf /\ x.applied = i
    BY <1>1 DEF IsStore
  <1>3. StartCall(<<x>>)
    BY DEF set_applied_index
  <1> HIDE DEF x
  <1>4. Bounded(x)
    BY <1>1, <1>2 DEF Bounded, IsStore
  <1> QED BY <1>2, <1>3, <1>4, SingleCall

\* append keeps the hard state.
LEMMA AppendCall ==
    ASSUME StoreShape, NEW base \in Nat, NEW es \in Seq(Entry),
           base + Len(es) <= MaxIndex, append(base, es)
    PROVE  CallShape(view.hs)
  <1> DEFINE q == append_writes(view, base, es)
  <1>1. IsStore(view) /\ Bounded(view) /\ Len(es) \in Nat /\ MaxIndex \in Nat
    BY LoopConstants DEF StoreShape, Bounded
  <1>2. /\ q \in Seq(Contents(q)) /\ Contents(q) = {q[k] : k \in 1..Len(es)}
        /\ \A k \in 1..Len(es) :
              /\ IsStore(q[k])
              /\ q[k].entries = InsertFirst(view.entries, base, es, k)
              /\ q[k].snap = view.snap /\ q[k].hs = view.hs
    <2>1. IsStore(view) /\ base \in Nat /\ es \in Seq(Entry)
      BY <1>1
    <2>2. /\ q \in Seq(Contents(q)) /\ Len(q) = Len(es)
          /\ Contents(q) = {q[k] : k \in 1..Len(es)}
          /\ \A k \in 1..Len(es) :
                /\ IsStore(q[k])
                /\ q[k].entries = InsertFirst(view.entries, base, es, k)
                /\ q[k].snap = view.snap /\ q[k].hs = view.hs
                /\ q[k].conf = view.conf /\ q[k].applied = view.applied
      BY <2>1, AppendWrites, Zenon
    <2> HIDE DEF q
    <2> QED BY <2>2, Zenon
  <1> HIDE DEF q
  <1>3. ASSUME NEW k \in 1..Len(es) PROVE Bounded(q[k]) /\ q[k].hs = view.hs
    <2>1. DOMAIN q[k].entries = DOMAIN view.entries \cup (base + 1)..(base + k)
      <3>1. q[k].entries = InsertFirst(view.entries, base, es, k)
        BY <1>2
      <3> QED BY <3>1 DEF InsertFirst
    <2>2. \A i \in (base + 1)..(base + k) : 1 <= i /\ i <= MaxIndex
      BY <1>1
    <2> QED BY <1>1, <1>2, <2>1, <2>2 DEF Bounded
  <1>4. StartCall(q)
    BY DEF append, q
  <1>5. \A x \in Contents(q) : Bounded(x) /\ x.hs = view.hs
    BY <1>2, <1>3
  <1> QED BY <1>2, <1>4, <1>5, CallStarts

\* apply_snapshot keeps the hard state.
LEMMA SnapshotCall ==
    ASSUME StoreShape, NEW s \in Snapshot, s.index <= MaxIndex, apply_snapshot(s)
    PROVE  CallShape(view.hs)
  <1> DEFINE q == apply_snapshot_writes(view, s)
  <1>1. IsStore(view) /\ Bounded(view)
    BY DEF StoreShape, Bounded
  <1>2. /\ q \in Seq(Contents(q))
        /\ \A x \in Contents(q) :
              /\ IsStore(x) /\ IsTail(x.entries, view.entries, s.index)
              /\ x.snap = s /\ x.hs = view.hs
    BY <1>1, SnapshotWrites
  <1> HIDE DEF q
  <1>3. \A x \in Contents(q) : Bounded(x) /\ x.hs = view.hs
    BY <1>1, <1>2 DEF Bounded, IsTail
  <1>4. StartCall(q)
    BY DEF apply_snapshot, q
  <1> QED BY <1>2, <1>3, <1>4, CallStarts

\* One write, the flush, or sled's own.
LEMMA StepShape ==
    ASSUME StoreShape, StorageStep
    PROVE  /\ StoreShape'
           /\ \/ UNCHANGED <<view, disk, todo>>
              \/ /\ todo # << >> /\ view' = todo[1] /\ 1 \in DOMAIN todo
                 /\ UNCHANGED <<disk, busy>> /\ busy
                 /\ \A k \in DOMAIN todo' : \E j \in DOMAIN todo : todo'[k] = todo[j]
              \/ disk' = view /\ UNCHANGED <<view, todo>> /\ (busy' = busy \/ todo = << >>)
           /\ ~busy' => ~busy \/ (disk' = view' /\ todo' = << >>)
  <1>1. CASE Write
    <2>1. /\ todo # << >> /\ view' = Head(todo) /\ todo' = Tail(todo)
          /\ UNCHANGED <<disk, busy>> /\ busy
      BY <1>1 DEF Write
    <2>2. PICK S : S = Contents(todo)
      OBVIOUS
    <2>3. todo \in Seq(S)
      BY <2>2 DEF StoreShape
    <2>4. Head(todo) = todo[1] /\ 1 \in DOMAIN todo
          /\ \A k \in DOMAIN Tail(todo) : k + 1 \in DOMAIN todo /\ Tail(todo)[k] = todo[k + 1]
      BY <2>1, <2>3
    <2>5. todo' \in Seq(Contents(todo'))
      BY <2>1, TailContents DEF StoreShape
    <2>6. \A k \in DOMAIN todo' : \E j \in DOMAIN todo : todo'[k] = todo[j]
      BY <2>1, <2>4
    <2>7. StoreShape'
      BY <2>1, <2>4, <2>5, <2>6 DEF StoreShape, Bounded
    <2> QED BY <2>1, <2>4, <2>6, <2>7
  <1>2. CASE Flush
    BY <1>2 DEF Flush, StoreShape, Bounded
  <1>3. CASE BackgroundFlush
    BY <1>3 DEF BackgroundFlush, StoreShape, Bounded
  <1> QED BY <1>1, <1>2, <1>3 DEF StorageStep

----------------------------------------------------------------------------
(* Types: inputs and ticks                                                 *)

\* What an input has to leave well-formed.
CoreResult ==
    /\ hs' \in HardState
    /\ unstable' \in Seq(Entry) /\ offset' \in Nat \ {0}
    /\ offset' + Len(unstable') <= MaxIndex + 1
    /\ usnap' \in Snapshot \cup {NoSnapshot}
    /\ usnap' # NoSnapshot => usnap'.index <= MaxIndex
    /\ persisted' \in Nat

\* With a well-formed core, an input keeps every type.
LEMMA InputKeeps ==
    ASSUME Shape, CoreResult, pc' \in Inputs,
           view' = view, disk' = disk, todo' = todo, busy' = busy,
           rd' = rd, batch' = batch, prev_hs' = prev_hs, since' = since
    PROVE  Shape'
  <1>1. StoreShape'
    BY DEF Shape, StoreShape, Bounded
  <1>2. ReadyShape'
    BY DEF Shape, ReadyShape, Inputs, Pcs, Batch
  <1>3. CoreShape'
    BY DEF Shape, CoreShape, CoreResult, Inputs, Outside
  <1> QED BY <1>1, <1>2, <1>3 DEF Shape

\* The core as it is.
LEMMA CoreStays ==
    ASSUME Shape, hs' \in HardState, unstable' = unstable, offset' = offset,
           usnap' = usnap, persisted' = persisted
    PROVE  CoreResult
  BY DEF Shape, CoreShape, CoreResult

\* One new entry at the end of the log.
LEMMA EntryShape ==
    ASSUME Shape, NEW t \in Nat, NEW p \in Payload, NEW first,
           first = CoreLast + 1, first <= MaxIndex,
           TruncateAndAppend(first, <<[term |-> t, payload |-> p]>>),
           UNCHANGED <<usnap, persisted>>, hs' \in HardState
    PROVE  CoreResult
  <1> DEFINE es == <<[term |-> t, payload |-> p]>>
  <1>1. es \in Seq(Entry) /\ Len(es) = 1
    BY DEF Entry
  <1>2. first \in Nat \ {0}
    BY CoreLastIsBounded, LoopConstants
  <1>3. MaxIndex \in Nat /\ first + 1 <= MaxIndex + 1
    BY <1>2, LoopConstants
  <1>4. CoreShape
    BY DEF Shape
  <1> HIDE DEF es
  <1>5. TruncateAndAppend(first, es)
    BY DEF es
  <1>6. first + Len(es) <= MaxIndex + 1
    BY <1>1, <1>3
  <1>7. /\ unstable' \in Seq(Entry) /\ offset' \in Nat \ {0}
        /\ offset' + Len(unstable') <= MaxIndex + 1
    BY <1>1, <1>2, <1>4, <1>5, <1>6, TruncateShape
  <1> QED BY <1>4, <1>7 DEF CoreShape, CoreResult

\* Entering a term gives a hard state.
LEMMA AtTermIsHardState ==
    ASSUME CoreShape, NEW t \in Nat PROVE AtTerm(t) \in HardState
  BY DEF CoreShape, AtTerm, HardState

\* A proposal leaves the core well-formed.
LEMMA ProposeShape ==
    ASSUME Shape, NEW cmd \in Command, Propose(cmd), UNCHANGED <<hs, usnap, persisted>>
    PROVE  CoreResult
  <1>1. hs \in HardState /\ hs.term \in Nat /\ cmd \in Payload
    BY LoopConstants DEF Shape, CoreShape, HardState
  <1>2. /\ CoreLast + 1 <= MaxIndex
        /\ TruncateAndAppend(CoreLast + 1, <<[term |-> hs.term, payload |-> cmd]>>)
    BY DEF Propose
  <1> QED BY <1>1, <1>2, EntryShape

\* So does a campaign,
LEMMA HupShape ==
    ASSUME Shape, Hup, UNCHANGED <<usnap, persisted>>
    PROVE  CoreResult
  <1>1. hs \in HardState /\ hs.term \in Nat
    BY DEF Shape, CoreShape, HardState
  <1>2. CASE UNCHANGED <<hs, unstable, offset>>
    BY <1>1, <1>2, CoreStays
  <1>3. CASE ~UNCHANGED <<hs, unstable, offset>>
    <2>1. /\ Peers = {} /\ ~(CoreLast >= MaxIndex)
          /\ hs' = [hs EXCEPT !.term = hs.term + 1, !.vote = Self]
          /\ TruncateAndAppend(CoreLast + 1, <<[term |-> hs.term + 1, payload |-> Empty]>>)
      BY <1>3 DEF Hup
    <2>2. hs' \in HardState /\ hs.term + 1 \in Nat /\ Empty \in Payload
      <3>1. Self \in Nat /\ Empty \in Payload
        BY LoopConstants
      <3>2. hs' = [term |-> hs.term + 1, vote |-> Self, commit |-> hs.commit]
        BY <1>1, <2>1 DEF HardState
      <3> QED BY <1>1, <3>1, <3>2 DEF HardState
    <2>3. CoreLast + 1 <= MaxIndex
      BY <2>1, CoreLastIsBounded, LoopConstants
    <2> QED BY <2>1, <2>2, <2>3, EntryShape
  <1> QED BY <1>2, <1>3

\* a won election,
LEMMA VotesWonShape ==
    ASSUME Shape, StepVotesWon
    PROVE  CoreResult
  <1>1. hs \in HardState /\ hs.term \in Nat /\ Empty \in Payload
    BY LoopConstants DEF Shape, CoreShape, HardState
  <1>2. /\ CoreLast + 1 <= MaxIndex /\ UNCHANGED <<hs, usnap, persisted>>
        /\ TruncateAndAppend(CoreLast + 1, <<[term |-> hs.term, payload |-> Empty]>>)
    BY DEF StepVotesWon
  <1> QED BY <1>1, <1>2, EntryShape

\* an append of another leader,
LEMMA AppendShape ==
    ASSUME Shape, NEW t \in 1..MaxTerm, NEW prev, NEW es \in Appendable,
           NEW c, StepAppend(t, prev, es, c)
    PROVE  CoreResult
  <1>1. /\ hs.commit \in Nat /\ CoreLast \in 0..MaxIndex /\ MaxIndex \in Nat /\ CoreShape
        /\ t \in Nat
    BY CoreLastIsBounded, LoopConstants DEF Shape, CoreShape, HardState
  <1>2. prev \in Nat /\ c \in Nat /\ prev + Len(es) <= MaxIndex
    BY <1>1 DEF StepAppend
  <1>3. es \in Seq(Entry) /\ Len(es) \in Nat
    <2>1. CASE es = << >>
      BY <2>1
    <2>2. ASSUME NEW e \in [term : 1..MaxTerm, payload : Payload], es = <<e>>
          PROVE  es \in Seq(Entry) /\ Len(es) \in Nat
      <3>1. MaxTerm \in Nat
        BY LoopConstants
      <3>2. e \in Entry
        BY <3>1 DEF Entry
      <3> QED BY <2>2, <3>2
    <2> QED BY <2>1, <2>2 DEF Appendable
  <1>4. AtTerm(t) \in HardState
    BY <1>1, AtTermIsHardState
  <1>5. Greater(hs.commit, Lesser(c, prev + Len(es))) \in Nat
    BY <1>1, <1>2, <1>3 DEF Greater, Lesser
  <1>6. hs' \in HardState /\ usnap' = usnap
    BY <1>4, <1>5 DEF StepAppend, HardState
  <1>7. CASE UNCHANGED <<unstable, offset, persisted>>
    BY <1>6, <1>7, CoreStays
  <1>8. CASE ~UNCHANGED <<unstable, offset, persisted>>
    <2> DEFINE last == prev + Len(es)
    <2>1. /\ TruncateAndAppend(last, es) /\ persisted' = Lesser(persisted, prev)
          /\ ~(last <= CoreLast /\ (es # << >> => CoreTerm(last) = es[1].term))
      BY <1>8 DEF StepAppend
    <2>2. es # << >> /\ Len(es) = 1
      <3>1. prev <= CoreLast
        BY <1>1 DEF StepAppend
      <3>2. CASE es = << >>
        <4>1. last = prev
          BY <1>2, <3>2
        <4> QED BY <2>1, <3>1, <3>2, <4>1
      <3> QED BY <3>2 DEF Appendable
    <2>3. last \in Nat \ {0} /\ last + Len(es) <= MaxIndex + 1
      BY <1>1, <1>2, <2>2
    <2>4. /\ unstable' \in Seq(Entry) /\ offset' \in Nat \ {0}
          /\ offset' + Len(unstable') <= MaxIndex + 1
      <3> HIDE DEF last
      <3> QED BY <1>1, <1>3, <2>1, <2>3, TruncateShape
    <2>5. persisted' \in Nat
      BY <1>1, <1>2, <2>1 DEF Lesser, CoreShape
    <2> QED BY <1>1, <1>6, <2>4, <2>5 DEF CoreResult, CoreShape
  <1> QED BY <1>7, <1>8

\* and a snapshot of another leader.
LEMMA SnapshotShape ==
    ASSUME Shape, NEW t \in 1..MaxTerm, NEW n \in 1..MaxIndex,
           NEW f \in [1..n -> [term : 1..MaxTerm, payload : Payload]],
           StepSnapshot(t, f)
    PROVE  CoreResult
  <1>1. /\ hs.commit \in Nat /\ MaxIndex \in Nat /\ CoreShape /\ t \in Nat
        /\ MaxTerm \in Nat /\ n \in Nat
    BY LoopConstants DEF Shape, CoreShape, HardState
  <1>2. Len(f) = n /\ f[n].term \in Nat
    BY <1>1
  <1>3. AtTerm(t) \in HardState
    BY <1>1, AtTermIsHardState
  <1>4. hs' \in HardState
    BY <1>1, <1>2, <1>3 DEF StepSnapshot, HardState
  <1>5. ASSUME NEW k \in Keys PROVE LastPut(f, k) \in Ids \cup OtherIds \cup {NoValue}
    <2> DEFINE puts == {i \in DOMAIN f : f[i].payload # Empty /\ f[i].payload.key = k}
    <2>1. CASE puts = {}
      BY <2>1 DEF LastPut
    <2>2. CASE puts # {}
      <3>1. puts \subseteq 0..n
        BY <1>1
      <3>2. Highest(puts) \in puts
        <4> HIDE DEF puts
        <4> QED BY <1>1, <2>2, <3>1, HighestIsGreatest
      <3>3. f[Highest(puts)].payload \in Command
        BY <3>2, LoopConstants
      <3> QED BY <2>2, <3>3 DEF LastPut, Command
    <2> QED BY <2>1, <2>2
  <1> DEFINE d == [k \in Keys |-> LastPut(f, k)]
             s == [index |-> n, term |-> f[n].term, conf |-> Voters, data |-> d]
  <1>6. s \in Snapshot
    <2>1. d \in [Keys -> Ids \cup OtherIds \cup {NoValue}]
      BY <1>5
    <2>2. d \in SnapData /\ Voters \in Confs
      BY <2>1, LoopConstants
    <2> QED BY <1>1, <1>2, <2>2 DEF Snapshot
  <1> DEFINE result ==
        \/ UNCHANGED <<usnap, unstable, offset, persisted>>
        \/ /\ usnap' = s /\ unstable' = << >> /\ offset' = n + 1
           /\ persisted' = Lesser(persisted, hs.commit)
  <1>7. result
    BY <1>2 DEF StepSnapshot
  <1> HIDE DEF s
  <1>8. CASE UNCHANGED <<usnap, unstable, offset, persisted>>
    BY <1>4, <1>8, CoreStays
  <1>9. CASE /\ usnap' = s /\ unstable' = << >> /\ offset' = n + 1
             /\ persisted' = Lesser(persisted, hs.commit)
    <2>1. s.index = n
      BY DEF s
    <2>2. persisted' \in Nat
      BY <1>1, <1>9 DEF CoreShape, Lesser
    <2>3. unstable' \in Seq(Entry) /\ Len(unstable') = 0
      BY <1>9
    <2> QED BY <1>1, <1>4, <1>6, <1>9, <2>1, <2>2, <2>3 DEF CoreResult
  <1> QED BY <1>7, <1>8, <1>9

----------------------------------------------------------------------------
(* Inputs and ticks: what each does to hard state, role and messages.      *)

\* A vote in a new message is the one of the hard state that comes with it.
NewVotes ==
    \A m \in msgs' : m \in msgs \/ ~Binding(m) \/ (m.term = hs'.term /\ m.arg = hs'.vote)

InputResult ==
    /\ CoreResult
    /\ Yields(hs, hs') /\ Elected' /\ Queued' /\ NewVotes
    /\ view' = view /\ disk' = disk /\ todo' = todo /\ busy' = busy
    /\ rd' = rd /\ batch' = batch /\ prev_hs' = prev_hs /\ since' = since
    /\ sent' = sent

\* This server has an id of its own, which is not 0.
LEMMA SelfIsNamed == Self \in Nat /\ Self # 0 /\ Self \notin Peers
  BY LoopConstants

\* A leader's message names this server.
LEMMA LeadsIsNamed ==
    ASSUME NEW t \in Nat
    PROVE  Named(Leads(t)) /\ Leads(t).term = t /\ Leads(t).arg = Self
  BY SelfIsNamed DEF Leads, Named

\* A vote names its candidate.
LEMMA VoteIsNamed ==
    ASSUME NEW t \in Nat, NEW c \in Nat, c # 0
    PROVE  Named(VoteFor(t, c)) /\ VoteFor(t, c).term = t /\ VoteFor(t, c).arg = c
           /\ Binding(VoteFor(t, c))
  BY DEF VoteFor, Named, Binding

\* An acknowledgement says nothing about a vote.
LEMMA AckBindsNoVote ==
    ASSUME NEW t, NEW i PROVE ~Binding(Ack(t, i)) /\ Named(Ack(t, i))
  BY DEF Ack, Named, Binding

\* The message of a leader is backed by its election.
LEMMA LeadsIsBacked ==
    ASSUME Shape, Elected, role = "Leader"
    PROVE  /\ Named(Leads(hs.term)) /\ Covers(hs, Leads(hs.term))
           /\ Leads(hs.term).term = hs.term /\ Leads(hs.term).arg = hs.vote
           /\ Peers # {} => Covers(disk.hs, Leads(hs.term))
  <1>1. hs.term \in Nat
    BY DEF Shape, CoreShape, HardState
  <1> QED BY <1>1, LeadsIsNamed DEF Elected, Covers

\* A later term, or the same one.
LEMMA AtTermYields ==
    ASSUME Shape, NEW t \in Nat, t >= hs.term
    PROVE  /\ AtTerm(t) \in HardState /\ AtTerm(t).term = t /\ Yields(hs, AtTerm(t))
           /\ t = hs.term => AtTerm(t) = hs
  <1>1. hs \in HardState
    BY DEF Shape, CoreShape
  <1>2. CASE t = hs.term
    BY <1>1, <1>2, YieldsIsReflexive DEF AtTerm, HardState
  <1>3. CASE t > hs.term
    <2>1. AtTerm(t) = [term |-> t, vote |-> 0, commit |-> hs.commit]
      BY <1>1, <1>3 DEF AtTerm, HardState
    <2> QED BY <1>1, <1>3, <2>1 DEF HardState, Yields
  <1> QED BY <1>1, <1>2, <1>3 DEF HardState

\* No input.
LEMMA NothingInput ==
    ASSUME Shape, Elected, Queued, InputNothing
    PROVE  InputResult
  <1>1. /\ hs' = hs /\ unstable' = unstable /\ offset' = offset /\ usnap' = usnap
        /\ persisted' = persisted /\ role' = role /\ msgs' = msgs
        /\ view' = view /\ disk' = disk /\ todo' = todo /\ busy' = busy
        /\ rd' = rd /\ batch' = batch /\ prev_hs' = prev_hs /\ since' = since
        /\ sent' = sent
    BY DEF InputNothing, coreVars, worldVars, storageVars
  <1>2. hs \in HardState
    BY DEF Shape, CoreShape
  <1>3. CoreResult
    BY <1>1, <1>2, CoreStays
  <1> QED BY <1>1, <1>2, <1>3, YieldsIsReflexive DEF InputResult, Elected, Queued, NewVotes

\* A PUT, refused or proposed.
LEMMA PutInput ==
    ASSUME Shape, Elected, Queued, NEW key \in Keys, NEW id \in Ids,
           RpcPut(key, id) \/ UserPut(key, id)
    PROVE  InputResult
  <1>1. /\ hs' = hs /\ usnap' = usnap /\ persisted' = persisted /\ role' = role
        /\ view' = view /\ disk' = disk /\ todo' = todo /\ busy' = busy
        /\ rd' = rd /\ batch' = batch /\ prev_hs' = prev_hs /\ since' = since
        /\ sent' = sent
    BY DEF RpcPut, UserPut, storageVars
  <1>2. hs \in HardState
    BY DEF Shape, CoreShape
  <1>3. CASE unstable' = unstable /\ offset' = offset /\ msgs' = msgs
    <2>1. CoreResult
      BY <1>1, <1>2, <1>3, CoreStays
    <2> QED BY <1>1, <1>2, <1>3, <2>1, YieldsIsReflexive DEF InputResult, Elected, Queued, NewVotes
  <1>4. CASE role = "Leader" /\ Propose([key |-> key, id |-> id])
    <2>1. [key |-> key, id |-> id] \in Command
      BY DEF Command
    <2>2. CoreResult
      BY <1>1, <1>4, <2>1, ProposeShape
    <2>3. msgs' = IF Peers = {} THEN msgs ELSE msgs \cup {Leads(hs.term)}
      BY <1>4 DEF Propose
    <2>4. Queued'
      BY <1>1, <1>4, <2>3, LeadsIsBacked DEF Queued
    <2>5. NewVotes
      BY <1>1, <1>4, <2>3, LeadsIsBacked DEF NewVotes
    <2> QED BY <1>1, <1>2, <2>2, <2>3, <2>4, <2>5, YieldsIsReflexive DEF InputResult, Elected
  <1>5. \/ unstable' = unstable /\ offset' = offset /\ msgs' = msgs
        \/ role = "Leader" /\ Propose([key |-> key, id |-> id])
    BY DEF RpcPut, UserPut
  <1> QED BY <1>3, <1>4, <1>5

\* A campaign: nothing, pre-votes, or a single voter's election.
LEMMA HupInput ==
    ASSUME Shape, Elected, Queued, Hup,
           usnap' = usnap, persisted' = persisted, msgs' = msgs, disk' = disk
    PROVE  CoreResult /\ Yields(hs, hs') /\ Elected' /\ Queued'
  <1>1. CoreResult
    BY HupShape
  <1>2. hs \in HardState /\ hs.term \in Nat
    BY DEF Shape, CoreShape, HardState
  <1>3. CASE hs' = hs /\ role' = role
    BY <1>1, <1>2, <1>3, YieldsIsReflexive DEF Elected, Queued
  <1>4. CASE hs' = hs /\ role' = "PreCandidate" /\ Peers # {}
    BY <1>1, <1>2, <1>4, YieldsIsReflexive DEF Elected, Queued
  <1>5. CASE /\ Peers = {} /\ role' = "Leader"
             /\ hs' = [hs EXCEPT !.term = hs.term + 1, !.vote = Self]
    <2>1. hs' = [term |-> hs.term + 1, vote |-> Self, commit |-> hs.commit]
      BY <1>2, <1>5 DEF HardState
    <2>2. Yields(hs, hs') /\ hs'.vote = Self
      BY <1>2, <2>1 DEF Yields
    <2>3. msgs = {}
      BY <1>5 DEF Elected
    <2> QED BY <1>1, <1>5, <2>2, <2>3 DEF Elected, Queued
  <1> QED BY <1>3, <1>4, <1>5 DEF Hup

\* CAMPAIGN.
LEMMA CampaignInput ==
    ASSUME Shape, Elected, Queued, UserCampaign
    PROVE  InputResult
  <1>1. /\ usnap' = usnap /\ persisted' = persisted /\ msgs' = msgs
        /\ view' = view /\ disk' = disk /\ todo' = todo /\ busy' = busy
        /\ rd' = rd /\ batch' = batch /\ prev_hs' = prev_hs /\ since' = since
        /\ sent' = sent /\ Hup
    BY DEF UserCampaign, storageVars
  <1> QED BY <1>1, HupInput DEF InputResult, NewVotes

\* The tick.
LEMMA TickInput ==
    ASSUME Shape, Elected, Queued, Tick
    PROVE  InputResult
  <1>1. /\ usnap' = usnap /\ persisted' = persisted
        /\ view' = view /\ disk' = disk /\ todo' = todo /\ busy' = busy
        /\ rd' = rd /\ batch' = batch /\ prev_hs' = prev_hs /\ since' = since
        /\ sent' = sent
    BY DEF Tick, storageVars
  <1>2. hs \in HardState
    BY DEF Shape, CoreShape
  <1>3. CASE Hup /\ msgs' = msgs
    BY <1>1, <1>3, HupInput DEF InputResult, NewVotes
  <1>4. CASE /\ hs' = hs /\ role' = role /\ unstable' = unstable /\ offset' = offset
             /\ \/ msgs' = msgs
                \/ role = "Leader" /\ Peers # {} /\ msgs' = msgs \cup {Leads(hs.term)}
    <2>1. CoreResult
      BY <1>1, <1>2, <1>4, CoreStays
    <2>2. Queued'
      BY <1>1, <1>4, LeadsIsBacked DEF Queued
    <2>3. Elected'
      BY <1>1, <1>4 DEF Elected
    <2>4. NewVotes
      BY <1>1, <1>4, LeadsIsBacked DEF NewVotes
    <2> QED BY <1>1, <1>2, <1>4, <2>1, <2>2, <2>3, <2>4, YieldsIsReflexive DEF InputResult
  <1> QED BY <1>3, <1>4 DEF Tick

\* Becoming a follower, now or in a later term, with a new commit index.
LEMMA FollowerInput ==
    ASSUME Shape, Elected, Queued, NEW t \in Nat, t >= hs.term, NEW c \in Nat,
           hs' = [AtTerm(t) EXCEPT !.commit = c], role' = "Follower",
           \A m \in msgs' : m \in msgs \/ (Named(m) /\ ~Binding(m)),
           Peers # {}
    PROVE  hs' \in HardState /\ Yields(hs, hs') /\ Elected' /\ Queued' /\ NewVotes
  <1>1. /\ hs \in HardState /\ AtTerm(t) \in HardState /\ AtTerm(t).term = t
        /\ Yields(hs, AtTerm(t))
    BY AtTermYields DEF Shape, CoreShape
  <1>2. hs' = [term |-> t, vote |-> AtTerm(t).vote, commit |-> c]
    BY <1>1 DEF HardState
  <1>3. hs' \in HardState /\ Yields(hs, hs')
    BY <1>1, <1>2 DEF HardState, Yields
  <1>4. Elected'
    BY DEF Elected
  <1>5. ASSUME NEW m \in msgs' PROVE Named(m) /\ (Binding(m) => Covers(hs', m))
    BY <1>1, <1>3, CoversStays DEF Queued
  <1> QED BY <1>3, <1>4, <1>5 DEF Queued, NewVotes

\* A candidate votes for itself in a new term.
LEMMA PreVotesWonInput ==
    ASSUME Shape, Elected, Queued, StepPreVotesWon, msgs = {}
    PROVE  InputResult
  <1>1. /\ unstable' = unstable /\ offset' = offset /\ usnap' = usnap
        /\ persisted' = persisted /\ role = "PreCandidate" /\ role' = "Candidate"
        /\ hs' = [hs EXCEPT !.term = hs.term + 1, !.vote = Self]
        /\ msgs' = msgs \cup {VoteFor(hs.term + 1, Self)}
        /\ view' = view /\ disk' = disk /\ todo' = todo /\ busy' = busy
        /\ rd' = rd /\ batch' = batch /\ prev_hs' = prev_hs /\ since' = since
        /\ sent' = sent
    BY DEF StepPreVotesWon, worldVars, storageVars
  <1>2. hs \in HardState /\ hs.term \in Nat /\ Self \in Nat
    BY SelfIsNamed DEF Shape, CoreShape, HardState
  <1>3. hs' = [term |-> hs.term + 1, vote |-> Self, commit |-> hs.commit]
    BY <1>1, <1>2 DEF HardState
  <1>4. hs' \in HardState /\ Yields(hs, hs')
    BY <1>2, <1>3 DEF HardState, Yields
  <1>5. CoreResult
    BY <1>1, <1>4, CoreStays
  <1>6. Peers # {}
    BY <1>1 DEF Elected
  <1>7. Elected'
    BY <1>1, <1>3, <1>6 DEF Elected
  <1>8. Queued'
    <2>1. Named(VoteFor(hs.term + 1, Self)) /\ Covers(hs', VoteFor(hs.term + 1, Self))
      BY <1>2, <1>3, VoteIsNamed, SelfIsNamed DEF Covers
    <2> QED BY <1>1, <2>1 DEF Queued
  <1>9. NewVotes
    <2>1. hs'.term = hs.term + 1 /\ hs'.vote = Self /\ hs.term + 1 \in Nat
      BY <1>2, <1>3
    <2>2. VoteFor(hs.term + 1, Self).term = hs.term + 1
          /\ VoteFor(hs.term + 1, Self).arg = Self
      BY <1>2, <2>1, VoteIsNamed, SelfIsNamed
    <2> QED BY <1>1, <2>1, <2>2 DEF NewVotes
  <1> QED BY <1>1, <1>4, <1>5, <1>7, <1>8, <1>9 DEF InputResult

\* The votes for a candidate answer requests it has sent, so its own vote is
\* on disk before it leads.
LEMMA VotesWonInput ==
    ASSUME Shape, Elected, Queued, VotesDurable, StepVotesWon, msgs = {}
    PROVE  InputResult
  <1>1. /\ hs' = hs /\ usnap' = usnap /\ persisted' = persisted
        /\ role = "Candidate" /\ role' = "Leader"
        /\ VoteFor(hs.term, Self) \in sent
        /\ msgs' = msgs \cup {Leads(hs.term)}
        /\ view' = view /\ disk' = disk /\ todo' = todo /\ busy' = busy
        /\ rd' = rd /\ batch' = batch /\ prev_hs' = prev_hs /\ since' = since
        /\ sent' = sent
    BY DEF StepVotesWon, storageVars
  <1>2. hs \in HardState /\ hs.term \in Nat
    BY DEF Shape, CoreShape, HardState
  <1>3. CoreResult
    BY VotesWonShape
  <1>4. Covers(disk.hs, VoteFor(hs.term, Self))
    BY <1>1, <1>2 DEF VotesDurable, VoteFor
  <1>5. /\ Named(Leads(hs.term)) /\ Covers(disk.hs, Leads(hs.term))
        /\ Covers(hs, Leads(hs.term))
    BY <1>1, <1>2, <1>4, VoteIsNamed, SelfIsNamed, LeadsIsNamed DEF Covers, Elected
  <1>6. Peers # {} /\ hs.vote = Self
    BY <1>1 DEF Elected
  <1>7. Elected'
    BY <1>1, <1>5, <1>6 DEF Elected
  <1>8. Queued'
    BY <1>1, <1>5 DEF Queued
  <1>9. NewVotes
    BY <1>1, <1>2, <1>6, LeadsIsNamed DEF NewVotes
  <1> QED BY <1>1, <1>2, <1>3, <1>7, <1>8, <1>9, YieldsIsReflexive DEF InputResult

\* A server that has voted for itself grants no other vote in that term.
LEMMA VoteRequestInput ==
    ASSUME Shape, Elected, Queued, NEW t \in 1..MaxTerm, NEW c \in Peers,
           StepVoteRequest(t, c), msgs = {}
    PROVE  InputResult
  <1>1. /\ unstable' = unstable /\ offset' = offset /\ usnap' = usnap
        /\ persisted' = persisted /\ t \in hs.term..MaxTerm
        /\ AtTerm(t).vote \in {0, c}
        /\ hs' = [AtTerm(t) EXCEPT !.vote = c]
        /\ role' = IF t > hs.term THEN "Follower" ELSE role
        /\ msgs' = msgs \cup {VoteFor(t, c)}
        /\ view' = view /\ disk' = disk /\ todo' = todo /\ busy' = busy
        /\ rd' = rd /\ batch' = batch /\ prev_hs' = prev_hs /\ since' = since
        /\ sent' = sent
    BY DEF StepVoteRequest, worldVars, storageVars
  <1>2. /\ hs \in HardState /\ hs.term \in Nat /\ t \in Nat /\ t >= hs.term
        /\ c \in Nat /\ c # 0 /\ c # Self /\ Self # 0
    <2>1. hs \in HardState /\ hs.term \in Nat
      BY DEF Shape, CoreShape, HardState
    <2>2. t \in hs.term..MaxTerm /\ MaxTerm \in Nat
      BY <1>1, LoopConstants
    <2>3. c \in Nat /\ c # 0 /\ c # Self /\ Self # 0
      BY LoopConstants
    <2> QED BY <2>1, <2>2, <2>3
  <1>3. /\ AtTerm(t) \in HardState /\ AtTerm(t).term = t /\ Yields(hs, AtTerm(t))
        /\ t = hs.term => AtTerm(t) = hs
    BY <1>2, AtTermYields
  <1>4. hs' = [term |-> t, vote |-> c, commit |-> AtTerm(t).commit]
    BY <1>1, <1>3 DEF HardState
  <1>5. hs' \in HardState /\ Yields(hs, hs')
    BY <1>1, <1>2, <1>3, <1>4 DEF HardState, Yields
  <1>6. CoreResult
    BY <1>1, <1>5, CoreStays
  <1>7. role' \notin {"Leader", "Candidate"}
    <2>1. CASE t > hs.term
      BY <1>1, <2>1
    <2>2. CASE t = hs.term
      <3>1. hs.vote # Self
        BY <1>1, <1>2, <1>3, <2>2
      <3> QED BY <1>1, <1>2, <2>2, <3>1 DEF Elected
    <2> QED BY <1>2, <2>1, <2>2
  <1>8. Elected'
    BY <1>7 DEF Elected
  <1>9. Queued'
    <2>1. Named(VoteFor(t, c)) /\ Covers(hs', VoteFor(t, c))
      BY <1>2, <1>4, VoteIsNamed DEF Covers
    <2> QED BY <1>1, <1>7, <2>1 DEF Queued
  <1>10. NewVotes
    BY <1>1, <1>2, <1>4, VoteIsNamed DEF NewVotes
  <1> QED BY <1>1, <1>5, <1>6, <1>8, <1>9, <1>10 DEF InputResult

\* A message of a higher term.
LEMMA HigherTermInput ==
    ASSUME Shape, Elected, Queued, NEW t \in 1..MaxTerm, StepHigherTerm(t)
    PROVE  InputResult
  <1>1. /\ unstable' = unstable /\ offset' = offset /\ usnap' = usnap
        /\ persisted' = persisted /\ t \in (hs.term + 1)..MaxTerm
        /\ hs' = AtTerm(t) /\ role' = "Follower" /\ msgs' = msgs /\ Peers # {}
        /\ view' = view /\ disk' = disk /\ todo' = todo /\ busy' = busy
        /\ rd' = rd /\ batch' = batch /\ prev_hs' = prev_hs /\ since' = since
        /\ sent' = sent
    BY DEF StepHigherTerm, worldVars, storageVars
  <1>2. t \in Nat /\ t >= hs.term /\ hs.term \in Nat
    <2>1. hs.term \in Nat
      BY DEF Shape, CoreShape, HardState
    <2> QED BY <1>1, <2>1, LoopConstants
  <1>3. AtTerm(t) \in HardState /\ AtTerm(t).commit \in Nat
        /\ hs' = [AtTerm(t) EXCEPT !.commit = AtTerm(t).commit]
    BY <1>1, <1>2, AtTermYields DEF HardState
  <1>4. hs' \in HardState /\ Yields(hs, hs') /\ Elected' /\ Queued' /\ NewVotes
    BY <1>1, <1>2, <1>3, FollowerInput
  <1>5. CoreResult
    BY <1>1, <1>4, CoreStays
  <1> QED BY <1>1, <1>4, <1>5 DEF InputResult

\* A heartbeat.
LEMMA HeartbeatInput ==
    ASSUME Shape, Elected, Queued, NEW t \in 1..MaxTerm, NEW c \in hs.commit..MaxIndex,
           StepHeartbeat(t, c)
    PROVE  InputResult
  <1>1. /\ unstable' = unstable /\ offset' = offset /\ usnap' = usnap
        /\ persisted' = persisted
        /\ hs' = [AtTerm(t) EXCEPT !.commit = c] /\ role' = "Follower" /\ msgs' = msgs
        /\ OtherLeads(t)
        /\ view' = view /\ disk' = disk /\ todo' = todo /\ busy' = busy
        /\ rd' = rd /\ batch' = batch /\ prev_hs' = prev_hs /\ since' = since
        /\ sent' = sent
    BY DEF StepHeartbeat, storageVars
  <1>2. /\ t \in Nat /\ t >= hs.term /\ Peers # {} /\ c \in Nat
    <2>1. hs.term \in Nat /\ hs.commit \in Nat
      BY DEF Shape, CoreShape, HardState
    <2>2. Peers # {} /\ t \in hs.term..MaxTerm
      BY <1>1 DEF OtherLeads
    <2> QED BY <2>1, <2>2, LoopConstants
  <1>3. hs' \in HardState /\ Yields(hs, hs') /\ Elected' /\ Queued' /\ NewVotes
    BY <1>1, <1>2, FollowerInput
  <1>4. CoreResult
    BY <1>1, <1>3, CoreStays
  <1> QED BY <1>1, <1>3, <1>4 DEF InputResult

\* An append.
LEMMA AppendInput ==
    ASSUME Shape, Elected, Queued, NEW t \in 1..MaxTerm, NEW prev, NEW es \in Appendable,
           NEW c, StepAppend(t, prev, es, c)
    PROVE  InputResult
  <1> DEFINE commit == Greater(hs.commit, Lesser(c, prev + Len(es)))
  <1>1. /\ hs' = [AtTerm(t) EXCEPT !.commit = commit] /\ role' = "Follower"
        /\ msgs' = msgs \cup {Ack(t, prev + Len(es))} /\ OtherLeads(t)
        /\ c \in hs.commit..MaxIndex /\ prev \in hs.commit..CoreLast
        /\ view' = view /\ disk' = disk /\ todo' = todo /\ busy' = busy
        /\ rd' = rd /\ batch' = batch /\ prev_hs' = prev_hs /\ since' = since
        /\ sent' = sent
    BY DEF StepAppend, storageVars
  <1>2. /\ t \in Nat /\ t >= hs.term /\ Peers # {} /\ c \in Nat /\ prev \in Nat
        /\ hs.commit \in Nat
    <2>1. /\ hs.commit \in Nat /\ hs.term \in Nat /\ CoreLast \in Nat
          /\ MaxIndex \in Nat /\ MaxTerm \in Nat
      BY CoreLastIsBounded, LoopConstants DEF Shape, CoreShape, HardState
    <2>2. t \in hs.term..MaxTerm /\ Peers # {}
      BY <1>1 DEF OtherLeads
    <2> QED BY <1>1, <2>1, <2>2
  <1>3. Len(es) \in Nat
    BY DEF Appendable
  <1>4. commit \in Nat
    BY <1>2, <1>3 DEF Greater, Lesser
  <1>5. \A m \in msgs' : m \in msgs \/ (Named(m) /\ ~Binding(m))
    BY <1>1, AckBindsNoVote
  <1> HIDE DEF commit
  <1>6. hs' \in HardState /\ Yields(hs, hs') /\ Elected' /\ Queued' /\ NewVotes
    BY <1>1, <1>2, <1>4, <1>5, FollowerInput
  <1>7. CoreResult
    BY AppendShape
  <1> QED BY <1>1, <1>6, <1>7 DEF InputResult

\* A snapshot.
LEMMA SnapshotInput ==
    ASSUME Shape, Elected, Queued, NEW t \in 1..MaxTerm, NEW n \in 1..MaxIndex,
           NEW f \in [1..n -> [term : 1..MaxTerm, payload : Payload]],
           StepSnapshot(t, f)
    PROVE  InputResult
  <1>1. /\ hs' = [AtTerm(t) EXCEPT !.commit = Len(f)] /\ role' = "Follower"
        /\ msgs' = msgs \cup {Ack(t, Len(f))} /\ OtherLeads(t)
        /\ view' = view /\ disk' = disk /\ todo' = todo /\ busy' = busy
        /\ rd' = rd /\ batch' = batch /\ prev_hs' = prev_hs /\ since' = since
        /\ sent' = sent
    BY DEF StepSnapshot, storageVars
  <1>2. /\ t \in Nat /\ t >= hs.term /\ Peers # {} /\ n \in Nat
    <2>1. hs.term \in Nat
      BY DEF Shape, CoreShape, HardState
    <2>2. Peers # {} /\ t \in hs.term..MaxTerm
      BY <1>1 DEF OtherLeads
    <2> QED BY <2>1, <2>2, LoopConstants
  <1>3. Len(f) \in Nat
    BY <1>2
  <1>4. \A m \in msgs' : m \in msgs \/ (Named(m) /\ ~Binding(m))
    BY <1>1, AckBindsNoVote
  <1>5. hs' \in HardState /\ Yields(hs, hs') /\ Elected' /\ Queued' /\ NewVotes
    BY <1>1, <1>2, <1>3, <1>4, FollowerInput
  <1>6. CoreResult
    BY SnapshotShape
  <1> QED BY <1>1, <1>5, <1>6 DEF InputResult

\* The acknowledgement a leader commits by.
LEMMA AppendResponseInput ==
    ASSUME Shape, Elected, Queued, NEW c \in 1..MaxIndex, StepAppendResponse(c)
    PROVE  InputResult
  <1>1. /\ unstable' = unstable /\ offset' = offset /\ usnap' = usnap
        /\ persisted' = persisted /\ Peers # {} /\ role = "Leader" /\ role' = role
        /\ hs' = [hs EXCEPT !.commit = c] /\ msgs' = msgs \cup {Leads(hs.term)}
        /\ view' = view /\ disk' = disk /\ todo' = todo /\ busy' = busy
        /\ rd' = rd /\ batch' = batch /\ prev_hs' = prev_hs /\ since' = since
        /\ sent' = sent
    BY DEF StepAppendResponse, storageVars
  <1>2. hs \in HardState /\ c \in Nat
    BY LoopConstants DEF Shape, CoreShape
  <1>3. hs' = [term |-> hs.term, vote |-> hs.vote, commit |-> c]
    BY <1>1, <1>2 DEF HardState
  <1>4. hs' \in HardState /\ Yields(hs, hs') /\ hs'.term = hs.term /\ hs'.vote = hs.vote
    BY <1>2, <1>3 DEF HardState, Yields
  <1>5. CoreResult
    BY <1>1, <1>4, CoreStays
  <1>6. Elected'
    BY <1>1, <1>4 DEF Elected
  <1>7. Queued'
    <2>1. \A m : Covers(hs', m) <=> Covers(hs, m)
      BY <1>4 DEF Covers
    <2> QED BY <1>1, <2>1, LeadsIsBacked DEF Queued
  <1>8. NewVotes
    BY <1>1, <1>4, LeadsIsBacked DEF NewVotes
  <1> QED BY <1>1, <1>4, <1>5, <1>6, <1>7, <1>8 DEF InputResult

\* Every raft message, from an empty queue.
LEMMA MessageInput ==
    ASSUME Shape, Elected, Queued, VotesDurable, HandleRaftMessage, msgs = {}
    PROVE  InputResult /\ pc' = "tick"
  <1>1. CASE StepPreVotesWon
    BY <1>1, PreVotesWonInput DEF StepPreVotesWon, Input
  <1>2. CASE StepVotesWon
    BY <1>2, VotesWonInput DEF StepVotesWon, Input
  <1>3. ASSUME NEW t \in 1..MaxTerm, NEW c \in Peers, StepVoteRequest(t, c)
        PROVE  InputResult /\ pc' = "tick"
    BY <1>3, VoteRequestInput DEF StepVoteRequest, Input
  <1>4. ASSUME NEW t \in 1..MaxTerm, StepHigherTerm(t)
        PROVE  InputResult /\ pc' = "tick"
    BY <1>4, HigherTermInput DEF StepHigherTerm, Input
  <1>5. ASSUME NEW t \in 1..MaxTerm, NEW prev, NEW es \in Appendable, NEW c,
               StepAppend(t, prev, es, c)
        PROVE  InputResult /\ pc' = "tick"
    BY <1>5, AppendInput DEF StepAppend, Input
  <1>6. ASSUME NEW t \in 1..MaxTerm, NEW c \in hs.commit..MaxIndex, StepHeartbeat(t, c)
        PROVE  InputResult /\ pc' = "tick"
    BY <1>6, HeartbeatInput DEF StepHeartbeat, Input
  <1>7. ASSUME NEW t \in 1..MaxTerm, NEW n \in 1..MaxIndex,
               NEW f \in [1..n -> [term : 1..MaxTerm, payload : Payload]],
               StepSnapshot(t, f)
        PROVE  InputResult /\ pc' = "tick"
    BY <1>7, SnapshotInput DEF StepSnapshot, Input
  <1>8. ASSUME NEW c \in 1..MaxIndex, StepAppendResponse(c)
        PROVE  InputResult /\ pc' = "tick"
    BY <1>8, AppendResponseInput DEF StepAppendResponse, Input
  <1> QED BY <1>1, <1>2, <1>3, <1>4, <1>5, <1>6, <1>7, <1>8 DEF HandleRaftMessage

\* What the loop does before it looks for a Ready.
Before == HandleCommand \/ HandleRaftMessage \/ InputNothing \/ Tick

\* Every input and the tick.
LEMMA EveryInput ==
    ASSUME Inv, Before
    PROVE  InputResult /\ pc \in {"input", "tick"} /\ pc' \in {"tick", "ready"}
  <1>1. /\ Shape /\ HsWritten /\ Handed /\ Elected /\ Backed /\ Queued /\ VotesDurable
        /\ pc = "input" => msgs = {}
    BY DEF Inv, Kept, Backed
  <1>2. ASSUME NEW key \in Keys, NEW id \in Ids, RpcPut(key, id) \/ UserPut(key, id)
        PROVE  InputResult /\ pc = "input" /\ pc' = "tick"
    BY <1>1, <1>2, PutInput DEF RpcPut, UserPut, Input
  <1>3. CASE UserCampaign
    BY <1>1, <1>3, CampaignInput DEF UserCampaign, Input
  <1>4. CASE HandleRaftMessage
    <2>1. pc = "input"
      BY <1>4 DEF HandleRaftMessage
    <2> QED BY <1>1, <1>4, <2>1, MessageInput
  <1>5. CASE InputNothing
    BY <1>1, <1>5, NothingInput DEF InputNothing, Input
  <1>6. CASE Tick
    BY <1>1, <1>6, TickInput DEF Tick
  <1> QED BY <1>2, <1>3, <1>4, <1>5, <1>6 DEF HandleCommand, Before

\* Inputs and ticks keep the invariant.
LEMMA InputStep ==
    ASSUME Inv, Before
    PROVE  Inv'
  <1>1. Shape /\ HsWritten /\ Handed /\ Backed
    BY DEF Inv, Kept
  <1>2. InputResult /\ pc \in {"input", "tick"} /\ pc' \in {"tick", "ready"}
    BY EveryInput
  <1>3. /\ CoreResult /\ Yields(hs, hs') /\ Elected' /\ Queued'
        /\ view' = view /\ disk' = disk /\ todo' = todo /\ busy' = busy
        /\ rd' = rd /\ batch' = batch /\ prev_hs' = prev_hs /\ since' = since
        /\ sent' = sent
    BY <1>2 DEF InputResult
  <1>4. Shape'
    <2>1. pc' \in Inputs
      BY <1>2 DEF Inputs
    <2> QED BY <1>1, <1>3, <2>1, InputKeeps
  <1>5. HsWritten'
    BY <1>1, <1>2, <1>3 DEF HsWritten
  <1>6. Handed'
    <2>1. hs \in HardState /\ hs' \in HardState /\ prev_hs \in HardState
      BY <1>1, <1>3 DEF Shape, CoreShape, CoreResult
    <2>2. SameVote(view.hs, prev_hs) /\ Yields(prev_hs, hs)
      BY <1>1, <1>2 DEF Handed, Inputs
    <2>3. Yields(prev_hs, hs')
      BY <1>3, <2>1, <2>2, YieldsIsTransitive
    <2> QED BY <1>2, <1>3, <2>2, <2>3 DEF Handed, Storing
  <1>7. Backed'
    BY <1>1, <1>2, <1>3 DEF Backed, VotesDurable, Storing
  <1> QED BY <1>3, <1>4, <1>5, <1>6, <1>7 DEF Inv, Kept

----------------------------------------------------------------------------
(* The stages of process_ready.                                            *)

\* Which stage process_ready enters next, and with what to do.
LEMMA StageIs ==
    ASSUME NEW s \in {"snapshot", "append", "hardstate"}, NEW r
    PROVE  /\ Stage(s, r) \in {"snapshot", "append", "hardstate", "persisted"}
           /\ Stage(s, r) = "snapshot" => s = "snapshot" /\ r.snap # NoSnapshot
           /\ Stage(s, r) = "hardstate" => r.has_hs
           /\ Stage(s, r) = "persisted" => ~r.has_hs
  BY DEF Stage

\* No entries.
LEMMA EmptyBatch == Batch(<< >>)
  BY DEF Batch

\* A batch without its first entry.
LEMMA TailBatch ==
    ASSUME NEW b, Batch(b), b # << >>
    PROVE  Batch(Tail(b)) /\ b[1].index \in Nat
  <1>1. PICK S : S = Contents(b)
    OBVIOUS
  <1>2. b \in Seq(S)
    BY <1>1 DEF Batch
  <1>3. 1 \in DOMAIN b
        /\ \A k \in DOMAIN Tail(b) : k + 1 \in DOMAIN b /\ Tail(b)[k] = b[k + 1]
    BY <1>2
  <1>4. Tail(b) \in Seq(Contents(Tail(b)))
    BY TailContents DEF Batch
  <1> QED BY <1>3, <1>4 DEF Batch

\* Without a Ready the loop has no message waiting.
LEMMA NothingReadyStep ==
    ASSUME Inv, NothingReady
    PROVE  Inv'
  <1>1. /\ pc = "ready" /\ pc' = "input" /\ msgs = {}
        /\ UNCHANGED <<view, disk, todo, busy, rd, batch, hs, prev_hs, role, unstable,
                       offset, usnap, persisted, since, msgs, sent>>
    BY DEF NothingReady, HasReady, coreVars, worldVars, storageVars
  <1>2. Shape'
    BY <1>1 DEF Inv, Shape, StoreShape, CoreShape, ReadyShape, Bounded, Batch, Outside, Pcs
  <1>3. HsWritten' /\ Elected'
    BY <1>1 DEF Inv, Kept, HsWritten, Elected
  <1>4. Handed'
    BY <1>1 DEF Inv, Kept, Handed, Inputs, Storing
  <1>5. Backed'
    BY <1>1 DEF Inv, Kept, Backed, Queued, VotesDurable, Storing
  <1> QED BY <1>2, <1>3, <1>4, <1>5 DEF Inv, Kept

\* A Ready carries the core's hard state and its messages; those that go out
\* at once are a leader's, backed by the disk.
LEMMA TakeReadyStep ==
    ASSUME Inv, TakeReady
    PROVE  Inv'
  <1> DEFINE deliver == IF usnap # NoSnapshot THEN << >> ELSE Undelivered
             leads == role = "Leader"
  <1>1. /\ pc = "ready" /\ pc' = Stage("snapshot", rd')
        /\ rd' = [snap |-> usnap, base |-> offset - 1, ents |-> unstable,
                  has_hs |-> hs # prev_hs, hs |-> hs,
                  msgs |-> IF leads THEN msgs ELSE {},
                  persisted_msgs |-> IF leads THEN {} ELSE msgs,
                  committed |-> deliver]
        /\ sent' = sent \cup rd'.msgs /\ msgs' = {}
        /\ since' = IF usnap # NoSnapshot THEN usnap.index ELSE LastOf(deliver, since)
        /\ UNCHANGED <<view, disk, todo, busy, batch, hs, prev_hs, role, unstable,
                       offset, usnap, persisted>>
    BY DEF TakeReady, storageVars
  <1>2. Shape /\ StoreShape /\ CoreShape /\ ReadyShape /\ Bounded(view)
    BY DEF Inv, Shape, StoreShape
  <1>3. Batch(deliver) /\ since' \in Nat
    <2>1. CASE usnap # NoSnapshot
      BY <1>1, <1>2, <2>1, EmptyBatch DEF CoreShape, Snapshot
    <2>2. CASE usnap = NoSnapshot
      <3>1. Committable \in Nat /\ since \in Nat
        BY <1>2 DEF Committable, Lesser, CoreShape, HardState
      <3> QED BY <1>1, <1>2, <2>2, <3>1, NextEntriesBatch DEF Undelivered
    <2> QED BY <2>1, <2>2
  <1> HIDE DEF deliver
  <1>4. /\ rd'.snap = usnap /\ rd'.base = offset - 1 /\ rd'.ents = unstable
        /\ rd'.has_hs = (hs # prev_hs) /\ rd'.hs = hs /\ rd'.committed = deliver
        /\ rd'.msgs = (IF leads THEN msgs ELSE {})
        /\ rd'.persisted_msgs = (IF leads THEN {} ELSE msgs)
    BY <1>1
  <1>5. /\ pc' \in {"snapshot", "append", "hardstate", "persisted"}
        /\ pc' = "snapshot" => usnap # NoSnapshot
        /\ pc' = "hardstate" => rd'.has_hs
        /\ pc' = "persisted" => ~rd'.has_hs
    BY <1>1, <1>4, StageIs
  <1>6. StoreShape'
    BY <1>1, <1>2 DEF StoreShape, Bounded
  <1>7. CoreShape'
    BY <1>1, <1>2, <1>3, <1>5 DEF CoreShape, Outside
  <1>8. ReadyShape'
    <2>1. offset - 1 \in Nat /\ offset - 1 + Len(unstable) <= MaxIndex
      BY <1>2, LoopConstants DEF CoreShape
    <2>2. Batch(batch)'
      BY <1>1, <1>2 DEF ReadyShape, Batch
    <2>3. Batch(rd.committed)'
      BY <1>3, <1>4 DEF Batch
    <2>4. hs \in HardState /\ unstable \in Seq(Entry)
          /\ usnap \in Snapshot \cup {NoSnapshot}
          /\ (usnap # NoSnapshot => usnap.index <= MaxIndex)
      BY <1>2 DEF CoreShape
    <2>5. pc' \in Pcs /\ (pc' \in {"snapshot", "restore"} => rd'.snap # NoSnapshot)
      BY <1>4, <1>5 DEF Pcs
    <2>6. rd'.has_hs \in BOOLEAN
      BY <1>4
    <2> QED BY <1>4, <2>1, <2>2, <2>3, <2>4, <2>5, <2>6 DEF ReadyShape
  <1>9. HsWritten'
    BY <1>1, <1>5 DEF Inv, Kept, HsWritten
  <1>10. Handed'
    <2>1. SameVote(view.hs, prev_hs) /\ Yields(prev_hs, hs)
      BY <1>1 DEF Inv, Kept, Handed, Inputs
    <2>2. ~rd'.has_hs => SameVote(view.hs, hs)
      BY <1>4, <2>1
    <2> QED BY <1>1, <1>4, <1>5, <2>1, <2>2 DEF Handed, Inputs, Storing
  <1>11. Elected'
    BY <1>1 DEF Inv, Kept, Elected
  <1>12. Backed'
    <2>1. \A m \in msgs : Named(m) /\ (Binding(m) => Covers(hs, m))
                          /\ (leads /\ Binding(m) => Covers(disk.hs, m))
      BY DEF Inv, Kept, Backed, Queued
    <2>2. \A m \in sent' : Named(m) /\ (Binding(m) => Covers(disk.hs, m))
      BY <1>1, <1>4, <2>1 DEF Inv, Kept, Backed, VotesDurable, Binding
    <2>3. \A m \in rd'.persisted_msgs : Named(m) /\ (Binding(m) => Covers(hs', m))
      BY <1>1, <1>4, <2>1
    <2> QED BY <1>1, <2>2, <2>3 DEF Backed, Queued, VotesDurable, Binding
  <1> QED BY <1>6, <1>7, <1>8, <1>9, <1>10, <1>11, <1>12 DEF Inv, Kept, Shape

\* A storage call starts between two stages that wait for its return; `h` is
\* the hard state it leaves behind.
LEMMA CallStep ==
    ASSUME Inv, NEW h, CallShape(h),
           pc \in Storing \cup {"apply", "light"},
           pc' \in {"restore", "append", "hardstate", "persisted", "apply", "light"},
           pc' = "restore" => rd.snap # NoSnapshot,
           pc \in {"apply", "light"} => pc' = pc /\ Batch(batch'),
           pc \in Storing => batch' = batch /\ pc' \in Storing \cup {"persisted"},
           pc' = "hardstate" => rd.has_hs,
           pc' = "persisted" => (rd.has_hs <=> pc = "hardstate"),
           h = (IF pc = "hardstate" THEN rd.hs ELSE view.hs),
           pc = "hardstate" => pc' = "persisted" /\ todo' # << >>,
           rd' = rd, hs' = hs, prev_hs' = prev_hs, role' = role, unstable' = unstable,
           offset' = offset, usnap' = usnap, persisted' = persisted, since' = since,
           msgs' = msgs, sent' = sent
    PROVE  Inv'
  <1>1. StoreShape' /\ busy' /\ view' = view /\ disk' = disk
        /\ \A k \in DOMAIN todo' : todo'[k].hs = h
    BY DEF CallShape
  <1>2. CoreShape'
    BY DEF Inv, Shape, CoreShape, Storing, Outside
  <1>3. ReadyShape'
    <2>1. Batch(batch)'
      BY DEF Inv, Shape, ReadyShape, Batch, Storing
    <2>2. Batch(rd.committed)'
      BY DEF Inv, Shape, ReadyShape, Batch
    <2> QED BY <2>1, <2>2 DEF Inv, Shape, ReadyShape, Pcs
  <1>4. HsWritten'
    BY <1>1 DEF Inv, Kept, HsWritten, Storing
  <1>5. Handed'
    <2>1. CASE pc \in {"apply", "light"}
      BY <1>1, <2>1 DEF Inv, Kept, Handed, Inputs, Storing
    <2>2. CASE pc \in Storing
      <3>1. /\ SameVote(view.hs, prev_hs) /\ Yields(prev_hs, hs)
            /\ rd.hs = hs /\ rd.has_hs = (hs # prev_hs)
        BY <2>2 DEF Inv, Kept, Handed
      <3>2. Yields(view.hs, hs)
        BY <3>1, SameYields DEF Inv, Shape, StoreShape, Bounded, IsStore, CoreShape
      <3>3. pc' # "persisted" => pc' \in Storing
        BY <2>2
      <3>4. ~rd.has_hs => SameVote(view.hs, hs)
        BY <3>1
      <3> QED BY <1>1, <2>2, <3>1, <3>2, <3>3, <3>4 DEF Handed, Inputs, Storing
    <2> QED BY <2>1, <2>2
  <1>6. Elected'
    BY <1>1 DEF Inv, Kept, Elected
  <1>7. Backed'
    BY <1>1 DEF Inv, Kept, Backed, Queued, VotesDurable, Storing
  <1> QED BY <1>1, <1>2, <1>3, <1>4, <1>5, <1>6, <1>7 DEF Inv, Kept, Shape

\* The stages that store something.
LEMMA StoringStep ==
    ASSUME Inv, StoreSnapshot \/ RestoreSnapshot \/ AppendEntries \/ PersistHardState
    PROVE  Inv'
  <1>1. StoreShape /\ ReadyShape
    BY DEF Inv, Shape
  <1>2. /\ rd' = rd /\ hs' = hs /\ prev_hs' = prev_hs /\ role' = role
        /\ unstable' = unstable /\ offset' = offset /\ usnap' = usnap
        /\ persisted' = persisted /\ since' = since
        /\ msgs' = msgs /\ sent' = sent /\ batch' = batch
    BY DEF StoreSnapshot, RestoreSnapshot, AppendEntries, PersistHardState, coreVars,
           worldVars
  <1>3. CASE StoreSnapshot
    <2>1. pc = "snapshot" /\ pc' = "restore" /\ apply_snapshot(rd.snap)
      BY <1>3 DEF StoreSnapshot
    <2>2. rd.snap # NoSnapshot /\ rd.snap \in Snapshot /\ rd.snap.index <= MaxIndex
      BY <1>1, <2>1 DEF ReadyShape
    <2>3. CallShape(view.hs)
      BY <1>1, <2>1, <2>2, SnapshotCall
    <2> QED BY <1>2, <2>1, <2>2, <2>3, CallStep DEF Storing
  <1>4. CASE RestoreSnapshot
    <2>1. pc = "restore" /\ pc' = Stage("append", rd) /\ set_applied_index(rd.snap.index)
      BY <1>4 DEF RestoreSnapshot
    <2>2. rd.snap.index \in Nat
      BY <1>1, <2>1 DEF ReadyShape, Snapshot
    <2>3. CallShape(view.hs)
      BY <1>1, <2>1, <2>2, AppliedCall
    <2>4. /\ pc' \in {"append", "hardstate", "persisted"}
          /\ pc' = "hardstate" => rd.has_hs
          /\ pc' = "persisted" => ~rd.has_hs
      BY <2>1, StageIs
    <2> QED BY <1>2, <2>1, <2>3, <2>4, CallStep DEF Storing
  <1>5. CASE AppendEntries
    <2>1. pc = "append" /\ pc' = Stage("hardstate", rd) /\ append(rd.base, rd.ents)
      BY <1>5 DEF AppendEntries
    <2>2. CallShape(view.hs)
      BY <1>1, <2>1, AppendCall DEF ReadyShape
    <2>3. /\ pc' \in {"hardstate", "persisted"}
          /\ pc' = "hardstate" => rd.has_hs
          /\ pc' = "persisted" => ~rd.has_hs
      BY <2>1 DEF Stage
    <2> QED BY <1>2, <2>1, <2>2, <2>3, CallStep DEF Storing
  <1>6. CASE PersistHardState
    <2>1. pc = "hardstate" /\ pc' = "persisted" /\ set_hardstate(rd.hs)
      BY <1>6 DEF PersistHardState
    <2>2. CallShape(rd.hs) /\ todo' # << >>
      BY <1>1, <2>1, HardStateCall DEF ReadyShape
    <2>3. rd.has_hs
      BY <2>1 DEF Inv, Kept, Handed
    <2> QED BY <1>2, <2>1, <2>2, <2>3, CallStep DEF Storing
  <1> QED BY <1>3, <1>4, <1>5, <1>6

\* Applying an entry stores an index at most.
LEMMA ApplyEntryStep ==
    ASSUME Inv, ApplyEntry
    PROVE  Inv'
  <1>1. /\ pc \in {"apply", "light"} /\ pc' = pc /\ batch # << >> /\ batch' = Tail(batch)
        /\ rd' = rd /\ hs' = hs /\ prev_hs' = prev_hs /\ role' = role
        /\ unstable' = unstable /\ offset' = offset /\ usnap' = usnap
        /\ persisted' = persisted /\ since' = since
        /\ msgs' = msgs /\ sent' = sent
        /\ \/ UNCHANGED <<view, disk, todo, busy>>
           \/ set_applied_index(batch[1].index)
    BY DEF ApplyEntry, coreVars, storageVars
  <1>2. StoreShape /\ CoreShape /\ ReadyShape
    BY DEF Inv, Shape
  <1>3. Batch(batch') /\ batch[1].index \in Nat
    BY <1>1, <1>2, TailBatch DEF ReadyShape
  <1>4. CASE set_applied_index(batch[1].index)
    <2>1. CallShape(view.hs)
      BY <1>2, <1>3, <1>4, AppliedCall
    <2>2. pc # "hardstate" /\ pc \notin Storing
      BY <1>1 DEF Storing
    <2> QED BY <1>1, <1>3, <2>1, <2>2, CallStep
  <1>5. CASE UNCHANGED <<view, disk, todo, busy>>
    <2>1. StoreShape'
      BY <1>2, <1>5 DEF StoreShape, Bounded
    <2>2. CoreShape'
      BY <1>1, <1>2 DEF CoreShape
    <2>3. ReadyShape'
      BY <1>1, <1>2, <1>3 DEF ReadyShape, Batch
    <2>4. HsWritten' /\ Handed'
      BY <1>1, <1>5 DEF Inv, Kept, HsWritten, Handed
    <2>5. Elected' /\ Backed'
      BY <1>1, <1>5 DEF Inv, Kept, Elected, Backed, Queued, VotesDurable
    <2> QED BY <2>1, <2>2, <2>3, <2>4, <2>5 DEF Inv, Kept, Shape
  <1> QED BY <1>1, <1>4, <1>5

\* The messages that waited go out once the hard state they rest on has been
\* stored: its call has returned.
LEMMA SendPersistedStep ==
    ASSUME Inv, SendPersisted
    PROVE  Inv'
  <1>1. /\ pc = "persisted" /\ ~busy /\ pc' = "apply"
        /\ sent' = sent \cup rd.persisted_msgs /\ batch' = rd.committed
        /\ UNCHANGED <<view, disk, todo, busy, rd, hs, prev_hs, role, unstable, offset,
                       usnap, persisted, since, msgs>>
    BY DEF SendPersisted, coreVars, storageVars
  <1>2. disk = view /\ todo = << >> /\ SameVote(view.hs, hs)
    BY <1>1 DEF Inv, Kept, HsWritten, Handed
  <1>3. Shape'
    <2>1. StoreShape'
      BY <1>1 DEF Inv, Shape, StoreShape, Bounded
    <2>2. CoreShape'
      BY <1>1 DEF Inv, Shape, CoreShape, Outside
    <2>3. Batch(batch)' /\ Batch(rd.committed)'
      BY <1>1 DEF Inv, Shape, ReadyShape, Batch
    <2>4. ReadyShape'
      BY <1>1, <2>3 DEF Inv, Shape, ReadyShape, Pcs
    <2> QED BY <2>1, <2>2, <2>4 DEF Shape
  <1>4. HsWritten'
    BY <1>1, <1>2 DEF Inv, Kept, HsWritten
  <1>5. Handed'
    BY <1>1, <1>2 DEF Inv, Kept, Handed, Inputs, Storing
  <1>6. Elected'
    BY <1>1 DEF Inv, Kept, Elected
  <1>7. Backed'
    <2>1. \A m \in rd.persisted_msgs : Named(m) /\ (Binding(m) => Covers(hs, m))
      BY <1>1 DEF Inv, Kept, Backed, Storing
    <2>2. \A m : Covers(hs, m) => Covers(disk.hs, m)
      BY <1>2 DEF SameVote, Covers
    <2>3. VotesDurable'
      BY <1>1, <2>1, <2>2 DEF Inv, Kept, Backed, VotesDurable, Binding
    <2> QED BY <1>1, <2>1, <2>3 DEF Inv, Kept, Backed, Queued, Storing
  <1> QED BY <1>3, <1>4, <1>5, <1>6, <1>7 DEF Inv, Kept

\* Advancing moves the commit index only, in both hard states.
LEMMA AdvanceStep ==
    ASSUME Inv, Advance
    PROVE  Inv'
  <1> DEFINE stored == IF rd.ents # << >> THEN rd.base + Len(rd.ents)
                       ELSE IF rd.snap # NoSnapshot THEN rd.snap.index ELSE 0
             top == Greater(persisted, stored)
             commit == IF role = "Leader" /\ Peers = {} /\ term(view, top) = hs.term
                       THEN Greater(hs.commit, top) ELSE hs.commit
             deliver == NextEntries(Lesser(commit, top), view, since)
  <1>1. /\ pc = "apply" /\ pc' = "light"
        /\ unstable' = << >> /\ offset' = offset + Len(unstable) /\ usnap' = NoSnapshot
        /\ persisted' = top /\ hs' = [hs EXCEPT !.commit = commit] /\ prev_hs' = hs'
        /\ since' = LastOf(deliver, since) /\ batch' = deliver
        /\ UNCHANGED <<view, disk, todo, busy, rd, role, msgs, sent>>
    BY DEF Advance, storageVars
  <1>2. StoreShape /\ CoreShape /\ ReadyShape /\ Bounded(view)
    BY DEF Inv, Shape, StoreShape
  <1>3. stored \in Nat
    BY <1>2 DEF ReadyShape, Snapshot
  <1>4. top \in Nat
    <2> HIDE DEF stored
    <2> QED BY <1>2, <1>3 DEF Greater, CoreShape
  <1>5. hs.commit \in Nat /\ hs \in HardState
    BY <1>2 DEF CoreShape, HardState
  <1>6. commit \in Nat
    <2> HIDE DEF top
    <2> QED BY <1>4, <1>5 DEF Greater
  <1>7. Batch(deliver) /\ LastOf(deliver, since) \in Nat
    <2> HIDE DEF top, commit
    <2>1. Lesser(commit, top) \in Nat /\ since \in Nat
      BY <1>2, <1>4, <1>6 DEF Lesser, CoreShape
    <2> QED BY <1>2, <2>1, NextEntriesBatch
  <1> HIDE DEF stored, top, commit, deliver
  <1>8. hs' = [term |-> hs.term, vote |-> hs.vote, commit |-> commit]
    BY <1>1, <1>5 DEF HardState
  <1>9. hs' \in HardState /\ hs'.term = hs.term /\ hs'.vote = hs.vote
    BY <1>5, <1>6, <1>8 DEF HardState
  <1>10. Shape'
    <2>1. StoreShape'
      BY <1>1, <1>2 DEF StoreShape, Bounded
    <2>2. CoreShape'
      <3>1. offset' \in Nat \ {0} /\ offset' + 0 <= MaxIndex + 1
        BY <1>1, <1>2, LoopConstants DEF CoreShape
      <3>2. Len(unstable') = 0 /\ unstable' \in Seq(Entry)
        BY <1>1
      <3> QED BY <1>1, <1>2, <1>4, <1>7, <1>9, <3>1, <3>2 DEF CoreShape, Outside
    <2>3. Batch(batch)' /\ Batch(rd.committed)'
      BY <1>1, <1>2, <1>7 DEF ReadyShape, Batch
    <2>4. ReadyShape'
      BY <1>1, <1>2, <2>3 DEF ReadyShape, Pcs
    <2> QED BY <2>1, <2>2, <2>4 DEF Shape
  <1>11. HsWritten'
    BY <1>1 DEF Inv, Kept, HsWritten
  <1>12. Handed'
    <2>1. SameVote(view.hs, hs)
      BY <1>1 DEF Inv, Kept, Handed
    <2> QED BY <1>1, <1>9, <2>1 DEF Handed, SameVote, Inputs, Storing
  <1>13. Elected'
    BY <1>1, <1>9 DEF Inv, Kept, Elected
  <1>14. Backed'
    BY <1>1 DEF Inv, Kept, Backed, Queued, VotesDurable, Storing
  <1> QED BY <1>10, <1>11, <1>12, <1>13, <1>14 DEF Inv, Kept

\* The cycle ends with the four hard states in agreement.
LEMMA ReadyDoneStep ==
    ASSUME Inv, ReadyDone
    PROVE  Inv'
  <1>1. /\ pc = "light" /\ pc' = "input" /\ rd' = NoReady
        /\ UNCHANGED <<view, disk, todo, busy, batch, hs, prev_hs, role, unstable,
                       offset, usnap, persisted, since, msgs, sent>>
    BY DEF ReadyDone, coreVars, worldVars, storageVars
  <1>2. Shape'
    <2>1. StoreShape' /\ CoreShape'
      BY <1>1 DEF Inv, Shape, StoreShape, CoreShape, Bounded, Outside
    <2>2. Batch(batch)' /\ Batch(rd.committed)'
      BY <1>1, EmptyBatch DEF Inv, Shape, ReadyShape, Batch, NoReady
    <2>3. rd'.snap = NoSnapshot /\ rd'.base = 0 /\ rd'.ents = << >>
          /\ rd'.has_hs = FALSE /\ rd'.hs = NoHardState
      BY <1>1 DEF NoReady
    <2>4. NoHardState \in HardState /\ MaxIndex \in Nat
      BY LoopConstants DEF NoHardState, HardState
    <2>5. rd'.ents \in Seq(Entry) /\ rd'.base \in Nat
          /\ rd'.base + Len(rd'.ents) <= MaxIndex
      BY <2>3, <2>4
    <2>6. ReadyShape'
      BY <1>1, <2>2, <2>3, <2>4, <2>5 DEF ReadyShape, Pcs
    <2> QED BY <2>1, <2>6 DEF Shape
  <1>3. HsWritten'
    BY <1>1 DEF Inv, Kept, HsWritten
  <1>4. Handed'
    <2>1. SameVote(view.hs, hs) /\ prev_hs = hs /\ hs \in HardState
      BY <1>1 DEF Inv, Kept, Handed, Shape, CoreShape
    <2> QED BY <1>1, <2>1, YieldsIsReflexive DEF Handed, Inputs, Storing
  <1>5. Elected' /\ Backed'
    BY <1>1 DEF Inv, Kept, Elected, Backed, Queued, VotesDurable, Storing
  <1> QED BY <1>2, <1>3, <1>4, <1>5 DEF Inv, Kept

\* process_ready keeps the invariant.
LEMMA ProcessReadyStep == ASSUME Inv, ProcessReady PROVE Inv'
  BY NothingReadyStep, TakeReadyStep, StoringStep, SendPersistedStep, ApplyEntryStep,
     AdvanceStep, ReadyDoneStep
  DEF ProcessReady

----------------------------------------------------------------------------
(* Writes, starts, crashes.                                                *)

\* A disk that moves to a hard state which yields to none of its own keeps
\* every message backed.
LEMMA DiskMoves ==
    ASSUME Inv, disk.hs \in HardState, disk'.hs \in HardState, Yields(disk.hs, disk'.hs),
           hs' = hs, role' = role, msgs' = msgs, sent' = sent, pc' = pc, rd' = rd
    PROVE  Elected' /\ Backed'
  <1>1. hs.term \in Nat
    BY DEF Inv, Shape, CoreShape, HardState
  <1>2. Elected'
    <2>1. Covers(disk.hs, Leads(hs.term)) => Covers(disk'.hs, Leads(hs.term))
      <3>1. Named(Leads(hs.term)) /\ Binding(Leads(hs.term))
        BY <1>1, LeadsIsNamed DEF Leads, Binding
      <3> QED BY <3>1, CoversStays
    <2> QED BY <2>1 DEF Inv, Kept, Elected
  <1>3. \A m : Named(m) /\ Binding(m) /\ Covers(disk.hs, m) => Covers(disk'.hs, m)
    BY CoversStays
  <1>4. Backed'
    BY <1>3 DEF Inv, Kept, Backed, Queued, VotesDurable, Binding
  <1> QED BY <1>2, <1>4

\* A write and a flush move the store towards the hard state being stored.
LEMMA StorageStepKeeps ==
    ASSUME Inv, Storage
    PROVE  Inv'
  <1>1. /\ StorageStep
        /\ UNCHANGED <<pc, rd, batch, hs, prev_hs, role, unstable, offset, usnap,
                       persisted, since, msgs, sent>>
    BY DEF Storage, loopVars, coreVars, worldVars
  <1> DEFINE idle == UNCHANGED <<view, disk, todo>>
             write == /\ todo # << >> /\ view' = todo[1] /\ 1 \in DOMAIN todo
                      /\ UNCHANGED <<disk, busy>> /\ busy
                      /\ \A k \in DOMAIN todo' : \E j \in DOMAIN todo : todo'[k] = todo[j]
             flush == disk' = view /\ UNCHANGED <<view, todo>>
                      /\ (busy' = busy \/ todo = << >>)
  <1>2. StoreShape' /\ (idle \/ write \/ flush)
        /\ (~busy' => ~busy \/ (disk' = view' /\ todo' = << >>))
    BY <1>1, StepShape DEF Inv, Shape
  <1>3. /\ view.hs \in HardState /\ disk.hs \in HardState
        /\ view'.hs \in HardState /\ disk'.hs \in HardState /\ hs \in HardState
    BY <1>2 DEF Inv, Shape, StoreShape, Bounded, IsStore, CoreShape
  <1>4. Shape'
    <2>1. CoreShape' /\ ReadyShape'
      BY <1>1 DEF Inv, Shape, CoreShape, ReadyShape, Batch
    <2> QED BY <1>2, <2>1 DEF Shape
  <1> DEFINE stores == pc = "persisted" /\ rd.has_hs
  <1>5. /\ \A k \in DOMAIN todo : todo[k].hs = IF stores THEN rd.hs ELSE view.hs
        /\ Yields(disk.hs, view.hs)
        /\ ~busy => disk = view /\ todo = << >>
        /\ stores => rd.hs = hs /\ Yields(view.hs, hs)
    BY DEF Inv, Kept, HsWritten, Handed
  <1>6. CASE idle
    <2>1. HsWritten'
      BY <1>1, <1>2, <1>5, <1>6 DEF HsWritten
    <2>2. Handed'
      BY <1>1, <1>6 DEF Inv, Kept, Handed
    <2>3. Elected' /\ Backed'
      BY <1>1, <1>3, <1>6, DiskMoves, YieldsIsReflexive
    <2> QED BY <1>4, <2>1, <2>2, <2>3 DEF Inv, Kept
  <1>7. CASE flush
    <2>1. HsWritten'
      BY <1>1, <1>2, <1>3, <1>5, <1>7, YieldsIsReflexive DEF HsWritten
    <2>2. Handed'
      BY <1>1, <1>7 DEF Inv, Kept, Handed
    <2>3. Elected' /\ Backed'
      BY <1>1, <1>3, <1>5, <1>7, DiskMoves
    <2> QED BY <1>4, <2>1, <2>2, <2>3 DEF Inv, Kept
  <1>8. CASE write
    <2>1. view'.hs = IF stores THEN hs ELSE view.hs
      BY <1>5, <1>8
    <2>2. \A k \in DOMAIN todo' : todo'[k].hs = IF stores THEN rd.hs ELSE view'.hs
      BY <1>5, <1>8, <2>1
    <2>3. Yields(disk.hs, view'.hs)
      BY <1>3, <1>5, <2>1, YieldsIsTransitive
    <2>4. HsWritten'
      BY <1>1, <1>8, <2>2, <2>3 DEF HsWritten
    <2>5. Handed'
      <3>1. CASE stores
        <4>1. Yields(view'.hs, hs) /\ SameVote(view'.hs, hs)
          BY <1>3, <2>1, <3>1, YieldsIsReflexive DEF SameVote
        <4> QED BY <1>1, <3>1, <4>1 DEF Inv, Kept, Handed, Inputs, Storing
      <3>2. CASE ~stores
        BY <1>1, <2>1, <3>2 DEF Inv, Kept, Handed
      <3> QED BY <3>1, <3>2
    <2>6. Elected' /\ Backed'
      BY <1>1, <1>3, <1>8, DiskMoves, YieldsIsReflexive
    <2> QED BY <1>4, <2>4, <2>5, <2>6 DEF Inv, Kept
  <1> QED BY <1>2, <1>6, <1>7, <1>8

\* Giving a new store its configuration leaves its hard state alone.
LEMMA InitializeConfStep ==
    ASSUME Inv, InitializeConf
    PROVE  Inv'
  <1> DEFINE s == [index |-> 0, term |-> 0, conf |-> Voters, data |-> NoData]
  <1>1. /\ pc = "open" /\ pc' = "new"
        /\ apply_snapshot(s) \/ UNCHANGED <<view, disk, todo, busy>>
        /\ UNCHANGED <<rd, batch, hs, prev_hs, role, unstable, offset, usnap, persisted,
                       since, msgs, sent>>
    BY DEF InitializeConf, coreVars, worldVars, storageVars
  <1>2. s \in Snapshot /\ s.index <= MaxIndex
    BY StorageConstants, LoopConstants DEF Snapshot
  <1> HIDE DEF s
  <1>3. /\ StoreShape' /\ view' = view /\ disk' = disk
        /\ \/ todo' = todo /\ busy' = busy
           \/ busy' /\ \A k \in DOMAIN todo' : todo'[k].hs = view.hs
    <2>1. CASE apply_snapshot(s)
      BY <1>2, <2>1, SnapshotCall DEF Inv, Shape, CallShape
    <2>2. CASE UNCHANGED <<view, disk, todo, busy>>
      BY <2>2 DEF Inv, Shape, StoreShape, Bounded
    <2> QED BY <1>1, <2>1, <2>2
  <1>4. CoreShape' /\ ReadyShape'
    BY <1>1 DEF Inv, Shape, CoreShape, ReadyShape, Batch, Outside, Pcs
  <1>5. HsWritten'
    BY <1>1, <1>3 DEF Inv, Kept, HsWritten
  <1>6. Handed'
    BY <1>1 DEF Handed, Inputs, Storing
  <1>7. Elected' /\ Backed'
    BY <1>1, <1>3 DEF Inv, Kept, Elected, Backed, Queued, VotesDurable, Storing
  <1> QED BY <1>3, <1>4, <1>5, <1>6, <1>7 DEF Inv, Kept, Shape

\* A restarted server resumes with the vote it has stored.
LEMMA NewRaftNodeStep ==
    ASSUME Inv, NewRaftNode
    PROVE  Inv'
  <1> DEFINE commit == IF view.hs = NoHardState THEN first_index(view) - 1
                       ELSE view.hs.commit
  <1>1. /\ pc = "new"
        /\ UNCHANGED <<view, disk, todo, busy, rd, batch, role, unstable, usnap, since,
                       msgs, sent>>
        /\ \/ /\ pc' = "input" /\ hs' = [view.hs EXCEPT !.commit = commit]
              /\ prev_hs' = hs' /\ offset' = last_index(view) + 1
              /\ persisted' = last_index(view)
           \/ pc' = "panicked" /\ UNCHANGED <<hs, prev_hs, offset, persisted>>
    BY DEF NewRaftNode, worldVars, storageVars
  <1>2. StoreShape /\ CoreShape /\ ReadyShape /\ Bounded(view) /\ view.hs \in HardState
    BY DEF Inv, Shape, StoreShape, Bounded, IsStore
  <1>3. role = "Follower" /\ unstable = << >> /\ msgs = {}
    BY <1>1, <1>2 DEF CoreShape, Outside, Inv, Kept, Backed
  <1>4. /\ StoreShape' /\ HsWritten'
        /\ pc' \notin Storing \cup {"persisted", "apply", "light"}
    BY <1>1, <1>2 DEF StoreShape, Bounded, Inv, Kept, HsWritten, Storing
  <1>5. ReadyShape'
    BY <1>1, <1>2 DEF ReadyShape, Batch, Pcs
  <1>6. Elected' /\ Backed'
    BY <1>1, <1>3, <1>4 DEF Inv, Kept, Elected, Backed, Queued, VotesDurable
  <1>7. CASE /\ pc' = "input" /\ hs' = [view.hs EXCEPT !.commit = commit]
             /\ prev_hs' = hs' /\ offset' = last_index(view) + 1
             /\ persisted' = last_index(view)
    <2>1. commit \in Nat
      BY <1>2, FirstIsNat DEF HardState
    <2>2. last_index(view) \in 0..MaxIndex /\ MaxIndex \in Nat
      BY <1>2, LastIsBounded, LoopConstants
    <2> HIDE DEF commit
    <2>3. hs' = [term |-> view.hs.term, vote |-> view.hs.vote, commit |-> commit]
      BY <1>2, <1>7 DEF HardState
    <2>4. hs' \in HardState /\ hs'.term = view.hs.term /\ hs'.vote = view.hs.vote
      BY <1>2, <2>1, <2>3 DEF HardState
    <2>5. Len(unstable) = 0
      BY <1>3
    <2>6. CoreShape'
      BY <1>1, <1>2, <1>7, <2>2, <2>4, <2>5 DEF CoreShape, Outside
    <2>7. SameVote(view.hs, prev_hs)' /\ Yields(prev_hs, hs)'
      BY <1>1, <1>7, <2>4, YieldsIsReflexive DEF SameVote
    <2>8. Handed'
      BY <1>4, <1>7, <2>7 DEF Handed, Storing
    <2> QED BY <1>4, <1>5, <1>6, <2>6, <2>8 DEF Inv, Kept, Shape
  <1>8. CASE pc' = "panicked" /\ UNCHANGED <<hs, prev_hs, offset, persisted>>
    <2>1. CoreShape'
      BY <1>1, <1>2, <1>3, <1>8 DEF CoreShape
    <2>2. Handed'
      BY <1>4, <1>8 DEF Handed, Inputs, Storing
    <2> QED BY <1>4, <1>5, <1>6, <2>1, <2>2 DEF Inv, Kept, Shape
  <1> QED BY <1>1, <1>7, <1>8

\* The memory of a process before its node is built, at the start and after
\* a shutdown or a crash.
LEMMA FreshCore ==
    ASSUME StoreShape', HsWritten', VotesDurable', \A m \in sent' : Named(m),
           pc' \in Outside, FreshMemory
    PROVE  Inv'
  <1>1. pc' \in Pcs /\ pc' \notin Inputs \cup Storing \cup {"persisted", "apply", "light", "tick"}
    BY DEF Outside, Pcs, Inputs, Storing
  <1>2. CoreShape'
    <2>1. NoHardState \in HardState /\ MaxIndex \in Nat
      BY LoopConstants DEF NoHardState, HardState
    <2>2. << >> \in Seq(Entry) /\ Len(<< >>) = 0
      OBVIOUS
    <2> QED BY <2>1, <2>2 DEF FreshMemory, CoreShape
  <1>3. ReadyShape'
    <2>1. Batch(batch)' /\ Batch(rd.committed)'
      BY EmptyBatch DEF FreshMemory, Batch, NoReady
    <2>2. rd'.snap = NoSnapshot /\ rd'.base = 0 /\ rd'.ents = << >>
          /\ rd'.has_hs = FALSE /\ rd'.hs = NoHardState
      BY DEF FreshMemory, NoReady
    <2>3. NoHardState \in HardState /\ MaxIndex \in Nat
      BY LoopConstants DEF NoHardState, HardState
    <2>4. rd'.ents \in Seq(Entry) /\ rd'.base \in Nat
          /\ rd'.base + Len(rd'.ents) <= MaxIndex
      BY <2>2, <2>3
    <2>5. pc' \notin {"snapshot", "restore"}
      BY DEF Outside
    <2> QED BY <1>1, <2>1, <2>2, <2>3, <2>4, <2>5 DEF ReadyShape
  <1>4. Handed'
    BY <1>1 DEF Handed, Storing
  <1>5. Elected' /\ Backed'
    BY <1>1 DEF FreshMemory, Elected, Backed, Queued
  <1> QED BY <1>2, <1>3, <1>4, <1>5 DEF Inv, Kept, Shape

\* A shutdown loses memory only.
LEMMA ShutdownStep ==
    ASSUME Inv, Shutdown
    PROVE  Inv'
  <1>1. /\ pc = "input" /\ pc' = "stopped" /\ FreshMemory
        /\ UNCHANGED <<view, disk, todo, busy, sent>>
    BY DEF Shutdown, storageVars
  <1>2. StoreShape'
    BY <1>1 DEF Inv, Shape, StoreShape, Bounded
  <1>3. HsWritten'
    BY <1>1 DEF Inv, Kept, HsWritten
  <1>4. VotesDurable' /\ \A m \in sent' : Named(m)
    BY <1>1 DEF Inv, Kept, Backed, VotesDurable
  <1> QED BY <1>1, <1>2, <1>3, <1>4, FreshCore DEF Outside

\* A crash leaves what was on disk, which backs what was sent.
LEMMA CrashStep ==
    ASSUME Inv, Crash
    PROVE  Inv'
  <1>1. /\ pc' = "open" /\ FreshMemory /\ sent' = sent
        /\ view' = disk /\ disk' = disk /\ todo' = << >> /\ busy' = FALSE
    BY DEF Crash, Reopen
  <1>2. StoreShape'
    <2>1. Bounded(disk)
      BY DEF Inv, Shape, StoreShape
    <2>2. Bounded(view)' /\ Bounded(disk)'
      BY <1>1, <2>1 DEF Bounded
    <2>3. todo' \in Seq(Contents(todo')) /\ DOMAIN todo' = {}
      BY <1>1
    <2> QED BY <1>1, <2>2, <2>3 DEF StoreShape
  <1>3. disk.hs \in HardState
    BY DEF Inv, Shape, StoreShape, Bounded, IsStore
  <1>4. HsWritten'
    BY <1>1, <1>3, YieldsIsReflexive DEF HsWritten
  <1>5. VotesDurable' /\ \A m \in sent' : Named(m)
    BY <1>1 DEF Inv, Kept, Backed, VotesDurable
  <1> QED BY <1>1, <1>2, <1>4, <1>5, FreshCore DEF Outside

\* A new server has sent nothing.
LEMMA InvInitially == ASSUME Init PROVE Inv
  <1>1. /\ view = EmptyStore /\ disk = EmptyStore /\ todo = << >> /\ busy = FALSE
        /\ pc = "open" /\ rd = NoReady /\ batch = << >>
        /\ hs = NoHardState /\ prev_hs = NoHardState /\ role = "Follower"
        /\ unstable = << >> /\ offset = 1 /\ usnap = NoSnapshot
        /\ persisted = 0 /\ since = 0 /\ msgs = {} /\ sent = {}
    BY DEF Init, StorageInit
  <1>2. NoHardState \in HardState /\ MaxIndex \in Nat
    BY LoopConstants DEF NoHardState, HardState
  <1>3. StoreShape
    <2>1. Bounded(EmptyStore)
      BY <1>2 DEF EmptyStore, Bounded, IsStore
    <2>2. todo \in Seq(Contents(todo)) /\ DOMAIN todo = {}
      BY <1>1
    <2> QED BY <1>1, <2>1, <2>2 DEF StoreShape
  <1>4. CoreShape
    <2>1. << >> \in Seq(Entry) /\ Len(<< >>) = 0
      OBVIOUS
    <2> QED BY <1>1, <1>2, <2>1 DEF CoreShape
  <1>5. ReadyShape
    <2>1. rd.snap = NoSnapshot /\ rd.base = 0 /\ rd.ents = << >> /\ rd.has_hs = FALSE
          /\ rd.hs = NoHardState /\ rd.committed = << >>
      BY <1>1 DEF NoReady
    <2>2. rd.ents \in Seq(Entry) /\ rd.base \in Nat /\ rd.base + Len(rd.ents) <= MaxIndex
      BY <1>2, <2>1
    <2> QED BY <1>1, <1>2, <2>1, <2>2, EmptyBatch DEF ReadyShape, Pcs
  <1>6. HsWritten
    <2>1. EmptyStore.hs = NoHardState
      BY DEF EmptyStore
    <2> QED BY <1>1, <1>2, <2>1, YieldsIsReflexive DEF HsWritten
  <1>7. Handed /\ Elected /\ Backed
    BY <1>1 DEF Handed, Elected, Backed, Queued, VotesDurable, Inputs, Storing
  <1> QED BY <1>3, <1>4, <1>5, <1>6, <1>7 DEF Inv, Kept, Shape

\* Every step keeps the invariant.
LEMMA InvIsInductive == ASSUME Inv, [Next]_vars PROVE Inv'
  <1>1. CASE Before
    BY <1>1, InputStep
  <1>2. CASE ProcessReady
    BY <1>2, ProcessReadyStep
  <1>3. CASE Storage
    BY <1>3, StorageStepKeeps
  <1>4. CASE Start
    BY <1>4, InitializeConfStep, NewRaftNodeStep DEF Start
  <1>5. CASE Shutdown
    BY <1>5, ShutdownStep
  <1>6. CASE Crash
    BY <1>6, CrashStep
  <1>7. CASE UNCHANGED vars
    <2>1. UNCHANGED <<view, disk, todo, busy, pc, rd, batch, hs, prev_hs, role, unstable,
                      offset, usnap, persisted, since, msgs, sent>>
      BY <1>7 DEF vars, storageVars, loopVars, coreVars, worldVars
    <2>2. Shape'
      BY <2>1 DEF Inv, Shape, StoreShape, CoreShape, ReadyShape, Bounded, Batch
    <2>3. Kept'
      BY <2>1 DEF Inv, Kept, HsWritten, Handed, Elected, Backed, Queued, VotesDurable
    <2> QED BY <2>2, <2>3 DEF Inv
  <1> QED BY <1>1, <1>2, <1>3, <1>4, <1>5, <1>6, <1>7 DEF Next, Before

----------------------------------------------------------------------------
(* One vote per term.                                                      *)

\* The messages sent and those that may still be.
Cast ==
    sent \cup msgs
    \cup (IF pc \in Storing \cup {"persisted"} THEN rd.persisted_msgs ELSE {})

Agreed ==
    \A m, n \in Cast : Binding(m) /\ Binding(n) /\ m.term = n.term => m.arg = n.arg

\* While the loop waits for input, the core's hard state covers them all.
LEMMA CastIsCovered ==
    ASSUME Inv, pc \in {"input", "tick"}, NEW m \in Cast, Binding(m)
    PROVE  Named(m) /\ Covers(hs, m)
  <1>1. /\ view.hs \in HardState /\ disk.hs \in HardState
        /\ hs \in HardState /\ prev_hs \in HardState
    BY DEF Inv, Shape, StoreShape, Bounded, IsStore, CoreShape
  <1>2. Yields(disk.hs, view.hs) /\ SameVote(view.hs, prev_hs) /\ Yields(prev_hs, hs)
    BY DEF Inv, Kept, HsWritten, Handed, Inputs
  <1>3. Yields(disk.hs, hs)
    <2>1. Yields(disk.hs, prev_hs)
      BY <1>1, <1>2, SameYields
    <2> QED BY <1>1, <1>2, <2>1, YieldsIsTransitive
  <1>4. CASE m \in sent
    <2>1. Named(m) /\ Covers(disk.hs, m)
      BY <1>4 DEF Inv, Kept, Backed, VotesDurable, Binding
    <2> QED BY <1>1, <1>3, <2>1, CoversStays
  <1>5. CASE m \in msgs
    BY <1>5 DEF Inv, Kept, Backed, Queued
  <1> QED BY <1>4, <1>5 DEF Cast, Storing

\* Only an input brings a new message.
LEMMA CastStays ==
    ASSUME Inv, ProcessReady \/ Storage \/ Start \/ Shutdown \/ Crash \/ UNCHANGED vars
    PROVE  Cast' \subseteq Cast
  <1>1. CASE NothingReady \/ ReadyDone
    BY <1>1 DEF NothingReady, ReadyDone, Cast, Storing, coreVars, worldVars
  <1>2. CASE TakeReady
    <2>1. /\ rd'.msgs \subseteq msgs /\ rd'.persisted_msgs \subseteq msgs /\ msgs' = {}
          /\ sent' = sent \cup rd'.msgs
      BY <1>2 DEF TakeReady
    <2> QED BY <2>1 DEF Cast
  <1>3. CASE StoreSnapshot \/ RestoreSnapshot \/ AppendEntries \/ PersistHardState
    <2>1. sent' = sent /\ msgs' = msgs /\ rd' = rd /\ pc \in Storing
      BY <1>3 DEF StoreSnapshot, RestoreSnapshot, AppendEntries, PersistHardState, Storing,
                  coreVars, worldVars
    <2> QED BY <2>1 DEF Cast
  <1>4. CASE SendPersisted
    BY <1>4 DEF SendPersisted, Cast, Storing, coreVars
  <1>5. CASE ApplyEntry
    BY <1>5 DEF ApplyEntry, Cast, coreVars
  <1>6. CASE Advance
    BY <1>6 DEF Advance, Cast, Storing
  <1>7. CASE Storage
    BY <1>7 DEF Storage, Cast, loopVars, coreVars, worldVars
  <1>8. CASE Start
    BY <1>8 DEF Start, InitializeConf, NewRaftNode, Cast, Storing, coreVars, worldVars
  <1>9. CASE Shutdown \/ Crash
    BY <1>9 DEF Shutdown, Crash, FreshMemory, Cast, Storing
  <1>10. CASE UNCHANGED vars
    BY <1>10 DEF vars, loopVars, coreVars, worldVars, Cast
  <1> QED BY <1>1, <1>2, <1>3, <1>4, <1>5, <1>6, <1>7, <1>8, <1>9, <1>10 DEF ProcessReady

\* A new vote is the core's, and so agrees with every earlier one of its
\* term.
LEMMA AgreedStays == ASSUME Inv, Agreed, [Next]_vars PROVE Agreed'
  <1>1. CASE Before
    <2>1. InputResult /\ pc \in {"input", "tick"} /\ pc' \in {"tick", "ready"}
      BY <1>1, EveryInput
    <2>2. NewVotes /\ Yields(hs, hs') /\ sent' = sent /\ hs' \in HardState
      BY <2>1 DEF InputResult, CoreResult
    <2>3. hs \in HardState
      BY DEF Inv, Shape, CoreShape
    <2>4. ASSUME NEW m \in Cast', Binding(m)
          PROVE  m \in Cast \/ (m.term = hs'.term /\ m.arg = hs'.vote)
      BY <2>1, <2>2, <2>4 DEF Cast, NewVotes, Storing
    <2>5. ASSUME NEW m \in Cast, Binding(m) PROVE Covers(hs', m)
      BY <2>1, <2>2, <2>3, <2>5, CastIsCovered, CoversStays
    <2>6. ASSUME NEW m \in Cast, Binding(m), m.term = hs'.term PROVE m.arg = hs'.vote
      BY <2>2, <2>5, <2>6 DEF Covers, HardState
    <2> QED BY <2>4, <2>6 DEF Agreed
  <1>2. CASE ~Before
    <2>1. ProcessReady \/ Storage \/ Start \/ Shutdown \/ Crash \/ UNCHANGED vars
      BY <1>2 DEF Next, Before
    <2> QED BY <2>1, CastStays DEF Agreed
  <1> QED BY <1>1, <1>2

----------------------------------------------------------------------------
(* The theorems.                                                           *)

\* Every vote this server has given, its own candidacy and its leadership
\* included, is backed by the hard state on disk, after any number of
\* crashes: process_ready stores the hard state before it sends a follower's
\* or a candidate's messages, and a leader's earlier messages rest on the
\* vote it stored as a candidate.
THEOREM VotesStayDurable == Spec => []VotesDurable
  <1>1. Init => Inv
    BY InvInitially
  <1>2. Inv /\ [Next]_vars => Inv'
    BY InvIsInductive
  <1>3. Inv => VotesDurable
    BY DEF Inv, Kept, Backed
  <1> QED BY <1>1, <1>2, <1>3, PTL DEF Spec

\* No two messages of a server, in any number of lives, give its vote in one
\* term to two candidates: the core covers every message it queues, the disk
\* every message that was sent, and RaftNode::new resumes with what is on
\* disk.
THEOREM VotesOnce == Spec => []OneVotePerTerm
  <1>1. Init => Inv /\ Agreed
    <2>1. Init => Agreed
      BY DEF Init, Agreed, Cast, Storing
    <2> QED BY <2>1, InvInitially
  <1>2. (Inv /\ Agreed) /\ [Next]_vars => (Inv /\ Agreed)'
    BY InvIsInductive, AgreedStays
  <1>3. Inv /\ Agreed => OneVotePerTerm
    BY DEF Agreed, Cast, OneVotePerTerm, Binding
  <1> QED BY <1>1, <1>2, <1>3, PTL DEF Spec
=============================================================================
