------------------------- MODULE DiskStorageLemmas -------------------------
(***************************************************************************)
(* Facts about the operators of DiskStorage, used by the proofs of the     *)
(* modules that drive it.                                                  *)
(***************************************************************************)
EXTENDS DiskStorage, TLAPS, SequenceTheorems, WellFoundedInduction

(* The elements of `todo` are reached one by one, by Head and Tail: a      *)
(* sequence is one over its own elements, and what Write leaves of it has  *)
(* no others.                                                              *)
LEMMA SeqOfContents ==
    ASSUME NEW S, NEW q \in Seq(S)
    PROVE  q \in Seq(Contents(q))
  <1>1. Len(q) \in Nat /\ DOMAIN q = 1..Len(q) /\ q \in [1..Len(q) -> S]
    BY LenProperties
  <1>2. q \in [1..Len(q) -> Contents(q)]
    BY <1>1 DEF Contents
  <1> QED BY <1>1, <1>2, SeqDef

\* The contents of a sequence, of its head and of its tail.
LEMMA TailContents ==
    ASSUME NEW q, q \in Seq(Contents(q)), q # << >>
    PROVE  /\ Head(q) \in Contents(q)
           /\ Tail(q) \in Seq(Contents(Tail(q)))
           /\ Contents(Tail(q)) \subseteq Contents(q)
           /\ Tail(q) = << >> => Head(q) = q[Len(q)]
           /\ Tail(q) # << >> => Tail(q)[Len(Tail(q))] = q[Len(q)]
  <1>1. /\ Head(q) \in Contents(q) /\ Tail(q) \in Seq(Contents(q))
        /\ Len(Tail(q)) = Len(q) - 1
        /\ \A i \in 1..Len(Tail(q)) : Tail(q)[i] = q[i + 1]
    BY HeadTailProperties
  <1>2. Tail(q) \in Seq(Contents(Tail(q)))
    BY <1>1, SeqOfContents
  <1>3. \A k \in DOMAIN Tail(q) : Tail(q)[k] \in Contents(q)
    BY <1>1, ElementOfSeq, LenProperties
  <1>4. Contents(Tail(q)) \subseteq Contents(q)
    BY <1>3 DEF Contents
  <1>5. Len(q) \in Nat \ {0} /\ Head(q) = q[1]
    BY EmptySeq
  <1>6. ASSUME Tail(q) = << >> PROVE Head(q) = q[Len(q)]
    <2>1. Len(Tail(q)) = 0
      BY <1>6, EmptySeq
    <2>2. Len(q) = 1
      <3>1. Len(Tail(q)) = Len(q) - 1
        BY <1>1
      <3>2. Len(q) \in Int
        BY <1>5
      <3> QED BY <2>1, <3>1, <3>2, SMT
    <2> QED BY <1>5, <2>2
  <1>7. ASSUME Tail(q) # << >> PROVE Tail(q)[Len(Tail(q))] = q[Len(q)]
    <2>1. Len(Tail(q)) \in Nat \ {0}
      BY <1>1, <1>7, EmptySeq
    <2> QED BY <1>1, <1>5, <2>1
  <1> QED BY <1>1, <1>2, <1>4, <1>6, <1>7

\* A function on 1..n is a sequence of its values.
LEMMA FunctionContents ==
    ASSUME NEW n \in Nat, NEW f, f = [k \in 1..n |-> f[k]]
    PROVE  /\ f \in Seq(Contents(f)) /\ Len(f) = n
           /\ Contents(f) = {f[k] : k \in 1..n}
  <1>1. f \in [1..n -> Contents(f)]
    BY DEF Contents
  <1>2. f \in Seq(Contents(f))
    BY <1>1, SeqDef
  <1>3. DOMAIN f = 1..n
    OBVIOUS
  <1>4. Len(f) = n
    BY <1>2, <1>3, LenProperties
  <1> QED BY <1>2, <1>3, <1>4 DEF Contents

(* A non-empty bounded set of naturals has the greatest element that the   *)
(* definition of last_index chooses.                                       *)
LEMMA HighestIsGreatest ==
    ASSUME NEW N \in Nat, NEW S, S \subseteq 0..N, S # {}
    PROVE  Highest(S) \in S /\ \A j \in S : j <= Highest(S)
  <1> DEFINE T == {n \in Nat : \A j \in S : j <= n}
  <1>1. T \subseteq Nat /\ T # {}
    <2>1. N \in T
      OBVIOUS
    <2> QED BY <2>1
  <1>2. PICK n \in T : \A y \in T : ~ (<<y, n>> \in OpToRel(<, Nat))
    <2> HIDE DEF T
    <2> QED BY <1>1, NatLessThanWellFounded, WFMin
  <1>3. \A y \in T : ~ (y < n)
    BY <1>2 DEF OpToRel
  <1>4. n \in S
    <2> SUFFICES ASSUME n \notin S PROVE FALSE
      OBVIOUS
    <2>1. \A j \in S : j <= n - 1
      OBVIOUS
    <2>2. n - 1 \in T
      <3>1. PICK j : j \in S
        OBVIOUS
      <3>2. j \in Nat
        BY <3>1
      <3> QED BY <2>1, <3>1, <3>2
    <2> QED BY <2>2, <1>3
  <1>5. \E i \in S : \A j \in S : j <= i
    BY <1>4
  <1> QED BY <1>5 DEF Highest

(* What each call writes, store by store.                                  *)
LEMMA AppendWrites ==
    ASSUME NEW s, IsStore(s), NEW base \in Nat, NEW es \in Seq(Entry)
    PROVE  LET q == append_writes(s, base, es) IN
           /\ q \in Seq(Contents(q)) /\ Len(q) = Len(es)
           /\ Contents(q) = {q[k] : k \in 1..Len(es)}
           /\ \A k \in 1..Len(es) :
                /\ IsStore(q[k])
                /\ q[k].entries = InsertFirst(s.entries, base, es, k)
                /\ q[k].snap = s.snap /\ q[k].hs = s.hs
                /\ q[k].conf = s.conf /\ q[k].applied = s.applied
  <1> DEFINE q == append_writes(s, base, es)
  <1>1. Len(es) \in Nat /\ \A i \in 1..Len(es) : es[i] \in Entry
    BY LenProperties, ElementOfSeq
  <1>2. q = [k \in 1..Len(es) |-> q[k]]
    BY DEF append_writes
  <1>3. /\ q \in Seq(Contents(q)) /\ Len(q) = Len(es)
        /\ Contents(q) = {q[k] : k \in 1..Len(es)}
    <2> HIDE DEF q
    <2> QED BY <1>1, <1>2, FunctionContents
  <1>4. ASSUME NEW k \in 1..Len(es)
        PROVE  /\ IsStore(q[k])
               /\ q[k].entries = InsertFirst(s.entries, base, es, k)
               /\ q[k].snap = s.snap /\ q[k].hs = s.hs
               /\ q[k].conf = s.conf /\ q[k].applied = s.applied
    <2>1. q[k] = [s EXCEPT !.entries = InsertFirst(s.entries, base, es, k)]
      BY DEF append_writes
    <2>2. DOMAIN s = {"entries", "snap", "hs", "conf", "applied"}
      BY DEF IsStore
    <2>3. /\ DOMAIN q[k] = DOMAIN s
          /\ q[k].entries = InsertFirst(s.entries, base, es, k)
          /\ q[k].snap = s.snap /\ q[k].hs = s.hs
          /\ q[k].conf = s.conf /\ q[k].applied = s.applied
      BY <2>1, <2>2
    <2> DEFINE f == InsertFirst(s.entries, base, es, k)
    <2>4. DOMAIN f = DOMAIN s.entries \cup (base + 1)..(base + k)
      BY DEF InsertFirst
    <2>5. \A i \in DOMAIN f : f[i] \in Entry
      <3> TAKE i \in DOMAIN f
      <3>1. CASE i \in (base + 1)..(base + k)
        <4>1. i - base \in 1..Len(es)
          BY <3>1
        <4> QED BY <4>1, <3>1, <1>1 DEF InsertFirst
      <3>2. CASE i \notin (base + 1)..(base + k)
        BY <3>2, <2>4 DEF InsertFirst, IsStore
      <3> QED BY <3>1, <3>2
    <2>6. f \in [DOMAIN f -> Entry] /\ DOMAIN f \subseteq Nat
      BY <2>4, <2>5 DEF InsertFirst, IsStore
    <2> HIDE DEF f
    <2> QED BY <2>2, <2>3, <2>6 DEF IsStore, f
  <1> QED BY <1>3, <1>4

\* What the removals of compact and apply_snapshot leave, key by key.
LEMMA RemovalWrites ==
    ASSUME NEW s, IsStore(s), NEW upto \in Nat
    PROVE  LET q == removal_writes(s, upto) IN
           /\ q \in Seq(Contents(q)) /\ Len(q) = upto
           /\ Contents(q) = {q[k] : k \in 1..upto}
           /\ \A k \in 1..upto :
                /\ IsStore(q[k])
                /\ q[k].entries = Without(s.entries, 0..k)
                /\ q[k].snap = s.snap /\ q[k].hs = s.hs
                /\ q[k].conf = s.conf /\ q[k].applied = s.applied
  <1> DEFINE q == removal_writes(s, upto)
  <1>1. q = [k \in 1..upto |-> q[k]]
    BY DEF removal_writes
  <1>2. /\ q \in Seq(Contents(q)) /\ Len(q) = upto
        /\ Contents(q) = {q[k] : k \in 1..upto}
    <2> HIDE DEF q
    <2> QED BY <1>1, FunctionContents
  <1>3. ASSUME NEW k \in 1..upto
        PROVE  /\ IsStore(q[k])
               /\ q[k].entries = Without(s.entries, 0..k)
               /\ q[k].snap = s.snap /\ q[k].hs = s.hs
               /\ q[k].conf = s.conf /\ q[k].applied = s.applied
    <2>1. q[k] = [s EXCEPT !.entries = Without(s.entries, 0..k)]
      BY DEF removal_writes
    <2>2. DOMAIN s = {"entries", "snap", "hs", "conf", "applied"}
      BY DEF IsStore
    <2>3. /\ DOMAIN q[k] = DOMAIN s
          /\ q[k].entries = Without(s.entries, 0..k)
          /\ q[k].snap = s.snap /\ q[k].hs = s.hs
          /\ q[k].conf = s.conf /\ q[k].applied = s.applied
      BY <2>1, <2>2
    <2> DEFINE f == Without(s.entries, 0..k)
    <2>4. f \in [DOMAIN f -> Entry] /\ DOMAIN f \subseteq Nat
      BY DEF Without, IsStore
    <2> HIDE DEF f
    <2> QED BY <2>2, <2>3, <2>4 DEF IsStore, f
  <1> QED BY <1>2, <1>3

(* f is g without some of its lowest keys, all of them at most `upto`.     *)
IsTail(f, g, upto) ==
    /\ DOMAIN f \subseteq DOMAIN g
    /\ \A i \in DOMAIN f : f[i] = g[i]
    /\ \A i \in DOMAIN g : i > upto => i \in DOMAIN f
    /\ \A i \in DOMAIN f, j \in DOMAIN g : i <= j => j \in DOMAIN f

\* What is left of a log whose first keys are removed.
LEMMA WithoutIsTail ==
    ASSUME NEW g, DOMAIN g \subseteq Nat, NEW k \in Nat, NEW upto \in Nat, k <= upto
    PROVE  IsTail(Without(g, 0..k), g, upto)
  <1>1. DOMAIN Without(g, 0..k) = {i \in DOMAIN g : i > k}
    BY DEF Without
  <1> QED BY <1>1 DEF Without, IsTail

\* Every store of apply_snapshot has the snapshot and a tail of the log, the
\* last one its configuration.
LEMMA SnapshotWrites ==
    ASSUME NEW s, IsStore(s), NEW snapshot \in Snapshot
    PROVE  LET q == apply_snapshot_writes(s, snapshot) IN
           /\ q \in Seq(Contents(q)) /\ q # << >>
           /\ \A x \in Contents(q) :
                /\ IsStore(x)
                /\ IsTail(x.entries, s.entries, snapshot.index)
                /\ x.snap = snapshot /\ x.hs = s.hs /\ x.applied = s.applied
           /\ q[Len(q)].conf = snapshot.conf
  <1> DEFINE s1 == [s EXCEPT !.snap = snapshot]
             s2 == [s1 EXCEPT !.conf = snapshot.conf]
             r == removal_writes(s2, snapshot.index)
             q == apply_snapshot_writes(s, snapshot)
             Fine(x) == /\ IsStore(x)
                        /\ IsTail(x.entries, s.entries, snapshot.index)
                        /\ x.snap = snapshot /\ x.hs = s.hs
                        /\ x.applied = s.applied
  <1>1. snapshot.index \in Nat /\ snapshot.conf \in Confs
    BY DEF Snapshot
  <1>2. DOMAIN s = {"entries", "snap", "hs", "conf", "applied"}
    BY DEF IsStore
  <1>3. /\ DOMAIN s1 = DOMAIN s /\ s1.entries = s.entries /\ s1.snap = snapshot
        /\ s1.hs = s.hs /\ s1.conf = s.conf /\ s1.applied = s.applied
    BY <1>2
  <1>4. /\ DOMAIN s2 = DOMAIN s /\ s2.entries = s.entries /\ s2.snap = snapshot
        /\ s2.hs = s.hs /\ s2.conf = snapshot.conf /\ s2.applied = s.applied
    BY <1>2
  <1>5. IsTail(s.entries, s.entries, snapshot.index)
    BY DEF IsTail
  <1>6. Fine(s1) /\ Fine(s2)
    <2> HIDE DEF s1, s2
    <2> QED BY <1>1, <1>2, <1>3, <1>4, <1>5 DEF IsStore
  <1>7. /\ r \in Seq(Contents(r)) /\ Len(r) = snapshot.index
        /\ Contents(r) = {r[k] : k \in 1..snapshot.index}
        /\ \A k \in 1..snapshot.index :
             /\ IsStore(r[k])
             /\ r[k].entries = Without(s2.entries, 0..k)
             /\ r[k].snap = s2.snap /\ r[k].hs = s2.hs
             /\ r[k].conf = s2.conf /\ r[k].applied = s2.applied
    <2>1. IsStore(s2)
      BY <1>6
    <2> HIDE DEF s2, Fine
    <2> QED BY <1>1, <2>1, RemovalWrites, Zenon
  <1>8. \A x \in Contents(r) : Fine(x)
    <2> SUFFICES ASSUME NEW k \in 1..snapshot.index PROVE Fine(r[k])
      BY <1>7
    <2>1. IsTail(Without(s.entries, 0..k), s.entries, snapshot.index)
      BY <1>1, WithoutIsTail DEF IsStore
    <2> HIDE DEF s2, r
    <2> QED BY <1>4, <1>7, <2>1
  <1> DEFINE S == {s1, s2} \cup Contents(r)
  <1>9. q = <<s1, s2>> \o r
    BY DEF apply_snapshot_writes
  <1>10. r \in Seq(S) /\ <<s1, s2>> \in Seq(S)
    <2> HIDE DEF s1, s2, r
    <2>1. Contents(r) \subseteq S
      OBVIOUS
    <2> QED BY <1>7, <2>1, SeqMonotonic
  <1>11. q \in Seq(S) /\ q # << >>
    <2> HIDE DEF s1, s2, r, q, S
    <2>1. Len(<<s1, s2>>) = 2 /\ Len(r) \in Nat
      BY <1>10, LenProperties
    <2>2. q \in Seq(S) /\ Len(q) = 2 + Len(r)
      BY <1>9, <1>10, <2>1, ConcatProperties
    <2> QED BY <2>1, <2>2
  <1>12. q \in Seq(Contents(q))
    BY <1>11, SeqOfContents
  <1>13. \A x \in Contents(q) : x \in S
    BY <1>11, LenProperties, ElementOfSeq DEF Contents
  <1>14. \A x \in Contents(q) : Fine(x)
    <2> HIDE DEF s1, s2, r, q, Fine
    <2> QED BY <1>6, <1>8, <1>13
  <1>15. q[Len(q)].conf = snapshot.conf
    <2> DEFINE n == snapshot.index
    <2> HIDE DEF s1, s2, r, q, S
    <2>1. Len(<<s1, s2>>) = 2 /\ <<s1, s2>>[2] = s2 /\ Len(r) = n
      BY <1>7
    <2>2. /\ Len(q) = 2 + n
          /\ \A i \in 1..(2 + n) :
                q[i] = IF i <= 2 THEN <<s1, s2>>[i] ELSE r[i - 2]
      BY <1>9, <1>10, <2>1, ConcatProperties
    <2>3. CASE n = 0
      BY <2>1, <2>2, <2>3, <1>4
    <2>4. CASE n # 0
      <3>1. 2 + n \in 1..(2 + n) /\ ~ (2 + n <= 2) /\ (2 + n) - 2 = n /\ n \in 1..n
        BY <2>4, <1>1
      <3>2. q[2 + n] = r[n]
        BY <2>2, <3>1
      <3>3. r[n].conf = s2.conf
        BY <1>7, <3>1
      <3> QED BY <2>2, <3>2, <3>3, <1>4
    <2> QED BY <2>3, <2>4
  <1> QED BY <1>11, <1>12, <1>14, <1>15
=============================================================================
