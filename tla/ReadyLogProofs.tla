--------------------------- MODULE ReadyLogProofs ---------------------------
(***************************************************************************)
(* What a server has acknowledged is on disk, what it has answered is      *)
(* chosen, and its map is what the chosen log makes it, for any number of  *)
(* servers, terms, entries, snapshots and crashes.                         *)
(*                                                                         *)
(* The argument follows the log through a cycle of the loop.  `Final` is   *)
(* the store a running call ends with, `CoreLog` the log the core sees     *)
(* once it has: no write and no flush changes either, so a storage call    *)
(* is one step for the core and only the stores it passes through remain   *)
(* to be looked at, one by one (StoreKeeps).                               *)
(***************************************************************************)
EXTENDS ReadyLoopProofs

Working == Storing \cup {"persisted", "apply"}

Base(s) == IF HasSnapshot(s) THEN s.snap.index ELSE 0

\* Every store that can still be seen, and the one the running call ends with.
Stores == {disk, view} \cup Contents(todo)
Final == IF todo = << >> THEN view ELSE todo[Len(todo)]

\* The core's log, what lies below it left out; old entries above a
\* conflicting append are in it, as they are in the store.
Recent == offset..(offset + Len(unstable) - 1)
CoreLog ==
    [i \in Recent \cup DOMAIN Final.entries |->
        IF i \in Recent THEN unstable[i - offset + 1] ELSE Final.entries[i]]
CoreBase == IF usnap # NoSnapshot THEN usnap.index ELSE Base(Final)
CoreTop ==
    IF unstable # << >> THEN offset + Len(unstable) - 1
    ELSE IF usnap # NoSnapshot THEN usnap.index
    ELSE last_index(Final)

\* A log f above b has no hole.
Full(f, b) == \A i \in DOMAIN f : \A j \in (b + 1)..i : j \in DOMAIN f

\* The log f above b has what was acknowledged with m, L being what is known
\* of the leaders' logs.
Later(L, t, i) ==
    \E u \in (t + 1)..MaxTerm :
        /\ i \in DOMAIN L[u] \cap DOMAIN L[t]
        /\ L[u][i] # L[t][i]
Honours(L, f, b, m) ==
    \A i \in 1..m.arg :
        \/ i <= b
        \/ i \in DOMAIN f \cap DOMAIN L[m.term] /\ f[i] = L[m.term][i]
        \/ Later(L, m.term, i)

\* The entries of f above b and up to c are those of C.
Committed(C, f, b, c) ==
    \A i \in DOMAIN f : b < i /\ i <= c => i \in DOMAIN C /\ C[i].entry = f[i]

IsAck(m) == m.type = "ack"
Acks == {m \in sent \cup msgs \cup rd.persisted_msgs : IsAck(m)}

\* A store that may be seen after a crash.
StoreKeeps(s) ==
    /\ Full(s.entries, Base(s))
    /\ s.conf = NoConf => Base(s) = 0
    /\ Base(s) = 0 \/ Base(s) \in DOMAIN chosen
    /\ s.hs.term <= MaxTerm
    /\ Committed(chosen, s.entries, Base(s), s.hs.commit)
    /\ \A m \in sent : IsAck(m) => Honours(ldrLog, s.entries, Base(s), m)

\* An acknowledgement, wherever it waits.
AckKeeps(m) ==
    /\ Peers # {} /\ m.term \in 1..MaxTerm /\ m.arg \in Nat
    /\ Honours(ldrLog, CoreLog, CoreBase, m)
    /\ pc \notin Outside => m.term <= hs.term
    /\ m \in sent => m.term <= disk.hs.term

\* Where the parts of the log are, by position of the loop.
Placed ==
    /\ pc \in Inputs \cup {"open"} => ~busy
    /\ pc \in Outside => rd = NoReady
    /\ pc \in Inputs /\ Peers = {} /\ unstable # << >> => role = "Leader"
    /\ pc \in Outside \cup {"input", "light"} => unstable = << >> /\ usnap = NoSnapshot
    /\ pc \in Working => unstable = rd.ents /\ offset = rd.base + 1 /\ usnap = rd.snap
    /\ usnap # NoSnapshot =>
            /\ unstable = << >> /\ offset = usnap.index + 1
            /\ Peers # {} /\ role # "Leader"
    /\ pc \in Working \ {"snapshot"} /\ usnap # NoSnapshot =>
            Final.snap = usnap /\ \A i \in DOMAIN Final.entries : i > usnap.index
    /\ pc \in {"hardstate", "persisted", "apply"} =>
            \A i \in Recent : i \in DOMAIN Final.entries /\ Final.entries[i] = CoreLog[i]
    /\ pc # "open" => Final.conf # NoConf

CoreKeeps ==
    /\ hs.term <= MaxTerm /\ DOMAIN ldrLog = 0..MaxTerm
    /\ \A t \in 0..MaxTerm : DOMAIN ldrLog[t] \subseteq Nat \ {0}
    /\ CoreBase = 0 \/ CoreBase \in DOMAIN chosen
    /\ Full(CoreLog, CoreBase)
    /\ Committed(chosen, CoreLog, CoreBase, hs.commit)
    /\ pc \notin Outside =>
            /\ CoreBase <= hs.commit /\ Final.hs.commit <= hs.commit
            /\ hs.commit = CoreBase \/ hs.commit \in DOMAIN CoreLog
            /\ persisted <= CoreTop
    /\ offset - 1 <= CoreBase \/ offset - 1 \in DOMAIN Final.entries
    /\ persisted < offset

\* A leader's log is the one known of its term.
Leading ==
    /\ role \in {"Candidate", "Leader"} => hs.term > 0
    /\ role = "Leader" =>
            /\ \A m \in msgs : ~IsAck(m)
            /\ \A i \in DOMAIN CoreLog :
                    i > CoreBase =>
                        i \in DOMAIN ldrLog[hs.term] /\ CoreLog[i] = ldrLog[hs.term][i]
            /\ CoreBase <= CoreTop
            /\ Peers # {} => \A i \in DOMAIN ldrLog[hs.term] : i <= CoreTop

\* A single server chooses only what it has stored for good.
Owns(s) ==
    /\ HasSnapshot(s) => s.snap.index = 0 /\ s.snap.term = 0
    /\ \A i \in DOMAIN chosen : i \in DOMAIN s.entries /\ s.entries[i] = chosen[i].entry
Alone ==
    Peers = {} =>
        /\ \A s \in Stores : Owns(s)
        /\ pc \notin Outside => \A i \in DOMAIN chosen : i < offset

\* What is applied is chosen.
IsChosen(b) ==
    \A k \in DOMAIN b :
        /\ b[k].index \in DOMAIN chosen /\ b[k].entry \in Entry
        /\ chosen[b[k].index].entry = b[k].entry
Delivered ==
    /\ IsChosen(batch)
    /\ pc \in Storing \cup {"persisted"} => IsChosen(rd.committed)

StoresKeep == \A s \in Stores : StoreKeeps(s)
AcksKeep == \A m \in Acks : AckKeeps(m)

LogInv ==
    /\ StoresKeep /\ AcksKeep /\ Placed /\ CoreKeeps /\ Leading
    /\ Alone /\ Delivered

----------------------------------------------------------------------------
(* Logs                                                                    *)

\* L is known in M.
Known(L, M) ==
    \A t \in 0..MaxTerm : \A i \in DOMAIN L[t] : i \in DOMAIN M[t] /\ M[t][i] = L[t][i]

\* C stays chosen in D.
Chosen(C, D) == \A i \in DOMAIN C : i \in DOMAIN D /\ D[i].entry = C[i].entry

\* What a later leader replaces stays replaced.
LEMMA LaterStays ==
    ASSUME NEW L, NEW M, Known(L, M), NEW t \in 0..MaxTerm, NEW i, Later(L, t, i)
    PROVE  Later(M, t, i)
  <1>1. MaxTerm \in Nat
    BY LoopConstants
  <1>2. PICK u \in (t + 1)..MaxTerm :
            i \in DOMAIN L[u] \cap DOMAIN L[t] /\ L[u][i] # L[t][i]
    BY DEF Later
  <1>3. u \in 0..MaxTerm
    BY <1>1, <1>2
  <1> QED BY <1>2, <1>3 DEF Later, Known

\* An acknowledgement stays honoured when more is known of the leaders, when
\* the snapshot moves on, and when an entry is replaced by one of a leader
\* that is not earlier.
LEMMA HonoursStays ==
    ASSUME NEW L, NEW M, Known(L, M), NEW f, NEW g, NEW b \in Nat, NEW c \in Nat, b <= c,
           NEW m, m.term \in 0..MaxTerm, m.arg \in Nat, Honours(L, f, b, m),
           \A i \in DOMAIN f : i > c =>
                \/ i \in DOMAIN g /\ g[i] = f[i]
                \/ \E u \in m.term..MaxTerm :
                        i \in DOMAIN g \cap DOMAIN M[u] /\ g[i] = M[u][i]
    PROVE  Honours(M, g, c, m)
  <1> DEFINE t == m.term
  <1>1. MaxTerm \in Nat /\ t \in 0..MaxTerm
    BY LoopConstants
  <1> SUFFICES ASSUME NEW i \in 1..m.arg, ~(i <= c)
               PROVE  \/ i \in DOMAIN g \cap DOMAIN M[t] /\ g[i] = M[t][i]
                      \/ Later(M, t, i)
    BY DEF Honours
  <1>2. ~(i <= b) /\ i > c /\ i \in Nat
    OBVIOUS
  <1>3. CASE Later(L, t, i)
    BY <1>1, <1>3, LaterStays
  <1>4. CASE i \in DOMAIN f \cap DOMAIN L[t] /\ f[i] = L[t][i]
    <2>1. i \in DOMAIN M[t] /\ M[t][i] = f[i]
      BY <1>1, <1>4 DEF Known
    <2>2. CASE i \in DOMAIN g /\ g[i] = f[i]
      BY <2>1, <2>2
    <2>3. ASSUME NEW u \in t..MaxTerm, i \in DOMAIN g \cap DOMAIN M[u], g[i] = M[u][i]
          PROVE  \/ i \in DOMAIN g \cap DOMAIN M[t] /\ g[i] = M[t][i]
                 \/ Later(M, t, i)
      <3>1. CASE M[u][i] = M[t][i]
        BY <2>1, <2>3, <3>1
      <3>2. CASE M[u][i] # M[t][i]
        <4>1. u \in (t + 1)..MaxTerm
          BY <1>1, <3>2
        <4> QED BY <2>1, <2>3, <3>2, <4>1 DEF Later
      <3> QED BY <3>1, <3>2
    <2> QED BY <1>2, <1>4, <2>2, <2>3
  <1> QED BY <1>2, <1>3, <1>4 DEF Honours

\* Committed entries stay committed.
LEMMA CommittedStays ==
    ASSUME NEW C, NEW D, Chosen(C, D), NEW f, NEW b, NEW c, Committed(C, f, b, c)
    PROVE  Committed(D, f, b, c)
  BY DEF Chosen, Committed

\* What is known of the leaders' logs contains itself.
LEMMA KnownIsReflexive == \A L : Known(L, L)
  BY DEF Known

\* So does what is chosen.
LEMMA ChosenIsReflexive == \A C : Chosen(C, C)
  BY DEF Chosen

----------------------------------------------------------------------------
(* Stores and the core's log                                               *)

\* Every store is bounded, the final one is one of them.
LEMMA FinalIsThere ==
    ASSUME Shape
    PROVE  /\ Final \in Stores /\ \A s \in Stores : Bounded(s)
           /\ view \in Stores /\ disk \in Stores
           /\ todo = << >> => Final = view
  <1>1. \A s \in Stores : Bounded(s)
    BY DEF Stores, Shape, StoreShape, Contents
  <1>2. CASE todo = << >>
    BY <1>1, <1>2 DEF Final, Stores
  <1>3. CASE todo # << >>
    <2>1. Len(todo) \in DOMAIN todo
      BY <1>3 DEF Shape, StoreShape
    <2>2. Final \in Contents(todo)
      BY <1>3, <2>1 DEF Final, Contents
    <2> QED BY <1>1, <1>3, <2>2 DEF Stores
  <1> QED BY <1>2, <1>3

\* A base is an index.
LEMMA BaseIsNat == ASSUME NEW s, Bounded(s) PROVE Base(s) \in Nat
  BY DEF Base, Bounded, IsStore, HasSnapshot, Snapshot

\* No step of a storage call changes what it ends with.
LEMMA FinalStays ==
    ASSUME Shape, StorageStep
    PROVE  /\ Final' = Final /\ Stores' \subseteq Stores
           /\ disk' \in {disk, view} /\ (~busy => ~busy')
  <1>1. CASE Write
    <2>1. /\ busy /\ todo # << >> /\ view' = Head(todo) /\ todo' = Tail(todo)
          /\ disk' = disk /\ busy' = busy
      BY <1>1 DEF Write
    <2>2. todo \in Seq(Contents(todo))
      BY DEF Shape, StoreShape
    <2>3. /\ Head(todo) \in Contents(todo)
          /\ Contents(Tail(todo)) \subseteq Contents(todo)
          /\ Tail(todo) = << >> => Head(todo) = todo[Len(todo)]
          /\ Tail(todo) # << >> => Tail(todo)[Len(Tail(todo))] = todo[Len(todo)]
      BY <2>1, <2>2, TailContents
    <2>4. Final' = Final
      BY <2>1, <2>3 DEF Final
    <2>5. Stores' \subseteq Stores
      BY <2>1, <2>3 DEF Stores
    <2> QED BY <2>1, <2>4, <2>5
  <1>2. CASE Flush
    BY <1>2 DEF Flush, Final, Stores
  <1>3. CASE BackgroundFlush
    BY <1>3 DEF BackgroundFlush, Final, Stores
  <1> QED BY <1>1, <1>2, <1>3 DEF StorageStep

\* The core's log depends on the final store, and on nothing else of it.
LEMMA LogStays ==
    ASSUME Final' = Final, unstable' = unstable, offset' = offset, usnap' = usnap
    PROVE  /\ CoreLog' = CoreLog /\ CoreBase' = CoreBase /\ CoreTop' = CoreTop
           /\ Recent' = Recent
  <1>1. Recent' = Recent
    BY DEF Recent
  <1>2. CoreLog' = CoreLog
    BY <1>1 DEF CoreLog
  <1>3. CoreBase' = CoreBase /\ CoreTop' = CoreTop
    BY DEF CoreBase, CoreTop
  <1> QED BY <1>1, <1>2, <1>3

\* What is known of the other servers, and what this one has sent.
knownVars == <<ldrLog, chosen, sent>>

\* A store keeps what it keeps while nothing outside changes.
LEMMA StoreStays ==
    ASSUME knownVars' = knownVars, NEW s, StoreKeeps(s)
    PROVE  StoreKeeps(s)'
  BY DEF knownVars, StoreKeeps

\* A storage call on its way.
LEMMA StorageKeepsLog == ASSUME Inv, LogInv, Storage PROVE LogInv'
  <1>1. /\ StorageStep /\ UNCHANGED <<loopVars, coreVars, worldVars>>
        /\ Shape /\ HsWritten
    BY DEF Storage, Inv, Kept
  <1>2. /\ Final' = Final /\ Stores' \subseteq Stores
        /\ disk' \in {disk, view} /\ (~busy => ~busy')
    BY <1>1, FinalStays
  <1>3. /\ pc' = pc /\ rd' = rd /\ batch' = batch /\ hs' = hs /\ role' = role
        /\ unstable' = unstable /\ offset' = offset /\ usnap' = usnap
        /\ persisted' = persisted /\ msgs' = msgs
        /\ sent' = sent /\ ldrLog' = ldrLog /\ chosen' = chosen
    BY <1>1 DEF loopVars, coreVars, worldVars
  <1>4. CoreLog' = CoreLog /\ CoreBase' = CoreBase /\ CoreTop' = CoreTop /\ Recent' = Recent
    BY <1>2, <1>3, LogStays
  <1>5. StoresKeep'
    BY <1>2, <1>3, StoreStays DEF StoresKeep, LogInv, knownVars
  <1>6. AcksKeep'
    <2>1. Acks' = Acks
      BY <1>3 DEF Acks
    <2>2. disk'.hs.term >= disk.hs.term
      BY <1>1, <1>2 DEF HsWritten, Yields, Shape, StoreShape, Bounded, IsStore, HardState
    <2>3. disk.hs.term \in Nat /\ disk'.hs.term \in Nat
      BY <1>1, <1>2 DEF Shape, StoreShape, Bounded, IsStore, HardState
    <2>4. ASSUME NEW m \in Acks, AckKeeps(m) PROVE AckKeeps(m)'
      BY <1>3, <1>4, <2>2, <2>3, <2>4 DEF AckKeeps
    <2> QED BY <2>1, <2>4 DEF AcksKeep, LogInv
  <1>7. Placed'
    BY <1>2, <1>3, <1>4 DEF Placed, LogInv
  <1>8. CoreKeeps' /\ Leading'
    BY <1>2, <1>3, <1>4 DEF CoreKeeps, Leading, LogInv
  <1>9. Alone'
    BY <1>2, <1>3 DEF Alone, Owns, LogInv
  <1>10. Delivered'
    BY <1>3 DEF Delivered, IsChosen, LogInv
  <1> QED BY <1>5, <1>6, <1>7, <1>8, <1>9, <1>10 DEF LogInv

----------------------------------------------------------------------------
(* Storage calls                                                           *)

\* A store with the log of another keeps what that one keeps, up to its own
\* commit index.
LEMMA SameLogKeeps ==
    ASSUME NEW s, NEW x, StoreKeeps(s), x.entries = s.entries, x.snap = s.snap,
           x.conf = s.conf \/ x.conf # NoConf, x.hs.term <= MaxTerm,
           Committed(chosen, x.entries, Base(x), x.hs.commit)
    PROVE  StoreKeeps(x) /\ (Owns(s) => Owns(x))
  <1>1. Base(x) = Base(s) /\ (HasSnapshot(x) <=> HasSnapshot(s))
    BY DEF Base, HasSnapshot
  <1> QED BY <1>1 DEF StoreKeeps, Owns

\* A call that changes neither the log nor what is known keeps the invariant,
\* given the stores it passes through.
LEMMA CallKeepsLog ==
    ASSUME Inv, LogInv, knownVars' = knownVars,
           UNCHANGED <<hs, role, unstable, offset, usnap, persisted, msgs, rd, view, disk>>,
           \A x \in Contents(todo') : StoreKeeps(x) /\ (Peers = {} => Owns(x)),
           CoreLog' = CoreLog, CoreBase' = CoreBase, CoreTop' = CoreTop,
           DOMAIN Final.entries \subseteq DOMAIN Final'.entries,
           Final'.hs.commit <= hs.commit \/ pc' \in Outside,
           pc \in Outside <=> pc' \in Outside,
           Placed', Delivered'
    PROVE  LogInv'
  <1>1. /\ Stores' \subseteq Stores \cup Contents(todo') /\ Acks' = Acks
    BY DEF Stores, Acks, knownVars
  <1>2. StoresKeep'
    BY <1>1, StoreStays DEF StoresKeep, LogInv
  <1>3. AcksKeep'
    BY <1>1 DEF AcksKeep, AckKeeps, LogInv, knownVars
  <1>4. CoreKeeps'
    BY DEF CoreKeeps, LogInv, knownVars
  <1>5. Leading'
    BY DEF Leading, LogInv, knownVars
  <1>6. Alone'
    BY <1>1 DEF Alone, Owns, LogInv, knownVars
  <1> QED BY <1>2, <1>3, <1>4, <1>5, <1>6 DEF LogInv

\* A call of a single write that leaves the log alone.
LEMMA SingleKeepsLog ==
    ASSUME Inv, LogInv, knownVars' = knownVars,
           UNCHANGED <<hs, role, unstable, offset, usnap, persisted, msgs, rd>>,
           NEW x, StartCall(<<x>>), x.entries = view.entries, x.snap = view.snap,
           x.conf = view.conf, x.hs.term <= MaxTerm, x.hs.commit <= hs.commit,
           Committed(chosen, x.entries, Base(x), x.hs.commit),
           pc \notin Outside, pc' \notin Outside,
           (Final' = x /\ Final = view) => Placed', Delivered'
    PROVE  LogInv'
  <1>1. /\ ~busy /\ todo' = <<x>> /\ UNCHANGED <<view, disk>>
    BY DEF StartCall
  <1>2. todo = << >> /\ Shape
    BY <1>1 DEF Inv, Kept, HsWritten
  <1>3. Final = view /\ view \in Stores
    BY <1>2, FinalIsThere
  <1>4. Final' = x /\ Contents(todo') = {x}
    <2>1. Len(<<x>>) = 1 /\ <<x>>[1] = x /\ <<x>> # << >> /\ DOMAIN <<x>> = {1}
      OBVIOUS
    <2> QED BY <1>1, <2>1 DEF Final, Contents
  <1>5. CoreLog' = CoreLog /\ CoreBase' = CoreBase /\ CoreTop' = CoreTop
    <2>1. Recent' = Recent
      BY DEF Recent
    <2>2. CoreLog' = CoreLog
      BY <1>3, <1>4, <2>1 DEF CoreLog
    <2>3. Base(x) = Base(view) /\ last_index(x) = last_index(view)
      BY DEF Base, HasSnapshot, last_index
    <2> QED BY <1>3, <1>4, <2>2, <2>3 DEF CoreBase, CoreTop
  <1>6. StoreKeeps(x) /\ (Peers = {} => Owns(x))
    BY <1>3, SameLogKeeps DEF LogInv, StoresKeep, Alone
  <1>7. Placed'
    BY <1>3, <1>4
  <1> HIDE DEF LogInv
  <1> QED BY <1>1, <1>3, <1>4, <1>5, <1>6, <1>7, CallKeepsLog

\* Step 4 and what it makes of the commit index.
LEMMA PersistHardStateKeepsLog == ASSUME Inv, LogInv, PersistHardState PROVE LogInv'
  <1> DEFINE x == [view EXCEPT !.hs = rd.hs]
  <1>1. /\ pc = "hardstate" /\ pc' = "persisted" /\ set_hardstate(rd.hs)
        /\ UNCHANGED <<rd, batch, kv, callbacks, coreVars, worldVars>>
    BY DEF PersistHardState
  <1>2. UNCHANGED <<hs, role, unstable, offset, usnap, persisted, msgs, rd, batch>>
        /\ knownVars' = knownVars
    BY <1>1 DEF coreVars, worldVars, knownVars
  <1>3. /\ Shape /\ IsStore(view) /\ hs \in HardState /\ rd.hs = hs
        /\ StartCall(<<x>>)
    BY <1>1 DEF Inv, Shape, StoreShape, Bounded, CoreShape, Kept, Handed, Storing, set_hardstate
  <1>4. /\ x.entries = view.entries /\ x.snap = view.snap /\ x.conf = view.conf /\ x.hs = hs
    BY <1>3 DEF IsStore
  <1> HIDE DEF x
  <1>5. ~busy /\ todo = << >> /\ Final = view
    <2>1. ~busy
      BY <1>3 DEF StartCall
    <2> QED BY <1>3, <2>1, FinalIsThere DEF Inv, Kept, HsWritten
  <1>6. /\ Placed /\ CoreKeeps
    BY DEF LogInv
  <1>7. /\ DOMAIN CoreLog = DOMAIN view.entries
        /\ \A i \in DOMAIN CoreLog : CoreLog[i] = view.entries[i]
        /\ CoreBase = Base(view)
    <2>1. \A i \in Recent : i \in DOMAIN view.entries /\ view.entries[i] = CoreLog[i]
      BY <1>1, <1>5, <1>6 DEF Placed
    <2>2. usnap # NoSnapshot => view.snap = usnap
      BY <1>1, <1>5, <1>6 DEF Placed, Working, Storing
    <2>3. CoreBase = Base(view)
      BY <1>5, <2>2 DEF CoreBase, Base, HasSnapshot
    <2> QED BY <1>5, <2>1, <2>3 DEF CoreLog
  <1>8. Committed(chosen, x.entries, Base(x), x.hs.commit)
    <2>1. Base(x) = Base(view)
      BY <1>4 DEF Base, HasSnapshot
    <2> QED BY <1>4, <1>6, <1>7, <2>1 DEF CoreKeeps, Committed
  <1>9. (Final' = x /\ Final = view) => Placed'
    <2> SUFFICES ASSUME Final' = x, Final = view PROVE Placed'
      OBVIOUS
    <2>1. Recent' = Recent /\ CoreLog' = CoreLog
      <3>1. Recent' = Recent
        BY <1>2 DEF Recent
      <3> QED BY <1>2, <1>4, <3>1 DEF CoreLog
    <2> QED BY <1>1, <1>2, <1>4, <1>6, <2>1
        DEF Placed, Inputs, Outside, Working, Storing
  <1>10. Delivered'
    BY <1>1, <1>2 DEF LogInv, Delivered, IsChosen, Storing, knownVars
  <1>11. x.hs.term <= MaxTerm /\ x.hs.commit <= hs.commit
    BY <1>3, <1>4, <1>6 DEF CoreKeeps, HardState
  <1>12. pc \notin Outside /\ pc' \notin Outside
    BY <1>1 DEF Outside
  <1> HIDE DEF LogInv
  <1> QED BY <1>2, <1>3, <1>4, <1>8, <1>9, <1>10, <1>11, <1>12, SingleKeepsLog

\* Between two calls there is one store.
LEMMA IdleStore ==
    ASSUME Inv, ~busy
    PROVE  /\ todo = << >> /\ disk = view /\ Final = view /\ Stores = {view}
           /\ Shape /\ Bounded(view) /\ IsStore(view)
  <1>1. todo = << >> /\ disk = view /\ Shape
    BY DEF Inv, Kept, HsWritten
  <1>2. Contents(todo) = {}
    BY <1>1 DEF Contents
  <1> QED BY <1>1, <1>2 DEF Final, Stores, Shape, StoreShape, Bounded

\* What is left of a chosen batch is chosen.
LEMMA TailIsChosen ==
    ASSUME NEW b, Batch(b), b # << >>, IsChosen(b)
    PROVE  IsChosen(Tail(b))
  <1>1. b \in Seq(Contents(b))
    BY DEF Batch
  <1>2. \A k \in DOMAIN Tail(b) : k + 1 \in DOMAIN b /\ Tail(b)[k] = b[k + 1]
    BY <1>1
  <1> QED BY <1>2 DEF IsChosen

\* The applied index is no part of the log.
LEMMA AppliedKeepsLog ==
    ASSUME Inv, LogInv, knownVars' = knownVars,
           UNCHANGED <<hs, role, unstable, offset, usnap, persisted, msgs, rd>>,
           NEW i, set_applied_index(i), pc \notin Outside, pc' \notin Outside,
           (/\ Final'.entries = Final.entries /\ Final'.snap = Final.snap
            /\ Final'.conf = Final.conf /\ CoreLog' = CoreLog) => Placed',
           Delivered'
    PROVE  LogInv'
  <1> DEFINE x == [view EXCEPT !.applied = i]
  <1>1. StartCall(<<x>>)
    BY DEF set_applied_index
  <1>2. ~busy
    BY <1>1 DEF StartCall
  <1>3. Final = view /\ IsStore(view) /\ view \in Stores
    BY <1>2, IdleStore
  <1>4. /\ x.entries = view.entries /\ x.snap = view.snap /\ x.conf = view.conf
        /\ x.hs = view.hs
    BY <1>3 DEF IsStore
  <1> HIDE DEF x
  <1>5. StoreKeeps(view) /\ view.hs.commit <= hs.commit
    BY <1>3 DEF LogInv, StoresKeep, CoreKeeps
  <1>6. Committed(chosen, x.entries, Base(x), x.hs.commit) /\ x.hs.term <= MaxTerm
    <2>1. Base(x) = Base(view)
      BY <1>4 DEF Base, HasSnapshot
    <2> QED BY <1>4, <1>5, <2>1 DEF StoreKeeps
  <1>7. (Final' = x /\ Final = view) => Placed'
    <2> SUFFICES ASSUME Final' = x PROVE Placed'
      OBVIOUS
    <2>1. Recent' = Recent
      BY DEF Recent
    <2>2. CoreLog' = CoreLog
      BY <1>3, <1>4, <2>1 DEF CoreLog
    <2> QED BY <1>3, <1>4, <2>2
  <1> HIDE DEF LogInv
  <1> QED BY <1>1, <1>4, <1>5, <1>6, <1>7, SingleKeepsLog

\* Step 2, second half: the entries come after the snapshot, and there are
\* none.
LEMMA RestoreSnapshotKeepsLog == ASSUME Inv, LogInv, RestoreSnapshot PROVE LogInv'
  <1>1. /\ pc = "restore" /\ pc' = Stage("append", rd)
        /\ set_applied_index(rd.snap.index)
        /\ UNCHANGED <<rd, batch, hs, role, unstable, offset, usnap, persisted, msgs>>
        /\ knownVars' = knownVars
    BY DEF RestoreSnapshot, coreVars, worldVars, knownVars
  <1>2. pc' \in {"append", "hardstate", "persisted"}
    BY <1>1, StageIs
  <1>3. Placed /\ Delivered /\ busy'
    BY <1>1 DEF LogInv, set_applied_index, StartCall
  <1>4. rd.snap # NoSnapshot /\ usnap = rd.snap /\ unstable = << >>
    BY <1>1, <1>3 DEF Inv, Shape, ReadyShape, Placed, Working, Storing
  <1>5. Recent = {} /\ Recent' = {}
    BY <1>1, <1>4 DEF Recent, Inv, Shape, CoreShape
  <1>6. (/\ Final'.entries = Final.entries /\ Final'.snap = Final.snap
         /\ Final'.conf = Final.conf /\ CoreLog' = CoreLog) => Placed'
    BY <1>1, <1>2, <1>3, <1>4, <1>5 DEF Placed, Working, Storing, Inputs, Outside
  <1>7. Delivered'
    BY <1>1, <1>2, <1>3 DEF Delivered, IsChosen, Storing, knownVars
  <1>8. pc \notin Outside /\ pc' \notin Outside
    BY <1>1, <1>2 DEF Outside
  <1> HIDE DEF LogInv
  <1> QED BY <1>1, <1>6, <1>7, <1>8, AppliedKeepsLog

\* Steps 6 and 8 take from a chosen batch.
LEMMA ApplyEntryKeepsLog == ASSUME Inv, LogInv, ApplyEntry PROVE LogInv'
  <1>1. /\ pc \in {"apply", "light"} /\ pc' = pc /\ ~busy
        /\ batch # << >> /\ batch' = Tail(batch)
        /\ UNCHANGED storageVars \/ set_applied_index(batch[1].index)
        /\ UNCHANGED <<rd, hs, role, unstable, offset, usnap, persisted, msgs>>
        /\ knownVars' = knownVars
    BY DEF ApplyEntry, coreVars, knownVars
  <1>2. Placed /\ Delivered /\ CoreKeeps
    BY DEF LogInv
  <1>3. Delivered'
    <2>1. IsChosen(Tail(batch))
      BY <1>1, <1>2, TailIsChosen DEF Inv, Shape, ReadyShape, Delivered
    <2> QED BY <1>1, <2>1 DEF Delivered, IsChosen, Storing, knownVars
  <1>4. pc \notin Outside /\ pc' \notin Outside
    BY <1>1 DEF Outside
  <1>5. Recent' = Recent
    BY <1>1 DEF Recent
  <1>6. (/\ Final'.entries = Final.entries /\ Final'.snap = Final.snap
         /\ Final'.conf = Final.conf /\ CoreLog' = CoreLog) => Placed'
    BY <1>1, <1>2, <1>5 DEF Placed, Working, Storing, Inputs, Outside
  <1>7. CASE set_applied_index(batch[1].index)
    <2> HIDE DEF LogInv
    <2> QED BY <1>1, <1>3, <1>4, <1>6, <1>7, AppliedKeepsLog
  <1>8. CASE UNCHANGED storageVars
    <2>1. todo' = << >> /\ UNCHANGED <<view, disk>> /\ Final' = Final
      BY <1>1, <1>8, IdleStore DEF storageVars, Final
    <2>2. Contents(todo') = {}
      BY <2>1 DEF Contents
    <2>3. CoreLog' = CoreLog /\ CoreBase' = CoreBase /\ CoreTop' = CoreTop
      BY <1>1, <2>1, LogStays
    <2>4. Placed' /\ Final'.hs.commit <= hs.commit
      BY <1>2, <1>4, <1>6, <2>1, <2>3 DEF CoreKeeps
    <2> HIDE DEF LogInv
    <2> QED BY <1>1, <1>3, <1>4, <2>1, <2>2, <2>3, <2>4, CallKeepsLog
  <1> QED BY <1>1, <1>7, <1>8

\* A snapshot is stored with its configuration, and in the end nothing that
\* it covers is left.
LEMMA SnapshotLast ==
    ASSUME NEW s, Bounded(s), NEW snapshot \in Snapshot
    PROVE  LET q == apply_snapshot_writes(s, snapshot) IN
           /\ \A x \in Contents(q) : x.conf \in {s.conf, snapshot.conf}
           /\ q[Len(q)] \in Contents(q) /\ q[Len(q)].conf = snapshot.conf
           /\ \A i \in DOMAIN q[Len(q)].entries : i > snapshot.index
  <1> DEFINE s1 == [s EXCEPT !.snap = snapshot]
             s2 == [s1 EXCEPT !.conf = snapshot.conf]
             n == snapshot.index
             r == removal_writes(s2, n)
             p == <<s1, s2>>
             q == apply_snapshot_writes(s, snapshot)
  <1>1. IsStore(s) /\ n \in Nat /\ \A i \in DOMAIN s.entries : i \in Nat /\ 1 <= i
    BY DEF Bounded, IsStore, Snapshot
  <1>2. /\ s1.conf = s.conf /\ s2.conf = snapshot.conf /\ s2.entries = s.entries
        /\ DOMAIN s2 = {"entries", "snap", "hs", "conf", "applied"}
        /\ s2.snap = snapshot /\ s2.hs = s.hs /\ s2.applied = s.applied
    BY <1>1 DEF IsStore
  <1>3. IsStore(s2)
    <2> HIDE DEF s2
    <2> QED BY <1>1, <1>2 DEF IsStore, Snapshot
  <1>4. q = p \o r /\ Len(p) = 2 /\ p[1] = s1 /\ p[2] = s2
    BY DEF apply_snapshot_writes
  <1>5. /\ r \in Seq(Contents(r)) /\ Len(r) = n
        /\ \A k \in 1..n : r[k].entries = Without(s.entries, 0..k) /\ r[k].conf = snapshot.conf
    <2>1. /\ r \in Seq(Contents(r)) /\ Len(r) = n
          /\ \A k \in 1..n : r[k].entries = Without(s2.entries, 0..k) /\ r[k].conf = s2.conf
      <3> HIDE DEF s2
      <3> QED BY <1>1, <1>3, RemovalWrites, Zenon
    <2> QED BY <1>2, <2>1, Zenon
  <1> DEFINE S == {s1, s2} \cup Contents(r)
  <1>6. p \in Seq(S) /\ r \in Seq(S)
    <2> HIDE DEF s1, s2, r
    <2>1. Contents(r) \subseteq S /\ s1 \in S /\ s2 \in S
      OBVIOUS
    <2> QED BY <1>5, <2>1, SeqMonotonic
  <1> HIDE DEF s1, s2, r, p, q, S
  <1>7. /\ Len(q) = n + 2 /\ DOMAIN q = 1..(n + 2)
        /\ q[1] = s1 /\ q[2] = s2 /\ \A k \in 3..(n + 2) : q[k] = r[k - 2]
    <2>1. /\ p \o r \in Seq(S) /\ Len(p \o r) = Len(p) + Len(r)
          /\ \A k \in 1..(Len(p) + Len(r)) :
                (p \o r)[k] = IF k <= Len(p) THEN p[k] ELSE r[k - Len(p)]
      BY <1>6, ConcatProperties, Zenon
    <2>2. q \in Seq(S) /\ Len(q) = n + 2
      BY <1>1, <1>4, <1>5, <2>1
    <2>3. \A k \in 1..(n + 2) : q[k] = IF k <= 2 THEN p[k] ELSE r[k - 2]
      BY <1>1, <1>4, <1>5, <2>1
    <2>4. DOMAIN q = 1..(n + 2)
      BY <2>2, LenProperties
    <2>5. 1 \in 1..(n + 2) /\ 2 \in 1..(n + 2) /\ 1 <= 2 /\ 2 <= 2
      BY <1>1
    <2>6. ASSUME NEW k \in 3..(n + 2) PROVE k \in 1..(n + 2) /\ ~(k <= 2)
      BY <1>1
    <2>7. q[1] = s1 /\ q[2] = s2
      BY <1>4, <2>3, <2>5, Zenon
    <2>8. \A k \in 3..(n + 2) : q[k] = r[k - 2]
      BY <2>3, <2>6
    <2> QED BY <2>2, <2>4, <2>7, <2>8
  <1>8. \A k \in 1..(n + 2) : q[k].conf \in {s.conf, snapshot.conf}
    <2> TAKE k \in 1..(n + 2)
    <2>1. k = 1 \/ k = 2 \/ (k \in 3..(n + 2) /\ k - 2 \in 1..n)
      BY <1>1
    <2> QED BY <1>2, <1>5, <1>7, <2>1
  <1>9. /\ q[n + 2].conf = snapshot.conf
        /\ \A i \in DOMAIN q[n + 2].entries : i > n
    <2>1. CASE n = 0
      BY <1>1, <1>2, <1>7, <2>1
    <2>2. CASE n # 0
      <3>1. n + 2 \in 3..(n + 2) /\ n + 2 - 2 = n /\ n \in 1..n
        BY <1>1, <2>2
      <3>2. q[n + 2] = r[n]
        BY <1>7, <3>1
      <3>3. q[n + 2].conf = snapshot.conf /\ q[n + 2].entries = Without(s.entries, 0..n)
        BY <1>5, <3>1, <3>2
      <3> QED BY <1>1, <3>3 DEF Without
    <2> QED BY <2>1, <2>2
  <1>10. n + 2 \in 1..(n + 2)
    BY <1>1
  <1> QED BY <1>7, <1>8, <1>9, <1>10 DEF Contents, q

\* Step 2, first half: what a snapshot covers may go.
LEMMA StoreSnapshotKeepsLog == ASSUME Inv, LogInv, StoreSnapshot PROVE LogInv'
  <1> DEFINE s == rd.snap
             q == apply_snapshot_writes(view, s)
  <1>1. /\ pc = "snapshot" /\ pc' = "restore" /\ StartCall(q)
        /\ UNCHANGED <<rd, batch, hs, role, unstable, offset, usnap, persisted, msgs>>
        /\ knownVars' = knownVars
    BY DEF StoreSnapshot, apply_snapshot, coreVars, worldVars, knownVars
  <1>2. ~busy /\ busy' /\ todo' = q /\ UNCHANGED <<view, disk>>
    BY <1>1 DEF StartCall
  <1>3. /\ Final = view /\ disk = view /\ Stores = {view} /\ IsStore(view) /\ Bounded(view)
    BY <1>2, IdleStore
  <1>4. /\ s # NoSnapshot /\ s \in Snapshot /\ s = usnap /\ unstable = << >>
        /\ offset = s.index + 1 /\ Peers # {} /\ role # "Leader"
        /\ view.conf # NoConf /\ Placed
    BY <1>1, <1>3 DEF Inv, Shape, ReadyShape, LogInv, Placed, Working, Storing
  <1>5. s.index \in Nat /\ s.conf # NoConf
    BY <1>4, StorageConstants DEF Snapshot
  <1>6. /\ q \in Seq(Contents(q)) /\ q # << >>
        /\ \A x \in Contents(q) :
             /\ IsTail(x.entries, view.entries, s.index)
             /\ x.snap = s /\ x.hs = view.hs /\ x.conf \in {view.conf, s.conf}
    BY <1>3, <1>4, SnapshotWrites, SnapshotLast
  <1>7. /\ Final' \in Contents(q) /\ Final'.conf = s.conf
        /\ \A i \in DOMAIN Final'.entries : i > s.index
    <2>1. Final' = q[Len(q)]
      BY <1>2, <1>6 DEF Final
    <2> HIDE DEF q
    <2> QED BY <1>3, <1>4, <2>1, SnapshotLast DEF q
  <1> HIDE DEF q
  <1> DEFINE F == view.entries
  <1>8. CoreBase = s.index /\ CoreBase' = s.index /\ CoreTop' = CoreTop
    BY <1>1, <1>4 DEF CoreBase, CoreTop
  <1>9. /\ DOMAIN CoreLog = DOMAIN F /\ \A i \in DOMAIN F : CoreLog[i] = F[i]
        /\ DOMAIN CoreLog' = DOMAIN Final'.entries
        /\ \A i \in DOMAIN CoreLog' : CoreLog'[i] = Final'.entries[i]
    <2>1. Recent = {} /\ Recent' = {}
      BY <1>1, <1>4, <1>5 DEF Recent
    <2> QED BY <1>3, <2>1 DEF CoreLog
  <1>10. IsTail(CoreLog', CoreLog, s.index)
    BY <1>6, <1>7, <1>9 DEF IsTail
  <1>11. /\ CoreKeeps /\ AcksKeep /\ StoreKeeps(view) /\ view.hs.commit <= hs.commit
         /\ DOMAIN F \subseteq Nat /\ hs.commit \in Nat /\ view.hs.commit \in Nat
    BY <1>3, <1>1 DEF LogInv, StoresKeep, CoreKeeps, Outside, IsStore, Inv, Shape, CoreShape,
       HardState
  <1>12. Acks' = Acks
    BY <1>1 DEF Acks, knownVars
  \* A tail of the log is as good as the log.
  <1>13. ASSUME NEW g, IsTail(g, CoreLog, s.index)
         PROVE  /\ Full(g, s.index) /\ Committed(chosen, g, s.index, hs.commit)
                /\ \A m \in Acks : Honours(ldrLog, g, s.index, m)
    <2>1. Full(g, s.index)
      BY <1>5, <1>8, <1>9, <1>11, <1>13 DEF CoreKeeps, Full, IsTail
    <2>2. Committed(chosen, g, s.index, hs.commit)
      BY <1>8, <1>11, <1>13 DEF CoreKeeps, Committed, IsTail
    <2>3. ASSUME NEW m \in Acks PROVE Honours(ldrLog, g, s.index, m)
      <3>1. /\ Honours(ldrLog, CoreLog, s.index, m)
            /\ m.term \in 0..MaxTerm /\ m.arg \in Nat
        BY <1>8, <1>11, LoopConstants DEF AcksKeep, AckKeeps
      <3>2. \A i \in DOMAIN CoreLog : i > s.index => i \in DOMAIN g /\ g[i] = CoreLog[i]
        BY <1>13 DEF IsTail
      <3>3. Known(ldrLog, ldrLog)
        BY KnownIsReflexive, Zenon
      <3> DEFINE n == s.index
                 f == CoreLog
      <3>4. n \in Nat /\ n <= n
        BY <1>5
      <3> HIDE DEF n, f
      <3>5. Honours(ldrLog, f, n, m)
        BY <3>1 DEF n, f
      <3>6. \A i \in DOMAIN f : i > n => i \in DOMAIN g /\ g[i] = f[i]
        BY <3>2 DEF n, f
      <3>7. Honours(ldrLog, g, n, m)
        BY <3>1, <3>3, <3>4, <3>5, <3>6, HonoursStays
      <3> QED BY <3>7 DEF n
    <2> QED BY <2>1, <2>2, <2>3
  <1>14. ASSUME NEW x \in Contents(q) PROVE StoreKeeps(x)
    <2>1. IsTail(x.entries, CoreLog, s.index) /\ Base(x) = s.index
      BY <1>4, <1>6, <1>9 DEF IsTail, Base, HasSnapshot
    <2>2. Committed(chosen, x.entries, s.index, x.hs.commit)
      <3>1. Committed(chosen, x.entries, s.index, hs.commit) /\ x.hs = view.hs
        BY <1>6, <1>13, <2>1
      <3>2. DOMAIN x.entries \subseteq Nat
        BY <1>9, <1>11, <2>1 DEF IsTail
      <3> QED BY <1>11, <3>1, <3>2 DEF Committed
    <2>3. \A m \in sent : IsAck(m) => m \in Acks
      BY DEF Acks
    <2>4. x.conf # NoConf /\ x.hs.term <= MaxTerm
      BY <1>4, <1>5, <1>6, <1>11 DEF StoreKeeps
    <2>5. s.index = 0 \/ s.index \in DOMAIN chosen
      BY <1>8, <1>11 DEF CoreKeeps
    <2> QED BY <1>13, <2>1, <2>2, <2>3, <2>4, <2>5 DEF StoreKeeps
  <1>15. StoresKeep'
    <2>1. Stores' \subseteq Stores \cup Contents(q)
      BY <1>2 DEF Stores
    <2> QED BY <1>1, <1>14, <2>1, StoreStays DEF StoresKeep, LogInv
  <1>16. AcksKeep'
    <2>1. \A m \in Acks : Honours(ldrLog, CoreLog', s.index, m)
      BY <1>10, <1>13
    <2> QED BY <1>1, <1>2, <1>8, <1>11, <1>12, <2>1
        DEF AcksKeep, AckKeeps, knownVars, Outside
  <1>17. Placed'
    <2>1. Final'.snap = s
      BY <1>6, <1>7
    <2>2. Recent' = {}
      BY <1>1, <1>4, <1>5 DEF Recent
    <2> QED BY <1>1, <1>2, <1>4, <1>5, <1>7, <2>1, <2>2
        DEF Placed, Working, Storing, Inputs, Outside
  <1>18. CoreKeeps'
    <2>1. Full(CoreLog', CoreBase') /\ Committed(chosen, CoreLog', CoreBase', hs.commit)
      BY <1>8, <1>10, <1>13
    <2>2. hs.commit = CoreBase \/ hs.commit \in DOMAIN CoreLog'
      BY <1>1, <1>5, <1>8, <1>10, <1>11 DEF CoreKeeps, Outside, IsTail
    <2>3. Final'.hs.commit <= hs.commit
      BY <1>6, <1>7, <1>11
    <2>4. offset - 1 <= CoreBase
      BY <1>4, <1>5, <1>8
    <2> QED BY <1>1, <1>8, <1>11, <2>1, <2>2, <2>3, <2>4 DEF CoreKeeps, Outside, knownVars
  <1>19. Leading' /\ Alone' /\ Delivered'
    <2>1. Leading /\ Alone /\ Delivered
      BY DEF LogInv
    <2> QED BY <1>1, <1>4, <2>1
        DEF Leading, Alone, Delivered, IsChosen, Storing, knownVars
  <1> QED BY <1>15, <1>16, <1>17, <1>18, <1>19 DEF LogInv

\* Step 3: entries are stored one by one, each on top of what is there.
LEMMA AppendEntriesKeepsLog == ASSUME Inv, LogInv, AppendEntries PROVE LogInv'
  <1> DEFINE es == rd.ents
             F == view.entries
             b == Base(view)
             q == append_writes(view, rd.base, es)
  <1>1. /\ pc = "append" /\ pc' = Stage("hardstate", rd) /\ StartCall(q)
        /\ UNCHANGED <<rd, batch, hs, role, unstable, offset, usnap, persisted, msgs>>
        /\ knownVars' = knownVars
    BY DEF AppendEntries, append, coreVars, worldVars, knownVars
  <1>2. ~busy /\ busy' /\ todo' = q /\ UNCHANGED <<view, disk>>
    BY <1>1 DEF StartCall
  <1>3. pc' \in {"hardstate", "persisted"}
    BY <1>1 DEF Stage
  <1>4. /\ Final = view /\ IsStore(view) /\ Bounded(view) /\ view \in Stores
        /\ b \in Nat /\ DOMAIN F \subseteq Nat
    BY <1>2, IdleStore, BaseIsNat DEF IsStore
  <1>5. /\ Placed /\ CoreKeeps /\ AcksKeep /\ StoreKeeps(view) /\ Alone /\ Delivered
        /\ CoreShape /\ ReadyShape
    BY <1>4 DEF LogInv, StoresKeep, Inv, Shape
  <1>6. /\ es = unstable /\ offset = rd.base + 1 /\ es \in Seq(Entry) /\ rd.base \in Nat
        /\ Len(es) \in Nat /\ offset \in Nat
    BY <1>1, <1>5 DEF Placed, Working, Storing, ReadyShape
  <1>7. /\ q \in Seq(Contents(q)) /\ Len(q) = Len(es)
        /\ Contents(q) = {q[k] : k \in 1..Len(es)}
        /\ \A k \in 1..Len(es) :
             /\ q[k].entries = InsertFirst(F, rd.base, es, k)
             /\ q[k].snap = view.snap /\ q[k].hs = view.hs /\ q[k].conf = view.conf
    <2>1. rd.base \in Nat /\ es \in Seq(Entry) /\ IsStore(view)
      BY <1>4, <1>6
    <2> HIDE DEF es, F, b
    <2>2. /\ q \in Seq(Contents(q)) /\ Len(q) = Len(es)
          /\ Contents(q) = {q[k] : k \in 1..Len(es)}
          /\ \A k \in 1..Len(es) :
               /\ IsStore(q[k])
               /\ q[k].entries = InsertFirst(view.entries, rd.base, es, k)
               /\ q[k].snap = view.snap /\ q[k].hs = view.hs
               /\ q[k].conf = view.conf /\ q[k].applied = view.applied
      BY <2>1, AppendWrites, Zenon DEF q
    <2> HIDE DEF q
    <2> QED BY <2>2 DEF F
  <1> HIDE DEF q
  <1>8. es # << >> => usnap = NoSnapshot /\ CoreBase = b /\ (usnap = NoSnapshot)
    BY <1>4, <1>5, <1>6 DEF Placed, CoreBase
  <1>9. Recent = offset..(offset + Len(es) - 1) /\ Recent' = Recent
    BY <1>1, <1>6 DEF Recent
  <1>10. ASSUME NEW k \in 1..Len(es)
         PROVE  /\ DOMAIN q[k].entries = DOMAIN F \cup offset..(offset + k - 1)
                /\ \A i \in DOMAIN q[k].entries :
                      IF i \in offset..(offset + k - 1)
                      THEN i \in DOMAIN CoreLog /\ q[k].entries[i] = CoreLog[i]
                      ELSE i \in DOMAIN F /\ q[k].entries[i] = F[i]
                /\ Base(q[k]) = b
                /\ \A i \in offset..(offset + k - 1) : i \in Recent
    <2> DEFINE g == InsertFirst(F, rd.base, es, k)
               new == offset..(offset + k - 1)
    <2>1. new = (rd.base + 1)..(rd.base + k)
      BY <1>6
    <2>2. DOMAIN g = DOMAIN F \cup new
      BY <2>1 DEF InsertFirst
    <2>3. \A i \in new : i \in Recent /\ i \in DOMAIN CoreLog /\ g[i] = CoreLog[i]
      <3> TAKE i \in new
      <3>1. i \in Recent
        BY <1>6, <1>9
      <3>2. i \in DOMAIN CoreLog /\ CoreLog[i] = unstable[i - offset + 1]
        BY <3>1 DEF CoreLog
      <3>3. i - rd.base = i - offset + 1
        BY <1>6
      <3>4. g[i] = es[i - rd.base]
        BY <2>1 DEF InsertFirst
      <3>5. g[i] = unstable[i - offset + 1]
        BY <1>6, <3>3, <3>4
      <3> QED BY <3>1, <3>2, <3>5
    <2>4. \A i \in DOMAIN F : i \notin new => g[i] = F[i]
      BY <2>1 DEF InsertFirst
    <2>5. Base(q[k]) = b /\ q[k].entries = g
      BY <1>7 DEF Base, HasSnapshot
    <2> HIDE DEF g, new
    <2>6. /\ DOMAIN q[k].entries = DOMAIN F \cup new
          /\ \A i \in DOMAIN q[k].entries :
                IF i \in new
                THEN i \in DOMAIN CoreLog /\ q[k].entries[i] = CoreLog[i]
                ELSE i \in DOMAIN F /\ q[k].entries[i] = F[i]
      BY <2>2, <2>3, <2>4, <2>5
    <2> QED BY <2>3, <2>5, <2>6 DEF new
  <1>11. ASSUME NEW k \in 1..Len(es)
         PROVE  StoreKeeps(q[k]) /\ (Peers = {} => Owns(q[k]))
    <2> DEFINE g == q[k].entries
               new == offset..(offset + k - 1)
    <2>1. /\ DOMAIN g = DOMAIN F \cup new /\ Base(q[k]) = b
          /\ \A i \in DOMAIN g :
                 IF i \in new THEN i \in DOMAIN CoreLog /\ g[i] = CoreLog[i]
                 ELSE i \in DOMAIN F /\ g[i] = F[i]
      BY <1>10
    <2>2. CoreBase = b /\ q[k].hs = view.hs /\ q[k].conf = view.conf /\ q[k].snap = view.snap
      <3>1. es # << >>
        BY <1>6
      <3> QED BY <1>7, <1>8, <3>1
    <2>3. view.hs.commit <= hs.commit /\ hs.commit \in Nat /\ view.hs.commit \in Nat
      BY <1>1, <1>4, <1>5 DEF CoreKeeps, Outside, CoreShape, HardState, IsStore
    <2> HIDE DEF g
    <2>4. Full(g, b)
      <3> SUFFICES ASSUME NEW i \in DOMAIN g, NEW j \in (b + 1)..i PROVE j \in DOMAIN g
        BY DEF Full
      <3>1. i \in Nat /\ j \in Nat /\ j <= i /\ b < j
        BY <1>4, <1>6, <2>1
      <3>2. CASE i \in DOMAIN F
        BY <1>5, <2>1, <3>1, <3>2 DEF StoreKeeps, Full
      <3>3. CASE i \in new /\ j >= offset
        BY <1>6, <2>1, <3>1, <3>3
      <3>4. CASE i \in new /\ j < offset
        <4>1. offset - 1 \in DOMAIN F
          BY <1>4, <1>5, <1>6, <2>2, <3>1, <3>4 DEF CoreKeeps
        <4>2. j \in (b + 1)..(offset - 1)
          BY <1>4, <1>6, <3>1, <3>4
        <4> QED BY <1>5, <2>1, <4>1, <4>2 DEF StoreKeeps, Full
      <3> QED BY <1>6, <2>1, <3>1, <3>2, <3>3, <3>4
    <2>5. Committed(chosen, g, b, view.hs.commit)
      <3> SUFFICES ASSUME NEW i \in DOMAIN g, b < i, i <= view.hs.commit
                   PROVE  i \in DOMAIN chosen /\ chosen[i].entry = g[i]
        BY DEF Committed
      <3>1. i \in Nat
        BY <1>4, <1>6, <2>1
      <3>2. CASE i \in new
        BY <1>5, <2>1, <2>2, <2>3, <3>1, <3>2 DEF CoreKeeps, Committed
      <3>3. CASE i \notin new
        BY <1>5, <2>1, <3>3 DEF StoreKeeps, Committed
      <3> QED BY <3>2, <3>3
    <2>6. ASSUME NEW m \in sent, IsAck(m) PROVE Honours(ldrLog, g, b, m)
      <3>1. Honours(ldrLog, CoreLog, b, m) /\ Honours(ldrLog, F, b, m)
        BY <1>5, <2>2, <2>6 DEF AcksKeep, AckKeeps, Acks, StoreKeeps
      <3>2. \A i \in DOMAIN F : i \in DOMAIN g
        BY <2>1
      <3>3. \A i \in 1..m.arg : i \in new => i \in DOMAIN g
        BY <2>1
      <3> QED BY <2>1, <3>1, <3>2, <3>3 DEF Honours
    <2>7. Peers = {} => Owns(q[k])
      <3> SUFFICES ASSUME Peers = {} PROVE Owns(q[k])
        OBVIOUS
      <3>1. Owns(view) /\ \A i \in DOMAIN chosen : i < offset /\ i \in DOMAIN F
        BY <1>1, <1>4, <1>5 DEF Alone, Outside, Owns
      <3>2. \A i \in DOMAIN chosen : i \notin new /\ i \in DOMAIN g /\ g[i] = F[i]
        BY <1>4, <1>6, <2>1, <3>1
      <3> QED BY <2>2, <3>1, <3>2 DEF Owns, HasSnapshot, g
    <2> QED BY <1>5, <2>1, <2>2, <2>4, <2>5, <2>6, <2>7 DEF StoreKeeps, g
  <1>12. /\ Final'.snap = view.snap /\ Final'.hs = view.hs /\ Final'.conf = view.conf
         /\ DOMAIN Final'.entries = DOMAIN F \cup Recent
         /\ \A i \in DOMAIN Final'.entries :
               IF i \in Recent THEN i \in DOMAIN CoreLog /\ Final'.entries[i] = CoreLog[i]
               ELSE i \in DOMAIN F /\ Final'.entries[i] = F[i]
         /\ es = << >> => Final' = view
    <2>1. CASE es = << >>
      <3>1. q = << >> /\ Recent = {}
        BY <1>6, <1>7, <1>9, <2>1
      <3> QED BY <1>2, <2>1, <3>1 DEF Final
    <2>2. CASE es # << >>
      <3>1. Len(es) \in 1..Len(es) /\ q # << >>
        BY <1>6, <1>7, <2>2
      <3>2. Final' = q[Len(es)]
        BY <1>2, <1>7, <3>1 DEF Final
      <3> QED BY <1>7, <1>9, <1>10, <2>2, <3>1, <3>2
    <2> QED BY <2>1, <2>2
  <1>13. CoreLog' = CoreLog
    <2>1. DOMAIN CoreLog = Recent \cup DOMAIN F
      BY <1>4 DEF CoreLog
    <2>2. CoreLog' = [i \in Recent \cup DOMAIN Final'.entries |->
                        IF i \in Recent THEN unstable[i - offset + 1] ELSE Final'.entries[i]]
      BY <1>1, <1>9 DEF CoreLog
    <2>3. CoreLog = [i \in Recent \cup DOMAIN F |->
                        IF i \in Recent THEN unstable[i - offset + 1] ELSE F[i]]
      BY <1>4 DEF CoreLog
    <2>4. Recent \cup DOMAIN Final'.entries = Recent \cup DOMAIN F
      BY <1>12
    <2>5. \A i \in Recent \cup DOMAIN F : i \notin Recent => Final'.entries[i] = F[i]
      BY <1>12
    <2> QED BY <2>2, <2>3, <2>4, <2>5
  <1>14. CoreBase' = CoreBase /\ CoreTop' = CoreTop
    <2>1. Base(Final') = b
      BY <1>12 DEF Base, HasSnapshot
    <2>2. unstable = << >> => Final' = Final
      BY <1>4, <1>6, <1>12
    <2> QED BY <1>1, <1>4, <2>1, <2>2 DEF CoreBase, CoreTop
  <1>15. Placed'
    <2>1. \A i \in Recent' : i \in DOMAIN Final'.entries /\ Final'.entries[i] = CoreLog'[i]
      BY <1>9, <1>12, <1>13
    <2>2. usnap # NoSnapshot => Final' = view
      BY <1>8, <1>12
    <2> QED BY <1>1, <1>2, <1>3, <1>4, <1>5, <1>12, <2>1, <2>2
        DEF Placed, Working, Storing, Inputs, Outside
  <1>16. Delivered'
    BY <1>1, <1>3, <1>5 DEF Delivered, IsChosen, Storing, knownVars
  <1>17. \A x \in Contents(todo') : StoreKeeps(x) /\ (Peers = {} => Owns(x))
    BY <1>2, <1>7, <1>11
  <1>18. /\ Final'.hs.commit <= hs.commit /\ DOMAIN Final.entries \subseteq DOMAIN Final'.entries
         /\ pc \notin Outside /\ pc' \notin Outside
    BY <1>1, <1>3, <1>4, <1>5, <1>12 DEF CoreKeeps, Outside
  <1> HIDE DEF LogInv
  <1> QED BY <1>1, <1>2, <1>13, <1>14, <1>15, <1>16, <1>17, <1>18, CallKeepsLog

\* Step 5: what is acknowledged has been stored.
LEMMA SendPersistedKeepsLog == ASSUME Inv, LogInv, SendPersisted PROVE LogInv'
  <1>1. /\ pc = "persisted" /\ ~busy /\ pc' = "apply"
        /\ sent' = sent \cup rd.persisted_msgs /\ batch' = rd.committed
        /\ UNCHANGED <<view, disk, todo, busy, rd, hs, role, unstable, offset, usnap,
                       persisted, msgs, ldrLog, chosen>>
    BY DEF SendPersisted, coreVars, storageVars
  <1>2. /\ disk = view /\ Final = view /\ Final' = Final /\ Stores = {view}
        /\ Stores' = {view} /\ SameVote(view.hs, hs) /\ IsStore(view)
    <2>1. SameVote(view.hs, hs)
      BY <1>1, IdleStore DEF Inv, Kept, Handed
    <2> QED BY <1>1, <2>1, IdleStore DEF Final, Stores
  <1>3. CoreLog' = CoreLog /\ CoreBase' = CoreBase /\ CoreTop' = CoreTop /\ Recent' = Recent
    BY <1>1, <1>2, LogStays
  <1>4. /\ Placed /\ CoreKeeps /\ AcksKeep /\ StoreKeeps(view) /\ Leading /\ Alone
        /\ Delivered
    BY <1>2 DEF LogInv, StoresKeep
  <1>5. /\ DOMAIN CoreLog = DOMAIN view.entries
        /\ \A i \in DOMAIN CoreLog : CoreLog[i] = view.entries[i]
        /\ CoreBase = Base(view)
    <2>1. \A i \in Recent : i \in DOMAIN view.entries /\ view.entries[i] = CoreLog[i]
      BY <1>1, <1>2, <1>4 DEF Placed
    <2>2. usnap # NoSnapshot => view.snap = usnap
      BY <1>1, <1>2, <1>4 DEF Placed, Working, Storing
    <2>3. CoreBase = Base(view)
      BY <1>2, <2>2 DEF CoreBase, Base, HasSnapshot
    <2> QED BY <1>2, <2>1, <2>3 DEF CoreLog
  <1>6. Acks' \subseteq Acks
    BY <1>1 DEF Acks
  <1>7. AcksKeep'
    <2>1. view.hs.term = hs.term /\ \A m \in Acks : m.term <= hs.term
      BY <1>1, <1>2, <1>4 DEF SameVote, AcksKeep, AckKeeps, Outside
    <2> QED BY <1>1, <1>2, <1>3, <1>4, <1>6, <2>1 DEF AcksKeep, AckKeeps, Outside
  <1>8. StoresKeep'
    <2>1. ASSUME NEW m \in sent', IsAck(m) PROVE Honours(ldrLog, view.entries, Base(view), m)
      <3>1. m \in Acks
        BY <1>1, <2>1 DEF Acks
      <3> QED BY <1>4, <1>5, <3>1 DEF AcksKeep, AckKeeps, Honours
    <2> QED BY <1>1, <1>2, <1>4, <2>1 DEF StoresKeep, StoreKeeps
  <1>9. Placed'
    BY <1>1, <1>2, <1>3, <1>4 DEF Placed, Working, Storing, Inputs, Outside
  <1>10. CoreKeeps'
    BY <1>1, <1>2, <1>3, <1>4 DEF CoreKeeps, Outside
  <1>11. Leading' /\ Alone'
    BY <1>1, <1>2, <1>3, <1>4 DEF Leading, Alone, Owns, Outside
  <1>12. Delivered'
    BY <1>1, <1>4 DEF Delivered, IsChosen, Storing
  <1> QED BY <1>7, <1>8, <1>9, <1>10, <1>11, <1>12 DEF LogInv

\* A step that leaves stores, log and what is known alone, whatever becomes
\* of the Ready.
LEMMA IdleKeepsLog ==
    ASSUME Inv, LogInv, ~busy, UNCHANGED storageVars, knownVars' = knownVars,
           UNCHANGED <<unstable, offset, usnap, persisted>>,
           hs'.term >= hs.term, hs'.term \in 0..MaxTerm, hs'.commit = hs.commit,
           role' \in {"Candidate", "Leader"} => hs'.term > 0,
           role' = "Leader" => role = "Leader" /\ hs'.term = hs.term,
           Acks' \subseteq Acks, pc \notin Outside, pc' \notin Outside,
           \A m \in msgs' : m \in msgs \/ ~IsAck(m),
           Placed', Delivered'
    PROVE  LogInv'
  <1>1. /\ Final' = Final /\ Stores' = Stores /\ disk' = disk /\ view' = view /\ todo' = todo
    BY DEF storageVars, Final, Stores
  <1>2. CoreLog' = CoreLog /\ CoreBase' = CoreBase /\ CoreTop' = CoreTop
    BY <1>1, LogStays
  <1>3. StoresKeep'
    BY <1>1, StoreStays DEF StoresKeep, LogInv
  <1>4. AcksKeep'
    <2>1. hs.term \in Nat /\ hs'.term \in Nat
      BY DEF Inv, Shape, CoreShape, HardState
    <2> QED BY <1>1, <1>2, <2>1 DEF AcksKeep, AckKeeps, LogInv, knownVars
  <1>5. CoreKeeps'
    BY <1>1, <1>2 DEF CoreKeeps, LogInv, knownVars
  <1>6. Leading'
    BY <1>2 DEF Leading, LogInv, knownVars
  <1>7. Alone'
    BY <1>1 DEF Alone, Owns, LogInv, knownVars
  <1> QED BY <1>3, <1>4, <1>5, <1>6, <1>7 DEF LogInv

----------------------------------------------------------------------------
(* A Ready, and what comes after it.                                       *)

\* What is handed out lies above the snapshot.
LEMMA FirstIsAboveBase ==
    ASSUME NEW s, Bounded(s) PROVE first_index(s) \in Nat /\ first_index(s) > Base(s)
  <1>1. first_index(s) \in Nat \ {0}
    BY FirstIsNat
  <1>2. HasSnapshot(s) => s.snap.index \in Nat
    BY DEF Bounded, IsStore, HasSnapshot, Snapshot
  <1> QED BY <1>1, <1>2 DEF first_index, Base

\* What is committed and stored is handed out as it was chosen.
LEMMA HandedOutIsChosen ==
    ASSUME NEW s, Bounded(s), NEW f, NEW C, NEW c \in Nat, NEW p \in Nat, NEW from \in Nat,
           Full(f, Base(s)), Committed(C, f, Base(s), c),
           c = Base(s) \/ c \in DOMAIN f,
           \A i \in DOMAIN f : i <= p => i \in DOMAIN s.entries /\ s.entries[i] = f[i],
           NEW q, q = NextEntries(Lesser(c, p), s, from)
    PROVE  \A k \in DOMAIN q :
              /\ q[k].index \in DOMAIN C /\ q[k].entry \in Entry
              /\ C[q[k].index].entry = q[k].entry
  <1> DEFINE low == Greater(from + 1, first_index(s))
             last == Lesser(c, p)
             n == IF last < low THEN 0 ELSE last - low + 1
  <1>1. first_index(s) \in Nat /\ first_index(s) > Base(s) /\ Base(s) \in Nat
    BY FirstIsAboveBase, BaseIsNat
  <1>2. low \in Nat /\ last \in Nat /\ low > Base(s) /\ last <= c /\ last <= p
    BY <1>1 DEF Greater, Lesser
  <1>3. q = [k \in 1..n |-> [index |-> low + k - 1, entry |-> s.entries[low + k - 1]]]
    BY DEF NextEntries
  <1> HIDE DEF low, last
  <1>4. ASSUME NEW k \in DOMAIN q
        PROVE  /\ q[k].index \in DOMAIN C /\ q[k].entry \in Entry
               /\ C[q[k].index].entry = q[k].entry
    <2> DEFINE i == low + k - 1
    <2>1. k \in 1..n /\ q[k].index = i /\ q[k].entry = s.entries[i]
      BY <1>3
    <2>2. i \in Nat /\ Base(s) < i /\ i <= last
      BY <1>1, <1>2, <2>1
    <2> HIDE DEF i
    <2>3. c \in DOMAIN f
      BY <1>1, <1>2, <2>2
    <2>4. i \in DOMAIN f
      <3>1. i \in (Base(s) + 1)..c
        BY <1>1, <1>2, <2>2
      <3> QED BY <2>3, <3>1 DEF Full
    <2>5. i \in DOMAIN s.entries /\ s.entries[i] = f[i]
      BY <1>2, <2>2, <2>4
    <2>6. i \in DOMAIN C /\ C[i].entry = f[i]
      BY <1>2, <2>2, <2>4 DEF Committed
    <2>7. s.entries[i] \in Entry
      BY <2>5 DEF Bounded, IsStore
    <2> QED BY <2>1, <2>5, <2>6, <2>7
  <1> QED BY <1>4

\* Nothing is ready.
LEMMA NothingReadyKeepsLog == ASSUME Inv, LogInv, NothingReady PROVE LogInv'
  <1>1. /\ pc = "ready" /\ pc' = "input" /\ unstable = << >> /\ usnap = NoSnapshot
        /\ UNCHANGED <<storageVars, rd, batch, coreVars, worldVars>>
    BY DEF NothingReady, HasReady
  <1>2. /\ UNCHANGED <<role, unstable, offset, usnap, persisted, hs, msgs>>
        /\ knownVars' = knownVars
    BY <1>1 DEF coreVars, worldVars, knownVars
  <1>3. /\ Placed /\ CoreKeeps /\ Leading /\ Delivered /\ ~busy
        /\ hs.term \in 0..MaxTerm
    BY <1>1, LoopConstants DEF LogInv, Placed, Inputs, CoreKeeps, Inv, Shape, CoreShape, HardState
  <1>4. Acks' = Acks
    BY <1>1, <1>2 DEF Acks, knownVars
  <1>5. Placed'
    <2>1. Final' = Final /\ busy' = busy
      BY <1>1 DEF storageVars, Final
    <2> QED BY <1>1, <1>2, <1>3, <2>1 DEF Placed, Inputs, Outside, Working, Storing
  <1>6. Delivered'
    BY <1>1, <1>2, <1>3 DEF Delivered, IsChosen, Storing, knownVars
  <1>7. pc \notin Outside /\ pc' \notin Outside
    BY <1>1 DEF Outside
  <1>8. role \in {"Candidate", "Leader"} => hs.term > 0
    BY <1>3 DEF Leading
  <1> HIDE DEF LogInv
  <1> QED BY <1>1, <1>2, <1>3, <1>4, <1>5, <1>6, <1>7, <1>8, IdleKeepsLog

\* Everything of the Ready has been dealt with.
LEMMA ReadyDoneKeepsLog == ASSUME Inv, LogInv, ReadyDone PROVE LogInv'
  <1>1. /\ pc = "light" /\ pc' = "input" /\ ~busy /\ rd' = NoReady
        /\ UNCHANGED <<storageVars, batch, coreVars, worldVars>>
    BY DEF ReadyDone
  <1>2. /\ UNCHANGED <<role, unstable, offset, usnap, persisted, hs, msgs>>
        /\ knownVars' = knownVars
    BY <1>1 DEF coreVars, worldVars, knownVars
  <1>3. /\ Placed /\ CoreKeeps /\ Leading /\ Delivered
        /\ hs.term \in 0..MaxTerm
    BY LoopConstants DEF LogInv, CoreKeeps, Inv, Shape, CoreShape, HardState
  <1>4. Acks' \subseteq Acks
    BY <1>1, <1>2 DEF Acks, knownVars, NoReady
  <1>5. Placed'
    <2>1. Final' = Final /\ busy' = busy
      BY <1>1 DEF storageVars, Final
    <2> QED BY <1>1, <1>2, <1>3, <2>1 DEF Placed, Inputs, Outside, Working, Storing
  <1>6. Delivered'
    BY <1>1, <1>2, <1>3 DEF Delivered, IsChosen, Storing, knownVars
  <1>7. pc \notin Outside /\ pc' \notin Outside
    BY <1>1 DEF Outside
  <1>8. role \in {"Candidate", "Leader"} => hs.term > 0
    BY <1>3 DEF Leading
  <1> HIDE DEF LogInv
  <1> QED BY <1>1, <1>2, <1>3, <1>4, <1>5, <1>6, <1>7, <1>8, IdleKeepsLog

\* A Ready carries what has been chosen; a leader's messages, which do not
\* wait, acknowledge nothing.
LEMMA TakeReadyKeepsLog == ASSUME Inv, LogInv, TakeReady PROVE LogInv'
  <1> DEFINE deliver == IF usnap # NoSnapshot THEN << >> ELSE Undelivered
             leads == role = "Leader"
  <1>1. /\ pc = "ready" /\ pc' = Stage("snapshot", rd')
        /\ rd' = [snap |-> usnap, base |-> offset - 1, ents |-> unstable,
                  has_hs |-> hs # prev_hs, hs |-> hs,
                  msgs |-> IF leads THEN msgs ELSE {},
                  persisted_msgs |-> IF leads THEN {} ELSE msgs,
                  committed |-> deliver]
        /\ sent' = sent \cup rd'.msgs /\ msgs' = {}
        /\ UNCHANGED <<view, disk, todo, busy, batch, hs, role, unstable,
                       offset, usnap, persisted, ldrLog, chosen>>
    BY DEF TakeReady, storageVars
  <1>2. /\ rd'.snap = usnap /\ rd'.base = offset - 1 /\ rd'.ents = unstable
        /\ rd'.committed = deliver
        /\ rd'.msgs = (IF leads THEN msgs ELSE {})
        /\ rd'.persisted_msgs = (IF leads THEN {} ELSE msgs)
    BY <1>1
  <1>3. /\ Placed /\ CoreKeeps /\ Leading /\ Delivered /\ AcksKeep /\ StoresKeep /\ Alone
        /\ ~busy
    BY <1>1 DEF LogInv, Placed, Inputs
  <1>4. Final = view /\ Bounded(view) /\ Shape /\ CoreShape
    BY <1>3, IdleStore DEF Shape
  <1>5. /\ Final' = Final /\ Stores' = Stores
    BY <1>1 DEF Final, Stores
  <1>6. CoreLog' = CoreLog /\ CoreBase' = CoreBase /\ CoreTop' = CoreTop /\ Recent' = Recent
    BY <1>1, <1>5, LogStays
  <1>7. /\ pc' \in {"snapshot", "append", "hardstate", "persisted"}
        /\ pc' = "snapshot" <=> usnap # NoSnapshot
        /\ pc' \in {"hardstate", "persisted"} => unstable = << >>
    BY <1>1, <1>2 DEF Stage
  <1>8. /\ \A m \in sent' : IsAck(m) => m \in sent
        /\ Acks' \subseteq Acks
    <2>1. leads => \A m \in msgs : ~IsAck(m)
      BY <1>3 DEF Leading
    <2>2. \A m \in sent' : IsAck(m) => m \in sent
      BY <1>1, <1>2, <2>1
    <2> QED BY <1>1, <1>2, <2>2 DEF Acks
  <1> HIDE DEF deliver
  <1>9. StoresKeep'
    BY <1>1, <1>3, <1>5, <1>8 DEF StoresKeep, StoreKeeps
  <1>10. AcksKeep'
    <2>1. ASSUME NEW m \in Acks' PROVE AckKeeps(m)'
      <3>1. m \in Acks /\ IsAck(m)
        BY <1>8, <2>1 DEF Acks
      <3> QED BY <1>1, <1>3, <1>6, <1>8, <3>1 DEF AcksKeep, AckKeeps, Outside
    <2> QED BY <2>1 DEF AcksKeep
  <1>11. Placed'
    <2>1. offset = rd'.base + 1
      BY <1>2, <1>4 DEF CoreShape
    <2>2. pc' \in {"hardstate", "persisted"} => Recent' = {}
      BY <1>1, <1>4, <1>7 DEF Recent, CoreShape
    <2> QED BY <1>1, <1>2, <1>3, <1>5, <1>6, <1>7, <2>1, <2>2
        DEF Placed, Inputs, Outside, Working, Storing
  <1>12. CoreKeeps'
    BY <1>1, <1>3, <1>5, <1>6, <1>7 DEF CoreKeeps, Outside
  <1>13. Leading' /\ Alone'
    BY <1>1, <1>3, <1>5, <1>6, <1>7 DEF Leading, Alone, Owns, Outside
  <1>14. IsChosen(deliver)
    <2>1. CASE usnap # NoSnapshot
      BY <2>1 DEF deliver, IsChosen
    <2>2. CASE usnap = NoSnapshot
      <3>1. CoreBase = Base(view)
        BY <1>4, <2>2 DEF CoreBase
      <3>2. /\ Full(CoreLog, Base(view)) /\ Committed(chosen, CoreLog, Base(view), hs.commit)
            /\ hs.commit = Base(view) \/ hs.commit \in DOMAIN CoreLog
            /\ persisted < offset
        BY <1>1, <1>3, <3>1 DEF CoreKeeps, Outside
      <3>3. \A i \in DOMAIN CoreLog : i <= persisted =>
                i \in DOMAIN view.entries /\ view.entries[i] = CoreLog[i]
        <4>1. \A i \in DOMAIN CoreLog : i <= persisted => i \notin Recent
          BY <1>4, <3>2 DEF Recent, CoreShape
        <4> QED BY <1>4, <4>1 DEF CoreLog
      <3>4. hs.commit \in Nat /\ persisted \in Nat /\ since \in Nat
        BY <1>4 DEF CoreShape, HardState
      <3>5. deliver = NextEntries(Lesser(hs.commit, persisted), view, since)
        BY <2>2 DEF deliver, Undelivered, Committable
      <3> QED BY <1>4, <3>2, <3>3, <3>4, <3>5, HandedOutIsChosen DEF IsChosen
    <2> QED BY <2>1, <2>2
  <1>15. Delivered'
    BY <1>1, <1>2, <1>3, <1>14 DEF Delivered, IsChosen
  <1> QED BY <1>9, <1>10, <1>11, <1>12, <1>13, <1>15 DEF LogInv

\* The commit index of a single server moves to an entry of its own.
LEMMA OwnTop ==
    ASSUME NEW s, Bounded(s), NEW i \in Nat, Owns(s), NEW t, t \in Nat, t > 0, term(s, i) = t
    PROVE  i \in DOMAIN s.entries
  <1>1. HasSnapshot(s) => s.snap.index = 0 /\ s.snap.term = 0
    BY DEF Owns
  <1> QED BY <1>1 DEF term, Compacted, Unavailable

\* The last index of a store is none of its snapshot's, or that of its last
\* entry.
LEMMA LastIsThere ==
    ASSUME NEW s, Bounded(s)
    PROVE  /\ last_index(s) \in Nat
           /\ \A i \in DOMAIN s.entries : i <= last_index(s)
           /\ IF DOMAIN s.entries = {} THEN last_index(s) = Base(s)
              ELSE last_index(s) \in DOMAIN s.entries
  <1>1. last_index(s) \in 0..MaxIndex /\ MaxIndex \in Nat
    BY LastIsBounded, LoopConstants
  <1>2. CASE DOMAIN s.entries # {}
    <2> DEFINE S == DOMAIN s.entries
    <2>1. S \subseteq 0..MaxIndex
      BY <1>1 DEF Bounded, IsStore
    <2>2. Highest(S) \in S /\ \A j \in S : j <= Highest(S)
      <3> HIDE DEF S
      <3> QED BY <1>1, <1>2, <2>1, HighestIsGreatest DEF S
    <2> QED BY <1>1, <1>2, <2>2 DEF last_index
  <1>3. CASE DOMAIN s.entries = {}
    BY <1>1, <1>3 DEF last_index, Base
  <1> QED BY <1>2, <1>3

\* What has been chosen stays chosen.
LEMMA ChooseKeeps ==
    ASSUME NEW t, NEW f, NEW c, Choose(t, f, c)
    PROVE  /\ Chosen(chosen, chosen')
           /\ DOMAIN chosen' = DOMAIN chosen \cup {j \in DOMAIN f : j <= c}
           /\ \A i \in DOMAIN f : i <= c /\ i \notin DOMAIN chosen => chosen'[i].entry = f[i]
  BY DEF Choose, Chosen

\* A store keeps what it keeps while more is known and chosen.
LEMMA StoreLearns ==
    ASSUME NEW s \in Stores, StoreKeeps(s), sent' = sent, Chosen(chosen, chosen'),
           Peers = {} \/ Known(ldrLog, ldrLog'), AcksKeep, Bounded(s)
    PROVE  StoreKeeps(s)'
  <1>1. Committed(chosen', s.entries, Base(s), s.hs.commit)
    BY CommittedStays DEF StoreKeeps
  <1>2. ASSUME NEW m \in sent, IsAck(m) PROVE Honours(ldrLog', s.entries, Base(s), m)
    <2> DEFINE f == s.entries
               b == Base(s)
    <2>1. /\ m \in Acks /\ m.term \in 0..MaxTerm /\ m.arg \in Nat /\ Peers # {}
      BY <1>2, LoopConstants DEF Acks, AcksKeep, AckKeeps
    <2>2. b \in Nat /\ b <= b /\ Honours(ldrLog, f, b, m)
      BY <1>2, BaseIsNat DEF StoreKeeps
    <2> HIDE DEF f, b
    <2>3. Honours(ldrLog', f, b, m)
      BY <2>1, <2>2, HonoursStays
    <2> QED BY <2>3 DEF f, b
  <1>3. Base(s) = 0 \/ Base(s) \in DOMAIN chosen'
    BY DEF StoreKeeps, Chosen
  <1> QED BY <1>1, <1>2, <1>3 DEF StoreKeeps

\* Step 8: the log is stored; a single server chooses what it has stored.
LEMMA AdvanceKeepsLog == ASSUME Inv, LogInv, Advance PROVE LogInv'
  <1> DEFINE stored == IF rd.ents # << >> THEN rd.base + Len(rd.ents)
                       ELSE IF rd.snap # NoSnapshot THEN rd.snap.index ELSE 0
             top == Greater(persisted, stored)
             alone == role = "Leader" /\ Peers = {} /\ term(view, top) = hs.term
             commit == IF alone THEN Greater(hs.commit, top) ELSE hs.commit
             deliver == NextEntries(Lesser(commit, top), view, since)
             F == view.entries
             b == Base(view)
  <1>1. /\ pc = "apply" /\ pc' = "light" /\ ~busy
        /\ unstable' = << >> /\ offset' = offset + Len(unstable) /\ usnap' = NoSnapshot
        /\ persisted' = top /\ hs' = [hs EXCEPT !.commit = commit] /\ batch' = deliver
        /\ Choose(hs.term, IF commit > hs.commit THEN ldrLog[hs.term] ELSE << >>, commit)
        /\ UNCHANGED <<view, disk, todo, busy, rd, role, msgs, sent, ldrLog>>
    BY DEF Advance, storageVars
  <1>2. /\ Final = view /\ Final' = view /\ Stores = {view} /\ Stores' = {view}
        /\ disk = view /\ Bounded(view) /\ IsStore(view) /\ Shape /\ CoreShape
        /\ DOMAIN F \subseteq Nat
    <2>1. /\ Final = view /\ Stores = {view} /\ disk = view /\ Bounded(view)
          /\ IsStore(view) /\ Shape /\ todo = << >>
      BY <1>1, IdleStore
    <2> QED BY <1>1, <2>1 DEF Final, Stores, Shape, IsStore
  <1>3. /\ Placed /\ CoreKeeps /\ AcksKeep /\ StoreKeeps(view) /\ Leading /\ Alone
        /\ Delivered
    BY <1>2 DEF LogInv, StoresKeep
  <1>4. /\ unstable = rd.ents /\ offset = rd.base + 1 /\ usnap = rd.snap
        /\ rd.base \in Nat /\ offset \in Nat /\ Len(unstable) \in Nat
        /\ unstable \in Seq(Entry) /\ persisted \in Nat /\ since \in Nat
        /\ hs \in HardState /\ hs.commit \in Nat /\ hs.term \in Nat
        /\ b \in Nat /\ MaxTerm \in Nat
    <2>1. unstable = rd.ents /\ offset = rd.base + 1 /\ usnap = rd.snap
      BY <1>1, <1>3 DEF Placed, Working
    <2> QED BY <1>2, <2>1, BaseIsNat, LoopConstants DEF Shape, ReadyShape, CoreShape, HardState
  \* The log of the core is the one that is stored.
  <1>5. /\ \A i \in Recent : i \in DOMAIN F
        /\ DOMAIN CoreLog = DOMAIN F /\ \A i \in DOMAIN F : CoreLog[i] = F[i]
        /\ CoreBase = b
    <2>1. \A i \in Recent : i \in DOMAIN F /\ F[i] = CoreLog[i]
      BY <1>1, <1>2, <1>3 DEF Placed
    <2>2. usnap # NoSnapshot => view.snap = usnap
      BY <1>1, <1>2, <1>3 DEF Placed, Working, Storing
    <2>3. CoreBase = b
      BY <1>2, <2>2 DEF CoreBase, Base, HasSnapshot
    <2> QED BY <1>2, <2>1, <2>3 DEF CoreLog
  <1>6. /\ DOMAIN CoreLog' = DOMAIN F /\ \A i \in DOMAIN F : CoreLog'[i] = F[i]
        /\ CoreBase' = b /\ CoreTop' = last_index(view)
    <2>1. Recent' = {}
      BY <1>1, <1>4 DEF Recent
    <2> QED BY <1>1, <1>2, <2>1 DEF CoreLog, CoreBase, CoreTop
  <1>7. /\ last_index(view) \in Nat /\ \A i \in DOMAIN F : i <= last_index(view)
        /\ IF DOMAIN F = {} THEN last_index(view) = b ELSE last_index(view) \in DOMAIN F
    BY <1>2, LastIsThere
  <1>8. unstable # << >> =>
            /\ Len(unstable) > 0 /\ offset + Len(unstable) - 1 \in Recent
            /\ offset + Len(unstable) - 1 \in DOMAIN F
            /\ CoreTop = offset + Len(unstable) - 1 /\ stored = CoreTop
            /\ stored = offset' - 1
    <2> SUFFICES ASSUME unstable # << >>
                 PROVE  /\ Len(unstable) > 0 /\ offset + Len(unstable) - 1 \in Recent
                        /\ offset + Len(unstable) - 1 \in DOMAIN F
                        /\ CoreTop = offset + Len(unstable) - 1 /\ stored = CoreTop
                        /\ stored = offset' - 1
      OBVIOUS
    <2>1. Len(unstable) > 0
      BY <1>4
    <2>2. offset + Len(unstable) - 1 \in Recent
      BY <1>4, <2>1 DEF Recent
    <2>3. CoreTop = offset + Len(unstable) - 1
      BY DEF CoreTop
    <2>4. stored = rd.base + Len(unstable)
      BY <1>4
    <2>5. offset + Len(unstable) - 1 \in DOMAIN F
      BY <1>5, <2>2
    <2>6. offset' = offset + Len(unstable)
      BY <1>1
    <2> HIDE DEF stored, top, commit, F, b, deliver
    <2> DEFINE n == Len(unstable)
    <2>7. /\ n \in Nat /\ n > 0 /\ offset = rd.base + 1 /\ rd.base \in Nat
          /\ stored = rd.base + n /\ offset' = offset + n /\ CoreTop = offset + n - 1
      BY <1>4, <2>1, <2>3, <2>4, <2>6
    <2> HIDE DEF n
    <2>8. stored = CoreTop /\ stored = offset' - 1
      BY <2>7
    <2> QED BY <2>1, <2>2, <2>3, <2>5, <2>8
  <1>9. unstable = << >> =>
            /\ offset' = offset /\ stored \in Nat
            /\ usnap # NoSnapshot => stored = usnap.index /\ stored = offset - 1 /\ stored = CoreTop
            /\ usnap = NoSnapshot => stored = 0 /\ CoreTop = last_index(view)
    <2> SUFFICES ASSUME unstable = << >>
                 PROVE  /\ offset' = offset /\ stored \in Nat
                        /\ usnap # NoSnapshot =>
                                stored = usnap.index /\ stored = offset - 1 /\ stored = CoreTop
                        /\ usnap = NoSnapshot => stored = 0 /\ CoreTop = last_index(view)
      OBVIOUS
    <2>1. offset' = offset
      BY <1>1, <1>4
    <2>2. usnap # NoSnapshot => usnap.index \in Nat /\ offset = usnap.index + 1
      BY <1>2, <1>3 DEF Placed, CoreShape, Snapshot
    <2> QED BY <1>2, <1>4, <2>1, <2>2 DEF CoreTop
  <1>10. usnap # NoSnapshot => b = usnap.index /\ \A i \in DOMAIN F : i > usnap.index
    <2>1. usnap # NoSnapshot => view.snap = usnap /\ \A i \in DOMAIN F : i > usnap.index
      BY <1>1, <1>2, <1>3 DEF Placed, Working, Storing
    <2> QED BY <2>1 DEF Base, HasSnapshot
  <1> HIDE DEF stored
  <1>11. /\ stored \in Nat /\ CoreTop \in Nat /\ CoreTop <= last_index(view)
         /\ stored <= last_index(view) /\ stored < offset' /\ offset <= offset'
    <2>1. CASE unstable # << >>
      <3>1. /\ CoreTop = offset + Len(unstable) - 1 /\ CoreTop \in DOMAIN F
            /\ stored = CoreTop /\ stored = offset' - 1 /\ Len(unstable) > 0
        BY <1>8, <2>1
      <3>2. CoreTop <= last_index(view)
        BY <1>7, <3>1
      <3>3. offset' = offset + Len(unstable)
        BY <1>1
      <3>4. CoreTop \in Nat
        BY <1>4, <3>1
      <3>5. stored \in Nat /\ stored <= last_index(view) /\ stored < offset'
        <4>1. offset' \in Nat
          BY <1>4, <3>3
        <4> QED BY <3>1, <3>2, <3>4, <4>1
      <3>6. offset <= offset'
        BY <1>4, <3>1, <3>3
      <3> QED BY <3>2, <3>4, <3>5, <3>6
    <2>2. CASE unstable = << >> /\ usnap # NoSnapshot
      <3>1. CoreTop = b /\ b <= last_index(view)
        BY <1>2, <1>4, <1>7, <1>9, <1>10, <2>2
      <3> QED BY <1>4, <1>7, <1>9, <2>2, <3>1
    <2>3. CASE unstable = << >> /\ usnap = NoSnapshot
      <3>1. offset > 0
        BY <1>4
      <3> QED BY <1>4, <1>7, <1>9, <2>3, <3>1
    <2> QED BY <2>1, <2>2, <2>3
  <1>12. /\ top \in Nat /\ top <= last_index(view) /\ top < offset'
    <2>1. persisted <= CoreTop /\ persisted < offset
      BY <1>1, <1>3 DEF CoreKeeps, Outside
    <2>2. offset' \in Nat
      BY <1>1, <1>4
    <2> QED BY <1>4, <1>7, <1>11, <2>1, <2>2 DEF Greater
  <1> HIDE DEF top
  <1>13. /\ commit \in Nat /\ hs.commit <= commit /\ (commit # hs.commit => alone /\ commit = top)
    BY <1>4, <1>12 DEF Greater
  <1>14. commit > hs.commit =>
            /\ role = "Leader" /\ Peers = {} /\ commit = top /\ top \in DOMAIN F /\ Owns(view)
            /\ usnap = NoSnapshot /\ b = 0
            /\ \A i \in 1..top : i \in DOMAIN F
            /\ \A i \in DOMAIN F : i \in DOMAIN ldrLog[hs.term] /\ F[i] = ldrLog[hs.term][i]
    <2> SUFFICES ASSUME commit > hs.commit
                 PROVE  /\ role = "Leader" /\ Peers = {} /\ commit = top
                        /\ top \in DOMAIN F /\ Owns(view)
                        /\ usnap = NoSnapshot /\ b = 0
                        /\ \A i \in 1..top : i \in DOMAIN F
                        /\ \A i \in DOMAIN F :
                                i \in DOMAIN ldrLog[hs.term] /\ F[i] = ldrLog[hs.term][i]
      OBVIOUS
    <2>1. alone /\ commit = top
      BY <1>4, <1>13
    <2>2. Owns(view) /\ usnap = NoSnapshot /\ hs.term > 0
      BY <1>2, <1>3, <2>1 DEF Alone, Placed, Leading
    <2>3. top \in DOMAIN F
      BY <1>2, <1>4, <1>12, <2>1, <2>2, OwnTop
    <2>4. b = 0
      BY <2>2 DEF Base, Owns
    <2>5. \A i \in 1..top : i \in DOMAIN F
      BY <1>3, <1>12, <2>3, <2>4 DEF StoreKeeps, Full
    <2>6. \A i \in DOMAIN F : i > 0
      BY <1>2 DEF Bounded, IsStore
    <2>7. \A i \in DOMAIN F : i \in DOMAIN ldrLog[hs.term] /\ F[i] = ldrLog[hs.term][i]
      BY <1>3, <1>5, <2>1, <2>4, <2>6 DEF Leading
    <2> QED BY <2>1, <2>2, <2>3, <2>4, <2>5, <2>7
  <1> HIDE DEF commit, deliver
  <1> DEFINE g == IF commit > hs.commit THEN ldrLog[hs.term] ELSE << >>
  <1>15. /\ Chosen(chosen, chosen')
         /\ DOMAIN chosen' = DOMAIN chosen \cup {j \in DOMAIN g : j <= commit}
         /\ \A i \in DOMAIN g : i <= commit /\ i \notin DOMAIN chosen => chosen'[i].entry = g[i]
    <2>1. Choose(hs.term, g, commit)
      BY <1>1
    <2> HIDE DEF g
    <2> QED BY <2>1, ChooseKeeps
  <1>16. commit <= hs.commit => DOMAIN chosen' = DOMAIN chosen
    <2> SUFFICES ASSUME commit <= hs.commit PROVE DOMAIN chosen' = DOMAIN chosen
      OBVIOUS
    <2>1. g = << >>
      BY <1>4, <1>13
    <2>2. DOMAIN g = {}
      BY <2>1
    <2> HIDE DEF g
    <2> QED BY <1>15, <2>2
  \* What this server has stored of the chosen log.
  <1>17. \A i \in DOMAIN F : b < i /\ i <= commit => i \in DOMAIN chosen' /\ chosen'[i].entry = F[i]
    <2> SUFFICES ASSUME NEW i \in DOMAIN F, b < i, i <= commit
                 PROVE  i \in DOMAIN chosen' /\ chosen'[i].entry = F[i]
      OBVIOUS
    <2>1. i \in Nat
      BY <1>2
    <2>2. CASE i <= hs.commit
      BY <1>3, <1>5, <1>15, <2>2 DEF CoreKeeps, Committed, Chosen
    <2>3. CASE ~(i <= hs.commit)
      <3>1. commit > hs.commit
        BY <1>4, <1>13, <2>1, <2>3
      <3>2. g = ldrLog[hs.term] /\ i \in DOMAIN g /\ F[i] = g[i]
        BY <1>14, <3>1
      <3>3. CASE i \in DOMAIN chosen
        BY <1>14, <1>15, <3>1, <3>3 DEF Owns, Chosen
      <3>4. CASE i \notin DOMAIN chosen
        BY <1>15, <3>2, <3>4
      <3> QED BY <3>3, <3>4
    <2> QED BY <2>2, <2>3
  <1>18. StoresKeep'
    <2>1. view \in Stores
      BY <1>2
    <2>2. Known(ldrLog, ldrLog')
      BY <1>1, KnownIsReflexive, Zenon
    <2>3. StoreKeeps(view)'
      BY <1>1, <1>2, <1>3, <1>15, <2>1, <2>2, StoreLearns
    <2> QED BY <1>1, <1>2, <2>3 DEF StoresKeep
  <1>19. hs'.term = hs.term /\ hs'.commit = commit
    BY <1>1, <1>4 DEF HardState
  <1>20. Full(CoreLog, b) /\ Full(CoreLog', b)
    <2>1. Full(CoreLog, b)
      BY <1>3, <1>5 DEF CoreKeeps
    <2> QED BY <1>5, <1>6, <2>1 DEF Full
  <1>21. AcksKeep'
    <2>1. Acks' = Acks
      BY <1>1 DEF Acks
    <2>2. ASSUME NEW m \in Acks PROVE Honours(ldrLog, CoreLog', b, m)
      BY <1>3, <1>5, <1>6 DEF AcksKeep, AckKeeps, Honours
    <2> QED BY <1>1, <1>3, <1>6, <1>19, <2>1, <2>2 DEF AcksKeep, AckKeeps, Outside
  <1>22. Placed'
    BY <1>1, <1>2, <1>3 DEF Placed, Inputs, Outside, Working, Storing
  <1>23. CoreKeeps'
    <2>1. Committed(chosen', CoreLog', b, commit)
      BY <1>6, <1>17 DEF Committed
    <2>2. /\ b <= hs.commit /\ view.hs.commit <= hs.commit
          /\ hs.commit = b \/ hs.commit \in DOMAIN F
      BY <1>1, <1>2, <1>3, <1>5 DEF CoreKeeps, Outside
    <2>3. commit = b \/ commit \in DOMAIN F
      BY <1>4, <1>13, <1>14, <2>2
    <2>4. view.hs.commit \in Nat
      BY <1>2 DEF IsStore, HardState
    <2>5. b <= commit /\ view.hs.commit <= commit
      BY <1>4, <1>13, <2>2, <2>4
    <2>6. offset' - 1 <= b \/ offset' - 1 \in DOMAIN F
      <3>1. CASE unstable # << >>
        BY <1>1, <1>4, <1>8, <3>1
      <3>2. CASE unstable = << >>
        BY <1>2, <1>3, <1>5, <1>9, <3>2 DEF CoreKeeps
      <3> QED BY <3>1, <3>2
    <2>7. b = 0 \/ b \in DOMAIN chosen'
      BY <1>3, <1>5, <1>15 DEF CoreKeeps, Chosen
    <2>8. persisted' <= CoreTop' /\ persisted' < offset'
      BY <1>1, <1>6, <1>12
    <2> QED BY <1>1, <1>2, <1>3, <1>6, <1>19, <1>20, <2>1, <2>3, <2>5, <2>6, <2>7, <2>8
        DEF CoreKeeps
  <1>24. Leading'
    <2>1. \A i : i <= CoreTop /\ i \in Nat => i <= CoreTop'
      BY <1>6, <1>7, <1>11
    <2>2. role = "Leader" => CoreBase <= CoreTop'
      BY <1>3, <1>4, <1>5, <2>1 DEF Leading
    <2>3. role = "Leader" => \A i \in DOMAIN ldrLog[hs.term] : i \in Nat
      BY <1>3, <1>4 DEF CoreKeeps
    <2> QED BY <1>1, <1>3, <1>5, <1>6, <1>19, <2>1, <2>2, <2>3 DEF Leading
  <1>25. Alone'
    <2> SUFFICES ASSUME Peers = {}
                 PROVE  Owns(view)' /\ \A i \in DOMAIN chosen' : i < offset'
      BY <1>1, <1>2 DEF Alone
    <2>1. Owns(view) /\ \A i \in DOMAIN chosen : i < offset
      BY <1>1, <1>2, <1>3 DEF Alone, Outside
    <2>2. offset' \in Nat /\ \A i \in DOMAIN chosen : i \in Nat
      <3>1. offset' \in Nat
        BY <1>1, <1>4
      <3>2. \A i \in DOMAIN F : i \in Nat
        BY <1>2 DEF Bounded, IsStore
      <3>3. \A i \in DOMAIN chosen : i \in DOMAIN F
        BY <2>1 DEF Owns
      <3> QED BY <3>1, <3>2, <3>3
    <2>3. CASE commit <= hs.commit
      BY <1>1, <1>4, <1>11, <1>15, <1>16, <2>1, <2>2, <2>3 DEF Owns, Chosen
    <2>4. CASE commit > hs.commit
      <3>1. g = ldrLog[hs.term] /\ commit = top /\ \A j \in DOMAIN g : j \in Nat /\ j > 0
        BY <1>3, <1>4, <1>14, <2>4 DEF CoreKeeps
      <3>2. \A i \in DOMAIN g : i <= commit => i \in DOMAIN F /\ F[i] = g[i]
        BY <1>12, <1>14, <2>4, <3>1
      <3>3. \A i \in DOMAIN chosen' : i \in DOMAIN F /\ F[i] = chosen'[i].entry
        BY <1>15, <2>1, <3>2 DEF Owns, Chosen
      <3>4. \A i \in DOMAIN chosen' : i < offset'
        BY <1>4, <1>11, <1>12, <1>15, <2>1, <2>2, <3>1
      <3> QED BY <1>1, <2>1, <3>3, <3>4 DEF Owns
    <2> QED BY <1>4, <1>13, <2>3, <2>4
  <1>26. Delivered'
    <2>1. Full(F, b) /\ Committed(chosen', F, b, commit) /\ (commit = b \/ commit \in DOMAIN F)
      <3>1. commit = b \/ commit \in DOMAIN F
        BY <1>1, <1>3, <1>4, <1>5, <1>13, <1>14 DEF CoreKeeps, Outside
      <3> QED BY <1>3, <1>17, <3>1 DEF Committed, StoreKeeps
    <2>2. IsChosen(batch)'
      <3>1. /\ Bounded(view) /\ commit \in Nat /\ top \in Nat /\ since \in Nat
            /\ deliver = NextEntries(Lesser(commit, top), view, since)
        BY <1>2, <1>4, <1>12, <1>13 DEF deliver
      <3>2. \A k \in DOMAIN deliver :
               /\ deliver[k].index \in DOMAIN chosen' /\ deliver[k].entry \in Entry
               /\ chosen'[deliver[k].index].entry = deliver[k].entry
        BY <2>1, <3>1, HandedOutIsChosen
      <3>3. batch' = deliver
        BY <1>1
      <3> QED BY <3>2, <3>3 DEF IsChosen
    <2> QED BY <1>1, <2>2 DEF Delivered, Storing
  <1> QED BY <1>18, <1>21, <1>22, <1>23, <1>24, <1>25, <1>26 DEF LogInv

----------------------------------------------------------------------------
(* Start, shutdown, crash.                                                 *)

\* What is left when the memory is gone: a store that could be seen before.
LEMMA FreshKeepsLog ==
    ASSUME Inv, LogInv, FreshMemory, knownVars' = knownVars, disk' = disk,
           view' \in Stores, todo' = << >>, ~busy', pc' \in Outside,
           pc' # "open" => view'.conf # NoConf
    PROVE  LogInv'
  <1>1. /\ rd' = NoReady /\ batch' = << >> /\ hs' = NoHardState /\ role' = "Follower"
        /\ unstable' = << >> /\ offset' = 1 /\ usnap' = NoSnapshot
        /\ persisted' = 0 /\ msgs' = {}
    BY DEF FreshMemory
  <1>2. Final' = view' /\ Stores' \subseteq Stores
    <2>1. Contents(<< >>) = {}
      BY DEF Contents
    <2> QED BY <2>1 DEF Final, Stores
  <1>3. /\ StoreKeeps(view') /\ Bounded(view') /\ Base(view') \in Nat
        /\ DOMAIN view'.entries \subseteq Nat
    BY FinalIsThere, BaseIsNat DEF LogInv, StoresKeep, Inv, Bounded, IsStore
  <1>4. /\ DOMAIN CoreLog' = DOMAIN view'.entries
        /\ \A i \in DOMAIN CoreLog' : CoreLog'[i] = view'.entries[i]
        /\ CoreBase' = Base(view')
    <2>1. Recent' = {}
      BY <1>1 DEF Recent
    <2> QED BY <1>1, <1>2, <2>1 DEF CoreLog, CoreBase
  <1>5. Acks' = {m \in sent : IsAck(m)}
    BY <1>1 DEF Acks, knownVars, NoReady
  <1>6. StoresKeep'
    BY <1>2, StoreStays DEF StoresKeep, LogInv
  <1>7. AcksKeep'
    <2>1. ASSUME NEW m \in sent, IsAck(m)
          PROVE  /\ m \in Acks /\ Honours(ldrLog, CoreLog', CoreBase', m)
      BY <1>3, <1>4, <2>1 DEF StoreKeeps, Honours, Acks
    <2> QED BY <1>5, <2>1 DEF AcksKeep, AckKeeps, LogInv, knownVars
  <1>8. Placed'
    BY <1>1, <1>2 DEF Placed, Outside, Inputs, Working, Storing
  <1>9. CoreKeeps'
    <2>1. Committed(chosen, CoreLog', CoreBase', 0)
      BY <1>3, <1>4 DEF Committed
    <2>2. Full(CoreLog', CoreBase')
      BY <1>3, <1>4 DEF StoreKeeps, Full
    <2>3. MaxTerm >= 0 /\ CoreBase' >= 0
      BY <1>3, <1>4, LoopConstants
    <2> QED BY <1>1, <1>3, <1>4, <2>1, <2>2, <2>3
        DEF CoreKeeps, LogInv, StoreKeeps, NoHardState, knownVars
  <1>10. Leading' /\ Delivered'
    BY <1>1 DEF Leading, Delivered, IsChosen, Outside, Storing
  <1>11. Alone'
    BY <1>2 DEF Alone, Owns, LogInv, knownVars
  <1> QED BY <1>6, <1>7, <1>8, <1>9, <1>10, <1>11 DEF LogInv

\* The loop ends between two Readies, with nothing left to store.
LEMMA ShutdownKeepsLog == ASSUME Inv, LogInv, Shutdown PROVE LogInv'
  <1>1. /\ pc = "input" /\ pc' = "stopped" /\ FreshMemory
        /\ UNCHANGED storageVars /\ knownVars' = knownVars
    BY DEF Shutdown, knownVars
  <1>2. ~busy /\ Final.conf # NoConf
    BY <1>1 DEF LogInv, Placed, Inputs
  <1>3. todo = << >> /\ Final = view /\ view \in Stores
    BY <1>2, IdleStore
  <1> HIDE DEF LogInv
  <1> QED BY <1>1, <1>2, <1>3, FreshKeepsLog DEF storageVars, Outside

\* A crash leaves the store on disk.
LEMMA CrashKeepsLog == ASSUME Inv, LogInv, Crash PROVE LogInv'
  <1>1. /\ pc' = "open" /\ FreshMemory /\ view' = disk /\ disk' = disk
        /\ todo' = << >> /\ busy' = FALSE /\ knownVars' = knownVars
    BY DEF Crash, Reopen, knownVars
  <1>2. disk \in Stores
    BY DEF Stores
  <1> HIDE DEF LogInv
  <1> QED BY <1>1, <1>2, FreshKeepsLog DEF Outside

\* The first configuration is written on a store that has no snapshot, or an
\* empty one.
LEMMA InitializeConfKeepsLog == ASSUME Inv, LogInv, InitializeConf PROVE LogInv'
  <1>1. /\ pc = "open" /\ pc' = "new"
        /\ UNCHANGED <<rd, batch, hs, role, unstable, offset, usnap, persisted, msgs>>
        /\ knownVars' = knownVars
    BY DEF InitializeConf, coreVars, worldVars, knownVars
  <1>2. Placed /\ CoreKeeps /\ Delivered /\ ~busy
    BY <1>1 DEF LogInv, Placed
  <1>3. /\ Final = view /\ view \in Stores /\ Bounded(view) /\ IsStore(view) /\ todo = << >>
        /\ unstable = << >> /\ usnap = NoSnapshot
    BY <1>1, <1>2, IdleStore DEF Placed, Outside
  <1>4. pc \in Outside /\ pc' \in Outside
    BY <1>1 DEF Outside
  <1>5. Delivered'
    BY <1>1, <1>2 DEF Delivered, IsChosen, Storing, knownVars
  <1>6. Final'.conf # NoConf => Placed'
    BY <1>1, <1>2, <1>3 DEF Placed, Outside, Inputs, Working, Storing
  <1>7. CASE view.conf # NoConf /\ UNCHANGED storageVars
    <2>1. todo' = << >> /\ UNCHANGED <<view, disk>> /\ Final' = Final
      BY <1>3, <1>7 DEF storageVars, Final
    <2>2. Contents(todo') = {}
      BY <2>1 DEF Contents
    <2>3. CoreLog' = CoreLog /\ CoreBase' = CoreBase /\ CoreTop' = CoreTop
      BY <1>1, <2>1, LogStays
    <2>4. Placed'
      BY <1>3, <1>6, <1>7, <2>1
    <2> HIDE DEF LogInv
    <2> QED BY <1>1, <1>4, <1>5, <2>1, <2>2, <2>3, <2>4, CallKeepsLog
  <1> DEFINE s == [index |-> 0, term |-> 0, conf |-> Voters, data |-> NoData]
             q == apply_snapshot_writes(view, s)
  <1>8. CASE view.conf = NoConf /\ StartCall(q)
    <2>1. s \in Snapshot /\ s # NoSnapshot
      BY LoopConstants, StorageConstants DEF Snapshot
    <2>2. s.index = 0 /\ s.term = 0 /\ s.conf = Voters
      OBVIOUS
    <2> HIDE DEF s
    <2>3. todo' = q /\ UNCHANGED <<view, disk>>
      BY <1>8 DEF StartCall
    <2>4. /\ q # << >>
          /\ \A x \in Contents(q) :
               /\ IsStore(x) /\ IsTail(x.entries, view.entries, 0)
               /\ x.snap = s /\ x.hs = view.hs
      <3>1. /\ q # << >>
            /\ \A x \in Contents(q) :
                 /\ IsStore(x) /\ IsTail(x.entries, view.entries, s.index)
                 /\ x.snap = s /\ x.hs = view.hs
        BY <1>3, <2>1, SnapshotWrites
      <3> HIDE DEF q
      <3> QED BY <2>2, <3>1
    <2>5. Final' \in Contents(q) /\ Final'.conf = Voters
      <3>1. Final' = q[Len(q)]
        BY <2>3, <2>4 DEF Final
      <3>2. q[Len(q)] \in Contents(q) /\ q[Len(q)].conf = s.conf
        BY <1>3, <2>1, SnapshotLast
      <3> HIDE DEF q
      <3> QED BY <2>2, <3>1, <3>2
    <2> HIDE DEF q
    <2>6. StoreKeeps(view) /\ Base(view) = 0
      BY <1>3, <1>8 DEF LogInv, StoresKeep, StoreKeeps
    <2>7. ASSUME NEW x \in Contents(q)
          PROVE  /\ DOMAIN x.entries = DOMAIN view.entries
                 /\ \A i \in DOMAIN view.entries : x.entries[i] = view.entries[i]
                 /\ x.entries = view.entries /\ Base(x) = 0 /\ HasSnapshot(x) /\ x.snap = s
                 /\ x.hs = view.hs
      <3>1. \A i \in DOMAIN view.entries : i > 0
        BY <1>3 DEF Bounded, IsStore
      <3>2. /\ DOMAIN x.entries = DOMAIN view.entries
            /\ \A i \in DOMAIN view.entries : x.entries[i] = view.entries[i]
        BY <2>4, <3>1 DEF IsTail
      <3>3. x.entries = view.entries
        <4>1. /\ x.entries \in [DOMAIN x.entries -> Entry]
              /\ view.entries \in [DOMAIN view.entries -> Entry]
          BY <1>3, <2>4 DEF IsStore
        <4> QED BY <3>2, <4>1
      <3> QED BY <2>1, <2>2, <2>4, <3>2, <3>3 DEF Base, HasSnapshot
    <2>8. ASSUME NEW x \in Contents(q) PROVE StoreKeeps(x) /\ (Peers = {} => Owns(x))
      <3>1. x.entries = view.entries /\ Base(x) = 0 /\ x.snap = s /\ x.hs = view.hs
        BY <2>7
      <3>2. Peers = {} => Owns(view)
        BY <1>3 DEF LogInv, Alone
      <3> QED BY <2>2, <2>6, <3>1, <3>2 DEF StoreKeeps, Owns
    <2>9. CoreLog' = CoreLog /\ CoreBase' = CoreBase /\ CoreTop' = CoreTop
      <3>1. Recent' = Recent /\ Final'.entries = Final.entries /\ Base(Final') = Base(Final)
        BY <1>1, <1>3, <2>5, <2>6, <2>7 DEF Recent
      <3>2. last_index(Final') = last_index(view)
        <4>1. HasSnapshot(view) => view.snap.index = 0
          BY <2>6 DEF Base
        <4> QED BY <2>2, <2>5, <2>7, <4>1 DEF last_index
      <3> QED BY <1>1, <1>3, <3>1, <3>2 DEF CoreLog, CoreBase, CoreTop
    <2>10. Voters # NoConf
      BY LoopConstants, StorageConstants
    <2>11. DOMAIN Final.entries \subseteq DOMAIN Final'.entries
      BY <1>3, <2>5, <2>7
    <2>12. Placed'
      BY <1>6, <2>5, <2>10
    <2>13. \A x \in Contents(todo') : StoreKeeps(x) /\ (Peers = {} => Owns(x))
      BY <2>3, <2>8
    <2> HIDE DEF LogInv
    <2> QED BY <1>1, <1>4, <1>5, <2>3, <2>9, <2>11, <2>12, <2>13, CallKeepsLog
  <1> QED BY <1>7, <1>8 DEF InitializeConf, apply_snapshot

\* What a store without a hole starts with.
LEMMA FirstFollowsBase ==
    ASSUME NEW s, Bounded(s), Full(s.entries, Base(s))
    PROVE  first_index(s) - 1 = Base(s)
  <1>1. CASE HasSnapshot(s)
    BY <1>1 DEF first_index, Base, Bounded, IsStore, HasSnapshot, Snapshot
  <1>2. CASE ~HasSnapshot(s) /\ DOMAIN s.entries = {}
    BY <1>2 DEF first_index, Base
  <1>3. CASE ~HasSnapshot(s) /\ DOMAIN s.entries # {}
    <2> DEFINE S == DOMAIN s.entries
    <2>1. S \subseteq Nat /\ \A i \in S : 1 <= i
      BY DEF Bounded, IsStore
    <2>2. 1 \in S
      <3>1. PICK i : i \in S
        BY <1>3
      <3>2. 1 \in 1..i
        BY <2>1, <3>1
      <3> QED BY <1>3, <3>1, <3>2 DEF Full, Base
    <2>3. Lowest(S) = 1
      <3> HIDE DEF S
      <3>1. \A i \in S : (\A j \in S : i <= j) => i = 1
        BY <2>1, <2>2
      <3>2. \E i \in S : \A j \in S : i <= j
        BY <2>1, <2>2
      <3> QED BY <3>1, <3>2 DEF Lowest
    <2> QED BY <1>3, <2>3 DEF first_index, Base
  <1> QED BY <1>1, <1>2, <1>3

\* RaftNode::new resumes with what is on disk.
LEMMA NewRaftNodeKeepsLog == ASSUME Inv, LogInv, NewRaftNode PROVE LogInv'
  <1> DEFINE commit == IF view.hs = NoHardState THEN first_index(view) - 1 ELSE view.hs.commit
             F == view.entries
             b == Base(view)
             top == last_index(view)
  <1>1. /\ pc = "new" /\ ~busy
        /\ UNCHANGED <<storageVars, rd, batch, role, unstable, usnap, msgs>>
        /\ knownVars' = knownVars
        /\ \/ /\ pc' = "input" /\ Loadable(view)
              /\ hs' = [view.hs EXCEPT !.commit = commit]
              /\ offset' = top + 1 /\ persisted' = top
           \/ pc' = "panicked" /\ UNCHANGED <<hs, offset, persisted>>
    BY DEF NewRaftNode, worldVars, knownVars
  <1>2. /\ Final = view /\ Final' = view /\ disk = view /\ disk' = disk /\ view' = view
        /\ Stores' = Stores /\ view \in Stores /\ Bounded(view) /\ IsStore(view) /\ Shape
    BY <1>1, IdleStore DEF Final, Stores, storageVars
  <1>3. /\ Placed /\ CoreKeeps /\ AcksKeep /\ StoreKeeps(view) /\ StoresKeep /\ Alone
        /\ Delivered /\ unstable = << >> /\ usnap = NoSnapshot /\ rd = NoReady
        /\ role = "Follower" /\ msgs = {} /\ b \in Nat
    BY <1>1, <1>2, BaseIsNat DEF LogInv, StoresKeep, Placed, Outside, Inv, Kept, Backed,
       Shape, CoreShape
  <1>4. /\ top \in Nat /\ \A i \in DOMAIN F : i <= top
        /\ IF DOMAIN F = {} THEN top = b ELSE top \in DOMAIN F
    BY <1>2, LastIsThere
  <1> HIDE DEF top
  <1>5. /\ CoreLog' = CoreLog /\ CoreBase' = CoreBase /\ CoreBase = b
        /\ DOMAIN CoreLog = DOMAIN F /\ \A i \in DOMAIN F : CoreLog[i] = F[i]
        /\ CoreTop' = top
    <2>1. Recent = {} /\ Recent' = {}
      <3>1. offset \in Nat /\ offset' \in Nat
        BY <1>1, <1>2, <1>4 DEF Shape, CoreShape
      <3> QED BY <1>1, <1>3, <3>1 DEF Recent
    <2> QED BY <1>1, <1>2, <1>3, <2>1 DEF CoreLog, CoreBase, CoreTop, top
  <1>6. StoresKeep'
    BY <1>2, <1>1, <1>3, StoreStays DEF StoresKeep
  <1>7. CASE pc' = "panicked" /\ UNCHANGED <<hs, offset, persisted>>
    <2>1. AcksKeep'
      BY <1>1, <1>2, <1>3, <1>5, <1>7 DEF AcksKeep, AckKeeps, Acks, Outside, knownVars
    <2>2. Placed'
      BY <1>1, <1>2, <1>3, <1>7 DEF Placed, Outside, Inputs, Working, Storing
    <2>3. CoreKeeps'
      BY <1>1, <1>2, <1>3, <1>5, <1>7 DEF CoreKeeps, Outside, knownVars
    <2>4. Leading' /\ Alone' /\ Delivered'
      BY <1>1, <1>2, <1>3, <1>7
         DEF Leading, Alone, Owns, Delivered, IsChosen, Outside, Storing, knownVars
    <2> QED BY <1>6, <2>1, <2>2, <2>3, <2>4 DEF LogInv
  <1>8. CASE /\ pc' = "input" /\ Loadable(view)
             /\ hs' = [view.hs EXCEPT !.commit = commit]
             /\ offset' = top + 1 /\ persisted' = top
    <2>1. first_index(view) - 1 = b /\ Full(F, b)
      BY <1>2, <1>3, FirstFollowsBase DEF StoreKeeps
    <2>2. view.hs \in HardState
      BY <1>2 DEF IsStore
    <2>3. /\ commit \in Nat /\ view.hs.commit <= commit /\ b <= commit
          /\ commit = b \/ commit <= top
      <3>1. CASE view.hs = NoHardState
        BY <1>3, <2>1, <3>1 DEF NoHardState
      <3>2. CASE view.hs # NoHardState
        BY <1>3, <1>8, <2>1, <2>2, <3>2 DEF Loadable, HardState, top
      <3> QED BY <3>1, <3>2
    <2>4. hs'.term = view.hs.term /\ hs'.commit = commit
      BY <1>8, <2>2 DEF HardState
    <2>5. Committed(chosen, F, b, commit)
      <3>1. CASE view.hs = NoHardState
        BY <1>3, <2>1, <3>1, <1>2 DEF Committed, Bounded, IsStore
      <3>2. CASE view.hs # NoHardState
        BY <1>3, <3>2 DEF StoreKeeps
      <3> QED BY <3>1, <3>2
    <2> HIDE DEF commit
    <2>6. commit = b \/ commit \in DOMAIN F
      <3> SUFFICES ASSUME commit # b PROVE commit \in DOMAIN F
        OBVIOUS
      <3>1. b < commit /\ commit <= top
        BY <1>3, <2>3
      <3>2. top \in DOMAIN F
        BY <1>3, <1>4, <2>3, <3>1
      <3>3. commit \in (b + 1)..top
        BY <1>3, <1>4, <2>3, <3>1
      <3> QED BY <2>1, <3>2, <3>3 DEF Full
    <2>7. AcksKeep'
      <3>1. Acks' = Acks /\ \A m \in Acks : m \in sent
        BY <1>1, <1>3 DEF Acks, knownVars, NoReady
      <3> QED BY <1>1, <1>2, <1>3, <1>5, <2>4, <3>1 DEF AcksKeep, AckKeeps, knownVars
    <2>8. Placed'
      <3>1. busy' = busy
        BY <1>1 DEF storageVars
      <3> QED BY <1>1, <1>2, <1>3, <1>8, <3>1 DEF Placed, Outside, Inputs, Working, Storing
    <2>9. CoreKeeps'
      <3>1. Full(CoreLog', b) /\ Committed(chosen, CoreLog', b, commit)
        BY <1>5, <2>1, <2>5 DEF Full, Committed
      <3>2. offset' - 1 <= b \/ offset' - 1 \in DOMAIN F
        BY <1>3, <1>4, <1>8
      <3>3. persisted' <= CoreTop' /\ persisted' < offset'
        BY <1>4, <1>5, <1>8
      <3>4. b = 0 \/ b \in DOMAIN chosen
        BY <1>3 DEF StoreKeeps
      <3>5. view.hs.term <= MaxTerm
        BY <1>3 DEF StoreKeeps
      <3> QED BY <1>1, <1>2, <1>3, <1>5, <2>3, <2>4, <2>6, <3>1, <3>2, <3>3, <3>4, <3>5
          DEF CoreKeeps, knownVars
    <2>10. Leading' /\ Delivered'
      BY <1>1, <1>3, <1>8 DEF Leading, Delivered, IsChosen, Storing, knownVars
    <2>11. Alone'
      <3>1. Peers = {} => \A i \in DOMAIN chosen : i \in DOMAIN F /\ i <= top
        BY <1>2, <1>3, <1>4 DEF Alone, Owns
      <3>2. DOMAIN F \subseteq Nat
        BY <1>2 DEF IsStore
      <3>3. Peers = {} => \A i \in DOMAIN chosen : i < offset'
        BY <1>4, <1>8, <3>1, <3>2
      <3> QED BY <1>1, <1>2, <1>3, <3>3 DEF Alone, Owns, knownVars
    <2> QED BY <1>6, <2>7, <2>8, <2>9, <2>10, <2>11 DEF LogInv
  <1> QED BY <1>1, <1>7, <1>8

----------------------------------------------------------------------------
(* Inputs and ticks.                                                       *)

\* What is taught to a leader's log.
LEMMA TeachExtends ==
    ASSUME DOMAIN ldrLog = 0..MaxTerm,
           \A t \in 0..MaxTerm : DOMAIN ldrLog[t] \subseteq Nat \ {0},
           NEW t \in 0..MaxTerm, NEW f, DOMAIN f \subseteq Nat \ {0}, Teach(t, f)
    PROVE  /\ DOMAIN ldrLog' = 0..MaxTerm
           /\ \A u \in 0..MaxTerm : DOMAIN ldrLog'[u] \subseteq Nat \ {0}
           /\ DOMAIN ldrLog'[t] = DOMAIN ldrLog[t] \cup DOMAIN f
           /\ \A i \in DOMAIN f : ldrLog'[t][i] = f[i]
           /\ \A i \in DOMAIN ldrLog[t] : i \notin DOMAIN f => ldrLog'[t][i] = ldrLog[t][i]
           /\ (\A i \in DOMAIN f \cap DOMAIN ldrLog[t] : f[i] = ldrLog[t][i])
                => Known(ldrLog, ldrLog')
  <1> DEFINE x == Extend(ldrLog[t], f)
  <1>1. /\ DOMAIN x = DOMAIN ldrLog[t] \cup DOMAIN f
        /\ \A i \in DOMAIN f : x[i] = f[i]
        /\ \A i \in DOMAIN ldrLog[t] : i \notin DOMAIN f => x[i] = ldrLog[t][i]
    BY DEF Extend
  <1>2. ldrLog' = [ldrLog EXCEPT ![t] = x]
    BY DEF Teach
  <1> HIDE DEF x
  <1>3. /\ DOMAIN ldrLog' = 0..MaxTerm /\ ldrLog'[t] = x
        /\ \A u \in 0..MaxTerm : u # t => ldrLog'[u] = ldrLog[u]
    BY <1>2
  <1>4. ASSUME \A i \in DOMAIN f \cap DOMAIN ldrLog[t] : f[i] = ldrLog[t][i]
        PROVE  Known(ldrLog, ldrLog')
    <2>1. \A i \in DOMAIN ldrLog[t] : i \in DOMAIN x /\ x[i] = ldrLog[t][i]
      BY <1>1, <1>4
    <2> QED BY <1>3, <2>1 DEF Known
  <1>5. \A u \in 0..MaxTerm : DOMAIN ldrLog'[u] \subseteq Nat \ {0}
    BY <1>1, <1>3
  <1> QED BY <1>1, <1>3, <1>4, <1>5

\* Without anything unstable the core's log is the one that is stored.
LEMMA QuietLog ==
    ASSUME Inv, LogInv, ~busy, unstable = << >>, usnap = NoSnapshot
    PROVE  /\ Final = view /\ Bounded(view) /\ CoreLast = CoreTop
           /\ CoreTop \in Nat /\ CoreBase \in Nat /\ CoreBase = Base(view)
           /\ DOMAIN CoreLog \subseteq Nat \ {0}
           /\ DOMAIN CoreLog = DOMAIN view.entries
           /\ \A i \in DOMAIN CoreLog : CoreLog[i] = view.entries[i]
           /\ \A i \in DOMAIN CoreLog : i <= CoreTop
           /\ CoreTop \in DOMAIN CoreLog \/ CoreTop = CoreBase
           /\ \A i \in Nat : CoreBase < i /\ i <= CoreTop => i \in DOMAIN CoreLog
           /\ \A n \in Nat :
                 /\ DOMAIN CoreEntries(n) = {i \in DOMAIN CoreLog : i <= n}
                 /\ \A i \in DOMAIN CoreEntries(n) : CoreEntries(n)[i] = CoreLog[i]
           /\ \A i \in Nat : CoreTerm(i) = term(view, i)
  <1>1. /\ Final = view /\ Bounded(view) /\ IsStore(view) /\ offset \in Nat
        /\ Base(view) \in Nat /\ Len(unstable) = 0
    BY IdleStore, BaseIsNat DEF Shape, CoreShape
  <1>2. Recent = {} /\ offset..(offset + Len(unstable) - 1) = {}
    BY <1>1 DEF Recent
  <1>3. /\ CoreTop = last_index(view) /\ CoreLast = last_index(view)
        /\ CoreBase = Base(view) /\ DOMAIN CoreLog = DOMAIN view.entries
        /\ \A i \in DOMAIN CoreLog : CoreLog[i] = view.entries[i]
    BY <1>1, <1>2 DEF CoreTop, CoreLast, CoreBase, CoreLog
  <1>4. DOMAIN CoreLog \subseteq Nat \ {0}
    BY <1>1, <1>3 DEF Bounded, IsStore
  <1>5. /\ CoreTop \in Nat /\ \A i \in DOMAIN CoreLog : i <= CoreTop
        /\ IF DOMAIN CoreLog = {} THEN CoreTop = CoreBase ELSE CoreTop \in DOMAIN CoreLog
    BY <1>1, <1>3, LastIsThere
  <1>6. ASSUME NEW i \in Nat, CoreBase < i, i <= CoreTop PROVE i \in DOMAIN CoreLog
    <2>1. CoreTop \in DOMAIN CoreLog
      BY <1>1, <1>3, <1>5, <1>6
    <2>2. i \in (CoreBase + 1)..CoreTop /\ Full(CoreLog, CoreBase)
      BY <1>1, <1>3, <1>5, <1>6 DEF LogInv, CoreKeeps
    <2> QED BY <2>1, <2>2 DEF Full
  <1>7. ASSUME NEW n \in Nat
        PROVE  /\ DOMAIN CoreEntries(n) = {i \in DOMAIN CoreLog : i <= n}
               /\ \A i \in DOMAIN CoreEntries(n) : CoreEntries(n)[i] = CoreLog[i]
    <2>1. CoreEntries(n) = [i \in DOMAIN view.entries \cap 1..n |-> view.entries[i]]
      BY <1>2 DEF CoreEntries
    <2>2. DOMAIN view.entries \cap 1..n = {i \in DOMAIN CoreLog : i <= n}
      BY <1>3, <1>4
    <2> QED BY <1>3, <2>1, <2>2
  <1>8. \A i \in Nat : CoreTerm(i) = term(view, i)
    BY <1>1 DEF CoreTerm
  <1> QED BY <1>1, <1>3, <1>4, <1>5, <1>6, <1>7, <1>8

\* One entry is written to the log.
LEMMA WrittenLog ==
    ASSUME Inv, LogInv, ~busy, unstable = << >>, usnap = NoSnapshot,
           NEW first \in Nat \ {0}, NEW e, TruncateAndAppend(first, <<e>>),
           UNCHANGED storageVars, usnap' = usnap,
           first - 1 \in DOMAIN CoreLog \/ first - 1 = CoreBase
    PROVE  /\ unstable' = <<e>> /\ offset' = first
           /\ DOMAIN CoreLog' = DOMAIN CoreLog \cup {first} /\ CoreLog'[first] = e
           /\ \A i \in DOMAIN CoreLog : i # first => CoreLog'[i] = CoreLog[i]
           /\ CoreBase' = CoreBase /\ CoreTop' = first
           /\ Full(CoreLog', CoreBase)
           /\ offset' - 1 <= CoreBase \/ offset' - 1 \in DOMAIN Final'.entries
           /\ Final' = Final
  <1>1. /\ Final = view /\ CoreBase \in Nat /\ CoreBase = Base(view)
        /\ DOMAIN CoreLog \subseteq Nat \ {0} /\ DOMAIN CoreLog = DOMAIN view.entries
        /\ \A i \in DOMAIN CoreLog : CoreLog[i] = view.entries[i]
    BY QuietLog
  <1>2. Final' = view /\ view' = view
    BY <1>1 DEF storageVars, Final
  <1>3. unstable' = <<e>> /\ offset' = first
    <2>1. offset \in Nat /\ Len(unstable) = 0
      BY DEF Inv, Shape, CoreShape
    <2> QED BY <2>1 DEF TruncateAndAppend
  <1>4. Recent' = {first}
    BY <1>3 DEF Recent
  <1>5. /\ DOMAIN CoreLog' = DOMAIN CoreLog \cup {first} /\ CoreLog'[first] = e
        /\ \A i \in DOMAIN CoreLog : i # first => CoreLog'[i] = CoreLog[i]
    <2>1. CoreLog' = [i \in {first} \cup DOMAIN view.entries |->
                        IF i \in {first} THEN <<e>>[i - first + 1] ELSE view.entries[i]]
      BY <1>2, <1>3, <1>4 DEF CoreLog
    <2>2. <<e>>[first - first + 1] = e
      OBVIOUS
    <2> QED BY <1>1, <2>1, <2>2
  <1>6. CoreBase' = CoreBase /\ CoreTop' = first
    BY <1>1, <1>2, <1>3 DEF CoreBase, CoreTop
  <1>7. Full(CoreLog', CoreBase)
    <2>1. Full(CoreLog, CoreBase)
      BY DEF LogInv, CoreKeeps
    <2> SUFFICES ASSUME NEW i \in DOMAIN CoreLog', NEW j \in (CoreBase + 1)..i
                 PROVE  j \in DOMAIN CoreLog'
      BY DEF Full
    <2>2. CASE i \in DOMAIN CoreLog
      BY <1>5, <2>1, <2>2 DEF Full
    <2>3. CASE i = first
      <3>1. j = first \/ j \in (CoreBase + 1)..(first - 1)
        BY <1>1, <2>3
      <3>2. j # first => first - 1 \in DOMAIN CoreLog
        BY <1>1, <3>1
      <3> QED BY <1>5, <2>1, <3>1, <3>2 DEF Full
    <2> QED BY <1>5, <2>2, <2>3
  <1>8. offset' - 1 <= CoreBase \/ offset' - 1 \in DOMAIN Final'.entries
    BY <1>1, <1>2, <1>3
  <1> QED BY <1>1, <1>2, <1>3, <1>5, <1>6, <1>7, <1>8

\* An input that adds to what is known, and what it has to keep.
LEMMA LearningKeepsLog ==
    ASSUME Inv, LogInv, ~busy, UNCHANGED storageVars, UNCHANGED <<rd, batch, sent>>,
           pc \in Inputs, pc' \in {"tick", "ready"},
           Chosen(chosen, chosen'), Peers = {} \/ Known(ldrLog, ldrLog'),
           hs.term <= hs'.term, hs'.term \in Nat, CoreBase \in Nat, CoreBase' \in Nat,
           CoreBase <= CoreBase',
           \A i \in DOMAIN CoreLog : i > CoreBase' =>
                \/ i \in DOMAIN CoreLog' /\ CoreLog'[i] = CoreLog[i]
                \/ \E u \in hs.term..MaxTerm :
                        i \in DOMAIN CoreLog' \cap DOMAIN ldrLog'[u]
                            /\ CoreLog'[i] = ldrLog'[u][i],
           \A m \in msgs' : IsAck(m) =>
                \/ m \in Acks
                \/ /\ Peers # {} /\ m.term \in 1..MaxTerm /\ m.arg \in Nat
                   /\ m.term <= hs'.term /\ Honours(ldrLog', CoreLog', CoreBase', m),
           Placed', CoreKeeps', Leading', Alone'
    PROVE  LogInv'
  <1>1. /\ Stores' = Stores /\ disk' = disk /\ Shape /\ hs.term \in Nat
        /\ pc \notin Outside /\ pc' \notin Outside /\ MaxTerm \in Nat
    BY LoopConstants DEF storageVars, Stores, Inv, Shape, CoreShape, HardState, Inputs, Outside
  <1>2. StoresKeep'
    <2>1. \A s \in Stores : Bounded(s)
      BY <1>1, FinalIsThere
    <2>2. AcksKeep /\ StoresKeep
      BY DEF LogInv
    <2>3. ASSUME NEW s \in Stores PROVE StoreKeeps(s)'
      BY <2>1, <2>2, StoreLearns DEF StoresKeep
    <2> QED BY <1>1, <2>3 DEF StoresKeep
  <1>3. ASSUME NEW m \in Acks PROVE AckKeeps(m)'
    <2>1. /\ Peers # {} /\ m.term \in 1..MaxTerm /\ m.arg \in Nat /\ m.term <= hs.term
          /\ Honours(ldrLog, CoreLog, CoreBase, m)
          /\ m \in sent => m.term <= disk.hs.term
      BY <1>1 DEF LogInv, AcksKeep, AckKeeps
    <2> DEFINE f == CoreLog
               g == CoreLog'
               b == CoreBase
               c == CoreBase'
    <2>2. \A i \in DOMAIN f : i > c =>
                \/ i \in DOMAIN g /\ g[i] = f[i]
                \/ \E u \in m.term..MaxTerm :
                        i \in DOMAIN g \cap DOMAIN ldrLog'[u] /\ g[i] = ldrLog'[u][i]
      <3>1. \A u \in hs.term..MaxTerm : u \in m.term..MaxTerm
        BY <1>1, <2>1
      <3> QED BY <3>1
    <2>3. b \in Nat /\ c \in Nat /\ b <= c /\ Honours(ldrLog, f, b, m)
      BY <2>1
    <2>4. m.term \in 0..MaxTerm /\ Known(ldrLog, ldrLog')
      BY <1>1, <2>1
    <2> HIDE DEF f, g, b, c
    <2>5. Honours(ldrLog', g, c, m)
      BY <2>1, <2>2, <2>3, <2>4, HonoursStays
    <2>6. m.term <= hs'.term
      BY <1>1, <2>1
    <2> QED BY <1>1, <2>1, <2>5, <2>6 DEF AckKeeps, g, c
  <1>4. AcksKeep'
    <2>1. ASSUME NEW m \in Acks', m \notin Acks PROVE AckKeeps(m)'
      <3>1. m \in msgs' /\ IsAck(m) /\ m \notin sent
        BY <2>1 DEF Acks
      <3> QED BY <1>1, <2>1, <3>1 DEF AckKeeps
    <2> QED BY <1>3, <2>1 DEF AcksKeep
  <1>5. Delivered'
    <2>1. IsChosen(batch)
      BY DEF LogInv, Delivered
    <2>2. \A i \in DOMAIN chosen : i \in DOMAIN chosen' /\ chosen'[i].entry = chosen[i].entry
      BY DEF Chosen
    <2> QED BY <1>1, <2>1, <2>2 DEF Delivered, IsChosen, Storing
  <1> QED BY <1>2, <1>4, <1>5 DEF LogInv

\* What every input and every tick leaves alone.
LEMMA InputFacts ==
    ASSUME Inv, LogInv, Before
    PROVE  /\ ~busy /\ ~busy' /\ UNCHANGED storageVars /\ UNCHANGED <<rd, batch, sent>>
           /\ pc \in {"input", "tick"} /\ pc' \in {"tick", "ready"}
           /\ pc \in Inputs /\ pc \notin Outside /\ pc' \notin Outside
           /\ hs \in HardState /\ hs' \in HardState /\ hs.term <= hs'.term
           /\ hs.term \in 0..MaxTerm /\ hs.commit \in Nat
           /\ hs'.term \in Nat /\ hs'.commit \in Nat
           /\ pc = "input" => unstable = << >> /\ usnap = NoSnapshot /\ msgs = {}
           /\ Final' = Final /\ Placed /\ CoreKeeps /\ Leading /\ Alone /\ Delivered
           /\ CoreShape /\ Shape /\ MaxTerm \in Nat
  <1>1. InputResult /\ pc \in {"input", "tick"} /\ pc' \in {"tick", "ready"}
    BY EveryInput
  <1>2. /\ Yields(hs, hs') /\ hs' \in HardState /\ Shape /\ CoreShape
        /\ view' = view /\ disk' = disk /\ todo' = todo /\ busy' = busy
        /\ UNCHANGED <<rd, batch, sent>>
    BY <1>1 DEF InputResult, CoreResult, Inv, Shape
  <1>3. hs \in HardState /\ MaxTerm \in Nat
    BY <1>2, LoopConstants DEF CoreShape
  <1>4. /\ hs.term <= hs'.term /\ hs.term \in Nat /\ hs.commit \in Nat
        /\ hs'.term \in Nat /\ hs'.commit \in Nat
    BY <1>2, <1>3 DEF Yields, HardState
  <1>5. pc \in Inputs /\ pc \notin Outside /\ pc' \notin Outside
    BY <1>1 DEF Inputs, Outside
  <1>6. Placed /\ CoreKeeps /\ Leading /\ Alone /\ Delivered
    BY DEF LogInv
  <1>7. ~busy /\ (pc = "input" => unstable = << >> /\ usnap = NoSnapshot)
    BY <1>5, <1>6 DEF Placed
  <1>8. pc = "input" => msgs = {}
    BY DEF Inv, Kept, Backed
  <1>9. hs.term \in 0..MaxTerm
    BY <1>3, <1>4, <1>6 DEF CoreKeeps
  <1>10. UNCHANGED storageVars
    <2>1. CASE HandleCommand \/ InputNothing \/ Tick
      BY <2>1 DEF HandleCommand, RpcPut, UserPut, UserCampaign, InputNothing, Tick
    <2>2. \A t, p, es, c : StepAppend(t, p, es, c) => UNCHANGED storageVars
      BY DEF StepAppend
    <2>3. \A t, f : StepSnapshot(t, f) => UNCHANGED storageVars
      BY DEF StepSnapshot
    <2>4. \A t, c :
            StepHeartbeat(t, c) \/ StepVoteRequest(t, c) \/ StepHigherTerm(t)
                \/ StepAppendResponse(c) => UNCHANGED storageVars
      BY DEF StepHeartbeat, StepVoteRequest, StepHigherTerm, StepAppendResponse
    <2>5. StepPreVotesWon \/ StepVotesWon => UNCHANGED storageVars
      BY DEF StepPreVotesWon, StepVotesWon
    <2>6. CASE HandleRaftMessage
      BY <2>2, <2>3, <2>4, <2>5, <2>6 DEF HandleRaftMessage
    <2> QED BY <2>1, <2>6 DEF Before
  <1>11. Final' = Final
    BY <1>2 DEF Final
  <1> QED BY <1>1, <1>2, <1>3, <1>4, <1>5, <1>6, <1>7, <1>8, <1>9, <1>10, <1>11

\* Where the parts of the log are after an input.
LEMMA InputPlaced ==
    ASSUME Inv, LogInv, Before,
           Peers = {} /\ unstable' # << >> => role' = "Leader",
           usnap' # NoSnapshot =>
                /\ unstable' = << >> /\ offset' = usnap'.index + 1
                /\ Peers # {} /\ role' # "Leader"
    PROVE  Placed'
  <1>1. /\ pc' \in {"tick", "ready"} /\ pc' \notin Outside /\ Placed /\ ~busy'
        /\ Final' = Final /\ pc \notin Outside
    BY InputFacts
  <1>2. Final.conf # NoConf
    BY <1>1 DEF Placed, Outside
  <1> QED BY <1>1, <1>2 DEF Placed, Inputs, Outside, Working, Storing

\* Inputs and ticks that leave the log alone.
LEMMA QuietInput ==
    ASSUME Inv, LogInv, Before,
           UNCHANGED <<unstable, offset, usnap, persisted, ldrLog, chosen>>,
           hs'.commit = hs.commit, hs'.term <= MaxTerm,
           role' \in {"Candidate", "Leader"} => hs'.term > 0,
           role' = "Leader" => role = "Leader" /\ hs'.term = hs.term,
           Peers = {} /\ role = "Leader" => role' = "Leader",
           \A m \in msgs' : m \in msgs \/ ~IsAck(m)
    PROVE  LogInv'
  <1>1. /\ ~busy /\ UNCHANGED storageVars /\ UNCHANGED <<rd, batch, sent>>
        /\ pc \in Inputs /\ pc \notin Outside /\ pc' \notin Outside
        /\ pc' \in {"tick", "ready"}
        /\ hs.term <= hs'.term /\ hs'.term \in Nat /\ hs.term \in 0..MaxTerm
        /\ Placed /\ Delivered /\ MaxTerm \in Nat
    BY InputFacts
  <1>2. Placed'
    <2>1. Peers = {} /\ unstable' # << >> => role' = "Leader"
      BY <1>1 DEF Placed
    <2>2. usnap' # NoSnapshot =>
                /\ unstable' = << >> /\ offset' = usnap'.index + 1
                /\ Peers # {} /\ role' # "Leader"
      BY <1>1 DEF Placed
    <2> HIDE DEF LogInv
    <2> QED BY <2>1, <2>2, InputPlaced
  <1>3. Delivered'
    BY <1>1 DEF Delivered, IsChosen, Storing
  <1>4. Acks' \subseteq Acks
    BY <1>1 DEF Acks
  <1>5. knownVars' = knownVars
    BY <1>1 DEF knownVars
  <1>6. hs'.term >= hs.term /\ hs'.term \in 0..MaxTerm
    BY <1>1
  <1> HIDE DEF LogInv
  <1> QED BY <1>1, <1>2, <1>3, <1>4, <1>5, <1>6, IdleKeepsLog

\* A leader's message acknowledges nothing, nor does a vote.
LEMMA NoAcks ==
    /\ \A t : ~IsAck(Leads(t))
    /\ \A t, c : ~IsAck(VoteFor(t, c))
    /\ \A t, i : IsAck(Ack(t, i)) /\ Ack(t, i).term = t /\ Ack(t, i).arg = i
  BY DEF IsAck, Leads, VoteFor, Ack

\* No input.
LEMMA InputNothingKeepsLog == ASSUME Inv, LogInv, InputNothing PROVE LogInv'
  <1>1. Before
    BY DEF Before
  <1>2. UNCHANGED <<unstable, offset, usnap, persisted, ldrLog, chosen, hs, role, msgs>>
    BY DEF InputNothing, coreVars, worldVars
  <1>3. hs.term \in 0..MaxTerm /\ Leading
    BY <1>1, InputFacts
  <1> HIDE DEF LogInv
  <1> QED BY <1>1, <1>2, <1>3, QuietInput DEF Leading

\* Enough pre-votes.
LEMMA PreVotesWonKeepsLog == ASSUME Inv, LogInv, StepPreVotesWon, HandleRaftMessage PROVE LogInv'
  <1>1. Before
    BY DEF Before
  <1>2. /\ UNCHANGED <<unstable, offset, usnap, persisted, ldrLog, chosen>>
        /\ role = "PreCandidate" /\ hs.term < MaxTerm /\ role' = "Candidate"
        /\ hs' = [hs EXCEPT !.term = hs.term + 1, !.vote = Self]
        /\ msgs' = msgs \cup {VoteFor(hs.term + 1, Self)}
    BY DEF StepPreVotesWon, worldVars
  <1>3. hs \in HardState /\ hs.term \in 0..MaxTerm /\ MaxTerm \in Nat
    BY <1>1, InputFacts
  <1>4. hs'.term = hs.term + 1 /\ hs'.commit = hs.commit
    BY <1>2, <1>3 DEF HardState
  <1>5. hs'.term <= MaxTerm /\ hs'.term > 0
    BY <1>2, <1>3, <1>4
  <1>6. \A m \in msgs' : m \in msgs \/ ~IsAck(m)
    BY <1>2, NoAcks
  <1> HIDE DEF LogInv
  <1> QED BY <1>1, <1>2, <1>4, <1>5, <1>6, QuietInput

\* A vote granted.
LEMMA VoteRequestKeepsLog ==
    ASSUME Inv, LogInv, NEW t \in 1..MaxTerm, NEW c \in Peers, StepVoteRequest(t, c),
           HandleRaftMessage
    PROVE  LogInv'
  <1>1. Before
    BY DEF Before
  <1>2. /\ UNCHANGED <<unstable, offset, usnap, persisted, ldrLog, chosen>>
        /\ t \in hs.term..MaxTerm /\ Peers # {}
        /\ hs' = [AtTerm(t) EXCEPT !.vote = c]
        /\ role' = IF t > hs.term THEN "Follower" ELSE role
        /\ msgs' = msgs \cup {VoteFor(t, c)}
    BY DEF StepVoteRequest, worldVars
  <1>3. /\ hs \in HardState /\ hs.term \in 0..MaxTerm /\ MaxTerm \in Nat /\ Leading /\ Shape
        /\ t \in Nat
    BY <1>1, InputFacts
  <1>4. AtTerm(t) \in HardState /\ AtTerm(t).term = t /\ AtTerm(t).commit = hs.commit
    <2>1. t >= hs.term
      BY <1>2, <1>3
    <2>2. AtTerm(t).commit = hs.commit
      BY <1>3 DEF AtTerm, HardState
    <2> QED BY <1>3, <2>1, <2>2, AtTermYields
  <1>5. hs'.term = t /\ hs'.commit = hs.commit
    BY <1>2, <1>4 DEF HardState
  <1>6. \A m \in msgs' : m \in msgs \/ ~IsAck(m)
    BY <1>2, NoAcks
  <1>7. role' = "Leader" => role = "Leader" /\ hs'.term = hs.term
    BY <1>2, <1>3, <1>5
  <1>8. role' \in {"Candidate", "Leader"} => hs'.term > 0
    BY <1>3, <1>5
  <1> HIDE DEF LogInv
  <1> QED BY <1>1, <1>2, <1>3, <1>5, <1>6, <1>7, <1>8, QuietInput

\* A higher term.
LEMMA HigherTermKeepsLog ==
    ASSUME Inv, LogInv, NEW t \in 1..MaxTerm, StepHigherTerm(t), HandleRaftMessage
    PROVE  LogInv'
  <1>1. Before
    BY DEF Before
  <1>2. /\ UNCHANGED <<unstable, offset, usnap, persisted, ldrLog, chosen, msgs>>
        /\ t \in (hs.term + 1)..MaxTerm /\ Peers # {}
        /\ hs' = AtTerm(t) /\ role' = "Follower"
    BY DEF StepHigherTerm, worldVars
  <1>3. /\ hs \in HardState /\ hs.term \in 0..MaxTerm /\ MaxTerm \in Nat /\ Shape /\ t \in Nat
    BY <1>1, InputFacts
  <1>4. hs'.term = t /\ hs'.commit = hs.commit
    BY <1>2, <1>3 DEF AtTerm, HardState
  <1> HIDE DEF LogInv
  <1> QED BY <1>1, <1>2, <1>3, <1>4, QuietInput

\* A single server's chosen log lies below what is unstable.
LEMMA AloneStays ==
    ASSUME Inv, LogInv, Before, unstable = << >>, usnap = NoSnapshot, UNCHANGED chosen,
           offset' = CoreTop + 1
    PROVE  Alone'
  <1>1. /\ ~busy /\ UNCHANGED storageVars /\ Alone /\ pc' \notin Outside
    BY InputFacts
  <1>2. Stores' = Stores /\ Stores = {view}
    BY <1>1, IdleStore DEF storageVars, Stores
  <1>3. /\ DOMAIN CoreLog = DOMAIN view.entries /\ DOMAIN CoreLog \subseteq Nat \ {0}
        /\ CoreTop \in Nat /\ \A i \in DOMAIN CoreLog : i <= CoreTop
    BY <1>1, QuietLog
  <1>4. Peers = {} => \A i \in DOMAIN chosen : i < offset'
    BY <1>1, <1>2, <1>3 DEF Alone, Owns
  <1> QED BY <1>1, <1>2, <1>4 DEF Alone, Owns

\* A leader, old or new, puts an entry at the end of its log.
LEMMA LeaderWrites ==
    ASSUME Inv, LogInv, Before, unstable = << >>, usnap = NoSnapshot,
           NEW e, TruncateAndAppend(CoreLast + 1, <<e>>),
           NEW f, DOMAIN f \subseteq Nat \ {0}, Teach(hs'.term, f),
           UNCHANGED <<usnap, persisted, chosen>>, role' = "Leader",
           hs'.term \in 1..MaxTerm, hs'.commit = hs.commit, CoreBase <= CoreTop,
           CoreTop + 1 \in DOMAIN f, f[CoreTop + 1] = e, \A i \in DOMAIN f : i <= CoreTop + 1,
           \A i \in DOMAIN CoreLog : i > CoreBase =>
                IF i \in DOMAIN f THEN f[i] = CoreLog[i]
                ELSE i \in DOMAIN ldrLog[hs'.term] /\ ldrLog[hs'.term][i] = CoreLog[i],
           Peers # {} =>
                /\ \A i \in DOMAIN f \cap DOMAIN ldrLog[hs'.term] : f[i] = ldrLog[hs'.term][i]
                /\ \A i \in DOMAIN ldrLog[hs'.term] : i <= CoreTop + 1,
           \A m \in msgs' : ~IsAck(m)
    PROVE  LogInv'
  <1> DEFINE first == CoreTop + 1
             T == hs'.term
  <1>1. /\ ~busy /\ UNCHANGED storageVars /\ UNCHANGED <<rd, batch, sent>>
        /\ pc \in Inputs /\ pc \notin Outside /\ pc' \notin Outside
        /\ pc' \in {"tick", "ready"}
        /\ hs.term <= hs'.term /\ hs'.term \in Nat /\ hs.commit \in Nat
        /\ CoreKeeps /\ CoreShape /\ MaxTerm \in Nat /\ Final' = Final
    BY InputFacts
  <1>2. /\ CoreLast = CoreTop /\ CoreTop \in Nat /\ CoreBase \in Nat
        /\ DOMAIN CoreLog \subseteq Nat \ {0} /\ \A i \in DOMAIN CoreLog : i <= CoreTop
        /\ CoreTop \in DOMAIN CoreLog \/ CoreTop = CoreBase
    BY <1>1, QuietLog
  <1>3. /\ unstable' = <<e>> /\ offset' = first
        /\ DOMAIN CoreLog' = DOMAIN CoreLog \cup {first} /\ CoreLog'[first] = e
        /\ \A i \in DOMAIN CoreLog : i # first => CoreLog'[i] = CoreLog[i]
        /\ CoreBase' = CoreBase /\ CoreTop' = first
        /\ Full(CoreLog', CoreBase)
        /\ offset' - 1 <= CoreBase \/ offset' - 1 \in DOMAIN Final'.entries
    <2>1. first \in Nat \ {0} /\ TruncateAndAppend(first, <<e>>) /\ first - 1 = CoreTop
      BY <1>2
    <2>2. first - 1 \in DOMAIN CoreLog \/ first - 1 = CoreBase
      BY <1>2, <2>1
    <2> HIDE DEF first, LogInv
    <2> QED BY <1>1, <2>1, <2>2, WrittenLog
  <1>4. /\ DOMAIN ldrLog' = 0..MaxTerm
        /\ \A u \in 0..MaxTerm : DOMAIN ldrLog'[u] \subseteq Nat \ {0}
        /\ DOMAIN ldrLog'[T] = DOMAIN ldrLog[T] \cup DOMAIN f
        /\ \A i \in DOMAIN f : ldrLog'[T][i] = f[i]
        /\ \A i \in DOMAIN ldrLog[T] : i \notin DOMAIN f => ldrLog'[T][i] = ldrLog[T][i]
        /\ Peers = {} \/ Known(ldrLog, ldrLog')
    <2>1. /\ DOMAIN ldrLog = 0..MaxTerm /\ T \in 0..MaxTerm
          /\ \A t \in 0..MaxTerm : DOMAIN ldrLog[t] \subseteq Nat \ {0}
      BY <1>1 DEF CoreKeeps
    <2> HIDE DEF T
    <2> QED BY <2>1, TeachExtends DEF T
  <1>5. \A i \in DOMAIN CoreLog' : i > CoreBase =>
            i \in DOMAIN ldrLog'[T] /\ CoreLog'[i] = ldrLog'[T][i]
    <2> SUFFICES ASSUME NEW i \in DOMAIN CoreLog', i > CoreBase
                 PROVE  i \in DOMAIN ldrLog'[T] /\ CoreLog'[i] = ldrLog'[T][i]
      OBVIOUS
    <2>1. CASE i = first
      BY <1>3, <1>4, <2>1
    <2>2. CASE i # first
      <3>1. i \in DOMAIN CoreLog /\ CoreLog'[i] = CoreLog[i]
        BY <1>3, <2>2
      <3>2. CASE i \in DOMAIN f
        BY <1>4, <3>1, <3>2
      <3>3. CASE i \notin DOMAIN f
        BY <1>4, <3>1, <3>3
      <3> QED BY <3>2, <3>3
    <2> QED BY <2>1, <2>2
  <1>6. hs.commit <= CoreTop /\ persisted <= CoreTop /\ CoreBase <= hs.commit
        /\ (hs.commit = CoreBase \/ hs.commit \in DOMAIN CoreLog)
        /\ Final.hs.commit <= hs.commit /\ persisted \in Nat
    BY <1>1, <1>2 DEF CoreKeeps, CoreShape
  <1>7. Placed'
    BY InputPlaced
  <1>8. CoreKeeps'
    <2>1. Committed(chosen, CoreLog', CoreBase, hs.commit)
      <3>1. Committed(chosen, CoreLog, CoreBase, hs.commit)
        BY <1>1 DEF CoreKeeps
      <3>2. \A i \in DOMAIN CoreLog' : i <= hs.commit =>
                i \in DOMAIN CoreLog /\ CoreLog'[i] = CoreLog[i]
        <4> SUFFICES ASSUME NEW i \in DOMAIN CoreLog', i <= hs.commit
                     PROVE  i \in DOMAIN CoreLog /\ CoreLog'[i] = CoreLog[i]
          OBVIOUS
        <4>1. ~(first <= hs.commit)
          BY <1>1, <1>2, <1>6
        <4>2. i # first
          BY <4>1
        <4> QED BY <1>3, <4>2
      <3> QED BY <3>1, <3>2 DEF Committed
    <2>2. persisted <= first /\ persisted < first
      BY <1>2, <1>6
    <2>3. hs.commit = CoreBase \/ hs.commit \in DOMAIN CoreLog'
      BY <1>3, <1>6
    <2>4. CoreBase = 0 \/ CoreBase \in DOMAIN chosen
      BY <1>1 DEF CoreKeeps
    <2>5. T <= MaxTerm
      BY <1>1
    <2> QED BY <1>1, <1>3, <1>4, <1>6, <2>1, <2>2, <2>3, <2>4, <2>5 DEF CoreKeeps
  <1>9. Leading'
    <2>1. T > 0 /\ CoreBase <= first
      BY <1>2
    <2>2. Peers # {} => \A i \in DOMAIN ldrLog'[T] : i <= first
      BY <1>4
    <2> QED BY <1>3, <1>5, <2>1, <2>2 DEF Leading
  <1>10. Alone'
    BY <1>3, AloneStays
  <1>11. \A i \in DOMAIN CoreLog : i \in DOMAIN CoreLog' /\ CoreLog'[i] = CoreLog[i]
    <2>1. \A i \in DOMAIN CoreLog : i # first
      BY <1>2
    <2> QED BY <1>3, <2>1
  <1>12. Chosen(chosen, chosen')
    BY ChosenIsReflexive
  <1> HIDE DEF LogInv, first, T
  <1> QED BY <1>1, <1>2, <1>3, <1>4, <1>7, <1>8, <1>9, <1>10, <1>11, <1>12, LearningKeepsLog

\* A proposal of the leader.
LEMMA ProposeKeepsLog ==
    ASSUME Inv, LogInv, Before, pc = "input", role = "Leader", NEW cmd, Propose(cmd),
           UNCHANGED <<hs, role, usnap, persisted, chosen>>
    PROVE  LogInv'
  <1> DEFINE i == CoreLast + 1
             e == [term |-> hs.term, payload |-> cmd]
             f == [j \in {i} |-> e]
  <1>1. /\ TruncateAndAppend(i, <<e>>) /\ Teach(hs.term, f)
        /\ msgs' = IF Peers = {} THEN msgs ELSE msgs \cup {Leads(hs.term)}
    BY DEF Propose
  <1>2. /\ ~busy /\ unstable = << >> /\ usnap = NoSnapshot /\ msgs = {} /\ Leading
        /\ hs.term \in 0..MaxTerm /\ MaxTerm \in Nat /\ CoreKeeps
    BY InputFacts
  <1>3. /\ CoreLast = CoreTop /\ CoreTop \in Nat /\ \A j \in DOMAIN CoreLog : j <= CoreTop
    BY <1>2, QuietLog
  <1>4. DOMAIN f = {CoreTop + 1} /\ f[CoreTop + 1] = e
    BY <1>3
  <1>5. DOMAIN f \subseteq Nat \ {0}
    BY <1>3, <1>4
  <1>6. hs.term \in 1..MaxTerm /\ CoreBase <= CoreTop
    BY <1>2 DEF Leading
  <1>7. \A j \in DOMAIN CoreLog : j > CoreBase =>
            j \notin DOMAIN f /\ j \in DOMAIN ldrLog[hs.term] /\ ldrLog[hs.term][j] = CoreLog[j]
    BY <1>2, <1>3, <1>4 DEF Leading
  <1>8. Peers # {} => \A j \in DOMAIN ldrLog[hs.term] :
            j <= CoreTop /\ j <= CoreTop + 1 /\ j \notin DOMAIN f
    <2>1. DOMAIN ldrLog[hs.term] \subseteq Nat
      BY <1>2 DEF CoreKeeps
    <2> QED BY <1>2, <1>3, <1>4, <2>1 DEF Leading
  <1>9. \A m \in msgs' : ~IsAck(m)
    BY <1>1, <1>2, NoAcks
  <1>10. \A j \in DOMAIN f : j <= CoreTop + 1
    BY <1>3, <1>4
  <1> HIDE DEF LogInv, f, e
  <1> QED BY <1>1, <1>2, <1>3, <1>4, <1>5, <1>6, <1>7, <1>8, <1>9, <1>10, LeaderWrites

\* A PUT.
LEMMA PutKeepsLog ==
    ASSUME Inv, LogInv, Before, NEW key, NEW id, RpcPut(key, id) \/ UserPut(key, id)
    PROVE  LogInv'
  <1>1. /\ pc = "input" /\ UNCHANGED <<hs, role, usnap, persisted, chosen>>
    BY DEF RpcPut, UserPut, Input
  <1>2. CASE UNCHANGED <<unstable, offset, ldrLog, msgs>>
    <2>1. hs.term \in 0..MaxTerm /\ Leading
      BY InputFacts
    <2> HIDE DEF LogInv
    <2> QED BY <1>1, <1>2, <2>1, QuietInput DEF Leading
  <1>3. CASE role = "Leader" /\ Propose([key |-> key, id |-> id])
    BY <1>1, <1>3, ProposeKeepsLog
  <1> QED BY <1>2, <1>3 DEF RpcPut, UserPut

\* A campaign.
LEMMA HupKeepsLog ==
    ASSUME Inv, LogInv, Before, Hup, UNCHANGED <<usnap, persisted, chosen, msgs>>
    PROVE  LogInv'
  <1>1. /\ ~busy /\ hs.term \in 0..MaxTerm /\ MaxTerm \in Nat /\ CoreKeeps /\ Leading /\ Placed
        /\ hs \in HardState /\ hs.commit \in Nat /\ pc \in Inputs /\ Alone /\ pc \notin Outside
    BY InputFacts
  <1>2. CASE role = "Leader" \/ (Peers = {} /\ (hs.term >= MaxTerm \/ CoreLast >= MaxIndex))
    <2>1. UNCHANGED <<hs, role, unstable, offset, ldrLog>>
      BY <1>2 DEF Hup
    <2> HIDE DEF LogInv
    <2> QED BY <1>1, <2>1, QuietInput DEF Leading
  <1>3. CASE role # "Leader" /\ Peers # {}
    <2>1. role' = "PreCandidate" /\ UNCHANGED <<hs, unstable, offset, ldrLog>>
      BY <1>3 DEF Hup
    <2> HIDE DEF LogInv
    <2> QED BY <1>1, <1>3, <2>1, QuietInput
  <1>4. CASE /\ role # "Leader" /\ Peers = {}
             /\ ~(hs.term >= MaxTerm \/ CoreLast >= MaxIndex)
    <2> DEFINE t == hs.term + 1
               e == [term |-> t, payload |-> Empty]
               g == CoreEntries(CoreLast)
               h == [j \in {CoreLast + 1} |-> e]
               f == Extend(g, h)
    <2>1. /\ hs' = [hs EXCEPT !.term = t, !.vote = Self] /\ role' = "Leader"
          /\ TruncateAndAppend(CoreLast + 1, <<e>>) /\ Teach(t, f)
      BY <1>4 DEF Hup
    <2>2. hs'.term = t /\ hs'.commit = hs.commit /\ t \in 1..MaxTerm
      BY <1>1, <1>4, <2>1 DEF HardState
    <2>3. unstable = << >> /\ usnap = NoSnapshot /\ msgs = {}
      BY <1>1, <1>4 DEF Placed, Inv, Kept, Elected
    <2>4. /\ CoreLast = CoreTop /\ CoreTop \in Nat /\ CoreBase = Base(view) /\ Bounded(view)
          /\ DOMAIN CoreLog \subseteq Nat \ {0} /\ \A i \in DOMAIN CoreLog : i <= CoreTop
          /\ DOMAIN g = {i \in DOMAIN CoreLog : i <= CoreLast}
          /\ \A i \in DOMAIN g : g[i] = CoreLog[i]
      BY <1>1, <2>3, QuietLog
    <2>5. CoreBase = 0
      <3>1. Owns(view)
        BY <1>1, <1>4, IdleStore DEF Alone
      <3> QED BY <2>4, <3>1 DEF Owns, Base
    <2>6. DOMAIN h = {CoreTop + 1} /\ h[CoreTop + 1] = e
      BY <2>4
    <2>7. DOMAIN g = DOMAIN CoreLog
      BY <2>4
    <2> HIDE DEF g, h
    <2>8. /\ DOMAIN f = DOMAIN CoreLog \cup {CoreTop + 1} /\ f[CoreTop + 1] = e
          /\ \A i \in DOMAIN CoreLog : i # CoreTop + 1 => f[i] = CoreLog[i]
      BY <2>4, <2>6, <2>7 DEF Extend
    <2>9. \A i \in DOMAIN CoreLog : i # CoreTop + 1
      BY <2>4
    <2>10. DOMAIN f \subseteq Nat \ {0} /\ \A i \in DOMAIN f : i <= CoreTop + 1
      BY <2>4, <2>8
    <2>11. CoreBase <= CoreTop
      BY <2>4, <2>5
    <2> HIDE DEF LogInv, f, e, t
    <2>12. \A m \in msgs' : ~IsAck(m)
      BY <2>3
    <2> QED BY <1>4, <2>1, <2>2, <2>3, <2>4, <2>8, <2>9, <2>10, <2>11, <2>12, LeaderWrites
  <1> QED BY <1>2, <1>3, <1>4

\* CAMPAIGN starts an election at once.
LEMMA CampaignKeepsLog == ASSUME Inv, LogInv, UserCampaign PROVE LogInv'
  <1>1. Before
    BY DEF Before, HandleCommand, UserCampaign, Input
  <1> HIDE DEF LogInv
  <1> QED BY <1>1, HupKeepsLog DEF UserCampaign

\* The tick: the core may start an election of its own.
LEMMA TickKeepsLog == ASSUME Inv, LogInv, Tick PROVE LogInv'
  <1>1. Before
    BY DEF Before
  <1>2. UNCHANGED <<usnap, persisted, chosen>>
    BY DEF Tick
  <1>3. CASE Hup /\ UNCHANGED msgs
    BY <1>1, <1>2, <1>3, HupKeepsLog
  <1>4. CASE /\ UNCHANGED <<hs, role, unstable, offset, ldrLog>>
             /\ msgs' \in {msgs, msgs \cup {Leads(hs.term)}}
    <2>1. hs.term \in 0..MaxTerm /\ Leading
      BY <1>1, InputFacts
    <2>2. \A m \in msgs' : m \in msgs \/ ~IsAck(m)
      BY <1>4, NoAcks
    <2> HIDE DEF LogInv
    <2> QED BY <1>1, <1>2, <1>4, <2>1, <2>2, QuietInput DEF Leading
  <1> QED BY <1>3, <1>4 DEF Tick

\* A won election: the new leader's log holds everything chosen.
LEMMA VotesWonKeepsLog ==
    ASSUME Inv, LogInv, StepVotesWon, HandleRaftMessage PROVE LogInv'
  <1> DEFINE e == [term |-> hs.term, payload |-> Empty]
             g == CoreEntries(CoreLast)
             h == [j \in {CoreLast + 1} |-> e]
             f == Extend(g, h)
  <1>1. Before
    BY DEF Before
  <1>2. /\ pc = "input" /\ ldrLog[hs.term] = << >> /\ \A j \in DOMAIN chosen : j <= CoreLast
        /\ role = "Candidate" /\ role' = "Leader"
        /\ TruncateAndAppend(CoreLast + 1, <<e>>) /\ Teach(hs.term, f)
        /\ msgs' = msgs \cup {Leads(hs.term)}
        /\ UNCHANGED <<hs, usnap, persisted, chosen>>
    BY DEF StepVotesWon, Input
  <1>3. /\ ~busy /\ hs.term \in 0..MaxTerm /\ MaxTerm \in Nat /\ CoreKeeps /\ Leading
        /\ unstable = << >> /\ usnap = NoSnapshot /\ msgs = {}
    BY <1>1, <1>2, InputFacts
  <1>4. /\ CoreLast = CoreTop /\ CoreTop \in Nat /\ CoreBase \in Nat
        /\ DOMAIN CoreLog \subseteq Nat \ {0} /\ \A i \in DOMAIN CoreLog : i <= CoreTop
        /\ DOMAIN g = {i \in DOMAIN CoreLog : i <= CoreLast}
        /\ \A i \in DOMAIN g : g[i] = CoreLog[i]
    BY <1>3, QuietLog
  <1>5. DOMAIN h = {CoreTop + 1} /\ h[CoreTop + 1] = e
    BY <1>4
  <1>6. DOMAIN g = DOMAIN CoreLog /\ \A i \in DOMAIN CoreLog : i # CoreTop + 1
    BY <1>4
  <1> HIDE DEF g, h
  <1>7. /\ DOMAIN f = DOMAIN CoreLog \cup {CoreTop + 1} /\ f[CoreTop + 1] = e
        /\ \A i \in DOMAIN CoreLog : f[i] = CoreLog[i]
    BY <1>4, <1>5, <1>6 DEF Extend
  <1>8. DOMAIN f \subseteq Nat \ {0} /\ \A i \in DOMAIN f : i <= CoreTop + 1
    BY <1>4, <1>7
  <1>9. CoreBase <= CoreTop
    BY <1>2, <1>3, <1>4 DEF CoreKeeps
  <1>10. hs.term \in 1..MaxTerm
    BY <1>2, <1>3 DEF Leading
  <1>11. \A m \in msgs' : ~IsAck(m)
    BY <1>2, <1>3, NoAcks
  <1>12. DOMAIN ldrLog[hs.term] = {}
    BY <1>2
  <1> HIDE DEF LogInv, f, e
  <1> QED BY <1>1, <1>2, <1>3, <1>4, <1>7, <1>8, <1>9, <1>10, <1>11, <1>12, LeaderWrites

\* The commit index moves on, the log stays.
LEMMA CommitMoves ==
    ASSUME Inv, LogInv, Before, pc = "input", Peers # {},
           UNCHANGED <<unstable, offset, usnap, persisted>>,
           DOMAIN ldrLog' = 0..MaxTerm,
           \A u \in 0..MaxTerm : DOMAIN ldrLog'[u] \subseteq Nat \ {0},
           Known(ldrLog, ldrLog'), Chosen(chosen, chosen'),
           Committed(chosen', CoreLog, CoreBase, hs'.commit),
           hs.commit <= hs'.commit,
           hs'.commit = hs.commit \/ hs'.commit \in DOMAIN CoreLog,
           hs'.term <= MaxTerm,
           \/ role' = "Follower"
           \/ role = "Leader" /\ role' = role /\ UNCHANGED ldrLog /\ hs'.term = hs.term
                /\ \A m \in msgs' : ~IsAck(m),
           \A m \in msgs' : IsAck(m) =>
                /\ m.term \in 1..MaxTerm /\ m.arg \in Nat /\ m.term <= hs'.term
                /\ Honours(ldrLog', CoreLog, CoreBase, m)
    PROVE  LogInv'
  <1>1. /\ ~busy /\ UNCHANGED storageVars /\ UNCHANGED <<rd, batch, sent>>
        /\ pc \in Inputs /\ pc \notin Outside /\ pc' \notin Outside
        /\ pc' \in {"tick", "ready"}
        /\ hs.term <= hs'.term /\ hs'.term \in Nat /\ hs.commit \in Nat /\ hs'.commit \in Nat
        /\ CoreKeeps /\ Leading /\ Final' = Final
        /\ unstable = << >> /\ usnap = NoSnapshot /\ Shape
    BY InputFacts
  <1>2. CoreLog' = CoreLog /\ CoreBase' = CoreBase /\ CoreTop' = CoreTop
    BY <1>1, LogStays
  <1>3. CoreBase \in Nat /\ Final = view /\ view.hs.commit \in Nat
    BY <1>1, QuietLog DEF Bounded, IsStore, HardState
  <1>4. Placed'
    <2>1. unstable' = << >> /\ usnap' = NoSnapshot
      BY <1>1
    <2> HIDE DEF LogInv
    <2> QED BY <2>1, InputPlaced
  <1>5. CoreKeeps'
    <2>1. CoreBase <= hs'.commit /\ Final.hs.commit <= hs'.commit
      BY <1>1, <1>3 DEF CoreKeeps
    <2>2. hs'.commit = CoreBase \/ hs'.commit \in DOMAIN CoreLog
      BY <1>1 DEF CoreKeeps
    <2>3. CoreBase = 0 \/ CoreBase \in DOMAIN chosen'
      BY <1>1 DEF CoreKeeps, Chosen
    <2>4. /\ Full(CoreLog, CoreBase) /\ persisted <= CoreTop /\ persisted < offset
          /\ offset - 1 <= CoreBase \/ offset - 1 \in DOMAIN Final.entries
      BY <1>1 DEF CoreKeeps
    <2> QED BY <1>1, <1>2, <2>1, <2>2, <2>3, <2>4 DEF CoreKeeps
  <1>6. Leading'
    BY <1>1, <1>2 DEF Leading
  <1>7. Alone'
    BY DEF Alone
  <1>8. ASSUME NEW m \in msgs', IsAck(m)
        PROVE  /\ Peers # {} /\ m.term \in 1..MaxTerm /\ m.arg \in Nat
               /\ m.term <= hs'.term /\ Honours(ldrLog', CoreLog', CoreBase', m)
    BY <1>2, <1>8
  <1> HIDE DEF LogInv
  <1> QED BY <1>1, <1>2, <1>3, <1>4, <1>5, <1>6, <1>7, <1>8, LearningKeepsLog

\* Acknowledgements of a quorum.
LEMMA AppendResponseKeepsLog ==
    ASSUME Inv, LogInv, NEW c \in 1..MaxIndex, StepAppendResponse(c), HandleRaftMessage
    PROVE  LogInv'
  <1> DEFINE f == ldrLog[hs.term]
  <1>1. Before
    BY DEF Before
  <1>2. /\ pc = "input" /\ Peers # {} /\ role = "Leader" /\ role' = role
        /\ c \in (hs.commit + 1)..CoreLast /\ Choose(hs.term, f, c)
        /\ MayChoose(hs.term, f, c)
        /\ hs' = [hs EXCEPT !.commit = c] /\ msgs' = msgs \cup {Leads(hs.term)}
        /\ UNCHANGED <<unstable, offset, usnap, persisted, ldrLog>>
    BY DEF StepAppendResponse, Input
  <1>3. /\ ~busy /\ hs.term \in 0..MaxTerm /\ MaxTerm \in Nat /\ CoreKeeps /\ Leading
        /\ hs \in HardState /\ hs.commit \in Nat /\ pc \notin Outside
        /\ unstable = << >> /\ usnap = NoSnapshot /\ msgs = {}
    BY <1>1, <1>2, InputFacts
  <1>4. /\ CoreLast = CoreTop /\ CoreTop \in Nat /\ CoreBase \in Nat
        /\ DOMAIN CoreLog \subseteq Nat \ {0}
        /\ \A i \in Nat : CoreBase < i /\ i <= CoreTop => i \in DOMAIN CoreLog
    BY <1>3, QuietLog
  <1>5. hs'.commit = c /\ hs'.term = hs.term /\ c \in Nat
    BY <1>2, <1>3 DEF HardState
  <1>6. hs.commit <= c /\ c \in DOMAIN CoreLog
    <2>1. CoreBase <= hs.commit
      BY <1>3 DEF CoreKeeps
    <2> QED BY <1>2, <1>3, <1>4, <1>5, <2>1
  <1>7. /\ Chosen(chosen, chosen')
        /\ DOMAIN chosen' = DOMAIN chosen \cup {j \in DOMAIN f : j <= c}
        /\ \A i \in DOMAIN f : i <= c /\ i \notin DOMAIN chosen => chosen'[i].entry = f[i]
    BY <1>2, ChooseKeeps
  <1>8. Committed(chosen', CoreLog, CoreBase, c)
    <2> SUFFICES ASSUME NEW i \in DOMAIN CoreLog, CoreBase < i, i <= c
                 PROVE  i \in DOMAIN chosen' /\ chosen'[i].entry = CoreLog[i]
      BY DEF Committed
    <2>1. i \in DOMAIN f /\ f[i] = CoreLog[i]
      BY <1>2, <1>3, <1>4 DEF Leading
    <2>2. i \in DOMAIN chosen => chosen[i].entry = f[i]
      BY <1>2, <2>1 DEF MayChoose
    <2> QED BY <1>7, <2>1, <2>2 DEF Chosen
  <1>9. \A m \in msgs' : ~IsAck(m)
    BY <1>2, <1>3, NoAcks
  <1>10. /\ Known(ldrLog, ldrLog') /\ DOMAIN ldrLog' = 0..MaxTerm
         /\ \A u \in 0..MaxTerm : DOMAIN ldrLog'[u] \subseteq Nat \ {0}
    BY <1>2, <1>3, KnownIsReflexive DEF CoreKeeps
  <1>11. hs'.term <= MaxTerm
    BY <1>3, <1>5
  <1> HIDE DEF LogInv, f
  <1> QED BY <1>1, <1>2, <1>5, <1>6, <1>7, <1>8, <1>9, <1>10, <1>11, CommitMoves

\* A heartbeat.
LEMMA HeartbeatKeepsLog ==
    ASSUME Inv, LogInv, NEW t \in 1..MaxTerm, NEW c \in hs.commit..MaxIndex,
           StepHeartbeat(t, c), HandleRaftMessage
    PROVE  LogInv'
  <1> DEFINE f == ldrLog[t]
  <1>1. Before
    BY DEF Before
  <1>2. /\ pc = "input" /\ OtherLeads(t) /\ c \in hs.commit..CoreLast
        /\ c > hs.commit => \E m \in sent : m.type = "ack" /\ m.term = t /\ m.arg >= c
        /\ MayChoose(t, f, c) /\ Choose(t, f, c)
        /\ hs' = [AtTerm(t) EXCEPT !.commit = c] /\ role' = "Follower"
        /\ UNCHANGED <<unstable, offset, usnap, persisted, ldrLog, msgs>>
    BY DEF StepHeartbeat, Input
  <1>3. /\ ~busy /\ hs.term \in 0..MaxTerm /\ MaxTerm \in Nat /\ CoreKeeps /\ Leading
        /\ hs \in HardState /\ hs.commit \in Nat /\ pc \notin Outside /\ Shape
        /\ unstable = << >> /\ usnap = NoSnapshot /\ msgs = {}
    BY <1>1, <1>2, InputFacts
  <1>4. /\ CoreLast = CoreTop /\ CoreTop \in Nat /\ CoreBase \in Nat
        /\ DOMAIN CoreLog \subseteq Nat \ {0}
        /\ \A i \in Nat : CoreBase < i /\ i <= CoreTop => i \in DOMAIN CoreLog
    BY <1>3, QuietLog
  <1>5. t \in hs.term..MaxTerm /\ Peers # {} /\ t \in Nat /\ t >= hs.term
    BY <1>2, <1>3 DEF OtherLeads
  <1>6. hs'.commit = c /\ hs'.term = t /\ c \in Nat /\ hs.commit <= c
    <2>1. AtTerm(t) \in HardState /\ AtTerm(t).term = t
      BY <1>3, <1>5, AtTermYields
    <2> QED BY <1>2, <1>3, <1>4, <2>1 DEF HardState
  <1>7. CoreBase <= hs.commit /\ Committed(chosen, CoreLog, CoreBase, hs.commit)
    BY <1>3 DEF CoreKeeps
  <1>8. c = hs.commit \/ c \in DOMAIN CoreLog
    BY <1>2, <1>3, <1>4, <1>6, <1>7
  <1>9. /\ Chosen(chosen, chosen')
        /\ DOMAIN chosen' = DOMAIN chosen \cup {j \in DOMAIN f : j <= c}
        /\ \A i \in DOMAIN f : i <= c /\ i \notin DOMAIN chosen => chosen'[i].entry = f[i]
    <2>1. Choose(t, f, c)
      BY <1>2
    <2> HIDE DEF f
    <2> QED BY <2>1, ChooseKeeps
  <1>10. Committed(chosen', CoreLog, CoreBase, c)
    <2> SUFFICES ASSUME NEW i \in DOMAIN CoreLog, CoreBase < i, i <= c
                 PROVE  i \in DOMAIN chosen' /\ chosen'[i].entry = CoreLog[i]
      BY DEF Committed
    <2>1. CASE i <= hs.commit
      BY <1>7, <1>9, <2>1 DEF Committed, Chosen
    <2>2. CASE ~(i <= hs.commit)
      <3>1. PICK m \in sent : m.type = "ack" /\ m.term = t /\ m.arg >= c
        BY <1>2, <1>3, <1>4, <1>6, <2>2
      <3>2. /\ m \in Acks /\ m.arg \in Nat /\ Honours(ldrLog, CoreLog, CoreBase, m)
        BY <3>1 DEF Acks, IsAck, LogInv, AcksKeep, AckKeeps
      <3>3. i \in 1..m.arg
        BY <1>4, <1>6, <3>1, <3>2
      <3>4. i \in DOMAIN f => (i \in DOMAIN chosen => chosen[i].entry = f[i])
                              /\ ~Later(ldrLog, t, i)
        BY <1>2 DEF MayChoose, Later
      <3>5. i \in DOMAIN f /\ CoreLog[i] = f[i]
        BY <1>4, <3>1, <3>2, <3>3, <3>4 DEF Honours, Later
      <3> QED BY <1>9, <3>4, <3>5 DEF Chosen
    <2> QED BY <2>1, <2>2
  <1>11. /\ Known(ldrLog, ldrLog') /\ DOMAIN ldrLog' = 0..MaxTerm
         /\ \A u \in 0..MaxTerm : DOMAIN ldrLog'[u] \subseteq Nat \ {0}
    BY <1>2, <1>3, KnownIsReflexive DEF CoreKeeps
  <1>12. hs'.term <= MaxTerm /\ \A m \in msgs' : ~IsAck(m)
    BY <1>2, <1>3, <1>5, <1>6
  <1> HIDE DEF LogInv, f
  <1> QED BY <1>1, <1>2, <1>5, <1>6, <1>8, <1>9, <1>10, <1>11, <1>12, CommitMoves

\* What a leader is known to hold is taught; what it commits is chosen.
LEMMA LeaderTeaches ==
    ASSUME CoreKeeps, NEW t \in 1..MaxTerm, NEW f, DOMAIN f \subseteq Nat \ {0}, NEW c,
           LeaderHolds(t, f), MayChoose(t, f, c), Teach(t, f), Choose(t, f, c)
    PROVE  /\ DOMAIN ldrLog' = 0..MaxTerm
           /\ \A u \in 0..MaxTerm : DOMAIN ldrLog'[u] \subseteq Nat \ {0}
           /\ Known(ldrLog, ldrLog') /\ Chosen(chosen, chosen')
           /\ \A i \in DOMAIN f : i \in DOMAIN ldrLog'[t] /\ ldrLog'[t][i] = f[i]
           /\ \A i \in DOMAIN f : i <= c => i \in DOMAIN chosen' /\ chosen'[i].entry = f[i]
  <1>1. /\ DOMAIN ldrLog = 0..MaxTerm /\ t \in 0..MaxTerm
        /\ \A u \in 0..MaxTerm : DOMAIN ldrLog[u] \subseteq Nat \ {0}
    BY LoopConstants DEF CoreKeeps
  <1>2. \A i \in DOMAIN f \cap DOMAIN ldrLog[t] : f[i] = ldrLog[t][i]
    BY DEF LeaderHolds
  <1>3. /\ DOMAIN ldrLog' = 0..MaxTerm
        /\ \A u \in 0..MaxTerm : DOMAIN ldrLog'[u] \subseteq Nat \ {0}
        /\ DOMAIN ldrLog'[t] = DOMAIN ldrLog[t] \cup DOMAIN f
        /\ \A i \in DOMAIN f : ldrLog'[t][i] = f[i]
        /\ Known(ldrLog, ldrLog')
    BY <1>1, <1>2, TeachExtends
  <1>4. /\ Chosen(chosen, chosen')
        /\ DOMAIN chosen' = DOMAIN chosen \cup {j \in DOMAIN f : j <= c}
        /\ \A i \in DOMAIN f : i <= c /\ i \notin DOMAIN chosen => chosen'[i].entry = f[i]
    BY ChooseKeeps
  <1>5. \A i \in DOMAIN f : i <= c /\ i \in DOMAIN chosen => chosen[i].entry = f[i]
    BY DEF MayChoose
  <1>6. \A i \in DOMAIN f : i <= c => i \in DOMAIN chosen' /\ chosen'[i].entry = f[i]
    BY <1>4, <1>5 DEF Chosen
  <1> QED BY <1>3, <1>4, <1>6

\* An append: what it leaves up to its last entry is the leader's log.
LEMMA AppendKeepsLog ==
    ASSUME Inv, LogInv, NEW t \in 1..MaxTerm, NEW prev \in hs.commit..CoreLast,
           NEW es \in Appendable, NEW c \in hs.commit..MaxIndex,
           StepAppend(t, prev, es, c), HandleRaftMessage
    PROVE  LogInv'
  <1> DEFINE last == prev + Len(es)
             old == CoreEntries(prev)
             more == [i \in (prev + 1)..last |-> es[i - prev]]
             new == Extend(old, more)
             known == last <= CoreLast /\ (es # << >> => CoreTerm(last) = es[1].term)
             d == Lesser(c, last)
  <1>1. Before
    BY DEF Before
  <1>2. /\ pc = "input" /\ OtherLeads(t)
        /\ LeaderHolds(t, new) /\ MayChoose(t, new, d) /\ Teach(t, new) /\ Choose(t, new, d)
        /\ known /\ es # << >> => CoreEntries(last)[last] = es[1]
        /\ hs' = [AtTerm(t) EXCEPT !.commit = Greater(hs.commit, d)] /\ role' = "Follower"
        /\ msgs' = msgs \cup {Ack(t, last)} /\ usnap' = usnap
    BY DEF StepAppend, Input
  <1>3. IF known THEN UNCHANGED <<unstable, offset, persisted>>
        ELSE TruncateAndAppend(last, es) /\ persisted' = Lesser(persisted, prev)
    BY DEF StepAppend
  <1>4. /\ ~busy /\ UNCHANGED storageVars /\ UNCHANGED <<rd, batch, sent>>
        /\ pc \in Inputs /\ pc \notin Outside /\ pc' \notin Outside
        /\ pc' \in {"tick", "ready"} /\ hs.term <= hs'.term /\ hs'.term \in Nat
        /\ hs.term \in 0..MaxTerm /\ MaxTerm \in Nat /\ CoreKeeps /\ CoreShape
        /\ hs \in HardState /\ hs.commit \in Nat /\ hs'.commit \in Nat /\ Shape
        /\ unstable = << >> /\ usnap = NoSnapshot /\ msgs = {} /\ Final' = Final
    BY <1>1, <1>2, InputFacts
  <1>5. /\ CoreLast = CoreTop /\ CoreTop \in Nat /\ CoreBase \in Nat
        /\ Final = view /\ Bounded(view)
        /\ DOMAIN CoreLog \subseteq Nat \ {0} /\ \A i \in DOMAIN CoreLog : i <= CoreTop
        /\ \A i \in Nat : CoreBase < i /\ i <= CoreTop => i \in DOMAIN CoreLog
        /\ \A n \in Nat :
              /\ DOMAIN CoreEntries(n) = {i \in DOMAIN CoreLog : i <= n}
              /\ \A i \in DOMAIN CoreEntries(n) : CoreEntries(n)[i] = CoreLog[i]
    BY <1>4, QuietLog
  <1>6. /\ prev \in Nat /\ hs.commit <= prev /\ prev <= CoreTop /\ CoreBase <= hs.commit
        /\ c \in Nat /\ hs.commit <= c
        /\ t \in hs.term..MaxTerm /\ Peers # {} /\ t \in Nat /\ t >= hs.term
    <2>1. t \in hs.term..MaxTerm /\ Peers # {}
      BY <1>2 DEF OtherLeads
    <2>2. t \in Nat /\ t >= hs.term
      <3>1. hs.term \in Nat /\ MaxTerm \in Nat
        BY <1>4
      <3> QED BY <2>1, <3>1
    <2>3. CoreBase <= hs.commit
      BY <1>4 DEF CoreKeeps
    <2> QED BY <1>2, <1>4, <1>5, <2>1, <2>2, <2>3
  <1>7. es = << >> \/ (es = <<es[1]>> /\ es # << >>)
    BY DEF Appendable
  <1>8. /\ last \in Nat /\ prev <= last
        /\ es = << >> => last = prev
        /\ es # << >> => last = prev + 1
    <2>1. CASE es = << >>
      BY <1>6, <2>1
    <2>2. CASE es = <<es[1]>> /\ es # << >>
      <3>1. Len(es) = 1
        BY <2>2
      <3> QED BY <1>6, <2>2, <3>1
    <2> QED BY <1>7, <2>1, <2>2
  <1>9. /\ DOMAIN old = {i \in DOMAIN CoreLog : i <= prev}
        /\ \A i \in DOMAIN old : old[i] = CoreLog[i]
    BY <1>5, <1>6
  <1>10. DOMAIN more = (prev + 1)..last /\ (es # << >> => more[last] = es[1])
    <2>1. DOMAIN more = (prev + 1)..last
      OBVIOUS
    <2>2. es # << >> => last \in (prev + 1)..last /\ last - prev = 1
      <3> HIDE DEF last
      <3> QED BY <1>6, <1>8
    <2> QED BY <2>1, <2>2
  <1> HIDE DEF old, more
  <1>11. /\ DOMAIN new = DOMAIN old \cup DOMAIN more
         /\ \A i \in DOMAIN new : new[i] = IF i \in DOMAIN more THEN more[i] ELSE old[i]
    BY DEF Extend
  <1> HIDE DEF new, last
  <1>12. /\ DOMAIN new \subseteq Nat \ {0}
         /\ \A i \in Nat : CoreBase < i /\ i <= last => i \in DOMAIN new
         /\ \A i \in DOMAIN new : i <= last
         /\ \A i \in DOMAIN new : i <= prev => i \in DOMAIN CoreLog /\ new[i] = CoreLog[i]
         /\ es # << >> => new[last] = es[1] /\ last \in DOMAIN new
    <2>1. DOMAIN more \subseteq Nat \ {0}
      BY <1>6, <1>10
    <2>2. ASSUME NEW i \in Nat, CoreBase < i, i <= last PROVE i \in DOMAIN new
      <3>1. CASE i <= prev
        BY <1>5, <1>6, <1>9, <1>11, <2>2, <3>1
      <3>2. CASE ~(i <= prev)
        BY <1>6, <1>8, <1>10, <1>11, <2>2, <3>2
      <3> QED BY <3>1, <3>2
    <2>3. \A i \in DOMAIN new : i <= last
      BY <1>5, <1>6, <1>8, <1>9, <1>10, <1>11
    <2>4. ASSUME NEW i \in DOMAIN new, i <= prev
          PROVE  i \in DOMAIN CoreLog /\ new[i] = CoreLog[i]
      <3>1. i \notin DOMAIN more
        BY <1>6, <1>8, <1>10, <2>4
      <3> QED BY <1>9, <1>11, <3>1
    <2>5. es # << >> => last \in DOMAIN more
      BY <1>6, <1>8, <1>10
    <2> QED BY <1>5, <1>9, <1>10, <1>11, <2>1, <2>2, <2>3, <2>4, <2>5
  <1>13. /\ DOMAIN ldrLog' = 0..MaxTerm
         /\ \A u \in 0..MaxTerm : DOMAIN ldrLog'[u] \subseteq Nat \ {0}
         /\ Known(ldrLog, ldrLog') /\ Chosen(chosen, chosen')
         /\ \A i \in DOMAIN new : i \in DOMAIN ldrLog'[t] /\ ldrLog'[t][i] = new[i]
         /\ \A i \in DOMAIN new : i <= d => i \in DOMAIN chosen' /\ chosen'[i].entry = new[i]
    <2> HIDE DEF d, LogInv
    <2> QED BY <1>2, <1>4, <1>12, LeaderTeaches
  <1>14. /\ d \in Nat /\ d <= last /\ hs.commit <= d /\ Greater(hs.commit, d) = d
    BY <1>4, <1>6, <1>8 DEF Lesser, Greater
  <1> HIDE DEF d
  <1>15. hs'.commit = d /\ hs'.term = t
    <2>1. AtTerm(t) \in HardState /\ AtTerm(t).term = t
      BY <1>4, <1>6, AtTermYields
    <2> QED BY <1>2, <1>14, <2>1 DEF HardState
  \* Up to the last entry appended, any log with the leader's entries will do.
  <1>16. ASSUME NEW g, DOMAIN g \subseteq Nat,
                \A i \in Nat : CoreBase < i /\ i <= last => i \in DOMAIN g /\ g[i] = new[i]
         PROVE  /\ Committed(chosen', g, CoreBase, d)
                /\ d = CoreBase \/ d \in DOMAIN g
                /\ Honours(ldrLog', g, CoreBase, Ack(t, last))
    <2>1. Committed(chosen', g, CoreBase, d)
      <3> SUFFICES ASSUME NEW i \in DOMAIN g, CoreBase < i, i <= d
                   PROVE  i \in DOMAIN chosen' /\ chosen'[i].entry = g[i]
        BY DEF Committed
      <3>1. i \in Nat /\ i <= last
        BY <1>8, <1>14, <1>16
      <3>2. i \in DOMAIN new /\ g[i] = new[i]
        BY <1>12, <1>16, <3>1
      <3> QED BY <1>13, <3>2
    <2>2. d = CoreBase \/ d \in DOMAIN g
      <3>1. CoreBase <= d
        BY <1>4, <1>5, <1>6, <1>14
      <3>2. d = CoreBase \/ (CoreBase < d /\ d <= last)
        BY <1>5, <1>14, <3>1
      <3> QED BY <1>14, <1>16, <3>2
    <2>3. Honours(ldrLog', g, CoreBase, Ack(t, last))
      <3> SUFFICES ASSUME NEW i \in 1..last, ~(i <= CoreBase)
                   PROVE  i \in DOMAIN g \cap DOMAIN ldrLog'[t] /\ g[i] = ldrLog'[t][i]
        BY NoAcks DEF Honours
      <3>1. i \in Nat /\ CoreBase < i /\ i <= last
        BY <1>5, <1>8
      <3> QED BY <1>12, <1>13, <1>16, <3>1
    <2> QED BY <2>1, <2>2, <2>3
  <1>17. \A m \in msgs' : m = Ack(t, last)
    BY <1>2, <1>4
  <1>18. CASE known
    <2>1. last <= CoreTop
      BY <1>5, <1>18
    <2>2. \A i \in Nat : CoreBase < i /\ i <= last => i \in DOMAIN CoreLog /\ CoreLog[i] = new[i]
      <3> SUFFICES ASSUME NEW i \in Nat, CoreBase < i, i <= last
                   PROVE  i \in DOMAIN CoreLog /\ CoreLog[i] = new[i]
        OBVIOUS
      <3>1. i \in DOMAIN CoreLog /\ i \in DOMAIN new
        BY <1>5, <1>8, <1>12, <2>1
      <3>2. CASE i <= prev
        BY <1>12, <3>1, <3>2
      <3>3. CASE ~(i <= prev)
        <4>1. i = last /\ es # << >>
          BY <1>6, <1>8, <3>3
        <4>2. CoreEntries(last)[last] = es[1]
          BY <1>2, <1>18, <4>1
        <4>3. last \in DOMAIN CoreEntries(last) /\ CoreEntries(last)[last] = CoreLog[last]
          BY <1>5, <1>8, <3>1, <4>1
        <4> QED BY <1>12, <3>1, <4>1, <4>2, <4>3
      <3> QED BY <3>2, <3>3
    <2>3. /\ Committed(chosen', CoreLog, CoreBase, d)
          /\ d = CoreBase \/ d \in DOMAIN CoreLog
          /\ Honours(ldrLog', CoreLog, CoreBase, Ack(t, last))
      BY <1>5, <1>16, <2>2
    <2>4. UNCHANGED <<unstable, offset, usnap, persisted>>
      BY <1>2, <1>3, <1>18
    <2>5. hs'.commit = hs.commit \/ hs'.commit \in DOMAIN CoreLog
      BY <1>4, <1>6, <1>14, <1>15, <2>3, <1>5
    <2>6. \A m \in msgs' : IsAck(m) =>
                /\ m.term \in 1..MaxTerm /\ m.arg \in Nat /\ m.term <= hs'.term
                /\ Honours(ldrLog', CoreLog, CoreBase, m)
      BY <1>6, <1>8, <1>15, <1>17, <2>3, NoAcks
    <2>7. hs'.term <= MaxTerm /\ hs.commit <= hs'.commit
      BY <1>4, <1>6, <1>14, <1>15
    <2> HIDE DEF LogInv, known
    <2> QED BY <1>1, <1>2, <1>6, <1>13, <1>15, <2>3, <2>4, <2>5, <2>6, <2>7, CommitMoves
  <1>19. CASE ~known
    <2>1. es # << >> /\ es = <<es[1]>> /\ last = prev + 1
      BY <1>5, <1>6, <1>7, <1>8, <1>19
    <2>2. /\ TruncateAndAppend(last, <<es[1]>>) /\ persisted' = Lesser(persisted, prev)
      BY <1>3, <1>19, <2>1
    <2>3. last \in Nat \ {0} /\ last - 1 = prev /\ (prev \in DOMAIN CoreLog \/ prev = CoreBase)
      <3>1. prev = CoreBase \/ (CoreBase < prev /\ prev <= CoreTop)
        BY <1>4, <1>5, <1>6
      <3>2. last \in Nat \ {0} /\ last - 1 = prev
        BY <1>6, <2>1
      <3> QED BY <1>5, <1>6, <3>1, <3>2
    <2>4. /\ unstable' = <<es[1]>> /\ offset' = last
          /\ DOMAIN CoreLog' = DOMAIN CoreLog \cup {last} /\ CoreLog'[last] = es[1]
          /\ \A i \in DOMAIN CoreLog : i # last => CoreLog'[i] = CoreLog[i]
          /\ CoreBase' = CoreBase /\ CoreTop' = last
          /\ Full(CoreLog', CoreBase)
          /\ offset' - 1 <= CoreBase \/ offset' - 1 \in DOMAIN Final'.entries
      <3>1. last - 1 \in DOMAIN CoreLog \/ last - 1 = CoreBase
        BY <2>3
      <3> HIDE DEF LogInv, known
      <3> QED BY <1>2, <1>4, <2>2, <2>3, <3>1, WrittenLog
    <2> DEFINE g == CoreLog'
    <2>5. DOMAIN g \subseteq Nat
      BY <1>5, <2>3, <2>4
    <2>6. \A i \in Nat : CoreBase < i /\ i <= last => i \in DOMAIN g /\ g[i] = new[i]
      <3> SUFFICES ASSUME NEW i \in Nat, CoreBase < i, i <= last
                   PROVE  i \in DOMAIN g /\ g[i] = new[i]
        OBVIOUS
      <3>1. CASE i = last
        BY <1>12, <2>1, <2>4, <3>1
      <3>2. CASE i # last
        <4>1. i <= prev /\ i \in DOMAIN new
          BY <1>6, <1>12, <2>1, <3>2
        <4> QED BY <1>12, <2>4, <3>2, <4>1
      <3> QED BY <3>1, <3>2
    <2>7. /\ Committed(chosen', g, CoreBase, d)
          /\ d = CoreBase \/ d \in DOMAIN g
          /\ Honours(ldrLog', g, CoreBase, Ack(t, last))
      <3> HIDE DEF g
      <3> QED BY <1>16, <2>5, <2>6
    <2>8. persisted' <= last /\ persisted' < last
      BY <1>4, <1>6, <2>1, <2>2, <2>3 DEF Lesser, CoreShape
    <2>9. Placed'
      <3>1. usnap' = NoSnapshot
        BY <1>2, <1>4
      <3> HIDE DEF LogInv
      <3> QED BY <1>1, <1>6, <3>1, InputPlaced
    <2>10. CoreKeeps'
      <3>1. CoreBase = 0 \/ CoreBase \in DOMAIN chosen'
        BY <1>4, <1>13 DEF CoreKeeps, Chosen
      <3>2. CoreBase <= d /\ Final.hs.commit <= d
        <4>1. Final.hs.commit <= hs.commit /\ Final.hs.commit \in Nat
          BY <1>4, <1>5 DEF CoreKeeps, Bounded, IsStore, HardState
        <4> QED BY <1>4, <1>5, <1>6, <1>14, <4>1
      <3>3. t <= MaxTerm
        BY <1>4, <1>6
      <3> QED BY <1>4, <1>13, <1>15, <2>4, <2>7, <2>8, <3>1, <3>2, <3>3 DEF CoreKeeps
    <2>11. Leading' /\ Alone'
      BY <1>2, <1>6 DEF Leading, Alone
    <2>12. \A i \in DOMAIN CoreLog : i > CoreBase' =>
                \/ i \in DOMAIN CoreLog' /\ CoreLog'[i] = CoreLog[i]
                \/ \E u \in hs.term..MaxTerm :
                        i \in DOMAIN CoreLog' \cap DOMAIN ldrLog'[u]
                            /\ CoreLog'[i] = ldrLog'[u][i]
      <3> SUFFICES ASSUME NEW i \in DOMAIN CoreLog, i = last
                   PROVE  /\ t \in hs.term..MaxTerm
                          /\ i \in DOMAIN CoreLog' \cap DOMAIN ldrLog'[t]
                          /\ CoreLog'[i] = ldrLog'[t][i]
        BY <2>4
      <3> QED BY <1>6, <1>12, <1>13, <2>1, <2>4
    <2>13. \A m \in msgs' : IsAck(m) =>
                \/ m \in Acks
                \/ /\ Peers # {} /\ m.term \in 1..MaxTerm /\ m.arg \in Nat
                   /\ m.term <= hs'.term /\ Honours(ldrLog', CoreLog', CoreBase', m)
      BY <1>6, <1>8, <1>15, <1>17, <2>4, <2>7, NoAcks
    <2>14. CoreBase' \in Nat /\ CoreBase <= CoreBase'
      BY <1>5, <2>4
    <2> HIDE DEF LogInv, known, g
    <2> QED BY <1>4, <1>5, <1>13, <2>9, <2>10, <2>11, <2>12, <2>13, <2>14, LearningKeepsLog
  <1> QED BY <1>18, <1>19

\* A leader's snapshot is one the store accepts.
LEMMA SnapshotIsValid ==
    ASSUME NEW n \in Nat, n >= 1, NEW f \in [1..n -> [term : 1..MaxTerm, payload : Payload]]
    PROVE  [index |-> n, term |-> f[n].term, conf |-> Voters,
            data |-> [k \in Keys |-> LastPut(f, k)]] \in Snapshot
  <1>1. MaxTerm \in Nat /\ Voters \in Confs /\ n \in 1..n
    BY LoopConstants
  <1>2. f[n].term \in Nat
    BY <1>1
  <1>3. ASSUME NEW k \in Keys PROVE LastPut(f, k) \in Ids \cup OtherIds \cup {NoValue}
    <2> DEFINE puts == {i \in DOMAIN f : f[i].payload # Empty /\ f[i].payload.key = k}
    <2>1. CASE puts = {}
      BY <2>1 DEF LastPut
    <2>2. CASE puts # {}
      <3>1. puts \subseteq 0..n
        BY <1>1
      <3>2. Highest(puts) \in puts
        <4> HIDE DEF puts
        <4> QED BY <1>1, <2>2, <3>1, HighestIsGreatest
      <3>3. f[Highest(puts)].payload \in Command
        BY <3>2, LoopConstants
      <3> QED BY <2>2, <3>3 DEF LastPut, Command
    <2> QED BY <2>1, <2>2
  <1> DEFINE d == [k \in Keys |-> LastPut(f, k)]
  <1>4. d \in SnapData
    <2>1. d \in [Keys -> Ids \cup OtherIds \cup {NoValue}]
      BY <1>3
    <2> QED BY <2>1, LoopConstants
  <1> QED BY <1>1, <1>2, <1>4 DEF Snapshot

\* A snapshot: the log it stands for is the leader's, whether the log here
\* already ends in it or makes way for it.
LEMMA SnapshotKeepsLog ==
    ASSUME Inv, LogInv, NEW t \in 1..MaxTerm, NEW n \in 1..MaxIndex,
           NEW f \in [1..n -> [term : 1..MaxTerm, payload : Payload]],
           StepSnapshot(t, f), HandleRaftMessage
    PROVE  LogInv'
  <1> DEFINE s == [index |-> n, term |-> f[n].term, conf |-> Voters,
                   data |-> [k \in Keys |-> LastPut(f, k)]]
             found == /\ CoreTerm(n) = f[n].term
                      /\ \A i \in DOMAIN CoreEntries(n) : CoreEntries(n)[i] = f[i]
                      /\ UNCHANGED <<usnap, unstable, offset, persisted>>
             taken == /\ usnap' = s /\ unstable' = << >> /\ offset' = n + 1
                      /\ persisted' = Lesser(persisted, hs.commit)
  <1>1. Before
    BY DEF Before
  <1>2. Len(f) = n /\ DOMAIN f = 1..n /\ n \in Nat /\ n >= 1 /\ MaxTerm \in Nat
    BY LoopConstants
  <1>3. /\ pc = "input" /\ OtherLeads(t) /\ n > hs.commit
        /\ LeaderHolds(t, f) /\ MayChoose(t, f, n) /\ Teach(t, f) /\ Choose(t, f, n)
        /\ hs' = [AtTerm(t) EXCEPT !.commit = n] /\ role' = "Follower"
        /\ msgs' = msgs \cup {Ack(t, n)}
        /\ found \/ taken
    BY <1>2 DEF StepSnapshot, Input
  <1> HIDE DEF s
  <1>4. /\ ~busy /\ UNCHANGED storageVars /\ UNCHANGED <<rd, batch, sent>>
        /\ pc \in Inputs /\ pc \notin Outside /\ pc' \notin Outside
        /\ pc' \in {"tick", "ready"} /\ hs.term <= hs'.term /\ hs'.term \in Nat
        /\ hs.term \in 0..MaxTerm /\ CoreKeeps /\ CoreShape
        /\ hs \in HardState /\ hs.commit \in Nat /\ hs'.commit \in Nat /\ Shape
        /\ unstable = << >> /\ usnap = NoSnapshot /\ msgs = {} /\ Final' = Final
    BY <1>1, <1>3, InputFacts
  <1>5. /\ CoreLast = CoreTop /\ CoreTop \in Nat /\ CoreBase \in Nat
        /\ Final = view /\ Bounded(view) /\ CoreBase = Base(view)
        /\ DOMAIN CoreLog \subseteq Nat \ {0} /\ \A i \in DOMAIN CoreLog : i <= CoreTop
        /\ DOMAIN CoreLog = DOMAIN view.entries
        /\ \A i \in Nat : CoreBase < i /\ i <= CoreTop => i \in DOMAIN CoreLog
        /\ \A j \in Nat :
              /\ DOMAIN CoreEntries(j) = {i \in DOMAIN CoreLog : i <= j}
              /\ \A i \in DOMAIN CoreEntries(j) : CoreEntries(j)[i] = CoreLog[i]
        /\ \A i \in Nat : CoreTerm(i) = term(view, i)
    BY <1>4, QuietLog
  <1>6. /\ CoreBase <= hs.commit /\ CoreBase < n
        /\ t \in hs.term..MaxTerm /\ Peers # {} /\ t \in Nat /\ t >= hs.term
    BY <1>2, <1>3, <1>4, <1>5 DEF OtherLeads, CoreKeeps
  <1>7. /\ DOMAIN ldrLog' = 0..MaxTerm
        /\ \A u \in 0..MaxTerm : DOMAIN ldrLog'[u] \subseteq Nat \ {0}
        /\ Known(ldrLog, ldrLog') /\ Chosen(chosen, chosen')
        /\ \A i \in DOMAIN f : i \in DOMAIN ldrLog'[t] /\ ldrLog'[t][i] = f[i]
        /\ \A i \in DOMAIN f : i <= n => i \in DOMAIN chosen' /\ chosen'[i].entry = f[i]
    <2>1. DOMAIN f \subseteq Nat \ {0}
      BY <1>2
    <2> HIDE DEF LogInv
    <2> QED BY <1>3, <1>4, <2>1, LeaderTeaches
  <1>8. hs'.commit = n /\ hs'.term = t
    <2>1. AtTerm(t) \in HardState /\ AtTerm(t).term = t
      BY <1>4, <1>6, AtTermYields
    <2> QED BY <1>2, <1>3, <2>1 DEF HardState
  <1>9. \A m \in msgs' : m = Ack(t, n)
    BY <1>3, <1>4
  <1>10. hs'.term <= MaxTerm /\ hs.commit <= hs'.commit
    BY <1>2, <1>3, <1>4, <1>6, <1>8
  <1>11. CASE found
    <2>1. n \in DOMAIN CoreLog
      <3>1. term(view, n) \in 1..MaxTerm
        BY <1>2, <1>5, <1>11
      <3>2. ~(HasSnapshot(view) /\ n = view.snap.index)
        BY <1>2, <1>5, <1>6 DEF Base
      <3>3. PICK v \in Nat : v > 0 /\ term(view, n) = v
        BY <1>2, <3>1
      <3>4. n \in DOMAIN view.entries
        BY <3>2, <3>3 DEF term, Compacted, Unavailable
      <3> QED BY <1>5, <3>4
    <2>2. \A i \in DOMAIN CoreLog : i <= n => i \in DOMAIN f /\ CoreLog[i] = f[i]
      <3>1. /\ DOMAIN CoreEntries(n) = {i \in DOMAIN CoreLog : i <= n}
            /\ \A i \in DOMAIN CoreEntries(n) : CoreEntries(n)[i] = CoreLog[i]
        BY <1>2, <1>5
      <3>2. \A i \in DOMAIN CoreEntries(n) : CoreEntries(n)[i] = f[i]
        BY <1>11
      <3>3. \A i \in DOMAIN CoreLog : i <= n => i \in DOMAIN f
        BY <1>2, <1>5
      <3> QED BY <3>1, <3>2, <3>3
    <2>3. \A i \in Nat : CoreBase < i /\ i <= n => i \in DOMAIN CoreLog
      BY <1>2, <1>5, <2>1
    <2>4. Committed(chosen', CoreLog, CoreBase, n)
      BY <1>7, <2>2 DEF Committed
    <2>5. Honours(ldrLog', CoreLog, CoreBase, Ack(t, n))
      <3> SUFFICES ASSUME NEW i \in 1..n, ~(i <= CoreBase)
                   PROVE  i \in DOMAIN CoreLog \cap DOMAIN ldrLog'[t]
                            /\ CoreLog[i] = ldrLog'[t][i]
        BY NoAcks DEF Honours
      <3>1. i \in DOMAIN CoreLog /\ i <= n
        BY <1>2, <1>5, <2>3
      <3> QED BY <1>7, <2>2, <3>1
    <2>6. \A m \in msgs' : IsAck(m) =>
                /\ m.term \in 1..MaxTerm /\ m.arg \in Nat /\ m.term <= hs'.term
                /\ Honours(ldrLog', CoreLog, CoreBase, m)
      BY <1>2, <1>6, <1>8, <1>9, <2>5, NoAcks
    <2> HIDE DEF LogInv
    <2> QED BY <1>1, <1>3, <1>6, <1>7, <1>8, <1>10, <1>11, <2>1, <2>4, <2>6, CommitMoves
  <1>12. CASE taken
    <2>1. s # NoSnapshot /\ s.index = n
      <3>1. s.index = n
        BY DEF s
      <3>2. s \in Snapshot
        BY <1>2, SnapshotIsValid DEF s
      <3> QED BY <3>1, <3>2, StorageConstants
    <2>2. Recent = {} /\ Recent' = {}
      BY <1>2, <1>4, <1>12 DEF Recent, CoreShape
    <2>3. CoreLog' = CoreLog /\ CoreBase' = n /\ CoreTop' = n
      BY <1>4, <1>12, <2>1, <2>2 DEF CoreLog, CoreBase, CoreTop
    <2>4. persisted' <= n /\ persisted' < n + 1
      BY <1>2, <1>3, <1>4, <1>12 DEF Lesser, CoreShape
    <2>5. Placed'
      <3>1. unstable' = << >> /\ offset' = usnap'.index + 1
        BY <1>12, <2>1
      <3> HIDE DEF LogInv
      <3> QED BY <1>1, <1>3, <1>6, <3>1, InputPlaced
    <2>6. CoreKeeps'
      <3>1. n \in DOMAIN chosen'
        BY <1>2, <1>7
      <3>2. Full(CoreLog, n)
        <4>1. Full(CoreLog, CoreBase)
          BY <1>4 DEF CoreKeeps
        <4>2. \A i \in DOMAIN CoreLog : \A j \in (n + 1)..i : j \in (CoreBase + 1)..i
          BY <1>2, <1>5, <1>6
        <4> QED BY <4>1, <4>2 DEF Full
      <3>3. Committed(chosen', CoreLog, n, n)
        BY <1>2, <1>5 DEF Committed
      <3>4. Final.hs.commit <= n
        <4>1. Final.hs.commit <= hs.commit /\ Final.hs.commit \in Nat
          BY <1>4, <1>5 DEF CoreKeeps, Bounded, IsStore, HardState
        <4> QED BY <1>2, <1>3, <1>4, <4>1
      <3>5. offset' - 1 <= n /\ offset' = n + 1 /\ n <= n
        BY <1>2, <1>12
      <3>6. Final' = Final /\ pc' \notin Outside
        BY <1>4
      <3> QED BY <1>7, <1>8, <1>10, <2>3, <2>4, <3>1, <3>2, <3>3, <3>4, <3>5, <3>6
          DEF CoreKeeps
    <2>7. Leading' /\ Alone'
      BY <1>3, <1>6 DEF Leading, Alone
    <2>8. Honours(ldrLog', CoreLog', CoreBase', Ack(t, n))
      BY <2>3, NoAcks DEF Honours
    <2>9. \A m \in msgs' : IsAck(m) =>
                \/ m \in Acks
                \/ /\ Peers # {} /\ m.term \in 1..MaxTerm /\ m.arg \in Nat
                   /\ m.term <= hs'.term /\ Honours(ldrLog', CoreLog', CoreBase', m)
      BY <1>2, <1>6, <1>8, <1>9, <2>8, NoAcks
    <2>10. CoreBase' \in Nat /\ CoreBase <= CoreBase'
      BY <1>2, <1>5, <1>6, <2>3
    <2>11. \A i \in DOMAIN CoreLog : i \in DOMAIN CoreLog' /\ CoreLog'[i] = CoreLog[i]
      BY <2>3
    <2> HIDE DEF LogInv
    <2> QED BY <1>4, <1>5, <1>7, <2>5, <2>6, <2>7, <2>9, <2>10, <2>11, LearningKeepsLog
  <1> QED BY <1>3, <1>11, <1>12

\* Every message.
LEMMA MessageKeepsLog == ASSUME Inv, LogInv, HandleRaftMessage PROVE LogInv'
  <1>1. CASE StepPreVotesWon
    BY <1>1, PreVotesWonKeepsLog
  <1>2. CASE StepVotesWon
    BY <1>2, VotesWonKeepsLog
  <1>3. ASSUME NEW t \in 1..MaxTerm, NEW c \in Peers, StepVoteRequest(t, c) PROVE LogInv'
    BY <1>3, VoteRequestKeepsLog
  <1>4. ASSUME NEW t \in 1..MaxTerm, StepHigherTerm(t) PROVE LogInv'
    BY <1>4, HigherTermKeepsLog
  <1>5. ASSUME NEW t \in 1..MaxTerm, NEW prev \in hs.commit..CoreLast,
               NEW es \in Appendable, NEW c \in hs.commit..MaxIndex,
               StepAppend(t, prev, es, c)
        PROVE  LogInv'
    BY <1>5, AppendKeepsLog
  <1>6. ASSUME NEW t \in 1..MaxTerm, NEW c \in hs.commit..MaxIndex, StepHeartbeat(t, c)
        PROVE  LogInv'
    BY <1>6, HeartbeatKeepsLog
  <1>7. ASSUME NEW t \in 1..MaxTerm, NEW n \in 1..MaxIndex,
               NEW f \in [1..n -> [term : 1..MaxTerm, payload : Payload]],
               StepSnapshot(t, f)
        PROVE  LogInv'
    BY <1>7, SnapshotKeepsLog
  <1>8. ASSUME NEW c \in 1..MaxIndex, StepAppendResponse(c) PROVE LogInv'
    BY <1>8, AppendResponseKeepsLog
  <1> HIDE DEF LogInv
  <1> QED BY <1>1, <1>2, <1>3, <1>4, <1>5, <1>6, <1>7, <1>8 DEF HandleRaftMessage

\* Every input and the tick.
LEMMA InputKeepsLog == ASSUME Inv, LogInv, Before PROVE LogInv'
  <1>1. ASSUME NEW key \in Keys, NEW id \in Ids, RpcPut(key, id) \/ UserPut(key, id)
        PROVE  LogInv'
    BY <1>1, PutKeepsLog
  <1>2. CASE UserCampaign
    BY <1>2, CampaignKeepsLog
  <1>3. CASE HandleRaftMessage
    BY <1>3, MessageKeepsLog
  <1>4. CASE InputNothing
    BY <1>4, InputNothingKeepsLog
  <1>5. CASE Tick
    BY <1>5, TickKeepsLog
  <1> HIDE DEF LogInv
  <1> QED BY <1>1, <1>2, <1>3, <1>4, <1>5 DEF HandleCommand, Before

----------------------------------------------------------------------------
(* The theorems.                                                           *)

\* A new server knows nothing and has acknowledged nothing.
LEMMA LogInvInitially == ASSUME Init PROVE LogInv
  <1>1. /\ view = EmptyStore /\ disk = EmptyStore /\ todo = << >> /\ ~busy
        /\ pc = "open" /\ rd = NoReady /\ batch = << >> /\ hs = NoHardState
        /\ role = "Follower" /\ unstable = << >> /\ offset = 1 /\ usnap = NoSnapshot
        /\ persisted = 0 /\ msgs = {} /\ sent = {} /\ chosen = << >>
        /\ ldrLog = [t \in 0..MaxTerm |-> << >>] /\ MaxTerm \in Nat
    BY LoopConstants DEF Init, StorageInit
  <1>2. /\ Final = EmptyStore /\ Stores = {EmptyStore} /\ Acks = {}
    BY <1>1 DEF Final, Stores, Contents, Acks, NoReady
  <1>3. /\ EmptyStore.snap = NoSnapshot /\ EmptyStore.conf = NoConf
        /\ EmptyStore.hs = NoHardState /\ DOMAIN EmptyStore.entries = {}
        /\ NoHardState.term = 0 /\ NoHardState.commit = 0
    BY DEF EmptyStore, NoHardState
  <1>4. ~HasSnapshot(EmptyStore) /\ Base(EmptyStore) = 0 /\ last_index(EmptyStore) = 0
    BY <1>3 DEF HasSnapshot, Base, last_index
  <1>5. DOMAIN CoreLog = {} /\ CoreBase = 0 /\ CoreTop = 0
    <2>1. Recent = {}
      BY <1>1 DEF Recent
    <2> QED BY <1>1, <1>2, <1>3, <1>4, <2>1 DEF CoreLog, CoreBase, CoreTop
  <1>6. StoresKeep /\ AcksKeep
    BY <1>1, <1>2, <1>3, <1>4 DEF StoresKeep, AcksKeep, StoreKeeps, Full, Committed
  <1>7. Placed
    BY <1>1 DEF Placed, Inputs, Outside, Working, Storing
  <1>8. CoreKeeps
    <2>1. DOMAIN ldrLog = 0..MaxTerm /\ \A t \in 0..MaxTerm : DOMAIN ldrLog[t] = {}
      BY <1>1
    <2> QED BY <1>1, <1>3, <1>5, <2>1 DEF CoreKeeps, Full, Committed, Outside
  <1>9. Leading /\ Delivered /\ Alone
    BY <1>1, <1>2, <1>4 DEF Leading, Delivered, IsChosen, Storing, Alone, Owns, Outside
  <1> QED BY <1>6, <1>7, <1>8, <1>9 DEF LogInv

\* Nothing happens.
LEMMA StutterKeepsLog == ASSUME LogInv, UNCHANGED vars PROVE LogInv'
  <1>1. UNCHANGED <<view, disk, todo, busy, pc, rd, batch, hs, role, unstable, offset,
                    usnap, persisted, msgs, sent, ldrLog, chosen>>
    BY DEF vars, storageVars, loopVars, coreVars, worldVars
  <1>2. Final' = Final /\ Stores' = Stores /\ Acks' = Acks
    BY <1>1 DEF Final, Stores, Acks
  <1>3. CoreLog' = CoreLog /\ CoreBase' = CoreBase /\ CoreTop' = CoreTop /\ Recent' = Recent
    BY <1>1, <1>2, LogStays
  <1>4. StoresKeep'
    BY <1>1, <1>2, StoreStays DEF StoresKeep, LogInv, knownVars
  <1>5. AcksKeep'
    BY <1>1, <1>2, <1>3 DEF AcksKeep, AckKeeps, LogInv
  <1>6. Placed'
    BY <1>1, <1>2, <1>3 DEF Placed, LogInv
  <1>7. CoreKeeps' /\ Leading'
    BY <1>1, <1>2, <1>3 DEF CoreKeeps, Leading, LogInv
  <1>8. Alone' /\ Delivered'
    BY <1>1, <1>2 DEF Alone, Owns, Delivered, IsChosen, LogInv
  <1> QED BY <1>4, <1>5, <1>6, <1>7, <1>8 DEF LogInv

\* Every step keeps the invariant.
LEMMA LogInvIsInductive == ASSUME Inv, LogInv, [Next]_vars PROVE LogInv'
  <1>1. CASE Before
    BY <1>1, InputKeepsLog
  <1>2. CASE ProcessReady
    BY <1>2, NothingReadyKeepsLog, TakeReadyKeepsLog, StoreSnapshotKeepsLog,
       RestoreSnapshotKeepsLog, AppendEntriesKeepsLog, PersistHardStateKeepsLog,
       SendPersistedKeepsLog, ApplyEntryKeepsLog, AdvanceKeepsLog, ReadyDoneKeepsLog
       DEF ProcessReady
  <1>3. CASE Storage
    BY <1>3, StorageKeepsLog
  <1>4. CASE Start
    BY <1>4, InitializeConfKeepsLog, NewRaftNodeKeepsLog DEF Start
  <1>5. CASE Shutdown
    BY <1>5, ShutdownKeepsLog
  <1>6. CASE Crash
    BY <1>6, CrashKeepsLog
  <1>7. CASE UNCHANGED vars
    BY <1>7, StutterKeepsLog
  <1> HIDE DEF LogInv
  <1> QED BY <1>1, <1>2, <1>3, <1>4, <1>5, <1>6, <1>7 DEF Next, Before

\* What this server has acknowledged to a leader is on disk, whatever the
\* entries, the snapshots and the crashes since: process_ready stores a Ready
\* before it sends what it promises, no storage call passes through a store
\* that lacks what an earlier one had, and an entry gives way only to one of
\* the same or a later leader.
THEOREM AcksStayDurable == Spec => []AcksDurable
  <1>1. Init => Inv /\ LogInv
    BY InvInitially, LogInvInitially
  <1>2. (Inv /\ LogInv) /\ [Next]_vars => (Inv /\ LogInv)'
    BY InvIsInductive, LogInvIsInductive
  <1>3. Inv /\ LogInv => AcksDurable
    <2> SUFFICES ASSUME Inv, LogInv, NEW m \in sent, m.type = "ack"
                 PROVE  /\ disk.hs.term >= m.term
                        /\ \A i \in 1..m.arg :
                              \/ HasSnapshot(disk) /\ i <= disk.snap.index
                              \/ /\ i \in DOMAIN disk.entries \cap DOMAIN ldrLog[m.term]
                                 /\ disk.entries[i] = ldrLog[m.term][i]
                              \/ Superseded(m.term, i)
      BY DEF AcksDurable
    <2>1. disk \in Stores /\ m \in Acks
      BY DEF Stores, Acks, IsAck
    <2>2. m.term <= disk.hs.term /\ m.arg \in Nat /\ m.term \in 1..MaxTerm
      BY <2>1 DEF LogInv, AcksKeep, AckKeeps
    <2>3. Honours(ldrLog, disk.entries, Base(disk), m)
      BY <2>1 DEF LogInv, StoresKeep, StoreKeeps, IsAck
    <2>4. disk.hs.term \in Nat /\ m.term \in Nat
      BY <2>2, LoopConstants DEF Inv, Shape, StoreShape, Bounded, IsStore, HardState
    <2>5. ASSUME NEW i \in 1..m.arg
          PROVE  \/ HasSnapshot(disk) /\ i <= disk.snap.index
                 \/ /\ i \in DOMAIN disk.entries \cap DOMAIN ldrLog[m.term]
                    /\ disk.entries[i] = ldrLog[m.term][i]
                 \/ Superseded(m.term, i)
      <3>1. i <= Base(disk) => HasSnapshot(disk) /\ i <= disk.snap.index
        BY DEF Base
      <3>2. Later(ldrLog, m.term, i) => Superseded(m.term, i)
        BY DEF Later, Superseded
      <3> QED BY <2>3, <3>1, <3>2 DEF Honours
    <2> QED BY <2>2, <2>4, <2>5
  <1> QED BY <1>1, <1>2, <1>3, PTL DEF Spec

\* Whatever a step does, what was chosen stays chosen.
LEMMA ChosenGrows == ASSUME [Next]_vars PROVE Chosen(chosen, chosen')
  <1>1. chosen' = chosen => Chosen(chosen, chosen')
    BY ChosenIsReflexive
  <1>2. ASSUME NEW t, NEW f, NEW c, Choose(t, f, c) PROVE Chosen(chosen, chosen')
    BY <1>2, ChooseKeeps
  <1>3. CASE HandleCommand \/ InputNothing \/ Tick
    BY <1>1, <1>3 DEF HandleCommand, RpcPut, UserPut, UserCampaign, InputNothing, Tick, worldVars
  <1>4. CASE HandleRaftMessage
    <2>1. StepPreVotesWon \/ StepVotesWon => chosen' = chosen
      BY DEF StepPreVotesWon, StepVotesWon, worldVars
    <2>2. \A t, c : StepVoteRequest(t, c) \/ StepHigherTerm(t) => chosen' = chosen
      BY DEF StepVoteRequest, StepHigherTerm, worldVars
    <2>3. \A t, p, es, c : StepAppend(t, p, es, c) => Chosen(chosen, chosen')
      BY <1>2 DEF StepAppend
    <2>4. \A t, f : StepSnapshot(t, f) => Chosen(chosen, chosen')
      BY <1>2 DEF StepSnapshot
    <2>5. \A t, c : StepHeartbeat(t, c) \/ StepAppendResponse(c) => Chosen(chosen, chosen')
      BY <1>2 DEF StepHeartbeat, StepAppendResponse
    <2> QED BY <1>1, <1>4, <2>1, <2>2, <2>3, <2>4, <2>5 DEF HandleRaftMessage
  <1>5. CASE Advance
    BY <1>2, <1>5 DEF Advance
  <1>6. CASE ProcessReady /\ ~Advance
    BY <1>1, <1>6 DEF ProcessReady, NothingReady, TakeReady, StoreSnapshot, RestoreSnapshot,
       AppendEntries, PersistHardState, SendPersisted, ApplyEntry, ReadyDone, worldVars
  <1>7. CASE Storage \/ Start \/ Shutdown \/ Crash \/ UNCHANGED vars
    BY <1>1, <1>7 DEF Storage, Start, InitializeConf, NewRaftNode, Shutdown, Crash, vars, worldVars
  <1> QED BY <1>3, <1>4, <1>5, <1>6, <1>7 DEF Next

Answers == answers \in [Ids -> Replies]

\* What one step may do to the answers.
AnswersStep ==
    /\ Answers'
    /\ \A id \in Ids :
         answers'[id] = "ok" =>
             \/ answers[id] = "ok"
             \/ /\ ApplyEntry /\ batch[1].entry.payload # Empty
                /\ id = batch[1].entry.payload.id

\* A step that answers nobody.
LEMMA NoAnswer == ASSUME Answers, answers' = answers PROVE AnswersStep
  BY DEF Answers, AnswersStep

\* A step that refuses a request.
LEMMA RefusalIsNoSuccess ==
    ASSUME Answers, NEW id, NEW r \in {"not_leader", "user"},
           answers' = [answers EXCEPT ![id] = r]
    PROVE  AnswersStep
  BY DEF Answers, AnswersStep, Replies

\* The loop ends, and its callbacks with it: no client is told of success.
LEMMA DroppedIsNoSuccess == ASSUME Answers, DropCallbacks PROVE AnswersStep
  BY DEF DropCallbacks, Answers, AnswersStep, Replies

\* Success is answered by the step that applies the entry, and by no other.
LEMMA SuccessIsApplied == ASSUME Answers, [Next]_vars PROVE AnswersStep
  <1>1. CASE HandleCommand
    <2>1. ASSUME NEW key, NEW id, RpcPut(key, id) \/ UserPut(key, id) PROVE AnswersStep
      <3>1. \/ answers' = answers
            \/ \E r \in {"not_leader", "user"} : answers' = [answers EXCEPT ![id] = r]
        BY <2>1 DEF RpcPut, UserPut
      <3> QED BY <3>1, NoAnswer, RefusalIsNoSuccess
    <2>2. CASE UserCampaign
      BY <2>2, NoAnswer DEF UserCampaign
    <2> QED BY <1>1, <2>1, <2>2 DEF HandleCommand
  <1>2. CASE HandleRaftMessage
    <2>1. \A t, p, es, c : StepAppend(t, p, es, c) => answers' = answers
      BY DEF StepAppend
    <2>2. \A t, f : StepSnapshot(t, f) => answers' = answers
      BY DEF StepSnapshot
    <2>3. \A t, c :
            StepHeartbeat(t, c) \/ StepVoteRequest(t, c) \/ StepHigherTerm(t)
                \/ StepAppendResponse(c) => answers' = answers
      BY DEF StepHeartbeat, StepVoteRequest, StepHigherTerm, StepAppendResponse, worldVars
    <2>4. StepPreVotesWon \/ StepVotesWon => answers' = answers
      BY DEF StepPreVotesWon, StepVotesWon, worldVars
    <2>5. answers' = answers
      BY <1>2, <2>1, <2>2, <2>3, <2>4 DEF HandleRaftMessage
    <2> QED BY <2>5, NoAnswer
  <1>3. CASE InputNothing \/ Tick
    <2>1. answers' = answers
      BY <1>3 DEF InputNothing, Tick, worldVars
    <2> QED BY <2>1, NoAnswer
  <1>4. CASE ApplyEntry
    <2>1. CASE answers' = answers
      BY <2>1, NoAnswer
    <2>2. CASE /\ batch[1].entry.payload # Empty
               /\ answers' = [answers EXCEPT ![batch[1].entry.payload.id] = "ok"]
      BY <1>4, <2>2 DEF Answers, AnswersStep, Replies
    <2> QED BY <1>4, <2>1, <2>2 DEF ApplyEntry
  <1>5. CASE ProcessReady /\ ~ApplyEntry
    <2>1. answers' = answers
      BY <1>5 DEF ProcessReady, NothingReady, TakeReady, StoreSnapshot, RestoreSnapshot,
         AppendEntries, PersistHardState, SendPersisted, Advance, ReadyDone, worldVars
    <2> QED BY <2>1, NoAnswer
  <1>6. CASE Storage \/ Start \/ UNCHANGED vars
    <2>1. answers' = answers
      BY <1>6 DEF Storage, Start, InitializeConf, NewRaftNode, vars, worldVars
    <2> QED BY <2>1, NoAnswer
  <1>7. CASE Shutdown \/ Crash
    <2>1. DropCallbacks
      BY <1>7 DEF Shutdown, Crash
    <2> QED BY <2>1, DroppedIsNoSuccess
  <1> QED BY <1>1, <1>2, <1>3, <1>4, <1>5, <1>6, <1>7 DEF Next

\* A PUT that was answered with success is chosen, and stays so: its callback
\* runs when its own entry is applied, and apply_entries is given committed
\* entries only, on a leader as on a server that has crashed and replays its
\* log.
THEOREM SuccessIsFinal == Spec => []AnsweredIsChosen
  <1> DEFINE J == Inv /\ LogInv /\ Answers /\ AnsweredIsChosen
  <1>1. Init => J
    BY InvInitially, LogInvInitially DEF Init, Answers, AnsweredIsChosen, Replies
  <1>2. J /\ [Next]_vars => J'
    <2> SUFFICES ASSUME Inv, LogInv, Answers, AnsweredIsChosen, [Next]_vars PROVE J'
      OBVIOUS
    <2>1. Inv' /\ LogInv' /\ Answers'
      BY InvIsInductive, LogInvIsInductive, SuccessIsApplied DEF AnswersStep
    <2>2. \A i \in DOMAIN chosen : i \in DOMAIN chosen' /\ chosen'[i].entry = chosen[i].entry
      BY ChosenGrows DEF Chosen
    <2>3. ASSUME NEW id \in Ids, answers'[id] = "ok"
          PROVE  \E i \in DOMAIN chosen :
                    chosen[i].entry.payload \in [key : Keys, id : {id}]
      <3>1. CASE answers[id] = "ok"
        BY <3>1 DEF AnsweredIsChosen
      <3>2. CASE /\ ApplyEntry /\ batch[1].entry.payload # Empty
                 /\ id = batch[1].entry.payload.id
        <4> DEFINE i == batch[1].index
                   e == batch[1].entry
        <4>1. batch # << >> /\ batch \in Seq(Contents(batch))
          BY <3>2 DEF ApplyEntry, Inv, Shape, ReadyShape, Batch
        <4>2. 1 \in DOMAIN batch
          BY <4>1
        <4>3. i \in DOMAIN chosen /\ e \in Entry /\ chosen[i].entry = e
          BY <4>2 DEF LogInv, Delivered, IsChosen
        <4>4. e.payload \in Command
          BY <3>2, <4>3, LoopConstants DEF Entry
        <4>5. e.payload \in [key : Keys, id : {id}]
          BY <3>2, <4>4 DEF Command
        <4> QED BY <4>3, <4>5
      <3> QED BY <2>3, <3>1, <3>2, SuccessIsApplied DEF AnswersStep
    <2>4. AnsweredIsChosen'
      BY <2>2, <2>3 DEF AnsweredIsChosen
    <2> QED BY <2>1, <2>4
  <1>3. J => AnsweredIsChosen
    OBVIOUS
  <1> QED BY <1>1, <1>2, <1>3, PTL DEF Spec

----------------------------------------------------------------------------
(***************************************************************************)
(* The map.  As long as no leader sends a snapshot, a server's map is what *)
(* the chosen log makes it and its store can be restarted from.            *)
(*                                                                         *)
(* `since` is the last index the core has handed out, `Rest` what of it is *)
(* still to be applied, so that since - Len(Rest) is where the map stands. *)
(* The last section is the type invariant, snapshots or not.               *)
(***************************************************************************)

Carrying == {"append", "hardstate", "persisted"}
Applying == {"apply", "light"}

\* A store without a snapshot, or with the empty one it started with, whose
\* commit index is an entry of its log.
PlainStore(s) ==
    /\ Base(s) = 0
    /\ s.hs.commit = 0 \/ s.hs.commit \in DOMAIN s.entries

Plain == usnap = NoSnapshot /\ \A s \in Stores : PlainStore(s)

\* The entries of C up to n.
UpTo(C, n) == [i \in {j \in DOMAIN C : j <= n} |-> C[i].entry]

\* What has been handed out and is not applied yet.
Rest == IF pc \in Carrying THEN rd.committed ELSE batch

\* The entries b follow n - Len(b) one by one.
Follows(b, n) == Len(b) <= n /\ \A k \in DOMAIN b : b[k].index + Len(b) = n + k

Replayed ==
    /\ DOMAIN chosen \subseteq Nat \ {0}
    /\ 1..since \subseteq DOMAIN chosen
    /\ Follows(Rest, since)
    /\ kv \in [Keys -> Ids \cup OtherIds \cup {NoValue}]
    /\ \A k \in Keys : kv[k] = LastPut(UpTo(chosen, since - Len(Rest)), k)
    /\ pc \notin Applying => batch = << >>
    /\ pc \in Outside => since = 0

MapInv == ~Snapshots /\ Plain /\ Replayed

----------------------------------------------------------------------------
(* The map and the log.                                                    *)

\* What more is chosen does not change the log below.
LEMMA UpToStays ==
    ASSUME NEW C, NEW D, Chosen(C, D), DOMAIN C \subseteq Nat \ {0},
           DOMAIN D \subseteq Nat \ {0}, NEW n \in Nat, 1..n \subseteq DOMAIN C
    PROVE  UpTo(D, n) = UpTo(C, n)
  <1>1. \A i \in DOMAIN C : i \in DOMAIN D /\ D[i].entry = C[i].entry
    BY DEF Chosen
  <1>2. {j \in DOMAIN C : j <= n} = 1..n /\ {j \in DOMAIN D : j <= n} = 1..n
    BY <1>1
  <1>3. \A i \in 1..n : D[i].entry = C[i].entry
    BY <1>1
  <1>4. UpTo(C, n) = [i \in 1..n |-> C[i].entry] /\ UpTo(D, n) = [i \in 1..n |-> D[i].entry]
    BY <1>2 DEF UpTo
  <1> QED BY <1>3, <1>4

\* One entry more decides its key and no other.
LEMMA LastPutNext ==
    ASSUME NEW C, NEW n \in Nat, NEW k, NEW c, DOMAIN C \subseteq Nat \ {0},
           1..(n + 1) \subseteq DOMAIN C, c = C[n + 1].entry.payload
    PROVE  LastPut(UpTo(C, n + 1), k) =
                IF c # Empty /\ c.key = k THEN c.id ELSE LastPut(UpTo(C, n), k)
  <1> DEFINE f == UpTo(C, n)
             g == UpTo(C, n + 1)
             P(h) == {i \in DOMAIN h : h[i].payload # Empty /\ h[i].payload.key = k}
  <1>1. /\ DOMAIN f = 1..n /\ DOMAIN g = 1..(n + 1)
        /\ \A i \in 1..n : f[i] = C[i].entry
        /\ \A i \in 1..(n + 1) : g[i] = C[i].entry
    BY DEF UpTo
  <1>2. /\ LastPut(f, k) = IF P(f) = {} THEN NoValue ELSE f[Highest(P(f))].payload.id
        /\ LastPut(g, k) = IF P(g) = {} THEN NoValue ELSE g[Highest(P(g))].payload.id
    BY DEF LastPut
  <1> HIDE DEF f, g
  <1>3. CASE c # Empty /\ c.key = k
    <2>1. n + 1 \in P(g) /\ P(g) \subseteq 0..(n + 1)
      BY <1>1, <1>3
    <2> HIDE DEF P
    <2>2. Highest(P(g)) \in P(g) /\ \A j \in P(g) : j <= Highest(P(g))
      <3>1. n + 1 \in Nat /\ P(g) # {}
        BY <2>1
      <3> QED BY <2>1, <3>1, HighestIsGreatest
    <2>3. Highest(P(g)) = n + 1
      BY <2>1, <2>2
    <2>4. P(g) # {} /\ g[n + 1].payload = c
      BY <1>1, <2>1
    <2>5. LastPut(g, k) = c.id
      BY <1>2, <2>3, <2>4
    <2> QED BY <1>3, <2>5 DEF g
  <1>4. CASE ~(c # Empty /\ c.key = k)
    <2>1. P(g) = P(f) /\ P(f) \subseteq 0..n
      BY <1>1, <1>4
    <2> HIDE DEF P
    <2>2. P(f) # {} => Highest(P(f)) \in 1..n
      <3>1. P(f) # {} => Highest(P(f)) \in P(f)
        BY <2>1, HighestIsGreatest
      <3>2. P(f) \subseteq 1..n
        BY <1>1 DEF P
      <3> QED BY <3>1, <3>2
    <2>3. P(f) # {} => g[Highest(P(f))] = f[Highest(P(f))]
      BY <1>1, <2>2
    <2> QED BY <1>2, <1>4, <2>1, <2>3 DEF f, g
  <1> QED BY <1>3, <1>4

\* Indices start with 1.
LEMMA FirstIsOne ==
    ASSUME NEW s, Bounded(s), Full(s.entries, Base(s)), Base(s) = 0
    PROVE  first_index(s) = 1
  BY FirstFollowsBase, FirstIsAboveBase

\* What is handed out follows what was handed out before.
LEMMA HandedOutFollows ==
    ASSUME NEW s, first_index(s) = 1, NEW last \in Nat, NEW from \in Nat,
           NEW q, q = NextEntries(last, s, from)
    PROVE  /\ Len(q) \in Nat /\ DOMAIN q = 1..Len(q)
           /\ \A k \in DOMAIN q : q[k].index = from + k
           /\ LastOf(q, from) = from + Len(q)
  <1> DEFINE n == IF last < from + 1 THEN 0 ELSE last - from
  <1>1. n \in Nat
    OBVIOUS
  <1>2. q = [k \in 1..n |-> [index |-> from + k, entry |-> s.entries[from + k]]]
    <2>1. Greater(from + 1, first_index(s)) = from + 1
      BY DEF Greater
    <2>2. q = [k \in 1..(IF last < from + 1 THEN 0 ELSE last - (from + 1) + 1) |->
                  [index |-> from + 1 + k - 1, entry |-> s.entries[from + 1 + k - 1]]]
      BY <2>1 DEF NextEntries
    <2>3. (IF last < from + 1 THEN 0 ELSE last - (from + 1) + 1) = n
      OBVIOUS
    <2>4. \A k \in 1..n : from + 1 + k - 1 = from + k
      BY <1>1
    <2> HIDE DEF n
    <2> QED BY <2>2, <2>3, <2>4
  <1> HIDE DEF n
  <1>3. Len(q) = n /\ DOMAIN q = 1..n
    <2>1. q = [k \in 1..n |-> q[k]]
      BY <1>2
    <2> QED BY <1>1, <2>1, FunctionContents
  <1>4. \A k \in DOMAIN q : q[k].index = from + k
    BY <1>2, <1>3
  <1>5. q = << >> <=> n = 0
    BY <1>1, <1>3
  <1>6. LastOf(q, from) = from + n
    <2>1. CASE n = 0
      BY <1>5, <2>1 DEF LastOf
    <2>2. CASE n # 0
      <3>1. n \in DOMAIN q
        BY <1>1, <1>3, <2>2
      <3> QED BY <1>3, <1>4, <1>5, <2>2, <3>1 DEF LastOf
    <2> QED BY <2>1, <2>2
  <1> QED BY <1>1, <1>3, <1>4, <1>6

----------------------------------------------------------------------------
(* The stores.                                                             *)

\* A step that leaves the stores alone, or lets a call proceed.
LEMMA QuietPlain ==
    ASSUME Plain, Stores' \subseteq Stores, usnap' \in {usnap, NoSnapshot}
    PROVE  Plain'
  BY DEF Plain, PlainStore, Base, HasSnapshot

\* A call, given the stores it passes through.
LEMMA CallPlain ==
    ASSUME Plain, usnap' = usnap, UNCHANGED <<view, disk>>,
           \A x \in Contents(todo') : PlainStore(x)
    PROVE  Plain'
  <1>1. Stores' \subseteq Stores \cup Contents(todo')
    BY DEF Stores
  <1> QED BY <1>1 DEF Plain

\* A call that writes one store with the log and the snapshot of the view.
LEMMA SinglePlain ==
    ASSUME Inv, Plain, usnap' = usnap, NEW x, StartCall(<<x>>),
           x.entries = view.entries, x.snap = view.snap,
           x.hs.commit = 0 \/ x.hs.commit \in DOMAIN view.entries
    PROVE  Plain'
  <1>1. todo' = <<x>> /\ UNCHANGED <<view, disk>> /\ PlainStore(view)
    BY DEF StartCall, Plain, Stores
  <1>2. PlainStore(x)
    BY <1>1 DEF PlainStore, Base, HasSnapshot
  <1>3. Contents(todo') = {x}
    BY <1>1 DEF Contents
  <1> QED BY <1>1, <1>2, <1>3, CallPlain

\* Nothing is removed by an append.
LEMMA AppendPlain == ASSUME Inv, Plain, AppendEntries PROVE Plain'
  <1> DEFINE q == append_writes(view, rd.base, rd.ents)
  <1>1. /\ StartCall(q) /\ usnap' = usnap /\ IsStore(view) /\ PlainStore(view)
        /\ rd.base \in Nat /\ rd.ents \in Seq(Entry)
    BY DEF AppendEntries, append, coreVars, Inv, Shape, StoreShape, Bounded, ReadyShape,
       Plain, Stores
  <1>2. \A x \in Contents(q) :
            /\ DOMAIN view.entries \subseteq DOMAIN x.entries
            /\ x.snap = view.snap /\ x.hs = view.hs
    <2>1. /\ q \in Seq(Contents(q)) /\ Len(q) = Len(rd.ents)
          /\ Contents(q) = {q[k] : k \in 1..Len(rd.ents)}
          /\ \A k \in 1..Len(rd.ents) :
                /\ IsStore(q[k])
                /\ q[k].entries = InsertFirst(view.entries, rd.base, rd.ents, k)
                /\ q[k].snap = view.snap /\ q[k].hs = view.hs
                /\ q[k].conf = view.conf /\ q[k].applied = view.applied
      BY <1>1, AppendWrites, Zenon
    <2>2. \A k : DOMAIN view.entries \subseteq
                    DOMAIN InsertFirst(view.entries, rd.base, rd.ents, k)
      BY DEF InsertFirst
    <2> HIDE DEF q
    <2> QED BY <2>1, <2>2
  <1> HIDE DEF q
  <1>3. todo' = q /\ UNCHANGED <<view, disk>>
    BY <1>1 DEF StartCall
  <1>4. \A x \in Contents(q) : PlainStore(x)
    BY <1>1, <1>2 DEF PlainStore, Base, HasSnapshot
  <1> QED BY <1>1, <1>3, <1>4, CallPlain

\* The hard state is stored after the entries its commit index speaks of.
LEMMA HardStatePlain == ASSUME Inv, LogInv, Plain, PersistHardState PROVE Plain'
  <1> DEFINE x == [view EXCEPT !.hs = rd.hs]
  <1>1. pc = "hardstate" /\ StartCall(<<x>>) /\ usnap' = usnap /\ ~busy
    BY DEF PersistHardState, set_hardstate, StartCall, coreVars
  <1>2. Final = view /\ IsStore(view) /\ view \in Stores
    BY <1>1, IdleStore
  <1>3. x.entries = view.entries /\ x.snap = view.snap /\ x.hs = rd.hs
    BY <1>2 DEF IsStore
  <1> HIDE DEF x
  <1>4. rd.hs = hs
    BY <1>1 DEF Inv, Kept, Handed, Storing
  <1>5. CoreBase = 0
    BY <1>2 DEF Plain, PlainStore, CoreBase
  <1>6. hs.commit = 0 \/ hs.commit \in DOMAIN CoreLog
    BY <1>1, <1>5 DEF LogInv, CoreKeeps, Outside
  <1>7. DOMAIN CoreLog = DOMAIN view.entries
    BY <1>1, <1>2 DEF LogInv, Placed, CoreLog
  <1> QED BY <1>1, <1>3, <1>4, <1>6, <1>7, SinglePlain

\* The applied index is stored beside the log.
LEMMA AppliedPlain == ASSUME Inv, Plain, ApplyEntry PROVE Plain'
  <1>1. usnap' = usnap /\ view \in Stores
    BY DEF ApplyEntry, coreVars, Stores
  <1>2. CASE UNCHANGED storageVars
    <2>1. Stores' = Stores
      BY <1>2 DEF storageVars, Stores
    <2> QED BY <1>1, <2>1, QuietPlain
  <1>3. ASSUME NEW i, set_applied_index(i) PROVE Plain'
    <2> DEFINE x == [view EXCEPT !.applied = i]
    <2>1. StartCall(<<x>>) /\ IsStore(view)
      BY <1>3 DEF set_applied_index, Inv, Shape, StoreShape, Bounded
    <2>2. x.entries = view.entries /\ x.snap = view.snap /\ x.hs = view.hs
      BY <2>1 DEF IsStore
    <2> HIDE DEF x
    <2>3. view.hs.commit = 0 \/ view.hs.commit \in DOMAIN view.entries
      BY <1>1 DEF Plain, PlainStore
    <2> QED BY <1>1, <2>1, <2>2, <2>3, SinglePlain
  <1> QED BY <1>2, <1>3 DEF ApplyEntry

\* The first configuration comes with a snapshot that covers nothing.
LEMMA InitializeConfPlain == ASSUME Inv, Plain, InitializeConf PROVE Plain'
  <1> DEFINE s == [index |-> 0, term |-> 0, conf |-> Voters, data |-> NoData]
             q == apply_snapshot_writes(view, s)
  <1>1. usnap' = usnap /\ view \in Stores /\ Bounded(view) /\ IsStore(view)
    BY DEF InitializeConf, coreVars, Stores, Inv, Shape, StoreShape, Bounded
  <1>2. CASE UNCHANGED storageVars
    <2>1. Stores' = Stores
      BY <1>2 DEF storageVars, Stores
    <2> QED BY <1>1, <2>1, QuietPlain
  <1>3. CASE StartCall(q)
    <2>1. s \in Snapshot /\ s.index = 0
      BY LoopConstants, StorageConstants DEF Snapshot
    <2> HIDE DEF s
    <2>2. \A x \in Contents(q) :
             IsTail(x.entries, view.entries, 0) /\ x.snap = s /\ x.hs = view.hs
      BY <1>1, <2>1, SnapshotWrites
    <2> HIDE DEF q
    <2>3. todo' = q /\ UNCHANGED <<view, disk>>
      BY <1>3 DEF StartCall
    <2>4. ASSUME NEW x \in Contents(q) PROVE PlainStore(x)
      <3>1. DOMAIN view.entries \subseteq DOMAIN x.entries
        BY <1>1, <2>2 DEF IsTail, Bounded, IsStore
      <3>2. Base(x) = 0
        BY <2>1, <2>2 DEF Base
      <3> QED BY <1>1, <2>2, <3>1, <3>2 DEF Plain, PlainStore
    <2> QED BY <1>1, <2>3, <2>4, CallPlain
  <1> QED BY <1>2, <1>3 DEF InitializeConf, apply_snapshot

\* Without snapshots there is none to store.
LEMMA NoSnapshotStored == ASSUME Inv, LogInv, Plain PROVE pc \notin {"snapshot", "restore"}
  BY DEF Plain, LogInv, Placed, Working, Storing, Inv, Shape, ReadyShape

\* Every step.
LEMMA PlainStays == ASSUME Inv, LogInv, Plain, ~Snapshots, [Next]_vars PROVE Plain'
  <1>1. CASE UNCHANGED storageVars /\ usnap' \in {usnap, NoSnapshot}
    <2>1. Stores' = Stores
      BY <1>1 DEF storageVars, Stores
    <2> QED BY <1>1, <2>1, QuietPlain
  <1>2. CASE Before
    <2>1. UNCHANGED storageVars
      BY <1>2, InputFacts
    <2>2. CASE HandleCommand \/ InputNothing \/ Tick
      <3>1. usnap' = usnap
        BY <2>2 DEF HandleCommand, RpcPut, UserPut, UserCampaign, InputNothing, Tick, coreVars
      <3> QED BY <1>1, <2>1, <3>1
    <2>3. CASE HandleRaftMessage
      <3>1. \A t, p, es, c : StepAppend(t, p, es, c) => usnap' = usnap
        BY DEF StepAppend
      <3>2. \A t, c :
              StepHeartbeat(t, c) \/ StepVoteRequest(t, c) \/ StepHigherTerm(t)
                  \/ StepAppendResponse(c) => usnap' = usnap
        BY DEF StepHeartbeat, StepVoteRequest, StepHigherTerm, StepAppendResponse
      <3>3. StepPreVotesWon \/ StepVotesWon => usnap' = usnap
        BY DEF StepPreVotesWon, StepVotesWon
      <3>4. usnap' = usnap
        BY <2>3, <3>1, <3>2, <3>3 DEF HandleRaftMessage
      <3> QED BY <1>1, <2>1, <3>4
    <2> QED BY <1>2, <2>2, <2>3 DEF Before
  <1>3. CASE NothingReady \/ TakeReady \/ SendPersisted \/ Advance \/ ReadyDone
    <2>1. UNCHANGED storageVars /\ usnap' \in {usnap, NoSnapshot}
      BY <1>3 DEF NothingReady, TakeReady, SendPersisted, Advance, ReadyDone, coreVars
    <2> QED BY <1>1, <2>1
  <1>4. CASE StoreSnapshot \/ RestoreSnapshot
    BY <1>4, NoSnapshotStored DEF StoreSnapshot, RestoreSnapshot
  <1>5. CASE AppendEntries \/ PersistHardState \/ ApplyEntry
    BY <1>5, AppendPlain, HardStatePlain, AppliedPlain
  <1>6. CASE Storage
    <2>1. StorageStep /\ usnap' = usnap /\ Shape /\ HsWritten
      BY <1>6 DEF Storage, coreVars, Inv, Kept
    <2>2. Stores' \subseteq Stores
      BY <2>1, FinalStays
    <2> QED BY <2>1, <2>2, QuietPlain
  <1>7. CASE InitializeConf
    BY <1>7, InitializeConfPlain
  <1>8. CASE NewRaftNode \/ Shutdown \/ UNCHANGED vars
    <2>1. UNCHANGED storageVars /\ usnap' \in {usnap, NoSnapshot}
      BY <1>8 DEF NewRaftNode, Shutdown, FreshMemory, vars, coreVars
    <2> QED BY <1>1, <2>1
  <1>9. CASE Crash
    <2>1. view' = disk /\ disk' = disk /\ todo' = << >> /\ usnap' = NoSnapshot
      BY <1>9 DEF Crash, Reopen, FreshMemory
    <2>2. Stores' \subseteq Stores
      BY <2>1 DEF Stores, Contents
    <2> QED BY <2>1, <2>2, QuietPlain
  <1> QED BY <1>2, <1>3, <1>4, <1>5, <1>6, <1>7, <1>8, <1>9
      DEF Next, Before, ProcessReady, Start

----------------------------------------------------------------------------
(* The map.                                                                *)

\* Indices of chosen entries start with 1, those of the leaders' logs do.
LEMMA ChosenIsPositive ==
    ASSUME Inv, LogInv, ~Snapshots, DOMAIN chosen \subseteq Nat \ {0}, [Next]_vars
    PROVE  DOMAIN chosen' \subseteq Nat \ {0}
  <1>1. ASSUME NEW t, NEW f, NEW c, Choose(t, f, c), DOMAIN f \subseteq Nat \ {0}
        PROVE  DOMAIN chosen' \subseteq Nat \ {0}
    BY <1>1 DEF Choose
  <1>2. /\ \A t \in 0..MaxTerm : DOMAIN ldrLog[t] \subseteq Nat \ {0}
        /\ hs.term \in 0..MaxTerm /\ hs.commit \in Nat /\ MaxTerm \in Nat
    BY LoopConstants DEF LogInv, CoreKeeps, Inv, Shape, CoreShape, HardState
  <1>3. CASE HandleCommand \/ InputNothing \/ Tick
    BY <1>3 DEF HandleCommand, RpcPut, UserPut, UserCampaign, InputNothing, Tick, worldVars
  <1>4. CASE HandleRaftMessage
    <2>1. StepPreVotesWon \/ StepVotesWon => chosen' = chosen
      BY DEF StepPreVotesWon, StepVotesWon, worldVars
    <2>2. \A t, c : StepVoteRequest(t, c) \/ StepHigherTerm(t) => chosen' = chosen
      BY DEF StepVoteRequest, StepHigherTerm, worldVars
    <2>3. ASSUME NEW t, NEW p \in hs.commit..CoreLast, NEW es, NEW c, StepAppend(t, p, es, c)
          PROVE  DOMAIN chosen' \subseteq Nat \ {0}
      <3> DEFINE last == p + Len(es)
                 old == CoreEntries(p)
                 g == [i \in (p + 1)..last |-> es[i - p]]
      <3>1. Choose(t, Extend(old, g), Lesser(c, last))
        BY <2>3 DEF StepAppend
      <3>2. DOMAIN old \subseteq 1..p /\ DOMAIN g = (p + 1)..last
        BY DEF CoreEntries
      <3>3. p \in Nat
        BY <1>2
      <3>4. DOMAIN Extend(old, g) = DOMAIN old \cup DOMAIN g
        BY DEF Extend
      <3> HIDE DEF old, g, last
      <3>5. DOMAIN Extend(old, g) \subseteq Nat \ {0}
        BY <3>2, <3>3, <3>4
      <3> QED BY <1>1, <3>1, <3>5
    <2>4. ASSUME NEW t \in 1..MaxTerm, NEW c, StepHeartbeat(t, c)
          PROVE  DOMAIN chosen' \subseteq Nat \ {0}
      BY <1>1, <1>2, <2>4 DEF StepHeartbeat
    <2>5. ASSUME NEW c, StepAppendResponse(c) PROVE DOMAIN chosen' \subseteq Nat \ {0}
      BY <1>1, <1>2, <2>5 DEF StepAppendResponse
    <2> QED BY <1>4, <2>1, <2>2, <2>3, <2>4, <2>5 DEF HandleRaftMessage
  <1>5. CASE Advance
    <2>1. PICK c : Choose(hs.term, ldrLog[hs.term], c) \/ Choose(hs.term, << >>, c)
      BY <1>5 DEF Advance
    <2>2. DOMAIN << >> = {}
      OBVIOUS
    <2> QED BY <1>1, <1>2, <2>1, <2>2
  <1>6. CASE ProcessReady /\ ~Advance
    BY <1>6 DEF ProcessReady, NothingReady, TakeReady, StoreSnapshot, RestoreSnapshot,
       AppendEntries, PersistHardState, SendPersisted, ApplyEntry, ReadyDone, worldVars
  <1>7. CASE Storage \/ Start \/ Shutdown \/ Crash \/ UNCHANGED vars
    BY <1>7 DEF Storage, Start, InitializeConf, NewRaftNode, Shutdown, Crash, vars, worldVars
  <1> QED BY <1>3, <1>4, <1>5, <1>6, <1>7 DEF Next

\* What is left to apply is a sequence.
LEMMA RestIsSeq ==
    ASSUME Inv
    PROVE  since \in Nat /\ Len(Rest) \in Nat /\ Rest \in Seq(Contents(Rest))
  <1>1. since \in Nat /\ Batch(batch) /\ Batch(rd.committed)
    BY DEF Inv, Shape, CoreShape, ReadyShape
  <1>2. Rest \in Seq(Contents(Rest))
    BY <1>1 DEF Rest, Batch
  <1> QED BY <1>1, <1>2

\* More is chosen, and nothing else that the map depends on changes.
LEMMA MapStays ==
    ASSUME Inv, Replayed, Chosen(chosen, chosen'), DOMAIN chosen' \subseteq Nat \ {0},
           Rest' = Rest, since' = since, kv' = kv,
           pc' \notin Applying => batch' = << >>, pc' \in Outside => since = 0
    PROVE  Replayed'
  <1> DEFINE n == since - Len(Rest)
  <1>1. since \in Nat /\ Len(Rest) \in Nat /\ Len(Rest) <= since
    BY RestIsSeq DEF Replayed, Follows
  <1>2. n \in Nat /\ 1..n \subseteq 1..since /\ n' = n
    BY <1>1
  <1> HIDE DEF n
  <1>3. UpTo(chosen', n) = UpTo(chosen, n)
    BY <1>2, UpToStays DEF Replayed
  <1>4. 1..since \subseteq DOMAIN chosen'
    BY DEF Replayed, Chosen
  <1>5. \A k \in Keys : kv[k] = LastPut(UpTo(chosen', since - Len(Rest)), k)
    BY <1>3 DEF Replayed, n
  <1> QED BY <1>4, <1>5 DEF Replayed, Follows

\* The core hands out what comes next.
LEMMA MapHandsOut ==
    ASSUME Inv, LogInv, Plain, Replayed, ~busy, Rest = << >>, NEW last \in Nat, NEW q,
           q = NextEntries(last, view, since), \A k \in DOMAIN q : q[k].index \in DOMAIN chosen',
           Chosen(chosen, chosen'), DOMAIN chosen' \subseteq Nat \ {0},
           Rest' = q, since' = LastOf(q, since), kv' = kv,
           pc' \notin Applying => batch' = << >>, pc' \notin Outside
    PROVE  Replayed'
  <1>1. since \in Nat
    BY RestIsSeq
  <1>2. first_index(view) = 1
    <2>1. Bounded(view) /\ view \in Stores
      BY IdleStore
    <2>2. Full(view.entries, Base(view)) /\ Base(view) = 0
      BY <2>1 DEF LogInv, StoresKeep, StoreKeeps, Plain, PlainStore
    <2> QED BY <2>1, <2>2, FirstIsOne
  <1>3. /\ Len(q) \in Nat /\ DOMAIN q = 1..Len(q)
        /\ \A k \in DOMAIN q : q[k].index = since + k
        /\ since' = since + Len(q)
    <2>1. /\ Len(q) \in Nat /\ DOMAIN q = 1..Len(q)
          /\ \A k \in DOMAIN q : q[k].index = since + k
          /\ LastOf(q, since) = since + Len(q)
      BY <1>1, <1>2, HandedOutFollows
    <2> QED BY <2>1
  <1>4. Follows(q, since')
    BY <1>1, <1>3 DEF Follows
  <1>5. 1..since' \subseteq DOMAIN chosen'
    <2>1. ASSUME NEW i \in 1..since' PROVE i \in DOMAIN chosen'
      <3>1. CASE i <= since
        <4>1. i \in 1..since
          BY <1>1, <1>3, <3>1
        <4> QED BY <4>1 DEF Replayed, Chosen
      <3>2. CASE i > since
        <4>1. i - since \in DOMAIN q /\ since + (i - since) = i
          BY <1>1, <1>3, <3>2
        <4> QED BY <1>3, <4>1
      <3> QED BY <1>1, <1>3, <3>1, <3>2
    <2> QED BY <2>1
  <1>6. UpTo(chosen', since) = UpTo(chosen, since)
    BY <1>1, UpToStays DEF Replayed
  <1>7. since - Len(Rest) = since /\ since' - Len(Rest') = since
    BY <1>1, <1>3
  <1>8. \A k \in Keys : kv'[k] = LastPut(UpTo(chosen', since' - Len(Rest')), k)
    BY <1>6, <1>7 DEF Replayed
  <1> QED BY <1>4, <1>5, <1>8 DEF Replayed

\* One entry more is applied.
LEMMA MapApplies == ASSUME Inv, LogInv, Replayed, ApplyEntry PROVE Replayed'
  <1> DEFINE n == since - Len(batch)
             e == batch[1].entry
             cmd == e.payload
  <1>1. /\ pc \in Applying /\ pc' = pc /\ batch # << >> /\ batch' = Tail(batch)
        /\ since' = since /\ chosen' = chosen
        /\ kv' = IF cmd = Empty THEN kv ELSE [kv EXCEPT ![cmd.key] = cmd.id]
    BY DEF ApplyEntry, coreVars, Applying
  <1>2. Rest = batch /\ Rest' = Tail(batch)
    BY <1>1 DEF Rest, Applying, Carrying
  <1>3. /\ since \in Nat /\ Len(batch) \in Nat /\ Len(batch) > 0 /\ 1 \in DOMAIN batch
        /\ Len(Tail(batch)) = Len(batch) - 1 /\ DOMAIN batch = 1..Len(batch)
        /\ DOMAIN Tail(batch) = 1..(Len(batch) - 1)
        /\ \A k \in DOMAIN Tail(batch) : k + 1 \in DOMAIN batch /\ Tail(batch)[k] = batch[k + 1]
    <2>1. since \in Nat /\ batch \in Seq(Contents(batch))
      BY <1>2, RestIsSeq
    <2> QED BY <1>1, <2>1
  <1>4. /\ Len(batch) <= since
        /\ \A k \in DOMAIN batch : batch[k].index \in Nat /\ batch[k].index + Len(batch) = since + k
    BY <1>2 DEF Replayed, Follows, Inv, Shape, ReadyShape, Batch
  <1>5. n \in Nat /\ batch[1].index = n + 1 /\ n + 1 <= since
    BY <1>3, <1>4
  <1>6. /\ Follows(Tail(batch), since) /\ since - Len(Tail(batch)) = n + 1
    <2>1. ASSUME NEW k \in DOMAIN Tail(batch)
          PROVE  Tail(batch)[k].index + Len(Tail(batch)) = since + k
      <3>1. /\ k \in Nat /\ Tail(batch)[k].index = batch[k + 1].index
            /\ batch[k + 1].index \in Nat
            /\ batch[k + 1].index + Len(batch) = since + (k + 1)
        BY <1>3, <1>4, <2>1
      <3> QED BY <1>3, <3>1
    <2> DEFINE l == Len(batch)
               r == Len(Tail(batch))
    <2>2. r <= since /\ since - r = n + 1
      <3>1. since \in Nat /\ l \in Nat /\ r = l - 1 /\ l <= since /\ n = since - l
        BY <1>3, <1>4
      <3> HIDE DEF l, r, n
      <3> QED BY <3>1
    <2> QED BY <2>1, <2>2 DEF Follows
  <1>7. e \in Entry /\ chosen[n + 1].entry = e
    BY <1>3, <1>5 DEF LogInv, Delivered, IsChosen
  <1>8. cmd # Empty => cmd \in Command
    BY <1>7, LoopConstants DEF Entry
  <1> HIDE DEF n, e
  <1>9. ASSUME NEW k \in Keys PROVE kv'[k] = LastPut(UpTo(chosen, n + 1), k)
    <2>1. kv[k] = LastPut(UpTo(chosen, n), k)
      BY <1>2 DEF Replayed, n
    <2>2. 1..(n + 1) \subseteq DOMAIN chosen
      BY <1>3, <1>5 DEF Replayed
    <2>3. LastPut(UpTo(chosen, n + 1), k) =
              IF cmd # Empty /\ cmd.key = k THEN cmd.id ELSE LastPut(UpTo(chosen, n), k)
      <3>1. DOMAIN chosen \subseteq Nat \ {0} /\ cmd = chosen[n + 1].entry.payload
        BY <1>7 DEF Replayed
      <3> HIDE DEF cmd
      <3>2. n \in Nat
        BY <1>5
      <3> QED BY <2>2, <3>1, <3>2, LastPutNext
    <2>4. kv'[k] = IF cmd # Empty /\ cmd.key = k THEN cmd.id ELSE kv[k]
      BY <1>1 DEF Replayed
    <2> QED BY <2>1, <2>3, <2>4
  <1>10. kv' \in [Keys -> Ids \cup OtherIds \cup {NoValue}]
    BY <1>1, <1>8 DEF Replayed, Command
  <1>11. pc' \notin Outside
    BY <1>1 DEF Applying, Outside
  <1> QED BY <1>1, <1>2, <1>6, <1>9, <1>10, <1>11 DEF Replayed

\* A process that has lost its memory starts with an empty map.
LEMMA MapIsFresh ==
    ASSUME DOMAIN chosen' \subseteq Nat \ {0}, FreshMemory, pc' \in Outside
    PROVE  Replayed'
  <1>1. batch' = << >> /\ kv' = EmptyKv /\ since' = 0
    BY DEF FreshMemory
  <1>2. Rest' = << >> /\ Len(Rest') = 0 /\ DOMAIN Rest' = {}
    BY <1>1 DEF Rest, Carrying, Outside
  <1>3. DOMAIN UpTo(chosen', 0) = {}
    BY DEF UpTo
  <1>4. \A k \in Keys : LastPut(UpTo(chosen', 0), k) = NoValue
    BY <1>3 DEF LastPut
  <1>5. since' - Len(Rest') = 0
    <2>1. 0 - 0 = 0
      OBVIOUS
    <2> QED BY <1>1, <1>2, <2>1, Zenon
  <1> QED BY <1>1, <1>2, <1>4, <1>5 DEF Replayed, Follows, EmptyKv

\* The map after each step.
LEMMA MapIsKept ==
    ASSUME Inv, LogInv, MapInv, [Next]_vars, Inv', LogInv'
    PROVE  Replayed'
  <1>1. /\ DOMAIN chosen' \subseteq Nat \ {0} /\ Chosen(chosen, chosen')
        /\ Plain /\ Replayed /\ ~Snapshots
    BY ChosenIsPositive, ChosenGrows DEF MapInv, Replayed
  <1>2. pc \notin {"snapshot", "restore"} /\ since \in Nat
    BY <1>1, NoSnapshotStored, RestIsSeq
  <1>3. ASSUME Rest' = Rest, since' = since, kv' = kv, pc' \notin Applying => batch' = << >>,
               pc' \in Outside => since = 0
        PROVE  Replayed'
    BY <1>1, <1>3, MapStays
  <1>4. CASE Before
    <2>1. /\ UNCHANGED <<rd, batch>> /\ pc \in Inputs /\ pc' \in {"tick", "ready"}
      BY <1>4, InputFacts
    <2>2. since' = since /\ kv' = kv
      <3>1. CASE HandleCommand \/ InputNothing \/ Tick
        BY <3>1 DEF HandleCommand, RpcPut, UserPut, UserCampaign, InputNothing, Tick, coreVars
      <3>2. CASE HandleRaftMessage
        <4>1. \A t, p, es, c : StepAppend(t, p, es, c) => since' = since /\ kv' = kv
          BY DEF StepAppend
        <4>2. \A t, c :
                StepHeartbeat(t, c) \/ StepVoteRequest(t, c) \/ StepHigherTerm(t)
                    \/ StepAppendResponse(c) => since' = since /\ kv' = kv
          BY DEF StepHeartbeat, StepVoteRequest, StepHigherTerm, StepAppendResponse
        <4>3. StepPreVotesWon \/ StepVotesWon => since' = since /\ kv' = kv
          BY DEF StepPreVotesWon, StepVotesWon
        <4> QED BY <1>1, <3>2, <4>1, <4>2, <4>3 DEF HandleRaftMessage
      <3> QED BY <1>4, <3>1, <3>2 DEF Before
    <2>3. Rest' = Rest /\ batch = << >> /\ pc' \notin Outside
      BY <1>1, <2>1 DEF Rest, Inputs, Carrying, Applying, Replayed, Outside
    <2> QED BY <1>3, <2>1, <2>2, <2>3
  <1>5. CASE NothingReady \/ ReadyDone
    <2>1. /\ pc \in {"ready", "light"} /\ pc' = "input" /\ batch' = batch /\ batch = << >>
          /\ since' = since /\ kv' = kv
      BY <1>1, <1>5 DEF NothingReady, ReadyDone, coreVars, Replayed, Applying
    <2>2. Rest' = Rest /\ pc' \notin Outside
      BY <2>1 DEF Rest, Carrying, Outside
    <2> QED BY <1>3, <2>1, <2>2
  <1>6. CASE TakeReady
    <2> DEFINE last == Committable
               q == NextEntries(last, view, since)
    <2>1. usnap = NoSnapshot /\ ~busy
      BY <1>1, <1>6 DEF Plain, TakeReady, LogInv, Placed, Inputs
    <2>2. /\ pc = "ready" /\ pc' = Stage("snapshot", rd') /\ rd'.snap = NoSnapshot
          /\ rd'.committed = q /\ since' = LastOf(q, since)
          /\ kv' = kv /\ batch' = batch /\ batch = << >>
      BY <1>1, <1>6, <2>1 DEF TakeReady, Undelivered, Replayed, Applying
    <2>3. last \in Nat
      BY DEF Committable, Lesser, Inv, Shape, CoreShape, HardState
    <2> HIDE DEF last, q
    <2>4. pc' \in Carrying
      BY <2>2 DEF Stage, Carrying
    <2>5. Rest' = q /\ Rest = << >> /\ pc' \notin Outside
      BY <2>2, <2>4 DEF Rest, Carrying, Outside
    <2>6. \A k \in DOMAIN q : q[k].index \in DOMAIN chosen'
      <3>1. pc' \in Storing \cup {"persisted"}
        BY <2>4 DEF Carrying, Storing
      <3>2. IsChosen(rd.committed)'
        BY <3>1 DEF LogInv, Delivered
      <3> QED BY <2>2, <3>2 DEF IsChosen
    <2> QED BY <1>1, <2>1, <2>2, <2>3, <2>5, <2>6, MapHandsOut DEF q
  <1>7. CASE AppendEntries \/ PersistHardState
    <2>1. /\ pc \in Carrying /\ pc' \in Carrying /\ rd' = rd /\ batch' = batch
          /\ since' = since /\ kv' = kv
      BY <1>7 DEF AppendEntries, PersistHardState, Stage, Carrying, coreVars
    <2>2. Rest' = Rest /\ batch = << >> /\ pc' \notin Outside
      BY <1>1, <2>1 DEF Rest, Carrying, Applying, Outside, Replayed
    <2> QED BY <1>3, <2>1, <2>2
  <1>8. CASE SendPersisted
    <2>1. /\ pc = "persisted" /\ pc' = "apply" /\ batch' = rd.committed
          /\ since' = since /\ kv' = kv
      BY <1>8 DEF SendPersisted, coreVars
    <2>2. Rest' = Rest /\ pc' \in Applying /\ pc' \notin Outside
      BY <2>1 DEF Rest, Carrying, Applying, Outside
    <2> QED BY <1>3, <2>1, <2>2
  <1>9. CASE ApplyEntry
    BY <1>1, <1>9, MapApplies
  <1>10. CASE Advance
    <2>1. PICK last : /\ batch' = NextEntries(last, view, since)
                      /\ since' = LastOf(batch', since)
                      /\ last \in Nat
      <3> DEFINE stored == IF rd.ents # << >> THEN rd.base + Len(rd.ents)
                           ELSE IF rd.snap # NoSnapshot THEN rd.snap.index ELSE 0
                 top == Greater(persisted, stored)
                 commit == IF role = "Leader" /\ Peers = {} /\ term(view, top) = hs.term
                           THEN Greater(hs.commit, top) ELSE hs.commit
                 last == Lesser(commit, top)
      <3>1. batch' = NextEntries(last, view, since) /\ since' = LastOf(batch', since)
        BY <1>10 DEF Advance
      <3>2. stored \in Nat
        BY DEF Inv, Shape, ReadyShape, Snapshot
      <3>3. hs.commit \in Nat /\ persisted \in Nat
        BY DEF Inv, Shape, CoreShape, HardState
      <3> HIDE DEF stored
      <3>4. last \in Nat
        BY <3>2, <3>3 DEF Greater, Lesser
      <3> QED BY <3>1, <3>4
    <2>2. /\ pc = "apply" /\ pc' = "light" /\ ~busy /\ batch = << >> /\ kv' = kv
      BY <1>10 DEF Advance
    <2>3. Rest = << >> /\ Rest' = batch' /\ pc' \in Applying /\ pc' \notin Outside
      BY <2>2 DEF Rest, Carrying, Applying, Outside
    <2>4. \A k \in DOMAIN batch' : batch'[k].index \in DOMAIN chosen'
      BY DEF LogInv, Delivered, IsChosen
    <2> QED BY <1>1, <2>1, <2>2, <2>3, <2>4, MapHandsOut
  <1>11. CASE StoreSnapshot \/ RestoreSnapshot
    BY <1>2, <1>11 DEF StoreSnapshot, RestoreSnapshot
  <1>12. CASE Storage \/ UNCHANGED vars
    <2>1. UNCHANGED <<pc, rd, batch, kv, since>>
      BY <1>12 DEF Storage, vars, loopVars, coreVars
    <2>2. Rest' = Rest
      BY <2>1 DEF Rest
    <2> QED BY <1>1, <1>3, <2>1, <2>2 DEF Replayed
  <1>13. CASE Start
    <2>1. pc \in Outside /\ pc' \notin Applying /\ pc' \notin Carrying /\ pc \notin Carrying
      BY <1>13 DEF Start, InitializeConf, NewRaftNode, Outside, Applying, Carrying
    <2>2. UNCHANGED <<batch, kv, since>> /\ batch = << >> /\ since = 0
      BY <1>1, <1>13, <2>1 DEF Start, InitializeConf, NewRaftNode, coreVars, Replayed,
         Outside, Applying
    <2>3. Rest' = Rest
      BY <2>1, <2>2 DEF Rest
    <2> QED BY <1>3, <2>2, <2>3
  <1>14. CASE Shutdown \/ Crash
    <2>1. FreshMemory /\ pc' \in Outside
      BY <1>14 DEF Shutdown, Crash, Outside
    <2> QED BY <1>1, <2>1, MapIsFresh
  <1> QED BY <1>4, <1>5, <1>6, <1>7, <1>8, <1>9, <1>10, <1>11, <1>12, <1>13, <1>14
      DEF Next, Before, ProcessReady

----------------------------------------------------------------------------
(* The theorems.                                                           *)

\* A new server has an empty store and an empty map.
LEMMA MapInvInitially == ASSUME Init, ~Snapshots PROVE MapInv
  <1>1. Stores = {EmptyStore} /\ usnap = NoSnapshot
    BY DEF Init, StorageInit, Stores, Contents
  <1>2. Plain
    BY <1>1 DEF Plain, PlainStore, Base, HasSnapshot, EmptyStore, NoHardState
  <1>3. Rest = << >> /\ since = 0 /\ chosen = << >> /\ kv = EmptyKv /\ batch = << >>
    BY DEF Init, Rest, Carrying
  <1>4. DOMAIN UpTo(chosen, 0) = {} /\ DOMAIN chosen = {} /\ Len(Rest) = 0 /\ DOMAIN Rest = {}
    BY <1>3 DEF UpTo
  <1>5. \A k \in Keys : LastPut(UpTo(chosen, 0), k) = NoValue
    BY <1>4 DEF LastPut
  <1>6. since - Len(Rest) = 0
    <2>1. 0 - 0 = 0
      OBVIOUS
    <2> QED BY <1>3, <1>4, <2>1, Zenon
  <1>7. Replayed
    BY <1>3, <1>4, <1>5, <1>6 DEF Replayed, Follows, EmptyKv
  <1> QED BY <1>2, <1>7 DEF MapInv

\* Every step keeps the three invariants.
LEMMA AllAreInductive ==
    ASSUME Inv, LogInv, MapInv, [Next]_vars PROVE Inv' /\ LogInv' /\ MapInv'
  <1>1. Inv' /\ LogInv'
    BY InvIsInductive, LogInvIsInductive
  <1>2. Plain' /\ Replayed'
    BY <1>1, PlainStays, MapIsKept DEF MapInv
  <1> QED BY <1>1, <1>2 DEF MapInv

\* A server can be started from what is on disk at any instant: its hard
\* state is stored after the entries it speaks of, and append removes nothing.
THEOREM AlwaysRestartable == ~Snapshots /\ Spec => []Restartable
  <1>1. ~Snapshots /\ Init => Inv /\ LogInv /\ MapInv
    BY InvInitially, LogInvInitially, MapInvInitially
  <1>2. (Inv /\ LogInv /\ MapInv) /\ [Next]_vars => (Inv /\ LogInv /\ MapInv)'
    BY AllAreInductive
  <1>3. Inv /\ LogInv /\ MapInv => Restartable
    <2> SUFFICES ASSUME Inv, LogInv, MapInv PROVE Restartable
      OBVIOUS
    <2>1. disk \in Stores /\ Bounded(disk)
      BY DEF Stores, Inv, Shape, StoreShape
    <2>2. Full(disk.entries, Base(disk)) /\ PlainStore(disk)
      BY <2>1 DEF LogInv, StoresKeep, StoreKeeps, MapInv, Plain
    <2>3. first_index(disk) = 1
      BY <2>1, <2>2, FirstIsOne DEF PlainStore
    <2>4. /\ last_index(disk) \in Nat /\ \A i \in DOMAIN disk.entries : i <= last_index(disk)
      BY <2>1, LastIsThere
    <2>5. disk.hs.commit \in Nat
      BY <2>1 DEF Bounded, IsStore, HardState
    <2> QED BY <2>2, <2>3, <2>4, <2>5 DEF PlainStore, Restartable, Loadable
  <1> QED BY <1>1, <1>2, <1>3, PTL DEF Spec

\* Whatever the batches, the LightReadies, the elections and the restarts, the
\* map is the chosen log up to the last applied entry: each committed entry is
\* handed out once and in order, and a restart begins again with both the
\* empty map and the first entry.
THEOREM MapIsReplay == ~Snapshots /\ Spec => []KvIsReplay
  <1>1. ~Snapshots /\ Init => Inv /\ LogInv /\ MapInv
    BY InvInitially, LogInvInitially, MapInvInitially
  <1>2. (Inv /\ LogInv /\ MapInv) /\ [Next]_vars => (Inv /\ LogInv /\ MapInv)'
    BY AllAreInductive
  <1>3. Inv /\ LogInv /\ MapInv => KvIsReplay
    <2> SUFFICES ASSUME Inv, LogInv, MapInv, Running PROVE KvIsReplay
      BY DEF KvIsReplay
    <2> DEFINE n == since - Len(Rest)
    <2>1. /\ since \in Nat /\ Len(Rest) \in Nat /\ Rest \in Seq(Contents(Rest))
          /\ Replayed /\ Plain /\ pc \notin {"snapshot", "restore"}
      BY RestIsSeq, NoSnapshotStored DEF MapInv
    <2>2. n \in Nat /\ n <= since
      BY <2>1 DEF Replayed, Follows
    <2>3. Rest # << >> => Rest[1].index - 1 = n
      <3>1. Rest # << >> => 1 \in DOMAIN Rest
        BY <2>1
      <3>2. ASSUME 1 \in DOMAIN Rest PROVE Rest[1].index - 1 = n
        <4>1. Rest[1].index + Len(Rest) = since + 1
          BY <2>1, <3>2 DEF Replayed, Follows
        <4>2. Rest[1].index \in Nat
          BY <3>2 DEF Rest, Inv, Shape, ReadyShape, Batch
        <4> QED BY <2>1, <4>1, <4>2
      <3> QED BY <3>1, <3>2
    <2>4. Rest = << >> => n = since
      BY <2>1
    <2> HIDE DEF n
    <2>5. AppliedUpTo = n
      BY <2>1, <2>3, <2>4 DEF AppliedUpTo, Rest, Carrying, Applying, Replayed
    <2>6. 1..n \subseteq DOMAIN chosen
      BY <2>1, <2>2 DEF Replayed
    <2>7. \A k \in Keys : kv[k] = LastPut(ChosenUpTo(n), k)
      BY <2>1 DEF Replayed, UpTo, ChosenUpTo, n
    <2> QED BY <2>5, <2>6, <2>7 DEF KvIsReplay
  <1> QED BY <1>1, <1>2, <1>3, PTL DEF Spec

----------------------------------------------------------------------------
(* Types.                                                                  *)

\* What has a type besides what Inv and LogInv speak of.
Typed ==
    /\ applied_index \in Nat
    /\ kv \in [Keys -> Ids \cup OtherIds \cup {NoValue}]
    /\ callbacks \subseteq Ids
    /\ role \in Roles
    /\ msgs \subseteq Promise /\ sent \subseteq Promise
    /\ rd.msgs \subseteq Promise /\ rd.persisted_msgs \subseteq Promise
    /\ answers \in [Ids -> Replies]
    /\ \A t \in 0..MaxTerm : LogFn(ldrLog[t])
    /\ won \subseteq 1..MaxTerm /\ crashes \in 0..MaxCrashes

\* A log with another written over it.
LEMMA ExtendIsLog ==
    ASSUME NEW f, NEW g, LogFn(f), LogFn(g) PROVE LogFn(Extend(f, g))
  <1>1. DOMAIN Extend(f, g) = DOMAIN f \cup DOMAIN g
    BY DEF Extend
  <1>2. \A i \in DOMAIN f \cup DOMAIN g :
            Extend(f, g)[i] = IF i \in DOMAIN g THEN g[i] ELSE f[i]
    BY DEF Extend
  <1>3. \A i \in DOMAIN Extend(f, g) : Extend(f, g)[i] \in Entry
    BY <1>1, <1>2 DEF LogFn
  <1>4. Extend(f, g) \in [DOMAIN Extend(f, g) -> Entry]
    <2>1. Extend(f, g) = [i \in DOMAIN Extend(f, g) |-> Extend(f, g)[i]]
      BY DEF Extend
    <2> QED BY <1>3, <2>1
  <1> QED BY <1>1, <1>4 DEF LogFn

\* A single entry is a log.
LEMMA EntryIsLog ==
    ASSUME NEW i \in Nat, NEW e \in Entry PROVE LogFn([j \in {i} |-> e])
  BY DEF LogFn

\* So is the core's own, up to any index.
LEMMA CoreIsLog == ASSUME Shape, NEW n PROVE LogFn(CoreEntries(n))
  <1> DEFINE fresh == offset..(offset + Len(unstable) - 1)
             f == CoreEntries(n)
  <1>1. f = [i \in (fresh \cup DOMAIN view.entries) \cap 1..n |->
                IF i \in fresh THEN unstable[i - offset + 1] ELSE view.entries[i]]
    BY DEF CoreEntries
  <1>2. /\ unstable \in Seq(Entry) /\ offset \in Nat /\ offset > 0
        /\ view.entries \in [DOMAIN view.entries -> Entry] /\ DOMAIN view.entries \subseteq Nat
    BY DEF Shape, CoreShape, StoreShape, Bounded, IsStore
  <1>3. ASSUME NEW i \in fresh PROVE unstable[i - offset + 1] \in Entry /\ i \in Nat
    <2>1. i - offset + 1 \in 1..Len(unstable) /\ i \in Nat
      BY <1>2
    <2> QED BY <1>2, <2>1
  <1> HIDE DEF fresh
  <1>4. \A i \in (fresh \cup DOMAIN view.entries) \cap 1..n :
            /\ (IF i \in fresh THEN unstable[i - offset + 1] ELSE view.entries[i]) \in Entry
            /\ i \in Nat
    BY <1>2, <1>3
  <1> HIDE DEF f
  <1> QED BY <1>1, <1>4 DEF LogFn, f

\* What a leader teaches is a log.
LEMMA TeachTyped ==
    ASSUME LogInv, Typed, NEW t, NEW f, Teach(t, f), LogFn(f)
    PROVE  \A u \in 0..MaxTerm : LogFn(ldrLog'[u])
  <1>1. ldrLog' = [ldrLog EXCEPT ![t] = Extend(ldrLog[t], f)] /\ DOMAIN ldrLog = 0..MaxTerm
    BY DEF Teach, LogInv, CoreKeeps
  <1>2. ASSUME NEW u \in 0..MaxTerm PROVE LogFn(ldrLog'[u])
    <2>1. CASE u = t
      <3>1. ldrLog'[u] = Extend(ldrLog[u], f)
        BY <1>1, <2>1
      <3> QED BY <3>1, ExtendIsLog DEF Typed
    <2>2. CASE u # t
      BY <1>1, <2>2 DEF Typed
    <2> QED BY <2>1, <2>2
  <1> QED BY <1>2

\* Messages of a leader, votes and acknowledgements.
LEMMA PromiseTyped ==
    ASSUME NEW t \in Nat, NEW i \in Nat
    PROVE  Leads(t) \in Promise /\ VoteFor(t, i) \in Promise /\ Ack(t, i) \in Promise
  BY LoopConstants DEF Leads, VoteFor, Ack, Promise

\* What the messages to this server may be about.
LEMMA InputTypes ==
    ASSUME Inv, LogInv
    PROVE  /\ Shape /\ CoreLast \in Nat /\ hs.term \in 0..MaxTerm /\ hs.term \in Nat
           /\ hs.commit \in Nat /\ MaxTerm \in Nat /\ MaxIndex \in Nat /\ Peers \subseteq Nat
           /\ role \in {"Candidate", "Leader"} => hs.term \in 1..MaxTerm
  <1>1. Shape /\ CoreLast \in 0..MaxIndex
    BY CoreLastIsBounded DEF Inv
  <1> QED BY <1>1, LoopConstants DEF LogInv, CoreKeeps, Leading, Shape, CoreShape, HardState

\* A proposal.
LEMMA ProposeTyped ==
    ASSUME Inv, LogInv, Typed, NEW cmd \in Payload, Propose(cmd)
    PROVE  msgs' \subseteq Promise /\ \A t \in 0..MaxTerm : LogFn(ldrLog'[t])
  <1> DEFINE e == [term |-> hs.term, payload |-> cmd]
             i == CoreLast + 1
  <1>1. e \in Entry /\ i \in Nat /\ hs.term \in Nat
    BY InputTypes DEF Entry
  <1>2. Teach(hs.term, [j \in {i} |-> e]) /\ msgs' \subseteq msgs \cup {Leads(hs.term)}
    BY DEF Propose
  <1> HIDE DEF e, i
  <1>3. LogFn([j \in {i} |-> e])
    BY <1>1, EntryIsLog
  <1>4. Leads(hs.term) \in Promise
    BY <1>1, PromiseTyped
  <1> QED BY <1>2, <1>3, <1>4, TeachTyped DEF Typed

\* The first entry of a leader, after its log.
LEMMA ElectedTyped ==
    ASSUME Inv, LogInv, Typed, NEW t \in Nat,
           Teach(t, Extend(CoreEntries(CoreLast),
                           [j \in {CoreLast + 1} |-> [term |-> t, payload |-> Empty]]))
    PROVE  \A u \in 0..MaxTerm : LogFn(ldrLog'[u])
  <1> DEFINE e == [term |-> t, payload |-> Empty]
             g == [j \in {CoreLast + 1} |-> e]
  <1>1. e \in Entry /\ CoreLast + 1 \in Nat
    BY InputTypes, LoopConstants DEF Entry
  <1> HIDE DEF e
  <1>2. LogFn(g)
    BY <1>1, EntryIsLog
  <1> HIDE DEF g
  <1>3. LogFn(Extend(CoreEntries(CoreLast), g))
    BY <1>2, CoreIsLog, ExtendIsLog DEF Inv
  <1> QED BY <1>3, TeachTyped DEF g, e

\* A campaign.
LEMMA HupTyped ==
    ASSUME Inv, LogInv, Typed, Hup
    PROVE  /\ role' \in Roles /\ won' \subseteq 1..MaxTerm
           /\ \A t \in 0..MaxTerm : LogFn(ldrLog'[t])
  <1>1. CASE UNCHANGED <<role, won, ldrLog>>
    BY <1>1 DEF Typed
  <1>2. CASE role' = "PreCandidate" /\ UNCHANGED <<won, ldrLog>>
    BY <1>2 DEF Typed, Roles
  <1> DEFINE t == hs.term + 1
  <1>3. CASE /\ ~(hs.term >= MaxTerm) /\ role' = "Leader" /\ won' = won \cup {t}
             /\ Teach(t, Extend(CoreEntries(CoreLast),
                                [j \in {CoreLast + 1} |-> [term |-> t, payload |-> Empty]]))
    <2>1. t \in Nat /\ t \in 1..MaxTerm
      BY <1>3, InputTypes
    <2> HIDE DEF t
    <2>2. \A u \in 0..MaxTerm : LogFn(ldrLog'[u])
      BY <1>3, <2>1, ElectedTyped
    <2> QED BY <1>3, <2>1, <2>2 DEF Typed, Roles
  <1> QED BY <1>1, <1>2, <1>3 DEF Hup

\* What an input and a tick may type anew.
InputTyped ==
    /\ role' \in Roles /\ msgs' \subseteq Promise /\ won' \subseteq 1..MaxTerm
    /\ callbacks' \subseteq Ids
    /\ \A t \in 0..MaxTerm : LogFn(ldrLog'[t])

\* Every message.
LEMMA MessageTyped == ASSUME Inv, LogInv, Typed, HandleRaftMessage PROVE InputTyped
  <1>1. /\ hs.term \in Nat /\ hs.commit \in Nat /\ CoreLast \in Nat /\ MaxTerm \in Nat
        /\ Peers \subseteq Nat /\ hs.term \in 0..MaxTerm /\ MaxIndex \in Nat /\ Self \in Nat
        /\ role \in {"Candidate", "Leader"} => hs.term \in 1..MaxTerm
    BY InputTypes, LoopConstants
  <1>2. ASSUME UNCHANGED <<won, callbacks, ldrLog>>, role' \in {role} \cup Roles,
               msgs' \subseteq msgs \cup Promise
        PROVE  InputTyped
    BY <1>2 DEF Typed, InputTyped
  <1>3. ASSUME UNCHANGED <<won, callbacks>>, role' = "Follower", msgs' \subseteq msgs \cup Promise,
               NEW t, NEW f, LogFn(f), Teach(t, f)
        PROVE  InputTyped
    <2>1. \A u \in 0..MaxTerm : LogFn(ldrLog'[u])
      BY <1>3, TeachTyped
    <2> QED BY <1>3, <2>1 DEF Typed, InputTyped, Roles
  <1>4. ASSUME StepPreVotesWon PROVE InputTyped
    <2>1. VoteFor(hs.term + 1, Self) \in Promise
      BY <1>1, PromiseTyped
    <2> QED BY <1>2, <1>4, <2>1 DEF StepPreVotesWon, worldVars, Roles
  <1>5. ASSUME StepVotesWon PROVE InputTyped
    <2>1. /\ role = "Candidate" /\ role' = "Leader" /\ callbacks' = callbacks
          /\ won' = won \cup {hs.term} /\ msgs' = msgs \cup {Leads(hs.term)}
          /\ Teach(hs.term, Extend(CoreEntries(CoreLast),
                   [j \in {CoreLast + 1} |-> [term |-> hs.term, payload |-> Empty]]))
      BY <1>5 DEF StepVotesWon
    <2>2. Leads(hs.term) \in Promise
      BY <1>1, PromiseTyped
    <2>3. \A u \in 0..MaxTerm : LogFn(ldrLog'[u])
      BY <1>1, <2>1, ElectedTyped
    <2> QED BY <1>1, <2>1, <2>2, <2>3 DEF Typed, InputTyped, Roles
  <1>6. ASSUME NEW t \in 1..MaxTerm, NEW c \in Peers, StepVoteRequest(t, c) PROVE InputTyped
    <2>1. VoteFor(t, c) \in Promise
      BY <1>1, PromiseTyped
    <2> QED BY <1>2, <1>6, <2>1 DEF StepVoteRequest, worldVars, Roles
  <1>7. ASSUME NEW t \in 1..MaxTerm, StepHigherTerm(t) PROVE InputTyped
    BY <1>2, <1>7 DEF StepHigherTerm, worldVars, Roles
  <1>8. ASSUME NEW t \in 1..MaxTerm, NEW p \in hs.commit..CoreLast, NEW es \in Appendable,
               NEW c, StepAppend(t, p, es, c)
        PROVE  InputTyped
    <2> DEFINE last == p + Len(es)
               g == [i \in (p + 1)..last |-> es[i - p]]
               f == Extend(CoreEntries(p), g)
    <2>1. /\ UNCHANGED <<won, callbacks>> /\ role' = "Follower" /\ msgs' = msgs \cup {Ack(t, last)}
          /\ Teach(t, f)
      BY <1>8 DEF StepAppend
    <2>2. p \in Nat /\ Len(es) \in Nat /\ es \in Seq(Entry)
      <3>1. p \in Nat
        BY <1>1
      <3>2. ASSUME NEW e \in [term : 1..MaxTerm, payload : Payload]
            PROVE  <<e>> \in Seq(Entry) /\ Len(<<e>>) \in Nat
        <4>1. e \in Entry
          BY DEF Entry
        <4> QED BY <4>1
      <3>3. << >> \in Seq(Entry) /\ Len(<< >>) \in Nat
        OBVIOUS
      <3>4. es \in Seq(Entry) /\ Len(es) \in Nat
        BY <3>2, <3>3 DEF Appendable
      <3> QED BY <3>1, <3>4
    <2>3. last \in Nat /\ Ack(t, last) \in Promise
      <3>1. last \in Nat
        BY <2>2
      <3> HIDE DEF last
      <3> QED BY <1>1, <3>1, PromiseTyped
    <2>4. LogFn(g)
      <3>1. ASSUME NEW i \in (p + 1)..last PROVE es[i - p] \in Entry /\ i \in Nat
        <4>1. i - p \in 1..Len(es) /\ i \in Nat
          BY <2>2
        <4> QED BY <2>2, <4>1
      <3> HIDE DEF last
      <3> QED BY <3>1 DEF LogFn
    <2> HIDE DEF g
    <2>5. LogFn(f)
      BY <2>4, CoreIsLog, ExtendIsLog DEF Inv
    <2> HIDE DEF f, last
    <2> QED BY <1>3, <2>1, <2>3, <2>5
  <1>9. ASSUME NEW t \in 1..MaxTerm, NEW c, StepHeartbeat(t, c) PROVE InputTyped
    BY <1>2, <1>9 DEF StepHeartbeat, Roles
  <1>10. ASSUME NEW t \in 1..MaxTerm, NEW n \in 1..MaxIndex,
                NEW f \in [1..n -> [term : 1..MaxTerm, payload : Payload]], StepSnapshot(t, f)
         PROVE  InputTyped
    <2>1. /\ UNCHANGED <<won, callbacks>> /\ role' = "Follower" /\ msgs' = msgs \cup {Ack(t, Len(f))}
          /\ Teach(t, f)
      BY <1>10 DEF StepSnapshot
    <2>2. f \in Seq(Entry) /\ Len(f) \in Nat /\ DOMAIN f = 1..n /\ f \in [1..n -> Entry]
      <3>1. [term : 1..MaxTerm, payload : Payload] \subseteq Entry
        BY DEF Entry
      <3>2. f \in [1..n -> Entry] /\ DOMAIN f = 1..n /\ n \in Nat
        BY <3>1
      <3>3. f \in Seq(Entry)
        BY <3>2, SeqDef
      <3>4. Len(f) \in Nat
        BY <3>3
      <3> QED BY <3>2, <3>3, <3>4
    <2>3. LogFn(f) /\ Ack(t, Len(f)) \in Promise
      BY <1>1, <2>2, PromiseTyped DEF LogFn
    <2> QED BY <1>3, <2>1, <2>3
  <1>11. ASSUME NEW c, StepAppendResponse(c) PROVE InputTyped
    <2>1. Leads(hs.term) \in Promise
      BY <1>1, PromiseTyped
    <2> QED BY <1>2, <1>11, <2>1 DEF StepAppendResponse
  <1> QED BY <1>4, <1>5, <1>6, <1>7, <1>8, <1>9, <1>10, <1>11 DEF HandleRaftMessage

\* Every command, and the tick.
LEMMA CommandTyped ==
    ASSUME Inv, LogInv, Typed, HandleCommand \/ InputNothing \/ Tick PROVE InputTyped
  <1>1. ASSUME UNCHANGED <<role, msgs, won, callbacks, ldrLog>> PROVE InputTyped
    BY <1>1 DEF Typed, InputTyped
  <1>2. ASSUME NEW key \in Keys, NEW id \in Ids, RpcPut(key, id) \/ UserPut(key, id)
        PROVE  InputTyped
    <2> DEFINE cmd == [key |-> key, id |-> id]
    <2>1. /\ role' = role /\ won' = won /\ callbacks' \subseteq callbacks \cup {id}
          /\ UNCHANGED <<ldrLog, msgs>> \/ Propose(cmd)
      BY <1>2 DEF RpcPut, UserPut
    <2>2. cmd \in Payload
      BY LoopConstants DEF Command
    <2> HIDE DEF cmd
    <2>3. CASE UNCHANGED <<ldrLog, msgs>>
      BY <2>1, <2>3 DEF Typed, InputTyped
    <2>4. CASE Propose(cmd)
      BY <2>1, <2>2, <2>4, ProposeTyped DEF Typed, InputTyped
    <2> QED BY <2>1, <2>3, <2>4
  <1>3. ASSUME Hup, UNCHANGED <<msgs, callbacks>> PROVE InputTyped
    BY <1>3, HupTyped DEF Typed, InputTyped
  <1>4. CASE HandleCommand
    BY <1>2, <1>3, <1>4 DEF HandleCommand, UserCampaign
  <1>5. CASE InputNothing
    BY <1>1, <1>5 DEF InputNothing, coreVars, worldVars
  <1>6. CASE Tick
    <2>1. CASE msgs' = msgs \cup {Leads(hs.term)} /\ UNCHANGED <<role, ldrLog, won, callbacks>>
      <3>1. Leads(hs.term) \in Promise
        BY InputTypes, PromiseTyped, LoopConstants
      <3> QED BY <2>1, <3>1 DEF Typed, InputTyped
    <2> QED BY <1>1, <1>3, <1>6, <2>1 DEF Tick
  <1> QED BY <1>4, <1>5, <1>6

\* One PUT is applied, or an entry passed over.
LEMMA ApplyTyped ==
    ASSUME Inv, LogInv, Typed, ApplyEntry
    PROVE  /\ kv' \in [Keys -> Ids \cup OtherIds \cup {NoValue}]
           /\ callbacks' \subseteq Ids /\ applied_index' \in Nat
  <1> DEFINE i == batch[1].index
             cmd == batch[1].entry.payload
  <1>1. /\ batch # << >> /\ batch \in Seq(Contents(batch))
        /\ \A k \in DOMAIN batch : batch[k].index \in Nat /\ batch[k].entry \in Entry
    BY DEF ApplyEntry, Inv, Shape, ReadyShape, Batch, LogInv, Delivered, IsChosen
  <1>2. 1 \in DOMAIN batch
    BY <1>1
  <1>3. i \in Nat /\ (cmd # Empty => cmd \in Command)
    BY <1>1, <1>2, LoopConstants DEF Entry
  <1>4. \/ UNCHANGED <<storageVars, kv, callbacks>>
        \/ /\ cmd # Empty /\ kv' = [kv EXCEPT ![cmd.key] = cmd.id]
           /\ callbacks' = callbacks \ {cmd.id} /\ applied_index' = i
    BY DEF ApplyEntry, set_applied_index
  <1> HIDE DEF i, cmd
  <1>5. CASE UNCHANGED <<storageVars, kv, callbacks>>
    BY <1>5 DEF Typed, storageVars
  <1>6. CASE /\ cmd # Empty /\ kv' = [kv EXCEPT ![cmd.key] = cmd.id]
             /\ callbacks' = callbacks \ {cmd.id} /\ applied_index' = i
    BY <1>3, <1>6 DEF Typed, Command
  <1> QED BY <1>4, <1>5, <1>6

\* A restored snapshot has a map.
LEMMA RestoreTyped ==
    ASSUME Inv, Typed, RestoreSnapshot
    PROVE  kv' \in [Keys -> Ids \cup OtherIds \cup {NoValue}] /\ applied_index' \in Nat
  <1>1. /\ rd.snap \in Snapshot /\ kv' = Decode(rd.snap.data)
        /\ applied_index' = rd.snap.index
    BY DEF RestoreSnapshot, set_applied_index, Inv, Shape, ReadyShape
  <1>2. rd.snap.index \in Nat /\ rd.snap.data \in SnapData
    BY <1>1 DEF Snapshot
  <1> QED BY <1>1, <1>2, LoopConstants DEF Decode, EmptyKv

\* Every step.
LEMMA TypedStays == ASSUME Inv, LogInv, Typed, [Next]_vars PROVE Typed'
  <1>1. answers' \in [Ids -> Replies]
    BY SuccessIsApplied DEF Typed, Answers, AnswersStep
  <1>2. CASE Before
    <2>1. UNCHANGED storageVars /\ UNCHANGED <<rd, sent>>
      BY <1>2, InputFacts
    <2>2. InputTyped
      BY <1>2, MessageTyped, CommandTyped DEF Before
    <2>3. kv' = kv /\ crashes' = crashes
      <3>1. CASE HandleCommand \/ InputNothing \/ Tick
        BY <3>1 DEF HandleCommand, RpcPut, UserPut, UserCampaign, InputNothing, Tick, worldVars
      <3>2. CASE HandleRaftMessage
        <4>1. \A t, p, es, c : StepAppend(t, p, es, c) => kv' = kv /\ crashes' = crashes
          BY DEF StepAppend
        <4>2. \A t, f : StepSnapshot(t, f) => kv' = kv /\ crashes' = crashes
          BY DEF StepSnapshot
        <4>3. \A t, c :
                StepHeartbeat(t, c) \/ StepVoteRequest(t, c) \/ StepHigherTerm(t)
                    \/ StepAppendResponse(c) => kv' = kv /\ crashes' = crashes
          BY DEF StepHeartbeat, StepVoteRequest, StepHigherTerm, StepAppendResponse, worldVars
        <4>4. StepPreVotesWon \/ StepVotesWon => kv' = kv /\ crashes' = crashes
          BY DEF StepPreVotesWon, StepVotesWon, worldVars
        <4> QED BY <3>2, <4>1, <4>2, <4>3, <4>4 DEF HandleRaftMessage
      <3> QED BY <1>2, <3>1, <3>2 DEF Before
    <2> QED BY <1>1, <2>1, <2>2, <2>3 DEF Typed, InputTyped, storageVars
  <1>3. CASE TakeReady
    <2>1. /\ rd'.msgs \subseteq msgs /\ rd'.persisted_msgs \subseteq msgs
          /\ sent' = sent \cup rd'.msgs /\ msgs' = {}
          /\ UNCHANGED <<applied_index, kv, callbacks, role, ldrLog, won, crashes>>
      BY <1>3 DEF TakeReady, storageVars
    <2> QED BY <1>1, <2>1 DEF Typed
  <1>4. CASE NothingReady
    BY <1>1, <1>4 DEF NothingReady, Typed, storageVars, coreVars, worldVars
  <1>5. CASE StoreSnapshot \/ AppendEntries \/ PersistHardState
    BY <1>1, <1>5 DEF StoreSnapshot, AppendEntries, PersistHardState, apply_snapshot, append,
       set_hardstate, Typed, coreVars, worldVars
  <1>6. CASE RestoreSnapshot
    <2>1. UNCHANGED <<rd, callbacks, coreVars, worldVars>>
      BY <1>6 DEF RestoreSnapshot
    <2> QED BY <1>1, <1>6, <2>1, RestoreTyped DEF Typed, coreVars, worldVars
  <1>7. CASE SendPersisted
    BY <1>1, <1>7 DEF SendPersisted, Typed, storageVars, coreVars
  <1>8. CASE ApplyEntry
    <2>1. UNCHANGED <<rd, coreVars, sent, ldrLog, won, crashes>>
      BY <1>8 DEF ApplyEntry
    <2> QED BY <1>1, <1>8, <2>1, ApplyTyped DEF Typed, coreVars
  <1>9. CASE Advance
    BY <1>1, <1>9 DEF Advance, Typed, storageVars
  <1>10. CASE ReadyDone
    BY <1>1, <1>10 DEF ReadyDone, NoReady, Typed, storageVars, coreVars, worldVars
  <1>11. CASE Storage
    <2>1. applied_index' = applied_index
      BY <1>11 DEF Storage, StorageStep, Write, Flush, BackgroundFlush
    <2> QED BY <1>1, <1>11, <2>1 DEF Storage, Typed, loopVars, coreVars, worldVars
  <1>12. CASE Start
    <2>1. /\ UNCHANGED <<applied_index, rd, kv, callbacks, role, msgs, sent, ldrLog, won, crashes>>
      BY <1>12 DEF Start, InitializeConf, NewRaftNode, apply_snapshot, storageVars, coreVars,
         worldVars
    <2> QED BY <1>1, <2>1 DEF Typed
  <1>13. CASE Shutdown \/ Crash
    <2>1. /\ rd' = NoReady /\ kv' = EmptyKv /\ callbacks' = {} /\ role' = "Follower" /\ msgs' = {}
          /\ UNCHANGED <<sent, ldrLog, won>>
      BY <1>13 DEF Shutdown, Crash, FreshMemory
    <2>2. applied_index' \in Nat
      BY <1>13 DEF Shutdown, Crash, Reopen, storageVars, Typed, Inv, Shape, StoreShape, Bounded,
         IsStore
    <2>3. crashes' \in 0..MaxCrashes
      BY <1>13, LoopConstants DEF Shutdown, Crash, Typed
    <2> QED BY <1>1, <2>1, <2>2, <2>3 DEF Typed, NoReady, EmptyKv, Roles
  <1>14. CASE UNCHANGED vars
    BY <1>14 DEF vars, storageVars, loopVars, coreVars, worldVars, Typed
  <1> QED BY <1>2, <1>3, <1>4, <1>5, <1>6, <1>7, <1>8, <1>9, <1>10, <1>11, <1>12, <1>13, <1>14
      DEF Next, Before, ProcessReady

\* Every variable of the loop keeps its type, snapshots or not.
THEOREM TypeCorrect == Spec => []TypeOK
  <1>1. Init => Inv /\ LogInv /\ Typed
    <2>1. ASSUME Init PROVE Typed
      <3>1. \A t \in 0..MaxTerm : ldrLog[t] = << >> /\ LogFn(ldrLog[t])
        BY <2>1 DEF Init, LogFn
      <3>2. MaxCrashes \in Nat
        BY LoopConstants
      <3> QED BY <2>1, <3>1, <3>2 DEF Init, StorageInit, Typed, NoReady, EmptyKv, Roles, Replies
    <2> QED BY <2>1, InvInitially, LogInvInitially
  <1>2. (Inv /\ LogInv /\ Typed) /\ [Next]_vars => (Inv /\ LogInv /\ Typed)'
    BY InvIsInductive, LogInvIsInductive, TypedStays
  <1>3. Inv /\ LogInv /\ Typed => TypeOK
    <2> SUFFICES ASSUME Inv, LogInv, Typed PROVE TypeOK
      OBVIOUS
    <2>1. StorageTypeOK
      BY DEF StorageTypeOK, Inv, Shape, StoreShape, Bounded, Typed
    <2>2. \A k \in DOMAIN batch : batch[k].index \in Nat /\ batch[k].entry \in Entry
      BY DEF Inv, Shape, ReadyShape, Batch, LogInv, Delivered, IsChosen
    <2>3. DOMAIN ldrLog = 0..MaxTerm
      BY DEF LogInv, CoreKeeps
    <2>4. CoreShape /\ ReadyShape
      BY DEF Inv, Shape
    <2> QED BY <2>1, <2>2, <2>3, <2>4 DEF TypeOK, Typed, CoreShape, ReadyShape
  <1> QED BY <1>1, <1>2, <1>3, PTL DEF Spec
=============================================================================
