------------------------- MODULE ClusterProofs -------------------------
(***************************************************************************)
(* The cluster keeps every committed entry and implements the replicated   *)
(* map, for any number of servers, PUTs, terms, indices and restarts: on   *)
(* the memory backend always, on the disk backend as long as no append     *)
(* leaves a stale tail behind (TailFree; when one does neither holds, as   *)
(* run cluster_disk shows).                                                *)
(*                                                                         *)
(* The invariants speak of the cluster's logs as one value, G, and of its  *)
(* terms, votes and commit indices as C, V and K, so that what a step does *)
(* to them can be said of any logs: one server's log has grown by an entry *)
(* (Grown), or has become the beginning of another's (Copied).             *)
(***************************************************************************)
EXTENDS Cluster, TLAPS, FiniteSetTheorems, SequenceTheorems

Logs == [s \in Server |-> store[s].entries]
Terms == [s \in Server |-> store[s].hs.term]
Votes == [s \in Server |-> store[s].hs.vote]
Commits == [s \in Server |-> store[s].hs.commit]

\* What each server's map is when its loop has caught up.
Decided == [s \in Server |-> Applied(store[s])]

\* An entry that a step replaces is the last one afterwards.
LeavesNoTail ==
    \A s \in Server : \A i \in DOMAIN store[s].entries \cap DOMAIN store'[s].entries :
        store'[s].entries[i] # store[s].entries[i] => last_index(store'[s]) = i

\* What the memory backend's append guarantees, and the disk backend's does
\* not (disk_storage.rs removes nothing behind the entries it writes).
TailFree == backend = "disk" => LeavesNoTail

----------------------------------------------------------------------------
(* Logs                                                                    *)

IsLogs(G) == G \in [Server -> Seq(Entry)]

\* s holds an entry of term t at index n.
Held(G, s, n, t) == n \in 1..Len(G[s]) /\ G[s][n].term = t

Sorted(G) ==
    \A s \in Server : \A i, j \in 1..Len(G[s]) : i <= j => G[s][i].term <= G[s][j].term

\* Log matching, and more: the entries of a term begin at the same index in
\* all logs, with the same entries before them.
Matching(G) ==
    \A x, y \in Server : \A i \in 1..Len(G[x]), j \in 1..Len(G[y]) :
        j <= i /\ G[x][i].term = G[y][j].term => \A k \in 1..j : G[x][k] = G[y][k]

\* Whoever has an entry of a later term has the one of term t at n.
Settled(G, n, t) ==
    \A s \in Server : (\E i \in 1..Len(G[s]) : G[s][i].term > t) => Held(G, s, n, t)

\* An entry no election can lose.
Anchored(G, n, t) == Settled(G, n, t) /\ Quorum({s \in Server : Held(G, s, n, t)})

----------------------------------------------------------------------------
(* Terms and leaders                                                       *)

\* No server can win term t any more.
Taken(C, V, t) == Quorum({v \in Server : C[v] > t \/ (C[v] = t /\ V[v] # Nobody)})

TermsTaken(G, C, V) ==
    \A s \in Server : \A i \in 1..Len(G[s]) : Taken(C, V, G[s][i].term)

Known(G, C) == \A s \in Server : \A i \in 1..Len(G[s]) : G[s][i].term <= C[s]

\* A leader's log ends with its own term, of which it holds every entry.
LeadersOwn(G, C, L) ==
    \A l \in Server : L[l] = l =>
        /\ Held(G, l, Len(G[l]), C[l])
        /\ \A s \in Server : \A i \in 1..Len(G[s]) :
                G[s][i].term = C[l] => Held(G, l, i, C[l])

OneLeader(C, L) ==
    \A l, m \in Server : L[l] = l /\ L[m] = m /\ C[l] = C[m] => l = m

\* The servers that have acknowledged n to l, or still may.
MayAck(C, M, l, n) == {l} \cup {f \in Server : M[l][f] >= n \/ C[f] <= C[l]}

\* What a leader may still commit is settled, and held by whoever has
\* acknowledged it.
MayCommit(G, C, L, M) ==
    \A l \in Server : L[l] = l =>
        \A n \in 1..Len(G[l]) : G[l][n].term = C[l] /\ Quorum(MayAck(C, M, l, n)) =>
            /\ Settled(G, n, C[l])
            /\ \A f \in Server : M[l][f] >= n => Held(G, f, n, C[l])

Matched(G, L, M) ==
    \A l \in Server : IF L[l] = l THEN \A f \in Server : M[l][f] <= Len(G[l])
                                  ELSE M[l] = NoMatch

\* n and t anchor what s has committed.
Covers(G, C, K, s, n, t) ==
    /\ Anchored(G, n, t) /\ K[s] <= n /\ t <= C[s]
    /\ \A m \in Server : Held(G, m, n, t) => \A i \in 1..K[s] : G[m][i] = G[s][i]

Covered(G, C, K) ==
    \A s \in Server : K[s] <= Len(G[s])
        /\ (K[s] > 0 => \E n, t \in Nat : Covers(G, C, K, s, n, t))

----------------------------------------------------------------------------
(* The invariant                                                           *)

\* A store with nothing compacted.
StoreOf(log, t, v, c) ==
    [entries |-> log, snap |-> Boot.snap, hs |-> [term |-> t, vote |-> v, commit |-> c],
     conf |-> Boot.conf, applied |-> 0]

Stored(st) ==
    /\ st = StoreOf(st.entries, st.hs.term, st.hs.vote, st.hs.commit)
    /\ st.entries \in Seq(Entry)
    /\ st.hs.term \in Nat /\ st.hs.vote \in Server \cup {Nobody} /\ st.hs.commit \in Nat

\* A map is what the log says, or empty since a restart.
MapsFit ==
    /\ machine = [s \in Server |-> machine[s]]
    /\ \A s \in Server : machine[s] \in {Decided[s], << >>}

Shape ==
    /\ backend \in Backends
    /\ DOMAIN store = Server /\ \A s \in Server : Stored(store[s])
    /\ offset = [s \in Server |-> Len(store[s].entries) + 1]
    /\ leader_id \in [Server -> Server \cup {Nobody}]
    /\ matched \in [Server -> [Server -> Nat]]
    /\ MapsFit
    /\ crashes \in 0..MaxCrashes
    /\ \A s \in Server : store[s].hs.term <= MaxTerm[backend]

Safe(G, C, V, K, L, M) ==
    /\ IsLogs(G) /\ C \in [Server -> Nat] /\ K \in [Server -> Nat]
    /\ M \in [Server -> [Server -> Nat]]
    /\ Sorted(G) /\ Matching(G) /\ Known(G, C) /\ TermsTaken(G, C, V)
    /\ LeadersOwn(G, C, L) /\ OneLeader(C, L) /\ Matched(G, L, M)
    /\ MayCommit(G, C, L, M) /\ Covered(G, C, K)

Safety == Safe(Logs, Terms, Votes, Commits, leader_id, matched)

\* A PUT has one callback while it has no answer, and one entry; the
\* callback is only lost in a restart.
Waiting ==
    /\ callbacks \in [Server -> SUBSET Ids]
    /\ answers \in [Ids -> {"none", "not_leader", "ok", "dropped"}]
    /\ \A s \in Server : \A id \in callbacks[s] :
        answers[id] = "none" /\ \A r \in Server \ {s} : id \notin callbacks[r]
    /\ \A s \in Server : \A i \in 1..Len(Logs[s]) : Logs[s][i].payload \in Ids =>
        LET id == Logs[s][i].payload
        IN  \/ answers[id] = "none" /\ \E r \in Server : id \in callbacks[r]
            \/ answers[id] = "ok" /\ \E r \in Server : id \in Contents(Decided[r])
            \/ answers[id] = "dropped"
    /\ \A r, s \in Server : \A i \in 1..Len(Logs[r]), j \in 1..Len(Logs[s]) :
        Logs[r][i].payload = Logs[s][j].payload /\ Logs[r][i].payload \in Ids => i = j

Inv == Shape /\ Safety /\ Waiting

----------------------------------------------------------------------------
(* Quorums                                                                 *)

\* Any two quorums share a server.
LEMMA QuorumsMeet ==
    ASSUME NEW S \in SUBSET Server, NEW T \in SUBSET Server, Quorum(S), Quorum(T)
    PROVE  \E s \in S : s \in T
  <1>1. IsFiniteSet(S) /\ IsFiniteSet(T) /\ IsFiniteSet(Server)
    BY ClusterConstants, FS_Subset
  <1>2. Cardinality(S) \in Nat /\ Cardinality(T) \in Nat /\ Cardinality(Server) \in Nat
    BY <1>1, FS_CardinalityType
  <1>3. 2 * Cardinality(S) > Cardinality(Server) /\ 2 * Cardinality(T) > Cardinality(Server)
    BY DEF Quorum
  <1>4. Cardinality(S) + Cardinality(T) > Cardinality(Server)
    BY <1>2, <1>3
  <1>5. S \cap T # {}
    BY <1>1, <1>4, FS_MajoritiesIntersect
  <1> QED BY <1>5

\* More servers are a quorum all the more.
LEMMA QuorumGrows ==
    ASSUME NEW S, NEW T \in SUBSET Server, S \subseteq T, Quorum(S)
    PROVE  Quorum(T)
  <1>1. IsFiniteSet(T)
    BY ClusterConstants, FS_Subset
  <1>2. IsFiniteSet(S) /\ Cardinality(S) <= Cardinality(T)
    BY <1>1, FS_Subset
  <1>3. Cardinality(S) \in Nat /\ Cardinality(T) \in Nat /\ Cardinality(Server) \in Nat
    BY <1>1, <1>2, ClusterConstants, FS_CardinalityType
  <1> QED BY <1>2, <1>3 DEF Quorum

----------------------------------------------------------------------------
(* What happens to logs                                                    *)

\* s has appended e.
Grown(G, H, s, e) ==
    /\ IsLogs(H) /\ \A x \in Server \ {s} : H[x] = G[x]
    /\ Len(H[s]) = Len(G[s]) + 1 /\ H[s][Len(G[s]) + 1] = e
    /\ \A i \in 1..Len(G[s]) : H[s][i] = G[s][i]

\* f has taken over the first k entries of l, the last of which it had not.
Copied(G, H, f, l, k) ==
    /\ IsLogs(H) /\ \A x \in Server \ {f} : H[x] = G[x]
    /\ k \in 1..Len(G[l]) /\ ~Held(G, f, k, G[l][k].term)
    /\ Len(H[f]) = k /\ \A i \in 1..k : H[f][i] = G[l][i]

\* Lengths and terms are numbers.
LEMMA LogTypes ==
    ASSUME NEW G, NEW s \in Server, IsLogs(G)
    PROVE  /\ Len(G[s]) \in Nat
           /\ \A i \in 1..Len(G[s]) : G[s][i] \in Entry /\ G[s][i].term \in Nat
  <1>1. G[s] \in Seq(Entry)
    BY DEF IsLogs
  <1>2. \A i \in 1..Len(G[s]) : G[s][i] \in Entry
    BY <1>1, ElementOfSeq
  <1> QED BY <1>1, <1>2 DEF Entry

\* An entry of a later term comes later.
LEMMA LaterTerm ==
    ASSUME NEW G, NEW s \in Server, NEW n, NEW t, NEW i \in 1..Len(G[s]),
           IsLogs(G), Sorted(G), Held(G, s, n, t), G[s][i].term > t
    PROVE  n < i
  <1>1. n \in 1..Len(G[s]) /\ G[s][n].term = t /\ t \in Nat /\ Len(G[s]) \in Nat
        /\ G[s][i].term \in Nat
    BY LogTypes DEF Held
  <1>2. i <= n => G[s][i].term <= t
    BY <1>1 DEF Sorted
  <1> QED BY <1>1, <1>2

\* Nothing held is lost by a log that grows, and what is settled stays so if
\* the server that appends holds it or appends no later term.
LEMMA GrownKeeps ==
    ASSUME NEW G, NEW H, NEW s \in Server, NEW e, NEW n, NEW t,
           IsLogs(G), Grown(G, H, s, e)
    PROVE  /\ \A x \in Server : Held(G, x, n, t) => Held(H, x, n, t)
           /\ Settled(G, n, t) /\ (e.term > t => Held(G, s, n, t)) => Settled(H, n, t)
  <1>1. \A x \in Server : Len(G[x]) \in Nat
    BY LogTypes
  <1>2. ASSUME NEW x \in Server, Held(G, x, n, t) PROVE Held(H, x, n, t)
    <2>1. CASE x = s
      <3>1. n \in 1..Len(G[s]) /\ G[s][n].term = t
        BY <1>2, <2>1 DEF Held
      <3>2. n \in 1..Len(H[s]) /\ H[s][n] = G[s][n]
        BY <1>1, <3>1 DEF Grown
      <3> QED BY <2>1, <3>1, <3>2 DEF Held
    <2>2. CASE x # s
      <3>1. H[x] = G[x]
        BY <2>2 DEF Grown
      <3> QED BY <1>2, <3>1 DEF Held
    <2> QED BY <2>1, <2>2
  <1>3. ASSUME Settled(G, n, t), e.term > t => Held(G, s, n, t) PROVE Settled(H, n, t)
    <2> SUFFICES ASSUME NEW x \in Server, NEW i \in 1..Len(H[x]), H[x][i].term > t
                 PROVE  Held(G, x, n, t)
      BY <1>2 DEF Settled
    <2>1. CASE x = s
      <3>1. CASE i \in 1..Len(G[s])
        BY <1>3, <2>1, <3>1 DEF Settled, Grown
      <3>2. CASE i = Len(G[s]) + 1
        BY <1>3, <2>1, <3>2 DEF Grown
      <3> QED BY <1>1, <2>1, <3>1, <3>2 DEF Grown
    <2>2. CASE x # s
      <3>1. H[x] = G[x]
        BY <2>2 DEF Grown
      <3> QED BY <1>3, <3>1 DEF Settled
    <2> QED BY <2>1, <2>2
  <1> QED BY <1>2, <1>3

\* Nor is anything lost by a copy, if what the follower holds is held by the
\* leader it copies from.
LEMMA CopiedKeeps ==
    ASSUME NEW G, NEW H, NEW f \in Server, NEW l \in Server, NEW k, NEW n, NEW t,
           IsLogs(G), Sorted(G), Matching(G), Copied(G, H, f, l, k), f # l,
           Settled(G, n, t), Held(G, f, n, t) => Held(G, l, n, t)
    PROVE  /\ \A x \in Server : Held(G, x, n, t) => Held(H, x, n, t)
           /\ Settled(H, n, t)
  <1>1. Len(G[f]) \in Nat /\ Len(G[l]) \in Nat /\ k \in 1..Len(G[l]) /\ k \in Nat
    BY LogTypes DEF Copied
  <1>2. ASSUME NEW x \in Server, Held(G, x, n, t) PROVE Held(H, x, n, t)
    <2>1. CASE x = f
      <3>1. /\ n \in 1..Len(G[f]) /\ G[f][n].term = t
            /\ n \in 1..Len(G[l]) /\ G[l][n].term = t
        BY <1>2, <2>1 DEF Held
      <3>2. \A j \in 1..n : G[f][j] = G[l][j]
        BY <1>1, <3>1 DEF Matching
      <3>3. k > n
        BY <1>1, <3>1, <3>2 DEF Copied, Held
      <3>4. n \in 1..Len(H[f]) /\ H[f][n] = G[l][n]
        BY <1>1, <3>1, <3>3 DEF Copied
      <3> QED BY <2>1, <3>1, <3>4 DEF Held
    <2>2. CASE x # f
      <3>1. H[x] = G[x]
        BY <2>2 DEF Copied
      <3> QED BY <1>2, <3>1 DEF Held
    <2> QED BY <2>1, <2>2
  <1>3. ASSUME NEW x \in Server, NEW i \in 1..Len(H[x]), H[x][i].term > t
        PROVE  Held(H, x, n, t)
    <2>1. CASE x = f
      <3>1. i \in 1..k /\ i \in 1..Len(G[l]) /\ G[l][i].term > t
        BY <1>1, <1>3, <2>1 DEF Copied
      <3>2. Held(G, l, n, t)
        BY <3>1 DEF Settled
      <3>3. n < i
        BY <3>1, <3>2, LaterTerm
      <3>4. n \in 1..Len(H[f]) /\ H[f][n] = G[l][n]
        BY <1>1, <3>1, <3>2, <3>3 DEF Copied, Held
      <3> QED BY <2>1, <3>2, <3>4 DEF Held
    <2>2. CASE x # f
      <3>1. H[x] = G[x]
        BY <2>2 DEF Copied
      <3> QED BY <1>2, <1>3, <3>1 DEF Settled
    <2> QED BY <2>1, <2>2
  <1> QED BY <1>2, <1>3 DEF Settled

\* Each log of H is the beginning of a log of G.
Beginnings(G, H) ==
    \A x \in Server : \E y \in Server :
        Len(H[x]) <= Len(G[y]) /\ \A i \in 1..Len(H[x]) : H[x][i] = G[y][i]

\* A copy is a beginning.
LEMMA CopiedBegins ==
    ASSUME NEW G, NEW H, NEW f \in Server, NEW l \in Server, NEW k, IsLogs(G),
           Copied(G, H, f, l, k)
    PROVE  Beginnings(G, H)
  <1>1. ASSUME NEW x \in Server
        PROVE  \E y \in Server : Len(H[x]) <= Len(G[y])
                                 /\ \A i \in 1..Len(H[x]) : H[x][i] = G[y][i]
    <2>1. CASE x = f
      <3>1. Len(H[f]) <= Len(G[l]) /\ \A i \in 1..Len(H[f]) : H[f][i] = G[l][i]
        BY LogTypes DEF Copied
      <3> QED BY <2>1, <3>1
    <2>2. CASE x # f
      <3>1. H[x] = G[x] /\ Len(G[x]) \in Nat
        BY <2>2, LogTypes DEF Copied
      <3> QED BY <3>1
    <2> QED BY <2>1, <2>2
  <1> QED BY <1>1 DEF Beginnings

\* Beginnings of sorted and matching logs are sorted and match.
LEMMA BeginningsMatch ==
    ASSUME NEW G, NEW H, IsLogs(G), IsLogs(H), Beginnings(G, H), Sorted(G), Matching(G)
    PROVE  Sorted(H) /\ Matching(H)
  <1>1. \A x \in Server : Len(G[x]) \in Nat /\ Len(H[x]) \in Nat
    BY LogTypes
  <1>2. ASSUME NEW x \in Server, NEW i \in 1..Len(H[x]), NEW j \in 1..Len(H[x]), i <= j
        PROVE  H[x][i].term <= H[x][j].term
    <2>1. PICK y \in Server : /\ Len(H[x]) <= Len(G[y])
                              /\ \A m \in 1..Len(H[x]) : H[x][m] = G[y][m]
      BY DEF Beginnings
    <2>2. i \in 1..Len(G[y]) /\ j \in 1..Len(G[y])
      BY <1>1, <2>1
    <2> QED BY <1>2, <2>1, <2>2 DEF Sorted
  <1>3. ASSUME NEW x \in Server, NEW y \in Server,
               NEW i \in 1..Len(H[x]), NEW j \in 1..Len(H[y]),
               j <= i, H[x][i].term = H[y][j].term, NEW k \in 1..j
        PROVE  H[x][k] = H[y][k]
    <2>1. PICK p \in Server : /\ Len(H[x]) <= Len(G[p])
                              /\ \A m \in 1..Len(H[x]) : H[x][m] = G[p][m]
      BY DEF Beginnings
    <2>2. PICK q \in Server : /\ Len(H[y]) <= Len(G[q])
                              /\ \A m \in 1..Len(H[y]) : H[y][m] = G[q][m]
      BY DEF Beginnings
    <2>3. i \in 1..Len(G[p]) /\ j \in 1..Len(G[q]) /\ k \in 1..Len(H[x]) /\ k \in 1..Len(H[y])
      BY <1>1, <1>3, <2>1, <2>2
    <2>4. G[p][k] = G[q][k]
      <3>1. H[x][i] = G[p][i] /\ H[y][j] = G[q][j]
        BY <2>1, <2>2
      <3>2. G[p][i].term = G[q][j].term
        BY <1>3, <3>1
      <3> QED BY <1>3, <2>3, <3>2 DEF Matching
    <2>5. H[x][k] = G[p][k]
      BY <2>1, <2>3
    <2>6. H[y][k] = G[q][k]
      BY <2>2, <2>3
    <2> QED BY <2>4, <2>5, <2>6
  <1>4. Sorted(H)
    BY <1>2 DEF Sorted
  <1>5. Matching(H)
    BY <1>3 DEF Matching
  <1> QED BY <1>4, <1>5

\* A log that grows stays sorted if no term it has is later than the new one.
LEMMA GrownSorted ==
    ASSUME NEW G, NEW H, NEW s \in Server, NEW e, IsLogs(G), Grown(G, H, s, e), Sorted(G),
           \A i \in 1..Len(G[s]) : G[s][i].term <= e.term
    PROVE  Sorted(H)
  <1>1. \A x \in Server : Len(G[x]) \in Nat /\ Len(H[x]) \in Nat
    BY LogTypes DEF Grown
  <1>2. \A x \in Server : \A i \in 1..Len(H[x]) : H[x][i].term \in Nat
    BY LogTypes DEF Grown
  <1>3. ASSUME NEW x \in Server, NEW i \in 1..Len(H[x]), NEW j \in 1..Len(H[x]), i <= j
        PROVE  H[x][i].term <= H[x][j].term
    <2>1. CASE x # s
      BY <1>3, <2>1 DEF Grown, Sorted
    <2>2. CASE x = s /\ j \in 1..Len(G[s])
      <3>1. i \in 1..Len(G[s])
        BY <1>1, <1>3, <2>2
      <3> QED BY <1>3, <2>2, <3>1 DEF Grown, Sorted
    <2>3. CASE x = s /\ j = Len(G[s]) + 1
      <3>1. i \in 1..Len(G[s]) \/ i = j
        BY <1>1, <1>3, <2>3
      <3> QED BY <1>2, <2>3, <3>1 DEF Grown
    <2> QED BY <1>1, <2>1, <2>2, <2>3 DEF Grown
  <1> QED BY <1>3 DEF Sorted

\* Logs still match when s appends to its own term.
LEMMA GrownMatches ==
    ASSUME NEW G, NEW H, NEW s \in Server, NEW e, IsLogs(G), Grown(G, H, s, e), Matching(G),
           \A x \in Server : \A i \in 1..Len(G[x]) :
               G[x][i].term = e.term => Held(G, s, i, e.term)
    PROVE  Matching(H)
  <1> DEFINE n == Len(G[s])
  <1>1. \A x \in Server : Len(G[x]) \in Nat /\ Len(H[x]) \in Nat
    BY LogTypes DEF Grown
  <1>2. \A x \in Server : \A i \in 1..Len(H[x]) :
            \/ i \in 1..Len(G[x]) /\ H[x][i] = G[x][i]
            \/ x = s /\ i = n + 1 /\ H[x][i] = e
    BY <1>1 DEF Grown
  <1>3. \A x \in Server : \A i \in 1..Len(G[x]) : i \in 1..Len(H[x]) /\ H[x][i] = G[x][i]
    BY <1>1 DEF Grown
  <1>4. ASSUME NEW x \in Server, NEW y \in Server,
               NEW i \in 1..Len(H[x]), NEW j \in 1..Len(H[y]),
               j <= i, H[x][i].term = H[y][j].term, NEW k \in 1..j
        PROVE  H[x][k] = H[y][k]
    <2>1. CASE j \in 1..Len(G[y]) /\ H[y][j] = G[y][j]
      <3>1. k \in 1..Len(G[y]) /\ H[y][k] = G[y][k]
        BY <1>1, <1>3, <2>1
      <3>2. CASE i \in 1..Len(G[x]) /\ H[x][i] = G[x][i]
        <4>1. k \in 1..Len(G[x]) /\ H[x][k] = G[x][k]
          BY <1>1, <1>3, <1>4, <3>2
        <4>2. G[x][k] = G[y][k]
          BY <1>4, <2>1, <3>2 DEF Matching
        <4> QED BY <3>1, <4>1, <4>2
      <3>3. CASE x = s /\ i = n + 1 /\ H[x][i] = e
        <4>1. j \in 1..Len(G[s]) /\ G[s][j].term = G[y][j].term
          BY <1>4, <2>1, <3>3 DEF Held
        <4>2. G[s][k] = G[y][k]
          BY <1>1, <2>1, <4>1 DEF Matching
        <4>3. k \in 1..Len(G[s])
          BY <1>1, <4>1
        <4> QED BY <1>3, <3>1, <3>3, <4>2, <4>3
      <3> QED BY <1>2, <3>2, <3>3
    <2>2. CASE y = s /\ j = n + 1 /\ H[y][j] = e
      <3>1. CASE i \in 1..Len(G[x]) /\ H[x][i] = G[x][i]
        <4>1. i \in 1..n
          BY <1>4, <2>2, <3>1 DEF Held
        <4> QED BY <1>1, <1>4, <2>2, <4>1
      <3>2. CASE x = s
        BY <2>2, <3>2
      <3> QED BY <1>2, <3>1, <3>2
    <2> QED BY <1>2, <2>1, <2>2
  <1> QED BY <1>4 DEF Matching

\* With matching logs, all who hold an entry hold the same entries up to it.
LEMMA HeldMatches ==
    ASSUME NEW G, NEW x \in Server, NEW y \in Server, NEW n, NEW t, NEW i \in 1..n,
           IsLogs(G), Matching(G), Held(G, x, n, t), Held(G, y, n, t)
    PROVE  G[x][i] = G[y][i]
  <1>1. Len(G[x]) \in Nat
    BY LogTypes
  <1> QED BY <1>1 DEF Held, Matching

----------------------------------------------------------------------------
(* Terms                                                                   *)

\* Terms grow, and a vote is forgotten in a new term only.
TermsGrow(C, V, D, W) ==
    \A v \in Server : D[v] > C[v] \/ (D[v] = C[v] /\ (V[v] # Nobody => W[v] # Nobody))

\* A term nobody can win stays one.
LEMMA TakenStays ==
    ASSUME NEW C, NEW V, NEW D, NEW W, NEW t \in Nat,
           C \in [Server -> Nat], D \in [Server -> Nat], TermsGrow(C, V, D, W), Taken(C, V, t)
    PROVE  Taken(D, W, t)
  <1> DEFINE S == {v \in Server : C[v] > t \/ (C[v] = t /\ V[v] # Nobody)}
             T == {v \in Server : D[v] > t \/ (D[v] = t /\ W[v] # Nobody)}
  <1>1. Quorum(S)
    BY DEF Taken
  <1>2. ASSUME NEW v \in S PROVE v \in T
    <2>1. v \in Server /\ C[v] \in Nat /\ D[v] \in Nat
      OBVIOUS
    <2> QED BY <2>1 DEF TermsGrow
  <1>3. S \subseteq T /\ T \in SUBSET Server
    BY <1>2
  <1> HIDE DEF S, T
  <1>4. Quorum(T)
    BY <1>1, <1>3, QuorumGrows
  <1> QED BY <1>4 DEF Taken, T

\* A leader holds what is settled and held by anyone in its term or earlier.
LEMMA LeaderHolds ==
    ASSUME NEW G, NEW C, NEW L, NEW n, NEW t, NEW m \in Server, NEW l \in Server,
           IsLogs(G), C \in [Server -> Nat], LeadersOwn(G, C, L), Settled(G, n, t),
           Held(G, m, n, t), L[l] = l, t <= C[l]
    PROVE  Held(G, l, n, t)
  <1>1. Held(G, l, Len(G[l]), C[l]) /\ C[l] \in Nat
    BY DEF LeadersOwn
  <1>2. t \in Nat
    BY LogTypes DEF Held
  <1>3. CASE C[l] > t
    <2>1. \E i \in 1..Len(G[l]) : G[l][i].term > t
      BY <1>1, <1>3 DEF Held
    <2> QED BY <2>1 DEF Settled
  <1>4. CASE C[l] = t
    BY <1>4 DEF LeadersOwn, Held
  <1> QED BY <1>1, <1>2, <1>3, <1>4

\* The log of s is at least as up to date as that of v.
Newer(G, s, v) ==
    Len(G[v]) > 0 =>
        /\ Len(G[s]) > 0
        /\ \/ G[s][Len(G[s])].term > G[v][Len(G[v])].term
           \/ G[s][Len(G[s])].term = G[v][Len(G[v])].term /\ Len(G[s]) >= Len(G[v])

\* What is settled and held by a voter is held by the candidate.
LEMMA CandidateHolds ==
    ASSUME NEW G, NEW n, NEW t, NEW v \in Server, NEW s \in Server,
           IsLogs(G), Sorted(G), Matching(G), Settled(G, n, t), Held(G, v, n, t), Newer(G, s, v)
    PROVE  Held(G, s, n, t)
  <1> DEFINE a == Len(G[s])
             b == Len(G[v])
  <1>1. a \in Nat /\ b \in Nat /\ n \in 1..b /\ G[v][n].term = t /\ t \in Nat
    BY LogTypes DEF Held
  <1>2. b \in 1..b /\ G[v][b].term \in Nat
    BY <1>1, LogTypes
  <1>3. t <= G[v][b].term
    BY <1>1, <1>2 DEF Sorted
  <1>4. a \in 1..a /\ G[s][a].term \in Nat
    <2>1. a > 0
      BY <1>1 DEF Newer
    <2> QED BY <1>1, <2>1, LogTypes
  <1>5. CASE G[s][a].term > t
    BY <1>4, <1>5 DEF Settled
  <1>6. CASE G[s][a].term = t
    <2>1. G[v][b].term = t /\ a >= b
      BY <1>1, <1>2, <1>3, <1>4, <1>6 DEF Newer
    <2>2. n <= a
      BY <1>1, <2>1
    <2>3. G[s][n] = G[v][n]
      BY <1>1, <1>4, <1>6, <2>2 DEF Matching
    <2> QED BY <1>1, <2>2, <2>3 DEF Held
  <1> QED BY <1>1, <1>2, <1>3, <1>4, <1>5, <1>6 DEF Newer

\* Fewer servers may still acknowledge n as terms grow.
LEMMA FewerMayAck ==
    ASSUME NEW C, NEW D, NEW M, NEW N, NEW l \in Server, NEW n,
           C \in [Server -> Nat], D \in [Server -> Nat], D[l] = C[l], \A f \in Server : C[f] <= D[f],
           \A f \in Server : N[l][f] >= n => M[l][f] >= n \/ C[f] <= C[l],
           Quorum(MayAck(D, N, l, n))
    PROVE  Quorum(MayAck(C, M, l, n))
  <1>1. ASSUME NEW f \in MayAck(D, N, l, n) PROVE f \in MayAck(C, M, l, n)
    <2>1. CASE f = l
      BY <2>1 DEF MayAck
    <2>2. CASE f \in Server /\ N[l][f] >= n
      BY <2>2 DEF MayAck
    <2>3. CASE f \in Server /\ D[f] <= D[l]
      <3>1. C[f] <= C[l]
        BY <2>3
      <3> QED BY <2>3, <3>1 DEF MayAck
    <2> QED BY <2>1, <2>2, <2>3 DEF MayAck
  <1>2. MayAck(D, N, l, n) \subseteq MayAck(C, M, l, n)
    BY <1>1
  <1>3. MayAck(C, M, l, n) \in SUBSET Server
    BY DEF MayAck
  <1> QED BY <1>2, <1>3, QuorumGrows

----------------------------------------------------------------------------
(* Steps that keep the logs                                                *)

\* Some servers enter a later term or vote; nobody starts to lead.
TermStep(C, V, L, M, D, W, P, N) ==
    /\ D \in [Server -> Nat] /\ N \in [Server -> [Server -> Nat]]
    /\ TermsGrow(C, V, D, W)
    /\ \A l \in Server : IF P[l] = l THEN L[l] = l /\ D[l] = C[l] /\ N[l] = M[l]
                                     ELSE N[l] = NoMatch

\* Entering a term is safe.
LEMMA TermStepIsSafe ==
    ASSUME NEW G, NEW C, NEW V, NEW K, NEW L, NEW M, NEW D, NEW W, NEW P, NEW N,
           Safe(G, C, V, K, L, M), TermStep(C, V, L, M, D, W, P, N)
    PROVE  Safe(G, D, W, K, P, N)
  <1>1. /\ IsLogs(G) /\ C \in [Server -> Nat] /\ K \in [Server -> Nat]
        /\ Sorted(G) /\ Matching(G)
        /\ D \in [Server -> Nat] /\ N \in [Server -> [Server -> Nat]]
    BY DEF Safe, TermStep
  <1>2. ASSUME NEW s \in Server PROVE C[s] <= D[s]
    BY <1>1 DEF TermStep, TermsGrow
  <1>3. ASSUME NEW l \in Server, P[l] = l PROVE L[l] = l /\ D[l] = C[l] /\ N[l] = M[l]
    BY <1>3 DEF TermStep
  <1>4. Known(G, D)
    <2>1. \A s \in Server : \A i \in 1..Len(G[s]) : G[s][i].term <= C[s]
      BY DEF Safe, Known
    <2>2. ASSUME NEW s \in Server, NEW i \in 1..Len(G[s]) PROVE G[s][i].term <= D[s]
      <3>1. G[s][i].term \in Nat
        BY <1>1, LogTypes
      <3> QED BY <1>1, <1>2, <2>1, <3>1
    <2> QED BY <2>2 DEF Known
  <1>5. TermsTaken(G, D, W)
    <2>1. TermsTaken(G, C, V) /\ TermsGrow(C, V, D, W)
      BY DEF Safe, TermStep
    <2>2. ASSUME NEW s \in Server, NEW i \in 1..Len(G[s]) PROVE Taken(D, W, G[s][i].term)
      <3>1. G[s][i].term \in Nat
        BY <1>1, LogTypes
      <3>2. Taken(C, V, G[s][i].term)
        BY <2>1 DEF TermsTaken
      <3> QED BY <1>1, <2>1, <3>1, <3>2, TakenStays
    <2> QED BY <2>2 DEF TermsTaken
  <1>6. LeadersOwn(G, D, P)
    <2>1. LeadersOwn(G, C, L)
      BY DEF Safe
    <2>2. ASSUME NEW l \in Server, P[l] = l
          PROVE  /\ Held(G, l, Len(G[l]), D[l])
                 /\ \A s \in Server : \A i \in 1..Len(G[s]) :
                        G[s][i].term = D[l] => Held(G, l, i, D[l])
      BY <1>3, <2>1, <2>2 DEF LeadersOwn
    <2> QED BY <2>2 DEF LeadersOwn
  <1>7. OneLeader(D, P)
    <2>1. OneLeader(C, L)
      BY DEF Safe
    <2>2. ASSUME NEW l \in Server, NEW m \in Server, P[l] = l, P[m] = m, D[l] = D[m]
          PROVE  l = m
      BY <1>3, <2>1, <2>2 DEF OneLeader
    <2> QED BY <2>2 DEF OneLeader
  <1>8. Matched(G, P, N)
    <2>1. Matched(G, L, M)
      BY DEF Safe
    <2>2. ASSUME NEW l \in Server
          PROVE  IF P[l] = l THEN \A f \in Server : N[l][f] <= Len(G[l]) ELSE N[l] = NoMatch
      BY <1>3, <2>1 DEF TermStep, Matched
    <2> QED BY <2>2 DEF Matched
  <1>9. MayCommit(G, D, P, N)
    <2>1. MayCommit(G, C, L, M)
      BY DEF Safe
    <2>2. ASSUME NEW l \in Server, P[l] = l, NEW n \in 1..Len(G[l]), G[l][n].term = D[l],
                 Quorum(MayAck(D, N, l, n))
          PROVE  Settled(G, n, D[l]) /\ \A f \in Server : N[l][f] >= n => Held(G, f, n, D[l])
      <3>1. L[l] = l /\ D[l] = C[l] /\ N[l] = M[l]
        BY <1>3, <2>2
      <3>2. Quorum(MayAck(C, M, l, n))
        BY <1>1, <1>2, <2>2, <3>1, FewerMayAck
      <3> QED BY <2>1, <2>2, <3>1, <3>2 DEF MayCommit
    <2> QED BY <2>2 DEF MayCommit
  <1>10. Covered(G, D, K)
    <2>1. Covered(G, C, K)
      BY DEF Safe
    <2>2. ASSUME NEW s \in Server, K[s] > 0
          PROVE  \E n, t \in Nat : Covers(G, D, K, s, n, t)
      <3>1. PICK n \in Nat, t \in Nat : Covers(G, C, K, s, n, t)
        BY <2>1, <2>2 DEF Covered
      <3>2. t <= D[s]
        BY <1>1, <1>2, <3>1 DEF Covers
      <3> QED BY <3>1, <3>2 DEF Covers
    <2> QED BY <2>1, <2>2 DEF Covered
  <1> QED BY <1>1, <1>4, <1>5, <1>6, <1>7, <1>8, <1>9, <1>10 DEF Safe

\* A leader l learns that f holds its entries up to a.
AckStep(G, M, N, l, f, a) ==
    /\ a \in 0..Len(G[l]) /\ \A n \in 1..a : Held(G, f, n, G[l][n].term)
    /\ N = [M EXCEPT ![l][f] = Greater(M[l][f], a)]

\* An acknowledgement in the term of the leader is safe.
LEMMA AckStepIsSafe ==
    ASSUME NEW G, NEW C, NEW V, NEW K, NEW L, NEW M, NEW N, NEW l \in Server, NEW f \in Server,
           NEW a, Safe(G, C, V, K, L, M), L[l] = l, C[f] <= C[l], AckStep(G, M, N, l, f, a)
    PROVE  Safe(G, C, V, K, L, N)
  <1>1. /\ IsLogs(G) /\ C \in [Server -> Nat] /\ M \in [Server -> [Server -> Nat]]
        /\ Len(G[l]) \in Nat /\ a \in Nat /\ a <= Len(G[l])
    BY LogTypes DEF Safe, AckStep
  <1>2. /\ N[l][f] \in {M[l][f], a}
        /\ \A m, g \in Server : m # l \/ g # f => N[m][g] = M[m][g]
        /\ N \in [Server -> [Server -> Nat]]
        /\ \A m \in Server : m # l => N[m] = M[m]
    <2> DEFINE b == Greater(M[l][f], a)
    <2>1. M[l] \in [Server -> Nat] /\ M[l][f] \in Nat
      BY <1>1
    <2>2. b \in {M[l][f], a} /\ b \in Nat
      <3>1. b = M[l][f] \/ b = a
        BY DEF Greater
      <3> QED BY <1>1, <2>1, <3>1
    <2>3. N = [M EXCEPT ![l] = [M[l] EXCEPT ![f] = b]]
      BY DEF AckStep
    <2> HIDE DEF b
    <2>4. [M[l] EXCEPT ![f] = b] \in [Server -> Nat]
      BY <2>1, <2>2
    <2>5. N \in [Server -> [Server -> Nat]]
      BY <1>1, <2>3, <2>4
    <2>6. N[l] = [M[l] EXCEPT ![f] = b] /\ \A m \in Server : m # l => N[m] = M[m]
      BY <1>1, <2>3
    <2>7. N[l][f] = b /\ \A g \in Server : g # f => N[l][g] = M[l][g]
      BY <2>1, <2>6
    <2> QED BY <2>2, <2>5, <2>6, <2>7
  <1>3. Matched(G, L, N)
    <2>1. Matched(G, L, M)
      BY DEF Safe
    <2>2. ASSUME NEW m \in Server
          PROVE  IF L[m] = m THEN \A g \in Server : N[m][g] <= Len(G[m]) ELSE N[m] = NoMatch
      BY <1>1, <1>2, <2>1 DEF Matched
    <2> QED BY <2>2 DEF Matched
  <1>4. MayCommit(G, C, L, N)
    <2>1. MayCommit(G, C, L, M)
      BY DEF Safe
    <2>2. ASSUME NEW m \in Server, L[m] = m, NEW n \in 1..Len(G[m]), G[m][n].term = C[m],
                 Quorum(MayAck(C, N, m, n))
          PROVE  Settled(G, n, C[m]) /\ \A g \in Server : N[m][g] >= n => Held(G, g, n, C[m])
      <3>1. \A g \in Server : N[m][g] >= n => M[m][g] >= n \/ C[g] <= C[m]
        BY <1>2
      <3>2. Quorum(MayAck(C, M, m, n))
        <4>1. \A g \in Server : C[g] <= C[g]
          BY <1>1
        <4> QED BY <1>1, <2>2, <3>1, <4>1, FewerMayAck
      <3>3. Settled(G, n, C[m]) /\ \A g \in Server : M[m][g] >= n => Held(G, g, n, C[m])
        BY <2>1, <2>2, <3>2 DEF MayCommit
      <3>4. ASSUME NEW g \in Server, N[m][g] >= n PROVE Held(G, g, n, C[m])
        <4>1. CASE M[m][g] >= n
          BY <3>3, <4>1
        <4>2. CASE ~(M[m][g] >= n)
          <5>1. m = l /\ g = f /\ n <= a
            BY <1>1, <1>2, <3>4, <4>2
          <5>2. n \in 1..a
            BY <1>1, <5>1
          <5> QED BY <2>2, <5>1, <5>2 DEF AckStep
        <4> QED BY <4>1, <4>2
      <3> QED BY <3>3, <3>4
    <2> QED BY <2>2 DEF MayCommit
  <1> QED BY <1>2, <1>3, <1>4 DEF Safe

----------------------------------------------------------------------------
(* Steps that append                                                       *)

\* A quorum has a server.
LEMMA QuorumHasOne == ASSUME NEW S \in SUBSET Server, Quorum(S) PROVE \E s \in S : TRUE
  BY QuorumsMeet

\* What is anchored stays so.
LEMMA GrownAnchors ==
    ASSUME NEW G, NEW H, NEW s \in Server, NEW e, NEW n, NEW t,
           IsLogs(G), Grown(G, H, s, e), Anchored(G, n, t), e.term > t => Held(G, s, n, t)
    PROVE  Anchored(H, n, t)
  <1>1. Settled(G, n, t) /\ Quorum({x \in Server : Held(G, x, n, t)})
    BY DEF Anchored
  <1>2. Settled(H, n, t) /\ \A x \in Server : Held(G, x, n, t) => Held(H, x, n, t)
    BY <1>1, GrownKeeps
  <1>3. {x \in Server : Held(G, x, n, t)} \subseteq {x \in Server : Held(H, x, n, t)}
    BY <1>2
  <1>4. {x \in Server : Held(H, x, n, t)} \in SUBSET Server
    OBVIOUS
  <1>5. Quorum({x \in Server : Held(H, x, n, t)})
    BY <1>1, <1>3, <1>4, QuorumGrows
  <1> QED BY <1>2, <1>5 DEF Anchored

\* An entry in the term of s, when s has all there are of its term and all
\* that is anchored.
LEMMA GrownIsSafe ==
    ASSUME NEW G, NEW C, NEW V, NEW K, NEW L, NEW M, NEW H, NEW s \in Server, NEW e,
           Safe(G, C, V, K, L, M), Grown(G, H, s, e), e.term = C[s],
           Taken(C, V, C[s]),
           \A x \in Server : \A i \in 1..Len(G[x]) :
               G[x][i].term = C[s] => Held(G, s, i, C[s]),
           \A n, t : Anchored(G, n, t) /\ C[s] > t => Held(G, s, n, t)
    PROVE  /\ IsLogs(H) /\ Sorted(H) /\ Matching(H) /\ Known(H, C)
           /\ TermsTaken(H, C, V) /\ Covered(H, C, K)
  <1>1. /\ IsLogs(G) /\ IsLogs(H) /\ Sorted(G) /\ Matching(G) /\ Known(G, C)
        /\ C \in [Server -> Nat] /\ K \in [Server -> Nat] /\ TermsTaken(G, C, V)
        /\ Covered(G, C, K)
    BY DEF Safe, Grown
  <1>a. /\ \A x \in Server : \A i \in 1..Len(G[x]) : H[x][i] = G[x][i]
        /\ \A x \in Server : \A i \in 1..Len(H[x]) :
             i <= Len(G[x]) \/ (x = s /\ i = Len(G[s]) + 1 /\ H[x][i] = e)
        /\ \A x \in Server : Len(G[x]) \in Nat /\ Len(H[x]) \in Nat /\ Len(G[x]) <= Len(H[x])
    <2>1. \A x \in Server : Len(G[x]) \in Nat /\ Len(H[x]) \in Nat
      BY <1>1, LogTypes
    <2> QED BY <2>1 DEF Grown
  <1>2. ASSUME NEW x \in Server, NEW i \in 1..Len(H[x])
        PROVE  \/ i \in 1..Len(G[x]) /\ H[x][i] = G[x][i]
               \/ x = s /\ i = Len(G[s]) + 1 /\ H[x][i] = e
    BY <1>a
  <1>3. Sorted(H)
    <2>1. \A i \in 1..Len(G[s]) : G[s][i].term <= e.term
      BY <1>1 DEF Known
    <2> QED BY <1>1, <2>1, GrownSorted
  <1>4. Matching(H)
    <2>1. \A x \in Server : \A i \in 1..Len(G[x]) :
              G[x][i].term = e.term => Held(G, s, i, e.term)
      OBVIOUS
    <2> QED BY <1>1, <2>1, GrownMatches
  <1>5. Known(H, C)
    <2>1. ASSUME NEW x \in Server, NEW i \in 1..Len(H[x]) PROVE H[x][i].term <= C[x]
      <3>1. CASE i \in 1..Len(G[x]) /\ H[x][i] = G[x][i]
        BY <1>1, <3>1 DEF Known
      <3>2. CASE x = s /\ H[x][i] = e
        BY <1>1, <3>2
      <3> QED BY <1>2, <3>1, <3>2
    <2> QED BY <2>1 DEF Known
  <1>6. TermsTaken(H, C, V)
    <2>1. ASSUME NEW x \in Server, NEW i \in 1..Len(H[x]) PROVE Taken(C, V, H[x][i].term)
      <3>1. CASE i \in 1..Len(G[x]) /\ H[x][i] = G[x][i]
        BY <1>1, <3>1 DEF TermsTaken
      <3>2. CASE x = s /\ H[x][i] = e
        BY <3>2
      <3> QED BY <1>2, <3>1, <3>2
    <2> QED BY <2>1 DEF TermsTaken
  <1>7. Covered(H, C, K)
    <2>1. ASSUME NEW x \in Server, K[x] > 0 PROVE \E n, t \in Nat : Covers(H, C, K, x, n, t)
      <3>1. PICK n \in Nat, t \in Nat : Covers(G, C, K, x, n, t)
        BY <1>1, <2>1 DEF Covered
      <3>2. Anchored(G, n, t) /\ K[x] <= n /\ t <= C[x] /\ K[x] <= Len(G[x])
        BY <1>1, <3>1 DEF Covers, Covered
      <3>3. Anchored(H, n, t)
        BY <1>1, <3>2, GrownAnchors
      <3>4. ASSUME NEW m \in Server, Held(H, m, n, t), NEW i \in 1..K[x]
            PROVE  H[m][i] = H[x][i]
        <4>1. Held(G, m, n, t)
          <5>1. CASE n \in 1..Len(G[m]) /\ H[m][n] = G[m][n]
            BY <3>4, <5>1 DEF Held
          <5>2. CASE m = s /\ n = Len(G[s]) + 1 /\ H[m][n] = e
            <6>1. PICK h \in Server : Held(G, h, n, t)
              <7>1. Quorum({h \in Server : Held(G, h, n, t)})
                BY <3>2 DEF Anchored
              <7> QED BY <7>1, QuorumHasOne
            <6>2. t = C[s]
              BY <3>4, <5>2 DEF Held
            <6>3. Held(G, s, n, C[s])
              BY <6>1, <6>2 DEF Held
            <6> QED BY <5>2, <6>2, <6>3
          <5> QED BY <1>2, <3>4, <5>1, <5>2 DEF Held
        <4>2. i \in 1..Len(G[m]) /\ i \in 1..Len(G[x])
          BY <1>1, <1>a, <3>2, <4>1 DEF Held
        <4>3. G[m][i] = G[x][i]
          BY <3>1, <4>1 DEF Covers
        <4> QED BY <1>a, <4>2, <4>3
      <3> QED BY <3>2, <3>3, <3>4 DEF Covers
    <2>2. \A x \in Server : K[x] <= Len(H[x])
      BY <1>1, <1>a DEF Covered
    <2> QED BY <2>1, <2>2 DEF Covered
  <1> QED BY <1>1, <1>3, <1>4, <1>5, <1>6, <1>7

\* As long as l may commit a new entry nobody has one of a later term.
LEMMA NewIsLast ==
    ASSUME NEW G, NEW C, NEW V, NEW M, NEW l \in Server, NEW n,
           NEW x \in Server, NEW i \in 1..Len(G[x]),
           IsLogs(G), C \in [Server -> Nat], TermsTaken(G, C, V),
           Quorum(MayAck(C, M, l, n)), \A f \in Server : ~(M[l][f] >= n)
    PROVE  ~(G[x][i].term > C[l])
  <1> SUFFICES ASSUME G[x][i].term > C[l] PROVE FALSE
    OBVIOUS
  <1> DEFINE t == G[x][i].term
             S == {v \in Server : C[v] > t \/ (C[v] = t /\ V[v] # Nobody)}
  <1>1. t \in Nat
    BY LogTypes
  <1>2. Quorum(S) /\ S \in SUBSET Server /\ MayAck(C, M, l, n) \in SUBSET Server
    BY DEF TermsTaken, Taken, MayAck
  <1>3. PICK v \in S : v \in MayAck(C, M, l, n)
    BY <1>2, QuorumsMeet
  <1>4. C[v] <= C[l] /\ v \in Server /\ C[v] \in Nat /\ C[l] \in Nat
    BY <1>3 DEF MayAck
  <1> QED BY <1>1, <1>3, <1>4

\* A leader's proposal is safe.
LEMMA AppendIsSafe ==
    ASSUME NEW G, NEW C, NEW V, NEW K, NEW L, NEW M, NEW H, NEW l \in Server, NEW e,
           Safe(G, C, V, K, L, M), L[l] = l, Grown(G, H, l, e), e.term = C[l]
    PROVE  Safe(H, C, V, K, L, M)
  <1>1. /\ IsLogs(G) /\ IsLogs(H) /\ C \in [Server -> Nat] /\ M \in [Server -> [Server -> Nat]]
        /\ Sorted(G) /\ LeadersOwn(G, C, L) /\ OneLeader(C, L) /\ Matched(G, L, M)
        /\ MayCommit(G, C, L, M) /\ TermsTaken(G, C, V)
    BY DEF Safe, Grown
  <1>2. \A x \in Server : Len(G[x]) \in Nat /\ Len(H[x]) \in Nat
    BY <1>1, LogTypes
  <1>a. /\ \A x \in Server : \A i \in 1..Len(G[x]) : H[x][i] = G[x][i]
        /\ \A x \in Server : \A i \in 1..Len(H[x]) :
             i <= Len(G[x]) \/ (x = l /\ i = Len(G[l]) + 1 /\ H[x][i] = e)
        /\ \A x \in Server : Len(G[x]) <= Len(H[x])
        /\ Len(H[l]) = Len(G[l]) + 1 /\ H[l][Len(H[l])] = e
    BY <1>2 DEF Grown
  <1>3. Held(G, l, Len(G[l]), C[l])
    BY <1>1 DEF LeadersOwn
  <1>4. \A n, t : Settled(G, n, t) /\ C[l] > t => Held(G, l, n, t)
    BY <1>3 DEF Settled, Held
  <1>5. /\ Sorted(H) /\ Matching(H) /\ Known(H, C) /\ TermsTaken(H, C, V) /\ Covered(H, C, K)
    <2>1. Taken(C, V, C[l])
      BY <1>1, <1>3 DEF TermsTaken, Held
    <2>2. \A x \in Server : \A i \in 1..Len(G[x]) : G[x][i].term = C[l] => Held(G, l, i, C[l])
      BY <1>1 DEF LeadersOwn
    <2>3. \A n, t : Anchored(G, n, t) /\ C[l] > t => Held(G, l, n, t)
      BY <1>4 DEF Anchored
    <2> QED BY <2>1, <2>2, <2>3, GrownIsSafe
  <1>6. \A n, t : \A x \in Server : Held(G, x, n, t) => Held(H, x, n, t)
    BY <1>1, GrownKeeps
  <1>7. LeadersOwn(H, C, L)
    <2>1. ASSUME NEW m \in Server, L[m] = m PROVE Held(H, m, Len(H[m]), C[m])
      <3>1. CASE m = l
        BY <1>2, <1>a, <3>1 DEF Held
      <3>2. CASE m # l
        BY <1>1, <2>1, <3>2 DEF Grown, LeadersOwn, Held
      <3> QED BY <3>1, <3>2
    <2>2. ASSUME NEW m \in Server, L[m] = m, NEW x \in Server, NEW i \in 1..Len(H[x]),
                 H[x][i].term = C[m]
          PROVE  Held(H, m, i, C[m])
      <3>1. CASE i <= Len(G[x])
        <4>1. i \in 1..Len(G[x]) /\ G[x][i].term = C[m]
          BY <1>2, <1>a, <2>2, <3>1
        <4>2. Held(G, m, i, C[m])
          BY <1>1, <2>2, <4>1 DEF LeadersOwn
        <4> QED BY <1>6, <4>2
      <3>2. CASE x = l /\ i = Len(G[l]) + 1 /\ H[x][i] = e
        <4>1. m = l
          BY <1>1, <2>2, <3>2 DEF OneLeader
        <4> QED BY <2>2, <3>2, <4>1 DEF Held
      <3> QED BY <1>a, <3>1, <3>2
    <2> QED BY <2>1, <2>2 DEF LeadersOwn
  <1>8. Matched(H, L, M)
    <2>1. ASSUME NEW m \in Server, L[m] = m, NEW f \in Server PROVE M[m][f] <= Len(H[m])
      <3>1. M[m][f] <= Len(G[m]) /\ M[m][f] \in Nat
        BY <1>1, <2>1 DEF Matched
      <3> QED BY <1>2, <1>a, <3>1
    <2> QED BY <1>1, <2>1 DEF Matched
  <1>9. MayCommit(H, C, L, M)
    <2>1. ASSUME NEW m \in Server, L[m] = m, NEW n \in 1..Len(H[m]), H[m][n].term = C[m],
                 Quorum(MayAck(C, M, m, n))
          PROVE  Settled(H, n, C[m]) /\ \A f \in Server : M[m][f] >= n => Held(H, f, n, C[m])
      <3>1. CASE n <= Len(G[m])
        <4>1. n \in 1..Len(G[m]) /\ G[m][n].term = C[m]
          BY <1>2, <1>a, <2>1, <3>1
        <4>2. Settled(G, n, C[m]) /\ \A f \in Server : M[m][f] >= n => Held(G, f, n, C[m])
          BY <1>1, <2>1, <4>1 DEF MayCommit
        <4>3. Settled(H, n, C[m])
          BY <1>1, <1>4, <4>2, GrownKeeps
        <4> QED BY <1>6, <4>2, <4>3
      <3>2. CASE m = l /\ n = Len(G[l]) + 1
        <4>1. \A f \in Server : ~(M[l][f] >= n)
          <5>1. \A f \in Server : M[l][f] <= Len(G[l]) /\ M[l][f] \in Nat
            BY <1>1 DEF Matched
          <5> QED BY <1>2, <3>2, <5>1
        <4>2. \A x \in Server : \A i \in 1..Len(G[x]) : ~(G[x][i].term > C[l])
          BY <1>1, <2>1, <3>2, <4>1, NewIsLast
        <4>3. ASSUME NEW x \in Server, NEW i \in 1..Len(H[x]), H[x][i].term > C[l] PROVE FALSE
          <5>a. C[l] \in Nat /\ ~(e.term > C[l])
            BY <1>1
          <5>1. i <= Len(G[x])
            BY <1>a, <4>3, <5>a
          <5>2. i \in 1..Len(G[x]) /\ H[x][i] = G[x][i]
            BY <1>2, <1>a, <5>1
          <5> QED BY <4>2, <4>3, <5>2
        <4> QED BY <3>2, <4>1, <4>3 DEF Settled
      <3> QED BY <1>a, <3>1, <3>2
    <2> QED BY <2>1 DEF MayCommit
  <1> QED BY <1>1, <1>5, <1>7, <1>8, <1>9 DEF Safe

\* s starts to lead in its term with entry e: nobody has led in that term, and
\* the servers of E have voted for s, having logs no newer.
WinStep(G, H, C, V, L, P, s, e, E) ==
    /\ Grown(G, H, s, e) /\ e.term = C[s]
    /\ P[s] = s /\ \A l \in Server \ {s} : P[l] = L[l]
    /\ \A x \in Server : \A i \in 1..Len(G[x]) : G[x][i].term # C[s]
    /\ \A l \in Server : L[l] = l => C[l] # C[s]
    /\ E \in SUBSET Server /\ Quorum(E) /\ s \in E
    /\ \A v \in E : /\ C[v] = C[s] /\ V[v] # Nobody /\ L[v] # v
                    /\ v = s \/ Newer(G, s, v)

\* An election is safe.
LEMMA WinIsSafe ==
    ASSUME NEW G, NEW C, NEW V, NEW K, NEW L, NEW M, NEW H, NEW P, NEW s \in Server, NEW e,
           NEW E, Safe(G, C, V, K, L, M), WinStep(G, H, C, V, L, P, s, e, E)
    PROVE  Safe(H, C, V, K, P, M)
  <1>1. /\ IsLogs(G) /\ IsLogs(H) /\ C \in [Server -> Nat] /\ M \in [Server -> [Server -> Nat]]
        /\ Sorted(G) /\ Matching(G) /\ LeadersOwn(G, C, L) /\ OneLeader(C, L)
        /\ Matched(G, L, M) /\ MayCommit(G, C, L, M) /\ TermsTaken(G, C, V)
    BY DEF Safe, WinStep, Grown
  <1>2. \A x \in Server : Len(G[x]) \in Nat /\ Len(H[x]) \in Nat
    BY <1>1, LogTypes
  <1>3. Grown(G, H, s, e) /\ e.term = C[s]
    BY DEF WinStep
  <1>a. /\ \A x \in Server : \A i \in 1..Len(G[x]) : H[x][i] = G[x][i]
        /\ \A x \in Server : \A i \in 1..Len(H[x]) :
             i <= Len(G[x]) \/ (x = s /\ i = Len(G[s]) + 1 /\ H[x][i] = e)
        /\ \A x \in Server : Len(G[x]) <= Len(H[x])
        /\ Len(H[s]) = Len(G[s]) + 1 /\ H[s][Len(H[s])] = e
    BY <1>2, <1>3 DEF Grown
  <1>4. /\ E \in SUBSET Server /\ Quorum(E) /\ s \in E /\ L[s] # s
        /\ \A v \in E : C[v] = C[s] /\ V[v] # Nobody /\ L[v] # v
    BY DEF WinStep
  <1>5. ASSUME NEW n, NEW t, Settled(G, n, t), NEW v \in E, Held(G, v, n, t)
        PROVE  Held(G, s, n, t)
    <2>1. v = s \/ Newer(G, s, v)
      BY DEF WinStep
    <2> QED BY <1>1, <1>4, <1>5, <2>1, CandidateHolds
  <1>6. \A x \in Server : \A i \in 1..Len(G[x]) : G[x][i].term # C[s]
    BY DEF WinStep
  <1>7. /\ Sorted(H) /\ Matching(H) /\ Known(H, C) /\ TermsTaken(H, C, V) /\ Covered(H, C, K)
    <2>1. Taken(C, V, C[s])
      <3> DEFINE T == {v \in Server : C[v] > C[s] \/ (C[v] = C[s] /\ V[v] # Nobody)}
      <3>1. E \subseteq T /\ T \in SUBSET Server
        BY <1>4
      <3> HIDE DEF T
      <3>2. Quorum(T)
        BY <1>4, <3>1, QuorumGrows
      <3> QED BY <3>2 DEF T, Taken
    <2>2. \A x \in Server : \A i \in 1..Len(G[x]) : G[x][i].term = C[s] => Held(G, s, i, C[s])
      BY <1>6
    <2>3. ASSUME NEW n, NEW t, Anchored(G, n, t) PROVE Held(G, s, n, t)
      <3>1. Settled(G, n, t) /\ Quorum({x \in Server : Held(G, x, n, t)})
        BY <2>3 DEF Anchored
      <3>2. PICK v \in E : v \in {x \in Server : Held(G, x, n, t)}
        BY <1>4, <3>1, QuorumsMeet
      <3> QED BY <1>5, <3>1, <3>2
    <2>4. \A n, t : Anchored(G, n, t) /\ C[s] > t => Held(G, s, n, t)
      BY <2>3
    <2> QED BY <1>3, <2>1, <2>2, <2>4, GrownIsSafe
  <1>8. \A n, t : \A x \in Server : Held(G, x, n, t) => Held(H, x, n, t)
    BY <1>1, <1>3, GrownKeeps
  <1>9. \A l \in Server : P[l] = l => l = s \/ (L[l] = l /\ l # s /\ C[l] # C[s])
    BY DEF WinStep
  <1>10. LeadersOwn(H, C, P)
    <2>1. ASSUME NEW m \in Server, P[m] = m PROVE Held(H, m, Len(H[m]), C[m])
      <3>1. CASE m = s
        BY <1>2, <1>3, <1>a, <3>1 DEF Held
      <3>2. CASE m # s
        BY <1>1, <1>3, <1>9, <2>1, <3>2 DEF Grown, LeadersOwn, Held
      <3> QED BY <3>1, <3>2
    <2>2. ASSUME NEW m \in Server, P[m] = m, NEW x \in Server, NEW i \in 1..Len(H[x]),
                 H[x][i].term = C[m]
          PROVE  Held(H, m, i, C[m])
      <3>1. CASE i <= Len(G[x])
        <4>1. i \in 1..Len(G[x]) /\ G[x][i].term = C[m]
          BY <1>2, <1>a, <2>2, <3>1
        <4>2. m # s
          BY <1>6, <4>1
        <4>3. Held(G, m, i, C[m])
          BY <1>1, <1>9, <2>2, <4>1, <4>2 DEF LeadersOwn
        <4> QED BY <1>8, <4>3
      <3>2. CASE x = s /\ i = Len(G[s]) + 1 /\ H[x][i] = e
        <4>1. m = s
          BY <1>3, <1>9, <2>2, <3>2
        <4> QED BY <2>2, <3>2, <4>1 DEF Held
      <3> QED BY <1>a, <3>1, <3>2
    <2> QED BY <2>1, <2>2 DEF LeadersOwn
  <1>11. OneLeader(C, P)
    BY <1>1, <1>9 DEF OneLeader
  <1>12. M[s] = NoMatch
    BY <1>1, <1>4 DEF Matched
  <1>13. Matched(H, P, M)
    <2>1. ASSUME NEW m \in Server, P[m] = m, NEW f \in Server PROVE M[m][f] <= Len(H[m])
      <3>1. CASE m = s
        BY <1>2, <1>12, <3>1 DEF NoMatch
      <3>2. CASE m # s
        <4>1. M[m][f] <= Len(G[m]) /\ M[m][f] \in Nat
          BY <1>1, <1>9, <2>1, <3>2 DEF Matched
        <4> QED BY <1>2, <1>a, <4>1
      <3> QED BY <3>1, <3>2
    <2>2. ASSUME NEW m \in Server, P[m] # m PROVE M[m] = NoMatch
      BY <1>1, <2>2 DEF WinStep, Matched
    <2> QED BY <2>1, <2>2 DEF Matched
  <1>14. MayCommit(H, C, P, M)
    <2>1. ASSUME NEW m \in Server, P[m] = m, NEW n \in 1..Len(H[m]), H[m][n].term = C[m],
                 Quorum(MayAck(C, M, m, n))
          PROVE  Settled(H, n, C[m]) /\ \A f \in Server : M[m][f] >= n => Held(H, f, n, C[m])
      <3>1. CASE m # s
        <4>1. n \in 1..Len(G[m]) /\ G[m][n].term = C[m] /\ L[m] = m /\ C[m] # C[s]
          BY <1>2, <1>3, <1>9, <2>1, <3>1 DEF Grown
        <4>2. Settled(G, n, C[m]) /\ \A f \in Server : M[m][f] >= n => Held(G, f, n, C[m])
          BY <1>1, <2>1, <4>1 DEF MayCommit
        <4>3. C[s] > C[m] => Held(G, s, n, C[m])
          <5> SUFFICES ASSUME C[s] > C[m] PROVE Held(G, s, n, C[m])
            OBVIOUS
          <5>1. MayAck(C, M, m, n) \in SUBSET Server
            BY DEF MayAck
          <5>2. PICK v \in E : v \in MayAck(C, M, m, n)
            BY <1>4, <2>1, <5>1, QuorumsMeet
          <5>3. v \in Server /\ v # m /\ ~(C[v] <= C[m])
            BY <1>1, <1>4, <4>1, <5>2
          <5>4. Held(G, v, n, C[m])
            BY <4>2, <5>2, <5>3 DEF MayAck
          <5> QED BY <1>5, <4>2, <5>4
        <4>4. Settled(H, n, C[m])
          BY <1>1, <1>3, <4>2, <4>3, GrownKeeps
        <4> QED BY <1>8, <4>2, <4>4
      <3>2. CASE m = s
        <4>1. \A f \in Server : ~(M[s][f] >= n)
          BY <1>2, <1>12, <2>1, <3>2 DEF NoMatch
        <4>2. \A x \in Server : \A i \in 1..Len(G[x]) : ~(G[x][i].term > C[s])
          BY <1>1, <2>1, <3>2, <4>1, NewIsLast
        <4>3. ASSUME NEW x \in Server, NEW i \in 1..Len(H[x]), H[x][i].term > C[s] PROVE FALSE
          <5>1. i <= Len(G[x])
            BY <1>1, <1>3, <1>a, <4>3
          <5>2. i \in 1..Len(G[x]) /\ H[x][i] = G[x][i]
            BY <1>2, <1>a, <5>1
          <5> QED BY <4>2, <4>3, <5>2
        <4> QED BY <3>2, <4>1, <4>3 DEF Settled
      <3> QED BY <3>1, <3>2
    <2> QED BY <2>1 DEF MayCommit
  <1>15. K \in [Server -> Nat]
    BY DEF Safe
  <1> QED BY <1>1, <1>7, <1>10, <1>11, <1>13, <1>14, <1>15 DEF Safe

----------------------------------------------------------------------------
(* Steps that copy                                                         *)

\* f takes over the first k entries of its leader l, those before the last
\* being its own already, and more than it has committed.
CopyStep(G, H, C, K, L, f, l, k) ==
    /\ Copied(G, H, f, l, k)
    /\ L[l] = l /\ f # l /\ L[f] # f /\ C[f] = C[l] /\ K[f] < k
    /\ \A i \in 1..(k - 1) : i <= Len(G[f]) /\ G[f][i] = G[l][i]

\* Replication is safe.
LEMMA CopyIsSafe ==
    ASSUME NEW G, NEW C, NEW V, NEW K, NEW L, NEW M, NEW H, NEW f \in Server, NEW l \in Server,
           NEW k, Safe(G, C, V, K, L, M), CopyStep(G, H, C, K, L, f, l, k)
    PROVE  Safe(H, C, V, K, L, M)
  <1>1. /\ IsLogs(G) /\ IsLogs(H) /\ C \in [Server -> Nat] /\ K \in [Server -> Nat]
        /\ M \in [Server -> [Server -> Nat]]
        /\ Sorted(G) /\ Matching(G) /\ Known(G, C) /\ LeadersOwn(G, C, L) /\ OneLeader(C, L)
        /\ Matched(G, L, M) /\ MayCommit(G, C, L, M) /\ TermsTaken(G, C, V) /\ Covered(G, C, K)
    BY DEF Safe, CopyStep, Copied
  <1>2. \A x \in Server : Len(G[x]) \in Nat /\ Len(H[x]) \in Nat
    BY <1>1, LogTypes
  <1>3. /\ Copied(G, H, f, l, k) /\ L[l] = l /\ f # l /\ L[f] # f /\ C[f] = C[l] /\ K[f] < k
        /\ k \in 1..Len(G[l]) /\ k \in Nat /\ Len(H[f]) = k
        /\ \A i \in 1..(k - 1) : i <= Len(G[f]) /\ G[f][i] = G[l][i]
        /\ \A i \in 1..k : H[f][i] = G[l][i]
        /\ \A x \in Server : x # f => H[x] = G[x]
    BY <1>2 DEF CopyStep, Copied
  <1>4. Sorted(H) /\ Matching(H)
    BY <1>1, <1>3, CopiedBegins, BeginningsMatch
  <1>5. \A x \in Server : \A i \in 1..Len(H[x]) :
            \/ x # f /\ i \in 1..Len(G[x]) /\ H[x][i] = G[x][i]
            \/ x = f /\ i \in 1..Len(G[l]) /\ H[x][i] = G[l][i]
    BY <1>2, <1>3
  <1>6. Known(H, C)
    <2>1. ASSUME NEW x \in Server, NEW i \in 1..Len(H[x]) PROVE H[x][i].term <= C[x]
      BY <1>1, <1>3, <1>5 DEF Known
    <2> QED BY <2>1 DEF Known
  <1>7. TermsTaken(H, C, V)
    <2>1. ASSUME NEW x \in Server, NEW i \in 1..Len(H[x]) PROVE Taken(C, V, H[x][i].term)
      BY <1>1, <1>5 DEF TermsTaken
    <2> QED BY <2>1 DEF TermsTaken
  <1>8. LeadersOwn(H, C, L)
    <2>1. ASSUME NEW m \in Server, L[m] = m
          PROVE  /\ Held(H, m, Len(H[m]), C[m])
                 /\ \A s \in Server : \A i \in 1..Len(H[s]) :
                        H[s][i].term = C[m] => Held(H, m, i, C[m])
      <3>1. m # f /\ H[m] = G[m]
        BY <1>3, <2>1
      <3>2. \A s \in Server : \A i \in 1..Len(G[s]) : G[s][i].term = C[m] => Held(G, m, i, C[m])
        BY <1>1, <2>1 DEF LeadersOwn
      <3>3. Held(G, m, Len(G[m]), C[m])
        BY <1>1, <2>1 DEF LeadersOwn
      <3>4. \A i : Held(G, m, i, C[m]) => Held(H, m, i, C[m])
        BY <3>1 DEF Held
      <3>5. Held(H, m, Len(H[m]), C[m])
        BY <3>1, <3>3, <3>4
      <3>6. ASSUME NEW s \in Server, NEW i \in 1..Len(H[s]), H[s][i].term = C[m]
            PROVE  Held(G, m, i, C[m])
        BY <1>5, <3>2, <3>6
      <3> QED BY <3>4, <3>5, <3>6
    <2> QED BY <2>1 DEF LeadersOwn
  <1>9. Matched(H, L, M)
    <2>1. ASSUME NEW m \in Server
          PROVE  IF L[m] = m THEN \A g \in Server : M[m][g] <= Len(H[m]) ELSE M[m] = NoMatch
      <3>1. CASE L[m] = m
        <4>1. H[m] = G[m]
          BY <1>3, <3>1
        <4> QED BY <1>1, <3>1, <4>1 DEF Matched
      <3>2. CASE L[m] # m
        BY <1>1, <3>2 DEF Matched
      <3> QED BY <3>1, <3>2
    <2> QED BY <2>1 DEF Matched
  <1>10. \A n, t : Held(G, f, n, t) /\ Settled(G, n, t) => Held(G, l, n, t)
    <2>1. ASSUME NEW n, NEW t, Held(G, f, n, t), Settled(G, n, t) PROVE Held(G, l, n, t)
      <3>1. t <= C[l]
        BY <1>1, <1>3, <2>1 DEF Held, Known
      <3> QED BY <1>1, <1>3, <2>1, <3>1, LeaderHolds
    <2> QED BY <2>1
  <1>11. \A n, t : Settled(G, n, t) =>
            Settled(H, n, t) /\ \A x \in Server : Held(G, x, n, t) => Held(H, x, n, t)
    BY <1>1, <1>3, <1>10, CopiedKeeps
  <1>12. MayCommit(H, C, L, M)
    <2>1. ASSUME NEW m \in Server, L[m] = m, NEW n \in 1..Len(H[m]), H[m][n].term = C[m],
                 Quorum(MayAck(C, M, m, n))
          PROVE  Settled(H, n, C[m]) /\ \A g \in Server : M[m][g] >= n => Held(H, g, n, C[m])
      <3>1. H[m] = G[m]
        BY <1>3, <2>1
      <3>2. n \in 1..Len(G[m]) /\ G[m][n].term = C[m]
        BY <2>1, <3>1
      <3>3. Settled(G, n, C[m]) /\ \A g \in Server : M[m][g] >= n => Held(G, g, n, C[m])
        BY <1>1, <2>1, <3>2 DEF MayCommit
      <3> QED BY <1>11, <3>3
    <2> QED BY <2>1 DEF MayCommit
  <1>13. Covered(H, C, K)
    <2>1. ASSUME NEW s \in Server, K[s] > 0 PROVE \E n, t \in Nat : Covers(H, C, K, s, n, t)
      <3>1. PICK n \in Nat, t \in Nat : Covers(G, C, K, s, n, t)
        BY <1>1, <2>1 DEF Covered
      <3>2. /\ Settled(G, n, t) /\ Quorum({x \in Server : Held(G, x, n, t)})
            /\ K[s] <= n /\ t <= C[s] /\ K[s] <= Len(G[s]) /\ K[s] \in Nat
            /\ \A m \in Server : Held(G, m, n, t) => \A i \in 1..K[s] : G[m][i] = G[s][i]
        BY <1>1, <3>1 DEF Covers, Anchored, Covered
      <3>3. Anchored(H, n, t)
        <4>1. Settled(H, n, t) /\ \A x \in Server : Held(G, x, n, t) => Held(H, x, n, t)
          BY <1>11, <3>2
        <4>2. {x \in Server : Held(G, x, n, t)} \subseteq {x \in Server : Held(H, x, n, t)}
          BY <4>1
        <4>3. {x \in Server : Held(H, x, n, t)} \in SUBSET Server
          OBVIOUS
        <4>4. Quorum({x \in Server : Held(H, x, n, t)})
          BY <3>2, <4>2, <4>3, QuorumGrows
        <4> QED BY <4>1, <4>4 DEF Anchored
      <3>4. \A i \in 1..K[s] : H[s][i] = G[s][i]
        <4>1. CASE s # f
          BY <1>3, <4>1
        <4>2. CASE s = f
          <5>1. \A i \in 1..K[s] : i \in 1..k /\ i \in 1..(k - 1)
            BY <1>3, <3>2, <4>2
          <5> QED BY <1>3, <4>2, <5>1
        <4> QED BY <4>1, <4>2
      <3>5. ASSUME NEW m \in Server, Held(H, m, n, t), NEW i \in 1..K[s]
            PROVE  H[m][i] = H[s][i]
        <4>1. CASE m # f
          <5>1. Held(G, m, n, t) /\ H[m] = G[m]
            BY <1>3, <3>5, <4>1 DEF Held
          <5> QED BY <3>2, <3>4, <5>1
        <4>2. CASE m = f
          <5>1. n \in 1..k /\ H[f][n].term = t
            BY <1>3, <3>5, <4>2 DEF Held
          <5>2. n \in 1..Len(G[l]) /\ G[l][n].term = t
            BY <1>2, <1>3, <5>1
          <5>3. Held(G, l, n, t)
            BY <5>2 DEF Held
          <5>4. i \in 1..k
            BY <1>3, <3>2, <5>1
          <5> QED BY <1>3, <3>2, <3>4, <4>2, <5>3, <5>4
        <4> QED BY <4>1, <4>2
      <3> QED BY <3>2, <3>3, <3>5 DEF Covers
    <2>2. ASSUME NEW s \in Server PROVE K[s] <= Len(H[s])
      <3>1. CASE s = f
        BY <1>1, <1>3, <3>1
      <3>2. CASE s # f
        BY <1>1, <1>3, <3>2 DEF Covered
      <3> QED BY <3>1, <3>2
    <2> QED BY <2>1, <2>2 DEF Covered
  <1> QED BY <1>1, <1>4, <1>6, <1>7, <1>8, <1>9, <1>12, <1>13 DEF Safe

----------------------------------------------------------------------------
(* Commit indices                                                          *)

\* The committed entries of any two servers are the same.
Agree(G, K) ==
    \A s, r \in Server : \A i \in 1..K[s] : i <= K[r] => G[s][i] = G[r][i]

\* Both were anchored, and two quorums meet.
LEMMA CommitsAgree ==
    ASSUME NEW G, NEW C, NEW V, NEW K, NEW L, NEW M, Safe(G, C, V, K, L, M)
    PROVE  Agree(G, K)
  <1> SUFFICES ASSUME NEW s \in Server, NEW r \in Server, NEW i \in 1..K[s], i <= K[r]
               PROVE  G[s][i] = G[r][i]
    BY DEF Agree
  <1>0. i \in 1..K[s] /\ i \in 1..K[r]
    BY DEF Safe
  <1>1. K[s] \in Nat /\ K[r] \in Nat /\ K[s] > 0 /\ K[r] > 0 /\ Covered(G, C, K)
    BY <1>0 DEF Safe
  <1>2. PICK n \in Nat, t \in Nat : Covers(G, C, K, s, n, t)
    BY <1>1 DEF Covered
  <1>3. PICK p \in Nat, u \in Nat : Covers(G, C, K, r, p, u)
    BY <1>1 DEF Covered
  <1>4. Quorum({x \in Server : Held(G, x, n, t)}) /\ Quorum({x \in Server : Held(G, x, p, u)})
    BY <1>2, <1>3 DEF Covers, Anchored
  <1>5. PICK m \in {x \in Server : Held(G, x, n, t)} : m \in {x \in Server : Held(G, x, p, u)}
    BY <1>4, QuorumsMeet
  <1>6. G[m][i] = G[s][i]
    BY <1>0, <1>2, <1>5 DEF Covers
  <1>7. G[m][i] = G[r][i]
    BY <1>0, <1>3, <1>5 DEF Covers
  <1> QED BY <1>6, <1>7

\* A leader has what servers of its term and earlier ones have committed.
LEMMA LeaderHasCommitted ==
    ASSUME NEW G, NEW C, NEW V, NEW K, NEW L, NEW M, NEW s \in Server, NEW l \in Server,
           Safe(G, C, V, K, L, M), L[l] = l, C[s] <= C[l], NEW i \in 1..K[s]
    PROVE  K[s] <= Len(G[l]) /\ i <= Len(G[l]) /\ G[l][i] = G[s][i]
  <1>1. /\ IsLogs(G) /\ C \in [Server -> Nat] /\ K[s] \in Nat /\ LeadersOwn(G, C, L)
        /\ Covered(G, C, K) /\ K[s] > 0 /\ Len(G[l]) \in Nat
    BY LogTypes DEF Safe
  <1>2. PICK n \in Nat, t \in Nat : Covers(G, C, K, s, n, t)
    BY <1>1 DEF Covered
  <1>3. /\ Settled(G, n, t) /\ Quorum({x \in Server : Held(G, x, n, t)})
        /\ K[s] <= n /\ t <= C[s]
    BY <1>2 DEF Covers, Anchored
  <1>4. PICK m \in Server : Held(G, m, n, t)
    BY <1>3, QuorumHasOne
  <1>5. Held(G, l, n, t)
    <2>1. t <= C[l]
      BY <1>1, <1>3
    <2> QED BY <1>1, <1>3, <1>4, <2>1, LeaderHolds
  <1>6. G[l][i] = G[s][i]
    BY <1>2, <1>5 DEF Covers
  <1>7. n <= Len(G[l])
    BY <1>5 DEF Held
  <1> QED BY <1>1, <1>3, <1>6, <1>7

\* f learns that the first c entries of its leader are committed, and has them.
FollowStep(G, C, K, L, J, f, l, c) ==
    /\ J = [K EXCEPT ![f] = c]
    /\ L[l] = l /\ C[f] = C[l] /\ c \in 0..K[l]
    /\ \A i \in 1..c : i <= Len(G[f]) /\ G[f][i] = G[l][i]

\* A follower may commit what its leader has.
LEMMA FollowIsSafe ==
    ASSUME NEW G, NEW C, NEW V, NEW K, NEW L, NEW M, NEW J, NEW f \in Server, NEW l \in Server,
           NEW c, Safe(G, C, V, K, L, M), FollowStep(G, C, K, L, J, f, l, c)
    PROVE  Safe(G, C, V, J, L, M)
  <1>1. /\ C \in [Server -> Nat] /\ K \in [Server -> Nat] /\ Covered(G, C, K)
        /\ Len(G[f]) \in Nat
    BY LogTypes DEF Safe
  <1>2. /\ J = [K EXCEPT ![f] = c] /\ C[f] = C[l] /\ c \in Nat /\ c <= K[l]
        /\ \A i \in 1..c : i <= Len(G[f]) /\ G[f][i] = G[l][i]
    BY <1>1 DEF FollowStep
  <1>3. J \in [Server -> Nat] /\ J[f] = c /\ \A s \in Server : s # f => J[s] = K[s]
    BY <1>1, <1>2
  <1>4. ASSUME NEW s \in Server, J[s] > 0 PROVE \E n, t \in Nat : Covers(G, C, J, s, n, t)
    <2>1. CASE s # f
      <3>1. PICK n \in Nat, t \in Nat : Covers(G, C, K, s, n, t)
        BY <1>1, <1>3, <1>4, <2>1 DEF Covered
      <3>2. Covers(G, C, J, s, n, t)
        BY <1>3, <2>1, <3>1 DEF Covers
      <3> QED BY <3>2
    <2>2. CASE s = f
      <3>1. K[l] > 0 /\ K[l] \in Nat
        BY <1>1, <1>2, <1>3, <1>4, <2>2
      <3>2. PICK n \in Nat, t \in Nat : Covers(G, C, K, l, n, t)
        BY <1>1, <3>1 DEF Covered
      <3>3. /\ Anchored(G, n, t) /\ K[l] <= n /\ t <= C[l]
            /\ \A m \in Server : Held(G, m, n, t) => \A i \in 1..K[l] : G[m][i] = G[l][i]
        BY <3>2 DEF Covers
      <3>4. J[f] <= n /\ t <= C[f]
        BY <1>2, <1>3, <3>1, <3>3
      <3>5. ASSUME NEW m \in Server, Held(G, m, n, t), NEW i \in 1..J[f] PROVE G[m][i] = G[f][i]
        <4>1. i \in 1..K[l] /\ i \in 1..c
          BY <1>2, <1>3, <3>1
        <4> QED BY <1>2, <3>3, <3>5, <4>1
      <3>6. Covers(G, C, J, f, n, t)
        BY <3>3, <3>4, <3>5 DEF Covers
      <3> QED BY <2>2, <3>6
    <2> QED BY <2>1, <2>2
  <1>5. ASSUME NEW s \in Server PROVE J[s] <= Len(G[s])
    <2>1. CASE s = f
      <3>1. c = 0 \/ c \in 1..c
        BY <1>2
      <3> QED BY <1>1, <1>2, <1>3, <2>1, <3>1
    <2>2. CASE s # f
      BY <1>1, <1>3, <2>2 DEF Covered
    <2> QED BY <2>1, <2>2
  <1>6. Covered(G, C, J)
    BY <1>4, <1>5 DEF Covered
  <1> QED BY <1>3, <1>6 DEF Safe

\* A quorum has acknowledged entry n of l, which is of its term.
CommitStep(G, C, K, L, M, J, l, n) ==
    /\ J = [K EXCEPT ![l] = n]
    /\ L[l] = l /\ n \in 1..Len(G[l]) /\ G[l][n].term = C[l]
    /\ Quorum({l} \cup {f \in Server : M[l][f] >= n})

\* A leader may commit what a quorum has acknowledged.
LEMMA CommitIsSafe ==
    ASSUME NEW G, NEW C, NEW V, NEW K, NEW L, NEW M, NEW J, NEW l \in Server, NEW n,
           Safe(G, C, V, K, L, M), CommitStep(G, C, K, L, M, J, l, n)
    PROVE  Safe(G, C, V, J, L, M)
  <1>1. /\ IsLogs(G) /\ C \in [Server -> Nat] /\ K \in [Server -> Nat] /\ Covered(G, C, K)
        /\ Matching(G) /\ MayCommit(G, C, L, M) /\ Len(G[l]) \in Nat
    BY LogTypes DEF Safe
  <1>2. /\ J = [K EXCEPT ![l] = n] /\ L[l] = l /\ n \in 1..Len(G[l]) /\ G[l][n].term = C[l]
        /\ Quorum({l} \cup {f \in Server : M[l][f] >= n}) /\ n \in Nat /\ C[l] \in Nat
    BY <1>1 DEF CommitStep
  <1>3. J \in [Server -> Nat] /\ J[l] = n /\ \A s \in Server : s # l => J[s] = K[s]
    BY <1>1, <1>2
  <1>4. Held(G, l, n, C[l])
    BY <1>2 DEF Held
  <1>5. Settled(G, n, C[l]) /\ \A f \in Server : M[l][f] >= n => Held(G, f, n, C[l])
    <2>1. {l} \cup {f \in Server : M[l][f] >= n} \subseteq MayAck(C, M, l, n)
      BY DEF MayAck
    <2>2. MayAck(C, M, l, n) \in SUBSET Server
      BY DEF MayAck
    <2>3. Quorum(MayAck(C, M, l, n))
      BY <1>2, <2>1, <2>2, QuorumGrows
    <2> QED BY <1>1, <1>2, <2>3 DEF MayCommit
  <1>6. Covers(G, C, J, l, n, C[l])
    <2>1. {l} \cup {f \in Server : M[l][f] >= n} \subseteq {x \in Server : Held(G, x, n, C[l])}
      BY <1>4, <1>5
    <2>2. {x \in Server : Held(G, x, n, C[l])} \in SUBSET Server
      OBVIOUS
    <2>3. Quorum({x \in Server : Held(G, x, n, C[l])})
      BY <1>2, <2>1, <2>2, QuorumGrows
    <2>4. ASSUME NEW m \in Server, Held(G, m, n, C[l]), NEW i \in 1..J[l]
          PROVE  G[m][i] = G[l][i]
      <3>1. i \in 1..n
        BY <1>3
      <3> QED BY <1>1, <1>4, <2>4, <3>1, HeldMatches
    <2> QED BY <1>2, <1>3, <1>5, <2>3, <2>4 DEF Covers, Anchored
  <1>7. ASSUME NEW s \in Server, J[s] > 0 PROVE \E p, t \in Nat : Covers(G, C, J, s, p, t)
    <2>1. CASE s # l
      <3>1. PICK p \in Nat, t \in Nat : Covers(G, C, K, s, p, t)
        BY <1>1, <1>3, <1>7, <2>1 DEF Covered
      <3>2. Covers(G, C, J, s, p, t)
        BY <1>3, <2>1, <3>1 DEF Covers
      <3> QED BY <3>2
    <2>2. CASE s = l
      BY <1>2, <1>6, <2>2
    <2> QED BY <2>1, <2>2
  <1>8. ASSUME NEW s \in Server PROVE J[s] <= Len(G[s])
    <2>1. CASE s = l
      BY <1>1, <1>2, <1>3, <2>1
    <2>2. CASE s # l
      BY <1>1, <1>3, <2>2 DEF Covered
    <2> QED BY <2>1, <2>2
  <1>9. Covered(G, C, J)
    BY <1>7, <1>8 DEF Covered
  <1> QED BY <1>3, <1>9 DEF Safe

----------------------------------------------------------------------------
(* What the stores hold                                                    *)

\* A store with a vote.
LEMMA VoteStore ==
    ASSUME NEW log, NEW t, NEW v, NEW c, NEW y, NEW b, b = StoreOf(log, t, v, c)
    PROVE  [b EXCEPT !.hs.vote = y] = StoreOf(log, t, y, c)
  BY DEF StoreOf

\* Such a store is Stored.
LEMMA StoreOfIsStored ==
    ASSUME NEW log \in Seq(Entry), NEW t \in Nat, NEW v \in Server \cup {Nobody}, NEW c \in Nat
    PROVE  Stored(StoreOf(log, t, v, c))
  <1> DEFINE st == StoreOf(log, t, v, c)
  <1>1. st.entries = log /\ st.hs.term = t /\ st.hs.vote = v /\ st.hs.commit = c
    BY DEF StoreOf
  <1> HIDE DEF st
  <1>2. st = StoreOf(log, t, v, c)
    BY DEF st
  <1>3. Stored(st)
    BY <1>1, <1>2 DEF Stored
  <1> QED BY <1>3 DEF st

\* The first snapshot covers nothing.
LEMMA BootSnapshot ==
    /\ Boot.snap.index = 0 /\ Boot.snap.term = 0 /\ Boot.snap # NoSnapshot
    /\ Stored(Boot) /\ Boot.entries = << >>
    /\ Boot.hs = [term |-> 0, vote |-> Nobody, commit |-> 0]
  <1> DEFINE conf == CHOOSE c \in Confs : TRUE
             snap == [index |-> 0, term |-> 0, conf |-> conf, data |-> NoData]
             boot == [entries |-> << >>, snap |-> snap,
                      hs |-> [term |-> 0, vote |-> Nobody, commit |-> 0],
                      conf |-> conf, applied |-> 0]
  <1>1. conf \in Confs
    BY ClusterConstants
  <1>2. snap \in Snapshot /\ snap # NoSnapshot
    BY <1>1, StorageConstants DEF Snapshot
  <1>3. Boot = boot
    <2>1. \A c : [EmptyStore EXCEPT
                    !.snap = [index |-> 0, term |-> 0, conf |-> c, data |-> NoData],
                    !.conf = c, !.hs.vote = Nobody]
                 = [entries |-> << >>,
                    snap |-> [index |-> 0, term |-> 0, conf |-> c, data |-> NoData],
                    hs |-> [term |-> 0, vote |-> Nobody, commit |-> 0],
                    conf |-> c, applied |-> 0]
      <3> TAKE c
      <3> DEFINE a == [EmptyStore EXCEPT
                    !.snap = [index |-> 0, term |-> 0, conf |-> c, data |-> NoData],
                    !.conf = c]
      <3>1. a = [entries |-> << >>,
                 snap |-> [index |-> 0, term |-> 0, conf |-> c, data |-> NoData],
                 hs |-> [term |-> 0, vote |-> 0, commit |-> 0],
                 conf |-> c, applied |-> 0]
        <4> DEFINE b == [EmptyStore EXCEPT
                            !.snap = [index |-> 0, term |-> 0, conf |-> c, data |-> NoData]]
        <4>1. a = [b EXCEPT !.conf = c]
          OBVIOUS
        <4>2. b = [entries |-> << >>,
                   snap |-> [index |-> 0, term |-> 0, conf |-> c, data |-> NoData],
                   hs |-> [term |-> 0, vote |-> 0, commit |-> 0],
                   conf |-> NoConf, applied |-> 0]
          BY DEF EmptyStore, NoHardState
        <4> HIDE DEF b
        <4> QED BY <4>1, <4>2
      <3> HIDE DEF a
      <3>2. [a EXCEPT !.hs.vote = Nobody]
                 = [entries |-> << >>,
                    snap |-> [index |-> 0, term |-> 0, conf |-> c, data |-> NoData],
                    hs |-> [term |-> 0, vote |-> Nobody, commit |-> 0],
                    conf |-> c, applied |-> 0]
        BY <3>1
      <3> QED BY <3>2 DEF a
    <2> QED BY <2>1 DEF Boot
  <1>4. Boot.snap = snap /\ Boot.conf = conf /\ boot.snap = snap /\ boot.conf = conf
    BY <1>3
  <1>5. Stored(boot)
    <2>1. << >> \in Seq(Entry)
      BY EmptySeq
    <2>2. boot = StoreOf(<< >>, 0, Nobody, 0)
      BY <1>4 DEF StoreOf
    <2> QED BY <2>1, <2>2, StoreOfIsStored
  <1> QED BY <1>2, <1>3, <1>4, <1>5

\* The last index is the length of the log, and terms are those of its entries.
LEMMA StoredReads ==
    ASSUME NEW st, Stored(st)
    PROVE  /\ last_index(st) = Len(st.entries) /\ Len(st.entries) \in Nat
           /\ DOMAIN st.entries = 1..Len(st.entries)
           /\ term(st, 0) = 0
           /\ \A i \in 1..Len(st.entries) : term(st, i) = st.entries[i].term
           /\ \A i \in Nat : i > Len(st.entries) => term(st, i) = Unavailable
  <1>1. /\ st.entries \in Seq(Entry) /\ st.snap = Boot.snap
    <2>1. st = StoreOf(st.entries, st.hs.term, st.hs.vote, st.hs.commit)
          /\ st.entries \in Seq(Entry)
      BY DEF Stored
    <2> QED BY <2>1 DEF StoreOf
  <1>2. /\ Len(st.entries) \in Nat /\ DOMAIN st.entries = 1..Len(st.entries)
        /\ HasSnapshot(st) /\ st.snap.index = 0 /\ st.snap.term = 0
    BY <1>1, BootSnapshot, LenProperties DEF HasSnapshot
  <1>3. last_index(st) = Len(st.entries)
    <2>1. CASE Len(st.entries) = 0
      BY <1>2, <2>1 DEF last_index
    <2>2. CASE Len(st.entries) # 0
      <3>1. Len(st.entries) \in 1..Len(st.entries)
            /\ \A j \in 1..Len(st.entries) : j <= Len(st.entries)
        BY <1>2, <2>2
      <3>2. Highest(1..Len(st.entries)) = Len(st.entries)
        BY <1>2, <3>1 DEF Highest
      <3> QED BY <1>2, <2>2, <3>1, <3>2 DEF last_index
    <2> QED BY <2>1, <2>2
  <1>4. /\ term(st, 0) = 0
        /\ \A i \in 1..Len(st.entries) : term(st, i) = st.entries[i].term
        /\ \A i \in Nat : i > Len(st.entries) => term(st, i) = Unavailable
    BY <1>2 DEF term
  <1> QED BY <1>2, <1>3, <1>4

\* The last index after an append behind `base`: MemStorage drops what
\* follows, the disk backend keeps it.
Top(st, base) ==
    IF backend = "disk" /\ Len(st.entries) > base THEN Len(st.entries) ELSE base + 1

\* What append makes of a log.
LEMMA AppendedIs ==
    ASSUME NEW st, NEW base, NEW e \in Entry, Stored(st), base \in 0..Len(st.entries)
    PROVE  LET a == Appended(st, base, e)
           IN  /\ Stored(a) /\ a.hs = st.hs /\ Len(a.entries) = Top(st, base)
               /\ a.entries[base + 1] = e
               /\ \A i \in 1..base : a.entries[i] = st.entries[i]
  <1> DEFINE kept == IF backend = "disk" THEN st.entries ELSE [i \in 1..base |-> st.entries[i]]
             top == Top(st, base)
             es == InsertFirst(kept, base, <<e>>, 1)
             a == Appended(st, base, e)
  <1>1. /\ Len(st.entries) \in Nat /\ base \in Nat /\ st.entries \in Seq(Entry)
        /\ base <= Len(st.entries) /\ DOMAIN st.entries = 1..Len(st.entries)
        /\ \A i \in 1..Len(st.entries) : st.entries[i] \in Entry
    <2>1. Len(st.entries) \in Nat /\ st.entries \in Seq(Entry)
          /\ DOMAIN st.entries = 1..Len(st.entries)
      BY StoredReads DEF Stored
    <2> QED BY <2>1, ElementOfSeq
  <1>2. a = [st EXCEPT !.entries = es]
    <2>1. CASE backend = "disk"
      <3>1. append_writes(st, base, <<e>>)
              = [k \in 1..1 |-> [st EXCEPT !.entries = InsertFirst(st.entries, base, <<e>>, k)]]
        BY DEF append_writes
      <3>2. append_writes(st, base, <<e>>)[1]
              = [st EXCEPT !.entries = InsertFirst(st.entries, base, <<e>>, 1)]
        BY <3>1
      <3> QED BY <2>1, <3>2 DEF Appended
    <2>2. CASE backend # "disk"
      BY <2>2 DEF Appended
    <2> QED BY <2>1, <2>2
  <1>3. /\ top \in Nat /\ base + 1 <= top
        /\ es = [i \in 1..top |-> IF i = base + 1 THEN e ELSE st.entries[i]]
        /\ \A i \in 1..top : i # base + 1 => i \in 1..Len(st.entries)
    <2>1. /\ top \in Nat /\ base + 1 <= top
          /\ DOMAIN kept \cup (base + 1)..(base + 1) = 1..top
          /\ \A i \in 1..top : i # base + 1 =>
                kept[i] = st.entries[i] /\ i \in 1..Len(st.entries)
      <3>1. CASE backend = "disk" /\ Len(st.entries) > base
        BY <1>1, <3>1 DEF Top
      <3>2. CASE backend = "disk" /\ Len(st.entries) = base
        BY <1>1, <3>2 DEF Top
      <3>3. CASE backend # "disk"
        BY <1>1, <3>3 DEF Top
      <3> QED BY <1>1, <3>1, <3>2, <3>3
    <2>2. \A i \in 1..top : i \in (base + 1)..(base + 1) <=> i = base + 1
      BY <1>1, <2>1
    <2>3. \A i \in 1..top : i = base + 1 => <<e>>[i - base] = e
      BY <1>1, <2>1
    <2> HIDE DEF top, kept
    <2>4. es = [i \in 1..top |->
                  IF i \in (base + 1)..(base + 1) THEN <<e>>[i - base] ELSE kept[i]]
      BY <2>1 DEF InsertFirst
    <2> HIDE DEF es
    <2> QED BY <2>1, <2>2, <2>3, <2>4
  <1> HIDE DEF es, top
  <1>4. es \in [1..top -> Entry]
    BY <1>1, <1>3
  <1>5. es \in Seq(Entry) /\ Len(es) = top
    BY <1>3, <1>4, SeqDef, LenProperties
  <1>6. es[base + 1] = e /\ \A i \in 1..base : es[i] = st.entries[i]
    <2>1. base + 1 \in 1..top /\ \A i \in 1..base : i \in 1..top /\ i # base + 1
      BY <1>1, <1>3
    <2> QED BY <1>3, <2>1
  <1>7. Stored(a) /\ a.hs = st.hs /\ a.entries = es
    <2>1. PICK log \in Seq(Entry), u \in Nat, v \in Server \cup {Nobody}, c \in Nat :
            st = StoreOf(log, u, v, c)
      BY DEF Stored
    <2>2. a = StoreOf(es, u, v, c)
      BY <1>2, <2>1 DEF StoreOf
    <2>3. Stored(a)
      BY <1>5, <2>2, StoreOfIsStored
    <2>4. a.hs = [term |-> u, vote |-> v, commit |-> c] /\ a.entries = es
      BY <2>2 DEF StoreOf
    <2>5. st.hs = [term |-> u, vote |-> v, commit |-> c]
      BY <2>1 DEF StoreOf
    <2> QED BY <2>3, <2>4, <2>5
  <1> QED BY <1>5, <1>6, <1>7 DEF top

\* What a server's log and hard state become when it enters a term.
LEMMA AtTermIs ==
    ASSUME NEW st, NEW t \in Nat, Stored(st)
    PROVE  LET a == AtTerm(st, t)
           IN  /\ Stored(a) /\ a.entries = st.entries /\ a.hs.commit = st.hs.commit
               /\ a.hs.term = IF t > st.hs.term THEN t ELSE st.hs.term
               /\ a.hs.vote = IF t > st.hs.term THEN Nobody ELSE st.hs.vote
  <1> DEFINE a == AtTerm(st, t)
  <1>1. PICK log \in Seq(Entry), u \in Nat, v \in Server \cup {Nobody}, c \in Nat :
            st = StoreOf(log, u, v, c)
    BY DEF Stored
  <1>2. st.entries = log /\ st.hs.term = u /\ st.hs.vote = v /\ st.hs.commit = c
    BY <1>1 DEF StoreOf
  <1>3. CASE t > u
    <2>a. a = [st EXCEPT !.hs.term = t, !.hs.vote = Nobody]
      BY <1>2, <1>3, Zenon DEF AtTerm
    <2>1. a = StoreOf(log, t, Nobody, c)
      <3> DEFINE b == [st EXCEPT !.hs.term = t]
      <3>1. a = [b EXCEPT !.hs.vote = Nobody]
        BY <2>a
      <3>2. b = StoreOf(log, t, v, c)
        BY <1>1 DEF StoreOf
      <3> HIDE DEF b
      <3>3. [b EXCEPT !.hs.vote = Nobody] = StoreOf(log, t, Nobody, c)
        BY <3>2 DEF StoreOf
      <3> QED BY <3>1, <3>3
    <2> HIDE DEF a
    <2>2. a.entries = log /\ a.hs.term = t /\ a.hs.vote = Nobody /\ a.hs.commit = c
      BY <2>1 DEF StoreOf
    <2>3. Stored(a)
      BY <2>1, StoreOfIsStored
    <2> QED BY <1>2, <1>3, <2>2, <2>3 DEF a
  <1>4. CASE ~(t > u)
    BY <1>2, <1>4 DEF AtTerm
  <1> QED BY <1>3, <1>4

\* When it votes.
LEMMA VoteIs ==
    ASSUME NEW st, NEW s \in Server, Stored(st)
    PROVE  LET a == [st EXCEPT !.hs.vote = s]
           IN  /\ Stored(a) /\ a.entries = st.entries /\ a.hs.commit = st.hs.commit
               /\ a.hs.term = st.hs.term /\ a.hs.vote = s
  <1> DEFINE a == [st EXCEPT !.hs.vote = s]
  <1>1. PICK log \in Seq(Entry), u \in Nat, v \in Server \cup {Nobody}, c \in Nat :
            st = StoreOf(log, u, v, c)
    BY DEF Stored
  <1>2. st.entries = log /\ st.hs.term = u /\ st.hs.vote = v /\ st.hs.commit = c
    BY <1>1 DEF StoreOf
  <1>3. a = StoreOf(log, u, s, c)
    BY <1>1 DEF StoreOf
  <1> HIDE DEF a
  <1>4. a.entries = log /\ a.hs.term = u /\ a.hs.vote = s /\ a.hs.commit = c
    BY <1>3 DEF StoreOf
  <1>5. Stored(a)
    BY <1>3, StoreOfIsStored
  <1> QED BY <1>2, <1>4, <1>5 DEF a

Candidate(st, s, t) == [st EXCEPT !.hs.term = t, !.hs.vote = s]

\* When it becomes a candidate.
LEMMA CandidateIs ==
    ASSUME NEW st, NEW s \in Server, NEW t \in Nat, Stored(st)
    PROVE  LET a == Candidate(st, s, t)
           IN  /\ Stored(a) /\ a.entries = st.entries /\ a.hs.commit = st.hs.commit
               /\ a.hs.term = t /\ a.hs.vote = s
  <1> DEFINE a == Candidate(st, s, t)
  <1>1. PICK log \in Seq(Entry), u \in Nat, v \in Server \cup {Nobody}, c \in Nat :
            st = StoreOf(log, u, v, c)
    BY DEF Stored
  <1>2. st.entries = log /\ st.hs.term = u /\ st.hs.vote = v /\ st.hs.commit = c
    BY <1>1 DEF StoreOf
  <1>3. a = StoreOf(log, t, s, c)
    <2> DEFINE b == [st EXCEPT !.hs.term = t]
    <2>1. a = [b EXCEPT !.hs.vote = s]
      BY DEF Candidate
    <2>2. b = StoreOf(log, t, v, c)
      BY <1>1 DEF StoreOf
    <2> HIDE DEF a, b
    <2>3. [b EXCEPT !.hs.vote = s] = StoreOf(log, t, s, c)
      BY <2>2, VoteStore
    <2> QED BY <2>1, <2>3
  <1> HIDE DEF a
  <1>4. a.entries = log /\ a.hs.term = t /\ a.hs.vote = s /\ a.hs.commit = c
    BY <1>3 DEF StoreOf
  <1>5. Stored(a)
    BY <1>3, StoreOfIsStored
  <1> QED BY <1>2, <1>4, <1>5 DEF a

\* When it commits.
LEMMA CommitIs ==
    ASSUME NEW st, NEW c \in Nat, Stored(st)
    PROVE  LET a == [st EXCEPT !.hs.commit = c]
           IN  /\ Stored(a) /\ a.entries = st.entries /\ a.hs.commit = c
               /\ a.hs.term = st.hs.term /\ a.hs.vote = st.hs.vote
  <1> DEFINE a == [st EXCEPT !.hs.commit = c]
  <1>1. PICK log \in Seq(Entry), u \in Nat, v \in Server \cup {Nobody}, d \in Nat :
            st = StoreOf(log, u, v, d)
    BY DEF Stored
  <1>2. st.entries = log /\ st.hs.term = u /\ st.hs.vote = v /\ st.hs.commit = d
    BY <1>1 DEF StoreOf
  <1>3. a = StoreOf(log, u, v, c)
    BY <1>1 DEF StoreOf
  <1> HIDE DEF a
  <1>4. a.entries = log /\ a.hs.term = u /\ a.hs.vote = v /\ a.hs.commit = c
    BY <1>3 DEF StoreOf
  <1>5. Stored(a)
    BY <1>3, StoreOfIsStored
  <1> QED BY <1>2, <1>4, <1>5 DEF a

----------------------------------------------------------------------------
(* What the actions do to logs, terms and commit indices                   *)

\* What the operators of Cluster read.
LEMMA ServerReads ==
    ASSUME Shape, NEW s \in Server
    PROVE  /\ Stored(store[s]) /\ Last(s) = Len(Logs[s]) /\ Len(Logs[s]) \in Nat
           /\ Logs[s] = store[s].entries /\ Terms[s] = Current(s) /\ Current(s) \in Nat
           /\ Votes[s] = store[s].hs.vote /\ Votes[s] \in Server \cup {Nobody}
           /\ Commits[s] = store[s].hs.commit /\ Commits[s] \in Nat
           /\ TermAt(s, 0) = 0
           /\ \A i \in 1..Len(Logs[s]) : TermAt(s, i) = Logs[s][i].term
           /\ \A i \in Nat : i > Len(Logs[s]) => TermAt(s, i) = Unavailable
  <1>1. Stored(store[s])
    BY DEF Shape
  <1>2. Logs[s] = store[s].entries /\ Terms[s] = Current(s) /\ Votes[s] = store[s].hs.vote
        /\ Commits[s] = store[s].hs.commit
    BY DEF Logs, Terms, Votes, Commits, Current
  <1>3. store[s].hs.term \in Nat /\ store[s].hs.commit \in Nat
        /\ store[s].hs.vote \in Server \cup {Nobody}
    BY <1>1 DEF Stored
  <1>4. /\ last_index(store[s]) = Len(store[s].entries) /\ Len(store[s].entries) \in Nat
        /\ term(store[s], 0) = 0
        /\ \A i \in 1..Len(store[s].entries) : term(store[s], i) = store[s].entries[i].term
        /\ \A i \in Nat : i > Len(store[s].entries) => term(store[s], i) = Unavailable
    BY <1>1, StoredReads
  <1> QED BY <1>1, <1>2, <1>3, <1>4 DEF Last, TermAt, Current

\* The stores are of the right form.
Kept == DOMAIN store = Server /\ \A s \in Server : Stored(store[s])

\* An accepted PUT appends its entry to the log of the leader.
LEMMA PutEffect ==
    ASSUME Shape, NEW s \in Server, NEW id \in Ids, Put(s, id), Leads(s)
    PROVE  /\ Kept' /\ Grown(Logs, Logs', s, [term |-> Current(s), payload |-> id])
           /\ Terms' = Terms /\ Votes' = Votes /\ Commits' = Commits
           /\ offset' = [offset EXCEPT ![s] = Last(s) + 2]
           /\ callbacks' = [callbacks EXCEPT ![s] = @ \cup {id}] /\ answers' = answers
           /\ UNCHANGED <<backend, leader_id, matched, machine, crashes>>
  <1> DEFINE e == [term |-> Current(s), payload |-> id]
             a == Appended(store[s], Last(s), e)
  <1>1. /\ store' = [store EXCEPT ![s] = a]
        /\ offset' = [offset EXCEPT ![s] = Last(s) + 2]
        /\ callbacks' = [callbacks EXCEPT ![s] = @ \cup {id}] /\ answers' = answers
        /\ UNCHANGED <<backend, leader_id, matched, machine, crashes>>
    BY DEF Put
  <1>2. e \in Entry
    BY ServerReads, ClusterConstants DEF Entry
  <1>3. Stored(store[s]) /\ Last(s) = Len(store[s].entries)
        /\ Len(store[s].entries) \in Nat /\ DOMAIN store = Server
    BY ServerReads DEF Shape
  <1> HIDE DEF e
  <1>4. /\ Stored(a) /\ a.hs = store[s].hs /\ Len(a.entries) = Last(s) + 1
        /\ a.entries[Last(s) + 1] = e
        /\ \A i \in 1..Last(s) : a.entries[i] = store[s].entries[i]
    <2> DEFINE last == Last(s)
    <2>1. last \in 0..Len(store[s].entries)
      BY <1>3
    <2>2. Top(store[s], last) = last + 1
      BY <1>3 DEF Top
    <2>3. Stored(store[s])
      BY <1>3
    <2> HIDE DEF last
    <2>4. LET b == Appended(store[s], last, e)
          IN  /\ Stored(b) /\ b.hs = store[s].hs /\ Len(b.entries) = Top(store[s], last)
              /\ b.entries[last + 1] = e
              /\ \A i \in 1..last : b.entries[i] = store[s].entries[i]
      BY <1>2, <2>1, <2>3, AppendedIs
    <2>5. Len(Appended(store[s], last, e).entries) = last + 1
      BY <2>2, <2>4, Zenon
    <2> QED BY <2>4, <2>5, Zenon DEF last
  <1> HIDE DEF a
  <1>5. DOMAIN store' = Server /\ store'[s] = a /\ \A x \in Server : x # s => store'[x] = store[x]
    BY <1>1, <1>3
  <1>6. Kept'
    BY <1>4, <1>5 DEF Kept, Shape
  <1>7. Terms' = Terms /\ Votes' = Votes /\ Commits' = Commits
    BY <1>4, <1>5 DEF Terms, Votes, Commits
  <1>8. Grown(Logs, Logs', s, e)
    <2>1. IsLogs(Logs')
      BY <1>6 DEF Kept, Stored, Logs, IsLogs
    <2>2. Logs'[s] = a.entries /\ Logs[s] = store[s].entries
          /\ \A x \in Server : x # s => Logs'[x] = Logs[x]
      BY <1>5 DEF Logs
    <2> QED BY <1>3, <1>4, <2>1, <2>2 DEF Grown
  <1> QED BY <1>1, <1>6, <1>7, <1>8 DEF e

Grants(s, Q) == {v \in Q : GrantsVote(v, s, Current(s) + 1)}
Follow(s, Q) == {v \in Q : Current(v) < Current(s) + 1}
Wins(s, Q) == Quorum(Grants(s, Q) \cup {s})

\* An election in which the servers of Q answer s.
Elected(s, Q) ==
    /\ ~Leads(s) /\ Q \in SUBSET (Server \ {s}) /\ Current(s) + 1 <= MaxTerm[backend]
    /\ Kept'
    /\ IF Wins(s, Q)
       THEN Grown(Logs, Logs', s, [term |-> Current(s) + 1, payload |-> Empty])
       ELSE Logs' = Logs
    /\ Terms' = [v \in Server |->
            IF v = s \/ v \in Follow(s, Q) THEN Current(s) + 1 ELSE Terms[v]]
    /\ Votes' = [v \in Server |->
            IF v = s \/ v \in Grants(s, Q) THEN s
            ELSE IF v \in Follow(s, Q) THEN Nobody ELSE Votes[v]]
    /\ Commits' = Commits
    /\ offset' = IF Wins(s, Q) THEN [offset EXCEPT ![s] = Last(s) + 2] ELSE offset
    /\ leader_id' = [v \in Server |->
            IF v = s /\ Wins(s, Q) THEN s
            ELSE IF v \in Follow(s, Q) \cup {s} THEN Nobody ELSE leader_id[v]]
    /\ matched' = Deposed(Follow(s, Q))
    /\ ProcessReady(Q \cup {s})
    /\ UNCHANGED <<backend, crashes>>

\* What Elect does.
LEMMA ElectEffect ==
    ASSUME Shape, NEW s \in Server, Elect(s)
    PROVE  \E Q \in SUBSET (Server \ {s}) : Elected(s, Q)
  <1> DEFINE t == Current(s) + 1
             last == Last(s)
             e == [term |-> t, payload |-> Empty]
             candidate == [store[s] EXCEPT !.hs.term = t, !.hs.vote = s]
             voted(v) == [AtTerm(store[v], t) EXCEPT !.hs.vote = s]
  <1>1. PICK Q \in SUBSET (Server \ {s}) :
            LET grants == {v \in Q : GrantsVote(v, s, t)}
                wins == Quorum(grants \cup {s})
                follow == {v \in Q : Current(v) < t}
            IN  /\ store' = [v \in Server |->
                        IF v = s /\ wins THEN Appended(candidate, last, e)
                        ELSE IF v = s THEN candidate
                        ELSE IF v \in grants THEN voted(v)
                        ELSE IF v \in Q THEN AtTerm(store[v], t)
                        ELSE store[v]]
                /\ offset' = IF wins THEN [offset EXCEPT ![s] = last + 2] ELSE offset
                /\ leader_id' = [v \in Server |->
                        IF v = s /\ wins THEN s
                        ELSE IF v \in follow \cup {s} THEN Nobody ELSE leader_id[v]]
                /\ matched' = Deposed(follow)
                /\ ProcessReady(Q \cup {s})
    BY Zenon DEF Elect
  <1>2. ~Leads(s) /\ t <= MaxTerm[backend] /\ UNCHANGED <<backend, crashes>>
    BY Zenon DEF Elect
  <1> DEFINE grants == Grants(s, Q)
             follow == Follow(s, Q)
             wins == Wins(s, Q)
             a == Appended(candidate, last, e)
  <1>3. /\ store' = [v \in Server |->
                        IF v = s /\ wins THEN a
                        ELSE IF v = s THEN candidate
                        ELSE IF v \in grants THEN voted(v)
                        ELSE IF v \in Q THEN AtTerm(store[v], t)
                        ELSE store[v]]
        /\ offset' = IF wins THEN [offset EXCEPT ![s] = last + 2] ELSE offset
        /\ leader_id' = [v \in Server |->
                        IF v = s /\ wins THEN s
                        ELSE IF v \in follow \cup {s} THEN Nobody ELSE leader_id[v]]
        /\ matched' = Deposed(follow)
        /\ ProcessReady(Q \cup {s})
    BY <1>1, Zenon DEF Grants, Follow, Wins
  <1>4. \A v \in Server : /\ Stored(store[v]) /\ Logs[v] = store[v].entries
                          /\ Terms[v] = store[v].hs.term /\ Votes[v] = store[v].hs.vote
                          /\ Commits[v] = store[v].hs.commit /\ Current(v) = store[v].hs.term
                          /\ store[v].hs.term \in Nat
    BY ServerReads DEF Current
  <1>5. t \in Nat /\ last = Len(store[s].entries) /\ last \in Nat
        /\ e \in Entry
    BY ServerReads, ClusterConstants DEF Shape, Entry
  <1>6. /\ Stored(candidate) /\ candidate.entries = store[s].entries
        /\ candidate.hs.commit = store[s].hs.commit
        /\ candidate.hs.term = t /\ candidate.hs.vote = s
    <2>1. candidate = Candidate(store[s], s, t)
      BY Zenon DEF Candidate
    <2>2. Stored(store[s]) /\ Current(s) + 1 \in Nat
      BY <1>4, <1>5
    <2> HIDE DEF candidate, voted, e, last
    <2> QED BY <2>1, <2>2, CandidateIs
  <1>7. ASSUME NEW v \in Server
        PROVE  LET b == AtTerm(store[v], t)
               IN  /\ Stored(b) /\ b.entries = store[v].entries
                   /\ b.hs.commit = store[v].hs.commit
                   /\ b.hs.term = IF t > store[v].hs.term THEN t ELSE store[v].hs.term
                   /\ b.hs.vote = IF t > store[v].hs.term THEN Nobody ELSE store[v].hs.vote
    BY <1>4, <1>5, AtTermIs
  <1>8. ASSUME NEW v \in Server
        PROVE  LET b == AtTerm(store[v], t)
               IN  /\ Stored(voted(v)) /\ voted(v).entries = b.entries
                   /\ voted(v).hs.commit = b.hs.commit
                   /\ voted(v).hs.term = b.hs.term /\ voted(v).hs.vote = s
    BY <1>7, VoteIs
  <1> HIDE DEF candidate, voted, e
  <1>9. /\ Stored(a) /\ a.hs = candidate.hs /\ Len(a.entries) = last + 1
        /\ a.entries[last + 1] = e
        /\ \A i \in 1..last : a.entries[i] = store[s].entries[i]
    <2> HIDE DEF last
    <2>1. last \in 0..Len(candidate.entries)
      BY <1>5, <1>6
    <2>2. Top(candidate, last) = last + 1
      BY <1>5, <1>6 DEF Top
    <2>3. e \in Entry
      BY <1>5
    <2>4. Stored(candidate)
      BY <1>6
    <2>5. LET b == Appended(candidate, last, e)
          IN  /\ Stored(b) /\ b.hs = candidate.hs /\ Len(b.entries) = Top(candidate, last)
              /\ b.entries[last + 1] = e
              /\ \A i \in 1..last : b.entries[i] = candidate.entries[i]
      BY <2>1, <2>3, <2>4, AppendedIs
    <2>6. Len(Appended(candidate, last, e).entries) = last + 1
      BY <2>2, <2>5, Zenon
    <2> QED BY <1>6, <2>5, <2>6, Zenon
  <1> HIDE DEF a, last, t
  <1>10. ASSUME NEW v \in Server
         PROVE  /\ (v \in follow <=> v \in Q /\ store[v].hs.term < t)
                /\ (v \in grants => v \in Q /\ store[v].hs.term <= t)
    BY <1>4, <1>5 DEF Follow, Grants, GrantsVote, t
  <1>11. \A v \in Server :
            /\ Stored(store'[v])
            /\ v # s => store'[v].entries = store[v].entries
            /\ store'[v].hs.commit = store[v].hs.commit
            /\ store'[v].hs.term = IF v = s \/ v \in follow THEN t ELSE store[v].hs.term
            /\ store'[v].hs.vote = IF v = s \/ v \in grants THEN s
                                   ELSE IF v \in follow THEN Nobody ELSE store[v].hs.vote
    <2> TAKE v \in Server
    <2>1. CASE v = s
      <3>1. store'[v] = IF wins THEN a ELSE candidate
        BY <1>3, <2>1
      <3> QED BY <1>6, <1>9, <2>1, <3>1
    <2>2. CASE v # s /\ v \in grants
      <3>1. store'[v] = voted(v)
        BY <1>3, <2>2
      <3>2. v \in Q /\ (v \in follow <=> t > store[v].hs.term) /\ store[v].hs.term <= t
        BY <1>4, <1>5, <1>10, <2>2
      <3>3. CASE t > store[v].hs.term
        BY <1>7, <1>8, <2>2, <3>1, <3>2, <3>3
      <3>4. CASE ~(t > store[v].hs.term)
        BY <1>4, <1>5, <1>7, <1>8, <2>2, <3>1, <3>2, <3>4
      <3> QED BY <3>3, <3>4
    <2>3. CASE v # s /\ v \notin grants /\ v \in Q
      <3>1. store'[v] = AtTerm(store[v], t)
        BY <1>3, <2>3
      <3>2. v \in follow <=> t > store[v].hs.term
        BY <1>4, <1>5, <1>10, <2>3
      <3> QED BY <1>7, <2>3, <3>1, <3>2
    <2>4. CASE v # s /\ v \notin Q
      <3>1. v \notin grants /\ v \notin follow
        BY <1>10, <2>4
      <3>2. store'[v] = store[v]
        BY <1>3, <2>4, <3>1
      <3> QED BY <1>4, <2>4, <3>1, <3>2
    <2> QED BY <2>1, <2>2, <2>3, <2>4
  <1>12. DOMAIN store' = Server
    BY <1>3
  <1> HIDE DEF grants, follow, wins
  <1>13. Kept'
    BY <1>11, <1>12 DEF Kept
  <1>14. Terms' = [v \in Server |-> IF v = s \/ v \in follow THEN t ELSE Terms[v]]
    BY <1>4, <1>11 DEF Terms
  <1>15. Votes' = [v \in Server |-> IF v = s \/ v \in grants THEN s
                                    ELSE IF v \in follow THEN Nobody ELSE Votes[v]]
    BY <1>4, <1>11 DEF Votes
  <1>16. Commits' = Commits
    BY <1>4, <1>11 DEF Commits
  <1>17. CASE wins
    <2>1. Logs'[s] = a.entries /\ Logs[s] = store[s].entries
          /\ \A x \in Server : x # s => Logs'[x] = Logs[x]
      BY <1>3, <1>11, <1>17 DEF Logs
    <2>2. IsLogs(Logs')
      BY <1>13 DEF Kept, Stored, Logs, IsLogs
    <2>3. Grown(Logs, Logs', s, e)
      BY <1>5, <1>9, <2>1, <2>2 DEF Grown
    <2>4. Elected(s, Q)
      BY <1>2, <1>3, <1>13, <1>14, <1>15, <1>16, <1>17, <2>3
         DEF Elected, e, t, last, grants, follow, wins
    <2> QED BY <2>4
  <1>18. CASE ~wins
    <2>1. Logs'[s] = store[s].entries
      BY <1>3, <1>6, <1>18 DEF Logs
    <2>2. Logs' = Logs
      BY <1>11, <2>1 DEF Logs
    <2>3. Elected(s, Q)
      BY <1>2, <1>3, <1>13, <1>14, <1>15, <1>16, <1>18, <2>2
         DEF Elected, e, t, last, grants, follow, wins
    <2> QED BY <2>3
  <1> QED BY <1>17, <1>18

\* What LearnTerm does.
LEMMA LearnTermEffect ==
    ASSUME Shape, NEW s \in Server, NEW r \in Server, LearnTerm(s, r)
    PROVE  /\ Kept' /\ Logs' = Logs /\ Commits' = Commits
           /\ Terms' = [Terms EXCEPT ![s] = Current(r)]
           /\ Votes' = [Votes EXCEPT ![s] = Nobody]
  <1> DEFINE a == AtTerm(store[s], Current(r))
  <1>1. /\ Current(r) > Current(s) /\ store' = [store EXCEPT ![s] = a]
    BY DEF LearnTerm
  <1>2. /\ Stored(store[s]) /\ Current(r) \in Nat /\ Current(s) = store[s].hs.term
        /\ DOMAIN store = Server
    BY ServerReads DEF Current, Shape
  <1>3. /\ Stored(a) /\ a.entries = store[s].entries /\ a.hs.commit = store[s].hs.commit
        /\ a.hs.term = Current(r) /\ a.hs.vote = Nobody
    BY <1>1, <1>2, AtTermIs
  <1> HIDE DEF a
  <1>4. DOMAIN store' = Server /\ store'[s] = a /\ \A x \in Server : x # s => store'[x] = store[x]
    BY <1>1, <1>2
  <1>5. Kept'
    BY <1>3, <1>4 DEF Kept, Shape
  <1>6. Logs' = Logs /\ Commits' = Commits
    BY <1>3, <1>4 DEF Logs, Commits
  <1>7. Terms' = [Terms EXCEPT ![s] = Current(r)]
    BY <1>3, <1>4 DEF Terms
  <1>8. Votes' = [Votes EXCEPT ![s] = Nobody]
    BY <1>3, <1>4 DEF Votes
  <1> QED BY <1>5, <1>6, <1>7, <1>8

Stale(f, prev) == prev < Commits[f]
HasIt(l, f, prev, n) == n = prev \/ TermAt(f, n) = TermAt(l, n)

\* An append by which f copies entry n of l, keeps what it has, or answers
\* with its commit index.
Replicated(l, f, prev, n, c) ==
    /\ Kept'
    /\ Terms' = [Terms EXCEPT ![f] = Current(l)]
    /\ Votes' = [Votes EXCEPT ![f] = IF Current(l) > Current(f) THEN Nobody ELSE Votes[f]]
    /\ Commits' = [Commits EXCEPT ![f] =
            IF Stale(f, prev) THEN Commits[f] ELSE Greater(Commits[f], Lesser(c, n))]
    /\ IF Stale(f, prev) \/ HasIt(l, f, prev, n) THEN Logs' = Logs
       ELSE /\ n = prev + 1 /\ prev <= Len(Logs[f]) /\ Len(Logs'[f]) = n
            /\ Logs'[f][n] = Logs[l][n]
            /\ \A i \in 1..prev : Logs'[f][i] = Logs[f][i]
            /\ \A x \in Server : x # f => Logs'[x] = Logs[x]
    /\ matched' = [Deposed({f}) EXCEPT ![l][f] =
            Greater(Deposed({f})[l][f], IF Stale(f, prev) THEN Commits[f] ELSE n)]
    /\ offset' = [offset EXCEPT ![f] =
            IF Stale(f, prev) \/ HasIt(l, f, prev, n) THEN offset[f] ELSE n + 1]

\* What Replicate does.
LEMMA ReplicateEffect ==
    ASSUME Shape, NEW l \in Server, NEW f \in Server, NEW prev \in 0..Last(l),
           NEW n \in prev..Lesser(prev + 1, Last(l)), NEW c \in Nat, Replicate(l, f, prev, n, c),
           TailFree
    PROVE  Replicated(l, f, prev, n, c)
  <1> DEFINE st == AtTerm(store[f], Current(l))
             stale == Stale(f, prev)
             known == HasIt(l, f, prev, n)
             e == store[l].entries[n]
             app == Appended(st, prev, e)
             new == IF stale \/ known THEN st ELSE app
             commit == IF stale THEN Commits[f] ELSE Greater(Commits[f], Lesser(c, n))
             a == [new EXCEPT !.hs.commit = commit]
  <1>1. /\ Stored(store[f]) /\ Current(l) \in Nat /\ Current(f) = store[f].hs.term
        /\ DOMAIN store = Server /\ Commits[f] = store[f].hs.commit /\ Commits[f] \in Nat
        /\ Logs[f] = store[f].entries /\ Logs[l] = store[l].entries
        /\ Last(l) = Len(Logs[l]) /\ Len(Logs[l]) \in Nat /\ Len(Logs[f]) \in Nat
        /\ Current(f) \in Nat /\ Votes[f] = store[f].hs.vote
        /\ store[l].entries \in Seq(Entry)
    BY ServerReads DEF Current, Shape, Stored
  <1>2. prev \in Nat /\ n \in Nat /\ n <= Last(l) /\ n \in {prev, prev + 1} /\ prev <= Last(l)
    <2>1. prev \in Nat /\ Last(l) \in Nat /\ prev <= Last(l)
      BY <1>1
    <2> QED BY <2>1 DEF Lesser
  <1>3. /\ Stored(st) /\ st.entries = store[f].entries /\ st.hs.commit = Commits[f]
        /\ st.hs.term = IF Current(l) > Current(f) THEN Current(l) ELSE Current(f)
        /\ st.hs.vote = IF Current(l) > Current(f) THEN Nobody ELSE Votes[f]
    BY <1>1, AtTermIs
  <1>4. /\ Leads(l) /\ f # l /\ Current(f) <= Current(l)
        /\ ~stale => TermAt(f, prev) = TermAt(l, prev)
        /\ store' = [store EXCEPT ![f] = a]
        /\ matched' = [Deposed({f}) EXCEPT ![l][f] =
                            Greater(Deposed({f})[l][f], IF stale THEN Commits[f] ELSE n)]
        /\ offset' = [offset EXCEPT ![f] = IF stale \/ known THEN offset[f] ELSE n + 1]
    <2> HIDE DEF st
    <2>1. /\ Leads(l) /\ f # l /\ Current(f) <= Current(l)
          /\ ~(prev < st.hs.commit) => TermAt(f, prev) = TermAt(l, prev)
          /\ store' = [store EXCEPT ![f] =
                [(IF (prev < st.hs.commit) \/ (n = prev \/ TermAt(f, n) = TermAt(l, n))
                  THEN st ELSE app) EXCEPT !.hs.commit =
                    IF prev < st.hs.commit THEN st.hs.commit
                    ELSE Greater(st.hs.commit, Lesser(c, n))]]
          /\ matched' = [Deposed({f}) EXCEPT ![l][f] =
                Greater(Deposed({f})[l][f], IF prev < st.hs.commit THEN st.hs.commit ELSE n)]
          /\ offset' = [offset EXCEPT ![f] =
                IF (prev < st.hs.commit) \/ (n = prev \/ TermAt(f, n) = TermAt(l, n))
                THEN offset[f] ELSE n + 1]
      BY DEF Replicate, st
    <2>2. st.hs.commit = Commits[f]
      BY <1>3
    <2> QED BY <2>1, <2>2 DEF Stale, HasIt
  <1> HIDE DEF st, stale, known
  <1>5. ~stale => prev <= Len(Logs[f])
    <2>1. TermAt(l, prev) # Unavailable
      <3>1. CASE prev = 0
        BY <3>1, ServerReads DEF Unavailable
      <3>2. CASE prev # 0
        <4>1. prev \in 1..Len(Logs[l])
          BY <1>1, <1>2, <3>2
        <4>2. TermAt(l, prev) = store[l].entries[prev].term
          BY <1>1, <4>1, ServerReads
        <4>3. store[l].entries[prev] \in Entry
          BY <1>1, <4>1, ElementOfSeq
        <4>4. store[l].entries[prev].term \in Nat
          BY <4>3 DEF Entry
        <4> QED BY <4>2, <4>4 DEF Unavailable
      <3> QED BY <3>1, <3>2
    <2>2. prev > Len(Logs[f]) => TermAt(f, prev) = Unavailable
      BY <1>2, ServerReads
    <2> QED BY <1>1, <1>2, <1>4, <2>1, <2>2
  <1>6. ~stale /\ ~known => n = prev + 1 /\ n \in 1..Len(Logs[l])
    BY <1>1, <1>2 DEF known, HasIt
  <1>7. ~stale /\ ~known =>
            /\ Stored(app) /\ app.hs = st.hs /\ Len(app.entries) = Top(st, prev)
            /\ app.entries[n] = e
            /\ \A i \in 1..prev : app.entries[i] = store[f].entries[i]
    <2> SUFFICES ASSUME ~stale, ~known
                 PROVE  /\ Stored(app) /\ app.hs = st.hs /\ Len(app.entries) = Top(st, prev)
                        /\ app.entries[n] = e
                        /\ \A i \in 1..prev : app.entries[i] = store[f].entries[i]
      OBVIOUS
    <2>1. e \in Entry
      BY <1>1, <1>6, ElementOfSeq
    <2>2. prev \in 0..Len(st.entries)
      BY <1>1, <1>2, <1>3, <1>5
    <2> HIDE DEF e
    <2>3. /\ Stored(app) /\ app.hs = st.hs /\ Len(app.entries) = Top(st, prev)
          /\ app.entries[prev + 1] = e
          /\ \A i \in 1..prev : app.entries[i] = st.entries[i]
      <3>1. Stored(st)
        BY <1>3
      <3> QED BY <2>1, <2>2, <3>1, AppendedIs
    <2> QED BY <1>3, <1>6, <2>3
  <1> HIDE DEF app
  <1>8. commit \in Nat
    BY <1>1, <1>2 DEF Greater, Lesser
  <1> HIDE DEF commit
  <1>9. Stored(new) /\ new.hs = st.hs
    BY <1>3, <1>7
  <1> HIDE DEF new
  <1>10. /\ Stored(a) /\ a.entries = new.entries /\ a.hs.commit = commit
         /\ a.hs.term = new.hs.term /\ a.hs.vote = new.hs.vote
    BY <1>8, <1>9, CommitIs
  <1> HIDE DEF a
  <1>11. DOMAIN store' = Server /\ store'[f] = a /\ \A x \in Server : x # f => store'[x] = store[x]
    BY <1>1, <1>4
  <1>12. Kept'
    BY <1>10, <1>11 DEF Kept, Shape
  <1>13. a.hs.term = Current(l)
         /\ a.hs.vote = IF Current(l) > Current(f) THEN Nobody ELSE Votes[f]
    BY <1>1, <1>3, <1>4, <1>9, <1>10
  <1>14. Terms' = [Terms EXCEPT ![f] = Current(l)]
    BY <1>11, <1>13 DEF Terms
  <1>15. Votes' = [Votes EXCEPT ![f] = IF Current(l) > Current(f) THEN Nobody ELSE Votes[f]]
    BY <1>11, <1>13 DEF Votes
  <1>16. Commits' = [Commits EXCEPT ![f] = commit]
    BY <1>10, <1>11 DEF Commits
  <1>17. /\ Logs'[f] = new.entries /\ Logs[f] = store[f].entries
         /\ \A x \in Server : x # f => Logs'[x] = Logs[x]
    BY <1>10, <1>11 DEF Logs
  <1>18. CASE stale \/ known
    <2>1. new.entries = store[f].entries
      BY <1>3, <1>18 DEF new
    <2>2. Logs' = Logs
      BY <1>11, <1>10, <2>1 DEF Logs
    <2> QED BY <1>4, <1>12, <1>14, <1>15, <1>16, <1>18, <2>2
            DEF Replicated, stale, known, commit
  <1>19. CASE ~stale /\ ~known
    <2>1. new = app
      BY <1>19 DEF new
    <2>3. Len(app.entries) = n
      <3>1. CASE ~(backend = "disk" /\ Len(Logs[f]) > prev)
        BY <1>1, <1>3, <1>6, <1>7, <1>19, <3>1 DEF Top
      <3>2. CASE backend = "disk" /\ Len(Logs[f]) > prev
        <4>1. n \in 1..Len(Logs[f]) /\ n = prev + 1
          BY <1>1, <1>2, <1>6, <1>19, <3>2
        <4>2. TermAt(f, n) # TermAt(l, n) /\ TermAt(l, n) = Logs[l][n].term
              /\ TermAt(f, n) = Logs[f][n].term
          BY <1>6, <1>19, <4>1, ServerReads DEF known, HasIt
        <4>3. store'[f].entries = app.entries /\ Stored(store'[f]) /\ app.entries[n] = e
          BY <1>7, <1>10, <1>11, <1>19, <2>1
        <4>4. store'[f].entries[n] # store[f].entries[n]
          BY <1>1, <4>2, <4>3
        <4>5. Len(app.entries) = Len(Logs[f])
          BY <1>1, <1>3, <1>7, <1>19, <3>2 DEF Top
        <4>6. /\ last_index(store'[f]) = Len(app.entries)
              /\ DOMAIN store'[f].entries = 1..Len(app.entries)
              /\ DOMAIN store[f].entries = 1..Len(Logs[f])
          BY <1>1, <4>3, StoredReads
        <4>7. n \in DOMAIN store[f].entries \cap DOMAIN store'[f].entries
          BY <4>1, <4>5, <4>6
        <4> QED BY <3>2, <4>4, <4>6, <4>7 DEF TailFree, LeavesNoTail
      <3> QED BY <3>1, <3>2
    <2>2. /\ n = prev + 1 /\ prev <= Len(Logs[f]) /\ Len(Logs'[f]) = n
          /\ Logs'[f][n] = Logs[l][n]
          /\ \A i \in 1..prev : Logs'[f][i] = Logs[f][i]
          /\ \A x \in Server : x # f => Logs'[x] = Logs[x]
      BY <1>1, <1>5, <1>6, <1>7, <1>17, <1>19, <2>1, <2>3
    <2> QED BY <1>4, <1>12, <1>14, <1>15, <1>16, <1>19, <2>2
            DEF Replicated, stale, known, commit
  <1> QED BY <1>18, <1>19

\* What LeaderCommit does.
LEMMA LeaderCommitEffect ==
    ASSUME Shape, NEW l \in Server, NEW n \in Nat, LeaderCommit(l, n)
    PROVE  /\ Kept' /\ Logs' = Logs /\ Terms' = Terms /\ Votes' = Votes
           /\ Commits' = [Commits EXCEPT ![l] = n]
  <1> DEFINE a == [store[l] EXCEPT !.hs.commit = n]
  <1>1. store' = [store EXCEPT ![l] = a]
    <2>1. store' = [store EXCEPT ![l].hs.commit = n]
      BY DEF LeaderCommit
    <2> QED BY <2>1, Zenon
  <1>2. Stored(store[l]) /\ DOMAIN store = Server
    BY DEF Shape
  <1>3. /\ Stored(a) /\ a.entries = store[l].entries /\ a.hs.commit = n
        /\ a.hs.term = store[l].hs.term /\ a.hs.vote = store[l].hs.vote
    BY <1>2, CommitIs
  <1> HIDE DEF a
  <1>4. DOMAIN store' = Server /\ store'[l] = a /\ \A x \in Server : x # l => store'[x] = store[x]
    BY <1>1, <1>2
  <1>5. Kept'
    BY <1>3, <1>4 DEF Kept, Shape
  <1>6. Logs' = Logs /\ Terms' = Terms /\ Votes' = Votes
    BY <1>3, <1>4 DEF Logs, Terms, Votes
  <1>7. Commits' = [Commits EXCEPT ![l] = n]
    BY <1>3, <1>4 DEF Commits
  <1> QED BY <1>5, <1>6, <1>7

----------------------------------------------------------------------------
(* Every action is safe                                                    *)

\* The types of what the invariant speaks of.
LEMMA SafetyTypes ==
    ASSUME Shape, Safety
    PROVE  /\ IsLogs(Logs) /\ Terms \in [Server -> Nat] /\ Commits \in [Server -> Nat]
           /\ matched \in [Server -> [Server -> Nat]]
           /\ leader_id \in [Server -> Server \cup {Nobody}] /\ Nobody \notin Server
           /\ \A s \in Server : leader_id[s] # s => matched[s] = NoMatch
  BY ClusterConstants DEF Shape, Safety, Safe, Matched

\* Deposed servers know nothing of the others' logs.
LEMMA DeposedIs ==
    ASSUME NEW S, matched \in [Server -> [Server -> Nat]]
    PROVE  /\ Deposed(S) \in [Server -> [Server -> Nat]]
           /\ \A s \in Server : Deposed(S)[s] = IF s \in S THEN NoMatch ELSE matched[s]
  <1>1. NoMatch \in [Server -> Nat]
    BY DEF NoMatch
  <1> QED BY <1>1 DEF Deposed

\* A PUT is safe.
LEMMA PutIsSafe ==
    ASSUME Shape, Safety, NEW s \in Server, NEW id \in Ids, Put(s, id)
    PROVE  Safety'
  <1>1. CASE Leads(s)
    <2> DEFINE e == [term |-> Current(s), payload |-> id]
    <2>1. /\ Grown(Logs, Logs', s, e)
          /\ Terms' = Terms /\ Votes' = Votes /\ Commits' = Commits
          /\ leader_id' = leader_id /\ matched' = matched
      BY <1>1, PutEffect
    <2>2. e.term = Terms[s] /\ leader_id[s] = s
      BY <1>1, ServerReads DEF Leads
    <2> HIDE DEF e
    <2>3. Safe(Logs', Terms, Votes, Commits, leader_id, matched)
      BY <2>1, <2>2, AppendIsSafe DEF Safety
    <2> QED BY <2>1, <2>3 DEF Safety
  <1>2. CASE ~Leads(s)
    <2>1. store' = store /\ leader_id' = leader_id /\ matched' = matched
      BY <1>2 DEF Put
    <2>2. Logs' = Logs /\ Terms' = Terms /\ Votes' = Votes /\ Commits' = Commits
      BY <2>1 DEF Logs, Terms, Votes, Commits
    <2> QED BY <2>1, <2>2 DEF Safety
  <1> QED BY <1>1, <1>2

\* An election is safe.
LEMMA ElectIsSafe ==
    ASSUME Shape, Safety, NEW s \in Server, NEW Q, Elected(s, Q)
    PROVE  Safety'
  <1> DEFINE t == Current(s) + 1
             P == [v \in Server |-> IF v \in Follow(s, Q) \cup {s} THEN Nobody ELSE leader_id[v]]
  <1>1. /\ IsLogs(Logs) /\ Terms \in [Server -> Nat] /\ Commits \in [Server -> Nat]
        /\ matched \in [Server -> [Server -> Nat]]
        /\ leader_id \in [Server -> Server \cup {Nobody}] /\ Nobody \notin Server
        /\ \A v \in Server : leader_id[v] # v => matched[v] = NoMatch
    BY SafetyTypes
  <1>2. /\ leader_id[s] # s /\ Q \in SUBSET (Server \ {s}) /\ Commits' = Commits
        /\ matched' = Deposed(Follow(s, Q))
        /\ \A v \in Server : Terms'[v] = IF v = s \/ v \in Follow(s, Q) THEN t ELSE Terms[v]
        /\ \A v \in Server : Votes'[v] = IF v = s \/ v \in Grants(s, Q) THEN s
                                          ELSE IF v \in Follow(s, Q) THEN Nobody ELSE Votes[v]
        /\ Terms' \in [Server -> Nat]
    <2>1. t \in Nat
      BY ServerReads
    <2>2. Terms' = [v \in Server |-> IF v = s \/ v \in Follow(s, Q) THEN t ELSE Terms[v]]
      BY DEF Elected
    <2> HIDE DEF t
    <2>3. Terms' \in [Server -> Nat]
      BY <1>1, <2>1, <2>2
    <2> QED BY <2>2, <2>3 DEF Elected, Leads, t
  <1>3. t = Terms[s] + 1 /\ \A v \in Server : Terms[v] \in Nat /\ Terms[v] = Current(v)
    BY <1>1, ServerReads
  <1>4. \A v \in Server : v \in Follow(s, Q) <=> v \in Q /\ Terms[v] < t
    BY <1>3 DEF Follow
  <1>5. \A v \in Grants(s, Q) :
            /\ v \in Q /\ UpToDate(s, v)
            /\ \/ Terms[v] < t
               \/ Terms[v] = t /\ Votes[v] = Nobody /\ leader_id[v] = Nobody
    <2>1. \A v \in Server : Votes[v] = store[v].hs.vote
      BY ServerReads
    <2>2. \A v \in Q : v \in Server
      BY <1>2
    <2> QED BY <1>3, <2>1, <2>2 DEF Grants, GrantsVote
  <1> HIDE DEF t
  <1>6. TermStep(Terms, Votes, leader_id, matched, Terms', Votes', P, matched')
    <2>1. TermsGrow(Terms, Votes, Terms', Votes')
      <3>1. ASSUME NEW v \in Server
            PROVE  Terms'[v] > Terms[v]
                   \/ (Terms'[v] = Terms[v] /\ (Votes[v] # Nobody => Votes'[v] # Nobody))
        <4>1. CASE v = s
          BY <1>2, <1>3, <4>1
        <4>2. CASE v # s /\ v \in Follow(s, Q)
          BY <1>2, <1>3, <1>4, <4>2
        <4>3. CASE v # s /\ v \notin Follow(s, Q)
          <5>1. Terms'[v] = Terms[v]
            BY <1>2, <4>3
          <5>2. Votes'[v] = s \/ Votes'[v] = Votes[v]
            BY <1>2, <4>3
          <5> QED BY <1>1, <5>1, <5>2
        <4> QED BY <4>1, <4>2, <4>3
      <3> QED BY <3>1 DEF TermsGrow
    <2>2. /\ matched' \in [Server -> [Server -> Nat]]
          /\ \A v \in Server : matched'[v] = IF v \in Follow(s, Q) THEN NoMatch ELSE matched[v]
      BY <1>1, <1>2, DeposedIs
    <2>3. ASSUME NEW l \in Server
          PROVE  IF P[l] = l
                 THEN leader_id[l] = l /\ Terms'[l] = Terms[l] /\ matched'[l] = matched[l]
                 ELSE matched'[l] = NoMatch
      <3>1. P[l] = IF l \in Follow(s, Q) \cup {s} THEN Nobody ELSE leader_id[l]
        OBVIOUS
      <3>2. CASE P[l] = l
        BY <1>1, <1>2, <2>2, <3>1, <3>2
      <3>3. CASE P[l] # l
        BY <1>1, <1>2, <2>2, <3>1, <3>3
      <3> QED BY <3>2, <3>3
    <2> HIDE DEF P
    <2> QED BY <1>2, <2>1, <2>2, <2>3 DEF TermStep
  <1>7. \A v \in Server : P[v] = IF v \in Follow(s, Q) \cup {s} THEN Nobody ELSE leader_id[v]
    OBVIOUS
  <1>8. CASE ~Wins(s, Q)
    <2>1. Logs' = Logs /\ leader_id' = P
      BY <1>8, <1>2 DEF Elected
    <2> HIDE DEF P
    <2>2. Safe(Logs, Terms', Votes', Commits, P, matched')
      BY <1>6, TermStepIsSafe DEF Safety
    <2> QED BY <1>2, <2>1, <2>2 DEF Safety
  <1>9. CASE Wins(s, Q)
    <2> DEFINE e == [term |-> t, payload |-> Empty]
               E == Grants(s, Q) \cup {s}
    <2>1. /\ Grown(Logs, Logs', s, e)
          /\ leader_id'[s] = s /\ \A v \in Server \ {s} : leader_id'[v] = P[v]
      BY <1>9 DEF Elected, t
    <2>2. e.term = t
      OBVIOUS
    <2> HIDE DEF P, e
    <2>3. Safe(Logs, Terms', Votes', Commits, P, matched')
      BY <1>6, TermStepIsSafe DEF Safety
    <2>4. E \in SUBSET Server /\ Quorum(E) /\ s \in E
      BY <1>2, <1>5, <1>9 DEF Wins
    <2>5. \A v \in E : Terms'[v] = t /\ Votes'[v] # Nobody /\ P[v] # v
      BY <1>1, <1>2, <1>3, <1>4, <1>5, <1>7
    <2>6. \A x \in Server : \A i \in 1..Len(Logs[x]) : Logs[x][i].term # t
      <3> SUFFICES ASSUME NEW x \in Server, NEW i \in 1..Len(Logs[x]), Logs[x][i].term = t
                   PROVE  FALSE
        OBVIOUS
      <3> DEFINE T == {v \in Server : Terms[v] > t \/ (Terms[v] = t /\ Votes[v] # Nobody)}
      <3>1. Taken(Terms, Votes, t)
        BY DEF Safety, Safe, TermsTaken
      <3>2. T \in SUBSET Server /\ Quorum(T)
        BY <3>1 DEF Taken
      <3>3. PICK v \in E : v \in T
        BY <2>4, <3>2, QuorumsMeet
      <3>4. v \in Server /\ (Terms[v] < t \/ (Terms[v] = t /\ Votes[v] = Nobody))
        BY <1>2, <1>3, <1>5, <2>4, <3>3
      <3>5. Terms[v] \in Nat /\ t \in Nat
        <4>1. Terms[v] \in Nat /\ Terms[s] \in Nat
          BY <1>3, <3>4
        <4> QED BY <1>3, <4>1
      <3> QED BY <3>3, <3>4, <3>5
    <2>7. \A l \in Server : P[l] = l => Terms'[l] # t
      <3>1. ASSUME NEW l \in Server, P[l] = l, Terms'[l] = t PROVE FALSE
        <4>1. Held(Logs, l, Len(Logs[l]), t)
          BY <2>3, <3>1 DEF Safe, LeadersOwn
        <4> QED BY <2>6, <4>1 DEF Held
      <3> QED BY <3>1
    <2>8. \A v \in E : v = s \/ Newer(Logs, s, v)
      <3> SUFFICES ASSUME NEW v \in E, v # s, Len(Logs[v]) > 0
                   PROVE  /\ Len(Logs[s]) > 0
                          /\ \/ Logs[s][Len(Logs[s])].term > Logs[v][Len(Logs[v])].term
                             \/ /\ Logs[s][Len(Logs[s])].term = Logs[v][Len(Logs[v])].term
                                /\ Len(Logs[s]) >= Len(Logs[v])
        BY DEF Newer
      <3>1. v \in Server /\ UpToDate(s, v)
        BY <1>5, <2>4
      <3>2. /\ Last(s) = Len(Logs[s]) /\ Last(v) = Len(Logs[v]) /\ Len(Logs[s]) \in Nat
            /\ Len(Logs[v]) \in Nat
            /\ TermAt(s, 0) = 0 /\ TermAt(v, Last(v)) = Logs[v][Len(Logs[v])].term
        BY <3>1, ServerReads
      <3>3. Logs[v][Len(Logs[v])].term \in Nat
        BY <1>1, <3>1, <3>2, LogTypes
      <3>4. Len(Logs[s]) > 0
        BY <3>1, <3>2, <3>3 DEF UpToDate
      <3>5. TermAt(s, Last(s)) = Logs[s][Len(Logs[s])].term
        BY <3>2, <3>4, ServerReads
      <3> QED BY <3>1, <3>2, <3>4, <3>5 DEF UpToDate
    <2>9. Terms'[s] = t
      BY <1>2
    <2>10. WinStep(Logs, Logs', Terms', Votes', P, leader_id', s, e, E)
      <3> HIDE DEF E
      <3> QED BY <2>1, <2>2, <2>4, <2>5, <2>6, <2>7, <2>8, <2>9 DEF WinStep
    <2> HIDE DEF E
    <2>11. Safe(Logs', Terms', Votes', Commits, leader_id', matched')
      BY <2>3, <2>10, WinIsSafe
    <2> QED BY <1>2, <2>11 DEF Safety
  <1> QED BY <1>8, <1>9

\* Learning a term is safe.
LEMMA LearnTermIsSafe ==
    ASSUME Shape, Safety, NEW s \in Server, NEW r \in Server, LearnTerm(s, r)
    PROVE  Safety'
  <1>1. /\ Terms \in [Server -> Nat]
        /\ matched \in [Server -> [Server -> Nat]]
        /\ leader_id \in [Server -> Server \cup {Nobody}] /\ Nobody \notin Server
        /\ \A v \in Server : leader_id[v] # v => matched[v] = NoMatch
    BY SafetyTypes
  <1>2. /\ Logs' = Logs /\ Commits' = Commits /\ Terms' = [Terms EXCEPT ![s] = Current(r)]
        /\ Votes' = [Votes EXCEPT ![s] = Nobody]
    BY LearnTermEffect
  <1>3. /\ Current(r) > Current(s) /\ leader_id' = [leader_id EXCEPT ![s] = Nobody]
        /\ matched' = Deposed({s})
    BY DEF LearnTerm
  <1>4. Current(r) \in Nat /\ Current(s) = Terms[s]
    BY ServerReads
  <1>5. Terms' \in [Server -> Nat] /\ Terms'[s] > Terms[s]
        /\ \A v \in Server : v # s => Terms'[v] = Terms[v]
    BY <1>1, <1>2, <1>3, <1>4
  <1>6. TermsGrow(Terms, Votes, Terms', Votes')
    <2>1. \A v \in Server : v # s => Votes'[v] = Votes[v]
      BY <1>2 DEF Votes
    <2> QED BY <1>5, <2>1 DEF TermsGrow
  <1>7. /\ matched' \in [Server -> [Server -> Nat]]
        /\ \A v \in Server : matched'[v] = IF v \in {s} THEN NoMatch ELSE matched[v]
    BY <1>1, <1>3, DeposedIs
  <1>8. ASSUME NEW l \in Server
        PROVE  IF leader_id'[l] = l
               THEN leader_id[l] = l /\ Terms'[l] = Terms[l] /\ matched'[l] = matched[l]
               ELSE matched'[l] = NoMatch
    <2>1. leader_id'[l] = IF l = s THEN Nobody ELSE leader_id[l]
      BY <1>1, <1>3
    <2>2. CASE leader_id'[l] = l
      BY <1>1, <1>5, <1>7, <2>1, <2>2
    <2>3. CASE leader_id'[l] # l
      BY <1>1, <1>7, <2>1, <2>3
    <2> QED BY <2>2, <2>3
  <1>9. TermStep(Terms, Votes, leader_id, matched, Terms', Votes', leader_id', matched')
    BY <1>5, <1>6, <1>7, <1>8 DEF TermStep
  <1>10. Safe(Logs, Terms', Votes', Commits, leader_id', matched')
    BY <1>9, TermStepIsSafe DEF Safety
  <1> QED BY <1>2, <1>10 DEF Safety

\* Logs that have the same term at an index are the same up to it.
LEMMA TermsAgree ==
    ASSUME Shape, Safety, NEW f \in Server, NEW l \in Server, NEW m \in 0..Len(Logs[l]),
           TermAt(f, m) = TermAt(l, m)
    PROVE  \A i \in 1..m : i <= Len(Logs[f]) /\ i <= Len(Logs[l]) /\ Logs[f][i] = Logs[l][i]
  <1>1. /\ Len(Logs[f]) \in Nat /\ Len(Logs[l]) \in Nat
        /\ \A i \in 1..Len(Logs[l]) : TermAt(l, i) = Logs[l][i].term
        /\ \A i \in 1..Len(Logs[f]) : TermAt(f, i) = Logs[f][i].term
        /\ \A i \in Nat : i > Len(Logs[f]) => TermAt(f, i) = Unavailable
    BY ServerReads
  <1>2. IsLogs(Logs) /\ Matching(Logs) /\ m \in Nat
    BY <1>1 DEF Safety, Safe
  <1>3. CASE m = 0
    BY <1>3
  <1>4. CASE m # 0
    <2>1. m \in 1..Len(Logs[l])
      BY <1>1, <1>4
    <2>2. Logs[l][m].term \in Nat /\ TermAt(l, m) = Logs[l][m].term
      BY <1>1, <1>2, <2>1, LogTypes
    <2>3. m \in 1..Len(Logs[f])
      <3>1. ~(m > Len(Logs[f]))
        BY <1>1, <1>2, <2>2 DEF Unavailable
      <3> QED BY <1>1, <2>1, <3>1
    <2>4. Logs[f][m].term = Logs[l][m].term
      BY <1>1, <2>2, <2>3
    <2>5. ASSUME NEW i \in 1..m PROVE Logs[f][i] = Logs[l][i]
      BY <1>2, <2>1, <2>3, <2>4 DEF Matching
    <2>6. \A i \in 1..m : i <= Len(Logs[f]) /\ i <= Len(Logs[l])
      BY <1>1, <2>1, <2>3
    <2> QED BY <2>5, <2>6
  <1> QED BY <1>3, <1>4

\* Replication is safe.
LEMMA ReplicateIsSafe ==
    ASSUME Shape, Safety, NEW l \in Server, NEW f \in Server, NEW prev \in 0..Last(l),
           NEW n \in prev..Lesser(prev + 1, Last(l)),
           NEW c \in Commits[f]..Greater(Commits[f], Lesser(Commits[l], n)),
           Replicate(l, f, prev, n, c), TailFree
    PROVE  Safety'
  <1> DEFINE N == Deposed({f})
             stale == Stale(f, prev)
             has == HasIt(l, f, prev, n)
             acked == IF stale THEN Commits[f] ELSE n
  <1>1. /\ IsLogs(Logs) /\ Terms \in [Server -> Nat] /\ Commits \in [Server -> Nat]
        /\ matched \in [Server -> [Server -> Nat]]
        /\ leader_id \in [Server -> Server \cup {Nobody}] /\ Nobody \notin Server
        /\ \A v \in Server : leader_id[v] # v => matched[v] = NoMatch
    BY SafetyTypes
  <1>2. /\ Last(l) = Len(Logs[l]) /\ Len(Logs[l]) \in Nat /\ Len(Logs[f]) \in Nat
        /\ Current(l) = Terms[l] /\ Current(f) = Terms[f]
    BY ServerReads
  <1>3. /\ prev \in Nat /\ n \in Nat /\ n <= Len(Logs[l]) /\ prev <= Len(Logs[l])
        /\ n \in {prev, prev + 1} /\ Commits[f] \in Nat /\ Commits[l] \in Nat /\ c \in Nat
    <2>1. prev \in Nat /\ prev <= Len(Logs[l])
      BY <1>2
    <2>2. Commits[f] \in Nat /\ Commits[l] \in Nat
      BY <1>1
    <2>3. n \in Nat /\ n <= Len(Logs[l]) /\ n \in {prev, prev + 1}
      BY <1>2, <2>1 DEF Lesser
    <2> QED BY <2>1, <2>2, <2>3
  <1>4. c = Commits[f] \/ (c > Commits[f] /\ c <= Commits[l] /\ c <= n)
    BY <1>3 DEF Greater, Lesser
  <1>5. /\ leader_id[l] = l /\ f # l /\ Terms[f] <= Terms[l]
        /\ leader_id' = [leader_id EXCEPT ![f] = l]
    BY <1>2 DEF Replicate, Leads
  <1>6. ~stale => TermAt(f, prev) = TermAt(l, prev)
    <2>1. Stored(store[f]) /\ Current(l) \in Nat /\ Commits[f] = store[f].hs.commit
      BY ServerReads
    <2>2. AtTerm(store[f], Current(l)).hs.commit = Commits[f]
      BY <2>1, AtTermIs
    <2> QED BY <2>2 DEF Replicate, Stale
  <1>7. Replicated(l, f, prev, n, c)
    BY <1>3, ReplicateEffect
  <1> HIDE DEF stale, has
  <1>8. /\ Terms' = [Terms EXCEPT ![f] = Terms[l]]
        /\ Votes' = [Votes EXCEPT ![f] = IF Terms[l] > Terms[f] THEN Nobody ELSE Votes[f]]
        /\ Commits' = [Commits EXCEPT ![f] =
                IF stale THEN Commits[f] ELSE Greater(Commits[f], Lesser(c, n))]
        /\ stale \/ has => Logs' = Logs
        /\ ~stale /\ ~has =>
                /\ n = prev + 1 /\ prev <= Len(Logs[f]) /\ Len(Logs'[f]) = n
                /\ Logs'[f][n] = Logs[l][n]
                /\ \A i \in 1..prev : Logs'[f][i] = Logs[f][i]
                /\ \A x \in Server : x # f => Logs'[x] = Logs[x]
        /\ matched' = [N EXCEPT ![l][f] = Greater(N[l][f], acked)]
        /\ IsLogs(Logs')
    <2>1. IsLogs(Logs')
      BY <1>7 DEF Replicated, Kept, Stored, Logs, IsLogs
    <2> QED BY <1>2, <1>7, <2>1 DEF Replicated, stale, has
  <1>9. /\ Terms' \in [Server -> Nat] /\ Terms'[f] = Terms[l] /\ Terms'[l] = Terms[l]
        /\ \A x \in Server : x # f => Terms'[x] = Terms[x] /\ leader_id'[x] = leader_id[x]
        /\ leader_id'[f] = l /\ leader_id'[l] = l
    BY <1>1, <1>5, <1>8
  <1>10. N \in [Server -> [Server -> Nat]]
         /\ \A v \in Server : N[v] = IF v \in {f} THEN NoMatch ELSE matched[v]
    BY <1>1, DeposedIs
  <1> HIDE DEF N
  <1>11. TermStep(Terms, Votes, leader_id, matched, Terms', Votes', leader_id', N)
    <2>1. TermsGrow(Terms, Votes, Terms', Votes')
      <3>1. Votes'[f] = (IF Terms[l] > Terms[f] THEN Nobody ELSE Votes[f])
            /\ \A v \in Server : v # f => Votes'[v] = Votes[v]
        BY <1>8 DEF Votes
      <3>2. Terms[f] \in Nat /\ Terms[l] \in Nat
        BY <1>1
      <3> QED BY <1>5, <1>9, <3>1, <3>2 DEF TermsGrow
    <2>2. ASSUME NEW m \in Server
          PROVE  IF leader_id'[m] = m
                 THEN leader_id[m] = m /\ Terms'[m] = Terms[m] /\ N[m] = matched[m]
                 ELSE N[m] = NoMatch
      <3>1. CASE m = f
        BY <1>5, <1>9, <1>10, <3>1
      <3>2. CASE m # f
        BY <1>1, <1>9, <1>10, <3>2
      <3> QED BY <3>1, <3>2
    <2> QED BY <1>9, <1>10, <2>1, <2>2 DEF TermStep
  <1>12. Safe(Logs, Terms', Votes', Commits, leader_id', N)
    BY <1>11, TermStepIsSafe DEF Safety
  <1>13. ~stale => \A i \in 1..n : /\ i <= Len(Logs'[f]) /\ i <= Len(Logs[l])
                                   /\ Logs'[f][i] = Logs[l][i]
    <2> SUFFICES ASSUME ~stale
                 PROVE  \A i \in 1..n : /\ i <= Len(Logs'[f]) /\ i <= Len(Logs[l])
                                        /\ Logs'[f][i] = Logs[l][i]
      OBVIOUS
    <2>1. CASE has
      <3>1. TermAt(f, n) = TermAt(l, n)
        BY <1>6, <2>1 DEF has, HasIt
      <3>2. n \in 0..Len(Logs[l])
        BY <1>2, <1>3
      <3> QED BY <1>8, <2>1, <3>1, <3>2, TermsAgree
    <2>2. CASE ~has
      <3>1. prev \in 0..Len(Logs[l]) /\ TermAt(f, prev) = TermAt(l, prev)
        BY <1>2, <1>3, <1>6
      <3>2. \A i \in 1..prev : Logs[f][i] = Logs[l][i]
        BY <3>1, TermsAgree
      <3>3. /\ n = prev + 1 /\ prev <= Len(Logs[f]) /\ Len(Logs'[f]) = n
            /\ Logs'[f][n] = Logs[l][n] /\ \A i \in 1..prev : Logs'[f][i] = Logs[f][i]
        BY <1>8, <2>2
      <3>4. ASSUME NEW i \in 1..n
            PROVE  /\ i <= Len(Logs'[f]) /\ i <= Len(Logs[l]) /\ Logs'[f][i] = Logs[l][i]
        <4>1. i \in 1..prev \/ i = n
          BY <1>3, <3>3
        <4>2. i <= Len(Logs'[f]) /\ i <= Len(Logs[l])
          BY <1>2, <1>3, <3>3
        <4>3. Logs'[f][i] = Logs[l][i]
          BY <3>2, <3>3, <4>1
        <4> QED BY <4>2, <4>3
      <3> QED BY <3>4
    <2> QED BY <2>1, <2>2
  <1>14. Safe(Logs', Terms', Votes', Commits, leader_id', N) /\ Logs'[l] = Logs[l]
    <2>1. CASE stale \/ has
      BY <1>8, <1>12, <2>1
    <2>2. CASE ~stale /\ ~has
      <3>1. n \in 1..Len(Logs[l]) /\ n = prev + 1 /\ Len(Logs'[f]) = n
        BY <1>2, <1>3, <1>8, <2>2
      <3>2. ~Held(Logs, f, n, Logs[l][n].term)
        <4>1. TermAt(f, n) # TermAt(l, n) /\ TermAt(l, n) = Logs[l][n].term
          BY <2>2, <3>1, ServerReads DEF has, HasIt
        <4>2. n \in 1..Len(Logs[f]) => TermAt(f, n) = Logs[f][n].term
          BY ServerReads
        <4> QED BY <4>1, <4>2 DEF Held
      <3>3. Copied(Logs, Logs', f, l, n)
        BY <1>8, <1>13, <2>2, <3>1, <3>2 DEF Copied
      <3>4. Commits[f] < n
        BY <1>3, <2>2, <3>1 DEF stale, Stale
      <3>5. \A i \in 1..(n - 1) : i <= Len(Logs[f]) /\ Logs[f][i] = Logs[l][i]
        <4>1. prev \in 0..Len(Logs[l]) /\ TermAt(f, prev) = TermAt(l, prev) /\ n - 1 = prev
          BY <1>2, <1>3, <1>6, <2>2, <3>1
        <4> QED BY <4>1, TermsAgree
      <3>6. CopyStep(Logs, Logs', Terms', Commits, leader_id', f, l, n)
        BY <1>5, <1>9, <3>3, <3>4, <3>5 DEF CopyStep
      <3> QED BY <1>5, <1>8, <1>12, <2>2, <3>6, CopyIsSafe
    <2> QED BY <2>1, <2>2
  <1>15. AckStep(Logs', N, matched', l, f, acked)
    <2>1. CASE stale
      <3>1. Logs' = Logs /\ Commits[f] <= Len(Logs[f])
        BY <1>8, <2>1 DEF Safety, Safe, Covered
      <3>2. \A i \in 1..Commits[f] : Commits[f] <= Len(Logs[l]) /\ Logs[l][i] = Logs[f][i]
        <4>1. Terms'[f] <= Terms'[l]
          BY <1>1, <1>9
        <4> QED BY <1>9, <1>12, <4>1, LeaderHasCommitted
      <3>3. Commits[f] \in 0..Len(Logs[l])
        <4>1. CASE Commits[f] = 0
          BY <1>2, <4>1
        <4>2. CASE Commits[f] # 0
          <5>1. 1 \in 1..Commits[f]
            BY <1>3, <4>2
          <5> QED BY <1>2, <1>3, <3>2, <5>1
        <4> QED BY <4>1, <4>2
      <3>4. \A i \in 1..Commits[f] : Held(Logs, f, i, Logs[l][i].term)
        <4>1. \A i \in 1..Commits[f] : i \in 1..Len(Logs[f])
          BY <1>2, <1>3, <3>1
        <4> QED BY <3>2, <4>1 DEF Held
      <3> QED BY <1>8, <2>1, <3>1, <3>3, <3>4 DEF AckStep
    <2>2. CASE ~stale
      <3>1. n \in 0..Len(Logs'[l])
        BY <1>2, <1>3, <1>14
      <3>2. \A i \in 1..n : Held(Logs', f, i, Logs'[l][i].term)
        <4>1. Len(Logs'[f]) \in Nat
          BY <1>8, LogTypes
        <4>2. \A i \in 1..n : i \in 1..Len(Logs'[f]) /\ Logs'[f][i].term = Logs'[l][i].term
          BY <1>3, <1>13, <1>14, <2>2, <4>1
        <4> QED BY <4>2 DEF Held
      <3> QED BY <1>8, <2>2, <3>1, <3>2 DEF AckStep
    <2> QED BY <2>1, <2>2
  <1>16. Safe(Logs', Terms', Votes', Commits, leader_id', matched')
    <2>1. Terms'[f] <= Terms'[l]
      BY <1>1, <1>9
    <2> HIDE DEF acked
    <2> QED BY <1>9, <1>14, <1>15, <2>1, AckStepIsSafe
  <1>17. CASE stale \/ c = Commits[f]
    <2>1. stale \/ Greater(Commits[f], Lesser(c, n)) = Commits[f]
      BY <1>3, <1>17 DEF Greater, Lesser
    <2>2. Commits' = Commits
      BY <1>1, <1>8, <2>1
    <2> QED BY <1>16, <2>2 DEF Safety
  <1>18. CASE ~stale /\ c # Commits[f]
    <2>1. c > Commits[f] /\ c <= Commits[l] /\ c <= n
      BY <1>4, <1>18
    <2>2. Greater(Commits[f], Lesser(c, n)) = c
      BY <1>3, <2>1 DEF Greater, Lesser
    <2>3. Commits' = [Commits EXCEPT ![f] = c]
      BY <1>8, <1>18, <2>2
    <2>4. \A i \in 1..c : i <= Len(Logs'[f]) /\ Logs'[f][i] = Logs'[l][i]
      <3>1. \A i \in 1..c : i \in 1..n
        BY <1>3, <2>1
      <3> QED BY <1>13, <1>14, <1>18, <3>1
    <2>5. FollowStep(Logs', Terms', Commits, leader_id', Commits', f, l, c)
      <3>1. c \in 0..Commits[l]
        BY <1>3, <2>1
      <3> QED BY <1>9, <2>3, <2>4, <3>1 DEF FollowStep
    <2>6. Safe(Logs', Terms', Votes', Commits', leader_id', matched')
      BY <1>16, <2>5, FollowIsSafe
    <2> QED BY <2>6 DEF Safety
  <1> QED BY <1>17, <1>18

\* A leader's commit is safe.
LEMMA LeaderCommitIsSafe ==
    ASSUME Shape, Safety, NEW l \in Server, NEW n \in 1..Last(l), LeaderCommit(l, n)
    PROVE  Safety'
  <1>1. n \in Nat /\ n \in 1..Len(Logs[l]) /\ TermAt(l, n) = Logs[l][n].term /\ Current(l) = Terms[l]
    BY ServerReads
  <1>2. /\ Logs' = Logs /\ Terms' = Terms /\ Votes' = Votes
        /\ Commits' = [Commits EXCEPT ![l] = n]
    BY <1>1, LeaderCommitEffect
  <1>3. CommitStep(Logs, Terms, Commits, leader_id, matched, Commits', l, n)
    BY <1>1, <1>2 DEF LeaderCommit, Leads, CommitStep
  <1>4. Safe(Logs, Terms, Votes, Commits', leader_id, matched)
    BY <1>3, CommitIsSafe DEF Safety
  <1>5. leader_id' = leader_id /\ matched' = matched
    BY DEF LeaderCommit
  <1> QED BY <1>2, <1>4, <1>5 DEF Safety

----------------------------------------------------------------------------
(* Every action keeps the shape of the state                               *)

\* What a server has committed.
LEMMA DecidedIs ==
    ASSUME NEW s \in Server
    PROVE  Decided[s] = [i \in 1..Commits[s] |-> Logs[s][i].payload]
  BY DEF Decided, Applied, Commits, Logs

\* The same in the next state.
LEMMA DecidedIsNext ==
    ASSUME NEW s \in Server
    PROVE  Decided'[s] = [i \in 1..Commits'[s] |-> Logs'[s][i].payload]
  BY DEF Decided, Applied, Commits, Logs

\* It stays the same with the same commit index and entries.
LEMMA DecidedStays ==
    ASSUME NEW s \in Server, Commits'[s] = Commits[s],
           \A i \in 1..Commits[s] : Logs'[s][i] = Logs[s][i]
    PROVE  Decided'[s] = Decided[s]
  <1>1. Decided[s] = [i \in 1..Commits[s] |-> Logs[s][i].payload]
    BY DecidedIs
  <1>2. Decided'[s] = [i \in 1..Commits[s] |-> Logs'[s][i].payload]
    BY DecidedIsNext
  <1>3. \A i \in 1..Commits[s] : Logs'[s][i].payload = Logs[s][i].payload
    OBVIOUS
  <1> QED BY <1>1, <1>2, <1>3

\* What is committed stays, and grows.
Advances ==
    \A s \in Server :
        /\ Commits[s] \in Nat /\ Commits'[s] \in Nat /\ Commits[s] <= Commits'[s]
        /\ Commits'[s] <= Len(Logs'[s])
        /\ \A i \in 1..Commits[s] : Logs'[s][i] = Logs[s][i]

\* What the servers outside S have committed stays the same.
Others(S) ==
    \A s \in Server : s \notin S =>
        Commits'[s] = Commits[s] /\ \A i \in 1..Commits[s] : Logs'[s][i] = Logs[s][i]

\* The loops that run bring the maps up to what is committed.
LEMMA ReadyMachines ==
    ASSUME Shape, NEW S, S \subseteq Server, ProcessReady(S), Others(S)
    PROVE  MapsFit' /\ \A s \in S : machine'[s] = Decided'[s]
  <1>1. machine' = [s \in Server |-> IF s \in S THEN Applied(store'[s]) ELSE machine[s]]
    BY DEF ProcessReady
  <1>2. ASSUME NEW s \in Server, s \in S PROVE machine'[s] = Decided'[s]
    BY <1>1, <1>2 DEF Decided
  <1>3. ASSUME NEW s \in Server, s \notin S PROVE machine'[s] \in {Decided'[s], << >>}
    <2>1. machine'[s] = machine[s]
      BY <1>1, <1>3
    <2>2. machine[s] \in {Decided[s], << >>}
      BY DEF Shape, MapsFit
    <2>3. Commits'[s] = Commits[s] /\ \A i \in 1..Commits[s] : Logs'[s][i] = Logs[s][i]
      BY <1>3 DEF Others
    <2>4. Decided'[s] = Decided[s]
      BY <2>3, DecidedStays
    <2> QED BY <2>1, <2>2, <2>4
  <1>4. machine' = [s \in Server |-> machine'[s]]
    BY <1>1
  <1>5. \A s \in Server : machine'[s] \in {Decided'[s], << >>}
    BY <1>2, <1>3
  <1> QED BY <1>2, <1>4, <1>5 DEF MapsFit

\* What it takes to keep the shape.
LEMMA ShapeStays ==
    ASSUME Shape, Safety', Kept', UNCHANGED <<backend, crashes>>,
           offset' = [s \in Server |-> Len(Logs'[s]) + 1],
           leader_id' \in [Server -> Server \cup {Nobody}],
           MapsFit',
           \A s \in Server : Terms'[s] <= MaxTerm[backend]
    PROVE  Shape'
  <1>1. offset' = [s \in Server |-> Len(store'[s].entries) + 1]
    BY DEF Logs
  <1>2. matched' \in [Server -> [Server -> Nat]]
    BY DEF Safety, Safe
  <1>3. \A s \in Server : store'[s].hs.term <= MaxTerm[backend]
    BY DEF Terms
  <1> QED BY <1>1, <1>2, <1>3 DEF Shape, Kept

\* The bounds of what is committed.
LEMMA CommitBounds ==
    ASSUME Shape, Safety, NEW s \in Server
    PROVE  Commits[s] \in Nat /\ Len(Logs[s]) \in Nat /\ Commits[s] <= Len(Logs[s])
  BY ServerReads DEF Safety, Safe, Covered

\* The terms stay within their bound.
LEMMA TermBounds ==
    ASSUME Shape, NEW s \in Server
    PROVE  Current(s) <= MaxTerm[backend] /\ Terms[s] <= MaxTerm[backend]
  BY DEF Shape, Terms, Current

\* The next offset after an append.
LEMMA OffsetGrows ==
    ASSUME Shape, NEW s \in Server, offset' = [offset EXCEPT ![s] = Last(s) + 2],
           \A x \in Server : Len(Logs'[x]) = IF x = s THEN Len(Logs[s]) + 1 ELSE Len(Logs[x])
    PROVE  offset' = [x \in Server |-> Len(Logs'[x]) + 1]
  <1>1. offset = [x \in Server |-> Len(Logs[x]) + 1]
    BY DEF Shape, Logs
  <1>2. Last(s) + 2 = Len(Logs'[s]) + 1
    <2>1. Last(s) = Len(Logs[s]) /\ Len(Logs[s]) \in Nat /\ Len(Logs'[s]) = Len(Logs[s]) + 1
      BY ServerReads
    <2> QED BY <2>1
  <1>3. offset' = [x \in Server |-> IF x = s THEN Len(Logs'[s]) + 1 ELSE Len(Logs[x]) + 1]
    BY <1>1, <1>2
  <1> QED BY <1>3

\* PUTs.
LEMMA PutShape ==
    ASSUME Shape, Safety, Safety', NEW s \in Server, NEW id \in Ids, Put(s, id)
    PROVE  Shape' /\ Advances
  <1>1. CASE Leads(s)
    <2> DEFINE e == [term |-> Current(s), payload |-> id]
    <2>1. /\ Kept' /\ Grown(Logs, Logs', s, e)
          /\ Terms' = Terms /\ Commits' = Commits
          /\ offset' = [offset EXCEPT ![s] = Last(s) + 2]
          /\ UNCHANGED <<backend, leader_id, machine, crashes>>
      BY <1>1, PutEffect
    <2> HIDE DEF e
    <2>2. \A x \in Server : Commits[x] \in Nat /\ Len(Logs[x]) \in Nat /\ Commits[x] <= Len(Logs[x])
      BY CommitBounds
    <2>3. \A x \in Server : \A i \in 1..Commits[x] : Logs'[x][i] = Logs[x][i]
      BY <2>1, <2>2 DEF Grown
    <2>4. \A x \in Server : Len(Logs'[x]) = IF x = s THEN Len(Logs[s]) + 1 ELSE Len(Logs[x])
      BY <2>1 DEF Grown
    <2>5. Advances
      BY <2>1, <2>2, <2>3, <2>4 DEF Advances
    <2>6. offset' = [x \in Server |-> Len(Logs'[x]) + 1]
      BY <2>1, <2>4, OffsetGrows
    <2>7. MapsFit'
      <3>1. machine' = machine /\ Commits' = Commits
        BY <2>1
      <3>2. \A x \in Server : Decided'[x] = Decided[x]
        BY <2>3, <3>1, DecidedStays
      <3> QED BY <3>1, <3>2 DEF Shape, MapsFit
    <2>8. \A x \in Server : Terms'[x] <= MaxTerm[backend]
      BY <2>1, TermBounds
    <2>9. leader_id' \in [Server -> Server \cup {Nobody}]
      BY <2>1 DEF Shape
    <2> QED BY <2>1, <2>5, <2>6, <2>7, <2>8, <2>9, ShapeStays
  <1>2. CASE ~Leads(s)
    <2>1. UNCHANGED <<backend, store, offset, leader_id, matched, machine, crashes>>
      BY <1>2 DEF Put
    <2>2. Commits' = Commits /\ Logs' = Logs
      BY <2>1 DEF Commits, Logs
    <2>3. Advances
      <3>1. \A x \in Server : Commits[x] \in Nat /\ Len(Logs[x]) \in Nat /\ Commits[x] <= Len(Logs[x])
        BY CommitBounds
      <3> QED BY <2>2, <3>1 DEF Advances
    <2>4. Decided' = Decided
      BY <2>1 DEF Decided, Applied
    <2>5. Shape'
      BY <2>1, <2>4 DEF Shape, MapsFit
    <2> QED BY <2>3, <2>5
  <1> QED BY <1>1, <1>2

\* Elections.
LEMMA ElectShape ==
    ASSUME Shape, Safety, Safety', NEW s \in Server, NEW Q, Elected(s, Q)
    PROVE  Shape' /\ Advances
  <1> DEFINE e == [term |-> Current(s) + 1, payload |-> Empty]
  <1>1. /\ Kept' /\ Commits' = Commits /\ UNCHANGED <<backend, crashes>>
        /\ IF Wins(s, Q) THEN Grown(Logs, Logs', s, e) ELSE Logs' = Logs
        /\ offset' = IF Wins(s, Q) THEN [offset EXCEPT ![s] = Last(s) + 2] ELSE offset
        /\ Current(s) + 1 <= MaxTerm[backend]
        /\ Terms' = [v \in Server |->
                IF v = s \/ v \in Follow(s, Q) THEN Current(s) + 1 ELSE Terms[v]]
        /\ leader_id' = [v \in Server |->
            IF v = s /\ Wins(s, Q) THEN s
            ELSE IF v \in Follow(s, Q) \cup {s} THEN Nobody ELSE leader_id[v]]
        /\ ProcessReady(Q \cup {s})
    BY DEF Elected
  <1> HIDE DEF e
  <1>2. \A x \in Server : Commits[x] \in Nat /\ Len(Logs[x]) \in Nat /\ Commits[x] <= Len(Logs[x])
    BY CommitBounds
  <1>3. \A x \in Server : /\ Len(Logs'[x]) = IF x = s /\ Wins(s, Q) THEN Len(Logs[x]) + 1
                                             ELSE Len(Logs[x])
                          /\ \A i \in 1..Commits[x] : Logs'[x][i] = Logs[x][i]
    <2>1. CASE Wins(s, Q)
      <3>1. /\ Len(Logs'[s]) = Len(Logs[s]) + 1
            /\ \A i \in 1..Len(Logs[s]) : Logs'[s][i] = Logs[s][i]
            /\ \A x \in Server : x # s => Logs'[x] = Logs[x]
        BY <1>1, <2>1 DEF Grown
      <3>2. \A i \in 1..Commits[s] : i \in 1..Len(Logs[s])
        BY <1>2
      <3> QED BY <2>1, <3>1, <3>2
    <2>2. CASE ~Wins(s, Q)
      BY <1>1, <2>2
    <2> QED BY <2>1, <2>2
  <1>4. Advances
    BY <1>1, <1>2, <1>3 DEF Advances
  <1>5. offset' = [x \in Server |-> Len(Logs'[x]) + 1]
    <2>1. CASE Wins(s, Q)
      BY <1>1, <1>3, <2>1, OffsetGrows
    <2>2. CASE ~Wins(s, Q)
      BY <1>1, <2>2 DEF Shape, Logs
    <2> QED BY <2>1, <2>2
  <1>6. MapsFit'
    <2>1. Others(Q \cup {s})
      BY <1>1, <1>3 DEF Others
    <2>2. Q \cup {s} \subseteq Server
      BY DEF Elected
    <2> QED BY <1>1, <2>1, <2>2, ReadyMachines
  <1>7. \A x \in Server : Terms'[x] <= MaxTerm[backend]
    BY <1>1, TermBounds
  <1>8. leader_id' \in [Server -> Server \cup {Nobody}]
    BY <1>1 DEF Shape
  <1> QED BY <1>1, <1>4, <1>5, <1>6, <1>7, <1>8, ShapeStays

\* Terms learnt.
LEMMA LearnTermShape ==
    ASSUME Shape, Safety, Safety', NEW s \in Server, NEW r \in Server, LearnTerm(s, r)
    PROVE  Shape' /\ Advances
  <1>1. /\ Kept' /\ Logs' = Logs /\ Commits' = Commits
        /\ Terms' = [Terms EXCEPT ![s] = Current(r)]
    BY LearnTermEffect
  <1>2. /\ UNCHANGED <<backend, offset, crashes>> /\ ProcessReady({s})
        /\ leader_id' = [leader_id EXCEPT ![s] = Nobody]
    BY DEF LearnTerm
  <1>3. \A x \in Server : Commits[x] \in Nat /\ Len(Logs[x]) \in Nat /\ Commits[x] <= Len(Logs[x])
    BY CommitBounds
  <1>4. Advances
    BY <1>1, <1>3 DEF Advances
  <1>5. offset' = [x \in Server |-> Len(Logs'[x]) + 1]
    BY <1>1, <1>2 DEF Shape, Logs
  <1>6. MapsFit'
    <2>1. Others({s})
      BY <1>1 DEF Others
    <2> QED BY <1>2, <2>1, ReadyMachines
  <1>7. \A x \in Server : Terms'[x] <= MaxTerm[backend]
    <2>1. \A x \in Server : Terms'[x] = Terms[x] \/ Terms'[x] = Current(r)
      BY <1>1 DEF Terms
    <2> QED BY <2>1, TermBounds
  <1>8. leader_id' \in [Server -> Server \cup {Nobody}]
    BY <1>2 DEF Shape
  <1> QED BY <1>1, <1>2, <1>4, <1>5, <1>6, <1>7, <1>8, ShapeStays

\* Replication.
LEMMA ReplicateShape ==
    ASSUME Shape, Safety, Safety', NEW l \in Server, NEW f \in Server, NEW prev \in 0..Last(l),
           NEW n \in prev..Lesser(prev + 1, Last(l)), NEW c \in Nat,
           Replicate(l, f, prev, n, c), TailFree
    PROVE  Shape' /\ Advances
  <1> DEFINE quiet == Stale(f, prev) \/ HasIt(l, f, prev, n)
             commit == IF Stale(f, prev) THEN Commits[f] ELSE Greater(Commits[f], Lesser(c, n))
  <1>1. /\ Kept' /\ Terms' = [Terms EXCEPT ![f] = Current(l)]
        /\ Commits' = [Commits EXCEPT ![f] = commit]
        /\ quiet => Logs' = Logs
        /\ ~quiet => /\ n = prev + 1 /\ Len(Logs'[f]) = n
                     /\ \A i \in 1..prev : Logs'[f][i] = Logs[f][i]
                     /\ \A x \in Server : x # f => Logs'[x] = Logs[x]
        /\ offset' = [offset EXCEPT ![f] = IF quiet THEN offset[f] ELSE n + 1]
    <2>1. Replicated(l, f, prev, n, c)
      BY ReplicateEffect
    <2> QED BY <2>1 DEF Replicated
  <1>2. /\ UNCHANGED <<backend, crashes>> /\ ProcessReady({f})
        /\ leader_id' = [leader_id EXCEPT ![f] = l]
    BY DEF Replicate
  <1>3. \A x \in Server : Commits[x] \in Nat /\ Len(Logs[x]) \in Nat /\ Commits[x] <= Len(Logs[x])
    BY CommitBounds
  <1>4. \A x \in Server : Commits'[x] \in Nat /\ Commits'[x] <= Len(Logs'[x])
    BY DEF Safety, Safe, Covered
  <1>5. prev \in Nat /\ n \in Nat
    <2>1. Last(l) \in Nat
      BY ServerReads
    <2> QED BY <2>1
  <1>6. commit >= Commits[f]
    BY <1>3, <1>5 DEF Greater, Lesser
  <1>7. ~quiet => \A i \in 1..Commits[f] : i \in 1..prev
    BY <1>3, <1>5 DEF Stale
  <1> HIDE DEF quiet, commit
  <1>8. ASSUME NEW x \in Server
        PROVE  /\ Commits[x] <= Commits'[x] /\ (x # f => Commits'[x] = Commits[x])
               /\ \A i \in 1..Commits[x] : Logs'[x][i] = Logs[x][i]
    <2>1. Commits'[x] = IF x = f THEN commit ELSE Commits[x]
      BY <1>1 DEF Commits
    <2>2. Commits[x] <= Commits'[x] /\ (x # f => Commits'[x] = Commits[x])
      BY <1>3, <1>6, <2>1
    <2>3. \A i \in 1..Commits[x] : Logs'[x][i] = Logs[x][i]
      <3>1. CASE quiet \/ x # f
        BY <1>1, <3>1
      <3>2. CASE ~quiet /\ x = f
        BY <1>1, <1>7, <3>2
      <3> QED BY <3>1, <3>2
    <2> QED BY <2>2, <2>3
  <1>9. Advances
    BY <1>3, <1>4, <1>8 DEF Advances
  <1>10. offset' = [x \in Server |-> Len(Logs'[x]) + 1]
    <2>1. offset = [x \in Server |-> Len(Logs[x]) + 1]
      BY DEF Shape, Logs
    <2>2. CASE quiet
      BY <1>1, <2>1, <2>2
    <2>3. CASE ~quiet
      <3>1. offset' = [x \in Server |-> IF x = f THEN n + 1 ELSE Len(Logs[x]) + 1]
        BY <1>1, <2>1, <2>3
      <3>2. \A x \in Server : Len(Logs'[x]) = IF x = f THEN n ELSE Len(Logs[x])
        BY <1>1, <2>3
      <3> QED BY <3>1, <3>2
    <2> QED BY <2>2, <2>3
  <1>11. MapsFit'
    <2>1. Others({f})
      BY <1>8 DEF Others
    <2> QED BY <1>2, <2>1, ReadyMachines
  <1>12. \A x \in Server : Terms'[x] <= MaxTerm[backend]
    <2>1. \A x \in Server : Terms'[x] = Terms[x] \/ Terms'[x] = Current(l)
      BY <1>1 DEF Terms
    <2> QED BY <2>1, TermBounds
  <1>13. leader_id' \in [Server -> Server \cup {Nobody}]
    BY <1>2 DEF Shape
  <1> QED BY <1>1, <1>2, <1>9, <1>10, <1>11, <1>12, <1>13, ShapeStays

\* Commits.
LEMMA LeaderCommitShape ==
    ASSUME Shape, Safety, Safety', NEW l \in Server, NEW n \in Nat, n > Commits[l],
           LeaderCommit(l, n)
    PROVE  Shape' /\ Advances
  <1>1. /\ Kept' /\ Logs' = Logs /\ Terms' = Terms /\ Commits' = [Commits EXCEPT ![l] = n]
    BY LeaderCommitEffect
  <1>2. /\ UNCHANGED <<backend, offset, leader_id, crashes>> /\ ProcessReady({l})
    BY DEF LeaderCommit
  <1>3. \A x \in Server : Commits[x] \in Nat /\ Len(Logs[x]) \in Nat /\ Commits[x] <= Len(Logs[x])
    BY CommitBounds
  <1>4. \A x \in Server : Commits'[x] \in Nat /\ Commits'[x] <= Len(Logs'[x])
    BY DEF Safety, Safe, Covered
  <1>5. \A x \in Server : Commits'[x] = IF x = l THEN n ELSE Commits[x]
    BY <1>1 DEF Commits
  <1>6. Advances
    BY <1>1, <1>3, <1>4, <1>5 DEF Advances
  <1>7. offset' = [x \in Server |-> Len(Logs'[x]) + 1]
    BY <1>1, <1>2 DEF Shape, Logs
  <1>8. MapsFit'
    <2>1. Others({l})
      BY <1>1, <1>5 DEF Others
    <2> QED BY <1>2, <2>1, ReadyMachines
  <1>9. \A x \in Server : Terms'[x] <= MaxTerm[backend]
    BY <1>1, TermBounds
  <1>10. leader_id' \in [Server -> Server \cup {Nobody}]
    BY <1>2 DEF Shape
  <1> QED BY <1>1, <1>2, <1>6, <1>7, <1>8, <1>9, <1>10, ShapeStays

\* What a restart leaves as it was.
LEMMA RestartEffect ==
    ASSUME Shape, NEW s \in Server, Restart(s)
    PROVE  /\ Kept' /\ Logs' = Logs /\ Terms' = Terms /\ Votes' = Votes
           /\ Commits' = Commits /\ backend' = backend
           /\ \A x \in Server : Decided'[x] = Decided[x]
  <1>1. store' = [store EXCEPT ![s] = store[s]] /\ backend' = backend
    BY DEF Restart, InitialState
  <1>2. DOMAIN store = Server /\ \A x \in Server : Stored(store[x])
    BY DEF Shape
  <1>3. DOMAIN store' = Server /\ \A x \in Server : store'[x] = store[x]
    BY <1>1, <1>2
  <1>4. Kept'
    BY <1>2, <1>3 DEF Kept
  <1>5. Logs' = Logs /\ Terms' = Terms /\ Votes' = Votes /\ Commits' = Commits
    BY <1>3 DEF Logs, Terms, Votes, Commits
  <1>6. \A x \in Server : Decided'[x] = Decided[x]
    BY <1>3 DEF Decided
  <1> QED BY <1>1, <1>4, <1>5, <1>6

\* A restart is safe.
LEMMA RestartIsSafe ==
    ASSUME Shape, Safety, NEW s \in Server, Restart(s)
    PROVE  Safety'
  <1>1. /\ Terms \in [Server -> Nat]
        /\ matched \in [Server -> [Server -> Nat]]
        /\ leader_id \in [Server -> Server \cup {Nobody}] /\ Nobody \notin Server
        /\ \A v \in Server : leader_id[v] # v => matched[v] = NoMatch
    BY SafetyTypes
  <1>2. /\ Logs' = Logs /\ Commits' = Commits /\ Terms' = Terms /\ Votes' = Votes
    BY RestartEffect
  <1>3. /\ leader_id' = [leader_id EXCEPT ![s] = Nobody] /\ matched' = Deposed({s})
    BY DEF Restart
  <1>4. TermsGrow(Terms, Votes, Terms, Votes)
    BY <1>1 DEF TermsGrow
  <1>5. /\ matched' \in [Server -> [Server -> Nat]]
        /\ \A v \in Server : matched'[v] = IF v \in {s} THEN NoMatch ELSE matched[v]
    BY <1>1, <1>3, DeposedIs
  <1>6. ASSUME NEW l \in Server
        PROVE  IF leader_id'[l] = l
               THEN leader_id[l] = l /\ Terms[l] = Terms[l] /\ matched'[l] = matched[l]
               ELSE matched'[l] = NoMatch
    <2>1. leader_id'[l] = IF l = s THEN Nobody ELSE leader_id[l]
      BY <1>1, <1>3
    <2> QED BY <1>1, <1>5, <2>1
  <1>7. TermStep(Terms, Votes, leader_id, matched, Terms, Votes, leader_id', matched')
    BY <1>1, <1>4, <1>5, <1>6 DEF TermStep
  <1>8. Safe(Logs, Terms, Votes, Commits, leader_id', matched')
    BY <1>7, TermStepIsSafe DEF Safety
  <1> QED BY <1>2, <1>8 DEF Safety

\* Restarts.
LEMMA RestartShape ==
    ASSUME Shape, Safety, Safety', NEW s \in Server, Restart(s)
    PROVE  Shape' /\ Advances
  <1>1. /\ Kept' /\ Logs' = Logs /\ Terms' = Terms /\ Commits' = Commits
        /\ backend' = backend /\ \A x \in Server : Decided'[x] = Decided[x]
    BY RestartEffect
  <1>2. /\ crashes < MaxCrashes /\ crashes' = crashes + 1
        /\ offset' = [offset EXCEPT ![s] = Last(s) + 1]
        /\ leader_id' = [leader_id EXCEPT ![s] = Nobody]
        /\ machine' = [machine EXCEPT ![s] = << >>]
    BY DEF Restart
  <1>3. Advances
    <2>1. \A x \in Server : Commits[x] \in Nat /\ Commits[x] <= Len(Logs[x])
      BY CommitBounds
    <2> QED BY <1>1, <2>1 DEF Advances
  <1>4. MapsFit'
    <2>1. machine = [x \in Server |-> machine[x]]
          /\ \A x \in Server : machine[x] \in {Decided[x], << >>}
      BY DEF Shape, MapsFit
    <2>2. machine' = [x \in Server |-> IF x = s THEN << >> ELSE machine[x]]
      BY <1>2, <2>1
    <2> QED BY <1>1, <2>1, <2>2 DEF MapsFit
  <1>5. offset' = [x \in Server |-> Len(store'[x].entries) + 1]
    <2>1. offset = [x \in Server |-> Len(Logs[x]) + 1] /\ Last(s) = Len(Logs[s])
      BY ServerReads DEF Shape, Logs
    <2>2. offset' = [x \in Server |-> Len(Logs'[x]) + 1]
      BY <1>1, <1>2, <2>1
    <2> QED BY <2>2 DEF Logs
  <1>6. crashes' \in 0..MaxCrashes
    BY <1>2, ClusterConstants DEF Shape
  <1>7. leader_id' \in [Server -> Server \cup {Nobody}] /\ backend' \in Backends
    BY <1>1, <1>2 DEF Shape
  <1>8. matched' \in [Server -> [Server -> Nat]]
    BY DEF Safety, Safe
  <1>9. \A x \in Server : store'[x].hs.term <= MaxTerm[backend']
    <2>1. \A x \in Server : Terms'[x] <= MaxTerm[backend']
      BY <1>1, TermBounds
    <2> QED BY <2>1 DEF Terms
  <1> QED BY <1>1, <1>3, <1>4, <1>5, <1>6, <1>7, <1>8, <1>9 DEF Shape, Kept

\* Replays.
LEMMA ReplayShape ==
    ASSUME Shape, Safety, NEW s \in Server, Replay(s)
    PROVE  Safety' /\ Shape' /\ Advances
  <1>1. /\ UNCHANGED <<backend, store, offset, leader_id, matched, crashes>>
        /\ ProcessReady({s})
    BY DEF Replay
  <1>2. /\ Logs' = Logs /\ Terms' = Terms /\ Votes' = Votes /\ Commits' = Commits
    BY <1>1 DEF Logs, Terms, Votes, Commits
  <1>3. Safety'
    BY <1>1, <1>2 DEF Safety
  <1>4. Advances
    <2>1. \A x \in Server : Commits[x] \in Nat /\ Commits[x] <= Len(Logs[x])
      BY CommitBounds
    <2> QED BY <1>2, <2>1 DEF Advances
  <1>5. MapsFit'
    <2>1. Others({s})
      BY <1>2 DEF Others
    <2> QED BY <1>1, <2>1, ReadyMachines
  <1>6. Shape'
    BY <1>1, <1>5 DEF Shape
  <1> QED BY <1>3, <1>4, <1>6

----------------------------------------------------------------------------
(* Every action keeps a callback or an answer for each PUT in a log        *)

\* A PUT in a log waits, has been answered by a server that had it committed,
\* or was given up in a restart.
Placed(id, A, B, N) ==
    \/ A[id] = "none" /\ \E r \in Server : id \in B[r]
    \/ A[id] = "ok" /\ \E r \in Server : id \in Contents(N[r])
    \/ A[id] = "dropped"

\* Each PUT in a log was in one at the same index.
Carried ==
    \A s \in Server : \A i \in 1..Len(Logs'[s]) : Logs'[s][i].payload \in Ids =>
        \E r \in Server : i \in 1..Len(Logs[r]) /\ Logs[r][i].payload = Logs'[s][i].payload

\* What a server has committed only grows.
LEMMA DecidedGrows ==
    ASSUME Advances, NEW s \in Server
    PROVE  Contents(Decided[s]) \subseteq Contents(Decided'[s])
  <1>1. Decided[s] = [i \in 1..Commits[s] |-> Logs[s][i].payload]
    BY DecidedIs
  <1>2. Decided'[s] = [i \in 1..Commits'[s] |-> Logs'[s][i].payload]
    BY DecidedIsNext
  <1>3. /\ Commits[s] \in Nat /\ Commits'[s] \in Nat /\ Commits[s] <= Commits'[s]
        /\ \A i \in 1..Commits[s] : Logs'[s][i] = Logs[s][i]
    BY DEF Advances
  <1>4. \A i \in 1..Commits[s] : i \in 1..Commits'[s] /\ Decided'[s][i] = Decided[s][i]
    BY <1>1, <1>2, <1>3
  <1>5. DOMAIN Decided[s] = 1..Commits[s] /\ DOMAIN Decided'[s] = 1..Commits'[s]
    BY <1>1, <1>2
  <1> QED BY <1>4, <1>5 DEF Contents

\* The loops that run callbacks answer those, and no others.
LEMMA ReadyWaiting ==
    ASSUME Waiting, Advances, Carried, NEW S, S \subseteq Server, ProcessReady(S)
    PROVE  Waiting'
  <1> DEFINE done == [s \in Server |->
                IF s \in S THEN callbacks[s] \cap Contents(machine'[s]) ELSE {}]
  <1>a. \A s \in S : machine'[s] = Decided'[s]
    BY DEF ProcessReady, Decided
  <1>1. /\ callbacks' = [s \in Server |-> callbacks[s] \ done[s]]
        /\ answers' = [id \in Ids |->
                IF \E s \in S : id \in done[s] THEN "ok" ELSE answers[id]]
    BY DEF ProcessReady
  <1>2. \A s \in Server, id \in Ids :
            id \in done[s] <=> s \in S /\ id \in callbacks[s] /\ id \in Contents(Decided'[s])
    BY <1>a
  <1> HIDE DEF done
  <1>3. /\ callbacks \in [Server -> SUBSET Ids]
        /\ answers \in [Ids -> {"none", "not_leader", "ok", "dropped"}]
        /\ \A s \in Server : \A id \in callbacks[s] :
             answers[id] = "none" /\ \A r \in Server \ {s} : id \notin callbacks[r]
    BY DEF Waiting
  <1>4. /\ callbacks' \in [Server -> SUBSET Ids]
        /\ answers' \in [Ids -> {"none", "not_leader", "ok", "dropped"}]
    BY <1>1, <1>3
  <1>5. ASSUME NEW s \in Server, NEW id \in callbacks'[s]
        PROVE  answers'[id] = "none" /\ \A r \in Server \ {s} : id \notin callbacks'[r]
    <2>1. id \in callbacks[s] /\ id \notin done[s] /\ id \in Ids
      BY <1>1, <1>3
    <2>2. answers[id] = "none" /\ \A r \in Server \ {s} : id \notin callbacks[r]
      BY <1>3, <2>1
    <2>3. \A r \in S : id \notin done[r]
      BY <1>2, <2>1, <2>2
    <2> QED BY <1>1, <2>1, <2>2, <2>3
  <1>6. ASSUME NEW id \in Ids, Placed(id, answers, callbacks, Decided)
        PROVE  Placed(id, answers', callbacks', Decided')
    <2>1. CASE answers[id] = "none" /\ \E r \in Server : id \in callbacks[r]
      <3>1. CASE \E s \in S : id \in done[s]
        <4>1. answers'[id] = "ok"
          BY <1>1, <3>1
        <4>2. \E s \in Server : id \in Contents(Decided'[s])
          BY <1>2, <3>1
        <4> QED BY <4>1, <4>2 DEF Placed
      <3>2. CASE ~ \E s \in S : id \in done[s]
        <4>1. PICK r \in Server : id \in callbacks[r]
          BY <2>1
        <4>2. id \notin done[r]
          BY <1>2, <3>2
        <4>3. id \in callbacks'[r] /\ answers'[id] = "none"
          BY <1>1, <2>1, <3>2, <4>1, <4>2
        <4> QED BY <4>3 DEF Placed
      <3> QED BY <3>1, <3>2
    <2>2. CASE answers[id] = "ok" /\ \E r \in Server : id \in Contents(Decided[r])
      <3>1. PICK r \in Server : id \in Contents(Decided[r])
        BY <2>2
      <3>2. id \in Contents(Decided'[r])
        BY <3>1, DecidedGrows
      <3>3. answers'[id] = "ok"
        BY <1>1, <2>2
      <3> QED BY <3>2, <3>3 DEF Placed
    <2>3. CASE answers[id] = "dropped"
      <3>1. answers'[id] \in {"ok", "dropped"} /\ \A s \in S : id \notin done[s]
        BY <1>1, <1>2, <1>3, <2>3
      <3>2. answers'[id] = "dropped"
        BY <1>1, <2>3, <3>1
      <3> QED BY <3>2 DEF Placed
    <2> QED BY <1>6, <2>1, <2>2, <2>3 DEF Placed
  <1>7. ASSUME NEW s \in Server, NEW i \in 1..Len(Logs'[s]), Logs'[s][i].payload \in Ids
        PROVE  Placed(Logs'[s][i].payload, answers', callbacks', Decided')
    <2>1. PICK r \in Server : i \in 1..Len(Logs[r])
                              /\ Logs[r][i].payload = Logs'[s][i].payload
      BY <1>7 DEF Carried
    <2>2. Placed(Logs[r][i].payload, answers, callbacks, Decided)
      BY <1>7, <2>1 DEF Waiting, Placed
    <2> DEFINE id == Logs'[s][i].payload
    <2>3. id \in Ids /\ Placed(id, answers, callbacks, Decided)
      BY <1>7, <2>1, <2>2
    <2> HIDE DEF id
    <2>4. Placed(id, answers', callbacks', Decided')
      BY <1>6, <2>3
    <2> QED BY <2>4 DEF id, Placed
  <1>8. ASSUME NEW r \in Server, NEW s \in Server, NEW i \in 1..Len(Logs'[r]),
               NEW j \in 1..Len(Logs'[s]), Logs'[r][i].payload = Logs'[s][j].payload,
               Logs'[r][i].payload \in Ids
        PROVE  i = j
    <2>1. PICK x \in Server : i \in 1..Len(Logs[x])
                              /\ Logs[x][i].payload = Logs'[r][i].payload
      BY <1>8 DEF Carried
    <2>2. PICK y \in Server : j \in 1..Len(Logs[y])
                              /\ Logs[y][j].payload = Logs'[s][j].payload
      BY <1>8 DEF Carried
    <2> QED BY <1>8, <2>1, <2>2 DEF Waiting
  <1> QED BY <1>4, <1>5, <1>7, <1>8 DEF Waiting, Placed

\* A PUT registers its callback, or is answered, before it is in any log.
LEMMA PutWaiting ==
    ASSUME Shape, Safety, Waiting, NEW s \in Server, NEW id \in Ids, Put(s, id)
    PROVE  Waiting'
  <1>1. /\ callbacks \in [Server -> SUBSET Ids]
        /\ answers \in [Ids -> {"none", "not_leader", "ok", "dropped"}]
        /\ \A x \in Server : \A p \in callbacks[x] :
             answers[p] = "none" /\ \A r \in Server \ {x} : p \notin callbacks[r]
        /\ \A x \in Server : \A i \in 1..Len(Logs[x]) : Logs[x][i].payload \in Ids =>
             Placed(Logs[x][i].payload, answers, callbacks, Decided)
        /\ \A r, x \in Server : \A i \in 1..Len(Logs[r]), j \in 1..Len(Logs[x]) :
             Logs[r][i].payload = Logs[x][j].payload /\ Logs[r][i].payload \in Ids => i = j
    BY DEF Waiting, Placed
  <1>2. answers[id] = "none" /\ \A x \in Server : id \notin callbacks[x]
    BY DEF Put, IsFresh
  <1>3. \A x \in Server : \A i \in 1..Len(Logs[x]) : Logs[x][i].payload # id
    BY <1>1, <1>2 DEF Placed
  <1>4. CASE Leads(s)
    <2> DEFINE e == [term |-> Current(s), payload |-> id]
    <2>1. /\ Grown(Logs, Logs', s, e)
          /\ callbacks' = [callbacks EXCEPT ![s] = @ \cup {id}] /\ answers' = answers
          /\ Commits' = Commits
      BY <1>4, PutEffect
    <2>a. \A x \in Server : Decided'[x] = Decided[x]
      <3>1. \A x \in Server : Commits[x] \in Nat /\ Len(Logs[x]) \in Nat /\ Commits[x] <= Len(Logs[x])
        BY CommitBounds
      <3>2. \A x \in Server : \A i \in 1..Commits[x] : Logs'[x][i] = Logs[x][i]
        BY <2>1, <3>1 DEF Grown
      <3> QED BY <2>1, <3>2, DecidedStays
    <2>2. e.payload = id
      OBVIOUS
    <2> HIDE DEF e
    <2>3. callbacks' \in [Server -> SUBSET Ids]
          /\ \A x \in Server : callbacks'[x] = IF x = s THEN callbacks[s] \cup {id} ELSE callbacks[x]
      BY <1>1, <2>1
    <2>4. ASSUME NEW x \in Server, NEW p \in callbacks'[x]
          PROVE  answers'[p] = "none" /\ \A r \in Server \ {x} : p \notin callbacks'[r]
      <3>1. CASE p = id
        BY <1>2, <2>1, <2>3, <2>4, <3>1
      <3>2. CASE p # id
        BY <1>1, <2>1, <2>3, <2>4, <3>2
      <3> QED BY <3>1, <3>2
    <2>5. \A x \in Server : \A i \in 1..Len(Logs'[x]) :
            \/ i \in 1..Len(Logs[x]) /\ Logs'[x][i] = Logs[x][i]
            \/ x = s /\ i = Len(Logs[s]) + 1 /\ Logs'[x][i].payload = id
      <3>1. \A x \in Server : Len(Logs[x]) \in Nat
        BY ServerReads
      <3> QED BY <2>1, <2>2, <3>1 DEF Grown
    <2>6. ASSUME NEW x \in Server, NEW i \in 1..Len(Logs'[x]), Logs'[x][i].payload \in Ids
          PROVE  Placed(Logs'[x][i].payload, answers', callbacks', Decided')
      <3>1. CASE i \in 1..Len(Logs[x]) /\ Logs'[x][i] = Logs[x][i]
        <4>1. Placed(Logs[x][i].payload, answers, callbacks, Decided)
          BY <1>1, <2>6, <3>1
        <4> QED BY <2>1, <2>a, <2>3, <3>1, <4>1 DEF Placed
      <3>2. CASE Logs'[x][i].payload = id
        BY <1>2, <2>1, <2>3, <3>2 DEF Placed
      <3> QED BY <2>5, <3>1, <3>2
    <2>7. ASSUME NEW r \in Server, NEW x \in Server, NEW i \in 1..Len(Logs'[r]),
                 NEW j \in 1..Len(Logs'[x]), Logs'[r][i].payload = Logs'[x][j].payload,
                 Logs'[r][i].payload \in Ids
          PROVE  i = j
      <3>1. CASE i \in 1..Len(Logs[r]) /\ Logs'[r][i] = Logs[r][i]
        <4>1. j \in 1..Len(Logs[x]) /\ Logs'[x][j] = Logs[x][j]
          BY <1>3, <2>5, <2>7, <3>1
        <4> QED BY <1>1, <2>7, <3>1, <4>1
      <3>2. CASE r = s /\ i = Len(Logs[s]) + 1 /\ Logs'[r][i].payload = id
        <4>1. x = s /\ j = Len(Logs[s]) + 1
          BY <1>3, <2>5, <2>7, <3>2
        <4> QED BY <3>2, <4>1
      <3> QED BY <2>5, <3>1, <3>2
    <2>8. answers' \in [Ids -> {"none", "not_leader", "ok", "dropped"}]
      BY <1>1, <2>1
    <2> QED BY <2>3, <2>4, <2>6, <2>7, <2>8 DEF Waiting, Placed
  <1>5. CASE ~Leads(s)
    <2>1. /\ answers' = [answers EXCEPT ![id] = "not_leader"]
          /\ UNCHANGED <<store, callbacks>>
      BY <1>5 DEF Put
    <2>2. Logs' = Logs /\ Decided' = Decided
      BY <2>1 DEF Logs, Decided, Applied
    <2>3. answers' \in [Ids -> {"none", "not_leader", "ok", "dropped"}]
          /\ \A p \in Ids : p # id => answers'[p] = answers[p]
      BY <1>1, <2>1
    <2>4. \A x \in Server : \A p \in callbacks[x] : p \in Ids /\ p # id
      BY <1>1, <1>2
    <2>5. ASSUME NEW x \in Server, NEW i \in 1..Len(Logs[x]), Logs[x][i].payload \in Ids
          PROVE  Placed(Logs[x][i].payload, answers', callbacks', Decided')
      <3>1. Placed(Logs[x][i].payload, answers, callbacks, Decided) /\ Logs[x][i].payload # id
        BY <1>1, <1>3, <2>5
      <3> QED BY <2>1, <2>2, <2>3, <2>5, <3>1 DEF Placed
    <2>6. ASSUME NEW x \in Server, NEW p \in callbacks'[x]
          PROVE  answers'[p] = "none" /\ \A r \in Server \ {x} : p \notin callbacks'[r]
      BY <1>1, <2>1, <2>3, <2>4, <2>6
    <2> QED BY <1>1, <2>1, <2>2, <2>3, <2>5, <2>6 DEF Waiting, Placed
  <1> QED BY <1>4, <1>5

\* A restart gives up the PUTs whose callbacks it loses.
LEMMA RestartWaiting ==
    ASSUME Shape, Waiting, NEW s \in Server, Restart(s)
    PROVE  Waiting'
  <1>1. /\ callbacks \in [Server -> SUBSET Ids]
        /\ answers \in [Ids -> {"none", "not_leader", "ok", "dropped"}]
        /\ \A x \in Server : \A p \in callbacks[x] :
             answers[p] = "none" /\ \A r \in Server \ {x} : p \notin callbacks[r]
        /\ \A x \in Server : \A i \in 1..Len(Logs[x]) : Logs[x][i].payload \in Ids =>
             Placed(Logs[x][i].payload, answers, callbacks, Decided)
        /\ \A r, x \in Server : \A i \in 1..Len(Logs[r]), j \in 1..Len(Logs[x]) :
             Logs[r][i].payload = Logs[x][j].payload /\ Logs[r][i].payload \in Ids => i = j
    BY DEF Waiting, Placed
  <1>2. /\ callbacks' = [callbacks EXCEPT ![s] = {}]
        /\ answers' = [id \in Ids |-> IF id \in callbacks[s] THEN "dropped" ELSE answers[id]]
    BY DEF Restart
  <1>3. Logs' = Logs /\ \A x \in Server : Decided'[x] = Decided[x]
    BY RestartEffect
  <1>4. /\ callbacks' \in [Server -> SUBSET Ids]
        /\ \A x \in Server : callbacks'[x] = IF x = s THEN {} ELSE callbacks[x]
        /\ answers' \in [Ids -> {"none", "not_leader", "ok", "dropped"}]
    BY <1>1, <1>2
  <1>5. ASSUME NEW x \in Server, NEW p \in callbacks'[x]
        PROVE  answers'[p] = "none" /\ \A r \in Server \ {x} : p \notin callbacks'[r]
    <2>1. x # s /\ p \in callbacks[x] /\ p \in Ids
      BY <1>1, <1>4, <1>5
    <2>2. p \notin callbacks[s] /\ answers[p] = "none"
      BY <1>1, <2>1
    <2> QED BY <1>1, <1>2, <1>4, <2>1, <2>2
  <1>6. ASSUME NEW id \in Ids, Placed(id, answers, callbacks, Decided)
        PROVE  Placed(id, answers', callbacks', Decided')
    <2>1. CASE id \in callbacks[s]
      BY <1>2, <2>1 DEF Placed
    <2>2. CASE id \notin callbacks[s]
      <3>1. answers'[id] = answers[id]
        BY <1>2, <2>2
      <3>2. \A r \in Server : id \in callbacks[r] => id \in callbacks'[r]
        BY <1>4, <2>2
      <3> QED BY <1>3, <1>6, <3>1, <3>2 DEF Placed
    <2> QED BY <2>1, <2>2
  <1>7. \A x \in Server : \A i \in 1..Len(Logs[x]) : Logs[x][i].payload \in Ids =>
            Placed(Logs[x][i].payload, answers', callbacks', Decided')
    BY <1>1, <1>6
  <1> QED BY <1>1, <1>3, <1>4, <1>5, <1>7 DEF Waiting, Placed

\* Elections append nothing that was PUT.
LEMMA ElectCarries ==
    ASSUME Shape, NEW s \in Server, NEW Q, Elected(s, Q)
    PROVE  Carried
  <1>1. \A x \in Server : Len(Logs[x]) \in Nat
    BY ServerReads
  <1>2. CASE Wins(s, Q)
    <2> DEFINE e == [term |-> Current(s) + 1, payload |-> Empty]
    <2>1. Grown(Logs, Logs', s, e)
      BY <1>2 DEF Elected
    <2>2. e.payload \notin Ids
      BY ClusterConstants
    <2> HIDE DEF e
    <2>3. \A x \in Server : \A i \in 1..Len(Logs'[x]) :
            \/ i \in 1..Len(Logs[x]) /\ Logs'[x][i] = Logs[x][i]
            \/ Logs'[x][i].payload \notin Ids
      BY <1>1, <2>1, <2>2 DEF Grown
    <2> QED BY <2>3 DEF Carried
  <1>3. CASE ~Wins(s, Q)
    <2>1. Logs' = Logs
      BY <1>3 DEF Elected
    <2> QED BY <2>1 DEF Carried
  <1> QED BY <1>2, <1>3

\* Replication appends what the leader has, at the same index.
LEMMA ReplicateCarries ==
    ASSUME Shape, NEW l \in Server, NEW f \in Server, NEW prev \in 0..Last(l),
           NEW n \in prev..Lesser(prev + 1, Last(l)), NEW c \in Nat,
           Replicate(l, f, prev, n, c), TailFree
    PROVE  Carried
  <1>1. Replicated(l, f, prev, n, c)
    BY ReplicateEffect
  <1>2. /\ Len(Logs[l]) \in Nat /\ Last(l) = Len(Logs[l]) /\ Len(Logs[f]) \in Nat
    BY ServerReads
  <1>3. prev \in Nat /\ n \in Nat /\ n <= Len(Logs[l])
    BY <1>2 DEF Lesser
  <1>4. CASE Stale(f, prev) \/ HasIt(l, f, prev, n)
    <2>1. Logs' = Logs
      BY <1>1, <1>4 DEF Replicated
    <2> QED BY <2>1 DEF Carried
  <1>5. CASE ~(Stale(f, prev) \/ HasIt(l, f, prev, n))
    <2>1. /\ n = prev + 1 /\ prev <= Len(Logs[f]) /\ Len(Logs'[f]) = n
          /\ Logs'[f][n] = Logs[l][n]
          /\ \A i \in 1..prev : Logs'[f][i] = Logs[f][i]
          /\ \A x \in Server : x # f => Logs'[x] = Logs[x]
      BY <1>1, <1>5 DEF Replicated
    <2>2. ASSUME NEW x \in Server, NEW i \in 1..Len(Logs'[x])
          PROVE  \E r \in Server : i \in 1..Len(Logs[r])
                                   /\ Logs[r][i].payload = Logs'[x][i].payload
      <3>1. CASE x # f
        BY <2>1, <3>1
      <3>2. CASE x = f /\ i \in 1..prev
        <4>1. i \in 1..Len(Logs[f]) /\ Logs[f][i].payload = Logs'[x][i].payload
          BY <1>2, <1>3, <2>1, <3>2
        <4> QED BY <4>1
      <3>3. CASE x = f /\ i = n
        <4>1. i \in 1..Len(Logs[l]) /\ Logs[l][i].payload = Logs'[x][i].payload
          BY <1>2, <1>3, <2>1, <3>3
        <4> QED BY <4>1
      <3> QED BY <1>3, <2>1, <3>1, <3>2, <3>3
    <2> QED BY <2>2 DEF Carried
  <1> QED BY <1>4, <1>5

----------------------------------------------------------------------------
(* The invariant                                                           *)

\* The booted cluster: empty logs, nobody leading, nothing PUT.
LEMMA InitInv ==
    ASSUME Init PROVE Inv
  <1>1. /\ store = [s \in Server |-> Boot] /\ offset = [s \in Server |-> 1]
        /\ leader_id = [s \in Server |-> Nobody] /\ matched = [s \in Server |-> NoMatch]
        /\ machine = [s \in Server |-> << >>] /\ callbacks = [s \in Server |-> {}]
        /\ answers = [id \in Ids |-> "none"] /\ crashes = 0 /\ backend \in Backends
    BY DEF Init
  <1>2. /\ Stored(Boot) /\ Boot.entries = << >>
        /\ Boot.hs = [term |-> 0, vote |-> Nobody, commit |-> 0]
    BY BootSnapshot
  <1>3. Boot.hs.term = 0 /\ Boot.hs.commit = 0
    BY <1>2
  <1>4. \A s \in Server : Logs[s] = << >> /\ Terms[s] = 0 /\ Commits[s] = 0
    BY <1>1, <1>2, <1>3 DEF Logs, Terms, Commits
  <1>5. /\ IsLogs(Logs) /\ Terms \in [Server -> Nat] /\ Commits \in [Server -> Nat]
    <2>1. Logs = [s \in Server |-> << >>] /\ << >> \in Seq(Entry)
      BY <1>1, <1>2 DEF Logs
    <2>2. Terms = [s \in Server |-> 0] /\ Commits = [s \in Server |-> 0]
      BY <1>1, <1>3 DEF Terms, Commits
    <2> QED BY <2>1, <2>2 DEF IsLogs
  <1>6. \A s \in Server : Len(Logs[s]) = 0 /\ 1..Len(Logs[s]) = {}
    BY <1>4
  <1>7. NoMatch \in [Server -> Nat] /\ Nobody \notin Server
    BY ClusterConstants DEF NoMatch
  <1>8. Shape
    <2>1. MaxTerm[backend] \in Nat /\ 0 \in 0..MaxCrashes
      BY <1>1, ClusterConstants
    <2>2. MapsFit
      BY <1>1 DEF MapsFit
    <2>3. offset = [s \in Server |-> Len(store[s].entries) + 1]
      BY <1>1, <1>2
    <2>4. DOMAIN store = Server /\ \A s \in Server : Stored(store[s]) /\ store[s].hs.term = 0
      BY <1>1, <1>2, <1>3
    <2>5. leader_id \in [Server -> Server \cup {Nobody}] /\ matched \in [Server -> [Server -> Nat]]
      BY <1>1, <1>7
    <2>6. \A s \in Server : store[s].hs.term <= MaxTerm[backend]
      BY <2>1, <2>4
    <2> QED BY <1>1, <2>1, <2>2, <2>3, <2>4, <2>5, <2>6 DEF Shape
  <1>9. Safety
    <2>1. matched \in [Server -> [Server -> Nat]]
      BY <1>8 DEF Shape
    <2>2. Sorted(Logs) /\ Matching(Logs) /\ Known(Logs, Terms) /\ TermsTaken(Logs, Terms, Votes)
      BY <1>6 DEF Sorted, Matching, Known, TermsTaken
    <2>3. \A s \in Server : leader_id[s] # s /\ matched[s] = NoMatch
      BY <1>1, <1>7
    <2>4. /\ LeadersOwn(Logs, Terms, leader_id) /\ OneLeader(Terms, leader_id)
          /\ Matched(Logs, leader_id, matched) /\ MayCommit(Logs, Terms, leader_id, matched)
      BY <2>3 DEF LeadersOwn, OneLeader, Matched, MayCommit
    <2>5. Covered(Logs, Terms, Commits)
      BY <1>4, <1>6 DEF Covered
    <2> QED BY <1>5, <2>1, <2>2, <2>4, <2>5 DEF Safety, Safe
  <1>10. Waiting
    BY <1>1, <1>6 DEF Waiting
  <1> QED BY <1>8, <1>9, <1>10 DEF Inv

\* What a step that is no stutter keeps, and what it adds to what is
\* committed and to the logs.
Stepped ==
    /\ Inv' /\ Advances
    /\ \/ Carried /\ \E S \in SUBSET Server : ProcessReady(S)
       \/ \E s \in Server, id \in Ids : Put(s, id)
       \/ \E s \in Server : Restart(s)

\* An action that ends in process_ready.
LEMMA ReadyStep ==
    ASSUME Inv, Safety', Shape', Advances, Carried, NEW S \in SUBSET Server, ProcessReady(S)
    PROVE  Stepped
  <1>1. Waiting'
    BY ReadyWaiting DEF Inv
  <1> QED BY <1>1 DEF Stepped, Inv

\* Logs that stay carry what they carried.
LEMMA SameLogsCarry ==
    ASSUME Logs' = Logs PROVE Carried
  BY DEF Carried

\* Every step keeps the invariant.
LEMMA NextStepped ==
    ASSUME Inv, Next, TailFree PROVE Stepped
  <1>1. Shape /\ Safety /\ Waiting
    BY DEF Inv
  <1>2. ASSUME NEW s \in Server, NEW id \in Ids, Put(s, id) PROVE Stepped
    <2>1. Safety'
      BY <1>1, <1>2, PutIsSafe
    <2>2. Shape' /\ Advances
      BY <1>1, <1>2, <2>1, PutShape
    <2>3. Waiting'
      BY <1>1, <1>2, PutWaiting
    <2> QED BY <1>2, <2>1, <2>2, <2>3 DEF Stepped, Inv
  <1>3. ASSUME NEW s \in Server, Elect(s) PROVE Stepped
    <2>1. PICK Q \in SUBSET (Server \ {s}) : Elected(s, Q)
      BY <1>1, <1>3, ElectEffect
    <2>2. Safety'
      BY <1>1, <2>1, ElectIsSafe
    <2>3. Shape' /\ Advances
      BY <1>1, <2>1, <2>2, ElectShape
    <2>4. Carried
      BY <1>1, <2>1, ElectCarries
    <2>5. ProcessReady(Q \cup {s}) /\ Q \cup {s} \in SUBSET Server
      BY <2>1 DEF Elected
    <2> QED BY <2>2, <2>3, <2>4, <2>5, ReadyStep
  <1>4. ASSUME NEW s \in Server, NEW r \in Server, LearnTerm(s, r) PROVE Stepped
    <2>1. Safety'
      BY <1>1, <1>4, LearnTermIsSafe
    <2>2. Shape' /\ Advances
      BY <1>1, <1>4, <2>1, LearnTermShape
    <2>3. Logs' = Logs
      BY <1>1, <1>4, LearnTermEffect
    <2>4. Carried
      BY <2>3, SameLogsCarry
    <2>5. ProcessReady({s}) /\ {s} \in SUBSET Server
      BY <1>4 DEF LearnTerm
    <2> QED BY <2>1, <2>2, <2>4, <2>5, ReadyStep
  <1>5. ASSUME NEW l \in Server, Leads(l), NEW f \in Server \ {l},
               NEW prev \in matched[l][f]..Last(l),
               NEW n \in prev..Lesser(prev + 1, Last(l)),
               NEW c \in store[f].hs.commit
                    ..Greater(store[f].hs.commit, Lesser(store[l].hs.commit, n)),
               Replicate(l, f, prev, n, c)
        PROVE  Stepped
    <2>1. /\ Commits[f] = store[f].hs.commit /\ Commits[l] = store[l].hs.commit
          /\ Commits[f] \in Nat /\ Last(l) \in Nat
      BY <1>1, ServerReads
    <2>2. matched[l][f] \in Nat
      BY <1>1, SafetyTypes
    <2>3. prev \in 0..Last(l)
      BY <1>5, <2>1, <2>2
    <2>4. c \in Nat /\ c \in Commits[f]..Greater(Commits[f], Lesser(Commits[l], n))
      BY <1>5, <2>1
    <2>5. Safety'
      BY <1>1, <1>5, <2>3, <2>4, ReplicateIsSafe
    <2>6. Shape' /\ Advances
      BY <1>1, <1>5, <2>3, <2>4, <2>5, ReplicateShape
    <2>7. Carried
      BY <1>1, <1>5, <2>3, <2>4, ReplicateCarries
    <2>8. ProcessReady({f}) /\ {f} \in SUBSET Server
      BY <1>5 DEF Replicate
    <2> QED BY <2>5, <2>6, <2>7, <2>8, ReadyStep
  <1>6. ASSUME NEW l \in Server, Leads(l), NEW n \in (store[l].hs.commit + 1)..Last(l),
               LeaderCommit(l, n)
        PROVE  Stepped
    <2>1. Commits[l] = store[l].hs.commit /\ Commits[l] \in Nat /\ Last(l) \in Nat
      BY <1>1, ServerReads
    <2>2. n \in 1..Last(l) /\ n \in Nat /\ n > Commits[l]
      BY <1>6, <2>1
    <2>3. Safety'
      BY <1>1, <1>6, <2>2, LeaderCommitIsSafe
    <2>4. Shape' /\ Advances
      BY <1>1, <1>6, <2>2, <2>3, LeaderCommitShape
    <2>5. Logs' = Logs
      BY <1>1, <1>6, <2>2, LeaderCommitEffect
    <2>6. Carried
      BY <2>5, SameLogsCarry
    <2>7. ProcessReady({l}) /\ {l} \in SUBSET Server
      BY <1>6 DEF LeaderCommit
    <2> QED BY <2>3, <2>4, <2>6, <2>7, ReadyStep
  <1>7. ASSUME NEW s \in Server, Restart(s) PROVE Stepped
    <2>1. Safety'
      BY <1>1, <1>7, RestartIsSafe
    <2>2. Shape' /\ Advances
      BY <1>1, <1>7, <2>1, RestartShape
    <2>3. Waiting'
      BY <1>1, <1>7, RestartWaiting
    <2> QED BY <1>7, <2>1, <2>2, <2>3 DEF Stepped, Inv
  <1>8. ASSUME NEW s \in Server, Replay(s) PROVE Stepped
    <2>1. Safety' /\ Shape' /\ Advances
      BY <1>1, <1>8, ReplayShape
    <2>2. Logs' = Logs
      BY <1>8 DEF Replay, Logs
    <2>3. Carried
      BY <2>2, SameLogsCarry
    <2>4. ProcessReady({s}) /\ {s} \in SUBSET Server
      BY <1>8 DEF Replay
    <2> QED BY <2>1, <2>3, <2>4, ReadyStep
  <1> QED BY <1>2, <1>3, <1>4, <1>5, <1>6, <1>7, <1>8 DEF Next

\* A stutter keeps the invariant.
LEMMA StutterInv ==
    ASSUME Inv, UNCHANGED vars PROVE Inv'
  <1>1. /\ UNCHANGED <<backend, store, offset, leader_id, matched, machine, callbacks, answers,
                       crashes>>
    BY DEF vars
  <1>2. Logs' = Logs /\ Terms' = Terms /\ Votes' = Votes /\ Commits' = Commits
        /\ Decided' = Decided
    BY <1>1 DEF Logs, Terms, Votes, Commits, Decided, Applied
  <1>3. Shape'
    BY <1>1, <1>2 DEF Inv, Shape, MapsFit
  <1>4. Safety'
    BY <1>1, <1>2 DEF Inv, Safety
  <1>5. Waiting'
    BY <1>1, <1>2 DEF Inv, Waiting
  <1> QED BY <1>3, <1>4, <1>5 DEF Inv

\* The invariant holds as long as no step leaves a stale tail.
THEOREM ClusterInv == Spec /\ [][TailFree]_vars => []Inv
  <1>1. Init => Inv
    BY InitInv
  <1>2. Inv /\ [Next]_vars /\ [TailFree]_vars => Inv'
    BY NextStepped, StutterInv DEF Stepped
  <1> QED BY <1>1, <1>2, PTL DEF Spec

\* On the memory backend no step ever does.
LEMMA MemoryTailFree == backend = "memory" /\ Spec => [][TailFree]_vars
  <1>1. backend = "memory" => TailFree
    BY DEF TailFree
  <1>2. backend = "memory" /\ [Next]_vars => (backend = "memory")'
    <2>1. \A s, id : Put(s, id) => backend' = backend
      BY Zenon DEF Put
    <2>2. \A s : Elect(s) => backend' = backend
      BY Zenon DEF Elect
    <2>3. \A s, r : LearnTerm(s, r) => backend' = backend
      BY Zenon DEF LearnTerm
    <2>4. ASSUME NEW l, NEW f, NEW prev, NEW n, NEW c, Replicate(l, f, prev, n, c)
          PROVE  backend' = backend
      BY <2>4, Zenon DEF Replicate
    <2>5. \A l, n : LeaderCommit(l, n) => backend' = backend
      BY Zenon DEF LeaderCommit
    <2>6. \A s : Restart(s) \/ Replay(s) => backend' = backend
      BY Zenon DEF Restart, Replay
    <2>7. UNCHANGED vars => backend' = backend
      BY DEF vars
    <2> QED BY <2>1, <2>2, <2>3, <2>4, <2>5, <2>6, <2>7, Zenon DEF Next
  <1> QED BY <1>1, <1>2, PTL DEF Spec

----------------------------------------------------------------------------
(* What the invariant says of the properties the runs check                *)

\* What a server has committed, entry by entry.
LEMMA DecidedReads ==
    ASSUME Shape, Safety, NEW s \in Server
    PROVE  /\ Decided[s] \in Seq(Payload) /\ Len(Decided[s]) = Commits[s]
           /\ DOMAIN Decided[s] = 1..Commits[s]
           /\ \A i \in 1..Commits[s] : i \in 1..Len(Logs[s]) /\ Decided[s][i] = Logs[s][i].payload
  <1>1. Decided[s] = [i \in 1..Commits[s] |-> Logs[s][i].payload]
    BY DecidedIs
  <1>2. Commits[s] \in Nat /\ Len(Logs[s]) \in Nat /\ Commits[s] <= Len(Logs[s])
    BY CommitBounds
  <1>3. \A i \in 1..Commits[s] : i \in 1..Len(Logs[s])
    BY <1>2
  <1>4. Logs[s] \in Seq(Entry)
    BY DEF Safety, Safe, IsLogs
  <1>5. \A i \in 1..Len(Logs[s]) : Logs[s][i] \in Entry
    BY <1>4, ElementOfSeq
  <1>6. \A i \in 1..Commits[s] : Logs[s][i].payload \in Payload
    BY <1>3, <1>5 DEF Entry
  <1>7. Decided[s] \in Seq(Payload)
    BY <1>1, <1>2, <1>6
  <1> QED BY <1>1, <1>2, <1>3, <1>7

\* The type invariant is a consequence.
LEMMA InvTypeOK ==
    ASSUME Inv PROVE TypeOK
  <1>1. Shape /\ Safety /\ Waiting
    BY DEF Inv
  <1>2. backend \in Backends /\ crashes \in 0..MaxCrashes
    BY <1>1 DEF Shape
  <1>3. /\ callbacks \in [Server -> SUBSET Ids]
        /\ answers \in [Ids -> {"none", "not_leader", "ok", "dropped"}]
    BY <1>1 DEF Waiting
  <1>4. ASSUME NEW s \in Server
        PROVE  /\ store[s].entries \in [1..Last(s) -> Entry]
               /\ Current(s) \in 0..MaxTerm[backend]
               /\ store[s].hs.vote \in Server \cup {Nobody}
               /\ store[s].hs.commit \in Len(machine[s])..Last(s)
               /\ offset[s] = Last(s) + 1
               /\ leader_id[s] \in Server \cup {Nobody}
               /\ matched[s] \in [Server -> 0..Last(s)]
               /\ machine[s] \in Seq(Payload)
    <2>1. /\ Last(s) = Len(Logs[s]) /\ Len(Logs[s]) \in Nat /\ Logs[s] = store[s].entries
          /\ Current(s) \in Nat /\ Votes[s] = store[s].hs.vote /\ Votes[s] \in Server \cup {Nobody}
          /\ Commits[s] = store[s].hs.commit
      BY <1>1, ServerReads
    <2>2. store[s].entries \in [1..Last(s) -> Entry]
      <3>1. Logs[s] \in Seq(Entry)
        BY <1>1 DEF Safety, Safe, IsLogs
      <3>2. Logs[s] \in [1..Len(Logs[s]) -> Entry]
        BY <3>1, LenProperties, ElementOfSeq
      <3> QED BY <2>1, <3>2
    <2>3. Current(s) \in 0..MaxTerm[backend]
      <3>1. Current(s) <= MaxTerm[backend] /\ MaxTerm[backend] \in Nat
        BY <1>1, <1>2, TermBounds, ClusterConstants
      <3> QED BY <2>1, <3>1
    <2>4. Commits[s] \in Nat /\ Commits[s] <= Len(Logs[s])
      BY <1>1, CommitBounds
    <2>5. machine[s] \in Seq(Payload) /\ Len(machine[s]) \in 0..Commits[s]
      <3>1. machine[s] \in {Decided[s], << >>}
        BY <1>1 DEF Shape, MapsFit
      <3>2. Decided[s] \in Seq(Payload) /\ Len(Decided[s]) = Commits[s]
        BY <1>1, DecidedReads
      <3>3. CASE machine[s] = Decided[s]
        BY <2>4, <3>2, <3>3
      <3>4. CASE machine[s] = << >>
        <4>1. << >> \in Seq(Payload) /\ Len(<< >>) = 0
          BY EmptySeq
        <4>2. machine[s] \in Seq(Payload) /\ Len(machine[s]) = 0
          BY <3>4, <4>1, Zenon
        <4> QED BY <2>4, <4>2
      <3> QED BY <3>1, <3>3, <3>4
    <2>6. store[s].hs.commit \in Len(machine[s])..Last(s)
      BY <2>1, <2>4, <2>5
    <2>7. offset[s] = Last(s) + 1 /\ leader_id[s] \in Server \cup {Nobody}
      BY <1>1, <2>1 DEF Shape
    <2>8. matched[s] \in [Server -> 0..Last(s)]
      <3>1. matched[s] \in [Server -> Nat]
        BY <1>1 DEF Shape
      <3>2. CASE leader_id[s] = s
        <4>1. \A f \in Server : matched[s][f] <= Len(Logs[s])
          BY <1>1, <3>2 DEF Safety, Safe, Matched
        <4> QED BY <2>1, <3>1, <4>1
      <3>3. CASE leader_id[s] # s
        <4>1. matched[s] = NoMatch
          BY <1>1, <3>3, SafetyTypes
        <4> QED BY <2>1, <4>1 DEF NoMatch
      <3> QED BY <3>2, <3>3
    <2> QED BY <2>1, <2>2, <2>3, <2>5, <2>6, <2>7, <2>8
  <1>5. \A s \in Server : callbacks[s] \subseteq Ids
    BY <1>3
  <1> QED BY <1>2, <1>3, <1>4, <1>5 DEF TypeOK

\* As long as no append leaves a stale tail: terms, votes and indices are in
\* their bounds, maps are made of committed entries, and a leader knows
\* nothing of the others' logs beyond its own.
THEOREM ClusterTypeOK == Spec /\ [][TailFree]_vars => []TypeOK
  BY ClusterInv, InvTypeOK, PTL

\* On the memory backend no append does.
THEOREM MemoryTypeOK == backend = "memory" /\ Spec => []TypeOK
  BY ClusterTypeOK, MemoryTailFree, PTL

\* As long as no append leaves a stale tail, whoever leads holds every entry
\* a server of its term or an earlier one knows to be committed, restarts
\* or not.
THEOREM ClusterLeaderHoldsCommitted == Spec /\ [][TailFree]_vars => []LeaderHoldsCommitted
  <1>1. Inv => LeaderHoldsCommitted
    <2> SUFFICES ASSUME Inv, NEW l \in Server, NEW s \in Server, Leads(l), Current(s) <= Current(l),
                        NEW i \in 1..store[s].hs.commit
                 PROVE  i <= Last(l) /\ store[l].entries[i] = store[s].entries[i]
      BY DEF LeaderHoldsCommitted
    <2>1. Shape
      BY DEF Inv
    <2>2. /\ Last(l) = Len(Logs[l]) /\ Logs[l] = store[l].entries /\ Logs[s] = store[s].entries
          /\ Terms[l] = Current(l) /\ Terms[s] = Current(s) /\ Commits[s] = store[s].hs.commit
      BY <2>1, ServerReads
    <2>3. Safe(Logs, Terms, Votes, Commits, leader_id, matched)
      BY DEF Inv, Safety
    <2>4. leader_id[l] = l
      BY DEF Leads
    <2>5. Terms[s] <= Terms[l]
      BY <2>2
    <2>6. i \in 1..Commits[s]
      BY <2>2
    <2>7. i <= Len(Logs[l]) /\ Logs[l][i] = Logs[s][i]
      BY <2>3, <2>4, <2>5, <2>6, LeaderHasCommitted
    <2> QED BY <2>2, <2>7
  <1> QED BY <1>1, ClusterInv, PTL

\* On the memory backend no append does.
THEOREM MemoryLeaderHoldsCommitted == backend = "memory" /\ Spec => []LeaderHoldsCommitted
  BY ClusterLeaderHoldsCommitted, MemoryTailFree, PTL

----------------------------------------------------------------------------
(* The replicated map                                                      *)

\* Among finitely many servers one has committed the most.
LEMMA HighestExists ==
    ASSUME NEW K \in [Server -> Nat]
    PROVE  \E m \in Server : \A r \in Server : K[r] <= K[m]
  <1> DEFINE U(s) == {r \in Server : K[r] > K[s]}
             T == {U(s) : s \in Server}
  <1>1. T \subseteq FiniteSubsetsOf(Server)
    <2>1. \A s \in Server : U(s) \subseteq Server
      OBVIOUS
    <2>2. \A s \in Server : IsFiniteSet(U(s))
      BY <2>1, ClusterConstants, FS_Subset
    <2> QED BY <2>1, <2>2 DEF FiniteSubsetsOf
  <1>2. T # {}
    <2>1. PICK s : s \in Server
      BY ClusterConstants
    <2>2. U(s) \in T
      BY <2>1
    <2> QED BY <2>2
  <1>3. IsWellFoundedOn(StrictSubsetOrdering(Server), FiniteSubsetsOf(Server))
    BY FS_StrictSubsetOrderingWellFounded
  <1>4. PICK x \in T : \A y \in T : ~ (<<y, x>> \in StrictSubsetOrdering(Server))
    <2> HIDE DEF T
    <2> QED BY <1>1, <1>2, <1>3, WFMin
  <1>5. PICK m \in Server : x = U(m)
    OBVIOUS
  <1>6. ASSUME NEW r \in Server, ~(K[r] <= K[m]) PROVE FALSE
    <2>1. K[r] > K[m] /\ K[r] \in Nat /\ K[m] \in Nat
      BY <1>6
    <2>2. U(r) \subseteq U(m) /\ r \in U(m) /\ r \notin U(r)
      BY <2>1
    <2>3. <<U(r), U(m)>> \in StrictSubsetOrdering(Server)
      BY <2>2 DEF StrictSubsetOrdering
    <2>4. U(r) \in T
      OBVIOUS
    <2> QED BY <1>4, <1>5, <2>3, <2>4
  <1> QED BY <1>6

\* The chosen writes are some server's committed ones, begin with each
\* server's, and each server's map is made of its own or empty.
ChosenReads ==
    /\ Chosen \in Seq(Payload)
    /\ \E m \in Server : Len(Chosen) = Commits[m]
    /\ \A s \in Server :
        /\ Commits[s] <= Len(Chosen) /\ Commits[s] <= Len(Logs[s])
        /\ Commits[s] \in Nat /\ Len(Logs[s]) \in Nat
        /\ DOMAIN Decided[s] = 1..Commits[s] /\ Len(Decided[s]) = Commits[s]
        /\ machine[s] \in {Decided[s], << >>}
        /\ \A i \in 1..Commits[s] :
            Chosen[i] = Logs[s][i].payload /\ Decided[s][i] = Logs[s][i].payload

\* The server with the highest commit index has what every other committed.
LEMMA ChosenIs == Inv => ChosenReads
  <1> SUFFICES ASSUME Inv PROVE ChosenReads
    OBVIOUS
  <1>1. Shape /\ Safety
    BY DEF Inv
  <1>2. Safe(Logs, Terms, Votes, Commits, leader_id, matched)
    BY <1>1 DEF Safety
  <1>3. Commits \in [Server -> Nat]
    BY <1>2 DEF Safe
  <1>4. \E m \in Server : \A r \in Server : Commits[r] <= Commits[m]
    BY <1>3, HighestExists
  <1> DEFINE first == CHOOSE s \in Server :
                        \A r \in Server : store[r].hs.commit <= store[s].hs.commit
  <1>5. \A s \in Server : Commits[s] = store[s].hs.commit
    BY DEF Commits
  <1>6. first \in Server /\ \A r \in Server : Commits[r] <= Commits[first]
    <2>1. \E m \in Server : \A r \in Server : store[r].hs.commit <= store[m].hs.commit
      BY <1>4, <1>5
    <2>2. first \in Server /\ \A r \in Server : store[r].hs.commit <= store[first].hs.commit
      BY <2>1
    <2> QED BY <1>5, <2>2
  <1>7. Chosen = Applied(store[first])
    BY DEF Chosen
  <1> HIDE DEF first
  <1>8. Decided[first] = Chosen
    BY <1>6, <1>7 DEF Decided
  <1>9. /\ Chosen \in Seq(Payload) /\ Len(Chosen) = Commits[first]
        /\ \A i \in 1..Commits[first] : Chosen[i] = Logs[first][i].payload
    BY <1>1, <1>6, <1>8, DecidedReads
  <1>10. ASSUME NEW s \in Server, NEW i \in 1..Commits[s]
         PROVE  Chosen[i] = Logs[s][i].payload
    <2>1. Commits[s] \in Nat /\ Commits[first] \in Nat /\ Commits[s] <= Commits[first]
      BY <1>3, <1>6
    <2>2. i \in 1..Commits[first] /\ i <= Commits[first]
      BY <2>1
    <2>3. Agree(Logs, Commits)
      BY <1>2, CommitsAgree
    <2>4. Logs[s][i] = Logs[first][i]
      BY <1>6, <2>2, <2>3 DEF Agree
    <2> QED BY <1>9, <2>2, <2>4
  <1>11. ASSUME NEW s \in Server
         PROVE  /\ Commits[s] <= Len(Chosen) /\ Commits[s] <= Len(Logs[s])
                /\ Commits[s] \in Nat /\ Len(Logs[s]) \in Nat
                /\ DOMAIN Decided[s] = 1..Commits[s] /\ Len(Decided[s]) = Commits[s]
                /\ machine[s] \in {Decided[s], << >>}
                /\ \A i \in 1..Commits[s] : Decided[s][i] = Logs[s][i].payload
    <2>1. machine[s] \in {Decided[s], << >>}
      BY <1>1 DEF Shape, MapsFit
    <2> QED BY <1>1, <1>6, <1>9, <2>1, CommitBounds, DecidedReads
  <1> QED BY <1>6, <1>9, <1>10, <1>11 DEF ChosenReads

\* The same in the next state.
LEMMA ChosenIsNext == Inv' => ChosenReads'
  BY ChosenIs, PTL

\* What is chosen stays chosen, in its order.
LEMMA ChosenGrows ==
    ASSUME ChosenReads, ChosenReads', Advances
    PROVE  Abstract!Extends(Chosen', Chosen)
  <1>1. PICK m \in Server : Len(Chosen) = Commits[m]
    BY DEF ChosenReads
  <1>2. /\ Commits[m] \in Nat /\ Commits'[m] \in Nat /\ Commits[m] <= Commits'[m]
        /\ Commits'[m] <= Len(Chosen') /\ Len(Chosen') \in Nat
        /\ \A i \in 1..Commits[m] : Chosen[i] = Logs[m][i].payload /\ Logs'[m][i] = Logs[m][i]
        /\ \A i \in 1..Commits'[m] : Chosen'[i] = Logs'[m][i].payload
    BY DEF ChosenReads, Advances
  <1>3. Len(Chosen) <= Len(Chosen')
    BY <1>1, <1>2
  <1>4. \A i \in 1..Commits[m] : i \in 1..Commits'[m]
    BY <1>2
  <1>5. \A i \in 1..Len(Chosen) : Chosen'[i] = Chosen[i]
    BY <1>1, <1>2, <1>4
  <1> QED BY <1>3, <1>5 DEF Abstract!Extends

\* While nobody commits, nothing is chosen.
LEMMA ChosenStays ==
    ASSUME ChosenReads, ChosenReads', Advances, Commits' = Commits
    PROVE  Chosen' = Chosen
  <1>1. Abstract!Extends(Chosen', Chosen)
    BY ChosenGrows
  <1>2. Len(Chosen') = Len(Chosen)
    <2>1. PICK m \in Server : Len(Chosen) = Commits[m]
      BY DEF ChosenReads
    <2>2. PICK n \in Server : Len(Chosen') = Commits'[n]
      BY DEF ChosenReads
    <2>3. Commits[n] <= Len(Chosen) /\ Commits[m] \in Nat /\ Commits[n] \in Nat
      BY DEF ChosenReads
    <2>4. Commits'[m] <= Len(Chosen')
      BY DEF ChosenReads
    <2> QED BY <2>1, <2>2, <2>3, <2>4
  <1>3. Chosen \in Seq(Payload) /\ Chosen' \in Seq(Payload)
    BY DEF ChosenReads
  <1>4. \A i \in 1..Len(Chosen) : Chosen'[i] = Chosen[i]
    BY <1>1 DEF Abstract!Extends
  <1> QED BY <1>2, <1>3, <1>4, SeqEqual

\* A map is a beginning of what is chosen, and a loop only adds to it.
LEMMA MapsGrow ==
    ASSUME ChosenReads, ChosenReads', Advances, NEW s \in Server,
           machine'[s] \in {machine[s], Decided'[s]}
    PROVE  Abstract!Extends(Chosen', machine'[s]) /\ Abstract!Extends(machine'[s], machine[s])
  <1>1. /\ Commits[s] \in Nat /\ Commits'[s] \in Nat /\ Commits[s] <= Commits'[s]
        /\ Commits'[s] <= Len(Chosen') /\ Len(Chosen') \in Nat
        /\ Len(Decided[s]) = Commits[s] /\ Len(Decided'[s]) = Commits'[s]
        /\ machine[s] \in {Decided[s], << >>} /\ machine'[s] \in {Decided'[s], << >>}
        /\ \A i \in 1..Commits[s] :
                Decided[s][i] = Logs[s][i].payload /\ Logs'[s][i] = Logs[s][i]
        /\ \A i \in 1..Commits'[s] :
                Chosen'[i] = Logs'[s][i].payload /\ Decided'[s][i] = Logs'[s][i].payload
    BY DEF ChosenReads, Advances
  <1>2. \A i \in 1..Commits[s] : i \in 1..Commits'[s]
    BY <1>1
  <1>3. Len(<< >>) = 0
    OBVIOUS
  <1>4. Abstract!Extends(Chosen', machine'[s])
    <2>1. CASE machine'[s] = Decided'[s]
      BY <1>1, <2>1 DEF Abstract!Extends
    <2>2. CASE machine'[s] = << >>
      BY <1>1, <1>3, <2>2 DEF Abstract!Extends
    <2> QED BY <1>1, <2>1, <2>2
  <1>5. Abstract!Extends(machine'[s], machine[s])
    <2>1. CASE machine'[s] = machine[s]
      <3>1. Len(machine[s]) \in Nat
        BY <1>1, <1>3
      <3> QED BY <2>1, <3>1 DEF Abstract!Extends
    <2>2. CASE machine'[s] = Decided'[s] /\ machine[s] = Decided[s]
      BY <1>1, <1>2, <2>2 DEF Abstract!Extends
    <2>3. CASE machine'[s] = Decided'[s] /\ machine[s] = << >>
      BY <1>1, <1>3, <2>3 DEF Abstract!Extends
    <2> QED BY <1>1, <2>1, <2>2, <2>3
  <1> QED BY <1>4, <1>5

\* What is newly chosen was PUT and not answered, and is chosen once.
LEMMA ChosenFollows ==
    ASSUME Waiting, Waiting', ChosenReads, ChosenReads', Advances, Carried
    PROVE  Abstract!MayFollow(Chosen, Chosen')
  <1>1. Abstract!Extends(Chosen', Chosen)
    BY ChosenGrows
  <1>2. PICK m \in Server : Len(Chosen') = Commits'[m]
    BY DEF ChosenReads
  <1>3. /\ Commits'[m] \in Nat /\ Len(Logs'[m]) \in Nat /\ Commits'[m] <= Len(Logs'[m])
        /\ \A i \in 1..Commits'[m] : Chosen'[i] = Logs'[m][i].payload
        /\ Len(Chosen) \in Nat
    BY DEF ChosenReads
  <1>4. ASSUME NEW i \in (Len(Chosen) + 1)..Len(Chosen'), Chosen'[i] # Empty
        PROVE  /\ Status[Chosen'[i]] \in {"pending", "dropped"}
               /\ \A j \in 1..(i - 1) : Chosen'[j] # Chosen'[i]
    <2> DEFINE id == Chosen'[i]
    <2>1. i \in 1..Commits'[m] /\ i \in 1..Len(Logs'[m]) /\ i > Len(Chosen)
      BY <1>2, <1>3
    <2>2. id = Logs'[m][i].payload
      BY <1>3, <2>1
    <2>3. id \in Ids
      <3>1. Chosen' \in Seq(Payload) /\ i \in 1..Len(Chosen')
        BY <1>2, <2>1 DEF ChosenReads
      <3>2. Chosen'[i] \in Payload
        BY <3>1, ElementOfSeq
      <3> QED BY <1>4, <3>2, ClusterConstants
    <2> HIDE DEF id
    <2>4. PICK r \in Server : i \in 1..Len(Logs[r]) /\ Logs[r][i].payload = id
      BY <2>1, <2>2, <2>3 DEF Carried
    <2>5. Placed(id, answers, callbacks, Decided)
      BY <2>3, <2>4 DEF Waiting, Placed
    <2>6. ~ \E q \in Server : id \in Contents(Decided[q])
      <3> SUFFICES ASSUME NEW q \in Server, id \in Contents(Decided[q]) PROVE FALSE
        OBVIOUS
      <3>1. /\ Commits[q] <= Len(Chosen) /\ Commits[q] <= Len(Logs[q])
            /\ Commits[q] \in Nat /\ Len(Logs[q]) \in Nat
            /\ DOMAIN Decided[q] = 1..Commits[q]
            /\ \A j \in 1..Commits[q] : Decided[q][j] = Logs[q][j].payload
        BY DEF ChosenReads
      <3>2. PICK j \in 1..Commits[q] : Decided[q][j] = id
        BY <3>1 DEF Contents
      <3>3. j \in 1..Len(Logs[q]) /\ Logs[q][j].payload = id /\ j <= Len(Chosen)
        BY <1>3, <3>1, <3>2
      <3>4. Logs[r][i].payload = Logs[q][j].payload /\ Logs[r][i].payload \in Ids
        BY <2>3, <2>4, <3>3
      <3>5. i = j
        BY <2>4, <3>3, <3>4 DEF Waiting
      <3> QED BY <1>3, <2>1, <3>3, <3>5
    <2>7. Status[id] \in {"pending", "dropped"}
      BY <2>3, <2>5, <2>6 DEF Placed, Status
    <2>8. ASSUME NEW j \in 1..(i - 1) PROVE Chosen'[j] # id
      <3> SUFFICES ASSUME Chosen'[j] = id PROVE FALSE
        OBVIOUS
      <3>1. j \in 1..Commits'[m] /\ j \in 1..Len(Logs'[m])
        BY <1>3, <2>1
      <3>2. Logs'[m][j].payload = id
        BY <1>3, <3>1
      <3>3. i = j
        BY <2>1, <2>2, <2>3, <3>1, <3>2 DEF Waiting
      <3> QED BY <2>1, <3>3
    <2> QED BY <2>7, <2>8 DEF id
  <1> QED BY <1>1, <1>4 DEF Abstract!MayFollow

\* process_ready answers PUTs that wait, with what their server has applied.
LEMMA ReadyProgress ==
    ASSUME Inv, Inv', Advances, Carried, NEW S \in SUBSET Server, ProcessReady(S)
    PROVE  Abstract!Progress
  <1>1. ChosenReads /\ ChosenReads'
    BY ChosenIs, ChosenIsNext
  <1>2. Waiting /\ Waiting'
    BY DEF Inv
  <1>3. Abstract!MayFollow(Chosen, Chosen')
    BY <1>1, <1>2, ChosenFollows
  <1>a. \A s \in Server : machine'[s] = IF s \in S THEN Decided'[s] ELSE machine[s]
    BY DEF ProcessReady, Decided
  <1>4. /\ \A s \in Server : Abstract!Extends(Chosen', machine'[s])
        /\ \A s \in Server : Abstract!Extends(machine'[s], machine[s])
    BY <1>1, <1>a, MapsGrow
  <1>5. Chosen' \in Seq(Ids \cup {Empty})
    BY <1>1, ClusterConstants DEF ChosenReads
  <1>6. DOMAIN machine' = Server
    BY DEF ProcessReady
  <1> DEFINE done == [s \in Server |->
                IF s \in S THEN callbacks[s] \cap Contents(machine'[s]) ELSE {}]
             A == {id \in Ids : \E s \in S : id \in done[s]}
  <1>7. /\ callbacks' = [s \in Server |-> callbacks[s] \ done[s]]
        /\ answers' = [id \in Ids |->
                IF \E s \in S : id \in done[s] THEN "ok" ELSE answers[id]]
    BY DEF ProcessReady
  <1>8. \A s \in Server, id \in Ids :
            id \in done[s] <=> s \in S /\ id \in callbacks[s] /\ id \in Contents(machine'[s])
    OBVIOUS
  <1> HIDE DEF done
  <1>9. \A s \in Server : \A id \in callbacks[s] : id \in Ids /\ answers[id] = "none"
    BY <1>2 DEF Waiting
  <1>10. A \in SUBSET {id \in Ids : Status[id] = "pending"}
    <2>1. ASSUME NEW id \in A PROVE Status[id] = "pending"
      <3>1. PICK s \in S : id \in done[s]
        OBVIOUS
      <3>2. s \in Server /\ id \in Ids /\ id \in callbacks[s]
        BY <1>8, <3>1
      <3> QED BY <1>9, <3>2 DEF Status
    <2> QED BY <2>1
  <1>11. ASSUME NEW id \in A PROVE \E s \in Server : Abstract!Occurs(id, machine'[s])
    <2>1. PICK s \in S : id \in done[s]
      OBVIOUS
    <2>2. s \in Server /\ id \in Contents(machine'[s])
      BY <1>8, <2>1
    <2>3. DOMAIN machine'[s] = 1..Len(machine'[s])
      BY <1>1, <1>a, <2>2 DEF ChosenReads
    <2> QED BY <2>2, <2>3 DEF Contents, Abstract!Occurs
  <1>12. Status' = [id \in Ids |-> IF id \in A THEN "ok" ELSE Status[id]]
    <2>1. ASSUME NEW id \in Ids
          PROVE  Status'[id] = IF id \in A THEN "ok" ELSE Status[id]
      <3>1. CASE id \in A
        <4>1. answers'[id] = "ok"
          BY <1>7, <3>1
        <4> QED BY <3>1, <4>1 DEF Status
      <3>2. CASE id \notin A
        <4>1. answers'[id] = answers[id]
          BY <1>7, <3>2
        <4>2. \A s \in Server : id \notin done[s]
          BY <1>8, <3>2
        <4>3. \A s \in Server : id \in callbacks'[s] <=> id \in callbacks[s]
          BY <1>7, <4>2
        <4> HIDE DEF A
        <4> QED BY <3>2, <4>1, <4>3 DEF Status
      <3> QED BY <3>1, <3>2
    <2>2. Status' = [id \in Ids |-> Status'[id]]
      BY DEF Status
    <2> HIDE DEF A
    <2> QED BY <2>1, <2>2
  <1> HIDE DEF A
  <1>13. \E T \in SUBSET {id \in Ids : Status[id] = "pending"} :
            /\ \A id \in T : \E s \in Server : Abstract!Occurs(id, machine'[s])
            /\ Status' = [id \in Ids |-> IF id \in T THEN "ok" ELSE Status[id]]
    BY <1>10, <1>11, <1>12
  <1> QED BY <1>3, <1>4, <1>5, <1>6, <1>13 DEF Abstract!Progress

\* An accepted PUT waits from then on, a refused one is answered: nothing
\* else changes.
LEMMA PutStep ==
    ASSUME Inv, Inv', Advances, NEW s \in Server, NEW id \in Ids, Put(s, id)
    PROVE  Abstract!Send(id) \/ Abstract!Refuse(id)
  <1>1. Shape /\ ChosenReads /\ ChosenReads' /\ IsFresh(id)
    BY ChosenIs, ChosenIsNext DEF Inv, Put
  <1>2. Status[id] = "none"
    BY <1>1 DEF Status, IsFresh
  <1>3. /\ callbacks \in [Server -> SUBSET Ids]
        /\ answers \in [Ids -> {"none", "not_leader", "ok", "dropped"}]
    BY DEF Inv, Waiting
  <1>4. Commits' = Commits /\ machine' = machine
    <2>1. CASE Leads(s)
      BY <1>1, <2>1, PutEffect
    <2>2. CASE ~Leads(s)
      BY <2>2 DEF Put, Commits
    <2> QED BY <2>1, <2>2
  <1>5. Chosen' = Chosen
    BY <1>1, <1>4, ChosenStays
  <1>6. CASE Leads(s)
    <2>1. callbacks' = [callbacks EXCEPT ![s] = @ \cup {id}] /\ answers' = answers
      BY <1>1, <1>6, PutEffect
    <2>2. \A p \in Ids, x \in Server :
            p \in callbacks'[x] <=> p \in callbacks[x] \/ (x = s /\ p = id)
      BY <1>3, <2>1
    <2>3. Status'[id] = "pending"
      BY <1>1, <2>1, <2>2 DEF Status, IsFresh
    <2>4. \A p \in Ids : p # id => Status'[p] = Status[p]
      BY <2>1, <2>2 DEF Status
    <2>5. Status' = [Status EXCEPT ![id] = "pending"]
      BY <2>3, <2>4 DEF Status
    <2> QED BY <1>2, <1>4, <1>5, <2>5 DEF Abstract!Send
  <1>7. CASE ~Leads(s)
    <2>1. answers' = [answers EXCEPT ![id] = "not_leader"] /\ callbacks' = callbacks
      BY <1>7 DEF Put
    <2>2. Status'[id] = "not_leader"
      BY <1>3, <2>1 DEF Status
    <2>3. \A p \in Ids : p # id => Status'[p] = Status[p]
      BY <1>3, <2>1 DEF Status
    <2>4. Status' = [Status EXCEPT ![id] = "not_leader"]
      BY <2>2, <2>3 DEF Status
    <2> QED BY <1>2, <1>4, <1>5, <2>4 DEF Abstract!Refuse
  <1> QED BY <1>6, <1>7

\* A restart empties a map and gives up the PUTs that waited there.
LEMMA RestartStep ==
    ASSUME Inv, Inv', Advances, NEW s \in Server, Restart(s)
    PROVE  Abstract!Restart(s)
  <1>1. Shape /\ ChosenReads /\ ChosenReads'
    BY ChosenIs, ChosenIsNext DEF Inv
  <1>2. /\ callbacks \in [Server -> SUBSET Ids]
        /\ answers \in [Ids -> {"none", "not_leader", "ok", "dropped"}]
        /\ \A x \in Server : \A p \in callbacks[x] : answers[p] = "none"
    BY DEF Inv, Waiting
  <1>3. /\ callbacks' = [callbacks EXCEPT ![s] = {}]
        /\ answers' = [id \in Ids |-> IF id \in callbacks[s] THEN "dropped" ELSE answers[id]]
        /\ machine' = [machine EXCEPT ![s] = << >>]
    BY DEF Restart
  <1>4. Chosen' = Chosen
    <2>1. Commits' = Commits
      BY <1>1, RestartEffect
    <2> QED BY <1>1, <2>1, ChosenStays
  <1>5. callbacks[s] \in SUBSET {id \in Ids : Status[id] = "pending"}
    BY <1>2 DEF Status
  <1>6. Status' = [id \in Ids |-> IF id \in callbacks[s] THEN "dropped" ELSE Status[id]]
    <2>1. ASSUME NEW id \in Ids
          PROVE  Status'[id] = IF id \in callbacks[s] THEN "dropped" ELSE Status[id]
      <3>1. CASE id \in callbacks[s]
        <4>1. answers'[id] = "dropped"
          BY <1>3, <3>1
        <4> QED BY <3>1, <4>1 DEF Status
      <3>2. CASE id \notin callbacks[s]
        <4>1. answers'[id] = answers[id]
          BY <1>3, <3>2
        <4>2. \A x \in Server : id \in callbacks'[x] <=> id \in callbacks[x]
          BY <1>2, <1>3, <3>2
        <4> QED BY <3>2, <4>1, <4>2 DEF Status
      <3> QED BY <3>1, <3>2
    <2>2. Status' = [id \in Ids |-> Status'[id]]
      BY DEF Status
    <2> QED BY <2>1, <2>2
  <1> QED BY <1>3, <1>4, <1>5, <1>6 DEF Abstract!Restart

\* As long as no append leaves a stale tail, the cluster implements the
\* replicated map, restarts or not.
THEOREM ClusterImplements == Spec /\ [][TailFree]_vars => Implements
  <1>1. Init => Abstract!Init
    <2> SUFFICES ASSUME Init PROVE Abstract!Init
      OBVIOUS
    <2>1. ChosenReads
      BY InitInv, ChosenIs
    <2>2. \A s \in Server : Commits[s] = 0
      BY BootSnapshot DEF Init, Commits
    <2>3. Len(Chosen) = 0 /\ Chosen \in Seq(Payload)
      BY <2>1, <2>2 DEF ChosenReads
    <2>4. Chosen = << >>
      BY <2>3, EmptySeq
    <2>5. Status = [id \in Ids |-> "none"]
      BY DEF Init, Status
    <2> QED BY <2>4, <2>5 DEF Init, Abstract!Init
  <1>2. Inv /\ Inv' /\ [Next]_vars /\ [TailFree]_vars => [Abstract!Next]_Abstract!vars
    <2>1. ASSUME Inv, Inv', Next, TailFree PROVE Abstract!Next
      <3>1. Stepped
        BY <2>1, NextStepped
      <3>2. Advances
        BY <3>1 DEF Stepped
      <3>3. CASE Carried /\ \E S \in SUBSET Server : ProcessReady(S)
        BY <2>1, <3>2, <3>3, ReadyProgress DEF Abstract!Next
      <3>4. CASE \E s \in Server, id \in Ids : Put(s, id)
        BY <2>1, <3>2, <3>4, PutStep DEF Abstract!Next
      <3>5. CASE \E s \in Server : Restart(s)
        BY <2>1, <3>2, <3>5, RestartStep DEF Abstract!Next
      <3> QED BY <3>1, <3>3, <3>4, <3>5 DEF Stepped
    <2>2. ASSUME UNCHANGED vars PROVE UNCHANGED Abstract!vars
      <3>1. Chosen' = Chosen
        BY <2>2 DEF vars, Chosen, Applied
      <3>2. Status' = Status
        BY <2>2 DEF vars, Status
      <3> QED BY <2>2, <3>1, <3>2 DEF vars, Abstract!vars
    <2> QED BY <2>1, <2>2
  <1> QED BY <1>1, <1>2, ClusterInv, PTL DEF Implements, Spec, Abstract!Spec

\* On the memory backend the cluster always implements it.
THEOREM MemoryImplements == backend = "memory" /\ Spec => Implements
  BY ClusterImplements, MemoryTailFree, PTL
=============================================================================
