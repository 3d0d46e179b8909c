------------------------------ MODULE Cluster ------------------------------
(***************************************************************************)
(* The cluster: one Raft log per server, kept by RaftStorage on one of its *)
(* two backends, the map each server's loop makes of it, and the PUTs that *)
(* wait for their entry.                                                   *)
(*                                                                         *)
(* A step of a server is one iteration of its loop: an input and the whole *)
(* Ready it causes (what a crash inside a Ready does is ReadyLoop's        *)
(* subject).  raft-rs is external and modelled with its real messages cut  *)
(* to their effects.  An append is delivered as it is sent, but from any   *)
(* position the leader has not seen acknowledged and with any commit index *)
(* it has had: what a late, repeated or overtaken append does in the term  *)
(* it belongs to, an earlier step does here.  An election asks any set of  *)
(* servers, the others' votes being lost.  A step on which raft-rs panics  *)
(* is not taken: the process has to be started again (Restart).            *)
(***************************************************************************)
EXTENDS DiskStore, FiniteSets

CONSTANTS
    Server,
    Nobody,      \* INVALID_ID, raft-rs's 0: no vote, no known leader
    Ids,         \* PUTs; the id of one stands for its key and value
    Empty,       \* the payload of a new leader's first entry
    Backends,    \* backends considered, among "memory" and "disk"
    MaxTerm,     \* bound on terms, per backend
    MaxIndex,    \* bound on log indices, per backend
    MaxCrashes   \* bound on restarts

ASSUME ClusterConstants ==
    /\ IsFiniteSet(Server) /\ Server # {} /\ Nobody \notin Server
    /\ Empty \notin Ids /\ Payload = Ids \cup {Empty}
    /\ Backends \subseteq {"memory", "disk"} /\ MaxTerm \in [Backends -> Nat]
    /\ MaxIndex \in [Backends -> Nat] /\ MaxCrashes \in Nat
    /\ Confs # {}

VARIABLES
    backend,     \* every server's backend
    store,       \* what each server's storage holds, its hard state included
    offset,      \* raft-rs: where the next entry may start without a gap
    leader_id,   \* raft-rs: the leader a server knows, itself if it leads
    matched,     \* a leader's knowledge of the others' logs
    machine,     \* the payloads a server's map was made of, in order
    callbacks,   \* RaftNode::callbacks
    answers,     \* the reply each PUT has had, if any
    crashes

vars == <<backend, store, offset, leader_id, matched, machine, callbacks,
          answers, crashes>>

Leads(s) == leader_id[s] = s
Current(s) == store[s].hs.term
Last(s) == last_index(store[s])
TermAt(s, i) == term(store[s], i)
Quorum(S) == 2 * Cardinality(S) > Cardinality(Server)

Lesser(a, b) == IF a < b THEN a ELSE b
Greater(a, b) == IF a > b THEN a ELSE b

----------------------------------------------------------------------------
(* Storage                                                                 *)

\* RaftStorage::append of entry e behind index `base`: MemStorage drops what
\* follows, the disk backend does what append_writes says.
Appended(st, base, e) ==
    IF backend = "disk" THEN append_writes(st, base, <<e>>)[1]
    ELSE [st EXCEPT !.entries = InsertFirst([i \in 1..base |-> @[i]], base, <<e>>, 1)]

\* become_follower in a new term forgets the vote.
AtTerm(st, t) ==
    IF t > st.hs.term THEN [st EXCEPT !.hs.term = t, !.hs.vote = Nobody] ELSE st

----------------------------------------------------------------------------
(* process_ready: the servers of S have applied what they know committed   *)
(* and run the callbacks of the entries among it.                          *)

\* Mutant: everything stored is applied, committed or not.
Applied_Mutant(st) == [i \in 1..last_index(st) |-> st.entries[i].payload]

Applied(st) == [i \in 1..st.hs.commit |-> st.entries[i].payload]

ProcessReady(S) ==
    LET done == [s \in Server |->
                    IF s \in S THEN callbacks[s] \cap Contents(machine'[s]) ELSE {}]
    IN  /\ machine' = [s \in Server |->
                        IF s \in S THEN Applied(store'[s]) ELSE machine[s]]
        /\ callbacks' = [s \in Server |-> callbacks[s] \ done[s]]
        /\ answers' = [id \in Ids |->
                        IF \E s \in S : id \in done[s] THEN "ok" ELSE answers[id]]

----------------------------------------------------------------------------

Boot ==
    LET conf == CHOOSE c \in Confs : TRUE
    IN  [EmptyStore EXCEPT
            !.snap = [index |-> 0, term |-> 0, conf |-> conf, data |-> NoData],
            !.conf = conf, !.hs.vote = Nobody]

NoMatch == [s \in Server |-> 0]

Init ==
    /\ backend \in Backends
    /\ store = [s \in Server |-> Boot]
    /\ offset = [s \in Server |-> 1]
    /\ leader_id = [s \in Server |-> Nobody]
    /\ matched = [s \in Server |-> NoMatch]
    /\ machine = [s \in Server |-> << >>]
    /\ callbacks = [s \in Server |-> {}]
    /\ answers = [id \in Ids |-> "none"]
    /\ crashes = 0

\* The servers of S no longer lead, if they did.
Deposed(S) == [s \in Server |-> IF s \in S THEN NoMatch ELSE matched[s]]

IsFresh(id) == answers[id] = "none" /\ \A s \in Server : id \notin callbacks[s]

\* Mutant: the answer goes out with the proposal.
Put_Mutant(s, id) ==
    /\ IsFresh(id)
    /\ Leads(s) /\ Last(s) + 1 <= Lesser(MaxIndex[backend], offset[s])
    /\ store' = [store EXCEPT ![s] = Appended(@, Last(s),
                        [term |-> Current(s), payload |-> id])]
    /\ offset' = [offset EXCEPT ![s] = Last(s) + 2]
    /\ answers' = [answers EXCEPT ![id] = "ok"]
    /\ UNCHANGED <<backend, leader_id, matched, machine, callbacks, crashes>>

\* A gRPC PUT: a leader registers the callback and appends the entry, which
\* must follow on (Unstable::truncate_and_append); others refuse at once.
Put(s, id) ==
    /\ IsFresh(id)
    /\ \/ /\ Leads(s) /\ Last(s) + 1 <= Lesser(MaxIndex[backend], offset[s])
          /\ store' = [store EXCEPT ![s] = Appended(@, Last(s),
                            [term |-> Current(s), payload |-> id])]
          /\ offset' = [offset EXCEPT ![s] = Last(s) + 2]
          /\ callbacks' = [callbacks EXCEPT ![s] = @ \cup {id}]
          /\ UNCHANGED answers
       \/ /\ ~Leads(s)
          /\ answers' = [answers EXCEPT ![id] = "not_leader"]
          /\ UNCHANGED <<store, offset, callbacks>>
    /\ UNCHANGED <<backend, leader_id, matched, machine, crashes>>

----------------------------------------------------------------------------
(* Elections                                                               *)

\* RaftLog::is_up_to_date, both sides read from storage.
UpToDate(s, v) ==
    \/ TermAt(s, Last(s)) > TermAt(v, Last(v))
    \/ TermAt(s, Last(s)) = TermAt(v, Last(v)) /\ Last(s) >= Last(v)

\* A (pre-)vote request of s for term t that v grants.
GrantsPreVote(v, s, t) ==
    /\ UpToDate(s, v)
    /\ \/ t > Current(v)
       \/ t = Current(v) /\ store[v].hs.vote \in {s, Nobody} /\ leader_id[v] = Nobody
GrantsVote(v, s, t) ==
    /\ UpToDate(s, v)
    /\ \/ t > Current(v)
       \/ t = Current(v) /\ store[v].hs.vote = Nobody /\ leader_id[v] = Nobody

\* s campaigns (a timeout, or CAMPAIGN) and wins the pre-vote; the servers of
\* some set Q get the vote request, answer, and are in its term from then on.
\* With a quorum s leads and appends its empty entry.
Elect(s) ==
    LET t == Current(s) + 1
        last == Last(s)
        candidate == [store[s] EXCEPT !.hs.term = t, !.hs.vote = s]
    IN  /\ ~Leads(s)
        /\ t <= MaxTerm[backend]
        /\ Quorum({s} \cup {v \in Server : GrantsPreVote(v, s, t)})
        /\ \E Q \in SUBSET (Server \ {s}) :
            LET grants == {v \in Q : GrantsVote(v, s, t)}
                wins == Quorum(grants \cup {s})
                follow == {v \in Q : Current(v) < t}
            IN  /\ wins => last + 1 <= Lesser(MaxIndex[backend], offset[s])
                /\ store' = [v \in Server |->
                        IF v = s /\ wins
                        THEN Appended(candidate, last, [term |-> t, payload |-> Empty])
                        ELSE IF v = s THEN candidate
                        ELSE IF v \in grants THEN [AtTerm(store[v], t) EXCEPT !.hs.vote = s]
                        ELSE IF v \in Q THEN AtTerm(store[v], t)
                        ELSE store[v]]
                /\ offset' = IF wins THEN [offset EXCEPT ![s] = last + 2] ELSE offset
                /\ leader_id' = [v \in Server |->
                        IF v = s /\ wins THEN s
                        ELSE IF v \in follow \cup {s} THEN Nobody ELSE leader_id[v]]
                /\ matched' = Deposed(follow)
                /\ ProcessReady(Q \cup {s})
        /\ UNCHANGED <<backend, crashes>>

\* s hears of a higher term in a rejection: it stops leading.
LearnTerm(s, r) ==
    /\ Current(r) > Current(s)
    /\ store' = [store EXCEPT ![s] = AtTerm(@, Current(r))]
    /\ leader_id' = [leader_id EXCEPT ![s] = Nobody]
    /\ matched' = Deposed({s})
    /\ ProcessReady({s})
    /\ UNCHANGED <<backend, offset, crashes>>

----------------------------------------------------------------------------
(* Replication                                                             *)

\* f handles an append of leader l that names position `prev`, carries the
\* entries up to n (at most one, max_size_per_msg being 0) and commit index
\* c; l handles the answer.  A heartbeat is one without entries.
Replicate(l, f, prev, n, c) ==
    LET st == AtTerm(store[f], Current(l))
        known == n = prev \/ TermAt(f, n) = TermAt(l, n)
        stale == prev < st.hs.commit
        new == IF stale \/ known THEN st ELSE Appended(st, prev, store[l].entries[n])
        commit == IF stale THEN st.hs.commit ELSE Greater(st.hs.commit, Lesser(c, n))
        acked == IF stale THEN st.hs.commit ELSE n
    IN  /\ Leads(l) /\ f # l /\ Current(f) <= Current(l)
        /\ ~stale => /\ TermAt(f, prev) = TermAt(l, prev)
                     /\ known \/ n <= offset[f]
        /\ store' = [store EXCEPT ![f] = [new EXCEPT !.hs.commit = commit]]
        /\ offset' = [offset EXCEPT ![f] = IF stale \/ known THEN @ ELSE n + 1]
        /\ leader_id' = [leader_id EXCEPT ![f] = l]
        /\ matched' = [Deposed({f}) EXCEPT ![l][f] = Greater(@, acked)]
        /\ ProcessReady({f})
        /\ UNCHANGED <<backend, crashes>>

\* A quorum has acknowledged n, an entry of the leader's own term.
LeaderCommit(l, n) ==
    /\ Leads(l)
    /\ TermAt(l, n) = Current(l)
    /\ Quorum({l} \cup {f \in Server : matched[l][f] >= n})
    /\ store' = [store EXCEPT ![l].hs.commit = n]
    /\ ProcessReady({l})
    /\ UNCHANGED <<backend, offset, leader_id, matched, crashes>>

----------------------------------------------------------------------------
(* Restarts                                                                *)

\* Mutant: the stored hard state is not read back.
InitialState_Mutant(st) == [st EXCEPT !.hs = Boot.hs]

\* DiskStorage::initial_state: what a new core starts from.
InitialState(st) == st

\* The process of s dies and is started again: its map is empty, its
\* callbacks are gone, the log and the hard state are those of its disk.
\* (In memory they are gone too: such a server is not started again.)
Restart(s) ==
    /\ backend = "disk" /\ crashes < MaxCrashes
    /\ crashes' = crashes + 1
    /\ store' = [store EXCEPT ![s] = InitialState(@)]
    /\ offset' = [offset EXCEPT ![s] = Last(s) + 1]
    /\ leader_id' = [leader_id EXCEPT ![s] = Nobody]
    /\ matched' = Deposed({s})
    /\ machine' = [machine EXCEPT ![s] = << >>]
    /\ callbacks' = [callbacks EXCEPT ![s] = {}]
    /\ answers' = [id \in Ids |->
                    IF id \in callbacks[s] THEN "dropped" ELSE answers[id]]
    /\ UNCHANGED backend

\* The first iteration of a restarted loop, when no message has come.
Replay(s) ==
    /\ Len(machine[s]) < store[s].hs.commit
    /\ store' = store
    /\ ProcessReady({s})
    /\ UNCHANGED <<backend, offset, leader_id, matched, crashes>>

Next ==
    \/ \E s \in Server, id \in Ids : Put(s, id)
    \/ \E s \in Server : Elect(s)
    \/ \E s, r \in Server : LearnTerm(s, r)
    \/ \E l \in {s \in Server : Leads(s)} : \E f \in Server \ {l} :
         \* any c the leader has had; above n it counts as n
         \E prev \in matched[l][f]..Last(l) : \E n \in prev..Lesser(prev + 1, Last(l)) :
         \E c \in store[f].hs.commit
                 ..Greater(store[f].hs.commit, Lesser(store[l].hs.commit, n)) :
            Replicate(l, f, prev, n, c)
    \/ \E l \in {s \in Server : Leads(s)} :
         \E n \in (store[l].hs.commit + 1)..Last(l) : LeaderCommit(l, n)
    \/ \E s \in Server : Restart(s) \/ Replay(s)

Spec == Init /\ [][Next]_vars

----------------------------------------------------------------------------
(* Properties                                                              *)

\* Terms, votes and logs are as the code keeps them; the map is made of
\* committed entries; in memory the log always ends where raft-rs thinks.
TypeOK ==
    /\ backend \in Backends
    /\ \A s \in Server :
        /\ store[s].entries \in [1..Last(s) -> Entry]
        /\ Current(s) \in 0..MaxTerm[backend]
        /\ store[s].hs.vote \in Server \cup {Nobody}
        /\ store[s].hs.commit \in Len(machine[s])..Last(s)
        /\ backend = "memory" => offset[s] = Last(s) + 1
        /\ leader_id[s] \in Server \cup {Nobody}
        /\ matched[s] \in [Server -> 0..Last(s)]
        /\ machine[s] \in Seq(Payload)
        /\ callbacks[s] \subseteq Ids
    /\ answers \in [Ids -> {"none", "not_leader", "ok", "dropped"}]
    /\ crashes \in 0..MaxCrashes

\* Whoever leads holds every entry any server of its term or an earlier one
\* knows to be committed: no election, late append or restart lets a server
\* lead that would overwrite what a client was told.
LeaderHoldsCommitted ==
    \A l, s \in Server :
        Leads(l) /\ Current(s) <= Current(l) =>
            \A i \in 1..store[s].hs.commit :
                i <= Last(l) /\ store[l].entries[i] = store[s].entries[i]

\* The chosen writes are what the server with the highest commit index has
\* committed; a PUT whose callback is registered is pending.
Chosen ==
    LET first == CHOOSE s \in Server :
                    \A r \in Server : store[r].hs.commit <= store[s].hs.commit
    IN  Applied(store[first])

Status ==
    [id \in Ids |->
        IF answers[id] = "none" /\ (\E s \in Server : id \in callbacks[s])
        THEN "pending" ELSE answers[id]]

Abstract == INSTANCE ReplicatedMap WITH chosen <- Chosen, status <- Status

\* The cluster implements the replicated map: one order of writes for every
\* server and every reader, success only for what is chosen, refused PUTs
\* never chosen, nothing chosen twice or taken back by elections, late
\* appends and restarts.
Implements == Abstract!Spec
=============================================================================
