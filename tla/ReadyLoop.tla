----------------------------- MODULE ReadyLoop -----------------------------
(***************************************************************************)
(* One server of the cluster: the Raft loop (raft_loop.rs), its command    *)
(* handler (command_handler.rs), the Ready processor (ready_processor.rs), *)
(* the entry applicator (entry_applicator.rs) and the key-value node       *)
(* (node.rs) on top of DiskStorage, with a crash possible between any two  *)
(* writes and a restart from what is on disk.                              *)
(*                                                                         *)
(* The raft-rs core is external code: it is modelled by what the loop can  *)
(* observe of it (its hard state, the unstable part of its log, the Ready  *)
(* it hands out, the messages it queues).  The other servers are an        *)
(* environment that keeps Raft's own guarantees: one leader per term,      *)
(* whose log holds everything chosen before (see "The other servers").     *)
(*                                                                         *)
(* The value a PUT writes is the id of its request, so that every write    *)
(* can be told apart.                                                      *)
(***************************************************************************)
EXTENDS DiskStorage, FiniteSets

CONSTANTS
    Self, Peers,   \* this server and the other voters
    Keys, Ids,     \* keys, and PUTs sent to this server (an id names one PUT)
    OtherIds,      \* PUTs sent to other servers
    NoValue,       \* an absent key
    Empty,         \* the empty payload of a new leader's first entry
    Voters,        \* the configuration every server is started with
    MaxTerm, MaxIndex, MaxCrashes,
    Snapshots      \* BOOLEAN: leaders may send snapshots

Command == [key : Keys, id : Ids \cup OtherIds]
EmptyKv == [k \in Keys |-> NoValue]

ASSUME LoopConstants ==
    /\ Self \in Nat \ {0} /\ Peers \subseteq Nat \ {0} /\ Self \notin Peers
    /\ Voters \in Confs
    /\ Ids \cap OtherIds = {}
    /\ Payload = Command \cup {Empty} /\ Empty \notin Command
    /\ SnapData = {NoData} \cup [Keys -> Ids \cup OtherIds \cup {NoValue}]
    /\ NoData \notin [Keys -> Ids \cup OtherIds \cup {NoValue}]
    /\ MaxTerm \in Nat /\ MaxIndex \in Nat /\ MaxCrashes \in Nat
    /\ Snapshots \in BOOLEAN

VARIABLES
    \* the loop
    pc,          \* where the loop thread is
    rd,          \* the Ready being processed
    batch,       \* committed entries still to apply
    kv,          \* the BTreeMap of the key-value node
    callbacks,   \* ids whose oneshot sender sits in RaftNode::callbacks
    \* the raft-rs core
    hs,          \* its hard state
    prev_hs,     \* the hard state last handed out
    role,
    unstable,    \* entries not yet stored, the first at index `offset`
    offset,
    usnap,       \* a snapshot not yet stored
    persisted,   \* last index known to be stored
    since,       \* commit_since_index: last committed index handed out
    msgs,        \* queued messages
    \* the world outside
    sent,        \* promises handed to the transport
    answers,     \* the reply each request has had, if any
    ldrLog,      \* what is known of the log of each term's leader
    chosen,      \* entries committed by some leader, and its term
    won,         \* terms this server has led
    crashes

loopVars == <<pc, rd, batch, kv, callbacks>>
coreVars == <<hs, prev_hs, role, unstable, offset, usnap, persisted, since, msgs>>
worldVars == <<sent, answers, ldrLog, chosen, won, crashes>>
vars == <<storageVars, loopVars, coreVars, worldVars>>

Roles == {"Follower", "PreCandidate", "Candidate", "Leader"}
Replies == {"none", "ok", "not_leader", "dropped", "user"}
Pcs == {"open", "new", "panicked", "stopped", "input", "tick", "ready",
        "snapshot", "restore", "append", "hardstate", "persisted",
        "apply", "light"}

\* What a message commits this server to: a vote for candidate `arg` in
\* `term` (its own candidacy included), leading `term`, or having stored the
\* log of the leader of `term` up to index `arg`.
Promise == [type : {"vote", "lead", "ack"}, term : Nat, arg : Nat]
VoteFor(t, c) == [type |-> "vote", term |-> t, arg |-> c]
Leads(t) == [type |-> "lead", term |-> t, arg |-> Self]
Ack(t, i) == [type |-> "ack", term |-> t, arg |-> i]

NoReady ==
    [snap |-> NoSnapshot, base |-> 0, ents |-> << >>, has_hs |-> FALSE,
     hs |-> NoHardState, msgs |-> {}, persisted_msgs |-> {},
     committed |-> << >>]

----------------------------------------------------------------------------
(* The core's log: stored entries below `offset`, unstable ones above.     *)

CoreLast ==
    IF unstable # << >> THEN offset + Len(unstable) - 1
    ELSE IF usnap # NoSnapshot THEN usnap.index
    ELSE last_index(view)

CoreTerm(i) ==
    IF i >= offset /\ i < offset + Len(unstable) THEN unstable[i - offset + 1].term
    ELSE IF usnap # NoSnapshot /\ i = usnap.index THEN usnap.term
    ELSE term(view, i)

\* The entries the core holds up to index n, by index.
CoreEntries(n) ==
    LET fresh == offset..(offset + Len(unstable) - 1)
    IN  [i \in (fresh \cup DOMAIN view.entries) \cap 1..n |->
            IF i \in fresh THEN unstable[i - offset + 1] ELSE view.entries[i]]

Lesser(a, b) == IF a < b THEN a ELSE b
Greater(a, b) == IF a > b THEN a ELSE b

\* Unstable::truncate_and_append of entries that start at index `first`.
\* raft-rs panics when they do not follow on: the process dies (Crash).
TruncateAndAppend(first, es) ==
    /\ first <= offset + Len(unstable)
    /\ IF first > offset
       THEN /\ unstable' = SubSeq(unstable, 1, first - offset) \o es
            /\ UNCHANGED offset
       ELSE /\ unstable' = es
            /\ offset' = first

\* RaftLog::next_entries_since: committed and stored entries not handed out.
NextEntries(last, s, from) ==
    LET low == Greater(from + 1, first_index(s))
    IN  [k \in 1..(IF last < low THEN 0 ELSE last - low + 1) |->
            [index |-> low + k - 1, entry |-> s.entries[low + k - 1]]]

----------------------------------------------------------------------------
(* The other servers: Raft's guarantees about what leaders send.           *)

Extend(f, g) == [i \in DOMAIN f \cup DOMAIN g |-> IF i \in DOMAIN g THEN g[i] ELSE f[i]]

\* f is part of the log of the leader of t: its terms never decrease and end
\* with t, it never changes where it is known, it agrees with the log of an
\* entry's own leader up to that entry, and it holds what was chosen in t or
\* before.
LeaderHolds(t, f) ==
    /\ \A i \in DOMAIN f :
            LET own == ldrLog[f[i].term] IN
            /\ f[i].term <= t
            /\ \A j \in DOMAIN f : j <= i => f[j].term <= f[i].term
            /\ \A j \in DOMAIN f \cap DOMAIN own : j <= i => f[j] = own[j]
            /\ f[i].term \in won => i \in DOMAIN own
            /\ f[i].term \notin won =>
                    f[i].payload \in [key : Keys, id : OtherIds] \cup {Empty}
    /\ \A i \in DOMAIN f \cap DOMAIN ldrLog[t] : f[i] = ldrLog[t][i]
    /\ \A i \in DOMAIN f \cap DOMAIN chosen :
            chosen[i].at <= t => chosen[i].entry = f[i]

Teach(t, f) == ldrLog' = [ldrLog EXCEPT ![t] = Extend(ldrLog[t], f)]

\* The leader of t, whose log contains f, commits f up to index c.
MayChoose(t, f, c) ==
    \A i \in DOMAIN f :
        i <= c =>
            /\ i \in DOMAIN chosen => chosen[i].entry = f[i]
            /\ \A u \in (t + 1)..MaxTerm :
                    i \in DOMAIN ldrLog[u] => ldrLog[u][i] = f[i]

Choose(t, f, c) ==
    chosen' = [i \in DOMAIN chosen \cup {j \in DOMAIN f : j <= c} |->
                IF i \in DOMAIN chosen THEN chosen[i]
                ELSE [entry |-> f[i], at |-> t]]

\* Some other server leads t and this one may hear from it.
OtherLeads(t) ==
    /\ Peers # {}
    /\ t \in hs.term..MaxTerm /\ t > 0
    /\ t \notin won
    /\ t = hs.term => role # "Leader"

----------------------------------------------------------------------------
(* Inputs: RaftDriver::run takes one command, one message or a timeout.    *)

Input == pc = "input" /\ pc' = "tick"

\* become_follower: a new term forgets the vote.
AtTerm(t) == IF t > hs.term THEN [hs EXCEPT !.term = t, !.vote = 0] ELSE hs

\* RawNode::propose on a leader: the entry joins the log and is broadcast.
Propose(cmd) ==
    LET i == CoreLast + 1
        e == [term |-> hs.term, payload |-> cmd]
    IN  /\ i <= MaxIndex
        /\ TruncateAndAppend(i, <<e>>)
        /\ Teach(hs.term, [j \in {i} |-> e])
        /\ msgs' = IF Peers = {} THEN msgs ELSE msgs \cup {Leads(hs.term)}

Fresh(id) == answers[id] = "none" /\ id \notin callbacks

\* Mutant: a leader answers as soon as it has proposed.
RpcPut_Mutant(key, id) ==
    /\ Input /\ Fresh(id)
    /\ role = "Leader"
    /\ answers' = [answers EXCEPT ![id] = "ok"]
    /\ Propose([key |-> key, id |-> id])
    /\ UNCHANGED <<storageVars, rd, batch, kv, callbacks, hs, prev_hs, role, usnap,
                   persisted, since, sent, chosen, won, crashes>>

\* A gRPC PUT: refused at once unless this server leads, else proposed with
\* its callback registered.
RpcPut(key, id) ==
    /\ Input /\ Fresh(id)
    /\ \/ /\ role # "Leader"
          /\ answers' = [answers EXCEPT ![id] = "not_leader"]
          /\ UNCHANGED <<callbacks, unstable, offset, ldrLog, msgs>>
       \/ /\ role = "Leader"
          /\ callbacks' = callbacks \cup {id}
          /\ Propose([key |-> key, id |-> id])
          /\ UNCHANGED answers
    /\ UNCHANGED <<storageVars, rd, batch, kv, hs, prev_hs, role, usnap,
                   persisted, since, sent, chosen, won, crashes>>

\* A PUT typed at the TUI: proposed without a callback.  Without leadership
\* propose_command refuses it and the TUI is told; nothing changes here
\* (InputNothing).
UserPut(key, id) ==
    /\ Input /\ Fresh(id)
    /\ role = "Leader"
    /\ answers' = [answers EXCEPT ![id] = "user"]
    /\ Propose([key |-> key, id |-> id])
    /\ UNCHANGED <<storageVars, rd, batch, kv, callbacks, hs, prev_hs, role,
                   usnap, persisted, since, sent, chosen, won, crashes>>

\* MsgHup, from the TUI's CAMPAIGN or from an election timeout: with
\* pre_vote a server first asks for pre-votes, which commit it to nothing; a
\* single voter wins both rounds on the spot.
Hup ==
    IF role = "Leader" \/ (Peers = {} /\ (hs.term >= MaxTerm \/ CoreLast >= MaxIndex))
    THEN UNCHANGED <<hs, role, unstable, offset, ldrLog, won>>
    ELSE IF Peers # {}
    THEN /\ role' = "PreCandidate"
         /\ UNCHANGED <<hs, unstable, offset, ldrLog, won>>
    ELSE LET t == hs.term + 1
             e == [term |-> t, payload |-> Empty]
         IN  /\ hs' = [hs EXCEPT !.term = t, !.vote = Self]
             /\ role' = "Leader"
             /\ TruncateAndAppend(CoreLast + 1, <<e>>)
             /\ Teach(t, Extend(CoreEntries(CoreLast), [j \in {CoreLast + 1} |-> e]))
             /\ won' = won \cup {t}

UserCampaign ==
    /\ Input
    /\ Hup
    /\ UNCHANGED <<storageVars, rd, batch, kv, callbacks, prev_hs, usnap,
                   persisted, since, msgs, sent, answers, chosen, crashes>>

\* Enough pre-votes: a new term, a vote for itself, vote requests.
StepPreVotesWon ==
    /\ Input
    /\ role = "PreCandidate" /\ hs.term < MaxTerm
    /\ role' = "Candidate"
    /\ hs' = [hs EXCEPT !.term = hs.term + 1, !.vote = Self]
    /\ msgs' = msgs \cup {VoteFor(hs.term + 1, Self)}
    /\ UNCHANGED <<storageVars, rd, batch, kv, callbacks, prev_hs, unstable,
                   offset, usnap, persisted, since, worldVars>>

\* Enough votes, all answers to requests sent: the empty entry, appends.
StepVotesWon ==
    LET i == CoreLast + 1
        e == [term |-> hs.term, payload |-> Empty]
        f == CoreEntries(CoreLast)
    IN  /\ Input
        /\ role = "Candidate" /\ VoteFor(hs.term, Self) \in sent
        /\ hs.term \notin won /\ ldrLog[hs.term] = << >>
        /\ LeaderHolds(hs.term, f)
        /\ \A j \in DOMAIN chosen : j <= CoreLast
        /\ i <= MaxIndex
        /\ role' = "Leader"
        /\ TruncateAndAppend(i, <<e>>)
        /\ Teach(hs.term, Extend(f, [j \in {i} |-> e]))
        /\ won' = won \cup {hs.term}
        /\ msgs' = msgs \cup {Leads(hs.term)}
        /\ UNCHANGED <<storageVars, rd, batch, kv, callbacks, hs, prev_hs, usnap,
                       persisted, since, sent, answers, chosen, crashes>>

\* A vote request of candidate c in term t that is granted.
StepVoteRequest(t, c) ==
    /\ Input
    /\ c \in Peers /\ t \in hs.term..MaxTerm /\ t > 0
    /\ AtTerm(t).vote \in {0, c}
    /\ hs' = [AtTerm(t) EXCEPT !.vote = c]
    /\ role' = IF t > hs.term THEN "Follower" ELSE role
    /\ msgs' = msgs \cup {VoteFor(t, c)}
    /\ UNCHANGED <<storageVars, rd, batch, kv, callbacks, prev_hs, unstable,
                   offset, usnap, persisted, since, worldVars>>

\* Any other message of a higher term.
StepHigherTerm(t) ==
    /\ Input
    /\ Peers # {} /\ t \in (hs.term + 1)..MaxTerm
    /\ hs' = AtTerm(t)
    /\ role' = "Follower"
    /\ UNCHANGED <<storageVars, rd, batch, kv, callbacks, prev_hs, unstable,
                   offset, usnap, persisted, since, msgs, worldVars>>

\* An append of the leader of t that matches the log at `prev`.  Entries the
\* log already has are skipped; from the first that differs on, the rest
\* replaces what follows.  max_size_per_msg is 0: at most one entry.
StepAppend(t, prev, es, c) ==
    LET last == prev + Len(es)
        new == Extend(CoreEntries(prev), [i \in (prev + 1)..last |-> es[i - prev]])
        known == last <= CoreLast /\ (es # << >> => CoreTerm(last) = es[1].term)
        commit == Greater(hs.commit, Lesser(c, last))
    IN  /\ Input
        /\ OtherLeads(t)
        /\ prev \in hs.commit..CoreLast /\ last <= MaxIndex
        /\ es # << >> => es[1].term \in Greater(CoreTerm(prev), 1)..t
        /\ c \in hs.commit..MaxIndex
        /\ LeaderHolds(t, new)
        /\ known /\ es # << >> => CoreEntries(last)[last] = es[1]
        /\ MayChoose(t, new, Lesser(c, last))
        /\ Teach(t, new)
        /\ Choose(t, new, Lesser(c, last))
        /\ hs' = [AtTerm(t) EXCEPT !.commit = commit]
        /\ role' = "Follower"
        /\ IF known
           THEN UNCHANGED <<unstable, offset, persisted>>
           ELSE /\ TruncateAndAppend(last, es)
                /\ persisted' = Lesser(persisted, prev)
        /\ msgs' = msgs \cup {Ack(t, last)}
        /\ UNCHANGED <<storageVars, rd, batch, kv, callbacks, prev_hs, usnap,
                       since, sent, answers, won, crashes>>

\* A heartbeat of the leader of t: it names no index this server has not
\* acknowledged to it.
StepHeartbeat(t, c) ==
    /\ Input
    /\ OtherLeads(t)
    /\ c \in hs.commit..CoreLast
    /\ c > hs.commit => \E m \in sent : m.type = "ack" /\ m.term = t /\ m.arg >= c
    /\ MayChoose(t, ldrLog[t], c)
    /\ Choose(t, ldrLog[t], c)
    /\ hs' = [AtTerm(t) EXCEPT !.commit = c]
    /\ role' = "Follower"
    /\ UNCHANGED <<storageVars, rd, batch, kv, callbacks, prev_hs, unstable,
                   offset, usnap, persisted, since, msgs, sent, answers,
                   ldrLog, won, crashes>>

\* Acknowledgements of a quorum: the leader commits up to index c.
StepAppendResponse(c) ==
    /\ Input
    /\ Peers # {} /\ role = "Leader"
    /\ c \in (hs.commit + 1)..CoreLast /\ CoreTerm(c) = hs.term
    /\ MayChoose(hs.term, ldrLog[hs.term], c)
    /\ Choose(hs.term, ldrLog[hs.term], c)
    /\ hs' = [hs EXCEPT !.commit = c]
    /\ msgs' = msgs \cup {Leads(hs.term)}
    /\ UNCHANGED <<storageVars, rd, batch, kv, callbacks, prev_hs, role, unstable,
                   offset, usnap, persisted, since, sent, answers, ldrLog, won,
                   crashes>>

\* The last value the entries f give to key k.
LastPut(f, k) ==
    LET puts == {i \in DOMAIN f : f[i].payload # Empty /\ f[i].payload.key = k}
    IN  IF puts = {} THEN NoValue ELSE f[Highest(puts)].payload.id

\* A snapshot of the leader of t that stands for the committed entries f.  A
\* log that holds its last entry, and then what precedes it, only moves its
\* commit index.
StepSnapshot(t, f) ==
    LET n == Len(f)
        s == [index |-> n, term |-> f[n].term, conf |-> Voters,
              data |-> [k \in Keys |-> LastPut(f, k)]]
    IN  /\ Input /\ Snapshots
        /\ OtherLeads(t)
        /\ n > hs.commit /\ f[n].term <= t
        /\ LeaderHolds(t, f) /\ MayChoose(t, f, n)
        /\ Teach(t, f) /\ Choose(t, f, n)
        /\ hs' = [AtTerm(t) EXCEPT !.commit = n]
        /\ role' = "Follower"
        /\ \/ /\ CoreTerm(n) = f[n].term
              /\ \A i \in DOMAIN CoreEntries(n) : CoreEntries(n)[i] = f[i]
              /\ UNCHANGED <<usnap, unstable, offset, persisted>>
           \/ /\ CoreTerm(n) # f[n].term
              /\ usnap' = s
              /\ unstable' = << >> /\ offset' = n + 1
              /\ persisted' = Lesser(persisted, hs.commit)
        /\ msgs' = msgs \cup {Ack(t, n)}
        /\ UNCHANGED <<storageVars, rd, batch, kv, callbacks, prev_hs, since,
                       sent, answers, won, crashes>>

\* The select times out, or a read-only command or a stale message comes.
InputNothing ==
    /\ Input
    /\ UNCHANGED <<storageVars, rd, batch, kv, callbacks, coreVars, worldVars>>

\* The tick, once 100 ms have passed since the last: nothing, an election
\* timeout, or a heartbeat round.
Tick ==
    /\ pc = "tick" /\ pc' = "ready"
    /\ \/ UNCHANGED <<hs, role, unstable, offset, ldrLog, won, msgs>>
       \/ Hup /\ UNCHANGED msgs
       \/ /\ role = "Leader" /\ Peers # {}
          /\ msgs' = msgs \cup {Leads(hs.term)}
          /\ UNCHANGED <<hs, role, unstable, offset, ldrLog, won>>
    /\ UNCHANGED <<storageVars, rd, batch, kv, callbacks, prev_hs, usnap,
                   persisted, since, sent, answers, chosen, crashes>>

----------------------------------------------------------------------------
(* process_ready, step by step.  A step starts once the storage call of the*)
(* step before has returned.                                               *)

Committable == Lesser(hs.commit, persisted)
Undelivered == NextEntries(Committable, view, since)

\* RawNode::has_ready
HasReady ==
    \/ msgs # {} \/ unstable # << >> \/ usnap # NoSnapshot \/ hs # prev_hs
    \/ Undelivered # << >>

\* Mutant: a Ready with a hard state does not store its entries.
Stage_MutantHardStateOnly(stage, r) ==
    IF stage = "snapshot" /\ r.snap # NoSnapshot THEN "snapshot"
    ELSE IF r.has_hs THEN "hardstate"
    ELSE IF r.ents # << >> /\ stage # "hardstate" THEN "append"
    ELSE "persisted"

\* The first stage of process_ready, from `stage` on, with something to do.
Stage(stage, r) ==
    IF stage = "snapshot" /\ r.snap # NoSnapshot THEN "snapshot"
    ELSE IF stage \in {"snapshot", "append"} /\ r.ents # << >> THEN "append"
    ELSE IF stage # "persisted" /\ r.has_hs THEN "hardstate"
    ELSE "persisted"

LastOf(b, default) == IF b = << >> THEN default ELSE b[Len(b)].index

NothingReady ==
    /\ pc = "ready" /\ ~HasReady
    /\ pc' = "input"
    /\ UNCHANGED <<storageVars, rd, batch, kv, callbacks, coreVars, worldVars>>

\* Mutant: everyone's messages go out before anything is stored.
TakeReady_Mutant ==
    LET deliver == IF usnap # NoSnapshot THEN << >> ELSE Undelivered
    IN  /\ pc = "ready" /\ HasReady
        /\ rd' = [snap |-> usnap, base |-> offset - 1, ents |-> unstable,
                  has_hs |-> hs # prev_hs, hs |-> hs, msgs |-> msgs,
                  persisted_msgs |-> {}, committed |-> deliver]
        /\ pc' = Stage("snapshot", rd')
        /\ sent' = sent \cup rd'.msgs
        /\ msgs' = {}
        /\ since' = IF usnap # NoSnapshot THEN usnap.index
                    ELSE LastOf(deliver, since)
        /\ UNCHANGED <<storageVars, batch, kv, callbacks, hs, prev_hs, role,
                       unstable, offset, usnap, persisted, answers, ldrLog,
                       chosen, won, crashes>>

\* RawNode::ready, and step 1: a leader's messages go out before anything is
\* stored, everyone else's wait.
TakeReady ==
    LET leads == role = "Leader"
        deliver == IF usnap # NoSnapshot THEN << >> ELSE Undelivered
    IN  /\ pc = "ready" /\ HasReady
        /\ rd' = [snap |-> usnap, base |-> offset - 1, ents |-> unstable,
                  has_hs |-> hs # prev_hs, hs |-> hs,
                  msgs |-> IF leads THEN msgs ELSE {},
                  persisted_msgs |-> IF leads THEN {} ELSE msgs,
                  committed |-> deliver]
        /\ pc' = Stage("snapshot", rd')
        /\ sent' = sent \cup rd'.msgs
        /\ msgs' = {}
        /\ since' = IF usnap # NoSnapshot THEN usnap.index
                    ELSE LastOf(deliver, since)
        /\ UNCHANGED <<storageVars, batch, kv, callbacks, hs, prev_hs, role,
                       unstable, offset, usnap, persisted, answers, ldrLog,
                       chosen, won, crashes>>

\* Step 2, first half: the snapshot is stored.
StoreSnapshot ==
    /\ pc = "snapshot" /\ pc' = "restore"
    /\ apply_snapshot(rd.snap)
    /\ UNCHANGED <<rd, batch, kv, callbacks, coreVars, worldVars>>

\* SnapshotCodec::decode: zero bytes are the empty map.
Decode(data) == IF data = NoData THEN EmptyKv ELSE data

\* Step 2, second half: the key-value state is replaced.
RestoreSnapshot ==
    /\ pc = "restore" /\ pc' = Stage("append", rd)
    /\ kv' = Decode(rd.snap.data)
    /\ set_applied_index(rd.snap.index)
    /\ UNCHANGED <<rd, batch, callbacks, coreVars, worldVars>>

\* Step 3
AppendEntries ==
    /\ pc = "append" /\ pc' = Stage("hardstate", rd)
    /\ append(rd.base, rd.ents)
    /\ UNCHANGED <<rd, batch, kv, callbacks, coreVars, worldVars>>

\* Step 4
PersistHardState ==
    /\ pc = "hardstate" /\ pc' = "persisted"
    /\ set_hardstate(rd.hs)
    /\ UNCHANGED <<rd, batch, kv, callbacks, coreVars, worldVars>>

\* Mutant: the messages go out before the hard state has been flushed.
SendPersisted_Mutant ==
    /\ pc = "persisted" /\ pc' = "apply"
    /\ sent' = sent \cup rd.persisted_msgs
    /\ batch' = rd.committed
    /\ UNCHANGED <<storageVars, rd, kv, callbacks, coreVars, answers, ldrLog,
                   chosen, won, crashes>>

\* Step 5
SendPersisted ==
    /\ pc = "persisted" /\ ~busy /\ pc' = "apply"
    /\ sent' = sent \cup rd.persisted_msgs
    /\ batch' = rd.committed
    /\ UNCHANGED <<storageVars, rd, kv, callbacks, coreVars, answers, ldrLog,
                   chosen, won, crashes>>

\* Mutant: the loop over the entries does not get past an empty one.
ApplyEntry_Mutant ==
    LET index == batch[1].index
        cmd == batch[1].entry.payload
    IN  /\ pc \in {"apply", "light"} /\ ~busy /\ batch # << >> /\ cmd # Empty
        /\ batch' = Tail(batch)
        /\ kv' = [kv EXCEPT ![cmd.key] = cmd.id]
        /\ callbacks' = callbacks \ {cmd.id}
        /\ answers' = IF cmd.id \in callbacks
                      THEN [answers EXCEPT ![cmd.id] = "ok"] ELSE answers
        /\ set_applied_index(index)
        /\ UNCHANGED <<pc, rd, coreVars, sent, ldrLog, chosen, won, crashes>>

\* Steps 6 and 8: one committed entry.  Empty entries are passed over; a PUT
\* goes into the map, its callback (if it is this server's) is answered, and
\* the applied index is stored.
ApplyEntry ==
    LET index == batch[1].index
        cmd == batch[1].entry.payload
    IN  /\ pc \in {"apply", "light"} /\ ~busy /\ batch # << >>
        /\ batch' = Tail(batch)
        /\ IF cmd = Empty
           THEN UNCHANGED <<storageVars, kv, callbacks, answers>>
           ELSE /\ kv' = [kv EXCEPT ![cmd.key] = cmd.id]
                /\ callbacks' = callbacks \ {cmd.id}
                /\ answers' = IF cmd.id \in callbacks
                              THEN [answers EXCEPT ![cmd.id] = "ok"] ELSE answers
                /\ set_applied_index(index)
        /\ UNCHANGED <<pc, rd, coreVars, sent, ldrLog, chosen, won, crashes>>

\* Mutant: the committed entries of the LightReady are dropped.
Advance_Mutant ==
    LET top == Greater(persisted, rd.base + Len(rd.ents))
        commit == IF role = "Leader" /\ Peers = {} /\ term(view, top) = hs.term
                  THEN Greater(hs.commit, top) ELSE hs.commit
        deliver == NextEntries(Lesser(commit, top), view, since)
    IN  /\ pc = "apply" /\ ~busy /\ batch = << >> /\ pc' = "light"
        /\ unstable' = << >> /\ offset' = offset + Len(unstable)
        /\ persisted' = top
        /\ hs' = [hs EXCEPT !.commit = commit] /\ prev_hs' = hs'
        /\ since' = LastOf(deliver, since)
        /\ Choose(hs.term, IF commit > hs.commit THEN ldrLog[hs.term] ELSE << >>, commit)
        /\ UNCHANGED <<storageVars, rd, batch, kv, callbacks, role, usnap, msgs,
                       sent, answers, ldrLog, won, crashes>>

\* Step 8: RawNode::advance.  What the Ready carried is now stable; a single
\* voter commits by storing.  The commit index of the LightReady is logged,
\* not stored, and raft-rs does not hand it out again.
Advance ==
    LET stored == IF rd.ents # << >> THEN rd.base + Len(rd.ents)
                  ELSE IF rd.snap # NoSnapshot THEN rd.snap.index ELSE 0
        top == Greater(persisted, stored)
        commit == IF role = "Leader" /\ Peers = {} /\ term(view, top) = hs.term
                  THEN Greater(hs.commit, top) ELSE hs.commit
        deliver == NextEntries(Lesser(commit, top), view, since)
    IN  /\ pc = "apply" /\ ~busy /\ batch = << >> /\ pc' = "light"
        /\ unstable' = << >> /\ offset' = offset + Len(unstable)
        /\ usnap' = NoSnapshot
        /\ persisted' = top
        /\ hs' = [hs EXCEPT !.commit = commit] /\ prev_hs' = hs'
        /\ since' = LastOf(deliver, since)
        /\ batch' = deliver
        /\ Choose(hs.term, IF commit > hs.commit THEN ldrLog[hs.term] ELSE << >>, commit)
        /\ UNCHANGED <<storageVars, rd, kv, callbacks, role, msgs, sent, answers,
                       ldrLog, won, crashes>>

ReadyDone ==
    /\ pc = "light" /\ ~busy /\ batch = << >> /\ pc' = "input"
    /\ rd' = NoReady
    /\ UNCHANGED <<storageVars, batch, kv, callbacks, coreVars, worldVars>>

----------------------------------------------------------------------------
(* Start, shutdown, crash.                                                 *)

Running == pc \notin {"open", "new", "panicked", "stopped"}

\* The memory of a process that has not built its RaftNode yet.
FreshMemory ==
    /\ rd' = NoReady /\ batch' = << >> /\ kv' = EmptyKv /\ callbacks' = {}
    /\ hs' = NoHardState /\ prev_hs' = NoHardState /\ role' = "Follower"
    /\ unstable' = << >> /\ offset' = 1 /\ usnap' = NoSnapshot
    /\ persisted' = 0 /\ since' = 0 /\ msgs' = {}

\* The senders in the callback map are dropped with the loop: the waiting
\* requests fail.
DropCallbacks ==
    answers' = [id \in Ids |-> IF id \in callbacks THEN "dropped" ELSE answers[id]]

\* The shutdown signal, or a closed channel.
Shutdown ==
    /\ pc = "input" /\ pc' = "stopped"
    /\ FreshMemory /\ DropCallbacks
    /\ UNCHANGED <<storageVars, sent, ldrLog, chosen, won, crashes>>

\* The process dies at any point, or a storage error ends the loop; then it
\* is started again.
Crash ==
    /\ crashes < MaxCrashes /\ crashes' = crashes + 1
    /\ pc' = "open"
    /\ Reopen
    /\ FreshMemory /\ DropCallbacks
    /\ UNCHANGED <<sent, ldrLog, chosen, won>>

\* RaftStorage::initialize_with_conf_state: a store without voters is given
\* the configuration with a snapshot at index 0.
InitializeConf ==
    /\ pc = "open" /\ pc' = "new"
    /\ IF view.conf = NoConf
       THEN apply_snapshot([index |-> 0, term |-> 0, conf |-> Voters, data |-> NoData])
       ELSE UNCHANGED storageVars
    /\ UNCHANGED <<rd, batch, kv, callbacks, coreVars, worldVars>>

\* Mutant: Config::applied is taken from the store, the map still starts
\* empty.
NewRaftNode_MutantApplied ==
    /\ pc = "new" /\ ~busy /\ Loadable(view) /\ pc' = "input"
    /\ hs' = view.hs /\ prev_hs' = hs'
    /\ offset' = last_index(view) + 1 /\ persisted' = last_index(view)
    /\ since' = view.applied
    /\ UNCHANGED <<storageVars, rd, batch, kv, callbacks, role, unstable, usnap,
                   msgs, worldVars>>

\* Mutant: the last stored index is taken for the first free one.
NewRaftNode_MutantLast ==
    /\ pc = "new" /\ ~busy /\ Loadable(view) /\ pc' = "input"
    /\ hs' = view.hs /\ prev_hs' = hs'
    /\ offset' = last_index(view) /\ persisted' = last_index(view) - 1
    /\ UNCHANGED <<storageVars, rd, batch, kv, callbacks, role, unstable, usnap,
                   since, msgs, worldVars>>

\* RaftNode::new: the core loads the hard state or panics.  Config::applied
\* is left at 0, and the key-value node starts empty.
NewRaftNode ==
    LET commit == IF view.hs = NoHardState THEN first_index(view) - 1
                  ELSE view.hs.commit
    IN  /\ pc = "new" /\ ~busy
        /\ IF Loadable(view)
           THEN /\ pc' = "input"
                /\ hs' = [view.hs EXCEPT !.commit = commit]
                /\ prev_hs' = hs'
                /\ offset' = last_index(view) + 1
                /\ persisted' = last_index(view)
           ELSE /\ pc' = "panicked"
                /\ UNCHANGED <<hs, prev_hs, offset, persisted>>
        /\ UNCHANGED <<storageVars, rd, batch, kv, callbacks, role, unstable,
                       usnap, since, msgs, worldVars>>

Init ==
    /\ StorageInit
    /\ pc = "open" /\ rd = NoReady /\ batch = << >> /\ kv = EmptyKv
    /\ callbacks = {}
    /\ hs = NoHardState /\ prev_hs = NoHardState /\ role = "Follower"
    /\ unstable = << >> /\ offset = 1 /\ usnap = NoSnapshot
    /\ persisted = 0 /\ since = 0 /\ msgs = {}
    /\ sent = {} /\ answers = [id \in Ids |-> "none"]
    /\ ldrLog = [t \in 0..MaxTerm |-> << >>] /\ chosen = << >>
    /\ won = {} /\ crashes = 0

HandleCommand ==
    /\ pc = "input"
    /\ \/ \E key \in Keys, id \in Ids : RpcPut(key, id) \/ UserPut(key, id)
       \/ UserCampaign

Appendable == {<< >>} \cup {<<e>> : e \in [term : 1..MaxTerm, payload : Payload]}

HandleRaftMessage ==
    /\ pc = "input"
    /\ \/ StepPreVotesWon
       \/ StepVotesWon
       \/ \E t \in 1..MaxTerm :
            \/ \E c \in Peers : StepVoteRequest(t, c)
            \/ StepHigherTerm(t)
            \/ /\ OtherLeads(t)
               /\ \E prev \in hs.commit..CoreLast, es \in Appendable,
                     c \in hs.commit..MaxIndex :
                        StepAppend(t, prev, es, c)
            \/ \E c \in hs.commit..MaxIndex : StepHeartbeat(t, c)
            \/ /\ Snapshots /\ OtherLeads(t)
               /\ \E n \in 1..MaxIndex :
                    \E f \in [1..n -> [term : 1..MaxTerm, payload : Payload]] :
                        StepSnapshot(t, f)
       \/ \E c \in 1..MaxIndex : StepAppendResponse(c)

ProcessReady ==
    \/ NothingReady \/ TakeReady \/ StoreSnapshot \/ RestoreSnapshot
    \/ AppendEntries \/ PersistHardState \/ SendPersisted \/ ApplyEntry
    \/ Advance \/ ReadyDone

Storage == StorageStep /\ UNCHANGED <<loopVars, coreVars, worldVars>>

Start == InitializeConf \/ NewRaftNode

Next ==
    \/ HandleCommand \/ HandleRaftMessage \/ InputNothing \/ Tick
    \/ ProcessReady \/ Storage \/ Start \/ Shutdown \/ Crash

\* The loop thread keeps running: a storage call proceeds to its return, and
\* no step of the loop waits for anything but such a call.
Fairness ==
    /\ WF_vars((Write \/ Flush) /\ UNCHANGED <<loopVars, coreVars, worldVars>>)
    /\ WF_vars(Start) /\ WF_vars(InputNothing) /\ WF_vars(Tick)
    /\ WF_vars(ProcessReady)

Spec == Init /\ [][Next]_vars
FairSpec == Spec /\ Fairness

----------------------------------------------------------------------------
(* Properties                                                              *)

LogFn(f) == DOMAIN f \subseteq Nat /\ f \in [DOMAIN f -> Entry]

TypeOK ==
    /\ StorageTypeOK
    /\ pc \in Pcs
    /\ \A k \in DOMAIN batch : batch[k].index \in Nat /\ batch[k].entry \in Entry
    /\ kv \in [Keys -> Ids \cup OtherIds \cup {NoValue}]
    /\ callbacks \subseteq Ids
    /\ hs \in HardState /\ prev_hs \in HardState /\ rd.hs \in HardState
    /\ role \in Roles
    /\ unstable \in Seq(Entry) /\ offset \in Nat /\ rd.ents \in Seq(Entry)
    /\ usnap \in Snapshot \cup {NoSnapshot} /\ rd.snap \in Snapshot \cup {NoSnapshot}
    /\ persisted \in Nat /\ since \in Nat
    /\ msgs \subseteq Promise /\ sent \subseteq Promise
    /\ rd.msgs \subseteq Promise /\ rd.persisted_msgs \subseteq Promise
    /\ answers \in [Ids -> Replies]
    /\ DOMAIN ldrLog = 0..MaxTerm /\ \A t \in 0..MaxTerm : LogFn(ldrLog[t])
    /\ won \subseteq 1..MaxTerm
    /\ crashes \in 0..MaxCrashes

Covers(h, m) == h.term > m.term \/ (h.term = m.term /\ h.vote = m.arg)

\* Whatever this server has told another about its vote or its leadership is
\* on disk for good: a crash at any later point, and any number of restarts,
\* cannot make it vote for someone else in that term.  process_ready stores
\* the hard state before it sends the messages of a follower or a candidate,
\* and sends only a leader's before.
VotesDurable ==
    \A m \in sent : m.type \in {"vote", "lead"} => Covers(disk.hs, m)

\* No two messages of this server, however many crashes lie between them,
\* give its vote in one term to two candidates, its own candidacy and its
\* leadership included.  The election of a single leader per term rests on
\* it, and it holds across restarts only because the hard state is flushed
\* before process_ready sends what it promises, and RaftNode::new resumes
\* with it.
OneVotePerTerm ==
    \A m, n \in sent :
        m.type \in {"vote", "lead"} /\ n.type \in {"vote", "lead"} /\ m.term = n.term
            => m.arg = n.arg

\* The leader of t has an entry at i that a later leader is known to lack, so
\* that it cannot have been chosen in t nor be chosen later.
Superseded(t, i) ==
    \E u \in (t + 1)..MaxTerm :
        /\ i \in DOMAIN ldrLog[u] \cap DOMAIN ldrLog[t]
        /\ ldrLog[u][i] # ldrLog[t][i]

\* What this server has acknowledged to a leader is on disk for good: the
\* term, and every entry as that leader has it, until a snapshot covers it or
\* a later leader has put another one in its place.  Entries are stored before
\* the acknowledgement is sent, and neither a crash nor the replay after it
\* loses or changes them.
AcksDurable ==
    \A m \in sent :
        m.type = "ack" =>
            /\ disk.hs.term >= m.term
            /\ \A i \in 1..m.arg :
                  \/ HasSnapshot(disk) /\ i <= disk.snap.index
                  \/ /\ i \in DOMAIN disk.entries \cap DOMAIN ldrLog[m.term]
                     /\ disk.entries[i] = ldrLog[m.term][i]
                  \/ Superseded(m.term, i)

\* At every instant the store on disk is one the core can be restarted from:
\* entries are stored before the hard state whose commit index they carry.
Restartable == Loadable(disk)

\* Index of the last committed entry the loop is done with.
AppliedUpTo ==
    IF batch # << >> THEN batch[1].index - 1
    ELSE IF pc \in {"snapshot", "restore", "append", "hardstate", "persisted"}
            /\ rd.committed # << >>
    THEN rd.committed[1].index - 1
    ELSE since

\* The chosen entries up to n.
ChosenUpTo(n) == [i \in {j \in DOMAIN chosen : j <= n} |-> chosen[i].entry]

\* The map is what the chosen entries up to the last applied one make it, in
\* log order and without a gap, also while a restarted server applies them
\* all again to an empty map.
KvIsReplay ==
    Running => /\ 1..AppliedUpTo \subseteq DOMAIN chosen
               /\ \A k \in Keys : kv[k] = LastPut(ChosenUpTo(AppliedUpTo), k)

\* A PUT that was answered with success has been chosen, so no later leader
\* lacks it: the callback runs when the entry is applied and not before, and
\* for the entry of its own request.
AnsweredIsChosen ==
    \A id \in Ids :
        answers[id] = "ok" =>
            \E i \in DOMAIN chosen :
                chosen[i].entry.payload \in [key : Keys, id : {id}]

\* Whatever the core has committed and kept is applied, however inputs,
\* ticks and storage calls interleave.
CommittedIsApplied ==
    \A n \in 1..MaxIndex :
        (Running /\ hs.commit >= n) ~> (~Running \/ AppliedUpTo >= n)
=============================================================================
