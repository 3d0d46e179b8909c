---------------------------- MODULE SmartClient ----------------------------
(***************************************************************************)
(* The smart client (raft-client/src/main.rs), the gRPC service it calls   *)
(* (raft-server/src/server.rs) and the bridge between the service and the  *)
(* Raft loop: the command channel and the oneshot callback of a PUT.       *)
(*                                                                         *)
(* A PUT makes up to Attempts requests, each of its own.  A request is     *)
(* queued in the command channel of a server, refused there or proposed,   *)
(* and answered when its entry is applied.  The Raft cluster is external   *)
(* here and reduced to what requests can tell: the chosen log, and for     *)
(* each server what its own log holds after the chosen part.  A leader     *)
(* that has been replaced and has not heard of it still accepts requests   *)
(* (check_quorum is off).                                                  *)
(*                                                                         *)
(* GET changes nothing, neither at the server that answers it from its     *)
(* local map nor at the client; GetServers says who would answer one.      *)
(***************************************************************************)
EXTENDS Integers, Sequences, FiniteSets

CONSTANTS
    Servers,        \* node ids
    RaftPort,       \* the peer port of each server
    Attempts,       \* attempts of one PUT (5 in the code)
    MaxPuts, MaxElections, MaxCrashes,
    MaxBreaks       \* bound on connections that break while the server lives

Port == 0..65535   \* u16; 0 stands for no address

ASSUME ClientConstants ==
    /\ Servers \subseteq Nat \ {0} /\ IsFiniteSet(Servers)
    /\ RaftPort \in [Servers -> Port \ {0}]
    /\ Attempts \in Nat /\ MaxPuts \in Nat
    /\ MaxElections \in Nat /\ MaxCrashes \in Nat
    /\ MaxBreaks \in Nat

VARIABLES
    \* the client
    cpc,           \* "idle", "connect" or "call"
    put,           \* the PUT being made: PUTs are numbered as they are issued
    attempt,
    leader_addr,   \* the hint: a port, or NoAddr
    at,            \* the server called
    reply,         \* what has come back from it
    result,        \* what the user was told of each PUT
    \* the servers
    up,
    cmds,          \* command channels
    callbacks,     \* requests with a sender in RaftNode::callbacks
    leader_id,     \* the leader each server knows, 0 for none
    \* the cluster
    leads,         \* the server elected last, 0 before
    tail,          \* entries of each server's log after the chosen ones
    log,           \* the chosen requests
    elections, crashes,
    broken         \* connections that failed while their server lived

clientVars == <<cpc, put, attempt, leader_addr, at, reply, result>>
serverVars == <<up, cmds, callbacks, leader_id>>
clusterVars == <<leads, tail, log>>
faultVars == <<elections, crashes, broken>>
vars == <<clientVars, serverVars, clusterVars, faultVars>>

NoAddr == 0
NoReply == [kind |-> "none", addr |-> NoAddr]
Failed == [kind |-> "failed", addr |-> NoAddr]
NotLeader(addr) == [kind |-> "not_leader", addr |-> addr]
Applied == [kind |-> "ok", addr |-> NoAddr]

Requests == (1..MaxPuts) \X (0..(Attempts - 1))
Chosen == {log[i] : i \in DOMAIN log}

\* Ports wrap around (in a release build).
Plus1000(port) == (port + 1000) % 65536

\* spawn_grpc_server: where a server listens, and the map it redirects by.
GrpcPort(s) == Plus1000(RaftPort[s])
peers_map(s) == Plus1000(RaftPort[s])

----------------------------------------------------------------------------
(* The client                                                              *)

\* Mutant: the next PUT does not wait for the one before.
StartPut_Mutant ==
    /\ cpc \in {"idle", "call"} /\ reply = NoReply /\ put < MaxPuts
    /\ put' = put + 1 /\ attempt' = 0 /\ cpc' = "connect"
    /\ UNCHANGED <<leader_addr, at, reply, result, serverVars, clusterVars,
                   faultVars>>

StartPut ==
    /\ cpc = "idle" /\ put < MaxPuts
    /\ put' = put + 1 /\ attempt' = 0 /\ cpc' = "connect"
    /\ UNCHANGED <<leader_addr, at, reply, result, serverVars, clusterVars,
                   faultVars>>

Return(outcome) ==
    /\ cpc' = "idle" /\ at' = 0
    /\ result' = [result EXCEPT ![put] = outcome]
    /\ UNCHANGED <<put, leader_addr, attempt>>

Retry(hint) ==
    /\ cpc' = "connect" /\ at' = 0
    /\ leader_addr' = hint /\ attempt' = attempt + 1
    /\ UNCHANGED <<put, result>>

\* The hint if there is one, else any of the peers named at start.
get_target_addr ==
    IF leader_addr # NoAddr THEN {leader_addr} ELSE {GrpcPort(s) : s \in Servers}

Listening(addr) == {s \in Servers : up[s] /\ GrpcPort(s) = addr}

\* Who would answer a GET made now: it has one attempt, takes the hint as it
\* stands and leaves it as it is when nobody answers there.
GetServers == UNION {Listening(addr) : addr \in get_target_addr}

\* Connected: RaftKvService::put queues the request and waits.
Connect ==
    /\ cpc = "connect" /\ attempt < Attempts
    /\ \E addr \in get_target_addr :
        \/ \E s \in Listening(addr) :
            /\ cpc' = "call" /\ at' = s
            /\ cmds' = [cmds EXCEPT ![s] = Append(@, <<put, attempt>>)]
            /\ UNCHANGED <<put, attempt, leader_addr, result, broken>>
        \/ /\ Listening(addr) = {} \/ broken < MaxBreaks
           /\ broken' = IF Listening(addr) = {} THEN broken ELSE broken + 1
           /\ Retry(NoAddr)
           /\ UNCHANGED cmds
    /\ UNCHANGED <<reply, up, callbacks, leader_id, clusterVars, elections, crashes>>

\* Mutant: goes on when the attempts are used up.
GiveUp_Mutant ==
    /\ cpc = "connect" /\ attempt = Attempts
    /\ Retry(NoAddr)
    /\ UNCHANGED <<reply, serverVars, clusterVars, faultVars>>

GiveUp ==
    /\ cpc = "connect" /\ attempt = Attempts
    /\ Return("error")
    /\ UNCHANGED <<reply, serverVars, clusterVars, faultVars>>

\* Where a redirect leads.  The client takes the address in the reply for a
\* Raft address and adds 1000 to its port.
Redirect(addr) == IF addr = NoAddr THEN NoAddr ELSE Plus1000(addr)

ReceiveReply ==
    /\ cpc = "call" /\ reply # NoReply
    /\ reply' = NoReply
    /\ IF reply = Applied THEN Return("success") ELSE Retry(Redirect(reply.addr))
    /\ UNCHANGED <<serverVars, clusterVars, faultVars>>

\* The connection breaks; the request stays with the server.
Disconnect ==
    /\ broken < MaxBreaks /\ broken' = broken + 1
    /\ cpc = "call" /\ reply = NoReply
    /\ reply' = Failed
    /\ UNCHANGED <<cpc, put, attempt, leader_addr, at, result, serverVars,
                   clusterVars, elections, crashes>>

----------------------------------------------------------------------------
(* A server                                                                *)

\* The handler task of request r at s gets its answer; it is passed on if
\* the client is still waiting for it.
Respond(s, r, answer) ==
    reply' = IF cpc = "call" /\ at = s /\ r = <<put, attempt>> /\ reply = NoReply
             THEN answer ELSE reply

\* Mutant: success is reported when the request is proposed.
HandlePut_MutantEarly(s) ==
    LET r == Head(cmds[s]) IN
    /\ up[s] /\ cmds[s] # << >> /\ leader_id[s] = s
    /\ cmds' = [cmds EXCEPT ![s] = Tail(@)]
    /\ tail' = [tail EXCEPT ![s] = Append(@, r)]
    /\ Respond(s, r, Applied)
    /\ UNCHANGED <<cpc, put, attempt, leader_addr, at, result, up, callbacks,
                   leader_id, leads, log, faultVars>>

\* Mutant: the request is proposed and stays in the channel.
HandlePut_MutantPeek(s) ==
    LET r == Head(cmds[s]) IN
    /\ up[s] /\ cmds[s] # << >> /\ leader_id[s] = s /\ Len(tail[s]) < 2
    /\ callbacks' = [callbacks EXCEPT ![s] = @ \cup {r}]
    /\ tail' = [tail EXCEPT ![s] = Append(@, r)]
    /\ UNCHANGED <<reply, cpc, put, attempt, leader_addr, at, result, up, cmds,
                   leader_id, leads, log, faultVars>>

\* CommandHandler: refused with the leader's address, or proposed.
HandlePut(s) ==
    LET r == Head(cmds[s]) IN
    /\ up[s] /\ cmds[s] # << >>
    /\ cmds' = [cmds EXCEPT ![s] = Tail(@)]
    /\ \/ /\ leader_id[s] # s
          /\ Respond(s, r, NotLeader(IF leader_id[s] \in Servers
                                     THEN peers_map(leader_id[s]) ELSE NoAddr))
          /\ UNCHANGED <<callbacks, tail>>
       \/ /\ leader_id[s] = s
          /\ callbacks' = [callbacks EXCEPT ![s] = @ \cup {r}]
          /\ tail' = [tail EXCEPT ![s] = Append(@, r)]
          /\ UNCHANGED reply
    /\ UNCHANGED <<cpc, put, attempt, leader_addr, at, result, up, leader_id,
                   leads, log, faultVars>>

\* EntryApplicator: s applies the entry of r and finds its callback.
Apply(s, r) ==
    /\ up[s] /\ r \in callbacks[s] /\ r \in Chosen
    /\ callbacks' = [callbacks EXCEPT ![s] = @ \ {r}]
    /\ Respond(s, r, Applied)
    /\ UNCHANGED <<cpc, put, attempt, leader_addr, at, result, up, cmds,
                   leader_id, clusterVars, faultVars>>

\* The process dies: queued commands and callbacks are gone, its log is not.
Crash(s) ==
    /\ up[s] /\ crashes < MaxCrashes /\ crashes' = crashes + 1
    /\ up' = [up EXCEPT ![s] = FALSE]
    /\ cmds' = [cmds EXCEPT ![s] = << >>]
    /\ callbacks' = [callbacks EXCEPT ![s] = {}]
    /\ leader_id' = [leader_id EXCEPT ![s] = 0]
    /\ reply' = IF cpc = "call" /\ at = s /\ reply = NoReply THEN Failed ELSE reply
    /\ UNCHANGED <<cpc, put, attempt, leader_addr, at, result, clusterVars,
                   elections, broken>>

Restart(s) ==
    /\ ~up[s]
    /\ up' = [up EXCEPT ![s] = TRUE]
    /\ UNCHANGED <<clientVars, cmds, callbacks, leader_id, clusterVars,
                   faultVars>>

----------------------------------------------------------------------------
(* The cluster (raft-rs)                                                   *)

Leading == leads # 0 /\ up[leads] /\ leader_id[leads] = leads

\* s wins an election.  The others, an earlier leader too, learn of it later.
Elect(s) ==
    /\ up[s] /\ elections < MaxElections /\ elections' = elections + 1
    /\ Cardinality({q \in Servers : up[q]}) * 2 > Cardinality(Servers)
    /\ leads' = s
    /\ leader_id' = [leader_id EXCEPT ![s] = s]
    /\ UNCHANGED <<clientVars, up, cmds, callbacks, tail, log, crashes, broken>>

\* s hears from the leader: it knows it and takes over its log.
Follow(s) ==
    /\ Leading /\ up[s] /\ s # leads
    /\ leader_id[s] # leads \/ tail[s] # tail[leads]
    /\ leader_id' = [leader_id EXCEPT ![s] = leads]
    /\ tail' = [tail EXCEPT ![s] = tail[leads]]
    /\ UNCHANGED <<clientVars, up, cmds, callbacks, leads, log, faultVars>>

\* A quorum holds the leader's next entry: it is chosen, and what another
\* server has in its place is lost.
Choose ==
    LET e == Head(tail[leads])
        holds(s) == tail[s] # << >> /\ Head(tail[s]) = e
    IN  /\ Leading /\ tail[leads] # << >>
        /\ Cardinality({s \in Servers : holds(s)}) * 2 > Cardinality(Servers)
        /\ log' = Append(log, e)
        /\ tail' = [s \in Servers |-> IF holds(s) THEN Tail(tail[s]) ELSE << >>]
        /\ UNCHANGED <<clientVars, serverVars, leads, faultVars>>

----------------------------------------------------------------------------

Init ==
    /\ cpc = "idle" /\ put = 0 /\ attempt = 0 /\ leader_addr = NoAddr /\ at = 0
    /\ reply = NoReply /\ result = [p \in 1..MaxPuts |-> "none"]
    /\ up = [s \in Servers |-> TRUE]
    /\ cmds = [s \in Servers |-> << >>] /\ callbacks = [s \in Servers |-> {}]
    /\ leader_id = [s \in Servers |-> 0]
    /\ leads = 0 /\ tail = [s \in Servers |-> << >>] /\ log = << >>
    /\ elections = 0 /\ crashes = 0 /\ broken = 0

Client == StartPut \/ Connect \/ GiveUp \/ ReceiveReply \/ Disconnect

Next ==
    \/ Client
    \/ \E s \in Servers :
        \/ HandlePut(s) \/ Crash(s) \/ Restart(s) \/ Elect(s) \/ Follow(s)
        \/ \E r \in Requests : Apply(s, r)
    \/ Choose

\* The client and every live server keep running, a leader's messages reach
\* the live servers, and a server that died is started again (by its
\* operator).  Nothing is assumed of elections.
Fairness ==
    /\ WF_vars(Connect) /\ WF_vars(GiveUp) /\ WF_vars(ReceiveReply)
    /\ WF_vars(Choose)
    /\ \A s \in Servers :
        /\ WF_vars(HandlePut(s)) /\ WF_vars(Follow(s)) /\ WF_vars(Restart(s))
        /\ WF_vars(\E r \in Requests : Apply(s, r))

Spec == Init /\ [][Next]_vars
FairSpec == Spec /\ Fairness

----------------------------------------------------------------------------
(* Properties                                                              *)

TypeOK ==
    /\ cpc \in {"idle", "connect", "call"}
    /\ put \in 0..MaxPuts /\ attempt \in 0..Attempts
    /\ leader_addr \in Port /\ at \in Servers \cup {0}
    /\ reply.kind \in {"none", "failed", "not_leader", "ok"}
    /\ reply.addr \in Port
    /\ result \in [1..MaxPuts -> {"none", "success", "error"}]
    /\ up \in [Servers -> BOOLEAN]
    /\ cmds \in [Servers -> Seq(Requests)]
    /\ callbacks \in [Servers -> SUBSET Requests]
    /\ leader_id \in [Servers -> Servers \cup {0}]
    /\ leads \in Servers \cup {0}
    /\ tail \in [Servers -> Seq(Requests)] /\ log \in Seq(Requests)
    /\ elections \in 0..MaxElections /\ crashes \in 0..MaxCrashes
    /\ broken \in 0..MaxBreaks

\* "PUT Success" means that the write is in the chosen log, whatever became
\* of earlier attempts, of the servers that took them and of replies that
\* came too late: App::put returns Ok for the request it is waiting for only.
SuccessIsChosen ==
    \A p \in 1..MaxPuts :
        result[p] = "success" => \E r \in Chosen : r[1] = p

\* The writes of one client take effect in the order it issued them, although
\* an attempt that failed may be chosen later and a PUT more than once: a
\* new request is made only when the one before has been answered or its
\* server has died with it.  Only a connection that breaks while its server
\* lives leaves the old request in the command channel behind a later one.
WritesInOrder ==
    broken = 0 => \A i, j \in DOMAIN log : i < j => log[i][1] <= log[j][1]

\* No attempt is written twice: a request is proposed once, and what is
\* chosen of it is dropped from every other log.
AttemptOnce ==
    \A i, j \in DOMAIN log : log[i] = log[j] => i = j

\* Every PUT call comes back to the user, with a success or an error.
PutReturns ==
    \A p \in 1..MaxPuts :
        (put = p /\ cpc # "idle") ~> (put > p \/ cpc = "idle")

\* "GET requests can be served by any node" (src/README.md): whenever the
\* user may type a GET and some server is up, one of the addresses it may be
\* sent to has a server.
GetIsServed ==
    cpc = "idle" /\ (\E s \in Servers : up[s]) => GetServers # {}
=============================================================================
