------------------------- MODULE SmartClientProofs -------------------------
(***************************************************************************)
(* What a client can rely on, for any number of servers, attempts, PUTs,   *)
(* elections, crashes and broken connections.                              *)
(*                                                                         *)
(* Inv follows a request on its way: it is issued, waits in one command    *)
(* channel, is in the logs of some servers, and is chosen.  A step moves   *)
(* it on and never back, so it is chosen once (OnceEach).  As long as no   *)
(* connection has broken, the only request still in a channel is the one   *)
(* the client waits for, which is newer than all others (InOrder).         *)
(***************************************************************************)
EXTENDS SmartClient, SequenceTheorems, TLAPS

Answers == {NoReply, Failed, Applied} \cup {NotLeader(a) : a \in Port}

\* Requests the client has made.
Issued(r) ==
    \/ r[1] < put
    \/ r[1] = put /\ (r[2] < attempt \/ (r[2] = attempt /\ cpc # "connect"))

Waiting ==
    /\ reply \in Answers
    /\ cpc # "idle" => put \in 1..MaxPuts
    /\ cpc = "call" => attempt < Attempts
    /\ reply # NoReply => cpc = "call"
    /\ reply = Applied => \E i \in DOMAIN log : log[i][1] = put

OnceEach ==
    /\ \A s \in Servers : \A i \in DOMAIN cmds[s] : Issued(cmds[s][i])
    /\ \A s \in Servers : \A i \in DOMAIN tail[s] : Issued(tail[s][i])
    /\ \A i \in DOMAIN log : Issued(log[i])
    /\ \A s, t \in Servers : \A i \in DOMAIN cmds[s], j \in DOMAIN cmds[t] :
            cmds[s][i] = cmds[t][j] => s = t /\ i = j
    /\ \A s, t \in Servers : \A i \in DOMAIN cmds[s], j \in DOMAIN tail[t] :
            cmds[s][i] # tail[t][j]
    /\ \A s \in Servers : \A i \in DOMAIN cmds[s], j \in DOMAIN log :
            cmds[s][i] # log[j]
    /\ \A s \in Servers : \A i, j \in DOMAIN tail[s] :
            tail[s][i] = tail[s][j] => i = j
    /\ \A s \in Servers : \A i \in DOMAIN tail[s], j \in DOMAIN log :
            tail[s][i] # log[j]
    /\ AttemptOnce

InOrder ==
    broken = 0 =>
        /\ \A s \in Servers : cmds[s] # << >> =>
                /\ cpc = "call" /\ at = s /\ reply = NoReply
                /\ Len(cmds[s]) = 1 /\ cmds[s][1] = <<put, attempt>>
        /\ \A s \in Servers : \A i, j \in DOMAIN tail[s] :
                i < j => tail[s][i][1] <= tail[s][j][1]
        /\ \A s \in Servers : \A i \in DOMAIN log, j \in DOMAIN tail[s] :
                log[i][1] <= tail[s][j][1]
        /\ WritesInOrder

Inv == TypeOK /\ Waiting /\ SuccessIsChosen /\ OnceEach /\ InOrder

----------------------------------------------------------------------------
(* Ports and replies                                                       *)

\* Adding 1000 to a u16 port gives one.
LEMMA PortsWrap == \A p \in Port : Plus1000(p) \in Port
  <1> DEFINE w == 65536
  <1>1. w \in Nat /\ w > 0 /\ Port = 0..(w - 1) /\ \A p : Plus1000(p) = (p + 1000) % w
    BY DEF Plus1000, Port
  <1> HIDE DEF w
  <1>2. \A n \in Nat : n % w \in 0..(w - 1)
    BY <1>1
  <1>3. \A p \in Port : p + 1000 \in Nat
    BY <1>1
  <1>4. ASSUME NEW p \in Port PROVE Plus1000(p) \in Port
    <2>1. (p + 1000) % w \in 0..(w - 1)
      BY <1>2, <1>3
    <2>2. Plus1000(p) = (p + 1000) % w
      BY <1>1
    <2> QED BY <1>1, <2>1, <2>2
  <1> QED BY <1>4

\* So is the address that stands for none.
LEMMA NoAddrIsPort == NoAddr \in Port
  BY SMT DEF NoAddr, Port

\* The client turns every hint into a port.
LEMMA RedirectIsPort == \A a \in Port : Redirect(a) \in Port
  BY PortsWrap, NoAddrIsPort DEF Redirect

\* The ports of a server are ports.
LEMMA ServerPorts ==
    \A s \in Servers : GrpcPort(s) \in Port /\ peers_map(s) \in Port
  BY PortsWrap, ClientConstants DEF GrpcPort, peers_map

\* The answers a service gives, and that they differ.
LEMMA AnswerFields ==
    /\ \A a \in Answers : /\ a.kind \in {"none", "failed", "not_leader", "ok"}
                          /\ a.addr \in Port
    /\ \A a \in Port : NotLeader(a) \in Answers /\ NotLeader(a) # NoReply
                           /\ NotLeader(a) # Applied
    /\ NoReply # Failed /\ NoReply # Applied /\ Failed # Applied
  <1>1. NoReply # Failed /\ NoReply # Applied /\ Failed # Applied
    BY DEF NoReply, Failed, Applied
  <1>2. \A a \in {NoReply, Failed, Applied} : /\ a.kind \in {"none", "failed", "ok"}
                                             /\ a.addr = NoAddr
    BY DEF NoReply, Failed, Applied
  <1>3. \A a \in Port : /\ NotLeader(a).kind = "not_leader" /\ NotLeader(a).addr = a
                        /\ NotLeader(a) # NoReply /\ NotLeader(a) # Applied
    BY DEF NotLeader, NoReply, Applied
  <1>4. \A a \in Answers : a \in {NoReply, Failed, Applied} \/ \E b \in Port : a = NotLeader(b)
    BY DEF Answers
  <1>5. \A a \in Port : NotLeader(a) \in Answers
    BY DEF Answers
  <1> QED BY <1>1, <1>2, <1>3, <1>4, <1>5, NoAddrIsPort

----------------------------------------------------------------------------
(* Types, and what the client waits for                                    *)

\* The initial state is typed.
LEMMA InitTypes == Init => TypeOK /\ Waiting
  BY ClientConstants, AnswerFields, NoAddrIsPort DEF Init, TypeOK, Waiting, Answers

\* An attempt keeps the types.
LEMMA ConnectTypes == TypeOK /\ Waiting /\ Connect => TypeOK' /\ Waiting'
  <1> SUFFICES ASSUME TypeOK, Waiting, Connect PROVE TypeOK' /\ Waiting'
    OBVIOUS
  <1> USE DEF TypeOK, Waiting
  <1>0. /\ cpc = "connect" /\ attempt < Attempts /\ reply = NoReply
        /\ UNCHANGED <<reply, up, callbacks, leader_id, clusterVars, elections, crashes>>
    BY AnswerFields DEF Connect
  <1>1. PICK addr \in get_target_addr :
        \/ \E s \in Listening(addr) :
            /\ cpc' = "call" /\ at' = s
            /\ cmds' = [cmds EXCEPT ![s] = Append(@, <<put, attempt>>)]
            /\ UNCHANGED <<put, attempt, leader_addr, result, broken>>
        \/ /\ Listening(addr) = {} \/ broken < MaxBreaks
           /\ broken' = IF Listening(addr) = {} THEN broken ELSE broken + 1
           /\ Retry(NoAddr)
           /\ UNCHANGED cmds
    BY DEF Connect
  <1>2. CASE \E s \in Listening(addr) :
            /\ cpc' = "call" /\ at' = s
            /\ cmds' = [cmds EXCEPT ![s] = Append(@, <<put, attempt>>)]
            /\ UNCHANGED <<put, attempt, leader_addr, result, broken>>
    <2>1. PICK s \in Servers :
            /\ cpc' = "call" /\ at' = s
            /\ cmds' = [cmds EXCEPT ![s] = Append(@, <<put, attempt>>)]
            /\ UNCHANGED <<put, attempt, leader_addr, result, broken>>
      BY <1>2 DEF Listening
    <2>2. <<put, attempt>> \in Requests
      BY <1>0, ClientConstants DEF Requests
    <2>3. cmds' \in [Servers -> Seq(Requests)]
      BY <2>1, <2>2
    <2> QED BY <1>0, <2>1, <2>3, AnswerFields DEF clusterVars
  <1>3. CASE /\ Listening(addr) = {} \/ broken < MaxBreaks
             /\ broken' = IF Listening(addr) = {} THEN broken ELSE broken + 1
             /\ Retry(NoAddr)
             /\ UNCHANGED cmds
    BY <1>0, <1>3, ClientConstants, NoAddrIsPort, AnswerFields DEF clusterVars, Retry
  <1> QED BY <1>1, <1>2, <1>3

\* So do the client's other steps,
LEMMA ClientTypes ==
    TypeOK /\ Waiting /\ (StartPut \/ GiveUp \/ ReceiveReply \/ Disconnect)
        => TypeOK' /\ Waiting'
  <1> SUFFICES ASSUME TypeOK, Waiting, StartPut \/ GiveUp \/ ReceiveReply \/ Disconnect
               PROVE  TypeOK' /\ Waiting'
    OBVIOUS
  <1> USE ClientConstants, AnswerFields
      DEF TypeOK, Waiting, serverVars, clusterVars, faultVars
  <1>1. CASE StartPut
    BY <1>1 DEF StartPut
  <1>2. CASE GiveUp
    BY <1>2 DEF GiveUp, Return
  <1>3. CASE ReceiveReply
    <2>1. /\ cpc = "call" /\ reply' = NoReply
          /\ UNCHANGED <<serverVars, clusterVars, faultVars>>
          /\ IF reply = Applied THEN Return("success") ELSE Retry(Redirect(reply.addr))
      BY <1>3 DEF ReceiveReply
    <2>2. Redirect(reply.addr) \in Port
      BY RedirectIsPort
    <2>3. NoReply \in Answers
      BY DEF Answers
    <2>4. CASE reply = Applied
      BY <2>1, <2>3, <2>4 DEF Return
    <2>5. CASE reply # Applied
      BY <2>1, <2>2, <2>3, <2>5 DEF Retry
    <2> QED BY <2>4, <2>5
  <1>4. CASE Disconnect
    BY <1>4 DEF Disconnect, Answers
  <1> QED BY <1>1, <1>2, <1>3, <1>4

\* the servers' steps and the leader changes,
LEMMA ServerTypes ==
    ASSUME TypeOK, Waiting, NEW s \in Servers,
           \/ HandlePut(s) \/ Crash(s) \/ Restart(s) \/ Elect(s) \/ Follow(s)
           \/ \E r \in Requests : Apply(s, r)
    PROVE  TypeOK' /\ Waiting'
  <1> USE ClientConstants, AnswerFields
      DEF TypeOK, Waiting, clientVars, clusterVars, faultVars
  <1>1. CASE HandlePut(s)
    <2> DEFINE r == Head(cmds[s])
               a == NotLeader(IF leader_id[s] \in Servers
                              THEN peers_map(leader_id[s]) ELSE NoAddr)
    <2>1. /\ cmds[s] # << >> /\ r \in Requests /\ Tail(cmds[s]) \in Seq(Requests)
          /\ cmds' = [cmds EXCEPT ![s] = Tail(@)]
          /\ UNCHANGED <<cpc, put, attempt, leader_addr, at, result, up, leader_id,
                         leads, log, elections, crashes, broken>>
      BY <1>1 DEF HandlePut
    <2>2. cmds' \in [Servers -> Seq(Requests)]
      BY <2>1
    <2>3. a \in Answers /\ a # Applied /\ a # NoReply
      BY ServerPorts, NoAddrIsPort
    <2>4. CASE leader_id[s] # s
      <3>1. Respond(s, r, a) /\ UNCHANGED <<callbacks, tail>>
        BY <1>1, <2>4 DEF HandlePut
      <3>2. reply' \in {reply, a} /\ (reply' = a => cpc = "call" \/ reply = a)
        BY <3>1 DEF Respond
      <3> HIDE DEF a
      <3> QED BY <2>1, <2>2, <2>3, <3>1, <3>2
    <2>5. CASE leader_id[s] = s
      <3>1. /\ callbacks' = [callbacks EXCEPT ![s] = @ \cup {r}]
            /\ tail' = [tail EXCEPT ![s] = Append(@, r)]
            /\ UNCHANGED reply
        BY <1>1, <2>5 DEF HandlePut
      <3>2. tail' \in [Servers -> Seq(Requests)] /\ callbacks' \in [Servers -> SUBSET Requests]
        BY <2>1, <3>1
      <3> QED BY <2>1, <2>2, <3>1, <3>2
    <2> QED BY <2>4, <2>5
  <1>2. CASE Crash(s)
    <2>1. reply' \in {reply, Failed} /\ (reply' = Failed => cpc = "call" \/ reply = Failed)
      BY <1>2 DEF Crash
    <2>2. cmds' \in [Servers -> Seq(Requests)] /\ callbacks' \in [Servers -> SUBSET Requests]
      BY <1>2 DEF Crash
    <2>3. Failed \in Answers
      BY DEF Answers
    <2> QED BY <1>2, <2>1, <2>2, <2>3 DEF Crash
  <1>3. CASE Restart(s)
    BY <1>3 DEF Restart
  <1>4. CASE Elect(s)
    BY <1>4 DEF Elect
  <1>5. CASE Follow(s)
    <2>1. leads \in Servers
      BY <1>5 DEF Follow, Leading
    <2> QED BY <1>5, <2>1 DEF Follow
  <1>6. CASE \E r \in Requests : Apply(s, r)
    <2>1. PICK r \in Requests : Apply(s, r)
      BY <1>6
    <2>2. /\ reply' = reply \/ /\ reply' = Applied /\ cpc = "call"
                               /\ r = <<put, attempt>>
          /\ \E i \in DOMAIN log : log[i] = r
      BY <2>1 DEF Apply, Respond, Chosen
    <2>3. Applied \in Answers
      BY DEF Answers
    <2>4. reply' = Applied => \E i \in DOMAIN log : log[i][1] = put
      BY <2>2
    <2> QED BY <2>1, <2>2, <2>3, <2>4 DEF Apply
  <1> QED BY <1>1, <1>2, <1>3, <1>4, <1>5, <1>6

\* and choosing an entry.
LEMMA ChooseTypes == TypeOK /\ Waiting /\ Choose => TypeOK' /\ Waiting'
  <1> SUFFICES ASSUME TypeOK, Waiting, Choose PROVE TypeOK' /\ Waiting'
    OBVIOUS
  <1> USE DEF TypeOK, Waiting, clientVars, serverVars, faultVars
  <1> DEFINE e == Head(tail[leads])
             holds(s) == tail[s] # << >> /\ Head(tail[s]) = e
  <1>1. /\ leads \in Servers /\ tail[leads] # << >>
        /\ log' = Append(log, e)
        /\ tail' = [s \in Servers |-> IF holds(s) THEN Tail(tail[s]) ELSE << >>]
        /\ UNCHANGED <<clientVars, serverVars, leads, faultVars>>
    BY DEF Choose, Leading
  <1>2. e \in Requests
    BY <1>1
  <1>3. log' \in Seq(Requests) /\ \A i \in DOMAIN log : i \in DOMAIN log' /\ log'[i] = log[i]
    BY <1>1, <1>2
  <1>4. tail' \in [Servers -> Seq(Requests)]
    BY <1>1
  <1> QED BY <1>1, <1>3, <1>4

\* Every step keeps the types and what the client waits for.
LEMMA TypesPreserved == TypeOK /\ Waiting /\ [Next]_vars => TypeOK' /\ Waiting'
  <1> SUFFICES ASSUME TypeOK, Waiting, [Next]_vars PROVE TypeOK' /\ Waiting'
    OBVIOUS
  <1>1. CASE Client
    BY <1>1, ConnectTypes, ClientTypes DEF Client
  <1>2. CASE Choose
    BY <1>2, ChooseTypes
  <1>3. ASSUME NEW s \in Servers,
               \/ HandlePut(s) \/ Crash(s) \/ Restart(s) \/ Elect(s) \/ Follow(s)
               \/ \E r \in Requests : Apply(s, r)
        PROVE  TypeOK' /\ Waiting'
    BY <1>3, ServerTypes
  <1>4. CASE UNCHANGED vars
    BY <1>4 DEF vars, clientVars, serverVars, clusterVars, faultVars, TypeOK, Waiting
  <1> QED BY <1>1, <1>2, <1>3, <1>4 DEF Next

----------------------------------------------------------------------------
(* What steps leave alone                                                  *)

\* A chosen entry stays.
LEMMA LogGrows ==
    TypeOK /\ Waiting /\ [Next]_vars =>
        \A i \in DOMAIN log : i \in DOMAIN log' /\ log'[i] = log[i]
  <1> SUFFICES ASSUME TypeOK, Waiting, [Next]_vars
               PROVE  \A i \in DOMAIN log : i \in DOMAIN log' /\ log'[i] = log[i]
    OBVIOUS
  <1>1. CASE Choose
    <2>1. leads \in Servers /\ tail[leads] # << >> /\ log' = Append(log, Head(tail[leads]))
      BY <1>1 DEF Choose, Leading, TypeOK
    <2>2. Head(tail[leads]) \in Requests /\ log \in Seq(Requests)
      BY <2>1 DEF TypeOK
    <2> QED BY <2>1, <2>2
  <1>2. CASE UNCHANGED log
    BY <1>2
  <1>3. Choose \/ UNCHANGED log
    BY DEF Next, vars, Client, StartPut, Connect, GiveUp, ReceiveReply, Disconnect,
           HandlePut, Crash, Restart, Elect, Follow, Apply, clusterVars
  <1> QED BY <1>1, <1>2, <1>3

\* An issued request stays issued.
LEMMA IssuedGrows ==
    TypeOK /\ Waiting /\ [Next]_vars => \A r \in Requests : Issued(r) => Issued(r)'
  <1> SUFFICES ASSUME TypeOK, Waiting, [Next]_vars, NEW r \in Requests, Issued(r)
               PROVE  Issued(r)'
    OBVIOUS
  <1>0. r[1] \in Nat /\ r[2] \in Nat /\ put \in Nat /\ attempt \in Nat
    BY ClientConstants DEF Requests, TypeOK
  <1>1. CASE StartPut
    BY <1>0, <1>1 DEF StartPut, Issued
  <1>2. CASE Connect
    BY <1>0, <1>2 DEF Connect, Retry, Issued
  <1>3. CASE GiveUp
    BY <1>0, <1>3 DEF GiveUp, Return, Issued
  <1>4. CASE ReceiveReply
    BY <1>0, <1>4 DEF ReceiveReply, Return, Retry, Issued
  <1>5. CASE UNCHANGED <<put, attempt, cpc>>
    BY <1>5 DEF Issued
  <1>6. \/ StartPut \/ Connect \/ GiveUp \/ ReceiveReply
        \/ UNCHANGED <<put, attempt, cpc>>
    BY DEF Next, vars, Client, clientVars, Disconnect, HandlePut, Crash, Restart,
           Elect, Follow, Apply, Choose
  <1> QED BY <1>1, <1>2, <1>3, <1>4, <1>5, <1>6

----------------------------------------------------------------------------
(* Success                                                                 *)

\* A success the client has seen stays chosen, and a new one is.
LEMMA SuccessPreserved ==
    TypeOK /\ Waiting /\ SuccessIsChosen /\ [Next]_vars => SuccessIsChosen'
  <1> SUFFICES ASSUME TypeOK, Waiting, SuccessIsChosen, [Next]_vars,
                      NEW p \in 1..MaxPuts, result'[p] = "success"
               PROVE  \E r \in Chosen' : r[1] = p
    BY DEF SuccessIsChosen
  <1>1. result[p] = "success" \/ (reply = Applied /\ p = put)
    <2>1. CASE GiveUp
      BY <2>1 DEF GiveUp, Return, TypeOK
    <2>2. CASE ReceiveReply
      <3>1. CASE reply = Applied
        BY <2>2, <3>1 DEF ReceiveReply, Return, TypeOK
      <3>2. CASE reply # Applied
        BY <2>2, <3>2 DEF ReceiveReply, Retry
      <3> QED BY <3>1, <3>2
    <2>3. GiveUp \/ ReceiveReply \/ UNCHANGED result
      BY DEF Next, vars, Client, clientVars, StartPut, Connect, Retry, Disconnect,
             HandlePut, Crash, Restart, Elect, Follow, Apply, Choose
    <2> QED BY <2>1, <2>2, <2>3
  <1>2. \E i \in DOMAIN log : log[i][1] = p
    BY <1>1 DEF SuccessIsChosen, Chosen, Waiting
  <1> QED BY <1>2, LogGrows DEF Chosen

----------------------------------------------------------------------------
(* Once each                                                               *)

\* Steps that move no request keep each in one place.
LEMMA OnceUnmoved ==
    ASSUME TypeOK, Waiting, OnceEach, [Next]_vars, UNCHANGED <<cmds, tail, log>>
    PROVE  OnceEach'
  <1>1. /\ \A s \in Servers : \A i \in DOMAIN cmds[s] : cmds[s][i] \in Requests
        /\ \A s \in Servers : \A i \in DOMAIN tail[s] : tail[s][i] \in Requests
        /\ \A i \in DOMAIN log : log[i] \in Requests
    BY DEF TypeOK
  <1>2. \A r \in Requests : Issued(r) => Issued(r)'
    BY IssuedGrows
  <1>3. /\ \A s \in Servers : \A i \in DOMAIN cmds[s] : Issued(cmds[s][i])'
        /\ \A s \in Servers : \A i \in DOMAIN tail[s] : Issued(tail[s][i])'
        /\ \A i \in DOMAIN log : Issued(log[i])'
    BY <1>1, <1>2 DEF OnceEach, Issued
  <1> QED BY <1>3 DEF OnceEach, AttemptOnce

\* A new attempt goes to one channel.
LEMMA OnceConnect ==
    ASSUME TypeOK, Waiting, OnceEach, Connect
    PROVE  OnceEach'
  <1>0. [Next]_vars
    BY DEF Next, Client
  <1>1. CASE UNCHANGED cmds
    BY <1>0, <1>1, OnceUnmoved DEF Connect, clusterVars
  <1>2. CASE ~UNCHANGED cmds
    <2>0. PICK r : r = <<put, attempt>>
      OBVIOUS
    <2>1. PICK s \in Servers :
            /\ cmds' = [cmds EXCEPT ![s] = Append(@, r)]
            /\ cpc = "connect" /\ attempt < Attempts /\ UNCHANGED <<tail, log>>
            /\ cpc' = "call" /\ UNCHANGED <<put, attempt>>
      BY <1>2, <2>0 DEF Connect, Listening, clusterVars
    <2>2. r \in Requests /\ ~Issued(r) /\ Issued(r)'
      BY <2>0, <2>1, ClientConstants DEF Waiting, TypeOK, Requests, Issued
    <2>3. /\ \A t \in Servers : \A i \in DOMAIN cmds[t] : cmds[t][i] \in Requests /\ cmds[t][i] # r
          /\ \A t \in Servers : \A i \in DOMAIN tail[t] : tail[t][i] \in Requests /\ tail[t][i] # r
          /\ \A i \in DOMAIN log : log[i] \in Requests /\ log[i] # r
      BY <2>2 DEF TypeOK, OnceEach
    <2>4. \A q \in Requests : Issued(q) => Issued(q)'
      BY <1>0, IssuedGrows
    <2>5. /\ cmds[s] \in Seq(Requests)
          /\ DOMAIN cmds'[s] = DOMAIN cmds[s] \cup {Len(cmds[s]) + 1}
          /\ Len(cmds[s]) + 1 \notin DOMAIN cmds[s]
          /\ \A i \in DOMAIN cmds[s] : cmds'[s][i] = cmds[s][i]
          /\ cmds'[s][Len(cmds[s]) + 1] = r
          /\ \A t \in Servers \ {s} : cmds'[t] = cmds[t]
      BY <2>1, <2>2 DEF TypeOK
    <2>6. \A t \in Servers : \A i \in DOMAIN cmds'[t] :
            \/ i \in DOMAIN cmds[t] /\ cmds'[t][i] = cmds[t][i]
            \/ t = s /\ i = Len(cmds[s]) + 1 /\ cmds'[t][i] = r
      BY <2>5
    <2>7. \A q \in Requests : (q = r \/ Issued(q)) => Issued(q)'
      BY <2>2, <2>4
    <2>71. \A t \in Servers : \A i \in DOMAIN cmds'[t] : Issued(cmds[t][i])'
      <3>1. \A t \in Servers : \A i \in DOMAIN cmds'[t] :
                cmds'[t][i] \in Requests /\ (cmds'[t][i] = r \/ Issued(cmds'[t][i]))
        BY <2>2, <2>3, <2>6 DEF OnceEach
      <3> QED BY <3>1, <2>7 DEF Issued
    <2>72. /\ \A t \in Servers : \A i \in DOMAIN tail[t] : Issued(tail[t][i])'
           /\ \A i \in DOMAIN log : Issued(log[i])'
      <3>1. /\ \A t \in Servers : \A i \in DOMAIN tail[t] : Issued(tail[t][i])
            /\ \A i \in DOMAIN log : Issued(log[i])
        BY DEF OnceEach
      <3> QED BY <3>1, <2>1, <2>3, <2>7 DEF Issued
    <2>8. \A t, u \in Servers : \A i \in DOMAIN cmds'[t], j \in DOMAIN cmds'[u] :
            cmds'[t][i] = cmds'[u][j] => t = u /\ i = j
      BY <2>3, <2>6 DEF OnceEach
    <2>9. /\ \A t, u \in Servers : \A i \in DOMAIN cmds'[t], j \in DOMAIN tail[u] :
                cmds'[t][i] # tail[u][j]
          /\ \A t \in Servers : \A i \in DOMAIN cmds'[t], j \in DOMAIN log :
                cmds'[t][i] # log[j]
      BY <2>3, <2>6 DEF OnceEach
    <2> QED BY <2>1, <2>71, <2>72, <2>8, <2>9 DEF OnceEach, AttemptOnce
  <1> QED BY <1>1, <1>2

\* A handled command leaves its channel for the log.
LEMMA OnceHandlePut ==
    ASSUME TypeOK, Waiting, OnceEach, NEW s \in Servers, HandlePut(s)
    PROVE  OnceEach'
  <1> DEFINE r == Head(cmds[s])
  <1>1. /\ cmds[s] # << >> /\ cmds' = [cmds EXCEPT ![s] = Tail(@)]
        /\ UNCHANGED <<log, cpc, put, attempt>>
        /\ \/ tail' = tail
           \/ tail' = [tail EXCEPT ![s] = Append(@, r)]
    BY DEF HandlePut
  <1>2. /\ 1 \in DOMAIN cmds[s] /\ r = cmds[s][1] /\ r \in Requests
        /\ \A i \in DOMAIN Tail(cmds[s]) :
             i + 1 \in DOMAIN cmds[s] /\ i + 1 # 1 /\ Tail(cmds[s])[i] = cmds[s][i + 1]
        /\ \A i \in DOMAIN Tail(cmds[s]) : i \in Int
    BY <1>1 DEF TypeOK
  <1>3. \A t \in Servers : \A i \in DOMAIN cmds'[t] :
            \E k \in DOMAIN cmds[t] : /\ cmds'[t][i] = cmds[t][k] /\ cmds[t][k] # r
                                      /\ k = IF t = s THEN i + 1 ELSE i
                                      /\ t = s => i \in Int
    <2>1. CASE TRUE
      <3> SUFFICES ASSUME NEW t \in Servers, NEW i \in DOMAIN cmds'[t]
                   PROVE  \E k \in DOMAIN cmds[t] :
                            /\ cmds'[t][i] = cmds[t][k] /\ cmds[t][k] # r
                            /\ k = IF t = s THEN i + 1 ELSE i
                            /\ t = s => i \in Int
        OBVIOUS
      <3>1. CASE t = s
        <4>1. cmds'[t] = Tail(cmds[s])
          BY <1>1, <3>1 DEF TypeOK
        <4>2. cmds[s][i + 1] # r
          BY <1>2, <3>1, <4>1 DEF OnceEach
        <4> QED BY <1>2, <3>1, <4>1, <4>2
      <3>2. CASE t # s
        <4>1. cmds'[t] = cmds[t]
          BY <1>1, <3>2 DEF TypeOK
        <4>2. cmds[t][i] # r
          BY <1>2, <3>2, <4>1 DEF OnceEach
        <4> QED BY <3>2, <4>1, <4>2
      <3> QED BY <3>1, <3>2
    <2> QED BY <2>1
  <1>4. \A t \in Servers : \A i \in DOMAIN tail'[t] :
            \/ i \in DOMAIN tail[t] /\ tail'[t][i] = tail[t][i]
            \/ t = s /\ i = Len(tail[s]) + 1 /\ tail'[t][i] = r
    <2> SUFFICES ASSUME NEW t \in Servers, NEW i \in DOMAIN tail'[t]
                 PROVE  \/ i \in DOMAIN tail[t] /\ tail'[t][i] = tail[t][i]
                        \/ t = s /\ i = Len(tail[s]) + 1 /\ tail'[t][i] = r
      OBVIOUS
    <2>1. CASE tail'[t] = tail[t]
      BY <2>1
    <2>2. CASE t = s /\ tail'[s] = Append(tail[s], r)
      <3>1. tail[s] \in Seq(Requests)
        BY DEF TypeOK
      <3> QED BY <1>2, <2>2, <3>1
    <2>3. tail'[t] = tail[t] \/ (t = s /\ tail'[s] = Append(tail[s], r))
      BY <1>1 DEF TypeOK
    <2> QED BY <2>1, <2>2, <2>3
  <1>5. /\ \A t \in Servers : \A i \in DOMAIN tail[t] : tail[t][i] # r
        /\ \A i \in DOMAIN log : log[i] # r
    BY <1>2 DEF OnceEach
  <1>6. /\ \A t \in Servers : \A i \in DOMAIN cmds'[t] : Issued(cmds'[t][i])
        /\ \A t \in Servers : \A i \in DOMAIN tail'[t] : Issued(tail'[t][i])
        /\ \A i \in DOMAIN log : Issued(log[i])
    BY <1>2, <1>3, <1>4 DEF OnceEach
  <1>7. (\A t \in Servers : \A i \in DOMAIN cmds[t] : Issued(cmds[t][i]))'
    BY <1>1, <1>6 DEF Issued
  <1>8. (\A t \in Servers : \A i \in DOMAIN tail[t] : Issued(tail[t][i]))'
    BY <1>1, <1>6 DEF Issued
  <1>9. (\A i \in DOMAIN log : Issued(log[i]))'
    BY <1>1, <1>6 DEF Issued
  <1>10. \A t, u \in Servers : \A i \in DOMAIN cmds'[t], j \in DOMAIN cmds'[u] :
            cmds'[t][i] = cmds'[u][j] => t = u /\ i = j
    <2> SUFFICES ASSUME NEW t \in Servers, NEW u \in Servers, NEW i \in DOMAIN cmds'[t],
                        NEW j \in DOMAIN cmds'[u], cmds'[t][i] = cmds'[u][j]
                 PROVE  t = u /\ i = j
      OBVIOUS
    <2>1. PICK k \in DOMAIN cmds[t] : /\ cmds'[t][i] = cmds[t][k]
                                      /\ k = IF t = s THEN i + 1 ELSE i
                                      /\ t = s => i \in Int
      BY <1>3
    <2>2. PICK l \in DOMAIN cmds[u] : /\ cmds'[u][j] = cmds[u][l]
                                      /\ l = IF u = s THEN j + 1 ELSE j
                                      /\ u = s => j \in Int
      BY <1>3
    <2>3. cmds[t][k] = cmds[u][l] => t = u /\ k = l
      BY DEF OnceEach
    <2>4. CASE t = s
      <3>1. t = u /\ k = l
        BY <2>1, <2>2, <2>3
      <3>2. k = i + 1 /\ l = j + 1 /\ i \in Int /\ j \in Int
        BY <2>1, <2>2, <2>4, <3>1
      <3>3. \A a, b \in Int : a + 1 = b + 1 => a = b
        OBVIOUS
      <3>4. i = j
        BY <3>1, <3>2, <3>3
      <3> QED BY <3>1, <3>4
    <2>5. CASE t # s
      BY <2>1, <2>2, <2>3, <2>5
    <2> QED BY <2>4, <2>5
  <1>11. \A t, u \in Servers : \A i \in DOMAIN cmds'[t], j \in DOMAIN tail'[u] :
            cmds'[t][i] # tail'[u][j]
    BY <1>3, <1>4 DEF OnceEach
  <1>12. \A t \in Servers : \A i \in DOMAIN cmds'[t], j \in DOMAIN log : cmds'[t][i] # log[j]
    BY <1>3 DEF OnceEach
  <1>13. \A t \in Servers : \A i, j \in DOMAIN tail'[t] : tail'[t][i] = tail'[t][j] => i = j
    BY <1>4, <1>5 DEF OnceEach
  <1>14. \A t \in Servers : \A i \in DOMAIN tail'[t], j \in DOMAIN log : tail'[t][i] # log[j]
    BY <1>4, <1>5 DEF OnceEach
  <1>15. AttemptOnce'
    BY <1>1 DEF OnceEach, AttemptOnce
  <1> QED BY <1>1, <1>7, <1>8, <1>9, <1>10, <1>11, <1>12, <1>13, <1>14, <1>15 DEF OnceEach

\* A crash only removes requests.
LEMMA OnceCrash ==
    ASSUME TypeOK, Waiting, OnceEach, NEW s \in Servers, Crash(s)
    PROVE  OnceEach'
  <1>1. /\ UNCHANGED <<tail, log, cpc, put, attempt>>
        /\ \A t \in Servers : \A i \in DOMAIN cmds'[t] :
             i \in DOMAIN cmds[t] /\ cmds'[t][i] = cmds[t][i]
    BY DEF Crash, clusterVars, TypeOK
  <1> QED BY <1>1 DEF OnceEach, AttemptOnce, Issued

\* A follower takes over a log in which each request is once.
LEMMA OnceFollow ==
    ASSUME TypeOK, Waiting, OnceEach, NEW s \in Servers, Follow(s)
    PROVE  OnceEach'
  <1>1. /\ UNCHANGED <<cmds, log, cpc, put, attempt>> /\ leads \in Servers
        /\ \A t \in Servers : tail'[t] = tail[t] \/ tail'[t] = tail[leads]
    BY DEF Follow, Leading, TypeOK, clientVars
  <1>2. \A t \in Servers : \E u \in Servers : tail'[t] = tail[u]
    BY <1>1
  <1> QED BY <1>1, <1>2 DEF OnceEach, AttemptOnce, Issued

\* The entry chosen next was not chosen before.
LEMMA OnceChoose ==
    ASSUME TypeOK, Waiting, OnceEach, Choose
    PROVE  OnceEach'
  <1> DEFINE holds(s) == tail[s] # << >> /\ Head(tail[s]) = Head(tail[leads])
  <1>0. PICK e : e = Head(tail[leads])
    OBVIOUS
  <1>1. /\ UNCHANGED <<cmds, cpc, put, attempt>>
        /\ leads \in Servers /\ tail[leads] # << >>
        /\ log' = Append(log, e)
        /\ tail' = [s \in Servers |-> IF holds(s) THEN Tail(tail[s]) ELSE << >>]
    BY <1>0 DEF Choose, Leading, clientVars, serverVars, TypeOK
  <1>2. e \in Requests /\ 1 \in DOMAIN tail[leads] /\ e = tail[leads][1]
    BY <1>0, <1>1 DEF TypeOK
  <1>3. \A i \in DOMAIN log' : \/ i \in DOMAIN log /\ log'[i] = log[i]
                               \/ i = Len(log) + 1 /\ log'[i] = e
    BY <1>1, <1>2 DEF TypeOK
  <1>4. \A t \in Servers : \A i \in DOMAIN tail'[t] :
            /\ i \in Int /\ i + 1 \in DOMAIN tail[t] /\ i + 1 # 1 /\ 1 \in DOMAIN tail[t]
            /\ tail'[t][i] = tail[t][i + 1] /\ tail[t][1] = e
    <2> SUFFICES ASSUME NEW t \in Servers, NEW i \in DOMAIN tail'[t]
                 PROVE  /\ i \in Int /\ i + 1 \in DOMAIN tail[t] /\ i + 1 # 1
                        /\ 1 \in DOMAIN tail[t]
                        /\ tail'[t][i] = tail[t][i + 1] /\ tail[t][1] = e
      OBVIOUS
    <2>1. tail[t] \in Seq(Requests)
      BY DEF TypeOK
    <2>2. holds(t) /\ tail'[t] = Tail(tail[t])
      BY <1>1, <2>1
    <2> QED BY <1>0, <2>1, <2>2
  <1>5. \A t \in Servers : \A i \in DOMAIN tail'[t] : tail'[t][i] # e
    BY <1>4 DEF OnceEach
  <1>6. \A i \in DOMAIN log : log[i] # e
    BY <1>1, <1>2 DEF OnceEach
  <1>7. (\A t \in Servers : \A i \in DOMAIN cmds[t] : Issued(cmds[t][i]))'
    BY <1>1 DEF OnceEach, Issued
  <1>8. (\A t \in Servers : \A i \in DOMAIN tail[t] : Issued(tail[t][i]))'
    <2>1. \A t \in Servers : \A i \in DOMAIN tail'[t] : Issued(tail'[t][i])
      BY <1>4 DEF OnceEach
    <2> QED BY <1>1, <2>1 DEF Issued
  <1>9. (\A i \in DOMAIN log : Issued(log[i]))'
    <2>1. \A i \in DOMAIN log' : Issued(log'[i])
      BY <1>1, <1>2, <1>3 DEF OnceEach
    <2> QED BY <1>1, <2>1 DEF Issued
  <1>10. \A t, u \in Servers : \A i \in DOMAIN cmds'[t], j \in DOMAIN tail'[u] :
            cmds'[t][i] # tail'[u][j]
    BY <1>1, <1>4 DEF OnceEach
  <1>11. \A t \in Servers : \A i \in DOMAIN cmds'[t], j \in DOMAIN log' : cmds'[t][i] # log'[j]
    BY <1>1, <1>2, <1>3 DEF OnceEach
  <1>12. \A t \in Servers : \A i, j \in DOMAIN tail'[t] : tail'[t][i] = tail'[t][j] => i = j
    <2> SUFFICES ASSUME NEW t \in Servers, NEW i \in DOMAIN tail'[t], NEW j \in DOMAIN tail'[t],
                        tail'[t][i] = tail'[t][j]
                 PROVE  i = j
      OBVIOUS
    <2>1. i \in Int /\ j \in Int /\ i + 1 = j + 1
      BY <1>4 DEF OnceEach
    <2>2. \A a, b \in Int : a + 1 = b + 1 => a = b
      OBVIOUS
    <2> QED BY <2>1, <2>2
  <1>13. \A t \in Servers : \A i \in DOMAIN tail'[t], j \in DOMAIN log' : tail'[t][i] # log'[j]
    BY <1>3, <1>4, <1>5 DEF OnceEach
  <1>14. AttemptOnce'
    BY <1>3, <1>6 DEF OnceEach, AttemptOnce
  <1> QED BY <1>1, <1>7, <1>8, <1>9, <1>10, <1>11, <1>12, <1>13, <1>14 DEF OnceEach

\* No step brings a request to two places.
LEMMA OncePreserved == TypeOK /\ Waiting /\ OnceEach /\ [Next]_vars => OnceEach'
  <1> SUFFICES ASSUME TypeOK, Waiting, OnceEach, [Next]_vars PROVE OnceEach'
    OBVIOUS
  <1>1. CASE UNCHANGED <<cmds, tail, log>>
    BY <1>1, OnceUnmoved
  <1>2. CASE Connect
    BY <1>2, OnceConnect
  <1>3. CASE Choose
    BY <1>3, OnceChoose
  <1>4. ASSUME NEW s \in Servers, HandlePut(s) \/ Crash(s) \/ Follow(s)
        PROVE  OnceEach'
    BY <1>4, OnceHandlePut, OnceCrash, OnceFollow
  <1>5. \/ Connect \/ Choose \/ UNCHANGED <<cmds, tail, log>>
        \/ \E s \in Servers : HandlePut(s) \/ Crash(s) \/ Follow(s)
    BY DEF Next, vars, Client, serverVars, clusterVars, StartPut, GiveUp, ReceiveReply,
           Disconnect, Restart, Elect, Apply
  <1> QED BY <1>1, <1>2, <1>3, <1>4, <1>5

----------------------------------------------------------------------------
(* In order                                                                *)

\* A connection that broke has broken.
LEMMA BrokenStays ==
    TypeOK /\ Waiting /\ [Next]_vars => (broken' = 0 => broken = 0)
  <1> SUFFICES ASSUME TypeOK, Waiting, [Next]_vars, broken' = 0 PROVE broken = 0
    OBVIOUS
  <1>1. broken \in Nat
    BY ClientConstants DEF TypeOK
  <1>2. broken' = broken \/ broken' = broken + 1
    BY DEF Next, vars, Client, faultVars, StartPut, Connect, GiveUp, ReceiveReply,
           Disconnect, HandlePut, Crash, Restart, Elect, Follow, Apply, Choose
  <1> QED BY <1>1, <1>2

\* No request belongs to a later PUT than the client's.
LEMMA NoneNewer ==
    TypeOK /\ OnceEach =>
        /\ \A s \in Servers : \A i \in DOMAIN tail[s] : tail[s][i][1] <= put
        /\ \A i \in DOMAIN log : log[i][1] <= put
  <1>1. ASSUME TypeOK, NEW r \in Requests, Issued(r) PROVE r[1] <= put
    BY <1>1, ClientConstants DEF TypeOK, Requests, Issued
  <1> QED BY <1>1 DEF TypeOK, OnceEach

(* The log and the tails are left alone: only the channels are at stake.   *)
LEMMA OrderOfLogs ==
    ASSUME InOrder, broken = 0, UNCHANGED <<tail, log>>,
           \A s \in Servers : cmds'[s] # << >> =>
                /\ cpc' = "call" /\ at' = s /\ reply' = NoReply
                /\ Len(cmds'[s]) = 1 /\ cmds'[s][1] = <<put', attempt'>>
    PROVE  InOrder'
  BY DEF InOrder, WritesInOrder

\* The client's steps keep the order,
LEMMA OrderClient ==
    ASSUME TypeOK, Waiting, InOrder, broken = 0, broken' = 0,
           StartPut \/ Connect \/ GiveUp \/ ReceiveReply \/ Disconnect
    PROVE  InOrder'
  <1>1. \A s \in Servers : cmds[s] # << >> => cpc = "call" /\ reply = NoReply
    BY DEF InOrder
  <1>2. CASE StartPut
    BY <1>1, <1>2, OrderOfLogs DEF StartPut, serverVars, clusterVars
  <1>3. CASE GiveUp
    BY <1>1, <1>3, OrderOfLogs DEF GiveUp, serverVars, clusterVars
  <1>4. CASE ReceiveReply
    BY <1>1, <1>4, OrderOfLogs DEF ReceiveReply, serverVars, clusterVars
  <1>5. CASE Disconnect
    <2>1. broken \in Nat /\ broken' = broken + 1
      BY <1>5, ClientConstants DEF Disconnect, TypeOK
    <2> QED BY <2>1
  <1>6. CASE Connect
    <2>1. /\ cpc = "connect" /\ reply' = NoReply /\ UNCHANGED <<tail, log>>
          /\ \A s \in Servers : cmds[s] = << >>
      BY <1>1, <1>6 DEF Connect, Waiting, clusterVars
    <2>2. CASE UNCHANGED cmds
      BY <2>1, <2>2, OrderOfLogs
    <2>3. CASE ~UNCHANGED cmds
      <3>1. PICK s \in Servers :
              /\ cmds' = [cmds EXCEPT ![s] = Append(@, <<put, attempt>>)]
              /\ cpc' = "call" /\ at' = s /\ UNCHANGED <<put, attempt>>
        BY <1>6, <2>3 DEF Connect, Listening
      <3>0. PICK r : r = <<put, attempt>>
        OBVIOUS
      <3>2. /\ Len(cmds'[s]) = 1 /\ cmds'[s][1] = r
            /\ \A t \in Servers \ {s} : cmds'[t] = << >>
        <4>1. cmds[s] \in Seq(Requests) /\ Len(cmds[s]) = 0
          BY <2>1 DEF TypeOK
        <4>2. cmds' = [cmds EXCEPT ![s] = Append(@, r)]
          BY <3>0, <3>1
        <4>3. r \in Requests
          <5>1. put \in 1..MaxPuts /\ attempt \in 0..(Attempts - 1)
            BY <2>1, <1>6, ClientConstants DEF Connect, Waiting, TypeOK
          <5> QED BY <3>0, <5>1 DEF Requests
        <4> QED BY <2>1, <4>1, <4>2, <4>3 DEF TypeOK
      <3> QED BY <2>1, <3>0, <3>1, <3>2, OrderOfLogs
    <2> QED BY <2>2, <2>3
  <1> QED BY <1>2, <1>3, <1>4, <1>5, <1>6

\* a handled command is the newest,
LEMMA OrderHandlePut ==
    ASSUME TypeOK, Waiting, OnceEach, InOrder, broken = 0, NEW s \in Servers, HandlePut(s)
    PROVE  InOrder'
  <1>0. PICK r : r = <<put, attempt>>
    OBVIOUS
  <1>1. /\ Len(cmds[s]) = 1 /\ cmds[s][1] = r /\ cmds' = [cmds EXCEPT ![s] = Tail(@)] /\ UNCHANGED <<log, put>>
        /\ \A t \in Servers \ {s} : cmds[t] = << >>
        /\ tail' = tail \/ tail' = [tail EXCEPT ![s] = Append(@, r)]
    <2>1. /\ cmds[s] # << >> /\ cmds' = [cmds EXCEPT ![s] = Tail(@)] /\ UNCHANGED <<log, put>>
          /\ tail' = tail \/ tail' = [tail EXCEPT ![s] = Append(@, Head(cmds[s]))]
      BY DEF HandlePut
    <2>2. /\ Len(cmds[s]) = 1 /\ cmds[s][1] = r
          /\ \A t \in Servers \ {s} : cmds[t] = << >>
      BY <1>0, <2>1 DEF InOrder
    <2>3. Head(cmds[s]) = r
      BY <2>1, <2>2 DEF TypeOK
    <2> QED BY <2>1, <2>2, <2>3
  <1>2. r \in Requests /\ r[1] = put /\ put \in Nat
    <2>1. cmds[s][1] = r /\ cmds[s] \in Seq(Requests) /\ 1 \in DOMAIN cmds[s]
      BY <1>1 DEF TypeOK
    <2>2. r \in Requests
      BY <2>1
    <2>3. put \in Nat
      BY ClientConstants DEF TypeOK
    <2> QED BY <1>0, <2>2, <2>3
  <1>3. \A t \in Servers : cmds'[t] = << >>
    <2>1. cmds[s] \in Seq(Requests) /\ cmds[s] # << >>
      BY DEF HandlePut, TypeOK
    <2>2. Tail(cmds[s]) \in Seq(Requests) /\ Len(Tail(cmds[s])) = 0
      BY <1>1, <2>1
    <2>3. Tail(cmds[s]) = << >>
      BY <2>2, EmptySeq
    <2> QED BY <1>1, <2>3 DEF TypeOK
  <1>4. CASE tail' = tail
    BY <1>1, <1>3, <1>4, OrderOfLogs
  <1>5. CASE tail' = [tail EXCEPT ![s] = Append(@, r)]
    <2>1. /\ \A t \in Servers \ {s} : tail'[t] = tail[t]
          /\ tail'[s] = Append(tail[s], r) /\ tail[s] \in Seq(Requests)
      BY <1>5 DEF TypeOK
    <2>2. \A t \in Servers : \A i \in DOMAIN tail'[t] :
            \/ i \in DOMAIN tail[t] /\ tail'[t][i] = tail[t][i]
            \/ /\ t = s /\ i = Len(tail[s]) + 1 /\ tail'[t][i] = r
               /\ \A j \in DOMAIN tail'[t] : j <= i
      BY <1>2, <2>1
    <2>3. \A t \in Servers : \A i, j \in DOMAIN tail'[t] :
            i < j => tail'[t][i][1] <= tail'[t][j][1]
      <3> SUFFICES ASSUME NEW t \in Servers, NEW i \in DOMAIN tail'[t], NEW j \in DOMAIN tail'[t],
                          i < j
                   PROVE  tail'[t][i][1] <= tail'[t][j][1]
        OBVIOUS
      <3>1. i \in DOMAIN tail[t] /\ tail'[t][i] = tail[t][i]
        <4>1. i \in Int /\ j \in Int
          <5>1. Append(tail[s], r) \in Seq(Requests)
            BY <1>2, <2>1
          <5>2. tail'[t] \in Seq(Requests)
            BY <5>1, <2>1 DEF TypeOK
          <5> QED BY <5>2
        <4>2. j <= i => FALSE
          BY <4>1
        <4> QED BY <2>2, <4>2
      <3>2. CASE j \in DOMAIN tail[t] /\ tail'[t][j] = tail[t][j]
        BY <3>1, <3>2 DEF InOrder
      <3>3. CASE tail'[t][j] = r
        BY <1>2, <3>1, <3>3, NoneNewer
      <3> QED BY <2>2, <3>2, <3>3
    <2>4. \A t \in Servers : \A i \in DOMAIN log, j \in DOMAIN tail'[t] :
            log[i][1] <= tail'[t][j][1]
      BY <1>2, <2>2, NoneNewer DEF InOrder
    <2> QED BY <1>1, <1>3, <2>3, <2>4 DEF InOrder, WritesInOrder
  <1> QED BY <1>1, <1>4, <1>5

\* the servers' other steps keep their logs as continuations of the chosen
\* one,
LEMMA OrderServer ==
    ASSUME TypeOK, Waiting, OnceEach, InOrder, broken = 0, NEW s \in Servers,
           Crash(s) \/ Restart(s) \/ Elect(s) \/ Follow(s) \/ \E r \in Requests : Apply(s, r)
    PROVE  InOrder'
  <1>1. CASE Crash(s)
    <2>1. /\ UNCHANGED <<tail, log, cpc, put, attempt, at>>
          /\ \A t \in Servers : cmds'[t] # << >> => t # s /\ cmds'[t] = cmds[t]
      BY <1>1 DEF Crash, clusterVars, TypeOK
    <2>2. at # s => reply' = reply
      BY <1>1 DEF Crash
    <2> QED BY <2>1, <2>2, OrderOfLogs DEF InOrder
  <1>2. CASE Restart(s)
    BY <1>2, OrderOfLogs DEF Restart, clientVars, clusterVars, InOrder
  <1>3. CASE Elect(s)
    BY <1>3, OrderOfLogs DEF Elect, clientVars, InOrder
  <1>4. CASE Follow(s)
    <2>1. /\ UNCHANGED <<cmds, log, cpc, put, attempt, at, reply>> /\ leads \in Servers
          /\ \A t \in Servers : tail'[t] = tail[t] \/ tail'[t] = tail[leads]
      BY <1>4 DEF Follow, Leading, TypeOK, clientVars
    <2>2. \A t \in Servers : \E u \in Servers : tail'[t] = tail[u]
      BY <2>1
    <2> QED BY <2>1, <2>2 DEF InOrder, WritesInOrder
  <1>5. ASSUME NEW r \in Requests, Apply(s, r) PROVE InOrder'
    <2>1. /\ UNCHANGED <<cmds, tail, log, cpc, put, attempt, at>>
          /\ reply' # reply => r = <<put, attempt>>
          /\ \E i \in DOMAIN log : log[i] = r
      BY <1>5 DEF Apply, Respond, clusterVars, Chosen
    <2>2. ASSUME NEW t \in Servers, cmds[t] # << >> PROVE reply' = reply
      <3>1. 1 \in DOMAIN cmds[t] /\ cmds[t][1] = <<put, attempt>>
        BY <2>2 DEF InOrder
      <3> QED BY <2>1, <3>1 DEF OnceEach
    <2> QED BY <2>1, <2>2, OrderOfLogs DEF InOrder
  <1> QED BY <1>1, <1>2, <1>3, <1>4, <1>5

\* and choosing takes the next of a continuation.
LEMMA OrderChoose ==
    ASSUME TypeOK, Waiting, InOrder, broken = 0, Choose
    PROVE  InOrder'
  <1> DEFINE holds(s) == tail[s] # << >> /\ Head(tail[s]) = Head(tail[leads])
  <1>0. PICK e : e = Head(tail[leads])
    OBVIOUS
  <1>1. /\ UNCHANGED <<cmds, cpc, put, attempt, at, reply>>
        /\ leads \in Servers /\ tail[leads] # << >>
        /\ log' = Append(log, e)
        /\ tail' = [s \in Servers |-> IF holds(s) THEN Tail(tail[s]) ELSE << >>]
    BY <1>0 DEF Choose, Leading, clientVars, serverVars, TypeOK
  <1>2. /\ e \in Requests /\ 1 \in DOMAIN tail[leads] /\ e = tail[leads][1]
        /\ e[1] \in Nat
    BY <1>0, <1>1 DEF TypeOK, Requests
  <1>3. \A i \in DOMAIN log' : /\ i \in Int
                              /\ \/ i \in DOMAIN log /\ log'[i] = log[i]
                                 \/ /\ i = Len(log) + 1 /\ log'[i] = e
                                    /\ \A j \in DOMAIN log' : ~(i < j)
    BY <1>1, <1>2 DEF TypeOK
  <1>4. \A t \in Servers : \A i \in DOMAIN tail'[t] :
            /\ i \in Int /\ i + 1 \in DOMAIN tail[t] /\ 1 < i + 1 /\ 1 \in DOMAIN tail[t]
            /\ tail'[t][i] = tail[t][i + 1] /\ tail[t][1] = e
    <2> SUFFICES ASSUME NEW t \in Servers, NEW i \in DOMAIN tail'[t]
                 PROVE  /\ i \in Int /\ i + 1 \in DOMAIN tail[t] /\ 1 < i + 1
                        /\ 1 \in DOMAIN tail[t]
                        /\ tail'[t][i] = tail[t][i + 1] /\ tail[t][1] = e
      OBVIOUS
    <2>1. tail[t] \in Seq(Requests)
      BY DEF TypeOK
    <2>2. holds(t) /\ tail'[t] = Tail(tail[t])
      BY <1>1, <2>1
    <2> QED BY <1>0, <2>1, <2>2
  <1>5. \A t \in Servers : \A i \in DOMAIN tail'[t] : e[1] <= tail'[t][i][1]
    BY <1>4 DEF InOrder
  <1>6. \A i \in DOMAIN log : log[i][1] <= e[1]
    BY <1>1, <1>2 DEF InOrder
  <1>7. \A t \in Servers : \A i, j \in DOMAIN tail'[t] :
            i < j => tail'[t][i][1] <= tail'[t][j][1]
    <2> SUFFICES ASSUME NEW t \in Servers, NEW i \in DOMAIN tail'[t],
                        NEW j \in DOMAIN tail'[t], i < j
                 PROVE  tail[t][i + 1][1] <= tail[t][j + 1][1]
      BY <1>4
    <2>1. i + 1 \in DOMAIN tail[t] /\ j + 1 \in DOMAIN tail[t] /\ i + 1 < j + 1
      BY <1>4
    <2> QED BY <2>1 DEF InOrder
  <1>8. \A i \in DOMAIN log' : log'[i][1] <= e[1]
    BY <1>2, <1>3, <1>6
  <1>9. \A t \in Servers : \A i \in DOMAIN log', j \in DOMAIN tail'[t] :
            log'[i][1] <= tail'[t][j][1]
    <2> SUFFICES ASSUME NEW t \in Servers, NEW i \in DOMAIN log', NEW j \in DOMAIN tail'[t]
                 PROVE  log'[i][1] <= tail'[t][j][1]
      OBVIOUS
    <2>1. log'[i] \in Requests
      <3>1. log \in Seq(Requests)
        BY DEF TypeOK
      <3>2. CASE i \in DOMAIN log /\ log'[i] = log[i]
        BY <3>1, <3>2
      <3>3. CASE log'[i] = e
        BY <1>2, <3>3
      <3> QED BY <1>3, <3>2, <3>3
    <2>2. tail'[t][j] \in Requests
      <3>1. tail[t] \in Seq(Requests)
        BY DEF TypeOK
      <3>2. j + 1 \in DOMAIN tail[t] /\ tail'[t][j] = tail[t][j + 1]
        BY <1>4
      <3> QED BY <3>1, <3>2
    <2>3. log'[i][1] \in Nat /\ tail'[t][j][1] \in Nat
      BY <2>1, <2>2 DEF Requests
    <2> QED BY <1>2, <1>5, <1>8, <2>3
  <1>10. \A i, j \in DOMAIN log' : i < j => log'[i][1] <= log'[j][1]
    <2> SUFFICES ASSUME NEW i \in DOMAIN log', NEW j \in DOMAIN log', i < j
                 PROVE  log'[i][1] <= log'[j][1]
      OBVIOUS
    <2>1. CASE j \in DOMAIN log /\ log'[j] = log[j]
      <3>1. i \in DOMAIN log /\ log'[i] = log[i]
        BY <1>3
      <3> QED BY <2>1, <3>1 DEF InOrder, WritesInOrder
    <2>2. CASE log'[j] = e
      BY <2>2, <1>8
    <2> QED BY <1>3, <2>1, <2>2
  <1>11. \A s \in Servers : cmds'[s] # << >> =>
            /\ cpc' = "call" /\ at' = s /\ reply' = NoReply
            /\ Len(cmds'[s]) = 1 /\ cmds'[s][1] = <<put', attempt'>>
    BY <1>1 DEF InOrder
  <1> QED BY <1>7, <1>9, <1>10, <1>11 DEF InOrder, WritesInOrder

\* Every step keeps the order.
LEMMA OrderPreserved ==
    TypeOK /\ Waiting /\ OnceEach /\ InOrder /\ [Next]_vars => InOrder'
  <1> SUFFICES ASSUME TypeOK, Waiting, OnceEach, InOrder, [Next]_vars PROVE InOrder'
    OBVIOUS
  <1>1. CASE broken' # 0
    BY <1>1 DEF InOrder
  <1>2. CASE broken' = 0
    <2>1. broken = 0
      BY <1>2, BrokenStays
    <2>2. CASE Client
      BY <1>2, <2>1, <2>2, OrderClient DEF Client
    <2>3. CASE Choose
      BY <2>1, <2>3, OrderChoose
    <2>4. ASSUME NEW s \in Servers,
                 \/ HandlePut(s) \/ Crash(s) \/ Restart(s) \/ Elect(s) \/ Follow(s)
                 \/ \E r \in Requests : Apply(s, r)
          PROVE  InOrder'
      BY <2>1, <2>4, OrderHandlePut, OrderServer
    <2>5. CASE UNCHANGED vars
      BY <2>5 DEF vars, clientVars, serverVars, clusterVars, faultVars, InOrder, WritesInOrder
    <2> QED BY <2>2, <2>3, <2>4, <2>5 DEF Next
  <1> QED BY <1>1, <1>2

----------------------------------------------------------------------------

\* The invariant holds initially,
LEMMA InitInv == Init => Inv
  <1> SUFFICES ASSUME Init PROVE Inv
    OBVIOUS
  <1>1. TypeOK /\ Waiting
    BY InitTypes
  <1>2. /\ \A s \in Servers : cmds[s] = << >> /\ tail[s] = << >>
        /\ log = << >> /\ \A p \in 1..MaxPuts : result[p] = "none"
    BY DEF Init
  <1>3. OnceEach
    BY <1>2 DEF OnceEach, AttemptOnce
  <1>4. InOrder
    BY <1>2 DEF InOrder, WritesInOrder
  <1>5. SuccessIsChosen
    BY <1>2 DEF SuccessIsChosen
  <1> QED BY <1>1, <1>3, <1>4, <1>5 DEF Inv

\* every step keeps it,
LEMMA NextInv == Inv /\ [Next]_vars => Inv'
  <1> SUFFICES ASSUME Inv, [Next]_vars PROVE Inv'
    OBVIOUS
  <1> QED BY TypesPreserved, SuccessPreserved, OncePreserved, OrderPreserved DEF Inv

\* so it always holds.
LEMMA SpecInv == Spec => []Inv
  BY InitInv, NextInv, PTL DEF Spec

(* Every reachable state of client, servers and cluster has its type; the  *)
(* client never goes past the attempts of a PUT (App::put).                *)
THEOREM TypeCorrect == Spec => []TypeOK
  <1>1. Inv => TypeOK
    BY DEF Inv
  <1> QED BY <1>1, SpecInv, PTL

(* App::put returns Ok only for a write that is in the chosen log.         *)
THEOREM SuccessMeansChosen == Spec => []SuccessIsChosen
  <1>1. Inv => SuccessIsChosen
    BY DEF Inv
  <1> QED BY <1>1, SpecInv, PTL

(* RaftNode::propose_command and the replication behind it put one attempt *)
(* into the chosen log at most once, across elections and crashes.         *)
THEOREM EachAttemptOnce == Spec => []AttemptOnce
  <1>1. Inv => AttemptOnce
    BY DEF Inv, OnceEach
  <1> QED BY <1>1, SpecInv, PTL

(* Without a broken connection the retries of App::put never let the       *)
(* writes of one client overtake each other.                               *)
THEOREM WritesKeepOrder == Spec => []WritesInOrder
  <1>1. Inv => WritesInOrder
    BY DEF Inv, InOrder, WritesInOrder
  <1> QED BY <1>1, SpecInv, PTL
=============================================================================
