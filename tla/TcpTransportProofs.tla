------------------------- MODULE TcpTransportProofs -------------------------
(***************************************************************************)
(* Proofs about the transport, for any number of messages, attempts and    *)
(* faults: no duplicates, nothing that was given up arrives, and without   *)
(* faults nothing is lost or overtakes.                                    *)
(*                                                                         *)
(* The argument follows a message number from the queue to the thread and  *)
(* on to at most one of three places: a connection, the inbox, the         *)
(* messages given up.  What is still in the queue is newer than all of     *)
(* them, and the number the thread works on is in none of them.            *)
(***************************************************************************)
EXTENDS TcpTransport, SequenceTheorems, TLAPS

\* Messages the sender thread has taken from the queue so far.
Taken == next - Len(queue)

\* The queue holds the numbers after those, in order.
Counted ==
    /\ Len(queue) <= next
    /\ \A i \in DOMAIN queue : queue[i] = Taken + i
    /\ msg # 0 => msg = Taken

\* A message the thread is done with.
Done(m) == m <= Taken /\ m # msg

\* Whatever was written or given up is done, and in one place only.
OnePlace ==
    /\ \A c \in DOMAIN wire : \A i \in DOMAIN wire[c] : Done(wire[c][i])
    /\ \A i \in DOMAIN inbox : Done(inbox[i])
    /\ \A m \in dropped : Done(m)
    /\ \A c, d \in DOMAIN wire : \A i \in DOMAIN wire[c], j \in DOMAIN wire[d] :
           wire[c][i] = wire[d][j] => c = d /\ i = j
    /\ \A c \in DOMAIN wire : \A i \in DOMAIN wire[c], j \in DOMAIN inbox :
           wire[c][i] # inbox[j]
    /\ \A c \in DOMAIN wire : \A i \in DOMAIN wire[c] : wire[c][i] \notin dropped
    /\ \A i \in DOMAIN inbox : inbox[i] \notin dropped
    /\ NoDuplicate

\* Written and not yet read on the first connection.
OnTheWay == IF Len(wire) = 0 THEN 0 ELSE Len(wire[1])

\* Before the first fault there is at most one connection, it works, and
\* inbox, connection and thread together hold the numbers 1, 2, ... Taken.
InStep ==
    faults = 0 =>
        /\ attempt = 0 /\ Len(wire) <= 1 /\ stream = Len(wire)
        /\ alive = DOMAIN wire
        /\ \A i \in DOMAIN inbox : inbox[i] = i
        /\ \A c \in DOMAIN wire : \A i \in DOMAIN wire[c] : wire[c][i] = Len(inbox) + i
        /\ Taken = Len(inbox) + OnTheWay + (IF msg = 0 THEN 0 ELSE 1)

Inv == TypeOK /\ Counted /\ OnePlace /\ InStep

----------------------------------------------------------------------------
(* Sequences                                                               *)

\* The elements of a tail.
LEMMA TailElements ==
    ASSUME NEW S, NEW s \in Seq(S), s # << >>
    PROVE  /\ Tail(s) \in Seq(S) /\ Head(s) \in S /\ Head(s) = s[1] /\ 1 \in DOMAIN s
           /\ Len(Tail(s)) = Len(s) - 1 /\ Len(s) \in Nat
           /\ DOMAIN s = 1..Len(s)
           /\ \A i \in DOMAIN Tail(s) : /\ i \in Nat /\ i + 1 \in DOMAIN s
                                       /\ Tail(s)[i] = s[i + 1] /\ i + 1 # 1
  OBVIOUS

\* The elements of an appended sequence.
LEMMA AppendElements ==
    ASSUME NEW S, NEW s \in Seq(S), NEW e \in S
    PROVE  /\ Append(s, e) \in Seq(S)
           /\ Len(Append(s, e)) = Len(s) + 1 /\ Len(s) \in Nat
           /\ DOMAIN s = 1..Len(s) /\ DOMAIN Append(s, e) = 1..(Len(s) + 1)
           /\ \A i \in DOMAIN Append(s, e) :
                 \/ i \in DOMAIN s /\ Append(s, e)[i] = s[i]
                 \/ i = Len(s) + 1 /\ i \notin DOMAIN s /\ Append(s, e)[i] = e
  OBVIOUS

\* The elements of a sequence changed in one place.
LEMMA ExceptElements ==
    ASSUME NEW T, NEW s \in Seq(T), NEW c \in DOMAIN s, NEW e \in T
    PROVE  LET w == [s EXCEPT ![c] = e]
           IN  /\ w \in Seq(T) /\ Len(w) = Len(s) /\ DOMAIN w = DOMAIN s
               /\ w[c] = e
               /\ \A d \in DOMAIN s : d # c => w[d] = s[d]
  <1>1. c \in 1..Len(s)
    OBVIOUS
  <1> QED BY <1>1, ExceptSeq

\* A new connection carries one message, the others what they did.
LEMMA NewConnection ==
    ASSUME NEW S, NEW s \in Seq(Seq(S)), NEW e \in S
    PROVE  LET c == Len(s) + 1
               w == [Append(s, << >>) EXCEPT ![c] = Append(@, e)]
           IN  /\ w \in Seq(Seq(S)) /\ Len(w) = c /\ DOMAIN w = 1..c
               /\ w[c] = <<e>>
               /\ \A d \in DOMAIN w : d # c => d \in DOMAIN s /\ w[d] = s[d]
  <1> DEFINE c == Len(s) + 1
             v == Append(s, << >>)
  <1>1. << >> \in Seq(S) /\ Append(<< >>, e) = <<e>> /\ <<e>> \in Seq(S)
    OBVIOUS
  <1>2. PICK T : T = Seq(S)
    OBVIOUS
  <1>3. s \in Seq(T) /\ << >> \in T /\ <<e>> \in T
    BY <1>1, <1>2
  <1>4. /\ v \in Seq(T) /\ Len(v) = c /\ DOMAIN v = 1..c /\ c \in DOMAIN v
        /\ v[c] = << >>
        /\ \A d \in DOMAIN v : d # c => d \in DOMAIN s /\ v[d] = s[d]
    BY <1>3, AppendElements
  <1>5. [v EXCEPT ![c] = Append(@, e)] = [v EXCEPT ![c] = <<e>>]
    BY <1>1, <1>4
  <1>6. LET w == [v EXCEPT ![c] = <<e>>]
        IN  /\ w \in Seq(T) /\ Len(w) = c /\ DOMAIN w = 1..c
            /\ w[c] = <<e>>
            /\ \A d \in DOMAIN w : d # c => d \in DOMAIN s /\ w[d] = s[d]
    <2> HIDE DEF v, c
    <2> QED BY <1>3, <1>4, ExceptElements
  <1> QED BY <1>2, <1>5, <1>6

----------------------------------------------------------------------------
(* What an attempt that writes does to the connections                     *)

\* The connections after the message was written to a new or to the current
\* connection, or lost on a broken one.
LEMMA Writing ==
    ASSUME TypeOK, WriteOnNew \/ WriteOnStream
    PROVE  /\ msg # 0 /\ msg \in 1..next /\ msg' = 0 /\ attempt' = 0
           /\ UNCHANGED <<next, queue, inbox, dropped, faults>>
           /\ wire' \in Seq(Seq(1..next)) /\ stream' \in 1..Len(wire')
           /\ alive' \subseteq 1..Len(wire')
           /\ \A c \in DOMAIN wire' : \A i \in DOMAIN wire'[c] :
                 \/ c \in DOMAIN wire /\ i \in DOMAIN wire[c] /\ wire'[c][i] = wire[c][i]
                 \/ c = stream' /\ i = Len(wire'[c]) /\ wire'[c][i] = msg
  <1>1. /\ msg # 0 /\ msg \in 1..next /\ msg' = 0 /\ attempt' = 0
        /\ UNCHANGED <<next, queue, inbox, dropped, faults>>
    BY DEF WriteOnNew, WriteOnStream, Working, Written, TypeOK
  <1>2. PICK S : S = 1..next
    OBVIOUS
  <1>3. /\ wire \in Seq(Seq(S)) /\ msg \in S /\ Len(wire) \in Nat
        /\ DOMAIN wire = 1..Len(wire)
        /\ alive \subseteq 1..Len(wire) /\ stream \in 0..Len(wire)
    BY <1>1, <1>2 DEF TypeOK
  <1>4. CASE WriteOnNew
    <2> DEFINE c == Len(wire) + 1
    <2>1. /\ stream' = c /\ alive' = alive \cup {c}
          /\ wire' = [Append(wire, << >>) EXCEPT ![c] = Append(@, msg)]
      BY <1>4 DEF WriteOnNew, Written
    <2>2. /\ wire' \in Seq(Seq(S)) /\ Len(wire') = c /\ DOMAIN wire' = 1..c
          /\ wire'[c] = <<msg>>
          /\ \A d \in DOMAIN wire' : d # c => d \in DOMAIN wire /\ wire'[d] = wire[d]
      BY <1>3, <2>1, NewConnection
    <2>3. ASSUME NEW d \in DOMAIN wire', NEW i \in DOMAIN wire'[d]
          PROVE  \/ d \in DOMAIN wire /\ i \in DOMAIN wire[d] /\ wire'[d][i] = wire[d][i]
                 \/ d = stream' /\ i = Len(wire'[d]) /\ wire'[d][i] = msg
      <3>1. CASE d = c
        BY <2>1, <2>2, <3>1
      <3>2. CASE d # c
        BY <2>2, <3>2
      <3> QED BY <3>1, <3>2
    <2>4. alive' \subseteq 1..c /\ stream' \in 1..c
      <3>1. stream' = c /\ alive' = alive \cup {c}
        BY <2>1
      <3>2. Len(wire) \in Nat /\ alive \subseteq 1..Len(wire)
        BY <1>3
      <3> HIDE DEF c
      <3>3. c \in Nat \ {0} /\ c = Len(wire) + 1
        BY <3>2 DEF c
      <3>4. \A n \in alive : n \in 1..c
        BY <3>2, <3>3
      <3> QED BY <3>1, <3>3, <3>4
    <2> QED BY <1>1, <1>2, <2>2, <2>3, <2>4
  <1>5. CASE WriteOnStream
    <2>1. /\ stream' = stream /\ stream \in 1..Len(wire) /\ alive' = alive
          /\ wire' = IF stream \in alive
                     THEN [wire EXCEPT ![stream] = Append(@, msg)] ELSE wire
      BY <1>3, <1>5 DEF WriteOnStream, Written
    <2>2. CASE wire' = wire
      <3>1. wire' \in Seq(Seq(1..next)) /\ alive' \subseteq 1..Len(wire')
        BY <1>2, <1>3, <2>1, <2>2
      <3>2. stream' \in 1..Len(wire')
        BY <2>1, <2>2
      <3>3. ASSUME NEW d \in DOMAIN wire', NEW i \in DOMAIN wire'[d]
            PROVE  d \in DOMAIN wire /\ i \in DOMAIN wire[d] /\ wire'[d][i] = wire[d][i]
        BY <2>2, <3>3
      <3> QED BY <1>1, <3>1, <3>2, <3>3
    <2>3. CASE wire' = [wire EXCEPT ![stream] = Append(@, msg)]
      <3> DEFINE e == Append(wire[stream], msg)
      <3>1. wire[stream] \in Seq(S)
        BY <1>3, <2>1
      <3>2. /\ e \in Seq(S) /\ Len(e) = Len(wire[stream]) + 1
            /\ \A i \in DOMAIN e : \/ i \in DOMAIN wire[stream] /\ e[i] = wire[stream][i]
                                   \/ i = Len(e) /\ e[i] = msg
        BY <1>3, <3>1, AppendElements
      <3>3. wire' = [wire EXCEPT ![stream] = e]
        BY <2>3
      <3> HIDE DEF e
      <3>4. PICK T : T = Seq(S)
        OBVIOUS
      <3>5. wire \in Seq(T) /\ e \in T /\ stream \in DOMAIN wire
        BY <1>3, <2>1, <3>2, <3>4
      <3>6. /\ wire' \in Seq(T) /\ Len(wire') = Len(wire) /\ DOMAIN wire' = DOMAIN wire
            /\ wire'[stream] = e
            /\ \A d \in DOMAIN wire : d # stream => wire'[d] = wire[d]
        BY <3>3, <3>5, ExceptElements
      <3>7. ASSUME NEW d \in DOMAIN wire', NEW i \in DOMAIN wire'[d]
            PROVE  \/ d \in DOMAIN wire /\ i \in DOMAIN wire[d] /\ wire'[d][i] = wire[d][i]
                   \/ d = stream' /\ i = Len(wire'[d]) /\ wire'[d][i] = msg
        <4>1. CASE d = stream
          BY <2>1, <3>2, <3>6, <4>1
        <4>2. CASE d # stream
          BY <3>6, <4>2
        <4> QED BY <4>1, <4>2
      <3>8. wire' \in Seq(Seq(1..next))
        BY <1>2, <3>4, <3>6
      <3> QED BY <1>1, <1>3, <2>1, <3>6, <3>7, <3>8
    <2> QED BY <2>1, <2>2, <2>3
  <1> QED BY <1>4, <1>5

\* A handler thread moves one message from a connection to the inbox.
LEMMA Reading ==
    ASSUME TypeOK, NEW c \in Conns, Read(c)
    PROVE  \E m \in 1..next :
           /\ 1 \in DOMAIN wire[c] /\ wire[c][1] = m
           /\ UNCHANGED <<next, queue, msg, attempt, stream, alive, dropped, faults>>
           /\ inbox' = Append(inbox, m)
           /\ wire' \in Seq(Seq(1..next)) /\ Len(wire') = Len(wire)
           /\ DOMAIN wire' = DOMAIN wire
           /\ Len(wire'[c]) = Len(wire[c]) - 1
           /\ \A i \in DOMAIN wire'[c] :
                 /\ i \in Nat /\ i + 1 \in DOMAIN wire[c] /\ i + 1 # 1
                 /\ wire'[c][i] = wire[c][i + 1]
           /\ \A d \in DOMAIN wire : d # c => wire'[d] = wire[d]
  <1>1. PICK S : S = 1..next
    OBVIOUS
  <1>2. PICK T : T = Seq(S)
    OBVIOUS
  <1>3. /\ wire \in Seq(T) /\ c \in DOMAIN wire /\ wire[c] \in Seq(S)
        /\ wire[c] # << >>
    BY <1>1, <1>2 DEF TypeOK, Conns, Read
  <1>4. /\ Tail(wire[c]) \in T /\ Head(wire[c]) \in S /\ Head(wire[c]) = wire[c][1]
        /\ 1 \in DOMAIN wire[c]
        /\ Len(Tail(wire[c])) = Len(wire[c]) - 1
        /\ \A i \in DOMAIN Tail(wire[c]) :
              /\ i \in Nat /\ i + 1 \in DOMAIN wire[c] /\ i + 1 # 1
              /\ Tail(wire[c])[i] = wire[c][i + 1]
    BY <1>2, <1>3, TailElements
  <1>5. wire' = [wire EXCEPT ![c] = Tail(wire[c])]
    BY DEF Read
  <1>6. /\ wire' \in Seq(T) /\ Len(wire') = Len(wire) /\ DOMAIN wire' = DOMAIN wire
        /\ wire'[c] = Tail(wire[c])
        /\ \A d \in DOMAIN wire : d # c => wire'[d] = wire[d]
    BY <1>3, <1>4, <1>5, ExceptElements
  <1>7. /\ UNCHANGED <<next, queue, msg, attempt, stream, alive, dropped, faults>>
        /\ inbox' = Append(inbox, wire[c][1])
    BY <1>4 DEF Read
  <1>8. wire[c][1] \in 1..next /\ wire' \in Seq(Seq(1..next))
    BY <1>1, <1>2, <1>4, <1>6
  <1> QED BY <1>4, <1>6, <1>7, <1>8

\* A broken connection loses what was not read, and only that.
LEMMA Breaking ==
    ASSUME TypeOK, NEW c \in Conns, Break(c)
    PROVE  /\ UNCHANGED <<next, queue, msg, attempt, stream, inbox, dropped>>
           /\ faults' = faults + 1 /\ faults < MaxFaults /\ alive' \subseteq alive
           /\ wire' \in Seq(Seq(1..next)) /\ Len(wire') = Len(wire)
           /\ DOMAIN wire' = DOMAIN wire
           /\ wire'[c] = << >>
           /\ \A d \in DOMAIN wire : d # c => wire'[d] = wire[d]
  <1>1. PICK T : T = Seq(1..next)
    OBVIOUS
  <1>2. wire \in Seq(T) /\ << >> \in T /\ c \in DOMAIN wire
    BY <1>1 DEF TypeOK, Conns
  <1>3. wire' = [wire EXCEPT ![c] = << >>]
    BY DEF Break
  <1>4. /\ wire' \in Seq(T) /\ Len(wire') = Len(wire) /\ DOMAIN wire' = DOMAIN wire
        /\ wire'[c] = << >>
        /\ \A d \in DOMAIN wire : d # c => wire'[d] = wire[d]
    BY <1>2, <1>3, ExceptElements
  <1> QED BY <1>1, <1>4 DEF Break, Fault

----------------------------------------------------------------------------
(* Types                                                                   *)

\* The initial state is typed.
LEMMA TypeInitially == Init => TypeOK
  BY TransportConstants DEF Init, TypeOK

\* send() keeps the types.
LEMMA TypeSend ==
    ASSUME TypeOK, send
    PROVE  TypeOK'
  <1>1. next \in Nat /\ next + 1 \in 0..MaxMsgs /\ next' = next + 1
    BY TransportConstants DEF TypeOK, send
  <1>2. PICK S : S = 1..next
    OBVIOUS
  <1>3. PICK U : U = 1..(next + 1)
    OBVIOUS
  <1>4. S \subseteq U /\ next + 1 \in U
    BY <1>1, <1>2, <1>3
  <1>5. queue \in Seq(S) /\ wire \in Seq(Seq(S)) /\ inbox \in Seq(S) /\ dropped \subseteq S
    BY <1>2 DEF TypeOK
  <1>6. queue \in Seq(U) /\ inbox \in Seq(U) /\ dropped \subseteq U
    BY <1>4, <1>5, SeqMonotonic
  <1>7. Seq(S) \subseteq Seq(U)
    BY <1>4, SeqMonotonic
  <1>8. wire \in Seq(Seq(U))
    BY <1>5, <1>7, SeqMonotonic
  <1>9. Append(queue, next + 1) \in Seq(U)
    BY <1>4, <1>6, AppendElements
  <1>10. /\ queue' \in Seq(1..next') /\ inbox' \in Seq(1..next')
         /\ dropped' \subseteq 1..next' /\ wire' \in Seq(Seq(1..next'))
    BY <1>1, <1>3, <1>6, <1>8, <1>9 DEF send
  <1>11. /\ msg' \in 0..next' /\ attempt' \in 0..MaxRetries /\ stream' \in 0..Len(wire')
         /\ alive' \subseteq 1..Len(wire') /\ faults' \in 0..MaxFaults
    BY <1>1 DEF TypeOK, send
  <1> QED BY <1>1, <1>10, <1>11 DEF TypeOK

\* So does every step.
LEMMA TypePreserved == TypeOK /\ [Next]_vars => TypeOK'
  <1> SUFFICES ASSUME TypeOK, [Next]_vars PROVE TypeOK'
    OBVIOUS
  <1>1. CASE send
    BY <1>1, TypeSend
  <1>2. CASE Take
    <2>1. queue' \in Seq(1..next) /\ msg' \in 1..next
      BY <1>2, TailElements DEF Take, TypeOK
    <2> QED BY <1>2, <2>1, TransportConstants DEF Take, TypeOK
  <1>3. CASE ConnectFails
    BY <1>3, TransportConstants DEF ConnectFails, Working, Fault, TypeOK
  <1>4. CASE WriteOnNew \/ WriteOnStream
    <2>1. /\ msg' = 0 /\ attempt' = 0
          /\ UNCHANGED <<next, queue, inbox, dropped, faults>>
          /\ wire' \in Seq(Seq(1..next)) /\ stream' \in 1..Len(wire')
          /\ alive' \subseteq 1..Len(wire')
      BY <1>4, Writing
    <2>2. wire' \in Seq(Seq(1..next')) /\ stream' \in 0..Len(wire')
      BY <2>1
    <2>3. msg' \in 0..next' /\ attempt' \in 0..MaxRetries
      BY <2>1, TransportConstants DEF TypeOK
    <2> QED BY <2>1, <2>2, <2>3 DEF TypeOK
  <1>5. CASE WriteFails
    BY <1>5, TransportConstants DEF WriteFails, Working, Fault, TypeOK
  <1>6. CASE Drop
    BY <1>6, TransportConstants DEF Drop, TypeOK
  <1>7. ASSUME NEW c \in Conns, Read(c) PROVE TypeOK'
    <2>1. PICK m \in 1..next :
             /\ UNCHANGED <<next, queue, msg, attempt, stream, alive, dropped, faults>>
             /\ inbox' = Append(inbox, m)
             /\ wire' \in Seq(Seq(1..next)) /\ Len(wire') = Len(wire)
      BY <1>7, Reading
    <2>2. inbox' \in Seq(1..next)
      BY <2>1, AppendElements DEF TypeOK
    <2> QED BY <2>1, <2>2 DEF TypeOK
  <1>8. ASSUME NEW c \in Conns, Break(c) PROVE TypeOK'
    <2>1. /\ UNCHANGED <<next, queue, msg, attempt, stream, inbox, dropped>>
          /\ faults' = faults + 1 /\ faults < MaxFaults /\ alive' \subseteq alive
          /\ wire' \in Seq(Seq(1..next)) /\ Len(wire') = Len(wire)
      BY <1>8, Breaking
    <2>2. wire' \in Seq(Seq(1..next')) /\ stream' \in 0..Len(wire')
          /\ alive' \subseteq 1..Len(wire')
      BY <2>1 DEF TypeOK
    <2>3. faults' \in 0..MaxFaults
      BY <2>1, TransportConstants DEF TypeOK
    <2> QED BY <2>1, <2>2, <2>3 DEF TypeOK
  <1>9. CASE UNCHANGED vars
    BY <1>9 DEF vars, TypeOK
  <1> QED BY <1>1, <1>2, <1>3, <1>4, <1>5, <1>6, <1>7, <1>8, <1>9 DEF Next, SenderThread

----------------------------------------------------------------------------
(* The queue, and how far the thread has come                              *)

\* Every step keeps what is counted of the sender thread's progress.
LEMMA CountedPreserved == TypeOK /\ Counted /\ [Next]_vars => Counted'
  <1> SUFFICES ASSUME TypeOK, Counted, [Next]_vars PROVE Counted'
    OBVIOUS
  <1>0. /\ queue \in Seq(1..next) /\ Len(queue) \in Nat /\ next \in Nat /\ msg \in Nat
        /\ DOMAIN queue = 1..Len(queue)
    BY TransportConstants DEF TypeOK
  <1>1. CASE send
    <2>1. PICK U : U = Nat
      OBVIOUS
    <2>2. queue \in Seq(U) /\ next + 1 \in U
      BY <1>0, <2>1, SeqMonotonic
    <2>3. /\ queue' = Append(queue, next + 1) /\ next' = next + 1 /\ msg' = msg
      BY <1>1 DEF send
    <2>4. /\ Len(queue') = Len(queue) + 1
          /\ \A i \in DOMAIN queue' :
                \/ i \in DOMAIN queue /\ queue'[i] = queue[i]
                \/ i = Len(queue) + 1 /\ queue'[i] = next + 1
      BY <2>2, <2>3, AppendElements
    <2>5. Taken' = Taken
      BY <1>0, <2>3, <2>4 DEF Taken
    <2>6. \A i \in DOMAIN queue' : queue'[i] = Taken' + i
      <3> SUFFICES ASSUME NEW i \in DOMAIN queue' PROVE queue'[i] = Taken + i
        BY <2>5
      <3>1. CASE i \in DOMAIN queue /\ queue'[i] = queue[i]
        BY <3>1 DEF Counted
      <3>2. CASE i = Len(queue) + 1 /\ queue'[i] = next + 1
        BY <1>0, <3>2 DEF Taken
      <3> QED BY <2>4, <3>1, <3>2
    <2> QED BY <1>0, <2>3, <2>4, <2>5, <2>6 DEF Counted
  <1>2. CASE Take
    <2>1. /\ queue # << >> /\ queue' = Tail(queue) /\ msg' = Head(queue) /\ next' = next
      BY <1>2 DEF Take
    <2>2. /\ Head(queue) = queue[1] /\ 1 \in DOMAIN queue
          /\ Len(queue') = Len(queue) - 1
          /\ \A i \in DOMAIN queue' : /\ i \in Nat /\ i + 1 \in DOMAIN queue
                                     /\ queue'[i] = queue[i + 1]
      BY <1>0, <2>1, TailElements
    <2>3. Taken' = Taken + 1 /\ Taken \in Int
      BY <1>0, <2>1, <2>2 DEF Taken
    <2>4. \A i \in DOMAIN queue' : queue'[i] = Taken' + i
      BY <2>2, <2>3 DEF Counted
    <2>5. msg' = Taken' /\ Len(queue') <= next'
      BY <1>0, <2>1, <2>2, <2>3 DEF Counted
    <2> QED BY <2>4, <2>5 DEF Counted
  <1>3. CASE UNCHANGED <<next, queue>> /\ msg' \in {0, msg}
    BY <1>3 DEF Counted, Taken
  <1>4. ~send /\ ~Take => UNCHANGED <<next, queue>> /\ msg' \in {0, msg}
    BY Writing, Reading, Breaking
    DEF Next, SenderThread, ConnectFails, WriteFails, Drop, vars
  <1> QED BY <1>1, <1>2, <1>3, <1>4

----------------------------------------------------------------------------
(* A message is in one place only                                          *)

\* What is done stays done.
LEMMA DoneStays ==
    ASSUME TypeOK, Counted, [Next]_vars, NEW m \in 1..next, Done(m)
    PROVE  m <= Taken' /\ m # msg'
  <1>0. /\ queue \in Seq(1..next) /\ Len(queue) \in Nat /\ next \in Nat
    BY TransportConstants DEF TypeOK
  <1>1. CASE send
    <2>1. Len(queue') = Len(queue) + 1 /\ next' = next + 1 /\ msg' = msg
      BY <1>0, <1>1 DEF send
    <2> QED BY <1>0, <2>1 DEF Done, Taken
  <1>2. CASE Take
    <2>1. /\ queue # << >> /\ queue' = Tail(queue) /\ next' = next
      BY <1>2 DEF Take
    <2>2. Len(queue') = Len(queue) - 1
      BY <1>0, <2>1, TailElements
    <2>3. Taken' = Taken + 1 /\ Taken \in Int
      BY <1>0, <2>1, <2>2 DEF Taken
    <2>4. msg' = Taken'
      <3>1. 1 \in DOMAIN queue /\ msg' = queue[1]
        BY <1>0, <1>2, <2>1, TailElements DEF Take
      <3> QED BY <2>3, <3>1 DEF Counted
    <2> QED BY <2>3, <2>4 DEF Done
  <1>3. CASE UNCHANGED <<next, queue>> /\ msg' = msg
    BY <1>3 DEF Done, Taken
  <1>4. CASE UNCHANGED <<next, queue>> /\ msg' = 0 /\ msg # 0
    BY <1>0, <1>4 DEF Done, Taken
  <1>5. ~send /\ ~Take => /\ UNCHANGED <<next, queue>>
                          /\ msg' = msg \/ (msg' = 0 /\ msg # 0)
    BY Writing, Reading, Breaking
    DEF Next, SenderThread, ConnectFails, WriteFails, Drop, vars
  <1> QED BY <1>1, <1>2, <1>3, <1>4, <1>5

\* Every number on a connection, in the inbox or given up was sent.
LEMMA Elements ==
    ASSUME TypeOK
    PROVE  /\ \A c \in DOMAIN wire : \A i \in DOMAIN wire[c] : wire[c][i] \in 1..next
           /\ \A i \in DOMAIN inbox : inbox[i] \in 1..next
           /\ \A m \in dropped : m \in 1..next
  <1>1. PICK S : S = 1..next
    OBVIOUS
  <1>2. wire \in Seq(Seq(S)) /\ inbox \in Seq(S) /\ dropped \subseteq S
    BY <1>1 DEF TypeOK
  <1>3. ASSUME NEW c \in DOMAIN wire, NEW i \in DOMAIN wire[c] PROVE wire[c][i] \in S
    <2>1. PICK T : T = Seq(S)
      OBVIOUS
    <2>2. wire \in Seq(T)
      BY <1>2, <2>1
    <2>3. wire[c] \in Seq(S)
      BY <2>1, <2>2
    <2> QED BY <2>3
  <1>4. \A i \in DOMAIN inbox : inbox[i] \in S
    BY <1>2
  <1> QED BY <1>1, <1>2, <1>3, <1>4

\* The number the thread works on, is in no place yet.
LEMMA WrittenInOnePlace ==
    ASSUME TypeOK, Counted, OnePlace, [Next]_vars, WriteOnNew \/ WriteOnStream
    PROVE  OnePlace'
  <1> DEFINE done(m) == m <= Taken' /\ m # msg'
  <1>1. /\ msg # 0 /\ msg \in 1..next /\ msg' = 0
        /\ UNCHANGED <<next, queue, inbox, dropped>>
        /\ \A c \in DOMAIN wire' : \A i \in DOMAIN wire'[c] :
              \/ c \in DOMAIN wire /\ i \in DOMAIN wire[c] /\ wire'[c][i] = wire[c][i]
              \/ c = stream' /\ i = Len(wire'[c]) /\ wire'[c][i] = msg
    BY Writing
  <1>2. done(msg) /\ \A m : Done(m) => m # msg
    <2>1. msg = Taken /\ Taken' = Taken
      BY <1>1 DEF Counted, Taken
    <2>2. msg <= Taken'
      BY <1>1, <2>1
    <2> QED BY <1>1, <2>2 DEF Done
  <1>3. \A m \in 1..next : Done(m) => done(m)
    BY DoneStays
  <1>4. /\ \A c \in DOMAIN wire : \A i \in DOMAIN wire[c] : wire[c][i] \in 1..next
        /\ \A i \in DOMAIN inbox : inbox[i] \in 1..next
        /\ \A m \in dropped : m \in 1..next
    BY Elements
  <1>5. \A c \in DOMAIN wire' : \A i \in DOMAIN wire'[c] :
            /\ done(wire'[c][i])
            /\ wire'[c][i] \notin dropped
            /\ \A j \in DOMAIN inbox : wire'[c][i] # inbox[j]
    <2> SUFFICES ASSUME NEW c \in DOMAIN wire', NEW i \in DOMAIN wire'[c]
                 PROVE  /\ done(wire'[c][i])
                        /\ wire'[c][i] \notin dropped
                        /\ \A j \in DOMAIN inbox : wire'[c][i] # inbox[j]
      OBVIOUS
    <2>1. CASE /\ c \in DOMAIN wire /\ i \in DOMAIN wire[c]
               /\ wire'[c][i] = wire[c][i]
      <3>1. PICK m \in 1..next : m = wire[c][i]
        BY <1>4, <2>1
      <3>2. done(m) /\ m \notin dropped /\ \A j \in DOMAIN inbox : m # inbox[j]
        BY <1>3, <2>1, <3>1 DEF OnePlace
      <3> QED BY <2>1, <3>1, <3>2
    <2>2. CASE wire'[c][i] = msg
      <3>1. msg \notin dropped /\ \A j \in DOMAIN inbox : msg # inbox[j]
        BY <1>2 DEF OnePlace
      <3> QED BY <1>2, <2>2, <3>1
    <2> QED BY <1>1, <2>1, <2>2
  <1>6. \A c, d \in DOMAIN wire' : \A i \in DOMAIN wire'[c], j \in DOMAIN wire'[d] :
            wire'[c][i] = wire'[d][j] => c = d /\ i = j
    <2> SUFFICES ASSUME NEW c \in DOMAIN wire', NEW d \in DOMAIN wire',
                        NEW i \in DOMAIN wire'[c], NEW j \in DOMAIN wire'[d],
                        wire'[c][i] = wire'[d][j]
                 PROVE  c = d /\ i = j
      OBVIOUS
    <2> DEFINE old(e, k) == /\ e \in DOMAIN wire /\ k \in DOMAIN wire[e]
                            /\ wire'[e][k] = wire[e][k]
               new(e, k) == e = stream' /\ k = Len(wire'[e]) /\ wire'[e][k] = msg
    <2>1. \A e \in DOMAIN wire : \A k \in DOMAIN wire[e] : wire[e][k] # msg
      BY <1>2 DEF OnePlace
    <2>2. CASE old(c, i) /\ old(d, j)
      <3>1. wire[c][i] = wire[d][j]
        BY <2>2
      <3>2. c \in DOMAIN wire /\ d \in DOMAIN wire
            /\ i \in DOMAIN wire[c] /\ j \in DOMAIN wire[d]
        BY <2>2
      <3> QED BY <3>1, <3>2 DEF OnePlace
    <2>3. CASE new(c, i) /\ new(d, j)
      BY <2>3
    <2>4. ~(old(c, i) /\ new(d, j)) /\ ~(new(c, i) /\ old(d, j))
      BY <2>1
    <2> QED BY <1>1, <2>2, <2>3, <2>4
  <1>7. /\ \A i \in DOMAIN inbox : done(inbox[i])
        /\ \A m \in dropped : done(m)
    <2>1. ASSUME NEW i \in DOMAIN inbox PROVE done(inbox[i])
      <3>1. inbox[i] \in 1..next /\ Done(inbox[i])
        BY <1>4 DEF OnePlace
      <3> HIDE DEF done
      <3> QED BY <1>3, <3>1
    <2>2. ASSUME NEW m \in dropped PROVE done(m)
      BY <1>3, <1>4 DEF OnePlace
    <2> QED BY <2>1, <2>2
  <1> QED
    <2>1. NoDuplicate' /\ (\A i \in DOMAIN inbox : inbox[i] \notin dropped)
      BY <1>1 DEF OnePlace, NoDuplicate
    <2> QED BY <1>1, <1>5, <1>6, <1>7, <2>1 DEF OnePlace, Done

\* A read moves a number from its connection to the inbox.
LEMMA ReadInOnePlace ==
    ASSUME TypeOK, Counted, OnePlace, NEW c \in Conns, Read(c)
    PROVE  OnePlace'
  <1>1. PICK m \in 1..next :
           /\ 1 \in DOMAIN wire[c] /\ wire[c][1] = m
           /\ UNCHANGED <<next, queue, msg, dropped>>
           /\ inbox' = Append(inbox, m)
           /\ DOMAIN wire' = DOMAIN wire
           /\ \A i \in DOMAIN wire'[c] :
                 /\ i \in Nat /\ i + 1 \in DOMAIN wire[c] /\ i + 1 # 1
                 /\ wire'[c][i] = wire[c][i + 1]
           /\ \A d \in DOMAIN wire : d # c => wire'[d] = wire[d]
    BY Reading
  <1>2. c \in DOMAIN wire
    BY DEF Conns
  <1>3. \A i \in DOMAIN inbox' : \/ i \in DOMAIN inbox /\ inbox'[i] = inbox[i]
                                 \/ i = Len(inbox) + 1 /\ inbox'[i] = m
    <2>1. PICK S : S = 1..next
      OBVIOUS
    <2>2. inbox \in Seq(S) /\ m \in S
      BY <2>1 DEF TypeOK
    <2>3. inbox' = Append(inbox, m)
      BY <1>1
    <2> QED BY <2>2, <2>3, AppendElements
  <1>4. \A x : Done(x) <=> (x <= Taken' /\ x # msg')
    BY <1>1 DEF Done, Taken
  <1>5. Done(m) /\ m \notin dropped
    BY <1>1, <1>2 DEF OnePlace
  <1>6. \A i \in DOMAIN inbox : inbox[i] # m
    BY <1>1, <1>2 DEF OnePlace
  \* What is left on a connection was on it before, behind what was read.
  <1>7. ASSUME NEW d \in DOMAIN wire', NEW i \in DOMAIN wire'[d]
        PROVE  \E k \in DOMAIN wire[d] : /\ wire'[d][i] = wire[d][k]
                                         /\ d = c => k = i + 1 /\ i \in Nat /\ k # 1
                                         /\ d # c => k = i
    <2>1. CASE d = c
      <3>1. i + 1 \in DOMAIN wire[d] /\ wire'[d][i] = wire[d][i + 1]
            /\ i \in Nat /\ i + 1 # 1
        BY <1>1, <2>1
      <3> QED BY <2>1, <3>1
    <2>2. CASE d # c
      BY <1>1, <2>2
    <2> QED BY <2>1, <2>2
  <1>8. \A d \in DOMAIN wire' : \A i \in DOMAIN wire'[d] : wire'[d][i] # m
    <2> SUFFICES ASSUME NEW d \in DOMAIN wire', NEW i \in DOMAIN wire'[d] PROVE wire'[d][i] # m
      OBVIOUS
    <2>1. PICK k \in DOMAIN wire[d] : wire'[d][i] = wire[d][k] /\ (d = c => k # 1)
      BY <1>7
    <2> QED BY <1>1, <1>2, <2>1 DEF OnePlace
  <1>9. \A d \in DOMAIN wire' : \A i \in DOMAIN wire'[d] :
            /\ Done(wire'[d][i]) /\ wire'[d][i] \notin dropped
            /\ \A j \in DOMAIN inbox' : wire'[d][i] # inbox'[j]
    <2> SUFFICES ASSUME NEW d \in DOMAIN wire', NEW i \in DOMAIN wire'[d]
                 PROVE  /\ Done(wire'[d][i]) /\ wire'[d][i] \notin dropped
                        /\ \A j \in DOMAIN inbox' : wire'[d][i] # inbox'[j]
      OBVIOUS
    <2>1. PICK k \in DOMAIN wire[d] : wire'[d][i] = wire[d][k]
      BY <1>7
    <2>2. d \in DOMAIN wire
      BY <1>1
    <2> QED BY <1>3, <1>8, <2>1, <2>2 DEF OnePlace
  <1>10. \A d, e \in DOMAIN wire' : \A i \in DOMAIN wire'[d], j \in DOMAIN wire'[e] :
            wire'[d][i] = wire'[e][j] => d = e /\ i = j
    <2> SUFFICES ASSUME NEW d \in DOMAIN wire', NEW e \in DOMAIN wire',
                        NEW i \in DOMAIN wire'[d], NEW j \in DOMAIN wire'[e],
                        wire'[d][i] = wire'[e][j]
                 PROVE  d = e /\ i = j
      OBVIOUS
    <2>1. PICK k \in DOMAIN wire[d] : /\ wire'[d][i] = wire[d][k]
                                      /\ d = c => k = i + 1 /\ i \in Nat
                                      /\ d # c => k = i
      BY <1>7
    <2>2. PICK l \in DOMAIN wire[e] : /\ wire'[e][j] = wire[e][l]
                                      /\ e = c => l = j + 1 /\ j \in Nat
                                      /\ e # c => l = j
      BY <1>7
    <2>3. d \in DOMAIN wire /\ e \in DOMAIN wire /\ wire[d][k] = wire[e][l]
      BY <1>1, <2>1, <2>2
    <2>4. d = e /\ k = l
      BY <2>3 DEF OnePlace
    <2> QED BY <2>1, <2>2, <2>4
  <1>11. /\ \A i \in DOMAIN inbox' : Done(inbox'[i]) /\ inbox'[i] \notin dropped
         /\ \A i, j \in DOMAIN inbox' : inbox'[i] = inbox'[j] => i = j
    BY <1>3, <1>5, <1>6 DEF OnePlace, NoDuplicate
  <1>12. \A x \in dropped : Done(x)
    BY DEF OnePlace
  <1> QED
    <2>1. NoDuplicate'
      BY <1>11 DEF NoDuplicate
    <2>2. \A x : Done(x)' <=> Done(x)
      BY <1>1 DEF Done, Taken
    <2>3. dropped' = dropped
      BY <1>1
    <2> QED BY <1>4, <1>9, <1>10, <1>11, <1>12, <2>1, <2>3 DEF OnePlace, Done

\* Every step keeps each number in one place.
LEMMA OnePlacePreserved == TypeOK /\ Counted /\ OnePlace /\ [Next]_vars => OnePlace'
  <1> SUFFICES ASSUME TypeOK, Counted, OnePlace, [Next]_vars PROVE OnePlace'
    OBVIOUS
  <1>0. /\ \A c \in DOMAIN wire : \A i \in DOMAIN wire[c] : wire[c][i] \in 1..next
        /\ \A i \in DOMAIN inbox : inbox[i] \in 1..next
        /\ \A m \in dropped : m \in 1..next
    BY Elements
  <1> DEFINE done(m) == m <= Taken' /\ m # msg'
  <1>1. \A m \in 1..next : Done(m) => done(m)
    BY DoneStays
  <1>2. CASE UNCHANGED <<wire, inbox, dropped>>
    <2>1. /\ \A c \in DOMAIN wire : \A i \in DOMAIN wire[c] : done(wire[c][i])
          /\ \A i \in DOMAIN inbox : done(inbox[i])
          /\ \A m \in dropped : done(m)
      <3> HIDE DEF done
      <3> QED BY <1>0, <1>1 DEF OnePlace
    <2>2. NoDuplicate'
      BY <1>2 DEF OnePlace, NoDuplicate
    <2> QED BY <1>2, <2>1, <2>2 DEF OnePlace, Done
  <1>3. CASE Drop
    <2>1. /\ UNCHANGED <<next, queue, wire, inbox>>
          /\ msg # 0 /\ msg' = 0 /\ dropped' = dropped \cup {msg} /\ msg \in 1..next
      BY <1>3 DEF Drop, TypeOK
    <2>2. /\ \A c \in DOMAIN wire : \A i \in DOMAIN wire[c] : done(wire[c][i])
          /\ \A i \in DOMAIN inbox : done(inbox[i])
          /\ \A m \in dropped : done(m)
      <3> HIDE DEF done
      <3> QED BY <1>0, <1>1 DEF OnePlace
    <2>3. done(msg)
      BY <2>1 DEF Counted, Taken
    <2>4. /\ \A c \in DOMAIN wire : \A i \in DOMAIN wire[c] : wire[c][i] \notin dropped'
          /\ \A i \in DOMAIN inbox : inbox[i] \notin dropped'
      BY <2>1 DEF OnePlace, Done
    <2>5. NoDuplicate'
      BY <2>1 DEF OnePlace, NoDuplicate
    <2>6. \A m \in dropped' : done(m)
      BY <2>1, <2>2, <2>3
    <2> QED BY <2>1, <2>2, <2>4, <2>5, <2>6 DEF OnePlace, Done
  <1>4. CASE WriteOnNew \/ WriteOnStream
    BY <1>4, WrittenInOnePlace
  <1>5. ASSUME NEW c \in Conns, Read(c) PROVE OnePlace'
    BY <1>5, ReadInOnePlace
  <1>6. ASSUME NEW c \in Conns, Break(c) PROVE OnePlace'
    <2>1. /\ UNCHANGED <<next, queue, msg, inbox, dropped>>
          /\ DOMAIN wire' = DOMAIN wire /\ wire'[c] = << >>
          /\ \A d \in DOMAIN wire : d # c => wire'[d] = wire[d]
      BY <1>6, Breaking
    <2>2. ASSUME NEW d \in DOMAIN wire', NEW i \in DOMAIN wire'[d]
          PROVE  d \in DOMAIN wire /\ i \in DOMAIN wire[d] /\ wire'[d][i] = wire[d][i]
      BY <2>1
    <2>3. /\ \A d \in DOMAIN wire : \A i \in DOMAIN wire[d] : done(wire[d][i])
          /\ \A i \in DOMAIN inbox : done(inbox[i])
          /\ \A m \in dropped : done(m)
      <3> HIDE DEF done
      <3> QED BY <1>0, <1>1 DEF OnePlace
    <2>4. \A d \in DOMAIN wire' : \A i \in DOMAIN wire'[d] :
              /\ done(wire'[d][i]) /\ wire'[d][i] \notin dropped
              /\ \A j \in DOMAIN inbox : wire'[d][i] # inbox[j]
      BY <2>2, <2>3 DEF OnePlace
    <2>5. \A d, e \in DOMAIN wire' : \A i \in DOMAIN wire'[d], j \in DOMAIN wire'[e] :
              wire'[d][i] = wire'[e][j] => d = e /\ i = j
      BY <2>2 DEF OnePlace
    <2>6. NoDuplicate' /\ \A i \in DOMAIN inbox : inbox[i] \notin dropped
      BY <2>1 DEF OnePlace, NoDuplicate
    <2> QED BY <2>1, <2>3, <2>4, <2>5, <2>6 DEF OnePlace, Done
  <1> QED BY <1>2, <1>3, <1>4, <1>5, <1>6
      DEF Next, SenderThread, send, Take, ConnectFails, WriteFails, vars

----------------------------------------------------------------------------
(* Before the first fault                                                  *)

\* The messages on the way are finitely many.
LEMMA WayIsLength ==
    ASSUME TypeOK PROVE OnTheWay \in Nat
  <1>1. PICK S : S = 1..next
    OBVIOUS
  <1>2. PICK T : T = Seq(S)
    OBVIOUS
  <1>3. wire \in Seq(T) /\ Len(wire) \in Nat
    BY <1>1, <1>2 DEF TypeOK
  <1>4. CASE Len(wire) # 0
    <2>1. wire[1] \in Seq(S)
      BY <1>2, <1>3, <1>4
    <2> QED BY <1>4, <2>1 DEF OnTheWay
  <1> QED BY <1>4 DEF OnTheWay

\* The one connection is opened by the first message and used by the others.
LEMMA WritingInStep ==
    ASSUME TypeOK, WriteOnNew \/ WriteOnStream,
           Len(wire) <= 1, stream = Len(wire), alive = DOMAIN wire,
           \A c \in DOMAIN wire : \A i \in DOMAIN wire[c] : wire[c][i] = Len(inbox) + i
    PROVE  /\ Len(wire') = 1 /\ DOMAIN wire' = {1} /\ stream' = 1 /\ alive' = {1}
           /\ OnTheWay \in Nat /\ Len(wire'[1]) = OnTheWay + 1
           /\ \A i \in DOMAIN wire'[1] : \/ wire'[1][i] = Len(inbox) + i
                                         \/ i = OnTheWay + 1 /\ wire'[1][i] = msg
  <1>1. PICK S : S = 1..next
    OBVIOUS
  <1>2. /\ wire \in Seq(Seq(S)) /\ msg \in S /\ Len(wire) \in Nat
        /\ DOMAIN wire = 1..Len(wire)
    <2>1. msg \in 1..next
      BY Writing
    <2> QED BY <1>1, <2>1 DEF TypeOK
  <1>3. OnTheWay \in Nat
    BY WayIsLength
  <1>4. CASE WriteOnNew
    <2>1. Len(wire) = 0
      BY <1>4 DEF WriteOnNew
    <2>2. /\ stream' = Len(wire) + 1 /\ alive' = alive \cup {Len(wire) + 1}
          /\ wire' = [Append(wire, << >>) EXCEPT ![Len(wire) + 1] = Append(@, msg)]
      BY <1>4 DEF WriteOnNew, Written
    <2>3. /\ Len(wire') = Len(wire) + 1 /\ DOMAIN wire' = 1..(Len(wire) + 1)
          /\ wire'[Len(wire) + 1] = <<msg>>
      BY <1>2, <2>2, NewConnection
    <2>4. DOMAIN wire = {}
      BY <1>2, <2>1
    <2>5. /\ stream' = 1 /\ alive' = {1} /\ Len(wire') = 1 /\ DOMAIN wire' = {1}
          /\ wire'[1] = <<msg>>
      BY <2>1, <2>2, <2>3, <2>4
    <2>6. OnTheWay = 0
      BY <2>1 DEF OnTheWay
    <2> QED BY <2>5, <2>6
  <1>5. CASE WriteOnStream
    <2>1. /\ stream' = stream /\ alive' = alive /\ stream # 0
          /\ wire' = IF stream \in alive
                     THEN [wire EXCEPT ![stream] = Append(@, msg)] ELSE wire
      BY <1>5 DEF WriteOnStream, Written
    <2>2. Len(wire) = 1 /\ stream = 1 /\ DOMAIN wire = {1} /\ 1 \in alive
      BY <1>2, <2>1
    <2>3. wire[1] \in Seq(S)
      <3>1. PICK T : T = Seq(S)
        OBVIOUS
      <3>2. wire \in Seq(T)
        BY <1>2, <3>1
      <3> QED BY <2>2, <3>1, <3>2
    <2> DEFINE e == Append(wire[1], msg)
    <2>4. /\ e \in Seq(S) /\ Len(e) = Len(wire[1]) + 1
          /\ \A i \in DOMAIN e : \/ i \in DOMAIN wire[1] /\ e[i] = wire[1][i]
                                 \/ i = Len(wire[1]) + 1 /\ e[i] = msg
      BY <1>2, <2>3, AppendElements
    <2>5. wire' = [wire EXCEPT ![1] = e]
      BY <2>1, <2>2
    <2> HIDE DEF e
    <2>6. PICK T : T = Seq(S)
      OBVIOUS
    <2>7. wire \in Seq(T) /\ e \in T /\ 1 \in DOMAIN wire
      BY <1>2, <2>2, <2>4, <2>6
    <2>8. Len(wire') = Len(wire) /\ DOMAIN wire' = DOMAIN wire /\ wire'[1] = e
      BY <2>5, <2>7, ExceptElements
    <2>9. OnTheWay = Len(wire[1])
      BY <2>2 DEF OnTheWay
    <2>10. \A i \in DOMAIN wire'[1] : \/ wire'[1][i] = Len(inbox) + i
                                      \/ i = OnTheWay + 1 /\ wire'[1][i] = msg
      BY <2>2, <2>4, <2>8, <2>9
    <2> QED BY <1>3, <2>1, <2>2, <2>4, <2>8, <2>9, <2>10
  <1> QED BY <1>3, <1>4, <1>5

\* Without a fault, every step keeps the numbers in line.
LEMMA InStepPreserved == TypeOK /\ Counted /\ OnePlace /\ InStep /\ [Next]_vars => InStep'
  <1> SUFFICES ASSUME TypeOK, Counted, OnePlace, InStep, [Next]_vars, faults' = 0
               PROVE  InStep'
    BY DEF InStep
  <1>0. /\ queue \in Seq(1..next) /\ Len(queue) \in Nat /\ next \in Nat /\ msg \in Nat
        /\ faults \in Nat /\ Taken \in Int
        /\ Len(wire) \in Nat /\ DOMAIN wire = 1..Len(wire) /\ Len(inbox) \in Nat
    BY TransportConstants DEF TypeOK, Taken
  <1>1. faults = 0 /\ ~ConnectFails /\ (\A c \in Conns : ~Break(c))
    <2>1. \A c \in Conns : Break(c) => faults' = faults + 1
      BY Breaking
    <2>2. faults' = faults \/ faults' = faults + 1
      BY <2>1, Writing, Reading DEF Next, SenderThread, send, Take, ConnectFails, WriteFails,
         Drop, Fault, vars
    <2>3. faults = 0
      BY <1>0, <2>2
    <2> QED BY <2>1, <2>3 DEF ConnectFails, Fault
  <1>2. /\ attempt = 0 /\ Len(wire) <= 1 /\ stream = Len(wire) /\ alive = DOMAIN wire
        /\ \A i \in DOMAIN inbox : inbox[i] = i
        /\ \A c \in DOMAIN wire : \A i \in DOMAIN wire[c] : wire[c][i] = Len(inbox) + i
        /\ Taken = Len(inbox) + OnTheWay + (IF msg = 0 THEN 0 ELSE 1)
    BY <1>1 DEF InStep
  <1>3. ~WriteFails /\ ~Drop
    <2>1. MaxRetries # 0
      BY TransportConstants
    <2>2. ~Drop
      BY <1>2, <2>1 DEF Drop
    <2>3. WriteFails => faults' = faults + 1 \/ (stream # 0 /\ stream \notin alive)
      BY DEF WriteFails, Fault
    <2>4. stream # 0 => stream \in alive
      BY <1>0, <1>2
    <2> QED BY <1>1, <2>2, <2>3, <2>4
  <1>4. CASE send
    <2>1. /\ next' = next + 1 /\ queue' = Append(queue, next + 1)
          /\ UNCHANGED <<msg, attempt, stream, wire, alive, inbox>>
      BY <1>4 DEF send
    <2>2. Len(queue') = Len(queue) + 1
      BY <1>0, <2>1
    <2>3. Taken' = Taken
      BY <1>0, <2>1, <2>2 DEF Taken
    <2> QED BY <1>2, <2>1, <2>3 DEF InStep, OnTheWay
  <1>5. CASE Take
    <2>1. /\ queue # << >> /\ queue' = Tail(queue) /\ msg = 0 /\ msg' = Head(queue)
          /\ attempt' = 0 /\ UNCHANGED <<next, stream, wire, alive, inbox>>
      BY <1>5 DEF Take
    <2>2. Len(queue') = Len(queue) - 1 /\ Head(queue) \in 1..next
      BY <1>0, <2>1, TailElements
    <2>3. Taken' = Taken + 1 /\ msg' # 0
      BY <1>0, <2>1, <2>2 DEF Taken
    <2>4. OnTheWay' = OnTheWay /\ OnTheWay \in Nat
      BY <2>1, WayIsLength DEF OnTheWay
    <2> QED BY <1>0, <1>2, <2>1, <2>3, <2>4 DEF InStep
  <1>6. CASE WriteOnNew \/ WriteOnStream
    <2>1. /\ msg # 0 /\ msg' = 0 /\ attempt' = 0 /\ UNCHANGED <<next, queue, inbox>>
      BY <1>6, Writing
    <2>2. Taken' = Taken /\ msg = Taken
      BY <2>1 DEF Taken, Counted
    <2>3. /\ Len(wire') = 1 /\ DOMAIN wire' = {1} /\ stream' = 1 /\ alive' = {1}
          /\ OnTheWay \in Nat /\ Len(wire'[1]) = OnTheWay + 1
          /\ \A i \in DOMAIN wire'[1] : \/ wire'[1][i] = Len(inbox) + i
                                        \/ i = OnTheWay + 1 /\ wire'[1][i] = msg
      BY <1>2, <1>6, WritingInStep
    <2>4. msg = Len(inbox) + OnTheWay + 1
      BY <1>0, <1>2, <2>1, <2>2
    <2>5. \A i \in DOMAIN wire'[1] : wire'[1][i] = Len(inbox) + i
      BY <1>0, <2>3, <2>4
    <2>6. OnTheWay' = OnTheWay + 1
      BY <2>3 DEF OnTheWay
    <2>7. Taken' = Len(inbox') + OnTheWay'
      BY <1>0, <2>1, <2>2, <2>3, <2>4, <2>6
    <2>8. \A c \in DOMAIN wire' : \A i \in DOMAIN wire'[c] : wire'[c][i] = Len(inbox') + i
      BY <2>1, <2>3, <2>5
    <2>9. Len(inbox) + OnTheWay + 1 \in Nat
      BY <1>0, <2>3
    <2> QED BY <1>2, <2>1, <2>3, <2>6, <2>7, <2>8, <2>9, <1>0 DEF InStep
  <1>7. ASSUME NEW c \in Conns, Read(c) PROVE InStep'
    <2>1. PICK m \in 1..next :
           /\ 1 \in DOMAIN wire[c] /\ wire[c][1] = m
           /\ UNCHANGED <<next, queue, msg, attempt, stream, alive>>
           /\ inbox' = Append(inbox, m) /\ Len(wire') = Len(wire)
           /\ DOMAIN wire' = DOMAIN wire
           /\ Len(wire'[c]) = Len(wire[c]) - 1
           /\ \A i \in DOMAIN wire'[c] :
                 /\ i \in Nat /\ i + 1 \in DOMAIN wire[c]
                 /\ wire'[c][i] = wire[c][i + 1]
      BY <1>7, Reading
    <2>2. c = 1 /\ DOMAIN wire = {1} /\ Len(wire) = 1
      <3>1. c \in 1..Len(wire) /\ Len(wire) <= 1
        BY <1>0, <1>2 DEF Conns
      <3> QED BY <1>0, <3>1
    <2>3. Len(inbox') = Len(inbox) + 1
          /\ \A i \in DOMAIN inbox' : \/ i \in DOMAIN inbox /\ inbox'[i] = inbox[i]
                                      \/ i = Len(inbox) + 1 /\ inbox'[i] = m
      <3>1. PICK S : S = 1..next
        OBVIOUS
      <3>2. inbox \in Seq(S) /\ m \in S
        BY <3>1 DEF TypeOK
      <3> QED BY <2>1, <3>2, AppendElements
    <2>4. m = Len(inbox) + 1
      BY <1>2, <2>1, <2>2
    <2>5. \A i \in DOMAIN inbox' : inbox'[i] = i
      BY <1>2, <2>3, <2>4
    <2>6. \A i \in DOMAIN wire'[1] : wire'[1][i] = Len(inbox') + i
      <3> SUFFICES ASSUME NEW i \in DOMAIN wire'[1] PROVE wire'[1][i] = Len(inbox) + 1 + i
        BY <2>3
      <3>1. i \in Nat /\ i + 1 \in DOMAIN wire[1] /\ wire'[1][i] = wire[1][i + 1]
        BY <2>1, <2>2
      <3>2. wire[1][i + 1] = Len(inbox) + (i + 1)
        BY <1>2, <2>2, <3>1
      <3> QED BY <1>0, <3>1, <3>2
    <2>7. OnTheWay \in Nat /\ OnTheWay' = OnTheWay - 1
      BY <2>1, <2>2, WayIsLength DEF OnTheWay
    <2>8. Taken' = Taken /\ msg' = msg
      BY <2>1 DEF Taken
    <2>9. Taken' = Len(inbox') + OnTheWay' + (IF msg' = 0 THEN 0 ELSE 1)
      BY <1>0, <1>2, <2>3, <2>7, <2>8
    <2> QED BY <1>2, <2>1, <2>2, <2>5, <2>6, <2>9 DEF InStep
  <1>8. CASE UNCHANGED vars
    BY <1>8, <1>2 DEF vars, InStep, OnTheWay, Taken
  <1> QED BY <1>1, <1>3, <1>4, <1>5, <1>6, <1>7, <1>8 DEF Next, SenderThread

----------------------------------------------------------------------------
(* The theorems                                                            *)

\* Everything together is inductive.
THEOREM Inductive == Spec => []Inv
  <1>1. Init => Inv
    <2> SUFFICES ASSUME Init PROVE Inv
      OBVIOUS
    <2>1. TypeOK
      BY TypeInitially
    <2>2. /\ next = 0 /\ queue = << >> /\ msg = 0 /\ attempt = 0 /\ stream = 0
          /\ wire = << >> /\ alive = {} /\ inbox = << >> /\ dropped = {}
      BY DEF Init
    <2>3. Len(queue) = 0 /\ Len(wire) = 0 /\ Len(inbox) = 0
          /\ DOMAIN queue = {} /\ DOMAIN wire = {} /\ DOMAIN inbox = {}
      BY <2>2
    <2>4. Counted
      BY <2>2, <2>3 DEF Counted
    <2>5. OnePlace
      BY <2>2, <2>3 DEF OnePlace, NoDuplicate
    <2>6. InStep
      <3>1. Taken = 0 /\ OnTheWay = 0
        <4>1. next = 0
          BY <2>2
        <4>2. Taken = 0
          BY <2>3, <4>1 DEF Taken
        <4>3. OnTheWay = 0
          BY <2>3 DEF OnTheWay
        <4> QED BY <4>2, <4>3
      <3>2. /\ attempt = 0 /\ Len(wire) <= 1 /\ stream = Len(wire) /\ alive = DOMAIN wire
            /\ \A i \in DOMAIN inbox : inbox[i] = i
            /\ \A c \in DOMAIN wire : \A i \in DOMAIN wire[c] : wire[c][i] = Len(inbox) + i
        BY <2>2, <2>3
      <3>3. Taken = Len(inbox) + OnTheWay + (IF msg = 0 THEN 0 ELSE 1)
        BY <2>2, <2>3, <3>1
      <3> QED BY <3>2, <3>3 DEF InStep
    <2> QED BY <2>1, <2>4, <2>5, <2>6 DEF Inv
  <1>2. Inv /\ [Next]_vars => Inv'
    BY TypePreserved, CountedPreserved, OnePlacePreserved, InStepPreserved DEF Inv
  <1> QED BY <1>1, <1>2, PTL DEF Spec

\* Every variable of the transport keeps its type: in particular a message is
\* given at most MAX_RETRIES attempts by peer_sender_thread.
THEOREM TypeCorrect == Spec => []TypeOK
  <1>1. Inv => TypeOK
    BY DEF Inv
  <1> QED BY <1>1, Inductive, PTL

\* However often peer_sender_thread reconnects and writes again, no message
\* reaches the Raft loop of the peer twice.
THEOREM NeverTwice == Spec => []NoDuplicate
  <1>1. Inv => NoDuplicate
    BY DEF Inv, OnePlace
  <1> QED BY <1>1, Inductive, PTL

\* As long as no connect and no write has failed and no connection has broken,
\* the handler threads forward the messages in the order of the send() calls,
\* without a gap.
THEOREM KeepsOrder == Spec => []OrderedWithoutFaults
  <1>1. Inv => OrderedWithoutFaults
    BY DEF Inv, InStep, OrderedWithoutFaults
  <1> QED BY <1>1, Inductive, PTL

\* A message that peer_sender_thread reported as dropped never arrives later.
THEOREM DroppedForGood == Spec => []DroppedStaysDropped
  <1>1. Inv => DroppedStaysDropped
    BY DEF Inv, OnePlace, DroppedStaysDropped, Delivered
  <1> QED BY <1>1, Inductive, PTL
=============================================================================
