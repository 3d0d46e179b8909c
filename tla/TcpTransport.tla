---------------------------- MODULE TcpTransport ----------------------------
(***************************************************************************)
(* One direction of the transport between two servers (tcp_transport.rs):  *)
(* the channel and the peer_sender_thread on one side, the listener and    *)
(* its handle_connection threads, one per connection, on the other.        *)
(*                                                                         *)
(* Messages are numbered in the order send() was called.  TCP is external: *)
(* a connection delivers a prefix of what was written to it, in order; it  *)
(* may break at any time, and the writer notices only at a later write,    *)
(* so writes to a broken connection may succeed and be lost.  A frame of   *)
(* which only a part was written is never delivered.                       *)
(***************************************************************************)
EXTENDS Integers, Sequences

CONSTANTS
    MaxMsgs,       \* messages sent
    MaxRetries,    \* MAX_RETRIES, 3 in the code
    MaxFaults      \* bound on failed connects, failed writes, broken streams

ASSUME TransportConstants ==
    MaxMsgs \in Nat /\ MaxRetries \in Nat \ {0} /\ MaxFaults \in Nat

VARIABLES
    next,       \* messages handed to send() so far
    queue,      \* the unbounded channel to the sender thread
    msg,        \* the message the thread works on, 0 for none
    attempt,
    stream,     \* the connection in use, 0 for none
    wire,       \* per connection, what was written and not yet read
    alive,      \* connections that still carry data
    inbox,      \* what the handler threads have put into msg_rx
    dropped,    \* messages given up after MAX_RETRIES
    faults

vars == <<next, queue, msg, attempt, stream, wire, alive, inbox, dropped, faults>>

Delivered == {inbox[i] : i \in DOMAIN inbox}
Conns == DOMAIN wire

----------------------------------------------------------------------------
(* The sending side                                                        *)

\* TcpTransport::send
send ==
    /\ next < MaxMsgs
    /\ next' = next + 1
    /\ queue' = Append(queue, next + 1)
    /\ UNCHANGED <<msg, attempt, stream, wire, alive, inbox, dropped, faults>>

\* The for loop over the channel.
Take ==
    /\ msg = 0 /\ queue # << >>
    /\ msg' = Head(queue) /\ queue' = Tail(queue)
    /\ attempt' = 0
    /\ UNCHANGED <<next, stream, wire, alive, inbox, dropped, faults>>

\* Mutant: one attempt too many.
Working_Mutant == msg # 0 /\ attempt <= MaxRetries

Working == msg # 0 /\ attempt < MaxRetries

Fault == faults < MaxFaults /\ faults' = faults + 1

\* An attempt without a stream that cannot connect, or whose write fails on
\* the new connection.
ConnectFails ==
    /\ Working /\ stream = 0 /\ Fault
    /\ attempt' = attempt + 1
    /\ UNCHANGED <<next, queue, msg, stream, wire, alive, inbox, dropped>>

\* Mutant: the message is not marked as sent.
Written_MutantUnmarked(c, w, a) ==
    /\ wire' = IF c \in a THEN [w EXCEPT ![c] = Append(@, msg)] ELSE w
    /\ alive' = a
    /\ stream' = c
    /\ attempt' = attempt + 1
    /\ UNCHANGED <<next, queue, msg, inbox, dropped, faults>>

\* Mutant: the stream is not put back, every message gets its own.
Written_MutantNoStream(c, w, a) ==
    /\ wire' = IF c \in a THEN [w EXCEPT ![c] = Append(@, msg)] ELSE w
    /\ alive' = a
    /\ stream' = 0
    /\ msg' = 0 /\ attempt' = 0
    /\ UNCHANGED <<next, queue, inbox, dropped, faults>>

\* write_message: the frame is written, whether or not it will arrive.
Written(c, w, a) ==
    /\ wire' = IF c \in a THEN [w EXCEPT ![c] = Append(@, msg)] ELSE w
    /\ alive' = a
    /\ stream' = c
    /\ msg' = 0 /\ attempt' = 0
    /\ UNCHANGED <<next, queue, inbox, dropped, faults>>

WriteOnNew ==
    /\ Working /\ stream = 0
    /\ LET c == Len(wire) + 1 IN Written(c, Append(wire, << >>), alive \cup {c})

WriteOnStream == Working /\ stream # 0 /\ Written(stream, wire, alive)

\* The write fails: the stream is dropped, the message tried again.
WriteFails ==
    /\ Working
    /\ \/ stream # 0 /\ stream \notin alive /\ UNCHANGED faults
       \/ stream \in alive /\ Fault
    /\ stream' = 0
    /\ attempt' = attempt + 1
    /\ UNCHANGED <<next, queue, msg, wire, alive, inbox, dropped>>

\* Mutant: the comparison that ends the retries is off by one.
Drop_Mutant ==
    /\ msg # 0 /\ attempt > MaxRetries
    /\ dropped' = dropped \cup {msg}
    /\ msg' = 0 /\ attempt' = 0
    /\ UNCHANGED <<next, queue, stream, wire, alive, inbox, faults>>

\* "Dropped message after max retries"
Drop ==
    /\ msg # 0 /\ attempt = MaxRetries
    /\ dropped' = dropped \cup {msg}
    /\ msg' = 0 /\ attempt' = 0
    /\ UNCHANGED <<next, queue, stream, wire, alive, inbox, faults>>

----------------------------------------------------------------------------
(* The receiving side, and TCP                                             *)

\* A handler thread reads a frame and forwards it.
Read(c) ==
    /\ wire[c] # << >>
    /\ inbox' = Append(inbox, Head(wire[c]))
    /\ wire' = [wire EXCEPT ![c] = Tail(@)]
    /\ UNCHANGED <<next, queue, msg, attempt, stream, alive, dropped, faults>>

\* A connection breaks and what was not read is lost; the receiver's thread
\* ends.  The writer learns of it from a later write, if at all.
Break(c) ==
    /\ c \in alive /\ Fault
    /\ alive' = alive \ {c}
    /\ wire' = [wire EXCEPT ![c] = << >>]
    /\ UNCHANGED <<next, queue, msg, attempt, stream, inbox, dropped>>

Init ==
    /\ next = 0 /\ queue = << >> /\ msg = 0 /\ attempt = 0 /\ stream = 0
    /\ wire = << >> /\ alive = {} /\ inbox = << >> /\ dropped = {} /\ faults = 0

SenderThread ==
    Take \/ ConnectFails \/ WriteOnNew \/ WriteOnStream \/ WriteFails \/ Drop

Next == send \/ SenderThread \/ \E c \in Conns : Read(c) \/ Break(c)

\* The threads keep running; a connect or a write that does not fail
\* completes (both have no other way to block for ever: connect_timeout).
Fairness == WF_vars(SenderThread) /\ WF_vars(\E c \in Conns : Read(c))

Spec == Init /\ [][Next]_vars
FairSpec == Spec /\ Fairness

----------------------------------------------------------------------------
(* Properties                                                              *)

TypeOK ==
    /\ next \in 0..MaxMsgs /\ queue \in Seq(1..next)
    /\ msg \in 0..next /\ attempt \in 0..MaxRetries
    /\ wire \in Seq(Seq(1..next)) /\ stream \in 0..Len(wire)
    /\ alive \subseteq 1..Len(wire)
    /\ inbox \in Seq(1..next) /\ dropped \subseteq 1..next
    /\ faults \in 0..MaxFaults

\* No message reaches the Raft loop twice, retries on new connections
\* included: a message is written again only after a write that failed, and
\* a failed write leaves no whole frame behind.
NoDuplicate ==
    \A i, j \in DOMAIN inbox : inbox[i] = inbox[j] => i = j

\* Without a fault nothing is lost and nothing overtakes: what has arrived
\* is a prefix of what was sent.
OrderedWithoutFaults ==
    faults = 0 => \A i \in DOMAIN inbox : inbox[i] = i

\* A message given up was tried MAX_RETRIES times, and never arrives late.
DroppedStaysDropped == dropped \cap Delivered = {}

\* A peer that cannot be reached never blocks the messages after it for
\* good: the thread gets to every message that is sent.
QueueDrains ==
    \A m \in 1..MaxMsgs :
        (next >= m) ~> (msg # m /\ \A i \in DOMAIN queue : queue[i] # m)
=============================================================================
