--------------------------- MODULE ReplicatedMap ---------------------------
(***************************************************************************)
(* What the cluster promises its clients, without terms, logs or leaders.  *)
(*                                                                         *)
(* There is one growing sequence of chosen writes.  The map of a server is *)
(* what some prefix of it makes of the empty map: a GET reads the map of   *)
(* the server it is sent to (command_handler.rs), so it may be behind, but *)
(* never shows writes in another order, nor goes back unless the server    *)
(* was restarted.  A PUT is refused, or waits until it is answered with    *)
(* success or abandoned by its server; success means it has been chosen,   *)
(* and no write is chosen twice.                                           *)
(***************************************************************************)
EXTENDS Integers, Sequences

CONSTANTS Server, Ids, Empty   \* Empty is not one of Ids

VARIABLES
    chosen,    \* the chosen entries: PUTs by their ids, and empty entries
    machine,   \* the entries each server's map was made of
    status     \* where each PUT stands

vars == <<chosen, machine, status>>

Statuses == {"none", "pending", "not_leader", "ok", "dropped"}

\* `long` begins with `short`.
Extends(long, short) ==
    /\ Len(short) <= Len(long)
    /\ \A i \in 1..Len(short) : long[i] = short[i]

Occurs(e, q) == \E i \in 1..Len(q) : q[i] = e

Init ==
    /\ chosen = << >>
    /\ machine = [s \in Server |-> << >>]
    /\ status = [id \in Ids |-> "none"]

Send(id) ==
    /\ status[id] = "none"
    /\ status' = [status EXCEPT ![id] = "pending"]
    /\ UNCHANGED <<chosen, machine>>

Refuse(id) ==
    /\ status[id] = "none"
    /\ status' = [status EXCEPT ![id] = "not_leader"]
    /\ UNCHANGED <<chosen, machine>>

\* New entries are chosen: empty ones, and PUTs that were sent, each once.
MayFollow(old, new) ==
    /\ Extends(new, old)
    /\ \A i \in (Len(old) + 1)..Len(new) :
         new[i] # Empty =>
            /\ status[new[i]] \in {"pending", "dropped"}
            /\ \A j \in 1..(i - 1) : new[j] # new[i]

\* The chosen sequence becomes `new`, servers apply chosen entries, and a server answers
\* PUTs it has applied.
Progress ==
    /\ \E new \in {chosen'} :
        /\ new \in Seq(Ids \cup {Empty})
        /\ MayFollow(chosen, new)
        /\ \A s \in Server : Extends(new, machine'[s])
    /\ DOMAIN machine' = Server
    /\ \A s \in Server : Extends(machine'[s], machine[s])
    /\ \E S \in SUBSET {id \in Ids : status[id] = "pending"} :
            /\ \A id \in S : \E s \in Server : Occurs(id, machine'[s])
            /\ status' = [id \in Ids |-> IF id \in S THEN "ok" ELSE status[id]]

\* A server starts again with an empty map and without its callbacks.
Restart(s) ==
    /\ machine' = [machine EXCEPT ![s] = << >>]
    /\ \E S \in SUBSET {id \in Ids : status[id] = "pending"} :
            status' = [id \in Ids |-> IF id \in S THEN "dropped" ELSE status[id]]
    /\ UNCHANGED chosen

Next ==
    \/ \E id \in Ids : Send(id) \/ Refuse(id)
    \/ Progress
    \/ \E s \in Server : Restart(s)

Spec == Init /\ [][Next]_vars
=============================================================================
