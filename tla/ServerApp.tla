----------------------------- MODULE ServerApp -----------------------------
(***************************************************************************)
(* The server process around the Raft loop (raft-server/src/main.rs): the  *)
(* terminal interface on the main thread with its input line and its       *)
(* mirror of the key-value map, the loop on a thread of its own, and the   *)
(* channels between them: commands, state updates, shutdown.               *)
(*                                                                         *)
(* The loop is reduced to what the terminal can tell: it applies writes,   *)
(* takes commands, may fail, and stops when told to.  The input line is    *)
(* kept character by character because the cursor counts characters where  *)
(* String counts bytes; commands are abbreviated to their short forms.     *)
(* History, messages and drawing are left out.                             *)
(***************************************************************************)
EXTENDS Integers, Sequences, FiniteSets

CONSTANTS
    Ascii,       \* letters of one byte
    Wide,        \* letters of two bytes
    Blank,       \* the space
    Keys,        \* keys of the map; a value is the number of its write
    MaxLen,      \* bound on the characters of a line
    MaxQueue,    \* bound on queued commands
    MaxWrites    \* bound on writes to one key

ASSUME AppConstants ==
    /\ Ascii \cap Wide = {} /\ Blank \notin Ascii \cup Wide
    /\ MaxLen \in Nat /\ MaxQueue \in Nat /\ MaxWrites \in Nat

VARIABLES
    \* main thread
    tui,          \* "running", or how it ended
    input_mode, input, cursor_position,
    kv_store,     \* the mirror of the map
    exited,       \* the process is gone
    \* Raft thread
    driver,       \* "running", "stopped" or "failed"
    kv,           \* the map
    restored,     \* keys last set by a snapshot
    \* channels
    cmds, updates, shutdown

lineVars == <<input_mode, input, cursor_position>>
driverVars == <<driver, kv, restored>>
channelVars == <<cmds, updates, shutdown>>
vars == <<tui, lineVars, kv_store, exited, driverVars, channelVars>>

Ended == {"quit", "send_failed", "terminal_failed", "panicked"}
Chars == Ascii \cup Wide \cup {Blank}

----------------------------------------------------------------------------
(* Lines                                                                   *)

\* Bytes of the first n characters of s.
Bytes(s, n) == n + Cardinality({j \in 1..n : s[j] \in Wide})
Length(s) == Bytes(s, Len(s))

\* The number of characters before byte b, if b is where one begins or ends.
Boundaries(s) == {Bytes(s, n) : n \in 0..Len(s)}
Before(s, b) == CHOOSE n \in 0..Len(s) : Bytes(s, n) = b

\* Where the words of a line begin, and its first word.
WordStarts(s) ==
    {i \in 1..Len(s) : s[i] # Blank /\ (i = 1 \/ s[i - 1] = Blank)}
FirstWord(s) ==
    LET i == CHOOSE i \in WordStarts(s) : \A j \in WordStarts(s) : i <= j
        ends == {j \in i..Len(s) : j = Len(s) \/ s[j + 1] = Blank}
    IN  SubSeq(s, i, CHOOSE j \in ends : \A k \in ends : j <= k)

\* The words each command needs, its own included.
Needs == [p |-> 3, g |-> 2, k |-> 1, s |-> 1, c |-> 1]

\* A command, or nothing: an unknown word, or too few words after it.
parse_command(s) ==
    {verb \in DOMAIN Needs :
        /\ Cardinality(WordStarts(s)) >= Needs[verb]
        /\ FirstWord(s) = <<verb>>}

----------------------------------------------------------------------------
(* Keys.  An index at which no character begins makes String panic: the    *)
(* main thread unwinds past restore_terminal and the process is gone.      *)

Key == tui = "running" /\ ~exited

Panic ==
    /\ tui' = "panicked" /\ exited' = TRUE
    /\ UNCHANGED <<lineVars, kv_store, driverVars, channelVars>>

Edit(line, cursor) ==
    /\ input' = line /\ cursor_position' = cursor
    /\ UNCHANGED <<tui, input_mode, kv_store, exited, driverVars, channelVars>>

Type(c) ==
    /\ Key /\ input_mode = "Editing" /\ Len(input) < MaxLen
    /\ IF cursor_position \notin Boundaries(input) THEN Panic
       ELSE LET n == Before(input, cursor_position)
            IN  Edit(SubSeq(input, 1, n) \o <<c>> \o SubSeq(input, n + 1, Len(input)),
                     cursor_position + 1)

Backspace ==
    /\ Key /\ input_mode = "Editing" /\ cursor_position > 0
    /\ IF cursor_position - 1 \notin Boundaries(input) \ {Length(input)} THEN Panic
       ELSE LET n == Before(input, cursor_position - 1)
            IN  Edit(SubSeq(input, 1, n) \o SubSeq(input, n + 2, Len(input)),
                     cursor_position - 1)

Left ==
    /\ Key /\ input_mode = "Editing" /\ cursor_position > 0
    /\ Edit(input, cursor_position - 1)

\* Mutant: no bound.
Right_Mutant ==
    /\ Key /\ input_mode = "Editing" /\ cursor_position <= Length(input)
    /\ Edit(input, cursor_position + 1)

Right ==
    /\ Key /\ input_mode = "Editing" /\ cursor_position < Length(input)
    /\ Edit(input, cursor_position + 1)

SwitchMode ==
    /\ Key
    /\ input_mode' = IF input_mode = "Editing" THEN "Normal" ELSE "Editing"
    /\ UNCHANGED <<tui, input, cursor_position, kv_store, exited, driverVars,
                   channelVars>>

\* Mutant: the cursor stays where it was.
Submit_Mutant ==
    /\ Key /\ input_mode = "Editing"
    /\ input' = << >>
    /\ UNCHANGED <<tui, cursor_position, cmds, input_mode, kv_store, exited,
                   driverVars, updates, shutdown>>

\* Enter: the line is taken, and sent if it is a command; with the loop gone
\* the send fails and ends the interface.
Submit ==
    /\ Key /\ input_mode = "Editing"
    /\ input' = << >> /\ cursor_position' = 0
    /\ \/ parse_command(input) = {} /\ UNCHANGED <<tui, cmds>>
       \/ \E verb \in parse_command(input) :
            IF driver = "running"
            THEN /\ Len(cmds) < MaxQueue
                 /\ cmds' = Append(cmds, verb)
                 /\ UNCHANGED tui
            ELSE tui' = "send_failed" /\ UNCHANGED cmds
    /\ UNCHANGED <<input_mode, kv_store, exited, driverVars, updates, shutdown>>

\* Mutant: the interface ends without telling the loop.
Quit_Mutant ==
    /\ Key
    /\ tui' = "quit"
    /\ UNCHANGED <<lineVars, kv_store, exited, driverVars, channelVars>>

\* 'q' in normal mode, Ctrl-C or a line that says quit or exit: the loop is
\* told to stop, if it is still there to be told.
Quit ==
    /\ Key
    /\ IF driver = "running" THEN tui' = "quit" /\ shutdown' = TRUE
       ELSE tui' = "send_failed" /\ UNCHANGED shutdown
    /\ UNCHANGED <<lineVars, kv_store, exited, driverVars, cmds, updates>>

----------------------------------------------------------------------------
(* The rest of run_tui and of main                                         *)

\* The mirror once it has taken over the updates q.
After(q) ==
    [k \in Keys |->
        LET mine == {i \in DOMAIN q : q[i].key = k}
        IN  IF mine = {} THEN kv_store[k]
            ELSE q[CHOOSE i \in mine : \A j \in mine : j <= i].value]

\* Mutant: one update per round, the others are lost.
DrainUpdates_Mutant ==
    /\ Key /\ updates # << >>
    /\ kv_store' = After(<<Head(updates)>>) /\ updates' = << >>
    /\ UNCHANGED <<tui, lineVars, exited, driverVars, cmds, shutdown>>

\* All pending updates, before every drawing.
DrainUpdates ==
    /\ Key /\ updates # << >>
    /\ kv_store' = After(updates) /\ updates' = << >>
    /\ UNCHANGED <<tui, lineVars, exited, driverVars, cmds, shutdown>>

\* setup_terminal, draw, poll or read reports an error.
TerminalFails ==
    /\ Key
    /\ tui' = "terminal_failed"
    /\ UNCHANGED <<lineVars, kv_store, exited, driverVars, channelVars>>

\* main joins the Raft thread and returns, or panics if that thread has.
Join ==
    /\ tui \in Ended /\ ~exited
    /\ driver # "running"
    /\ exited' = TRUE
    /\ UNCHANGED <<tui, lineVars, kv_store, driverVars, channelVars>>

----------------------------------------------------------------------------
(* The Raft thread                                                         *)

Driving == driver = "running" /\ ~exited

HandleCommand ==
    /\ Driving /\ cmds # << >>
    /\ cmds' = Tail(cmds)
    /\ UNCHANGED <<tui, lineVars, kv_store, exited, driverVars, updates, shutdown>>

\* A committed PUT, whoever made it: the map changes and the terminal is told.
ApplyPut(k) ==
    /\ Driving /\ kv[k] < MaxWrites
    /\ kv' = [kv EXCEPT ![k] = @ + 1]
    /\ updates' = Append(updates, [key |-> k, value |-> kv[k] + 1])
    /\ restored' = restored \ {k}
    /\ UNCHANGED <<tui, lineVars, kv_store, exited, driver, cmds, shutdown>>

\* A snapshot replaces the map; no KvUpdate is sent for it.
RestoreSnapshot(k) ==
    /\ Driving /\ kv[k] < MaxWrites
    /\ kv' = [kv EXCEPT ![k] = @ + 1]
    /\ restored' = restored \cup {k}
    /\ UNCHANGED <<tui, lineVars, kv_store, exited, driver, channelVars>>

\* A storage error ends run(), or raft-rs panics; the receivers are dropped.
DriverFails ==
    /\ Driving
    /\ driver' = "failed"
    /\ cmds' = << >>
    /\ UNCHANGED <<tui, lineVars, kv_store, exited, kv, restored, updates, shutdown>>

\* select! picks the shutdown channel; commands still queued are dropped.
DriverStops ==
    /\ Driving /\ shutdown
    /\ driver' = "stopped"
    /\ cmds' = << >>
    /\ UNCHANGED <<tui, lineVars, kv_store, exited, kv, restored, updates, shutdown>>

----------------------------------------------------------------------------

Init ==
    /\ tui = "running" /\ exited = FALSE
    /\ input_mode = "Editing" /\ input = << >> /\ cursor_position = 0
    /\ kv = [k \in Keys |-> 0] /\ kv_store = kv /\ restored = {}
    /\ driver = "running"
    /\ cmds = << >> /\ updates = << >> /\ shutdown = FALSE

HandleKey ==
    \/ \E c \in Chars : Type(c)
    \/ Backspace \/ Left \/ Right \/ SwitchMode \/ Submit \/ Quit

Next ==
    \/ HandleKey \/ DrainUpdates \/ TerminalFails \/ Join
    \/ HandleCommand \/ DriverFails \/ DriverStops
    \/ \E k \in Keys : ApplyPut(k) \/ RestoreSnapshot(k)

\* Both threads go on.  crossbeam's select! chooses among the ready channels
\* at random, so a pending shutdown is taken in the end whatever else
\* arrives.  Nothing is assumed of the user, the terminal or the cluster.
Fairness ==
    /\ WF_vars(DrainUpdates) /\ WF_vars(Join)
    /\ WF_vars(HandleCommand) /\ SF_vars(DriverStops)

Spec == Init /\ [][Next]_vars
FairSpec == Spec /\ Fairness

----------------------------------------------------------------------------
(* Properties                                                              *)

TypeOK ==
    /\ tui \in {"running"} \cup Ended /\ exited \in BOOLEAN
    /\ input_mode \in {"Normal", "Editing"}
    /\ input \in Seq(Chars) /\ cursor_position \in 0..Length(input)
    /\ driver \in {"running", "stopped", "failed"}
    /\ kv \in [Keys -> 0..MaxWrites] /\ kv_store \in [Keys -> 0..MaxWrites]
    /\ restored \subseteq Keys
    /\ cmds \in Seq(DOMAIN Needs)
    /\ updates \in Seq([key : Keys, value : 1..MaxWrites])
    /\ shutdown \in BOOLEAN

\* No sequence of keys brings the interface down as long as the line holds
\* ASCII only: the cursor then always points between two characters.  (With
\* a wider character in the line it does: cursor_position counts characters,
\* String::insert and String::remove count bytes.)
AsciiNeverPanics ==
    tui = "panicked" => \E j \in DOMAIN input : input[j] \in Wide

\* What the terminal shows, once it has taken over the updates on their way,
\* is the map, for every key written since a snapshot was last restored: an
\* update is sent for every applied PUT, in the order they are applied.
MirrorFollowsMap == \A k \in Keys \ restored : After(updates)[k] = kv[k]

\* A server that is told to quit, or whose loop has died under a command,
\* ends: the loop takes the shutdown whatever else keeps it busy, and main
\* does not wait for a loop that is gone.  (After a terminal error nobody
\* tells the loop, and main waits for it for ever.)
ProcessEnds == (tui \in {"quit", "send_failed"}) ~> exited
=============================================================================
