-------------------------- MODULE ServerAppProofs --------------------------
(***************************************************************************)
(* The input line and the mirror of the terminal, for any alphabet, any    *)
(* length of lines, any keys and any number of writes.                     *)
(***************************************************************************)
EXTENDS ServerApp, SequenceTheorems, FiniteSetTheorems, WellFoundedInduction, TLAPS

----------------------------------------------------------------------------
(* The mirror                                                              *)

Update == [key : Keys, value : Nat]

MirrorShape ==
    /\ kv \in [Keys -> Nat] /\ kv_store \in [Keys -> Nat]
    /\ updates \in Seq(Update)

\* Without updates the mirror is what it shows.
LEMMA NothingPending ==
    ASSUME kv_store \in [Keys -> Nat], NEW k \in Keys PROVE After(<< >>)[k] = kv_store[k]
  BY DEF After

\* Some updates of a queue have a last one among them.
LEMMA LastOfSome ==
    ASSUME NEW N \in Nat, NEW S, S \subseteq 1..N, S # {}
    PROVE  \E i \in S : \A n \in S : n <= i
  <1> DEFINE Bounds == {b \in Nat : \A n \in S : n <= b}
  <1>1. N \in Bounds
    OBVIOUS
  <1>2. PICK b \in Bounds : \A c \in Bounds : ~ (<<c, b>> \in OpToRel(<, Nat))
    <2> HIDE DEF Bounds
    <2>1. Bounds \subseteq Nat
      BY DEF Bounds
    <2> QED BY <1>1, <2>1, NatLessThanWellFounded, WFMin
  <1>3. \A c \in Bounds : ~ (c < b)
    BY <1>2 DEF OpToRel
  <1>4. CASE b \in S
    BY <1>4
  <1>5. CASE b \notin S
    <2>1. \A n \in S : n \in 1..N /\ n <= b - 1
      BY <1>5
    <2>2. PICK n : n \in S
      OBVIOUS
    <2>3. b - 1 \in Nat
      BY <2>1, <2>2
    <2>4. b - 1 \in Bounds
      BY <2>1, <2>3
    <2> QED BY <1>3, <2>4
  <1> QED BY <1>4, <1>5

\* A new update decides its key and no other.
LEMMA UpdatePending ==
    ASSUME NEW q \in Seq(Update), NEW j \in Keys, NEW v \in Nat, NEW k \in Keys
    PROVE  After(Append(q, [key |-> j, value |-> v]))[k] =
                IF k = j THEN v ELSE After(q)[k]
  <1> DEFINE e == [key |-> j, value |-> v]
             r == Append(q, e)
             Mine(s) == {i \in DOMAIN s : s[i].key = k}
             Latest(S) == CHOOSE i \in S : \A n \in S : n <= i
  <1>1. e \in Update
    BY DEF Update
  <1>2. /\ Len(q) \in Nat /\ DOMAIN q = 1..Len(q) /\ DOMAIN r = 1..(Len(q) + 1)
        /\ r[Len(q) + 1] = e /\ \A i \in 1..Len(q) : r[i] = q[i]
    <2> HIDE DEF e
    <2> QED BY <1>1
  <1>3. \A s : After(s)[k] = IF Mine(s) = {} THEN kv_store[k] ELSE s[Latest(Mine(s))].value
    BY DEF After
  <1>4. e.value = v /\ e.key = j
    OBVIOUS
  <1> HIDE DEF r, e
  <1>5. ASSUME k = j PROVE After(r)[k] = v
    <2>1. Len(q) + 1 \in Mine(r) /\ \A n \in Mine(r) : n <= Len(q) + 1
      BY <1>2, <1>5, <1>4
    <2>2. Latest(Mine(r)) = Len(q) + 1
      <3>1. Latest(Mine(r)) \in Mine(r) /\ \A n \in Mine(r) : n <= Latest(Mine(r))
        BY <2>1
      <3> QED BY <1>2, <2>1, <3>1
    <2> QED BY <1>2, <1>3, <1>4, <2>1, <2>2
  <1>6. ASSUME k # j PROVE After(r)[k] = After(q)[k]
    <2>1. Mine(r) = Mine(q)
      BY <1>2, <1>6, <1>4
    <2>2. CASE Mine(q) = {}
      BY <1>3, <2>1, <2>2
    <2>3. CASE Mine(q) # {}
      <3>1. Mine(q) \subseteq 1..Len(q)
        BY <1>2
      <3>2. \E i \in Mine(q) : \A n \in Mine(q) : n <= i
        <4> HIDE DEF Mine
        <4> QED BY <1>2, <2>3, <3>1, LastOfSome
      <3>3. Latest(Mine(q)) \in Mine(q)
        BY <3>2
      <3>4. r[Latest(Mine(q))] = q[Latest(Mine(q))]
        BY <1>2, <3>1, <3>3
      <3> HIDE DEF Mine, Latest
      <3> QED BY <1>3, <2>1, <2>3, <3>4
    <2> QED BY <2>2, <2>3
  <1> QED BY <1>5, <1>6 DEF r, e

\* What the terminal has taken over is a map.
LEMMA AfterIsMap ==
    ASSUME MirrorShape PROVE After(updates) \in [Keys -> Nat]
  <1> DEFINE Mine(k) == {i \in DOMAIN updates : updates[i].key = k}
  <1>1. Len(updates) \in Nat /\ DOMAIN updates = 1..Len(updates)
        /\ \A i \in DOMAIN updates : updates[i].value \in Nat
    <2>1. updates \in Seq(Update)
      BY DEF MirrorShape
    <2>2. Len(updates) \in Nat /\ DOMAIN updates = 1..Len(updates)
          /\ \A i \in DOMAIN updates : updates[i] \in Update
      BY <2>1
    <2> QED BY <2>2 DEF Update
  <1>2. ASSUME NEW k \in Keys, Mine(k) # {}
        PROVE  (CHOOSE i \in Mine(k) : \A j \in Mine(k) : j <= i) \in DOMAIN updates
    <2>1. \E i \in Mine(k) : \A j \in Mine(k) : j <= i
      <3>1. Mine(k) \subseteq 1..Len(updates)
        BY <1>1
      <3> HIDE DEF Mine
      <3> QED BY <1>1, <1>2, <3>1, LastOfSome
    <2> QED BY <2>1
  <1>3. ASSUME NEW k \in Keys
        PROVE  (IF Mine(k) = {} THEN kv_store[k]
                ELSE updates[CHOOSE i \in Mine(k) : \A j \in Mine(k) : j <= i].value) \in Nat
    BY <1>1, <1>2 DEF MirrorShape
  <1> QED BY <1>3 DEF After

\* Each action keeps the mirror: a PUT and a restored snapshot change the map,
\* DrainUpdates moves updates into the mirror, nothing else touches either.
LEMMA MirrorStays ==
    ASSUME MirrorShape, MirrorFollowsMap, [Next]_vars
    PROVE  MirrorShape' /\ MirrorFollowsMap'
  <1>1. ASSUME NEW j \in Keys, ApplyPut(j) PROVE MirrorShape' /\ MirrorFollowsMap'
    <2> DEFINE v == kv[j] + 1
    <2>1. /\ kv' = [kv EXCEPT ![j] = v] /\ updates' = Append(updates, [key |-> j, value |-> v])
          /\ restored' = restored \ {j} /\ kv_store' = kv_store
      BY <1>1 DEF ApplyPut
    <2>2. v \in Nat /\ [key |-> j, value |-> v] \in Update
      BY DEF MirrorShape, Update
    <2> HIDE DEF v
    <2>3. MirrorShape'
      BY <2>1, <2>2 DEF MirrorShape
    <2>4. ASSUME NEW k \in Keys PROVE After(updates)'[k] = IF k = j THEN v ELSE After(updates)[k]
      <3>1. After(updates') = After(updates)'
        BY <2>1 DEF After
      <3>2. After(updates')[k] = IF k = j THEN v ELSE After(updates)[k]
        BY <2>1, <2>2, UpdatePending DEF MirrorShape
      <3> QED BY <3>1, <3>2
    <2>5. ASSUME NEW k \in Keys, k \notin restored' PROVE After(updates)'[k] = kv'[k]
      BY <2>1, <2>2, <2>4, <2>5 DEF MirrorFollowsMap, MirrorShape
    <2> QED BY <2>3, <2>5 DEF MirrorFollowsMap
  <1>2. ASSUME NEW j \in Keys, RestoreSnapshot(j) PROVE MirrorShape' /\ MirrorFollowsMap'
    <2>1. /\ kv' = [kv EXCEPT ![j] = kv[j] + 1] /\ updates' = updates
          /\ restored' = restored \cup {j} /\ kv_store' = kv_store
      BY <1>2 DEF RestoreSnapshot, channelVars
    <2>2. MirrorShape'
      BY <2>1 DEF MirrorShape
    <2>3. After(updates)' = After(updates)
      BY <2>1 DEF After
    <2> QED BY <2>1, <2>2, <2>3 DEF MirrorFollowsMap, MirrorShape
  <1>3. CASE DrainUpdates
    <2>1. /\ kv_store' = After(updates) /\ updates' = << >> /\ kv' = kv
          /\ restored' = restored
      BY <1>3 DEF DrainUpdates, driverVars
    <2>2. MirrorShape'
      BY <2>1, AfterIsMap DEF MirrorShape
    <2>3. ASSUME NEW k \in Keys PROVE After(updates)'[k] = After(updates)[k]
      BY <2>1, AfterIsMap DEF After
    <2> QED BY <2>1, <2>2, <2>3 DEF MirrorFollowsMap
  <1>4. CASE UNCHANGED <<kv, kv_store, updates, restored>>
    <2>1. After(updates)' = After(updates)
      BY <1>4 DEF After
    <2>2. MirrorShape'
      BY <1>4 DEF MirrorShape
    <2> QED BY <1>4, <2>1, <2>2 DEF MirrorFollowsMap
  <1>5. CASE HandleKey \/ TerminalFails \/ Join \/ UNCHANGED vars
    BY <1>4, <1>5 DEF HandleKey, Type, Backspace, Left, Right, SwitchMode, Submit, Quit, Edit,
       Panic, TerminalFails, Join, vars, driverVars, channelVars
  <1>6. CASE HandleCommand \/ DriverFails \/ DriverStops
    BY <1>4, <1>6 DEF HandleCommand, DriverFails, DriverStops, driverVars
  <1> QED BY <1>1, <1>2, <1>3, <1>5, <1>6 DEF Next

----------------------------------------------------------------------------
(* The input line                                                          *)

\* A line without a wide letter.
Plain(s) == \A j \in DOMAIN s : s[j] \notin Wide

\* In such a line the cursor, counted in characters, is a position in bytes.
LineShape ==
    /\ input \in Seq(Chars)
    /\ Plain(input) => cursor_position \in 0..Len(input)

Lines == LineShape /\ AsciiNeverPanics

\* Up to the first wide letter bytes count characters.
LEMMA PlainBytes ==
    ASSUME NEW s, NEW n \in Nat, \A j \in 1..n : s[j] \notin Wide
    PROVE  Bytes(s, n) = n
  <1>1. {j \in 1..n : s[j] \in Wide} = {}
    OBVIOUS
  <1>2. Bytes(s, n) = n + Cardinality({})
    BY <1>1, Zenon DEF Bytes
  <1> QED BY <1>2, FS_EmptySet

\* So in an ASCII line every place is a boundary.
LEMMA PlainLine ==
    ASSUME NEW s \in Seq(Chars), Plain(s)
    PROVE  /\ Length(s) = Len(s) /\ Boundaries(s) = 0..Len(s)
           /\ \A b \in 0..Len(s) : Before(s, b) = b
  <1>1. Len(s) \in Nat /\ DOMAIN s = 1..Len(s)
    OBVIOUS
  <1>2. \A n \in 0..Len(s) : Bytes(s, n) = n
    BY <1>1, PlainBytes DEF Plain
  <1>3. Length(s) = Len(s)
    BY <1>1, <1>2 DEF Length
  <1>4. Boundaries(s) = 0..Len(s)
    BY <1>2 DEF Boundaries
  <1>5. \A b \in 0..Len(s) : Before(s, b) = b
    BY <1>2 DEF Before
  <1> QED BY <1>3, <1>4, <1>5

\* The character before which a byte lies.
LEMMA BeforeIsThere ==
    ASSUME NEW s, NEW b \in Boundaries(s)
    PROVE  Before(s, b) \in 0..Len(s) /\ Bytes(s, Before(s, b)) = b
  <1>1. \E n \in 0..Len(s) : Bytes(s, n) = b
    BY DEF Boundaries
  <1> QED BY <1>1 DEF Before

\* The first characters of a line.
LEMMA Prefix ==
    ASSUME NEW s \in Seq(Chars), NEW n \in 0..Len(s)
    PROVE  /\ SubSeq(s, 1, n) \in Seq(Chars) /\ Len(SubSeq(s, 1, n)) = n
           /\ \A j \in 1..n : SubSeq(s, 1, n)[j] = s[j]
  <1>1. Len(s) \in Nat /\ \A j \in 1..n : s[j] \in Chars
    OBVIOUS
  <1> QED BY <1>1, SubSeqProperties

\* The last ones.
LEMMA Suffix ==
    ASSUME NEW s \in Seq(Chars), NEW m \in 1..(Len(s) + 1)
    PROVE  /\ SubSeq(s, m, Len(s)) \in Seq(Chars)
           /\ Len(SubSeq(s, m, Len(s))) = Len(s) - m + 1
           /\ \A j \in 1..(Len(s) - m + 1) : SubSeq(s, m, Len(s))[j] = s[m + j - 1]
  <1>1. Len(s) \in Nat /\ \A j \in m..Len(s) : s[j] \in Chars
    OBVIOUS
  <1> QED BY <1>1, SubSeqProperties

\* A letter put in: what lies before the cursor stays before it.
LEMMA TypeEffect ==
    ASSUME input \in Seq(Chars), NEW c \in Chars, Type(c), cursor_position \in Boundaries(input)
    PROVE  /\ cursor_position' = cursor_position + 1 /\ tui' = tui /\ input' \in Seq(Chars)
           /\ \E n \in 0..Len(input) :
                /\ Bytes(input, n) = cursor_position /\ Len(input') = Len(input) + 1
                /\ \A j \in 1..n : input'[j] = input[j]
                /\ \A j \in 1..(Len(input) - n) : input'[n + 1 + j] = input[n + j]
  <1> DEFINE n == Before(input, cursor_position)
             left == SubSeq(input, 1, n)
             right == SubSeq(input, n + 1, Len(input))
  <1>1. /\ input' = (left \o <<c>>) \o right /\ cursor_position' = cursor_position + 1
        /\ tui' = tui
    BY DEF Type, Edit
  <1>8. Len(input) \in Nat
    OBVIOUS
  <1>2. n \in 0..Len(input) /\ Bytes(input, n) = cursor_position
    BY BeforeIsThere
  <1>3. /\ left \in Seq(Chars) /\ Len(left) = n /\ \A j \in 1..n : left[j] = input[j]
    BY <1>2, Prefix
  <1>4. /\ right \in Seq(Chars) /\ Len(right) = Len(input) - n
        /\ \A j \in 1..(Len(input) - n) : right[j] = input[n + j]
    BY <1>2, <1>8, Suffix
  <1> HIDE DEF n, left, right
  <1> DEFINE head == left \o <<c>>
  <1>5. /\ head \in Seq(Chars) /\ Len(head) = n + 1
        /\ \A j \in 1..n : head[j] = input[j]
    BY <1>2, <1>3
  <1>6. /\ input' \in Seq(Chars) /\ Len(input') = Len(input) + 1
        /\ \A j \in 1..n : input'[j] = input[j]
        /\ \A j \in 1..(Len(input) - n) : input'[n + 1 + j] = input[n + j]
    <2>1. input' = head \o right
      BY <1>1
    <2> HIDE DEF head
    <2>2. /\ head \o right \in Seq(Chars) /\ Len(head \o right) = Len(head) + Len(right)
          /\ \A j \in 1..(Len(head) + Len(right)) :
               (head \o right)[j] = IF j <= Len(head) THEN head[j] ELSE right[j - Len(head)]
      BY <1>4, <1>5, ConcatProperties
    <2>3. n \in Nat /\ n <= Len(input) /\ Len(head) + Len(right) = Len(input) + 1
      BY <1>2, <1>4, <1>5, <1>8
    <2>4. input' \in Seq(Chars) /\ Len(input') = Len(input) + 1
      BY <2>1, <2>2, <2>3
    <2>5. ASSUME NEW j \in 1..n PROVE input'[j] = input[j]
      <3>1. j \in 1..(Len(input) + 1) /\ j <= n + 1
        BY <1>8, <2>3
      <3> QED BY <1>5, <2>1, <2>2, <2>3, <3>1
    <2>6. ASSUME NEW j \in 1..(Len(input) - n) PROVE input'[n + 1 + j] = input[n + j]
      <3>1. /\ n + 1 + j \in 1..(Len(input) + 1) /\ ~(n + 1 + j <= n + 1)
            /\ n + 1 + j - (n + 1) = j
        BY <1>8, <2>3
      <3> QED BY <1>4, <1>5, <2>1, <2>2, <2>3, <3>1
    <2> QED BY <2>4, <2>5, <2>6
  <1>7. \E m \in 0..Len(input) :
            /\ Bytes(input, m) = cursor_position /\ Len(input') = Len(input) + 1
            /\ \A j \in 1..m : input'[j] = input[j]
            /\ \A j \in 1..(Len(input) - m) : input'[m + 1 + j] = input[m + j]
    BY <1>2, <1>6
  <1> QED BY <1>1, <1>6, <1>7

\* A letter put into an ASCII line.
LEMMA TypeKeepsLine ==
    ASSUME Lines, NEW c \in Chars, Type(c)
    PROVE  Lines'
  <1>1. input \in Seq(Chars) /\ Len(input) \in Nat /\ tui = "running"
        /\ (Plain(input) => cursor_position \in 0..Len(input))
    BY DEF Lines, LineShape, Type, Key
  <1>2. CASE cursor_position \notin Boundaries(input)
    <2>1. UNCHANGED <<input, cursor_position>>
      BY <1>2 DEF Type, Panic, lineVars
    <2>2. ~Plain(input)
      BY <1>1, <1>2, PlainLine
    <2> QED BY <1>1, <2>1, <2>2 DEF Lines, LineShape, AsciiNeverPanics, Plain
  <1>3. CASE cursor_position \in Boundaries(input)
    <2>1. cursor_position' = cursor_position + 1 /\ tui' = tui /\ input' \in Seq(Chars)
      BY <1>1, <1>3, TypeEffect
    <2>2. PICK n \in 0..Len(input) :
            /\ Len(input') = Len(input) + 1 /\ \A j \in 1..n : input'[j] = input[j]
            /\ \A j \in 1..(Len(input) - n) : input'[n + 1 + j] = input[n + j]
      BY <1>1, <1>3, TypeEffect
    <2>3. ASSUME Plain(input') PROVE Plain(input)
      <3> SUFFICES ASSUME NEW j \in DOMAIN input PROVE input[j] \notin Wide
        BY DEF Plain
      <3>1. DOMAIN input = 1..Len(input) /\ DOMAIN input' = 1..(Len(input) + 1)
        BY <1>1, <2>1, <2>2
      <3>2. CASE j <= n
        BY <2>2, <2>3, <3>1, <3>2 DEF Plain
      <3>3. CASE j > n
        <4>1. j - n \in 1..(Len(input) - n) /\ n + 1 + (j - n) = j + 1
              /\ n + (j - n) = j
          BY <1>1, <3>1, <3>3
        <4>2. input'[j + 1] = input[j] /\ j + 1 \in DOMAIN input'
          BY <1>1, <2>2, <3>1, <4>1
        <4> QED BY <2>3, <4>2 DEF Plain
      <3> QED BY <1>1, <3>1, <3>2, <3>3
    <2>4. Plain(input') => cursor_position' \in 0..Len(input')
      BY <1>1, <2>1, <2>2, <2>3
    <2>5. tui' # "panicked"
      BY <1>1, <2>1
    <2> QED BY <2>1, <2>4, <2>5 DEF Lines, LineShape, AsciiNeverPanics, Plain
  <1> QED BY <1>2, <1>3

\* A letter taken out: the cursor is where it began.
LEMMA BackspaceEffect ==
    ASSUME input \in Seq(Chars), Backspace, cursor_position - 1 \in Boundaries(input) \ {Length(input)}
    PROVE  /\ cursor_position' = cursor_position - 1 /\ tui' = tui /\ input' \in Seq(Chars)
           /\ \E n \in 0..Len(input) :
                /\ Bytes(input, n) = cursor_position' /\ n <= Len(input')
                /\ \A j \in 1..n : input'[j] = input[j]
  <1> DEFINE b == cursor_position - 1
             n == Before(input, b)
             left == SubSeq(input, 1, n)
             right == SubSeq(input, n + 2, Len(input))
  <1>1. /\ input' = left \o right /\ cursor_position' = b /\ tui' = tui
    BY DEF Backspace, Edit
  <1>8. Len(input) \in Nat
    OBVIOUS
  <1>2. n \in 0..Len(input) /\ Bytes(input, n) = b
    BY BeforeIsThere
  <1>3. n # Len(input)
    BY <1>2 DEF Length
  <1>4. /\ left \in Seq(Chars) /\ Len(left) = n /\ \A j \in 1..n : left[j] = input[j]
    BY <1>2, Prefix
  <1>5. right \in Seq(Chars) /\ Len(right) = Len(input) - n - 1
    <2>1. n + 2 \in 1..(Len(input) + 1)
      BY <1>2, <1>3, <1>8
    <2> QED BY <1>2, <1>8, <2>1, Suffix
  <1>6. cursor_position' = cursor_position - 1
    BY <1>1
  <1> HIDE DEF n, left, right, b
  <1>7. /\ input' \in Seq(Chars) /\ n <= Len(input')
        /\ \A j \in 1..n : input'[j] = input[j]
    <2>1. n \in Nat /\ n <= Len(input) - 1
      BY <1>2, <1>3, <1>8
    <2>2. /\ left \o right \in Seq(Chars) /\ Len(left \o right) = Len(left) + Len(right)
          /\ \A j \in 1..(Len(left) + Len(right)) :
               (left \o right)[j] = IF j <= Len(left) THEN left[j]
                                    ELSE right[j - Len(left)]
      BY <1>4, <1>5, ConcatProperties
    <2>3. input' = left \o right
      BY <1>1
    <2>4. Len(input') = Len(input) - 1
      <3>1. Len(left) + Len(right) = Len(input) - 1
        BY <1>4, <1>5, <1>8, <2>1
      <3>2. Len(input') = Len(left) + Len(right)
        BY <2>2, <2>3
      <3> QED BY <3>1, <3>2
    <2>5. ASSUME NEW j \in 1..n PROVE input'[j] = input[j]
      <3>1. j \in 1..(Len(left) + Len(right)) /\ j <= Len(left)
        BY <1>4, <1>5, <1>8, <2>1
      <3> QED BY <1>4, <2>2, <2>3, <3>1
    <2> QED BY <1>8, <2>1, <2>2, <2>3, <2>4, <2>5
  <1> QED BY <1>1, <1>2, <1>6, <1>7

\* A letter taken out of an ASCII line.
LEMMA BackspaceKeepsLine ==
    ASSUME Lines, Backspace
    PROVE  Lines'
  <1>1. /\ input \in Seq(Chars) /\ Len(input) \in Nat /\ tui = "running"
        /\ (Plain(input) => cursor_position \in 0..Len(input))
        /\ cursor_position > 0
    BY DEF Lines, LineShape, Backspace, Key
  <1>2. CASE cursor_position - 1 \notin Boundaries(input) \ {Length(input)}
    <2>1. UNCHANGED <<input, cursor_position>>
      BY <1>2 DEF Backspace, Panic, lineVars
    <2>2. ~Plain(input)
      <3> SUFFICES ASSUME Plain(input) PROVE FALSE
        OBVIOUS
      <3>1. cursor_position - 1 \in 0..Len(input) /\ cursor_position - 1 # Len(input)
        BY <1>1
      <3> QED BY <1>1, <1>2, <3>1, PlainLine
    <2> QED BY <1>1, <2>1, <2>2 DEF Lines, LineShape, AsciiNeverPanics, Plain
  <1>3. CASE cursor_position - 1 \in Boundaries(input) \ {Length(input)}
    <2>1. tui' = tui /\ input' \in Seq(Chars)
      BY <1>1, <1>3, BackspaceEffect
    <2>2. PICK n \in 0..Len(input) :
            /\ Bytes(input, n) = cursor_position' /\ n <= Len(input')
            /\ \A j \in 1..n : input'[j] = input[j]
      BY <1>1, <1>3, BackspaceEffect
    <2>3. ASSUME Plain(input') PROVE cursor_position' \in 0..Len(input')
      <3>1. n \in Nat /\ Len(input') \in Nat /\ DOMAIN input' = 1..Len(input')
        BY <2>1
      <3>2. \A j \in 1..n : input[j] \notin Wide
        BY <2>2, <2>3, <3>1 DEF Plain
      <3>3. Bytes(input, n) = n
        BY <3>1, <3>2, PlainBytes
      <3> QED BY <2>2, <3>1, <3>3
    <2>4. tui' # "panicked"
      BY <1>1, <2>1
    <2> QED BY <2>1, <2>3, <2>4 DEF Lines, LineShape, AsciiNeverPanics, Plain
  <1> QED BY <1>2, <1>3

\* The cursor keys, Enter, and what leaves the line alone.
LEMMA LinesStay == ASSUME Lines, [Next]_vars PROVE Lines'
  <1>1. /\ input \in Seq(Chars) /\ Len(input) \in Nat
        /\ (Plain(input) => cursor_position \in 0..Len(input))
    BY DEF Lines, LineShape
  <1>2. ASSUME NEW c \in Chars, Type(c) PROVE Lines'
    BY <1>2, TypeKeepsLine
  <1>3. CASE Backspace
    BY <1>3, BackspaceKeepsLine
  <1>4. CASE Left \/ Right
    <2>1. /\ input' = input /\ tui' = tui
          /\ \/ cursor_position > 0 /\ cursor_position' = cursor_position - 1
             \/ cursor_position < Length(input) /\ cursor_position' = cursor_position + 1
      BY <1>4 DEF Left, Right, Edit
    <2>2. Plain(input) => cursor_position' \in 0..Len(input)
      BY <1>1, <2>1, PlainLine
    <2> QED BY <1>1, <2>1, <2>2 DEF Lines, LineShape, AsciiNeverPanics
  <1>5. CASE Submit
    <2>1. input' = << >> /\ cursor_position' = 0 /\ tui' # "panicked"
      BY <1>5 DEF Submit, Key
    <2>2. input' \in Seq(Chars) /\ Len(input') = 0
      BY <2>1
    <2> QED BY <2>1, <2>2 DEF Lines, LineShape, AsciiNeverPanics
  <1>6. CASE UNCHANGED <<input, cursor_position>> /\ (tui' = tui \/ tui' # "panicked")
    BY <1>1, <1>6 DEF Lines, LineShape, AsciiNeverPanics, Plain
  <1>7. CASE SwitchMode \/ Quit \/ DrainUpdates \/ TerminalFails \/ Join \/ UNCHANGED vars
    BY <1>6, <1>7 DEF SwitchMode, Quit, DrainUpdates, TerminalFails, Join, vars, lineVars
  <1>8. CASE HandleCommand \/ DriverFails \/ DriverStops
             \/ \E k \in Keys : ApplyPut(k) \/ RestoreSnapshot(k)
    BY <1>6, <1>8 DEF HandleCommand, DriverFails, DriverStops, ApplyPut, RestoreSnapshot, lineVars
  <1> QED BY <1>2, <1>3, <1>4, <1>5, <1>7, <1>8 DEF Next, HandleKey

----------------------------------------------------------------------------
(* Types                                                                   *)

\* Bytes of a line are counted from 0, and a letter has at least one.
LEMMA BytesGrow ==
    ASSUME NEW s, NEW n \in Nat, NEW m \in Nat
    PROVE  /\ Bytes(s, n) \in Nat
           /\ n <= m => Bytes(s, n) + (m - n) <= Bytes(s, m)
  <1> DEFINE W(k) == {j \in 1..k : s[j] \in Wide}
  <1>1. \A k \in Nat : IsFiniteSet(W(k)) /\ Cardinality(W(k)) \in Nat
    <2> SUFFICES ASSUME NEW k \in Nat PROVE IsFiniteSet(W(k)) /\ Cardinality(W(k)) \in Nat
      OBVIOUS
    <2>1. IsFiniteSet(1..k) /\ W(k) \in SUBSET (1..k)
      BY FS_Interval
    <2> HIDE DEF W
    <2> QED BY <2>1, FS_Subset, FS_CardinalityType
  <1>2. n <= m => Cardinality(W(n)) <= Cardinality(W(m))
    <2>1. n <= m => W(n) \in SUBSET W(m)
      OBVIOUS
    <2> HIDE DEF W
    <2> QED BY <1>1, <2>1, FS_Subset
  <1>3. \A k \in Nat : Bytes(s, k) = k + Cardinality(W(k))
    BY DEF Bytes
  <1> HIDE DEF W
  <1> QED BY <1>1, <1>2, <1>3

\* Bytes of a common beginning are the same.
LEMMA SameBytes ==
    ASSUME NEW s, NEW r, NEW n \in Nat, \A j \in 1..n : s[j] = r[j]
    PROVE  Bytes(s, n) = Bytes(r, n)
  <1>1. {j \in 1..n : s[j] \in Wide} = {j \in 1..n : r[j] \in Wide}
    OBVIOUS
  <1> QED BY <1>1, Zenon DEF Bytes

\* The cursor stays within the line, wide letters or not.
LineOK ==
    /\ tui \in {"running"} \cup Ended /\ exited \in BOOLEAN
    /\ input_mode \in {"Normal", "Editing"}
    /\ input \in Seq(Chars) /\ cursor_position \in 0..Length(input)

\* A letter moves it by one, and takes at least one byte itself.
LEMMA TypeKeepsCursor ==
    ASSUME LineOK, NEW c \in Chars, Type(c) PROVE LineOK'
  <1>1. input \in Seq(Chars) /\ cursor_position \in 0..Length(input)
    BY DEF LineOK
  <1>2. CASE cursor_position \notin Boundaries(input)
    <2>1. /\ UNCHANGED <<input_mode, input, cursor_position>> /\ tui' = "panicked"
          /\ exited' = TRUE
      BY <1>2 DEF Type, Panic, lineVars
    <2> QED BY <2>1 DEF LineOK, Length, Ended
  <1>3. CASE cursor_position \in Boundaries(input)
    <2>1. cursor_position' = cursor_position + 1 /\ tui' = tui /\ input' \in Seq(Chars)
      BY <1>1, <1>3, TypeEffect
    <2>2. PICK n \in 0..Len(input) :
            /\ Bytes(input, n) = cursor_position /\ Len(input') = Len(input) + 1
            /\ \A j \in 1..n : input'[j] = input[j]
      BY <1>1, <1>3, TypeEffect
    <2>3. UNCHANGED <<input_mode, exited>>
      BY <1>3 DEF Type, Edit
    <2>4. n \in Nat /\ Len(input') \in Nat /\ n + 1 <= Len(input')
      BY <1>1, <2>2
    <2>5. Bytes(input', n) = Bytes(input, n)
      BY <2>2, <2>4, SameBytes
    <2>6. Bytes(input', n) + (Len(input') - n) <= Bytes(input', Len(input'))
          /\ Bytes(input', n) \in Nat /\ Bytes(input', Len(input')) \in Nat
      BY <2>4, BytesGrow
    <2>7. cursor_position' \in 0..Length(input')
      BY <2>1, <2>2, <2>4, <2>5, <2>6 DEF Length
    <2>8. Length(input') = Length(input)'
      BY DEF Length
    <2> QED BY <2>1, <2>3, <2>7, <2>8 DEF LineOK
  <1> QED BY <1>2, <1>3

\* Backspace leaves it where the letter began.
LEMMA BackspaceKeepsCursor ==
    ASSUME LineOK, Backspace PROVE LineOK'
  <1>1. input \in Seq(Chars) /\ cursor_position \in 0..Length(input)
    BY DEF LineOK
  <1>2. CASE cursor_position - 1 \notin Boundaries(input) \ {Length(input)}
    <2>1. /\ UNCHANGED <<input_mode, input, cursor_position>> /\ tui' = "panicked"
          /\ exited' = TRUE
      BY <1>2 DEF Backspace, Panic, lineVars
    <2> QED BY <2>1 DEF LineOK, Length, Ended
  <1>3. CASE cursor_position - 1 \in Boundaries(input) \ {Length(input)}
    <2>1. tui' = tui /\ input' \in Seq(Chars)
      BY <1>1, <1>3, BackspaceEffect
    <2>2. PICK n \in 0..Len(input) :
            /\ Bytes(input, n) = cursor_position' /\ n <= Len(input')
            /\ \A j \in 1..n : input'[j] = input[j]
      BY <1>1, <1>3, BackspaceEffect
    <2>3. UNCHANGED <<input_mode, exited>>
      BY <1>3 DEF Backspace, Edit
    <2>4. n \in Nat /\ Len(input') \in Nat
      BY <2>1
    <2>5. Bytes(input', n) = Bytes(input, n)
      BY <2>2, <2>4, SameBytes
    <2>6. Bytes(input', n) + (Len(input') - n) <= Bytes(input', Len(input'))
          /\ Bytes(input', n) \in Nat /\ Bytes(input', Len(input')) \in Nat
      BY <2>2, <2>4, BytesGrow
    <2>7. cursor_position' \in 0..Length(input')
      BY <2>2, <2>4, <2>5, <2>6 DEF Length
    <2>8. Length(input') = Length(input)'
      BY DEF Length
    <2> QED BY <2>1, <2>3, <2>7, <2>8 DEF LineOK
  <1> QED BY <1>2, <1>3

\* Nothing else but the cursor keys, Enter and the mode key moves it.
LEMMA LineOKStays == ASSUME LineOK, [Next]_vars PROVE LineOK'
  <1>1. /\ tui \in {"running"} \cup Ended /\ exited \in BOOLEAN
        /\ input_mode \in {"Normal", "Editing"} /\ input \in Seq(Chars)
        /\ cursor_position \in 0..Length(input)
    BY DEF LineOK
  <1>2. Length(input) \in Nat
    <2>1. Len(input) \in Nat
      BY <1>1
    <2> QED BY <2>1, BytesGrow DEF Length
  <1>3. ASSUME NEW c \in Chars, Type(c) PROVE LineOK'
    BY <1>3, TypeKeepsCursor
  <1>4. CASE Backspace
    BY <1>4, BackspaceKeepsCursor
  <1>5. CASE Left \/ Right
    <2>1. /\ UNCHANGED <<tui, input_mode, input, exited>>
          /\ \/ cursor_position > 0 /\ cursor_position' = cursor_position - 1
             \/ cursor_position < Length(input) /\ cursor_position' = cursor_position + 1
      BY <1>5 DEF Left, Right, Edit
    <2>2. cursor_position' \in 0..Length(input)
      BY <1>1, <1>2, <2>1
    <2>3. Length(input)' = Length(input)
      BY <2>1 DEF Length
    <2> QED BY <1>1, <2>1, <2>2, <2>3 DEF LineOK
  <1>6. CASE Submit
    <2>1. /\ input' = << >> /\ cursor_position' = 0 /\ UNCHANGED <<input_mode, exited>>
          /\ tui' = tui \/ tui' = "send_failed"
      BY <1>6 DEF Submit
    <2>2. Len(input') = 0 /\ input' \in Seq(Chars) /\ Len(input') \in Nat
      BY <2>1
    <2>3. Bytes(input', Len(input')) \in Nat
      BY <2>2, BytesGrow
    <2>4. cursor_position' \in 0..Length(input)'
      BY <2>1, <2>3 DEF Length
    <2> QED BY <1>1, <2>1, <2>2, <2>4 DEF LineOK, Ended
  <1>7. CASE /\ UNCHANGED <<input, cursor_position>>
             /\ input_mode' = input_mode \/ input_mode' \in {"Normal", "Editing"}
             /\ tui' = tui \/ tui' \in Ended
             /\ exited' = exited \/ exited' = TRUE
    <2>1. Length(input)' = Length(input)
      BY <1>7 DEF Length
    <2> QED BY <1>1, <1>7, <2>1 DEF LineOK
  <1>8. CASE SwitchMode \/ Quit \/ DrainUpdates \/ TerminalFails \/ Join \/ UNCHANGED vars
    BY <1>7, <1>8 DEF SwitchMode, Quit, DrainUpdates, TerminalFails, Join, vars, lineVars, Ended
  <1>9. CASE HandleCommand \/ DriverFails \/ DriverStops
             \/ \E k \in Keys : ApplyPut(k) \/ RestoreSnapshot(k)
    BY <1>7, <1>9 DEF HandleCommand, DriverFails, DriverStops, ApplyPut, RestoreSnapshot, lineVars
  <1> QED BY <1>3, <1>4, <1>5, <1>6, <1>8, <1>9 DEF Next, HandleKey

\* The map, its mirror and the channels.
MapOK ==
    /\ driver \in {"running", "stopped", "failed"}
    /\ kv \in [Keys -> 0..MaxWrites] /\ kv_store \in [Keys -> 0..MaxWrites]
    /\ restored \subseteq Keys
    /\ cmds \in Seq(DOMAIN Needs)
    /\ updates \in Seq([key : Keys, value : 1..MaxWrites])
    /\ shutdown \in BOOLEAN

\* The mirror takes over values of the map.
LEMMA AfterIsBounded ==
    ASSUME MapOK PROVE After(updates) \in [Keys -> 0..MaxWrites]
  <1> DEFINE Mine(k) == {i \in DOMAIN updates : updates[i].key = k}
  <1>1. Len(updates) \in Nat /\ DOMAIN updates = 1..Len(updates)
        /\ \A i \in DOMAIN updates : updates[i].value \in 1..MaxWrites
    <2> DEFINE Written == [key : Keys, value : 1..MaxWrites]
    <2>1. updates \in Seq(Written)
      BY DEF MapOK
    <2>2. \A e \in Written : e.value \in 1..MaxWrites
      OBVIOUS
    <2> HIDE DEF Written
    <2>3. Len(updates) \in Nat /\ DOMAIN updates = 1..Len(updates)
          /\ \A i \in DOMAIN updates : updates[i] \in Written
      BY <2>1
    <2> QED BY <2>2, <2>3
  <1>2. ASSUME NEW k \in Keys, Mine(k) # {}
        PROVE  (CHOOSE i \in Mine(k) : \A j \in Mine(k) : j <= i) \in DOMAIN updates
    <2>1. \E i \in Mine(k) : \A j \in Mine(k) : j <= i
      <3>1. Mine(k) \subseteq 1..Len(updates)
        BY <1>1
      <3> HIDE DEF Mine
      <3> QED BY <1>1, <1>2, <3>1, LastOfSome
    <2> QED BY <2>1
  <1>3. ASSUME NEW k \in Keys
        PROVE  (IF Mine(k) = {} THEN kv_store[k]
                ELSE updates[CHOOSE i \in Mine(k) : \A j \in Mine(k) : j <= i].value)
               \in 0..MaxWrites
    <2>1. kv_store[k] \in 0..MaxWrites
      BY DEF MapOK
    <2>2. MaxWrites \in Nat
      BY AppConstants
    <2>3. ASSUME NEW i \in DOMAIN updates PROVE updates[i].value \in 0..MaxWrites
      BY <1>1, <2>2
    <2> QED BY <1>2, <2>1, <2>3
  <1> QED BY <1>3 DEF After

\* Each action leaves the map and the channels what they are.
LEMMA MapOKStays == ASSUME MapOK, [Next]_vars PROVE MapOK'
  <1>1. /\ driver \in {"running", "stopped", "failed"}
        /\ kv \in [Keys -> 0..MaxWrites] /\ kv_store \in [Keys -> 0..MaxWrites]
        /\ restored \subseteq Keys /\ cmds \in Seq(DOMAIN Needs)
        /\ updates \in Seq([key : Keys, value : 1..MaxWrites]) /\ shutdown \in BOOLEAN
        /\ MaxWrites \in Nat
    BY AppConstants DEF MapOK
  <1>2. ASSUME NEW k \in Keys, ApplyPut(k) \/ RestoreSnapshot(k) PROVE MapOK'
    <2> DEFINE v == kv[k] + 1
    <2>1. /\ kv[k] < MaxWrites /\ kv' = [kv EXCEPT ![k] = v] /\ restored' \subseteq Keys
          /\ UNCHANGED <<kv_store, driver, cmds, shutdown>>
          /\ updates' = updates \/ updates' = Append(updates, [key |-> k, value |-> v])
      BY <1>1, <1>2 DEF ApplyPut, RestoreSnapshot, channelVars
    <2>2. kv[k] \in 0..MaxWrites
      BY <1>1
    <2>3. v \in 1..MaxWrites /\ v \in 0..MaxWrites
      BY <1>1, <2>1, <2>2
    <2> HIDE DEF v
    <2>4. kv' \in [Keys -> 0..MaxWrites]
      BY <1>1, <2>1, <2>3
    <2>5. [key |-> k, value |-> v] \in [key : Keys, value : 1..MaxWrites]
      BY <2>3
    <2>6. updates' \in Seq([key : Keys, value : 1..MaxWrites])
      <3>1. Append(updates, [key |-> k, value |-> v])
                \in Seq([key : Keys, value : 1..MaxWrites])
        BY <1>1, <2>5, AppendProperties
      <3> QED BY <1>1, <2>1, <3>1
    <2> QED BY <1>1, <2>1, <2>4, <2>6 DEF MapOK
  <1>3. CASE DrainUpdates
    <2>1. /\ kv_store' = After(updates) /\ updates' = << >>
          /\ UNCHANGED <<driver, kv, restored, cmds, shutdown>>
      BY <1>3 DEF DrainUpdates, driverVars
    <2>2. updates' \in Seq([key : Keys, value : 1..MaxWrites])
      BY <2>1
    <2>3. kv_store' \in [Keys -> 0..MaxWrites]
      BY <2>1, AfterIsBounded
    <2> QED BY <1>1, <2>1, <2>2, <2>3 DEF MapOK
  <1>4. CASE Submit
    <2>1. /\ UNCHANGED <<driver, kv, kv_store, restored, updates, shutdown>>
          /\ cmds' = cmds \/ \E verb \in parse_command(input) : cmds' = Append(cmds, verb)
      BY <1>4 DEF Submit, driverVars
    <2>2. parse_command(input) \subseteq DOMAIN Needs
      BY DEF parse_command
    <2>3. cmds' \in Seq(DOMAIN Needs)
      <3>1. ASSUME NEW verb \in parse_command(input) PROVE Append(cmds, verb) \in Seq(DOMAIN Needs)
        <4>1. verb \in DOMAIN Needs /\ cmds \in Seq(DOMAIN Needs)
          BY <1>1, <2>2
        <4> QED BY <4>1, AppendProperties
      <3> QED BY <1>1, <2>1, <3>1
    <2> QED BY <1>1, <2>1, <2>3 DEF MapOK
  <1>5. CASE HandleCommand
    <2>1. /\ cmds # << >> /\ cmds' = Tail(cmds)
          /\ UNCHANGED <<driver, kv, kv_store, restored, updates, shutdown>>
      BY <1>5 DEF HandleCommand, driverVars
    <2>2. cmds' \in Seq(DOMAIN Needs)
      BY <1>1, <2>1, HeadTailProperties
    <2> QED BY <1>1, <2>1, <2>2 DEF MapOK
  <1>6. CASE DriverFails \/ DriverStops
    <2>1. /\ driver' \in {"failed", "stopped"} /\ cmds' = << >>
          /\ UNCHANGED <<kv, kv_store, restored, updates, shutdown>>
      BY <1>6 DEF DriverFails, DriverStops
    <2>2. cmds' \in Seq(DOMAIN Needs)
      BY <2>1
    <2> QED BY <1>1, <2>1, <2>2 DEF MapOK
  <1>7. CASE /\ UNCHANGED <<driver, kv, kv_store, restored, cmds, updates>>
             /\ shutdown' = shutdown \/ shutdown' = TRUE
    BY <1>1, <1>7 DEF MapOK
  <1>8. CASE \/ \E c \in Chars : Type(c)
             \/ Backspace \/ Left \/ Right \/ SwitchMode \/ Quit
             \/ TerminalFails \/ Join \/ UNCHANGED vars
    BY <1>7, <1>8 DEF Type, Backspace, Left, Right, SwitchMode, Quit, Edit, Panic,
       TerminalFails, Join, vars, driverVars, channelVars
  <1> QED BY <1>2, <1>3, <1>4, <1>5, <1>6, <1>8 DEF Next, HandleKey

----------------------------------------------------------------------------
(* The theorems.                                                           *)

\* The terminal shows the map, once it has taken over the updates on their
\* way, for every key written since a snapshot was last restored: every
\* applied PUT sends one update, and run_tui takes them over in order.
THEOREM MirrorIsMap == Spec => []MirrorFollowsMap
  <1>1. Init => MirrorShape /\ MirrorFollowsMap
    <2> SUFFICES ASSUME Init PROVE MirrorShape /\ MirrorFollowsMap
      OBVIOUS
    <2>1. kv = [k \in Keys |-> 0] /\ kv_store = kv /\ updates = << >>
      BY DEF Init
    <2>2. MirrorShape
      BY <2>1 DEF MirrorShape
    <2> QED BY <2>1, <2>2, NothingPending DEF MirrorFollowsMap, MirrorShape
  <1>2. (MirrorShape /\ MirrorFollowsMap) /\ [Next]_vars => (MirrorShape /\ MirrorFollowsMap)'
    BY MirrorStays
  <1> QED BY <1>1, <1>2, PTL DEF Spec

\* No sequence of keys brings the interface down while the line is ASCII:
\* every edit of App's input line leaves the cursor between two characters.
THEOREM AsciiIsSafe == Spec => []AsciiNeverPanics
  <1>1. Init => Lines
    BY DEF Init, Lines, LineShape, AsciiNeverPanics
  <1>2. Lines /\ [Next]_vars => Lines'
    BY LinesStay
  <1>3. Lines => AsciiNeverPanics
    BY DEF Lines
  <1> QED BY <1>1, <1>2, <1>3, PTL DEF Spec

\* Every variable of the process keeps its type; in particular the cursor
\* never leaves the line, however many bytes its letters have, and the
\* mirror only shows values the map has had.
THEOREM AppTypeOK == Spec => []TypeOK
  <1>1. Init => LineOK /\ MapOK
    <2> SUFFICES ASSUME Init PROVE LineOK /\ MapOK
      OBVIOUS
    <2>1. /\ tui = "running" /\ exited = FALSE /\ input_mode = "Editing"
          /\ input = << >> /\ cursor_position = 0
          /\ kv = [k \in Keys |-> 0] /\ kv_store = kv /\ restored = {}
          /\ driver = "running" /\ cmds = << >> /\ updates = << >> /\ shutdown = FALSE
      BY DEF Init
    <2>2. Len(input) \in Nat /\ input \in Seq(Chars)
      BY <2>1
    <2>3. Length(input) \in Nat
      BY <2>2, BytesGrow DEF Length
    <2>4. LineOK
      <3>1. cursor_position \in 0..Length(input)
        BY <2>1, <2>3
      <3>2. tui \in {"running"} \cup Ended /\ exited \in BOOLEAN
            /\ input_mode \in {"Normal", "Editing"}
        BY <2>1
      <3> QED BY <2>2, <3>1, <3>2 DEF LineOK
    <2>5. kv \in [Keys -> 0..MaxWrites]
      BY <2>1, AppConstants
    <2>6. cmds \in Seq(DOMAIN Needs) /\ updates \in Seq([key : Keys, value : 1..MaxWrites])
      BY <2>1
    <2> QED BY <2>1, <2>4, <2>5, <2>6 DEF MapOK
  <1>2. (LineOK /\ MapOK) /\ [Next]_vars => (LineOK /\ MapOK)'
    BY LineOKStays, MapOKStays
  <1>3. LineOK /\ MapOK => TypeOK
    BY DEF LineOK, MapOK, TypeOK
  <1> QED BY <1>1, <1>2, <1>3, PTL DEF Spec
=============================================================================
