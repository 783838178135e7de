---------------------------- MODULE HostKeyRing -----------------------------
(***************************************************************************)
(* The circular buffer of src/src/input_host.cpp: s_keyQueue with s_keyHead *)
(* and s_keyTail, with the same functions as module HostKeys, whose queue   *)
(* it implements: each is one critical section of s_inputMux.              *)
(***************************************************************************)
EXTENDS Integers, Sequences

CONSTANTS NumKeys, QueueSize

ASSUME HostKeyRingConstants == NumKeys \in Nat \ {0} /\ QueueSize \in Nat \ {0, 1}

VARIABLES keyDown,     \* s_keyDown
          slots,       \* s_keyQueue
          keyHead,     \* s_keyHead: the next slot to fill
          keyTail      \* s_keyTail: the oldest event

Key == 0 .. NumKeys - 1
Index == 0 .. QueueSize - 1
KeyEvent == [scancode : Key, isRelease : BOOLEAN]
Edge(k, release) == [scancode |-> k, isRelease |-> release]

\* The buffer as a value: the part of the state one critical section rewrites.
ring == [slots |-> slots, head |-> keyHead, tail |-> keyTail]
hostKeysVars == <<keyDown, slots, keyHead, keyTail>>

Next1(i) == (i + 1) % QueueSize
Count(r) == (r.head - r.tail + QueueSize) % QueueSize
At(r, i) == r.slots[(r.tail + i) % QueueSize]
QueueIsFull(r) == Next1(r.head) = r.tail

\* The events from the tail up to the head.
keyQueue == [i \in 1 .. Count(ring) |-> At(ring, i - 1)]

HostKeysTypeOK ==
    /\ keyDown \in [Key -> BOOLEAN]
    /\ slots \in [Index -> KeyEvent]
    /\ keyHead \in Index /\ keyTail \in Index

\* The position of the oldest press, counted from the tail.
OldestPress(r) ==
    {i \in 0 .. Count(r) - 1 :
        ~At(r, i).isRelease /\ \A j \in 0 .. i - 1 : At(r, j).isRelease}

\* Mistake: the buffer gets shorter, the events behind the press do not move.
DropWithoutShift(r) ==
    IF OldestPress(r) = {} THEN r ELSE [r EXCEPT !.head = (@ + QueueSize - 1) % QueueSize]

\* The events behind the oldest press move down one slot each.
DropOldestPressForRelease(r) ==
    IF OldestPress(r) = {} THEN r
    ELSE LET first == CHOOSE i \in OldestPress(r) : TRUE
             moved == {(r.tail + i) % QueueSize : i \in first .. Count(r) - 2}
         IN  [r EXCEPT !.slots = [s \in Index |-> IF s \in moved THEN r.slots[Next1(s)]
                                                  ELSE r.slots[s]],
                       !.head = (r.head + QueueSize - 1) % QueueSize]

Store(r, e) == [r EXCEPT !.slots[r.head] = e, !.head = Next1(r.head)]

\* Mistake: a release finds no room made for it.
EnqueueWithoutRoom(r, e) == IF QueueIsFull(r) THEN r ELSE Store(r, e)

EnqueueKeyEvent(r, e) ==
    LET room == IF QueueIsFull(r) /\ e.isRelease THEN DropOldestPressForRelease(r) ELSE r
    IN  IF QueueIsFull(room) THEN room ELSE Store(room, e)

Becomes(r) == slots' = r.slots /\ keyHead' = r.head /\ keyTail' = r.tail

\* s_keyQueue is zeroed storage: scancode 0, a press.
HostKeysInit ==
    /\ keyDown = [k \in Key |-> FALSE]
    /\ slots = [i \in Index |-> Edge(0, FALSE)]
    /\ keyHead = 0 /\ keyTail = 0

HostKey(k, down) ==
    /\ down \/ keyDown[k]
    /\ keyDown' = [keyDown EXCEPT ![k] = down]
    /\ Becomes(EnqueueKeyEvent(ring, Edge(k, ~down)))

released[n \in 0 .. NumKeys] ==
    IF n = 0 THEN ring
    ELSE IF keyDown[n - 1] THEN EnqueueKeyEvent(released[n - 1], Edge(n - 1, TRUE))
    ELSE released[n - 1]

HostReleaseAllKeys ==
    /\ keyDown' = [k \in Key |-> FALSE]
    /\ Becomes(released[NumKeys])

HostPopKeyEvent ==
    /\ keyHead # keyTail
    /\ keyTail' = Next1(keyTail)
    /\ UNCHANGED <<keyDown, slots, keyHead>>

\* Mistake: the queue is emptied, the held keys are not.
HostResetQueueOnly == keyHead' = 0 /\ keyTail' = 0 /\ UNCHANGED <<keyDown, slots>>

HostReset ==
    /\ keyDown' = [k \in Key |-> FALSE]
    /\ keyHead' = 0 /\ keyTail' = 0
    /\ UNCHANGED slots

HostKeysNext ==
    \/ \E k \in Key, down \in BOOLEAN : HostKey(k, down)
    \/ HostReleaseAllKeys
    \/ HostPopKeyEvent
    \/ HostReset

HostKeysSpec == HostKeysInit /\ [][HostKeysNext]_hostKeysVars

-----------------------------------------------------------------------------
(* Properties.                                                             *)

Abstract == INSTANCE HostKeys

\* The circular buffer, with its wrapped indices and its shifting of events, is
\* the bounded queue of module HostKeys.
ImplementsHostKeys == Abstract!HostKeysSpec
=============================================================================
