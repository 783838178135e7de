------------------------------ MODULE HostKeys ------------------------------
(***************************************************************************)
(* The host side of the keyboard (src/src/input_host.cpp): the keys the    *)
(* BLE client holds down and the bounded queue of key edges between the    *)
(* NimBLE host task and the emulator task.  Every function of the code is  *)
(* one critical section of s_inputMux, so it is one action here.           *)
(*                                                                         *)
(* The queue is a sequence; module HostKeyRing has the circular buffer and *)
(* implements this one.  Keys are numbered from 0, as scancodes are.       *)
(***************************************************************************)
EXTENDS Integers, SequencesExt

CONSTANTS NumKeys,     \* INPUT_HOST_KEY_COUNT (128)
          QueueSize    \* INPUT_HOST_KEY_QUEUE_SIZE (32): one slot stays empty

VARIABLES keyDown,     \* s_keyDown
          keyQueue     \* the events from s_keyTail up to s_keyHead

hostKeysVars == <<keyDown, keyQueue>>

Key == 0 .. NumKeys - 1
KeyEvent == [scancode : Key, isRelease : BOOLEAN]
Edge(k, release) == [scancode |-> k, isRelease |-> release]

QueueIsFull(q) == Len(q) = QueueSize - 1

HostKeysTypeOK ==
    /\ keyDown \in [Key -> BOOLEAN]
    /\ keyQueue \in Seq(KeyEvent) /\ Len(keyQueue) < QueueSize

Presses(q) == {i \in 1 .. Len(q) : ~q[i].isRelease}

DropOldestPressForRelease(q) ==
    IF Presses(q) = {} THEN q ELSE RemoveAt(q, Min(Presses(q)))

EnqueueKeyEvent(q, e) ==
    LET room == IF QueueIsFull(q) /\ e.isRelease THEN DropOldestPressForRelease(q) ELSE q
    IN  IF QueueIsFull(room) THEN room ELSE Append(room, e)

HostKeysInit ==
    /\ keyDown = [k \in Key |-> FALSE]
    /\ keyQueue = <<>>

\* inputHostKey: a repeated press is queued again, a release only when the
\* key was down.
HostKey(k, down) ==
    \/ /\ down
       /\ keyDown' = [keyDown EXCEPT ![k] = TRUE]
       /\ keyQueue' = EnqueueKeyEvent(keyQueue, Edge(k, FALSE))
    \/ /\ ~down /\ keyDown[k]
       /\ keyDown' = [keyDown EXCEPT ![k] = FALSE]
       /\ keyQueue' = EnqueueKeyEvent(keyQueue, Edge(k, TRUE))

\* inputHostReleaseAllKeys: the releases are queued in scancode order.
released[n \in 0 .. NumKeys] ==
    IF n = 0 THEN keyQueue
    ELSE IF keyDown[n - 1] THEN EnqueueKeyEvent(released[n - 1], Edge(n - 1, TRUE))
    ELSE released[n - 1]

HostReleaseAllKeys ==
    /\ keyDown' = [k \in Key |-> FALSE]
    /\ keyQueue' = released[NumKeys]

\* inputHostPopKeyEvent, when it returns true.
HostPopKeyEvent ==
    /\ keyQueue # <<>>
    /\ keyQueue' = Tail(keyQueue)
    /\ UNCHANGED keyDown

\* inputHostReset (the mouse part is in module Mouse).
HostReset ==
    /\ keyDown' = [k \in Key |-> FALSE]
    /\ keyQueue' = <<>>

HostKeysNext ==
    \/ \E k \in Key, down \in BOOLEAN : HostKey(k, down)
    \/ HostReleaseAllKeys
    \/ HostPopKeyEvent
    \/ HostReset

HostKeysSpec == HostKeysInit /\ [][HostKeysNext]_hostKeysVars

-----------------------------------------------------------------------------
(* Properties.                                                             *)

LastEdges(k) == {i \in 1 .. Len(keyQueue) :
    /\ keyQueue[i].scancode = k
    /\ \A j \in i + 1 .. Len(keyQueue) : keyQueue[j].scancode # k}

\* However many edges overflow the queue, it never leaves the guest with a key
\* the host has let go: the last queued edge of a key that is up is a release.
LastPressIsHeld ==
    \A k \in Key : \A i \in LastEdges(k) : ~keyDown[k] => keyQueue[i].isRelease
=============================================================================
