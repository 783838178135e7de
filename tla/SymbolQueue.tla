---------------------------- MODULE SymbolQueue ----------------------------
(***************************************************************************)
(* What the RMT chunk ring promises (src/src/snd_rmt.cpp): a bounded queue *)
(* of sound symbols between the renderer and the RMT hardware.  A symbol   *)
(* goes in once, at the end; symbols come out in batches, in order, each   *)
(* exactly once; and a full queue does not stay full.                      *)
(***************************************************************************)
EXTENDS Integers, Sequences

CONSTANTS Capacity,   \* symbols the ring can hold
          SymbolIds   \* number of distinct symbol identities

VARIABLES queue,      \* symbols rendered and not yet transmitted
          next        \* the next symbol to be rendered

queueVars == <<queue, next>>

Init == queue = <<>> /\ next = 0

\* The renderer appends a symbol.
Put ==
    /\ Len(queue) < Capacity
    /\ queue' = Append(queue, next)
    /\ next' = (next + 1) % SymbolIds

\* The hardware takes one or more symbols from the front.
Take ==
    /\ \E n \in 1 .. Len(queue) : queue' = SubSeq(queue, n + 1, Len(queue))
    /\ UNCHANGED next

Next == Put \/ Take

Spec == Init /\ [][Next]_queueVars

\* A full queue is drained in the end.
Drains == Len(queue) = Capacity ~> Len(queue) < Capacity

LiveSpec == Spec /\ Drains
=============================================================================
