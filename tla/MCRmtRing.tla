----------------------------- MODULE MCRmtRing -----------------------------
(***************************************************************************)
(* RmtRing on a small ring, with the refinement mapping onto SymbolQueue:  *)
(* the queue is what the callback has not yet copied of its chunk, then    *)
(* the published chunks, then what the writer holds.                       *)
(***************************************************************************)
EXTENDS RmtRing

\* How many symbols the callback still has to copy, and how many are published.
Unplayed == IF streamChunk = NoChunk THEN 0 ELSE ChunkSymbols - streamOffset
Published == Pending(tail, head) * ChunkSymbols

\* Symbol p of the published chunks, of what is being played, of all the ring.
PublishedSymbol(p) ==
    LET n == (tail + p \div ChunkSymbols) % (SeqMax + 1)
    IN  symbols[pendingIndex[Slot(n)]][p % ChunkSymbols]
SymbolAt(p) ==
    IF p < Unplayed THEN symbols[streamChunk][streamOffset + p]
    ELSE IF p < Unplayed + Published THEN PublishedSymbol(p - Unplayed)
    ELSE symbols[writer][p - Unplayed - Published]

Stored == Unplayed + Published + symbolCount
Backlog == [i \in 1 .. Stored |-> SymbolAt(i - 1)]

Abstract == INSTANCE SymbolQueue WITH
    Capacity <- NumChunks * ChunkSymbols,
    queue <- Backlog,
    next <- made

\* The ring implements the bounded symbol queue.
ImplementsQueue == Abstract!Spec
\* A full ring drains once the driver has accepted the transmission, which it
\* may refuse any number of times before.
QueueDrains == <>transmitting => Abstract!Drains
=============================================================================
