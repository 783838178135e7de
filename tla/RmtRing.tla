------------------------------ MODULE RmtRing ------------------------------
(***************************************************************************)
(* The symbol ring of the RMT sound backend (src/src/snd_rmt.cpp).         *)
(*                                                                         *)
(* Two agents share it, on two cores.  The producer is the emulator task:  *)
(* it renders a Macintosh sound frame into RMT symbols, fills a chunk,     *)
(* publishes the chunk and blocks when no chunk is free.  The consumer is  *)
(* the encoder callback that the RMT driver calls from its interrupt.      *)
(* Ownership of a chunk goes FREE -> FILLING -> READY -> ACTIVE -> FREE    *)
(* through atomic stores with no lock, so every load or store of a shared  *)
(* variable is a step of its own here.                                     *)
(*                                                                         *)
(* A symbol is its running number modulo SymbolIds.  The counters head and *)
(* tail are uint32_t in the code: they go back to 0 after SeqMax.  Pausing *)
(* the backend is added by module RmtPause.                                *)
(***************************************************************************)
EXTENDS Integers

CONSTANTS
    NumChunks,       \* AUDIO_RMT_RING_CHUNKS (5 in the firmware)
    ChunkSymbols,    \* AUDIO_RMT_DMA_CHUNK_SYMBOLS (256)
    DmaNodes,        \* AUDIO_RMT_DMA_NODES (2): prefill before the stream starts
    MaxRoom,         \* the driver asks the callback for 1..MaxRoom symbols
    SeqMax,          \* the largest value of a sequence counter (2^32 - 1)
    SymbolIds,       \* number of distinct symbol identities
    TransmitMayFail  \* whether rmt_transmit() is allowed to return an error

ASSUME RmtConstants ==
    /\ NumChunks \in Nat \ {0}
    /\ ChunkSymbols \in Nat \ {0}
    /\ DmaNodes \in Nat \ {0}
    /\ MaxRoom \in Nat \ {0}
    /\ SeqMax \in Nat \ {0}
    /\ SymbolIds \in Nat \ {0}
ASSUME RmtFaults == TransmitMayFail \in BOOLEAN

Chunk == 0 .. NumChunks - 1
Offset == 0 .. ChunkSymbols - 1
Symbol == 0 .. SymbolIds - 1
NoChunk == -1

VARIABLES
    chunkState,      \* rmtChunks[i].state
    symbols,         \* rmtChunks[i].symbols
    pendingIndex,    \* rmtPendingChunkIndexes
    head,            \* rmtPendingHead, advanced by the producer
    tail,            \* rmtPendingTail, advanced by the callback
    streamStarted,   \* rmtStreamStarted
    transmitting,    \* the driver runs the one continuous transmission
    notified,        \* the producer's task notification value is not 0
    pc,              \* where the producer is
    writer,          \* writer->chunk
    symbolCount,     \* writer->symbolCount
    scan,            \* i of audioRmtAcquireChunk
    seq,             \* head as loaded by audioRmtPublishChunk
    made,            \* next symbol the producer writes
    isr,             \* where the callback is
    streamChunk,     \* rmtStreamChunkIndex
    streamOffset,    \* rmtStreamSymbolOffset
    room,            \* symbolsFree - written
    heard            \* next symbol the listener must hear

ring == <<chunkState, symbols, pendingIndex, head, tail>>
driver == <<streamStarted, transmitting>>
producer == <<pc, writer, symbolCount, scan, seq, made>>
callback == <<isr, streamChunk, streamOffset, room, heard>>
rmtVars == <<ring, driver, notified, producer, callback>>

Bump(n) == IF n = SeqMax THEN 0 ELSE n + 1
Slot(n) == n % NumChunks
Pending(from, to) == IF to >= from THEN to - from ELSE to - from + SeqMax + 1
NextSymbol(s) == IF s = SymbolIds - 1 THEN 0 ELSE s + 1

ProducerPlaces == {"render", "scan", "wait", "write", "ready", "index", "head",
                   "start", "transmit"}
CallbackPlaces == {"idle", "next", "activate", "free", "notify"}

RingTypes ==
    /\ chunkState \in [Chunk -> {"FREE", "FILLING", "READY", "ACTIVE"}]
    /\ symbols \in [Chunk -> [Offset -> Symbol]]
    /\ pendingIndex \in [Chunk -> Chunk]
    /\ head \in 0 .. SeqMax /\ tail \in 0 .. SeqMax

FlagTypes ==
    streamStarted \in BOOLEAN /\ transmitting \in BOOLEAN /\ notified \in BOOLEAN

ProducerTypes ==
    /\ pc \in ProducerPlaces
    /\ writer \in Chunk \cup {NoChunk}
    /\ symbolCount \in 0 .. ChunkSymbols
    /\ scan \in 0 .. NumChunks
    /\ seq \in 0 .. SeqMax
    /\ made \in Symbol

CallbackTypes ==
    /\ isr \in CallbackPlaces
    /\ streamChunk \in Chunk \cup {NoChunk}
    /\ streamOffset \in 0 .. ChunkSymbols
    /\ room \in 0 .. MaxRoom
    /\ heard \in Symbol

TypeOK == RingTypes /\ FlagTypes /\ ProducerTypes /\ CallbackTypes

Init ==
    /\ chunkState = [c \in Chunk |-> "FREE"]
    /\ symbols = [c \in Chunk |-> [o \in Offset |-> 0]]
    /\ pendingIndex = [c \in Chunk |-> 0]
    /\ head = 0 /\ tail = 0 /\ seq = 0
    /\ streamStarted = FALSE /\ transmitting = FALSE
    /\ notified = FALSE
    /\ pc = "render" /\ writer = NoChunk /\ symbolCount = 0 /\ scan = 0
    /\ made = 0
    /\ isr = "idle" /\ streamChunk = NoChunk /\ streamOffset = 0 /\ room = 0
    /\ heard = 0

-----------------------------------------------------------------------------
(* Plausible mistakes in the code below, which the properties rule out.    *)

\* The scan claims a chunk the callback is not reading, published or not.
AcquireWithoutExchange ==
    /\ pc = "scan" /\ scan < NumChunks
    /\ IF chunkState[scan] # "ACTIVE"
         THEN /\ chunkState' = [chunkState EXCEPT ![scan] = "FILLING"]
              /\ writer' = scan /\ symbolCount' = 0 /\ pc' = "write" /\ UNCHANGED scan
         ELSE scan' = scan + 1 /\ UNCHANGED <<chunkState, writer, symbolCount, pc>>
    /\ UNCHANGED <<symbols, pendingIndex, head, tail, driver, notified, callback, seq, made>>

\* The wake-up continues the old scan instead of starting a new one.
TakeWithoutRescan ==
    /\ pc = "wait" /\ notified
    /\ notified' = FALSE /\ pc' = "scan"
    /\ UNCHANGED <<ring, driver, callback, writer, symbolCount, scan, seq, made>>

\* The writer keeps its chunk after publishing it.
AdvanceHeadKeepsWriter ==
    /\ pc = "head"
    /\ head' = IF seq = SeqMax THEN 0 ELSE seq + 1
    /\ symbolCount' = 0 /\ pc' = "start"
    /\ UNCHANGED <<chunkState, symbols, pendingIndex, tail, driver, notified, callback,
                   writer, scan, seq, made>>

\* Every callback starts its chunk from the beginning.
EncodeCallRestarts ==
    /\ isr = "idle" /\ transmitting
    /\ room' \in 1 .. MaxRoom
    /\ isr' = "next" /\ streamOffset' = 0
    /\ UNCHANGED <<ring, driver, notified, producer, streamChunk, heard>>

\* The whole chunk is copied whatever room is left.
CopyChunkUnbounded ==
    /\ isr = "next" /\ streamChunk # NoChunk /\ streamOffset = 0
    /\ heard' = symbols[streamChunk][ChunkSymbols - 1]
    /\ room' = room - ChunkSymbols
    /\ streamOffset' = ChunkSymbols /\ isr' = "free"
    /\ UNCHANGED <<ring, driver, notified, producer, streamChunk>>

\* A callback that finds nothing to play ends the transmission.
HoldLastLevelEnds ==
    /\ isr = "next" /\ room > 0 /\ streamChunk = NoChunk
    /\ tail = head
    /\ room' = 0 /\ isr' = "idle" /\ transmitting' = FALSE
    /\ UNCHANGED <<ring, streamStarted, notified, producer, streamChunk, streamOffset, heard>>

-----------------------------------------------------------------------------
(* The producer: audioRmtFlushPendingSymbol and what it calls.             *)

\* A symbol is complete: take a chunk unless the writer still holds one.
FlushPendingSymbol ==
    /\ pc = "render"
    /\ pc' = IF writer = NoChunk THEN "scan" ELSE "write"
    /\ scan' = 0
    /\ UNCHANGED <<ring, driver, notified, callback, writer, symbolCount, seq, made>>

\* One compare-and-exchange of the scan for a free chunk.
AcquireChunk ==
    /\ pc = "scan" /\ scan < NumChunks
    /\ \/ /\ chunkState[scan] = "FREE"
          /\ chunkState' = [chunkState EXCEPT ![scan] = "FILLING"]
          /\ writer' = scan /\ symbolCount' = 0
          /\ pc' = "write"
          /\ UNCHANGED scan
       \/ /\ chunkState[scan] # "FREE"
          /\ scan' = scan + 1
          /\ UNCHANGED <<chunkState, writer, symbolCount, pc>>
    /\ UNCHANGED <<symbols, pendingIndex, head, tail, driver, notified, callback,
                   seq, made>>

NoneFree ==
    /\ pc = "scan" /\ scan = NumChunks
    /\ pc' = "wait"
    /\ UNCHANGED <<ring, driver, notified, callback, writer, symbolCount, scan, seq, made>>

\* ulTaskNotifyTake(pdTRUE, ...) returns a non-zero count: scan again.
TakeNotification ==
    /\ pc = "wait" /\ notified
    /\ notified' = FALSE
    /\ pc' = "scan" /\ scan' = 0
    /\ UNCHANGED <<ring, driver, callback, writer, symbolCount, seq, made>>

\* ulTaskNotifyTake times out: the rest of the frame is dropped.
WaitTimeout ==
    /\ pc = "wait" /\ ~notified
    /\ pc' = "render"
    /\ UNCHANGED <<ring, driver, notified, callback, writer, symbolCount, scan, seq, made>>

WriteSymbol ==
    /\ pc = "write"
    /\ symbols' = [symbols EXCEPT ![writer][symbolCount] = made]
    /\ symbolCount' = symbolCount + 1
    /\ made' = NextSymbol(made)
    /\ pc' = IF symbolCount + 1 = ChunkSymbols THEN "ready" ELSE "render"
    /\ UNCHANGED <<chunkState, pendingIndex, head, tail, driver, notified, callback,
                   writer, scan, seq>>

(* audioRmtPublishChunk: READY, then the index, then the new head.         *)
MarkReady ==
    /\ pc = "ready"
    /\ chunkState' = [chunkState EXCEPT ![writer] = "READY"]
    /\ pc' = "index"
    /\ UNCHANGED <<symbols, pendingIndex, head, tail, driver, notified, callback,
                   writer, symbolCount, scan, seq, made>>

QueueIndex ==
    /\ pc = "index"
    /\ seq' = head
    /\ pendingIndex' = [pendingIndex EXCEPT ![Slot(head)] = writer]
    /\ pc' = "head"
    /\ UNCHANGED <<chunkState, symbols, head, tail, driver, notified, callback,
                   writer, symbolCount, scan, made>>

AdvanceHead ==
    /\ pc = "head"
    /\ head' = Bump(seq)
    /\ writer' = NoChunk /\ symbolCount' = 0
    /\ pc' = "start"
    /\ UNCHANGED <<chunkState, symbols, pendingIndex, tail, driver, notified, callback,
                   scan, seq, made>>

CheckStart ==
    /\ pc = "start"
    /\ IF ~streamStarted /\ Pending(tail, Bump(seq)) >= DmaNodes
         THEN streamStarted' = TRUE /\ pc' = "transmit"
         ELSE pc' = "render" /\ UNCHANGED streamStarted
    /\ UNCHANGED <<ring, transmitting, notified, callback, writer, symbolCount, scan,
                   seq, made>>

\* audioRmtStartStream: rmt_transmit() starts the endless transmission or fails.
StartStream ==
    /\ pc = "transmit"
    /\ pc' = "render"
    /\ \/ transmitting' = TRUE /\ UNCHANGED streamStarted
       \/ /\ TransmitMayFail
          /\ streamStarted' = FALSE /\ UNCHANGED transmitting
    /\ UNCHANGED <<ring, notified, callback, writer, symbolCount, scan, seq, made>>

-----------------------------------------------------------------------------
(* The callback: audioRmtStreamEncode and what it calls.                   *)

\* The driver has room for some symbols and calls back.
EncodeCall ==
    /\ isr = "idle" /\ transmitting
    /\ room' \in 1 .. MaxRoom
    /\ isr' = "next"
    /\ UNCHANGED <<ring, driver, notified, producer, streamChunk, streamOffset, heard>>

EncodeReturn ==
    /\ isr = "next" /\ room = 0
    /\ isr' = "idle"
    /\ UNCHANGED <<ring, driver, notified, producer, streamChunk, streamOffset, room, heard>>

\* audioRmtSelectNextChunk: read the index, advance the tail ...
SelectNextChunk ==
    /\ isr = "next" /\ room > 0 /\ streamChunk = NoChunk
    /\ tail # head
    /\ streamChunk' = pendingIndex[Slot(tail)]
    /\ tail' = Bump(tail)
    /\ streamOffset' = 0
    /\ isr' = "activate"
    /\ UNCHANGED <<chunkState, symbols, pendingIndex, head, driver, notified, producer,
                   room, heard>>

\* ... and only then mark the chunk ACTIVE.
ActivateChunk ==
    /\ isr = "activate"
    /\ chunkState' = [chunkState EXCEPT ![streamChunk] = "ACTIVE"]
    /\ isr' = "next"
    /\ UNCHANGED <<symbols, pendingIndex, head, tail, driver, notified, producer,
                   streamChunk, streamOffset, room, heard>>

\* Nothing is pending: fill the room with the last GPIO level.
HoldLastLevel ==
    /\ isr = "next" /\ room > 0 /\ streamChunk = NoChunk
    /\ tail = head
    /\ room' = 0
    /\ isr' = "idle"
    /\ UNCHANGED <<ring, driver, notified, producer, streamChunk, streamOffset, heard>>

\* The memcpy of a whole chunk.
CopyChunk ==
    /\ isr = "next" /\ streamChunk # NoChunk
    /\ streamOffset = 0 /\ room >= ChunkSymbols
    /\ heard' = NextSymbol(symbols[streamChunk][ChunkSymbols - 1])
    /\ room' = room - ChunkSymbols
    /\ streamOffset' = ChunkSymbols
    /\ isr' = "free"
    /\ UNCHANGED <<ring, driver, notified, producer, streamChunk>>

\* One turn of the symbol by symbol loop.
CopySymbol ==
    /\ isr = "next" /\ streamChunk # NoChunk /\ room > 0
    /\ streamOffset > 0 \/ room < ChunkSymbols
    /\ heard' = NextSymbol(symbols[streamChunk][streamOffset])
    /\ room' = room - 1
    /\ streamOffset' = streamOffset + 1
    /\ isr' = IF streamOffset + 1 = ChunkSymbols THEN "free" ELSE "next"
    /\ UNCHANGED <<ring, driver, notified, producer, streamChunk>>

\* audioRmtSignalChunkFree: the store of FREE, then the notification.
FreeChunk ==
    /\ isr = "free"
    /\ chunkState' = [chunkState EXCEPT ![streamChunk] = "FREE"]
    /\ streamChunk' = NoChunk /\ streamOffset' = 0
    /\ isr' = "notify"
    /\ UNCHANGED <<symbols, pendingIndex, head, tail, driver, notified, producer,
                   room, heard>>

NotifyProducer ==
    /\ isr = "notify"
    /\ notified' = TRUE
    /\ isr' = "next"
    /\ UNCHANGED <<ring, driver, producer, streamChunk, streamOffset, room, heard>>

-----------------------------------------------------------------------------
Acquire == FlushPendingSymbol \/ AcquireChunk \/ NoneFree \/ TakeNotification \/ WaitTimeout
Publish == WriteSymbol \/ MarkReady \/ QueueIndex \/ AdvanceHead \/ CheckStart \/ StartStream
Producer == Acquire \/ Publish

Encode ==
    \/ EncodeCall \/ EncodeReturn \/ SelectNextChunk \/ ActivateChunk
    \/ HoldLastLevel \/ CopyChunk \/ CopySymbol \/ FreeChunk \/ NotifyProducer

Next == Producer \/ Encode

Spec == Init /\ [][Next]_rmtVars

(* The emulator task and the interrupt both keep running; the DMA keeps    *)
(* asking for symbols as long as the transmission lasts.                   *)
FairSpec == Spec /\ WF_rmtVars(Producer) /\ WF_rmtVars(Encode)

-----------------------------------------------------------------------------
(* Properties.                                                             *)

\* The entries of rmtPendingChunkIndexes between tail and head.
Window == {n \in 0 .. SeqMax : n # head /\ Pending(tail, n) < Pending(tail, head)}
Queued == {pendingIndex[Slot(n)] : n \in Window}

Publishing == pc \in {"index", "head"}

\* Exactly one agent may touch a chunk: the producer may claim it (FREE), the
\* writer fills or publishes it, the queue holds it, or the callback reads it;
\* and the state byte always tells which.  No chunk is ever lost or shared.
ChunkOwnership ==
    \A c \in Chunk :
        /\ chunkState[c] = "FREE" <=> c \notin Queued \cup {writer, streamChunk}
        /\ chunkState[c] = "FILLING" <=> c = writer /\ ~Publishing
        /\ chunkState[c] = "ACTIVE" <=> c = streamChunk /\ isr # "activate"
        /\ c = writer => c # streamChunk /\ c \notin Queued
        /\ c = streamChunk => c \notin Queued

\* The ring never holds more published chunks than it has slots, so storing
\* the next index never overwrites one the callback has not read yet.
NoIndexOverwritten ==
    pc = "index" => \A n \in Window : Slot(n) # Slot(head)

\* No wake-up is lost: a producer that blocks with no notification pending has
\* no free chunk it could have taken, unless the callback is about to notify.
NoLostWakeup ==
    pc = "wait" /\ ~notified /\ isr # "notify" => \A c \in Chunk : chunkState[c] # "FREE"
=============================================================================
