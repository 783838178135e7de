--------------------------- MODULE RmtRingProofs ---------------------------
(***************************************************************************)
(* Proofs about the RMT symbol ring, for every number and size of chunks,  *)
(* every request size of the driver and any failure of rmt_transmit(), as  *)
(* long as the publication counter has not wrapped (NoWrap).  With       *)
(* the counters that MCRmtRing.cfg names TLC shows that it is needed.      *)
(***************************************************************************)
EXTENDS MCRmtRing, FiniteSetTheorems, SequenceTheorems, TLAPS

\* The 32-bit publication counter has not reached its largest value.
NoWrap == head < SeqMax

Entry(n) == pendingIndex[Slot(n)]
Entries == tail .. head - 1

(***************************************************************************)
(* The inductive invariant, one conjunct per concern.                      *)
(***************************************************************************)
\* What the control points say about the agents' local variables.
ProducerControl ==
    /\ writer # NoChunk <=> pc \in {"write", "ready", "index", "head"}
                            \/ (pc = "render" /\ symbolCount > 0)
    /\ pc \in {"render", "write"} => symbolCount < ChunkSymbols
    /\ writer = NoChunk => symbolCount = 0
    /\ pc \in {"ready", "index", "head"} => symbolCount = ChunkSymbols
    /\ pc = "wait" => scan = NumChunks

CallbackControl ==
    /\ isr \in {"activate", "free"} => streamChunk # NoChunk
    /\ isr = "notify" => streamChunk = NoChunk /\ streamOffset = 0
    /\ isr \in {"idle", "next", "activate"} => streamOffset < ChunkSymbols
    /\ isr = "activate" => streamOffset = 0
    /\ isr = "free" => streamOffset = ChunkSymbols

\* The queued entries are READY chunks, no two alike, owned by nobody else.
QueueSound ==
    /\ tail <= head
    /\ \A n \in Entries : /\ chunkState[Entry(n)] = "READY"
                          /\ Entry(n) # writer
                          /\ Entry(n) # streamChunk
    /\ \A m, n \in Entries : m # n => Entry(m) # Entry(n)

\* A chunk's state byte names its owner.
StateNamesOwner ==
    /\ \A c \in Chunk : chunkState[c] = "FILLING" <=> c = writer /\ ~Publishing
    /\ \A c \in Chunk : chunkState[c] = "ACTIVE" <=> c = streamChunk /\ isr # "activate"
    /\ \A c \in Chunk : chunkState[c] = "READY" <=>
                            \/ \E n \in Entries : c = Entry(n)
                            \/ c = writer /\ Publishing
                            \/ c = streamChunk /\ isr = "activate"
    /\ writer # NoChunk => writer # streamChunk

\* The index being published is already in its slot, and the slot was free.
IndexStored ==
    pc = "head" => /\ seq = head
                   /\ Entry(head) = writer
                   /\ head - tail < NumChunks

\* Every chunk the scan has passed is taken, or a notification is coming.
ScanPassed ==
    pc \in {"scan", "wait"} /\ ~notified /\ isr # "notify" =>
        \A c \in Chunk : c < scan => chunkState[c] # "FREE"

RingInv ==
    /\ TypeOK
    /\ ProducerControl
    /\ CallbackControl
    /\ QueueSound
    /\ StateNamesOwner
    /\ IndexStored
    /\ ScanPassed
-----------------------------------------------------------------------------
\* Two sequence numbers less than NumChunks apart have different slots.
LEMMA SlotDistinct ==
    ASSUME NEW m \in Nat, NEW n \in Nat, m < n, n < m + NumChunks
    PROVE  Slot(m) # Slot(n)
<1> USE RmtConstants
<1> SUFFICES ASSUME m % NumChunks = n % NumChunks PROVE FALSE
  BY DEF Slot
<1> DEFINE p == m \div NumChunks
           q == n \div NumChunks
<1>1. p \in Nat /\ q \in Nat
  OBVIOUS
<1>2. m = NumChunks * p + (m % NumChunks) /\ n = NumChunks * q + (n % NumChunks)
  OBVIOUS
<1>3. n - m = NumChunks * (q - p)
  BY <1>1, <1>2
<1> HIDE DEF p, q
<1>4. CASE q <= p
  BY <1>1, <1>3, <1>4
<1>5. CASE q > p
  <2>1. NumChunks * (q - p) >= NumChunks
    BY <1>1, <1>5
  <2> QED
    BY <1>3, <2>1
<1> QED
  BY <1>1, <1>4, <1>5

\* A sequence number has a slot among the chunks' indexes.
LEMMA SlotType ==
    ASSUME NEW n \in Nat
    PROVE  Slot(n) \in Chunk
  BY RmtConstants DEF Slot, Chunk

\* The queue holds fewer entries than there are chunks while the writer has
\* one of them: entries are distinct and none is the writer's (pigeonhole).
LEMMA QueueLeavesRoom ==
    ASSUME TypeOK, QueueSound, writer \in Chunk
    PROVE  head - tail < NumChunks
<1> SUFFICES ASSUME head - tail >= NumChunks PROVE FALSE
  BY RmtConstants DEF TypeOK, RingTypes, ProducerTypes, CallbackTypes
<1> DEFINE S == tail .. head - 1
           T == Chunk \ {writer}
           f == [n \in S |-> Entry(n)]
<1>1. IsFiniteSet(S) /\ Cardinality(S) = head - tail
  <2>1. tail \in Int /\ head - 1 \in Int
    BY DEF TypeOK, RingTypes, ProducerTypes, CallbackTypes
  <2>2. IsFiniteSet(S) /\ Cardinality(S) = IF tail > head - 1 THEN 0 ELSE head - 1 - tail + 1
    BY <2>1, FS_Interval
  <2> QED
    BY <2>2, RmtConstants DEF TypeOK, RingTypes, ProducerTypes, CallbackTypes
<1>2. IsFiniteSet(T) /\ Cardinality(T) = NumChunks - 1
  <2>1. IsFiniteSet(Chunk) /\ Cardinality(Chunk) = NumChunks
    BY FS_Interval, RmtConstants DEF Chunk
  <2> QED
    BY <2>1, FS_RemoveElement
<1>3. f \in [S -> T]
  BY SlotType DEF TypeOK, RingTypes, ProducerTypes, CallbackTypes, QueueSound, Entries, Entry
<1>4. Cardinality(T) < Cardinality(S)
  BY <1>1, <1>2, RmtConstants DEF TypeOK, RingTypes, ProducerTypes, CallbackTypes
<1>5. PICK m, n \in S : m # n /\ f[m] = f[n]
  <2> HIDE DEF S, T, f
  <2> QED
    BY <1>1, <1>2, <1>3, <1>4, FS_PigeonHole
<1> QED
  BY <1>5 DEF QueueSound, Entries

\* The invariant holds initially.
LEMMA RingInvInit == Init => RingInv
<1> SUFFICES ASSUME Init PROVE RingInv
  OBVIOUS
<1> USE RmtConstants DEF Init, NoChunk
<1>1. TypeOK
  <2>1. chunkState \in [Chunk -> {"FREE", "FILLING", "READY", "ACTIVE"}]
    OBVIOUS
  <2>2. /\ symbols \in [Chunk -> [Offset -> Symbol]]
        /\ pendingIndex \in [Chunk -> Chunk]
    BY DEF Symbol, Chunk
  <2>3. streamStarted \in BOOLEAN /\ transmitting \in BOOLEAN /\ notified \in BOOLEAN
    OBVIOUS
  <2> QED
    BY <2>1, <2>2, <2>3 DEF TypeOK, RingTypes, FlagTypes, ProducerTypes, CallbackTypes, Symbol, ProducerPlaces, CallbackPlaces
<1>2. ProducerControl /\ CallbackControl
  BY DEF ProducerControl, CallbackControl
<1>3. Entries = {}
  BY DEF Entries
<1>4. QueueSound
  BY <1>3 DEF QueueSound
<1>5. StateNamesOwner
  BY <1>3 DEF StateNamesOwner, Chunk, Publishing
<1>6. IndexStored /\ ScanPassed
  BY DEF IndexStored, ScanPassed
<1> QED
  BY <1>1, <1>2, <1>4, <1>5, <1>6 DEF RingInv

-----------------------------------------------------------------------------
\* The counter operations stay in their ranges.
LEMMA CounterTypes ==
    /\ \A n \in 0 .. SeqMax : Bump(n) \in 0 .. SeqMax
    /\ \A s \in Symbol : NextSymbol(s) \in Symbol
  BY RmtConstants DEF Bump, NextSymbol, Symbol

\* Every step preserves the types.
LEMMA TypeStep ==
    ASSUME TypeOK, ProducerControl, CallbackControl, [Next]_rmtVars
    PROVE  TypeOK'
<1> USE DEF TypeOK
<1>1. FlagTypes'
  BY Zenon DEF FlagTypes, Next, Producer, Acquire, Publish, Encode, rmtVars, ring, driver, producer, callback,
     FlushPendingSymbol, AcquireChunk, NoneFree, TakeNotification, WaitTimeout,
     WriteSymbol, MarkReady, QueueIndex, AdvanceHead, CheckStart, StartStream, EncodeCall,
     EncodeReturn, SelectNextChunk, ActivateChunk, HoldLastLevel, CopyChunk, CopySymbol,
     FreeChunk, NotifyProducer
<1>2. RingTypes'
  <2>1. CASE AcquireChunk
    BY <2>1, RmtConstants, SlotType, CounterTypes DEF AcquireChunk, RingTypes, ProducerTypes, CallbackTypes, Chunk, Offset, ProducerControl,
       CallbackControl, NoChunk, driver, producer, callback
  <2>2. CASE WriteSymbol
    BY <2>2, RmtConstants, SlotType, CounterTypes DEF WriteSymbol, RingTypes, ProducerTypes, CallbackTypes, Chunk, Offset, ProducerControl,
       CallbackControl, NoChunk, driver, producer, callback
  <2>3. CASE MarkReady
    BY <2>3, RmtConstants, SlotType, CounterTypes DEF MarkReady, RingTypes, ProducerTypes, CallbackTypes, Chunk, Offset, ProducerControl,
       CallbackControl, NoChunk, driver, producer, callback
  <2>4. CASE QueueIndex
    BY <2>4, RmtConstants, SlotType, CounterTypes DEF QueueIndex, RingTypes, ProducerTypes, CallbackTypes, Chunk, Offset, ProducerControl,
       CallbackControl, NoChunk, driver, producer, callback
  <2>5. CASE AdvanceHead
    BY <2>5, RmtConstants, SlotType, CounterTypes DEF AdvanceHead, RingTypes, ProducerTypes, CallbackTypes, Chunk, Offset, ProducerControl,
       CallbackControl, NoChunk, driver, producer, callback
  <2>6. CASE SelectNextChunk
    BY <2>6, RmtConstants, SlotType, CounterTypes DEF SelectNextChunk, RingTypes, ProducerTypes, CallbackTypes, Chunk, Offset,
       ProducerControl, CallbackControl, NoChunk, driver, producer, callback
  <2>7. CASE ActivateChunk
    BY <2>7, RmtConstants, SlotType, CounterTypes DEF ActivateChunk, RingTypes, ProducerTypes, CallbackTypes, Chunk, Offset,
       ProducerControl, CallbackControl, NoChunk, driver, producer, callback
  <2>8. CASE FreeChunk
    BY <2>8, RmtConstants, SlotType, CounterTypes DEF FreeChunk, RingTypes, ProducerTypes, CallbackTypes, Chunk, Offset, ProducerControl,
       CallbackControl, NoChunk, driver, producer, callback
  <2>9. CASE UNCHANGED ring
    BY <2>9 DEF ring, RingTypes
  <2> QED
    BY <2>1, <2>2, <2>3, <2>4, <2>5, <2>6, <2>7, <2>8, <2>9
       DEF Next, Producer, Acquire, Publish, Encode, rmtVars, ring, driver, producer,
           callback, FlushPendingSymbol, AcquireChunk, NoneFree, TakeNotification,
           WaitTimeout, WriteSymbol, MarkReady, QueueIndex, AdvanceHead, CheckStart,
           StartStream, EncodeCall, EncodeReturn, SelectNextChunk, ActivateChunk,
           HoldLastLevel, CopyChunk, CopySymbol, FreeChunk, NotifyProducer
<1>3. ProducerTypes'
  <2>1. CASE FlushPendingSymbol
    BY <2>1, RmtConstants, CounterTypes DEF FlushPendingSymbol, RingTypes, ProducerTypes, Chunk, ProducerPlaces, ProducerControl
  <2>2. CASE AcquireChunk
    <3>1. scan \in Chunk /\ scan + 1 \in 0 .. NumChunks /\ 0 \in 0 .. ChunkSymbols
      BY <2>2, RmtConstants DEF AcquireChunk, ProducerTypes, Chunk
    <3>2. seq' = seq /\ made' = made
      BY <2>2 DEF AcquireChunk
    <3>3. pc' \in ProducerPlaces
      BY <2>2 DEF AcquireChunk, ProducerTypes, ProducerPlaces
    <3>4. CASE chunkState[scan] = "FREE"
      BY <2>2, <3>1, <3>2, <3>3, <3>4 DEF AcquireChunk, ProducerTypes
    <3>5. CASE chunkState[scan] # "FREE"
      BY <2>2, <3>1, <3>2, <3>3, <3>5 DEF AcquireChunk, ProducerTypes
    <3> QED
      BY <3>4, <3>5
  <2>3. CASE NoneFree
    BY <2>3, RmtConstants, CounterTypes DEF NoneFree, RingTypes, ProducerTypes, Chunk, ProducerPlaces, ProducerControl
  <2>4. CASE TakeNotification
    BY <2>4, RmtConstants, CounterTypes DEF TakeNotification, RingTypes, ProducerTypes, Chunk, ProducerPlaces, ProducerControl
  <2>5. CASE WaitTimeout
    BY <2>5, RmtConstants, CounterTypes DEF WaitTimeout, RingTypes, ProducerTypes, Chunk, ProducerPlaces, ProducerControl
  <2>6. CASE WriteSymbol
    BY <2>6, RmtConstants, CounterTypes DEF WriteSymbol, RingTypes, ProducerTypes, Chunk, ProducerPlaces, ProducerControl
  <2>7. CASE MarkReady
    BY <2>7, RmtConstants, CounterTypes DEF MarkReady, RingTypes, ProducerTypes, Chunk, ProducerPlaces, ProducerControl
  <2>8. CASE QueueIndex
    BY <2>8, RmtConstants, CounterTypes DEF QueueIndex, RingTypes, ProducerTypes, Chunk, ProducerPlaces, ProducerControl
  <2>9. CASE AdvanceHead
    BY <2>9, RmtConstants, CounterTypes DEF AdvanceHead, RingTypes, ProducerTypes, Chunk, ProducerPlaces, ProducerControl
  <2>10. CASE CheckStart
    BY <2>10, RmtConstants, CounterTypes DEF CheckStart, RingTypes, ProducerTypes, Chunk, ProducerPlaces, ProducerControl
  <2>11. CASE StartStream
    BY <2>11, RmtConstants, CounterTypes DEF StartStream, RingTypes, ProducerTypes, Chunk, ProducerPlaces, ProducerControl
  <2>12. CASE UNCHANGED producer
    BY <2>12 DEF producer, ProducerTypes
  <2> QED
    BY <2>1, <2>2, <2>3, <2>4, <2>5, <2>6, <2>7, <2>8, <2>9, <2>10, <2>11, <2>12
       DEF Next, Producer, Acquire, Publish, Encode, rmtVars, ring, driver, producer,
           callback, FlushPendingSymbol, AcquireChunk, NoneFree, TakeNotification,
           WaitTimeout, WriteSymbol, MarkReady, QueueIndex, AdvanceHead, CheckStart,
           StartStream, EncodeCall, EncodeReturn, SelectNextChunk, ActivateChunk,
           HoldLastLevel, CopyChunk, CopySymbol, FreeChunk, NotifyProducer
<1>4. CallbackTypes'
  <2>1. CASE EncodeCall
    BY <2>1, RmtConstants, SlotType, CounterTypes DEF EncodeCall, RingTypes, CallbackTypes, Offset, CallbackPlaces, CallbackControl
  <2>2. CASE EncodeReturn
    BY <2>2, RmtConstants, SlotType, CounterTypes DEF EncodeReturn, RingTypes, CallbackTypes, Offset, CallbackPlaces, CallbackControl
  <2>3. CASE SelectNextChunk
    BY <2>3, RmtConstants, SlotType, CounterTypes DEF SelectNextChunk, RingTypes, CallbackTypes, Offset, CallbackPlaces, CallbackControl
  <2>4. CASE ActivateChunk
    BY <2>4, RmtConstants, SlotType, CounterTypes DEF ActivateChunk, RingTypes, CallbackTypes, Offset, CallbackPlaces, CallbackControl
  <2>5. CASE HoldLastLevel
    BY <2>5, RmtConstants, SlotType, CounterTypes DEF HoldLastLevel, RingTypes, CallbackTypes, Offset, CallbackPlaces, CallbackControl
  <2>6. CASE CopyChunk
    BY <2>6, RmtConstants, SlotType, CounterTypes DEF CopyChunk, RingTypes, CallbackTypes, Offset, CallbackPlaces, CallbackControl
  <2>7. CASE CopySymbol
    BY <2>7, RmtConstants, SlotType, CounterTypes DEF CopySymbol, RingTypes, CallbackTypes, Offset, CallbackPlaces, CallbackControl
  <2>8. CASE FreeChunk
    BY <2>8, RmtConstants, SlotType, CounterTypes DEF FreeChunk, RingTypes, CallbackTypes, Offset, CallbackPlaces, CallbackControl
  <2>9. CASE NotifyProducer
    BY <2>9, RmtConstants, SlotType, CounterTypes DEF NotifyProducer, RingTypes, CallbackTypes, Offset, CallbackPlaces, CallbackControl
  <2>10. CASE UNCHANGED callback
    BY <2>10 DEF callback, CallbackTypes
  <2> QED
    BY <2>1, <2>2, <2>3, <2>4, <2>5, <2>6, <2>7, <2>8, <2>9, <2>10
       DEF Next, Producer, Acquire, Publish, Encode, rmtVars, ring, driver, producer,
           callback, FlushPendingSymbol, AcquireChunk, NoneFree, TakeNotification,
           WaitTimeout, WriteSymbol, MarkReady, QueueIndex, AdvanceHead, CheckStart,
           StartStream, EncodeCall, EncodeReturn, SelectNextChunk, ActivateChunk,
           HoldLastLevel, CopyChunk, CopySymbol, FreeChunk, NotifyProducer
<1> QED
  BY <1>1, <1>2, <1>3, <1>4

\* Every step preserves what the control points imply.
LEMMA ControlStep ==
    ASSUME TypeOK, ProducerControl, CallbackControl, [Next]_rmtVars
    PROVE  ProducerControl' /\ CallbackControl'
<1> USE RmtConstants
<1>1. ProducerControl'
  <2>1. CASE FlushPendingSymbol
    BY <2>1
       DEF FlushPendingSymbol, TypeOK, ProducerTypes, ProducerPlaces, ProducerControl,
           NoChunk, Chunk
  <2>2. CASE AcquireChunk
    BY <2>2
       DEF AcquireChunk, TypeOK, ProducerTypes, ProducerPlaces, ProducerControl, NoChunk,
           Chunk
  <2>3. CASE NoneFree
    BY <2>3
       DEF NoneFree, TypeOK, ProducerTypes, ProducerPlaces, ProducerControl, NoChunk,
           Chunk
  <2>4. CASE TakeNotification
    BY <2>4
       DEF TakeNotification, TypeOK, ProducerTypes, ProducerPlaces, ProducerControl,
           NoChunk, Chunk
  <2>5. CASE WaitTimeout
    BY <2>5
       DEF WaitTimeout, TypeOK, ProducerTypes, ProducerPlaces, ProducerControl, NoChunk,
           Chunk
  <2>6. CASE WriteSymbol
    BY <2>6
       DEF WriteSymbol, TypeOK, ProducerTypes, ProducerPlaces, ProducerControl, NoChunk,
           Chunk
  <2>7. CASE MarkReady
    BY <2>7
       DEF MarkReady, TypeOK, ProducerTypes, ProducerPlaces, ProducerControl, NoChunk,
           Chunk
  <2>8. CASE QueueIndex
    BY <2>8
       DEF QueueIndex, TypeOK, ProducerTypes, ProducerPlaces, ProducerControl, NoChunk,
           Chunk
  <2>9. CASE AdvanceHead
    BY <2>9
       DEF AdvanceHead, TypeOK, ProducerTypes, ProducerPlaces, ProducerControl, NoChunk,
           Chunk
  <2>10. CASE CheckStart
    BY <2>10
       DEF CheckStart, TypeOK, ProducerTypes, ProducerPlaces, ProducerControl, NoChunk,
           Chunk
  <2>11. CASE StartStream
    BY <2>11
       DEF StartStream, TypeOK, ProducerTypes, ProducerPlaces, ProducerControl, NoChunk,
           Chunk
  <2>12. CASE UNCHANGED producer
    BY <2>12 DEF producer, ProducerControl
  <2> QED
    BY <2>1, <2>2, <2>3, <2>4, <2>5, <2>6, <2>7, <2>8, <2>9, <2>10, <2>11, <2>12
       DEF Next, Producer, Acquire, Publish, Encode, rmtVars, ring, driver, producer,
           callback, FlushPendingSymbol, AcquireChunk, NoneFree, TakeNotification,
           WaitTimeout, WriteSymbol, MarkReady, QueueIndex, AdvanceHead, CheckStart,
           StartStream, EncodeCall, EncodeReturn, SelectNextChunk, ActivateChunk,
           HoldLastLevel, CopyChunk, CopySymbol, FreeChunk, NotifyProducer
<1>2. CallbackControl'
  <2>1. CASE EncodeCall
    BY <2>1, SlotType
       DEF EncodeCall, TypeOK, RingTypes, CallbackTypes, CallbackPlaces, CallbackControl,
           NoChunk, Chunk
  <2>2. CASE EncodeReturn
    BY <2>2, SlotType
       DEF EncodeReturn, TypeOK, RingTypes, CallbackTypes, CallbackPlaces,
           CallbackControl, NoChunk, Chunk
  <2>3. CASE SelectNextChunk
    BY <2>3, SlotType
       DEF SelectNextChunk, TypeOK, RingTypes, CallbackTypes, CallbackPlaces,
           CallbackControl, NoChunk, Chunk
  <2>4. CASE ActivateChunk
    BY <2>4, SlotType
       DEF ActivateChunk, TypeOK, RingTypes, CallbackTypes, CallbackPlaces,
           CallbackControl, NoChunk, Chunk
  <2>5. CASE HoldLastLevel
    BY <2>5, SlotType
       DEF HoldLastLevel, TypeOK, RingTypes, CallbackTypes, CallbackPlaces,
           CallbackControl, NoChunk, Chunk
  <2>6. CASE CopyChunk
    BY <2>6, SlotType
       DEF CopyChunk, TypeOK, RingTypes, CallbackTypes, CallbackPlaces, CallbackControl,
           NoChunk, Chunk
  <2>7. CASE CopySymbol
    BY <2>7, SlotType
       DEF CopySymbol, TypeOK, RingTypes, CallbackTypes, CallbackPlaces, CallbackControl,
           NoChunk, Chunk
  <2>8. CASE FreeChunk
    BY <2>8, SlotType
       DEF FreeChunk, TypeOK, RingTypes, CallbackTypes, CallbackPlaces, CallbackControl,
           NoChunk, Chunk
  <2>9. CASE NotifyProducer
    BY <2>9, SlotType
       DEF NotifyProducer, TypeOK, RingTypes, CallbackTypes, CallbackPlaces,
           CallbackControl, NoChunk, Chunk
  <2>10. CASE UNCHANGED callback
    BY <2>10 DEF callback, CallbackControl
  <2> QED
    BY <2>1, <2>2, <2>3, <2>4, <2>5, <2>6, <2>7, <2>8, <2>9, <2>10
       DEF Next, Producer, Acquire, Publish, Encode, rmtVars, ring, driver, producer,
           callback, FlushPendingSymbol, AcquireChunk, NoneFree, TakeNotification,
           WaitTimeout, WriteSymbol, MarkReady, QueueIndex, AdvanceHead, CheckStart,
           StartStream, EncodeCall, EncodeReturn, SelectNextChunk, ActivateChunk,
           HoldLastLevel, CopyChunk, CopySymbol, FreeChunk, NotifyProducer
<1> QED
  BY <1>1, <1>2

\* Every step preserves the promise that a chunk the scan has passed is taken
\* or will be announced.
LEMMA ScanPassedStep ==
    ASSUME TypeOK, ProducerControl, ScanPassed, [Next]_rmtVars
    PROVE  ScanPassed'
<1> USE RmtConstants
<1>1. CASE FlushPendingSymbol
  BY <1>1
     DEF FlushPendingSymbol, TypeOK, RingTypes, ProducerTypes, ScanPassed, Chunk, ring,
         producer, callback
<1>2. CASE AcquireChunk
  <2>1. scan \in Int
    BY DEF TypeOK, ProducerTypes
  <2>2. CASE chunkState[scan] = "FREE"
    BY <1>2, <2>2 DEF AcquireChunk, ScanPassed
  <2>3. CASE chunkState[scan] # "FREE"
    <3>1. chunkState' = chunkState /\ scan' = scan + 1 /\ notified' = notified /\ isr' = isr /\ pc = "scan"
      BY <1>2, <2>3 DEF AcquireChunk, callback
    <3>2. \A c \in Chunk : c < scan + 1 => c < scan \/ c = scan
      BY <2>1 DEF Chunk
    <3> QED
      BY <2>3, <3>1, <3>2 DEF ScanPassed
  <2> QED
    BY <2>2, <2>3
<1>3. CASE NoneFree
  BY <1>3
     DEF NoneFree, TypeOK, RingTypes, ProducerTypes, ScanPassed, Chunk, ring, producer,
         callback
<1>4. CASE TakeNotification
  BY <1>4
     DEF TakeNotification, TypeOK, RingTypes, ProducerTypes, ScanPassed, Chunk, ring,
         producer, callback
<1>5. CASE WaitTimeout
  BY <1>5
     DEF WaitTimeout, TypeOK, RingTypes, ProducerTypes, ScanPassed, Chunk, ring,
         producer, callback
<1>6. CASE WriteSymbol
  BY <1>6
     DEF WriteSymbol, TypeOK, RingTypes, ProducerTypes, ScanPassed, Chunk, ring,
         producer, callback
<1>7. CASE MarkReady
  BY <1>7
     DEF MarkReady, TypeOK, RingTypes, ProducerTypes, ScanPassed, Chunk, ring, producer,
         callback
<1>8. CASE QueueIndex
  BY <1>8
     DEF QueueIndex, TypeOK, RingTypes, ProducerTypes, ScanPassed, Chunk, ring, producer,
         callback
<1>9. CASE AdvanceHead
  BY <1>9
     DEF AdvanceHead, TypeOK, RingTypes, ProducerTypes, ScanPassed, Chunk, ring,
         producer, callback
<1>10. CASE CheckStart
  BY <1>10
     DEF CheckStart, TypeOK, RingTypes, ProducerTypes, ScanPassed, Chunk, ring, producer,
         callback
<1>11. CASE StartStream
  BY <1>11
     DEF StartStream, TypeOK, RingTypes, ProducerTypes, ScanPassed, Chunk, ring,
         producer, callback
<1>12. CASE EncodeCall
  BY <1>12
     DEF EncodeCall, TypeOK, RingTypes, ProducerTypes, ScanPassed, Chunk, ring, producer,
         callback
<1>13. CASE EncodeReturn
  BY <1>13
     DEF EncodeReturn, TypeOK, RingTypes, ProducerTypes, ScanPassed, Chunk, ring,
         producer, callback
<1>14. CASE SelectNextChunk
  BY <1>14
     DEF SelectNextChunk, TypeOK, RingTypes, ProducerTypes, ScanPassed, Chunk, ring,
         producer, callback
<1>15. CASE ActivateChunk
  BY <1>15
     DEF ActivateChunk, TypeOK, RingTypes, ProducerTypes, ScanPassed, Chunk, ring,
         producer, callback
<1>16. CASE HoldLastLevel
  BY <1>16
     DEF HoldLastLevel, TypeOK, RingTypes, ProducerTypes, ScanPassed, Chunk, ring,
         producer, callback
<1>17. CASE CopyChunk
  BY <1>17
     DEF CopyChunk, TypeOK, RingTypes, ProducerTypes, ScanPassed, Chunk, ring, producer,
         callback
<1>18. CASE CopySymbol
  BY <1>18
     DEF CopySymbol, TypeOK, RingTypes, ProducerTypes, ScanPassed, Chunk, ring, producer,
         callback
<1>19. CASE FreeChunk
  BY <1>19
     DEF FreeChunk, TypeOK, RingTypes, ProducerTypes, ScanPassed, Chunk, ring, producer,
         callback
<1>20. CASE NotifyProducer
  BY <1>20
     DEF NotifyProducer, TypeOK, RingTypes, ProducerTypes, ScanPassed, Chunk, ring,
         producer, callback
<1>21. CASE UNCHANGED rmtVars
  BY <1>21 DEF rmtVars, ring, producer, callback, ScanPassed
<1> QED
  BY <1>1, <1>2, <1>3, <1>4, <1>5, <1>6, <1>7, <1>8, <1>9, <1>10, <1>11, <1>12, <1>13,
     <1>14, <1>15, <1>16, <1>17, <1>18, <1>19, <1>20, <1>21
     DEF Next, Producer, Acquire, Publish, Encode, rmtVars, ring, driver, producer,
         callback, FlushPendingSymbol, AcquireChunk, NoneFree, TakeNotification,
         WaitTimeout, WriteSymbol, MarkReady, QueueIndex, AdvanceHead, CheckStart,
         StartStream, EncodeCall, EncodeReturn, SelectNextChunk, ActivateChunk,
         HoldLastLevel, CopyChunk, CopySymbol, FreeChunk, NotifyProducer

\* The entries of the queue are sequence numbers with slots among the indexes.
LEMMA EntryTypes ==
    ASSUME TypeOK
    PROVE  /\ \A n \in Entries : n \in Nat /\ Slot(n) \in Chunk /\ Entry(n) \in Chunk
           /\ Slot(head) \in Chunk
  BY SlotType DEF TypeOK, RingTypes, Entries, Entry

\* Every step preserves the soundness of the queue
\* and the agreement between a chunk's state byte and its owner, while the
\* publication counter does not wrap.
LEMMA OwnershipStep ==
    ASSUME RingInv, NoWrap, [Next]_rmtVars
    PROVE  QueueSound' /\ StateNamesOwner' /\ IndexStored'
<1> USE RmtConstants DEF RingInv
<1>a. /\ \A n \in Entries : n \in Nat /\ Slot(n) \in Chunk /\ Entry(n) \in Chunk
      /\ Slot(head) \in Chunk
  BY EntryTypes
<1>b. /\ head \in Nat /\ tail \in Nat /\ seq \in Nat
      /\ writer \in Chunk \cup {NoChunk} /\ streamChunk \in Chunk \cup {NoChunk}
      /\ scan \in Nat /\ NoChunk \notin Chunk
      /\ chunkState \in [Chunk -> {"FREE", "FILLING", "READY", "ACTIVE"}]
      /\ pendingIndex \in [Chunk -> Chunk]
  BY DEF TypeOK, RingTypes, ProducerTypes, CallbackTypes, NoChunk, Chunk
<1>1. CASE FlushPendingSymbol
  BY <1>1
     DEF FlushPendingSymbol, Entries, Entry, QueueSound, StateNamesOwner, IndexStored,
         Publishing, ring, producer, callback, ProducerControl
<1>2. CASE AcquireChunk
  <2>1. /\ Entries' = Entries /\ tail' = tail /\ head' = head /\ seq' = seq
        /\ \A n : Entry(n)' = Entry(n)
    BY <1>2 DEF AcquireChunk, Entries, Entry, producer, callback
  <2>2. CASE chunkState[scan] = "FREE"
    <3>1. /\ scan \in Chunk /\ chunkState' = [chunkState EXCEPT ![scan] = "FILLING"]
          /\ writer = NoChunk /\ writer' = scan /\ ~Publishing /\ ~Publishing' /\ pc' = "write"
          /\ streamChunk' = streamChunk /\ isr' = isr
      BY <1>2, <2>2, <1>b DEF AcquireChunk, Publishing, ProducerControl, callback, Chunk
    <3>2. QueueSound'
      BY <1>a, <1>b, <2>1, <2>2, <3>1 DEF QueueSound
    <3>3. StateNamesOwner'
      BY <1>a, <1>b, <2>1, <2>2, <3>1 DEF StateNamesOwner
    <3> QED
      BY <3>1, <3>2, <3>3 DEF IndexStored
  <2>3. CASE chunkState[scan] # "FREE"
    BY <1>2, <2>1, <2>3 DEF AcquireChunk, QueueSound, StateNamesOwner, IndexStored, Publishing, callback
  <2> QED
    BY <2>2, <2>3
<1>3. CASE NoneFree
  BY <1>3
     DEF NoneFree, Entries, Entry, QueueSound, StateNamesOwner, IndexStored, Publishing,
         ring, producer, callback, ProducerControl
<1>4. CASE TakeNotification
  BY <1>4
     DEF TakeNotification, Entries, Entry, QueueSound, StateNamesOwner, IndexStored,
         Publishing, ring, producer, callback, ProducerControl
<1>5. CASE WaitTimeout
  BY <1>5
     DEF WaitTimeout, Entries, Entry, QueueSound, StateNamesOwner, IndexStored,
         Publishing, ring, producer, callback, ProducerControl
<1>6. CASE WriteSymbol
  BY <1>6
     DEF WriteSymbol, Entries, Entry, QueueSound, StateNamesOwner, IndexStored,
         Publishing, ring, producer, callback, ProducerControl
<1>7. CASE MarkReady
  <2>1. /\ Entries' = Entries /\ tail' = tail /\ head' = head /\ seq' = seq
        /\ \A n : Entry(n)' = Entry(n)
    BY <1>7 DEF MarkReady, Entries, Entry, producer, callback
  <2>2. /\ writer \in Chunk /\ chunkState' = [chunkState EXCEPT ![writer] = "READY"]
        /\ writer' = writer /\ ~Publishing /\ Publishing' /\ pc' = "index"
        /\ streamChunk' = streamChunk /\ isr' = isr
    BY <1>7, <1>b DEF MarkReady, Publishing, ProducerControl, callback
  <2>3. QueueSound'
    BY <1>a, <1>b, <2>1, <2>2 DEF QueueSound
  <2>4. StateNamesOwner'
    BY <1>a, <1>b, <2>1, <2>2 DEF StateNamesOwner
  <2> QED
    BY <2>2, <2>3, <2>4 DEF IndexStored
<1>8. CASE QueueIndex
  <2>1. /\ writer \in Chunk /\ writer' = writer /\ Publishing /\ Publishing' /\ pc' = "head"
        /\ streamChunk' = streamChunk /\ isr' = isr /\ chunkState' = chunkState
        /\ tail' = tail /\ head' = head /\ seq' = head /\ Entries' = Entries
        /\ pendingIndex' = [pendingIndex EXCEPT ![Slot(head)] = writer]
    BY <1>8, <1>b DEF QueueIndex, Publishing, ProducerControl, callback, Entries
  <2>2. head - tail < NumChunks
    BY <2>1, QueueLeavesRoom
  <2>3. \A n \in Entries : Slot(n) # Slot(head)
    BY <1>b, <2>2, SlotDistinct DEF Entries, QueueSound
  <2>4. \A n \in Entries : Entry(n)' = Entry(n)
    BY <1>a, <1>b, <2>1, <2>3 DEF Entry
  <2>5. Entry(head)' = writer
    BY <1>a, <1>b, <2>1 DEF Entry
  <2>6. QueueSound'
    BY <2>1, <2>4 DEF QueueSound
  <2>7. StateNamesOwner'
    BY <2>1, <2>4 DEF StateNamesOwner
  <2>8. IndexStored'
    BY <2>1, <2>2, <2>5 DEF IndexStored, Entry
  <2> QED
    BY <2>6, <2>7, <2>8
<1>9. CASE AdvanceHead
  <2>1. /\ writer \in Chunk /\ writer' = NoChunk /\ Publishing /\ ~Publishing' /\ pc' = "start"
        /\ streamChunk' = streamChunk /\ isr' = isr /\ chunkState' = chunkState
        /\ tail' = tail /\ head' = head + 1 /\ Entry(head) = writer
    BY <1>9, <1>b DEF AdvanceHead, Publishing, ProducerControl, callback, IndexStored, NoWrap, Bump
  <2>2. \A n : Entry(n)' = Entry(n)
    BY <1>9 DEF AdvanceHead, Entry
  <2>3. Entries' = Entries \cup {head} /\ head \notin Entries
    BY <1>b, <2>1 DEF Entries, QueueSound
  <2>4. chunkState[writer] = "READY" /\ writer # streamChunk
    BY <1>b, <2>1 DEF StateNamesOwner
  <2>5. QueueSound'
    <3>1. tail' <= head'
      BY <1>b, <2>1 DEF QueueSound
    <3>2. \A n \in Entries' : /\ chunkState'[Entry(n)'] = "READY"
                              /\ Entry(n)' # writer'
                              /\ Entry(n)' # streamChunk'
      BY <1>a, <1>b, <2>1, <2>2, <2>3, <2>4 DEF QueueSound
    <3>3. \A m, n \in Entries' : m # n => Entry(m)' # Entry(n)'
      BY <2>1, <2>2, <2>3 DEF QueueSound
    <3> QED
      BY <3>1, <3>2, <3>3 DEF QueueSound
  <2>6. StateNamesOwner'
    BY <1>b, <2>1, <2>2, <2>3 DEF StateNamesOwner
  <2> QED
    BY <2>1, <2>5, <2>6 DEF IndexStored
<1>10. CASE CheckStart
  BY <1>10
     DEF CheckStart, Entries, Entry, QueueSound, StateNamesOwner, IndexStored,
         Publishing, ring, producer, callback, ProducerControl
<1>11. CASE StartStream
  BY <1>11
     DEF StartStream, Entries, Entry, QueueSound, StateNamesOwner, IndexStored,
         Publishing, ring, producer, callback, ProducerControl
<1>12. CASE EncodeCall
  BY <1>12
     DEF EncodeCall, Entries, Entry, QueueSound, StateNamesOwner, IndexStored,
         Publishing, ring, producer, callback, ProducerControl
<1>13. CASE EncodeReturn
  BY <1>13
     DEF EncodeReturn, Entries, Entry, QueueSound, StateNamesOwner, IndexStored,
         Publishing, ring, producer, callback, ProducerControl
<1>14. CASE SelectNextChunk
  <2>1. /\ writer' = writer /\ pc' = pc /\ chunkState' = chunkState /\ (Publishing' <=> Publishing)
        /\ streamChunk = NoChunk /\ streamChunk' = Entry(tail) /\ isr = "next" /\ isr' = "activate"
        /\ head' = head /\ seq' = seq /\ pendingIndex' = pendingIndex /\ tail # head
    BY <1>14 DEF SelectNextChunk, Publishing, producer, Entry
  <2>2. tail \in Entries /\ tail' = tail + 1 /\ Entries' = Entries \ {tail}
    BY <1>14, <1>b, <2>1 DEF SelectNextChunk, QueueSound, Entries, NoWrap, Bump
  <2>3. \A n : Entry(n)' = Entry(n)
    BY <2>1 DEF Entry
  <2>4. Entry(tail) \in Chunk /\ chunkState[Entry(tail)] = "READY" /\ Entry(tail) # writer
    BY <1>a, <2>2 DEF QueueSound
  <2>5. QueueSound'
    <3>1. tail' <= head'
      BY <1>b, <2>1, <2>2 DEF QueueSound
    <3>2. \A n \in Entries' : /\ chunkState'[Entry(n)'] = "READY"
                              /\ Entry(n)' # writer'
                              /\ Entry(n)' # streamChunk'
      BY <2>1, <2>2, <2>3 DEF QueueSound
    <3> QED
      BY <2>2, <2>3, <3>1, <3>2 DEF QueueSound
  <2>6. StateNamesOwner'
    BY <1>a, <1>b, <2>1, <2>2, <2>3, <2>4 DEF StateNamesOwner
  <2>7. IndexStored'
    <3>1. Entry(head)' = Entry(head)
      BY <2>1 DEF Entry
    <3>2. head - tail < NumChunks => head' - tail' < NumChunks
      BY <1>b, <2>1, <2>2
    <3> QED
      BY <2>1, <3>1, <3>2 DEF IndexStored
  <2> QED
    BY <2>5, <2>6, <2>7
<1>15. CASE ActivateChunk
  <2>1. /\ Entries' = Entries /\ tail' = tail /\ head' = head /\ seq' = seq
        /\ \A n : Entry(n)' = Entry(n)
    BY <1>15 DEF ActivateChunk, Entries, Entry, producer, callback
  <2>2. /\ streamChunk \in Chunk /\ chunkState' = [chunkState EXCEPT ![streamChunk] = "ACTIVE"]
        /\ writer' = writer /\ pc' = pc /\ (Publishing' <=> Publishing)
        /\ streamChunk' = streamChunk /\ isr = "activate" /\ isr' = "next"
        /\ writer # streamChunk
    BY <1>15, <1>b DEF ActivateChunk, Publishing, CallbackControl, producer, StateNamesOwner
  <2>3. QueueSound'
    BY <1>a, <1>b, <2>1, <2>2 DEF QueueSound
  <2>4. StateNamesOwner'
    BY <1>a, <1>b, <2>1, <2>2 DEF StateNamesOwner, QueueSound
  <2> QED
    BY <1>15, <2>1, <2>2, <2>3, <2>4 DEF IndexStored, Entry, ActivateChunk
<1>16. CASE HoldLastLevel
  BY <1>16
     DEF HoldLastLevel, Entries, Entry, QueueSound, StateNamesOwner, IndexStored,
         Publishing, ring, producer, callback, ProducerControl
<1>17. CASE CopyChunk
  BY <1>17
     DEF CopyChunk, Entries, Entry, QueueSound, StateNamesOwner, IndexStored, Publishing,
         ring, producer, callback, ProducerControl
<1>18. CASE CopySymbol
  BY <1>18
     DEF CopySymbol, Entries, Entry, QueueSound, StateNamesOwner, IndexStored,
         Publishing, ring, producer, callback, ProducerControl
<1>19. CASE FreeChunk
  <2>1. /\ Entries' = Entries /\ tail' = tail /\ head' = head /\ seq' = seq
        /\ \A n : Entry(n)' = Entry(n)
    BY <1>19 DEF FreeChunk, Entries, Entry, producer, callback
  <2>2. /\ streamChunk \in Chunk /\ chunkState' = [chunkState EXCEPT ![streamChunk] = "FREE"]
        /\ writer' = writer /\ pc' = pc /\ (Publishing' <=> Publishing)
        /\ streamChunk' = NoChunk /\ isr = "free" /\ isr' = "notify"
        /\ writer # streamChunk
    BY <1>19, <1>b DEF FreeChunk, Publishing, CallbackControl, producer, StateNamesOwner
  <2>3. QueueSound'
    BY <1>a, <1>b, <2>1, <2>2 DEF QueueSound
  <2>4. StateNamesOwner'
    BY <1>a, <1>b, <2>1, <2>2 DEF StateNamesOwner, QueueSound
  <2> QED
    BY <1>19, <2>1, <2>2, <2>3, <2>4 DEF IndexStored, Entry, FreeChunk
<1>20. CASE NotifyProducer
  BY <1>20
     DEF NotifyProducer, Entries, Entry, QueueSound, StateNamesOwner, IndexStored,
         Publishing, ring, producer, callback, ProducerControl
<1>21. CASE UNCHANGED rmtVars
  BY <1>21
     DEF rmtVars, ring, producer, callback, Entries, Entry, QueueSound, StateNamesOwner,
         IndexStored, Publishing
<1> QED
  BY <1>1, <1>2, <1>3, <1>4, <1>5, <1>6, <1>7, <1>8, <1>9, <1>10, <1>11, <1>12, <1>13,
     <1>14, <1>15, <1>16, <1>17, <1>18, <1>19, <1>20, <1>21
     DEF Next, Producer, Acquire, Publish, Encode, rmtVars, ring, driver, producer,
         callback, FlushPendingSymbol, AcquireChunk, NoneFree, TakeNotification,
         WaitTimeout, WriteSymbol, MarkReady, QueueIndex, AdvanceHead, CheckStart,
         StartStream, EncodeCall, EncodeReturn, SelectNextChunk, ActivateChunk,
         HoldLastLevel, CopyChunk, CopySymbol, FreeChunk, NotifyProducer

\* The inductive step.
LEMMA RingInvStep == RingInv /\ NoWrap /\ [Next]_rmtVars => RingInv'
  BY TypeStep, ControlStep, OwnershipStep, ScanPassedStep DEF RingInv

\* What a reader of the code cares about follows from the invariant.
LEMMA WindowIsEntries ==
    ASSUME TypeOK, tail <= head
    PROVE  Window = Entries
  BY RmtConstants DEF TypeOK, RingTypes, Window, Entries, Pending

LEMMA RingInvImplies ==
    ASSUME RingInv
    PROVE  ChunkOwnership /\ NoIndexOverwritten /\ NoLostWakeup
<1> USE DEF RingInv
<1>1. Window = Entries
  BY WindowIsEntries DEF QueueSound
<1>2. Queued = {Entry(n) : n \in Entries}
  BY <1>1 DEF Queued, Entry
<1>3. ChunkOwnership
  <2>1. chunkState \in [Chunk -> {"FREE", "FILLING", "READY", "ACTIVE"}]
    BY DEF TypeOK, RingTypes
  <2>2. isr = "activate" => streamChunk # NoChunk
    BY DEF CallbackControl
  <2>3. SUFFICES ASSUME NEW c \in Chunk
                 PROVE  /\ chunkState[c] = "FREE" <=> c \notin Queued \cup {writer, streamChunk}
                        /\ chunkState[c] = "FILLING" <=> c = writer /\ ~Publishing
                        /\ chunkState[c] = "ACTIVE" <=> c = streamChunk /\ isr # "activate"
                        /\ c = writer => c # streamChunk /\ c \notin Queued
                        /\ c = streamChunk => c \notin Queued
    BY DEF ChunkOwnership
  <2>4. c \in Queued <=> \E n \in Entries : c = Entry(n)
    BY <1>2
  <2>5. c \in Queued => c # writer /\ c # streamChunk
    BY <2>4 DEF QueueSound
  <2>6. c = writer => c # streamChunk
    BY RmtConstants DEF StateNamesOwner, NoChunk, Chunk
  <2> QED
    BY <2>1, <2>4, <2>5, <2>6 DEF StateNamesOwner
<1>4. NoIndexOverwritten
  <2> SUFFICES ASSUME pc = "index", NEW n \in Entries PROVE Slot(n) # Slot(head)
    BY <1>1 DEF NoIndexOverwritten
  <2>1. writer \in Chunk
    BY DEF ProducerControl, TypeOK, ProducerTypes
  <2>2. head - tail < NumChunks
    BY <2>1, QueueLeavesRoom
  <2> QED
    BY <2>2, SlotDistinct, RmtConstants DEF TypeOK, RingTypes, Entries, QueueSound
<1>5. NoLostWakeup
  BY RmtConstants DEF NoLostWakeup, ScanPassed, ProducerControl, TypeOK, Chunk
<1> QED
  BY <1>3, <1>4, <1>5

\* The variables keep their types until the publication counter wraps.
THEOREM RmtTypeCorrect == Spec /\ []NoWrap => []TypeOK
<1>1. RingInv => TypeOK
  BY DEF RingInv
<1> QED
  BY <1>1, RingInvInit, RingInvStep, PTL DEF Spec

\* No chunk is ever lost or shared between the renderer, the queue and the
\* callback, and the state byte always names the owner (snd_rmt.cpp: the CAS of
\* audioRmtAcquireChunk, audioRmtPublishChunk, audioRmtSelectNextChunk and
\* audioRmtSignalChunkFree), until the publication counter wraps.
THEOREM RmtChunkOwnership == Spec /\ []NoWrap => []ChunkOwnership
  BY RingInvInit, RingInvStep, RingInvImplies, PTL DEF Spec

\* Publishing never overwrites an index the callback still has to read.
THEOREM RmtNoIndexOverwritten == Spec /\ []NoWrap => []NoIndexOverwritten
  BY RingInvInit, RingInvStep, RingInvImplies, PTL DEF Spec

\* A blocked producer never misses the notification of a freed chunk.
THEOREM RmtNoLostWakeup == Spec /\ []NoWrap => []NoLostWakeup
  BY RingInvInit, RingInvStep, RingInvImplies, PTL DEF Spec

-----------------------------------------------------------------------------
(***************************************************************************)
(* The ring implements the bounded queue of SymbolQueue.  The lemmas follow *)
(* the mapping: where a position of the queue is stored, what each step     *)
(* does to the positions, and that there is room for a new one.             *)
(***************************************************************************)
\* Quotient and remainder are the only numbers with their product and sum.
LEMMA DivModUnique ==
    ASSUME NEW q \in Nat, NEW r \in Offset
    PROVE  /\ (q * ChunkSymbols + r) \div ChunkSymbols = q
           /\ (q * ChunkSymbols + r) % ChunkSymbols = r
<1> USE RmtConstants DEF Offset
<1> DEFINE n == q * ChunkSymbols + r
           a == n \div ChunkSymbols
           b == n % ChunkSymbols
<1>1. n \in Nat
  <2>1. q * ChunkSymbols \in Nat
    OBVIOUS
  <2> QED
    BY <2>1
<1>2. a \in Nat /\ b \in 0 .. ChunkSymbols - 1 /\ n = ChunkSymbols * a + b
  <2> HIDE DEF n
  <2> QED
    BY <1>1
<1>3. ChunkSymbols * (a - q) = r - b
  <2> HIDE DEF a, b
  <2> QED
    BY <1>2
<1>4. a = q
  <2> HIDE DEF a, b, n
  <2>1. CASE a > q
    <3>1. ChunkSymbols * (a - q) >= ChunkSymbols
      BY <1>2, <2>1
    <3> QED
      BY <1>2, <1>3, <3>1
  <2>2. CASE a < q
    <3>1. ChunkSymbols * (q - a) >= ChunkSymbols
      BY <1>2, <2>2
    <3>2. ChunkSymbols * (q - a) = b - r
      BY <1>2, <1>3
    <3> QED
      BY <1>2, <3>1, <3>2
  <2> QED
    BY <1>2, <2>1, <2>2
<1>5. b = r
  <2> HIDE DEF a, b, n
  <2> QED
    BY <1>2, <1>3, <1>4
<1> QED
  BY <1>4, <1>5

\* A position is in one place of one chunk.
LEMMA DivMod ==
    ASSUME NEW p \in Nat
    PROVE  /\ p \div ChunkSymbols \in Nat
           /\ p % ChunkSymbols \in Offset
           /\ p = (p \div ChunkSymbols) * ChunkSymbols + (p % ChunkSymbols)
  BY RmtConstants DEF Offset

\* A number below the modulus is its own remainder.
LEMMA ModId ==
    ASSUME NEW m \in Nat, NEW n \in Nat, n < m
    PROVE  n % m = n
  OBVIOUS

\* Positions in k chunks are in the first k chunks.
LEMMA DivLess ==
    ASSUME NEW p \in Nat, NEW k \in Nat, p < k * ChunkSymbols
    PROVE  p \div ChunkSymbols < k
<1> DEFINE q == p \div ChunkSymbols
           r == p % ChunkSymbols
<1>1. q \in Nat /\ r \in Nat /\ p = q * ChunkSymbols + r
  BY DivMod DEF Offset
<1> HIDE DEF q, r
<1>2. SUFFICES ASSUME q >= k PROVE FALSE
  BY <1>1 DEF q
<1>3. q * ChunkSymbols = k * ChunkSymbols + (q - k) * ChunkSymbols /\ (q - k) * ChunkSymbols >= 0
  BY <1>1, <1>2, RmtConstants
<1> QED
  BY <1>1, <1>3, RmtConstants

-----------------------------------------------------------------------------
\* The queue's numbers.
LEMMA BacklogNumbers ==
    ASSUME RingInv
    PROVE  /\ Pending(tail, head) = head - tail
           /\ head \in Nat /\ tail \in Nat /\ head <= SeqMax /\ tail <= head
           /\ Unplayed \in 0 .. ChunkSymbols
           /\ Published \in Nat /\ Published = (head - tail) * ChunkSymbols
           /\ symbolCount \in 0 .. ChunkSymbols
           /\ Stored \in Nat /\ Stored = Unplayed + Published + symbolCount
<1> USE RmtConstants
<1>1. /\ head \in Nat /\ tail \in Nat /\ head <= SeqMax /\ tail <= head
      /\ Pending(tail, head) = head - tail
      /\ symbolCount \in 0 .. ChunkSymbols
      /\ Unplayed \in 0 .. ChunkSymbols
  BY DEF RingInv, TypeOK, RingTypes, ProducerTypes, CallbackTypes, QueueSound, Pending, Unplayed
<1>2. (head - tail) * ChunkSymbols \in Nat
  BY <1>1
<1> QED
  BY <1>1, <1>2 DEF Stored, Published

\* A published symbol is one of a queued entry.
LEMMA PublishedIs ==
    ASSUME RingInv, NEW p \in Nat, p < Published
    PROVE  /\ tail + p \div ChunkSymbols \in Entries
           /\ (tail + p \div ChunkSymbols) % (SeqMax + 1) = tail + p \div ChunkSymbols
           /\ PublishedSymbol(p) = symbols[Entry(tail + p \div ChunkSymbols)][p % ChunkSymbols]
<1>1. /\ head \in Nat /\ tail \in Nat /\ head <= SeqMax /\ tail <= head
      /\ Published = (head - tail) * ChunkSymbols
  BY BacklogNumbers
<1>2. p \div ChunkSymbols \in Nat /\ p \div ChunkSymbols < head - tail
  BY <1>1, DivMod, DivLess
<1>3. (tail + p \div ChunkSymbols) % (SeqMax + 1) = tail + p \div ChunkSymbols
  BY <1>1, <1>2, ModId, RmtConstants
<1> QED
  BY <1>1, <1>2, <1>3 DEF Entries, Entry, PublishedSymbol

\* Every position of the queue holds a symbol.
LEMMA SymbolAtType ==
    ASSUME RingInv, NEW p \in Nat, p < Stored
    PROVE  SymbolAt(p) \in Symbol
<1> USE RmtConstants
<1>1. /\ symbols \in [Chunk -> [Offset -> Symbol]]
      /\ Unplayed \in 0 .. ChunkSymbols /\ Published \in Nat
      /\ Stored = Unplayed + Published + symbolCount /\ symbolCount \in 0 .. ChunkSymbols
  BY BacklogNumbers DEF RingInv, TypeOK, RingTypes
<1>2. CASE p < Unplayed
  <2>1. streamChunk \in Chunk /\ streamOffset + p \in Offset
    BY <1>1, <1>2 DEF Unplayed, RingInv, TypeOK, CallbackTypes, Offset
  <2> QED
    BY <1>1, <1>2, <2>1 DEF SymbolAt
<1>3. CASE p >= Unplayed /\ p < Unplayed + Published
  <2> DEFINE k == p - Unplayed
  <2>1. k \in Nat /\ k < Published /\ SymbolAt(p) = PublishedSymbol(k)
    BY <1>1, <1>3 DEF SymbolAt
  <2> HIDE DEF k
  <2>2. /\ tail + k \div ChunkSymbols \in Entries /\ k % ChunkSymbols \in Offset
        /\ PublishedSymbol(k) = symbols[Entry(tail + k \div ChunkSymbols)][k % ChunkSymbols]
    BY <2>1, PublishedIs, DivMod
  <2>3. Entry(tail + k \div ChunkSymbols) \in Chunk
    BY <2>2, EntryTypes DEF RingInv
  <2> QED
    BY <1>1, <2>1, <2>2, <2>3
<1>4. CASE p >= Unplayed + Published
  <2>1. writer \in Chunk
    BY <1>1, <1>4 DEF RingInv, TypeOK, ProducerTypes, ProducerControl
  <2>2. p - Unplayed - Published \in Offset
    BY <1>1, <1>4 DEF Offset
  <2> QED
    BY <1>1, <1>4, <2>1, <2>2 DEF SymbolAt
<1> QED
  BY <1>1, <1>2, <1>3, <1>4

\* The queue is a sequence of symbols.
LEMMA BacklogSeq ==
    RingInv => /\ Backlog \in Seq(Symbol)
               /\ Len(Backlog) = Stored
               /\ \A i \in 1 .. Stored : Backlog[i] = SymbolAt(i - 1)
<1> SUFFICES ASSUME RingInv
             PROVE  /\ Backlog \in Seq(Symbol)
                    /\ Len(Backlog) = Stored
                    /\ \A i \in 1 .. Stored : Backlog[i] = SymbolAt(i - 1)
  OBVIOUS
<1>1. Stored \in Nat
  BY BacklogNumbers
<1>2. \A i \in 1 .. Stored : SymbolAt(i - 1) \in Symbol
  BY <1>1, SymbolAtType
<1>3. Backlog \in [1 .. Stored -> Symbol]
  BY <1>2 DEF Backlog
<1>4. Backlog \in Seq(Symbol)
  BY <1>1, <1>3, SeqDef
<1> QED
  BY <1>1, <1>3, <1>4 DEF Backlog

-----------------------------------------------------------------------------
\* Two queues with the same symbols are equal.
LEMMA SameBacklog ==
    ASSUME RingInv, RingInv', Stored' = Stored,
           \A p \in 0 .. Stored - 1 : SymbolAt(p)' = SymbolAt(p)
    PROVE  Backlog' = Backlog
<1>1. Stored \in Nat
  BY BacklogNumbers
<1>2. \A i \in 1 .. Stored : SymbolAt(i - 1)' = SymbolAt(i - 1)
  BY <1>1
<1> QED
  BY <1>2 DEF Backlog

\* A queue with one more symbol at its end is the queue with that appended.
LEMMA LongerBacklog ==
    ASSUME RingInv, RingInv', Stored' = Stored + 1, NEW s \in Symbol,
           \A p \in 0 .. Stored - 1 : SymbolAt(p)' = SymbolAt(p),
           NEW n \in Nat, n = Stored, SymbolAt(n)' = s
    PROVE  Backlog' = Append(Backlog, s)
<1> DEFINE b == Backlog
           c == Backlog'
<1>1. /\ b \in Seq(Symbol) /\ Len(b) = n /\ n \in Nat
      /\ \A i \in 1 .. n : b[i] = SymbolAt(i - 1)
  BY BacklogSeq, BacklogNumbers
<1>2. /\ c \in Seq(Symbol) /\ Len(c) = n + 1
      /\ \A i \in 1 .. n + 1 : c[i] = SymbolAt(i - 1)'
  <2>1. (RingInv => /\ Backlog \in Seq(Symbol)
                    /\ Len(Backlog) = Stored
                    /\ \A i \in 1 .. Stored : Backlog[i] = SymbolAt(i - 1))'
    BY BacklogSeq, PTL
  <2> QED
    BY <2>1, BacklogNumbers
<1>3. \A i \in 1 .. n : c[i] = b[i]
  <2> TAKE i \in 1 .. n
  <2>1. i \in 1 .. n + 1 /\ i - 1 \in 0 .. Stored - 1
    OBVIOUS
  <2>2. SymbolAt(i - 1)' = SymbolAt(i - 1)
    BY <2>1
  <2> HIDE DEF b, c
  <2> QED
    BY <1>1, <1>2, <2>1, <2>2
<1>4. c[n + 1] = s
  <2>1. n + 1 \in 1 .. n + 1 /\ n + 1 - 1 = n
    OBVIOUS
  <2> QED
    BY <1>2, <2>1
<1> HIDE DEF b, c
<1> DEFINE d == Append(b, s)
<1>5. /\ d \in Seq(Symbol) /\ Len(d) = n + 1
      /\ \A i \in 1 .. n : d[i] = b[i]
      /\ d[n + 1] = s
  BY <1>1, AppendProperties
<1> HIDE DEF d
<1>6. \A i \in 1 .. n + 1 : c[i] = d[i]
  BY <1>1, <1>3, <1>4, <1>5
<1>7. c = d
  BY <1>2, <1>5, <1>6, SeqEqual
<1> QED
  BY <1>7 DEF b, c, d

\* A queue without its first symbols is a suffix.
LEMMA ShorterBacklog ==
    ASSUME RingInv, RingInv', NEW k \in 1 .. Stored, Stored' = Stored - k,
           \A p \in 0 .. Stored - k - 1 : SymbolAt(p)' = SymbolAt(p + k)
    PROVE  Backlog' = SubSeq(Backlog, k + 1, Len(Backlog))
<1> DEFINE b == Backlog
           c == Backlog'
           n == Stored
<1>1. /\ b \in Seq(Symbol) /\ Len(b) = n /\ n \in Nat
      /\ \A i \in 1 .. n : b[i] = SymbolAt(i - 1)
  BY BacklogSeq, BacklogNumbers
<1>2. /\ c \in Seq(Symbol) /\ Len(c) = n - k
      /\ \A i \in 1 .. n - k : c[i] = SymbolAt(i - 1)'
  <2>1. (RingInv => /\ Backlog \in Seq(Symbol)
                    /\ Len(Backlog) = Stored
                    /\ \A i \in 1 .. Stored : Backlog[i] = SymbolAt(i - 1))'
    BY BacklogSeq, PTL
  <2> QED
    BY <2>1, BacklogNumbers
<1>3. \A i \in 1 .. n - k : c[i] = b[k + i]
  <2> TAKE i \in 1 .. n - k
  <2>1. c[i] = SymbolAt(i - 1 + k) /\ i - 1 + k = k + i - 1
    BY <1>1, <1>2
  <2>2. k + i \in 1 .. n
    BY <1>1
  <2> QED
    BY <1>1, <2>1, <2>2
<1>a. k \in 1 .. n
  OBVIOUS
<1> HIDE DEF b, c, n
<1> DEFINE d == SubSeq(b, k + 1, n)
<1>4. \A i \in k + 1 .. n : b[i] \in Symbol
  BY <1>1, <1>a, ElementOfSeq
<1>5. /\ d \in Seq(Symbol)
      /\ Len(d) = n - k
      /\ \A i \in 1 .. n - k : d[i] = b[k + i]
  <2>1. k + 1 \in Int /\ n \in Int /\ n - (k + 1) + 1 = n - k
    BY <1>1, <1>a
  <2>2. /\ d \in Seq(Symbol)
        /\ Len(d) = IF k + 1 <= n THEN n - (k + 1) + 1 ELSE 0
        /\ \A i \in 1 .. n - (k + 1) + 1 : d[i] = b[k + 1 + i - 1]
    BY <1>4, <2>1, SubSeqProperties
  <2> QED
    BY <1>1, <1>a, <2>1, <2>2
<1> HIDE DEF d
<1>6. \A i \in 1 .. n - k : c[i] = d[i]
  BY <1>3, <1>5
<1>7. c = d
  BY <1>2, <1>5, <1>6, SeqEqual
<1> QED
  BY <1>1, <1>7 DEF b, c, d, n

-----------------------------------------------------------------------------
\* Fewer chunks are queued than are neither the writer's nor the callback's.
LEMMA QueueLeavesTwo ==
    ASSUME RingInv, writer \in Chunk, streamChunk \in Chunk
    PROVE  head - tail < NumChunks - 1
<1> USE DEF RingInv
<1>0. /\ head \in Nat /\ tail \in Nat /\ NumChunks \in Nat \ {0}
      /\ writer # streamChunk
  BY RmtConstants DEF TypeOK, RingTypes, StateNamesOwner, NoChunk, Chunk
<1> SUFFICES ASSUME head - tail >= NumChunks - 1 PROVE FALSE
  BY <1>0
<1> DEFINE S == tail .. head - 1
           U == Chunk \ {writer}
           T == U \ {streamChunk}
           f == [n \in S |-> Entry(n)]
<1>1. IsFiniteSet(S) /\ Cardinality(S) = head - tail
  <2>1. IsFiniteSet(S) /\ Cardinality(S) = IF tail > head - 1 THEN 0 ELSE head - 1 - tail + 1
    BY <1>0, FS_Interval
  <2>2. tail <= head
    BY DEF QueueSound
  <2> QED
    BY <1>0, <2>1, <2>2
<1>2. IsFiniteSet(T) /\ Cardinality(T) = NumChunks - 2
  <2>1. IsFiniteSet(Chunk) /\ Cardinality(Chunk) = NumChunks
    BY <1>0, FS_Interval DEF Chunk
  <2>2. IsFiniteSet(U) /\ Cardinality(U) = NumChunks - 1
    BY <2>1, FS_RemoveElement
  <2>3. streamChunk \in U
    BY <1>0
  <2> HIDE DEF U
  <2> QED
    BY <1>0, <2>2, <2>3, FS_RemoveElement
<1>3. f \in [S -> T]
  BY EntryTypes DEF QueueSound, Entries
<1>4. PICK m, n \in S : m # n /\ f[m] = f[n]
  <2>1. Cardinality(T) < Cardinality(S)
    BY <1>0, <1>1, <1>2
  <2> HIDE DEF S, T, f
  <2> QED
    BY <1>1, <1>2, <1>3, <2>1, FS_PigeonHole
<1> QED
  BY <1>4 DEF QueueSound, Entries

\* There is always room for the symbol the producer is about to write.
LEMMA RoomForSymbol ==
    ASSUME RingInv, pc = "write"
    PROVE  Stored < NumChunks * ChunkSymbols
<1> USE RmtConstants
<1>1. /\ Unplayed \in 0 .. ChunkSymbols
      /\ Published = (head - tail) * ChunkSymbols /\ Published \in Nat
      /\ head \in Nat /\ tail \in Nat
      /\ symbolCount \in 0 .. ChunkSymbols
      /\ Stored = Unplayed + Published + symbolCount
  BY BacklogNumbers
<1>2. writer \in Chunk /\ symbolCount < ChunkSymbols
  BY DEF RingInv, TypeOK, ProducerTypes, ProducerControl
<1>3. \A a, b \in Int : a <= b => a * ChunkSymbols <= b * ChunkSymbols
  <2> TAKE a, b \in Int
  <2> HAVE a <= b
  <2>1. b * ChunkSymbols = a * ChunkSymbols + (b - a) * ChunkSymbols /\ (b - a) * ChunkSymbols >= 0
    OBVIOUS
  <2> QED
    BY <2>1
<1>4. CASE streamChunk = NoChunk
  <2>1. Unplayed = 0
    BY <1>4 DEF Unplayed
  <2>2. head - tail <= NumChunks - 1
    BY <1>1, <1>2, QueueLeavesRoom DEF RingInv
  <2>3. Published <= (NumChunks - 1) * ChunkSymbols
    BY <1>1, <1>3, <2>2
  <2> QED
    BY <1>1, <1>2, <2>1, <2>3
<1>5. CASE streamChunk # NoChunk
  <2>1. head - tail <= NumChunks - 2
    BY <1>1, <1>2, <1>5, QueueLeavesTwo DEF RingInv, TypeOK, CallbackTypes
  <2>2. Published <= (NumChunks - 2) * ChunkSymbols
    BY <1>1, <1>3, <2>1
  <2> QED
    BY <1>1, <1>2, <2>2
<1> QED
  BY <1>4, <1>5

-----------------------------------------------------------------------------
\* Most steps leave the queue alone.
LEMMA QueueUntouched ==
    ASSUME UNCHANGED <<symbols, pendingIndex, head, tail, writer, symbolCount,
                       streamChunk, streamOffset>>
    PROVE  Backlog' = Backlog
  BY DEF Backlog, Stored, SymbolAt, PublishedSymbol, Unplayed, Published

\* WriteSymbol puts a symbol at the end of the queue.
LEMMA WriteSymbolPuts ==
    ASSUME RingInv, RingInv', WriteSymbol
    PROVE  Abstract!Put
<1> USE RmtConstants
<1>1. /\ symbols' = [symbols EXCEPT ![writer][symbolCount] = made]
      /\ symbolCount' = symbolCount + 1
      /\ UNCHANGED <<pendingIndex, head, tail, writer, streamChunk, streamOffset>>
      /\ pc = "write" /\ made' = NextSymbol(made)
  BY DEF WriteSymbol, callback
<1>2. /\ writer \in Chunk /\ symbolCount \in Offset /\ made \in Symbol
      /\ symbols \in [Chunk -> [Offset -> Symbol]]
  BY <1>1 DEF RingInv, TypeOK, RingTypes, ProducerTypes, ProducerControl, Offset
<1>3. /\ Unplayed \in Nat /\ Published \in Nat /\ symbolCount \in Nat
      /\ Stored \in Nat /\ Stored = Unplayed + Published + symbolCount
  BY BacklogNumbers
<1>a. Unplayed' = Unplayed /\ Published' = Published
  BY <1>1 DEF Unplayed, Published
<1>b. Stored' = Stored + 1
  <2>1. Stored' = Unplayed + Published + symbolCount'
    BY <1>a DEF Stored
  <2> QED
    BY <1>1, <1>3, <2>1
<1>4. \A c \in Chunk \ {writer} : symbols'[c] = symbols[c]
  BY <1>1, <1>2
<1>5. /\ \A o \in Offset \ {symbolCount} : symbols'[writer][o] = symbols[writer][o]
      /\ symbols'[writer][symbolCount] = made
  BY <1>1, <1>2
<1>6. ASSUME NEW k \in Nat, k < Published PROVE PublishedSymbol(k)' = PublishedSymbol(k)
  <2> DEFINE c == pendingIndex[Slot((tail + k \div ChunkSymbols) % (SeqMax + 1))]
  <2>1. c \in Chunk \ {writer}
    BY <1>6, PublishedIs, EntryTypes DEF RingInv, QueueSound, Entry
  <2>2. PublishedSymbol(k)' = symbols'[c][k % ChunkSymbols]
    BY <1>1 DEF PublishedSymbol
  <2>3. PublishedSymbol(k) = symbols[c][k % ChunkSymbols]
    BY DEF PublishedSymbol
  <2> HIDE DEF c
  <2> QED
    BY <1>4, <2>1, <2>2, <2>3
<1>7. ASSUME NEW p \in 0 .. Stored - 1 PROVE SymbolAt(p)' = SymbolAt(p)
  <2>1. CASE p < Unplayed
    <3>1. streamChunk \in Chunk \ {writer}
      BY <1>2, <2>1, <1>3 DEF Unplayed, RingInv, TypeOK, CallbackTypes, StateNamesOwner, NoChunk, Chunk
    <3> QED
      BY <1>1, <1>a, <1>4, <2>1, <3>1 DEF SymbolAt
  <2>2. CASE p >= Unplayed /\ p < Unplayed + Published
    <3>1. PICK k \in Nat : k = p - Unplayed
      BY <1>3, <2>2
    <3>2. PublishedSymbol(k)' = PublishedSymbol(k)
      BY <1>3, <1>6, <2>2, <3>1
    <3>3. SymbolAt(p) = PublishedSymbol(k)
      BY <1>3, <2>2, <3>1 DEF SymbolAt
    <3>4. SymbolAt(p)' = PublishedSymbol(k)'
      BY <1>3, <1>a, <2>2, <3>1 DEF SymbolAt
    <3> QED
      BY <3>2, <3>3, <3>4
  <2>3. CASE p >= Unplayed + Published
    <3>1. p - Unplayed - Published \in Offset \ {symbolCount}
      BY <1>2, <1>3, <2>3 DEF Offset
    <3> QED
      BY <1>1, <1>3, <1>a, <1>5, <2>3, <3>1 DEF SymbolAt
  <2> QED
    BY <1>3, <2>1, <2>2, <2>3
<1>8. PICK n \in Nat : n = Stored
  BY <1>3
<1>9. SymbolAt(n)' = made
  BY <1>1, <1>2, <1>3, <1>a, <1>5, <1>8 DEF SymbolAt
<1>10. Backlog' = Append(Backlog, made)
  BY <1>2, <1>7, <1>8, <1>9, <1>b, LongerBacklog
<1>11. Len(Backlog) < NumChunks * ChunkSymbols
  BY <1>1, RoomForSymbol, BacklogSeq
<1>12. made' = (made + 1) % SymbolIds
  <2>1. made \in Nat /\ made + 1 \in Nat /\ made <= SymbolIds - 1 /\ SymbolIds \in Nat \ {0}
    BY <1>2 DEF Symbol
  <2>2. CASE made = SymbolIds - 1
    <3>1. SymbolIds % SymbolIds = 0
      OBVIOUS
    <3>2. made + 1 = SymbolIds
      BY <2>1, <2>2
    <3> QED
      BY <1>1, <2>2, <3>1, <3>2 DEF NextSymbol
  <2>3. CASE made < SymbolIds - 1
    BY <1>1, <2>1, <2>3, ModId DEF NextSymbol
  <2> QED
    BY <2>1, <2>2, <2>3
<1> QED
  BY <1>10, <1>11, <1>12 DEF Abstract!Put

\* Claiming a chunk adds nothing to the queue.
LEMMA AcquireChunkKeeps ==
    ASSUME RingInv, RingInv', AcquireChunk
    PROVE  Backlog' = Backlog
<1>1. /\ UNCHANGED <<symbols, pendingIndex, head, tail, streamChunk, streamOffset>>
      /\ symbolCount' = symbolCount /\ (symbolCount # 0 => writer' = writer)
  BY DEF AcquireChunk, callback, RingInv, ProducerControl
<1>2. /\ Unplayed' = Unplayed /\ Published' = Published
      /\ \A p : PublishedSymbol(p)' = PublishedSymbol(p)
  BY <1>1 DEF Unplayed, Published, PublishedSymbol
<1>3. Stored' = Stored
  BY <1>1, <1>2 DEF Stored
<1>4. ASSUME NEW p \in 0 .. Stored - 1 PROVE SymbolAt(p)' = SymbolAt(p)
  <2>1. /\ Unplayed \in Nat /\ Published \in Nat /\ symbolCount \in Nat
        /\ Stored = Unplayed + Published + symbolCount
    BY BacklogNumbers
  <2>2. CASE p < Unplayed + Published
    <3>1. PublishedSymbol(p - Unplayed)' = PublishedSymbol(p - Unplayed)
      BY <1>1, <1>2 DEF PublishedSymbol
    <3> QED
      BY <1>1, <1>2, <2>2, <3>1 DEF SymbolAt
  <2>3. CASE p >= Unplayed + Published
    <3>1. writer' = writer
      BY <1>1, <2>1, <2>3
    <3> QED
      BY <1>1, <1>2, <2>1, <2>3, <3>1 DEF SymbolAt
  <2> QED
    BY <2>1, <2>2, <2>3
<1> QED
  BY <1>3, <1>4, SameBacklog

\* Freeing a chunk that has been copied drops nothing.
LEMMA FreeChunkKeeps ==
    ASSUME RingInv, RingInv', FreeChunk
    PROVE  Backlog' = Backlog
<1>1. /\ UNCHANGED <<symbols, pendingIndex, head, tail, writer, symbolCount>>
      /\ isr = "free" /\ streamChunk' = NoChunk
  BY DEF FreeChunk, producer
<1>2. Unplayed = 0 /\ Unplayed' = 0 /\ Published' = Published
  BY <1>1, RmtConstants DEF Unplayed, Published, RingInv, CallbackControl
<1>3. Stored' = Stored
  BY <1>1, <1>2 DEF Stored
<1>4. ASSUME NEW p \in 0 .. Stored - 1 PROVE SymbolAt(p)' = SymbolAt(p)
  <2>1. ~(p < 0)
    BY BacklogNumbers
  <2>2. PublishedSymbol(p - 0)' = PublishedSymbol(p - 0)
    BY <1>1 DEF PublishedSymbol
  <2> QED
    BY <1>1, <1>2, <2>1, <2>2 DEF SymbolAt
<1> QED
  BY <1>3, <1>4, SameBacklog

\* Storing the index of a chunk does not disturb those that are queued.
LEMMA QueueIndexKeeps ==
    ASSUME RingInv, RingInv', QueueIndex
    PROVE  Backlog' = Backlog
<1> USE RmtConstants
<1>1. /\ UNCHANGED <<symbols, head, tail, writer, symbolCount, streamChunk, streamOffset>>
      /\ pendingIndex' = [pendingIndex EXCEPT ![Slot(head)] = writer] /\ pc = "index"
  BY DEF QueueIndex, callback
<1>2. /\ Unplayed' = Unplayed /\ Published' = Published /\ Stored' = Stored
      /\ Unplayed \in Nat /\ Published \in Nat /\ Stored \in Nat
  BY <1>1, BacklogNumbers DEF Unplayed, Published, Stored
<1>3. \A n \in Entries : pendingIndex'[Slot(n)] = pendingIndex[Slot(n)]
  <2>1. writer \in Chunk
    BY <1>1 DEF RingInv, ProducerControl, TypeOK, ProducerTypes
  <2>2. head - tail < NumChunks /\ head \in Nat /\ tail \in Nat
    BY <2>1, QueueLeavesRoom, BacklogNumbers DEF RingInv
  <2>3. \A n \in Entries : Slot(n) # Slot(head)
    BY <2>2, SlotDistinct DEF Entries
  <2> QED
    BY <1>1, <2>3, EntryTypes DEF RingInv, TypeOK, RingTypes
<1>4. ASSUME NEW k \in Nat, k < Published PROVE PublishedSymbol(k)' = PublishedSymbol(k)
  <2> DEFINE n == (tail + k \div ChunkSymbols) % (SeqMax + 1)
  <2>1. n \in Entries
    BY <1>4, PublishedIs
  <2>2. PublishedSymbol(k)' = symbols[pendingIndex'[Slot(n)]][k % ChunkSymbols]
    BY <1>1 DEF PublishedSymbol, Slot
  <2>3. PublishedSymbol(k) = symbols[pendingIndex[Slot(n)]][k % ChunkSymbols]
    BY DEF PublishedSymbol
  <2> HIDE DEF n
  <2> QED
    BY <1>3, <2>1, <2>2, <2>3
<1>5. ASSUME NEW p \in 0 .. Stored - 1 PROVE SymbolAt(p)' = SymbolAt(p)
  <2>1. CASE p >= Unplayed /\ p < Unplayed + Published
    <3>1. PICK k \in Nat : k = p - Unplayed
      BY <1>2, <2>1
    <3>2. PublishedSymbol(k)' = PublishedSymbol(k)
      BY <1>2, <1>4, <2>1, <3>1
    <3>3. SymbolAt(p) = PublishedSymbol(k) /\ SymbolAt(p)' = PublishedSymbol(k)'
      BY <1>2, <2>1, <3>1 DEF SymbolAt
    <3> QED
      BY <3>2, <3>3
  <2>2. CASE p < Unplayed \/ p >= Unplayed + Published
    BY <1>1, <1>2, <2>2 DEF SymbolAt
  <2> QED
    BY <1>2, <2>1, <2>2
<1> QED
  BY <1>2, <1>5, SameBacklog

\* Publishing moves the writer's symbols, in place, to the published ones.
LEMMA AdvanceHeadKeeps ==
    ASSUME RingInv, RingInv', NoWrap, AdvanceHead
    PROVE  Backlog' = Backlog
<1> USE RmtConstants
<1>1. /\ UNCHANGED <<symbols, pendingIndex, tail, streamChunk, streamOffset>>
      /\ symbolCount = ChunkSymbols /\ symbolCount' = 0
      /\ head' = head + 1 /\ pendingIndex[Slot(head)] = writer
  BY DEF AdvanceHead, callback, RingInv, ProducerControl, IndexStored, Entry, Bump, NoWrap
<1>2. /\ head \in Nat /\ tail \in Nat /\ tail <= head /\ head <= SeqMax
      /\ Unplayed \in Nat /\ Published \in Nat /\ Published = (head - tail) * ChunkSymbols
      /\ Stored \in Nat /\ Stored = Unplayed + Published + ChunkSymbols
  BY <1>1, BacklogNumbers
<1>3. Unplayed' = Unplayed
  BY <1>1 DEF Unplayed
<1>4. Published' = Published + ChunkSymbols
  <2>1. Pending(tail', head') = head + 1 - tail
    BY <1>1, <1>2 DEF Pending
  <2>2. (head + 1 - tail) * ChunkSymbols = (head - tail) * ChunkSymbols + ChunkSymbols
    BY <1>2
  <2> QED
    BY <1>2, <2>1, <2>2 DEF Published
<1>5. Stored' = Stored
  <2>1. Stored' = Unplayed' + Published' + symbolCount'
    BY DEF Stored
  <2> QED
    BY <1>1, <1>2, <1>3, <1>4, <2>1
<1>6. ASSUME NEW p \in 0 .. Stored - 1 PROVE SymbolAt(p)' = SymbolAt(p)
  <2>1. CASE p < Unplayed
    BY <1>1, <1>3, <2>1 DEF SymbolAt
  <2>2. CASE p >= Unplayed
    <3>1. PICK k \in Nat : k = p - Unplayed
      BY <1>2, <2>2
    <3>2. k < Published + ChunkSymbols /\ ~(p < Unplayed)
      BY <1>2, <2>2, <3>1
    <3>3. SymbolAt(p)' = PublishedSymbol(k)'
      BY <1>2, <1>3, <1>4, <3>1, <3>2 DEF SymbolAt
    <3>4. PublishedSymbol(k)' = PublishedSymbol(k)
      BY <1>1 DEF PublishedSymbol, Slot
    <3>5. CASE k < Published
      BY <1>2, <2>2, <3>1, <3>3, <3>4, <3>5 DEF SymbolAt
    <3>6. CASE k >= Published
      <4>1. PICK j \in Offset : j = k - Published
        BY <1>2, <3>2, <3>6 DEF Offset
      <4>2. k = (head - tail) * ChunkSymbols + j /\ head - tail \in Nat
        BY <1>2, <4>1 DEF Offset
      <4>3. k \div ChunkSymbols = head - tail /\ k % ChunkSymbols = j
        BY <4>2, DivModUnique
      <4>4. (tail + k \div ChunkSymbols) % (SeqMax + 1) = head
        BY <1>2, <4>3, ModId
      <4>5. PublishedSymbol(k) = symbols[writer][j]
        BY <1>1, <4>3, <4>4 DEF PublishedSymbol
      <4>6. SymbolAt(p) = symbols[writer][j]
        BY <1>2, <3>1, <3>2, <3>6, <4>1 DEF SymbolAt
      <4> QED
        BY <3>3, <3>4, <4>5, <4>6
    <3> QED
      BY <1>2, <3>5, <3>6
  <2> QED
    BY <1>2, <2>1, <2>2
<1> QED
  BY <1>5, <1>6, SameBacklog

\* Selecting a chunk moves its symbols, in place, to those that are being played.
LEMMA SelectNextChunkKeeps ==
    ASSUME RingInv, RingInv', NoWrap, SelectNextChunk
    PROVE  Backlog' = Backlog
<1> USE RmtConstants
<1>1. /\ UNCHANGED <<symbols, pendingIndex, head, writer, symbolCount>>
      /\ streamChunk = NoChunk /\ streamChunk' = pendingIndex[Slot(tail)] /\ streamOffset' = 0
      /\ tail # head
  BY DEF SelectNextChunk, producer
<1>2. /\ head \in Nat /\ tail \in Nat /\ tail < head /\ head <= SeqMax
      /\ Published \in Nat /\ Published = (head - tail) * ChunkSymbols
      /\ symbolCount \in Nat
      /\ Stored \in Nat /\ Stored = Unplayed + Published + symbolCount
  <2>1. head \in Nat /\ tail \in Nat /\ tail <= head /\ head <= SeqMax
    BY BacklogNumbers
  <2>2. tail < head
    BY <1>1, <2>1
  <2>3. /\ Published \in Nat /\ Published = (head - tail) * ChunkSymbols
        /\ symbolCount \in Nat
        /\ Stored \in Nat /\ Stored = Unplayed + Published + symbolCount
    BY BacklogNumbers
  <2> QED
    BY <2>1, <2>2, <2>3
<1>3. tail' = tail + 1
  BY <1>2 DEF SelectNextChunk, NoWrap, Bump
<1>4. Unplayed = 0 /\ Unplayed' = ChunkSymbols
  <2>1. pendingIndex[Slot(tail)] # NoChunk
    <3>1. Slot(tail) \in Chunk /\ pendingIndex \in [Chunk -> Chunk]
      BY <1>2, SlotType DEF RingInv, TypeOK, RingTypes
    <3>2. NoChunk \notin Chunk
      BY DEF NoChunk, Chunk
    <3> QED
      BY <3>1, <3>2
  <2> QED
    BY <1>1, <2>1 DEF Unplayed
<1>5. Published' = Published - ChunkSymbols /\ Published >= ChunkSymbols
  <2>1. Pending(tail', head') = head - tail - 1
    BY <1>1, <1>2, <1>3 DEF Pending
  <2>2. /\ (head - tail - 1) * ChunkSymbols = (head - tail) * ChunkSymbols - ChunkSymbols
        /\ (head - tail - 1) * ChunkSymbols >= 0
    BY <1>2
  <2> QED
    BY <1>2, <2>1, <2>2 DEF Published
<1>6. Stored' = Stored
  <2>1. Stored' = Unplayed' + Published' + symbolCount'
    BY DEF Stored
  <2> QED
    BY <1>1, <1>2, <1>4, <1>5, <2>1
<1>7. ASSUME NEW p \in 0 .. Stored - 1 PROVE SymbolAt(p)' = SymbolAt(p)
  <2>1. CASE p < ChunkSymbols
    <3>1. p \in Offset /\ 0 * ChunkSymbols + p = p
      BY <1>2, <2>1 DEF Offset
    <3>2. p \div ChunkSymbols = 0 /\ p % ChunkSymbols = p
      BY <3>1, DivModUnique
    <3>3. (tail + p \div ChunkSymbols) % (SeqMax + 1) = tail
      BY <1>2, <3>2, ModId
    <3>4. PublishedSymbol(p) = symbols[pendingIndex[Slot(tail)]][p]
      BY <3>2, <3>3 DEF PublishedSymbol
    <3>5. SymbolAt(p) = PublishedSymbol(p)
      BY <1>2, <1>4, <1>5, <2>1 DEF SymbolAt
    <3>6. SymbolAt(p)' = symbols[pendingIndex[Slot(tail)]][p]
      BY <1>1, <1>2, <1>4, <2>1 DEF SymbolAt
    <3> QED
      BY <3>4, <3>5, <3>6
  <2>2. CASE p >= ChunkSymbols /\ p < Published
    <3>1. PICK k \in Nat : k = p - ChunkSymbols
      BY <1>2, <2>2
    <3>2. PICK q \in Nat, r \in Offset :
              q = k \div ChunkSymbols /\ r = k % ChunkSymbols /\ k = q * ChunkSymbols + r
      BY DivMod
    <3>3. p = (q + 1) * ChunkSymbols + r
      BY <1>2, <3>1, <3>2 DEF Offset
    <3>4. p \div ChunkSymbols = q + 1 /\ p % ChunkSymbols = r
      <4>1. q + 1 \in Nat
        OBVIOUS
      <4>2. /\ ((q + 1) * ChunkSymbols + r) \div ChunkSymbols = q + 1
            /\ ((q + 1) * ChunkSymbols + r) % ChunkSymbols = r
        BY <4>1, DivModUnique
      <4> QED
        BY <3>3, <4>2
    <3>5. SymbolAt(p) = PublishedSymbol(p)
      BY <1>2, <1>4, <2>2 DEF SymbolAt
    <3>6. SymbolAt(p)' = PublishedSymbol(k)'
      BY <1>2, <1>4, <1>5, <2>2, <3>1 DEF SymbolAt
    <3>7. tail' + q = tail + (q + 1)
      BY <1>2, <1>3
    <3>8. PublishedSymbol(k)' = symbols[pendingIndex[Slot((tail' + q) % (SeqMax + 1))]][r]
      BY <1>1, <3>2 DEF PublishedSymbol, Slot
    <3>9. PublishedSymbol(p) = symbols[pendingIndex[Slot((tail + (q + 1)) % (SeqMax + 1))]][r]
      BY <3>4 DEF PublishedSymbol
    <3> QED
      BY <3>5, <3>6, <3>7, <3>8, <3>9
  <2>3. CASE p >= Published
    BY <1>1, <1>2, <1>4, <1>5, <2>3 DEF SymbolAt
  <2> QED
    BY <1>2, <2>1, <2>2, <2>3
<1> QED
  BY <1>6, <1>7, SameBacklog

\* Copying takes symbols off the front.
LEMMA CopyTakes ==
    ASSUME RingInv, RingInv', NEW n \in 1 .. ChunkSymbols,
           streamChunk # NoChunk, streamOffset' = streamOffset + n,
           UNCHANGED <<symbols, pendingIndex, head, tail, writer, symbolCount, streamChunk, made>>
    PROVE  Abstract!Take
<1> USE RmtConstants
<1>1. /\ Unplayed \in Nat /\ Published \in Nat /\ symbolCount \in Nat
      /\ Stored \in Nat /\ Stored = Unplayed + Published + symbolCount
  BY BacklogNumbers
<1>2. /\ Unplayed = ChunkSymbols - streamOffset /\ Unplayed' = ChunkSymbols - (streamOffset + n)
      /\ Unplayed' \in Nat /\ streamOffset \in Nat
  BY DEF Unplayed, RingInv, TypeOK, CallbackTypes
<1>3. Unplayed' = Unplayed - n /\ n <= Unplayed
  BY <1>2
<1>4. Published' = Published /\ \A k \in Nat : PublishedSymbol(k)' = PublishedSymbol(k)
  BY DEF Published, PublishedSymbol, Slot
<1>5. Stored' = Stored - n /\ n \in 1 .. Stored
  <2>1. Stored' = Unplayed' + Published' + symbolCount'
    BY DEF Stored
  <2> QED
    BY <1>1, <1>3, <1>4, <2>1
<1>6. ASSUME NEW p \in 0 .. Stored - n - 1 PROVE SymbolAt(p)' = SymbolAt(p + n)
  <2>1. CASE p < Unplayed - n
    <3>1. SymbolAt(p)' = symbols[streamChunk][streamOffset + n + p]
      BY <1>1, <1>3, <2>1 DEF SymbolAt
    <3>2. SymbolAt(p + n) = symbols[streamChunk][streamOffset + (p + n)]
      BY <1>1, <1>3, <2>1 DEF SymbolAt
    <3>3. streamOffset + n + p = streamOffset + (p + n)
      BY <1>1, <1>2
    <3> QED
      BY <3>1, <3>2, <3>3
  <2>2. CASE p >= Unplayed - n /\ p < Unplayed - n + Published
    <3>1. PICK k \in Nat : k = p - (Unplayed - n)
      BY <1>1, <1>3, <2>2
    <3>2. SymbolAt(p)' = PublishedSymbol(k)'
      BY <1>1, <1>3, <1>4, <2>2, <3>1 DEF SymbolAt
    <3>3. SymbolAt(p + n) = PublishedSymbol(k)
      BY <1>1, <1>3, <2>2, <3>1 DEF SymbolAt
    <3> QED
      BY <1>4, <3>2, <3>3
  <2>3. CASE p >= Unplayed - n + Published
    <3>1. PICK j \in Nat : j = p - (Unplayed - n) - Published
      BY <1>1, <1>3, <2>3
    <3>2. SymbolAt(p)' = symbols[writer][j]
      BY <1>1, <1>3, <1>4, <2>3, <3>1 DEF SymbolAt
    <3>3. SymbolAt(p + n) = symbols[writer][j]
      BY <1>1, <1>3, <2>3, <3>1 DEF SymbolAt
    <3> QED
      BY <3>2, <3>3
  <2> QED
    BY <1>1, <1>3, <2>1, <2>2, <2>3
<1>7. Backlog' = SubSeq(Backlog, n + 1, Len(Backlog))
  BY <1>5, <1>6, ShorterBacklog
<1>8. n \in 1 .. Len(Backlog)
  BY <1>5, BacklogSeq
<1> QED
  BY <1>7, <1>8 DEF Abstract!Take

-----------------------------------------------------------------------------
\* Every step of the ring is a step of the queue, or leaves it alone.
LEMMA RingStepIsQueueStep ==
    ASSUME RingInv, RingInv', NoWrap, [Next]_rmtVars
    PROVE  [Abstract!Next]_Abstract!queueVars
<1> USE RmtConstants DEF Abstract!queueVars
<1>1. CASE WriteSymbol
  BY <1>1, WriteSymbolPuts DEF Abstract!Next
<1>2. CASE CopyChunk
  <2>1. /\ streamChunk # NoChunk /\ streamOffset' = streamOffset + ChunkSymbols
        /\ UNCHANGED <<symbols, pendingIndex, head, tail, writer, symbolCount, streamChunk, made>>
    BY <1>2 DEF CopyChunk, ring, producer
  <2> QED
    BY <2>1, CopyTakes DEF Abstract!Next
<1>3. CASE CopySymbol
  <2>1. /\ streamChunk # NoChunk /\ streamOffset' = streamOffset + 1
        /\ UNCHANGED <<symbols, pendingIndex, head, tail, writer, symbolCount, streamChunk, made>>
    BY <1>3 DEF CopySymbol, ring, producer
  <2> QED
    BY <2>1, CopyTakes DEF Abstract!Next
<1>4. CASE AcquireChunk
  BY <1>4, AcquireChunkKeeps DEF AcquireChunk
<1>5. CASE QueueIndex
  BY <1>5, QueueIndexKeeps DEF QueueIndex
<1>6. CASE AdvanceHead
  BY <1>6, AdvanceHeadKeeps DEF AdvanceHead
<1>7. CASE SelectNextChunk
  BY <1>7, SelectNextChunkKeeps DEF SelectNextChunk, producer
<1>8. CASE FreeChunk
  BY <1>8, FreeChunkKeeps DEF FreeChunk, producer
<1>9. CASE UNCHANGED <<symbols, pendingIndex, head, tail, writer, symbolCount,
                       streamChunk, streamOffset, made>>
  BY <1>9, QueueUntouched
<1> QED
  BY <1>1, <1>2, <1>3, <1>4, <1>5, <1>6, <1>7, <1>8, <1>9
     DEF Next, Producer, Acquire, Publish, Encode, rmtVars, ring, driver, producer,
         callback, FlushPendingSymbol, NoneFree, TakeNotification, WaitTimeout,
         MarkReady, CheckStart, StartStream, EncodeCall, EncodeReturn, ActivateChunk,
         HoldLastLevel, NotifyProducer

\* The ring starts as an empty queue.
LEMMA RingStartsEmpty == Init => Abstract!Init
<1> SUFFICES ASSUME Init PROVE Abstract!Init
  OBVIOUS
<1>1. Stored = 0
  BY RmtConstants DEF Init, Stored, Unplayed, Published, Pending
<1>2. Backlog = <<>>
  <2>1. RingInv
    BY RingInvInit
  <2>2. Backlog \in Seq(Symbol) /\ Len(Backlog) = 0
    BY <1>1, <2>1, BacklogSeq
  <2> QED
    BY <2>2, EmptySeq
<1> QED
  BY <1>2 DEF Abstract!Init, Init

\* The ring is a bounded queue of sound symbols: each goes in once, in the order
\* the renderer makes them, and comes out once, in that order (snd_rmt.cpp:
\* audioRmtFlushPendingSymbol to audioRmtPublishChunk on one side,
\* audioRmtStreamEncode on the other), until the publication counter wraps.
THEOREM RmtRingIsQueue == Spec /\ []NoWrap => ImplementsQueue
<1>1. RingInv /\ NoWrap /\ [Next]_rmtVars => [Abstract!Next]_Abstract!queueVars
  BY RingInvStep, RingStepIsQueueStep
<1> QED
  BY <1>1, RingInvInit, RingInvStep, RingStartsEmpty, PTL
     DEF Spec, ImplementsQueue, Abstract!Spec
=============================================================================
