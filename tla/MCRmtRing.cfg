\* Three chunks of two symbols; SeqMax + 1 is a multiple of NumChunks, so the
\* slots follow one another as they do before the 32-bit counter wraps.
\* With SeqMax = 3, ChunkSymbols = 1, MaxRoom = 1, SymbolIds = 5 and no properties
\* but NoIndexOverwritten (of RmtRing's Spec) they wrap: 4 = 1 modulo 3, as
\* 2^32 = 1 modulo 5.
CONSTANTS
    NumChunks = 3
    ChunkSymbols = 2
    DmaNodes = 2
    MaxRoom = 3
    SeqMax = 5
    SymbolIds = 8
    TransmitMayFail = TRUE
SPECIFICATION FairSpec
INVARIANTS ChunkOwnership NoIndexOverwritten NoLostWakeup
PROPERTIES ImplementsQueue QueueDrains
