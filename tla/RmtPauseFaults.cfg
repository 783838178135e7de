\* What a pause may do, one property at a time: EnabledMeansEnabled in place of
\* SelectsPublished, or SoundResumes as a PROPERTY (of FairPauseSpec).
\* The property StopSilences holds, with PauseTypeOK, for one chunk, DmaNodes = 1,
\* SeqMax = 1 and SymbolIds = 1.
CONSTANTS
    NumChunks = 2
    ChunkSymbols = 1
    DmaNodes = 2
    MaxRoom = 1
    SeqMax = 3
    SymbolIds = 5
    TransmitMayFail = FALSE
    Commands = {"run", "stop", "storage"}
SPECIFICATION FairPauseSpec
INVARIANT SelectsPublished
CHECK_DEADLOCK FALSE
