SPECIFICATION MCRtcSpec
CONSTANTS
    ClockBytes = 2
    DataBits = 2
    CommandBits = 4
    AddressBits = 3
    Epoch = 1
    MinHost = 2
    MaxHost = 3
    ZoneOffset = 1
    PramUsed = {4}
    PramValues = {2}
    SetTimes = {0, 4}
    MaxSyncs = 1
    MayFail = TRUE
    Pb7Driven = FALSE
INVARIANTS
    EqualReadsAreReal
    PramReadsBack
    PramIsSaved
PROPERTIES
    SetTimeCommits
    ClockFollowsHost
CHECK_DEADLOCK FALSE
