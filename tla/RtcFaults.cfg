\* Rtc.tla: a sync while the guest reads the time leaves two equal readings of no
\* time. With MCRtc.tla and the constants of MCRtc.cfg: PROPERTY
\* SetTimeAlwaysCommits (a tick between two bytes of a time the guest sets), and
\* INVARIANT PramReadsBack with Pb7Driven = TRUE (the timer moves PB7 meanwhile).
SPECIFICATION RtcSpec
CONSTANTS
    ClockBytes = 2
    DataBits = 2
    CommandBits = 4
    AddressBits = 3
    Epoch = 1
    MinHost = 2
    MaxHost = 3
    ZoneOffset = 1
    PramUsed = {}
    PramValues = {2}
    SetTimes = {}
    MaxSyncs = 1
    MayFail = FALSE
    Pb7Driven = FALSE
INVARIANT EqualReadsAlwaysReal
CHECK_DEADLOCK FALSE
