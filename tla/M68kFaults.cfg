\* A write to a device interrupts before the MOVE has set its flags. For the SCC's
\* interrupt that is not presented again: Machines <- SccMachines and PROPERTY
\* InterruptsAnswered.
SPECIFICATION M68kSpec
CONSTANTS
    ByteBits = 6
    RamSize = 104
    ViaAddress = 16777214
    SccAddress = 16777215
    Base = 8
    Ten = 5
    Vector <- MCVector
    Machines <- MCMachines
INVARIANT FlagsKept
