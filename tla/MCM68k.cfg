SPECIFICATION M68kSpec
CONSTANTS
    ByteBits = 6
    RamSize = 104
    ViaAddress = 16777214
    SccAddress = 16777215
    Base = 8
    Ten = 5
    Vector <- MCVector
    Machines <- MCMachines
INVARIANT ProgramsCompute
PROPERTIES PrivilegeKept InterruptsAnswered
