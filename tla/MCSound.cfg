\* Frames of three lines of three cycles, with three events at most; a ring of
\* two frames of two samples and one slot.
\* INVARIANT EventsOrdered in place of the four below shows the list out of order
\* after an edge of timer 1 or a RESET.
\* Pwm alone: SPECIFICATION FairPwmSpec, PROPERTY MutedIsSilent, FrameSamples = 1,
\* RingSamples = 3, Values = 4, Commands = {"storage"} (a mute that leaves a sample).
CONSTANTS
    Lines = 3
    LineCycles = 3
    Full = 2
    ResolutionHz = 3
    CpuHz = 2
    MaxDuration = 3
    Ends = {1, 3}
    MaxInstr = 2
    MaxEvents = 3
    EclockDiv = 2
    VblRate = 2
    FrameSamples = 2
    RingSamples = 5
    Values = 10
    Commands = {"run", "stop", "storage"}
SPECIFICATION MCSoundSpec
INVARIANTS TimelineKept RenderedExactly RingIsFifo WaiterIsWoken
