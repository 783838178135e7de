------------------------------- MODULE Frame -------------------------------
(***************************************************************************)
(* The emulator's frame loop (tmeStartEmu in tme/emu.c): CPU slices with   *)
(* their overrun carried on, the E clock of the VIA, the vertical blanking *)
(* and one-second edges, and the gate events of the sound, recorded for    *)
(* the renderers of module SoundRender: at its cycle for a write of the    *)
(* guest, elsewhere for an edge of timer 1 on PB7, which the VIA makes     *)
(* when the slice has ended.  A RESET instruction records none.            *)
(* Left out, as they touch none of this: the capture of the samples, the   *)
(* mouse's tick and the floppy requests (modules Mouse and PvFdd), the     *)
(* pause between frames, the RTC and the monitor's counters.               *)
(***************************************************************************)
EXTENDS SoundRender, FiniteSets

CONSTANTS
    Ends,         \* the scanlines slices end at: 5, 10, .., 25, 32, 40, .., 370
    MaxInstr,     \* the cycles of the longest instruction
    MaxEvents,    \* SND_GATE_MAX_EVENTS
    EclockDiv,    \* EMU_VIA_ECLOCK_DIV
    VblRate       \* EMU_VBL_RATE_HZ

ASSUME FrameAssumption ==
    /\ Ends \subseteq 1 .. Lines /\ Lines \in Ends
    /\ {MaxInstr, MaxEvents, EclockDiv} \subseteq Nat \ {0} /\ VblRate \in Nat \ {0, 1}
    /\ MaxInstr <= LineCycles

VARIABLES
    pc,              \* "begin", "slice" or "push": where the loop is
    scanline_start,  \* the first line of the slice
    cyclesRun,       \* the cycles of the slice so far
    surpassCycles,   \* overrun of the last slice
    overrun,         \* what of it the request of the slice has taken off
    pendingEclock,   \* emuPendingEclockCycles
    frame, ca2,      \* the VBL counter and the level of CA2
    audio_en,        \* the gate
    startGate,       \* emuSoundFrameStartGateEnabled
    events,          \* emuSoundGateEvents
    \* what happened, for the properties
    elapsed,         \* cycles run since the frame began, those of its overrun too
    early,           \* the cycles of this frame that the last one has run
    on,              \* the cycles run with the gate on, unless disturbed
    lostFrom,        \* the first line with an edge that found no room
    disturbed,       \* the frame has had an edge of timer 1 or a RESET
    viaLag           \* cycles the VIA has not been told of

clock  == <<cyclesRun, surpassCycles, overrun, pendingEclock, viaLag>>
blank  == <<frame, ca2>>
sound  == <<startGate, events, lostFrom>>
frameVars   == <<pc, scanline_start, clock, blank, audio_en, sound, disturbed, elapsed, early, on>>

FrameCycles == Lines * LineCycles
scanline_end == CHOOSE l \in Ends : /\ l > scanline_start
                                    /\ \A m \in Ends : m > scanline_start => l <= m

\* Mistake: the overrun of the last slice is not taken off.
RequestWhole == LineCycles * (scanline_end - scanline_start)

request == LineCycles * (scanline_end - scanline_start) - overrun

FrameInit ==
    /\ pc = "begin" /\ scanline_start = 0 /\ cyclesRun = 0 /\ surpassCycles = 0 /\ overrun = 0
    /\ pendingEclock = 0 /\ viaLag = 0 /\ frame = 0 /\ ca2 = 0
    /\ audio_en = FALSE /\ startGate = FALSE /\ events = <<>> /\ lostFrom = Lines
    /\ disturbed = FALSE /\ elapsed = 0 /\ early = 0 /\ on = {}

\* The start of a frame: the VBL pulse on CA1, and an empty list of events.
BeginFrame ==
    /\ pc = "begin" /\ pc' = "slice"
    /\ startGate' = audio_en /\ events' = <<>> /\ lostFrom' = Lines
    /\ disturbed' = FALSE /\ early' = elapsed /\ on' = {}
    /\ scanline_start' = 0 /\ cyclesRun' = 0
    /\ UNCHANGED <<surpassCycles, overrun, pendingEclock, viaLag, blank, audio_en, elapsed>>
----------------------------------------------------------------------------
(* recordSoundGateEvent.                                                   *)

Event(line, cycle, state) == [line |-> line, cycle |-> cycle, state |-> state]

\* Mistake: two edges at one cycle are two events.
RecordedTwice(evs, e) == IF Len(evs) < MaxEvents THEN Append(evs, e) ELSE evs

\* An edge at the cycle of the last event replaces it, or cancels it when the
\* gate is again what it was before.
Recorded(evs, e) ==
    IF evs # <<>> /\ Last(evs).line = e.line /\ Last(evs).cycle = e.cycle
    THEN LET earlier == Front(evs)
             before  == IF earlier = <<>> THEN startGate ELSE Last(earlier).state
         IN  IF before = e.state THEN earlier ELSE Append(earlier, e)
    ELSE IF Len(evs) < MaxEvents THEN Append(evs, e) ELSE evs

NoRoom(evs, e) ==
    /\ Len(evs) = MaxEvents
    /\ evs = <<>> \/ Last(evs).line # e.line \/ Last(evs).cycle # e.cycle

\* Mistake: the event is placed as if the slice had begun at its line.
PositionInSlice(run, surpass, state) ==
    Event(scanline_start + run \div LineCycles, run % LineCycles, state)

\* The position of an edge, by m68k_cycles_run() and surpassCycles.
Position(run, surpass, state) ==
    LET sliceCycle == run + surpass
    IN  Event(scanline_start + sliceCycle \div LineCycles, sliceCycle % LineCycles, state)

\* viaCbPortBWrite, when it changes bit 7.
Edge(run, surpass) ==
    LET e == Position(run, surpass, ~audio_en)
    IN  /\ audio_en' = ~audio_en /\ events' = Recorded(events, e)
        /\ lostFrom' = IF NoRoom(events, e) THEN AtMost(lostFrom, e.line) ELSE lostFrom

\* A write of the guest: an instruction writes at the cycle it starts at, MOVEM more
\* than once.
ToggleGate ==
    /\ pc = "slice" /\ cyclesRun < request
    /\ Edge(cyclesRun, surpassCycles)
    /\ UNCHANGED <<pc, scanline_start, clock, blank, startGate, disturbed, elapsed, early, on>>

\* RESET (resetMacHardware): the gate is off without an event, and the overrun is
\* forgotten, though the request of the slice has taken it off.
Reset ==
    /\ pc = "slice" /\ cyclesRun < request
    /\ audio_en' = FALSE /\ surpassCycles' = 0 /\ disturbed' = TRUE /\ on' = {}
    /\ UNCHANGED <<pc, scanline_start, cyclesRun, overrun, pendingEclock, viaLag, blank, sound,
                   elapsed, early>>

\* An instruction of the guest.
Instruction(cycles) ==
    /\ pc = "slice" /\ cyclesRun < request
    /\ cyclesRun' = cyclesRun + cycles
    /\ elapsed' = elapsed + cycles
    /\ on' = IF audio_en /\ ~disturbed THEN on \cup elapsed .. elapsed + cycles - 1 ELSE on
    /\ UNCHANGED <<pc, scanline_start, surpassCycles, overrun, pendingEclock, viaLag, blank,
                   audio_en, sound, disturbed, early>>

PendingEclock == (pendingEclock + cyclesRun) % EclockDiv

\* m68k_cycles_run() when a slice has ended.  A CPU that was stopped has run what was
\* requested, and it is still the request of the slice it stopped in.
RunAtEnd ==
    {cyclesRun} \cup
    {LineCycles * lines - o : lines \in IF cyclesRun = request THEN 1 .. Lines ELSE {},
                              o \in 0 .. MaxInstr - 1}

\* viaStepTimer1, when it changes PB7: by then surpassCycles is that of the slice that
\* has ended, and the line still the one the slice began at.
TimerEdge ==
    /\ (pendingEclock + cyclesRun) \div EclockDiv > 0
    /\ \E run \in RunAtEnd : Edge(run, surpassCycles')
    /\ disturbed' = TRUE /\ on' = {} /\ UNCHANGED startGate

\* The end of a slice: its overrun, and the VIA's clock.
EndSlice ==
    /\ pc = "slice" /\ cyclesRun >= request
    /\ surpassCycles' = cyclesRun - request /\ overrun' = surpassCycles'
    /\ pendingEclock' = PendingEclock
    /\ viaLag' = viaLag + cyclesRun - EclockDiv * ((pendingEclock + cyclesRun) \div EclockDiv)
    /\ scanline_start' = scanline_end /\ cyclesRun' = 0
    /\ pc' = IF scanline_end = Lines THEN "push" ELSE "slice"
    /\ TimerEdge \/ UNCHANGED <<audio_en, sound, disturbed, on>>
    /\ UNCHANGED <<blank, elapsed, early>>

\* The end of a frame: the edges of CA2 around a second, and the frame of sound.
EndFrame ==
    /\ pc = "push" /\ pc' = "begin"
    /\ \/ frame + 1 < VblRate - 1 /\ frame' = frame + 1 /\ UNCHANGED ca2
       \/ frame + 1 = VblRate - 1 /\ frame' = frame + 1 /\ ca2' = 1 - ca2
       \/ frame + 1 >= VblRate /\ frame' = 0 /\ ca2' = 1 - ca2
    /\ elapsed' = elapsed - FrameCycles
    /\ UNCHANGED <<scanline_start, clock, audio_en, sound, disturbed, early, on>>

FrameNext == \/ BeginFrame \/ ToggleGate \/ Reset \/ EndSlice \/ EndFrame
        \/ \E cycles \in 1 .. MaxInstr : Instruction(cycles)

FrameSpec == FrameInit /\ [][FrameNext]_frameVars
----------------------------------------------------------------------------
\* The events come in the order of their cycles, each a change of the gate from
\* the one before: what both renderers' cursors rely on.
EventsOrdered ==
    \A i \in DOMAIN events :
        /\ events[i].state # IF i = 1 THEN startGate ELSE events[i - 1].state
        /\ i > 1 => \/ events[i - 1].line < events[i].line
                    \/ /\ events[i - 1].line = events[i].line
                       /\ events[i - 1].cycle < events[i].cycle

(* The loop's counters keep their ranges, the events their order, and CA2  *)
(* is raised for the last frame of each second only (tme/emu.c:371-384).   *)
(* An edge of timer 1 and a RESET spare the counters, not the events.      *)
FrameTypeOK ==
    /\ pc \in {"begin", "slice", "push"}
    /\ scanline_start \in 0 .. Lines /\ cyclesRun \in 0 .. FrameCycles + MaxInstr - 1
    /\ {surpassCycles, overrun} \subseteq 0 .. MaxInstr - 1 /\ pendingEclock \in 0 .. EclockDiv - 1
    /\ frame \in 0 .. VblRate - 1 /\ ca2 = (IF frame = VblRate - 1 THEN 1 ELSE 0)
    /\ {audio_en, startGate, disturbed} \subseteq BOOLEAN
    /\ Len(events) <= MaxEvents
    /\ \A i \in DOMAIN events :
          events[i] \in [line : Nat, cycle : 0 .. LineCycles - 1, state : BOOLEAN]
    /\ ~disturbed => EventsOrdered /\ \A i \in DOMAIN events : events[i].line < Lines

(* The machine never runs ahead of its scanlines by more than one          *)
(* instruction, however its slices overrun and whether a RESET forgets the *)
(* overrun, and the VIA is told of every cycle but the broken E clock that *)
(* is carried on.                                                          *)
TimelineKept ==
    /\ FrameTypeOK
    /\ elapsed = scanline_start * LineCycles + overrun + cyclesRun
          \/ pc = "begin"
    /\ viaLag = pendingEclock

\* Whether a cycle of the frame is high for a sample: the gate is on, after the
\* line's low part.  The cycles the last frame has run count as those it ended in.
Gated(c)       == IF c < early THEN startGate ELSE c \in on
High(c, sample) == Gated(c) /\ c % LineCycles >= LowCycles(sample)
HeardFrame     == [gate |-> startGate, events |-> events]
Cycles(line)   == line * LineCycles .. (line + 1) * LineCycles - 1

(* A PWM or PDM sample is the share of its line that is high, to the       *)
(* nearest step, in every line before an edge that found no room.          *)
PwmExact ==
    pc = "push" =>
        \A line \in 0 .. lostFrom - 1, sample \in 0 .. Full :
            LET high == Cardinality({c \in Cycles(line) : High(c, sample)})
            IN  GatedSample(HeardFrame, line, sample)
                  = (high * Full + LineCycles \div 2) \div LineCycles

RmtSlots == [level : {0, 1}, ticks : 1 .. MaxDuration]

\* What one frame may leave pending for the next: nothing, or half a symbol.
Carried == {<<>>} \cup {<<slot>> : slot \in RmtSlots}

\* The symbols of a frame play what was left of the last one and then, tick for
\* tick, the level of each cycle between the cycle's ticks.  A published symbol
\* has two slots, none of which is empty or longer than the hardware's.
RmtPlays(carried, volume, samples) ==
    LET writer == RenderFrame([out |-> <<>>, pending |-> carried], volume, HeardFrame, samples)
        played == Waveform(writer)
        before == Len(SymbolWave(carried))
    IN  /\ \A i \in DOMAIN writer.out : writer.out[i] \in RmtSlots \X RmtSlots
        /\ writer.pending \in Carried
        /\ Len(played) = before + Tick(Lines, 0)
        /\ \A t \in 1 .. before : played[t] = SymbolWave(carried)[t]
        /\ \A line \in 0 .. lostFrom - 1 : \A c \in Cycles(line) :
              \A t \in Tick(0, c) + 1 .. Tick(0, c + 1) :
                  played[before + t] = IF volume # 0 /\ High(c, samples[line]) THEN 1 ELSE 0

(* The RMT symbols play the frame, whatever the last one left, at any      *)
(* volume; an empty slot would end the transmission.                       *)
RmtExact ==
    pc = "push" =>
        \A carried \in Carried, volume \in {0, 1}, even \in 0 .. Full, odd \in 0 .. Full :
            RmtPlays(carried, volume,
                     [line \in 0 .. Lines - 1 |-> IF line % 2 = 0 THEN even ELSE odd])

(* Both backends play the frame the guest's writes describe, unless timer  *)
(* 1 has moved the gate within it or a RESET has closed it: those edges    *)
(* are listed at another cycle, or not at all (tme/emu.c:353-354, 198).    *)
RenderedExactly == ~disturbed => PwmExact /\ RmtExact
=============================================================================
