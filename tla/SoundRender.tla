---------------------------- MODULE SoundRender ----------------------------
(***************************************************************************)
(* The renderers of one sound frame: snd.cpp turns each scanline into one  *)
(* PWM or PDM sample, snd_rmt.cpp into runs of a GPIO level in timer       *)
(* ticks, packed two to an RMT symbol.  Both walk the frame's list of gate *)
(* events with one cursor; the events are in the order of their cycles     *)
(* (Frame!EventsOrdered), so the cursor is a function of the line.         *)
(*                                                                         *)
(* The loops of the code are recursive functions of the number of rounds.  *)
(***************************************************************************)
EXTENDS Integers, Sequences, SequencesExt

CONSTANTS
    Lines,         \* scanlines of a frame: 370
    LineCycles,    \* CPU cycles of a scanline: 352
    Full,          \* the largest sample: 0xFF
    ResolutionHz,  \* ticks per TickCycles cycles: rmtResolutionHz
    CpuHz,         \* AUDIO_MAC_CPU_HZ
    MaxDuration    \* the longest duration of an RMT slot: 0x7FFF

\* A scanline has a cycle for every step of a sample, as 352 for 255.
ASSUME SoundRenderAssumption ==
    /\ {Lines, LineCycles, Full, ResolutionHz, CpuHz, MaxDuration} \subseteq Nat \ {0}
    /\ Full <= LineCycles

AtLeast(a, b) == IF a >= b THEN a ELSE b
AtMost(a, b)  == IF a <= b THEN a ELSE b
----------------------------------------------------------------------------
(* The gate along a scanline.  A frame is [gate |-> the state at its       *)
(* start, events |-> a sequence of [line, cycle, state]].                  *)

\* lowCycles: the sample is low until this cycle of its line, then high.
LowCycles(sample) == ((Full - sample) * LineCycles + Full \div 2) \div Full

\* The cursor at the start of a line: the number of events already taken.
EventIndex(frame, line) ==
    CHOOSE n \in 0 .. Len(frame.events) :
        /\ \A i \in 1 .. n : frame.events[i].line < line
        /\ n < Len(frame.events) => frame.events[n + 1].line >= line

\* The state of the gate once n events have been taken.
GateAfter(frame, n) == IF n = 0 THEN frame.gate ELSE frame.events[n].state

\* A line is cut at its events into parts with one state of the gate: as many as
\* it has events, and one.  Part 1 begins with the line.
Parts(frame, line) == EventIndex(frame, line + 1) - EventIndex(frame, line) + 1

Segment(frame, line, part) ==
    LET n == EventIndex(frame, line) + part - 1
    IN  [from |-> IF part = 1 THEN 0 ELSE frame.events[n].cycle,
         to   |-> IF part = Parts(frame, line) THEN LineCycles ELSE frame.events[n + 1].cycle,
         gate |-> GateAfter(frame, n)]
----------------------------------------------------------------------------
(* audioApplyGateToPcmSample.                                              *)

HighCycles(segment, low) ==
    IF segment.gate THEN AtLeast(0, segment.to - AtLeast(segment.from, low)) ELSE 0

\* enabledHighCycles after each part of the line.
EnabledHighCycles(frame, line, low) ==
    LET Sum[n \in 0 .. Parts(frame, line)] ==
            IF n = 0 THEN 0 ELSE Sum[n - 1] + HighCycles(Segment(frame, line, n), low)
    IN  Sum

GatedSample(frame, line, sample) ==
    LET parts == Parts(frame, line)
        high  == EnabledHighCycles(frame, line, LowCycles(sample))[parts]
    IN  IF parts = 1 THEN IF GateAfter(frame, EventIndex(frame, line)) THEN sample ELSE 0
        ELSE (high * Full + LineCycles \div 2) \div LineCycles
----------------------------------------------------------------------------
(* audioRmtAppendRun.  A symbol is a sequence of one or two slots [level,  *)
(* ticks], complete with two; the writer keeps the last one pending.       *)

\* An incomplete symbol stays pending.
Flush(writer) ==
    IF Len(writer.pending) < 2 THEN writer
    ELSE [out |-> Append(writer.out, writer.pending), pending |-> <<>>]

\* Mistake: a full slot is not closed by a change of level.
AppendPieceSameSlot(writer, piece) ==
    IF writer.pending = <<>> THEN [writer EXCEPT !.pending = <<piece>>]
    ELSE IF Last(writer.pending).ticks + piece.ticks <= MaxDuration
    THEN [writer EXCEPT !.pending[Len(writer.pending)].ticks = @ + piece.ticks]
    ELSE IF Len(writer.pending) = 1 THEN [writer EXCEPT !.pending = Append(@, piece)]
    ELSE [Flush(writer) EXCEPT !.pending = <<piece>>]

\* A piece extends the last slot if it has its level and there is room, takes
\* the second slot, or begins a symbol.
AppendPiece(writer, piece) ==
    LET last == Last(writer.pending)
    IN  IF writer.pending = <<>> THEN [writer EXCEPT !.pending = <<piece>>]
        ELSE IF last.level = piece.level /\ last.ticks + piece.ticks <= MaxDuration
        THEN [writer EXCEPT !.pending[Len(writer.pending)].ticks = @ + piece.ticks]
        ELSE IF Len(writer.pending) = 1 THEN [writer EXCEPT !.pending = Append(@, piece)]
        ELSE [Flush(writer) EXCEPT !.pending = <<piece>>]

\* A run is cut into pieces of at most MaxDuration ticks.
Pieces(ticks) == (ticks + MaxDuration - 1) \div MaxDuration

AppendPieces(writer, level, ticks) ==
    LET Written[n \in 0 .. Pieces(ticks)] ==
            IF n = 0 THEN writer
            ELSE AppendPiece(Written[n - 1],
                     [level |-> level,
                      ticks |-> AtMost(MaxDuration, ticks - (n - 1) * MaxDuration)])
    IN  Written

\* The run of one level between two ticks.
AppendRun(writer, level, from, to) ==
    IF to > from THEN AppendPieces(writer, level, to - from)[Pieces(to - from)] ELSE writer
----------------------------------------------------------------------------
(* audioRmtBuildFrame.                                                     *)

Tick(line, cycle) ==
    ((line * LineCycles + cycle) * ResolutionHz + CpuHz \div 2) \div CpuHz

\* The start of each line, with the fraction of a tick carried along.
LineTicks ==
    LET numerator == LineCycles * ResolutionHz
        At[line \in 0 .. Lines] ==
            IF line = 0 THEN [tick |-> 0, remainder |-> CpuHz \div 2]
            ELSE LET tick == At[line - 1].tick + (numerator \div CpuHz)
                     r    == At[line - 1].remainder + (numerator % CpuHz)
                 IN  IF r >= CpuHz THEN [tick |-> tick + 1, remainder |-> r - CpuHz]
                     ELSE [tick |-> tick, remainder |-> r]
    IN  At

\* The ticks of a segment: those of the line at its ends, of its events inside.
StartTick(line, segment) ==
    IF segment.from = 0 THEN LineTicks[line].tick ELSE Tick(line, segment.from)
EndTick(line, segment) ==
    IF segment.to = LineCycles THEN LineTicks[line + 1].tick ELSE Tick(line, segment.to)

EmitEnabledTicks(writer, line, low, s) ==
    LET from == StartTick(line, s)   to == EndTick(line, s)   rise == Tick(line, low)
    IN  IF s.to <= low THEN AppendRun(writer, 0, from, to)
        ELSE IF s.from >= low THEN AppendRun(writer, 1, from, to)
        ELSE AppendRun(AppendRun(writer, 0, from, rise), 1, rise, to)

RenderSegment(writer, volume, line, low, s) ==
    IF volume = 0 \/ ~s.gate THEN AppendRun(writer, 0, StartTick(line, s), EndTick(line, s))
    ELSE EmitEnabledTicks(writer, line, low, s)

RenderSegments(writer, volume, frame, line, sample) ==
    LET Written[n \in 0 .. Parts(frame, line)] ==
            IF n = 0 THEN writer
            ELSE RenderSegment(Written[n - 1], volume, line, LowCycles(sample),
                               Segment(frame, line, n))
    IN  Written

RenderLine(writer, volume, frame, line, sample) ==
    RenderSegments(writer, volume, frame, line, sample)[Parts(frame, line)]

RenderLines(writer, volume, frame, samples) ==
    LET Written[line \in 0 .. Lines] ==
            IF line = 0 THEN writer
            ELSE RenderLine(Written[line - 1], volume, frame, line - 1, samples[line - 1])
    IN  Written

RenderFrame(writer, volume, frame, samples) ==
    Flush(RenderLines(writer, volume, frame, samples)[Lines])
----------------------------------------------------------------------------
(* What the output plays, tick for tick: the level of each.                *)

SlotWave(slot) == [t \in 1 .. slot.ticks |-> slot.level]

SymbolWave(symbol) ==
    IF symbol = <<>> THEN <<>>
    ELSE IF Len(symbol) = 1 THEN SlotWave(symbol[1])
    ELSE SlotWave(symbol[1]) \o SlotWave(symbol[2])

Waves(symbols) ==
    LET Wave[n \in 0 .. Len(symbols)] ==
            IF n = 0 THEN <<>> ELSE Wave[n - 1] \o SymbolWave(symbols[n])
    IN  Wave

\* The symbols of a stream and the one it has pending.
Waveform(writer) == Waves(writer.out)[Len(writer.out)] \o SymbolWave(writer.pending)
=============================================================================
