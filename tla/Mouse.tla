------------------------------- MODULE Mouse --------------------------------
(***************************************************************************)
(* The mouse, end to end: the BLE task accumulates motion (input_host.cpp),*)
(* mouseTick turns it into quadrature on the emulator task (mouse.c), one  *)
(* phase line of each axis being a DCD input of the SCC (scc.c) and the    *)
(* other a VIA port bit, and the guest's interrupt handler counts edges.   *)
(* Channel A is the X axis and channel B the Y axis.                       *)
(*                                                                         *)
(* Of RR0 only the DCD bit is kept, of WR1 and WR15 the bits that enable   *)
(* its interrupt.  The guest is external: the ROM's level-2 handler reads  *)
(* RR2 to learn the channel, RR0 and the port bit to learn the direction,  *)
(* and resets the channel's external interrupt.                            *)
(***************************************************************************)
EXTENDS Integers

CONSTANTS
    HostMax,       \* INPUT_HOST_MOUSE_MAX_DELTA
    MaxCdx,        \* MAXCDX
    MaxPosition,   \* bound of the exploration: quadrature steps from the start
    Guests         \* the kinds of guest to explore

ASSUME MouseAssumption ==
    /\ {HostMax, MaxCdx, MaxPosition} \subseteq Nat \ {0}
    /\ Guests \subseteq [inTime : BOOLEAN, forcesReset : BOOLEAN]

Axes == {"A", "B"}
None == -1

VARIABLES
    host,     \* s_mouse: motion not drained yet, and the button
    mouse,    \* dx/dy, quadrature phase per axis, and the lines last presented
    pb,       \* the VIA port B bits of the second phase lines
    scc,      \* the chip, and the interrupt level it gives the CPU
    kind,     \* external: does the guest's handler run before the next tick,
              \*   and does it initialise the SCC with WR9 0xC0
    guest,    \* external: where the guest is, and the channel it serves
    count     \* external: the edges the guest has counted, with their sign

vars == <<host, mouse, pb, scc, kind, guest, count>>

EachAxis(v) == [c \in Axes |-> v]

\* Mistake: accumulated motion is not limited.
ClampHigh(v, m) == IF v > m THEN m ELSE v

Clamp(v, m) == IF v > m THEN m ELSE IF v < -m THEN -m ELSE v
----------------------------------------------------------------------------
(* The SCC: operators from a state of the chip to the next.                *)

\* sccIrq and updateCpuIrq.
SccIrq(s, req) == [s EXCEPT !.irqPending = req, !.level = req]

sccInit ==
    [dcd |-> EachAxis(1), rr0Prev |-> EachAxis(1), rr0Latched |-> EachAxis(None),
     extEnable |-> EachAxis(FALSE), dcdEnable |-> EachAxis(FALSE),
     intpending |-> {}, irqAsserted |-> FALSE,
     irqPending |-> FALSE, level |-> FALSE]

\* Mistake: the level is given on the edge only.
assessIrqOnEdge(s) ==
    IF \E c \in s.intpending : s.extEnable[c]
    THEN IF s.irqAsserted THEN s ELSE SccIrq([s EXCEPT !.irqAsserted = TRUE], TRUE)
    ELSE IF s.irqAsserted THEN SccIrq([s EXCEPT !.irqAsserted = FALSE], FALSE) ELSE s

\* An active source is presented again at every call: the CPU forgets the
\* level when it acknowledges it.
assessIrq(s) ==
    IF \E c \in s.intpending : s.extEnable[c]
    THEN SccIrq([s EXCEPT !.irqAsserted = TRUE], TRUE)
    ELSE IF s.irqAsserted THEN SccIrq([s EXCEPT !.irqAsserted = FALSE], FALSE) ELSE s

checkExtInt(s, c) ==
    LET triggered == s.dcd[c] # s.rr0Prev[c] /\ s.dcdEnable[c]
        t == IF triggered
             THEN [s EXCEPT !.rr0Latched[c] = s.dcd[c], !.intpending = @ \cup {c}]
             ELSE s
    IN  assessIrq([t EXCEPT !.rr0Prev[c] = s.dcd[c]])

sccSetDcd(s, c, v) == checkExtInt([s EXCEPT !.dcd[c] = v], c)

\* Reading RR2 of channel B names one source, B first, and clears it.
Rr2Source(s) == IF "B" \in s.intpending THEN "B"
                ELSE IF "A" \in s.intpending THEN "A" ELSE "none"
ReadRR2(s) == checkExtInt([s EXCEPT !.intpending = @ \ {Rr2Source(s)}], "B")

Rr0(s, c) == IF s.rr0Latched[c] # None THEN s.rr0Latched[c] ELSE s.dcd[c]
ReadRR0(s, c) == checkExtInt([s EXCEPT !.rr0Latched[c] = None], c)

\* WR0 0x10, reset external/status interrupts.
ResetExt(s, c) ==
    checkExtInt([s EXCEPT !.rr0Latched[c] = None, !.intpending = @ \ {c}], c)

EnableExt(s, c) ==
    checkExtInt([s EXCEPT !.extEnable[c] = TRUE, !.dcdEnable[c] = TRUE], c)
----------------------------------------------------------------------------
\* Power-on: mouseReset and sccInit.
mouseReset == [d |-> EachAxis(0), rp |-> EachAxis(0), last |-> <<>>]

Init ==
    /\ host = [d |-> EachAxis(0), button |-> FALSE]
    /\ mouse = mouseReset
    /\ pb = EachAxis(0)
    /\ scc = sccInit
    /\ kind \in Guests /\ guest = [pc |-> "boot", chan |-> "none"]
    /\ count = EachAxis(0)

\* Moving right lowers rpx, moving down raises rpy.
Toward(c) == IF c = "A" THEN -1 ELSE 1
Heading(c) == Toward(c) * mouse.rp[c] + mouse.d[c] + 2 * host.d[c]

inputHostMouseMove(dx, dy, button) ==
    LET step == [c \in Axes |-> IF c = "A" THEN dx ELSE dy]
    IN  /\ \A c \in Axes : Heading(c) + 2 * step[c] \in -MaxPosition .. MaxPosition
        /\ host' = [d |-> [c \in Axes |-> Clamp(host.d[c] + step[c], HostMax)],
                    button |-> button]
        /\ UNCHANGED <<mouse, pb, scc, kind, guest, count>>

inputHostReleaseMouse ==
    /\ host' = [d |-> EachAxis(0), button |-> FALSE]
    /\ UNCHANGED <<mouse, pb, scc, kind, guest, count>>

\* Mistake: a binary phase table in place of the Gray code.
PhaseABinary(rp) == IF rp % 4 \in {1, 3} THEN 1 ELSE 0

\* quad: of the phase's two lines, the first goes to the SCC.
PhaseA(rp) == IF rp % 4 \in {1, 2} THEN 1 ELSE 0
PhaseB(rp) == IF rp % 4 \in {2, 3} THEN 1 ELSE 0
Lines(rp, button) == <<[c \in Axes |-> <<PhaseA(rp[c]), PhaseB(rp[c])>>], button>>

Sign(v) == IF v > 0 THEN 1 ELSE IF v < 0 THEN -1 ELSE 0

\* One step of each axis: the lines are presented when they changed.
mouseTick ==
    LET d  == [c \in Axes |-> Clamp(mouse.d[c] + 2 * host.d[c], MaxCdx)]
        rp == [c \in Axes |-> mouse.rp[c] + Toward(c) * Sign(d[c])]
        lines == Lines(rp, host.button)
    IN  /\ kind.inTime => guest.pc \in {"boot", "user"} /\ ~scc.level
        /\ host' = [host EXCEPT !.d = EachAxis(0)]
        /\ mouse' = [d |-> [c \in Axes |-> d[c] - Sign(d[c])], rp |-> rp,
                     last |-> lines]
        /\ IF lines # mouse.last
           THEN /\ pb' = [c \in Axes |-> PhaseB(rp[c])]
                /\ scc' = sccSetDcd(sccSetDcd(scc, "A", PhaseA(rp["A"])),
                                    "B", PhaseA(rp["B"]))
           ELSE UNCHANGED <<pb, scc>>
        /\ UNCHANGED <<kind, guest, count>>

\* The VIA's own interrupt has the level computed again (updateCpuIrq).
viaIrq ==
    /\ scc.irqPending # scc.level
    /\ scc' = [scc EXCEPT !.level = scc.irqPending]
    /\ UNCHANGED <<host, mouse, pb, guest, count, kind>>
----------------------------------------------------------------------------
(* The guest (external).                                                   *)

\* The RESET instruction, at the start of the ROM: resetMacHardware.
MacReset ==
    /\ guest.pc = "user"
    /\ mouse' = mouseReset /\ pb' = EachAxis(0) /\ scc' = sccInit
    /\ guest' = [pc |-> "boot", chan |-> "none"]
    /\ host' = [d |-> EachAxis(0), button |-> FALSE]     \* viaInit: inputHostReset
    /\ count' = EachAxis(0) /\ UNCHANGED kind

\* The position that many edges of a channel stand for.
Edges(rp) == (rp + 1) \div 2

\* The ROM's initialisation of the chip, many slices after the reset.  The
\* guest counts from here on.
GuestInit ==
    /\ guest.pc = "boot" /\ mouse.last # <<>>
    /\ LET s == IF kind.forcesReset THEN checkExtInt(sccInit, "A") ELSE scc
       IN  scc' = EnableExt(EnableExt(s, "A"), "B")
    /\ count' = IF kind.inTime THEN [c \in Axes |-> Edges(mouse.rp[c])] ELSE count
    /\ guest' = [guest EXCEPT !.pc = "user"]
    /\ UNCHANGED <<host, mouse, pb, kind>>

\* The interrupt: the CPU clears the level.
Acknowledge ==
    /\ guest.pc = "user" /\ scc.level
    /\ scc' = [scc EXCEPT !.level = FALSE]
    /\ guest' = [guest EXCEPT !.pc = "ack"]
    /\ UNCHANGED <<host, mouse, pb, count, kind>>

HandlerReadRR2 ==
    /\ guest.pc = "ack"
    /\ scc' = ReadRR2(scc)
    /\ guest' = IF Rr2Source(scc) = "none"
                THEN [guest EXCEPT !.pc = "user"]
                ELSE [pc |-> "ext", chan |-> Rr2Source(scc)]
    /\ UNCHANGED <<host, mouse, pb, count, kind>>

\* A rising edge with the other line low, or a falling one with it high, is
\* a step forward.  (A guest that is late misreads some: its count, without
\* bound then, is not followed.)
HandlerCount ==
    /\ guest.pc = "ext"
    /\ LET c == guest.chan
       IN  /\ scc' = ReadRR0(scc, c)
           /\ count' = IF kind.inTime
                      THEN [count EXCEPT ![c] =
                               IF Rr0(scc, c) # pb[c] THEN @ + 1 ELSE @ - 1]
                      ELSE count
    /\ guest' = [guest EXCEPT !.pc = "reset"]
    /\ UNCHANGED <<host, mouse, pb, kind>>

HandlerResetExt ==
    /\ guest.pc = "reset"
    /\ scc' = ResetExt(scc, guest.chan)
    /\ guest' = [pc |-> "user", chan |-> "none"]
    /\ UNCHANGED <<host, mouse, pb, count, kind>>

Next ==
    \/ \E dx, dy \in -1..1, button \in BOOLEAN : inputHostMouseMove(dx, dy, button)
    \/ inputHostReleaseMouse
    \/ mouseTick \/ viaIrq \/ MacReset \/ GuestInit
    \/ Acknowledge \/ HandlerReadRR2 \/ HandlerCount \/ HandlerResetExt

MouseSpec == Init /\ [][Next]_vars
----------------------------------------------------------------------------
(* Type correctness.                                                       *)
MouseTypeOK ==
    /\ host.d \in [Axes -> -HostMax .. HostMax] /\ host.button \in BOOLEAN
    /\ mouse.d \in [Axes -> -MaxCdx .. MaxCdx]
    /\ mouse.rp \in [Axes -> -MaxPosition .. MaxPosition]
    /\ pb \in [Axes -> 0..1] /\ scc.dcd \in [Axes -> 0..1]
    /\ scc.rr0Latched \in [Axes -> {None, 0, 1}]
    /\ scc.intpending \subseteq Axes /\ scc.level \in BOOLEAN
    /\ guest.pc \in {"boot", "user", "ack", "ext", "reset"}

(* An enabled source that is pending is never forgotten: outside the       *)
(* handler the CPU is given its level, both axes' edges at once and edges  *)
(* that come within the handler included.                                  *)
IrqPresented ==
    /\ MouseTypeOK
    /\ guest.pc = "user" /\ (\E c \in scc.intpending : scc.extEnable[c]) => scc.level

Quiet == guest.pc = "user" /\ scc.intpending = {} /\ ~scc.level

(* No motion is lost or invented between the quadrature and a guest whose  *)
(* handler keeps up: what it has counted is the phase's position.  A       *)
(* forced reset, which sets DCD while the mouse's lines are not presented  *)
(* again, puts each axis off by one edge at most, for ever.                *)
MotionExact ==
    Quiet /\ kind.inTime =>
        \A c \in Axes :
            LET off == count[c] - Edges(mouse.rp[c])
            IN  IF kind.forcesReset THEN off \in -1..1 ELSE off = 0
=============================================================================
