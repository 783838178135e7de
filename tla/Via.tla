-------------------------------- MODULE Via ---------------------------------
(***************************************************************************)
(* The 6522 VIA of src/src/tme/via.c: two timers, the interrupt flags and  *)
(* the shift register with the keyboard behind it.  The guest CPU reaches  *)
(* it through viaRead and viaWrite; between slices of guest code the       *)
(* emulator task calls viaStep with the E-clock cycles that passed and     *)
(* viaControlWrite for the vertical blank (CA1) and the second (CA2).      *)
(* Everything here runs on the emulator task; the key buffer is shared.     *)
(*                                                                         *)
(* Bytes have ByteSize values.  ifr and ier are sets of source names;      *)
(* IFR bit 7 is kept in irqFlag.  Ports and the sound gate are elsewhere.  *)
(***************************************************************************)
EXTENDS HostKeyRing

CONSTANTS
    ByteSize,          \* 256; a timer latch is two bytes
    KeypadBase,        \* 64: scancodes from here on are keypad keys
    TransferTicks,     \* SR_TRANSFER_TICKS (8)
    InquiryWaitTicks,  \* KBD_INQUIRY_WAIT_TICKS (4000)
    StepTicks,         \* the cycle counts viaStep is called with
    Commands           \* bytes the guest shifts out

ASSUME ViaConstants ==
    /\ ByteSize \in Nat \ {0} /\ KeypadBase \in Nat
    /\ TransferTicks \in Nat \ {0} /\ InquiryWaitTicks \in Nat \ {0}
    /\ StepTicks \subseteq Nat \ {0}
    /\ Commands \subseteq {"Inquiry", "Instant", "Model", "Test", "other"}

VARIABLES
    t1,               \* timer1, timer1Active, timer1Pb7 and latch1
    t2,               \* timer2, timer2Running, timer2IrqArmed and latch2
    ifr, ier,         \* flags raised and enabled
    irqFlag,          \* IFR_IRQ
    irqAsserted,      \* the interrupt line
    acr,              \* PB7 output, free-running timer 1, shift mode
    pcr, controlin,   \* control-line modes and levels
    sr, srPhase, srTicks,
    kbdResponse, kbdInstantResponse, kbdInquiryPending

timers == <<t1, t2>>
irqs == <<ifr, irqFlag, irqAsserted>>
control == <<pcr, controlin>>
shift == <<sr, srPhase, srTicks, kbdResponse, kbdInstantResponse, kbdInquiryPending>>
viaVars == <<timers, irqs, ier, acr, control, shift>>
allViaVars == <<hostKeysVars, viaVars>>

Source == {"T1", "T2", "CB1", "CB2", "SR", "CA1", "CA2"}
Line == {"CA1", "CA2", "CB1", "CB2"}
Full == ByteSize * ByteSize        \* 0x10000
Byte == 0 .. ByteSize - 1
Period(latch) == IF latch = 0 THEN Full ELSE latch

\* Keyboard bytes keep their values; a key edge is 2 * scancode, plus 0x80 when released.
KBD_NULL == 123
KBD_MODEL == 11
KBD_TEST_ACK == 125
KeypadFollows == 121
Code(e, base) == 2 * (e.scancode - base) + IF e.isRelease THEN 128 ELSE 0
IsKeypad(e) == e.scancode >= KeypadBase

ViaTypeOK ==
    /\ t1.value \in Int /\ t1.value <= Full /\ t1.latch \in 0 .. Full - 1
    /\ t1.active \in BOOLEAN /\ t1.pb7 \in BOOLEAN
    /\ t2.value \in 0 .. Full /\ t2.latch \in 0 .. Full - 1
    /\ t2.running \in BOOLEAN /\ t2.armed \in BOOLEAN
    /\ ifr \subseteq Source /\ ier \subseteq Source
    /\ irqFlag \in BOOLEAN /\ irqAsserted \in BOOLEAN
    /\ acr \in [pb7 : BOOLEAN, free : BOOLEAN, shift : 0 .. 7]
    /\ srPhase \in {"SR_IDLE", "SR_TX_ACTIVE", "SR_WAIT_FOR_RX_MODE", "SR_RX_ACTIVE"}
    /\ srTicks \in 0 .. TransferTicks \cup 0 .. InquiryWaitTicks
    /\ kbdInquiryPending \in BOOLEAN
    /\ kbdInquiryPending => kbdResponse = KBD_NULL /\ srPhase # "SR_IDLE"

\* viaInit: all zero, and the host's keys are dropped.
ViaReset ==
    /\ t1' = [value |-> 0, active |-> FALSE, pb7 |-> FALSE, latch |-> 0]
    /\ t2' = [value |-> 0, running |-> FALSE, armed |-> FALSE, latch |-> 0]
    /\ ifr' = {} /\ ier' = {} /\ irqFlag' = FALSE /\ irqAsserted' = FALSE
    /\ acr' = [pb7 |-> FALSE, free |-> FALSE, shift |-> 0]
    /\ pcr' = [l \in Line |-> 0] /\ controlin' = [l \in Line |-> 0]
    /\ sr' = 0 /\ srPhase' = "SR_IDLE" /\ srTicks' = 0
    /\ kbdResponse' = KBD_NULL /\ kbdInstantResponse' = KBD_NULL
    /\ kbdInquiryPending' = FALSE
    /\ HostReset

ViaStart ==
    /\ HostKeysInit
    /\ t1 = [value |-> 0, active |-> FALSE, pb7 |-> FALSE, latch |-> 0]
    /\ t2 = [value |-> 0, running |-> FALSE, armed |-> FALSE, latch |-> 0]
    /\ ifr = {} /\ ier = {} /\ irqFlag = FALSE /\ irqAsserted = FALSE
    /\ acr = [pb7 |-> FALSE, free |-> FALSE, shift |-> 0]
    /\ pcr = [l \in Line |-> 0] /\ controlin = [l \in Line |-> 0]
    /\ sr = 0 /\ srPhase = "SR_IDLE" /\ srTicks = 0
    /\ kbdResponse = KBD_NULL /\ kbdInstantResponse = KBD_NULL
    /\ kbdInquiryPending = FALSE

\* viaCheckIrq after the flags became new and the enables became enabled.
CheckIrq(new, enabled) ==
    /\ ifr' = new
    /\ irqFlag' = (new \cap enabled # {})
    /\ irqAsserted' = (new \cap enabled # {})

-----------------------------------------------------------------------------
(* Timers.  Their steps are functions, as viaStep makes several at once.   *)

\* Mistake: only one period is added back, however long the slice.
Timer1AfterOnePeriod(t, n) ==
    [t EXCEPT !.value = IF t.active /\ @ <= n /\ acr.free THEN @ - n + Period(t.latch)
                        ELSE IF t.active THEN @ - n ELSE @,
              !.active = @ /\ (acr.free \/ t.value > n)]

\* Timer 1 after n cycles: a slice may hold several periods.
Timer1After(t, n) ==
    LET v == t.value - n
        period == Period(t.latch)
        underflows == 1 + (-v) \div period
    IN  IF ~t.active \/ v > 0 THEN [t EXCEPT !.value = IF t.active THEN v ELSE @]
        ELSE IF acr.free
        THEN [t EXCEPT !.value = v + underflows * period,
                       !.pb7 = IF acr.pb7 /\ underflows % 2 = 1 THEN ~@ ELSE @]
        ELSE [t EXCEPT !.value = v, !.active = FALSE, !.pb7 = acr.pb7 \/ @]
Timer1Fires(t, n) == t.active /\ t.value - n <= 0

\* Mistake: the counter does not wrap.
Timer2AfterNegative(t, n) ==
    [t EXCEPT !.value = IF t.running THEN @ - n ELSE @, !.armed = @ /\ t.value > n]

\* Timer 2 after n cycles: it wraps, and interrupts once for each start.
Timer2After(t, n) ==
    IF ~t.running THEN t
    ELSE [t EXCEPT !.value = IF @ > n THEN @ - n ELSE ((@ - n - 1) % Full) + 1,
                   !.armed = @ /\ t.value > n]
Timer2Fires(t, n) == t.running /\ t.armed /\ t.value <= n

-----------------------------------------------------------------------------
(* The keyboard.                                                           *)

\* Mistakes: the keypad key is numbered from 0; it is announced but not kept.
AnswerKeypadFromZero(e) ==
    /\ kbdResponse' = IF IsKeypad(e) THEN KeypadFollows ELSE Code(e, 0)
    /\ kbdInstantResponse' = IF IsKeypad(e) THEN Code(e, 0) ELSE kbdInstantResponse
AnswerForgetsKeypad(e) ==
    /\ kbdResponse' = IF IsKeypad(e) THEN KeypadFollows ELSE Code(e, 0)
    /\ UNCHANGED kbdInstantResponse

\* kbdResponseForEvent: a keypad key is announced and kept for Instant.
Answer(e) ==
    /\ kbdResponse' = IF IsKeypad(e) THEN KeypadFollows ELSE Code(e, 0)
    /\ kbdInstantResponse' = IF IsKeypad(e) THEN Code(e, KeypadBase) ELSE kbdInstantResponse

\* kbdResponseForCommand.
RespondToCommand(c) ==
    \/ /\ c = "Inquiry" /\ keyQueue # <<>>
       /\ Answer(Head(keyQueue)) /\ HostPopKeyEvent
       /\ kbdInquiryPending' = FALSE
    \/ /\ c = "Inquiry" /\ keyQueue = <<>>
       /\ kbdResponse' = KBD_NULL /\ kbdInquiryPending' = TRUE
       /\ UNCHANGED <<kbdInstantResponse, hostKeysVars>>
    \/ /\ c = "Instant"
       /\ kbdResponse' = kbdInstantResponse /\ kbdInstantResponse' = KBD_NULL
       /\ kbdInquiryPending' = FALSE /\ UNCHANGED hostKeysVars
    \/ /\ c \in {"Model", "Test", "other"}
       /\ kbdResponse' = IF c = "Model" THEN KBD_MODEL ELSE IF c = "Test" THEN KBD_TEST_ACK ELSE 0
       /\ kbdInquiryPending' = FALSE /\ UNCHANGED <<kbdInstantResponse, hostKeysVars>>

\* viaStartSrReceive.
StartSrReceive ==
    /\ srPhase = "SR_WAIT_FOR_RX_MODE"
    /\ srPhase' = "SR_RX_ACTIVE"
    /\ CheckIrq(ifr \ {"SR"}, ier)
    /\ \/ /\ kbdInquiryPending /\ keyQueue # <<>>
          /\ Answer(Head(keyQueue)) /\ HostPopKeyEvent
          /\ kbdInquiryPending' = FALSE /\ srTicks' = TransferTicks
       \/ /\ kbdInquiryPending /\ keyQueue = <<>>
          /\ srTicks' = InquiryWaitTicks
          /\ UNCHANGED <<kbdResponse, kbdInstantResponse, kbdInquiryPending, hostKeysVars>>
       \/ /\ ~kbdInquiryPending /\ srTicks' = TransferTicks
          /\ UNCHANGED <<kbdResponse, kbdInstantResponse, kbdInquiryPending, hostKeysVars>>
    /\ UNCHANGED sr

\* kbdFillPendingInquiry: a key that arrived ends the wait.
FillsInquiry == srTicks > 0 /\ kbdInquiryPending /\ srPhase = "SR_RX_ACTIVE" /\ keyQueue # <<>>
TicksLeft == IF FillsInquiry /\ srTicks > TransferTicks THEN TransferTicks ELSE srTicks

\* Mistakes: the countdown must end exactly at zero; it must pass below zero.
ShiftDoneExactly(n) == srTicks > 0 /\ TicksLeft = n
ShiftDoneBelow(n) == srTicks > 0 /\ TicksLeft < n
ShiftDone(n) == srTicks > 0 /\ TicksLeft <= n

\* Mistake: a command that is sent leaves nothing to receive.
PhaseAfterIdle == "SR_IDLE"
PhaseAfter ==
    IF srPhase = "SR_TX_ACTIVE" THEN "SR_WAIT_FOR_RX_MODE"
    ELSE IF srPhase = "SR_RX_ACTIVE" THEN "SR_IDLE" ELSE srPhase

StepShiftRegister(n) ==
    /\ \/ FillsInquiry /\ Answer(Head(keyQueue)) /\ HostPopKeyEvent
       \/ ~FillsInquiry /\ UNCHANGED <<kbdResponse, kbdInstantResponse, hostKeysVars>>
    /\ srTicks' = IF srTicks = 0 \/ ShiftDone(n) THEN 0 ELSE TicksLeft - n
    /\ srPhase' = IF ShiftDone(n) THEN PhaseAfter ELSE srPhase
    /\ LET received == ShiftDone(n) /\ srPhase = "SR_RX_ACTIVE"
       IN  /\ sr' = IF received THEN kbdResponse' ELSE sr
           /\ kbdInquiryPending' = (kbdInquiryPending /\ ~FillsInquiry /\ ~received)

\* viaStep.
ViaStep(n) ==
    /\ t1' = Timer1After(t1, n)
    /\ t2' = Timer2After(t2, n)
    /\ StepShiftRegister(n)
    /\ CheckIrq(ifr \cup {s \in {"T1", "T2", "SR"} :
                    \/ s = "T1" /\ Timer1Fires(t1, n)
                    \/ s = "T2" /\ Timer2Fires(t2, n)
                    \/ s = "SR" /\ ShiftDone(n) /\ srPhase \in {"SR_TX_ACTIVE", "SR_RX_ACTIVE"}},
                ier)
    /\ UNCHANGED <<ier, acr, control>>

-----------------------------------------------------------------------------
(* Register accesses of the guest: viaRead and viaWrite.                   *)

ClearFlags(flags) == CheckIrq(ifr \ flags, ier)

\* T1C-L and T1L-L (4, 6), T1L-H (7): the latch changes, not the counter.
WriteT1Low(b) ==
    /\ t1' = [t1 EXCEPT !.latch = ((@ \div ByteSize) * ByteSize) + b]
    /\ UNCHANGED <<t2, irqs, ier, acr, control, shift, hostKeysVars>>

WriteT1LatchHigh(b) ==
    /\ t1' = [t1 EXCEPT !.latch = (b * ByteSize) + (@ % ByteSize)]
    /\ ClearFlags({"T1"})
    /\ UNCHANGED <<t2, ier, acr, control, shift, hostKeysVars>>

\* T1C-H (5): the timer starts.
WriteT1High(b) ==
    LET latch == (b * ByteSize) + (t1.latch % ByteSize)
    IN  /\ t1' = [value |-> Period(latch), active |-> TRUE, pb7 |-> FALSE, latch |-> latch]
        /\ ClearFlags({"T1"})
        /\ UNCHANGED <<t2, ier, acr, control, shift, hostKeysVars>>

\* T2C-L (8) clears the high byte of the latch, too.
WriteT2Low(b) ==
    /\ t2' = [t2 EXCEPT !.latch = b]
    /\ UNCHANGED <<t1, irqs, ier, acr, control, shift, hostKeysVars>>

WriteT2High(b) ==
    LET latch == (b * ByteSize) + (t2.latch % ByteSize)
    IN  /\ t2' = [value |-> Period(latch), running |-> TRUE, armed |-> TRUE, latch |-> latch]
        /\ ClearFlags({"T2"})
        /\ UNCHANGED <<t1, ier, acr, control, shift, hostKeysVars>>

ReadCounter(timer) ==
    /\ ClearFlags({timer})
    /\ UNCHANGED <<timers, ier, acr, control, shift, hostKeysVars>>

\* SR (10): in mode 7 a command for the keyboard, in mode 6 an abort; any write
\* and any read clears the flag.
WriteSR(c) ==
    /\ ClearFlags({"SR"})
    /\ sr' = 0                             \* the byte shifted out is not read back
    /\ \/ /\ acr.shift = 7
          /\ RespondToCommand(c)
          /\ srPhase' = "SR_TX_ACTIVE" /\ srTicks' = TransferTicks
       \/ /\ acr.shift = 6
          /\ kbdInquiryPending' = FALSE /\ srPhase' = "SR_IDLE" /\ srTicks' = 0
          /\ UNCHANGED <<kbdResponse, kbdInstantResponse, hostKeysVars>>
       \/ /\ acr.shift \notin {6, 7}
          /\ UNCHANGED <<srPhase, srTicks, kbdResponse, kbdInstantResponse,
                         kbdInquiryPending, hostKeysVars>>
    /\ UNCHANGED <<timers, ier, acr, control>>

ReadSR ==
    /\ ClearFlags({"SR"})
    /\ UNCHANGED <<timers, ier, acr, control, shift, hostKeysVars>>

\* ACR (11): shift mode 3 starts the receive that a finished command waits for.
WriteACR(a) ==
    /\ acr' = a
    /\ \/ a.shift = 3 /\ StartSrReceive
       \/ /\ a.shift # 3 \/ srPhase # "SR_WAIT_FOR_RX_MODE"
          /\ UNCHANGED <<irqs, shift, hostKeysVars>>
    /\ UNCHANGED <<timers, ier, control>>

\* Ports B and A (0, 1), read or written: accessPort.
AccessPort(c1, c2) ==
    /\ ClearFlags({c1} \cup (IF pcr[c2] \in {0, 2} THEN {c2} ELSE {}))
    /\ UNCHANGED <<timers, ier, acr, control, shift, hostKeysVars>>

WritePCR(modes) ==
    /\ pcr' = modes
    /\ UNCHANGED <<timers, irqs, ier, acr, controlin, shift, hostKeysVars>>

WriteIFR(flags) ==
    /\ ClearFlags(flags)
    /\ UNCHANGED <<timers, ier, acr, control, shift, hostKeysVars>>

\* Mistake: the interrupt line is not looked at again.
WriteIERNoCheck(flags, enable) ==
    /\ ier' = IF enable THEN ier \cup flags ELSE ier \ flags
    /\ UNCHANGED <<timers, irqs, acr, control, shift, hostKeysVars>>

WriteIER(flags, enable) ==
    /\ ier' = IF enable THEN ier \cup flags ELSE ier \ flags
    /\ CheckIrq(ifr, ier')
    /\ UNCHANGED <<timers, acr, control, shift, hostKeysVars>>

\* viaControlWrite: the selected edge of a control line raises its flag.
ControlWrite(line, level) ==
    LET mode == pcr[line]
        edge == controlin[line] # level /\ IF level = 1 THEN mode \in {2, 3} ELSE mode \in {0, 1}
    IN  /\ controlin' = [controlin EXCEPT ![line] = level]
        /\ \/ edge /\ CheckIrq(ifr \cup {line}, ier)
           \/ ~edge /\ UNCHANGED irqs
        /\ UNCHANGED <<timers, ier, acr, pcr, shift, hostKeysVars>>

-----------------------------------------------------------------------------
HostInput ==
    /\ (\E k \in Key, down \in BOOLEAN : HostKey(k, down)) \/ HostReleaseAllKeys
    /\ UNCHANGED viaVars

(* The guest, whose drivers use some groups of registers.                  *)
Groups == {"timer1", "timer2", "sr", "ports", "flags"}

TimerAccess(uses) ==
    \/ /\ "timer1" \in uses
       /\ \/ \E b \in Byte : WriteT1Low(b) \/ WriteT1LatchHigh(b) \/ WriteT1High(b)
          \/ ReadCounter("T1")
    \/ /\ "timer2" \in uses
       /\ (\E b \in Byte : WriteT2Low(b) \/ WriteT2High(b)) \/ ReadCounter("T2")

ShiftModes == {0, 3, 6, 7}

Modes == [l \in Line |-> IF l \in {"CA1", "CB1"} THEN {0, 2} ELSE 0 .. 7]

\* Every enable in use can be changed; the others stay off.
InUse(uses) ==
    {s \in Source :
        \/ s = "T1" /\ "timer1" \in uses
        \/ s = "T2" /\ "timer2" \in uses
        \/ s = "SR" /\ "sr" \in uses
        \/ s \in {"CA1", "CA2"} /\ "ports" \in uses}

Access(uses) ==
    \/ TimerAccess(uses)
    \/ /\ "sr" \in uses
       /\ (\E c \in Commands : WriteSR(c)) \/ ReadSR
    \/ \E a \in [pb7 : BOOLEAN, free : BOOLEAN, shift : ShiftModes] :
         /\ a.shift = 0 \/ "sr" \in uses
         /\ ~(a.pb7 \/ a.free) \/ "timer1" \in uses
         /\ WriteACR(a)
    \/ /\ "ports" \in uses
       /\ \/ AccessPort("CA1", "CA2") \/ AccessPort("CB1", "CB2")
          \/ \E m1 \in Modes["CA1"], m2 \in Modes["CA2"] :
                WritePCR([pcr EXCEPT !["CA1"] = m1, !["CA2"] = m2])
    \/ /\ "flags" \in uses
       /\ \E flags \in SUBSET InUse(uses) :
            WriteIFR(flags) \/ \E enable \in BOOLEAN : WriteIER(flags, enable)

\* What the emulator task does between the guest's instructions.
Emulator ==
    \/ \E n \in StepTicks : ViaStep(n)
    \/ \E line \in {"CA1", "CA2"}, level \in {0, 1} : ControlWrite(line, level)

ViaNext == HostInput \/ Access(Groups) \/ Emulator \/ ViaReset

ViaSpec == ViaStart /\ [][ViaNext]_allViaVars

-----------------------------------------------------------------------------
(* Properties.                                                             *)

\* Whatever order flags are raised, acknowledged, enabled and disabled in, the
\* line to the CPU and IFR bit 7 say whether an enabled flag is up.
IrqMatchesFlags ==
    /\ irqAsserted <=> ifr \cap ier # {}
    /\ irqFlag <=> ifr \cap ier # {}

\* Stepping a timer n cycles at once gives the interrupt, counter, latch, PB7
\* level and state of n single cycles, with one difference: a timer 1 that does
\* not run freely and times out stops at 0 cycle by cycle, and in a slice as
\* many cycles below 0 as the slice runs on, which viaRead then returns.
Timer1Stepwise[n \in Nat] ==
    IF n = 0 THEN [t |-> t1, fired |-> FALSE]
    ELSE LET s == Timer1Stepwise[n - 1]
         IN  [t |-> Timer1After(s.t, 1), fired |-> s.fired \/ Timer1Fires(s.t, 1)]
Timer2Stepwise[n \in Nat] ==
    IF n = 0 THEN [t |-> t2, fired |-> FALSE]
    ELSE LET s == Timer2Stepwise[n - 1]
         IN  [t |-> Timer2After(s.t, 1), fired |-> s.fired \/ Timer2Fires(s.t, 1)]
TimesOut(n) == t1.active /\ ~Timer1After(t1, n).active
SlicesAreExact ==
    \A n \in StepTicks :
        /\ Timer1Stepwise[n].fired = Timer1Fires(t1, n)
        /\ Timer1Stepwise[n].t =
               [Timer1After(t1, n) EXCEPT !.value = IF TimesOut(n) THEN 0 ELSE @]
        /\ TimesOut(n) => Timer1After(t1, n).value = t1.value - n /\ t1.value <= n
        /\ Timer2Stepwise[n] = [t |-> Timer2After(t2, n), fired |-> Timer2Fires(t2, n)]
=============================================================================
