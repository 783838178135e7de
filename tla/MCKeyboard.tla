----------------------------- MODULE MCKeyboard -----------------------------
(***************************************************************************)
(* The VIA with the guest that polls its keyboard, and with guests that    *)
(* use one set of register groups, chosen at the start: the timers, the    *)
(* shift register and the control lines do not act on each other, so their *)
(* products need not be explored.  For those the host's keys reach only    *)
(* the shift register, one packet at a time, and the control lines move    *)
(* only for the ports.                                                     *)
(***************************************************************************)
EXTENDS Keyboard

CONSTANT Guests    \* the sets of register groups guests use; {} polls the keyboard

ASSUME MCKeyboardConstants == Guests \subseteq SUBSET Groups

VARIABLE uses      \* the groups this guest uses

mcKeyboardVars == <<keyboardVars, uses>>

Polls == uses = {}

MCKeyboardInit == /\ KeyboardInit /\ uses \in Guests
                  /\ ~Polls => ~patient

UsesRegisters ==
    /\ \/ "sr" \in uses /\ keyQueue = <<>> /\ HostInput
       \/ Access(uses)
       \/ \E n \in StepTicks : ViaStep(n)
       \/ /\ "ports" \in uses
          /\ \E line \in {"CA1", "CA2"}, level \in {0, 1} : ControlWrite(line, level)
       \/ ViaReset
    /\ UNCHANGED <<guestVars, taken>>

MCKeyboardNext ==
    /\ \/ Polls /\ KeyboardNext
       \/ ~Polls /\ UsesRegisters
    /\ UNCHANGED uses

PolledTime == Polls /\ TimePasses /\ UNCHANGED uses
Polling    == Polls /\ Rom /\ UNCHANGED uses

\* The fairness of FairKeyboardSpec.
MCKeyboardSpec ==
    /\ MCKeyboardInit /\ [][MCKeyboardNext]_mcKeyboardVars
    /\ WF_mcKeyboardVars(PolledTime) /\ WF_mcKeyboardVars(Polling)
=============================================================================
