------------------------------ MODULE Keyboard ------------------------------
(***************************************************************************)
(* A key from the BLE client to the guest: the buffer of HostKeyRing, the  *)
(* shift register of Via, and a guest that polls the keyboard as the Mac   *)
(* ROM does.  The ROM is not in the repository; it is modelled from how    *)
(* via.c expects to be used: shift mode 7, a command, the SR flag, shift   *)
(* mode 3, the SR flag again, and the answer; Instant after 0x79.          *)
(***************************************************************************)
EXTENDS Via, FiniteSets

CONSTANT Clients     \* the values of patient to explore

\* A byte has room for 64 keys, the main ones or those of the keypad.
ASSUME KeyboardConstants ==
    Clients \subseteq BOOLEAN /\ KeypadBase <= 64 /\ NumKeys <= KeypadBase + 64

VARIABLES
    patient,     \* the client's edges never find the key buffer full
    rom,         \* where the guest's keyboard driver is
    instant,     \* it announced a keypad key
    guestDown,   \* the keys the guest believes are down
    taken        \* edges taken from the host queue that the guest has not seen

guestVars == <<patient, rom, instant, guestDown>>
keyboardVars == <<allViaVars, guestVars, taken>>

KeyboardTypeOK ==
    /\ HostKeysTypeOK /\ ViaTypeOK
    /\ patient \in BOOLEAN /\ rom \in {"idle", "send", "sending", "receiving"}
    /\ instant \in BOOLEAN /\ guestDown \in [Key -> BOOLEAN]

KeyboardInit ==
    /\ ViaStart /\ patient \in Clients
    /\ rom = "idle" /\ instant = FALSE
    /\ guestDown = [k \in Key |-> FALSE]
    /\ taken = <<>>

Shift(mode) == [pb7 |-> FALSE, free |-> FALSE, shift |-> mode]

\* taken follows the pops of an emulator step.
Track == taken' = IF keyQueue' = keyQueue THEN taken ELSE Append(taken, Head(keyQueue))

RomTransmitMode ==
    /\ rom = "idle" /\ rom' = "send"
    /\ WriteACR(Shift(7)) /\ Track
    /\ UNCHANGED <<patient, instant, guestDown>>

RomCommand ==
    /\ rom = "send" /\ rom' = "sending"
    /\ WriteSR(IF instant THEN "Instant" ELSE "Inquiry") /\ Track
    /\ UNCHANGED <<patient, instant, guestDown>>

RomReceiveMode ==
    /\ rom = "sending" /\ "SR" \in ifr /\ rom' = "receiving"
    /\ WriteACR(Shift(3)) /\ Track
    /\ UNCHANGED <<patient, instant, guestDown>>

\* The edge that a byte from the keyboard stands for.
Decoded(byte) ==
    Edge((byte % 128) \div 2 + (IF instant THEN KeypadBase ELSE 0), byte >= 128)
IsEdge(byte) == byte \notin {KBD_NULL, KeypadFollows}

RomReceive ==
    /\ rom = "receiving" /\ "SR" \in ifr /\ rom' = "idle"
    /\ ReadSR
    /\ instant' = (sr = KeypadFollows) /\ UNCHANGED patient
    /\ \/ /\ IsEdge(sr)
          /\ guestDown' = [guestDown EXCEPT ![Decoded(sr).scancode] = ~Decoded(sr).isRelease]
          /\ taken' = IF taken = <<>> THEN taken ELSE Tail(taken)
       \/ ~IsEdge(sr) /\ UNCHANGED <<guestDown, taken>>

Rom == RomTransmitMode \/ RomCommand \/ RomReceiveMode \/ RomReceive

TimePasses == \E n \in StepTicks : ViaStep(n) /\ Track /\ UNCHANGED guestVars

Held == {k \in Key : keyDown[k]}

\* The NimBLE host task: key packets, and the disconnect that releases all keys.
Client ==
    /\ \/ /\ patient => ~QueueIsFull(ring)
          /\ \E k \in Key, down \in BOOLEAN : HostKey(k, down)
       \/ /\ patient => Count(ring) + Cardinality(Held) < QueueSize
          /\ HostReleaseAllKeys
    /\ UNCHANGED <<viaVars, guestVars, taken>>

\* The RESET instruction: resetMacHardware calls viaInit.
MachineReset ==
    /\ ViaReset
    /\ rom' = "idle" /\ instant' = FALSE /\ UNCHANGED patient
    /\ guestDown' = [k \in Key |-> FALSE] /\ taken' = <<>>

KeyboardNext == Rom \/ TimePasses \/ Client \/ MachineReset

KeyboardSpec == KeyboardInit /\ [][KeyboardNext]_keyboardVars

(* The emulator task steps the VIA after every slice; a guest that polls   *)
(* its keyboard goes on doing so.                                          *)
FairKeyboardSpec ==
    KeyboardSpec /\ WF_keyboardVars(TimePasses) /\ WF_keyboardVars(Rom)

-----------------------------------------------------------------------------
(* Properties.                                                             *)

\* Each edge taken from the host reaches the guest once, in order and decoded
\* to the same key, through inquiries that wait, time out or meet a keypad key.
EachEdgeOnce ==
    [][RomReceive =>
        /\ IsEdge(sr) => taken # <<>> /\ Decoded(sr) = Head(taken)
        /\ sr = KBD_NULL => taken = <<>>]_keyboardVars

\* The guest will agree with the host: however many edges overflow the queue, the
\* last one queued of a key that is up is a release; and if none does, the guest's
\* view of a key, brought up to date with the edges under way, is the host's.
UnderWay == taken \o keyQueue
Latest(k) == {i \in 1 .. Len(UnderWay) :
    /\ UnderWay[i].scancode = k
    /\ \A j \in i + 1 .. Len(UnderWay) : UnderWay[j].scancode # k}
GuestAgrees ==
    /\ KeyboardTypeOK
    /\ Abstract!LastPressIsHeld
    /\ patient => \A k \in Key :
        keyDown[k] <=> IF Latest(k) = {} THEN guestDown[k]
                       ELSE \A i \in Latest(k) : ~UnderWay[i].isRelease

\* input_host.h promises that inputHostReleaseAllKeys releases every held key: a
\* key the host has let go does not stay down in the guest.
NoStuckKey ==
    UnderWay = <<>> => \A k \in Key : guestDown[k] => keyDown[k]

\* Once the client rests, the guest comes to see exactly the keys that are held.
ClientRests == <>[][~Client]_keyboardVars
GuestCatchesUp == patient /\ ClientRests => <>[](guestDown = keyDown)

\* The guest's polling never stalls in the VIA.
PollingGoesOn == []<>(rom = "idle")
=============================================================================
