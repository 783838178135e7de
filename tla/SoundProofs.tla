---------------------------- MODULE SoundProofs ----------------------------
(***************************************************************************)
(* Proofs about the sound path: the ring between the emulator task and the *)
(* timer interrupt (module Pwm), for every size of frame and of ring and   *)
(* all three console commands; the timeline of the frame loop (module      *)
(* Frame), for every number and length of scanlines and slices; and what   *)
(* the two renderers (module SoundRender) play of a frame, for every gate, *)
(* sample, volume and resolution.                                          *)
(***************************************************************************)
EXTENDS Frame, Pwm, WellFoundedInduction, SequenceTheorems, FiniteSetTheorems, TLAPS

(***************************************************************************)
(* The wake-up.  The producer clears the signal before it looks, so that   *)
(* from there on the signal is either clear or given for this very wait.   *)
(***************************************************************************)
SignalIsForMe ==
    emu \in {"check", "wait"} => notified \/ ~audioSpaceSignaled \/ isr = "notify"

LEMMA SignalStep ==
  ASSUME SignalIsForMe, [PwmNext]_pwmVars
  PROVE  SignalIsForMe'
  <1>1. CASE Interrupt
    BY <1>1 DEF SignalIsForMe, Interrupt, Alarm, RingRead, AdvanceTail, NoteDuty, ApplyDuty,
                CheckSpace, Signal, Notify, Isr, NotIsr, wake
  <1>2. ASSUME NEW c \in Caller, SetEnabled(c) PROVE SignalIsForMe'
    BY <1>2 DEF SignalIsForMe, SetEnabled, CheckEnabled, StoreEnabled, LoadHead, DropSamples,
                ClearSignaled, NoteSilence, ApplySilence, NotCall, alarm
  <1>3. CASE Command
    BY <1>3 DEF SignalIsForMe, Command, wake, alarm
  <1>4. CASE LoopTop \/ PushFrame \/ Timeout \/ CopyFrame \/ PublishFrame
    BY <1>4 DEF SignalIsForMe, LoopTop, PushFrame, Timeout, CopyFrame, PublishFrame, Emu, NotEmu
  <1>5. CASE Rearm \/ CheckRoom \/ TakeNotification
    BY <1>5 DEF SignalIsForMe, Rearm, CheckRoom, TakeNotification, Emu, NotEmu, wake, alarm
  <1>6. CASE UNCHANGED pwmVars
    BY <1>6 DEF SignalIsForMe, pwmVars, wake, alarm
  <1> QED
    BY <1>1, <1>2, <1>3, <1>4, <1>5, <1>6 DEF PwmNext, EmulatorTask, Caller

(* A producer that waits for room in the ring is never left asleep by a    *)
(* signal given before it looked (audioWritePwmFrame against               *)
(* audioTimerAlarm, snd.cpp), whatever mutes and commands come between.    *)
THEOREM PwmWaiterIsWoken == PwmSpec => []WaiterIsWoken
  <1>1. PwmInit => SignalIsForMe
    BY DEF PwmInit, SignalIsForMe
  <1>2. SignalIsForMe /\ [PwmNext]_pwmVars => SignalIsForMe'
    BY SignalStep
  <1>3. SignalIsForMe => WaiterIsWoken
    BY DEF SignalIsForMe, WaiterIsWoken
  <1> QED
    BY <1>1, <1>2, <1>3, PTL DEF PwmSpec
----------------------------------------------------------------------------
(***************************************************************************)
(* The ring of samples.                                                    *)
(***************************************************************************)
CallStates == {"out", "check", "set", "load", "drop", "clear", "duty", "ledc"}

PwmTypes ==
    /\ ring \in [Slots -> Sample] /\ head \in Slots /\ tail \in Slots
    /\ audioSpaceSignaled \in BOOLEAN /\ notified \in BOOLEAN
    /\ audioEnabled \in BOOLEAN /\ emuRunning \in BOOLEAN /\ raced \in BOOLEAN
    /\ pwmLastDuty \in 0 .. Values + 1 /\ duty \in 0 .. Values + 1
    /\ savedTail \in Slots /\ sample \in 0 .. Values
    /\ fifo \in Seq(Sample) /\ nextValue \in Sample
    /\ at \in [Caller -> CallStates] /\ want \in [Caller -> BOOLEAN]
    /\ savedHead \in [Caller -> Slots]

\* The emulator task is in a call from two places of its loop, and mutes only
\* from the top, before it makes a frame: the head does not move meanwhile.
EmuControl ==
    /\ at["emu"] # "out" => emu \in {"top", "push"}
    /\ at["emu"] # "out" /\ want["emu"] = FALSE => emu = "top"
    /\ at["emu"] \in {"load", "drop"} => want["emu"] = FALSE
    /\ at["emu"] = "drop" => savedHead["emu"] = head

\* From the look at the free room until the head is stored, there is room.
RoomKept == raced = FALSE /\ emu \in {"copy", "publish"} => RingFree >= FrameSamples

\* Between the interrupt's two accesses of the tail either nobody has moved it,
\* and there is a sample to take, or the emulator task has muted; it then comes
\* no second time to the slot the interrupt has read.
AdvanceSound ==
    raced = FALSE /\ isr = "advance" =>
        \/ savedTail = tail /\ tail # head
        \/ /\ savedTail # tail
           /\ \/ head = tail /\ emu = "top"
              \/ emuRunning = TRUE /\ (at["emu"] = "out" \/ want["emu"] = TRUE)

\* The samples of the frame being published are in the ring, past the head.
FrameCopied ==
    emu = "publish" => \A i \in 0 .. FrameSamples - 1 : ring[Slot(head + i)] = Value(i)

FifoInRing ==
    raced = FALSE =>
        /\ Len(fifo) = RingCount(head, tail)
        /\ \A i \in 1 .. Len(fifo) : fifo[i] = ring[Slot(tail + i - 1)]

PwmInv == PwmTypes /\ EmuControl /\ RoomKept /\ AdvanceSound /\ FrameCopied /\ FifoInRing
----------------------------------------------------------------------------
\* One lap past the end of the ring, Slot takes one length off.
LEMMA SlotIs ==
  ASSUME NEW x \in 0 .. 2 * RingSamples - 1
  PROVE  Slot(x) = IF x < RingSamples THEN x ELSE x - RingSamples
  <1> USE PwmAssumption
  <1> DEFINE q == x \div RingSamples
  <1>1. x = RingSamples * q + (x % RingSamples) /\ x % RingSamples \in 0 .. RingSamples - 1
        /\ q \in Int
    OBVIOUS
  <1> HIDE DEF q
  <1>2. q < 2
    <2> SUFFICES ASSUME q >= 2 PROVE FALSE
      BY <1>1
    <2>1. RingSamples * q >= RingSamples * 2
      BY <1>1
    <2> QED BY <1>1, <2>1
  <1>3. q >= 0
    <2> SUFFICES ASSUME q <= -1 PROVE FALSE
      BY <1>1
    <2>1. RingSamples * q <= RingSamples * (-1)
      BY <1>1
    <2> QED BY <1>1, <2>1
  <1>4. CASE q = 0
    BY <1>1, <1>4 DEF Slot
  <1>5. CASE q = 1
    BY <1>1, <1>5 DEF Slot
  <1> QED BY <1>1, <1>2, <1>3, <1>4, <1>5

LEMMA SlotType == \A x \in Nat : Slot(x) \in Slots
  BY PwmAssumption DEF Slot, Slots

LEMMA ValueType ==
  ASSUME nextValue \in Sample, NEW i \in Nat
  PROVE  Value(i) \in Sample
  BY PwmAssumption DEF Value, Sample

LEMMA CountType ==
  ASSUME NEW h \in Slots, NEW t \in Slots
  PROVE  RingCount(h, t) \in 0 .. RingSamples - 1
  BY PwmAssumption DEF RingCount, Slots

(* The i-th sample of those between s and the head, counted from t.        *)
LEMMA SameSlot ==
  ASSUME NEW h \in Slots, NEW t \in Slots, NEW s \in Slots,
         RingCount(h, s) <= RingCount(h, t),
         NEW i \in 1 .. RingCount(h, s)
  PROVE  Slot(t + (RingCount(h, t) - RingCount(h, s) + i) - 1) = Slot(s + i - 1)
  <1> DEFINE R == RingSamples
             a == RingCount(h, s)
             b == RingCount(h, t)
             x == t + (b - a + i) - 1
             y == s + i - 1
  <1>1. /\ R \in Nat /\ h \in 0 .. R - 1 /\ t \in 0 .. R - 1 /\ s \in 0 .. R - 1
        /\ a \in 0 .. R - 1 /\ b \in 0 .. R - 1 /\ i \in Nat /\ 1 <= i /\ i <= a /\ a <= b
    BY CountType, PwmAssumption DEF Slots
  <1>2. /\ a = IF h >= s THEN h - s ELSE R - (s - h)
        /\ b = IF h >= t THEN h - t ELSE R - (t - h)
    BY DEF RingCount
  <1> HIDE DEF R, a, b
  <1>3. x \in 0 .. 2 * R - 1 /\ y \in 0 .. 2 * R - 1
    BY <1>1
  <1>4. x = y \/ x = y + R \/ y = x + R
    <2>1. CASE h >= t /\ h >= s
      BY <1>1, <1>2, <2>1
    <2>2. CASE h >= t /\ h < s
      BY <1>1, <1>2, <2>2
    <2>3. CASE h < t /\ h >= s
      BY <1>1, <1>2, <2>3
    <2>4. CASE h < t /\ h < s
      BY <1>1, <1>2, <2>4
    <2> QED BY <1>1, <2>1, <2>2, <2>3, <2>4
  <1> HIDE DEF x, y
  <1>5. /\ Slot(x) = IF x < R THEN x ELSE x - R
        /\ Slot(y) = IF y < R THEN y ELSE y - R
    BY <1>3, SlotIs DEF R
  <1>6. Slot(x) = Slot(y)
    BY <1>1, <1>3, <1>4, <1>5
  <1> QED BY <1>6 DEF x, y, a, b

(* Where the slots of the samples are from the head: those to be played    *)
(* are behind it, those of the next frame before it.                       *)
Distance(s, h) == (s - h + RingSamples) % RingSamples

LEMMA DistanceIs ==
  ASSUME NEW s \in Slots, NEW h \in Slots
  PROVE  Distance(s, h) = IF s >= h THEN s - h ELSE s - h + RingSamples
  <1>1. s - h + RingSamples \in 0 .. 2 * RingSamples - 1
    BY PwmAssumption DEF Slots
  <1>2. Distance(s, h) = Slot(s - h + RingSamples)
    BY DEF Distance, Slot
  <1> QED BY <1>1, <1>2, SlotIs, PwmAssumption DEF Slots

LEMMA UnreadBehind ==
  ASSUME NEW h \in Slots, NEW t \in Slots, NEW k \in 1 .. RingCount(h, t)
  PROVE  /\ Slot(t + k - 1) \in Slots
         /\ Distance(Slot(t + k - 1), h) >= RingSamples - RingCount(h, t)
  <1> DEFINE R == RingSamples
             b == RingCount(h, t)
             x == t + k - 1
  <1>1. /\ R \in Nat /\ h \in 0 .. R - 1 /\ t \in 0 .. R - 1
        /\ b \in 0 .. R - 1 /\ k \in Nat /\ 1 <= k /\ k <= b
    BY CountType, PwmAssumption DEF Slots
  <1>2. b = IF h >= t THEN h - t ELSE R - (t - h)
    BY DEF RingCount
  <1> HIDE DEF R, b
  <1>3. x \in 0 .. 2 * R - 1 /\ x \in Nat
    BY <1>1
  <1>4. Slot(x) = IF x < R THEN x ELSE x - R
    BY <1>3, SlotIs DEF R
  <1>5. Slot(x) \in Slots
    BY <1>3, SlotType
  <1>6. Distance(Slot(x), h) = IF Slot(x) >= h THEN Slot(x) - h ELSE Slot(x) - h + R
    BY <1>5, DistanceIs DEF R
  <1>7. Distance(Slot(x), h) >= R - b
    BY <1>1, <1>2, <1>4, <1>6
  <1> QED BY <1>5, <1>7 DEF R, b, x

LEMMA NextBefore ==
  ASSUME NEW h \in Slots, NEW j \in 0 .. RingSamples - 1
  PROVE  Slot(h + j) \in Slots /\ Distance(Slot(h + j), h) = j
  <1> DEFINE R == RingSamples
             x == h + j
  <1>1. /\ R \in Nat /\ h \in 0 .. R - 1 /\ j \in 0 .. R - 1
        /\ x \in 0 .. 2 * R - 1 /\ x \in Nat
    BY PwmAssumption DEF Slots
  <1>2. Slot(x) = IF x < R THEN x ELSE x - R
    BY <1>1, SlotIs DEF R
  <1>3. Slot(x) \in Slots
    BY <1>1, SlotType
  <1>4. Distance(Slot(x), h) = IF Slot(x) >= h THEN Slot(x) - h ELSE Slot(x) - h + R
    BY <1>3, DistanceIs DEF R
  <1>5. Distance(Slot(x), h) = j
    BY <1>1, <1>2, <1>4
  <1> QED BY <1>3, <1>5 DEF x

(* The head moves by n: n samples more, after those to be played.          *)
LEMMA HeadMoves ==
  ASSUME NEW h \in Slots, NEW t \in Slots, NEW n \in Nat, n <= RingSamples - RingCount(h, t) - 1
  PROVE  /\ RingCount(Slot(h + n), t) = RingCount(h, t) + n
         /\ \A j \in 0 .. n - 1 : Slot(t + (RingCount(h, t) + 1 + j) - 1) = Slot(h + j)
  <1> DEFINE R == RingSamples
             b == RingCount(h, t)
             z == Slot(h + n)
  <1>1. /\ R \in Nat /\ h \in 0 .. R - 1 /\ t \in 0 .. R - 1
        /\ b \in 0 .. R - 1 /\ n <= R - b - 1
    BY CountType, PwmAssumption DEF Slots
  <1>2. b = IF h >= t THEN h - t ELSE R - (t - h)
    BY DEF RingCount
  <1>3. RingCount(z, t) = IF z >= t THEN z - t ELSE R - (t - z)
    BY DEF RingCount
  <1> HIDE DEF R, b
  <1>4. h + n \in 0 .. 2 * R - 1
    BY <1>1
  <1>5. z = IF h + n < R THEN h + n ELSE h + n - R
    BY <1>1, <1>4, SlotIs DEF R
  <1> HIDE DEF z
  <1>6. RingCount(z, t) = b + n
    BY <1>1, <1>2, <1>3, <1>5
  <1>7. ASSUME NEW j \in 0 .. n - 1
        PROVE  Slot(t + (b + 1 + j) - 1) = Slot(h + j)
    <2> DEFINE x == t + (b + 1 + j) - 1
               y == h + j
    <2>1. x \in 0 .. 2 * R - 1 /\ y \in 0 .. 2 * R - 1
      BY <1>1
    <2>2. x = y \/ x = y + R
      BY <1>1, <1>2
    <2> HIDE DEF x, y
    <2>3. /\ Slot(x) = IF x < R THEN x ELSE x - R
          /\ Slot(y) = IF y < R THEN y ELSE y - R
      BY <2>1, SlotIs DEF R
    <2>4. Slot(x) = Slot(y)
      BY <1>1, <2>1, <2>2, <2>3
    <2> QED BY <2>4 DEF x, y
  <1> QED BY <1>6, <1>7 DEF z, b

LEMMA InitPwmInv == PwmInit => PwmInv
  <1> USE PwmAssumption
  <1> SUFFICES ASSUME PwmInit PROVE PwmInv
    OBVIOUS
  <1>1. <<>> \in Seq(Sample) /\ Len(<<>>) = 0
    OBVIOUS
  <1>2. ring \in [Slots -> Sample] /\ head \in Slots /\ tail \in Slots /\ savedTail \in Slots
        /\ nextValue \in Sample /\ savedHead \in [Caller -> Slots]
    BY DEF PwmInit, Slots, Sample
  <1>6. at \in [Caller -> CallStates] /\ want \in [Caller -> BOOLEAN]
    BY DEF PwmInit, CallStates
  <1>7. pwmLastDuty \in 0 .. Values + 1 /\ duty \in 0 .. Values + 1 /\ sample \in 0 .. Values
    BY DEF PwmInit
  <1>8. /\ audioSpaceSignaled \in BOOLEAN /\ notified \in BOOLEAN
        /\ audioEnabled \in BOOLEAN /\ emuRunning \in BOOLEAN /\ raced \in BOOLEAN
    BY DEF PwmInit
  <1>3. PwmTypes
    BY <1>1, <1>2, <1>6, <1>7, <1>8 DEF PwmInit, PwmTypes
  <1>4. FifoInRing
    BY <1>1 DEF PwmInit, FifoInRing, RingCount
  <1>5. EmuControl /\ RoomKept /\ AdvanceSound /\ FrameCopied
    <2>1. emu = "top" /\ isr = "idle" /\ at["emu"] = "out"
      BY DEF PwmInit, Caller
    <2> QED BY <2>1 DEF EmuControl, RoomKept, AdvanceSound, FrameCopied
  <1> QED BY <1>3, <1>4, <1>5 DEF PwmInv

(* The interrupt: only the advance of the tail touches the ring.           *)
LEMMA QuietInterrupt ==
  ASSUME PwmInv, Alarm \/ RingRead \/ NoteDuty \/ ApplyDuty \/ CheckSpace \/ Signal \/ Notify
  PROVE  PwmInv'
  <1> USE PwmAssumption DEF NotIsr, ringVars, wake, output, ghosts, calls, Isr
  <1>1. PwmTypes'
    <2>1. Sample \subseteq 0 .. Values /\ 0 \in 0 .. Values + 1 /\ 0 .. Values \subseteq 0 .. Values + 1
      BY DEF Sample
    <2>2. ring[tail] \in Sample
      BY DEF PwmInv, PwmTypes
    <2>3. CASE RingRead
      BY <2>1, <2>2, <2>3 DEF PwmInv, PwmTypes, RingRead
    <2>4. CASE Alarm \/ NoteDuty
      BY <2>1, <2>4 DEF PwmInv, PwmTypes, Alarm, NoteDuty
    <2>5. CASE ApplyDuty
      BY <2>1, <2>5 DEF PwmInv, PwmTypes, ApplyDuty
    <2>6. CASE CheckSpace \/ Signal \/ Notify
      BY <2>6 DEF PwmInv, PwmTypes, CheckSpace, Signal, Notify
    <2> QED BY <2>3, <2>4, <2>5, <2>6
  <1>2. EmuControl' /\ FrameCopied' /\ FifoInRing' /\ RoomKept'
    BY DEF PwmInv, EmuControl, FrameCopied, FifoInRing, RoomKept, RingFree, Alarm, RingRead,
           NoteDuty, ApplyDuty, CheckSpace, Signal, Notify, Value
  <1>3. AdvanceSound'
    BY DEF PwmInv, AdvanceSound, Alarm, RingRead, NoteDuty, ApplyDuty, CheckSpace, Signal, Notify
  <1> QED BY <1>1, <1>2, <1>3 DEF PwmInv
LEMMA AdvancePwmInv ==
  ASSUME PwmInv, AdvanceTail
  PROVE  PwmInv'
  <1> USE PwmAssumption DEF NotIsr, wake, output, calls, Isr
  <1>1. tail' \in Slots /\ 0 \in Slots
    BY SlotType DEF PwmInv, PwmTypes, AdvanceTail, Slots
  <1>2. CASE raced' = TRUE
    <2>1. fifo' = <<>> /\ <<>> \in Seq(Sample)
      BY <1>2 DEF AdvanceTail
    <2>2. PwmTypes'
      BY <1>1, <1>2, <2>1 DEF PwmInv, PwmTypes, AdvanceTail
    <2>3. EmuControl' /\ FrameCopied' /\ FifoInRing' /\ RoomKept' /\ AdvanceSound'
      BY <1>2 DEF PwmInv, EmuControl, FrameCopied, FifoInRing, RoomKept, AdvanceSound, AdvanceTail,
                  Value
    <2> QED BY <2>2, <2>3 DEF PwmInv
  <1>3. CASE raced' = FALSE
    <2>1. raced = FALSE /\ tail = savedTail /\ tail # head /\ tail \in Slots /\ head \in Slots
      BY <1>3 DEF AdvanceTail, PwmInv, AdvanceSound, PwmTypes
    <2>2. tail' = IF tail + 1 < RingSamples THEN tail + 1 ELSE 0
      BY <2>1, SlotIs DEF AdvanceTail, Slots
    <2>3. RingCount(head, tail') = RingCount(head, tail) - 1 /\ RingCount(head, tail) >= 1
      BY <2>1, <2>2 DEF RingCount, Slots
    <2>4. /\ fifo' = Tail(fifo) /\ fifo' \in Seq(Sample) /\ Len(fifo') = RingCount(head, tail')
          /\ Len(fifo) = RingCount(head, tail) /\ fifo \in Seq(Sample)
          /\ \A i \in 1 .. Len(fifo') : fifo'[i] = fifo[i + 1]
      <3>1. Len(fifo) = RingCount(head, tail) /\ fifo \in Seq(Sample) /\ fifo' = Tail(fifo)
        BY <1>3, <2>1 DEF PwmInv, FifoInRing, PwmTypes, AdvanceTail
      <3>2. fifo # <<>>
        BY <2>3, <3>1
      <3> QED BY <2>3, <3>1, <3>2
    <2>5. ASSUME NEW i \in 1 .. Len(fifo')
          PROVE  fifo'[i] = ring[Slot(tail' + i - 1)]
      <3>0. Len(fifo') \in Nat /\ i \in 1 .. Len(fifo') /\ i \in Nat \ {0}
        BY <2>4
      <3>1. i + 1 \in 1 .. Len(fifo) /\ Len(fifo) <= RingSamples - 1 /\ i \in Nat \ {0}
        BY <2>1, <2>3, <2>4, <3>0, CountType
      <3>2. fifo[i + 1] = ring[Slot(tail + (i + 1) - 1)]
        BY <2>1, <3>1 DEF PwmInv, FifoInRing
      <3>6. /\ tail \in 0 .. RingSamples - 1 /\ tail' \in 0 .. RingSamples - 1
            /\ tail' = IF tail + 1 < RingSamples THEN tail + 1 ELSE 0
        BY <2>1, <2>2, <1>1 DEF Slots
      <3>3. /\ tail + i \in 0 .. 2 * RingSamples - 1
            /\ tail' + i - 1 \in 0 .. 2 * RingSamples - 1
        BY <3>6, <3>1
      <3>4. Slot(tail' + i - 1) = Slot(tail + i)
        <4>1. tail + i - RingSamples \in 0 .. RingSamples - 1 \/ tail' = tail + 1
          BY <3>6, <3>1
        <4>2. Slot(tail + i) = IF tail + i < RingSamples THEN tail + i ELSE tail + i - RingSamples
          BY <3>3, <3>6, <3>1, SlotIs
        <4>3. Slot(tail' + i - 1) = IF tail' + i - 1 < RingSamples THEN tail' + i - 1
                                    ELSE tail' + i - 1 - RingSamples
          BY <3>3, <3>6, <3>1, SlotIs
        <4> QED BY <3>6, <4>1, <4>2, <4>3, <3>1
      <3> QED BY <2>1, <2>4, <3>2, <3>4 DEF Slots
    <2>6. PwmTypes'
      BY <1>1, <1>3, <2>4 DEF PwmInv, PwmTypes, AdvanceTail
    <2>7. FifoInRing'
      BY <2>4, <2>5 DEF FifoInRing, AdvanceTail
    <2>8. RoomKept'
      BY <2>1, <2>3, CountType DEF PwmInv, RoomKept, RingFree, AdvanceTail
    <2>9. EmuControl' /\ FrameCopied' /\ AdvanceSound'
      BY DEF PwmInv, EmuControl, FrameCopied, AdvanceSound, AdvanceTail, Value
    <2> QED BY <2>6, <2>7, <2>8, <2>9 DEF PwmInv
  <1> QED BY <1>2, <1>3 DEF PwmInv, PwmTypes, AdvanceTail

(* The calls of sndSetEnabled: only the store of the tail touches the ring. *)
LEMMA QuietCall ==
  ASSUME PwmInv, NEW c \in Caller,
         \/ CheckEnabled(c) \/ StoreEnabled(c) \/ LoadHead(c)
         \/ ClearSignaled(c) \/ NoteSilence(c) \/ ApplySilence(c)
  PROVE  PwmInv'
  <1> USE PwmAssumption DEF NotCall, output, alarm, ghosts, Goto, Runs
  <1>1. PwmTypes'
    <2>1. at' \in [Caller -> CallStates]
      BY DEF PwmInv, PwmTypes, CallStates, CheckEnabled, StoreEnabled, LoadHead, ClearSignaled,
             NoteSilence, ApplySilence
    <2>2. savedHead' \in [Caller -> Slots]
      BY DEF PwmInv, PwmTypes, CheckEnabled, StoreEnabled, LoadHead, ClearSignaled, NoteSilence,
             ApplySilence
    <2>3. pwmLastDuty' \in 0 .. Values + 1 /\ duty' \in 0 .. Values + 1
      BY DEF PwmInv, PwmTypes, CheckEnabled, StoreEnabled, LoadHead, ClearSignaled, NoteSilence,
             ApplySilence
    <2>4. audioEnabled' \in BOOLEAN /\ audioSpaceSignaled' \in BOOLEAN
      BY DEF PwmInv, PwmTypes, CheckEnabled, StoreEnabled, LoadHead, ClearSignaled, NoteSilence,
             ApplySilence
    <2> QED
      BY <2>1, <2>2, <2>3, <2>4 DEF PwmInv, PwmTypes, CheckEnabled, StoreEnabled, LoadHead,
             ClearSignaled, NoteSilence, ApplySilence
  <1>2. /\ UNCHANGED <<ring, head, tail, emu, emuRunning, want, isr, savedTail, fifo, nextValue, raced>>
    BY DEF CheckEnabled, StoreEnabled, LoadHead, ClearSignaled, NoteSilence, ApplySilence
  <1>3. FrameCopied' /\ FifoInRing' /\ RoomKept'
    BY <1>2 DEF PwmInv, FrameCopied, FifoInRing, RoomKept, RingFree, Value
  <1>4. /\ at["emu"] = "out" => at'["emu"] = "out"
        /\ at'["emu"] \in {"load", "drop"} => at["emu"] \in {"load", "drop"} \/ want["emu"] = FALSE
        /\ at'["emu"] = "drop" /\ at["emu"] # "drop" => savedHead'["emu"] = head
        /\ at'["emu"] = "drop" /\ at["emu"] = "drop" => savedHead'["emu"] = savedHead["emu"]
        /\ at'["emu"] # "out" => at["emu"] # "out"
    BY DEF PwmInv, PwmTypes, CheckEnabled, StoreEnabled, LoadHead, ClearSignaled, NoteSilence,
           ApplySilence, Caller
  <1>5. EmuControl' /\ AdvanceSound'
    BY <1>2, <1>4 DEF PwmInv, EmuControl, AdvanceSound
  <1> QED BY <1>1, <1>3, <1>5 DEF PwmInv

LEMMA DropPwmInv ==
  ASSUME PwmInv, NEW c \in Caller, DropSamples(c)
  PROVE  PwmInv'
  <1> USE PwmAssumption DEF NotCall, output, alarm, Goto, Runs
  <1> DEFINE kept == RingCount(head, savedHead[c])
  <1>1. /\ head \in Slots /\ tail \in Slots /\ savedHead[c] \in Slots /\ 0 \in Slots
        /\ tail' = savedHead[c] /\ tail' \in Slots /\ fifo \in Seq(Sample)
    BY DEF PwmInv, PwmTypes, DropSamples, Slots
  <1>2. kept \in 0 .. RingSamples - 1
    BY <1>1, CountType
  <1>3. /\ at' \in [Caller -> CallStates] /\ savedHead' \in [Caller -> Slots]
        /\ raced' \in BOOLEAN
    BY <1>1 DEF PwmInv, PwmTypes, DropSamples, CallStates
  <1>4. /\ at'["emu"] # "out" => at["emu"] # "out"
        /\ at'["emu"] \notin {"load", "drop"} \/ (c = "shell" /\ at'["emu"] = at["emu"])
        /\ c = "shell" => savedHead'["emu"] = savedHead["emu"] /\ at'["emu"] = at["emu"]
        /\ c = "emu" => at["emu"] = "drop"
    BY DEF PwmInv, PwmTypes, DropSamples, Caller
  <1>5. EmuControl'
    BY <1>4 DEF PwmInv, EmuControl, DropSamples, Caller
  <1>6. AdvanceSound'
    <2>1. CASE c = "emu"
      <3>1. savedHead["emu"] = head /\ emu = "top"
        BY <1>4, <2>1 DEF PwmInv, EmuControl
      <3>2. raced' = FALSE => raced = FALSE
        BY DEF DropSamples, PwmInv, PwmTypes
      <3>3. tail' = head /\ head' = head /\ emu' = emu /\ savedTail' = savedTail /\ isr' = isr
            /\ emuRunning' = emuRunning
        BY <2>1, <3>1, <1>1 DEF DropSamples
      <3>4. CASE isr = "advance" /\ raced = FALSE /\ savedTail = tail /\ tail # head
        BY <3>1, <3>3, <3>4 DEF AdvanceSound
      <3>5. CASE isr = "advance" /\ raced = FALSE /\ ~(savedTail = tail /\ tail # head)
        <4>1. savedTail # head
          BY <1>4, <2>1, <3>1, <3>5 DEF PwmInv, AdvanceSound, EmuControl
        <4> QED BY <3>1, <3>3, <4>1 DEF AdvanceSound
      <3> QED BY <3>2, <3>3, <3>4, <3>5 DEF AdvanceSound
    <2>2. CASE c = "shell"
      BY <2>2 DEF AdvanceSound, DropSamples
    <2> QED BY <2>1, <2>2 DEF Caller
  <1>7. FrameCopied'
    BY DEF PwmInv, FrameCopied, DropSamples, Value
  <1>8. CASE raced' = TRUE
    <2>1. fifo' = <<>> /\ <<>> \in Seq(Sample)
      BY <1>8 DEF DropSamples
    <2>2. PwmTypes'
      BY <1>1, <1>3, <2>1 DEF PwmInv, PwmTypes, DropSamples
    <2>3. FifoInRing' /\ RoomKept'
      BY <1>8 DEF FifoInRing, RoomKept
    <2> QED BY <1>5, <1>6, <1>7, <2>2, <2>3 DEF PwmInv
  <1>9. CASE raced' = FALSE
    <2>1. raced = FALSE /\ kept <= Len(fifo) /\ Len(fifo) = RingCount(head, tail)
      <3>1. raced = FALSE /\ ~(kept > Len(fifo))
        BY <1>9 DEF DropSamples, PwmInv, PwmTypes
      <3> QED BY <3>1, <1>1, <1>2 DEF PwmInv, FifoInRing
    <2>10. kept <= Len(fifo) /\ Len(fifo) = RingCount(head, tail)
      BY <2>1
    <2>2. /\ fifo' = SubSeq(fifo, Len(fifo) - kept + 1, Len(fifo))
          /\ Len(fifo') = kept /\ fifo' \in Seq(Sample)
          /\ \A i \in 1 .. kept : fifo'[i] = fifo[Len(fifo) - kept + i]
      <3>1. fifo' = SubSeq(fifo, Len(fifo) - kept + 1, Len(fifo))
        BY <1>9 DEF DropSamples
      <3>2. kept \in Nat /\ kept <= Len(fifo) /\ fifo \in Seq(Sample)
        BY <1>1, <1>2, <2>10
      <3> HIDE DEF kept
      <3>3. \A i \in Len(fifo) - kept + 1 .. Len(fifo) : fifo[i] \in Sample
        BY <3>2
      <3>4. /\ fifo' \in Seq(Sample) /\ Len(fifo') = kept
        BY <3>1, <3>2, <3>3
      <3>5. \A i \in 1 .. kept : fifo'[i] = fifo[Len(fifo) - kept + i]
        BY <3>1, <3>2
      <3> QED BY <3>1, <3>4, <3>5
    <2>3. ASSUME NEW i \in 1 .. kept
          PROVE  fifo'[i] = ring[Slot(tail' + i - 1)]
      <3> DEFINE k == Len(fifo) - kept + i
      <3>0. kept \in Nat /\ i \in Nat \ {0} /\ i <= kept /\ Len(fifo) \in 0 .. RingSamples - 1
        BY <1>1, <1>2, <2>10, CountType
      <3>1. k \in 1 .. Len(fifo) /\ k = Len(fifo) - kept + i
        BY <2>10, <3>0
      <3>2. fifo[k] = ring[Slot(tail + k - 1)]
        BY <2>1, <3>1 DEF PwmInv, FifoInRing
      <3>6. Slot(tail + k - 1) = Slot(tail' + i - 1)
        BY <1>1, <2>10, SameSlot
      <3> QED BY <2>2, <3>0, <3>1, <3>2, <3>6
    <2>4. PwmTypes'
      BY <1>1, <1>3, <2>2 DEF PwmInv, PwmTypes, DropSamples
    <2>5. FifoInRing'
      BY <1>1, <2>2, <2>3 DEF FifoInRing, DropSamples
    <2>6. RoomKept'
      BY <1>1, <1>2, <2>1, CountType DEF PwmInv, RoomKept, RingFree, DropSamples
    <2> QED BY <1>5, <1>6, <1>7, <2>4, <2>5, <2>6 DEF PwmInv
  <1> QED BY <1>3, <1>8, <1>9

LEMMA CommandPwmInv ==
  ASSUME PwmInv, Command
  PROVE  PwmInv'
  <1> USE DEF ringVars, wake, output, alarm, ghosts, CallSetEnabled, Goto, calls
  <1>1. at' \in [Caller -> CallStates] /\ want' \in [Caller -> BOOLEAN] /\ emuRunning' \in BOOLEAN
    BY DEF PwmInv, PwmTypes, Command, CallStates
  <1>2. PwmTypes'
    BY <1>1 DEF PwmInv, PwmTypes, Command
  <1>3. at'["emu"] = at["emu"] /\ want'["emu"] = want["emu"] /\ savedHead' = savedHead
    BY DEF PwmInv, PwmTypes, Command, Caller
  <1>4. /\ EmuControl' /\ AdvanceSound' /\ FrameCopied' /\ FifoInRing' /\ RoomKept'
    BY <1>3 DEF PwmInv, EmuControl, AdvanceSound, FrameCopied, FifoInRing, RoomKept, RingFree,
                Command, Value
  <1> QED BY <1>2, <1>4 DEF PwmInv

(* The emulator task: only the copy and the head touch the ring.           *)
LEMMA QuietEmulator ==
  ASSUME PwmInv,
         LoopTop \/ PushFrame \/ Rearm \/ CheckRoom \/ TakeNotification \/ Timeout
  PROVE  PwmInv'
  <1> USE DEF ringVars, wake, output, alarm, ghosts, CallSetEnabled, Goto, calls, Emu, NotEmu
  <1>1. at' \in [Caller -> CallStates] /\ want' \in [Caller -> BOOLEAN]
    BY DEF PwmInv, PwmTypes, CallStates, LoopTop, PushFrame, Rearm, CheckRoom, TakeNotification,
           Timeout
  <1>2. audioSpaceSignaled' \in BOOLEAN /\ notified' \in BOOLEAN
    BY DEF PwmInv, PwmTypes, LoopTop, PushFrame, Rearm, CheckRoom, TakeNotification, Timeout
  <1>3. /\ UNCHANGED <<ring, head, tail, audioEnabled, emuRunning, pwmLastDuty, duty, isr,
                        savedTail, sample, fifo, nextValue, raced, savedHead>>
        /\ at["emu"] = "out" /\ emu' # "publish"
    BY DEF LoopTop, PushFrame, Rearm, CheckRoom, TakeNotification, Timeout
  <1>4. PwmTypes'
    BY <1>1, <1>2, <1>3 DEF PwmInv, PwmTypes
  <1>5. FrameCopied' /\ FifoInRing'
    BY <1>3 DEF PwmInv, FrameCopied, FifoInRing
  <1>6. RoomKept'
    <2>1. emu' = "copy" => RingFree >= FrameSamples
      BY DEF LoopTop, PushFrame, Rearm, CheckRoom, TakeNotification, Timeout, HasRoom
    <2> QED BY <1>3, <2>1 DEF RoomKept, RingFree
  <1>7. \/ /\ at'["emu"] = "check" /\ want'["emu"] = emuRunning
           /\ emu = "top" /\ emu' = IF emuRunning THEN "push" ELSE "top"
        \/ at'["emu"] = "out" /\ want'["emu"] = want["emu"] /\ emu # "top"
    BY DEF PwmInv, PwmTypes, LoopTop, PushFrame, Rearm, CheckRoom, TakeNotification, Timeout, Caller
  <1>8. emuRunning = TRUE \/ emuRunning = FALSE
    BY DEF PwmInv, PwmTypes
  <1>9. EmuControl'
    BY <1>3, <1>7, <1>8 DEF PwmInv, EmuControl
  <1>10. AdvanceSound'
    BY <1>3, <1>7, <1>8 DEF PwmInv, AdvanceSound
  <1> QED BY <1>4, <1>5, <1>6, <1>9, <1>10 DEF PwmInv

LEMMA CopyPwmInv ==
  ASSUME PwmInv, CopyFrame
  PROVE  PwmInv'
  <1> USE PwmAssumption DEF wake, alarm, ghosts, calls, Emu, NotEmu, output
  <1>1. /\ UNCHANGED <<head, tail, audioEnabled, emuRunning, pwmLastDuty, duty, isr, savedTail,
                        sample, fifo, nextValue, raced, at, want, savedHead>>
        /\ UNCHANGED <<audioSpaceSignaled, notified>>
        /\ at["emu"] = "out" /\ emu = "copy" /\ emu' = "publish"
    BY DEF CopyFrame
  <1>2. \A s \in Slots : ring'[s] = IF Distance(s, head) < FrameSamples
                                    THEN Value(Distance(s, head)) ELSE ring[s]
    BY DEF CopyFrame, Distance
  <1>3. \A s \in Slots : Distance(s, head) \in Nat
    <2> TAKE s \in Slots
    <2>1. head \in Slots
      BY DEF PwmInv, PwmTypes
    <2>2. Distance(s, head) = IF s >= head THEN s - head ELSE s - head + RingSamples
      BY <2>1, DistanceIs
    <2> QED BY <2>1, <2>2 DEF Slots
  <1>4. ring' \in [Slots -> Sample]
    <2>1. \A s \in Slots : ring'[s] \in Sample
      BY <1>2, <1>3, ValueType DEF PwmInv, PwmTypes
    <2>2. ring' = [s \in Slots |-> ring'[s]]
      BY DEF CopyFrame
    <2> QED BY <2>1, <2>2
  <1>5. PwmTypes'
    BY <1>1, <1>4 DEF PwmInv, PwmTypes
  <1>6. EmuControl' /\ AdvanceSound' /\ RoomKept'
    BY <1>1 DEF PwmInv, EmuControl, AdvanceSound, RoomKept, RingFree
  <1>7. FrameCopied'
    <2> SUFFICES ASSUME NEW i \in 0 .. FrameSamples - 1
                 PROVE  ring'[Slot(head + i)] = Value(i)
      BY <1>1 DEF FrameCopied, Value
    <2>1. Slot(head + i) \in Slots /\ Distance(Slot(head + i), head) = i
      BY NextBefore DEF PwmInv, PwmTypes
    <2> QED BY <1>2, <2>1
  <1>8. FifoInRing'
    <2> SUFFICES ASSUME raced = FALSE, NEW i \in 1 .. Len(fifo)
                 PROVE  ring'[Slot(tail + i - 1)] = ring[Slot(tail + i - 1)]
      BY <1>1 DEF PwmInv, FifoInRing
    <2>1. head \in Slots /\ tail \in Slots /\ i \in 1 .. RingCount(head, tail)
      BY DEF PwmInv, PwmTypes, FifoInRing
    <2>2. RingSamples - RingCount(head, tail) - 1 >= FrameSamples
      BY <1>1 DEF PwmInv, RoomKept, RingFree
    <2>3. Slot(tail + i - 1) \in Slots
          /\ Distance(Slot(tail + i - 1), head) >= RingSamples - RingCount(head, tail)
      BY <2>1, UnreadBehind
    <2>4. Distance(Slot(tail + i - 1), head) \in Nat /\ RingCount(head, tail) \in Nat
      BY <1>3, <2>1, <2>3, CountType
    <2>5. ~(Distance(Slot(tail + i - 1), head) < FrameSamples)
      BY <2>2, <2>3, <2>4
    <2> QED BY <1>2, <2>3, <2>5
  <1> QED BY <1>5, <1>6, <1>7, <1>8 DEF PwmInv

LEMMA PublishPwmInv ==
  ASSUME PwmInv, PublishFrame
  PROVE  PwmInv'
  <1> USE PwmAssumption DEF wake, alarm, ghosts, calls, Emu, NotEmu, output
  <1> DEFINE n == RingCount(head, tail)
             copied == [i \in 1 .. FrameSamples |-> Value(i - 1)]
  <1>1. /\ UNCHANGED <<ring, tail, audioEnabled, emuRunning, pwmLastDuty, duty, isr, savedTail,
                        sample, raced, at, want, savedHead>>
        /\ UNCHANGED <<audioSpaceSignaled, notified>>
        /\ at["emu"] = "out" /\ emu = "publish" /\ emu' = "top"
        /\ head' = Slot(head + FrameSamples)
    BY DEF PublishFrame
  <1>2. head \in Slots /\ tail \in Slots /\ head' \in Slots /\ nextValue' \in Sample
    BY <1>1, SlotType, ValueType DEF PwmInv, PwmTypes, PublishFrame, Slots
  <1>3. copied \in Seq(Sample) /\ Len(copied) = FrameSamples
        /\ \A i \in 1 .. FrameSamples : copied[i] = Value(i - 1)
    <2>1. \A i \in 1 .. FrameSamples : Value(i - 1) \in Sample
      BY ValueType DEF PwmInv, PwmTypes
    <2> QED BY <2>1
  <1> HIDE DEF copied
  <1>4. EmuControl' /\ RoomKept' /\ FrameCopied'
    BY <1>1 DEF PwmInv, EmuControl, RoomKept, FrameCopied
  <1>5. CASE raced = TRUE
    <2>1. fifo' = <<>> /\ <<>> \in Seq(Sample)
      BY <1>5 DEF PublishFrame
    <2>2. PwmTypes'
      BY <1>1, <1>2, <2>1 DEF PwmInv, PwmTypes
    <2>3. FifoInRing' /\ AdvanceSound'
      BY <1>1, <1>5 DEF FifoInRing, AdvanceSound
    <2> QED BY <1>4, <2>2, <2>3 DEF PwmInv
  <1>6. CASE raced = FALSE
    <2>1. /\ FrameSamples <= RingSamples - n - 1
          /\ n \in Nat /\ Len(fifo) = n /\ fifo \in Seq(Sample)
      <3>1. FrameSamples <= RingSamples - n - 1
        BY <1>1, <1>2, <1>6, CountType DEF PwmInv, RoomKept, RingFree
      <3>2. Len(fifo) = n /\ fifo \in Seq(Sample)
        BY <1>6 DEF PwmInv, FifoInRing, PwmTypes
      <3> QED BY <1>2, <3>1, <3>2, CountType
    <2>2. /\ RingCount(head', tail) = n + FrameSamples
          /\ \A j \in 0 .. FrameSamples - 1 : Slot(tail + (n + 1 + j) - 1) = Slot(head + j)
      BY <1>1, <1>2, <2>1, HeadMoves
    <2>3. fifo' = fifo \o copied
      BY <1>6 DEF PublishFrame, copied
    <2>4. /\ fifo' \in Seq(Sample) /\ Len(fifo') = n + FrameSamples
          /\ \A i \in 1 .. n : fifo'[i] = fifo[i]
          /\ \A i \in n + 1 .. n + FrameSamples : fifo'[i] = copied[i - n]
      <3>1. copied \in Seq(Sample) /\ fifo \in Seq(Sample)
        BY <1>3, <2>1
      <3>2. fifo' \in Seq(Sample) /\ Len(fifo') = Len(fifo) + Len(copied)
        BY <2>3, <3>1
      <3>3. /\ \A i \in 1 .. Len(fifo) : fifo'[i] = fifo[i]
            /\ \A i \in Len(fifo) + 1 .. Len(fifo) + Len(copied) : fifo'[i] = copied[i - Len(fifo)]
        BY <2>3, <3>1
      <3> QED BY <1>3, <2>1, <3>2, <3>3
    <2>9. tail # head'
      <3>1. n + FrameSamples # 0
        BY <2>1
      <3>2. head' = tail => RingCount(head', tail) = 0
        BY <1>2 DEF RingCount, Slots
      <3> QED BY <2>2, <3>1, <3>2
    <2> HIDE DEF n
    <2>5. ASSUME NEW i \in 1 .. Len(fifo')
          PROVE  fifo'[i] = ring[Slot(tail + i - 1)]
      <3>1. CASE i \in 1 .. n
        BY <1>6, <2>1, <2>4, <3>1 DEF PwmInv, FifoInRing
      <3>2. CASE i \in n + 1 .. n + FrameSamples
        <4>1. i - n - 1 \in 0 .. FrameSamples - 1 /\ i = n + 1 + (i - n - 1) /\ i - n \in 1 .. FrameSamples
              /\ (i - n) - 1 = i - n - 1
          BY <2>1, <3>2
        <4>2. fifo'[i] = Value(i - n - 1)
          BY <1>3, <2>4, <3>2, <4>1
        <4>3. Slot(tail + i - 1) = Slot(head + (i - n - 1))
          BY <2>2, <4>1
        <4>4. ring[Slot(head + (i - n - 1))] = Value(i - n - 1)
          BY <1>1, <4>1 DEF PwmInv, FrameCopied
        <4> QED BY <4>2, <4>3, <4>4
      <3> QED BY <2>1, <2>4, <3>1, <3>2
    <2>6. PwmTypes'
      BY <1>1, <1>2, <2>4 DEF PwmInv, PwmTypes
    <2>7. FifoInRing'
      BY <1>1, <2>2, <2>4, <2>5 DEF FifoInRing, n
    <2>8. AdvanceSound'
      BY <1>1, <1>6, <2>9 DEF PwmInv, AdvanceSound
    <2> QED BY <1>4, <2>6, <2>7, <2>8 DEF PwmInv
  <1> QED BY <1>5, <1>6 DEF PwmInv, PwmTypes

LEMMA NextPwmInv == PwmInv /\ [PwmNext]_pwmVars => PwmInv'
  <1> SUFFICES ASSUME PwmInv, [PwmNext]_pwmVars PROVE PwmInv'
    OBVIOUS
  <1>1. CASE Interrupt
    BY <1>1, QuietInterrupt, AdvancePwmInv DEF Interrupt
  <1>2. CASE EmulatorTask
    BY <1>2, QuietEmulator, CopyPwmInv, PublishPwmInv, QuietCall, DropPwmInv
       DEF EmulatorTask, SetEnabled, Caller
  <1>3. CASE SetEnabled("shell")
    BY <1>3, QuietCall, DropPwmInv DEF SetEnabled, Caller
  <1>4. CASE Command
    BY <1>4, CommandPwmInv
  <1>5. CASE UNCHANGED pwmVars
    BY <1>5 DEF pwmVars, ringVars, wake, output, calls, alarm, ghosts, PwmInv, PwmTypes,
                EmuControl, RoomKept, RingFree, AdvanceSound, FrameCopied, FifoInRing, Value
  <1> QED BY <1>1, <1>2, <1>3, <1>4, <1>5 DEF PwmNext

LEMMA PwmInvImplies == PwmInv => RingIsFifo
  <1> SUFFICES ASSUME PwmInv PROVE RingIsFifo
    OBVIOUS
  <1>1. PwmTypeOK
    BY DEF PwmInv, PwmTypes, PwmTypeOK
  <1>2. raced = FALSE => Unread = fifo
    <2> SUFFICES ASSUME raced = FALSE PROVE Unread = fifo
      OBVIOUS
    <2>1. Len(fifo) = RingCount(head, tail) /\ fifo \in Seq(Sample)
      BY DEF PwmInv, PwmTypes, FifoInRing
    <2>2. fifo = [i \in 1 .. Len(fifo) |-> fifo[i]]
      BY <2>1
    <2>3. \A i \in 1 .. Len(fifo) : fifo[i] = ring[Slot(tail + i - 1)]
      BY DEF PwmInv, FifoInRing
    <2>4. Unread = [i \in 1 .. Len(fifo) |-> ring[Slot(tail + i - 1)]]
      BY <2>1 DEF Unread
    <2> QED BY <2>2, <2>3, <2>4
  <1> QED BY <1>1, <1>2 DEF RingIsFifo, PwmInv, PwmTypes

(* The ring between audioRingWriteFrame and audioTimerAlarm (snd.cpp)      *)
(* holds what was submitted and not yet played or muted, in order, for any *)
(* frame and ring size: no frame is copied over a sample still to play,    *)
(* until a mute has raced the interrupt or another mute for the tail.      *)
THEOREM PwmRingIsFifo == PwmSpec => []RingIsFifo
  BY InitPwmInv, NextPwmInv, PwmInvImplies, PTL DEF PwmSpec
----------------------------------------------------------------------------
(***************************************************************************)
(* The timeline of a frame.  The cycles run since it began place the loop  *)
(* among its scanlines, and every recorded edge behind it.                 *)
(***************************************************************************)
GateEvent == [line : 0 .. Lines - 1, cycle : 0 .. LineCycles - 1, state : BOOLEAN]

\* An event wherever it is placed: an edge of timer 1 may come at a line after the last.
AnyEvent  == [line : Nat, cycle : 0 .. LineCycles - 1, state : BOOLEAN]
Time(e)   == e.line * LineCycles + e.cycle

LoopTypes ==
    /\ pc \in {"begin", "slice", "push"}
    /\ scanline_start \in 0 .. Lines /\ cyclesRun \in Nat
    /\ surpassCycles \in 0 .. MaxInstr - 1 /\ overrun \in 0 .. MaxInstr - 1 /\ elapsed \in Int
    /\ pendingEclock \in 0 .. EclockDiv - 1 /\ viaLag = pendingEclock
    /\ frame \in 0 .. VblRate - 1 /\ ca2 = (IF frame = VblRate - 1 THEN 1 ELSE 0)

\* A slice is under way before the last line, and is overrun by one instruction.
\* Only a RESET within it makes its overrun another one than was taken off.
Progress ==
    /\ pc # "slice" => surpassCycles = overrun
    /\ pc = "begin" => elapsed = overrun /\ cyclesRun = 0
    /\ pc # "begin" => elapsed = scanline_start * LineCycles + overrun + cyclesRun
    /\ pc = "slice" => scanline_start < Lines /\ cyclesRun < request + MaxInstr
    /\ pc = "push" => scanline_start = Lines /\ cyclesRun = 0

GateTypes ==
    /\ audio_en \in BOOLEAN /\ startGate \in BOOLEAN /\ disturbed \in BOOLEAN
    /\ events \in Seq(AnyEvent) /\ Len(events) <= MaxEvents

\* The state of the gate that the list says.
ListedGate(evs) == IF evs = <<>> THEN startGate ELSE evs[Len(evs)].state

\* The edges up to now are behind; the list has the state of the gate, but for
\* an edge lost to a full list.
EventsBehind ==
    pc = "slice" =>
        /\ \A i \in 1 .. Len(events) : Time(events[i]) <= elapsed
        /\ \/ audio_en = ListedGate(events)
           \/ Len(events) = MaxEvents /\ Time(events[Len(events)]) < elapsed

\* EventsOrdered, of any list and by the cycles of the frame.
Alternate(evs) ==
    \A i \in 1 .. Len(evs) : evs[i].state # IF i = 1 THEN startGate ELSE evs[i - 1].state
Increasing(evs) ==
    \A i \in 2 .. Len(evs) : Time(evs[i - 1]) < Time(evs[i])

\* While neither timer 1 nor a RESET has moved the gate within the frame, its events
\* lie in its lines and in order.
Placed ==
    /\ surpassCycles = overrun
    /\ events \in Seq(GateEvent) /\ EventsBehind
    /\ Alternate(events) /\ Increasing(events)

FrameInv == LoopTypes /\ Progress /\ GateTypes /\ (~disturbed => Placed)

LEMMA FrameConstants ==
  /\ Lines \in Nat \ {0} /\ LineCycles \in Nat \ {0} /\ MaxInstr \in Nat \ {0}
  /\ MaxInstr <= LineCycles /\ MaxEvents \in Nat \ {0} /\ EclockDiv \in Nat \ {0}
  /\ VblRate \in Nat /\ VblRate >= 2 /\ Ends \subseteq 1 .. Lines /\ Lines \in Ends
  BY FrameAssumption, SoundRenderAssumption

(* Times order events as their lines and cycles do.                        *)
LEMMA TimeOrder ==
  ASSUME NEW e \in GateEvent, NEW f \in GateEvent
  PROVE  /\ Time(e) \in Nat
         /\ Time(e) < Time(f) <=> e.line < f.line \/ (e.line = f.line /\ e.cycle < f.cycle)
         /\ Time(e) = Time(f) <=> e.line = f.line /\ e.cycle = f.cycle
  <1> DEFINE a == e.line
             b == f.line
             x == e.cycle
             y == f.cycle
             L == LineCycles
  <1>1. /\ L \in Nat \ {0} /\ a \in Nat /\ b \in Nat /\ x \in 0 .. L - 1 /\ y \in 0 .. L - 1
        /\ Time(e) = a * L + x /\ Time(f) = b * L + y
    BY FrameConstants DEF GateEvent, Time
  <1> HIDE DEF a, b, x, y, L
  <1>2. a * L \in Nat /\ b * L \in Nat
    BY <1>1
  <1>3. CASE a < b
    <2>1. (b - a) * L >= L
      BY <1>1, <1>3
    <2>2. b * L - a * L >= L
      BY <1>1, <2>1
    <2>3. Time(e) \in Nat /\ Time(f) \in Nat /\ Time(e) < Time(f)
      BY <1>1, <1>2, <2>2
    <2>4. Time(e) # Time(f) /\ a # b
      BY <1>1, <1>3, <2>3
    <2>5. e.line < f.line /\ e.line # f.line
      BY <1>3, <2>4 DEF a, b
    <2> QED BY <2>3, <2>4, <2>5
  <1>4. CASE b < a
    <2>1. (a - b) * L >= L
      BY <1>1, <1>4
    <2>2. a * L - b * L >= L
      BY <1>1, <2>1
    <2> QED BY <1>1, <1>2, <1>4, <2>2 DEF a, b, x, y
  <1>5. CASE a = b
    <2>1. a * L = b * L
      BY <1>5
    <2>2. Time(e) \in Nat /\ (Time(e) < Time(f) <=> x < y) /\ (Time(e) = Time(f) <=> x = y)
      BY <1>1, <1>2, <2>1
    <2>3. ~(a < b)
      BY <1>1, <1>5
    <2> QED BY <1>5, <2>2, <2>3 DEF a, b, x, y
  <1> QED BY <1>1, <1>3, <1>4, <1>5

(* There is a next end of a slice before the end of the frame.             *)
LEMMA NextEnd ==
  ASSUME NEW s \in 0 .. Lines, scanline_start = s, s < Lines
  PROVE  scanline_end \in s + 1 .. Lines
  <1> DEFINE T == {l \in Ends : l > s}
             R == OpToRel(<, Nat)
  <1>1. Lines \in T /\ T \subseteq Nat
    <2>1. Ends \subseteq Nat /\ Lines \in Ends /\ Lines > s
      BY FrameConstants
    <2> QED BY <2>1
  <1>2. IsWellFoundedOn(R, Nat)
    BY NatLessThanWellFounded
  <1>3. \A x, y \in T : <<y, x>> \in R <=> y < x
    BY <1>1 DEF OpToRel
  <1> HIDE DEF R, T
  <1>4. PICK l \in T : \A m \in T : ~ (<<m, l>> \in R)
    BY <1>1, <1>2, WFMin
  <1>5. \A m \in T : ~(m < l)
    BY <1>3, <1>4
  <1>6. \A m \in T : l <= m
    BY <1>1, <1>5
  <1>7. \E k \in Ends : k > scanline_start /\ \A m \in Ends : m > scanline_start => k <= m
    BY <1>6 DEF T
  <1>8. scanline_end \in Ends /\ scanline_end > scanline_start
    BY <1>7 DEF scanline_end
  <1> QED BY <1>8, FrameConstants

(* The events of a list keep their order when the last is taken off, or    *)
(* one is put after it.                                                    *)
LEMMA ShorterList ==
  ASSUME NEW evs \in Seq(GateEvent), evs # <<>>, Alternate(evs), Increasing(evs)
  PROVE  /\ Front(evs) \in Seq(GateEvent) /\ Len(Front(evs)) = Len(evs) - 1
         /\ \A i \in 1 .. Len(evs) - 1 : Front(evs)[i] = evs[i]
         /\ Alternate(Front(evs)) /\ Increasing(Front(evs))
  <1>1. Front(evs) = SubSeq(evs, 1, Len(evs) - 1) /\ Len(evs) \in Nat /\ Len(evs) >= 1
    BY DEF Front
  <1>2. \A i \in 1 .. Len(evs) - 1 : evs[i] \in GateEvent
    BY <1>1
  <1>3. Front(evs) \in Seq(GateEvent) /\ Len(Front(evs)) = Len(evs) - 1
    <2> DEFINE n == Len(evs) - 1
    <2>1. n \in Nat /\ Front(evs) = SubSeq(evs, 1, n) /\ \A i \in 1 .. n : evs[i] \in GateEvent
      BY <1>1, <1>2
    <2> HIDE DEF n
    <2>2. SubSeq(evs, 1, n) \in Seq(GateEvent) /\ Len(SubSeq(evs, 1, n)) = n
      BY <2>1
    <2> QED BY <2>1, <2>2 DEF n
  <1>4. \A i \in 1 .. Len(evs) - 1 : Front(evs)[i] = evs[i]
    BY <1>1
  <1>5. Alternate(Front(evs))
    <2> SUFFICES ASSUME NEW i \in 1 .. Len(evs) - 1
                 PROVE  Front(evs)[i].state # IF i = 1 THEN startGate ELSE Front(evs)[i - 1].state
      BY <1>3 DEF Alternate
    <2>1. i \in 1 .. Len(evs) /\ (i # 1 => i - 1 \in 1 .. Len(evs) - 1)
      BY <1>1
    <2>2. evs[i].state # IF i = 1 THEN startGate ELSE evs[i - 1].state
      BY <2>1 DEF Alternate
    <2> QED BY <1>4, <2>1, <2>2
  <1>6. Increasing(Front(evs))
    <2> SUFFICES ASSUME NEW i \in 2 .. Len(evs) - 1
                 PROVE  Time(Front(evs)[i - 1]) < Time(Front(evs)[i])
      BY <1>3 DEF Increasing
    <2>1. i \in 2 .. Len(evs) /\ i \in 1 .. Len(evs) - 1 /\ i - 1 \in 1 .. Len(evs) - 1
      BY <1>1
    <2>2. Time(evs[i - 1]) < Time(evs[i])
      BY <2>1 DEF Increasing
    <2> QED BY <1>4, <2>1, <2>2
  <1> QED BY <1>3, <1>4, <1>5, <1>6

LEMMA LongerList ==
  ASSUME NEW evs \in Seq(GateEvent), NEW e \in GateEvent, Alternate(evs), Increasing(evs),
         e.state # ListedGate(evs), evs # <<>> => Time(evs[Len(evs)]) < Time(e)
  PROVE  /\ Append(evs, e) \in Seq(GateEvent) /\ Len(Append(evs, e)) = Len(evs) + 1
         /\ Append(evs, e)[Len(evs) + 1] = e
         /\ \A i \in 1 .. Len(evs) : Append(evs, e)[i] = evs[i]
         /\ Alternate(Append(evs, e)) /\ Increasing(Append(evs, e))
  <1> DEFINE n == Len(evs)
             new == Append(evs, e)
  <1>1. /\ n \in Nat /\ new \in Seq(GateEvent) /\ Len(new) = n + 1 /\ new[n + 1] = e
        /\ \A i \in 1 .. n : new[i] = evs[i]
    OBVIOUS
  <1>2. evs = <<>> <=> n = 0
    OBVIOUS
  <1> HIDE DEF new, n
  <1>3. Alternate(new)
    <2> SUFFICES ASSUME NEW i \in 1 .. n + 1
                 PROVE  new[i].state # IF i = 1 THEN startGate ELSE new[i - 1].state
      BY <1>1 DEF Alternate
    <2>1. CASE i \in 1 .. n
      <3>1. i # 1 => i - 1 \in 1 .. n
        BY <1>1, <2>1
      <3>2. evs[i].state # IF i = 1 THEN startGate ELSE evs[i - 1].state
        BY <2>1 DEF Alternate, n
      <3> QED BY <1>1, <2>1, <3>1, <3>2
    <2>2. CASE i = n + 1
      <3>1. CASE n = 0
        BY <1>1, <1>2, <2>2, <3>1 DEF ListedGate
      <3>2. CASE n # 0
        <4>1. i # 1 /\ i - 1 = n /\ n \in 1 .. n
          BY <1>1, <2>2, <3>2
        <4> QED BY <1>1, <1>2, <2>2, <3>2, <4>1 DEF ListedGate, n
      <3> QED BY <3>1, <3>2
    <2> QED BY <1>1, <2>1, <2>2
  <1>4. Increasing(new)
    <2> SUFFICES ASSUME NEW i \in 2 .. n + 1
                 PROVE  Time(new[i - 1]) < Time(new[i])
      BY <1>1 DEF Increasing
    <2>1. CASE i \in 2 .. n
      <3>1. i \in 1 .. n /\ i - 1 \in 1 .. n
        BY <1>1, <2>1
      <3>2. Time(evs[i - 1]) < Time(evs[i])
        BY <2>1 DEF Increasing, n
      <3> QED BY <1>1, <3>1, <3>2
    <2>2. CASE i = n + 1
      <3>1. i - 1 = n /\ n \in 1 .. n /\ n # 0
        BY <1>1, <2>2
      <3> QED BY <1>1, <1>2, <2>2, <3>1 DEF n
    <2> QED BY <1>1, <2>1, <2>2
  <1> QED BY <1>1, <1>3, <1>4 DEF new, n

(* The edge that is recorded is placed at the cycles run so far, in a line *)
(* of the frame.                                                           *)
LEMMA PositionIsNow ==
  ASSUME FrameInv, surpassCycles = overrun, pc = "slice", cyclesRun < request,
         NEW state \in BOOLEAN
  PROVE  LET e == Position(cyclesRun, surpassCycles, state)
         IN  e \in GateEvent /\ Time(e) = elapsed /\ e.state = state
  <1> DEFINE L == LineCycles
             c == cyclesRun + surpassCycles
             q == c \div L
             r == c % L
             s == scanline_start
             t == scanline_end
             P == Position(cyclesRun, surpassCycles, state)
  <1>1. /\ L \in Nat \ {0} /\ c \in Nat /\ s \in Nat /\ t \in s + 1 .. Lines /\ Lines \in Nat
        /\ elapsed = s * L + c
    <2>1. s \in 0 .. Lines /\ s < Lines /\ c \in Nat
      BY FrameConstants DEF FrameInv, LoopTypes, Progress
    <2>2. t \in s + 1 .. Lines
      BY <2>1, NextEnd
    <2>3. elapsed = s * L + surpassCycles + cyclesRun
      BY DEF FrameInv, Progress
    <2>4. s * L \in Nat /\ surpassCycles \in Nat /\ cyclesRun \in Nat
      BY <2>1, FrameConstants DEF FrameInv, LoopTypes
    <2> QED BY <2>1, <2>2, <2>3, <2>4, FrameConstants
  <1>2. c < L * (t - s)
    BY <1>1 DEF FrameInv, LoopTypes, request
  <1>3. c = L * q + r /\ r \in 0 .. L - 1 /\ q \in Int
    <2> HIDE DEF c, L
    <2> QED BY <1>1
  <1>4. P = [line |-> s + q, cycle |-> r, state |-> state]
    BY DEF Position, Event
  <1> HIDE DEF L, c, q, r, s, t
  <1>5. q < t - s
    <2> SUFFICES ASSUME q >= t - s PROVE FALSE
      BY <1>1, <1>3
    <2>1. L * q >= L * (t - s)
      BY <1>1, <1>3
    <2> QED BY <1>1, <1>2, <1>3, <2>1
  <1>6. q >= 0
    <2> SUFFICES ASSUME q <= -1 PROVE FALSE
      BY <1>1, <1>3
    <2>1. L * q <= L * (-1)
      BY <1>1, <1>3
    <2> QED BY <1>1, <1>3, <2>1
  <1>7. s + q \in 0 .. Lines - 1
    BY <1>1, <1>3, <1>5, <1>6
  <1>8. (s + q) * L + r = s * L + c
    BY <1>1, <1>3
  <1>9. P \in GateEvent
    BY <1>3, <1>4, <1>7 DEF GateEvent, L
  <1>10. Time(P) = (s + q) * L + r
    BY <1>4 DEF Time, L
  <1> QED BY <1>1, <1>4, <1>8, <1>9, <1>10

(* recordSoundGateEvent keeps the list in order, whatever edges come at    *)
(* one cycle and however many.                                             *)
LEMMA RecordedKeeps ==
  ASSUME NEW evs \in Seq(GateEvent), NEW e \in GateEvent, NEW gate \in BOOLEAN,
         startGate \in BOOLEAN, Len(evs) <= MaxEvents, Alternate(evs), Increasing(evs),
         \A i \in 1 .. Len(evs) : Time(evs[i]) <= Time(e),
         \/ gate = ListedGate(evs)
         \/ Len(evs) = MaxEvents /\ Time(evs[Len(evs)]) < Time(e),
         e.state = ~gate
  PROVE  LET new == Recorded(evs, e)
         IN  /\ new \in Seq(GateEvent) /\ Len(new) <= MaxEvents
             /\ Alternate(new) /\ Increasing(new)
             /\ \A i \in 1 .. Len(new) : Time(new[i]) <= Time(e)
             /\ \/ e.state = ListedGate(new)
                \/ Len(new) = MaxEvents /\ Time(new[Len(new)]) < Time(e)
  <1> DEFINE n == Len(evs)
             new == Recorded(evs, e)
  <1>1. /\ n \in Nat /\ MaxEvents \in Nat \ {0} /\ (evs = <<>> <=> n = 0)
        /\ \A i \in 1 .. n : evs[i] \in GateEvent /\ evs[i].state \in BOOLEAN
        /\ n # 0 => n \in 1 .. n
        /\ Time(e) \in Nat /\ e.state \in BOOLEAN
        /\ \A i \in 1 .. n : Time(evs[i]) \in Nat
    <2>1. \A i \in 1 .. n : evs[i] \in GateEvent /\ evs[i].state \in BOOLEAN
      <3>1. \A i \in 1 .. n : evs[i] \in GateEvent
        OBVIOUS
      <3> QED BY <3>1 DEF GateEvent
    <2>2. Time(e) \in Nat /\ \A i \in 1 .. n : Time(evs[i]) \in Nat
      BY <2>1, TimeOrder
    <2> QED BY <2>1, <2>2, FrameConstants DEF GateEvent
  <1>2. CASE n # 0 /\ Time(evs[n]) = Time(e)
    <2>1. gate = ListedGate(evs) /\ ListedGate(evs) = evs[n].state
      BY <1>1, <1>2 DEF ListedGate
    <2>2. evs[n].line = e.line /\ evs[n].cycle = e.cycle
      BY <1>1, <1>2, TimeOrder
    <2>3. /\ Front(evs) \in Seq(GateEvent) /\ Len(Front(evs)) = n - 1
          /\ \A i \in 1 .. n - 1 : Front(evs)[i] = evs[i]
          /\ Alternate(Front(evs)) /\ Increasing(Front(evs))
      BY <1>1, <1>2, ShorterList
    <2>4. Front(evs) = <<>> <=> n = 1
      BY <1>1, <1>2, <2>3
    <2>5. ListedGate(Front(evs)) = e.state
      <3>1. evs[n].state # IF n = 1 THEN startGate ELSE evs[n - 1].state
        BY <1>1, <1>2 DEF Alternate
      <3>2. ListedGate(Front(evs)) = IF n = 1 THEN startGate ELSE evs[n - 1].state
        BY <1>1, <1>2, <2>3, <2>4 DEF ListedGate
      <3>3. ListedGate(Front(evs)) \in BOOLEAN
        <4>1. CASE n = 1
          BY <3>2, <4>1
        <4>2. CASE n # 1
          <5>1. n - 1 \in 1 .. n
            <6>1. n \in Nat /\ n # 0 /\ n # 1
              BY <1>2, <4>2
            <6> HIDE DEF n
            <6> QED BY <6>1
          <5> QED BY <1>1, <3>2, <4>2, <5>1
        <4> QED BY <4>1, <4>2
      <3>4. evs[n].state \in BOOLEAN /\ evs[n].state = gate
        BY <1>1, <1>2, <2>1
      <3> QED BY <1>1, <3>1, <3>2, <3>3, <3>4
    <2>6. new = Front(evs)
      <3>1. evs # <<>> /\ Last(evs).line = e.line /\ Last(evs).cycle = e.cycle
        BY <1>1, <1>2, <2>2 DEF Last
      <3>2. ListedGate(Front(evs)) = IF Front(evs) = <<>> THEN startGate ELSE Last(Front(evs)).state
        BY DEF ListedGate, Last
      <3> QED BY <2>5, <3>1, <3>2 DEF Recorded
    <2>7. \A i \in 1 .. Len(Front(evs)) : Time(Front(evs)[i]) <= Time(e)
      BY <1>1, <2>3
    <2> HIDE DEF new
    <2> QED BY <1>1, <2>3, <2>5, <2>6, <2>7 DEF new
  <1>3. CASE ~(n # 0 /\ Time(evs[n]) = Time(e))
    <2>1. n # 0 => Time(evs[n]) < Time(e)
      BY <1>1, <1>3
    <2>2. ~(evs # <<>> /\ Last(evs).line = e.line /\ Last(evs).cycle = e.cycle)
      BY <1>1, <1>3, TimeOrder DEF Last
    <2>3. new = IF n < MaxEvents THEN Append(evs, e) ELSE evs
      BY <2>2 DEF Recorded
    <2>4. CASE n < MaxEvents
      <3>1. e.state # ListedGate(evs)
        BY <1>1, <2>4
      <3>2. /\ new \in Seq(GateEvent) /\ Len(new) = n + 1
            /\ new[n + 1] = e /\ \A i \in 1 .. n : new[i] = evs[i]
            /\ Alternate(new) /\ Increasing(new)
        BY <1>1, <2>1, <2>3, <2>4, <3>1, LongerList
      <3> HIDE DEF new
      <3>3. \A i \in 1 .. n + 1 : Time(new[i]) <= Time(e)
        BY <1>1, <3>2
      <3>4. ListedGate(new) = e.state
        BY <1>1, <3>2 DEF ListedGate
      <3> QED BY <1>1, <2>4, <3>2, <3>3, <3>4 DEF new
    <2>5. CASE n >= MaxEvents
      BY <1>1, <2>1, <2>3, <2>5
    <2> QED BY <1>1, <2>4, <2>5
  <1> QED BY <1>2, <1>3

(* Wherever an edge is placed, the list stays a list of events and within  *)
(* its length.                                                             *)
LEMMA RecordedTyped ==
  ASSUME NEW evs \in Seq(AnyEvent), Len(evs) <= MaxEvents, NEW e \in AnyEvent
  PROVE  Recorded(evs, e) \in Seq(AnyEvent) /\ Len(Recorded(evs, e)) <= MaxEvents
  <1> DEFINE n == Len(evs)
             new == Recorded(evs, e)
  <1>1. n \in Nat /\ MaxEvents \in Nat \ {0} /\ (evs = <<>> <=> n = 0)
    BY FrameConstants
  <1>2. Append(evs, e) \in Seq(AnyEvent) /\ Len(Append(evs, e)) = n + 1
    OBVIOUS
  <1>3. CASE evs # <<>> /\ Last(evs).line = e.line /\ Last(evs).cycle = e.cycle
    <2>1. Front(evs) \in Seq(AnyEvent) /\ Len(Front(evs)) = n - 1
      <3> DEFINE k == n - 1
      <3>1. k \in Nat /\ Front(evs) = SubSeq(evs, 1, k) /\ \A i \in 1 .. k : evs[i] \in AnyEvent
        <4>1. \A i \in 1 .. n : evs[i] \in AnyEvent
          OBVIOUS
        <4> QED BY <1>1, <1>3, <4>1 DEF Front
      <3> HIDE DEF k
      <3>2. SubSeq(evs, 1, k) \in Seq(AnyEvent) /\ Len(SubSeq(evs, 1, k)) = k
        BY <3>1
      <3> QED BY <3>1, <3>2 DEF k
    <2>2. /\ Append(Front(evs), e) \in Seq(AnyEvent)
          /\ Len(Append(Front(evs), e)) = Len(Front(evs)) + 1
      BY <2>1
    <2>3. new = Front(evs) \/ new = Append(Front(evs), e)
      BY <1>3 DEF Recorded
    <2> HIDE DEF new, n
    <2>4. new \in Seq(AnyEvent) /\ Len(new) <= n
      BY <1>1, <2>1, <2>2, <2>3
    <2> QED BY <1>1, <2>4 DEF new, n
  <1>4. CASE ~(evs # <<>> /\ Last(evs).line = e.line /\ Last(evs).cycle = e.cycle)
    <2>1. new = IF n < MaxEvents THEN Append(evs, e) ELSE evs
      BY <1>4 DEF Recorded
    <2> HIDE DEF new
    <2>2. CASE n < MaxEvents
      BY <1>1, <1>2, <2>1, <2>2 DEF new
    <2>3. CASE ~(n < MaxEvents)
      BY <2>1, <2>3 DEF new
    <2> QED BY <2>2, <2>3
  <1> QED BY <1>3, <1>4

LEMMA PositionTyped ==
  ASSUME NEW s \in Nat, scanline_start = s, NEW run \in Nat, NEW surpass \in Nat,
         NEW state \in BOOLEAN
  PROVE  Position(run, surpass, state) \in AnyEvent
  <1> DEFINE L == LineCycles
             c == run + surpass
             q == c \div L
             r == c % L
  <1>1. L \in Nat \ {0} /\ c \in Nat
    BY FrameConstants
  <1>2. Position(run, surpass, state) = [line |-> s + q, cycle |-> r, state |-> state]
    BY DEF Position, Event
  <1>3. c = L * q + r /\ r \in 0 .. L - 1 /\ q \in Int
    <2> HIDE DEF c, L
    <2> QED BY <1>1
  <1> HIDE DEF L, c, q, r
  <1>4. q >= 0
    <2> SUFFICES ASSUME q <= -1 PROVE FALSE
      BY <1>1, <1>3
    <2>1. L * q <= L * (-1)
      BY <1>1, <1>3
    <2> QED BY <1>1, <1>3, <2>1
  <1> QED BY <1>2, <1>3, <1>4 DEF AnyEvent, L

(* An edge of the gate leaves the list a list of events.                   *)
LEMMA EdgeTypes ==
  ASSUME LoopTypes, GateTypes, NEW run \in Nat, NEW surpass \in Nat, Edge(run, surpass)
  PROVE  audio_en' \in BOOLEAN /\ events' \in Seq(AnyEvent) /\ Len(events') <= MaxEvents
  <1> DEFINE e == Position(run, surpass, ~audio_en)
  <1>1. audio_en' = ~audio_en /\ events' = Recorded(events, e)
    BY DEF Edge
  <1>2. e \in AnyEvent
    <2>1. /\ scanline_start \in 0 .. Lines /\ Lines \in Nat
          /\ audio_en \in BOOLEAN
      BY FrameConstants DEF LoopTypes, GateTypes
    <2>2. scanline_start \in Nat
      BY <2>1
    <2>3. (~audio_en) \in BOOLEAN
      BY <2>1
    <2> QED BY <2>2, <2>3, PositionTyped
  <1> HIDE DEF e
  <1> QED BY <1>1, <1>2, RecordedTyped DEF GateTypes

LEMMA InitFrameInv == FrameInit => FrameInv
  <1> SUFFICES ASSUME FrameInit PROVE FrameInv
    OBVIOUS
  <1>1. LoopTypes
    BY FrameConstants DEF FrameInit, LoopTypes
  <1>2. Progress
    BY DEF FrameInit, Progress
  <1>3. events = <<>> /\ pc = "begin" /\ surpassCycles = overrun
    BY DEF FrameInit
  <1>4. <<>> \in Seq(GateEvent) /\ <<>> \in Seq(AnyEvent) /\ Len(<<>>) = 0
    OBVIOUS
  <1>5. GateTypes
    <2>1. audio_en \in BOOLEAN /\ startGate \in BOOLEAN /\ disturbed \in BOOLEAN
      BY DEF FrameInit
    <2>2. events \in Seq(AnyEvent) /\ Len(events) <= MaxEvents
      BY <1>3, <1>4, FrameConstants
    <2> QED BY <2>1, <2>2 DEF GateTypes
  <1>6. EventsBehind /\ Alternate(events) /\ Increasing(events)
    BY <1>3, <1>4 DEF EventsBehind, Alternate, Increasing
  <1> QED BY <1>1, <1>2, <1>3, <1>4, <1>5, <1>6 DEF FrameInv, Placed

(* A whole slice is longer than the overrun that is taken off it.          *)
LEMMA RequestPositive ==
  LoopTypes /\ scanline_start < Lines =>
      /\ scanline_end \in scanline_start + 1 .. Lines
      /\ request \in Int /\ request >= 1 /\ request + overrun <= Lines * LineCycles
      /\ scanline_start * LineCycles + request + overrun = scanline_end * LineCycles
  <1> SUFFICES ASSUME LoopTypes, scanline_start < Lines
               PROVE  /\ scanline_end \in scanline_start + 1 .. Lines
                      /\ request \in Int /\ request >= 1
                      /\ request + overrun <= Lines * LineCycles
                      /\ scanline_start * LineCycles + request + overrun
                           = scanline_end * LineCycles
    OBVIOUS
  <1> DEFINE s == scanline_start
             t == scanline_end
             L == LineCycles
  <1>1. /\ s \in 0 .. Lines /\ s \in Nat /\ Lines \in Nat /\ L \in Nat \ {0} /\ MaxInstr <= L
        /\ overrun \in 0 .. MaxInstr - 1 /\ MaxInstr \in Nat
    BY FrameConstants DEF LoopTypes
  <1>2. t \in s + 1 .. Lines /\ t \in Nat
    BY <1>1, NextEnd
  <1>3. request = L * (t - s) - overrun
    BY DEF request
  <1> HIDE DEF s, t, L
  <1>4. L * (t - s) >= L /\ L * (t - s) <= Lines * L
    <2>1. t - s \in Nat /\ t - s >= 1 /\ Lines - (t - s) \in Nat
      BY <1>1, <1>2
    <2>2. L * (t - s) >= L * 1
      BY <1>1, <2>1
    <2>3. L * (Lines - (t - s)) >= 0
      BY <1>1, <2>1
    <2> QED BY <1>1, <1>2, <2>2, <2>3
  <1>5. s * L + L * (t - s) = t * L /\ s * L \in Nat /\ L * (t - s) \in Int
    BY <1>1, <1>2
  <1> HIDE DEF request
  <1>6. request \in Int /\ request >= 1 /\ request + overrun <= Lines * L
        /\ s * L + request + overrun = t * L
    BY <1>1, <1>3, <1>4, <1>5
  <1> QED BY <1>2, <1>6 DEF s, t, L

LEMMA BeginFrameInv ==
  ASSUME FrameInv, BeginFrame
  PROVE  FrameInv'
  <1> USE FrameConstants
  <1>1. /\ pc = "begin" /\ pc' = "slice" /\ scanline_start' = 0 /\ cyclesRun' = 0
        /\ UNCHANGED <<surpassCycles, overrun, pendingEclock, viaLag, frame, ca2, audio_en, elapsed>>
        /\ startGate' = audio_en /\ events' = <<>> /\ disturbed' = FALSE
    BY DEF BeginFrame, blank
  <1>2. LoopTypes'
    BY <1>1 DEF FrameInv, LoopTypes
  <1>3. Progress' /\ surpassCycles' = overrun'
    <2>1. (LoopTypes /\ scanline_start < Lines => request \in Int /\ request >= 1)'
      BY RequestPositive, PTL
    <2> QED BY <1>1, <1>2, <2>1 DEF FrameInv, LoopTypes, Progress
  <1>4. <<>> \in Seq(GateEvent) /\ <<>> \in Seq(AnyEvent) /\ Len(<<>>) = 0
    OBVIOUS
  <1>5. GateTypes'
    <2>1. audio_en' \in BOOLEAN /\ startGate' \in BOOLEAN /\ disturbed' \in BOOLEAN
      BY <1>1 DEF FrameInv, GateTypes
    <2>2. events' \in Seq(AnyEvent) /\ Len(events') <= MaxEvents
      BY <1>1, <1>4
    <2> QED BY <2>1, <2>2 DEF GateTypes
  <1>6. Placed'
    <2>1. EventsBehind' /\ Alternate(events)' /\ Increasing(events)'
      BY <1>1, <1>4 DEF EventsBehind, ListedGate, Alternate, Increasing
    <2> QED BY <1>1, <1>3, <1>4, <2>1 DEF Placed
  <1> QED BY <1>2, <1>3, <1>5, <1>6 DEF FrameInv

LEMMA ToggleFrameInv ==
  ASSUME FrameInv, ToggleGate
  PROVE  FrameInv'
  <1> DEFINE e == Position(cyclesRun, surpassCycles, ~audio_en)
  <1>1. /\ pc = "slice" /\ cyclesRun < request
        /\ UNCHANGED <<pc, scanline_start, cyclesRun, surpassCycles, overrun, pendingEclock, viaLag,
                        frame, ca2, startGate, disturbed, elapsed>>
    BY DEF ToggleGate, clock, blank
  <1>2. audio_en' = ~audio_en /\ events' = Recorded(events, e) /\ audio_en \in BOOLEAN
    BY DEF ToggleGate, Edge, FrameInv, GateTypes
  <1>3. LoopTypes' /\ Progress'
    BY <1>1 DEF FrameInv, LoopTypes, Progress, request, scanline_end
  <1>4. GateTypes'
    <2>1. cyclesRun \in Nat /\ surpassCycles \in Nat
      BY FrameConstants DEF FrameInv, LoopTypes
    <2>2. audio_en' \in BOOLEAN /\ events' \in Seq(AnyEvent) /\ Len(events') <= MaxEvents
      BY <2>1, EdgeTypes DEF FrameInv, ToggleGate
    <2> QED BY <1>1, <2>2 DEF FrameInv, GateTypes
  <1>5. ASSUME ~disturbed'
        PROVE  Placed'
    <2>1. Placed /\ surpassCycles = overrun
      BY <1>1, <1>5 DEF FrameInv, Placed
    <2>2. e \in GateEvent /\ Time(e) = elapsed /\ e.state = ~audio_en
      BY <1>1, <1>2, <2>1, PositionIsNow
    <2> HIDE DEF e
    <2>3. /\ events \in Seq(GateEvent) /\ Len(events) <= MaxEvents /\ startGate \in BOOLEAN
          /\ Alternate(events) /\ Increasing(events)
          /\ \A i \in 1 .. Len(events) : Time(events[i]) <= Time(e)
          /\ \/ audio_en = ListedGate(events)
             \/ Len(events) = MaxEvents /\ Time(events[Len(events)]) < Time(e)
      BY <1>1, <2>1, <2>2 DEF FrameInv, GateTypes, Placed, EventsBehind
    <2> DEFINE new == Recorded(events, e)
    <2>4. /\ new \in Seq(GateEvent) /\ Len(new) <= MaxEvents
          /\ Alternate(new) /\ Increasing(new)
          /\ \A i \in 1 .. Len(new) : Time(new[i]) <= Time(e)
          /\ \/ e.state = ListedGate(new)
             \/ Len(new) = MaxEvents /\ Time(new[Len(new)]) < Time(e)
      BY <1>2, <2>2, <2>3, RecordedKeeps
    <2> HIDE DEF new
    <2>5. events' = new
      BY <1>2 DEF new
    <2>6. Alternate(events)' /\ Increasing(events)'
      BY <1>1, <2>4, <2>5 DEF Alternate, Increasing
    <2>7. EventsBehind'
      BY <1>1, <1>2, <2>2, <2>4, <2>5 DEF EventsBehind, ListedGate
    <2> QED BY <1>1, <2>1, <2>4, <2>5, <2>6, <2>7 DEF Placed
  <1> QED BY <1>3, <1>4, <1>5 DEF FrameInv

(* A RESET forgets the overrun, but the request of the slice does not.     *)
LEMMA ResetFrameInv ==
  ASSUME FrameInv, Reset
  PROVE  FrameInv'
  <1>1. /\ pc = "slice" /\ audio_en' = FALSE /\ surpassCycles' = 0 /\ disturbed' = TRUE
        /\ UNCHANGED <<pc, scanline_start, cyclesRun, overrun, pendingEclock, viaLag, frame, ca2,
                        startGate, events, elapsed>>
    BY DEF Reset, blank, sound
  <1>2. LoopTypes'
    BY <1>1, FrameConstants DEF FrameInv, LoopTypes
  <1>3. Progress'
    BY <1>1 DEF FrameInv, Progress, request, scanline_end
  <1>4. GateTypes'
    BY <1>1 DEF FrameInv, GateTypes
  <1> QED BY <1>1, <1>2, <1>3, <1>4 DEF FrameInv

LEMMA InstructionFrameInv ==
  ASSUME FrameInv, NEW cycles \in 1 .. MaxInstr, Instruction(cycles)
  PROVE  FrameInv'
  <1> USE FrameConstants
  <1>1. /\ pc = "slice" /\ cyclesRun < request
        /\ cyclesRun' = cyclesRun + cycles /\ elapsed' = elapsed + cycles
        /\ UNCHANGED <<pc, scanline_start, surpassCycles, overrun, pendingEclock, viaLag, frame, ca2>>
    BY DEF Instruction, blank
  <1>2. UNCHANGED <<audio_en, startGate, events, disturbed>>
    BY DEF Instruction, sound
  <1>3. LoopTypes'
    BY <1>1 DEF FrameInv, LoopTypes
  <1>4. Progress'
    <2>1. request' = request
      BY <1>1 DEF request, scanline_end
    <2>2. request \in Int
      BY <1>1, RequestPositive DEF FrameInv, Progress
    <2>3. cyclesRun' < request' + MaxInstr
      BY <1>1, <2>1, <2>2 DEF FrameInv, LoopTypes
    <2>4. scanline_start * LineCycles \in Nat
      BY DEF FrameInv, LoopTypes
    <2>5. elapsed' = scanline_start * LineCycles + overrun + cyclesRun'
      BY <1>1, <2>4 DEF FrameInv, LoopTypes, Progress
    <2> QED BY <1>1, <2>3, <2>5 DEF FrameInv, Progress
  <1>5. GateTypes'
    BY <1>2 DEF FrameInv, GateTypes
  <1>6. ASSUME Placed
        PROVE  Placed'
    <2>1. \A i \in 1 .. Len(events) : Time(events[i]) \in Nat
      <3>1. \A i \in 1 .. Len(events) : events[i] \in GateEvent
        BY <1>6 DEF Placed
      <3> QED BY <3>1, TimeOrder
    <2>2. \A i \in 1 .. Len(events) : Time(events[i]) <= elapsed'
      BY <1>1, <1>6, <2>1 DEF FrameInv, LoopTypes, Placed, EventsBehind
    <2>3. \/ audio_en = ListedGate(events)
          \/ Len(events) = MaxEvents /\ Time(events[Len(events)]) < elapsed'
      <3>1. CASE audio_en = ListedGate(events)
        BY <3>1
      <3>2. CASE Len(events) = MaxEvents /\ Time(events[Len(events)]) < elapsed
        <4>1. Len(events) \in 1 .. Len(events)
          BY <3>2, FrameConstants
        <4> QED BY <1>1, <2>1, <3>2, <4>1 DEF FrameInv, LoopTypes
      <3> QED BY <1>1, <1>6, <3>1, <3>2 DEF Placed, EventsBehind
    <2>4. EventsBehind'
      BY <1>2, <2>2, <2>3 DEF EventsBehind, ListedGate
    <2> QED BY <1>1, <1>2, <1>6, <2>4 DEF Placed, Alternate, Increasing
  <1> QED BY <1>2, <1>3, <1>4, <1>5, <1>6 DEF FrameInv

(* What m68k_cycles_run() may say at the end of a slice is no less than 0. *)
LEMMA RunAtEndIsNat ==
  ASSUME FrameInv, NEW run \in RunAtEnd
  PROVE  run \in Nat
  <1> USE FrameConstants
  <1>1. CASE run = cyclesRun
    BY <1>1 DEF FrameInv, LoopTypes
  <1>2. CASE \E lines \in 1 .. Lines, o \in 0 .. MaxInstr - 1 : run = LineCycles * lines - o
    <2>1. PICK lines \in 1 .. Lines, o \in 0 .. MaxInstr - 1 : run = LineCycles * lines - o
      BY <1>2
    <2>2. LineCycles * lines >= LineCycles * 1
      OBVIOUS
    <2> QED BY <2>1, <2>2
  <1> QED BY <1>1, <1>2 DEF RunAtEnd

LEMMA EndSliceFrameInv ==
  ASSUME FrameInv, EndSlice
  PROVE  FrameInv'
  <1> USE FrameConstants
  <1>1. /\ pc = "slice" /\ cyclesRun >= request /\ surpassCycles' = cyclesRun - request
        /\ overrun' = surpassCycles' /\ scanline_start' = scanline_end /\ cyclesRun' = 0
        /\ pc' = IF scanline_end = Lines THEN "push" ELSE "slice"
        /\ UNCHANGED <<frame, ca2, elapsed>>
    BY DEF EndSlice, blank
  <1>2. /\ scanline_end \in scanline_start + 1 .. Lines
        /\ request \in Int /\ request >= 1
        /\ scanline_start * LineCycles + request + overrun = scanline_end * LineCycles
    BY <1>1, RequestPositive DEF FrameInv, Progress
  <1>3. pendingEclock' \in 0 .. EclockDiv - 1 /\ viaLag' = pendingEclock'
    <2> DEFINE x == pendingEclock + cyclesRun
               D == EclockDiv
    <2>1. /\ D \in Nat \ {0} /\ x \in Nat /\ viaLag = pendingEclock /\ pendingEclock \in Nat
          /\ cyclesRun \in Nat
      BY DEF FrameInv, LoopTypes
    <2>2. pendingEclock' = x % D /\ viaLag' = viaLag + cyclesRun - D * (x \div D)
      BY DEF EndSlice, PendingEclock
    <2>3. viaLag + cyclesRun = x
      BY <2>1
    <2> HIDE DEF x, D
    <2>4. x = D * (x \div D) + (x % D) /\ x % D \in 0 .. D - 1 /\ x \div D \in Int
      BY <2>1
    <2>5. D * (x \div D) \in Int
      BY <2>1, <2>4
    <2> QED BY <2>1, <2>2, <2>3, <2>4, <2>5 DEF D
  <1>4. surpassCycles' \in 0 .. MaxInstr - 1
    BY <1>1, <1>2 DEF FrameInv, LoopTypes, Progress
  <1>5. LoopTypes'
    BY <1>1, <1>2, <1>3, <1>4 DEF FrameInv, LoopTypes
  <1>6. elapsed' = scanline_start' * LineCycles + overrun' + cyclesRun'
    <2>1. scanline_start * LineCycles \in Nat /\ scanline_end * LineCycles \in Nat
      BY <1>2 DEF FrameInv, LoopTypes
    <2>2. elapsed = scanline_start * LineCycles + overrun + cyclesRun
      BY <1>1 DEF FrameInv, Progress
    <2>3. elapsed = scanline_end * LineCycles + (cyclesRun - request)
      BY <1>2, <2>1, <2>2 DEF FrameInv, LoopTypes
    <2> QED BY <1>1, <1>4, <2>1, <2>3
  <1>7. Progress'
    <2>1. (LoopTypes /\ scanline_start < Lines => request \in Int /\ request >= 1)'
      BY RequestPositive, PTL
    <2>2. pc' = "push" => scanline_start' = Lines
      BY <1>1
    <2>3. pc' = "slice" => scanline_start' < Lines
      BY <1>1, <1>2 DEF FrameInv, LoopTypes
    <2>4. pc' # "begin"
      BY <1>1
    <2> QED BY <1>1, <1>5, <1>6, <2>1, <2>2, <2>3, <2>4 DEF Progress
  <1>8. CASE TimerEdge
    <2>1. PICK run \in RunAtEnd : Edge(run, surpassCycles')
      BY <1>8 DEF TimerEdge
    <2>2. run \in Nat /\ surpassCycles' \in Nat
      BY <1>4, RunAtEndIsNat
    <2>3. audio_en' \in BOOLEAN /\ events' \in Seq(AnyEvent) /\ Len(events') <= MaxEvents
      <3> DEFINE surpass == surpassCycles'
      <3>1. surpass \in Nat /\ Edge(run, surpass)
        BY <2>1, <2>2
      <3> HIDE DEF surpass
      <3> QED BY <2>2, <3>1, EdgeTypes DEF FrameInv
    <2>4. disturbed' = TRUE /\ startGate' = startGate
      BY <1>8 DEF TimerEdge
    <2>5. GateTypes'
      BY <2>3, <2>4 DEF FrameInv, GateTypes
    <2> QED BY <1>5, <1>7, <2>4, <2>5 DEF FrameInv
  <1>9. CASE UNCHANGED <<audio_en, sound, disturbed, on>>
    <2>1. UNCHANGED <<audio_en, startGate, events, disturbed>>
      BY <1>9 DEF sound
    <2>2. GateTypes'
      BY <2>1 DEF FrameInv, GateTypes
    <2>3. ASSUME Placed
          PROVE  Placed'
      BY <1>1, <2>1, <2>3 DEF Placed, Alternate, Increasing, EventsBehind, ListedGate
    <2> QED BY <1>5, <1>7, <2>1, <2>2, <2>3 DEF FrameInv
  <1> QED BY <1>8, <1>9 DEF EndSlice

LEMMA EndFrameInv ==
  ASSUME FrameInv, EndFrame
  PROVE  FrameInv'
  <1> USE FrameConstants
  <1>1. /\ pc = "push" /\ pc' = "begin" /\ elapsed' = elapsed - FrameCycles
        /\ UNCHANGED <<scanline_start, cyclesRun, surpassCycles, overrun, pendingEclock, viaLag>>
    BY DEF EndFrame, clock
  <1>2. UNCHANGED <<audio_en, startGate, events, disturbed>>
    BY DEF EndFrame, sound
  <1>3. frame' \in 0 .. VblRate - 1 /\ ca2' = (IF frame' = VblRate - 1 THEN 1 ELSE 0)
    BY DEF FrameInv, LoopTypes, EndFrame
  <1>4. elapsed' = overrun /\ cyclesRun = 0
    <2>1. Lines * LineCycles \in Nat
      OBVIOUS
    <2>2. elapsed = Lines * LineCycles + overrun + cyclesRun /\ cyclesRun = 0
      BY <1>1 DEF FrameInv, Progress
    <2> QED BY <1>1, <2>1, <2>2 DEF FrameInv, LoopTypes, FrameCycles
  <1>5. LoopTypes' /\ Progress'
    BY <1>1, <1>3, <1>4 DEF FrameInv, LoopTypes, Progress
  <1>6. GateTypes' /\ (Placed => Placed')
    BY <1>1, <1>2 DEF FrameInv, GateTypes, Placed, Alternate, Increasing, EventsBehind
  <1> QED BY <1>2, <1>5, <1>6 DEF FrameInv

LEMMA NextFrameInv == FrameInv /\ [FrameNext]_frameVars => FrameInv'
  <1> SUFFICES ASSUME FrameInv, [FrameNext]_frameVars PROVE FrameInv'
    OBVIOUS
  <1>1. CASE UNCHANGED frameVars
    BY <1>1 DEF frameVars, clock, blank, sound, FrameInv, LoopTypes, Progress, request, scanline_end,
                GateTypes, Placed, EventsBehind, Alternate, Increasing, ListedGate
  <1> QED
    BY <1>1, BeginFrameInv, ToggleFrameInv, ResetFrameInv, EndSliceFrameInv, EndFrameInv,
       InstructionFrameInv
       DEF FrameNext

LEMMA FrameInvImplies == FrameInv => TimelineKept
  <1> USE FrameConstants
  <1> SUFFICES ASSUME FrameInv PROVE TimelineKept
    OBVIOUS
  <1>1. cyclesRun \in 0 .. FrameCycles + MaxInstr - 1
    <2>1. Lines * LineCycles \in Nat
      OBVIOUS
    <2>2. CASE pc = "slice"
      BY <2>1, <2>2, RequestPositive DEF FrameInv, LoopTypes, Progress, FrameCycles
    <2>3. CASE pc # "slice"
      BY <2>1, <2>3 DEF FrameInv, LoopTypes, Progress, FrameCycles
    <2> QED BY <2>2, <2>3
  <1>2. events \in Seq(AnyEvent) /\ DOMAIN events = 1 .. Len(events) /\ Len(events) \in Nat
    BY DEF FrameInv, GateTypes
  <1>3. \A i \in DOMAIN events : events[i] \in AnyEvent
    BY <1>2
  <1>4. ASSUME ~disturbed
        PROVE  EventsOrdered /\ \A i \in DOMAIN events : events[i].line < Lines
    <2>1. \A i \in DOMAIN events : events[i] \in GateEvent
      BY <1>2, <1>4 DEF FrameInv, Placed
    <2>2. \A i \in DOMAIN events : events[i].line < Lines
      BY <2>1 DEF GateEvent
    <2> SUFFICES ASSUME NEW i \in 1 .. Len(events)
                 PROVE  /\ events[i].state # IF i = 1 THEN startGate ELSE events[i - 1].state
                        /\ i > 1 => \/ events[i - 1].line < events[i].line
                                    \/ /\ events[i - 1].line = events[i].line
                                       /\ events[i - 1].cycle < events[i].cycle
      BY <1>2, <2>2 DEF EventsOrdered
    <2>3. events[i].state # IF i = 1 THEN startGate ELSE events[i - 1].state
      BY <1>4 DEF FrameInv, Placed, Alternate
    <2>4. ASSUME i > 1
          PROVE  \/ events[i - 1].line < events[i].line
                 \/ /\ events[i - 1].line = events[i].line
                    /\ events[i - 1].cycle < events[i].cycle
      <3>1. i \in 2 .. Len(events) /\ i - 1 \in DOMAIN events /\ i \in DOMAIN events
        BY <1>2, <2>4
      <3>2. Time(events[i - 1]) < Time(events[i])
        BY <1>4, <3>1 DEF FrameInv, Placed, Increasing
      <3> QED BY <2>1, <3>1, <3>2, TimeOrder
    <2> QED BY <2>3, <2>4
  <1>5. FrameTypeOK
    <2>1. \A i \in DOMAIN events :
             events[i] \in [line : Nat, cycle : 0 .. LineCycles - 1, state : BOOLEAN]
      BY <1>3 DEF AnyEvent
    <2>2. {surpassCycles, overrun} \subseteq 0 .. MaxInstr - 1
      BY DEF FrameInv, LoopTypes
    <2>3. {audio_en, startGate, disturbed} \subseteq BOOLEAN /\ Len(events) <= MaxEvents
      BY DEF FrameInv, GateTypes
    <2> QED BY <1>1, <1>4, <2>1, <2>2, <2>3 DEF FrameInv, LoopTypes, FrameTypeOK
  <1> QED BY <1>5 DEF FrameInv, LoopTypes, Progress, TimelineKept

(* The machine's cycles, its scanlines and the clock of the VIA never part *)
(* but by one instruction's overrun and a broken E clock, and the edges of *)
(* the gate are listed in order, whatever lengths the slices and the       *)
(* instructions have (tmeStartEmu and recordSoundGateEvent, tme/emu.c).    *)
(* A RESET and an edge of timer 1 spare the cycles and the clock too, and  *)
(* undo the order of the edges until the frame ends.                       *)
THEOREM FrameTimelineKept == FrameSpec => []TimelineKept
  BY InitFrameInv, NextFrameInv, FrameInvImplies, PTL DEF FrameSpec
----------------------------------------------------------------------------
(***************************************************************************)
(* Induction and recursion.  The loops of the renderers are recursive      *)
(* functions (module SoundRender); that one exists, and the set its values *)
(* lie in, follow from the least counterexample of a set of numbers.       *)
(***************************************************************************)
\* Induction over the natural numbers, for a set instead of a predicate.
LEMMA SetInduction ==
  ASSUME NEW S, 0 \in S, \A n \in Nat : n \in S => n + 1 \in S
  PROVE  Nat \subseteq S
  <1> DEFINE T == Nat \ S
             R == OpToRel(<, Nat)
  <1> SUFFICES ASSUME T # {} PROVE FALSE
    OBVIOUS
  <1>1. IsWellFoundedOn(R, Nat)
    BY NatLessThanWellFounded
  <1>2. \A x, y \in T : <<y, x>> \in R <=> y < x
    BY DEF OpToRel
  <1> HIDE DEF R
  <1>3. PICK n \in T : \A m \in T : ~ (<<m, n>> \in R)
    BY <1>1, WFMin
  <1>4. \A m \in T : ~(m < n)
    BY <1>2, <1>3
  <1>5. n # 0 /\ n - 1 \in Nat /\ n - 1 \notin T
    BY <1>4
  <1> QED BY <1>5, (n - 1) + 1 = n

\* What a recursive function of the number of rounds says of its values.
Recursion(f, N, b, step) ==
    f = [n \in 0 .. N |-> IF n = 0 THEN b ELSE step[<<n, f[n - 1]>>]]

\* A recursion over an interval of numbers has a function.
LEMMA RecursionExists ==
  ASSUME NEW N \in Nat, NEW S, NEW b \in S, NEW step \in [(1 .. N) \X S -> S]
  PROVE  \E f \in [0 .. N -> S] : Recursion(f, N, b, step)
  <1> DEFINE Good == {n \in Nat : n <= N =>
                        \E f \in [0 .. n -> S] :
                            f[0] = b /\ \A i \in 1 .. n : f[i] = step[<<i, f[i - 1]>>]}
  <1>1. 0 \in Good
    <2> DEFINE f == [i \in 0 .. 0 |-> b]
    <2>1. f \in [0 .. 0 -> S] /\ f[0] = b /\ \A i \in 1 .. 0 : FALSE
      OBVIOUS
    <2> QED BY <2>1
  <1>2. ASSUME NEW n \in Nat, n \in Good PROVE n + 1 \in Good
    <2> SUFFICES ASSUME n + 1 <= N
                 PROVE  \E f \in [0 .. n + 1 -> S] :
                          f[0] = b /\ \A i \in 1 .. n + 1 : f[i] = step[<<i, f[i - 1]>>]
      OBVIOUS
    <2>1. PICK g \in [0 .. n -> S] : g[0] = b /\ \A i \in 1 .. n : g[i] = step[<<i, g[i - 1]>>]
      BY <1>2
    <2>2. step[<<n + 1, g[n]>>] \in S
      OBVIOUS
    <2> DEFINE f == [i \in 0 .. n + 1 |-> IF i = n + 1 THEN step[<<n + 1, g[n]>>] ELSE g[i]]
    <2>3. f \in [0 .. n + 1 -> S] /\ f[0] = b
      BY <2>1, <2>2
    <2>4. ASSUME NEW i \in 1 .. n + 1 PROVE f[i] = step[<<i, f[i - 1]>>]
      <3>1. i - 1 \in 0 .. n /\ f[i - 1] = g[i - 1]
        OBVIOUS
      <3>2. CASE i = n + 1
        <4>1. f[n + 1] = step[<<n + 1, g[n]>>]
          OBVIOUS
        <4>2. f[i - 1] = g[n]
          BY <3>1, <3>2
        <4> HIDE DEF f
        <4> QED BY <3>2, <4>1, <4>2
      <3>3. CASE i # n + 1
        BY <2>1, <3>1, <3>3
      <3> QED BY <3>2, <3>3
    <2> QED BY <2>3, <2>4
  <1> HIDE DEF Good
  <1>3. N \in Good
    BY <1>1, <1>2, SetInduction
  <1>4. PICK f \in [0 .. N -> S] : f[0] = b /\ \A i \in 1 .. N : f[i] = step[<<i, f[i - 1]>>]
    BY <1>3 DEF Good
  <1>5. ASSUME NEW n \in 0 .. N PROVE f[n] = IF n = 0 THEN b ELSE step[<<n, f[n - 1]>>]
    BY <1>4, n = 0 \/ n \in 1 .. N
  <1>6. f = [n \in 0 .. N |-> f[n]]
    BY <1>4
  <1>7. Recursion(f, N, b, step)
    BY <1>5, <1>6 DEF Recursion
  <1> QED BY <1>7

\* A function with the recursion's equations has its values.
Computes(F, N, S, b, step) ==
    F[0] = b /\ \A n \in 1 .. N : F[n - 1] \in S => F[n] = step[<<n, F[n - 1]>>]

\* The values of a recursion lie in the set its steps keep to.
LEMMA RecursionTyped ==
  ASSUME NEW N \in Nat, NEW S, NEW b \in S, NEW step \in [(1 .. N) \X S -> S],
         NEW F, Computes(F, N, S, b, step)
  PROVE  \A n \in 0 .. N : F[n] \in S
  <1> DEFINE Good == {n \in Nat : n <= N => F[n] \in S}
  <1>1. 0 \in Good
    BY DEF Computes
  <1>2. ASSUME NEW n \in Nat, n \in Good PROVE n + 1 \in Good
    <2> SUFFICES ASSUME n + 1 <= N PROVE F[n + 1] \in S
      OBVIOUS
    <2>1. n + 1 \in 1 .. N /\ (n + 1) - 1 = n /\ F[n] \in S
      BY <1>2
    <2>2. F[n + 1] = step[<<n + 1, F[n]>>]
      BY <2>1 DEF Computes
    <2> QED BY <2>1, <2>2
  <1>3. \A n \in 0 .. N : n \in Good
    <2> HIDE DEF Good
    <2> QED BY <1>1, <1>2, SetInduction
  <1> QED BY <1>3

----------------------------------------------------------------------------
(***************************************************************************)
(* What the RMT output plays.                                              *)
(***************************************************************************)
Level   == {0, 1}
Symbols == RmtSlots \X RmtSlots
Writers == [out : Seq(Symbols), pending : Carried \cup Symbols]

\* A level held for some ticks.
Held(level, ticks) == [t \in 1 .. ticks |-> level]

\* A held level has its length and the level throughout.
LEMMA HeldType ==
  ASSUME NEW level \in Level, NEW n \in Nat
  PROVE  /\ Held(level, n) \in Seq(Level) /\ Len(Held(level, n)) = n
         /\ \A t \in 1 .. n : Held(level, n)[t] = level
  BY DEF Held

\* A level held for no tick is silence.
LEMMA HeldNothing ==
  ASSUME NEW level
  PROVE  Held(level, 0) = <<>>
  BY DEF Held

\* One waveform after another.
Then(s, t) == s \o t

\* Two waveforms one after the other, tick by tick.
LEMMA ThenIs ==
  ASSUME NEW s \in Seq(Level), NEW t \in Seq(Level)
  PROVE  /\ Then(s, t) \in Seq(Level) /\ Len(Then(s, t)) = Len(s) + Len(t)
         /\ \A i \in 1 .. Len(s) : Then(s, t)[i] = s[i]
         /\ \A i \in 1 .. Len(t) : Then(s, t)[Len(s) + i] = t[i]
         /\ Then(s, <<>>) = s /\ Then(<<>>, t) = t
  BY ConcatProperties, ConcatEmptySeq DEF Then

\* Three waveforms in a row can be joined from either end.
LEMMA ThenTwice ==
  ASSUME NEW s \in Seq(Level), NEW t \in Seq(Level), NEW u \in Seq(Level)
  PROVE  Then(Then(s, t), u) = Then(s, Then(t, u))
  BY ConcatAssociative DEF Then

\* A level held twice is held for the sum.
LEMMA HeldTwice ==
  ASSUME NEW level \in Level, NEW m \in Nat, NEW n \in Nat
  PROVE  Then(Held(level, m), Held(level, n)) = Held(level, m + n)
  <1>1. /\ Held(level, m) \in Seq(Level) /\ Len(Held(level, m)) = m
        /\ Held(level, n) \in Seq(Level) /\ Len(Held(level, n)) = n
        /\ Held(level, m + n) \in Seq(Level) /\ Len(Held(level, m + n)) = m + n
        /\ \A t \in 1 .. m : Held(level, m)[t] = level
        /\ \A t \in 1 .. n : Held(level, n)[t] = level
        /\ \A t \in 1 .. m + n : Held(level, m + n)[t] = level
    BY HeldType, m + n \in Nat
  <1> DEFINE a == Held(level, m)
             b == Held(level, n)
             c == Held(level, m + n)
  <1>0. a \in Seq(Level) /\ Len(a) = m /\ (\A t \in 1 .. m : a[t] = level)
        /\ b \in Seq(Level) /\ Len(b) = n /\ (\A t \in 1 .. n : b[t] = level)
    BY <1>1
  <1> HIDE DEF a, b, c
  <1>2. /\ Then(a, b) \in Seq(Level) /\ Len(Then(a, b)) = m + n
        /\ \A i \in 1 .. m : Then(a, b)[i] = level
        /\ \A i \in 1 .. n : Then(a, b)[m + i] = level
    <2>1. Then(a, b) \in Seq(Level) /\ Len(Then(a, b)) = Len(a) + Len(b)
      BY <1>0, ThenIs
    <2>2. \A i \in 1 .. Len(a) : Then(a, b)[i] = a[i]
      BY <1>0, ThenIs
    <2>3. \A i \in 1 .. Len(b) : Then(a, b)[Len(a) + i] = b[i]
      BY <1>0, ThenIs
    <2> QED BY <1>0, <2>1, <2>2, <2>3
  <1>3. \A t \in 1 .. m + n : Then(a, b)[t] = c[t]
    <2> SUFFICES ASSUME NEW t \in 1 .. m + n PROVE Then(a, b)[t] = level
      BY <1>1 DEF c
    <2>1. CASE t <= m
      BY <1>2, <2>1
    <2>2. CASE ~(t <= m)
      <3>1. t - m \in 1 .. n /\ m + (t - m) = t
        BY <2>2
      <3> QED BY <1>2, <3>1
    <2> QED BY <2>1, <2>2
  <1>4. c \in Seq(Level) /\ Len(c) = m + n
    BY <1>1 DEF c
  <1>5. Then(a, b) = c
    BY <1>2, <1>3, <1>4, SeqEqual
  <1> QED BY <1>5 DEF a, b, c

\* A slot plays its level for its ticks.
LEMMA SlotWaveIs ==
  ASSUME NEW slot \in RmtSlots
  PROVE  /\ slot.level \in Level /\ slot.ticks \in 1 .. MaxDuration /\ slot.ticks \in Nat
         /\ SlotWave(slot) = Held(slot.level, slot.ticks)
         /\ SlotWave(slot) \in Seq(Level) /\ Len(SlotWave(slot)) = slot.ticks
  <1>1. slot.level \in Level /\ slot.ticks \in 1 .. MaxDuration /\ slot.ticks \in Nat
    BY SoundRenderAssumption DEF RmtSlots, Level
  <1>2. SlotWave(slot) = Held(slot.level, slot.ticks)
    BY DEF SlotWave, Held
  <1> QED BY <1>1, <1>2, HeldType

\* A symbol plays its slots in their order.
LEMMA SymbolWaveIs ==
  /\ SymbolWave(<<>>) = <<>>
  /\ \A s \in RmtSlots : SymbolWave(<<s>>) = SlotWave(s)
  /\ \A s \in RmtSlots, r \in RmtSlots : SymbolWave(<<s, r>>) = Then(SlotWave(s), SlotWave(r))
  /\ \A symbol \in Carried \cup Symbols : SymbolWave(symbol) \in Seq(Level)
  <1>1. SymbolWave(<<>>) = <<>> /\ <<>> \in Seq(Level)
    BY DEF SymbolWave
  <1>2. ASSUME NEW s \in RmtSlots PROVE SymbolWave(<<s>>) = SlotWave(s)
    <2>1. <<s>> # <<>> /\ Len(<<s>>) = 1 /\ <<s>>[1] = s
      OBVIOUS
    <2> QED BY <2>1 DEF SymbolWave
  <1>3. ASSUME NEW s \in RmtSlots, NEW r \in RmtSlots
        PROVE  SymbolWave(<<s, r>>) = Then(SlotWave(s), SlotWave(r))
    <2>1. <<s, r>> # <<>> /\ Len(<<s, r>>) = 2 /\ <<s, r>>[1] = s /\ <<s, r>>[2] = r
      OBVIOUS
    <2> QED BY <2>1 DEF SymbolWave, Then
  <1>4. ASSUME NEW symbol \in Carried \cup Symbols PROVE SymbolWave(symbol) \in Seq(Level)
    <2>1. CASE symbol = <<>>
      BY <1>1, <2>1
    <2>2. ASSUME NEW s \in RmtSlots, symbol = <<s>> PROVE SymbolWave(symbol) \in Seq(Level)
      BY <1>2, <2>2, SlotWaveIs
    <2>3. ASSUME NEW s \in RmtSlots, NEW r \in RmtSlots, symbol = <<s, r>>
          PROVE  SymbolWave(symbol) \in Seq(Level)
      <3>1. SlotWave(s) \in Seq(Level) /\ SlotWave(r) \in Seq(Level)
        BY SlotWaveIs
      <3> QED BY <1>3, <2>3, <3>1, ThenIs
    <2>4. symbol \in Symbols => symbol = <<symbol[1], symbol[2]>> /\ symbol[1] \in RmtSlots
                                  /\ symbol[2] \in RmtSlots
      BY DEF Symbols
    <2>5. symbol \in Carried => symbol = <<>> \/ \E s \in RmtSlots : symbol = <<s>>
      BY DEF Carried
    <2> QED BY <2>1, <2>2, <2>3, <2>4, <2>5
  <1> QED BY <1>1, <1>2, <1>3, <1>4

(* The waves of a list of symbols are those of its beginnings.             *)
LEMMA WavesIs ==
  ASSUME NEW symbols \in Seq(Symbols)
  PROVE  /\ Waves(symbols)[0] = <<>>
         /\ \A n \in 1 .. Len(symbols) :
                Waves(symbols)[n] = Then(Waves(symbols)[n - 1], SymbolWave(symbols[n]))
         /\ \A n \in 0 .. Len(symbols) : Waves(symbols)[n] \in Seq(Level)
  <1> DEFINE N == Len(symbols)
             Add(w, n) == Then(w, SymbolWave(symbols[n]))
             none == <<>>
             step == [p \in (1 .. N) \X Seq(Level) |-> Add(p[2], p[1])]
             Wave[n \in 0 .. N] == IF n = 0 THEN none ELSE Add(Wave[n - 1], n)
             R(h) == [n \in 0 .. N |-> IF n = 0 THEN none ELSE Add(h[n - 1], n)]
  <1>1. N \in Nat /\ none \in Seq(Level)
    OBVIOUS
  <1>2. Waves(symbols) = Wave
    BY DEF Waves, Then
  <1>3. ASSUME NEW n \in 1 .. N, NEW w \in Seq(Level) PROVE Add(w, n) \in Seq(Level)
    <2>1. symbols[n] \in Carried \cup Symbols
      OBVIOUS
    <2>2. SymbolWave(symbols[n]) \in Seq(Level)
      BY <2>1, SymbolWaveIs
    <2> QED BY <2>2, ThenIs
  <1>4. Wave = CHOOSE h : h = R(h)
    OBVIOUS
  <1> HIDE DEF N, Add, none, Wave
  <1>5. step \in [(1 .. N) \X Seq(Level) -> Seq(Level)]
        /\ \A n \in 1 .. N, w \in Seq(Level) : step[<<n, w>>] = Add(w, n)
    BY <1>3
  <1> HIDE DEF step
  <1>6. PICK f \in [0 .. N -> Seq(Level)] :
          Recursion(f, N, none, step)
    BY <1>1, <1>5, RecursionExists
  <1>7. f = R(f)
    <2>1. ASSUME NEW n \in 0 .. N, n # 0 PROVE step[<<n, f[n - 1]>>] = Add(f[n - 1], n)
      <3>1. n - 1 \in 0 .. N /\ n \in 1 .. N
        BY <1>1, <2>1
      <3> QED BY <1>5, <3>1
    <2> QED BY <1>6, <2>1 DEF Recursion
  <1>8. Wave = R(Wave)
    BY <1>4, <1>7
  <1> HIDE DEF R
  <1>9. Wave[0] = none /\ \A n \in 1 .. N : Wave[n] = Add(Wave[n - 1], n)
    BY <1>1, <1>8 DEF R
  <1>10. \A n \in 0 .. N : Wave[n] \in Seq(Level)
    <2>1. Computes(Wave, N, Seq(Level), none, step)
      BY <1>5, <1>9 DEF Computes
    <2> QED BY <1>1, <1>5, <2>1, RecursionTyped
  <1> QED BY <1>2, <1>9, <1>10 DEF N, Add, none

\* A symbol added to a stream is played at its end.
LEMMA WavesAppend ==
  ASSUME NEW symbols \in Seq(Symbols), NEW symbol \in Symbols
  PROVE  Waves(Append(symbols, symbol))[Len(symbols) + 1]
           = Then(Waves(symbols)[Len(symbols)], SymbolWave(symbol))
  <1> DEFINE N == Len(symbols)
             new == Append(symbols, symbol)
             Good == {n \in Nat : n <= N => Waves(new)[n] = Waves(symbols)[n]}
  <1>1. /\ N \in Nat /\ new \in Seq(Symbols) /\ Len(new) = N + 1 /\ new[N + 1] = symbol
        /\ \A n \in 1 .. N : new[n] = symbols[n]
    OBVIOUS
  <1> HIDE DEF new
  <1>2. 0 \in Good
    BY <1>1, WavesIs
  <1>3. ASSUME NEW n \in Nat, n \in Good PROVE n + 1 \in Good
    <2> SUFFICES ASSUME n + 1 <= N PROVE Waves(new)[n + 1] = Waves(symbols)[n + 1]
      OBVIOUS
    <2>1. n + 1 \in 1 .. N /\ n + 1 \in 1 .. N + 1 /\ (n + 1) - 1 = n
          /\ Waves(new)[n] = Waves(symbols)[n]
      BY <1>1, <1>3
    <2>2. Waves(new)[n + 1] = Then(Waves(new)[n], SymbolWave(new[n + 1]))
      BY <1>1, <2>1, WavesIs
    <2>3. Waves(symbols)[n + 1] = Then(Waves(symbols)[n], SymbolWave(symbols[n + 1]))
      BY <1>1, <2>1, WavesIs
    <2> QED BY <1>1, <2>1, <2>2, <2>3
  <1>4. N \in Good
    <2> HIDE DEF Good
    <2> QED BY <1>1, <1>2, <1>3, SetInduction
  <1>5. Waves(new)[N + 1] = Then(Waves(new)[N], SymbolWave(new[N + 1]))
    BY <1>1, WavesIs, N + 1 \in 1 .. N + 1, (N + 1) - 1 = N
  <1>6. Waves(new)[N + 1] = Then(Waves(symbols)[N], SymbolWave(symbol))
    <2>1. Waves(new)[N] = Waves(symbols)[N]
      BY <1>1, <1>4
    <2> QED BY <1>1, <1>5, <2>1
  <1> QED BY <1>6 DEF new, N

(* A writer plays a sequence of levels.                                    *)
LEMMA WaveformType ==
  ASSUME NEW w \in Writers
  PROVE  /\ w.out \in Seq(Symbols) /\ Waves(w.out)[Len(w.out)] \in Seq(Level)
         /\ SymbolWave(w.pending) \in Seq(Level) /\ Waveform(w) \in Seq(Level)
  <1>1. w.out \in Seq(Symbols) /\ w.pending \in Carried \cup Symbols
    BY DEF Writers
  <1>2. Len(w.out) \in 0 .. Len(w.out)
    BY <1>1
  <1>3. Waves(w.out)[Len(w.out)] \in Seq(Level) /\ SymbolWave(w.pending) \in Seq(Level)
    BY <1>1, <1>2, WavesIs, SymbolWaveIs
  <1> QED BY <1>1, <1>3, ThenIs DEF Waveform, Then

(* Symbols complete or not are written without changing what is played.    *)
LEMMA FlushKeeps ==
  ASSUME NEW w \in Writers
  PROVE  /\ Flush(w) \in Writers /\ Flush(w).pending \in Carried
         /\ Waveform(Flush(w)) = Waveform(w)
         /\ w.pending \in Symbols => Flush(w).pending = <<>>
  <1>1. w.out \in Seq(Symbols) /\ w.pending \in Carried \cup Symbols
    BY DEF Writers
  <1>2. \A p \in Carried : Len(p) < 2
    BY DEF Carried
  <1>3. \A p \in Symbols : Len(p) = 2
    BY DEF Symbols
  <1>4. CASE w.pending \in Carried
    <2>1. Flush(w) = w
      BY <1>2, <1>4 DEF Flush
    <2> QED BY <1>2, <1>3, <1>4, <2>1
  <1>5. CASE w.pending \in Symbols
    <2> DEFINE new == [out |-> Append(w.out, w.pending), pending |-> <<>>]
    <2>0. ~(Len(w.pending) < 2)
      BY <1>3, <1>5
    <2>1. Flush(w) = new
      BY <2>0 DEF Flush
    <2>2. <<>> \in Carried
      BY DEF Carried
    <2>3. /\ new.out = Append(w.out, w.pending) /\ new.pending = <<>>
          /\ new.out \in Seq(Symbols) /\ Len(new.out) = Len(w.out) + 1
      BY <1>1, <1>5
    <2>4. new \in Writers
      BY <2>2, <2>3 DEF Writers
    <2>5. Waves(new.out)[Len(new.out)] = Then(Waves(w.out)[Len(w.out)], SymbolWave(w.pending))
      BY <1>1, <1>5, <2>3, WavesAppend
    <2>6. Waveform(new) = Then(Then(Waves(w.out)[Len(w.out)], SymbolWave(w.pending)), <<>>)
      BY <2>3, <2>5, SymbolWaveIs DEF Waveform, Then
    <2>7. Waveform(w) = Then(Waves(w.out)[Len(w.out)], SymbolWave(w.pending))
      BY DEF Waveform, Then
    <2> HIDE DEF new
    <2>8. Waveform(new) = Waveform(w)
      BY <2>6, <2>7, WaveformType, ThenIs
    <2> QED BY <2>1, <2>2, <2>3, <2>4, <2>8
  <1> QED BY <1>1, <1>4, <1>5

\* What is added to the pending symbol is played at the end.
LEMMA PendingIs ==
  ASSUME NEW w \in Writers, NEW v \in Writers, NEW more \in Seq(Level),
         v.out = w.out, SymbolWave(v.pending) = Then(SymbolWave(w.pending), more)
  PROVE  Waveform(v) = Then(Waveform(w), more)
  <1> DEFINE before == Waves(w.out)[Len(w.out)]
             sw == SymbolWave(w.pending)
  <1>1. Waveform(w) = Then(before, sw) /\ Waveform(v) = Then(before, SymbolWave(v.pending))
    BY DEF Waveform, Then
  <1>2. before \in Seq(Level) /\ sw \in Seq(Level)
    BY WaveformType
  <1>3. SymbolWave(v.pending) = Then(sw, more)
    OBVIOUS
  <1> HIDE DEF before, sw
  <1>4. Then(Then(before, sw), more) = Then(before, Then(sw, more))
    BY <1>2, ThenTwice
  <1> QED BY <1>1, <1>3, <1>4

\* A writer with a new pending symbol.
LEMMA PendingSet ==
  ASSUME NEW w \in Writers, NEW p, p \in Carried \cup Symbols, NEW more \in Seq(Level),
         NEW new, new = [w EXCEPT !.pending = p], SymbolWave(p) = Then(SymbolWave(w.pending), more)
  PROVE  new \in Writers /\ Waveform(new) = Then(Waveform(w), more)
  <1>1. new \in Writers /\ new.out = w.out /\ new.pending = p
    BY DEF Writers
  <1>2. SymbolWave(new.pending) = Then(SymbolWave(w.pending), more)
    BY <1>1
  <1>3. Waveform(new) = Then(Waveform(w), more)
    BY <1>1, <1>2, PendingIs
  <1> QED BY <1>1, <1>3

(* A piece is played after what was written before it.                     *)
LEMMA AppendPieceIs ==
  ASSUME NEW w \in Writers, NEW piece \in RmtSlots
  PROVE  /\ AppendPiece(w, piece) \in Writers
         /\ Waveform(AppendPiece(w, piece)) = Then(Waveform(w), SlotWave(piece))
  <1> DEFINE wave == SlotWave(piece)
             new == AppendPiece(w, piece)
  <1>1. w.pending \in Carried \cup Symbols
    BY DEF Writers
  <1>2. wave \in Seq(Level) /\ SymbolWave(<<piece>>) = wave /\ <<piece>> \in Carried
    BY SlotWaveIs, SymbolWaveIs DEF Carried
  <1>3. CASE w.pending = <<>>
    <2>1. new = [w EXCEPT !.pending = <<piece>>]
      BY <1>3 DEF AppendPiece
    <2> HIDE DEF new, wave
    <2>2. SymbolWave(<<piece>>) = Then(SymbolWave(w.pending), wave)
      BY <1>2, <1>3, SymbolWaveIs, ThenIs
    <2>3. new \in Writers /\ Waveform(new) = Then(Waveform(w), wave)
      BY <1>2, <2>1, <2>2, PendingSet
    <2> QED BY <2>3 DEF new, wave
  <1>4. ASSUME NEW s \in RmtSlots, w.pending = <<s>>
        PROVE  new \in Writers /\ Waveform(new) = Then(Waveform(w), wave)
    <2>1. <<s>> # <<>> /\ Len(<<s>>) = 1 /\ Last(<<s>>) = s
      BY DEF Last
    <2>2. CASE s.level = piece.level /\ s.ticks + piece.ticks <= MaxDuration
      <3> DEFINE r == [s EXCEPT !.ticks = @ + piece.ticks]
      <3>1. r \in RmtSlots /\ SlotWave(r) = Then(SlotWave(s), wave)
        <4>1. /\ s.level \in Level /\ s.ticks \in Nat /\ s.ticks >= 1
              /\ piece.ticks \in Nat /\ piece.ticks >= 1
          BY SlotWaveIs
        <4>2. r = [level |-> s.level, ticks |-> s.ticks + piece.ticks]
          BY DEF RmtSlots
        <4>3. r \in RmtSlots /\ r.level = s.level /\ r.ticks = s.ticks + piece.ticks
          BY <2>2, <4>1, <4>2 DEF RmtSlots, Level
        <4> HIDE DEF r
        <4>4. SlotWave(r) = Held(s.level, s.ticks + piece.ticks)
          BY <4>3, SlotWaveIs
        <4>5. SlotWave(s) = Held(s.level, s.ticks) /\ wave = Held(s.level, piece.ticks)
          BY <2>2, SlotWaveIs
        <4> QED BY <4>1, <4>3, <4>4, <4>5, HeldTwice
      <3>2. [<<s>> EXCEPT ![1] = r] = <<r>>
        OBVIOUS
      <3>3. new = [w EXCEPT !.pending = <<r>>]
        <4>1. new = [w EXCEPT !.pending = [w.pending EXCEPT ![1] = r]]
          BY <1>4, <2>1, <2>2 DEF AppendPiece
        <4> HIDE DEF new, r
        <4> QED BY <1>4, <3>2, <4>1
      <3> HIDE DEF r, new, wave
      <3>4. SymbolWave(<<r>>) = Then(SymbolWave(<<s>>), wave) /\ <<r>> \in Carried
        BY <3>1, SymbolWaveIs DEF Carried
      <3> QED BY <1>2, <1>4, <3>3, <3>4, PendingSet
    <2>3. CASE ~(s.level = piece.level /\ s.ticks + piece.ticks <= MaxDuration)
      <3>1. new = [w EXCEPT !.pending = <<s, piece>>]
        <4>1. new = [w EXCEPT !.pending = Append(w.pending, piece)]
          BY <1>4, <2>1, <2>3 DEF AppendPiece
        <4>2. Append(<<s>>, piece) = <<s, piece>>
          <5> DEFINE a == Append(<<s>>, piece)
                     b == <<s, piece>>
          <5>1. a \in Seq(RmtSlots) /\ Len(a) = 2 /\ a[1] = s /\ a[2] = piece
            OBVIOUS
          <5>2. b \in Seq(RmtSlots) /\ Len(b) = 2 /\ b[1] = s /\ b[2] = piece
            OBVIOUS
          <5> HIDE DEF a, b
          <5>3. \A i \in 1 .. Len(a) : a[i] = b[i]
            BY <5>1, <5>2
          <5>4. a = b
            BY <5>1, <5>2, <5>3, SeqEqual
          <5> QED BY <5>4 DEF a, b
        <4> HIDE DEF new
        <4> QED BY <1>4, <4>1, <4>2
      <3>2. SymbolWave(<<s, piece>>) = Then(SymbolWave(<<s>>), wave) /\ <<s, piece>> \in Symbols
        BY SymbolWaveIs DEF Symbols
      <3> HIDE DEF new, wave
      <3> QED BY <1>2, <1>4, <3>1, <3>2, PendingSet
    <2> QED BY <2>2, <2>3
  <1>5. ASSUME NEW s \in RmtSlots, NEW t \in RmtSlots, w.pending = <<s, t>>
        PROVE  new \in Writers /\ Waveform(new) = Then(Waveform(w), wave)
    <2>1. <<s, t>> # <<>> /\ Len(<<s, t>>) = 2 /\ Last(<<s, t>>) = t /\ <<s, t>> \in Symbols
      BY DEF Last, Symbols
    <2>2. CASE t.level = piece.level /\ t.ticks + piece.ticks <= MaxDuration
      <3> DEFINE r == [t EXCEPT !.ticks = @ + piece.ticks]
      <3>1. r \in RmtSlots /\ SlotWave(r) = Then(SlotWave(t), wave)
        <4>1. /\ t.level \in Level /\ t.ticks \in Nat /\ t.ticks >= 1
              /\ piece.ticks \in Nat /\ piece.ticks >= 1
          BY SlotWaveIs
        <4>2. r = [level |-> t.level, ticks |-> t.ticks + piece.ticks]
          BY DEF RmtSlots
        <4>3. r \in RmtSlots /\ r.level = t.level /\ r.ticks = t.ticks + piece.ticks
          BY <2>2, <4>1, <4>2 DEF RmtSlots, Level
        <4> HIDE DEF r
        <4>4. SlotWave(r) = Held(t.level, t.ticks + piece.ticks)
          BY <4>3, SlotWaveIs
        <4>5. SlotWave(t) = Held(t.level, t.ticks) /\ wave = Held(t.level, piece.ticks)
          BY <2>2, SlotWaveIs
        <4> QED BY <4>1, <4>3, <4>4, <4>5, HeldTwice
      <3>2. [<<s, t>> EXCEPT ![2] = r] = <<s, r>>
        OBVIOUS
      <3>3. new = [w EXCEPT !.pending = <<s, r>>]
        <4>1. new = [w EXCEPT !.pending = [w.pending EXCEPT ![2] = r]]
          BY <1>5, <2>1, <2>2 DEF AppendPiece
        <4> HIDE DEF new, r
        <4> QED BY <1>5, <3>2, <4>1
      <3>4. SymbolWave(<<s, r>>) = Then(SymbolWave(<<s, t>>), wave) /\ <<s, r>> \in Symbols
        <4> HIDE DEF r
        <4>1. SymbolWave(<<s, r>>) = Then(SlotWave(s), Then(SlotWave(t), wave))
          BY <3>1, SymbolWaveIs
        <4>2. SymbolWave(<<s, t>>) = Then(SlotWave(s), SlotWave(t))
          BY SymbolWaveIs
        <4>3. SlotWave(s) \in Seq(Level) /\ SlotWave(t) \in Seq(Level)
          BY SlotWaveIs
        <4>4. <<s, r>> \in Symbols
          BY <3>1 DEF Symbols
        <4> DEFINE a == SlotWave(s)
                   b == SlotWave(t)
        <4> HIDE DEF wave, a, b
        <4>5. Then(Then(a, b), wave) = Then(a, Then(b, wave))
          BY <1>2, <4>3, ThenTwice DEF a, b
        <4> QED BY <4>1, <4>2, <4>4, <4>5 DEF a, b
      <3> HIDE DEF r, new, wave
      <3>5. <<s, r>> \in Carried \cup Symbols
        BY <3>4
      <3>6. SymbolWave(<<s, r>>) = Then(SymbolWave(w.pending), wave)
        BY <1>5, <3>4
      <3> QED BY <1>2, <3>3, <3>5, <3>6, PendingSet
    <2>3. CASE ~(t.level = piece.level /\ t.ticks + piece.ticks <= MaxDuration)
      <3> DEFINE f == Flush(w)
      <3>1. f \in Writers /\ f.pending = <<>> /\ Waveform(f) = Waveform(w)
        BY <1>5, <2>1, FlushKeeps
      <3>2. new = [f EXCEPT !.pending = <<piece>>]
        BY <1>5, <2>1, <2>3 DEF AppendPiece
      <3> HIDE DEF f, new, wave
      <3>3. SymbolWave(<<piece>>) = Then(SymbolWave(f.pending), wave)
        BY <1>2, <3>1, SymbolWaveIs, ThenIs
      <3>4. new \in Writers /\ Waveform(new) = Then(Waveform(f), wave)
        BY <1>2, <3>1, <3>2, <3>3, PendingSet
      <3> QED BY <3>1, <3>4
    <2> QED BY <2>2, <2>3
  <1>6. \/ w.pending = <<>>
        \/ \E s \in RmtSlots : w.pending = <<s>>
        \/ \E s \in RmtSlots, t \in RmtSlots : w.pending = <<s, t>>
    BY <1>1 DEF Carried, Symbols
  <1> QED BY <1>3, <1>4, <1>5, <1>6

\* Division by a positive number.
LEMMA Divided ==
  ASSUME NEW x \in Nat, NEW d \in Nat \ {0}
  PROVE  /\ x \div d \in Nat /\ x % d \in 0 .. d - 1
         /\ (x \div d) * d \in Nat /\ x = (x \div d) * d + (x % d)
  <1>1. x \div d \in Int /\ x % d \in 0 .. d - 1 /\ x = d * (x \div d) + (x % d)
    OBVIOUS
  <1> DEFINE q == x \div d
             r == x % d
  <1> HIDE DEF q, r
  <1>2. q \in Int /\ r \in 0 .. d - 1 /\ x = d * q + r
    BY <1>1 DEF q, r
  <1>3. q >= 0
    <2> SUFFICES ASSUME q <= -1 PROVE FALSE
      BY <1>2
    <2>1. d * q <= d * (-1)
      BY <1>2
    <2> QED BY <1>2, <2>1
  <1>4. q * d = d * q /\ q * d \in Nat
    BY <1>2, <1>3
  <1> QED BY <1>2, <1>3, <1>4 DEF q, r

\* A number is cut into pieces of MaxDuration and a last one of what is left.
Written(ticks, n) == AtMost(ticks, n * MaxDuration)

\* The pieces of a run are not empty, fit a slot, and add up to it.
LEMMA PiecesAre ==
  ASSUME NEW ticks \in Nat \ {0}
  PROVE  /\ Pieces(ticks) \in Nat
         /\ Written(ticks, 0) = 0 /\ Written(ticks, Pieces(ticks)) = ticks
         /\ \A n \in 1 .. Pieces(ticks) :
                LET piece == AtMost(MaxDuration, ticks - (n - 1) * MaxDuration)
                IN  /\ piece \in 1 .. MaxDuration /\ Written(ticks, n - 1) \in Nat
                    /\ Written(ticks, n) = Written(ticks, n - 1) + piece
  <1> DEFINE M == MaxDuration
             N == Pieces(ticks)
             x == ticks + M - 1
  <1>1. M \in Nat \ {0} /\ x \in Nat /\ N = x \div M
    BY SoundRenderAssumption DEF Pieces
  <1>2. N \in Nat /\ N * M \in Nat /\ x = N * M + (x % M) /\ x % M \in 0 .. M - 1
    <2> HIDE DEF M, x, N
    <2> QED BY <1>1, Divided
  <1> DEFINE r == x % M
  <1>3. ticks = N * M + r - M + 1 /\ r \in 0 .. M - 1
    BY <1>1, <1>2
  <1> HIDE DEF M, N, x, r
  <1>4. ticks <= N * M /\ N * M - M < ticks
    BY <1>1, <1>2, <1>3
  <1>5. Written(ticks, 0) = 0 /\ Written(ticks, N) = ticks
    BY <1>1, <1>2, <1>4 DEF Written, AtMost, M
  <1>6. ASSUME NEW n \in 1 .. N
        PROVE  LET piece == AtMost(M, ticks - (n - 1) * M)
               IN  /\ piece \in 1 .. M /\ Written(ticks, n - 1) \in Nat
                   /\ Written(ticks, n) = Written(ticks, n - 1) + piece
    <2> DEFINE y == (n - 1) * M
               z == n * M
    <2>1. z = y + M /\ y \in Nat
      <3>1. n - 1 \in Nat /\ n \in Nat
        BY <1>2
      <3> QED BY <1>1, <3>1
    <2>2. y < ticks
      <3>1. (N - n) * M \in Nat /\ N * M = z + (N - n) * M
        BY <1>1, <1>2
      <3> HIDE DEF y, z
      <3> QED BY <1>1, <1>2, <1>4, <2>1, <3>1
    <2>3. Written(ticks, n - 1) = AtMost(ticks, y) /\ Written(ticks, n) = AtMost(ticks, z)
      BY DEF Written, M
    <2> HIDE DEF y, z
    <2>4. AtMost(M, ticks - y) \in 1 .. M /\ AtMost(ticks, y) = y
          /\ AtMost(ticks, z) = y + AtMost(M, ticks - y)
      BY <1>1, <2>1, <2>2 DEF AtMost
    <2> QED BY <2>1, <2>3, <2>4 DEF y
  <1> QED BY <1>2, <1>5, <1>6 DEF M, N

(* A run is played after what was written before it.                       *)
LEMMA AppendPiecesAre ==
  ASSUME NEW w \in Writers, NEW level \in Level, NEW ticks \in Nat \ {0}
  PROVE  LET v == AppendPieces(w, level, ticks)[Pieces(ticks)]
         IN  v \in Writers /\ Waveform(v) = Then(Waveform(w), Held(level, ticks))
  <1> DEFINE N == Pieces(ticks)
             Piece(n) == [level |-> level,
                          ticks |-> AtMost(MaxDuration, ticks - (n - 1) * MaxDuration)]
             Add(v, n) == AppendPiece(v, Piece(n))
             step == [p \in (1 .. N) \X Writers |-> Add(p[2], p[1])]
             All[n \in 0 .. N] == IF n = 0 THEN w ELSE Add(All[n - 1], n)
             R(h) == [n \in 0 .. N |-> IF n = 0 THEN w ELSE Add(h[n - 1], n)]
  <1>1. N \in Nat
    BY PiecesAre
  <1>2. AppendPieces(w, level, ticks) = All
    BY DEF AppendPieces
  <1>3. ASSUME NEW n \in 1 .. N
        PROVE  /\ Piece(n) \in RmtSlots /\ Piece(n).level = level
               /\ Written(ticks, n - 1) \in Nat
               /\ Written(ticks, n) = Written(ticks, n - 1) + Piece(n).ticks
    BY PiecesAre DEF RmtSlots, Level
  <1>4. All = CHOOSE h : h = R(h)
    OBVIOUS
  <1> HIDE DEF All, Piece, N
  <1>5. ASSUME NEW n \in 1 .. N, NEW v \in Writers PROVE Add(v, n) \in Writers
    BY <1>3, AppendPieceIs
  <1> HIDE DEF Add
  <1>6. step \in [(1 .. N) \X Writers -> Writers]
        /\ \A n \in 1 .. N, v \in Writers : step[<<n, v>>] = Add(v, n)
    BY <1>5
  <1> HIDE DEF step
  <1>7. PICK f \in [0 .. N -> Writers] : Recursion(f, N, w, step)
    BY <1>1, <1>6, RecursionExists
  <1>8. f = R(f)
    <2>1. ASSUME NEW n \in 0 .. N, n # 0 PROVE step[<<n, f[n - 1]>>] = Add(f[n - 1], n)
      <3>1. n - 1 \in 0 .. N /\ n \in 1 .. N
        BY <1>1, <2>1
      <3> QED BY <1>6, <3>1
    <2> QED BY <1>7, <2>1 DEF Recursion
  <1>9. All = R(All)
    BY <1>4, <1>8
  <1> HIDE DEF R
  <1>10. All[0] = w /\ \A n \in 1 .. N : All[n] = Add(All[n - 1], n)
    BY <1>1, <1>9 DEF R
  <1>11. \A n \in 0 .. N : All[n] \in Writers
    <2>1. Computes(All, N, Writers, w, step)
      BY <1>6, <1>10 DEF Computes
    <2> QED BY <1>1, <1>6, <2>1, RecursionTyped
  <1> DEFINE Wave(n) == Waveform(All[n])
             Good == {n \in Nat : n <= N =>
                        Wave(n) = Then(Waveform(w), Held(level, Written(ticks, n)))}
  <1>12. 0 \in Good
    <2>1. Written(ticks, 0) = 0 /\ Held(level, 0) = <<>>
      BY PiecesAre, HeldNothing
    <2>2. Waveform(w) = Then(Waveform(w), <<>>)
      BY WaveformType, ThenIs
    <2> QED BY <1>10, <2>1, <2>2
  <1>13. ASSUME NEW n \in Nat, n \in Good PROVE n + 1 \in Good
    <2> SUFFICES ASSUME n + 1 <= N
                 PROVE  Wave(n + 1) = Then(Waveform(w), Held(level, Written(ticks, n + 1)))
      OBVIOUS
    <2> DEFINE p == Piece(n + 1)
               old == Waveform(w)
               k == Written(ticks, n)
    <2>1. n + 1 \in 1 .. N /\ (n + 1) - 1 = n /\ n \in 0 .. N
      BY <1>1
    <2>2. p \in RmtSlots /\ p.level = level /\ k \in Nat /\ Written(ticks, n + 1) = k + p.ticks
      BY <1>3, <2>1
    <2>3. Wave(n) = Then(old, Held(level, k))
      BY <1>13, <2>1
    <2> HIDE DEF p, k
    <2>4. All[n + 1] = AppendPiece(All[n], p) /\ All[n] \in Writers
      BY <1>10, <1>11, <2>1 DEF Add, p
    <2>5. Wave(n + 1) = Then(Wave(n), SlotWave(p))
      BY <2>2, <2>4, AppendPieceIs
    <2>6. SlotWave(p) = Held(level, p.ticks) /\ p.ticks \in Nat
      BY <2>2, SlotWaveIs
    <2>7. old \in Seq(Level)
      BY WaveformType
    <2> HIDE DEF Wave, old
    <2>8. /\ Held(level, k) \in Seq(Level) /\ Held(level, p.ticks) \in Seq(Level)
          /\ Then(Held(level, k), Held(level, p.ticks)) = Held(level, k + p.ticks)
      BY <2>2, <2>6, HeldType, HeldTwice
    <2>9. Then(Then(old, Held(level, k)), Held(level, p.ticks)) = Then(old, Held(level, k + p.ticks))
      BY <2>7, <2>8, ThenTwice
    <2> QED BY <2>2, <2>3, <2>5, <2>6, <2>9 DEF old
  <1>14. N \in Good
    <2> HIDE DEF Good
    <2> QED BY <1>1, <1>12, <1>13, SetInduction
  <1>15. Written(ticks, N) = ticks
    BY PiecesAre DEF N
  <1> QED BY <1>1, <1>2, <1>11, <1>14, <1>15 DEF N

\* A run is played after what was written before it, whatever its length.
LEMMA AppendRunIs ==
  ASSUME NEW w \in Writers, NEW level \in Level, NEW from \in Nat, NEW to \in Nat, from <= to
  PROVE  /\ AppendRun(w, level, from, to) \in Writers
         /\ Waveform(AppendRun(w, level, from, to)) = Then(Waveform(w), Held(level, to - from))
  <1>1. CASE to > from
    <2>1. to - from \in Nat \ {0}
      BY <1>1
    <2> QED BY <1>1, <2>1, AppendPiecesAre DEF AppendRun
  <1>2. CASE ~(to > from)
    <2>1. AppendRun(w, level, from, to) = w /\ to - from = 0
      BY <1>2 DEF AppendRun
    <2>2. Then(Waveform(w), Held(level, 0)) = Waveform(w)
      BY HeldNothing, WaveformType, ThenIs
    <2> QED BY <2>1, <2>2
  <1> QED BY <1>1, <1>2

\* The quotient of a division is the only one.
LEMMA DividedOnce ==
  ASSUME NEW x \in Nat, NEW d \in Nat \ {0}, NEW q \in Nat, NEW r \in 0 .. d - 1, x = q * d + r
  PROVE  x \div d = q
  <1> DEFINE p == x \div d
             s == x % d
  <1>1. p \in Nat /\ s \in 0 .. d - 1 /\ x = p * d + s
    BY Divided
  <1> HIDE DEF p, s
  <1>2. p < q => FALSE
    <2> SUFFICES ASSUME p + 1 <= q PROVE FALSE
      BY <1>1
    <2>1. (q - p) * d >= d /\ q * d = p * d + (q - p) * d
      <3>1. q - p \in Nat /\ q - p >= 1
        BY <1>1
      <3> QED BY <1>1, <3>1
    <2> QED BY <1>1, <2>1
  <1>3. q < p => FALSE
    <2> SUFFICES ASSUME q + 1 <= p PROVE FALSE
      BY <1>1
    <2>1. (p - q) * d >= d /\ p * d = q * d + (p - q) * d
      <3>1. p - q \in Nat /\ p - q >= 1
        BY <1>1
      <3> QED BY <1>1, <3>1
    <2> QED BY <1>1, <2>1
  <1> QED BY <1>1, <1>2, <1>3 DEF p

\* Division keeps the order of numbers.
LEMMA DividedOrder ==
  ASSUME NEW x \in Nat, NEW y \in Nat, NEW d \in Nat \ {0}, x <= y
  PROVE  x \div d <= y \div d
  <1> DEFINE p == x \div d
             s == x % d
             q == y \div d
             r == y % d
  <1>1. p \in Nat /\ s \in 0 .. d - 1 /\ x = p * d + s
    BY Divided
  <1>2. q \in Nat /\ r \in 0 .. d - 1 /\ y = q * d + r
    BY Divided
  <1> HIDE DEF p, s, q, r
  <1>3. q < p => FALSE
    <2> SUFFICES ASSUME q + 1 <= p PROVE FALSE
      BY <1>1, <1>2
    <2>1. (p - q) * d >= d /\ p * d = q * d + (p - q) * d
      <3>1. p - q \in Nat /\ p - q >= 1
        BY <1>1, <1>2
      <3> QED BY <1>1, <1>2, <3>1
    <2> QED BY <1>1, <1>2, <2>1
  <1> QED BY <1>1, <1>2, <1>3 DEF p, q

\* The tick a cycle of the frame begins at.
TickOf(c) == Tick(0, c)

\* Ticks begin at 0, depend only on the cycle of the frame, and never go back.
LEMMA TickIs ==
  /\ TickOf(0) = 0
  /\ \A c \in Nat : TickOf(c) \in Nat
  /\ \A line \in Nat, cycle \in Nat : Tick(line, cycle) = TickOf(line * LineCycles + cycle)
  /\ \A c \in Nat, d \in Nat : c <= d => TickOf(c) <= TickOf(d)
  <1> DEFINE half == CpuHz \div 2
             Sum(c) == c * ResolutionHz + half
  <1>1. half \in Nat /\ CpuHz \in Nat \ {0} /\ ResolutionHz \in Nat \ {0} /\ LineCycles \in Nat \ {0}
        /\ half < CpuHz
    <2>1. CpuHz \in Nat \ {0} /\ ResolutionHz \in Nat \ {0} /\ LineCycles \in Nat \ {0}
      BY SoundRenderAssumption
    <2> QED BY <2>1
  <1>2. ASSUME NEW c \in Nat PROVE TickOf(c) = Sum(c) \div CpuHz /\ Sum(c) \in Nat
    <2>1. 0 * LineCycles + c = c
      BY <1>1
    <2>2. TickOf(c) = Sum(c) \div CpuHz
      BY <2>1 DEF TickOf, Tick
    <2>3. c * ResolutionHz \in Nat
      BY <1>1
    <2> HIDE DEF half
    <2> QED BY <1>1, <2>2, <2>3
  <1>3. ASSUME NEW line \in Nat, NEW cycle \in Nat
        PROVE  Tick(line, cycle) = TickOf(line * LineCycles + cycle)
    <2>1. line * LineCycles + cycle \in Nat
      BY <1>1
    <2> DEFINE c == line * LineCycles + cycle
    <2>2. Tick(line, cycle) = Sum(c) \div CpuHz
      BY DEF Tick
    <2> HIDE DEF c, half
    <2>3. c \in Nat
      BY <2>1 DEF c
    <2> QED BY <1>2, <2>2, <2>3 DEF c
  <1>4. ASSUME NEW c \in Nat, NEW d \in Nat, c <= d PROVE TickOf(c) <= TickOf(d)
    <2>1. c * ResolutionHz <= d * ResolutionHz /\ c * ResolutionHz \in Nat /\ d * ResolutionHz \in Nat
      <3>1. (d - c) * ResolutionHz \in Nat /\ d * ResolutionHz = c * ResolutionHz + (d - c) * ResolutionHz
        <4>1. d - c \in Nat
          BY <1>4
        <4> QED BY <1>1, <4>1
      <3>2. c * ResolutionHz \in Nat
        BY <1>1
      <3> QED BY <3>1, <3>2
    <2> HIDE DEF half
    <2>2. Sum(c) <= Sum(d) /\ Sum(c) \in Nat /\ Sum(d) \in Nat
      BY <1>1, <2>1
    <2> HIDE DEF Sum
    <2> QED BY <1>1, <1>2, <2>2, DividedOrder
  <1>5. TickOf(0) = 0
    <2>1. Sum(0) = half
      BY <1>1
    <2>2. half = 0 * CpuHz + half /\ half \in 0 .. CpuHz - 1
      BY <1>1
    <2> HIDE DEF half
    <2>3. half \div CpuHz = 0
      BY <1>1, <2>2, DividedOnce
    <2> QED BY <1>2, <2>1, <2>3
  <1>6. ASSUME NEW c \in Nat PROVE TickOf(c) \in Nat
    <2> HIDE DEF Sum
    <2> QED BY <1>1, <1>2, Divided
  <1> QED BY <1>3, <1>4, <1>5, <1>6

\* The remainders of the lines' ticks.
TickStates == [tick : Nat, remainder : 0 .. CpuHz - 1]

\* The start of the next line, as LineTicks carries it.
NextTick(s) ==
    LET numerator == LineCycles * ResolutionHz
        tick == s.tick + (numerator \div CpuHz)
        r    == s.remainder + (numerator % CpuHz)
    IN  IF r >= CpuHz THEN [tick |-> tick + 1, remainder |-> r - CpuHz]
        ELSE [tick |-> tick, remainder |-> r]

\* The fraction of a tick is carried from a line to the next without loss.
LEMMA NextTickIs ==
  ASSUME NEW s \in TickStates
  PROVE  /\ NextTick(s) \in TickStates
         /\ NextTick(s).tick * CpuHz + NextTick(s).remainder
              = s.tick * CpuHz + s.remainder + LineCycles * ResolutionHz
  <1> DEFINE numerator == LineCycles * ResolutionHz
             q == numerator \div CpuHz
             m == numerator % CpuHz
             t == s.tick
             u == s.remainder
  <1>1. CpuHz \in Nat \ {0} /\ numerator \in Nat
    BY SoundRenderAssumption
  <1>2. q \in Nat /\ m \in 0 .. CpuHz - 1 /\ q * CpuHz \in Nat /\ numerator = q * CpuHz + m
    <2> HIDE DEF numerator
    <2> QED BY <1>1, Divided
  <1>3. t \in Nat /\ u \in 0 .. CpuHz - 1
    BY DEF TickStates
  <1>4. /\ u + m >= CpuHz => NextTick(s) = [tick |-> (t + q) + 1, remainder |-> (u + m) - CpuHz]
        /\ ~(u + m >= CpuHz) => NextTick(s) = [tick |-> t + q, remainder |-> u + m]
    BY Zenon DEF NextTick
  <1> HIDE DEF numerator, q, m, t, u
  <1>5. (t + q) * CpuHz = t * CpuHz + q * CpuHz /\ (t + q + 1) * CpuHz = t * CpuHz + q * CpuHz + CpuHz
        /\ t * CpuHz \in Nat
    BY <1>1, <1>2, <1>3
  <1> DEFINE a == t * CpuHz
             b == q * CpuHz
             n == NextTick(s)
  <1>6. CASE u + m >= CpuHz
    <2>1. n.tick = t + q + 1 /\ n.remainder = u + m - CpuHz
      BY <1>1, <1>2, <1>3, <1>4, <1>6
    <2>2. n \in TickStates
      BY <1>1, <1>2, <1>3, <1>4, <1>6 DEF TickStates
    <2>3. n.tick * CpuHz = a + b + CpuHz
      BY <1>5, <2>1
    <2> HIDE DEF a, b, n
    <2>4. n.tick * CpuHz + n.remainder = a + u + numerator
      BY <1>1, <1>2, <1>3, <1>5, <2>1, <2>3 DEF a, b
    <2> QED BY <2>2, <2>4 DEF a, n, numerator, t, u
  <1>7. CASE ~(u + m >= CpuHz)
    <2>1. n.tick = t + q /\ n.remainder = u + m
      BY <1>4, <1>7
    <2>2. n \in TickStates
      BY <1>1, <1>2, <1>3, <1>4, <1>7 DEF TickStates
    <2>3. n.tick * CpuHz = a + b
      BY <1>5, <2>1
    <2> HIDE DEF a, b, n
    <2>4. n.tick * CpuHz + n.remainder = a + u + numerator
      BY <1>1, <1>2, <1>3, <1>5, <2>1, <2>3 DEF a, b
    <2> QED BY <2>2, <2>4 DEF a, n, numerator, t, u
  <1> QED BY <1>6, <1>7

(* The ticks carried from line to line are those of the lines.             *)
LEMMA LineTicksAre ==
  \A line \in 0 .. Lines : LineTicks[line].tick = TickOf(line * LineCycles)
  <1> DEFINE first == [tick |-> 0, remainder |-> CpuHz \div 2]
             step == [p \in (1 .. Lines) \X TickStates |-> NextTick(p[2])]
             At[line \in 0 .. Lines] == IF line = 0 THEN first ELSE NextTick(At[line - 1])
             R(h) == [line \in 0 .. Lines |-> IF line = 0 THEN first ELSE NextTick(h[line - 1])]
  <1>1. Lines \in Nat /\ first \in TickStates
    <2>1. Lines \in Nat /\ CpuHz \in Nat \ {0}
      BY SoundRenderAssumption
    <2>2. CpuHz \div 2 \in 0 .. CpuHz - 1
      BY <2>1
    <2> QED BY <2>1, <2>2 DEF TickStates
  <1>2. LineTicks = At
    BY DEF LineTicks, NextTick
  <1>3. At = CHOOSE h : h = R(h)
    OBVIOUS
  <1> HIDE DEF At, first
  <1>4. step \in [(1 .. Lines) \X TickStates -> TickStates]
        /\ \A n \in 1 .. Lines, s \in TickStates : step[<<n, s>>] = NextTick(s)
    BY NextTickIs
  <1> HIDE DEF step
  <1>5. PICK f \in [0 .. Lines -> TickStates] : Recursion(f, Lines, first, step)
    BY <1>1, <1>4, RecursionExists
  <1>6. f = R(f)
    <2>1. ASSUME NEW n \in 0 .. Lines, n # 0 PROVE step[<<n, f[n - 1]>>] = NextTick(f[n - 1])
      <3>1. n - 1 \in 0 .. Lines /\ n \in 1 .. Lines
        BY <1>1, <2>1
      <3> QED BY <1>4, <3>1
    <2> QED BY <1>5, <2>1 DEF Recursion
  <1>7. At = R(At)
    BY <1>3, <1>6
  <1> HIDE DEF R
  <1>8. At[0] = first /\ \A n \in 1 .. Lines : At[n] = NextTick(At[n - 1])
    BY <1>1, <1>7 DEF R
  <1>9. \A n \in 0 .. Lines : At[n] \in TickStates
    <2>1. Computes(At, Lines, TickStates, first, step)
      BY <1>4, <1>8 DEF Computes
    <2> QED BY <1>1, <1>4, <2>1, RecursionTyped
  <1> DEFINE num == LineCycles * ResolutionHz
             half == CpuHz \div 2
             Good == {n \in Nat : n <= Lines => At[n].tick * CpuHz + At[n].remainder = n * num + half}
  <1>10. CpuHz \in Nat \ {0} /\ num \in Nat /\ half \in Nat /\ LineCycles \in Nat /\ ResolutionHz \in Nat
    <2>1. CpuHz \in Nat \ {0} /\ LineCycles \in Nat /\ ResolutionHz \in Nat
      BY SoundRenderAssumption
    <2> QED BY <2>1
  <1>11. 0 \in Good
    <2>1. At[0].tick = 0 /\ At[0].remainder = half
      BY <1>8 DEF first
    <2> HIDE DEF num, half
    <2> QED BY <1>10, <2>1
  <1>12. ASSUME NEW n \in Nat, n \in Good PROVE n + 1 \in Good
    <2> SUFFICES ASSUME n + 1 <= Lines
                 PROVE  At[n + 1].tick * CpuHz + At[n + 1].remainder = (n + 1) * num + half
      OBVIOUS
    <2>1. n + 1 \in 1 .. Lines /\ (n + 1) - 1 = n /\ n \in 0 .. Lines
      BY <1>1
    <2>2. At[n].tick * CpuHz + At[n].remainder = n * num + half
      BY <1>12, <2>1
    <2>3. At[n + 1] = NextTick(At[n])
      BY <1>8, <2>1
    <2>4. At[n + 1].tick * CpuHz + At[n + 1].remainder = At[n].tick * CpuHz + At[n].remainder + num
      BY <1>9, <2>1, <2>3, NextTickIs
    <2> HIDE DEF num, half, Good
    <2>5. (n + 1) * num = n * num + num /\ n * num \in Nat
      BY <1>10
    <2> QED BY <1>10, <2>2, <2>4, <2>5
  <1> HIDE DEF Good
  <1>13. \A n \in Nat : n \in Good
    BY <1>11, <1>12, SetInduction
  <1> SUFFICES ASSUME NEW line \in 0 .. Lines PROVE At[line].tick = TickOf(line * LineCycles)
    BY <1>2
  <1>14. At[line].tick * CpuHz + At[line].remainder = line * num + half
    BY <1>1, <1>13 DEF Good
  <1> DEFINE x == line * num + half
  <1>15. line * num = (line * LineCycles) * ResolutionHz /\ line * num \in Nat /\ line * LineCycles \in Nat
    BY <1>1, <1>10
  <1> HIDE DEF num, half
  <1>16. x \in Nat
    BY <1>10, <1>15
  <1>17. x = At[line].tick * CpuHz + At[line].remainder
    BY <1>14
  <1> HIDE DEF x
  <1>18. At[line].tick \in Nat /\ At[line].remainder \in 0 .. CpuHz - 1
    BY <1>9 DEF TickStates
  <1>19. x \div CpuHz = At[line].tick
    BY <1>10, <1>16, <1>17, <1>18, DividedOnce
  <1>20. TickOf(line * LineCycles) = x \div CpuHz
    <2>1. 0 * LineCycles + line * LineCycles = line * LineCycles
      BY <1>10, <1>15
    <2>2. TickOf(line * LineCycles) = ((line * LineCycles) * ResolutionHz + half) \div CpuHz
      BY <2>1 DEF TickOf, Tick, half
    <2> QED BY <1>15, <2>2 DEF x
  <1> QED BY <1>19, <1>20

----------------------------------------------------------------------------
(***************************************************************************)
(* The cursor over the events of a frame.                                  *)
(***************************************************************************)
FrameList(f) == f.gate \in BOOLEAN /\ f.events \in Seq(GateEvent) /\ Increasing(f.events)

\* An event of a line lies in the cycles of that line.
LEMMA LineTime ==
  ASSUME NEW e \in GateEvent, NEW line \in Nat
  PROVE  /\ e.line \in Nat /\ e.cycle \in 0 .. LineCycles - 1 /\ e.state \in BOOLEAN
         /\ Time(e) \in Nat /\ line * LineCycles \in Nat
         /\ (line + 1) * LineCycles = line * LineCycles + LineCycles
         /\ e.line < line => Time(e) < line * LineCycles
         /\ e.line >= line => Time(e) >= line * LineCycles
         /\ e.line = line => Time(e) = line * LineCycles + e.cycle
  <1> DEFINE a == e.line
             x == e.cycle
             L == LineCycles
  <1>1. /\ L \in Nat \ {0} /\ a \in Nat /\ x \in 0 .. L - 1 /\ Time(e) = a * L + x
        /\ e.state \in BOOLEAN
    BY FrameConstants DEF GateEvent, Time
  <1> HIDE DEF a, x, L
  <1>2. a * L \in Nat /\ line * L \in Nat /\ (line + 1) * L = line * L + L
    BY <1>1
  <1>3. a < line => Time(e) < line * L
    <2> SUFFICES ASSUME a < line PROVE Time(e) < line * L
      OBVIOUS
    <2>1. (line - a) * L >= L /\ line * L = a * L + (line - a) * L
      <3>1. line - a \in Nat /\ line - a >= 1
        BY <1>1
      <3> QED BY <1>1, <3>1
    <2> QED BY <1>1, <1>2, <2>1
  <1>4. a >= line => Time(e) >= line * L
    <2> SUFFICES ASSUME a >= line PROVE Time(e) >= line * L
      OBVIOUS
    <2>1. (a - line) * L \in Nat /\ a * L = line * L + (a - line) * L
      <3>1. a - line \in Nat
        BY <1>1
      <3> QED BY <1>1, <3>1
    <2> QED BY <1>1, <1>2, <2>1
  <1>5. a = line => Time(e) = line * L + x
    BY <1>1
  <1> QED BY <1>1, <1>2, <1>3, <1>4, <1>5 DEF a, x, L

\* The events of a list increase, not only from one to the next.
LEMMA LaterEvents ==
  ASSUME NEW evs \in Seq(GateEvent), Increasing(evs)
  PROVE  \A i \in 1 .. Len(evs), j \in 1 .. Len(evs) :
             i < j => Time(evs[i]) < Time(evs[j]) /\ evs[i].line <= evs[j].line
  <1> DEFINE N == Len(evs)
             Good == {n \in Nat : \A i \in 1 .. N : i < n /\ n <= N => Time(evs[i]) < Time(evs[n])}
  <1>1. N \in Nat /\ \A i \in 1 .. N : evs[i] \in GateEvent /\ Time(evs[i]) \in Nat
    <2>1. \A i \in 1 .. N : evs[i] \in GateEvent
      OBVIOUS
    <2> QED BY <2>1, TimeOrder
  <1>2. 0 \in Good
    OBVIOUS
  <1>3. ASSUME NEW n \in Nat, n \in Good PROVE n + 1 \in Good
    <2> SUFFICES ASSUME NEW i \in 1 .. N, i < n + 1, n + 1 <= N
                 PROVE  Time(evs[i]) < Time(evs[n + 1])
      OBVIOUS
    <2>1. n + 1 \in 2 .. N /\ (n + 1) - 1 = n /\ n \in 1 .. N /\ n + 1 \in 1 .. N
      BY <1>1
    <2>2. Time(evs[n]) < Time(evs[n + 1])
      BY <2>1 DEF Increasing
    <2>3. i = n \/ Time(evs[i]) < Time(evs[n])
      BY <1>1, <1>3
    <2> QED BY <1>1, <2>1, <2>2, <2>3
  <1>4. \A n \in Nat : n \in Good
    <2> HIDE DEF Good
    <2> QED BY <1>2, <1>3, SetInduction
  <1> SUFFICES ASSUME NEW i \in 1 .. N, NEW j \in 1 .. N, i < j
               PROVE  Time(evs[i]) < Time(evs[j]) /\ evs[i].line <= evs[j].line
    OBVIOUS
  <1>5. Time(evs[i]) < Time(evs[j])
    <2>1. j \in Good
      BY <1>1, <1>4
    <2> QED BY <1>1, <2>1
  <1>6. evs[i].line <= evs[j].line
    <2>1. evs[i].line < evs[j].line \/ evs[i].line = evs[j].line
      BY <1>1, <1>5, TimeOrder
    <2>2. evs[i].line \in Nat /\ evs[j].line \in Nat
      BY <1>1, LineTime
    <2> QED BY <2>1, <2>2
  <1> QED BY <1>5, <1>6

(* The events of the lines before one come before the cursor.              *)
LEMMA EventIndexIs ==
  ASSUME NEW f, FrameList(f), NEW line \in Nat
  PROVE  LET n == EventIndex(f, line)
         IN  /\ n \in 0 .. Len(f.events)
             /\ \A i \in 1 .. n : f.events[i].line < line
             /\ \A i \in n + 1 .. Len(f.events) : f.events[i].line >= line
  <1> DEFINE evs == f.events
             N == Len(evs)
             Cut(n, m) == (\A i \in 1 .. n : evs[i].line < line) /\ (n < m => evs[n + 1].line >= line)
             Good == {m \in Nat : m <= N => \E n \in 0 .. m : Cut(n, m)}
  <1>1. evs \in Seq(GateEvent) /\ Increasing(evs) /\ N \in Nat
    BY DEF FrameList
  <1> HIDE DEF evs
  <1>2. \A i \in 1 .. N : evs[i] \in GateEvent /\ evs[i].line \in Nat
    <2>1. \A i \in 1 .. N : evs[i] \in GateEvent
      BY <1>1
    <2> QED BY <2>1, LineTime
  <1>3. 0 \in Good
    OBVIOUS
  <1>4. ASSUME NEW m \in Nat, m \in Good PROVE m + 1 \in Good
    <2> SUFFICES ASSUME m + 1 <= N PROVE \E n \in 0 .. m + 1 : Cut(n, m + 1)
      <3> HIDE DEF Cut
      <3> QED OBVIOUS
    <2>1. PICK n \in 0 .. m : Cut(n, m)
      <3>1. m <= N
        BY <1>1
      <3> HIDE DEF Cut
      <3> QED BY ONLY <1>4, <3>1
    <2>2. CASE n < m \/ evs[m + 1].line >= line
      <3>1. n \in 0 .. m + 1 /\ (n < m \/ n = m)
        OBVIOUS
      <3>2. n < m + 1 => evs[n + 1].line >= line
        BY <2>1, <2>2, <3>1
      <3>3. Cut(n, m + 1)
        BY <2>1, <3>2
      <3> HIDE DEF Cut
      <3> QED BY <3>1, <3>3
    <2>3. CASE ~(n < m) /\ ~(evs[m + 1].line >= line)
      <3>1. n = m /\ m + 1 \in 1 .. N
        BY <1>1, <2>1, <2>3
      <3>2. evs[m + 1].line < line
        BY <1>2, <2>3, <3>1
      <3>3. Cut(m + 1, m + 1)
        BY <1>1, <2>1, <3>1, <3>2
      <3> HIDE DEF Cut
      <3>4. m + 1 \in 0 .. m + 1
        OBVIOUS
      <3> QED BY <3>3, <3>4
    <2> QED BY <2>2, <2>3
  <1>5. \E n \in 0 .. N : Cut(n, N)
    <2>1. N \in Good
      <3> HIDE DEF Good
      <3> QED BY <1>1, <1>3, <1>4, SetInduction
    <2> QED BY <1>1, <2>1
  <1> DEFINE n == EventIndex(f, line)
  <1>6. n \in 0 .. N /\ Cut(n, N)
    BY <1>5 DEF EventIndex, evs
  <1> HIDE DEF n
  <1>7. ASSUME NEW i \in n + 1 .. N PROVE evs[i].line >= line
    <2>1. n < N /\ n + 1 \in 1 .. N /\ i \in 1 .. N
      BY <1>1, <1>6
    <2>2. evs[n + 1].line >= line
      BY <1>6, <2>1
    <2>3. i = n + 1 \/ evs[n + 1].line <= evs[i].line
      BY <1>1, <2>1, LaterEvents
    <2> QED BY <1>2, <2>1, <2>2, <2>3
  <1> QED BY <1>6, <1>7 DEF n, evs

\* A line has a part, and its cursor moves on by the events of the line.
LEMMA PartsAre ==
  ASSUME NEW f, FrameList(f), NEW line \in Nat
  PROVE  /\ Parts(f, line) \in Nat \ {0}
         /\ EventIndex(f, line + 1) = EventIndex(f, line) + Parts(f, line) - 1
  <1> DEFINE n == EventIndex(f, line)
             m == EventIndex(f, line + 1)
             N == Len(f.events)
  <1>1. /\ n \in 0 .. N /\ N \in Nat
        /\ \A i \in 1 .. n : f.events[i].line < line
    BY EventIndexIs DEF FrameList
  <1>2. /\ m \in 0 .. N
        /\ \A i \in m + 1 .. N : f.events[i].line >= line + 1
    <2>1. line + 1 \in Nat
      OBVIOUS
    <2> QED BY <2>1, EventIndexIs
  <1>3. Parts(f, line) = m - n + 1
    BY DEF Parts
  <1>4. \A i \in 1 .. N : f.events[i].line \in Nat
    <2>1. \A i \in 1 .. N : f.events[i] \in GateEvent
      BY DEF FrameList
    <2> QED BY <2>1, LineTime
  <1> HIDE DEF n, m, N
  <1>5. n <= m
    <2> SUFFICES ASSUME m + 1 <= n PROVE FALSE
      BY <1>1, <1>2
    <2>1. m + 1 \in 1 .. n /\ m + 1 \in m + 1 .. N /\ m + 1 \in 1 .. N
      BY <1>1, <1>2
    <2> QED BY <1>1, <1>2, <1>4, <2>1
  <1> QED BY <1>1, <1>2, <1>3, <1>5 DEF n, m

\* A cycle of the frame at which the first n events have been taken.
Taken(f, n, c) ==
    /\ n = 0 \/ Time(f.events[n]) <= c
    /\ n = Len(f.events) \/ c < Time(f.events[n + 1])

\* What a part of a line can be.
Segments == [from : 0 .. LineCycles, to : 0 .. LineCycles, gate : BOOLEAN]

(* The parts of a line lie end to end, each with the gate of its cycles.   *)
LEMMA SegmentIs ==
  ASSUME NEW f, FrameList(f), NEW line \in Nat, NEW part \in 1 .. Parts(f, line)
  PROVE  LET s == Segment(f, line, part)
             n == EventIndex(f, line) + part - 1
         IN  /\ s \in Segments /\ s.from <= s.to /\ s.gate = GateAfter(f, n)
             /\ part = 1 => s.from = 0
             /\ part = Parts(f, line) => s.to = LineCycles
             /\ part # Parts(f, line) => s.to = Segment(f, line, part + 1).from
             /\ n \in 0 .. Len(f.events)
             /\ \A c \in line * LineCycles + s.from .. line * LineCycles + s.to - 1 : Taken(f, n, c)
  <1> DEFINE evs == f.events
             N == Len(evs)
             first == EventIndex(f, line)
             n == first + part - 1
             P == Parts(f, line)
             L == LineCycles
             s == Segment(f, line, part)
  <1>1. evs \in Seq(GateEvent) /\ N \in Nat /\ L \in Nat \ {0} /\ f.gate \in BOOLEAN
    BY FrameConstants DEF FrameList
  <1>2. /\ first \in 0 .. N /\ P \in Nat \ {0} /\ EventIndex(f, line + 1) = first + P - 1
        /\ \A i \in 1 .. first : evs[i].line < line
        /\ \A i \in first + 1 .. N : evs[i].line >= line
    BY EventIndexIs, PartsAre
  <1>3. /\ first + P - 1 \in 0 .. N
        /\ \A i \in 1 .. first + P - 1 : evs[i].line < line + 1
        /\ \A i \in first + P .. N : evs[i].line >= line + 1
    <2> DEFINE m == EventIndex(f, line + 1)
    <2>1. line + 1 \in Nat
      OBVIOUS
    <2>2. /\ m \in 0 .. N /\ \A i \in 1 .. m : evs[i].line < line + 1
          /\ \A i \in m + 1 .. N : evs[i].line >= line + 1
      BY <2>1, EventIndexIs
    <2>3. m = first + P - 1 /\ m + 1 = first + P
      BY <1>2
    <2> HIDE DEF evs, N, first, P, m
    <2> QED BY <2>2, <2>3
  <1>4. s = [from |-> IF part = 1 THEN 0 ELSE evs[n].cycle,
             to   |-> IF part = P THEN L ELSE evs[n + 1].cycle,
             gate |-> GateAfter(f, n)]
    BY DEF Segment
  <1>5. part # P => Segment(f, line, part + 1).from = evs[n + 1].cycle
    <2>1. part + 1 # 1 /\ first + (part + 1) - 1 = n + 1
      BY <1>2
    <2> QED BY <2>1 DEF Segment
  <1>6. GateAfter(f, n) = IF n = 0 THEN f.gate ELSE evs[n].state
    BY DEF GateAfter
  <1>7. \A c : Taken(f, n, c) <=> (n = 0 \/ Time(evs[n]) <= c) /\ (n = N \/ c < Time(evs[n + 1]))
    BY DEF Taken
  <1>8. part \in 1 .. P
    OBVIOUS
  <1> HIDE DEF evs, N, first, P, s, L
  <1>9. n \in 0 .. N /\ (part # 1 => n \in first + 1 .. N /\ n \in 1 .. first + P - 1)
        /\ (part # P => n + 1 \in first + 1 .. N /\ n + 1 \in 1 .. first + P - 1)
        /\ (part = 1 => n = first) /\ (part = P => n = first + P - 1)
        /\ first + P - 1 + 1 = first + P
    <2>1. N \in Nat /\ first \in 0 .. N /\ P \in Nat \ {0} /\ first + P - 1 \in 0 .. N /\ part \in 1 .. P
      BY <1>1, <1>2, <1>3, <1>8
    <2>2. n \in 0 .. N /\ (part # 1 => n \in first + 1 .. N) /\ (part # P => n + 1 \in first + 1 .. N)
      BY <2>1
    <2>3. (part # 1 => n \in 1 .. first + P - 1) /\ (part # P => n + 1 \in 1 .. first + P - 1)
      BY <2>1
    <2>4. (part = 1 => n = first) /\ (part = P => n = first + P - 1) /\ first + P - 1 + 1 = first + P
      BY <2>1
    <2> QED BY <2>2, <2>3, <2>4
  <1> HIDE DEF n
  <1>10. \A i \in 1 .. N : evs[i] \in GateEvent
    BY <1>1 DEF N
  <1>11. \A i \in 1 .. N : /\ evs[i].line \in Nat /\ evs[i].cycle \in 0 .. L - 1
                           /\ evs[i].state \in BOOLEAN /\ Time(evs[i]) \in Nat
                           /\ evs[i].line < line => Time(evs[i]) < line * L
                           /\ evs[i].line >= line + 1 => Time(evs[i]) >= line * L + L
                           /\ evs[i].line = line => Time(evs[i]) = line * L + evs[i].cycle
    <2> SUFFICES ASSUME NEW i \in 1 .. N
                 PROVE  /\ evs[i].line \in Nat /\ evs[i].cycle \in 0 .. L - 1
                        /\ evs[i].state \in BOOLEAN /\ Time(evs[i]) \in Nat
                        /\ evs[i].line < line => Time(evs[i]) < line * L
                        /\ evs[i].line >= line + 1 => Time(evs[i]) >= line * L + L
                        /\ evs[i].line = line => Time(evs[i]) = line * L + evs[i].cycle
      OBVIOUS
    <2>1. evs[i] \in GateEvent /\ line + 1 \in Nat
      BY <1>10
    <2>2. evs[i].line >= line + 1 => Time(evs[i]) >= (line + 1) * L
      BY <2>1, LineTime DEF L
    <2> QED BY <2>1, <2>2, LineTime DEF L
  <1>12. line * L \in Nat
    BY <1>1
  <1>13. part # 1 => /\ n \in 1 .. N /\ evs[n].line = line /\ evs[n].cycle \in 0 .. L - 1
                     /\ Time(evs[n]) = line * L + evs[n].cycle
    <2>1. n \in first + 1 .. N => evs[n].line >= line /\ n \in 1 .. N
      BY <1>1, <1>2
    <2>2. n \in 1 .. first + P - 1 => evs[n].line < line + 1
      BY <1>3
    <2> QED BY <1>9, <1>11, <2>1, <2>2
  <1>14. part # P => /\ n + 1 \in 1 .. N /\ evs[n + 1].line = line /\ evs[n + 1].cycle \in 0 .. L - 1
                     /\ Time(evs[n + 1]) = line * L + evs[n + 1].cycle
    <2>1. n + 1 \in first + 1 .. N => evs[n + 1].line >= line /\ n + 1 \in 1 .. N
      BY <1>1, <1>2
    <2>2. n + 1 \in 1 .. first + P - 1 => evs[n + 1].line < line + 1
      BY <1>3
    <2> QED BY <1>9, <1>11, <2>1, <2>2
  <1>15. part = 1 /\ n # 0 => Time(evs[n]) < line * L
    <2> SUFFICES ASSUME part = 1, n # 0 PROVE Time(evs[n]) < line * L
      OBVIOUS
    <2>1. n \in 1 .. first /\ n \in 1 .. N
      BY <1>1, <1>2, <1>9
    <2> QED BY <1>2, <1>11, <2>1
  <1>16. part = P /\ n # N => Time(evs[n + 1]) >= line * L + L
    <2> SUFFICES ASSUME part = P, n # N PROVE Time(evs[n + 1]) >= line * L + L
      OBVIOUS
    <2>1. n + 1 \in first + P .. N /\ n + 1 \in 1 .. N
      BY <1>1, <1>2, <1>9
    <2> QED BY <1>3, <1>11, <2>1
  <1>17. part # 1 /\ part # P => evs[n].cycle < evs[n + 1].cycle
    <2> SUFFICES ASSUME part # 1, part # P PROVE evs[n].cycle < evs[n + 1].cycle
      OBVIOUS
    <2>1. n \in 1 .. N /\ n + 1 \in 1 .. N /\ n < n + 1
      BY <1>9, <1>13, <1>14
    <2>2. Increasing(evs)
      BY DEF FrameList, evs
    <2>3. Time(evs[n]) < Time(evs[n + 1])
      BY <1>1, <2>1, <2>2, LaterEvents DEF N
    <2> QED BY <1>12, <1>13, <1>14, <2>3
  <1>18. s.from = (IF part = 1 THEN 0 ELSE evs[n].cycle) /\ s.to = (IF part = P THEN L ELSE evs[n + 1].cycle)
         /\ s.gate = GateAfter(f, n)
    BY <1>4
  <1>19. s.gate \in BOOLEAN
    <2>1. n # 0 => n \in 1 .. N
      BY <1>1, <1>9
    <2> QED BY <1>1, <1>6, <1>11, <1>18, <2>1
  <1>20. s.from \in 0 .. L /\ s.to \in 0 .. L /\ s.from <= s.to
    BY <1>1, <1>13, <1>14, <1>17, <1>18
  <1>21. s \in Segments
    BY <1>4, <1>18, <1>19, <1>20 DEF Segments, L
  <1>22. \A c \in line * L + s.from .. line * L + s.to - 1 : Taken(f, n, c)
    <2> SUFFICES ASSUME NEW c \in line * L + s.from .. line * L + s.to - 1 PROVE Taken(f, n, c)
      OBVIOUS
    <2>1. n = 0 \/ Time(evs[n]) <= c
      <3>1. n # 0 => n \in 1 .. N
        BY <1>1, <1>9
      <3> QED BY <1>11, <1>12, <1>13, <1>15, <1>18, <1>20, <3>1
    <2>2. n = N \/ c < Time(evs[n + 1])
      <3> SUFFICES ASSUME n # N PROVE c < Time(evs[n + 1])
        OBVIOUS
      <3> DEFINE base == line * L
                 next == Time(evs[n + 1])
      <3>1. n + 1 \in 1 .. N
        BY <1>1, <1>9
      <3>2. base \in Nat /\ next \in Nat /\ L \in Nat /\ s.from \in Nat /\ s.to \in Nat
        BY <1>1, <1>11, <1>12, <1>20, <3>1
      <3>3. next >= base + s.to
        <4>1. CASE part = P
          <5>1. next >= base + L /\ s.to = L
            BY <1>16, <1>18, <4>1
          <5> HIDE DEF base, next
          <5> QED BY <5>1
        <4>2. CASE part # P
          <5>1. next = base + evs[n + 1].cycle /\ s.to = evs[n + 1].cycle
            BY <1>14, <1>18, <4>2
          <5> HIDE DEF base, next
          <5> QED BY <3>2, <5>1
        <4> QED BY <4>1, <4>2
      <3>4. c \in base + s.from .. base + s.to - 1
        OBVIOUS
      <3> HIDE DEF base, next
      <3>5. c < next
        BY <3>2, <3>3, <3>4
      <3> QED BY <3>5 DEF next
    <2> QED BY <1>7, <2>1, <2>2
  <1>23. part # P => s.to = Segment(f, line, part + 1).from
    BY <1>5, <1>18
  <1> QED BY <1>9, <1>18, <1>20, <1>21, <1>22, <1>23 DEF evs, N, first, P, s, L, n

\* The list of a frame says, up to a cycle, at which cycles the gate is on.
Follows(f, On, limit) ==
    \A c \in 0 .. limit - 1, n \in 0 .. Len(f.events) :
        Taken(f, n, c) => (c \in On <=> GateAfter(f, n) = TRUE)

\* A part of a line has the gate of each of its cycles.
LEMMA SegmentFollows ==
  ASSUME NEW f, FrameList(f), NEW On, NEW limit \in Nat, Follows(f, On, limit),
         NEW line \in Nat, NEW part \in 1 .. Parts(f, line)
  PROVE  LET s == Segment(f, line, part)
         IN  \A c \in line * LineCycles + s.from .. line * LineCycles + s.to - 1 :
                 c < limit => (c \in On <=> s.gate = TRUE)
  <1> DEFINE s == Segment(f, line, part)
             n == EventIndex(f, line) + part - 1
  <1>1. /\ s \in Segments /\ s.gate = GateAfter(f, n) /\ n \in 0 .. Len(f.events)
        /\ \A c \in line * LineCycles + s.from .. line * LineCycles + s.to - 1 : Taken(f, n, c)
    BY SegmentIs
  <1>2. line * LineCycles \in Nat /\ s.from \in Nat /\ s.to \in Nat
    BY <1>1, FrameConstants DEF Segments
  <1> HIDE DEF s, n
  <1>3. ASSUME NEW c \in line * LineCycles + s.from .. line * LineCycles + s.to - 1, c < limit
        PROVE  c \in On <=> s.gate = TRUE
    <2>1. c \in 0 .. limit - 1 /\ Taken(f, n, c)
      BY <1>1, <1>2, <1>3
    <2> QED BY <1>1, <2>1 DEF Follows
  <1> QED BY <1>3 DEF s

----------------------------------------------------------------------------
(***************************************************************************)
(* The PWM and PDM samples.                                                *)
(***************************************************************************)
LEMMA LowCyclesIs ==
  ASSUME NEW value \in 0 .. Full
  PROVE  /\ LowCycles(value) \in 0 .. LineCycles
         /\ value = ((LineCycles - LowCycles(value)) * Full + LineCycles \div 2) \div LineCycles
  <1> DEFINE F == Full
             L == LineCycles
             half == F \div 2
             d == (F - value) * L
             x == d + half
             low == LowCycles(value)
             r == x % F
             mid == L \div 2
  <1>1. F \in Nat \ {0} /\ L \in Nat \ {0} /\ F <= L
    BY SoundRenderAssumption
  <1>2. half \in Nat /\ 2 * half <= F /\ F <= 2 * half + 1
    BY <1>1
  <1>3. mid \in Nat /\ 2 * mid <= L /\ L <= 2 * mid + 1
    BY <1>1
  <1>4. value \in 0 .. F /\ F - value \in Nat
    BY <1>1
  <1>5. low = x \div F
    BY DEF LowCycles
  <1>6. d \in Nat /\ d = F * L - value * L /\ value * L \in Nat /\ F * L \in Nat /\ F * L = L * F
    <2> HIDE DEF F, L
    <2> QED BY <1>1, <1>4
  <1> HIDE DEF F, L, half, d, low, mid
  <1>7. x \in Nat
    BY <1>2, <1>6
  <1> HIDE DEF x, r
  <1>8. low \in Nat /\ r \in 0 .. F - 1 /\ low * F \in Nat /\ x = low * F + r
    BY <1>1, <1>5, <1>7, Divided DEF r
  <1>9. low <= L
    <2> SUFFICES ASSUME L + 1 <= low PROVE FALSE
      BY <1>1, <1>8
    <2>1. low * F = L * F + (low - L) * F /\ (low - L) * F >= F
      <3>1. low - L \in Nat /\ low - L >= 1
        BY <1>1, <1>8
      <3> QED BY <1>1, <1>8, <3>1
    <2> DEFINE u == (low - L) * F
               v == low * F
               w == L * F
               z == value * L
    <2>2. /\ v = w + u /\ u >= F /\ v \in Nat /\ w \in Nat /\ z \in Nat /\ d = w - z
          /\ x = v + r
      BY <1>6, <1>8, <2>1
    <2>3. u \in Int
      BY <1>1, <1>8
    <2> HIDE DEF u, v, w, z
    <2> QED BY <1>1, <1>2, <1>8, <2>2, <2>3 DEF x
  <1> DEFINE high == (L - low) * F
             y == high + mid
             s == y - value * L
  <1>10. high = L * F - low * F
    BY <1>1, <1>8
  <1>11. s \in 0 .. L - 1
    <2>1. high = value * L - half + r
      BY <1>2, <1>6, <1>8, <1>10 DEF x
    <2> HIDE DEF high
    <2> QED BY <1>1, <1>2, <1>3, <1>6, <1>8, <2>1
  <1>12. y \in Nat /\ y = value * L + s
    <2>1. y = value * L + s
      <3>1. high \in Int
        BY <1>6, <1>8, <1>10
      <3> HIDE DEF high
      <3> QED BY <1>3, <1>6, <3>1
    <2> HIDE DEF y, s
    <2> QED BY <1>6, <1>11, <2>1
  <1> HIDE DEF y, s
  <1>13. y \div L = value
    BY <1>1, <1>4, <1>11, <1>12, DividedOnce
  <1> QED BY <1>8, <1>9, <1>13 DEF y, mid, low, F, L

\* The cycles of a part of a line at which the output is high.
HighSet(On, line, low, from, to) ==
    {c \in line * LineCycles + from .. line * LineCycles + to - 1 :
        c \in On /\ c - line * LineCycles >= low}

\* The high cycles of a part can be counted.
LEMMA HighSetFinite ==
  ASSUME NEW On, NEW line \in Nat, NEW low, NEW from \in Nat, NEW to \in Nat
  PROVE  /\ IsFiniteSet(HighSet(On, line, low, from, to))
         /\ Cardinality(HighSet(On, line, low, from, to)) \in Nat
  <1> DEFINE a == line * LineCycles + from
             b == line * LineCycles + to - 1
             S == HighSet(On, line, low, from, to)
  <1>1. a \in Int /\ b \in Int
    BY FrameConstants
  <1>2. S \subseteq a .. b
    BY DEF HighSet
  <1> HIDE DEF a, b, S
  <1>3. IsFiniteSet(S)
    BY <1>1, <1>2, FS_Interval, FS_Subset
  <1> QED BY <1>3, FS_CardinalityType DEF S

\* The high cycles of a part are those the code adds up.
LEMMA HighCyclesIs ==
  ASSUME NEW s \in Segments, s.from <= s.to, NEW On, NEW line \in Nat, NEW low \in 0 .. LineCycles,
         \A c \in line * LineCycles + s.from .. line * LineCycles + s.to - 1 : c \in On <=> s.gate = TRUE
  PROVE  HighCycles(s, low) = Cardinality(HighSet(On, line, low, s.from, s.to))
  <1> DEFINE base == line * LineCycles
             from == s.from
             to == s.to
             S == HighSet(On, line, low, from, to)
             m == AtLeast(from, low)
  <1>1. /\ base \in Nat /\ from \in Nat /\ to \in Nat /\ from <= to /\ low \in Nat
        /\ s.gate \in BOOLEAN
    BY FrameConstants DEF Segments
  <1>2. S = {c \in base + from .. base + to - 1 : c \in On /\ c - base >= low}
    BY DEF HighSet
  <1>3. \A c \in base + from .. base + to - 1 : c \in On <=> s.gate = TRUE
    OBVIOUS
  <1>4. HighCycles(s, low) = IF s.gate THEN AtLeast(0, to - m) ELSE 0
    BY DEF HighCycles
  <1> HIDE DEF base, from, to, S
  <1>5. m \in Nat /\ from <= m /\ low <= m /\ (m = from \/ m = low)
    BY <1>1 DEF AtLeast
  <1> HIDE DEF m
  <1>6. CASE s.gate = TRUE
    <2>1. S = base + m .. base + to - 1
      <3>1. ASSUME NEW c \in S PROVE c \in base + m .. base + to - 1
        BY <1>1, <1>2, <1>5, <3>1
      <3>2. ASSUME NEW c \in base + m .. base + to - 1 PROVE c \in S
        BY <1>1, <1>2, <1>3, <1>5, <1>6
      <3> QED BY <3>1, <3>2
    <2>2. base + m \in Int /\ base + to - 1 \in Int
      BY <1>1, <1>5
    <2>3. Cardinality(S) = AtLeast(0, to - m)
      <3> DEFINE a == base + m
                 b == base + to - 1
      <3>1. a \in Int /\ b \in Int /\ S = a .. b /\ a = base + m /\ b = base + to - 1
        BY <2>1, <2>2
      <3> HIDE DEF a, b
      <3>2. Cardinality(S) = IF a > b THEN 0 ELSE b - a + 1
        BY <3>1, FS_Interval
      <3> QED BY <1>1, <1>5, <3>1, <3>2 DEF AtLeast
    <2>4. HighCycles(s, low) = AtLeast(0, to - m)
      BY <1>4, <1>6
    <2> QED BY <2>3, <2>4 DEF S, from, to
  <1>7. CASE s.gate # TRUE
    <2>1. S = {}
      BY <1>2, <1>3, <1>7
    <2>2. HighCycles(s, low) = 0
      BY <1>1, <1>4, <1>7
    <2> QED BY <2>1, <2>2, FS_EmptySet DEF S, from, to
  <1> QED BY <1>6, <1>7

\* The high cycles of two parts that meet are counted once.
LEMMA HighSetsMeet ==
  ASSUME NEW On, NEW line \in Nat, NEW low, NEW m \in Nat, NEW n \in Nat, m <= n
  PROVE  Cardinality(HighSet(On, line, low, 0, n))
           = Cardinality(HighSet(On, line, low, 0, m)) + Cardinality(HighSet(On, line, low, m, n))
  <1> DEFINE base == line * LineCycles
             A == HighSet(On, line, low, 0, m)
             B == HighSet(On, line, low, m, n)
             C == HighSet(On, line, low, 0, n)
  <1>1. base \in Nat
    BY FrameConstants
  <1>2. IsFiniteSet(A) /\ IsFiniteSet(B) /\ Cardinality(A) \in Nat /\ Cardinality(B) \in Nat
    BY HighSetFinite
  <1>3. /\ A = {c \in base + 0 .. base + m - 1 : c \in On /\ c - base >= low}
        /\ B = {c \in base + m .. base + n - 1 : c \in On /\ c - base >= low}
        /\ C = {c \in base + 0 .. base + n - 1 : c \in On /\ c - base >= low}
    BY DEF HighSet
  <1> HIDE DEF base, A, B, C
  <1>4. C = A \cup B /\ A \cap B = {}
    <2>1. /\ \A c : c \in base + 0 .. base + m - 1 <=> c \in Int /\ base <= c /\ c <= base + m - 1
          /\ \A c : c \in base + m .. base + n - 1 <=> c \in Int /\ base + m <= c /\ c <= base + n - 1
          /\ \A c : c \in base + 0 .. base + n - 1 <=> c \in Int /\ base <= c /\ c <= base + n - 1
      BY <1>1
    <2>2. \A c \in C : c \in A \/ c \in B
      BY <1>1, <1>3, <2>1
    <2>3. \A c \in A \cup B : c \in C
      BY <1>1, <1>3, <2>1
    <2>4. \A c \in A : c \notin B
      BY <1>1, <1>3, <2>1
    <2> QED BY <2>2, <2>3, <2>4
  <1>5. Cardinality(A \cup B) = Cardinality(A) + Cardinality(B) - Cardinality(A \cap B)
    BY <1>2, FS_Union
  <1>6. Cardinality(A \cap B) = 0
    BY <1>4, FS_EmptySet
  <1>7. Cardinality(C) = Cardinality(A) + Cardinality(B)
    BY <1>2, <1>4, <1>5, <1>6
  <1> QED BY <1>7 DEF A, B, C

\* Where the first n parts of a line end.
PartEnd(f, line, n) == IF n = 0 THEN 0 ELSE Segment(f, line, n).to

\* Each part of a line begins where the one before it ends.
LEMMA PartEnds ==
  ASSUME NEW f, FrameList(f), NEW line \in Nat
  PROVE  /\ PartEnd(f, line, 0) = 0 /\ PartEnd(f, line, Parts(f, line)) = LineCycles
         /\ \A n \in 1 .. Parts(f, line) :
                LET s == Segment(f, line, n)
                IN  /\ s \in Segments /\ s.from <= s.to
                    /\ s.from = PartEnd(f, line, n - 1) /\ s.to = PartEnd(f, line, n)
  <1> DEFINE P == Parts(f, line)
             S(n) == Segment(f, line, n)
  <1>1. P \in Nat \ {0}
    BY PartsAre
  <1>2. \A n \in 1 .. P : /\ S(n) \in Segments /\ S(n).from <= S(n).to
                          /\ n = 1 => S(n).from = 0
                          /\ n = P => S(n).to = LineCycles
                          /\ n # P => S(n).to = S(n + 1).from
    BY SegmentIs
  <1>3. /\ PartEnd(f, line, 0) = 0
        /\ \A n : n # 0 => PartEnd(f, line, n) = S(n).to
    BY DEF PartEnd
  <1> HIDE DEF P, S
  <1>4. ASSUME NEW n \in 1 .. P PROVE S(n).from = PartEnd(f, line, n - 1)
    <2>1. CASE n = 1
      BY <1>2, <1>3, <2>1
    <2>2. CASE n # 1
      <3>1. n - 1 \in 1 .. P /\ n - 1 # P /\ n - 1 # 0 /\ (n - 1) + 1 = n
        BY <1>1, <2>2
      <3> QED BY <1>2, <1>3, <3>1
    <2> QED BY <2>1, <2>2
  <1>5. P \in 1 .. P /\ P # 0 /\ \A n \in 1 .. P : n # 0
    BY <1>1
  <1> QED BY <1>2, <1>3, <1>4, <1>5 DEF P, S

(* The sum over the parts of a line is the number of its high cycles.      *)
LEMMA EnabledHighCyclesAre ==
  ASSUME NEW f, FrameList(f), NEW On, NEW limit \in Nat, Follows(f, On, limit),
         NEW line \in Nat, (line + 1) * LineCycles <= limit, NEW low \in 0 .. LineCycles
  PROVE  EnabledHighCycles(f, line, low)[Parts(f, line)]
           = Cardinality(HighSet(On, line, low, 0, LineCycles))
  <1> DEFINE P == Parts(f, line)
             S(n) == Segment(f, line, n)
             Add(v, n) == v + HighCycles(S(n), low)
             step == [p \in (1 .. P) \X Nat |-> Add(p[2], p[1])]
             zero == 0
             Sum[n \in 0 .. P] == IF n = 0 THEN zero ELSE Add(Sum[n - 1], n)
             R(h) == [n \in 0 .. P |-> IF n = 0 THEN zero ELSE Add(h[n - 1], n)]
             Size(m) == Cardinality(HighSet(On, line, low, 0, m))
  <1>1. P \in Nat /\ P \in 0 .. P
    BY PartsAre
  <1>2. EnabledHighCycles(f, line, low) = Sum
    BY DEF EnabledHighCycles
  <1>3. Sum = CHOOSE h : h = R(h)
    OBVIOUS
  <1> HIDE DEF Sum, P, zero
  <1>4. ASSUME NEW n \in 1 .. P
        PROVE  /\ S(n) \in Segments /\ S(n).from <= S(n).to
               /\ S(n).from = PartEnd(f, line, n - 1) /\ S(n).to = PartEnd(f, line, n)
               /\ S(n).from \in Nat /\ S(n).to \in Nat
               /\ HighCycles(S(n), low) = Cardinality(HighSet(On, line, low, S(n).from, S(n).to))
    <2>1. /\ S(n) \in Segments /\ S(n).from <= S(n).to
          /\ S(n).from = PartEnd(f, line, n - 1) /\ S(n).to = PartEnd(f, line, n)
      BY PartEnds DEF P
    <2>2. S(n).from \in Nat /\ S(n).to \in 0 .. LineCycles
      BY <2>1, FrameConstants DEF Segments
    <2>3. \A c \in line * LineCycles + S(n).from .. line * LineCycles + S(n).to - 1 :
              c < limit => (c \in On <=> S(n).gate = TRUE)
      BY SegmentFollows DEF P
    <2> HIDE DEF S
    <2>4. \A c \in line * LineCycles + S(n).from .. line * LineCycles + S(n).to - 1 :
              c \in On <=> S(n).gate = TRUE
      <3> SUFFICES ASSUME NEW c \in line * LineCycles + S(n).from .. line * LineCycles + S(n).to - 1
                   PROVE  c < limit
        BY <2>3
      <3>1. line * LineCycles \in Nat /\ (line + 1) * LineCycles = line * LineCycles + LineCycles
        BY FrameConstants
      <3> DEFINE base == line * LineCycles
                 next == (line + 1) * LineCycles
      <3>2. base \in Nat /\ next = base + LineCycles /\ next <= limit /\ LineCycles \in Nat
            /\ c \in base + S(n).from .. base + S(n).to - 1
        BY <3>1, FrameConstants
      <3> HIDE DEF base, next
      <3> QED BY <2>2, <3>2
    <2>5. HighCycles(S(n), low) = Cardinality(HighSet(On, line, low, S(n).from, S(n).to))
      BY <2>1, <2>4, HighCyclesIs
    <2> QED BY <2>1, <2>2, <2>5, FrameConstants
  <1> HIDE DEF S
  <1>5. ASSUME NEW n \in 1 .. P, NEW v \in Nat PROVE Add(v, n) \in Nat
    <2>1. HighCycles(S(n), low) \in Nat
      BY <1>4, HighSetFinite
    <2> QED BY <2>1
  <1> HIDE DEF Add
  <1>6. step \in [(1 .. P) \X Nat -> Nat] /\ zero \in Nat
        /\ \A n \in 1 .. P, v \in Nat : step[<<n, v>>] = Add(v, n)
    BY <1>5 DEF zero
  <1> HIDE DEF step
  <1>7. PICK g \in [0 .. P -> Nat] : Recursion(g, P, zero, step)
    BY <1>1, <1>6, RecursionExists
  <1>8. g = R(g)
    <2>1. ASSUME NEW n \in 0 .. P, n # 0 PROVE step[<<n, g[n - 1]>>] = Add(g[n - 1], n)
      <3>1. n - 1 \in 0 .. P /\ n \in 1 .. P
        BY <1>1, <2>1
      <3> QED BY <1>6, <3>1
    <2> QED BY <1>7, <2>1 DEF Recursion
  <1>9. Sum = R(Sum)
    BY <1>3, <1>8
  <1> HIDE DEF R
  <1>10. Sum[0] = zero /\ \A n \in 1 .. P : Sum[n] = Add(Sum[n - 1], n)
    BY <1>1, <1>9 DEF R
  <1> DEFINE Good == {n \in Nat : n <= P => Sum[n] = Size(PartEnd(f, line, n))}
  <1>11. 0 \in Good
    <2>1. HighSet(On, line, low, 0, 0) = {}
      <3>1. line * LineCycles \in Nat
        BY FrameConstants
      <3>2. line * LineCycles + 0 .. line * LineCycles + 0 - 1 = {}
        <4> DEFINE base == line * LineCycles
        <4>1. base \in Nat
          BY <3>1
        <4> HIDE DEF base
        <4>2. base + 0 .. base + 0 - 1 = {}
          BY <4>1
        <4> QED BY <4>2 DEF base
      <3> QED BY <3>2 DEF HighSet
    <2>2. PartEnd(f, line, 0) = 0
      BY DEF PartEnd
    <2> QED BY <1>10, <2>1, <2>2, FS_EmptySet DEF zero
  <1>12. ASSUME NEW n \in Nat, n \in Good PROVE n + 1 \in Good
    <2> SUFFICES ASSUME n + 1 <= P PROVE Sum[n + 1] = Size(PartEnd(f, line, n + 1))
      OBVIOUS
    <2>1. n + 1 \in 1 .. P /\ (n + 1) - 1 = n
      BY <1>1
    <2> DEFINE a == PartEnd(f, line, n)
               b == PartEnd(f, line, n + 1)
               t == S(n + 1)
    <2>2. /\ t.from = a /\ t.to = b /\ a <= b /\ a \in Nat /\ b \in Nat
          /\ HighCycles(t, low) = Cardinality(HighSet(On, line, low, a, b))
      BY <1>4, <2>1
    <2>3. Sum[n] = Size(a)
      BY <1>1, <1>12, <2>1
    <2>4. Sum[n + 1] = Sum[n] + HighCycles(t, low)
      BY <1>10, <2>1 DEF Add
    <2> HIDE DEF a, b, t
    <2>5. Size(b) = Size(a) + Cardinality(HighSet(On, line, low, a, b))
      BY <2>2, HighSetsMeet
    <2> QED BY <2>2, <2>3, <2>4, <2>5 DEF b
  <1>13. P \in Good
    <2> HIDE DEF Good
    <2> QED BY <1>1, <1>11, <1>12, SetInduction
  <1>14. PartEnd(f, line, P) = LineCycles
    BY PartEnds DEF P
  <1> QED BY <1>1, <1>2, <1>13, <1>14 DEF P

(* A sample is the share of its line that is high, to the nearest step.    *)
LEMMA GatedSampleIs ==
  ASSUME NEW f, FrameList(f), NEW On, NEW limit \in Nat, Follows(f, On, limit),
         NEW line \in Nat, (line + 1) * LineCycles <= limit, NEW value \in 0 .. Full
  PROVE  GatedSample(f, line, value)
           = (Cardinality(HighSet(On, line, LowCycles(value), 0, LineCycles)) * Full
                + LineCycles \div 2) \div LineCycles
  <1> DEFINE P == Parts(f, line)
             low == LowCycles(value)
             high == EnabledHighCycles(f, line, low)[P]
             s == Segment(f, line, 1)
             gate == GateAfter(f, EventIndex(f, line))
             H == HighSet(On, line, low, 0, LineCycles)
  <1>1. low \in 0 .. LineCycles
    BY LowCyclesIs
  <1>2. high = Cardinality(H)
    <2> HIDE DEF low
    <2> QED BY <1>1, EnabledHighCyclesAre
  <1>3. GatedSample(f, line, value)
          = IF P = 1 THEN IF gate THEN value ELSE 0
            ELSE (high * Full + LineCycles \div 2) \div LineCycles
    BY DEF GatedSample
  <1>4. CASE P # 1
    BY <1>2, <1>3, <1>4
  <1>5. CASE P = 1
    <2>1. 1 \in 1 .. P
      BY <1>5
    <2>2. s \in Segments /\ s.from = 0 /\ s.to = LineCycles /\ s.from <= s.to
      BY <1>5, <2>1, SegmentIs
    <2>3. s.gate = gate
      <3>1. EventIndex(f, line) + 1 - 1 = EventIndex(f, line)
        BY EventIndexIs
      <3> QED BY <2>1, <3>1, SegmentIs
    <2>4. \A c \in line * LineCycles + s.from .. line * LineCycles + s.to - 1 : c \in On <=> s.gate = TRUE
      <3>1. \A c \in line * LineCycles + s.from .. line * LineCycles + s.to - 1 :
              c < limit => (c \in On <=> s.gate = TRUE)
        BY <2>1, SegmentFollows
      <3> HIDE DEF s
      <3> SUFFICES ASSUME NEW c \in line * LineCycles + s.from .. line * LineCycles + s.to - 1
                   PROVE  c < limit
        BY <3>1
      <3>2. line * LineCycles \in Nat /\ (line + 1) * LineCycles = line * LineCycles + LineCycles
        BY FrameConstants
      <3> DEFINE base == line * LineCycles
                 next == (line + 1) * LineCycles
      <3>3. base \in Nat /\ next = base + LineCycles /\ next <= limit /\ LineCycles \in Nat
            /\ c \in base + s.from .. base + s.to - 1
        BY <3>2, FrameConstants
      <3> HIDE DEF base, next
      <3> QED BY <2>2, <3>3
    <2> HIDE DEF s, low, gate
    <2>5. Cardinality(H) = HighCycles(s, low)
      <3>1. HighCycles(s, low) = Cardinality(HighSet(On, line, low, s.from, s.to))
        BY <1>1, <2>2, <2>4, HighCyclesIs
      <3> QED BY <2>2, <3>1
    <2>6. gate \in BOOLEAN
      BY <2>2, <2>3 DEF Segments
    <2>7. CASE gate = TRUE
      <3>1. HighCycles(s, low) = LineCycles - low
        BY <1>1, <2>2, <2>3, <2>7, FrameConstants DEF HighCycles, AtLeast
      <3>2. value = ((LineCycles - low) * Full + LineCycles \div 2) \div LineCycles
        BY LowCyclesIs DEF low
      <3>3. GatedSample(f, line, value) = value
        BY <1>3, <1>5, <2>7
      <3> HIDE DEF H
      <3> QED BY <2>5, <3>1, <3>2, <3>3 DEF H, low
    <2>8. CASE gate = FALSE
      <3>1. HighCycles(s, low) = 0
        BY <2>3, <2>8 DEF HighCycles
      <3>2. GatedSample(f, line, value) = 0
        BY <1>3, <1>5, <2>8
      <3> DEFINE mid == LineCycles \div 2
      <3>3. LineCycles \in Nat \ {0} /\ mid \in 0 .. LineCycles - 1 /\ Full \in Nat
        <4>1. LineCycles \in Nat \ {0} /\ Full \in Nat
          BY SoundRenderAssumption
        <4> QED BY <4>1
      <3>4. mid = 0 * LineCycles + mid /\ 0 * Full + mid = mid
        BY <3>3
      <3> HIDE DEF mid, H
      <3>5. mid \div LineCycles = 0
        BY <3>3, <3>4, DividedOnce
      <3>6. (Cardinality(H) * Full + mid) \div LineCycles = 0
        BY <2>5, <3>1, <3>4, <3>5
      <3> QED BY <3>2, <3>6 DEF mid, H, low
    <2> QED BY <2>6, <2>7, <2>8
  <1> QED BY <1>4, <1>5

----------------------------------------------------------------------------
(***************************************************************************)
(* The RMT symbols of a frame.                                             *)
(***************************************************************************)
\* A waveform is an old one and then the level of each of a number of cycles, as
\* far as a limit.
Plays(wave, old, count, H, limit) ==
    /\ wave \in Seq(Level) /\ Len(wave) = Len(old) + TickOf(count)
    /\ \A i \in 1 .. Len(old) : wave[i] = old[i]
    /\ \A c \in 0 .. count - 1 : c < limit =>
          \A t \in TickOf(c) + 1 .. TickOf(c + 1) :
              wave[Len(old) + t] = IF c \in H THEN 1 ELSE 0

\* A level held up to a later cycle plays on the cycles between.
LEMMA PlaysOn ==
  ASSUME NEW wave, NEW old \in Seq(Level), NEW a \in Nat, NEW b \in Nat, a <= b, NEW H,
         NEW limit \in Nat, Plays(wave, old, a, H, limit), NEW level \in Level,
         \A c \in a .. b - 1 : c < limit => level = IF c \in H THEN 1 ELSE 0
  PROVE  Plays(Then(wave, Held(level, TickOf(b) - TickOf(a))), old, b, H, limit)
  <1> DEFINE held == Held(level, TickOf(b) - TickOf(a))
             new == Then(wave, held)
             L == Len(old)
  <1>1. /\ TickOf(a) \in Nat /\ TickOf(b) \in Nat /\ TickOf(a) <= TickOf(b)
        /\ TickOf(b) - TickOf(a) \in Nat
    BY TickIs
  <1>2. /\ held \in Seq(Level) /\ Len(held) = TickOf(b) - TickOf(a)
        /\ \A t \in 1 .. TickOf(b) - TickOf(a) : held[t] = level
    <2> DEFINE d == TickOf(b) - TickOf(a)
    <2>1. d \in Nat
      BY <1>1
    <2> HIDE DEF d
    <2> QED BY <2>1, HeldType DEF d
  <1>3. wave \in Seq(Level) /\ Len(wave) = L + TickOf(a) /\ \A i \in 1 .. L : wave[i] = old[i]
    BY DEF Plays
  <1> HIDE DEF held
  <1>4. /\ new \in Seq(Level) /\ Len(new) = Len(wave) + Len(held)
        /\ \A i \in 1 .. Len(wave) : new[i] = wave[i]
        /\ \A i \in 1 .. Len(held) : new[Len(wave) + i] = held[i]
    BY <1>2, <1>3, ThenIs
  <1>5. L \in Nat
    OBVIOUS
  <1> HIDE DEF new, L
  <1>6. Len(new) = L + TickOf(b)
    BY <1>1, <1>2, <1>3, <1>4, <1>5
  <1>7. \A i \in 1 .. L : new[i] = old[i]
    BY <1>1, <1>3, <1>4, <1>5
  <1>8. ASSUME NEW c \in 0 .. b - 1, c < limit, NEW t \in TickOf(c) + 1 .. TickOf(c + 1)
        PROVE  new[L + t] = IF c \in H THEN 1 ELSE 0
    <2>1. c \in Nat /\ c + 1 \in Nat /\ TickOf(c) \in Nat /\ TickOf(c + 1) \in Nat
      <3>1. c \in Nat /\ c + 1 \in Nat
        OBVIOUS
      <3> QED BY <3>1, TickIs
    <2>2. CASE c < a
      <3>1. TickOf(c + 1) <= TickOf(a)
        BY <2>1, <2>2, TickIs, c + 1 <= a
      <3>2. t \in 1 .. TickOf(a) /\ L + t \in 1 .. Len(wave)
        BY <1>1, <1>3, <1>5, <2>1, <3>1
      <3>3. wave[L + t] = IF c \in H THEN 1 ELSE 0
        BY <1>8, <2>1, <2>2 DEF Plays, L
      <3> QED BY <1>4, <3>2, <3>3
    <2>3. CASE ~(c < a)
      <3>1. TickOf(a) <= TickOf(c) /\ TickOf(c + 1) <= TickOf(b)
        BY <2>1, <2>3, TickIs, a <= c, c + 1 <= b
      <3> DEFINE i == t - TickOf(a)
      <3> DEFINE ta == TickOf(a)
                 tb == TickOf(b)
                 tc == TickOf(c)
                 td == TickOf(c + 1)
      <3>0. /\ ta \in Nat /\ tb \in Nat /\ tc \in Nat /\ td \in Nat /\ ta <= tc /\ td <= tb
            /\ t \in tc + 1 .. td /\ i = t - ta /\ Len(wave) = L + ta
        BY <1>1, <1>3, <2>1, <3>1
      <3>2. i \in 1 .. tb - ta /\ L + t = Len(wave) + i
        <4> HIDE DEF ta, tb, tc, td, i
        <4> QED BY <1>5, <3>0
      <3> HIDE DEF i
      <3>3. new[L + t] = level
        BY <1>2, <1>4, <3>2
      <3>4. c \in a .. b - 1
        BY <2>1, <2>3
      <3> QED BY <1>8, <3>3, <3>4
    <2> QED BY <2>2, <2>3
  <1> QED BY <1>4, <1>6, <1>7, <1>8 DEF Plays, new, held, L

\* A run leaves whole symbols and at most one pending.
LEMMA AppendRunType ==
  ASSUME NEW w \in Writers, NEW level \in Level, NEW from \in Nat, NEW to \in Nat
  PROVE  AppendRun(w, level, from, to) \in Writers
  <1>1. CASE from <= to
    BY <1>1, AppendRunIs
  <1>2. CASE ~(from <= to)
    <2>1. ~(to > from)
      BY <1>2
    <2> QED BY <2>1 DEF AppendRun
  <1> QED BY <1>1, <1>2

\* A run from one cycle to another plays the cycles between.
LEMMA RunPlays ==
  ASSUME NEW w \in Writers, NEW old \in Seq(Level), NEW a \in Nat, NEW b \in Nat, a <= b, NEW H,
         NEW limit \in Nat, Plays(Waveform(w), old, a, H, limit), NEW level \in Level,
         \A c \in a .. b - 1 : c < limit => level = IF c \in H THEN 1 ELSE 0
  PROVE  LET v == AppendRun(w, level, TickOf(a), TickOf(b))
         IN  v \in Writers /\ Plays(Waveform(v), old, b, H, limit)
  <1> DEFINE v == AppendRun(w, level, TickOf(a), TickOf(b))
  <1>1. TickOf(a) \in Nat /\ TickOf(b) \in Nat /\ TickOf(a) <= TickOf(b)
    BY TickIs
  <1>2. v \in Writers /\ Waveform(v) = Then(Waveform(w), Held(level, TickOf(b) - TickOf(a)))
    BY <1>1, AppendRunIs
  <1> HIDE DEF v
  <1>3. Plays(Then(Waveform(w), Held(level, TickOf(b) - TickOf(a))), old, b, H, limit)
    BY PlaysOn
  <1>4. Plays(Waveform(v), old, b, H, limit)
    BY <1>2, <1>3
  <1> QED BY <1>2, <1>4 DEF v

\* The ticks of a part are those of its cycles, carried along or not.
LEMMA SegmentTicks ==
  ASSUME NEW line \in 0 .. Lines - 1, NEW s \in Segments
  PROVE  /\ line * LineCycles + s.from \in Nat /\ line * LineCycles + s.to \in Nat
         /\ StartTick(line, s) = TickOf(line * LineCycles + s.from)
         /\ EndTick(line, s) = TickOf(line * LineCycles + s.to)
  <1>1. /\ line \in Nat /\ s.from \in Nat /\ s.to \in Nat /\ LineCycles \in Nat /\ Lines \in Nat
        /\ line \in 0 .. Lines /\ line + 1 \in 0 .. Lines
    BY FrameConstants DEF Segments
  <1>2. line * LineCycles \in Nat /\ (line + 1) * LineCycles = line * LineCycles + LineCycles
    BY <1>1
  <1>3. Tick(line, s.from) = TickOf(line * LineCycles + s.from)
        /\ Tick(line, s.to) = TickOf(line * LineCycles + s.to)
    BY <1>1, TickIs
  <1>4. LineTicks[line].tick = TickOf(line * LineCycles)
        /\ LineTicks[line + 1].tick = TickOf((line + 1) * LineCycles)
    BY <1>1, LineTicksAre
  <1>5. StartTick(line, s) = TickOf(line * LineCycles + s.from)
    <2>1. CASE s.from = 0
      <3>1. line * LineCycles + s.from = line * LineCycles
        BY <1>2, <2>1
      <3> QED BY <1>4, <2>1, <3>1 DEF StartTick
    <2>2. CASE s.from # 0
      BY <1>3, <2>2 DEF StartTick
    <2> QED BY <2>1, <2>2
  <1>6. EndTick(line, s) = TickOf(line * LineCycles + s.to)
    <2>1. CASE s.to = LineCycles
      <3>1. line * LineCycles + s.to = (line + 1) * LineCycles
        BY <1>2, <2>1
      <3> QED BY <1>4, <2>1, <3>1 DEF EndTick
    <2>2. CASE s.to # LineCycles
      BY <1>3, <2>2 DEF EndTick
    <2> QED BY <2>1, <2>2
  <1> QED BY <1>1, <1>2, <1>5, <1>6

\* A part leaves whole symbols and at most one pending.
LEMMA RenderSegmentType ==
  ASSUME NEW w \in Writers, NEW volume, NEW line \in 0 .. Lines - 1, NEW low \in 0 .. LineCycles,
         NEW s \in Segments
  PROVE  RenderSegment(w, volume, line, low, s) \in Writers
  <1> DEFINE from == StartTick(line, s)
             to == EndTick(line, s)
             rise == Tick(line, low)
  <1>1. from \in Nat /\ to \in Nat
    <2>1. line * LineCycles + s.from \in Nat /\ line * LineCycles + s.to \in Nat
      BY SegmentTicks
    <2> QED BY <2>1, SegmentTicks, TickIs
  <1>2. rise \in Nat
    <2>1. line \in Nat /\ low \in Nat /\ line * LineCycles + low \in Nat
      BY FrameConstants
    <2> QED BY <2>1, TickIs
  <1>3. \/ RenderSegment(w, volume, line, low, s) = AppendRun(w, 0, from, to)
        \/ RenderSegment(w, volume, line, low, s) = AppendRun(w, 1, from, to)
        \/ RenderSegment(w, volume, line, low, s) = AppendRun(AppendRun(w, 0, from, rise), 1, rise, to)
    <2> HIDE DEF from, to, rise
    <2>1. s.to \in Nat /\ s.from \in Nat /\ low \in Nat
      BY FrameConstants DEF Segments
    <2>2. \/ EmitEnabledTicks(w, line, low, s) = AppendRun(w, 0, from, to)
          \/ EmitEnabledTicks(w, line, low, s) = AppendRun(w, 1, from, to)
          \/ EmitEnabledTicks(w, line, low, s) = AppendRun(AppendRun(w, 0, from, rise), 1, rise, to)
      <3>1. CASE s.to <= low
        BY <2>1, <3>1 DEF EmitEnabledTicks, from, to, rise
      <3>2. CASE ~(s.to <= low) /\ s.from >= low
        BY <2>1, <3>2 DEF EmitEnabledTicks, from, to, rise
      <3>3. CASE ~(s.to <= low) /\ ~(s.from >= low)
        BY <2>1, <3>3 DEF EmitEnabledTicks, from, to, rise
      <3> QED BY <3>1, <3>2, <3>3
    <2> QED BY <2>2 DEF RenderSegment, from, to
  <1> HIDE DEF from, to, rise
  <1>4. 0 \in Level /\ 1 \in Level
    BY DEF Level
  <1>5. AppendRun(w, 0, from, rise) \in Writers
    BY <1>1, <1>2, <1>4, AppendRunType
  <1>6. AppendRun(AppendRun(w, 0, from, rise), 1, rise, to) \in Writers
    BY <1>1, <1>2, <1>4, <1>5, AppendRunType
  <1> QED BY <1>1, <1>3, <1>4, <1>6, AppendRunType

\* The cycles of a line that are high, below a limit.
HighLine(H, volume, On, line, low, limit) ==
    \A x \in 0 .. LineCycles - 1 : line * LineCycles + x < limit =>
        (line * LineCycles + x \in H <=> volume # 0 /\ line * LineCycles + x \in On /\ x >= low)

\* The gate from one cycle to another, below a limit.
GateIs(gate, On, a, b, limit) ==
    \A c \in a .. b - 1 : c < limit => (c \in On <=> gate = TRUE)

\* A part plays its cycles: none high without volume or gate, else from the rise.
LEMMA RenderSegmentPlays ==
  ASSUME NEW w \in Writers, NEW old \in Seq(Level), NEW volume, NEW line \in 0 .. Lines - 1,
         NEW low \in 0 .. LineCycles, NEW s \in Segments, s.from <= s.to, NEW On, NEW H,
         NEW limit \in Nat, HighLine(H, volume, On, line, low, limit),
         GateIs(s.gate, On, line * LineCycles + s.from, line * LineCycles + s.to, limit),
         Plays(Waveform(w), old, line * LineCycles + s.from, H, limit)
  PROVE  LET v == RenderSegment(w, volume, line, low, s)
         IN  v \in Writers /\ Plays(Waveform(v), old, line * LineCycles + s.to, H, limit)
  <1> DEFINE base == line * LineCycles
             a == base + s.from
             b == base + s.to
             m == base + low
             v == RenderSegment(w, volume, line, low, s)
             A == TickOf(a)
             B == TickOf(b)
             M == TickOf(m)
  <1>1. /\ base \in Nat /\ s.from \in 0 .. LineCycles /\ s.to \in 0 .. LineCycles
        /\ s.gate \in BOOLEAN /\ low \in 0 .. LineCycles /\ LineCycles \in Nat /\ s.from <= s.to
    BY FrameConstants DEF Segments
  <1>2. StartTick(line, s) = A /\ EndTick(line, s) = B
    BY SegmentTicks
  <1>3. Tick(line, low) = M
    <2>1. line \in Nat /\ low \in Nat
      BY <1>1
    <2> QED BY <2>1, TickIs
  <1>4. \A c \in a .. b - 1 : c < limit => (c \in On <=> s.gate = TRUE)
    BY DEF GateIs
  <1>5. \A x \in 0 .. LineCycles - 1 : base + x < limit =>
            (base + x \in H <=> volume # 0 /\ base + x \in On /\ x >= low)
    BY DEF HighLine
  <1>6. Plays(Waveform(w), old, a, H, limit)
    OBVIOUS
  <1>7. v = IF volume = 0 \/ ~s.gate THEN AppendRun(w, 0, A, B) ELSE EmitEnabledTicks(w, line, low, s)
    BY <1>2 DEF RenderSegment
  <1>8. /\ s.to <= low => EmitEnabledTicks(w, line, low, s) = AppendRun(w, 0, A, B)
        /\ ~(s.to <= low) /\ s.from >= low => EmitEnabledTicks(w, line, low, s) = AppendRun(w, 1, A, B)
        /\ ~(s.to <= low) /\ ~(s.from >= low) =>
              EmitEnabledTicks(w, line, low, s) = AppendRun(AppendRun(w, 0, A, M), 1, M, B)
    <2> HIDE DEF A, B, M, base
    <2>1. s.to \in Nat /\ s.from \in Nat /\ low \in Nat
      BY <1>1
    <2>2. CASE s.to <= low
      BY <1>2, <1>3, <2>1, <2>2 DEF EmitEnabledTicks
    <2>3. CASE ~(s.to <= low) /\ s.from >= low
      BY <1>2, <1>3, <2>1, <2>3 DEF EmitEnabledTicks
    <2>4. CASE ~(s.to <= low) /\ ~(s.from >= low)
      BY <1>2, <1>3, <2>1, <2>4 DEF EmitEnabledTicks
    <2> QED BY <2>2, <2>3, <2>4
  <1>9. a \in Nat /\ b \in Nat /\ m \in Nat /\ a <= b /\ (low <= s.to => m <= b) /\ (s.from <= low => a <= m)
    BY <1>1
  <1>10. ASSUME NEW c \in a .. b - 1, c < limit
         PROVE  c \in H <=> volume # 0 /\ s.gate = TRUE /\ c >= m
    <2> DEFINE x == c - base
    <2>1. x \in 0 .. LineCycles - 1 /\ base + x = c /\ (x >= low <=> c >= m)
      BY <1>1, <1>10
    <2> HIDE DEF x, base, a, b, m
    <2>2. c \in H <=> volume # 0 /\ c \in On /\ x >= low
      BY <1>5, <1>10, <2>1
    <2> QED BY <1>4, <1>10, <2>1, <2>2
  <1>11. 0 \in Level /\ 1 \in Level
    BY DEF Level
  <1> HIDE DEF a, b, m, v, base
  <1>12. ASSUME \A c \in a .. b - 1 : c < limit => c \notin H
         PROVE  AppendRun(w, 0, A, B) \in Writers
                /\ Plays(Waveform(AppendRun(w, 0, A, B)), old, b, H, limit)
    <2>1. \A c \in a .. b - 1 : c < limit => 0 = IF c \in H THEN 1 ELSE 0
      BY <1>12
    <2> QED BY <1>6, <1>9, <1>11, <2>1, RunPlays
  <1>13. CASE volume = 0 \/ ~s.gate
    <2>1. \A c \in a .. b - 1 : c < limit => c \notin H
      BY <1>1, <1>10, <1>13
    <2>2. v = AppendRun(w, 0, A, B)
      BY <1>7, <1>13
    <2> HIDE DEF A, B
    <2> QED BY <1>12, <2>1, <2>2 DEF v, b, base
  <1>14. CASE ~(volume = 0 \/ ~s.gate)
    <2>1. s.gate = TRUE /\ volume # 0 /\ v = EmitEnabledTicks(w, line, low, s)
      BY <1>1, <1>7, <1>14
    <2>2. CASE s.to <= low
      <3>1. b <= m
        BY <1>1, <2>2 DEF b, m
      <3>2. \A c \in a .. b - 1 : c < limit => c \notin H
        <4>1. \A c \in a .. b - 1 : ~(c >= m)
          BY <1>9, <3>1
        <4> QED BY <1>10, <4>1
      <3>3. v = AppendRun(w, 0, A, B)
        BY <1>8, <2>1, <2>2
      <3> HIDE DEF A, B
      <3> QED BY <1>12, <3>2, <3>3 DEF v, b, base
    <2>3. CASE ~(s.to <= low) /\ s.from >= low
      <3>1. m <= a
        BY <1>1, <2>3 DEF a, m
      <3>2. \A c \in a .. b - 1 : c < limit => 1 = IF c \in H THEN 1 ELSE 0
        <4>1. \A c \in a .. b - 1 : c >= m
          BY <1>9, <3>1
        <4> QED BY <1>10, <2>1, <4>1
      <3>3. v = AppendRun(w, 1, A, B)
        BY <1>8, <2>1, <2>3
      <3>4. AppendRun(w, 1, A, B) \in Writers
            /\ Plays(Waveform(AppendRun(w, 1, A, B)), old, b, H, limit)
        BY <1>6, <1>9, <1>11, <3>2, RunPlays
      <3> HIDE DEF A, B
      <3> QED BY <3>3, <3>4 DEF v, b, base
    <2>4. CASE ~(s.to <= low) /\ ~(s.from >= low)
      <3>1. a <= m /\ m <= b
        BY <1>1, <1>9, <2>4
      <3> DEFINE u == AppendRun(w, 0, A, M)
                 z == AppendRun(u, 1, M, B)
      <3>2. \A c \in a .. m - 1 : c < limit => 0 = IF c \in H THEN 1 ELSE 0
        <4>1. \A c \in a .. m - 1 : c \in a .. b - 1 /\ ~(c >= m)
          BY <1>9, <3>1
        <4> QED BY <1>10, <4>1
      <3>3. \A c \in m .. b - 1 : c < limit => 1 = IF c \in H THEN 1 ELSE 0
        <4>1. \A c \in m .. b - 1 : c \in a .. b - 1 /\ c >= m
          BY <1>9, <3>1
        <4> QED BY <1>10, <2>1, <4>1
      <3>4. u \in Writers /\ Plays(Waveform(u), old, m, H, limit)
        BY <1>6, <1>9, <1>11, <3>1, <3>2, RunPlays
      <3> HIDE DEF u
      <3>5. z \in Writers /\ Plays(Waveform(z), old, b, H, limit)
        BY <1>9, <1>11, <3>1, <3>3, <3>4, RunPlays
      <3>6. v = z
        BY <1>8, <2>1, <2>4 DEF u
      <3> HIDE DEF z
      <3> QED BY <3>5, <3>6 DEF v, b, base
    <2> QED BY <2>2, <2>3, <2>4
  <1> QED BY <1>13, <1>14

\* The gate of a part is the one heard in its cycles.
LEMMA SegmentGateIs ==
  ASSUME NEW f, FrameList(f), NEW On, NEW limit \in Nat, Follows(f, On, limit),
         NEW line \in Nat, NEW n \in 1 .. Parts(f, line)
  PROVE  LET s == Segment(f, line, n)
         IN  GateIs(s.gate, On, line * LineCycles + s.from, line * LineCycles + s.to, limit)
  <1> DEFINE s == Segment(f, line, n)
             a == line * LineCycles + s.from
             b == line * LineCycles + s.to
  <1>1. \A c \in a .. b - 1 : c < limit => (c \in On <=> s.gate = TRUE)
    <2>1. \A c \in a .. line * LineCycles + s.to - 1 : c < limit => (c \in On <=> s.gate = TRUE)
      BY SegmentFollows
    <2>2. line * LineCycles \in Nat /\ s.to \in Nat
      BY SegmentIs, FrameConstants DEF Segments
    <2>3. line * LineCycles + s.to - 1 = b - 1
      <3> DEFINE base == line * LineCycles
                 to == s.to
      <3> HIDE DEF base, to
      <3>1. base + to - 1 = (base + to) - 1
        BY <2>2 DEF base, to
      <3> QED BY <3>1 DEF base, to
    <2> HIDE DEF a, b, s
    <2> QED BY <2>1, <2>3
  <1> HIDE DEF s, a, b
  <1>2. GateIs(s.gate, On, a, b, limit)
    BY <1>1 DEF GateIs
  <1> QED BY <1>2 DEF s, a, b

\* A line plays its cycles.
LEMMA RenderLinePlays ==
  ASSUME NEW w \in Writers, NEW old \in Seq(Level), NEW volume, NEW f, FrameList(f),
         NEW line \in 0 .. Lines - 1, NEW value \in 0 .. Full, NEW On, NEW H, NEW limit \in Nat,
         Follows(f, On, limit), HighLine(H, volume, On, line, LowCycles(value), limit)
  PROVE  LET v == RenderLine(w, volume, f, line, value)
         IN  /\ v \in Writers
             /\ Plays(Waveform(w), old, line * LineCycles, H, limit)
                  => Plays(Waveform(v), old, (line + 1) * LineCycles, H, limit)
  <1> DEFINE P == Parts(f, line)
             low == LowCycles(value)
             S(n) == Segment(f, line, n)
             Add(v, n) == RenderSegment(v, volume, line, low, S(n))
             step == [p \in (1 .. P) \X Writers |-> Add(p[2], p[1])]
             All[n \in 0 .. P] == IF n = 0 THEN w ELSE Add(All[n - 1], n)
             R(h) == [n \in 0 .. P |-> IF n = 0 THEN w ELSE Add(h[n - 1], n)]
             End(n) == line * LineCycles + PartEnd(f, line, n)
  <1>1. P \in Nat /\ P \in 0 .. P /\ line \in Nat
    BY PartsAre, FrameConstants
  <1>2. RenderLine(w, volume, f, line, value) = All[P]
    BY DEF RenderLine, RenderSegments
  <1>3. All = CHOOSE h : h = R(h)
    OBVIOUS
  <1>4. low \in 0 .. LineCycles /\ HighLine(H, volume, On, line, low, limit)
    BY LowCyclesIs
  <1> HIDE DEF All, P, low
  <1>5. ASSUME NEW n \in 1 .. P
        PROVE  /\ S(n) \in Segments /\ S(n).from <= S(n).to
               /\ line * LineCycles + S(n).from = End(n - 1) /\ line * LineCycles + S(n).to = End(n)
               /\ GateIs(S(n).gate, On, line * LineCycles + S(n).from, line * LineCycles + S(n).to, limit)
    BY <1>1, PartEnds, SegmentGateIs DEF P
  <1> HIDE DEF S, End
  <1>6. ASSUME NEW n \in 1 .. P, NEW v \in Writers PROVE Add(v, n) \in Writers
    BY <1>4, <1>5, RenderSegmentType
  <1> HIDE DEF Add
  <1>7. step \in [(1 .. P) \X Writers -> Writers]
        /\ \A n \in 1 .. P, v \in Writers : step[<<n, v>>] = Add(v, n)
    BY <1>6
  <1> HIDE DEF step
  <1>8. PICK g \in [0 .. P -> Writers] : Recursion(g, P, w, step)
    BY <1>1, <1>7, RecursionExists
  <1>9. g = R(g)
    <2>1. ASSUME NEW n \in 0 .. P, n # 0 PROVE step[<<n, g[n - 1]>>] = Add(g[n - 1], n)
      <3>1. n - 1 \in 0 .. P /\ n \in 1 .. P
        BY <1>1, <2>1
      <3> QED BY <1>7, <3>1
    <2> QED BY <1>8, <2>1 DEF Recursion
  <1>10. All = R(All)
    BY <1>3, <1>9
  <1> HIDE DEF R
  <1>11. All[0] = w /\ \A n \in 1 .. P : All[n] = Add(All[n - 1], n)
    BY <1>1, <1>10 DEF R
  <1>12. \A n \in 0 .. P : All[n] \in Writers
    <2>1. Computes(All, P, Writers, w, step)
      BY <1>7, <1>11 DEF Computes
    <2> QED BY <1>1, <1>7, <2>1, RecursionTyped
  <1>13. ASSUME Plays(Waveform(w), old, line * LineCycles, H, limit)
         PROVE  Plays(Waveform(All[P]), old, (line + 1) * LineCycles, H, limit)
    <2> DEFINE Good == {n \in Nat : n <= P => Plays(Waveform(All[n]), old, End(n), H, limit)}
    <2>1. 0 \in Good
      <3>1. End(0) = line * LineCycles
        <4>1. line * LineCycles \in Nat /\ PartEnd(f, line, 0) = 0
          BY <1>1, FrameConstants DEF PartEnd
        <4> QED BY <4>1 DEF End
      <3> QED BY <1>11, <1>13, <3>1
    <2>2. ASSUME NEW n \in Nat, n \in Good PROVE n + 1 \in Good
      <3> SUFFICES ASSUME n + 1 <= P PROVE Plays(Waveform(All[n + 1]), old, End(n + 1), H, limit)
        OBVIOUS
      <3>1. n + 1 \in 1 .. P /\ (n + 1) - 1 = n /\ n \in 0 .. P
        BY <1>1
      <3> DEFINE s == S(n + 1)
      <3>2. /\ s \in Segments /\ s.from <= s.to
            /\ line * LineCycles + s.from = End(n) /\ line * LineCycles + s.to = End(n + 1)
            /\ GateIs(s.gate, On, line * LineCycles + s.from, line * LineCycles + s.to, limit)
        BY <1>5, <3>1
      <3>3. All[n + 1] = RenderSegment(All[n], volume, line, low, s) /\ All[n] \in Writers
        BY <1>11, <1>12, <3>1 DEF Add
      <3>4. Plays(Waveform(All[n]), old, line * LineCycles + s.from, H, limit)
        BY <2>2, <3>1, <3>2
      <3> HIDE DEF s, Good
      <3>5. Plays(Waveform(RenderSegment(All[n], volume, line, low, s)), old,
                  line * LineCycles + s.to, H, limit)
        BY <1>4, <3>2, <3>3, <3>4, RenderSegmentPlays
      <3> QED BY <3>2, <3>3, <3>5
    <2>3. P \in Good
      <3> HIDE DEF Good
      <3> QED BY <1>1, <2>1, <2>2, SetInduction
    <2>4. End(P) = (line + 1) * LineCycles
      <3>1. PartEnd(f, line, P) = LineCycles
        BY <1>1, PartEnds DEF P
      <3>2. (line + 1) * LineCycles = line * LineCycles + LineCycles
        BY <1>1, FrameConstants
      <3> QED BY <3>1, <3>2 DEF End
    <2> QED BY <1>1, <2>3, <2>4
  <1> QED BY <1>1, <1>2, <1>12, <1>13

\* The lines play the frame.
LEMMA RenderLinesPlay ==
  ASSUME NEW w \in Writers, NEW volume, NEW f, FrameList(f),
         NEW samples \in [0 .. Lines - 1 -> 0 .. Full], NEW On, NEW H, NEW limit \in Nat,
         Follows(f, On, limit),
         \A line \in 0 .. Lines - 1 : HighLine(H, volume, On, line, LowCycles(samples[line]), limit)
  PROVE  LET v == RenderLines(w, volume, f, samples)[Lines]
         IN  v \in Writers /\ Plays(Waveform(v), Waveform(w), Lines * LineCycles, H, limit)
  <1> DEFINE Add(v, n) == RenderLine(v, volume, f, n - 1, samples[n - 1])
             step == [p \in (1 .. Lines) \X Writers |-> Add(p[2], p[1])]
             All[n \in 0 .. Lines] == IF n = 0 THEN w ELSE Add(All[n - 1], n)
             R(h) == [n \in 0 .. Lines |-> IF n = 0 THEN w ELSE Add(h[n - 1], n)]
             old == Waveform(w)
  <1>1. Lines \in Nat /\ LineCycles \in Nat
    BY FrameConstants
  <1>2. RenderLines(w, volume, f, samples) = All
    BY DEF RenderLines
  <1>3. All = CHOOSE h : h = R(h)
    OBVIOUS
  <1> HIDE DEF All
  <1>4. old \in Seq(Level)
    BY WaveformType
  <1> HIDE DEF old
  <1>5. ASSUME NEW n \in 1 .. Lines, NEW v \in Writers
        PROVE  /\ Add(v, n) \in Writers
               /\ Plays(Waveform(v), old, (n - 1) * LineCycles, H, limit)
                    => Plays(Waveform(Add(v, n)), old, n * LineCycles, H, limit)
    <2> DEFINE line == n - 1
    <2>1. line \in 0 .. Lines - 1 /\ line + 1 = n
      BY <1>1
    <2> HIDE DEF line
    <2>2. samples[line] \in 0 .. Full /\ HighLine(H, volume, On, line, LowCycles(samples[line]), limit)
      BY <2>1
    <2>3. LET u == RenderLine(v, volume, f, line, samples[line])
          IN  /\ u \in Writers
              /\ Plays(Waveform(v), old, line * LineCycles, H, limit)
                   => Plays(Waveform(u), old, (line + 1) * LineCycles, H, limit)
      BY <1>4, <2>1, <2>2, RenderLinePlays
    <2> QED BY <2>1, <2>3 DEF line
  <1> HIDE DEF Add
  <1>6. step \in [(1 .. Lines) \X Writers -> Writers]
        /\ \A n \in 1 .. Lines, v \in Writers : step[<<n, v>>] = Add(v, n)
    BY <1>5
  <1> HIDE DEF step
  <1>7. PICK g \in [0 .. Lines -> Writers] : Recursion(g, Lines, w, step)
    BY <1>1, <1>6, RecursionExists
  <1>8. g = R(g)
    <2>1. ASSUME NEW n \in 0 .. Lines, n # 0 PROVE step[<<n, g[n - 1]>>] = Add(g[n - 1], n)
      <3>1. n - 1 \in 0 .. Lines /\ n \in 1 .. Lines
        BY <1>1, <2>1
      <3> QED BY <1>6, <3>1
    <2> QED BY <1>7, <2>1 DEF Recursion
  <1>9. All = R(All)
    BY <1>3, <1>8
  <1> HIDE DEF R
  <1>10. All[0] = w /\ \A n \in 1 .. Lines : All[n] = Add(All[n - 1], n)
    BY <1>1, <1>9 DEF R
  <1>11. \A n \in 0 .. Lines : All[n] \in Writers
    <2>1. Computes(All, Lines, Writers, w, step)
      BY <1>6, <1>10 DEF Computes
    <2> QED BY <1>1, <1>6, <2>1, RecursionTyped
  <1> DEFINE Good == {n \in Nat : n <= Lines => Plays(Waveform(All[n]), old, n * LineCycles, H, limit)}
  <1>12. 0 \in Good
    <2>1. 0 * LineCycles = 0
      BY <1>1
    <2>2. Len(old) \in Nat /\ Len(old) + TickOf(0) = Len(old)
      BY <1>4, TickIs
    <2>3. Plays(old, old, 0, H, limit)
      BY <1>4, <2>2 DEF Plays
    <2> QED BY <1>10, <2>1, <2>3 DEF old
  <1>13. ASSUME NEW n \in Nat, n \in Good PROVE n + 1 \in Good
    <2> SUFFICES ASSUME n + 1 <= Lines
                 PROVE  Plays(Waveform(All[n + 1]), old, (n + 1) * LineCycles, H, limit)
      OBVIOUS
    <2>1. n + 1 \in 1 .. Lines /\ (n + 1) - 1 = n /\ n \in 0 .. Lines
      BY <1>1
    <2>2. Plays(Waveform(All[n]), old, n * LineCycles, H, limit) /\ All[n] \in Writers
      BY <1>11, <1>13, <2>1
    <2>3. All[n + 1] = Add(All[n], n + 1)
      BY <1>10, <2>1
    <2> HIDE DEF Good
    <2> QED BY <1>5, <2>1, <2>2, <2>3
  <1>14. Lines \in Good
    <2> HIDE DEF Good
    <2> QED BY <1>1, <1>12, <1>13, SetInduction
  <1>15. Lines \in 0 .. Lines
    BY <1>1
  <1> QED BY <1>1, <1>2, <1>11, <1>14, <1>15 DEF old

(* A frame is played after what the last one left pending.                 *)
LEMMA RenderFrameIs ==
  ASSUME NEW carried \in Carried, NEW volume, NEW f, FrameList(f),
         NEW samples \in [0 .. Lines - 1 -> 0 .. Full], NEW On, NEW H, NEW limit \in Nat,
         Follows(f, On, limit),
         \A line \in 0 .. Lines - 1 : HighLine(H, volume, On, line, LowCycles(samples[line]), limit)
  PROVE  LET v == RenderFrame([out |-> <<>>, pending |-> carried], volume, f, samples)
         IN  /\ v.out \in Seq(Symbols) /\ v.pending \in Carried
             /\ Plays(Waveform(v), SymbolWave(carried), Lines * LineCycles, H, limit)
  <1> DEFINE w == [out |-> <<>>, pending |-> carried]
             u == RenderLines(w, volume, f, samples)[Lines]
             v == RenderFrame(w, volume, f, samples)
  <1>1. w \in Writers /\ w.out = <<>> /\ w.pending = carried
    BY DEF Writers
  <1>2. Waveform(w) = SymbolWave(carried)
    <2>1. <<>> \in Seq(Symbols) /\ Len(<<>>) = 0
      OBVIOUS
    <2>2. Waves(<<>>)[0] = <<>>
      BY <2>1, WavesIs
    <2>3. Waveform(w) = Then(<<>>, SymbolWave(carried))
      BY <1>1, <2>1, <2>2 DEF Waveform, Then
    <2>4. SymbolWave(carried) \in Seq(Level) /\ <<>> \in Seq(Level)
      BY SymbolWaveIs
    <2> QED BY <2>3, <2>4, ThenIs
  <1> HIDE DEF w
  <1>3. u \in Writers /\ Plays(Waveform(u), Waveform(w), Lines * LineCycles, H, limit)
    BY <1>1, RenderLinesPlay
  <1>4. v = Flush(u)
    BY DEF RenderFrame
  <1> HIDE DEF u
  <1>5. v \in Writers /\ v.pending \in Carried /\ Waveform(v) = Waveform(u)
    BY <1>3, <1>4, FlushKeeps
  <1> HIDE DEF v
  <1>6. v.out \in Seq(Symbols)
    BY <1>5 DEF Writers
  <1>7. Plays(Waveform(v), SymbolWave(carried), Lines * LineCycles, H, limit)
    BY <1>2, <1>3, <1>5
  <1> QED BY <1>5, <1>6, <1>7 DEF v, w

----------------------------------------------------------------------------
(***************************************************************************)
(* The frame that is heard.  Up to now, and before an edge that found no   *)
(* room, the list says at which cycles the gate is on.                     *)
(***************************************************************************)
\* An edge that found no room came after the last of a full list.
LostLate ==
    /\ lostFrom \in 0 .. Lines
    /\ lostFrom < Lines => /\ Len(events) = MaxEvents /\ Time(events[MaxEvents]) < elapsed
                           /\ lostFrom * LineCycles <= elapsed
    /\ audio_en = ListedGate(events) \/ lostFrom < Lines

\* The list follows the gate from cycle to cycle.
ListFollows ==
    \A c \in 0 .. elapsed - 1, n \in 0 .. Len(events) :
        c < lostFrom * LineCycles /\ Taken(HeardFrame, n, c) =>
            (Gated(c) <=> GateAfter(HeardFrame, n) = TRUE)

\* From the start of a frame, its list says what is heard, while only the guest's
\* writes have moved the gate.
Heard ==
    pc # "begin" /\ ~disturbed =>
        /\ early \in 0 .. elapsed /\ on \subseteq 0 .. elapsed - 1
        /\ LostLate /\ ListFollows

(* The three things recordSoundGateEvent does with an edge.                *)
LEMMA RecordedIs ==
  ASSUME NEW evs \in Seq(GateEvent), NEW e \in GateEvent, NEW gate \in BOOLEAN,
         startGate \in BOOLEAN, Len(evs) <= MaxEvents, Alternate(evs), Increasing(evs),
         \A i \in 1 .. Len(evs) : Time(evs[i]) <= Time(e),
         \/ gate = ListedGate(evs)
         \/ Len(evs) = MaxEvents /\ Time(evs[Len(evs)]) < Time(e),
         e.state = ~gate
  PROVE  LET new == Recorded(evs, e)
         IN  \/ /\ evs # <<>> /\ Time(evs[Len(evs)]) = Time(e) /\ ~NoRoom(evs, e)
                /\ new = Front(evs) /\ e.state = ListedGate(new)
             \/ /\ Len(evs) < MaxEvents /\ ~NoRoom(evs, e)
                /\ new = Append(evs, e) /\ e.state = ListedGate(new)
             \/ /\ Len(evs) = MaxEvents /\ Time(evs[MaxEvents]) < Time(e)
                /\ NoRoom(evs, e) /\ new = evs
  <1> DEFINE n == Len(evs)
             new == Recorded(evs, e)
  <1>1. /\ n \in Nat /\ MaxEvents \in Nat \ {0} /\ (evs = <<>> <=> n = 0)
        /\ n # 0 => n \in 1 .. n
        /\ \A i \in 1 .. n : evs[i] \in GateEvent /\ Time(evs[i]) \in Nat
        /\ Time(e) \in Nat
    <2>1. \A i \in 1 .. n : evs[i] \in GateEvent
      OBVIOUS
    <2> QED BY <2>1, TimeOrder, FrameConstants
  <1>2. /\ n <= MaxEvents /\ Last(evs) = evs[n]
        /\ new = IF evs # <<>> /\ Last(evs).line = e.line /\ Last(evs).cycle = e.cycle
                 THEN IF ListedGate(Front(evs)) = e.state THEN Front(evs)
                      ELSE Append(Front(evs), e)
                 ELSE IF n < MaxEvents THEN Append(evs, e) ELSE evs
        /\ NoRoom(evs, e) <=> n = MaxEvents /\ (evs = <<>> \/ Last(evs).line # e.line \/ Last(evs).cycle # e.cycle)
    BY DEF Last, Recorded, ListedGate, NoRoom
  <1>3. CASE n # 0 /\ Time(evs[n]) = Time(e)
    <2>1. evs[n].line = e.line /\ evs[n].cycle = e.cycle
      BY <1>1, <1>3, TimeOrder
    <2>2. ListedGate(evs) = gate /\ ListedGate(evs) = evs[n].state
      BY <1>1, <1>3 DEF ListedGate
    <2>3. /\ Front(evs) \in Seq(GateEvent) /\ Len(Front(evs)) = n - 1
          /\ \A i \in 1 .. n - 1 : Front(evs)[i] = evs[i]
      BY <1>1, <1>3, ShorterList
    <2>4. Front(evs) = <<>> <=> n = 1
      BY <1>1, <1>3, <2>3
    <2>5. ListedGate(Front(evs)) = IF n = 1 THEN startGate ELSE evs[n - 1].state
      <3> HIDE DEF n, new
      <3>1. n # 1 => n - 1 \in 1 .. n - 1
        BY <1>1, <1>3
      <3> QED BY <2>3, <2>4, <3>1 DEF ListedGate
    <2>6. evs[n].state # IF n = 1 THEN startGate ELSE evs[n - 1].state
      BY <1>1, <1>3 DEF Alternate
    <2>7. (IF n = 1 THEN startGate ELSE evs[n - 1].state) \in BOOLEAN
      <3> HIDE DEF n, new
      <3>2. n # 1 => n - 1 \in 1 .. n
        BY <1>1, <1>3
      <3>1. n # 1 => evs[n - 1] \in GateEvent
        BY <1>1, <3>2
      <3> QED BY <3>1 DEF GateEvent
    <2>8. ListedGate(Front(evs)) = e.state
      <3> DEFINE x == IF n = 1 THEN startGate ELSE evs[n - 1].state
      <3>1. x \in BOOLEAN /\ gate # x /\ ListedGate(Front(evs)) = x
        BY <2>2, <2>5, <2>6, <2>7
      <3> HIDE DEF x
      <3> QED BY <3>1
    <2> HIDE DEF new
    <2>9. new = Front(evs) /\ ~NoRoom(evs, e)
      BY <1>1, <1>2, <1>3, <2>1, <2>8
    <2> QED BY <1>1, <1>3, <2>8, <2>9 DEF new
  <1>4. CASE ~(n # 0 /\ Time(evs[n]) = Time(e))
    <2>1. n # 0 => Time(evs[n]) < Time(e)
      BY <1>1, <1>4
    <2>2. ~(evs # <<>> /\ Last(evs).line = e.line /\ Last(evs).cycle = e.cycle)
      BY <1>1, <1>2, <1>4, TimeOrder
    <2>3. CASE n < MaxEvents
      <3>1. new = Append(evs, e) /\ ~NoRoom(evs, e)
        BY <1>1, <1>2, <2>2, <2>3
      <3>2. ListedGate(Append(evs, e)) = e.state
        BY DEF ListedGate
      <3> HIDE DEF new
      <3> QED BY <2>3, <3>1, <3>2 DEF new
    <2>4. CASE ~(n < MaxEvents)
      <3>1. n = MaxEvents /\ n # 0 /\ new = evs /\ NoRoom(evs, e)
        BY <1>1, <1>2, <2>2, <2>4
      <3> HIDE DEF new
      <3> QED BY <2>1, <3>1 DEF new
    <2> QED BY <2>3, <2>4
  <1> QED BY <1>3, <1>4

\* A new frame begins with an empty list, which says the gate at its start.
LEMMA BeginHeard ==
  ASSUME FrameInv, BeginFrame
  PROVE  Heard'
  <1>1. /\ pc = "begin" /\ startGate' = audio_en /\ audio_en' = audio_en /\ events' = <<>>
        /\ lostFrom' = Lines /\ early' = elapsed /\ on' = {} /\ elapsed' = elapsed
        /\ audio_en \in BOOLEAN
    BY DEF BeginFrame, FrameInv, GateTypes
  <1>2. elapsed \in Nat
    BY <1>1, FrameConstants DEF FrameInv, LoopTypes, Progress
  <1>3. LostLate'
    BY <1>1, FrameConstants DEF LostLate, ListedGate
  <1>4. ListFollows'
    <2>1. \A c \in 0 .. elapsed - 1, n \in 0 .. 0 : (Gated(c) <=> GateAfter(HeardFrame, n) = TRUE)'
      BY <1>1, <1>2 DEF Gated, GateAfter, HeardFrame
    <2>2. Len(events') = 0
      BY <1>1
    <2> QED BY <1>1, <2>1, <2>2 DEF ListFollows
  <1> QED BY <1>1, <1>2, <1>3, <1>4 DEF Heard

\* An edge is listed, replaces the last of its cycle or cancels it, or is lost.
LEMMA ToggleHeard ==
  ASSUME FrameInv, Heard, ~disturbed, ToggleGate
  PROVE  Heard'
  <1> DEFINE e == Position(cyclesRun, surpassCycles, ~audio_en)
             N == Len(events)
             new == Recorded(events, e)
  <1>1. /\ pc = "slice" /\ cyclesRun < request
        /\ UNCHANGED <<pc, startGate, elapsed, early, on>>
    BY DEF ToggleGate
  <1>2. /\ audio_en' = ~audio_en /\ events' = new /\ audio_en \in BOOLEAN /\ startGate \in BOOLEAN
        /\ lostFrom' = IF NoRoom(events, e) THEN AtMost(lostFrom, e.line) ELSE lostFrom
    BY DEF ToggleGate, Edge, FrameInv, GateTypes
  <1>3. e \in GateEvent /\ Time(e) = elapsed /\ e.state = ~audio_en
    <2>1. surpassCycles = overrun
      BY DEF FrameInv, Placed
    <2> QED BY <1>1, <1>2, <2>1, PositionIsNow
  <1> HIDE DEF e
  <1>4. /\ events \in Seq(GateEvent) /\ N <= MaxEvents /\ N \in Nat /\ startGate \in BOOLEAN
        /\ Alternate(events) /\ Increasing(events)
        /\ \A i \in 1 .. N : Time(events[i]) <= Time(e)
        /\ \/ audio_en = ListedGate(events)
           \/ N = MaxEvents /\ Time(events[N]) < Time(e)
    BY <1>1, <1>3 DEF FrameInv, GateTypes, Placed, EventsBehind
  <1>5. /\ early \in 0 .. elapsed /\ on \subseteq 0 .. elapsed - 1 /\ LostLate /\ ListFollows
        /\ elapsed \in Nat
    <2>1. early \in 0 .. elapsed /\ on \subseteq 0 .. elapsed - 1 /\ LostLate /\ ListFollows
      BY <1>1 DEF Heard
    <2>2. elapsed \in Nat
      BY <1>3, TimeOrder
    <2> QED BY <2>1, <2>2
  <1>6. \/ /\ N # 0 /\ Time(events[N]) = elapsed /\ ~NoRoom(events, e)
           /\ new = Front(events) /\ e.state = ListedGate(new)
        \/ /\ N < MaxEvents /\ ~NoRoom(events, e)
           /\ new = Append(events, e) /\ e.state = ListedGate(new)
        \/ /\ N = MaxEvents /\ Time(events[MaxEvents]) < elapsed
           /\ NoRoom(events, e) /\ new = events
    BY <1>2, <1>3, <1>4, RecordedIs
  <1> HIDE DEF new
  <1>7. MaxEvents \in Nat \ {0} /\ Lines \in Nat \ {0} /\ LineCycles \in Nat \ {0}
        /\ lostFrom \in 0 .. Lines
    BY <1>5, FrameConstants DEF LostLate
  <1>8. ListedGate(new)' = IF new' = <<>> THEN startGate' ELSE new'[Len(new')].state
    BY DEF ListedGate
  <1>9. (ListedGate(events))' = ListedGate(new)
    BY <1>1, <1>2 DEF ListedGate
  <1>10. \A c : Gated(c)' = Gated(c)
    BY <1>1 DEF Gated
  <1>11. HeardFrame' = [gate |-> startGate, events |-> new]
         /\ HeardFrame = [gate |-> startGate, events |-> events]
    BY <1>1, <1>2 DEF HeardFrame
  <1> SUFFICES LostLate' /\ ListFollows'
    BY <1>1, <1>5 DEF Heard
  \* the last event is taken back
  <1>12. CASE /\ N # 0 /\ Time(events[N]) = elapsed /\ ~NoRoom(events, e)
              /\ new = Front(events) /\ e.state = ListedGate(new)
    <2>1. lostFrom' = lostFrom /\ lostFrom = Lines
      BY <1>2, <1>5, <1>7, <1>12 DEF LostLate
    <2>2. LostLate'
      BY <1>2, <1>3, <1>7, <1>9, <1>12, <2>1 DEF LostLate
    <2>3. Len(new) = N - 1 /\ \A i \in 1 .. N - 1 : new[i] = events[i]
      BY <1>4, <1>12, ShorterList
    <2>4. ASSUME NEW c \in 0 .. elapsed - 1, NEW n \in 0 .. N - 1,
                 c < lostFrom * LineCycles, Taken(HeardFrame, n, c)'
          PROVE  Gated(c) <=> GateAfter(HeardFrame, n)' = TRUE
      <3>1. n = 0 \/ Time(new[n]) <= c
        BY <1>11, <2>4 DEF Taken
      <3>2. n = N - 1 \/ c < Time(new[n + 1])
        BY <1>11, <2>3, <2>4 DEF Taken
      <3>3. n # 0 => n \in 1 .. N - 1
        BY <1>4, <1>12
      <3>4. n # N - 1 => n + 1 \in 1 .. N - 1
        BY <1>4, <1>12
      <3>5. n + 1 = N => c < Time(events[n + 1])
        BY <1>5, <1>12
      <3>6. n = N \/ c < Time(events[n + 1])
        BY <1>4, <2>3, <3>2, <3>4, <3>5
      <3>7. Taken(HeardFrame, n, c) /\ n \in 0 .. N
        BY <1>4, <1>11, <2>3, <3>1, <3>3, <3>6 DEF Taken
      <3>8. GateAfter(HeardFrame, n)' = GateAfter(HeardFrame, n)
        BY <1>11, <2>3, <3>3 DEF GateAfter
      <3> QED BY <1>5, <2>4, <3>7, <3>8 DEF ListFollows
    <2>5. ListFollows'
      BY <1>1, <1>2, <1>10, <2>1, <2>3, <2>4 DEF ListFollows
    <2> QED BY <2>2, <2>5
  \* the event is put after the others
  <1>13. CASE /\ N < MaxEvents /\ ~NoRoom(events, e)
              /\ new = Append(events, e) /\ e.state = ListedGate(new)
    <2>1. lostFrom' = lostFrom /\ lostFrom = Lines
      BY <1>2, <1>4, <1>5, <1>7, <1>13 DEF LostLate
    <2>2. LostLate'
      BY <1>2, <1>3, <1>7, <1>9, <1>13, <2>1 DEF LostLate
    <2>3. Len(new) = N + 1 /\ new[N + 1] = e /\ \A i \in 1 .. N : new[i] = events[i]
      BY <1>3, <1>4, <1>13
    <2>4. ASSUME NEW c \in 0 .. elapsed - 1, NEW n \in 0 .. N + 1,
                 c < lostFrom * LineCycles, Taken(HeardFrame, n, c)'
          PROVE  Gated(c) <=> GateAfter(HeardFrame, n)' = TRUE
      <3>1. n = 0 \/ Time(new[n]) <= c
        BY <1>11, <2>4 DEF Taken
      <3>2. n = N + 1 \/ c < Time(new[n + 1])
        BY <1>11, <2>3, <2>4 DEF Taken
      <3>0. n # N + 1
        BY <1>3, <1>4, <1>5, <2>3, <3>1
      <3>3. n \in 0 .. N /\ (n # 0 => n \in 1 .. N)
        BY <1>4, <3>0
      <3>4. n # N => n + 1 \in 1 .. N
        BY <1>4, <3>3
      <3>6. n = N \/ c < Time(events[n + 1])
        BY <2>3, <3>0, <3>2, <3>4
      <3>7. Taken(HeardFrame, n, c)
        BY <1>4, <1>11, <2>3, <3>1, <3>3, <3>6 DEF Taken
      <3>8. GateAfter(HeardFrame, n)' = GateAfter(HeardFrame, n)
        BY <1>11, <2>3, <3>3 DEF GateAfter
      <3> QED BY <1>5, <2>4, <3>3, <3>7, <3>8 DEF ListFollows
    <2>5. ListFollows'
      BY <1>1, <1>2, <1>10, <2>1, <2>3, <2>4 DEF ListFollows
    <2> QED BY <2>2, <2>5
  \* there is no room for it
  <1>14. CASE /\ N = MaxEvents /\ Time(events[MaxEvents]) < elapsed
              /\ NoRoom(events, e) /\ new = events
    <2>1. /\ e.line \in 0 .. Lines - 1 /\ e.line * LineCycles <= elapsed
          /\ e.line * LineCycles \in Nat
      <3>1. e.line \in 0 .. Lines - 1 /\ e.line \in Nat
        BY <1>3, <1>7 DEF GateEvent
      <3> QED BY <1>3, <3>1, LineTime
    <2>2. /\ lostFrom' \in 0 .. Lines - 1 /\ lostFrom' <= lostFrom
          /\ lostFrom' = lostFrom \/ lostFrom' = e.line
      BY <1>2, <1>7, <1>14, <2>1 DEF AtMost
    <2>3. lostFrom' * LineCycles <= elapsed
      <3>1. CASE lostFrom' = e.line
        BY <2>1, <3>1
      <3>2. CASE lostFrom' = lostFrom
        <4>1. lostFrom < Lines
          BY <1>7, <2>2, <3>2
        <4> QED BY <1>5, <3>2, <4>1 DEF LostLate
      <3> QED BY <2>2, <3>1, <3>2
    <2>4. LostLate'
      BY <1>1, <1>2, <1>7, <1>14, <2>2, <2>3 DEF LostLate
    <2>5. lostFrom' * LineCycles <= lostFrom * LineCycles
          /\ lostFrom' * LineCycles \in Nat /\ lostFrom * LineCycles \in Nat
      <3>1. ASSUME NEW x \in Nat, NEW y \in Nat, y <= x
            PROVE  y * LineCycles <= x * LineCycles /\ y * LineCycles \in Nat /\ x * LineCycles \in Nat
        <4>1. /\ (x - y) * LineCycles \in Nat /\ x * LineCycles = y * LineCycles + (x - y) * LineCycles
              /\ x * LineCycles \in Nat /\ y * LineCycles \in Nat
          <5>1. x - y \in Nat
            BY <3>1
          <5> QED BY <1>7, <3>1, <5>1
        <4> QED BY <4>1
      <3>2. lostFrom \in Nat /\ lostFrom' \in Nat /\ lostFrom' <= lostFrom
        BY <1>7, <2>2
      <3> QED BY <3>1, <3>2
    <2>6. HeardFrame' = HeardFrame
      BY <1>11, <1>14
    <2>7. ListFollows'
      <3> SUFFICES ASSUME NEW c \in 0 .. elapsed - 1, NEW n \in 0 .. N,
                          c < lostFrom' * LineCycles, Taken(HeardFrame, n, c)'
                   PROVE  Gated(c) <=> GateAfter(HeardFrame, n)' = TRUE
        BY <1>1, <1>2, <1>10, <1>14 DEF ListFollows
      <3>1. Taken(HeardFrame, n, c) /\ GateAfter(HeardFrame, n)' = GateAfter(HeardFrame, n)
        BY <2>6 DEF Taken, GateAfter
      <3>2. c < lostFrom * LineCycles
        <4> DEFINE x == lostFrom * LineCycles
                   y == lostFrom' * LineCycles
        <4>1. x \in Nat /\ y \in Nat /\ y <= x /\ c < y
          BY <2>5
        <4> HIDE DEF x, y
        <4>2. c < x
          BY <1>5, <4>1
        <4> QED BY <4>2 DEF x
      <3> QED BY <1>5, <3>1, <3>2 DEF ListFollows
    <2> QED BY <2>4, <2>7
  <1> QED BY <1>6, <1>12, <1>13, <1>14

\* The cycles of an instruction have the gate the list ends with.
LEMMA InstructionHeard ==
  ASSUME FrameInv, Heard, ~disturbed, NEW cycles \in 1 .. MaxInstr, Instruction(cycles)
  PROVE  Heard'
  <1> DEFINE N == Len(events)
  <1>1. /\ pc = "slice" /\ elapsed' = elapsed + cycles
        /\ on' = IF audio_en THEN on \cup elapsed .. elapsed + cycles - 1 ELSE on
        /\ UNCHANGED <<pc, audio_en, startGate, events, lostFrom, early>>
    BY DEF Instruction, sound
  <1>2. /\ early \in 0 .. elapsed /\ on \subseteq 0 .. elapsed - 1 /\ LostLate /\ ListFollows
    BY <1>1 DEF Heard
  <1>3. elapsed \in Nat /\ cycles \in Nat \ {0} /\ audio_en \in BOOLEAN /\ startGate \in BOOLEAN
        /\ events \in Seq(GateEvent) /\ N \in Nat
    BY <1>2, FrameConstants DEF FrameInv, LoopTypes, GateTypes, Placed
  <1>4. /\ MaxEvents \in Nat \ {0} /\ Lines \in Nat /\ lostFrom \in 0 .. Lines
        /\ LineCycles \in Nat /\ lostFrom * LineCycles \in Nat
    <2>1. MaxEvents \in Nat \ {0} /\ Lines \in Nat /\ lostFrom \in 0 .. Lines /\ LineCycles \in Nat
      BY <1>2, FrameConstants DEF LostLate
    <2> QED BY <2>1
  <1>5. \A i \in 1 .. N : Time(events[i]) \in Nat /\ Time(events[i]) <= elapsed
    <2>1. \A i \in 1 .. N : events[i] \in GateEvent
      BY <1>3
    <2> QED BY <1>1, <2>1, TimeOrder DEF FrameInv, Placed, EventsBehind
  <1>6. (ListedGate(events))' = ListedGate(events) /\ HeardFrame' = HeardFrame
        /\ HeardFrame = [gate |-> startGate, events |-> events]
    BY <1>1 DEF ListedGate, HeardFrame
  <1>7. LostLate'
    <2>1. lostFrom < Lines => /\ N = MaxEvents /\ Time(events[MaxEvents]) < elapsed'
                              /\ lostFrom * LineCycles <= elapsed'
      <3> SUFFICES ASSUME lostFrom < Lines
                   PROVE  /\ N = MaxEvents /\ Time(events[MaxEvents]) < elapsed'
                          /\ lostFrom * LineCycles <= elapsed'
        OBVIOUS
      <3>1. N = MaxEvents /\ Time(events[MaxEvents]) < elapsed /\ lostFrom * LineCycles <= elapsed
        BY <1>2 DEF LostLate
      <3>2. MaxEvents \in 1 .. N
        BY <1>4, <3>1
      <3>3. Time(events[MaxEvents]) \in Nat
        BY <1>5, <3>2
      <3> DEFINE x == lostFrom * LineCycles
      <3>4. x \in Nat /\ x <= elapsed
        BY <1>4, <3>1
      <3> HIDE DEF x
      <3>5. x <= elapsed' /\ Time(events[MaxEvents]) < elapsed'
        BY <1>1, <1>3, <3>1, <3>3, <3>4
      <3> QED BY <3>1, <3>5 DEF x
    <2> QED BY <1>1, <1>2, <1>6, <2>1 DEF LostLate
  <1>8. early' \in 0 .. elapsed' /\ on' \subseteq 0 .. elapsed' - 1
    BY <1>1, <1>2, <1>3
  <1>9. ListFollows'
    <2> SUFFICES ASSUME NEW c \in 0 .. elapsed' - 1, NEW n \in 0 .. N,
                        c < lostFrom * LineCycles, Taken(HeardFrame, n, c)
                 PROVE  Gated(c)' <=> GateAfter(HeardFrame, n) = TRUE
      <3>1. \A c, n : Taken(HeardFrame, n, c)' = Taken(HeardFrame, n, c)
                      /\ GateAfter(HeardFrame, n)' = GateAfter(HeardFrame, n)
        BY <1>6 DEF Taken, GateAfter
      <3> QED BY <1>1, <3>1 DEF ListFollows
    <2>1. CASE c < elapsed
      <3>1. c \in 0 .. elapsed - 1
        BY <1>3, <2>1
      <3>2. Gated(c) <=> GateAfter(HeardFrame, n) = TRUE
        BY <1>2, <3>1 DEF ListFollows
      <3>3. c \in on' <=> c \in on
        BY <1>1, <1>3, <2>1
      <3>4. Gated(c)' <=> Gated(c)
        BY <1>1, <1>3, <3>3 DEF Gated
      <3> QED BY <3>2, <3>4
    <2>2. CASE ~(c < elapsed)
      <3>1. elapsed <= c /\ c \in elapsed .. elapsed + cycles - 1 /\ ~(c < early) /\ c \notin on
        BY <1>1, <1>2, <1>3, <2>2
      <3>2. lostFrom = Lines /\ audio_en = ListedGate(events)
        <4>1. ~(lostFrom < Lines)
          <5> SUFFICES ASSUME lostFrom < Lines PROVE FALSE
            OBVIOUS
          <5> DEFINE x == lostFrom * LineCycles
          <5>1. x \in Nat /\ x <= elapsed /\ c < x
            BY <1>2, <1>4 DEF LostLate
          <5> HIDE DEF x
          <5> QED BY <1>3, <3>1, <5>1
        <4> QED BY <1>2, <1>4, <4>1 DEF LostLate
      <3>3. n = N
        <4> SUFFICES ASSUME n # N PROVE FALSE
          OBVIOUS
        <4>1. n + 1 \in 1 .. N
          BY <1>3
        <4>2. c < Time(events[n + 1])
          BY <1>6 DEF Taken
        <4> QED BY <1>3, <1>5, <3>1, <4>1, <4>2
      <3>4. GateAfter(HeardFrame, n) = audio_en
        <4>1. events = <<>> <=> N = 0
          BY <1>3
        <4> QED BY <1>6, <3>2, <3>3, <4>1 DEF GateAfter, ListedGate
      <3>5. Gated(c)' <=> audio_en = TRUE
        <4>1. Gated(c)' <=> c \in on'
          BY <1>1, <3>1 DEF Gated
        <4>2. c \in on' <=> audio_en = TRUE
          BY <1>1, <1>3, <3>1
        <4> QED BY <4>1, <4>2
      <3> QED BY <3>4, <3>5
    <2> QED BY <2>1, <2>2
  <1> QED BY <1>7, <1>8, <1>9 DEF Heard

\* Every step of the frame loop keeps the list in step with the gate.
LEMMA NextHeard == FrameInv /\ Heard /\ [FrameNext]_frameVars => Heard'
  <1> SUFFICES ASSUME FrameInv, Heard, [FrameNext]_frameVars, ~disturbed' PROVE Heard'
    BY DEF Heard
  <1>1. ASSUME UNCHANGED <<audio_en, startGate, events, lostFrom, disturbed, elapsed, early, on>>,
               pc' # "begin" => pc # "begin"
        PROVE  Heard'
    <2>1. HeardFrame' = HeardFrame
      BY <1>1 DEF HeardFrame
    <2>2. \A c, n : /\ Taken(HeardFrame, n, c)' = Taken(HeardFrame, n, c)
                    /\ GateAfter(HeardFrame, n)' = GateAfter(HeardFrame, n)
                    /\ Gated(c)' = Gated(c)
      BY <1>1, <2>1 DEF Taken, GateAfter, Gated
    <2>3. LostLate' <=> LostLate
      BY <1>1 DEF LostLate, ListedGate
    <2>4. ListFollows' <=> ListFollows
      BY <1>1, <2>2 DEF ListFollows
    <2> QED BY <1>1, <2>3, <2>4 DEF Heard
  <1>2. CASE UNCHANGED frameVars
    BY <1>1, <1>2 DEF frameVars, sound
  <1>3. CASE BeginFrame
    BY <1>3, BeginHeard
  <1>4. CASE ToggleGate
    BY <1>4, ToggleHeard DEF ToggleGate
  <1>5. CASE Reset
    BY <1>5 DEF Reset
  <1>6. CASE EndSlice
    <2>1. ~TimerEdge
      BY DEF TimerEdge
    <2>2. UNCHANGED <<audio_en, startGate, events, lostFrom, disturbed, elapsed, early, on>>
          /\ pc = "slice"
      BY <1>6, <2>1 DEF EndSlice, sound
    <2> QED BY <1>1, <2>2
  <1>7. CASE EndFrame
    BY <1>7 DEF EndFrame, Heard
  <1>8. ASSUME NEW cycles \in 1 .. MaxInstr, Instruction(cycles)
        PROVE  Heard'
    BY <1>8, InstructionHeard DEF Instruction
  <1> QED
    BY <1>2, <1>3, <1>4, <1>5, <1>6, <1>7, <1>8 DEF FrameNext

\* Before the first frame nothing is heard.
LEMMA InitHeard == FrameInit => Heard
  BY DEF FrameInit, Heard

\* Where a cycle is in its line.
LEMMA CycleOfLine ==
  ASSUME NEW line \in Nat, NEW x \in 0 .. LineCycles - 1
  PROVE  LET c == line * LineCycles + x
         IN  c \in Nat /\ c \div LineCycles = line /\ c % LineCycles = x
  <1> DEFINE L == LineCycles
             c == line * L + x
             q == c \div L
             r == c % L
  <1>1. L \in Nat \ {0} /\ line * L \in Nat /\ x \in 0 .. L - 1
    <2>1. L \in Nat \ {0}
      BY FrameConstants
    <2> QED BY <2>1
  <1>2. c \in Nat
    <2> DEFINE base == line * L
    <2>1. base \in Nat
      BY <1>1
    <2> HIDE DEF base, L
    <2> QED BY <1>1, <2>1
  <1>3. c = line * L + x
    OBVIOUS
  <1> HIDE DEF c, L
  <1>4. q = line
    BY <1>1, <1>2, <1>3, DividedOnce
  <1>5. r \in 0 .. L - 1 /\ c = q * L + r
    BY <1>1, <1>2, Divided
  <1> HIDE DEF q, r
  <1>6. r = x
    <2> DEFINE base == line * L
    <2>1. c = base + x /\ c = base + r /\ base \in Nat
      BY <1>1, <1>3, <1>4, <1>5
    <2> HIDE DEF base
    <2> QED BY <1>1, <1>5, <2>1
  <1> QED BY <1>2, <1>4, <1>6 DEF q, r, c, L

\* The cycles of a line are those the renderers divide back to it.
LEMMA CyclesAre ==
  ASSUME NEW line \in Nat, NEW c
  PROVE  /\ c \in Cycles(line) =>
               LET x == c - line * LineCycles
               IN  x \in 0 .. LineCycles - 1 /\ c = line * LineCycles + x
         /\ c \in Cycles(line) => c \in Nat /\ c \div LineCycles = line
                                  /\ c % LineCycles = c - line * LineCycles
         /\ c \in Cycles(line) <=> c \in line * LineCycles + 0 .. line * LineCycles + LineCycles - 1
  <1> DEFINE L == LineCycles
             base == line * L
             x == c - base
  <1>1. L \in Nat \ {0} /\ base \in Nat /\ (line + 1) * L = base + L
    <2>1. L \in Nat \ {0}
      BY FrameConstants
    <2> QED BY <2>1
  <1>2. c \in Cycles(line) <=> c \in base .. (base + L) - 1
    BY <1>1 DEF Cycles
  <1> HIDE DEF base, L
  <1>3. c \in Cycles(line) => x \in 0 .. L - 1 /\ c = base + x
    BY <1>1, <1>2
  <1>4. c \in Cycles(line) <=> c \in base + 0 .. base + L - 1
    BY <1>1, <1>2
  <1> HIDE DEF x
  <1>5. ASSUME c \in Cycles(line) PROVE c \in Nat /\ c \div L = line /\ c % L = x
    <2>1. x \in 0 .. L - 1 /\ c = base + x
      BY <1>3, <1>5
    <2> QED BY <2>1, CycleOfLine DEF base, L
  <1> QED BY <1>3, <1>4, <1>5 DEF x, base, L

\* The cycles before an edge that found no room, and those with the gate on.
HeardCycles == lostFrom * LineCycles
HeardOn     == {c \in 0 .. HeardCycles - 1 : Gated(c)}

\* At the end of a frame its list says the gate of every cycle that is heard.
LEMMA HeardFollows ==
  ASSUME FrameInv, Heard, ~disturbed, pc = "push"
  PROVE  /\ FrameList(HeardFrame) /\ HeardCycles \in Nat /\ Follows(HeardFrame, HeardOn, HeardCycles)
         /\ lostFrom \in 0 .. Lines
         /\ \A line \in 0 .. lostFrom - 1 : /\ line \in 0 .. Lines - 1 /\ line \in Nat
                                            /\ (line + 1) * LineCycles <= HeardCycles
  <1>1. /\ FrameList(HeardFrame) /\ HeardFrame.events = events
    BY DEF FrameInv, GateTypes, Placed, FrameList, HeardFrame
  <1>2. /\ lostFrom \in 0 .. Lines /\ ListFollows /\ Lines \in Nat /\ LineCycles \in Nat \ {0}
        /\ elapsed = Lines * LineCycles + surpassCycles + cyclesRun
        /\ surpassCycles \in Nat /\ cyclesRun \in Nat
    BY FrameConstants DEF FrameInv, LoopTypes, Progress, Heard, LostLate
  <1>3. ASSUME NEW x \in Nat, NEW y \in Nat, x <= y
        PROVE  x * LineCycles \in Nat /\ y * LineCycles \in Nat /\ x * LineCycles <= y * LineCycles
    <2>1. /\ (y - x) * LineCycles \in Nat /\ y * LineCycles = x * LineCycles + (y - x) * LineCycles
          /\ x * LineCycles \in Nat /\ y * LineCycles \in Nat
      <3>1. y - x \in Nat
        BY <1>3
      <3> QED BY <1>2, <3>1
    <2> QED BY <2>1
  <1>4. lostFrom \in Nat /\ lostFrom <= Lines
    BY <1>2
  <1>5. HeardCycles \in Nat /\ HeardCycles <= Lines * LineCycles /\ Lines * LineCycles \in Nat
    BY <1>2, <1>3, <1>4 DEF HeardCycles
  <1>6. HeardCycles <= elapsed /\ elapsed \in Nat
    <2> DEFINE z == Lines * LineCycles
    <2>1. z \in Nat /\ HeardCycles <= z /\ elapsed = z + surpassCycles + cyclesRun
      BY <1>2, <1>5
    <2> HIDE DEF z
    <2> QED BY <1>2, <1>5, <2>1
  <1>7. Follows(HeardFrame, HeardOn, HeardCycles)
    <2> SUFFICES ASSUME NEW c \in 0 .. HeardCycles - 1, NEW n \in 0 .. Len(events),
                        Taken(HeardFrame, n, c)
                 PROVE  c \in HeardOn <=> GateAfter(HeardFrame, n) = TRUE
      BY <1>1 DEF Follows
    <2>1. c \in 0 .. elapsed - 1 /\ c < HeardCycles
      BY <1>5, <1>6
    <2>2. Gated(c) <=> GateAfter(HeardFrame, n) = TRUE
      BY <1>2, <2>1 DEF ListFollows, HeardCycles
    <2> QED BY <2>2 DEF HeardOn
  <1>8. ASSUME NEW line \in 0 .. lostFrom - 1
        PROVE  /\ line \in 0 .. Lines - 1 /\ line \in Nat
               /\ (line + 1) * LineCycles <= HeardCycles
    <2>1. line \in 0 .. Lines - 1 /\ line \in Nat /\ line + 1 \in Nat /\ line + 1 <= lostFrom
      BY <1>2, <1>4
    <2> QED BY <1>3, <1>4, <2>1 DEF HeardCycles
  <1> QED BY <1>1, <1>2, <1>5, <1>7, <1>8

\* The samples of such a frame are exact.
LEMMA PwmIsExact == FrameInv /\ Heard /\ ~disturbed => PwmExact
  <1> SUFFICES ASSUME FrameInv, Heard, ~disturbed, pc = "push",
                      NEW line \in 0 .. lostFrom - 1, NEW s \in 0 .. Full
               PROVE  GatedSample(HeardFrame, line, s)
                        = (Cardinality({c \in Cycles(line) : High(c, s)}) * Full
                             + LineCycles \div 2) \div LineCycles
    BY DEF PwmExact
  <1> DEFINE low == LowCycles(s)
             H == HighSet(HeardOn, line, low, 0, LineCycles)
             G == {c \in Cycles(line) : High(c, s)}
  <1>1. /\ FrameList(HeardFrame) /\ HeardCycles \in Nat /\ Follows(HeardFrame, HeardOn, HeardCycles)
        /\ line \in Nat /\ (line + 1) * LineCycles <= HeardCycles
    BY HeardFollows
  <1>2. GatedSample(HeardFrame, line, s) = (Cardinality(H) * Full + LineCycles \div 2) \div LineCycles
    BY <1>1, GatedSampleIs
  <1>3. H = G
    <2>1. \A c : /\ c \in H <=> /\ c \in line * LineCycles + 0 .. line * LineCycles + LineCycles - 1
                                /\ c \in HeardOn /\ c - line * LineCycles >= low
                 /\ c \in G <=> c \in Cycles(line) /\ Gated(c) /\ c % LineCycles >= low
      BY DEF HighSet, High
    <2> HIDE DEF H, G, low
    <2>2. ASSUME NEW c \in Cycles(line) PROVE c \in HeardOn <=> Gated(c)
      <3>1. c \in 0 .. HeardCycles - 1
        <4> DEFINE next == (line + 1) * LineCycles
                   base == line * LineCycles
        <4>1. base \in Nat /\ next \in Nat /\ c \in base .. next - 1 /\ next <= HeardCycles
          BY <1>1, FrameConstants DEF Cycles
        <4> HIDE DEF next, base
        <4> QED BY <1>1, <4>1
      <3> QED BY <3>1 DEF HeardOn
    <2>3. \A c : c \in Cycles(line) <=> c \in line * LineCycles + 0 .. line * LineCycles + LineCycles - 1
      BY <1>1, CyclesAre
    <2>4. \A c \in Cycles(line) : c % LineCycles = c - line * LineCycles
      BY <1>1, CyclesAre
    <2>5. \A c : c \in H <=> c \in G
      BY <2>1, <2>2, <2>3, <2>4
    <2> QED BY <2>5 DEF H, G
  <1> HIDE DEF H, G
  <1> QED BY <1>2, <1>3 DEF G

(* The RMT symbols play any samples at any volume, after anything that was *)
(* left pending.                                                           *)
LEMMA RmtPlaysAny ==
  ASSUME FrameInv, Heard, ~disturbed, pc = "push", NEW carried \in Carried, NEW volume,
         NEW samples \in [0 .. Lines - 1 -> 0 .. Full]
  PROVE  RmtPlays(carried, volume, samples)
  <1> DEFINE v == RenderFrame([out |-> <<>>, pending |-> carried], volume, HeardFrame, samples)
             wave == Waveform(v)
             old == SymbolWave(carried)
             B == Len(old)
             H == {c \in 0 .. HeardCycles - 1 :
                     volume # 0 /\ c \in HeardOn
                       /\ c % LineCycles >= LowCycles(samples[c \div LineCycles])}
             total == Lines * LineCycles
  <1>1. /\ FrameList(HeardFrame) /\ HeardCycles \in Nat /\ Follows(HeardFrame, HeardOn, HeardCycles)
        /\ lostFrom \in 0 .. Lines
        /\ \A line \in 0 .. lostFrom - 1 : /\ line \in 0 .. Lines - 1 /\ line \in Nat
                                           /\ (line + 1) * LineCycles <= HeardCycles
    BY HeardFollows
  <1>2. Lines \in Nat /\ LineCycles \in Nat \ {0} /\ total \in Nat
    <2>1. Lines \in Nat /\ LineCycles \in Nat \ {0}
      BY FrameConstants
    <2> QED BY <2>1
  <1>3. ASSUME NEW line \in 0 .. Lines - 1
        PROVE  HighLine(H, volume, HeardOn, line, LowCycles(samples[line]), HeardCycles)
    <2> SUFFICES ASSUME NEW x \in 0 .. LineCycles - 1, line * LineCycles + x < HeardCycles
                 PROVE  line * LineCycles + x \in H
                          <=> volume # 0 /\ line * LineCycles + x \in HeardOn
                                /\ x >= LowCycles(samples[line])
      BY DEF HighLine
    <2> DEFINE c == line * LineCycles + x
    <2>0. line \in Nat
      BY <1>2
    <2>1. /\ c \in Nat /\ c \div LineCycles = line /\ c % LineCycles = x
          /\ c < HeardCycles
      <3>1. c \in Nat /\ c \div LineCycles = line /\ c % LineCycles = x
        BY ONLY CycleOfLine, <2>0, x \in 0 .. LineCycles - 1
      <3>2. c < HeardCycles
        OBVIOUS
      <3> QED BY ONLY <3>1, <3>2
    <2> HIDE DEF c
    <2>2. c \in H <=> volume # 0 /\ c \in HeardOn /\ x >= LowCycles(samples[line])
      BY <1>1, <2>1
    <2> QED BY <2>2 DEF c
  <1> HIDE DEF H
  <1>4. v.out \in Seq(Symbols) /\ v.pending \in Carried /\ Plays(wave, old, total, H, HeardCycles)
    BY <1>1, <1>3, RenderFrameIs
  <1> HIDE DEF v
  <1>5. \A i \in DOMAIN v.out : v.out[i] \in RmtSlots \X RmtSlots
    BY <1>4 DEF Symbols
  <1>6. Len(wave) = B + Tick(Lines, 0)
    <2>1. Tick(Lines, 0) = TickOf(total)
      BY <1>2, TickIs, total + 0 = total
    <2> QED BY <1>4, <2>1 DEF Plays
  <1>7. \A t \in 1 .. B : wave[t] = old[t]
    BY <1>4 DEF Plays
  <1>8. ASSUME NEW line \in 0 .. lostFrom - 1, NEW c \in Cycles(line),
               NEW t \in Tick(0, c) + 1 .. Tick(0, c + 1)
        PROVE  wave[B + t] = IF volume # 0 /\ High(c, samples[line]) THEN 1 ELSE 0
    <2>1. line \in 0 .. Lines - 1 /\ line \in Nat /\ (line + 1) * LineCycles <= HeardCycles
      BY <1>1
    <2>2. c \in Nat /\ c \div LineCycles = line
      BY <2>1, CyclesAre
    <2>3. c < HeardCycles /\ HeardCycles <= total
      <3> DEFINE next == (line + 1) * LineCycles
                 base == line * LineCycles
      <3>1. base \in Nat /\ next \in Nat /\ c \in base .. next - 1 /\ next <= HeardCycles
        BY <1>2, <2>1 DEF Cycles
      <3> HIDE DEF next, base
      <3>2. c < HeardCycles
        BY <1>1, <3>1
      <3>3. HeardCycles <= total
        <4>1. Lines - lostFrom \in Nat /\ lostFrom \in Nat
          BY <1>1, <1>2
        <4>2. /\ (Lines - lostFrom) * LineCycles \in Nat
              /\ total = lostFrom * LineCycles + (Lines - lostFrom) * LineCycles
          BY <1>2, <4>1
        <4> HIDE DEF total
        <4> QED BY <1>1, <4>2 DEF HeardCycles
      <3> QED BY <3>2, <3>3
    <2>4. c \in 0 .. total - 1 /\ c \in 0 .. HeardCycles - 1
      BY <1>1, <1>2, <2>2, <2>3
    <2>5. wave[B + t] = IF c \in H THEN 1 ELSE 0
      <3> HIDE DEF wave, old, B, total
      <3>1. t \in TickOf(c) + 1 .. TickOf(c + 1)
        BY DEF TickOf
      <3> QED BY <1>4, <2>3, <2>4, <3>1 DEF Plays, B
    <2>6. c \in H <=> volume # 0 /\ High(c, samples[line])
      BY <2>2, <2>4 DEF H, HeardOn, High
    <2> QED BY <2>5, <2>6
  <1> QED BY <1>4, <1>5, <1>6, <1>7, <1>8 DEF RmtPlays, v

\* So are its symbols, as for any samples.
LEMMA RmtIsExact == FrameInv /\ Heard /\ ~disturbed => RmtExact
  <1> SUFFICES ASSUME FrameInv, Heard, ~disturbed, pc = "push", NEW carried \in Carried,
                      NEW volume \in {0, 1}, NEW even \in 0 .. Full, NEW odd \in 0 .. Full
               PROVE  RmtPlays(carried, volume,
                               [line \in 0 .. Lines - 1 |-> IF line % 2 = 0 THEN even ELSE odd])
    BY DEF RmtExact
  <1> QED BY RmtPlaysAny

(* Both renderers play the frame the guest's writes describe, in every     *)
(* cycle and to the nearest tick or step, whatever the sizes of the frame, *)
(* its samples and the timer (audioApplyGateToPcmSample in snd.cpp,        *)
(* audioRmtBuildFrame in snd_rmt.cpp, recordSoundGateEvent in tme/emu.c),  *)
(* unless timer 1 has moved the gate within it or a RESET has closed it.   *)
THEOREM FrameRenderedExactly == FrameSpec => []RenderedExactly
  <1> DEFINE I == FrameInv /\ Heard
  <1>1. FrameInit => I
    BY InitFrameInv, InitHeard
  <1>2. I /\ [FrameNext]_frameVars => I'
    BY NextFrameInv, NextHeard
  <1>3. I => RenderedExactly
    BY PwmIsExact, RmtIsExact DEF RenderedExactly
  <1> QED BY <1>1, <1>2, <1>3, PTL DEF FrameSpec
=============================================================================
