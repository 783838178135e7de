-------------------------------- MODULE Pwm --------------------------------
(***************************************************************************)
(* The PWM sound backend (snd.cpp): the emulator task, on core 1, writes   *)
(* whole frames into a ring of samples, a timer interrupt on core 0 plays  *)
(* one sample per alarm, and the emulator task or a console command, on    *)
(* core 0, mutes the output.  Every access to a variable two of them use   *)
(* is a step, but for the loads of head and tail by which a count is made  *)
(* (one side of the ring is the reader's own); the interrupt runs to its   *)
(* end before the shell goes on.                                           *)
(***************************************************************************)
EXTENDS Integers, Sequences

CONSTANTS
    FrameSamples,  \* AUDIO_FRAME_SAMPLES
    RingSamples,   \* AUDIO_RINGBUF_SAMPLES: three frames and one slot
    Values,        \* bound: samples are told apart by values 1 .. Values
    Commands       \* the console commands given: "run", "stop", "storage"

ASSUME PwmAssumption ==
    /\ FrameSamples \in Nat \ {0} /\ RingSamples \in Nat /\ RingSamples > FrameSamples
    /\ Values \in Nat /\ Values >= RingSamples + FrameSamples
    /\ Commands \subseteq {"run", "stop", "storage"}

Slots  == 0 .. RingSamples - 1
Sample == 1 .. Values
Caller == {"emu", "shell"}

VARIABLES
    ring, head, tail,          \* audioRing, audioRingHead, audioRingTail
    audioSpaceSignaled,
    notified,                  \* the emulator task's notification
    audioEnabled, emuRunning,
    pwmLastDuty, duty,         \* the cached duty, and that of the LEDC channel
    emu,                       \* where the emulator task is
    at, want, savedHead,       \* each caller of sndSetEnabled, its argument, its load
    isr, savedTail, sample,    \* where the interrupt is, and its locals
    \* what happened, for the properties
    fifo,                      \* the samples submitted and not yet played or dropped
    nextValue,                 \* the next sample the guest makes
    raced                      \* two have moved the tail at once: fifo is not kept then

ringVars == <<ring, head, tail>>
wake     == <<audioSpaceSignaled, notified>>
output   == <<pwmLastDuty, duty>>
calls    == <<at, want, savedHead>>
alarm    == <<isr, savedTail, sample>>
ghosts   == <<fifo, nextValue, raced>>
pwmVars     == <<ringVars, wake, audioEnabled, emuRunning, output, emu, calls, alarm, ghosts>>

\* Mistake: a ring that has wrapped is counted as a negative number.
CountUnwrapped(h, t) == IF h >= t THEN h - t ELSE t - h

RingCount(h, t) == IF h >= t THEN h - t ELSE RingSamples - (t - h)
RingFree        == RingSamples - RingCount(head, tail) - 1
Slot(i)         == i % RingSamples

PwmInit ==
    /\ ring = [s \in Slots |-> 1] /\ head = 0 /\ tail = 0
    /\ audioSpaceSignaled = FALSE /\ notified = FALSE
    /\ audioEnabled = TRUE /\ emuRunning = TRUE
    /\ pwmLastDuty = Values + 1 /\ duty = Values + 1     \* 0xFF and 128 at boot
    /\ emu = "top" /\ at = [c \in Caller |-> "out"] /\ want = [c \in Caller |-> TRUE]
    /\ savedHead = [c \in Caller |-> 0]
    /\ isr = "idle" /\ savedTail = 0 /\ sample = 0
    /\ fifo = <<>> /\ nextValue = 1 /\ raced = FALSE
----------------------------------------------------------------------------
(* audioTimerAlarm.                                                        *)

Isr(from, to) == isr = from /\ isr' = to
NotIsr == UNCHANGED <<audioEnabled, emuRunning, emu, calls>>

Alarm ==
    /\ Isr("idle", IF audioEnabled THEN "read" ELSE "duty")
    /\ sample' = IF audioEnabled THEN sample ELSE 0       \* 0 is silence
    /\ UNCHANGED <<ringVars, wake, output, savedTail, ghosts>> /\ NotIsr

RingRead ==
    /\ Isr("read", IF tail = head THEN "space" ELSE "advance")
    /\ IF tail = head THEN UNCHANGED <<savedTail, sample>>
                      ELSE savedTail' = tail /\ sample' = ring[tail]
    /\ UNCHANGED <<ringVars, wake, output, ghosts>> /\ NotIsr

AdvanceTail ==
    /\ Isr("advance", "duty") /\ tail' = Slot(savedTail + 1)
    /\ savedTail' = 0                                     \* the local is dead
    /\ raced' = (raced \/ tail # savedTail)
    /\ fifo' = IF raced' THEN <<>> ELSE Tail(fifo)
    /\ UNCHANGED <<ring, head, wake, output, sample, nextValue>> /\ NotIsr

\* audioSetDuty: the cached value first, then the channel.
NoteDuty ==
    /\ Isr("duty", IF sample = pwmLastDuty THEN "space" ELSE "ledc")
    /\ pwmLastDuty' = sample /\ sample' = IF sample = pwmLastDuty THEN 0 ELSE sample
    /\ UNCHANGED <<ringVars, wake, duty, savedTail, ghosts>> /\ NotIsr
ApplyDuty ==
    /\ Isr("ledc", "space") /\ duty' = sample /\ sample' = 0
    /\ UNCHANGED <<ringVars, wake, pwmLastDuty, savedTail, ghosts>> /\ NotIsr

CheckSpace ==
    /\ Isr("space", IF ~audioSpaceSignaled /\ RingFree >= FrameSamples THEN "signal" ELSE "idle")
    /\ UNCHANGED <<ringVars, wake, output, savedTail, sample, ghosts>> /\ NotIsr
Signal ==
    /\ Isr("signal", "notify") /\ audioSpaceSignaled' = TRUE
    /\ UNCHANGED <<ringVars, notified, output, savedTail, sample, ghosts>> /\ NotIsr
Notify ==
    /\ Isr("notify", "idle") /\ notified' = TRUE
    /\ UNCHANGED <<ringVars, audioSpaceSignaled, output, savedTail, sample, ghosts>> /\ NotIsr

Interrupt == \/ Alarm \/ RingRead \/ AdvanceTail \/ NoteDuty \/ ApplyDuty
             \/ CheckSpace \/ Signal \/ Notify
----------------------------------------------------------------------------
(* sndSetEnabled(want[c]).                                                 *)

Goto(c, from, to) == at[c] = from /\ at' = [at EXCEPT ![c] = to]
Runs(c) == c = "shell" => isr = "idle"
NotCall == UNCHANGED <<ring, head, notified, emuRunning, emu, want, alarm>>

CallSetEnabled(c, enabled) ==
    /\ Goto(c, "out", "check") /\ want' = [want EXCEPT ![c] = enabled]
    /\ UNCHANGED savedHead

CheckEnabled(c) ==
    /\ Runs(c) /\ Goto(c, "check", IF audioEnabled = want[c] THEN "out" ELSE "set")
    /\ UNCHANGED <<tail, audioSpaceSignaled, audioEnabled, output, savedHead, ghosts>> /\ NotCall
StoreEnabled(c) ==
    /\ Runs(c) /\ Goto(c, "set", IF want[c] THEN "out" ELSE "load")
    /\ audioEnabled' = want[c]
    /\ UNCHANGED <<tail, audioSpaceSignaled, output, savedHead, ghosts>> /\ NotCall

\* audioRingTail = audioRingHead: a load ...
LoadHead(c) ==
    /\ Runs(c) /\ Goto(c, "load", "drop") /\ savedHead' = [savedHead EXCEPT ![c] = head]
    /\ UNCHANGED <<tail, audioSpaceSignaled, audioEnabled, output, ghosts>> /\ NotCall

\* ... and a store, which drops the samples up to the head it has loaded.
DropSamples(c) ==
    LET kept == RingCount(head, savedHead[c])
    IN  /\ Runs(c) /\ Goto(c, "drop", "clear") /\ tail' = savedHead[c]
        /\ savedHead' = [savedHead EXCEPT ![c] = 0]       \* the local is dead
        /\ raced' = (raced \/ kept > Len(fifo))     \* back over what was played
        /\ fifo' = IF raced' THEN <<>> ELSE SubSeq(fifo, Len(fifo) - kept + 1, Len(fifo))
        /\ UNCHANGED <<audioSpaceSignaled, audioEnabled, output, nextValue>> /\ NotCall

ClearSignaled(c) ==
    /\ Runs(c) /\ Goto(c, "clear", "duty") /\ audioSpaceSignaled' = FALSE
    /\ UNCHANGED <<tail, audioEnabled, output, savedHead, ghosts>> /\ NotCall
NoteSilence(c) ==
    /\ Runs(c) /\ Goto(c, "duty", IF pwmLastDuty = 0 THEN "out" ELSE "ledc")
    /\ pwmLastDuty' = 0
    /\ UNCHANGED <<tail, audioSpaceSignaled, audioEnabled, duty, savedHead, ghosts>> /\ NotCall
ApplySilence(c) ==
    /\ Runs(c) /\ Goto(c, "ledc", "out") /\ duty' = 0
    /\ UNCHANGED <<tail, audioSpaceSignaled, audioEnabled, pwmLastDuty, savedHead, ghosts>>
    /\ NotCall

SetEnabled(c) == \/ CheckEnabled(c) \/ StoreEnabled(c) \/ LoadHead(c) \/ DropSamples(c)
                 \/ ClearSignaled(c) \/ NoteSilence(c) \/ ApplySilence(c)

\* The console's "run" and "stop"; USB storage mode only clears emuRunning.
Command ==
    /\ isr = "idle" /\ at["shell"] = "out"
    /\ UNCHANGED <<ringVars, wake, audioEnabled, output, emu, alarm, ghosts>>
    /\ \/ "run"  \in Commands /\ emuRunning' = TRUE  /\ CallSetEnabled("shell", TRUE)
       \/ "stop" \in Commands /\ emuRunning' = FALSE /\ CallSetEnabled("shell", FALSE)
       \/ "storage" \in Commands /\ emuRunning' = FALSE /\ UNCHANGED calls
----------------------------------------------------------------------------
(* The emulator task: the top of its loop, and audioWritePwmFrame.         *)

Emu(from, to) == emu = from /\ at["emu"] = "out" /\ emu' = to
NotEmu == UNCHANGED <<audioEnabled, emuRunning, output, alarm>>

LoopTop ==
    /\ Emu("top", IF emuRunning THEN "push" ELSE "top") /\ CallSetEnabled("emu", emuRunning)
    /\ UNCHANGED <<ringVars, wake, ghosts>> /\ NotEmu
PushFrame ==
    /\ Emu("push", IF audioEnabled THEN "render" ELSE "top")
    /\ UNCHANGED <<ringVars, wake, calls, ghosts>> /\ NotEmu

\* Once the frame is rendered, or the task has woken: look at the ring again.
Rearm ==
    /\ emu \in {"render", "woken"} /\ Emu(emu, "check") /\ audioSpaceSignaled' = FALSE
    /\ UNCHANGED <<ringVars, notified, calls, ghosts>> /\ NotEmu

\* Mistake: one sample too many is taken for room.
HasRoomForLess == RingFree >= FrameSamples - 1

HasRoom == RingFree >= FrameSamples

CheckRoom ==
    /\ Emu("check", IF HasRoom THEN "copy" ELSE "wait")
    /\ UNCHANGED <<ringVars, wake, calls, ghosts>> /\ NotEmu

\* Mistake: a task that has waited does not arm the signal again.
TakeWithoutRearm ==
    /\ Emu("wait", "check") /\ notified /\ notified' = FALSE
    /\ UNCHANGED <<ringVars, audioSpaceSignaled, calls, ghosts>> /\ NotEmu

TakeNotification ==
    /\ Emu("wait", "woken") /\ notified /\ notified' = FALSE
    /\ UNCHANGED <<ringVars, audioSpaceSignaled, calls, ghosts>> /\ NotEmu
\* After 25 ms, waiting or woken, the frame is given up.
Timeout ==
    /\ emu \in {"wait", "woken"} /\ Emu(emu, "top")
    /\ UNCHANGED <<ringVars, wake, calls, ghosts>> /\ NotEmu

\* audioRingWriteFrame: the samples, in up to two pieces, and then the head.
Value(i) == 1 + ((nextValue + i - 1) % Values)
CopyFrame ==
    /\ Emu("copy", "publish")
    /\ ring' = [s \in Slots |->
                   LET i == (s - head + RingSamples) % RingSamples
                   IN  IF i < FrameSamples THEN Value(i) ELSE ring[s]]
    /\ UNCHANGED <<head, tail, wake, calls, ghosts>> /\ NotEmu
PublishFrame ==
    /\ Emu("publish", "top") /\ head' = Slot(head + FrameSamples)
    /\ fifo' = IF raced THEN <<>> ELSE fifo \o [i \in 1 .. FrameSamples |-> Value(i - 1)]
    /\ nextValue' = Value(FrameSamples)
    /\ UNCHANGED <<ring, tail, wake, calls, raced>> /\ NotEmu

EmulatorTask == \/ LoopTop \/ PushFrame \/ Rearm \/ CheckRoom \/ TakeNotification
                \/ Timeout \/ CopyFrame \/ PublishFrame \/ SetEnabled("emu")

PwmNext == Interrupt \/ EmulatorTask \/ SetEnabled("shell") \/ Command

PwmSpec == PwmInit /\ [][PwmNext]_pwmVars

\* The timer fires for ever, both tasks are scheduled, no command is owed.
FairPwmSpec == /\ PwmSpec /\ WF_pwmVars(Interrupt) /\ WF_pwmVars(EmulatorTask)
            /\ WF_pwmVars(SetEnabled("shell"))
----------------------------------------------------------------------------
(* The indexes stay within the ring, whatever moves them.                  *)
PwmTypeOK ==
    /\ ring \in [Slots -> Sample] /\ head \in Slots /\ tail \in Slots
    /\ {audioSpaceSignaled, notified, audioEnabled, emuRunning, raced} \subseteq BOOLEAN
    /\ pwmLastDuty \in 0 .. Values + 1 /\ duty \in 0 .. Values + 1
    /\ savedTail \in Slots /\ sample \in 0 .. Values
    /\ fifo \in Seq(Sample)

Unread == [i \in 1 .. RingCount(head, tail) |-> ring[Slot(tail + i - 1)]]

(* The ring holds the samples submitted and not yet played or dropped, in  *)
(* order: no frame is copied over a sample still to play, across the wrap  *)
(* and whatever mutes come, until two of the interrupt and the mutes have  *)
(* moved the tail at once.                                                 *)
RingIsFifo == PwmTypeOK /\ (~raced => Unread = fifo)

(* A producer that waits for room is woken: it has a notification, or the  *)
(* interrupt is about to give one or will at an alarm that finds room.     *)
WaiterIsWoken ==
    emu = "wait" => notified \/ ~audioSpaceSignaled \/ isr = "notify"

(* snd.h:27, "Enable or mute the physical audio output": an output muted   *)
(* for good comes to be silent.                                            *)
MutedIsSilent == <>[]~audioEnabled => <>[](duty = 0)
=============================================================================
