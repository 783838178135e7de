------------------------------ MODULE RmtPause ------------------------------
(***************************************************************************)
(* Pausing and resuming the RMT sound backend.                             *)
(*                                                                         *)
(* The emulator task calls sndSetEnabled() at the top of every frame with  *)
(* what it just read from emuRunning (src/src/tme/emu.c), and the console  *)
(* shell, a task of the other core, sets emuRunning and calls              *)
(* sndSetEnabled() itself (src/src/console_shell.cpp).  Nothing orders the *)
(* two calls with each other, with a frame being rendered, or with the RMT *)
(* interrupt; every load and store of a shared variable is a step.         *)
(***************************************************************************)
EXTENDS RmtRing

CONSTANT Commands   \* the console commands given, among "run", "stop" and "storage"

Caller == {"emu", "shell"}

VARIABLES
    running,         \* emuRunning
    audioEnabled,    \* audioEnabled of snd.cpp
    channelEnabled,  \* the RMT channel is enabled in the driver
    loop,            \* where the frame loop of tmeStartEmu is
    at,              \* where each caller of sndSetEnabled is
    want,            \* its argument
    savedTail        \* rmtPendingTail as it loaded it

switch == <<audioEnabled, channelEnabled>>
calls == <<at, want, savedTail>>
pauseVars == <<rmtVars, running, switch, loop, calls>>

PauseTypeOK ==
    /\ TypeOK
    /\ running \in BOOLEAN /\ audioEnabled \in BOOLEAN /\ channelEnabled \in BOOLEAN
    /\ loop \in {"top", "push", "frame"}
    /\ at \in [Caller -> {"out", "check", "set", "stream", "load", "store", "driver"}]
    /\ want \in [Caller -> BOOLEAN]
    /\ savedTail \in [Caller -> 0 .. SeqMax]

PauseInit ==
    /\ Init
    /\ running = TRUE /\ audioEnabled = TRUE /\ channelEnabled = TRUE
    /\ loop = "top"
    /\ at = [k \in Caller |-> "out"]
    /\ want = [k \in Caller |-> TRUE]
    /\ savedTail = [k \in Caller |-> 0]

Goto(k, place) == at' = [at EXCEPT ![k] = place]

-----------------------------------------------------------------------------
(* sndSetEnabled(want[k]) and audioRmtSetEnabled(want[k]), one access each. *)

CallSetEnabled(k, enabled) ==
    /\ at[k] = "out"
    /\ Goto(k, "check")
    /\ want' = [want EXCEPT ![k] = enabled]
    /\ UNCHANGED savedTail

CheckEnabled(k) ==
    /\ at[k] = "check"
    /\ Goto(k, IF audioEnabled = want[k] THEN "out" ELSE "set")
    /\ UNCHANGED <<rmtVars, running, switch, loop, want, savedTail>>

StoreEnabled(k) ==
    /\ at[k] = "set"
    /\ audioEnabled' = want[k]
    /\ Goto(k, IF want[k] THEN "driver" ELSE "stream")
    /\ UNCHANGED <<rmtVars, running, channelEnabled, loop, want, savedTail>>

ClearStreamStarted(k) ==
    /\ at[k] = "stream"
    /\ streamStarted' = FALSE
    /\ Goto(k, "load")
    /\ UNCHANGED <<ring, transmitting, notified, producer, callback, running, switch,
                   loop, want, savedTail>>

\* rmtPendingHead = rmtPendingTail: a load ...
LoadTail(k) ==
    /\ at[k] = "load"
    /\ savedTail' = [savedTail EXCEPT ![k] = tail]
    /\ Goto(k, "store")
    /\ UNCHANGED <<rmtVars, running, switch, loop, want>>

\* ... and a store.
StoreHead(k) ==
    /\ at[k] = "store"
    /\ head' = savedTail[k]
    /\ savedTail' = [savedTail EXCEPT ![k] = 0]      \* the local is dead
    /\ Goto(k, "driver")
    /\ UNCHANGED <<chunkState, symbols, pendingIndex, tail, driver, notified, producer,
                   callback, running, switch, loop, want>>

\* rmt_enable(), or rmt_disable(), which also drops the transmission.
SwitchChannel(k) ==
    /\ at[k] = "driver"
    /\ channelEnabled' = want[k]
    /\ transmitting' = (transmitting /\ want[k])
    /\ Goto(k, "out")
    /\ UNCHANGED <<ring, streamStarted, notified, producer, callback, running,
                   audioEnabled, loop, want, savedTail>>

SetEnabled(k) ==
    \/ CheckEnabled(k) \/ StoreEnabled(k) \/ ClearStreamStarted(k)
    \/ LoadTail(k) \/ StoreHead(k) \/ SwitchChannel(k)

-----------------------------------------------------------------------------
(* The frame loop of tmeStartEmu: sndSetEnabled(emuRunning), then a frame.  *)

LoopTop ==
    /\ loop = "top" /\ at["emu"] = "out"
    /\ CallSetEnabled("emu", running)
    /\ loop' = IF running THEN "push" ELSE "top"
    /\ UNCHANGED <<rmtVars, running, switch>>

\* sndPushMacFrame renders the frame only while the sound is enabled.
PushFrame ==
    /\ loop = "push" /\ at["emu"] = "out"
    /\ loop' = IF audioEnabled THEN "frame" ELSE "top"
    /\ UNCHANGED <<rmtVars, running, switch, calls>>

FrameDone ==
    /\ loop = "frame" /\ pc = "render"
    /\ loop' = "top"
    /\ UNCHANGED <<rmtVars, running, switch, calls>>

\* One producer step of the frame; a timeout abandons the frame.
Render ==
    /\ loop = "frame"
    /\ \/ WaitTimeout /\ loop' = "top"
       \/ (FlushPendingSymbol \/ AcquireChunk \/ NoneFree \/ TakeNotification \/ Publish)
          /\ UNCHANGED loop
    /\ UNCHANGED <<running, switch, calls>>

EmulatorTask == LoopTop \/ PushFrame \/ FrameDone \/ Render \/ SetEnabled("emu")

\* The console commands "run" and "stop".
RunOrStop(command, enabled) ==
    /\ command \in Commands
    /\ running' = enabled
    /\ CallSetEnabled("shell", enabled)
    /\ UNCHANGED <<rmtVars, switch, loop>>

\* Entering USB storage mode only requests the stop.
RequestStop ==
    /\ "storage" \in Commands /\ at["shell"] = "out"
    /\ running' = FALSE
    /\ UNCHANGED <<rmtVars, switch, loop, calls>>

Command == RunOrStop("run", TRUE) \/ RunOrStop("stop", FALSE) \/ RequestStop

\* The driver calls back only while the channel is enabled; a callback that
\* has begun runs to its end.
RmtInterrupt ==
    /\ isr = "idle" => channelEnabled
    /\ Encode
    /\ UNCHANGED <<running, switch, loop, calls>>

PauseNext == EmulatorTask \/ SetEnabled("shell") \/ Command \/ RmtInterrupt

PauseSpec == PauseInit /\ [][PauseNext]_pauseVars

\* The tasks and the interrupt keep running; a frame has symbols (332 thousand
\* ticks, at most 65534 per symbol) but finitely many; no command is owed.
FairPauseSpec ==
    /\ PauseSpec
    /\ WF_pauseVars(EmulatorTask) /\ SF_pauseVars(FrameDone)
    /\ SF_pauseVars(Render /\ pc = "render")
    /\ WF_pauseVars(SetEnabled("shell"))
    /\ WF_pauseVars(RmtInterrupt)

-----------------------------------------------------------------------------
(* Properties.                                                             *)

\* Whatever the two callers interleave, once the emulator is stopped for good
\* the backend ends up muted and the callback stops asking for symbols.
StopSilences == <>[]~running => <>[](~audioEnabled /\ isr = "idle")

\* snd_rmt.cpp says that a chunk is published only after it is complete: what
\* the callback selects is a published chunk.
SelectsPublished == isr = "activate" => chunkState[streamChunk] = "READY"

\* snd.h says that sndSetEnabled enables the physical output: with the sound
\* enabled and nobody inside sndSetEnabled, the channel is enabled.
EnabledMeansEnabled ==
    audioEnabled /\ (\A k \in Caller : at[k] = "out") => channelEnabled

\* Resuming brings the sound back: while the emulator runs with the sound
\* and the channel enabled, the listener goes on hearing symbols.
SoundResumes == <>[](running /\ audioEnabled /\ channelEnabled) => []<><<heard' # heard>>_pauseVars
=============================================================================
