----------------------------- MODULE StorageUsb -----------------------------
(***************************************************************************)
(* USB mass-storage mode (storage_usb.cpp): the hand-over of the SD card   *)
(* from the application to a PC.  The command can come from the serial     *)
(* shell, the HTTP console and the storage menu, each a task of its own,   *)
(* and the function takes no lock; the emulator task runs its frames, the  *)
(* TinyUSB task delivers events, and a PC attaches, ejects and detaches.   *)
(* A reboot puts everything back to Init.                                  *)
(*                                                                         *)
(* The emulator loop also tests emuStopRequested, which nothing sets: the  *)
(* loop never exits, and the closing of the images after it (emu.c:412) is *)
(* not an action.                                                          *)
(***************************************************************************)
EXTENDS Naturals, Sequences

CONSTANTS
    Callers,    \* the tasks that may run the "storage" command
    FaultSets   \* which of the calls it makes may fail

ASSUME FaultsAssumption ==
    \A faults \in FaultSets :
        faults \subseteq {"card", "msc", "install", "buffer", "cdc", "task"}

VARIABLES
    faults,            \* the calls that may fail in this run of the system
    pc,                \* where each caller is in storageUsbStartMassStorageMode
    emuRunning,        \* emu.c: set by "run", cleared by "stop"
    emuPc,             \* the emulator task: at the loop's "top" or in a "frame"
    images,            \* the image files the emulator holds open on /sd
    mounted,           \* sdcard.cpp: the application's /sd volume
    hostOwner,         \* who has the SDMMC host driver initialised
    active,            \* gStorageModeActive
    mountedOnce,       \* gUsbMountedOnce
    restartScheduled,  \* gRestartScheduled
    restarts,          \* restart tasks created
    driver,            \* the TinyUSB driver is installed
    attached,          \* the PC has enumerated the device
    ejected,           \* the PC has ejected or removed the device
    events             \* events the TinyUSB task has still to deliver

callVars == <<mounted, hostOwner, driver>>
flagVars == <<active, mountedOnce, restartScheduled, restarts>>
emuVars  == <<emuRunning, emuPc, images>>
pcVars   == <<attached, ejected, events>>
vars     == <<faults, pc, callVars, flagVars, emuVars, pcVars>>

Init ==
    /\ faults \in FaultSets
    /\ pc = [c \in Callers |-> "idle"]
    /\ emuRunning = TRUE /\ emuPc = "top" /\ images = {"hd", "fd"}
    /\ mounted = TRUE /\ hostOwner = "app"
    /\ active = FALSE /\ mountedOnce = FALSE
    /\ restartScheduled = FALSE /\ restarts = 0
    /\ driver = FALSE /\ attached = FALSE /\ ejected = FALSE /\ events = <<>>

Goto(c, from, to) == pc[c] = from /\ pc' = [pc EXCEPT ![c] = to]
----------------------------------------------------------------------------
(* The command, one action per step another task can come between.         *)

Enter(c) ==
    /\ ~active
    /\ Goto(c, "idle", "stop")
    /\ UNCHANGED <<faults, callVars, flagVars, emuVars, pcVars>>

\* tmeRequestStop asks; it does not wait for the frame to end.
RequestStop(c) ==
    /\ Goto(c, "stop", "wait")
    /\ emuRunning' = FALSE
    /\ UNCHANGED <<faults, emuPc, images, callVars, flagVars, pcVars>>

\* tmeEmuStopped tests only the flag RequestStop has just cleared.
tmeEmuStopped == ~emuRunning

AwaitStop(c) ==
    /\ tmeEmuStopped
    /\ Goto(c, "wait", "deinit")
    /\ UNCHANGED <<faults, callVars, flagVars, emuVars, pcVars>>

\* "run" from another console kept the flag set for all of the 5 s.
StopTimeout(c) ==
    /\ ~tmeEmuStopped
    /\ Goto(c, "wait", "idle")
    /\ UNCHANGED <<faults, callVars, flagVars, emuVars, pcVars>>

DeinitCheck(c) ==
    /\ Goto(c, "deinit", IF mounted THEN "unmount" ELSE "sdinit")
    /\ UNCHANGED <<faults, callVars, flagVars, emuVars, pcVars>>

\* A second unmount of the same card does not find it and changes nothing.
Unmount(c) ==
    /\ Goto(c, "unmount", "sdinit")
    /\ mounted' = FALSE
    /\ hostOwner' = IF hostOwner = "app" THEN "none" ELSE hostOwner
    /\ UNCHANGED <<faults, driver, flagVars, emuVars, pcVars>>

\* Mistake: a failed host.init() deinitialises the host, as the later errors do.
InitSdCardRefusedDeinit(c) ==
    /\ hostOwner # "none"
    /\ Goto(c, "sdinit", "idle")
    /\ hostOwner' = "none"
    /\ UNCHANGED <<faults, mounted, driver, flagVars, emuVars, pcVars>>

\* The host driver refuses a second initialisation: the call fails and
\* leaves the driver to the caller that has it.
InitSdCardRefused(c) ==
    /\ hostOwner # "none"
    /\ Goto(c, "sdinit", "idle")
    /\ UNCHANGED <<faults, callVars, flagVars, emuVars, pcVars>>

InitSdCard(c) ==
    /\ hostOwner = "none"
    /\ \/ /\ Goto(c, "sdinit", "msc")
          /\ hostOwner' = "usb"
       \/ /\ "card" \in faults            \* slot or card error: deinit
          /\ Goto(c, "sdinit", "idle")
          /\ UNCHANGED hostOwner
    /\ UNCHANGED <<faults, mounted, driver, flagVars, emuVars, pcVars>>

NewMscStorage(c) ==
    /\ \/ Goto(c, "msc", "flags")
       \/ "msc" \in faults /\ Goto(c, "msc", "idle")
    /\ UNCHANGED <<faults, callVars, flagVars, emuVars, pcVars>>

SetFlags(c) ==
    /\ Goto(c, "flags", "install")
    /\ active' = TRUE /\ mountedOnce' = FALSE /\ restartScheduled' = FALSE
    /\ UNCHANGED <<faults, restarts, callVars, emuVars, pcVars>>

InstallDriver(c) ==
    /\ \/ /\ Goto(c, "install", "buffer")
          /\ ~driver /\ driver' = TRUE
          /\ UNCHANGED active
       \/ /\ driver \/ "install" \in faults
          /\ Goto(c, "install", "idle")
          /\ active' = FALSE
          /\ UNCHANGED driver
    /\ UNCHANGED <<faults, mounted, hostOwner, mountedOnce, restartScheduled, restarts,
                   emuVars, pcVars>>

\* Mistake: the flags are reset after the driver is installed.
AllocCdcBufferThenReset(c) ==
    /\ Goto(c, "buffer", "cdc")
    /\ mountedOnce' = FALSE
    /\ UNCHANGED <<faults, active, restartScheduled, restarts, callVars, emuVars, pcVars>>

\* Failing here leaves gStorageModeActive set.
AllocCdcBuffer(c) ==
    /\ \/ Goto(c, "buffer", "cdc")
       \/ "buffer" \in faults /\ Goto(c, "buffer", "idle")
    /\ UNCHANGED <<faults, callVars, flagVars, emuVars, pcVars>>

\* Failing here clears it, with the driver installed and the PC served.
InitCdc(c) ==
    /\ Goto(c, "cdc", "idle")
    /\ \/ UNCHANGED active
       \/ "cdc" \in faults /\ active' = FALSE
    /\ UNCHANGED <<faults, mountedOnce, restartScheduled, restarts, callVars, emuVars, pcVars>>
----------------------------------------------------------------------------
(* The emulator task and the "run" command.                                *)

\* The command does not ask whether the card is the PC's.
tmeRequestRun ==
    /\ emuRunning' = TRUE
    /\ UNCHANGED <<faults, pc, emuPc, images, callVars, flagVars, pcVars>>

FrameBegin ==
    /\ emuPc = "top" /\ emuRunning
    /\ emuPc' = "frame"
    /\ UNCHANGED <<faults, pc, emuRunning, images, callVars, flagVars, pcVars>>

\* The guest may eject the floppy within its frame.
FrameEnd ==
    /\ emuPc = "frame"
    /\ emuPc' = "top"
    /\ images' \in {images, images \ {"fd"}}
    /\ UNCHANGED <<faults, pc, emuRunning, callVars, flagVars, pcVars>>
----------------------------------------------------------------------------
(* The PC (external) and the callbacks on the TinyUSB task.                *)

Attach ==
    /\ driver /\ ~attached /\ ~ejected
    /\ attached' = TRUE
    /\ events' = Append(events, "attached")
    /\ UNCHANGED <<faults, pc, ejected, callVars, flagVars, emuVars>>

\* The storage goes back to the application's mount point.
Eject ==
    /\ attached /\ ~ejected
    /\ ejected' = TRUE
    /\ events' = Append(events, "app_mount")
    /\ UNCHANGED <<faults, pc, attached, callVars, flagVars, emuVars>>

Detach ==
    /\ attached
    /\ attached' = FALSE /\ ejected' = TRUE
    /\ events' = Append(events, "detached")
    /\ UNCHANGED <<faults, pc, callVars, flagVars, emuVars>>

\* Mistake: a reboot already scheduled is not checked for.
scheduleRestartAgain ==
    /\ restartScheduled' = TRUE
    /\ restarts' = restarts + 1

\* The flag is set whether or not the task could be created.
scheduleRestart ==
    IF restartScheduled
    THEN UNCHANGED <<restartScheduled, restarts>>
    ELSE /\ restartScheduled' = TRUE
         /\ \/ restarts' = restarts + 1
            \/ "task" \in faults /\ UNCHANGED restarts

\* storageMountChangedCb and usbEventCallback: an event in an inactive mode,
\* or a removal before any attachment, is dropped.
DeliverEvent ==
    /\ events # <<>>
    /\ events' = Tail(events)
    /\ mountedOnce' = (mountedOnce \/ (active /\ Head(events) = "attached"))
    /\ IF active /\ mountedOnce /\ Head(events) \in {"app_mount", "detached"}
       THEN scheduleRestart
       ELSE UNCHANGED <<restartScheduled, restarts>>
    /\ UNCHANGED <<faults, pc, active, attached, ejected, callVars, emuVars>>

\* restartTask, after its delay: esp_restart, and the boot that follows.
Restart ==
    /\ restarts > 0
    /\ pc' = [c \in Callers |-> "idle"]
    /\ emuRunning' = TRUE /\ emuPc' = "top" /\ images' = {"hd", "fd"}
    /\ mounted' = TRUE /\ hostOwner' = "app"
    /\ active' = FALSE /\ mountedOnce' = FALSE
    /\ restartScheduled' = FALSE /\ restarts' = 0
    /\ driver' = FALSE /\ attached' = FALSE /\ ejected' = FALSE /\ events' = <<>>
    /\ UNCHANGED faults
----------------------------------------------------------------------------
Proceed(c) ==
    \/ RequestStop(c) \/ AwaitStop(c) \/ StopTimeout(c)
    \/ DeinitCheck(c) \/ Unmount(c)
    \/ InitSdCardRefused(c) \/ InitSdCard(c) \/ NewMscStorage(c) \/ SetFlags(c)
    \/ InstallDriver(c) \/ AllocCdcBuffer(c) \/ InitCdc(c)

Next ==
    \/ \E c \in Callers : Enter(c) \/ Proceed(c)
    \/ tmeRequestRun \/ FrameBegin \/ FrameEnd
    \/ Attach \/ Eject \/ Detach \/ DeliverEvent \/ Restart

Spec == Init /\ [][Next]_vars

\* Every task gets the processor; what the PC and the users do is not fair.
FairSpec ==
    /\ Spec
    /\ \A c \in Callers : WF_vars(Proceed(c))
    /\ WF_vars(FrameBegin) /\ WF_vars(FrameEnd)
    /\ WF_vars(DeliverEvent) /\ WF_vars(Restart)
----------------------------------------------------------------------------
SettingUp == {c \in Callers :
                 pc[c] \in {"msc", "flags", "install", "buffer", "cdc"}}

(* Type correctness; one reboot is scheduled at most, however many events  *)
(* of one removal are delivered.                                           *)
UsbTypeOK ==
    /\ pc \in [Callers -> {"idle", "stop", "wait", "deinit", "unmount", "sdinit",
                           "msc", "flags", "install", "buffer", "cdc"}]
    /\ emuRunning \in BOOLEAN /\ mounted \in BOOLEAN /\ driver \in BOOLEAN
    /\ active \in BOOLEAN /\ mountedOnce \in BOOLEAN /\ restartScheduled \in BOOLEAN
    /\ attached \in BOOLEAN /\ ejected \in BOOLEAN
    /\ emuPc \in {"top", "frame"} /\ images \subseteq {"hd", "fd"}
    /\ hostOwner \in {"none", "app", "usb"}
    /\ restarts \in 0..1
    /\ \A i \in 1..Len(events) : events[i] \in {"attached", "app_mount", "detached"}

(* However many consoles give the command at once, one of them at most     *)
(* gets past the card's initialisation, and none while the TinyUSB driver  *)
(* of an earlier one is installed: the refusal of the host driver is the   *)
(* only lock the function has.                                             *)
SetUpOnce ==
    /\ \A c, d \in SettingUp : c = d
    /\ SettingUp # {} => ~mounted
    /\ \A c \in SettingUp : pc[c] \in {"msc", "flags", "install"} => ~driver

(* PUBLISH_DETAILS.md:172: after the PC ejects or removes the device the   *)
(* firmware reboots, and the application has its volume again.             *)
EjectReboots == ejected ~> (mounted /\ ~ejected)

(* It does whatever other call fails, except for the last two: the CDC's   *)
(* initialisation, which gives the mode up with the PC served, and the     *)
(* creation of the restart task, which is not tried again.                 *)
EjectRebootsUnlessLate == faults \cap {"cdc", "task"} = {} => EjectReboots

(* PUBLISH_DETAILS.md:165: the emulator is stopped at a safe point.  The   *)
(* card is not taken while a frame of the guest is running.                *)
SafePoint == ~mounted => emuPc = "top"

(* PUBLISH_DETAILS.md:166: HD and FD images are flushed and closed before  *)
(* the PC gets the card.                                                   *)
ImagesClosed == driver => images = {}
=============================================================================
