-------------------------- MODULE StorageUsbProofs --------------------------
(***************************************************************************)
(* One caller at most sets USB mass-storage mode up, for any set of tasks  *)
(* that give the command and any faults.  The function has no lock; what   *)
(* stands in for one is the SDMMC host driver, which refuses a second      *)
(* initialisation.  The invariant says who has it: the application while   *)
(* its volume is mounted, and from then on whoever is setting up.  And one *)
(* removal of the device schedules one reboot at most.                     *)
(***************************************************************************)
EXTENDS StorageUsb, TLAPS

Pcs == {"idle", "stop", "wait", "deinit", "unmount", "sdinit",
        "msc", "flags", "install", "buffer", "cdc"}
Working == {"msc", "flags", "install", "buffer", "cdc"}
BeforeDriver == {"msc", "flags", "install"}

\* Where the callers are.
PcOK == pc \in [Callers -> Pcs]

\* The host driver's owner follows the hand-over.
OwnerOK ==
    /\ hostOwner \in {"none", "app", "usb"}
    /\ mounted = TRUE => hostOwner = "app"
    /\ \A c \in Callers : pc[c] \in Working => hostOwner = "usb"
    /\ driver = TRUE => hostOwner = "usb"

\* Of two callers, one at most is past the initialisation of the card.
Alone ==
    \A c, d \in Callers : pc[c] \in Working /\ pc[d] \in Working => c = d

\* Nobody who has yet to install the driver finds it installed.
NoDriverYet ==
    \A c \in Callers : pc[c] \in BeforeDriver => driver # TRUE

IInv == PcOK /\ OwnerOK /\ Alone /\ NoDriverYet

(* The invariant implies the property the runs check.                      *)
LEMMA IInvImpliesSetUpOnce == IInv => SetUpOnce
  BY DEF IInv, PcOK, OwnerOK, Alone, NoDriverYet, SetUpOnce, SettingUp, Working,
         BeforeDriver

(* It holds at the start: the application has the card.                    *)
LEMMA InitIInv == Init => IInv
  BY DEF Init, IInv, PcOK, OwnerOK, Alone, NoDriverYet, Pcs, Working, BeforeDriver

(* What moves one caller between two places outside the set-up, leaving    *)
(* the card alone, keeps the invariant.                                    *)
LEMMA GotoPc ==
  ASSUME PcOK, NEW c \in Callers, NEW from, NEW to \in Pcs, Goto(c, from, to)
  PROVE  /\ PcOK'
         /\ pc[c] = from /\ pc'[c] = to
         /\ \A d \in Callers \ {c} : pc'[d] = pc[d]
  BY DEF PcOK, Goto

(* A caller's steps outside the set-up, and its steps within it that leave *)
(* the card and the driver as they are and do not go back, keep it.        *)
LEMMA GotoIInv ==
  ASSUME IInv, NEW c \in Callers, NEW from, NEW to \in Pcs, Goto(c, from, to),
         UNCHANGED callVars,
         to \in Working => from \in Working,
         to \in BeforeDriver => from \in BeforeDriver
  PROVE  IInv'
  <1>1. /\ PcOK' /\ pc[c] = from /\ pc'[c] = to
        /\ \A d \in Callers \ {c} : pc'[d] = pc[d]
    BY GotoPc DEF IInv
  <1>2. \A d \in Callers : /\ pc'[d] \in Working => pc[d] \in Working
                           /\ pc'[d] \in BeforeDriver => pc[d] \in BeforeDriver
    BY <1>1
  <1>3. OwnerOK'
    BY <1>2 DEF IInv, OwnerOK, callVars
  <1>4. Alone'
    BY <1>2 DEF IInv, Alone
  <1>5. NoDriverYet'
    BY <1>2 DEF IInv, NoDriverYet, callVars
  <1> QED BY <1>1, <1>3, <1>4, <1>5 DEF IInv

(* The unmount: the application gives its claim up, and only its own.      *)
LEMMA UnmountIInv ==
  ASSUME IInv, NEW c \in Callers, Unmount(c)
  PROVE  IInv'
  <1>1. /\ PcOK' /\ pc'[c] = "sdinit"
        /\ \A d \in Callers \ {c} : pc'[d] = pc[d]
    BY GotoPc DEF IInv, Unmount, Pcs
  <1>2. \A d \in Callers : /\ pc'[d] \in Working => pc[d] \in Working
                           /\ pc'[d] \in BeforeDriver => pc[d] \in BeforeDriver
    BY <1>1 DEF Working, BeforeDriver
  <1>3. driver' = driver /\ mounted' = FALSE
        /\ hostOwner' = IF hostOwner = "app" THEN "none" ELSE hostOwner
    BY DEF Unmount
  <1>4. OwnerOK'
    BY <1>2, <1>3 DEF IInv, OwnerOK
  <1>5. Alone' /\ NoDriverYet'
    BY <1>2, <1>3 DEF IInv, Alone, NoDriverYet
  <1> QED BY <1>1, <1>4, <1>5 DEF IInv

(* The card's initialisation is where a caller becomes the one that sets   *)
(* up: nobody had the host driver, so nobody else was.                     *)
LEMMA InitSdCardIInv ==
  ASSUME IInv, NEW c \in Callers, InitSdCard(c)
  PROVE  IInv'
  <1>1. CASE Goto(c, "sdinit", "msc") /\ hostOwner' = "usb"
    <2>1. /\ PcOK' /\ pc'[c] = "msc"
          /\ \A d \in Callers \ {c} : pc'[d] = pc[d]
      BY <1>1, GotoPc DEF IInv, Pcs
    <2>2. hostOwner = "none" /\ mounted' = mounted /\ driver' = driver
      BY DEF InitSdCard
    <2>3. /\ \A d \in Callers : pc[d] \notin Working
          /\ mounted # TRUE /\ driver # TRUE
      BY <2>2 DEF IInv, OwnerOK
    <2>4. OwnerOK'
      BY <1>1, <2>2, <2>3 DEF OwnerOK
    <2>5. \A d \in Callers : pc'[d] \in Working => d = c
      BY <2>1, <2>3
    <2>6. Alone'
      BY <2>5 DEF Alone
    <2>7. NoDriverYet'
      BY <2>2, <2>3 DEF NoDriverYet
    <2> QED BY <2>1, <2>4, <2>6, <2>7 DEF IInv
  <1>2. CASE Goto(c, "sdinit", "idle") /\ UNCHANGED hostOwner
    <2>1. UNCHANGED callVars
      BY <1>2 DEF InitSdCard, callVars
    <2> QED BY <1>2, <2>1, GotoIInv DEF Pcs, Working, BeforeDriver
  <1> QED BY <1>1, <1>2 DEF InitSdCard

(* The driver's installation: the one that sets up is alone, so nobody     *)
(* else is still before it.                                                *)
LEMMA InstallDriverIInv ==
  ASSUME IInv, NEW c \in Callers, InstallDriver(c)
  PROVE  IInv'
  <1>1. CASE Goto(c, "install", "buffer") /\ driver' = TRUE
    <2>1. /\ PcOK' /\ pc[c] = "install" /\ pc'[c] = "buffer"
          /\ \A d \in Callers \ {c} : pc'[d] = pc[d]
      BY <1>1, GotoPc DEF IInv, Pcs
    <2>2. mounted' = mounted /\ hostOwner' = hostOwner
      BY DEF InstallDriver
    <2>3. \A d \in Callers : pc'[d] \in Working => pc[d] \in Working
      BY <2>1 DEF Working
    <2>4. hostOwner = "usb"
      BY <2>1 DEF IInv, OwnerOK, Working
    <2>5. OwnerOK'
      BY <2>2, <2>3, <2>4 DEF IInv, OwnerOK
    <2>6. Alone'
      BY <2>3 DEF IInv, Alone
    <2>7. \A d \in Callers : pc[d] \in Working => d = c
      BY <2>1 DEF IInv, Alone, Working
    <2>8. NoDriverYet'
      BY <2>1, <2>7 DEF NoDriverYet, Working, BeforeDriver
    <2> QED BY <2>1, <2>5, <2>6, <2>8 DEF IInv
  <1>2. CASE Goto(c, "install", "idle") /\ UNCHANGED driver
    <2>1. UNCHANGED callVars
      BY <1>2 DEF InstallDriver, callVars
    <2> QED BY <1>2, <2>1, GotoIInv DEF Pcs, Working, BeforeDriver
  <1> QED BY <1>1, <1>2 DEF InstallDriver

(* A reboot puts everything back.                                          *)
LEMMA RestartIInv ==
  ASSUME Restart
  PROVE  IInv'
  BY DEF Restart, IInv, PcOK, OwnerOK, Alone, NoDriverYet, Pcs, Working, BeforeDriver

(* Steps that touch neither the callers nor the card keep it.              *)
LEMMA SameIInv ==
  ASSUME IInv, UNCHANGED <<pc, callVars>>
  PROVE  IInv'
  BY DEF IInv, PcOK, OwnerOK, Alone, NoDriverYet, callVars

(* Every step of a caller keeps the invariant.                             *)
LEMMA CallerIInv ==
  ASSUME IInv, NEW c \in Callers, Enter(c) \/ Proceed(c)
  PROVE  IInv'
  <1> USE DEF Pcs, Working, BeforeDriver
  <1>1. CASE Enter(c)
    BY <1>1, GotoIInv DEF Enter
  <1>2. CASE RequestStop(c)
    BY <1>2, GotoIInv DEF RequestStop
  <1>3. CASE AwaitStop(c)
    BY <1>3, GotoIInv DEF AwaitStop
  <1>4. CASE StopTimeout(c)
    BY <1>4, GotoIInv DEF StopTimeout
  <1>5. CASE DeinitCheck(c)
    <2>1. PICK to \in {"unmount", "sdinit"} : Goto(c, "deinit", to)
      BY <1>5 DEF DeinitCheck
    <2> QED BY <1>5, <2>1, GotoIInv DEF DeinitCheck
  <1>6. CASE Unmount(c)
    BY <1>6, UnmountIInv
  <1>7. CASE InitSdCardRefused(c)
    BY <1>7, GotoIInv DEF InitSdCardRefused
  <1>8. CASE InitSdCard(c)
    BY <1>8, InitSdCardIInv
  <1>9. CASE NewMscStorage(c)
    <2>1. CASE Goto(c, "msc", "flags")
      BY <1>9, <2>1, GotoIInv DEF NewMscStorage
    <2>2. CASE Goto(c, "msc", "idle")
      BY <1>9, <2>2, GotoIInv DEF NewMscStorage
    <2> QED BY <1>9, <2>1, <2>2 DEF NewMscStorage
  <1>10. CASE SetFlags(c)
    BY <1>10, GotoIInv DEF SetFlags
  <1>11. CASE InstallDriver(c)
    BY <1>11, InstallDriverIInv
  <1>12. CASE AllocCdcBuffer(c)
    <2>1. CASE Goto(c, "buffer", "cdc")
      BY <1>12, <2>1, GotoIInv DEF AllocCdcBuffer
    <2>2. CASE Goto(c, "buffer", "idle")
      BY <1>12, <2>2, GotoIInv DEF AllocCdcBuffer
    <2> QED BY <1>12, <2>1, <2>2 DEF AllocCdcBuffer
  <1>13. CASE InitCdc(c)
    BY <1>13, GotoIInv DEF InitCdc
  <1> QED BY <1>1, <1>2, <1>3, <1>4, <1>5, <1>6, <1>7, <1>8, <1>9, <1>10, <1>11,
             <1>12, <1>13 DEF Proceed

(* Every step of the system keeps it.                                      *)
LEMMA NextIInv == IInv /\ [Next]_vars => IInv'
  <1> SUFFICES ASSUME IInv, [Next]_vars PROVE IInv'
    OBVIOUS
  <1>1. CASE \E c \in Callers : Enter(c) \/ Proceed(c)
    BY <1>1, CallerIInv
  <1>2. CASE tmeRequestRun \/ FrameBegin \/ FrameEnd
    BY <1>2, SameIInv DEF tmeRequestRun, FrameBegin, FrameEnd
  <1>3. CASE Attach \/ Eject \/ Detach
    BY <1>3, SameIInv DEF Attach, Eject, Detach
  <1>4. CASE DeliverEvent
    BY <1>4, SameIInv DEF DeliverEvent
  <1>5. CASE Restart
    BY <1>5, RestartIInv
  <1>6. CASE UNCHANGED vars
    BY <1>6, SameIInv DEF vars
  <1> QED BY <1>1, <1>2, <1>3, <1>4, <1>5, <1>6 DEF Next

(* However many tasks give the "storage" command at once, one at most sets *)
(* the mode up, with the application's volume released and no driver of an *)
(* earlier one installed (storageUsbStartMassStorageMode).                 *)
THEOREM StorageSetUpOnce == Spec => []SetUpOnce
  <1>1. Init => IInv
    BY InitIInv
  <1>2. IInv /\ [Next]_vars => IInv'
    BY NextIInv
  <1>3. IInv => SetUpOnce
    BY IInvImpliesSetUpOnce
  <1> QED BY <1>1, <1>2, <1>3, PTL DEF Spec
-----------------------------------------------------------------------------
Event == {"attached", "app_mount", "detached"}

\* The flags, the emulator's task and the PC keep their types.
FlagsOK ==
    /\ emuRunning \in BOOLEAN /\ mounted \in BOOLEAN /\ driver \in BOOLEAN
    /\ active \in BOOLEAN /\ mountedOnce \in BOOLEAN /\ restartScheduled \in BOOLEAN
    /\ attached \in BOOLEAN /\ ejected \in BOOLEAN
    /\ emuPc \in {"top", "frame"} /\ images \subseteq {"hd", "fd"}

\* A PC is there only behind an installed driver, and a reboot is under way only
\* with its flag set and the driver installed: nobody is then before SetFlags,
\* which would clear the flag.
RebootOnce ==
    /\ events \in Seq(Event)
    /\ attached = TRUE \/ events # <<>> => driver = TRUE
    /\ restarts \in {0, 1}
    /\ restarts = 1 => restartScheduled = TRUE /\ driver = TRUE

UInv == IInv /\ FlagsOK /\ RebootOnce

(* The invariant implies the property the runs check.                      *)
LEMMA UInvImpliesUsbTypeOK == UInv => UsbTypeOK
  BY DEF UInv, IInv, PcOK, OwnerOK, Pcs, FlagsOK, RebootOnce, Event, UsbTypeOK

(* A caller's step changes only the flags of the mode, and the one that    *)
(* clears the reboot's flag comes before the driver is installed.          *)
LEMMA CallerUInv ==
  ASSUME UInv, NEW c \in Callers, Enter(c) \/ Proceed(c)
  PROVE  FlagsOK' /\ RebootOnce'
  <1> USE DEF FlagsOK, RebootOnce, UInv, callVars, flagVars, emuVars, pcVars
  <1>1. CASE Enter(c)
    BY <1>1 DEF Enter
  <1>2. CASE RequestStop(c)
    BY <1>2 DEF RequestStop
  <1>3. CASE AwaitStop(c) \/ StopTimeout(c) \/ DeinitCheck(c)
    BY <1>3 DEF AwaitStop, StopTimeout, DeinitCheck
  <1>4. CASE Unmount(c)
    BY <1>4 DEF Unmount
  <1>5. CASE InitSdCardRefused(c) \/ InitSdCard(c) \/ NewMscStorage(c)
    BY <1>5 DEF InitSdCardRefused, InitSdCard, NewMscStorage
  <1>6. CASE SetFlags(c)
    <2>1. ~driver
      BY <1>6 DEF SetFlags, Goto, IInv, NoDriverYet, BeforeDriver
    <2> QED BY <1>6, <2>1 DEF SetFlags
  <1>7. CASE InstallDriver(c)
    BY <1>7 DEF InstallDriver
  <1>8. CASE AllocCdcBuffer(c) \/ InitCdc(c)
    BY <1>8 DEF AllocCdcBuffer, InitCdc
  <1> QED BY <1>1, <1>2, <1>3, <1>4, <1>5, <1>6, <1>7, <1>8 DEF Proceed

(* A delivered event schedules a reboot when none is scheduled.            *)
LEMMA DeliverUInv ==
  ASSUME UInv, DeliverEvent
  PROVE  FlagsOK' /\ RebootOnce'
  <1>1. /\ events # <<>> /\ events' = Tail(events)
        /\ UNCHANGED <<active, attached, ejected, callVars, emuVars>>
    BY DEF DeliverEvent
  <1>2. events' \in Seq(Event) /\ driver = TRUE
    BY <1>1 DEF UInv, RebootOnce
  <1>3. scheduleRestart \/ UNCHANGED <<restartScheduled, restarts>>
    BY DEF DeliverEvent
  <1>4. /\ restarts' \in {0, 1} /\ restartScheduled' \in BOOLEAN
        /\ restarts' = 1 => restartScheduled' = TRUE
    <2>1. CASE restartScheduled = TRUE
      BY <1>3, <2>1 DEF scheduleRestart, UInv, RebootOnce
    <2>2. CASE restartScheduled = FALSE
      <3>1. restarts = 0
        BY <2>2 DEF UInv, RebootOnce
      <3>2. \/ restartScheduled' = TRUE /\ restarts' \in {0, 1}
            \/ restartScheduled' = FALSE /\ restarts' = 0
        BY <1>3, <2>2, <3>1 DEF scheduleRestart
      <3>3. restarts' = 0 => restarts' # 1
        OBVIOUS
      <3>4. restarts' \in {0, 1} /\ restartScheduled' \in BOOLEAN
        BY <3>2
      <3>5. restarts' = 1 => restartScheduled' = TRUE
        BY <3>2, <3>3
      <3> QED BY <3>4, <3>5
    <2> QED BY <2>1, <2>2 DEF UInv, FlagsOK
  <1>5. mountedOnce' \in BOOLEAN
    BY DEF DeliverEvent, UInv, FlagsOK
  <1> QED BY <1>1, <1>2, <1>4, <1>5 DEF UInv, FlagsOK, RebootOnce, callVars, emuVars

(* Every step of the system keeps it.                                      *)
LEMMA NextUInv == UInv /\ [Next]_vars => UInv'
  <1> SUFFICES ASSUME UInv, [Next]_vars PROVE FlagsOK' /\ RebootOnce'
    BY NextIInv DEF UInv
  <1> USE DEF FlagsOK, RebootOnce, UInv, callVars, flagVars, emuVars, pcVars, Event
  <1>1. CASE \E c \in Callers : Enter(c) \/ Proceed(c)
    BY <1>1, CallerUInv
  <1>2. CASE tmeRequestRun \/ FrameBegin \/ FrameEnd
    BY <1>2 DEF tmeRequestRun, FrameBegin, FrameEnd
  <1>3. CASE Attach \/ Eject \/ Detach
    <2>1. events' \in Seq(Event) /\ driver = TRUE
      BY <1>3 DEF Attach, Eject, Detach
    <2> QED BY <1>3, <2>1 DEF Attach, Eject, Detach
  <1>4. CASE DeliverEvent
    BY <1>4, DeliverUInv
  <1>5. CASE Restart
    <2>1. <<>> \in Seq(Event)
      OBVIOUS
    <2>2. /\ FlagsOK'
          /\ attached' = FALSE /\ events' = <<>> /\ restarts' = 0
      BY <1>5 DEF Restart
    <2> QED BY <2>1, <2>2
  <1>6. CASE UNCHANGED vars
    BY <1>6 DEF vars
  <1> QED BY <1>1, <1>2, <1>3, <1>4, <1>5, <1>6 DEF Next

(* At power-on no PC is there and no reboot under way.                     *)
LEMMA InitUInv == Init => UInv
  <1> SUFFICES ASSUME Init PROVE UInv
    OBVIOUS
  <1>1. IInv
    BY InitIInv
  <1>2. FlagsOK
    BY DEF Init, FlagsOK
  <1>3. <<>> \in Seq(Event)
    OBVIOUS
  <1>4. RebootOnce
    BY <1>3 DEF Init, RebootOnce
  <1> QED BY <1>1, <1>2, <1>4 DEF UInv

(* One removal of the device schedules one reboot, however many of its     *)
(* events are delivered and whoever gives the command again meanwhile      *)
(* (scheduleRestart of storage_usb.cpp), and every flag keeps its type.    *)
THEOREM StorageRebootsOnce == Spec => []UsbTypeOK
  <1>1. Init => UInv
    BY InitUInv
  <1>2. UInv /\ [Next]_vars => UInv'
    BY NextUInv
  <1>3. UInv => UsbTypeOK
    BY UInvImpliesUsbTypeOK
  <1> QED BY <1>1, <1>2, <1>3, PTL DEF Spec
=============================================================================
