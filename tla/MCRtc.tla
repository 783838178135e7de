------------------------------- MODULE MCRtc --------------------------------
(***************************************************************************)
(* Rtc with a guest that uses one of the chip's services, chosen at the    *)
(* start: reading the time, setting it, or the parameter memory.  They     *)
(* share the serial port, on which they come one after another, and the    *)
(* bytes, so their products need not be explored; nor that of the host's   *)
(* seconds with restarts, which only parameter memory has a property for.  *)
(***************************************************************************)
EXTENDS Rtc

VARIABLE service

mcRtcVars == <<rtcVars, service>>

MCRtcInit == RtcInit /\ service \in {"read", "set", "pram"}

MCRtcNext ==
    /\ \/ service = "read" /\ ((net = Idle /\ ReadTime) \/ (~Busy /\ SyncBegins) \/ HostTicks)
       \/ service = "set" /\ (SetTime \/ HostTicks)
       \/ service = "pram" /\ (SetPram \/ ReadPram \/ (SyncBegins /\ host' = MinHost) \/ Reboot)
       \/ GuestClocks \/ GuestDeselects
       \/ Emulator \/ SyncTask \/ TimerMovesPb7
    /\ UNCHANGED service

MCRtcSpec == MCRtcInit /\ [][MCRtcNext]_mcRtcVars /\ Fairness
=============================================================================
