------------------------------ MODULE MCSound ------------------------------
(***************************************************************************)
(* The two halves of the PWM sound path: how a frame of samples is made    *)
(* (module Frame) and how frames reach the output (module Pwm).  Nothing   *)
(* but the number of samples in a frame ties them together, so a behaviour *)
(* follows one half and leaves the other at its start.                     *)
(***************************************************************************)
EXTENDS Frame, Pwm

VARIABLE half    \* the half this behaviour follows

mcSoundVars == <<frameVars, pwmVars, half>>

MCSoundInit == FrameInit /\ PwmInit /\ half \in {"render", "play"}

MCSoundNext ==
    /\ \/ half = "render" /\ FrameNext /\ UNCHANGED pwmVars
       \/ half = "play" /\ PwmNext /\ UNCHANGED frameVars
    /\ UNCHANGED half

MCSoundSpec == MCSoundInit /\ [][MCSoundNext]_mcSoundVars
=============================================================================
