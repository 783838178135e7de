------------------------------- MODULE MCMouse ------------------------------
(***************************************************************************)
(* Mouse with three guests: one in time, with and without the forced reset *)
(* of the SCC, and a late one.                                             *)
(***************************************************************************)
EXTENDS Mouse

ExploredGuests ==
    {[inTime |-> TRUE, forcesReset |-> f] : f \in BOOLEAN}
        \cup {[inTime |-> FALSE, forcesReset |-> TRUE]}
=============================================================================
