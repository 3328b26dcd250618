-------------------------- MODULE MCExitResponsibility --------------------------
(***************************************************************************)
(* Instances of ExitResponsibility for TLC.                                *)
(***************************************************************************)
EXTENDS ExitResponsibility, TLC

CONSTANTS p1, p2

PassSymmetry == Permutations(Passes)

\* The venue ends the second protection.
StopFaults == {<<"REJECTED", Stop(2)>>}

\* Any call may be left for later or have an unknown outcome, and CAP may refuse
\* the protection.
CallFaults == ({"UNVALUED", "UNKNOWN"} \X Orders) \cup {<<"REFUSED", Stop(1)>>}
===============================================================================
