------------------------ MODULE MCProtectionReplacement ------------------------
(***************************************************************************)
(* Instances of ProtectionReplacement for TLC.                             *)
(***************************************************************************)
EXTENDS ProtectionReplacement

CONSTANT p1

\* A plan with a take-profit, and one with a dynamic step.
OneOrOther == {[ladder |-> TRUE, steps |-> 0], [ladder |-> FALSE, steps |-> 1]}

\* A plan with a take-profit.
Laddered == {[ladder |-> TRUE, steps |-> 0]}

\* Stops may be refused, lost and rejected; a take-profit may be left for later,
\* refused, or find its trigger crossed.
SomeFaults ==
  {"REFUSED", "LOST", "REJECTED"} \X {"STOP"} \cup {"UNVALUED", "REFUSED", "CROSSED"} \X {"REDUCER"}
==============================================================================
