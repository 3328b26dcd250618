--------------------------- MODULE MCDirectSchedule ---------------------------
(***************************************************************************)
(* Instances of DirectSchedule for TLC.                                    *)
(***************************************************************************)
EXTENDS DirectSchedule

\* Only the repriced order is retried: once.
OneRetry == [p \in Programs |-> IF p = "REPRICED" THEN 1 ELSE 0]
OneFill == [p \in Programs |-> IF p = "REPRICED" THEN 2 ELSE 1]
TwoFills == [p \in Programs |-> 2]
NoRetry == [p \in Programs |-> 0]
===============================================================================
