-------------------------- MODULE MCExecutionDispatch --------------------------
(***************************************************************************)
(* An instance of ExecutionDispatch for TLC: one activation, an entry and  *)
(* the cancel of it.                                                       *)
(***************************************************************************)
EXTENDS ExecutionDispatch, TLC

CONSTANTS p1, e1, c1

CancelOwner  == (e1 :> p1) @@ (c1 :> p1)
CancelKind   == (e1 :> "ENTRY") @@ (c1 :> "CANCEL")
CancelTarget == (e1 :> e1) @@ (c1 :> e1)
================================================================================
