-------------------------- MODULE MCActivationControl --------------------------
(***************************************************************************)
(* One activation; the constants are given in the configuration.           *)
(***************************************************************************)
EXTENDS ActivationControl

================================================================================
