----------------------------- MODULE MCAccountStop -----------------------------
(***************************************************************************)
(* Instances of AccountStop for TLC.                                       *)
(***************************************************************************)
EXTENDS AccountStop, TLC

CONSTANTS p1, r1, r2, k1

\* A request and its retry under the same idempotency key.
RetryKey == (r1 :> k1) @@ (r2 :> k1)

\* One request.
OneKey == r1 :> k1

\* A request and its retry are told apart by nothing.
RetrySymmetry == Permutations(Requests)
================================================================================
