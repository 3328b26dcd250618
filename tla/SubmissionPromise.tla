--------------------------- MODULE SubmissionPromise ---------------------------
(***************************************************************************)
(* What EXE promises of an order whatever its handlers do: what Halpha     *)
(* claims about the order, whether it was ever handed to the client, and   *)
(* whether it exists at the venue.                                         *)
(*   - it is handed over at most once, and only after a durable intent;    *)
(*   - the claim "absent" is a proof: the order does not exist and never   *)
(*     will; the claim "known" rests on an existing order;                 *)
(*   - a claim handed over to the user settles nothing: the order may      *)
(*     still appear, unless it was never handed to the client.             *)
(***************************************************************************)
CONSTANT Orders

VARIABLES claim, called, exists

vars == <<claim, called, exists>>

Claims == {"none", "intended", "possible", "absent", "known", "released"}

Init ==
  /\ claim = [o \in Orders |-> "none"]
  /\ called = {}
  /\ exists = {}

Intend(o) ==
  /\ claim[o] = "none"
  /\ claim' = [claim EXCEPT ![o] = "intended"]
  /\ UNCHANGED <<called, exists>>

Attempt(o) ==
  /\ claim[o] = "intended"
  /\ claim' = [claim EXCEPT ![o] = "possible"]
  /\ UNCHANGED <<called, exists>>

Call(o) ==
  /\ claim[o] = "possible"
  /\ o \notin called
  /\ called' = called \cup {o}
  /\ UNCHANGED <<claim, exists>>

Exclude(o) ==
  /\ claim[o] \in {"intended", "possible"}
  /\ o \notin exists
  /\ claim' = [claim EXCEPT ![o] = "absent"]
  /\ UNCHANGED <<called, exists>>

Appear(o) ==
  /\ o \in called \ exists
  /\ claim[o] \in {"possible", "released"}
  /\ exists' = exists \cup {o}
  /\ UNCHANGED <<claim, called>>

Recognise(o) ==
  /\ claim[o] = "possible"
  /\ o \in exists
  /\ claim' = [claim EXCEPT ![o] = "known"]
  /\ UNCHANGED <<called, exists>>

Release(S) ==
  /\ \A o \in S : claim[o] \in {"intended", "possible"}
  /\ claim' = [o \in Orders |-> IF o \in S THEN "released" ELSE claim[o]]
  /\ UNCHANGED <<called, exists>>

Next ==
  \/ \E o \in Orders :
       \/ Intend(o) \/ Attempt(o) \/ Call(o) \/ Exclude(o)
       \/ Appear(o) \/ Recognise(o)
  \/ \E S \in SUBSET Orders : Release(S)

Spec == Init /\ [][Next]_vars

================================================================================
