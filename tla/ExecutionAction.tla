---------------------------- MODULE ExecutionAction ----------------------------
(***************************************************************************)
(* The responsibility states of one ExecutionAction, the closed transition *)
(* table every update goes through, and the classes of states the queries  *)
(* of the action repository select.  No variables: a vocabulary shared by  *)
(* the modules that describe how actions move.                             *)
(***************************************************************************)

ActionStates ==
  {"READY", "SUBMITTING", "UNKNOWN", "OPEN",
   "NOT_SUBMITTED", "CLOSED", "HANDED_OVER"}

AllowedTransitions ==
  [ s \in ActionStates |->
      CASE s = "READY"      -> {"NOT_SUBMITTED", "SUBMITTING", "HANDED_OVER"}
        [] s = "SUBMITTING" -> {"NOT_SUBMITTED", "UNKNOWN", "OPEN", "HANDED_OVER"}
        [] s = "UNKNOWN"    -> {"NOT_SUBMITTED", "OPEN", "HANDED_OVER"}
        [] s = "OPEN"       -> {"CLOSED"}
        [] OTHER            -> {} ]

\* The action kinds, and the one that increases risk.
ActionKinds ==
  {"ENTRY", "CANCEL", "PROTECTION", "TAKE_PROFIT", "RISK_REDUCTION", "EXIT"}

\* A call may have happened and no venue fact says so yet.
Unresolved == {"SUBMITTING", "UNKNOWN"}

\* Called and not closed: the states whose original identity may be queried.
CalledOpen == Unresolved \cup {"OPEN"}

\* States with no way out.
Terminal == {"NOT_SUBMITTED", "CLOSED", "HANDED_OVER"}

\* States whose responsibility a user takeover hands over.
HandOver == Unresolved \cup {"READY"}

================================================================================
