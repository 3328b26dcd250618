------------------------------ MODULE EntryMarket ------------------------------
(***************************************************************************)
(* What a direct activation knows of the market at one moment, and what it *)
(* concludes from it.                                                      *)
(*                                                                         *)
(* The adapter keeps the latest quote and mark of the stream and the last  *)
(* closed bar of 15 minutes (LiveEntryFactTracker), and a window of marks  *)
(* (DirectPriceMoveTracker).  A fact that is too old or incomplete is      *)
(* MISSING, and nothing is ever invented for a missing one: a condition    *)
(* about it is UNKNOWN.  Prices are told apart only by what the rules of   *)
(* an activation ask of them.                                              *)
(***************************************************************************)

Truth == {"TRUE", "FALSE", "UNKNOWN"}

\* direct_condition_facts: a quote, a mark or a closed bar is used while it is
\* young and its stamps are in order.
StreamFacts == {"BOOK", "MARK", "BAR"}

\* DirectPriceMoveTracker.observations: the move over a window needs a mark from
\* before the window, no gap in it and a young latest mark.
Observed(age, contiguous, ages) == contiguous /\ age \in ages

\* _condition_facts: what is known.  Management of what is left accepts an older
\* latest mark than a new entry does.
Known(stream, age, contiguous) ==
  stream
  \cup (IF Observed(age, contiguous, {"YOUNG"}) THEN {"ENTRY_MOVE"} ELSE {})
  \cup (IF Observed(age, contiguous, {"YOUNG", "OLDER"}) THEN {"MOVE"} ELSE {})

\* moved, crossed and tight: the reprice rule wants another price than the order
\* has, a post-only order would take, the spread condition holds.
MarketFacts ==
  {[known |-> Known(stream, age, contiguous), moved |-> moved, crossed |-> crossed,
    tight |-> tight, mark |-> mark, above |-> above, adverse |-> adverse] :
     stream \in SUBSET StreamFacts,
     age \in {"YOUNG", "OLDER", "OLD"}, contiguous \in BOOLEAN,
     moved \in BOOLEAN, crossed \in BOOLEAN, tight \in BOOLEAN,
     mark \in {"INSIDE", "INVALID", "MISSED"}, above \in BOOLEAN, adverse \in BOOLEAN}

\* evaluate_condition: a condition about a fact that is missing is UNKNOWN.
Evaluate(f, fact, satisfied) ==
  IF fact \notin f.known THEN "UNKNOWN" ELSE IF satisfied THEN "TRUE" ELSE "FALSE"

\* evaluate_condition_group: ALL and ANY of Kleene's logic.
All(results) ==
  IF "FALSE" \in results THEN "FALSE"
  ELSE IF "UNKNOWN" \in results THEN "UNKNOWN" ELSE "TRUE"
Any(results) ==
  IF "TRUE" \in results THEN "TRUE"
  ELSE IF "UNKNOWN" \in results THEN "UNKNOWN" ELSE "FALSE"

\* The entry conditions of a plan: on the spread, the closed bar and the move.
EntryConditions(operator, f) ==
  LET results == {Evaluate(f, "BOOK", f.tight), Evaluate(f, "BAR", f.above),
                  Evaluate(f, "ENTRY_MOVE", ~f.adverse)} IN
  IF operator = "ALL" THEN All(results) ELSE Any(results)

\* _entry_invalidation_evaluation: one rule that holds is enough, and one that
\* cannot be judged leaves the answer open.
Invalidation(f) ==
  Any({Evaluate(f, "MARK", f.mark = "INVALID"), Evaluate(f, "MARK", f.mark = "MISSED"),
       Evaluate(f, "MOVE", f.adverse)})

\* _aligned_reprice_target: the book asks for another price than the order has.
AlignedTarget(f) == "BOOK" \in f.known /\ f.moved

\* _post_only_submission_block_reason.
PostOnlyBlocked(f) == "BOOK" \notin f.known \/ f.crossed

\* What _advance concludes from one reading of the facts: operator joins the entry
\* conditions, and a plan need not have a reprice rule or be post-only.
Judgement(operator, repriced, postOnly, f) ==
  [invalid |-> Invalidation(f),
   moved   |-> repriced /\ AlignedTarget(f),
   enter   |-> EntryConditions(operator, f) = "TRUE",
   blocked |-> postOnly /\ PostOnlyBlocked(f)]
=============================================================================
