----------------------------- MODULE DirectSchedule -----------------------------
(***************************************************************************)
(* How the Executor works through the order schedule of one direct         *)
(* activation: one leg at a time, each leg in one or more attempts.        *)
(*                                                                         *)
(* _advance is one coroutine per activation.  Between two awaits it runs   *)
(* alone, but at an await (account facts, risk facts) everything else      *)
(* moves: order events are recorded, fills get their protection, reducers  *)
(* trade, the owner pauses.  It takes one snapshot of the activation when  *)
(* it begins and never reads it again; what it decides from what it read   *)
(* before an await is the subject of this module.                          *)
(*                                                                         *)
(* The owner, and an EXIT under way, may stop the schedule at any moment:   *)
(* wherever the code reads the lifecycle, the run state or the exit, the   *)
(* run here may end, or the call be blocked (ActivationControl has them).  *)
(*                                                                         *)
(* A record c is what one run of _advance carries in its local variables.  *)
(***************************************************************************)
EXTENDS Integers, FiniteSets, FiniteSetsExt, EntryMarket

CONSTANTS
  Programs,    \* the kinds of schedule an activation may have been given
  LegCount,    \* legs of a ladder and of a sliced schedule; a repriced one has 1
  Lot,         \* Lot[p]: quantity of one attempt of schedule p, in fills
  MaxRetries,  \* MaxRetries[p]: ENTRY_POLICY_RETRY_MAX_ATTEMPTS for schedule p
  MaxReprices  \* max_adjustments of the reprice rule

ASSUME ProgramsAssumption == Programs \subseteq {"LADDER", "SLICED", "REPRICED"}
ASSUME BoundsAssumption ==
  /\ LegCount \in Nat \ {0}
  /\ Lot \in [Programs -> Nat \ {0}]
  /\ MaxRetries \in [Programs -> Nat]
  /\ MaxReprices \in Nat

Legs == 1..LegCount
Tries == 0..(Max({MaxRetries[p] : p \in Programs} \cup {0}) + MaxReprices)
Attempts == Legs \X Tries

VARIABLES
  program,   \* kind of the frozen schedule
  consumed,  \* entry_opportunity_consumed
  state,     \* ENTRY action of an attempt, ABSENT before the row exists
  why,       \* retry_reason of an attempt
  term,      \* terminal order state recorded for an attempt
  counted,   \* greatest quantity a recorded terminal report says was filled
  filled,    \* fills recorded for an attempt
  taken,     \* fills of an attempt recorded in the activation's rule state
  covered,   \* fills of an attempt whose protection works or has filled
  cancel,    \* CANCEL action of an attempt
  cause,     \* reason code of that cancel
  reduced,   \* reduction fills recorded
  released,  \* clock: legs whose release time has come
  expired,   \* clock: the entry window, its wait or the time exit is over
  sliceDue,  \* clock: the wait of the slice called last is over
  adv,       \* process: the run of _advance in progress
  forced,    \* process: _forced_risk_refreshes holds the activation
  cache,     \* process: position of the cached risk facts
  venue,     \* external: the order of an attempt at the venue
  traded,    \* external: what that order has traded
  sold       \* external: what protections and reducers have traded

activation == <<program, consumed>>
actions    == <<state, why, term, counted, filled, cancel, cause>>
protection == <<taken, covered, reduced>>
clock      == <<released, expired, sliceDue>>
process    == <<adv, forced, cache>>
external   == <<venue, traded, sold>>
vars == <<activation, actions, protection, clock, process, external>>

(***************************************************************************)
(* What the ledger says.                                                   *)
(***************************************************************************)

None == -1

\* The legs of this activation's schedule, in submission order.
ScheduleLegs == IF program = "REPRICED" THEN {1} ELSE Legs

Total(f) == MapThenSumSet(LAMBDA a : f[a], Attempts)

\* has_entry_fill: the activation knows of a fill once its protection has been
\* created, later than the fill is recorded.
HasEntryFill == \E a \in Attempts : taken[a] > 0

\* _risk_summary: the position the recorded fills add up to.
Expected == Total(filled) - reduced

\* The position of the account.
Position == Total(traded) - sold

\* What an attribution is built from.
Ledger == <<Total(filled), reduced>>

\* _has_unprotected_open_entry_fill.
Unprotected == \E a \in Attempts : covered[a] < filled[a]

(***************************************************************************)
(* What the rows of the schedule say.  s is the function of states after   *)
(* what the same handler has already written.                              *)
(***************************************************************************)

Exists(s) == {a \in Attempts : s[a] # "ABSENT"}

\* Faulty: an order whose outcome is unknown is not alive.
ActiveIfOpen(s) == {a \in Attempts : s[a] = "OPEN"}

\* SUBMITTING is left before the handler that enters it returns.
Active(s) == {a \in Attempts : s[a] \in {"SUBMITTING", "UNKNOWN", "OPEN"}}

\* _latest_schedule_actions_by_leg.
Latest(s, l) == <<l, Max({n \in Tries : s[<<l, n>>] # "ABSENT"})>>
Next1(a) == <<a[1], a[2] + 1>>

Retries(s)  == Cardinality({a \in Exists(s) : why[a] = "RETRY"})
Reprices(s) == Cardinality({a \in Exists(s) : why[a] = "REPRICE"})

\* terminal_fills_complete: the recorded fills add up to the greatest quantity a
\* terminal report has named, which may be less than the order has traded.
FillsComplete(a) == term[a] # "NONE" /\ filled[a] = counted[a]

\* venue_rejection_disposition: rejected for a reason the policy expects, with
\* no fill.
Retryable(a) == term[a] = "RETRYABLE" /\ FillsComplete(a) /\ filled[a] = 0

\* The order was cancelled for a new price, ended and filled nothing that the
\* ledger knows of.
RepriceProven(a) ==
  /\ cancel[a] = "CLOSED"
  /\ cause[a] = "REPRICE"
  /\ term[a] = "CANCELLED"
  /\ FillsComplete(a) /\ filled[a] = 0

\* _closed_reprice_cancel_for_entry.
RepriceCancelled(s, a) == s[a] = "CLOSED" /\ RepriceProven(a)

\* The open entry that has no cancel yet, at most one.
Cancellable(s) == {a \in Active(s) : s[a] = "OPEN" /\ cancel[a] = "NONE"}

\* reject_execution_action_before_submission for every READY leg.
Dropped(s) == [a \in Attempts |-> IF s[a] = "READY" THEN "NOT_SUBMITTED" ELSE s[a]]

\* reconcile_retryable_entry_rejection for every rejection that can be retried.
RejectionsClosed(s) ==
  [a \in Attempts |-> IF s[a] = "OPEN" /\ Retryable(a) THEN "CLOSED" ELSE s[a]]

\* _has_terminal_open_entry.
TerminalOpen(s) == \E a \in Attempts : s[a] = "OPEN" /\ term[a] # "NONE"

\* _close_proven_entry_actions: the fills the terminal reports name are recorded
\* and covered, and the position read equals the one the ledger expects.
ProvenClosed(s, facts) ==
  [a \in Attempts |->
     IF /\ s[a] = "OPEN"
        /\ FillsComplete(a)
        /\ covered[a] = filled[a]
        /\ facts = Expected
     THEN "CLOSED" ELSE s[a]]

(***************************************************************************)
(* _entry_management_decision: what is to be done with the entries that    *)
(* are left, before any new one is thought of.  inv is the evaluation of   *)
(* the invalidation rules, moved says the aligned price has moved.         *)
(***************************************************************************)

\* Reasons after which no leg of the schedule is called any more.
Final == {"CYCLE_CLOSED", "EXPIRED", "TRIGGERED"}

\* An earlier cancel was caused by a trigger.
TriggerSeen == \E a \in Attempts : cause[a] = "TRIGGERED"

\* _entry_reprice_management_decision.
RepriceDue(s, moved) ==
  /\ program = "REPRICED"
  /\ moved
  /\ \E a \in Cancellable(s) : filled[a] = 0
  /\ Reprices(s) < MaxReprices

SliceExpired(s) == program = "SLICED" /\ sliceDue /\ Active(s) # {}

\* Faulty: a market that can be judged goes before the protection.
ReasonWithoutProof(s, c, inv, moved) ==
  IF c.closed THEN "CYCLE_CLOSED"
  ELSE IF SliceExpired(s) THEN "SLICE_EXPIRED"
  ELSE IF expired THEN "EXPIRED"
  ELSE IF c.unknown THEN "CYCLE_UNKNOWN"
  ELSE IF inv = "FALSE" THEN IF RepriceDue(s, moved) THEN "REPRICE" ELSE "NONE"
  ELSE IF TriggerSeen \/ inv = "TRUE" THEN "TRIGGERED"
  ELSE "INVALIDATION_UNKNOWN"

Reason(s, c, inv, moved) ==
  IF c.closed THEN "CYCLE_CLOSED"
  ELSE IF SliceExpired(s) THEN "SLICE_EXPIRED"
  ELSE IF expired THEN "EXPIRED"
  ELSE IF c.unknown THEN "CYCLE_UNKNOWN"
  ELSE IF Unprotected THEN "UNPROTECTED"
  ELSE IF inv = "FALSE" THEN IF RepriceDue(s, moved) THEN "REPRICE" ELSE "NONE"
  ELSE IF TriggerSeen \/ inv = "TRUE" THEN "TRIGGERED"
  ELSE "INVALIDATION_UNKNOWN"

\* The conclusions a reading of the market may lead to.  The conditions of a
\* ladder are joined by ALL and its orders are post-only, those of the others are
\* joined by ANY.
Judgements ==
  [p \in Programs |->
     {Judgement(IF p = "LADDER" THEN "ALL" ELSE "ANY", p = "REPRICED", p = "LADDER", f) :
        f \in MarketFacts}]

Idle ==
  [step |-> "IDLE", read |-> FALSE, ledger |-> <<0, 0>>,
   target |-> <<0, 0>>, reason |-> "NONE", fill |-> FALSE,
   consumed |-> FALSE, forced |-> FALSE, facts |-> None, account |-> FALSE,
   seen |-> FALSE, closed |-> FALSE, unknown |-> FALSE]

\* The one snapshot of the activation a run of _advance decides from.
Snapshot == [Idle EXCEPT !.fill = HasEntryFill, !.consumed = consumed, !.forced = forced]

Await(step, c) == [c EXCEPT !.step = step, !.ledger = Ledger]

\* _risk_facts_for_activation may use the facts it has, unless they are older
\* than RISK_FACT_REFRESH_SECONDS: then it reads them anew.
Cached(c) == ~c.forced /\ cache # None

\* The run ends, with the rows as s and the activation as it is.
Return(s) ==
  /\ state' = s
  /\ adv' = Idle
  /\ UNCHANGED <<consumed, why, cancel, cause, sliceDue, venue>>

\* What later decisions tell apart in a cancel's reason_ref.
CauseOf(reason) ==
  IF reason \in {"REPRICE", "SLICE_EXPIRED", "TRIGGERED"} THEN reason ELSE "OTHER"

\* create_cancel_for_action, and the one call of the new cancel.
SendCancel(s, a, reason) ==
  /\ \E result \in {"OPEN", "FAILED"} : cancel' = [cancel EXCEPT ![a] = result]
  /\ cause' = [cause EXCEPT ![a] = CauseOf(reason)]
  /\ state' = s
  /\ adv' = Idle
  /\ UNCHANGED <<why, sliceDue, venue>>

\* The opportunity of an activation without a fill goes with its window or its
\* market: expire_remaining_entry_opportunity, expire_empty_entry_window,
\* invalidate_empty_entry_opportunity.
ConsumedBy(c, reason, inv) ==
  \/ consumed
  \/ /\ ~c.consumed /\ ~c.fill
     /\ reason = "EXPIRED" \/ (reason = "TRIGGERED" /\ inv = "TRUE")

\* _apply_entry_management for a decision that has a reason.
Apply(s, c, reason, inv) ==
  LET dropped == IF reason \in Final THEN Dropped(s) ELSE s IN
  /\ consumed' = ConsumedBy(c, reason, inv)
  /\ IF Cancellable(s) = {}
     THEN /\ state' = dropped
          /\ adv' = Idle
          /\ UNCHANGED <<why, cancel, cause, sliceDue, venue>>
     ELSE \E a \in Cancellable(s) :
            \/ /\ c.facts # None \/ Cached(c)
               /\ SendCancel(dropped, a, reason)
            \/ /\ c.facts = None
               /\ state' = dropped
               /\ adv' \in {Await("CANCEL_RISK", [c EXCEPT !.target = a, !.reason = CauseOf(reason)]),
                            Idle}
               /\ UNCHANGED <<why, cancel, cause, sliceDue, venue>>

(***************************************************************************)
(* The leg that is called next: the first one whose latest attempt is      *)
(* READY or may have a successor.                                          *)
(***************************************************************************)

Wanted(s, l) ==
  LET a == Latest(s, l) IN s[a] = "READY" \/ Retryable(a) \/ RepriceCancelled(s, a)

\* The attempt to call for leg l, if its time has come and its bound allows it.
Target(s, l) ==
  LET a == Latest(s, l) IN
  IF s[a] = "READY" THEN {t \in {a} : l <= released}
  ELSE IF Retryable(a) THEN {t \in {Next1(a)} : Retries(s) < MaxRetries[program]}
  ELSE {t \in {Next1(a)} : Reprices(s) < MaxReprices}

Targets(s) ==
  LET wanted == {l \in ScheduleLegs : Wanted(s, l)} IN
  IF wanted = {} THEN {} ELSE Target(s, Min(wanted))

\* Faulty: a retry or a replacement is formed whatever became of the first try.
SuccessorAlways(s, t) == TRUE

Before(t) == <<t[1], t[2] - 1>>

\* consume_order_schedule_retry: the leg's latest attempt was rejected for a
\* reason the policy expects, traded nothing and is closed, and the activation
\* may still take new risk.
RetryAllowed(s, t) ==
  /\ ~consumed /\ ~expired
  /\ s[Before(t)] = "CLOSED"
  /\ Retryable(Before(t))

\* consume_order_schedule_reprice: the latest attempt was cancelled for the new
\* price, traded nothing and is closed.
RepriceAllowed(s, t) ==
  /\ ~consumed /\ ~expired
  /\ s[Before(t)] = "CLOSED"
  /\ RepriceProven(Before(t))

SuccessorAllowed(s, t) == RetryAllowed(s, t) \/ RepriceAllowed(s, t)

\* Why the attempt t of a leg exists.
ReasonOf(t) == IF Retryable(Before(t)) THEN "RETRY" ELSE "REPRICE"

\* process_execution_action for attempt t, with s the rows before it: blocked by
\* the activation, refused by CAP or by the venue client, called, or called with
\* an unknown outcome that may or may not have reached the venue.
CallAttempt(s, t) ==
  /\ adv' = Idle
  /\ \/ /\ state' = [s EXCEPT ![t] = "READY"]
        /\ UNCHANGED <<venue, sliceDue>>
     \/ /\ state' = [s EXCEPT ![t] = "NOT_SUBMITTED"]
        /\ UNCHANGED <<venue, sliceDue>>
     \/ /\ state' = [s EXCEPT ![t] = "OPEN"]
        /\ venue' = [venue EXCEPT ![t] = "LIVE"]
        /\ sliceDue' = FALSE
     \/ /\ state' = [s EXCEPT ![t] = "UNKNOWN"]
        /\ venue' \in {venue, [venue EXCEPT ![t] = "LIVE"]}
        /\ sliceDue' = FALSE

CallTarget(s, t) ==
  \/ /\ s[t] = "READY"
     /\ CallAttempt(s, t)
     /\ UNCHANGED <<consumed, why, cancel, cause>>
  \/ /\ s[t] = "ABSENT"
     /\ SuccessorAllowed(s, t)
     /\ why' = [why EXCEPT ![t] = ReasonOf(t)]
     /\ CallAttempt(s, t)
     /\ UNCHANGED <<consumed, cancel, cause>>

\* What is read again after the account facts: no entry may be alive, the target
\* must still be what it was, and no first reduction may have arrived.
StillWanted(s, c, t) ==
  /\ Active(s) = {}
  /\ t[1] <= released
  /\ t \in Target(s, t[1])
  /\ c.seen \/ reduced = 0

\* _action_check_for_leg and _gtd_expiry_too_soon: what the account facts say of
\* the leg at the price of the moment.
Checks == {"ACCEPTED", "QUANTITY_REJECTED", "GTD_TOO_SOON"}

\* The leg takes the place of one that was cancelled for a new price.
Replaces(s, t) == s[t] = "ABSENT" /\ ~Retryable(Before(t))

\* The conditions hold, the order would not take, and a replacement has the price
\* it was formed for.
MarketAllows(s, t, j) ==
  /\ j.enter
  /\ ~j.blocked
  /\ Replaces(s, t) => j.moved

\* Nothing is left to manage and the market allows the leg: it is checked and
\* called.
Submit(s, t) ==
  \E check \in Checks :
    CASE check = "ACCEPTED" -> CallTarget(s, t) \/ Return(s)   \* CAP refuses
      [] check = "QUANTITY_REJECTED" -> Return(s)
      [] check = "GTD_TOO_SOON" -> Return(Dropped(s))

\* From the account facts to the call.  The decision is made once more from the
\* rows and the market as they are now, but with the activation snapshot and the
\* judgement of the cycle from before the await.
Recheck(s, c, t) ==
  IF ~StillWanted(s, c, t) THEN Return(s)
  ELSE \E j \in Judgements[program] :
         LET reason == Reason(s, c, j.invalid, j.moved) IN
         IF reason # "NONE" THEN Apply(s, c, reason, j.invalid)
         ELSE IF MarketAllows(s, t, j) THEN Submit(s, t)
         ELSE Return(s)

\* _completed_time_slice_expiry_at: the last slice was cancelled by its expiry.
SlicesCompleted(s) ==
  LET last == Latest(s, LegCount) IN
  /\ program = "SLICED"
  /\ cancel[last] = "CLOSED" /\ cause[last] = "SLICE_EXPIRED"

\* _fact_retry_ready: account facts that failed are read again after a while, at
\* once when a fill has forced it.
BacksOff(c) == ~c.forced

\* The account is read for leg t if the conditions hold before the read as well.
ReadAccount(s, c, t, j) ==
  IF ~j.enter \/ (Replaces(s, t) /\ ~j.moved) THEN Return(s)
  ELSE \/ Return(s)   \* the leg's account facts back off
       \/ /\ state' = s
          /\ adv' = Await("NEXT", [c EXCEPT !.target = t])
          /\ UNCHANGED <<consumed, why, cancel, cause, sliceDue, venue>>

\* Nothing is left to manage: find the next leg and read the account for it.
NextLeg(s, c, j) ==
  IF c.consumed \/ Active(s) # {} THEN Return(s)
  ELSE IF \E l \in ScheduleLegs : Wanted(s, l)
  THEN IF Targets(s) = {} THEN Return(s)
       ELSE \E t \in Targets(s) :
              IF c.account THEN Recheck(s, c, t) ELSE ReadAccount(s, c, t, j)
  ELSE /\ consumed' = (consumed \/ SlicesCompleted(s))
       /\ state' = s
       /\ adv' = Idle
       /\ UNCHANGED <<why, cancel, cause, sliceDue, venue>>

Manage(s, c) ==
  \E j \in Judgements[program] :
    LET reason == Reason(s, c, j.invalid, j.moved) IN
    IF reason = "NONE" THEN NextLeg(s, c, j) ELSE Apply(s, c, reason, j.invalid)

\* A cycle with a fill and a reduction is over when the position is zero.
Judged(c) ==
  [c EXCEPT !.seen = TRUE, !.closed = (c.facts = 0), !.unknown = (c.facts = None)]

\* From the closing of proven entries to the decision.
JudgeCycle(s, c) ==
  IF ~(c.fill /\ reduced > 0) THEN Manage(s, c)
  ELSE IF c.facts # None THEN Manage(s, Judged(c))
  ELSE \/ Cached(c) /\ Manage(s, Judged([c EXCEPT !.facts = cache]))
       \/ BacksOff(c) /\ Manage(s, Judged(c))
       \/ /\ state' = s
          /\ adv' = Await("CYCLE_RISK", c)
          /\ UNCHANGED <<consumed, why, cancel, cause, sliceDue, venue>>

(***************************************************************************)
(* The steps of _advance: from its beginning or from the end of an await   *)
(* to the next await or its end.                                           *)
(***************************************************************************)

Risk == {"CLOSE_RISK", "CYCLE_RISK", "CANCEL_RISK"}

\* The risk facts are read because the cached ones are too old or may not be used.
Popped == cache' = IF adv'.step \in Risk THEN None ELSE cache

Ready == adv.step = "IDLE"

\* No leg exists yet: the window or the market may be over before it began, and
\* the first leg needs its conditions and the account.
BeginEmpty ==
  /\ Ready
  /\ Exists(state) = {}
  /\ ~consumed
  /\ expired \/ released >= 1
  /\ \E j \in Judgements[program] :
       IF expired \/ j.invalid = "TRUE"
       THEN consumed' = TRUE /\ adv' = Idle
       ELSE /\ j.invalid = "FALSE" /\ j.enter
            /\ adv' = Await("FIRST", Snapshot)
            /\ UNCHANGED consumed
  /\ forced' = FALSE
  /\ UNCHANGED <<program, actions, protection, clock, cache, external>>

\* Some leg exists: close what can be closed, then manage, then call.
BeginManaged ==
  LET s == RejectionsClosed(state) IN
  /\ Ready
  /\ Exists(state) # {}
  /\ IF ~TerminalOpen(s) THEN JudgeCycle(s, Snapshot)
     ELSE \/ /\ Cached(Snapshot)
             /\ JudgeCycle(ProvenClosed(s, cache), [Snapshot EXCEPT !.facts = cache])
          \/ BacksOff(Snapshot) /\ Return(s)
          \/ /\ state' = s
             /\ adv' = Await("CLOSE_RISK", Snapshot)
             /\ UNCHANGED <<consumed, why, cancel, cause, sliceDue, venue>>
  /\ forced' = FALSE
  /\ Popped
  /\ UNCHANGED <<program, term, counted, filled, protection, released, expired, traded, sold>>

\* Faulty: the position at the venue is not compared with the ledger.
ExplainedAlways == TRUE

\* The attribution read before the queries explains the position at the venue.
Explained == Position = adv.ledger[1] - adv.ledger[2]

\* The venue answers the queries.
Answer ==
  /\ adv.step # "IDLE"
  /\ ~adv.read
  /\ Explained
  /\ adv' = [adv EXCEPT !.read = TRUE]
  /\ UNCHANGED <<activation, actions, protection, clock, forced, cache, external>>

\* What _advance keeps from the end of an await on.
Resumed(facts) ==
  [adv EXCEPT !.step = "IDLE", !.read = FALSE, !.ledger = <<0, 0>>, !.facts = facts,
              !.target = <<0, 0>>, !.reason = "NONE"]

Untouched ==
  /\ forced' = forced
  /\ UNCHANGED <<program, term, counted, filled, protection, released, expired, traded, sold>>

\* ACCOUNT_FACT_SUPERSEDED: the ledger moved while the account was read.
Superseded == Ledger # adv.ledger

\* No facts: the queries fail, the position is unexplained, the read is
\* superseded.  Only the judgement of the cycle goes on without them.
NoFacts ==
  /\ adv.step # "IDLE"
  /\ \/ Return(state)
     \/ (adv.step = "CYCLE_RISK" /\ Manage(state, Judged(Resumed(None))))
  /\ Popped
  /\ Untouched

\* The risk facts are here: they are cached, and the run goes on.
RiskFacts ==
  /\ adv.step \in Risk
  /\ adv.read
  /\ ~Superseded
  /\ cache' = Expected
  /\ \/ /\ adv.step = "CLOSE_RISK"
        /\ JudgeCycle(ProvenClosed(state, Expected), Resumed(Expected))
     \/ /\ adv.step = "CYCLE_RISK"
        /\ Manage(state, Judged(Resumed(Expected)))
     \/ /\ adv.step = "CANCEL_RISK"
        /\ SendCancel(state, adv.target, adv.reason)
        /\ UNCHANGED consumed
  /\ Untouched

\* consume_order_schedule_atomic: all legs get their first attempt, or none.
\* CAP is asked for every leg, the run state is not looked at again.
Materialized ==
  [a \in Attempts |-> IF a[1] \in ScheduleLegs /\ a[2] = 0 THEN "READY" ELSE "ABSENT"]

\* The account facts of the first leg are here.
FirstFacts ==
  /\ adv.step = "FIRST"
  /\ adv.read
  /\ \E j \in Judgements[program], check \in Checks :
       IF j.enter /\ ~j.blocked /\ check = "ACCEPTED"
       THEN \/ Manage(Materialized, [Resumed(None) EXCEPT !.account = TRUE])
            \/ Return(state)   \* CAP refuses a leg
       ELSE Return(state)
  /\ Popped
  /\ Untouched

\* The account facts of a later leg are here.
NextFacts ==
  /\ adv.step = "NEXT"
  /\ adv.read
  /\ Recheck(state, Resumed(adv.facts), adv.target)
  /\ Popped
  /\ Untouched

(***************************************************************************)
(* Everything else that moves.                                             *)
(***************************************************************************)

\* Time passes.
Tick ==
  /\ \/ /\ released < LegCount
        /\ released' = released + 1
        /\ UNCHANGED <<expired, sliceDue>>
     \/ /\ ~expired
        /\ expired' = TRUE
        /\ UNCHANGED <<released, sliceDue>>
     \/ /\ program = "SLICED" /\ ~sliceDue /\ Active(state) # {}
        /\ sliceDue' = TRUE
        /\ UNCHANGED <<released, expired>>
  /\ UNCHANGED <<activation, actions, protection, process, external>>

\* The Executor dies and comes back.
Restart ==
  /\ adv' = Idle
  /\ forced' = FALSE
  /\ cache' = None
  /\ UNCHANGED <<activation, actions, protection, clock, external>>

\* An order event is recorded: the action is known to be at the venue.
Recognised(a) == [state EXCEPT ![a] = IF @ = "UNKNOWN" THEN "OPEN" ELSE @]

RecordFill(a) ==
  /\ filled[a] < traded[a]
  /\ filled' = [filled EXCEPT ![a] = @ + 1]
  /\ state' = Recognised(a)
  /\ forced' = TRUE
  /\ UNCHANGED <<activation, why, term, counted, cancel, cause, protection, clock, adv, cache, external>>

\* What a terminal report of the order may name as filled: a report of a
\* cancelled or expired order may be older than its last fills.
Reported(a) ==
  IF venue[a] = "CANCELLED" THEN 0..traded[a] ELSE {traded[a]}

\* A terminal order state is recorded, the first one or one that names more; it
\* closes the cancel that waits for it.
RecordTerminal(a) ==
  /\ venue[a] \notin {"NONE", "LIVE"}
  /\ \E q \in Reported(a) :
       /\ term[a] = "NONE" \/ q > counted[a]
       /\ counted' = [counted EXCEPT ![a] = q]
  /\ term' = [term EXCEPT ![a] = venue[a]]
  /\ state' = Recognised(a)
  /\ cancel' = [cancel EXCEPT ![a] = IF @ = "OPEN" THEN "CLOSED" ELSE @]
  /\ UNCHANGED <<activation, why, filled, cause, protection, clock, process, external>>

\* A cancel sent after the terminal state was recorded is closed by the sync of
\* the responsibilities.
CancelClosed(a) ==
  /\ cancel[a] = "OPEN"
  /\ term[a] # "NONE"
  /\ cancel' = [cancel EXCEPT ![a] = "CLOSED"]
  /\ UNCHANGED <<activation, state, why, term, counted, filled, cause, protection, clock, process, external>>

\* The query of an UNKNOWN call finds the order, or proves there is none.
QueryUnknown(a) ==
  /\ state[a] = "UNKNOWN"
  /\ state' = [state EXCEPT ![a] = IF venue[a] = "NONE" THEN "NOT_SUBMITTED" ELSE "OPEN"]
  /\ UNCHANGED <<activation, why, term, counted, filled, cancel, cause, protection, clock, process, external>>

\* record_direct_fill: the opportunity is consumed when as many attempts as there
\* are legs have a fill.
ConsumedByLegs(f) ==
  \/ consumed
  \/ Cardinality({a \in Attempts : f[a] > 0}) >= Cardinality(ScheduleLegs)

\* create_protection_for_fill: the fill enters the activation's rule state.
Protect(a) ==
  /\ taken[a] < filled[a]
  /\ taken' = [taken EXCEPT ![a] = @ + 1]
  /\ consumed' = ConsumedByLegs(taken')
  /\ UNCHANGED <<program, actions, covered, reduced, clock, process, external>>

\* A protection starts to work, or stops before it has filled.
ProtectionMoves(a) ==
  /\ \/ covered[a] < taken[a] /\ covered' = [covered EXCEPT ![a] = @ + 1]
     \/ covered[a] > 0 /\ covered' = [covered EXCEPT ![a] = @ - 1]
  /\ UNCHANGED <<activation, actions, taken, reduced, clock, process, external>>

\* A fill of a protection or of another reducer is recorded.
RecordReduction ==
  /\ reduced < sold
  /\ reduced' = reduced + 1
  /\ forced' = TRUE
  /\ UNCHANGED <<activation, actions, taken, covered, clock, adv, cache, external>>

\* A call with an unknown outcome reaches the venue after all.
Arrive(a) ==
  /\ state[a] = "UNKNOWN" /\ venue[a] = "NONE"
  /\ venue' = [venue EXCEPT ![a] = "LIVE"]
  /\ UNCHANGED <<activation, actions, protection, clock, process, traded, sold>>

Trade(a) ==
  /\ venue[a] = "LIVE" /\ traded[a] < Lot[program]
  /\ traded' = [traded EXCEPT ![a] = @ + 1]
  /\ venue' = [venue EXCEPT ![a] = IF traded[a] + 1 = Lot[program] THEN "FILLED" ELSE "LIVE"]
  /\ UNCHANGED <<activation, actions, protection, clock, process, sold>>

\* The order ends without a full fill: rejected, cancelled or expired.
End(a) ==
  /\ venue[a] = "LIVE"
  /\ \E kind \in {"REJECTED", "RETRYABLE", "CANCELLED"} :
       /\ kind # "CANCELLED" => traded[a] = 0
       /\ venue' = [venue EXCEPT ![a] = kind]
  /\ UNCHANGED <<activation, actions, protection, clock, process, traded, sold>>

\* A protection or another reducer trades.
Sell ==
  /\ Position > 0 /\ sold < Total(taken)
  /\ sold' = sold + 1
  /\ UNCHANGED <<activation, actions, protection, clock, process, venue, traded>>

Init ==
  /\ program \in Programs
  /\ consumed = FALSE
  /\ state = [a \in Attempts |-> "ABSENT"]
  /\ why = [a \in Attempts |-> "FIRST"]
  /\ term = [a \in Attempts |-> "NONE"]
  /\ counted = [a \in Attempts |-> 0]
  /\ filled = [a \in Attempts |-> 0]
  /\ taken = [a \in Attempts |-> 0]
  /\ covered = [a \in Attempts |-> 0]
  /\ cancel = [a \in Attempts |-> "NONE"]
  /\ cause = [a \in Attempts |-> "NONE"]
  /\ reduced = 0
  /\ released = IF program = "SLICED" THEN 0 ELSE LegCount
  /\ expired = FALSE /\ sliceDue = FALSE
  /\ adv = Idle /\ forced = FALSE /\ cache = None
  /\ venue = [a \in Attempts |-> "NONE"]
  /\ traded = [a \in Attempts |-> 0]
  /\ sold = 0

Scheduler == BeginEmpty \/ BeginManaged \/ Answer \/ NoFacts \/ RiskFacts \/ FirstFacts \/ NextFacts

Records(a) ==
  RecordFill(a) \/ RecordTerminal(a) \/ CancelClosed(a) \/ QueryUnknown(a) \/ Protect(a)

Next ==
  \/ Scheduler
  \/ Tick \/ Restart
  \/ \E a \in Attempts : Records(a) \/ ProtectionMoves(a) \/ Arrive(a) \/ Trade(a) \/ End(a)
  \/ RecordReduction \/ Sell

Spec == Init /\ [][Next]_vars

(***************************************************************************)
(* Properties.                                                             *)
(***************************************************************************)

AttemptStates == {"ABSENT", "READY", "UNKNOWN", "OPEN", "CLOSED", "NOT_SUBMITTED"}
Ends == {"REJECTED", "RETRYABLE", "CANCELLED", "FILLED"}

\* Every variable has its type.
TypeOK ==
  /\ program \in Programs
  /\ {consumed, expired, sliceDue, forced} \subseteq BOOLEAN
  /\ state \in [Attempts -> AttemptStates]
  /\ why \in [Attempts -> {"FIRST", "RETRY", "REPRICE"}]
  /\ term \in [Attempts -> Ends \cup {"NONE"}]
  /\ {counted, filled, taken, covered, traded} \subseteq [Attempts -> 0..Lot[program]]
  /\ cancel \in [Attempts -> {"NONE", "OPEN", "CLOSED", "FAILED"}]
  /\ cause \in [Attempts -> {"NONE", "REPRICE", "SLICE_EXPIRED", "TRIGGERED", "OTHER"}]
  /\ venue \in [Attempts -> Ends \cup {"NONE", "LIVE"}]
  /\ {reduced, sold, released} \subseteq Nat

\* An order of an attempt may trade now or once an unknown call arrives.
MayTrade(a) == venue[a] = "LIVE" \/ (state[a] = "UNKNOWN" /\ venue[a] = "NONE")

\* One leg at a time: no two attempts of the schedule may trade at the same
\* moment, whatever was in flight when the second one was called.
OneAttemptMayTrade ==
  \A a, b \in Attempts : MayTrade(a) /\ MayTrade(b) => a = b

\* A retry or a replacement never doubles a leg: of all attempts of a leg at most
\* one has traded, although fills and ends are reported late and in any order.
OneTradedAttemptPerLeg ==
  \A a, b \in Attempts : traded[a] > 0 /\ traded[b] > 0 /\ a[1] = b[1] => a = b

Called(a) == state[a] \in {"ABSENT", "READY"} /\ state'[a] \in {"UNKNOWN", "OPEN"}

\* No leg is called while a recorded fill of the schedule lacks its protection or
\* after the opportunity is consumed, however old the snapshot that called it.
CalledUnderProtection ==
  [][\A a \in Attempts : Called(a) => ~Unprotected /\ ~consumed]_vars

\* No leg is called while a fill of an earlier attempt is missing from the ledger,
\* although the terminal report that closed that attempt may have named less than
\* it traded: the account read before the call finds the difference.  Only a
\* reduction that trades and is not recorded when the ledger is read, a position
\* that is smaller for another reason, can hide it.
CalledOnFullLedger ==
  [][\A a \in Attempts :
       Called(a) => \/ \A b \in Attempts : filled[b] = traded[b]
                    \/ sold > adv.ledger[2]]_vars
=============================================================================
