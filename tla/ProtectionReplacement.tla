------------------------- MODULE ProtectionReplacement -------------------------
(***************************************************************************)
(* How the stop and the take-profit of one entry fill are replaced.        *)
(*                                                                         *)
(* Every further fill of the activation moves the average cost, and with   *)
(* it the price the stops and the take-profits of all its fills are to     *)
(* have (aggregate management); a market that runs into profit tightens    *)
(* the stops step by step (dynamic management).  Both act on the same      *)
(* stops, one after the other in a pass of sync, on what the pass read.    *)
(*                                                                         *)
(* The module follows one fill of a long position until its stop trades or *)
(* an exit is asked for; ExitResponsibility continues from there.  Other   *)
(* fills appear by the target they move.  Prices are small integers, the   *)
(* aggregate target stands for the average it is computed from, and a      *)
(* dynamic step is one unit of risk.                                       *)
(***************************************************************************)
EXTENDS Integers, FiniteSets, Sequences, FiniteSetsExt

CONSTANTS
  Passes,         \* passes of sync that may be under way at a time
  Bases,          \* aggregate targets a fill may lead to
  Fills,          \* bound: entry fills of the activation, this one included
  MaxAdjustments, \* max_adjustments of the dynamic rule
  Lot,            \* quantity of every fill
  Policies,       \* policies of the plan: whether it has a take-profit, and the steps
                  \* of its dynamic rule
  Faults          \* pairs of a failure and of the orders it may happen to

ASSUME BoundsAssumption ==
  /\ Bases \subseteq Nat \ {0} /\ Bases # {}
  /\ {Fills, Lot} \subseteq Nat \ {0}
  /\ MaxAdjustments \in Nat
  /\ Policies \subseteq [ladder : BOOLEAN, steps : Nat]
ASSUME FaultsAssumption ==
  Faults \subseteq {"UNVALUED", "REFUSED", "LOST", "REJECTED", "CROSSED"} \X {"STOP", "REDUCER"}

VARIABLES
  policy,    \* the policy frozen with the activation
  revision,  \* aggregate_revision: fills on record
  base,      \* aggregate_target
  orders,    \* actions of the fill in the order of their creation, with their orders
  pass,      \* process: the passes of sync
  done,      \* NO until the stop trades or an exit is asked for
  conflict   \* FACT_CONFLICT was raised out of a pass: the process has ended (a guard of Next)

vars == <<policy, revision, base, orders, pass, done, conflict>>

Reducers == {"TAKE_PROFIT", "MARKET"}
Kinds    == {"INITIAL", "AGGREGATE", "DYNAMIC"} \cup Reducers

Idle == [step |-> "IDLE"]

\* A new action: its kind, the revision or step it is for, its price, its size,
\* the action it replaces or 0.
Action(kind, step, price, size, pred) ==
  [kind |-> kind, step |-> step, price |-> price, size |-> size, pred |-> pred,
   state |-> "READY", over |-> FALSE, cancel |-> FALSE, late |-> FALSE, waited |-> FALSE,
   venue |-> "NONE", traded |-> 0, recorded |-> 0]

Fails(a, fault) == <<fault, IF a.kind \in Reducers THEN "REDUCER" ELSE "STOP">> \in Faults

StopsOf(s) == {i \in DOMAIN s : s[i].kind \notin Reducers}
OfKind(s, kind) == {i \in DOMAIN s : s[i].kind = kind}

\* order_is_working of an OPEN action.
Works(s, i) == s[i].state = "OPEN" /\ ~s[i].over

WorkingStops(s) == {i \in StopsOf(s) : Works(s, i)}

\* What the activation holds, by its records.
Held == Lot * revision - MapThenSumSet(LAMBDA i : orders[i].recorded, DOMAIN orders)

\* _failed_protection_seen.
Failed(a) == a.state = "NOT_SUBMITTED" \/ (a.over /\ a.venue # "FILLED")
Gap == \A i \in StopsOf(orders) : Failed(orders[i])

\* _unknown_protection_exit_due.
Overdue == \E i \in StopsOf(orders) : orders[i].state = "SENT" /\ orders[i].late

(***************************************************************************)
(* What the parts of a pass do to the actions.  An action in ASKED is in   *)
(* the hands of process_execution_action, whose result is a step of its    *)
(* own (Process) before anything else moves.                               *)
(***************************************************************************)

\* _submit_ready for the actions in S; w tells that they were to wait for the
\* stop they replace.
Ask(s, S, w) ==
  [i \in DOMAIN s |-> IF i \in S /\ s[i].state = "READY"
                      THEN [s[i] EXCEPT !.state = "ASKED", !.waited = w[i]] ELSE s[i]]

\* _ensure_cancel for the working orders in S.
Cancel(s, S) ==
  [i \in DOMAIN s |-> IF i \in S /\ Works(s, i) THEN [s[i] EXCEPT !.cancel = TRUE] ELSE s[i]]

Looser(s, i) == s[i].kind = "AGGREGATE" /\ s[i].price < s[s[i].pred].price

\* A replacement that the stop it replaces must make room for.
Handed(s, c, i) == s[i].kind \in {"AGGREGATE", "DYNAMIC"} /\ (Looser(s, i) \/ c.shared)

\* Faulty: the hand-off ends with the cancel call.
WaitsForCall(s, c, i) == Handed(s, c, i) /\ ~s[s[i].pred].cancel

\* Faulty: the stop that was replaced has to be closed, not only to be terminal.
WaitsForClosure(s, c, i) == Handed(s, c, i) /\ s[s[i].pred].state # "CLOSED"

\* _replacement_waits_for_predecessor_cancel.
Waits(s, c, i) == Handed(s, c, i) /\ ~s[s[i].pred].over

Waited(s, c) == [i \in DOMAIN s |-> Handed(s, c, i)]

\* One READY replacement: submitted, or its predecessor is cancelled.
Advance(s, c, i) ==
  IF Waits(s, c, i) THEN Cancel(s, {s[i].pred}) ELSE Ask(s, {i}, Waited(s, c))

\* A replacement that was just created: create_direct_protection_replacement and
\* the call or the cancel that follows it.
Replace(s, c, a) == Advance(Append(s, a), c, Len(s) + 1)

\* The stop that aggregate management replaces.
Newest(s) == Max(WorkingStops(s))

\* Aggregate management is about to create a replacement.
Rebalances(s, c) ==
  /\ \A i \in OfKind(s, "AGGREGATE") : s[i].step # c.rev
  /\ WorkingStops(s) # {}
  /\ LET last == s[Newest(s)]
     IN last.price # c.base /\ ~(c.base < last.price /\ last.kind = "DYNAMIC")

\* _manage_aggregate_entry_protection.
Aggregate(s, c) ==
  LET made == {i \in OfKind(s, "AGGREGATE") : s[i].step = c.rev}
  IN IF Rebalances(s, c)
     THEN Replace(s, c, Action("AGGREGATE", c.rev, c.base, Lot, Newest(s)))
     ELSE IF made = {} THEN s
     ELSE LET d == Max(made) IN
          IF s[d].state = "READY" THEN Advance(s, c, d)
          ELSE IF d \in WorkingStops(s) THEN Cancel(s, WorkingStops(s) \ {d})
          ELSE s

\* Faulty: a cancelled take-profit is rebuilt before its fills are complete.
RebuildableIfCancelled(a) == a.state = "NOT_SUBMITTED" \/ (a.over /\ a.venue = "CANCELLED")

\* A take-profit whose remainder is proven.  Nothing moves an action to CLOSED
\* while the position is open: _try_close_activation waits for zero.
Rebuildable(a) ==
  \/ a.state = "NOT_SUBMITTED"
  \/ a.state = "CLOSED" /\ a.over /\ a.venue = "CANCELLED" /\ a.recorded = a.traded

\* Take-profits at a price that is no longer the target.
Stale(s, c) ==
  {i \in OfKind(s, "TAKE_PROFIT") : s[i].price # c.base /\ (s[i].state = "READY" \/ Works(s, i))}

\* Aggregate management is about to rebuild a take-profit.
Rebuilds(s, c) ==
  LET T == OfKind(s, "TAKE_PROFIT") IN
  /\ T # {}
  /\ \A i \in T : s[i].step # c.rev
  /\ Stale(s, c) = {}
  /\ \A i \in T : ~(Works(s, i) /\ s[i].price = c.base)
  /\ Rebuildable(s[Max(T)])
  /\ s[Max(T)].recorded < s[Max(T)].size

\* _manage_aggregate_entry_take_profits.
TakeProfits(s, c) ==
  LET T == OfKind(s, "TAKE_PROFIT")
      made == {i \in T : s[i].step = c.rev}
      last == s[Max(T)]
  IN IF T = {} THEN s
     ELSE IF made # {} THEN Ask(s, made, Waited(s, c))
     ELSE IF Stale(s, c) # {}
     THEN [i \in DOMAIN s |-> IF i \in Stale(s, c) /\ s[i].state = "READY"
                              THEN [s[i] EXCEPT !.state = "NOT_SUBMITTED"]
                              ELSE Cancel(s, Stale(s, c))[i]]
     ELSE IF Rebuilds(s, c)
     THEN LET t == Append(s, Action("TAKE_PROFIT", c.rev, c.base, last.size - last.recorded, Max(T)))
          IN Ask(t, {Len(t)}, Waited(t, c))
     ELSE s

\* _resume_ready_non_entry_actions.
Resumed(s, c) ==
  LET ready == {i \in DOMAIN s : s[i].state = "READY"}
      wait == {i \in ready : Waits(s, c, i)}
  IN Cancel(Ask(s, ready \ wait, Waited(s, c)), {s[i].pred : i \in wait})

\* Take-profits whose trigger the market had crossed, without their reduction.
CrossedOnes(s) ==
  {i \in OfKind(s, "TAKE_PROFIT") :
     /\ s[i].over /\ s[i].venue = "CROSSED"
     /\ \A j \in OfKind(s, "MARKET") : s[j].pred # i}

\* _ensure_crossed_take_profit_reductions: only for a position the records explain.
Reduced(s, c) ==
  IF CrossedOnes(s) = {} \/ c.held <= 0 \/ c.held # Held THEN s
  ELSE LET i == Min(CrossedOnes(s))
           t == Append(s, Action("MARKET", 0, 0, Min({s[i].size, c.held}), i))
       IN Ask(t, {Len(t)}, Waited(t, c))

Tightest(s) ==
  LET W == WorkingStops(s) IN Min({i \in W : \A j \in W : s[j].price <= s[i].price})

\* _manage_dynamic_protection for the step that the market has crossed, 0 for none;
\* soon says that the minimum interval is not over.
Dynamic(s, c, soon) ==
  LET k == c.crossed
      price == c.base + k
      W == WorkingStops(s)
      D == OfKind(s, "DYNAMIC")
      made == {i \in D : s[i].step = k}
  IN IF k = 0 \/ c.held <= 0 \/ W = {} THEN s
     ELSE IF made # {}
     THEN LET d == Max(made) IN
          IF s[d].state = "READY" THEN Advance(s, c, d)
          ELSE IF d \in W THEN Cancel(s, {i \in W \ {d} : price > s[i].price})
          ELSE s
     ELSE IF Cardinality(D) >= MaxAdjustments \/ (D # {} /\ soon) THEN s
     ELSE IF price > s[Tightest(s)].price
     THEN Replace(s, c, Action("DYNAMIC", k, price, Lot, Tightest(s)))
     ELSE s

(***************************************************************************)
(* The steps of a pass.                                                    *)
(***************************************************************************)

Settled == \A i \in DOMAIN orders : orders[i].state # "ASKED"

\* The account answers: what the activation holds, whether the account holds more
\* than that, and how far the market has run.
Read(p) ==
  /\ pass[p].step = "IDLE"
  /\ \E shared \in BOOLEAN, crossed \in 0..policy.steps :
       pass' = [pass EXCEPT ![p] =
         [step |-> "READ", rev |-> revision, base |-> base, held |-> Held, gap |-> Gap,
          overdue |-> Overdue, crossed |-> crossed, shared |-> shared]]
  /\ UNCHANGED <<policy, revision, base, orders, done, conflict>>

\* The take-profit made of the fill itself; one event is its identity.
First == OfKind(orders, "TAKE_PROFIT") \cap {i \in DOMAIN orders : orders[i].step = 0}

\* The event of the first take-profit is recorded anew, from targets that a later
\* fill has rewritten.
Conflicts == \E i \in First : orders[i].price # base

\* _create_take_profits of the original stop, while it works.
Created ==
  IF First # {} THEN Ask(orders, First, Waited(orders, [shared |-> FALSE]))
  ELSE LET t == Append(orders, Action("TAKE_PROFIT", 0, base, Lot, 0))
       IN Ask(t, {Len(t)}, Waited(t, [shared |-> FALSE]))

Creates == policy.ladder /\ Works(orders, 1)

\* The task that the WORKING event of the original stop starts.
TakeProfitTask ==
  /\ Creates /\ First = {}
  /\ orders' = Created
  /\ UNCHANGED <<policy, revision, base, pass, done, conflict>>

\* The same within a pass.  A conflict ends the pass, and with it the process: the
\* one that is started next comes to the same point.
Profits(p) ==
  /\ pass[p].step = "READ"
  /\ IF ~Creates \/ pass[p].gap
     THEN /\ pass' = [pass EXCEPT ![p].step = "MANAGE"]
          /\ UNCHANGED <<orders, conflict>>
     ELSE IF Conflicts
     THEN /\ pass' = [pass EXCEPT ![p] = Idle]
          /\ conflict' = TRUE
          /\ UNCHANGED orders
     ELSE /\ pass' = [pass EXCEPT ![p].step = "MANAGE"]
          /\ orders' = Created
          /\ UNCHANGED conflict
  /\ UNCHANGED <<policy, revision, base, done>>

\* What follows aggregate management of the stops in a pass.
Managed(s1, c) ==
  UNION {IF c.gap THEN {s3} ELSE {Dynamic(s3, c, soon) : soon \in BOOLEAN} :
           s3 \in {Reduced(s2, c) : s2 \in {Resumed(s, c) : s \in {IF c.gap THEN s1 ELSE TakeProfits(s1, c)}}}}

\* The rest of the pass.  A replacement of a revision that has passed is refused
\* by the transaction (PROTECTION_AGGREGATE_TARGET_STALE), which ends the pass.
Manage(p) ==
  LET c == pass[p]
      stale == ~c.gap /\ c.rev # revision
  IN
  /\ c.step = "MANAGE"
  /\ pass' = [pass EXCEPT ![p] = Idle]
  /\ \E s1 \in {IF c.gap THEN orders ELSE Aggregate(orders, c)} :
       IF stale /\ Rebalances(orders, c) THEN UNCHANGED <<orders, done>>
       ELSE IF stale /\ Rebuilds(s1, c) THEN orders' = s1 /\ UNCHANGED done
       ELSE /\ orders' \in Managed(s1, c)
            /\ done' = IF c.gap \/ c.overdue THEN "EXIT" ELSE done
  /\ UNCHANGED <<policy, revision, base, conflict>>

\* process_execution_action: left READY when CAP cannot value it, refused, or called.
Process(i) ==
  /\ orders[i].state = "ASKED"
  /\ \/ Fails(orders[i], "UNVALUED") /\ orders' = [orders EXCEPT ![i].state = "READY"]
     \/ Fails(orders[i], "REFUSED") /\ orders' = [orders EXCEPT ![i].state = "NOT_SUBMITTED"]
     \/ orders' = [orders EXCEPT ![i].state = "SENT"]
  /\ UNCHANGED <<policy, revision, base, pass, done, conflict>>

(***************************************************************************)
(* Everything else that moves.                                             *)
(***************************************************************************)

\* A further entry fill is recorded: record_direct_fill computes the target anew.
NewFill ==
  /\ revision < Fills
  /\ revision' = revision + 1
  /\ base' \in Bases
  /\ UNCHANGED <<policy, orders, pass, done, conflict>>

Changes(i, a) ==
  /\ orders' = [orders EXCEPT ![i] = a]
  /\ UNCHANGED <<policy, revision, base, pass, done, conflict>>

\* A call reaches the venue, which takes the order or rejects it, a take-profit also
\* because the market has crossed its trigger.
Arrive(i) ==
  LET a == orders[i] IN
  /\ a.state = "SENT" /\ a.venue = "NONE" /\ ~a.late
  /\ \/ Changes(i, [a EXCEPT !.venue = "LIVE"])
     \/ Fails(a, "REJECTED") /\ Changes(i, [a EXCEPT !.venue = "REJECTED"])
     \/ /\ Fails(a, "CROSSED") /\ a.kind = "TAKE_PROFIT"
        /\ Changes(i, [a EXCEPT !.venue = "CROSSED"])

\* A call had no answer for PROTECTION_UNKNOWN_EXIT_DELAY.
Age(i) ==
  /\ Fails(orders[i], "LOST")
  /\ orders[i].state = "SENT" /\ ~orders[i].late
  /\ Changes(i, [orders[i] EXCEPT !.late = TRUE])

\* A query proves that the order does not exist.
Disproved(i) ==
  /\ orders[i].state = "SENT" /\ orders[i].late /\ orders[i].venue = "NONE"
  /\ Changes(i, [orders[i] EXCEPT !.state = "NOT_SUBMITTED"])

\* Order events are recorded; any of them proves that the order exists.
RecordWorking(i) ==
  /\ orders[i].state = "SENT" /\ orders[i].venue = "LIVE"
  /\ Changes(i, [orders[i] EXCEPT !.state = "OPEN"])

RecordFill(i) ==
  /\ orders[i].recorded < orders[i].traded
  /\ Changes(i, [orders[i] EXCEPT !.recorded = @ + 1, !.state = "OPEN"])

RecordEnd(i) ==
  LET a == orders[i] IN
  /\ a.venue \notin {"NONE", "LIVE"} /\ ~a.over
  /\ a.venue = "FILLED" => a.recorded = a.traded
  /\ Changes(i, [a EXCEPT !.over = TRUE, !.state = "OPEN"])

Record(i) == Disproved(i) \/ RecordWorking(i) \/ RecordFill(i) \/ RecordEnd(i)

\* A cancel takes effect.
TakeCancel(i) ==
  /\ orders[i].venue = "LIVE" /\ orders[i].cancel
  /\ Changes(i, [orders[i] EXCEPT !.venue = "CANCELLED"])

\* A reducer trades one unit.
Trade(i) ==
  LET a == orders[i] IN
  /\ a.venue = "LIVE" /\ a.kind \in Reducers
  /\ Changes(i, [a EXCEPT !.traded = @ + 1, !.venue = IF a.traded + 1 = a.size THEN "FILLED" ELSE "LIVE"])

\* A stop trades.
Trigger(i) ==
  /\ orders[i].venue = "LIVE" /\ i \in StopsOf(orders)
  /\ done' = "STOPPED"
  /\ UNCHANGED <<policy, revision, base, orders, pass, conflict>>

\* The fill is on record with its original stop, which is not called yet.
Init ==
  /\ policy \in Policies
  /\ revision = 1
  /\ base \in Bases
  /\ orders = <<Action("INITIAL", 0, base, Lot, 0)>>
  /\ pass = [p \in Passes |-> Idle]
  /\ done = "NO"
  /\ conflict = FALSE

Next ==
  /\ done = "NO"
  /\ IF Settled
     THEN \/ \E p \in Passes : Read(p) \/ Profits(p) \/ Manage(p)
          \/ TakeProfitTask \/ NewFill
          \/ \E i \in DOMAIN orders :
               \/ Arrive(i) \/ Age(i) \/ Record(i)
               \/ TakeCancel(i) \/ Trade(i) \/ Trigger(i)
     ELSE \E i \in DOMAIN orders : Process(i)

Spec == Init /\ [][Next]_vars

Open == done = "NO" /\ Settled

\* Passes follow each other and calls end.  Every order moves only so often: that
\* answers, events and cancels do not all stand still is enough for each of them.
\* Strong fairness, because ASKED holds everything else for a step.
FairSpec ==
  /\ Spec
  /\ WF_vars(Next /\ ~Settled)
  /\ \A p \in Passes : SF_vars(Open /\ (Read(p) \/ Profits(p) \/ Manage(p)))
  /\ SF_vars(Open /\ \E i \in DOMAIN orders : Arrive(i) \/ Age(i) \/ Record(i) \/ TakeCancel(i))

(***************************************************************************)
(* Properties.                                                             *)
(***************************************************************************)

\* The types, and what the code takes for granted of the rows: every replacement
\* names an earlier action, and no more of an order is on record than it traded,
\* nor traded than it was made for.
TypeOK ==
  /\ policy \in Policies
  /\ revision \in 1..Fills /\ base \in Bases
  /\ done \in {"NO", "EXIT", "STOPPED"}
  /\ conflict \in BOOLEAN
  /\ \A i \in DOMAIN orders : LET a == orders[i] IN
       /\ a.kind \in Kinds /\ a.pred \in 0..(i - 1)
       /\ a.state \in {"READY", "ASKED", "SENT", "OPEN", "NOT_SUBMITTED"}
       /\ a.venue \in {"NONE", "LIVE", "CANCELLED", "REJECTED", "CROSSED", "FILLED"}
       /\ 0 <= a.recorded /\ a.recorded <= a.traded /\ a.traded <= a.size

Called(i) == orders[i].state \in {"SENT", "OPEN"}

\* A stop that must not stand beside the one it replaces is only called once that
\* one has ended at the venue, whichever part of whichever pass calls it.
HandOffWaits ==
  \A i \in StopsOf(orders) :
    Called(i) /\ orders[i].waited => orders[orders[i].pred].venue # "LIVE"

\* The take-profits of the fill, rebuilt at new targets or turned into market
\* reductions, together never trade more than the fill, whatever of their fills
\* is not on record yet.
TakeProfitsFit ==
  LET R == OfKind(orders, "TAKE_PROFIT") \cup OfKind(orders, "MARKET")
      left == [i \in R |-> IF orders[i].venue = "LIVE" \/ (orders[i].venue = "NONE" /\ Called(i))
                           THEN orders[i].size ELSE orders[i].traded]
  IN MapThenSumSet(LAMBDA i : left[i], R) <= Lot

Naked == done = "NO" /\ \A i \in StopsOf(orders) : orders[i].venue # "LIVE"

\* A fill without a live stop gets one, or an exit is asked for.
NakedEnds == Naked ~> ~Naked

===============================================================================
