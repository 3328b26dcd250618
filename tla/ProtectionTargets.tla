-------------------------- MODULE ProtectionTargets --------------------------
(***************************************************************************)
(* What a direct plan may buy and where its stop stands: the order         *)
(* schedule compiled from the owner's request, the loss frozen with it at  *)
(* activation, and the shared protection target computed again from all    *)
(* recorded fills each time one more of them is recorded.                  *)
(*                                                                         *)
(* Prices are whole ticks, quantities whole venue steps, and rates are     *)
(* parts of Whole (the code's basis points of 10000).  Money that includes *)
(* a rate is kept multiplied by Whole, so that it stays a whole number.    *)
(* The code divides with 128 significant digits: a quotient that           *)
(* terminates is exact, any other is off in its last digit, which matters  *)
(* only where the rounding to a tick that follows meets an exact tie.      *)
(* `skew' is the sign of that error.                                       *)
(***************************************************************************)
EXTENDS Integers, Sequences, SequencesExt, FiniteSets, FiniteSetsExt

CONSTANTS Requests,     \* the plans an owner may ask for, see Request
          Whole,        \* the denominator of a rate
          MinQuantity,  \* the venue's smallest order, in steps
          MinNotional,  \* and its smallest value
          Better,       \* BOUND: ticks by which a limit order may trade better
          NoPlan,       \* no request is activated
          None,         \* no estimate is frozen
          Error,        \* PROTECTION_PRICE_INVALID: a price that cannot be protected
          Slip,         \* BOUND: ticks by which a market order may miss its reference
          MaxFacts      \* BOUND: fills the venue reports

ASSUME TargetsAssumption ==
    /\ Whole \in Nat \ {0}
    /\ MinQuantity \in Nat \ {0}
    /\ {MinNotional, Better, Slip, MaxFacts} \subseteq Nat

VARIABLES plan,      \* the request, NoPlan until one is activated
          legs,      \* its normalized legs
          estimate,  \* the frozen full-fill estimate, or None
          facts,     \* the fills the venue reported
          fills      \* the recorded fills with their targets

vars == <<plan, legs, estimate, facts, fills>>

-----------------------------------------------------------------------------
(* Rounding. *)

\* +1 where the stop lies below the entry (LONG), -1 where it lies above.
Side(direction) == IF direction = "LONG" THEN 1 ELSE -1

\* The largest whole number not above n/d, and the smallest not below it.
Down(n, d) == n \div d
Up(n, d)   == -((-n) \div d)

\* n/d to a tick towards the entry price, as every stop is rounded.
Stopwards(n, d, direction) ==
    IF direction = "LONG" THEN Up(n, d) ELSE Down(n, d)

\* n/d to a tick away from it, as take-profit and entry prices are rounded.
Profitwards(n, d, direction) ==
    IF direction = "LONG" THEN Down(n, d) ELSE Up(n, d)

\* n/d has finitely many decimals (DigitBound covers every denominator met).
DigitBound == 6
Terminates(n, d) == \E k \in 0..DigitBound : (n * 10 ^ k) % d = 0

\* The errors a quotient n/d may carry in its last digit.
Skews(n, d) == IF Terminates(n, d) THEN {0} ELSE {-1, 0, 1}

\* A stop rounded from a value that is n/d up to an error of sign `skew'.
SkewedStop(n, d, direction, skew) ==
    Stopwards(n, d, direction)
      + IF n % d = 0 /\ skew = Side(direction) THEN Side(direction) ELSE 0

\* The stop nearer to, and farther from, the entry price.
Nearer(a, b, direction)  == IF direction = "LONG" THEN Max({a, b}) ELSE Min({a, b})
Farther(a, b, direction) == IF direction = "LONG" THEN Min({a, b}) ELSE Max({a, b})

\* The stop lies strictly beyond the price n/d, on the losing side.
Beyond(stop, n, d, direction) == Side(direction) * (n - d * stop) > 0

\* Sums over levels and fills.
SumSeq(s) == FoldLeft(LAMBDA a, b : a + b, 0, s)

-----------------------------------------------------------------------------
(* The request: the price plan, the amounts and the protection policy. *)

\* The weights of the gaps between the levels of a ladder.
GapWeights(ladder) ==
    LET count   == ladder.levels - 1
        weights == [i \in 1..count |->
                      CASE ladder.spacing = "EQUAL"     -> 1
                        [] ladder.spacing = "LINEAR"    -> ladder.start + ladder.by * (i - 1)
                        [] ladder.spacing = "GEOMETRIC" -> ladder.by ^ (i - 1)]
    IN  IF ladder.descending THEN Reverse(weights) ELSE weights

\* The unrounded level prices, each a fraction <<n, d>>.
RawPrices(ladder) ==
    LET gaps  == GapWeights(ladder)
        total == SumSeq(gaps)
    IN  IF ladder.levels = 1 THEN <<<<ladder.lower, 1>>>>
        ELSE [i \in 1..ladder.levels |->
                <<ladder.lower * total
                    + (ladder.upper - ladder.lower) * SumSeq(SubSeq(gaps, 1, i - 1)), total>>]

\* The value asked for at each level.
RawNotionals(amount, count) ==
    LET values == [i \in 1..count |->
                     CASE amount.mode = "FIXED"       -> amount.base
                       [] amount.mode = "LINEAR"      -> amount.base + amount.by * (i - 1)
                       [] amount.mode = "EXPONENTIAL" -> amount.base * amount.by ^ (i - 1)]
    IN  IF amount.descending THEN Reverse(values) ELSE values

\* A time-sliced program repeats its one price; other programs use each level once.
LevelPrices(r) ==
    IF r.slices > 0 THEN [i \in 1..r.slices |-> RawPrices(r.ladder)[1]]
                    ELSE RawPrices(r.ladder)

\* The price a level is sized at: its own, rounded to a tick in the owner's
\* favour, or the reference price of an order that names none.
SizingPrice(r, raw) ==
    IF r.market THEN r.ladder.lower ELSE Profitwards(raw[1], raw[2], r.direction)

\* A normalized leg: the whole steps its value buys at its sizing price.
Leg(r, raw, requested) ==
    LET price == SizingPrice(r, raw)
    IN  [price |-> price, requested |-> requested, quantity |-> Down(requested, price)]

NormalizedLegs(r) ==
    LET raw     == LevelPrices(r)
        amounts == RawNotionals(r.amount, Len(raw))
    IN  [i \in DOMAIN raw |-> Leg(r, raw[i], amounts[i])]

\* What the validators let an owner ask for: a stop at most half the price away, fees
\* of at most a tenth, take-profits that close no more than the whole, and levels that
\* come out in whole ticks and whole steps.
ASSUME RequestsAssumption ==
    \A r \in Requests :
        /\ r # NoPlan
        /\ r.direction \in {"LONG", "SHORT"}
        /\ r.policy.distance \in 1..(Whole \div 2)
        /\ {r.policy.entryFee, r.policy.exitFee} \subseteq 0..(Whole \div 10)
        /\ r.policy.levels \in Seq([r : Nat, fraction : Nat \ {0}])
        /\ SumSeq([i \in DOMAIN r.policy.levels |-> r.policy.levels[i].fraction]) <= 10
        /\ Len(NormalizedLegs(r)) > 0
        /\ NormalizedLegs(r) \in Seq([price : Nat, requested : Nat, quantity : Nat])

Prices(ls)   == {ls[i].price : i \in DOMAIN ls}
Quantity(ls) == MapThenSumSet(LAMBDA i : ls[i].quantity, DOMAIN ls)
Notional(ls) == MapThenSumSet(LAMBDA i : ls[i].quantity * ls[i].price, DOMAIN ls)
Requested(ls) == MapThenSumSet(LAMBDA i : ls[i].requested, DOMAIN ls)

\* More than one entry price: the stop must then clear them all.
Layered(ls) == Cardinality(Prices(ls)) > 1

\* The planned entry price nearest to the stop.
Boundary(ls, direction) ==
    IF direction = "LONG" THEN Min(Prices(ls)) ELSE Max(Prices(ls))

-----------------------------------------------------------------------------
(* Targets relative to one fill price. *)

\* Take-profit prices at multiples (in tenths) of the risk `risk/d' from price n/d.
TakeProfits(n, d, risk, policy, direction) ==
    [i \in DOMAIN policy.levels |->
        Profitwards(10 * n + Side(direction) * risk * policy.levels[i].r, 10 * d, direction)]

\* compile_protection_targets: the stop and take-profits of one price, or Error.
CompileTargets(policy, direction, price) ==
    LET side == Side(direction)
        stop == Stopwards(price * (Whole - side * policy.distance), Whole, direction)
        tps  == TakeProfits(price * Whole, Whole, price * policy.distance, policy, direction)
        valid == /\ stop > 0
                 /\ Beyond(stop, price, 1, direction)
                 /\ \A i \in DOMAIN tps : tps[i] > 0 /\ side * (tps[i] - price) > 0
                 /\ \A i \in DOMAIN tps : i > 1 => side * (tps[i] - tps[i - 1]) > 0
    IN  IF valid THEN [stop |-> stop, takeProfits |-> tps] ELSE Error

-----------------------------------------------------------------------------
(* The loss frozen at activation. *)

\* The loss, times Whole, of `quantity' bought for `cost' and stopped at `stop'.
LossAt(cost, quantity, stop, policy, direction) ==
    Whole * Side(direction) * (cost - quantity * stop)
      + cost * policy.entryFee + quantity * stop * policy.exitFee

\* The full-fill estimate, for one error of the raw stop and one of the loss.
Estimate(r, ls, tie, skew) ==
    LET side == Side(r.direction)
        stop == SkewedStop(Notional(ls) * (Whole - side * r.policy.distance),
                           Quantity(ls) * Whole, r.direction, tie)
    IN  [stop |-> stop,
         boundary |-> Boundary(ls, r.direction),
         maximumLoss |-> LossAt(Notional(ls), Quantity(ls), stop, r.policy, r.direction),
         skew |-> skew]

\* The stop lies inside the range of planned entries: an issue of the schedule.
InsideEntryRange(e, ls, direction) ==
    Layered(ls) /\ ~Beyond(e.stop, e.boundary, 1, direction)

\* The issues that make a schedule invalid, the estimate's left out.
HasIssue(r, ls) ==
    \/ /\ r.slices = 0
       /\ Cardinality(Prices(ls)) # Len(ls)
    \/ ~r.market /\ \E i \in DOMAIN ls :
          CompileTargets(r.policy, r.direction, ls[i].price) = Error
    \/ Requested(ls) > r.maxNotional
    \/ \E i \in DOMAIN ls :
          \/ ls[i].quantity < MinQuantity
          \/ ls[i].quantity * ls[i].price < MinNotional

\* The estimates a valid schedule may freeze.
Estimates(r, ls) ==
    IF ~r.policy.budget THEN {None}
    ELSE LET skews == Skews(Notional(ls), Quantity(ls))
         IN  {e \in {Estimate(r, ls, tie, skew) : tie, skew \in skews} :
                /\ e.stop > 0
                /\ ~InsideEntryRange(e, ls, r.direction)
                /\ e.maximumLoss <= r.maxLoss}

-----------------------------------------------------------------------------
(* The target shared by all recorded fills. *)

Filled(fs) == MapThenSumSet(LAMBDA f : f.quantity, fs)
Cost(fs)   == MapThenSumSet(LAMBDA f : f.quantity * f.price, fs)

\* Faulty: the planned entries not looked at.
DistanceStopAlone(fs, skew) ==
    SkewedStop(Cost(fs) * (Whole - Side(plan.direction) * plan.policy.distance),
               Filled(fs) * Whole, plan.direction, skew)

\* The stop the policy's distance asks for, kept clear of the planned entries.
DistanceStop(fs, skew) ==
    LET side == Side(plan.direction)
        stop == SkewedStop(Cost(fs) * (Whole - side * plan.policy.distance),
                           Filled(fs) * Whole, plan.direction, skew)
    IN  IF Layered(legs) THEN Farther(stop, estimate.boundary - side, plan.direction)
                         ELSE stop

\* Faulty: the fee of the stop's own trade left out.
BudgetStopWithoutExitFee(fs) ==
    LET side == Side(plan.direction)
    IN  SkewedStop(Cost(fs) * (Whole + side * plan.policy.entryFee)
                     - side * estimate.maximumLoss,
                   Filled(fs) * Whole, plan.direction, -side * estimate.skew)

\* The farthest stop at which these fills lose no more than the frozen loss.
\* The frozen loss carries the error of the estimate into this quotient.
BudgetStop(fs) ==
    LET side == Side(plan.direction)
    IN  SkewedStop(Cost(fs) * (Whole + side * plan.policy.entryFee)
                     - side * estimate.maximumLoss,
                   Filled(fs) * (Whole - side * plan.policy.exitFee),
                   plan.direction, -side * estimate.skew)

AggregateStop(fs, skew) ==
    Nearer(DistanceStop(fs, skew), BudgetStop(fs), plan.direction)

\* Faulty: only the average entry looked at.
ConflictWithAverage(fs, stop) == ~Beyond(stop, Cost(fs), Filled(fs), plan.direction)

\* PROTECTION_LOSS_BUDGET_CONFLICT: the stop would reach the average or an entry.
Conflict(fs, stop) ==
    \/ ~Beyond(stop, Cost(fs), Filled(fs), plan.direction)
    \/ Layered(legs) /\ ~Beyond(stop, estimate.boundary, 1, plan.direction)

\* The shared targets.  Unlike those of one price, the take-profits are not
\* compared with the average entry; exact ties of theirs are not skewed here.
AggregateTargets(fs, stop) ==
    [stop |-> stop,
     takeProfits |-> TakeProfits(Cost(fs), Filled(fs),
                                 Side(plan.direction) * (Cost(fs) - Filled(fs) * stop),
                                 plan.policy, plan.direction)]

-----------------------------------------------------------------------------
(* The take-profit quantities of one fill. *)

\* Fractions are in tenths.  The whole steps the ladder closes of n steps.
TargetSteps(n, levels) ==
    Down(n * SumSeq([i \in DOMAIN levels |-> levels[i].fraction]), 10)

\* The steps of a level before the remainder is shared out, and what it lost by rounding.
FloorSteps(n, levels, i) == Down(n * levels[i].fraction, 10)
Remainder(n, levels, i)  == (n * levels[i].fraction) % 10

\* Level i stands before level j in the order in which remainders are served.
ServedBefore(n, levels, i, j) ==
    \/ Remainder(n, levels, i) > Remainder(n, levels, j)
    \/ Remainder(n, levels, i) = Remainder(n, levels, j) /\ i < j

\* Faulty: every level that lost something by rounding gets a step.
AllocateGenerously(n, levels) ==
    [i \in DOMAIN levels |->
        FloorSteps(n, levels, i) + IF Remainder(n, levels, i) > 0 THEN 1 ELSE 0]

\* _allocate_take_profit_quantities: largest remainders first.
Allocate(n, levels) ==
    LET left == TargetSteps(n, levels)
                  - SumSeq([i \in DOMAIN levels |-> FloorSteps(n, levels, i)])
        rank(i) == Cardinality({j \in DOMAIN levels : ServedBefore(n, levels, j, i)})
    IN  [i \in DOMAIN levels |->
            FloorSteps(n, levels, i) + IF rank(i) < left THEN 1 ELSE 0]

-----------------------------------------------------------------------------
Init ==
    /\ plan = NoPlan
    /\ legs = <<>>
    /\ estimate = None
    /\ facts = {}
    /\ fills = <<>>

\* The owner activates a request whose schedule compiles without issue and
\* whose projected loss fits the plan's limit.
ActivateVersion(r) ==
    /\ plan = NoPlan
    /\ ~HasIssue(r, NormalizedLegs(r))
    /\ plan' = r
    /\ legs' = NormalizedLegs(r)
    /\ estimate' \in Estimates(r, NormalizedLegs(r))
    /\ UNCHANGED <<facts, fills>>

\* What leg i still has to trade.
Unfilled(i) == legs[i].quantity - Filled({f \in facts : f.leg = i})

\* The prices leg i may trade at: its limit or better; a market order near
\* its reference.
TradePrices(i) ==
    IF plan.market THEN (legs[i].price - Slip)..(legs[i].price + Slip)
    ELSE {legs[i].price - Side(plan.direction) * k : k \in 0..Better}

\* The venue trades part of a leg.
Trade(i, price, quantity) ==
    /\ Cardinality(facts) < MaxFacts
    /\ quantity \in 1..Unfilled(i)
    /\ facts' = facts \cup {[id |-> Cardinality(facts) + 1, leg |-> i,
                             price |-> price, quantity |-> quantity]}
    /\ UNCHANGED <<plan, legs, estimate, fills>>

\* record_direct_fill: facts may be recorded in any order.  With a frozen
\* estimate all recorded fills get the new shared target, and a conflict
\* refuses the record; without one each fill keeps the target of its own
\* price, or the error that makes it a gap.
RecordFill(f) ==
    LET fs == DOMAIN fills \cup {f}
    IN  /\ f \in facts \ DOMAIN fills
        /\ \/ /\ estimate = None
              /\ fills' = [g \in fs |->
                    IF g = f THEN CompileTargets(plan.policy, plan.direction, f.price)
                             ELSE fills[g]]
           \/ /\ estimate # None
              /\ \E skew \in Skews(Cost(fs), Filled(fs)) :
                    /\ ~Conflict(fs, AggregateStop(fs, skew))
                    /\ fills' = [g \in fs |-> AggregateTargets(fs, AggregateStop(fs, skew))]
        /\ UNCHANGED <<plan, legs, estimate, facts>>

Next ==
    \/ \E r \in Requests : ActivateVersion(r)
    \/ \E i \in DOMAIN legs :
         \E price \in TradePrices(i), quantity \in 1..Unfilled(i) : Trade(i, price, quantity)
    \/ \E f \in facts : RecordFill(f)

Spec == Init /\ [][Next]_vars

-----------------------------------------------------------------------------
(* Properties. *)

Recorded == DOMAIN fills

\* Every value is one the code's types and validators allow; a recorded fill
\* has targets unless its policy has no budget.
TypeOK ==
    /\ plan = NoPlan <=> legs = <<>>
    /\ \A i \in DOMAIN legs : legs[i].price > 0 /\ legs[i].quantity >= MinQuantity
    /\ estimate = None \/ (estimate.stop > 0 /\ estimate.maximumLoss \in Nat)
    /\ \A f \in facts : f.leg \in DOMAIN legs /\ f.quantity > 0 /\ f.price > 0
    /\ Recorded \subseteq facts
    /\ \A f \in Recorded : fills[f] = Error => estimate = None

\* However the planned orders fill, in part, at better prices and in any
\* order, stopping what is recorded at its shared target loses, with both
\* fees, no more than the loss the owner confirmed when the plan was
\* activated (the cap transitions.py:_aggregate_direct_protection_targets
\* promises to preserve).
LossWithinBudget ==
    estimate # None =>
        \A stop \in {fills[f].stop : f \in Recorded} :
            LossAt(Cost(Recorded), Filled(Recorded), stop, plan.policy, plan.direction)
              <= estimate.maximumLoss

\* In a plan with several entry prices the shared stop lies beyond every one
\* of them, filled or not: a market that reaches it has passed every entry, so
\* no entry can add to a position the stop has already closed (the comment of
\* _compile_full_fill_protection_estimate).
StopClearsEntries ==
    estimate # None /\ Layered(legs) =>
        \A stop \in {fills[f].stop : f \in Recorded}, price \in Prices(legs) :
            Beyond(stop, price, 1, plan.direction)

\* Fills at exactly the planned prices are always recorded, in whatever part
\* and order they come, unless the division behind the frozen loss rounded it
\* down: the budget is never too small for the plan it was computed from.
PlannedFillsAreAccepted ==
    (/\ estimate # None
     /\ estimate.skew # -1
     /\ ~plan.market
     /\ \A f \in facts : f.price = legs[f.leg].price)
    => \A f \in facts \ Recorded :
          LET fs == Recorded \cup {f}
          IN  \A skew \in Skews(Cost(fs), Filled(fs)) : ~Conflict(fs, AggregateStop(fs, skew))

\* The take-profit orders of a recorded fill together close exactly the whole
\* steps of the ladder's share of it, and each level is less than one step
\* away from its own share.
LadderClosesItsShare ==
    \A f \in Recorded :
        LET levels == plan.policy.levels
            steps  == Allocate(f.quantity, levels)
        IN  /\ SumSeq(steps) = TargetSteps(f.quantity, levels)
            /\ SumSeq(steps) <= f.quantity
            /\ \A i \in DOMAIN levels :
                  /\ 10 * steps[i] > f.quantity * levels[i].fraction - 10
                  /\ 10 * steps[i] < f.quantity * levels[i].fraction + 10

=============================================================================
