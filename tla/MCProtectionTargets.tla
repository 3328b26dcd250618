------------------------- MODULE MCProtectionTargets -------------------------
(* Small plans: ladders of two and three levels, a sliced entry and a market *)
(* entry, long and short, with narrow and wide stops.                        *)
EXTENDS ProtectionTargets

Ladder(n, lo, hi, spacing) ==
    [levels |-> n, lower |-> lo, upper |-> hi, spacing |-> spacing,
     start |-> 1, by |-> 2, descending |-> FALSE]

Amount(mode, base, by, descending) ==
    [mode |-> mode, base |-> base, by |-> by, descending |-> descending]

Half == <<[r |-> 10, fraction |-> 5], [r |-> 20, fraction |-> 3]>>
Full == <<[r |-> 10, fraction |-> 3], [r |-> 15, fraction |-> 3], [r |-> 20, fraction |-> 4]>>

Policy(distance, budget, levels) ==
    [distance |-> distance, budget |-> budget, entryFee |-> 100, exitFee |-> 80,
     levels |-> levels]

Request(direction, market, slices, ladder, amount, policy) ==
    [direction |-> direction, market |-> market, slices |-> slices, ladder |-> ladder,
     amount |-> amount, policy |-> policy, maxLoss |-> 600000,
     maxNotional |-> SumSeq(RawNotionals(amount, IF slices = 0 THEN ladder.levels ELSE slices))]

Ladders == {Ladder(2, 30, 31, "EQUAL"), Ladder(3, 30, 33, "LINEAR"),
            Ladder(3, 30, 34, "GEOMETRIC")}
Amounts == {Amount("FIXED", 63, 0, FALSE), Amount("LINEAR", 63, 33, FALSE),
            Amount("EXPONENTIAL", 32, 2, TRUE)}
Policies == {Policy(1000, TRUE, Half), Policy(600, TRUE, Full), Policy(600, FALSE, Half)}

SmallRequests ==
    {Request(d, FALSE, 0, l, a, p) :
        d \in {"LONG", "SHORT"}, l \in Ladders, a \in Amounts, p \in Policies}
    \cup {Request(d, m, 2, Ladder(1, 30, 30, "EQUAL"), a, p) :
        d \in {"LONG", "SHORT"}, m \in BOOLEAN, a \in Amounts, p \in Policies}

=============================================================================
