------------------------ MODULE DirectScheduleProofs ------------------------
(***************************************************************************)
(* Theorems about DirectSchedule, for every kind of schedule, any number   *)
(* of legs, retries and replacements and any quantity of an attempt.       *)
(*                                                                         *)
(* The argument has three parts.  Inv relates the rows of the schedule to  *)
(* the orders at the venue and to the run in progress.  Outcome says what  *)
(* a step of _advance may do, however it came there: it leaves the rows    *)
(* closed, dropped or formed where that is proven, and calls at most one   *)
(* attempt, with nothing else alive.  Every step of _advance has such an   *)
(* outcome, and every outcome keeps Inv.                                   *)
(*                                                                         *)
(* A replacement rests on more than the ledger: the terminal report that   *)
(* closed the attempt before it may have named less than it traded.  The   *)
(* position read for the call shows the rest, which is an argument about   *)
(* the sums of what traded and what is recorded.                           *)
(***************************************************************************)
EXTENDS DirectSchedule, FiniteSetTheorems, WellFoundedInduction, TLAPS

(***************************************************************************)
(* Numbers and sets.                                                       *)
(***************************************************************************)

\* The number of attempts a leg may have is finite.
LEMMA TriesBound == \E top \in Nat : Tries = 0..top
  <1> DEFINE S == {MaxRetries[p] : p \in Programs} \cup {0}
  <1> DEFINE V(p) == IF p \in Programs THEN MaxRetries[p] ELSE 0
  <1>1. \A x \in S : x \in {V("LADDER"), V("SLICED"), V("REPRICED"), 0} /\ x \in Nat
    BY ProgramsAssumption, BoundsAssumption
  <1>2. {V("LADDER"), V("SLICED"), V("REPRICED"), 0} \subseteq S
    BY ProgramsAssumption, BoundsAssumption
  <1> HIDE DEF V, S
  <1>3. \E x \in S : \A y \in S : x >= y
    BY <1>1, <1>2
  <1>4. Max(S) \in Nat
    BY <1>1, <1>3 DEF Max
  <1>5. Tries = 0..(Max(S) + MaxReprices)
    BY DEF Tries, S
  <1> QED
    BY <1>4, <1>5, BoundsAssumption

\* A set of naturals has a least element.
LEMMA LeastForm ==
  ASSUME NEW B \in SUBSET Nat, B # {}
  PROVE  \E n \in B : \A m \in B : n <= m
  <1> DEFINE R == {ss \in Nat \X Nat : ss[1] < ss[2]}
  <1>1. IsWellFoundedOn(R, Nat)
    BY NatLessThanWellFounded DEF OpToRel
  <1> HIDE DEF R
  <1>2. PICK n \in B : \A m \in B : ~(<<m, n>> \in R)
    BY <1>1, WFMin
  <1>3. ASSUME NEW m \in B PROVE n <= m
    <2>1. <<m, n>> \in Nat \X Nat /\ ~(m < n)
      BY <1>2 DEF R
    <2> QED
      BY <2>1
  <1> QED
    BY <1>3

LEMMA MinForm ==
  ASSUME NEW S \in SUBSET Nat, S # {}
  PROVE  Min(S) \in S
  BY LeastForm DEF Min

LEMMA AttemptsForm ==
  /\ IsFiniteSet(Attempts)
  /\ \A l \in Legs : <<l, 0>> \in Attempts
  /\ \A t \in Attempts : t = <<t[1], t[2]>> /\ t[1] \in Legs /\ t[2] \in Nat
  /\ \A t \in Attempts : t[2] # 0 => Before(t) \in Attempts
  <1>1. PICK top \in Nat : Tries = 0..top
    BY TriesBound
  <1>2. IsFiniteSet(Legs) /\ IsFiniteSet(Tries)
    BY <1>1, FS_Interval, BoundsAssumption DEF Legs
  <1>3. IsFiniteSet(Attempts)
    BY <1>2, FS_Product DEF Attempts
  <1>4. ASSUME NEW t \in Attempts, t[2] # 0 PROVE Before(t) \in Attempts
    BY <1>1, <1>4 DEF Attempts, Before
  <1> QED
    BY <1>1, <1>3, <1>4 DEF Attempts

LEMMA LegsForm ==
  /\ ScheduleLegs \subseteq Legs
  /\ ScheduleLegs \subseteq Nat
  /\ IsFiniteSet(ScheduleLegs)
  <1>1. ScheduleLegs \subseteq Legs /\ Legs \subseteq Nat
    BY BoundsAssumption DEF ScheduleLegs, Legs
  <1>2. IsFiniteSet(Legs)
    BY FS_Interval, BoundsAssumption DEF Legs
  <1> QED
    BY <1>1, <1>2, FS_Subset

(***************************************************************************)
(* Sums over attempts.  The community modules sum with a function that is  *)
(* recursive over the subsets; the lemmas unfold it.  An induction over    *)
(* the size of a set is a least counterexample here.                       *)
(***************************************************************************)

AnyOf(s) == CHOOSE x \in s : TRUE

\* What the fold's recursive function says of the sets in D.
Folds(f, D, g) ==
  g = [s \in D |-> IF s = {} THEN 0 ELSE f[AnyOf(s)] + g[s \ {AnyOf(s)}]]

\* The sum over some attempts.
Part(f, S) == MapThenSumSet(LAMBDA a : f[a], S)

\* The fold's choice is a member.
LEMMA AnyForm ==
  ASSUME NEW s, s # {}
  PROVE  AnyOf(s) \in s
  BY DEF AnyOf

\* A finite set with an element less.
LEMMA LessForm ==
  ASSUME NEW s, IsFiniteSet(s), NEW x \in s
  PROVE  /\ IsFiniteSet(s \ {x})
         /\ Cardinality(s) \in Nat \ {0}
         /\ Cardinality(s \ {x}) = Cardinality(s) - 1
  BY FS_RemoveElement, FS_CardinalityType, FS_EmptySet

\* Two functions that unfold the same sum agree.
LEMMA FoldsAgree ==
  ASSUME NEW f, NEW S, IsFiniteSet(S), NEW T, NEW g, NEW h,
         Folds(f, SUBSET S, g), Folds(f, SUBSET T, h)
  PROVE  \A s \in SUBSET S : s \in SUBSET T => g[s] = h[s]
  <1> DEFINE B == {n \in Nat : \E s \in SUBSET S : s \in SUBSET T /\ Cardinality(s) = n /\ g[s] # h[s]}
  <1>1. \A s \in SUBSET S : IsFiniteSet(s) /\ Cardinality(s) \in Nat
    BY FS_Subset, FS_CardinalityType
  <1>2. SUFFICES ASSUME B # {} PROVE FALSE
    BY <1>1
  <1>3. PICK n \in B : \A m \in B : n <= m
    BY <1>2, LeastForm
  <1>4. PICK s \in SUBSET S : s \in SUBSET T /\ Cardinality(s) = n /\ g[s] # h[s]
    BY <1>3
  <1>5. g[s] = IF s = {} THEN 0 ELSE f[AnyOf(s)] + g[s \ {AnyOf(s)}]
    BY DEF Folds
  <1>6. h[s] = IF s = {} THEN 0 ELSE f[AnyOf(s)] + h[s \ {AnyOf(s)}]
    BY <1>4 DEF Folds
  <1>7. s # {}
    BY <1>4, <1>5, <1>6
  <1> DEFINE r == s \ {AnyOf(s)}
  <1>8. r \in SUBSET S /\ r \in SUBSET T /\ Cardinality(r) = n - 1 /\ n - 1 \in Nat
    BY <1>1, <1>4, <1>7, AnyForm, LessForm
  <1>9. g[r] = h[r]
    <2>1. n - 1 \notin B
      BY <1>3, <1>8
    <2> QED
      BY <1>8, <2>1
  <1> QED
    BY <1>4, <1>5, <1>6, <1>7, <1>9

\* A finite sum of integers can be unfolded.
LEMMA FoldsExist ==
  ASSUME NEW S, IsFiniteSet(S), NEW f, NEW C, C \subseteq Int, 0 \in C,
         \A a \in C, b \in C : a + b \in C,
         \A x \in S : f[x] \in C
  PROVE  \E g \in [SUBSET S -> C] : Folds(f, SUBSET S, g)
  <1> DEFINE D(n) == {s \in SUBSET S : Cardinality(s) <= n}
             B == {n \in Nat : ~ \E g \in [D(n) -> C] : Folds(f, D(n), g)}
  <1>1. \A s \in SUBSET S : IsFiniteSet(s) /\ Cardinality(s) \in Nat
    BY FS_Subset, FS_CardinalityType
  <1>2. B = {}
    <2> SUFFICES ASSUME B # {} PROVE FALSE
      OBVIOUS
    <2>1. PICK n \in B : \A m \in B : n <= m
      <3>1. B \in SUBSET Nat
        OBVIOUS
      <3> HIDE DEF B
      <3> QED
        BY <3>1, LeastForm
    <2>2. n # 0
      <3> SUFFICES ASSUME n = 0 PROVE FALSE
        OBVIOUS
      <3>1. \A s \in D(0) : s = {}
        BY <1>1, FS_EmptySet
      <3> DEFINE g == [s \in D(0) |-> 0]
      <3>2. g \in [D(0) -> C]
        OBVIOUS
      <3>3. Folds(f, D(0), g)
        BY <3>1 DEF Folds
      <3> HIDE DEF g
      <3> QED
        BY <2>1, <3>2, <3>3
    <2>3. n - 1 \in Nat /\ n - 1 \notin B
      <3>1. n \in Nat
        OBVIOUS
      <3> HIDE DEF B
      <3> QED
        BY <2>1, <2>2, <3>1
    <2>4. PICK h \in [D(n - 1) -> C] : Folds(f, D(n - 1), h)
      BY <2>3
    <2> DEFINE g == [s \in D(n) |-> IF s = {} THEN 0 ELSE f[AnyOf(s)] + h[s \ {AnyOf(s)}]]
    <2>5. \A s \in D(n) : s # {} => AnyOf(s) \in S /\ s \ {AnyOf(s)} \in D(n - 1)
      BY <1>1, <2>3, AnyForm, LessForm
    <2>6. g \in [D(n) -> C]
      <3>1. ASSUME NEW s \in D(n), s # {}
            PROVE  f[AnyOf(s)] \in C /\ h[s \ {AnyOf(s)}] \in C
        BY <2>5, <3>1
      <3>2. ASSUME NEW s \in D(n), s # {}
            PROVE  f[AnyOf(s)] + h[s \ {AnyOf(s)}] \in C
        BY <3>1, <3>2
      <3> QED
        BY <3>2
    <2>7. \A s \in D(n - 1) : s \in D(n) /\ g[s] = h[s]
      <3>1. ASSUME NEW s \in D(n - 1) PROVE s \in D(n)
        BY <1>1, <2>1, <2>3
      <3>2. ASSUME NEW s \in D(n - 1)
            PROVE  h[s] = IF s = {} THEN 0 ELSE f[AnyOf(s)] + h[s \ {AnyOf(s)}]
        BY <2>4 DEF Folds
      <3> QED
        BY <3>1, <3>2
    <2>8. Folds(f, D(n), g)
      <3>1. \A s \in D(n) : s # {} => g[s \ {AnyOf(s)}] = h[s \ {AnyOf(s)}]
        BY <2>5, <2>7
      <3>2. g = [s \in D(n) |-> IF s = {} THEN 0 ELSE f[AnyOf(s)] + g[s \ {AnyOf(s)}]]
        BY <3>1
      <3> QED
        BY <3>2 DEF Folds
    <2> HIDE DEF g
    <2> QED
      BY <2>1, <2>6, <2>8
  <1>3. Cardinality(S) \in Nat /\ D(Cardinality(S)) = SUBSET S
    <2>1. \A s \in SUBSET S : Cardinality(s) <= Cardinality(S)
      BY FS_Subset
    <2> QED
      BY <1>1, <2>1
  <1>4. Cardinality(S) \notin B
    BY <1>2
  <1> QED
    BY <1>3, <1>4

\* the rest.
LEMMA PartWithin ==
  ASSUME NEW S, IsFiniteSet(S), NEW f, NEW C, C \subseteq Int, 0 \in C,
         \A a \in C, b \in C : a + b \in C,
         \A x \in S : f[x] \in C
  PROVE  /\ Part(f, S) \in C
         /\ S = {} => Part(f, S) = 0
         /\ S # {} => Part(f, S) = f[AnyOf(S)] + Part(f, S \ {AnyOf(S)})
  <1> DEFINE G(T) == CHOOSE g : Folds(f, SUBSET T, g)
  <1>1. \A T : Part(f, T) = G(T)[T]
    BY DEF Part, MapThenSumSet, MapThenFoldSet, Folds, AnyOf
  <1>2. ASSUME NEW T \in SUBSET S
        PROVE  Folds(f, SUBSET T, G(T))
    <2>1. IsFiniteSet(T) /\ \A x \in T : f[x] \in C
      BY <1>2, FS_Subset
    <2>2. \E g : Folds(f, SUBSET T, g)
      BY <2>1, FoldsExist
    <2> QED
      BY <2>2
  <1> HIDE DEF G
  <1>3. Part(f, S) \in C
    <2>1. PICK g \in [SUBSET S -> C] : Folds(f, SUBSET S, g)
      BY FoldsExist
    <2>2. G(S)[S] = g[S]
      <3>1. Folds(f, SUBSET S, G(S))
        BY <1>2
      <3>2. \A s \in SUBSET S : s \in SUBSET S => G(S)[s] = g[s]
        BY <2>1, <3>1, FoldsAgree
      <3> QED
        BY <3>2
    <2> QED
      BY <1>1, <2>1, <2>2
  <1>4. G(S)[S] = IF S = {} THEN 0 ELSE f[AnyOf(S)] + G(S)[S \ {AnyOf(S)}]
    BY <1>2 DEF Folds
  <1>5. S # {} => G(S)[S \ {AnyOf(S)}] = Part(f, S \ {AnyOf(S)})
    <2> SUFFICES ASSUME S # {}
                 PROVE  G(S)[S \ {AnyOf(S)}] = Part(f, S \ {AnyOf(S)})
      OBVIOUS
    <2>1. PICK T \in SUBSET S : T = S \ {AnyOf(S)}
      OBVIOUS
    <2>2. Folds(f, SUBSET S, G(S)) /\ Folds(f, SUBSET T, G(T))
      BY <1>2, <2>1
    <2>3. G(S)[T] = G(T)[T]
      <3>1. PICK g : g = G(S)
        OBVIOUS
      <3>2. PICK h : h = G(T)
        OBVIOUS
      <3>3. Folds(f, SUBSET S, g) /\ Folds(f, SUBSET T, h)
        BY <2>2, <3>1, <3>2
      <3>4. \A s \in SUBSET S : s \in SUBSET T => g[s] = h[s]
        BY <3>3, SMTT(20), FoldsAgree
      <3> QED
        BY <2>1, <3>1, <3>2, <3>4
    <2>4. G(S)[T] = Part(f, T)
      BY <1>1, <2>1, <2>3
    <2> QED
      BY <2>1, <2>4
  <1> QED
    BY <1>1, <1>3, <1>4, <1>5

\* The same for natural numbers.
LEMMA PartForm ==
  ASSUME NEW S, IsFiniteSet(S), NEW f, \A x \in S : f[x] \in Nat
  PROVE  /\ Part(f, S) \in Nat
         /\ S = {} => Part(f, S) = 0
         /\ S # {} => Part(f, S) = f[AnyOf(S)] + Part(f, S \ {AnyOf(S)})
  <1>1. PICK C : C = Nat
    OBVIOUS
  <1>2. C \subseteq Int /\ 0 \in C /\ \A a \in C, b \in C : a + b \in C
    BY <1>1
  <1>3. \A x \in S : f[x] \in C
    BY <1>1
  <1>4. /\ Part(f, S) \in C
        /\ S = {} => Part(f, S) = 0
        /\ S # {} => Part(f, S) = f[AnyOf(S)] + Part(f, S \ {AnyOf(S)})
    BY <1>2, <1>3, PartWithin
  <1> QED
    BY <1>1, <1>4

\* Larger terms have the larger sum, and the same sum only if they are the same.
LEMMA PartOrder ==
  ASSUME NEW S, IsFiniteSet(S), NEW f, NEW g,
         \A x \in S : f[x] \in Nat /\ g[x] \in Nat /\ f[x] <= g[x]
  PROVE  /\ Part(f, S) <= Part(g, S)
         /\ Part(g, S) <= Part(f, S) => \A x \in S : f[x] = g[x]
  <1> DEFINE Holds(T) == /\ Part(f, T) <= Part(g, T)
                         /\ Part(g, T) <= Part(f, T) => \A x \in T : f[x] = g[x]
             B == {n \in Nat : \E T \in SUBSET S : Cardinality(T) = n /\ ~Holds(T)}
  <1>1. \A T \in SUBSET S : IsFiniteSet(T) /\ Cardinality(T) \in Nat
    BY FS_Subset, FS_CardinalityType
  <1>2. \A T \in SUBSET S :
          /\ Part(f, T) \in Nat /\ Part(g, T) \in Nat
          /\ T = {} => Part(f, T) = 0 /\ Part(g, T) = 0
          /\ T # {} => /\ Part(f, T) = f[AnyOf(T)] + Part(f, T \ {AnyOf(T)})
                       /\ Part(g, T) = g[AnyOf(T)] + Part(g, T \ {AnyOf(T)})
    BY <1>1, PartForm
  <1>3. B = {}
    <2> SUFFICES ASSUME B # {} PROVE FALSE
      OBVIOUS
    <2>1. PICK n \in B : \A m \in B : n <= m
      <3>1. B \in SUBSET Nat
        OBVIOUS
      <3> HIDE DEF B
      <3> QED
        BY <3>1, LeastForm
    <2>2. PICK T \in SUBSET S : Cardinality(T) = n /\ ~Holds(T)
      OBVIOUS
    <2>3. T # {}
      <3>1. T = {} => Part(f, T) = 0 /\ Part(g, T) = 0
        BY <1>2
      <3>2. T = {} => Holds(T)
        BY <3>1
      <3> QED
        BY <2>2, <3>2
    <2> DEFINE a == AnyOf(T)
               R == T \ {AnyOf(T)}
    <2>4. R \in SUBSET S /\ Cardinality(R) = n - 1 /\ n - 1 \in Nat
      BY <1>1, <2>2, <2>3, AnyForm, LessForm
    <2>5. n - 1 \notin B
      <3>1. n \in Nat
        OBVIOUS
      <3> HIDE DEF B
      <3> QED
        BY <2>1, <3>1
    <2>6. Holds(R)
      BY <2>4, <2>5
    <2>7. a \in T /\ f[a] \in Nat /\ g[a] \in Nat /\ f[a] <= g[a]
      BY <2>3, AnyForm
    <2>8. Part(f, T) = f[a] + Part(f, R) /\ Part(g, T) = g[a] + Part(g, R)
      BY <1>2, <2>3
    <2>9. Part(f, R) \in Nat /\ Part(g, R) \in Nat
      BY <1>2, <2>4
    <2>10. \A x \in T : x = a \/ x \in R
      OBVIOUS
    <2> HIDE DEF a, R
    <2>11. f[a] + Part(f, R) <= g[a] + Part(g, R)
      BY <2>6, <2>7, <2>9
    <2>12. g[a] + Part(g, R) <= f[a] + Part(f, R) => f[a] = g[a] /\ Part(g, R) <= Part(f, R)
      BY <2>6, <2>7, <2>9
    <2>13. Holds(T)
      BY <2>6, <2>8, <2>10, <2>11, <2>12
    <2> QED
      BY <2>2, <2>13
  <1>4. Holds(S)
    BY <1>1, <1>3
  <1> QED
    BY <1>4

\* Of all attempts.
LEMMA TotalForm ==
  ASSUME NEW f, \A a \in Attempts : f[a] \in Nat
  PROVE  /\ Total(f) \in Nat
         /\ (\A a \in Attempts : f[a] = 0) => Total(f) = 0
  <1>1. Total(f) = Part(f, Attempts) /\ IsFiniteSet(Attempts)
    BY AttemptsForm DEF Total, Part
  <1>2. Total(f) \in Nat
    BY <1>1, PartForm
  <1>3. ASSUME \A a \in Attempts : f[a] = 0 PROVE Total(f) = 0
    <2>1. PICK C : C = {0}
      OBVIOUS
    <2>2. C \subseteq Int /\ 0 \in C /\ \A a \in C, b \in C : a + b \in C
      BY <2>1
    <2>3. \A a \in Attempts : f[a] \in C
      BY <1>3, <2>1
    <2>4. Part(f, Attempts) \in C
      BY <1>1, <2>2, <2>3, PartWithin
    <2> QED
      BY <1>1, <2>1, <2>4
  <1> QED
    BY <1>2, <1>3

LEMMA TotalOrder ==
  ASSUME NEW f, NEW g,
         \A a \in Attempts : f[a] \in Nat /\ g[a] \in Nat /\ f[a] <= g[a]
  PROVE  /\ Total(f) <= Total(g)
         /\ Total(g) <= Total(f) => \A a \in Attempts : f[a] = g[a]
  <1>1. /\ Total(f) = Part(f, Attempts) /\ Total(g) = Part(g, Attempts)
        /\ IsFiniteSet(Attempts)
    BY AttemptsForm DEF Total, Part
  <1> QED
    BY <1>1, PartOrder

(***************************************************************************)
(* The inductive invariant.                                                *)
(***************************************************************************)

Alive == {"UNKNOWN", "OPEN"}

\* The row of attempt a, what is recorded of its order, and the order; s are the
\* rows, v the orders.
OrderInv(s, v, a) ==
  /\ taken[a] <= filled[a] /\ filled[a] <= traded[a] /\ covered[a] <= taken[a]
  /\ v[a] # "NONE" => s[a] \in Alive \cup {"CLOSED"}
  /\ v[a] = "LIVE" => s[a] \in Alive
  /\ s[a] = "OPEN" => v[a] # "NONE"
  /\ v[a] \in {"NONE", "REJECTED", "RETRYABLE"} => traded[a] = 0
  /\ term[a] # "NONE" => term[a] = v[a]
  /\ s[a] = "CLOSED" => v[a] \in Ends

OneAlive(s) == \A a, b \in Attempts : s[a] \in Alive /\ s[b] \in Alive => a = b

\* An attempt is formed only after all earlier ones of its leg are over and have
\* traded nothing.
ChainInv(s) ==
  \A a, b \in Attempts :
    s[b] # "ABSENT" /\ a[1] = b[1] /\ a[2] < b[2] => s[a] = "CLOSED" /\ traded[a] = 0

\* The legs get their first attempts together.
FormedInv(s) ==
  /\ \A a \in Attempts : s[a] # "ABSENT" => a[1] \in ScheduleLegs
  /\ Exists(s) = {} \/ \A l \in ScheduleLegs : s[<<l, 0>>] # "ABSENT"

RowsInv(s, v) ==
  /\ \A a \in Attempts : OrderInv(s, v, a)
  /\ OneAlive(s)
  /\ ChainInv(s)
  /\ FormedInv(s)

\* As many attempts as there are legs have a fill.
Spent == Cardinality({a \in Attempts : taken[a] > 0}) >= Cardinality(ScheduleLegs)

\* c is a record with the fields of a run.
Run(c) ==
  c \in [step : {c.step}, read : {c.read}, ledger : {c.ledger}, target : {c.target},
         reason : {c.reason}, fill : {c.fill}, consumed : {c.consumed}, forced : {c.forced},
         facts : {c.facts}, account : {c.account}, seen : {c.seen}, closed : {c.closed},
         unknown : {c.unknown}]

\* The activation was not consumed when the run began, or only by its fills.
RunUsable(c) == Run(c) /\ (~c.consumed /\ consumed => Spent)

\* Everything that has traded is recorded, unless a reduction was not when the
\* ledger was read for the account.
FullLedger ==
  /\ adv.ledger[2] \in Nat
  /\ sold > adv.ledger[2] \/ \A a \in Attempts : filled[a] = traded[a]

\* A run under way, at most past its account facts.
Going(c) == RunUsable(c) /\ ~c.read /\ (c.account => FullLedger)

RunInv ==
  /\ Run(adv)
  /\ adv.step \in {"IDLE", "FIRST", "NEXT"} \cup Risk
  /\ adv.step = "FIRST" => Exists(state) = {} /\ ~adv.consumed
  /\ adv.step \in {"NEXT"} \cup Risk => Exists(state) # {}
  /\ adv.step = "NEXT" => adv.target[1] \in ScheduleLegs /\ ~adv.consumed
  /\ adv.step \notin {"IDLE", "CANCEL_RISK"} => RunUsable(adv) /\ ~adv.account
  /\ adv.step = "CANCEL_RISK" /\ adv.reason = "REPRICE" => program = "REPRICED"

\* While the account is read for a leg nothing of the schedule trades, and what is
\* read is what has traded less what is sold.
LedgerInv ==
  /\ \A a \in Attempts : cause[a] = "REPRICE" => program = "REPRICED"
  /\ sold <= Total(taken)
  /\ adv.step \in {"FIRST", "NEXT"} => adv.ledger \in Nat \X Nat
  /\ adv.step = "NEXT" =>
       /\ Active(state) = {}
       /\ adv.ledger[1] <= Total(filled)
       /\ adv.read => Total(traded) <= (adv.ledger[1] - adv.ledger[2]) + sold

Inv == TypeOK /\ RowsInv(state, venue) /\ RunInv /\ LedgerInv

(***************************************************************************)
(* What a step of _advance may do.                                         *)
(***************************************************************************)

\* s is what a handler may have made of the rows before it calls: entries that have
\* ended are closed, READY ones are dropped, the first attempts are formed.
Held(s) ==
  /\ s \in [Attempts -> AttemptStates]
  /\ \A a \in Attempts :
       \/ s[a] = state[a]
       \/ state[a] = "OPEN" /\ s[a] = "CLOSED" /\ venue[a] \in Ends
       \/ state[a] = "READY" /\ s[a] = "NOT_SUBMITTED"
       \/ /\ state[a] = "ABSENT" /\ s[a] \in {"READY", "NOT_SUBMITTED"}
          /\ a[1] \in ScheduleLegs /\ a[2] = 0
  /\ \A l \in ScheduleLegs : s[<<l, 0>>] # "ABSENT"

\* Attempt t may be called with the rows as s.
Callable(s, t) ==
  /\ Held(s)
  /\ t \in Attempts /\ t[1] \in ScheduleLegs
  /\ Active(s) = {} /\ ~Unprotected /\ FullLedger
  /\ consumed => Spent
  /\ \/ s[t] = "READY"
     \/ /\ s[t] = "ABSENT" /\ t[2] # 0 /\ ~consumed
        /\ s[Before(t)] = "CLOSED"
        /\ Retryable(Before(t)) \/ RepriceProven(Before(t))

Calls ==
  \E s, t : 
    /\ Callable(s, t)
    /\ \/ state' = [s EXCEPT ![t] = "READY"] /\ venue' = venue
       \/ state' = [s EXCEPT ![t] = "NOT_SUBMITTED"] /\ venue' = venue
       \/ state' = [s EXCEPT ![t] = "OPEN"] /\ venue' = [venue EXCEPT ![t] = "LIVE"]
       \/ /\ state' = [s EXCEPT ![t] = "UNKNOWN"]
          /\ venue' \in {venue, [venue EXCEPT ![t] = "LIVE"]}

Rests == (state' = state \/ Held(state')) /\ venue' = venue

RunWaits ==
  /\ RunUsable(adv') /\ ~adv'.account /\ consumed' = consumed
  /\ adv'.step = "NEXT" => /\ adv'.target[1] \in ScheduleLegs /\ ~adv'.consumed
                           /\ ~adv'.read /\ adv'.ledger = Ledger /\ Active(state') = {}

\* The run ends or waits for the risk facts or for the account facts of a leg.
RunGoesOn ==
  \/ adv' = Idle
  \/ /\ Run(adv') /\ Held(state')
     /\ \/ adv'.step = "CANCEL_RISK" /\ (adv'.reason = "REPRICE" => program = "REPRICED")
        \/ adv'.step \in {"CLOSE_RISK", "CYCLE_RISK", "NEXT"} /\ RunWaits

Causes == {"NONE", "REPRICE", "SLICE_EXPIRED", "TRIGGERED", "OTHER"}

Outcome ==
  /\ Rests \/ (Calls /\ adv' = Idle)
  /\ RunGoesOn
  /\ consumed' \in BOOLEAN /\ sliceDue' \in BOOLEAN
  /\ why' \in [Attempts -> {"FIRST", "RETRY", "REPRICE"}]
  /\ cancel' \in [Attempts -> {"NONE", "OPEN", "CLOSED", "FAILED"}]
  /\ cause' \in [Attempts -> Causes]
  /\ \A a \in Attempts : cause'[a] = "REPRICE" => program = "REPRICED"

\* What a step of _advance leaves alone.
Frame ==
  /\ forced' \in BOOLEAN
  /\ UNCHANGED <<program, term, counted, filled, protection, released, expired, traded, sold>>

(***************************************************************************)
(* Runs and rows.                                                          *)
(***************************************************************************)

LEMMA IdleForm == Run(Idle) /\ Idle.step = "IDLE" /\ ~Idle.consumed
  BY DEF Run, Idle

LEMMA SnapshotUsable ==
  Going(Snapshot) /\ ~Snapshot.account /\ Snapshot.consumed = consumed
  BY DEF Run, RunUsable, Going, Snapshot, Idle

LEMMA AwaitForm ==
  ASSUME NEW c, Run(c), NEW step
  PROVE  /\ Run(Await(step, c))
         /\ Await(step, c).step = step
         /\ Await(step, c).consumed = c.consumed
         /\ Await(step, c).target = c.target
         /\ Await(step, c).reason = c.reason
         /\ Await(step, c).read = c.read
         /\ Await(step, c).account = c.account
         /\ Await(step, c).ledger = Ledger
  BY DEF Run, Await

\* What a handler keeps in the run leaves its snapshot alone.
LEMMA RunKept ==
  ASSUME NEW c, Going(c), NEW v
  PROVE  /\ Going([c EXCEPT !.facts = v]) /\ [c EXCEPT !.facts = v].account = c.account
         /\ Going([c EXCEPT !.target = v]) /\ [c EXCEPT !.target = v].account = c.account
         /\ [c EXCEPT !.target = v].consumed = c.consumed /\ [c EXCEPT !.target = v].target = v
         /\ Going(Judged(c)) /\ Judged(c).account = c.account
  BY DEF Run, RunUsable, Going, Judged

LEMMA TargetedRun ==
  ASSUME NEW c, Run(c), NEW v, NEW w
  PROVE  /\ Run([c EXCEPT !.target = v, !.reason = w])
         /\ [c EXCEPT !.target = v, !.reason = w].reason = w
  BY DEF Run

LEMMA ResumedUsable ==
  ASSUME RunInv, adv.step \notin {"IDLE", "CANCEL_RISK"}, NEW facts
  PROVE  /\ Going(Resumed(facts)) /\ ~Resumed(facts).account
         /\ Resumed(facts).consumed = adv.consumed
  BY DEF Run, RunUsable, Going, Resumed, RunInv

LEMMA StateHeld ==
  ASSUME Inv, Exists(state) # {}
  PROVE  Held(state)
  BY DEF Inv, TypeOK, RowsInv, FormedInv, Held

LEMMA DroppedHeld ==
  ASSUME NEW s, Held(s)
  PROVE  Held(Dropped(s))
  <1>1. Dropped(s) \in [Attempts -> AttemptStates]
    BY DEF Held, Dropped, AttemptStates
  <1>2. \A a \in Attempts : Dropped(s)[a] = IF s[a] = "READY" THEN "NOT_SUBMITTED" ELSE s[a]
    BY DEF Dropped
  <1>3. \A l \in ScheduleLegs : Dropped(s)[<<l, 0>>] # "ABSENT"
    BY <1>2, AttemptsForm, LegsForm DEF Held
  <1>4. ASSUME NEW a \in Attempts, Dropped(s)[a] # state[a]
        PROVE  \/ state[a] = "OPEN" /\ Dropped(s)[a] = "CLOSED" /\ venue[a] \in Ends
               \/ state[a] = "READY" /\ Dropped(s)[a] = "NOT_SUBMITTED"
               \/ /\ state[a] = "ABSENT" /\ Dropped(s)[a] \in {"READY", "NOT_SUBMITTED"}
                  /\ a[1] \in ScheduleLegs /\ a[2] = 0
    BY <1>2, <1>4 DEF Held
  <1> QED
    BY <1>1, <1>3, <1>4 DEF Held

LEMMA RejectionsHeld ==
  ASSUME Inv, Exists(state) # {}
  PROVE  Held(RejectionsClosed(state))
  <1>1. RejectionsClosed(state) \in [Attempts -> AttemptStates]
    BY DEF Inv, TypeOK, RejectionsClosed, AttemptStates
  <1>2. \A a \in Attempts :
          RejectionsClosed(state)[a] =
            IF state[a] = "OPEN" /\ Retryable(a) THEN "CLOSED" ELSE state[a]
    BY DEF RejectionsClosed
  <1>3. ASSUME NEW a \in Attempts, Retryable(a)
        PROVE  venue[a] \in Ends
    BY <1>3 DEF Inv, TypeOK, RowsInv, OrderInv, Retryable, Ends
  <1>4. \A l \in ScheduleLegs : RejectionsClosed(state)[<<l, 0>>] # "ABSENT"
    BY <1>2, AttemptsForm, LegsForm DEF Inv, RowsInv, FormedInv
  <1> QED
    BY <1>1, <1>2, <1>3, <1>4 DEF Held

LEMMA ProvenHeld ==
  ASSUME Inv, NEW s, Held(s), NEW facts
  PROVE  Held(ProvenClosed(s, facts))
  <1> DEFINE p == ProvenClosed(s, facts)
  <1>1. p \in [Attempts -> AttemptStates]
    BY DEF Held, ProvenClosed, AttemptStates
  <1>2. \A a \in Attempts : p[a] = s[a] \/ (s[a] = "OPEN" /\ p[a] = "CLOSED" /\ FillsComplete(a))
    BY DEF ProvenClosed
  <1> HIDE DEF p
  <1>3. ASSUME NEW a \in Attempts, s[a] = "OPEN", FillsComplete(a)
        PROVE  state[a] = "OPEN" /\ venue[a] \in Ends
    BY <1>3 DEF Held, Inv, TypeOK, RowsInv, OrderInv, FillsComplete
  <1>4. \A l \in ScheduleLegs : p[<<l, 0>>] # "ABSENT"
    BY <1>2, AttemptsForm, LegsForm DEF Held
  <1>5. Held(p)
    BY <1>1, <1>2, <1>3, <1>4 DEF Held
  <1> QED
    BY <1>5 DEF p

LEMMA MaterializedHeld ==
  ASSUME Inv, Exists(state) = {}
  PROVE  Held(Materialized)
  <1>1. Materialized \in [Attempts -> AttemptStates]
    BY DEF Materialized, AttemptStates
  <1>2. \A a \in Attempts : state[a] = "ABSENT"
    BY DEF Exists
  <1>3. \A l \in ScheduleLegs : Materialized[<<l, 0>>] = "READY"
    BY AttemptsForm, LegsForm DEF Materialized
  <1> QED
    BY <1>1, <1>2, <1>3 DEF Held, Materialized

(***************************************************************************)
(* Every part of _advance has an outcome.                                  *)
(***************************************************************************)

LEMMA ReturnOutcome ==
  ASSUME Inv, NEW s, s = state \/ Held(s), Return(s)
  PROVE  Outcome
  BY DEF Return, Outcome, Rests, RunGoesOn, Inv, LedgerInv, TypeOK, Causes

LEMMA SendCancelOutcome ==
  ASSUME Inv, NEW s, Held(s), NEW a, NEW r, SendCancel(s, a, r), consumed' \in BOOLEAN,
         r = "REPRICE" => program = "REPRICED"
  PROVE  Outcome
  <1>1. cancel' \in [Attempts -> {"NONE", "OPEN", "CLOSED", "FAILED"}]
    BY DEF SendCancel, Inv, TypeOK
  <1>2. /\ cause' \in [Attempts -> Causes]
        /\ \A b \in Attempts : cause'[b] = "REPRICE" => program = "REPRICED"
    <2>1. cause \in [Attempts -> Causes] /\ CauseOf(r) \in Causes
      BY DEF Inv, TypeOK, CauseOf, Causes
    <2>2. CauseOf(r) = "REPRICE" => program = "REPRICED"
      BY DEF CauseOf
    <2>3. cause' = [cause EXCEPT ![a] = CauseOf(r)]
      BY DEF SendCancel
    <2> QED
      BY <2>1, <2>2, <2>3 DEF Inv, LedgerInv
  <1> QED
    BY <1>1, <1>2 DEF SendCancel, Outcome, Rests, RunGoesOn, Inv, TypeOK

LEMMA ApplyOutcome ==
  ASSUME Inv, NEW s, Held(s), NEW c, Going(c), NEW r, NEW inv, Apply(s, c, r, inv),
         r = "REPRICE" => program = "REPRICED"
  PROVE  Outcome
  <1> DEFINE dropped == IF r \in Final THEN Dropped(s) ELSE s
  <1>1. Held(dropped)
    BY DroppedHeld
  <1>2. consumed' \in BOOLEAN
    BY DEF Apply, ConsumedBy, Inv, TypeOK
  <1> HIDE DEF dropped
  <1>3. CASE /\ state' = dropped /\ adv' = Idle
             /\ UNCHANGED <<why, cancel, cause, sliceDue, venue>>
    BY <1>1, <1>2, <1>3 DEF Outcome, Rests, RunGoesOn, Inv, LedgerInv, TypeOK, Causes
  <1>4. CASE \E a : SendCancel(dropped, a, r)
    BY <1>1, <1>2, <1>4, SendCancelOutcome
  <1>5. ASSUME NEW a,
               state' = dropped,
               adv' = Await("CANCEL_RISK", [c EXCEPT !.target = a, !.reason = CauseOf(r)]),
               UNCHANGED <<why, cancel, cause, sliceDue, venue>>
        PROVE  Outcome
    <2>1. Run(adv') /\ adv'.step = "CANCEL_RISK" /\ adv'.reason = CauseOf(r)
      <3> DEFINE d == [c EXCEPT !.target = a, !.reason = CauseOf(r)]
      <3>1. Run(c)
        BY DEF RunUsable, Going
      <3>2. Run(d) /\ d.reason = CauseOf(r)
        BY <3>1, TargetedRun
      <3> HIDE DEF d
      <3>3. Run(Await("CANCEL_RISK", d)) /\ Await("CANCEL_RISK", d).step = "CANCEL_RISK"
            /\ Await("CANCEL_RISK", d).reason = d.reason
        BY <3>2, AwaitForm
      <3> QED
        BY <1>5, <3>2, <3>3 DEF d
    <2>2. adv'.reason = "REPRICE" => program = "REPRICED"
      BY <2>1 DEF CauseOf
    <2> QED
      BY <1>1, <1>2, <1>5, <2>1, <2>2
      DEF Outcome, Rests, RunGoesOn, Inv, LedgerInv, TypeOK, Causes
  <1> QED
    BY <1>3, <1>4, <1>5 DEF Apply, dropped

\* The next attempt belongs to the leg, and it is READY or an attempt precedes it.
LEMMA TargetForm ==
  ASSUME NEW s, Held(s), NEW l \in ScheduleLegs, NEW t \in Target(s, l)
  PROVE  /\ t[1] = l
         /\ t \in Attempts /\ s[t] = "ABSENT" => t[2] # 0
  <1>1. t[1] = l
    BY DEF Target, Latest, Next1
  <1>2. ASSUME t \in Attempts, s[t] = "ABSENT" PROVE t[2] # 0
    BY <1>1, <1>2, AttemptsForm DEF Held
  <1> QED
    BY <1>1, <1>2

LEMMA CallOutcome ==
  ASSUME Inv, NEW s, Held(s), NEW c, Going(c), ~c.consumed,
         NEW t, t[1] \in ScheduleLegs, t \in Target(s, t[1]),
         Active(s) = {}, ~Unprotected, FullLedger, CallTarget(s, t)
  PROVE  Outcome
  <1>1. /\ adv' = Idle /\ consumed' = consumed /\ cancel' = cancel /\ cause' = cause
        /\ why' = why \/ why' = [why EXCEPT ![t] = ReasonOf(t)]
        /\ sliceDue' = sliceDue \/ sliceDue' = FALSE
    BY DEF CallTarget, CallAttempt
  <1>2. why' \in [Attempts -> {"FIRST", "RETRY", "REPRICE"}]
    BY <1>1 DEF ReasonOf, Inv, TypeOK
  <1>3. \/ state' = [s EXCEPT ![t] = "READY"] /\ venue' = venue
        \/ state' = [s EXCEPT ![t] = "NOT_SUBMITTED"] /\ venue' = venue
        \/ state' = [s EXCEPT ![t] = "OPEN"] /\ venue' = [venue EXCEPT ![t] = "LIVE"]
        \/ /\ state' = [s EXCEPT ![t] = "UNKNOWN"]
           /\ venue' \in {venue, [venue EXCEPT ![t] = "LIVE"]}
    BY DEF CallTarget, CallAttempt
  <1>4. Rests \/ Calls
    <2>1. CASE t \in Attempts
      <3>1. consumed => Spent
        BY DEF RunUsable, Going
      <3>2. Callable(s, t)
        BY <2>1, <3>1, TargetForm
        DEF Callable, CallTarget, SuccessorAllowed, RetryAllowed, RepriceAllowed
      <3> QED
        BY <1>3, <3>2 DEF Calls
    <2>2. CASE t \notin Attempts
      <3>1. state' = s /\ venue' = venue
        BY <1>3, <2>2 DEF Held, Inv, TypeOK
      <3> QED
        BY <3>1 DEF Rests
    <2> QED
      BY <2>1, <2>2
  <1> QED
    BY <1>1, <1>2, <1>4 DEF Outcome, RunGoesOn, Inv, LedgerInv, TypeOK, Causes

\* A decision without a reason is made with every recorded fill protected.
LEMMA NoReason ==
  ASSUME NEW s, NEW c, NEW inv, NEW moved, Reason(s, c, inv, moved) = "NONE"
  PROVE  ~Unprotected
  BY DEF Reason

\* Only a repriced order is cancelled for a new price.
LEMMA RepriceReason ==
  ASSUME NEW s, NEW c, NEW inv, NEW moved, Reason(s, c, inv, moved) = "REPRICE"
  PROVE  program = "REPRICED"
  BY DEF Reason, RepriceDue

LEMMA RecheckOutcome ==
  ASSUME Inv, NEW s, Held(s), NEW c, Going(c), ~c.consumed,
         FullLedger, NEW t, t[1] \in ScheduleLegs, Recheck(s, c, t)
  PROVE  Outcome
  <1>1. CASE ~StillWanted(s, c, t)
    BY <1>1, ReturnOutcome DEF Recheck
  <1>2. CASE StillWanted(s, c, t)
    <2>1. PICK j \in Judgements[program] :
            IF Reason(s, c, j.invalid, j.moved) # "NONE"
            THEN Apply(s, c, Reason(s, c, j.invalid, j.moved), j.invalid)
            ELSE IF MarketAllows(s, t, j) THEN Submit(s, t) ELSE Return(s)
      BY <1>2 DEF Recheck
    <2>2. CASE Reason(s, c, j.invalid, j.moved) # "NONE"
      BY <2>1, <2>2, ApplyOutcome, RepriceReason
    <2>3. CASE Return(s)
      BY <2>3, ReturnOutcome
    <2>4. CASE Reason(s, c, j.invalid, j.moved) = "NONE" /\ Submit(s, t)
      <3>1. \/ CallTarget(s, t) \/ Return(s) \/ Return(Dropped(s))
        BY <2>4 DEF Submit, Checks
      <3>2. ~Unprotected
        BY <2>4, NoReason
      <3> QED
        BY <1>2, <3>1, <3>2, CallOutcome, ReturnOutcome, DroppedHeld DEF StillWanted
    <2> QED
      BY <2>1, <2>2, <2>3, <2>4
  <1> QED
    BY <1>1, <1>2

LEMMA ReadAccountOutcome ==
  ASSUME Inv, NEW s, Held(s), Active(s) = {}, NEW c, Going(c), ~c.consumed, ~c.account,
         NEW t, t[1] \in ScheduleLegs, NEW j, ReadAccount(s, c, t, j)
  PROVE  Outcome
  <1>1. CASE Return(s)
    BY <1>1, ReturnOutcome
  <1>2. CASE /\ state' = s
             /\ adv' = Await("NEXT", [c EXCEPT !.target = t])
             /\ UNCHANGED <<consumed, why, cancel, cause, sliceDue, venue>>
    <2> DEFINE d == [c EXCEPT !.target = t]
    <2>1. Going(d) /\ ~d.consumed /\ d.target = t /\ ~d.account
      <3>1. Going(d) /\ d.consumed = c.consumed /\ d.target = t /\ d.account = c.account
        BY RunKept
      <3> QED
        BY <3>1
    <2> HIDE DEF d
    <2>2. /\ Run(adv') /\ adv'.step = "NEXT"
          /\ adv'.consumed = d.consumed /\ adv'.target = t
          /\ adv'.account = d.account /\ adv'.read = d.read /\ adv'.ledger = Ledger
      <3>1. adv' = Await("NEXT", d)
        BY <1>2 DEF d
      <3> QED
        BY <2>1, <3>1, AwaitForm DEF RunUsable, Going
    <2>3. RunWaits
      BY <1>2, <2>1, <2>2 DEF RunWaits, RunUsable, Going
    <2>4. RunGoesOn
      BY <1>2, <2>2, <2>3 DEF RunGoesOn
    <2> QED
      BY <1>2, <2>4 DEF Outcome, Rests, Inv, LedgerInv, TypeOK, Causes
  <1> QED
    BY <1>1, <1>2 DEF ReadAccount

LEMMA TargetsForm ==
  ASSUME NEW s, Held(s), NEW t \in Targets(s)
  PROVE  t[1] \in ScheduleLegs
  <1> DEFINE wanted == {l \in ScheduleLegs : Wanted(s, l)}
  <1>1. wanted # {} /\ t \in Target(s, Min(wanted))
    BY DEF Targets
  <1>2. Min(wanted) \in ScheduleLegs
    BY <1>1, LegsForm, MinForm
  <1> QED
    BY <1>1, <1>2, TargetForm

LEMMA NextLegOutcome ==
  ASSUME Inv, NEW s, Held(s), NEW c, Going(c), NEW j, NextLeg(s, c, j)
  PROVE  Outcome
  <1>1. CASE Return(s)
    BY <1>1, ReturnOutcome
  <1>2. ASSUME ~c.consumed, Active(s) = {}, NEW t \in Targets(s),
               (c.account /\ Recheck(s, c, t)) \/ (~c.account /\ ReadAccount(s, c, t, j))
        PROVE  Outcome
    BY <1>2, TargetsForm, RecheckOutcome, ReadAccountOutcome DEF Going
  <1>3. CASE /\ consumed' = (consumed \/ SlicesCompleted(s))
             /\ state' = s /\ adv' = Idle
             /\ UNCHANGED <<why, cancel, cause, sliceDue, venue>>
    <2>1. consumed' \in BOOLEAN
      BY <1>3 DEF SlicesCompleted, Inv, TypeOK
    <2> QED
      BY <1>3, <2>1 DEF Outcome, Rests, RunGoesOn, Inv, LedgerInv, TypeOK, Causes
  <1> QED
    BY <1>1, <1>2, <1>3 DEF NextLeg

LEMMA ManageOutcome ==
  ASSUME Inv, NEW s, Held(s), NEW c, Going(c), Manage(s, c)
  PROVE  Outcome
  BY ApplyOutcome, NextLegOutcome, RepriceReason DEF Manage

\* The run waits for the risk facts.
LEMMA AwaitOutcome ==
  ASSUME Inv, NEW s, Held(s), NEW c, Going(c), ~c.account,
         NEW step \in {"CLOSE_RISK", "CYCLE_RISK"},
         state' = s, adv' = Await(step, c),
         UNCHANGED <<consumed, why, cancel, cause, sliceDue, venue>>
  PROVE  Outcome
  <1>1. /\ Run(adv') /\ adv'.step = step /\ adv'.consumed = c.consumed
        /\ adv'.account = c.account
    BY AwaitForm DEF RunUsable, Going
  <1>2. RunWaits
    BY <1>1 DEF RunWaits, RunUsable, Going
  <1>3. RunGoesOn
    BY <1>1, <1>2 DEF RunGoesOn
  <1> QED
    BY <1>3 DEF Outcome, Rests, Inv, LedgerInv, TypeOK, Causes

LEMMA JudgeOutcome ==
  ASSUME Inv, NEW s, Held(s), NEW c, Going(c), ~c.account, JudgeCycle(s, c)
  PROVE  Outcome
  <1>1. CASE Manage(s, c) \/ Manage(s, Judged(c))
    BY <1>1, ManageOutcome, RunKept
  <1>2. CASE Manage(s, Judged([c EXCEPT !.facts = cache]))
    <2>1. Going([c EXCEPT !.facts = cache])
      BY RunKept
    <2>2. Going(Judged([c EXCEPT !.facts = cache]))
      BY <2>1, RunKept
    <2> QED
      BY <1>2, <2>2, ManageOutcome
  <1>3. CASE /\ state' = s /\ adv' = Await("CYCLE_RISK", c)
             /\ UNCHANGED <<consumed, why, cancel, cause, sliceDue, venue>>
    BY <1>3, AwaitOutcome
  <1> QED
    BY <1>1, <1>2, <1>3 DEF JudgeCycle

(***************************************************************************)
(* Every outcome keeps the invariant.                                      *)
(***************************************************************************)

LEMMA HeldRows ==
  ASSUME Inv, NEW s, Held(s)
  PROVE  RowsInv(s, venue)
  <1>1. ASSUME NEW a \in Attempts PROVE OrderInv(s, venue, a)
    BY DEF Held, Inv, RowsInv, OrderInv, TypeOK, Alive, Ends
  <1>2. OneAlive(s)
    BY DEF Held, Inv, RowsInv, OneAlive, Alive
  <1>3. ChainInv(s)
    <2> SUFFICES ASSUME NEW a \in Attempts, NEW b \in Attempts,
                        s[b] # "ABSENT", a[1] = b[1], a[2] < b[2]
                 PROVE  s[a] = "CLOSED" /\ traded[a] = 0
      BY DEF ChainInv
    <2>1. state[b] # "ABSENT"
      BY AttemptsForm DEF Held
    <2>2. state[a] = "CLOSED" /\ traded[a] = 0
      BY <2>1 DEF Inv, RowsInv, ChainInv
    <2> QED
      BY <2>2 DEF Held
  <1>4. FormedInv(s)
    BY DEF Held, Inv, RowsInv, FormedInv
  <1> QED
    BY <1>1, <1>2, <1>3, <1>4 DEF RowsInv

\* An attempt that was cancelled for a new price has traded nothing: no attempt
\* of its leg has a recorded fill, so nothing is sold, and the ledger is full.
LEMMA RepricedNothing ==
  ASSUME Inv, NEW s, RowsInv(s, venue), FullLedger, NEW b \in Attempts, NEW t \in Attempts,
         b[1] = t[1], b[2] = t[2] - 1, s[t] = "ABSENT", s[b] = "CLOSED", RepriceProven(b)
  PROVE  traded[b] = 0
  <1>1. program = "REPRICED" /\ filled[b] = 0
    BY DEF RepriceProven, Inv, LedgerInv
  <1>2. ScheduleLegs = {1}
    BY <1>1 DEF ScheduleLegs
  <1>3. ASSUME NEW a \in Attempts PROVE taken[a] = 0
    <2>1. OrderInv(s, venue, a) /\ taken[a] \in Nat /\ filled[a] \in Nat /\ traded[a] \in Nat
      BY BoundsAssumption DEF RowsInv, Inv, TypeOK
    <2>2. s[a] = "ABSENT" \/ a[1] = t[1]
      <3>1. s[b] # "ABSENT" /\ b[1] = 1
        BY <1>2 DEF RowsInv, FormedInv
      <3> QED
        BY <1>2, <3>1 DEF RowsInv, FormedInv
    <2>3. CASE s[a] = "ABSENT"
      <3>1. venue[a] = "NONE"
        BY <2>1, <2>3 DEF OrderInv, Alive
      <3> QED
        BY <2>1, <3>1 DEF OrderInv
    <2>4. CASE s[a] # "ABSENT"
      <3>1. /\ a[2] \in Nat /\ b[2] \in Nat /\ t[2] \in Nat
            /\ a = <<a[1], a[2]>> /\ b = <<b[1], b[2]>> /\ t = <<t[1], t[2]>>
        BY AttemptsForm
      <3>2. ~(t[2] < a[2])
        BY <2>2, <2>4 DEF RowsInv, ChainInv
      <3>3. a[2] # t[2]
        BY <2>2, <2>4, <3>1
      <3>4. a[2] < b[2] \/ a[2] = b[2]
        BY <3>1, <3>2, <3>3
      <3>5. CASE a[2] < b[2]
        <4>1. traded[a] = 0
          BY <2>2, <2>4, <3>5 DEF RowsInv, ChainInv
        <4> QED
          BY <2>1, <4>1 DEF OrderInv
      <3>6. CASE a[2] = b[2]
        <4>1. a = b
          BY <2>2, <2>4, <3>1, <3>6
        <4> QED
          BY <1>1, <2>1, <4>1 DEF OrderInv
      <3> QED
        BY <3>4, <3>5, <3>6
    <2> QED
      BY <2>3, <2>4
  <1>4. Total(taken) = 0
    BY <1>3, TotalForm
  <1>5. ~(sold > adv.ledger[2])
    <2>1. sold \in Nat /\ sold <= 0 /\ adv.ledger[2] \in Nat
      BY <1>4 DEF Inv, TypeOK, LedgerInv, FullLedger
    <2> QED
      BY <2>1
  <1>6. filled[b] = traded[b]
    BY <1>5 DEF FullLedger
  <1> QED
    BY <1>1, <1>6

\* An attempt that may be called has no order yet, and those before it in its leg
\* are over and have traded nothing.
LEMMA CallableForm ==
  ASSUME Inv, NEW s, NEW t, Callable(s, t)
  PROVE  /\ s \in [Attempts -> AttemptStates] /\ RowsInv(s, venue)
         /\ t \in Attempts /\ t[1] \in ScheduleLegs
         /\ s[t] \in {"READY", "ABSENT"} /\ venue[t] = "NONE"
         /\ term[t] = "NONE" /\ traded[t] = 0 /\ taken[t] = 0 /\ filled[t] = 0
         /\ \A a \in Attempts : s[a] \notin Alive
         /\ \A a \in Attempts :
              a[1] = t[1] /\ a[2] < t[2] => s[a] = "CLOSED" /\ traded[a] = 0
         /\ \A b \in Attempts : t[1] = b[1] /\ t[2] < b[2] => s[b] = "ABSENT"
  <1>1. /\ s \in [Attempts -> AttemptStates] /\ RowsInv(s, venue)
        /\ t \in Attempts /\ t[1] \in ScheduleLegs /\ s[t] \in {"READY", "ABSENT"}
    BY HeldRows DEF Callable, Held
  <1>2. venue[t] = "NONE"
    BY <1>1 DEF RowsInv, OrderInv, Alive
  <1>3. term[t] = "NONE" /\ traded[t] = 0
    BY <1>1, <1>2 DEF RowsInv, OrderInv
  <1>4. taken[t] = 0 /\ filled[t] = 0
    BY <1>1, <1>3 DEF RowsInv, OrderInv, Inv, TypeOK
  <1>5. \A a \in Attempts : s[a] \notin Alive
    BY DEF Callable, Active, Alive
  <1>6. ASSUME NEW a \in Attempts, a[1] = t[1], a[2] < t[2]
        PROVE  s[a] = "CLOSED" /\ traded[a] = 0
    <2>1. CASE s[t] = "READY"
      BY <1>1, <1>6, <2>1 DEF RowsInv, ChainInv
    <2>2. CASE s[t] # "READY"
      <3> DEFINE b == Before(t)
      <3>1. b \in Attempts /\ b[1] = t[1] /\ b[2] = t[2] - 1 /\ s[b] = "CLOSED"
        BY <2>2, <1>1, AttemptsForm DEF Callable, Before
      <3>2. s[t] = "ABSENT" /\ (Retryable(b) \/ RepriceProven(b)) /\ FullLedger
        BY <2>2 DEF Callable
      <3>3. traded[b] = 0
        <4>1. CASE Retryable(b)
          BY <1>1, <3>1, <4>1 DEF RowsInv, OrderInv, Retryable
        <4>2. CASE RepriceProven(b)
          BY <1>1, <3>1, <3>2, <4>2, RepricedNothing
        <4> QED
          BY <3>2, <4>1, <4>2
      <3> HIDE DEF b
      <3>4. a[2] \in Nat /\ b[2] \in Nat /\ t[2] \in Nat /\ a = <<a[1], a[2]>> /\ b = <<b[1], b[2]>>
        BY <1>1, <3>1, AttemptsForm
      <3>5. a = b \/ a[2] < b[2]
        BY <1>6, <3>1, <3>4
      <3> QED
        BY <1>1, <1>6, <3>1, <3>3, <3>5 DEF RowsInv, ChainInv
    <2> QED
      BY <2>1, <2>2
  <1>7. ASSUME NEW b \in Attempts, t[1] = b[1], t[2] < b[2] PROVE s[b] = "ABSENT"
    BY <1>1, <1>7 DEF RowsInv, ChainInv
  <1> QED
    BY <1>1, <1>2, <1>3, <1>4, <1>5, <1>6, <1>7

LEMMA CalledRows ==
  ASSUME Inv, NEW s, NEW t, Callable(s, t), NEW x, NEW v,
         \/ x \in {"READY", "NOT_SUBMITTED", "UNKNOWN"} /\ v = venue
         \/ x \in {"OPEN", "UNKNOWN"} /\ v = [venue EXCEPT ![t] = "LIVE"]
  PROVE  /\ RowsInv([s EXCEPT ![t] = x], v)
         /\ [s EXCEPT ![t] = x] \in [Attempts -> AttemptStates]
         /\ v \in [Attempts -> Ends \cup {"NONE", "LIVE"}]
  <1> DEFINE r == [s EXCEPT ![t] = x]
  <1>1. x \in AttemptStates \ {"ABSENT", "CLOSED"}
    BY DEF AttemptStates
  <1>2. /\ r \in [Attempts -> AttemptStates]
        /\ t \in Attempts /\ r[t] = x
        /\ \A a \in Attempts : a # t => r[a] = s[a]
    BY <1>1, CallableForm
  <1>3. /\ v \in [Attempts -> Ends \cup {"NONE", "LIVE"}]
        /\ \A a \in Attempts : a # t => v[a] = venue[a]
        /\ v[t] = "NONE" \/ (v[t] = "LIVE" /\ x \in Alive)
        /\ x = "OPEN" => v[t] = "LIVE"
    BY <1>2, CallableForm DEF Inv, TypeOK, Alive
  <1> HIDE DEF r
  <1>4. ASSUME NEW a \in Attempts PROVE OrderInv(r, v, a)
    <2>1. CASE a = t
      BY <1>1, <1>2, <1>3, <2>1, CallableForm DEF RowsInv, OrderInv, Alive
    <2>2. CASE a # t
      BY <1>2, <1>3, <2>2, CallableForm DEF RowsInv, OrderInv
    <2> QED
      BY <2>1, <2>2
  <1>5. OneAlive(r)
    BY <1>2, CallableForm DEF OneAlive
  <1>6. ChainInv(r)
    <2> SUFFICES ASSUME NEW a \in Attempts, NEW b \in Attempts,
                        r[b] # "ABSENT", a[1] = b[1], a[2] < b[2]
                 PROVE  r[a] = "CLOSED" /\ traded[a] = 0
      BY DEF ChainInv
    <2>1. a # t
      BY <1>2, CallableForm, AttemptsForm
    <2>2. CASE b = t
      BY <1>2, <2>1, <2>2, CallableForm
    <2>3. CASE b # t
      BY <1>2, <2>1, <2>3, CallableForm DEF RowsInv, ChainInv
    <2> QED
      BY <2>2, <2>3
  <1>7. FormedInv(r)
    <2>1. \A l \in ScheduleLegs : s[<<l, 0>>] # "ABSENT"
      BY DEF Callable, Held
    <2>2. \A l \in ScheduleLegs : r[<<l, 0>>] # "ABSENT"
      BY <1>1, <1>2, <2>1, LegsForm, AttemptsForm
    <2>3. \A a \in Attempts : r[a] # "ABSENT" => a[1] \in ScheduleLegs
      BY <1>2, CallableForm DEF RowsInv, FormedInv
    <2> QED
      BY <2>2, <2>3 DEF FormedInv
  <1>8. RowsInv(r, v)
    BY <1>4, <1>5, <1>6, <1>7 DEF RowsInv
  <1> QED
    BY <1>2, <1>3, <1>8 DEF r

LEMMA FirstLeg == \E l \in ScheduleLegs : <<l, 0>> \in Attempts
  <1>1. 1 \in ScheduleLegs
    BY BoundsAssumption DEF ScheduleLegs, Legs
  <1> QED
    BY <1>1, LegsForm, AttemptsForm

LEMMA HeldExists ==
  ASSUME NEW s, Held(s)
  PROVE  Exists(s) # {}
  BY FirstLeg DEF Held, Exists

LEMMA OutcomeRows ==
  ASSUME Inv, Outcome
  PROVE  /\ state' \in [Attempts -> AttemptStates]
         /\ venue' \in [Attempts -> Ends \cup {"NONE", "LIVE"}]
         /\ RowsInv(state', venue')
  <1>1. CASE state' = state /\ venue' = venue
    BY <1>1 DEF Inv, TypeOK
  <1>2. CASE Held(state') /\ venue' = venue
    <2>1. RowsInv(state', venue)
      BY <1>2, HeldRows
    <2> QED
      BY <1>2, <2>1 DEF Held, Inv, TypeOK
  <1>3. CASE Calls
    <2>1. PICK s, t, x, v :
            /\ Callable(s, t)
            /\ \/ x \in {"READY", "NOT_SUBMITTED", "UNKNOWN"} /\ v = venue
               \/ x \in {"OPEN", "UNKNOWN"} /\ v = [venue EXCEPT ![t] = "LIVE"]
            /\ state' = [s EXCEPT ![t] = x] /\ venue' = v
      BY <1>3 DEF Calls
    <2> QED
      BY <2>1, CalledRows
  <1> QED
    BY <1>1, <1>2, <1>3 DEF Outcome, Rests

LEMMA OutcomeKeeps ==
  ASSUME Inv, Outcome, Frame
  PROVE  Inv'
  <1>1. TypeOK'
    BY OutcomeRows DEF Outcome, Frame, protection, Inv, TypeOK, Causes
  <1>2. RowsInv(state, venue)'
    <2>1. RowsInv(state', venue')
      BY OutcomeRows
    <2> QED
      BY <2>1 DEF Frame, protection, RowsInv, OrderInv, OneAlive, ChainInv, FormedInv, ScheduleLegs
  <1>3. RunInv'
    <2>1. CASE adv' = Idle
      BY <2>1, IdleForm DEF RunInv, Risk
    <2>2. CASE /\ Run(adv') /\ Held(state')
               /\ \/ adv'.step = "CANCEL_RISK" /\ (adv'.reason = "REPRICE" => program = "REPRICED")
                  \/ adv'.step \in {"CLOSE_RISK", "CYCLE_RISK", "NEXT"} /\ RunWaits
      <3>1. Exists(state') # {}
        BY <2>2, HeldExists
      <3>2. Spent' = Spent /\ ScheduleLegs' = ScheduleLegs
        BY DEF Frame, protection, Spent, ScheduleLegs
      <3> QED
        BY <2>2, <3>1, <3>2 DEF RunInv, RunWaits, RunUsable, Run, Risk, Exists, Frame
    <2> QED
      BY <2>1, <2>2 DEF Outcome, RunGoesOn
  <1>4. LedgerInv'
    <2>1. \A a \in Attempts : cause'[a] = "REPRICE" => program' = "REPRICED"
      BY DEF Outcome, Frame
    <2>2. sold' <= Total(taken')
      BY DEF Inv, LedgerInv, Frame, protection
    <2>3. adv'.step # "FIRST"
      BY IdleForm DEF Outcome, RunGoesOn
    <2>4. ASSUME adv'.step = "NEXT"
          PROVE  /\ adv'.ledger \in Nat \X Nat
                 /\ Active(state') = {}
                 /\ adv'.ledger[1] <= Total(filled')
                 /\ ~adv'.read
      <3>1. ~adv'.read /\ adv'.ledger = Ledger /\ Active(state') = {}
        BY <2>4, IdleForm DEF Outcome, RunGoesOn, RunWaits
      <3>2. Total(filled) \in Nat /\ reduced \in Nat /\ filled' = filled
        BY TotalForm, BoundsAssumption DEF Inv, TypeOK, Frame
      <3> QED
        BY <3>1, <3>2 DEF Ledger
    <2> QED
      BY <2>1, <2>2, <2>3, <2>4 DEF LedgerInv
  <1> QED
    BY <1>1, <1>2, <1>3, <1>4 DEF Inv

(***************************************************************************)
(* The steps of _advance.                                                  *)
(***************************************************************************)

LEMMA BeginManagedOutcome ==
  ASSUME Inv, BeginManaged
  PROVE  Outcome /\ Frame
  <1> DEFINE s == RejectionsClosed(state)
  <1> DEFINE c == [Snapshot EXCEPT !.facts = cache]
  <1>1. Held(s)
    BY RejectionsHeld DEF BeginManaged
  <1>2. Going(Snapshot) /\ Going(c) /\ ~Snapshot.account /\ ~c.account
    <2>1. Going(Snapshot) /\ ~Snapshot.account
      BY SnapshotUsable
    <2>2. Going(c) /\ c.account = Snapshot.account
      BY <2>1, RunKept
    <2> QED
      BY <2>1, <2>2
  <1>3. Held(ProvenClosed(s, cache))
    BY <1>1, ProvenHeld
  <1>4. \/ JudgeCycle(s, Snapshot)
        \/ JudgeCycle(ProvenClosed(s, cache), c)
        \/ Return(s)
        \/ /\ state' = s
           /\ adv' = Await("CLOSE_RISK", Snapshot)
           /\ UNCHANGED <<consumed, why, cancel, cause, sliceDue, venue>>
    BY DEF BeginManaged
  <1> HIDE DEF s, c
  <1>5. ASSUME state' = s, adv' = Await("CLOSE_RISK", Snapshot),
               UNCHANGED <<consumed, why, cancel, cause, sliceDue, venue>>
        PROVE  Outcome
    BY <1>1, <1>2, <1>5, AwaitOutcome
  <1>6. Outcome
    BY <1>1, <1>2, <1>3, <1>4, <1>5, JudgeOutcome, ReturnOutcome
  <1> QED
    BY <1>6 DEF BeginManaged, Frame

LEMMA UntouchedFrame ==
  ASSUME Inv, Untouched
  PROVE  Frame
  BY DEF Untouched, Frame, Inv, TypeOK

LEMMA RiskStep ==
  ASSUME Inv, adv.step \in {"NEXT"} \cup Risk
  PROVE  Held(state)
  BY StateHeld DEF Inv, RunInv

LEMMA NoFactsOutcome ==
  ASSUME Inv, NoFacts
  PROVE  Outcome /\ Frame
  <1>1. CASE adv.step = "CYCLE_RISK" /\ Manage(state, Judged(Resumed(None)))
    <2>1. Going(Judged(Resumed(None)))
      BY <1>1, ResumedUsable, RunKept DEF Inv
    <2>2. Held(state)
      BY <1>1, RiskStep DEF Risk
    <2> QED
      BY <1>1, <2>1, <2>2, ManageOutcome, UntouchedFrame DEF NoFacts
  <1> QED
    BY <1>1, ReturnOutcome, UntouchedFrame DEF NoFacts

LEMMA RiskFactsOutcome ==
  ASSUME Inv, RiskFacts
  PROVE  Outcome /\ Frame
  <1>1. Held(state)
    BY RiskStep DEF RiskFacts
  <1>2. CASE adv.step = "CLOSE_RISK" /\ JudgeCycle(ProvenClosed(state, Expected), Resumed(Expected))
    <2>1. Going(Resumed(Expected)) /\ ~Resumed(Expected).account
      BY <1>2, ResumedUsable DEF Inv
    <2>2. Held(ProvenClosed(state, Expected))
      BY <1>1, ProvenHeld
    <2> QED
      BY <1>2, <2>1, <2>2, JudgeOutcome, UntouchedFrame DEF RiskFacts
  <1>3. CASE adv.step = "CYCLE_RISK" /\ Manage(state, Judged(Resumed(Expected)))
    <2>1. Going(Judged(Resumed(Expected)))
      BY <1>3, ResumedUsable, RunKept DEF Inv
    <2> QED
      BY <1>1, <1>3, <2>1, ManageOutcome, UntouchedFrame DEF RiskFacts
  <1>4. CASE /\ adv.step = "CANCEL_RISK"
             /\ SendCancel(state, adv.target, adv.reason) /\ UNCHANGED consumed
    <2>1. consumed' \in BOOLEAN /\ (adv.reason = "REPRICE" => program = "REPRICED")
      BY <1>4 DEF Inv, TypeOK, RunInv
    <2> QED
      BY <1>1, <1>4, <2>1, SendCancelOutcome, UntouchedFrame DEF RiskFacts
  <1> QED
    BY <1>2, <1>3, <1>4 DEF RiskFacts

\* Before the first leg nothing has traded.
LEMMA FirstLedger ==
  ASSUME Inv, adv.step = "FIRST"
  PROVE  FullLedger
  <1>1. adv.ledger[2] \in Nat /\ Exists(state) = {}
    BY DEF Inv, LedgerInv, RunInv
  <1>2. ASSUME NEW a \in Attempts PROVE filled[a] = traded[a]
    <2>1. /\ OrderInv(state, venue, a) /\ state[a] = "ABSENT"
          /\ filled[a] \in Nat /\ traded[a] \in Nat
      BY <1>1, BoundsAssumption DEF Inv, RowsInv, TypeOK, Exists
    <2>2. traded[a] = 0
      BY <2>1 DEF OrderInv, Alive
    <2> QED
      BY <2>1, <2>2 DEF OrderInv
  <1> QED
    BY <1>1, <1>2 DEF FullLedger

\* The account that was read for a leg shows what the ledger does not have.
LEMMA NextLedger ==
  ASSUME Inv, adv.step = "NEXT", adv.read
  PROVE  FullLedger
  <1>1. /\ adv.ledger[1] \in Nat /\ adv.ledger[2] \in Nat /\ sold \in Nat
        /\ adv.ledger[1] <= Total(filled)
        /\ Total(traded) <= (adv.ledger[1] - adv.ledger[2]) + sold
    BY DEF Inv, LedgerInv, TypeOK
  <1>2. \A a \in Attempts : filled[a] \in Nat /\ traded[a] \in Nat /\ filled[a] <= traded[a]
    BY BoundsAssumption DEF Inv, TypeOK, RowsInv, OrderInv
  <1>3. Total(filled) \in Nat /\ Total(traded) \in Nat
    BY <1>2, TotalForm
  <1>4. ASSUME ~(sold > adv.ledger[2]) PROVE \A a \in Attempts : filled[a] = traded[a]
    <2>1. Total(traded) <= Total(filled)
      BY <1>1, <1>3, <1>4
    <2>2. Total(traded) <= Total(filled) => \A a \in Attempts : filled[a] = traded[a]
      BY <1>2, TotalOrder
    <2> QED
      BY <2>1, <2>2
  <1> QED
    BY <1>1, <1>4 DEF FullLedger

LEMMA FirstFactsOutcome ==
  ASSUME Inv, FirstFacts
  PROVE  Outcome /\ Frame
  <1>1. CASE Manage(Materialized, [Resumed(None) EXCEPT !.account = TRUE])
    <2>1. Going([Resumed(None) EXCEPT !.account = TRUE])
      <3>1. Going(Resumed(None)) /\ FullLedger
        BY ResumedUsable, FirstLedger DEF Inv, FirstFacts
      <3> QED
        BY <3>1 DEF Going, RunUsable, Run
    <2>2. Held(Materialized)
      BY MaterializedHeld DEF Inv, RunInv, FirstFacts
    <2> QED
      BY <1>1, <2>1, <2>2, ManageOutcome, UntouchedFrame DEF FirstFacts
  <1> QED
    BY <1>1, ReturnOutcome, UntouchedFrame DEF FirstFacts

LEMMA NextFactsOutcome ==
  ASSUME Inv, NextFacts
  PROVE  Outcome /\ Frame
  <1>1. Held(state)
    BY RiskStep DEF NextFacts
  <1>2. Going(Resumed(adv.facts)) /\ ~Resumed(adv.facts).consumed /\ FullLedger
    BY ResumedUsable, NextLedger DEF Inv, RunInv, NextFacts
  <1>3. adv.target[1] \in ScheduleLegs
    BY DEF Inv, RunInv, NextFacts
  <1> QED
    BY <1>1, <1>2, <1>3, RecheckOutcome, UntouchedFrame DEF NextFacts

LEMMA BeginEmptyKeeps ==
  ASSUME Inv, BeginEmpty
  PROVE  Inv'
  <1>1. /\ UNCHANGED <<program, actions, protection, clock, cache, external>>
        /\ forced' = FALSE /\ consumed' \in BOOLEAN /\ Exists(state) = {} /\ ~consumed
        /\ adv' = Idle \/ (adv' = Await("FIRST", Snapshot) /\ consumed' = consumed)
    BY DEF BeginEmpty, Inv, TypeOK
  <1>2. TypeOK'
    BY <1>1 DEF Inv, TypeOK, actions, protection, clock, external
  <1>3. RowsInv(state, venue)'
    BY <1>1
    DEF Inv, RowsInv, OrderInv, OneAlive, ChainInv, FormedInv, Exists, ScheduleLegs,
        actions, protection, external
  <1>4. RunInv'
    <2>1. CASE adv' = Idle
      BY <2>1, IdleForm DEF RunInv, Risk
    <2>2. CASE adv' = Await("FIRST", Snapshot) /\ consumed' = consumed
      <3>1. Run(adv') /\ adv'.step = "FIRST" /\ adv'.consumed = consumed /\ ~adv'.account
        BY <2>2, AwaitForm, SnapshotUsable DEF RunUsable, Going
      <3>2. Exists(state)' = {}
        BY <1>1 DEF actions, Exists
      <3> QED
        BY <1>1, <2>2, <3>1, <3>2 DEF RunInv, RunUsable, Run, Risk
    <2> QED
      BY <1>1, <2>1, <2>2
  <1>5. LedgerInv'
    <2>1. adv'.step # "NEXT" /\ (adv'.step = "FIRST" => adv'.ledger = Ledger)
      BY <1>1, IdleForm, AwaitForm, SnapshotUsable DEF Going, RunUsable
    <2>2. Ledger \in Nat \X Nat
      <3>1. Total(filled) \in Nat
        BY TotalForm, BoundsAssumption DEF Inv, TypeOK
      <3> QED
        BY <3>1 DEF Ledger, Inv, TypeOK
    <2> QED
      BY <1>1, <2>1, <2>2 DEF Inv, LedgerInv, actions, protection, external
  <1> QED
    BY <1>2, <1>3, <1>4, <1>5 DEF Inv

LEMMA AnswerKeeps ==
  ASSUME Inv, Answer
  PROVE  Inv'
  <1>1. /\ UNCHANGED <<activation, actions, protection, clock, forced, cache, external>>
        /\ adv' = [adv EXCEPT !.read = TRUE]
    BY DEF Answer
  <1>2. TypeOK'
    BY <1>1 DEF Inv, TypeOK, activation, actions, protection, clock, external
  <1>3. RowsInv(state, venue)'
    BY <1>1
    DEF Inv, RowsInv, OrderInv, OneAlive, ChainInv, FormedInv, Exists, ScheduleLegs,
        activation, actions, protection, external
  <1>4. /\ Run(adv') /\ adv'.step = adv.step /\ adv'.consumed = adv.consumed
        /\ adv'.target = adv.target /\ adv'.account = adv.account /\ adv'.reason = adv.reason
        /\ adv'.ledger = adv.ledger
    BY <1>1 DEF Inv, RunInv, Run
  <1>5. Exists(state)' = Exists(state) /\ Spent' = Spent /\ ScheduleLegs' = ScheduleLegs
    BY <1>1 DEF Exists, Spent, ScheduleLegs, activation, actions, protection
  <1>6. RunInv'
    BY <1>1, <1>4, <1>5 DEF Inv, RunInv, RunUsable, Run, activation
  <1>7. Total(traded) <= (adv.ledger[1] - adv.ledger[2]) + sold
        \/ adv.step # "NEXT"
    <2> SUFFICES ASSUME adv.step = "NEXT"
                 PROVE  Total(traded) <= (adv.ledger[1] - adv.ledger[2]) + sold
      OBVIOUS
    <2>1. Total(traded) \in Nat /\ sold \in Nat
      BY TotalForm, BoundsAssumption DEF Inv, TypeOK
    <2>2. adv.ledger[1] \in Nat /\ adv.ledger[2] \in Nat
      BY DEF Inv, LedgerInv
    <2>3. Total(traded) - sold = adv.ledger[1] - adv.ledger[2]
      BY DEF Answer, Explained, Position
    <2> QED
      BY <2>1, <2>2, <2>3
  <1>8. LedgerInv'
    BY <1>1, <1>4, <1>7
    DEF Inv, LedgerInv, activation, actions, protection, external
  <1> QED
    BY <1>2, <1>3, <1>6, <1>8 DEF Inv

LEMMA SchedulerKeeps ==
  ASSUME Inv, Scheduler
  PROVE  Inv'
  BY BeginEmptyKeeps, AnswerKeeps, BeginManagedOutcome, NoFactsOutcome, RiskFactsOutcome,
     FirstFactsOutcome, NextFactsOutcome, OutcomeKeeps DEF Scheduler

(***************************************************************************)
(* Everything else that moves.                                             *)
(***************************************************************************)

\* A step that leaves the run, the activation and the fills of the rule state
\* alone, and forms no attempt.
LEMMA RunStays ==
  ASSUME Inv, UNCHANGED <<activation, adv, taken>>, Exists(state)' = Exists(state)
  PROVE  RunInv'
  <1>1. Spent' = Spent /\ ScheduleLegs' = ScheduleLegs
    BY DEF Spent, ScheduleLegs, activation
  <1> QED
    BY <1>1 DEF Inv, RunInv, RunUsable, Run, activation

\* Time, the clock of the process and what other orders do.
LEMMA QuietKeeps ==
  ASSUME Inv, Tick \/ Restart \/ RecordReduction \/ Sell
  PROVE  Inv'
  <1>1. /\ UNCHANGED <<activation, actions, taken, covered, venue, traded>>
        /\ adv' \in {adv, Idle}
    BY DEF Tick, Restart, RecordReduction, Sell, protection, process, external
  <1>2. expired' \in BOOLEAN /\ sliceDue' \in BOOLEAN /\ forced' \in BOOLEAN
    <2>1. expired \in BOOLEAN /\ sliceDue \in BOOLEAN /\ forced \in BOOLEAN
      BY DEF Inv, TypeOK
    <2> QED
      BY <2>1, Zenon DEF Tick, Restart, RecordReduction, Sell, clock, process
  <1>3. reduced' \in Nat /\ sold' \in Nat /\ released' \in Nat
    BY DEF Tick, Restart, RecordReduction, Sell, protection, clock, external, Inv, TypeOK
  <1>4. TypeOK'
    BY <1>1, <1>2, <1>3 DEF Inv, TypeOK, activation, actions
  <1>5. RowsInv(state, venue)'
    BY <1>1
    DEF Inv, RowsInv, OrderInv, OneAlive, ChainInv, FormedInv, Exists, ScheduleLegs,
        activation, actions
  <1>6. RunInv'
    <2>1. CASE adv' = Idle
      BY <2>1, IdleForm DEF RunInv, Risk
    <2>2. CASE adv' = adv
      BY <1>1, <2>2, RunStays DEF Exists, actions
    <2> QED
      BY <1>1, <2>1, <2>2
  <1>7. LedgerInv'
    <2>1. Total(taken) \in Nat /\ Total(traded) \in Nat
      BY TotalForm, BoundsAssumption DEF Inv, TypeOK
    <2>2. sold <= sold' /\ sold' <= Total(taken)
      <3>1. sold \in Nat /\ sold <= Total(taken)
        BY DEF Inv, TypeOK, LedgerInv
      <3>2. sold' = sold \/ (sold' = sold + 1 /\ sold < Total(taken))
        BY DEF Tick, Restart, RecordReduction, Sell, external
      <3> QED
        BY <2>1, <3>1, <3>2
    <2>3. CASE adv' = Idle
      BY <1>1, <2>2, <2>3, IdleForm DEF Inv, LedgerInv, activation, actions
    <2>4. CASE adv' = adv
      <3>1. ASSUME adv.step = "NEXT", adv.read
            PROVE  Total(traded) <= (adv.ledger[1] - adv.ledger[2]) + sold'
        <4>1. /\ adv.ledger[1] \in Nat /\ adv.ledger[2] \in Nat /\ sold \in Nat
              /\ Total(traded) <= (adv.ledger[1] - adv.ledger[2]) + sold
          BY <3>1 DEF Inv, LedgerInv, TypeOK
        <4> QED
          BY <1>3, <2>1, <2>2, <4>1
      <3> QED
        BY <1>1, <2>2, <2>4, <3>1 DEF Inv, LedgerInv, activation, actions
    <2> QED
      BY <1>1, <2>3, <2>4
  <1> QED
    BY <1>4, <1>5, <1>6, <1>7 DEF Inv

\* What is recorded of an attempt grows, and no attempt comes to life.
LEMMA LedgerGrows ==
  ASSUME Inv, UNCHANGED <<program, adv, cause, sold, traded>>,
         Active(state) = {} => Active(state') = {},
         filled' \in [Attempts -> Nat], taken' \in [Attempts -> Nat],
         \A b \in Attempts : filled[b] <= filled'[b] /\ taken[b] <= taken'[b]
  PROVE  LedgerInv'
  <1>1. \A b \in Attempts : filled[b] \in Nat /\ taken[b] \in Nat
    BY BoundsAssumption DEF Inv, TypeOK
  <1>2. /\ Total(filled) \in Nat /\ Total(filled') \in Nat
        /\ Total(taken) \in Nat /\ Total(taken') \in Nat
    BY <1>1, TotalForm
  <1>3. Total(filled) <= Total(filled') /\ Total(taken) <= Total(taken')
    BY <1>1, TotalOrder
  <1>4. sold \in Nat /\ sold <= Total(taken)
    BY DEF Inv, TypeOK, LedgerInv
  <1>5. sold' <= Total(taken')
    BY <1>2, <1>3, <1>4
  <1>6. adv.step = "NEXT" => adv'.ledger[1] <= Total(filled')
    <2> SUFFICES ASSUME adv.step = "NEXT" PROVE adv'.ledger[1] <= Total(filled')
      OBVIOUS
    <2>1. adv.ledger[1] \in Nat /\ adv.ledger[1] <= Total(filled) /\ adv' = adv
      BY DEF Inv, LedgerInv
    <2> QED
      BY <1>2, <1>3, <2>1
  <1>7. /\ \A a \in Attempts : cause'[a] = "REPRICE" => program' = "REPRICED"
        /\ adv'.step \in {"FIRST", "NEXT"} => adv'.ledger \in Nat \X Nat
        /\ adv'.step = "NEXT" =>
             /\ Active(state') = {}
             /\ adv'.read => Total(traded') <= (adv'.ledger[1] - adv'.ledger[2]) + sold'
    BY DEF Inv, LedgerInv
  <1> QED
    BY <1>5, <1>6, <1>7 DEF LedgerInv, Active

\* One attempt's row, record or order moves: what the invariants of the others and
\* of the legs need.
LEMMA OneRowMoves ==
  ASSUME Inv, NEW a \in Attempts,
         state' \in [Attempts -> AttemptStates],
         state'[a] = state[a] \/ (state[a] = "UNKNOWN" /\ state'[a] \in {"OPEN", "NOT_SUBMITTED"}),
         \A b \in Attempts \ {a} :
           /\ state'[b] = state[b] /\ venue'[b] = venue[b] /\ term'[b] = term[b]
           /\ taken'[b] = taken[b] /\ filled'[b] = filled[b]
           /\ covered'[b] = covered[b] /\ traded'[b] = traded[b],
         state[a] = "CLOSED" => traded'[a] = traded[a],
         program' = program,
         OrderInv(state, venue, a)'
  PROVE  RowsInv(state, venue)' /\ Exists(state)' = Exists(state)
  <1>1. \A b \in Attempts : OrderInv(state, venue, b)'
    BY DEF Inv, RowsInv, OrderInv
  <1>2. OneAlive(state)'
    BY DEF Inv, RowsInv, OneAlive, Alive
  <1>3. Exists(state)' = Exists(state)
    BY DEF Exists
  <1>4. \A b \in Attempts : state'[b] = "ABSENT" <=> state[b] = "ABSENT"
    OBVIOUS
  <1>5. FormedInv(state)'
    BY <1>3, <1>4, LegsForm, AttemptsForm DEF Inv, RowsInv, FormedInv, ScheduleLegs
  <1>6. ChainInv(state)'
    BY <1>4 DEF Inv, RowsInv, ChainInv
  <1> QED
    BY <1>1, <1>2, <1>3, <1>5, <1>6 DEF RowsInv

LEMMA RecognisedForm ==
  ASSUME TypeOK, NEW a \in Attempts
  PROVE  /\ Recognised(a) \in [Attempts -> AttemptStates]
         /\ Recognised(a)[a] = IF state[a] = "UNKNOWN" THEN "OPEN" ELSE state[a]
         /\ \A b \in Attempts \ {a} : Recognised(a)[b] = state[b]
         /\ Active(state) = {} => Active(Recognised(a)) = {}
  <1>1. /\ Recognised(a) \in [Attempts -> AttemptStates]
        /\ Recognised(a)[a] = IF state[a] = "UNKNOWN" THEN "OPEN" ELSE state[a]
        /\ \A b \in Attempts \ {a} : Recognised(a)[b] = state[b]
    BY DEF TypeOK, Recognised, AttemptStates
  <1>2. ASSUME Active(state) = {} PROVE Active(Recognised(a)) = {}
    BY <1>1, <1>2 DEF Active
  <1> QED
    BY <1>1, <1>2

LEMMA RecordsKeep ==
  ASSUME Inv, NEW a \in Attempts,
         RecordFill(a) \/ RecordTerminal(a) \/ CancelClosed(a) \/ QueryUnknown(a)
  PROVE  Inv'
  <1>1. UNCHANGED <<activation, protection, clock, adv, external>> /\ forced' \in BOOLEAN
    BY DEF RecordFill, RecordTerminal, CancelClosed, QueryUnknown, process, Inv, TypeOK
  <1>nat. /\ taken \in [Attempts -> Nat] /\ filled \in [Attempts -> Nat]
          /\ \A b \in Attempts : filled[b] \in Nat /\ taken[b] \in Nat
    BY BoundsAssumption DEF Inv, TypeOK
  <1>same. cause' = cause
    BY DEF RecordFill, RecordTerminal, CancelClosed, QueryUnknown
  <1>2. CASE RecordFill(a)
    <2>1. /\ filled' \in [Attempts -> 0..Lot[program]]
          /\ filled'[a] = filled[a] + 1 /\ filled[a] < traded[a]
          /\ \A b \in Attempts \ {a} : filled'[b] = filled[b]
      <3>1. filled[a] \in 0..Lot[program] /\ traded[a] \in 0..Lot[program] /\ Lot[program] \in Nat
        BY BoundsAssumption DEF Inv, TypeOK
      <3>2. filled[a] + 1 \in 0..Lot[program]
        BY <1>2, <3>1 DEF RecordFill
      <3> QED
        BY <1>2, <3>1, <3>2 DEF RecordFill, Inv, TypeOK
    <2>2. /\ state' = Recognised(a) /\ UNCHANGED <<why, term, counted, cancel>>
      BY <1>2 DEF RecordFill
    <2>3. OrderInv(state, venue, a)'
      BY <1>1, <2>1, <2>2, RecognisedForm
      DEF Inv, RowsInv, OrderInv, TypeOK, Alive, Ends, protection, external
    <2>4. RowsInv(state, venue)' /\ Exists(state)' = Exists(state)
      BY <1>1, <2>1, <2>2, <2>3, RecognisedForm, OneRowMoves
      DEF Inv, activation, protection, external
    <2>5. TypeOK'
      BY <1>1, <1>same, <2>1, <2>2, RecognisedForm
      DEF Inv, TypeOK, activation, protection, clock, external
    <2>6. LedgerInv'
      <3>1. filled' \in [Attempts -> Nat] /\ \A b \in Attempts : filled[b] <= filled'[b]
        BY <1>nat, <2>1, BoundsAssumption DEF Inv, TypeOK
      <3>2. Active(state) = {} => Active(state') = {}
        BY <2>2, RecognisedForm DEF Inv
      <3> QED
        BY <1>1, <1>nat, <1>same, <3>1, <3>2, LedgerGrows
        DEF activation, protection, external
    <2> QED
      BY <1>1, <2>4, <2>5, <2>6, RunStays DEF Inv, protection
  <1>3. CASE RecordTerminal(a)
    <2>1. /\ term' \in [Attempts -> Ends \cup {"NONE"}]
          /\ term'[a] = venue[a] /\ venue[a] \in Ends
          /\ \A b \in Attempts \ {a} : term'[b] = term[b]
          /\ cancel' \in [Attempts -> {"NONE", "OPEN", "CLOSED", "FAILED"}]
          /\ counted' \in [Attempts -> 0..Lot[program]]
      <3>1. Reported(a) \subseteq 0..Lot[program]
        BY BoundsAssumption DEF Reported, Inv, TypeOK
      <3> QED
        BY <1>3, <3>1 DEF RecordTerminal, Inv, TypeOK
    <2>2. /\ state' = Recognised(a) /\ UNCHANGED <<why, filled>>
      BY <1>3 DEF RecordTerminal
    <2>3. OrderInv(state, venue, a)'
      BY <1>1, <2>1, <2>2, RecognisedForm
      DEF Inv, RowsInv, OrderInv, TypeOK, Alive, Ends, protection, external
    <2>4. RowsInv(state, venue)' /\ Exists(state)' = Exists(state)
      BY <1>1, <2>1, <2>2, <2>3, RecognisedForm, OneRowMoves
      DEF Inv, activation, protection, external
    <2>5. TypeOK'
      BY <1>1, <1>same, <2>1, <2>2, RecognisedForm
      DEF Inv, TypeOK, activation, protection, clock, external
    <2>6. LedgerInv'
      <3>1. Active(state) = {} => Active(state') = {}
        BY <2>2, RecognisedForm DEF Inv
      <3> QED
        BY <1>1, <1>nat, <1>same, <2>2, <3>1, LedgerGrows
        DEF activation, protection, external
    <2> QED
      BY <1>1, <2>4, <2>5, <2>6, RunStays DEF Inv, protection
  <1>4. CASE CancelClosed(a)
    <2>1. /\ cancel' \in [Attempts -> {"NONE", "OPEN", "CLOSED", "FAILED"}]
          /\ UNCHANGED <<state, why, term, counted, filled>>
      BY <1>4 DEF CancelClosed, Inv, TypeOK
    <2>2. RowsInv(state, venue)' /\ Exists(state)' = Exists(state)
      BY <1>1, <2>1
      DEF Inv, RowsInv, OrderInv, OneAlive, ChainInv, FormedInv, Exists, ScheduleLegs,
          activation, protection, external
    <2>3. TypeOK'
      BY <1>1, <1>same, <2>1 DEF Inv, TypeOK, activation, protection, clock, external
    <2>4. LedgerInv'
      BY <1>1, <1>nat, <1>same, <2>1, LedgerGrows DEF activation, protection, external
    <2> QED
      BY <1>1, <2>2, <2>3, <2>4, RunStays DEF Inv, protection
  <1>5. CASE QueryUnknown(a)
    <2>1. /\ state' \in [Attempts -> AttemptStates]
          /\ state[a] = "UNKNOWN"
          /\ state'[a] = IF venue[a] = "NONE" THEN "NOT_SUBMITTED" ELSE "OPEN"
          /\ \A b \in Attempts \ {a} : state'[b] = state[b]
          /\ UNCHANGED <<why, term, counted, filled, cancel>>
      BY <1>5 DEF QueryUnknown, Inv, TypeOK, AttemptStates
    <2>2. OrderInv(state, venue, a)'
      BY <1>1, <2>1 DEF Inv, RowsInv, OrderInv, TypeOK, Alive, Ends, protection, external
    <2>3. RowsInv(state, venue)' /\ Exists(state)' = Exists(state)
      BY <1>1, <2>1, <2>2, OneRowMoves DEF activation, protection, external
    <2>4. TypeOK'
      BY <1>1, <1>same, <2>1 DEF Inv, TypeOK, activation, protection, clock, external
    <2>5. LedgerInv'
      <3>1. a \in Active(state)
        BY <2>1 DEF Active
      <3> QED
        BY <1>1, <1>nat, <1>same, <2>1, <3>1, LedgerGrows
        DEF activation, protection, external
    <2> QED
      BY <1>1, <2>3, <2>4, <2>5, RunStays DEF Inv, protection
  <1> QED
    BY <1>2, <1>3, <1>4, <1>5

LEMMA ProtectionMovesKeeps ==
  ASSUME Inv, NEW a \in Attempts, ProtectionMoves(a)
  PROVE  Inv'
  <1>1. UNCHANGED <<activation, actions, taken, reduced, clock, process, external>>
    BY DEF ProtectionMoves
  <1>2. /\ covered' \in [Attempts -> 0..Lot[program]]
        /\ covered'[a] <= taken[a]
        /\ \A b \in Attempts \ {a} : covered'[b] = covered[b]
    <2>1. /\ covered[a] \in 0..Lot[program] /\ taken[a] \in 0..Lot[program]
          /\ covered[a] <= taken[a] /\ Lot[program] \in Nat
      BY BoundsAssumption DEF Inv, TypeOK, RowsInv, OrderInv
    <2>2. PICK n \in 0..Lot[program] : covered' = [covered EXCEPT ![a] = n] /\ n <= taken[a]
      BY <2>1 DEF ProtectionMoves
    <2> QED
      BY <2>2 DEF Inv, TypeOK
  <1>3. TypeOK'
    BY <1>1, <1>2 DEF Inv, TypeOK, activation, actions, clock, process, external
  <1>4. \A b \in Attempts : OrderInv(state, venue, b)'
    BY <1>1, <1>2 DEF Inv, RowsInv, OrderInv, actions, external
  <1>5. OneAlive(state)' /\ ChainInv(state)' /\ FormedInv(state)' /\ Exists(state)' = Exists(state)
    BY <1>1
    DEF Inv, RowsInv, OneAlive, ChainInv, FormedInv, Exists, ScheduleLegs,
        activation, actions, external
  <1>6. RunInv'
    BY <1>1, <1>5, RunStays DEF process
  <1>7. LedgerInv'
    BY <1>1
    DEF Inv, LedgerInv, activation, actions, process, external
  <1> QED
    BY <1>3, <1>4, <1>5, <1>6, <1>7 DEF Inv, RowsInv

\* The steps of the venue.
LEMMA VenueKeeps ==
  ASSUME Inv, NEW a \in Attempts, Arrive(a) \/ Trade(a) \/ End(a)
  PROVE  Inv'
  <1>1. UNCHANGED <<activation, actions, protection, clock, process, sold>>
    BY DEF Arrive, Trade, End
  <1>2. /\ venue[a] = "LIVE" \/ (state[a] = "UNKNOWN" /\ venue[a] = "NONE")
        /\ state[a] \in Alive /\ term[a] = "NONE"
    BY DEF Arrive, Trade, End, Inv, RowsInv, OrderInv, Ends, Alive, TypeOK
  <1>3. /\ venue' \in [Attempts -> Ends \cup {"NONE", "LIVE"}]
        /\ venue'[a] # "NONE"
        /\ \A b \in Attempts \ {a} : venue'[b] = venue[b]
    BY DEF Arrive, Trade, End, Inv, TypeOK, Ends
  <1>4. /\ traded' \in [Attempts -> 0..Lot[program]]
        /\ filled[a] <= traded'[a]
        /\ venue'[a] \in {"NONE", "REJECTED", "RETRYABLE"} => traded'[a] = 0
        /\ \A b \in Attempts \ {a} : traded'[b] = traded[b]
    <2>1. /\ traded[a] \in 0..Lot[program] /\ filled[a] \in 0..Lot[program]
          /\ filled[a] <= traded[a] /\ Lot[program] \in Nat
          /\ venue[a] = "NONE" => traded[a] = 0
      BY BoundsAssumption DEF Inv, TypeOK, RowsInv, OrderInv
    <2>2. CASE Arrive(a) \/ End(a)
      BY <2>1, <2>2 DEF Arrive, End, Inv, TypeOK
    <2>3. CASE Trade(a)
      <3>1. traded[a] + 1 \in 0..Lot[program]
        BY <2>1, <2>3 DEF Trade
      <3>2. venue'[a] \in {"FILLED", "LIVE"}
        BY <2>3 DEF Trade, Inv, TypeOK
      <3> QED
        BY <2>1, <2>3, <3>1, <3>2 DEF Trade, Inv, TypeOK
    <2> QED
      BY <2>2, <2>3
  <1>5. TypeOK'
    BY <1>1, <1>3, <1>4 DEF Inv, TypeOK, activation, actions, protection, clock, process
  <1>6. venue'[a] = "LIVE" => state[a] \in Alive
    BY <1>2
  <1>7. OrderInv(state, venue, a)'
    BY <1>1, <1>2, <1>3, <1>4
    DEF Inv, RowsInv, OrderInv, Alive, actions, protection
  <1>8. RowsInv(state, venue)' /\ Exists(state)' = Exists(state)
    BY <1>1, <1>2, <1>3, <1>4, <1>7, OneRowMoves
    DEF Inv, TypeOK, Alive, activation, actions, protection
  <1>9. LedgerInv'
    <2>1. adv.step # "NEXT"
      BY <1>2 DEF Inv, LedgerInv, Active, Alive
    <2> QED
      BY <1>1, <2>1 DEF Inv, LedgerInv, activation, actions, protection, process
  <1> QED
    BY <1>1, <1>5, <1>8, <1>9, RunStays DEF Inv, protection, process

\* More fills never make fewer attempts with a fill.
LEMMA SpentStays ==
  ASSUME UNCHANGED program, \A b \in Attempts : taken[b] > 0 => taken'[b] > 0, Spent
  PROVE  Spent'
  <1> DEFINE T == {b \in Attempts : taken[b] > 0}
  <1> DEFINE U == {b \in Attempts : taken'[b] > 0}
  <1>1. T \in SUBSET U /\ U \in SUBSET Attempts
    OBVIOUS
  <1>2. IsFiniteSet(U) /\ IsFiniteSet(T)
    BY <1>1, AttemptsForm, FS_Subset
  <1>3. /\ Cardinality(T) <= Cardinality(U)
        /\ Cardinality(T) \in Nat /\ Cardinality(U) \in Nat /\ Cardinality(ScheduleLegs) \in Nat
    BY <1>1, <1>2, LegsForm, FS_Subset, FS_CardinalityType
  <1>4. Cardinality(T) >= Cardinality(ScheduleLegs)
    BY DEF Spent
  <1> HIDE DEF T, U
  <1>5. Cardinality(U) >= Cardinality(ScheduleLegs)
    BY <1>3, <1>4
  <1> QED
    BY <1>5 DEF Spent, ScheduleLegs, U

LEMMA ProtectKeeps ==
  ASSUME Inv, NEW a \in Attempts, Protect(a)
  PROVE  Inv'
  <1>1. UNCHANGED <<program, actions, covered, reduced, clock, process, external>>
    BY DEF Protect
  <1>2. /\ taken' \in [Attempts -> 0..Lot[program]]
        /\ taken'[a] = taken[a] + 1 /\ taken[a] < filled[a]
        /\ \A b \in Attempts \ {a} : taken'[b] = taken[b]
    <2>1. /\ taken[a] \in 0..Lot[program] /\ filled[a] \in 0..Lot[program] /\ Lot[program] \in Nat
      BY BoundsAssumption DEF Inv, TypeOK
    <2>2. taken[a] + 1 \in 0..Lot[program]
      BY <2>1 DEF Protect
    <2> QED
      BY <2>1, <2>2 DEF Protect, Inv, TypeOK
  <1>3. consumed' \in BOOLEAN
    BY DEF Protect, ConsumedByLegs, Inv, TypeOK
  <1>4. consumed' => consumed \/ Spent'
    BY <1>1 DEF Protect, ConsumedByLegs, Spent, ScheduleLegs
  <1>5. TypeOK'
    BY <1>1, <1>2, <1>3 DEF Inv, TypeOK, actions, clock, process, external
  <1>6. \A b \in Attempts : OrderInv(state, venue, b)'
    <2> SUFFICES ASSUME NEW b \in Attempts PROVE OrderInv(state, venue, b)'
      OBVIOUS
    <2>1. /\ taken[b] \in Nat /\ filled[b] \in Nat /\ covered[b] \in Nat
          /\ OrderInv(state, venue, b)
      BY BoundsAssumption DEF Inv, TypeOK, RowsInv
    <2> QED
      BY <1>1, <1>2, <2>1 DEF OrderInv, actions, external
  <1>7. OneAlive(state)' /\ ChainInv(state)' /\ FormedInv(state)' /\ Exists(state)' = Exists(state)
    BY <1>1
    DEF Inv, RowsInv, OneAlive, ChainInv, FormedInv, Exists, ScheduleLegs, actions, external
  <1>8. Spent => Spent'
    <2>1. \A b \in Attempts : taken[b] > 0 => taken'[b] > 0
      BY <1>2 DEF Inv, TypeOK
    <2> QED
      BY <1>1, <2>1, SpentStays
  <1>9. RunInv'
    <2>1. adv' = adv /\ ScheduleLegs' = ScheduleLegs
      BY <1>1 DEF process, ScheduleLegs
    <2>2. ASSUME RunUsable(adv) PROVE RunUsable(adv)'
      BY <2>1, <2>2, <1>4, <1>8 DEF RunUsable, Run
    <2> QED
      BY <1>1, <2>1, <2>2, <1>7 DEF Inv, RunInv, Run
  <1>10. LedgerInv'
    <2>1. /\ taken' \in [Attempts -> Nat] /\ filled \in [Attempts -> Nat]
          /\ \A b \in Attempts : taken[b] \in Nat /\ filled[b] \in Nat
      BY <1>2, BoundsAssumption DEF Inv, TypeOK
    <2>2. \A b \in Attempts : filled[b] <= filled'[b] /\ taken[b] <= taken'[b]
      BY <1>1, <1>2, <2>1 DEF actions
    <2> QED
      BY <1>1, <2>1, <2>2, LedgerGrows DEF actions, process, external
  <1> QED
    BY <1>5, <1>6, <1>7, <1>9, <1>10 DEF Inv, RowsInv

(***************************************************************************)
(* The theorems.                                                           *)
(***************************************************************************)

LEMMA InvInit == Init => Inv
  <1> SUFFICES ASSUME Init PROVE Inv
    OBVIOUS
  <1>1. Lot[program] \in Nat /\ LegCount \in Nat
    BY BoundsAssumption DEF Init
  <1>2. TypeOK
    <2>1. released \in Nat /\ 0 \in 0..Lot[program]
      BY <1>1 DEF Init
    <2>2. {counted, filled, taken, covered, traded} \subseteq [Attempts -> 0..Lot[program]]
      BY <2>1 DEF Init
    <2>3. {consumed, expired, sliceDue, forced} \subseteq BOOLEAN
      BY DEF Init
    <2>4. /\ state \in [Attempts -> AttemptStates]
          /\ why \in [Attempts -> {"FIRST", "RETRY", "REPRICE"}]
          /\ term \in [Attempts -> Ends \cup {"NONE"}]
          /\ cancel \in [Attempts -> {"NONE", "OPEN", "CLOSED", "FAILED"}]
          /\ cause \in [Attempts -> {"NONE", "REPRICE", "SLICE_EXPIRED", "TRIGGERED", "OTHER"}]
          /\ venue \in [Attempts -> Ends \cup {"NONE", "LIVE"}]
      BY DEF Init, AttemptStates
    <2>5. program \in Programs /\ {reduced, sold, released} \subseteq Nat
      BY <2>1 DEF Init
    <2> QED
      BY <2>2, <2>3, <2>4, <2>5 DEF TypeOK
  <1>3. RowsInv(state, venue)
    BY DEF Init, RowsInv, OrderInv, OneAlive, ChainInv, FormedInv, Exists, Alive
  <1>4. RunInv
    BY IdleForm DEF Init, RunInv, Risk
  <1>5. LedgerInv
    <2>1. Total(taken) \in Nat
      BY TotalForm DEF Init
    <2> QED
      BY <2>1, IdleForm DEF Init, LedgerInv
  <1> QED
    BY <1>2, <1>3, <1>4, <1>5 DEF Inv

LEMMA InvStep == Inv /\ [Next]_vars => Inv'
  <1> SUFFICES ASSUME Inv, [Next]_vars PROVE Inv'
    OBVIOUS
  <1>1. CASE UNCHANGED vars
    <2>1. UNCHANGED <<program, consumed, state, why, term, counted, filled, taken, covered, cancel, cause,
                      reduced, released, expired, sliceDue, adv, forced, cache, venue, traded, sold>>
      BY <1>1 DEF vars, activation, actions, protection, clock, process, external
    <2> QED
      BY <2>1
      DEF Inv, TypeOK, RowsInv, OrderInv, OneAlive, ChainInv, FormedInv, Exists, RunInv, Run,
          RunUsable, Spent, ScheduleLegs, LedgerInv
  <1>2. CASE Scheduler
    BY <1>2, SchedulerKeeps
  <1>3. CASE Tick \/ Restart \/ RecordReduction \/ Sell
    BY <1>3, QuietKeeps
  <1>4. ASSUME NEW a \in Attempts,
               Records(a) \/ ProtectionMoves(a) \/ Arrive(a) \/ Trade(a) \/ End(a)
        PROVE  Inv'
    BY <1>4, RecordsKeep, ProtectKeeps, ProtectionMovesKeeps, VenueKeeps DEF Records
  <1> QED
    BY <1>1, <1>2, <1>3, <1>4 DEF Next

LEMMA Invariance == Spec => []Inv
  BY InvInit, InvStep, PTL DEF Spec

\* Every variable of the schedule keeps its type.
THEOREM TypeCorrect == Spec => []TypeOK
  <1>1. Inv => TypeOK
    BY DEF Inv
  <1> QED
    BY <1>1, Invariance, PTL

\* The handlers that work through the legs never leave two orders of a schedule that
\* may trade, also when a call's outcome is unknown and its order arrives late.
THEOREM OneAtATime == Spec => []OneAttemptMayTrade
  <1>1. Inv => OneAttemptMayTrade
    BY DEF Inv, TypeOK, RowsInv, OrderInv, OneAlive, Alive, OneAttemptMayTrade, MayTrade
  <1> QED
    BY <1>1, Invariance, PTL

\* A retry or a replacement is formed only for an attempt that has traded nothing
\* and will trade nothing.
THEOREM LegsAreNotDoubled == Spec => []OneTradedAttemptPerLeg
  <1>1. Inv => OneTradedAttemptPerLeg
    <2> SUFFICES ASSUME Inv, NEW a \in Attempts, NEW b \in Attempts,
                        traded[a] > 0, traded[b] > 0, a[1] = b[1]
                 PROVE  a = b
      BY DEF OneTradedAttemptPerLeg
    <2>1. state[a] # "ABSENT" /\ state[b] # "ABSENT"
      BY DEF Inv, RowsInv, OrderInv, TypeOK, Alive
    <2>2. ~(a[2] < b[2]) /\ ~(b[2] < a[2])
      BY <2>1 DEF Inv, RowsInv, ChainInv
    <2> QED
      BY <2>2, AttemptsForm
  <1> QED
    BY <1>1, Invariance, PTL

\* When every leg has a fill no attempt is left that could be called.
LEMMA SpentLeavesNothing ==
  ASSUME Inv, NEW s, NEW t, Callable(s, t)
  PROVE  ~Spent
  <1> DEFINE T == {a \in Attempts : taken[a] > 0}
  <1> DEFINE Others == ScheduleLegs \ {t[1]}
  <1> DEFINE f == [a \in T |-> a[1]]
  <1>1. ASSUME NEW a \in T PROVE traded[a] > 0 /\ state[a] # "ABSENT" /\ s[a] # "ABSENT"
    BY CallableForm DEF Inv, TypeOK, RowsInv, OrderInv, Alive, Callable, Held
  <1>2. ASSUME NEW a \in T PROVE a[1] \in Others
    <2>1. a[1] \in ScheduleLegs
      BY <1>1 DEF Inv, RowsInv, FormedInv
    <2>2. a # t
      BY <1>1, CallableForm
    <2>3. a[1] # t[1]
      <3>1. ~(a[1] = t[1] /\ a[2] < t[2]) /\ ~(t[1] = a[1] /\ t[2] < a[2])
        BY <1>1, CallableForm DEF Inv, TypeOK
      <3>2. a = <<a[1], a[2]>> /\ t = <<t[1], t[2]>> /\ a[2] \in Nat /\ t[2] \in Nat
        BY AttemptsForm, CallableForm
      <3> QED
        BY <2>2, <3>1, <3>2
    <2> QED
      BY <2>1, <2>3
  <1>3. ASSUME NEW a \in T, NEW b \in T, a[1] = b[1] PROVE a = b
    <2>1. ~(a[2] < b[2]) /\ ~(b[2] < a[2])
      BY <1>1, <1>3 DEF Inv, RowsInv, ChainInv
    <2> QED
      BY <1>3, <2>1, AttemptsForm
  <1>4. f \in Injection(T, Others)
    BY <1>2, <1>3 DEF Injection, IsInjective
  <1>5. /\ IsFiniteSet(Others) /\ Cardinality(Others) = Cardinality(ScheduleLegs) - 1
        /\ Cardinality(ScheduleLegs) \in Nat
    BY LegsForm, CallableForm, FS_RemoveElement, FS_CardinalityType
  <1>6. Cardinality(T) <= Cardinality(Others) /\ Cardinality(T) \in Nat
    BY <1>4, <1>5, FS_Injection, FS_CardinalityType
  <1> HIDE DEF T, Others
  <1>7. ~(Cardinality(T) >= Cardinality(ScheduleLegs))
    BY <1>5, <1>6
  <1> QED
    BY <1>7 DEF Spent, T

LEMMA CalledOnlyByOutcome ==
  ASSUME Inv, [Next]_vars, NEW a \in Attempts, Called(a)
  PROVE  ~Unprotected /\ ~consumed /\ FullLedger
  <1>1. state'[a] # state[a] /\ state[a] # "UNKNOWN"
    BY DEF Called
  <1>2. CASE UNCHANGED state
    BY <1>1, <1>2
  <1>3. ASSUME Outcome PROVE ~Unprotected /\ ~consumed /\ FullLedger
    <2>1. CASE Rests
      BY <1>1, <2>1 DEF Rests, Held, Called
    <2>2. CASE Calls
      <3>1. PICK s, t : Callable(s, t)
        BY <2>2 DEF Calls
      <3> QED
        BY <3>1, SpentLeavesNothing DEF Callable, Inv, TypeOK
    <2> QED
      BY <1>3, <2>1, <2>2 DEF Outcome
  <1>4. ASSUME Scheduler PROVE UNCHANGED state \/ Outcome
    BY <1>4, BeginManagedOutcome, NoFactsOutcome, RiskFactsOutcome, FirstFactsOutcome,
       NextFactsOutcome DEF Scheduler, BeginEmpty, Answer, actions
  <1>5. ASSUME NEW b \in Attempts,
               Records(b) \/ ProtectionMoves(b) \/ Arrive(b) \/ Trade(b) \/ End(b)
        PROVE  UNCHANGED state \/ state'[a] = state[a]
    BY <1>1, <1>5, RecognisedForm
    DEF Records, RecordFill, RecordTerminal, CancelClosed, QueryUnknown, Protect,
        ProtectionMoves, Arrive, Trade, End, actions, Inv, TypeOK
  <1>6. CASE Tick \/ Restart \/ RecordReduction \/ Sell
    BY <1>2, <1>6 DEF Tick, Restart, RecordReduction, Sell, actions
  <1>7. CASE UNCHANGED vars
    BY <1>2, <1>7 DEF vars, actions
  <1> QED
    BY <1>1, <1>2, <1>3, <1>4, <1>5, <1>6, <1>7 DEF Next

\* No attempt is called while a recorded fill lacks its protection or after the
\* opportunity is consumed, although _advance reads the activation once and decides
\* from it after several awaits.
THEOREM CallsAreProtected == Spec => CalledUnderProtection
  <1>1. Inv /\ [Next]_vars => [\A a \in Attempts : Called(a) => ~Unprotected /\ ~consumed]_vars
    BY CalledOnlyByOutcome
  <1> QED
    BY <1>1, Invariance, PTL DEF Spec, CalledUnderProtection

\* The account read before a call shows what an earlier attempt has traded beyond
\* its terminal report and the recorded fills, unless a reduction was not recorded
\* when the ledger was read.
THEOREM CallsKnowTheLedger == Spec => CalledOnFullLedger
  <1>1. Inv /\ [Next]_vars =>
          [\A a \in Attempts :
             Called(a) => \/ \A b \in Attempts : filled[b] = traded[b]
                          \/ sold > adv.ledger[2]]_vars
    BY CalledOnlyByOutcome DEF FullLedger
  <1> QED
    BY <1>1, Invariance, PTL DEF Spec, CalledOnFullLedger
=============================================================================
