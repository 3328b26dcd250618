------------------------ MODULE ExitResponsibilityProofs ------------------------
(***************************************************************************)
(* What the responsibility passes keep, for every size of the entry, every *)
(* number of passes, whatever fails: the activation's reducers trade no    *)
(* more than it bought, and a completed activation is flat.                *)
(*                                                                         *)
(* The argument counts claims.  A protection claims the recorded fill it   *)
(* is for, from the moment that fill is on record until it cannot trade    *)
(* any more; an exit claims its size from its creation to its end; then    *)
(* each claims what it has traded.  The claims never exceed the recorded   *)
(* fills, since an exit is created when nothing else can trade and every   *)
(* trade is on record.                                                     *)
(*                                                                         *)
(* Two more parts rest on the same lemmas on sums.  The first proves of    *)
(* ProtectionTargets, which these protections are placed by, what its      *)
(* stops and take-profits promise; the second of ProtectionReplacement     *)
(* that a stop is handed over and that the take-profits of a fill fit it.  *)
(***************************************************************************)
EXTENDS ExitResponsibility, FiniteSetTheorems, SequenceTheorems, WellFoundedInduction,
        NaturalsInduction, TLAPS

(***************************************************************************)
(* Finite sums.  The community modules sum with a function that is         *)
(* recursive over the subsets; the lemmas unfold it.  An induction over    *)
(* the size of a set is a least counterexample here.                       *)
(***************************************************************************)

AnyOf(s) == CHOOSE x \in s : TRUE

\* What the fold's recursive function says of the sets in D.
Folds(f, D, g) ==
  g = [s \in D |-> IF s = {} THEN 0 ELSE f[AnyOf(s)] + g[s \ {AnyOf(s)}]]

\* A set of naturals has a least element.
LEMMA LeastForm ==
  ASSUME NEW B \in SUBSET Nat, B # {}
  PROVE  \E n \in B : \A m \in B : n <= m
  <1> DEFINE R == {ss \in Nat \X Nat : ss[1] < ss[2]}
  <1>1. IsWellFoundedOn(R, Nat)
    BY NatLessThanWellFounded DEF OpToRel
  <1> HIDE DEF R
  <1>2. PICK n \in B : \A m \in B : ~(<<m, n>> \in R)
    BY <1>1, WFMin
  <1>3. ASSUME NEW m \in B PROVE n <= m
    <2>1. <<m, n>> \in Nat \X Nat /\ ~(m < n)
      BY <1>2 DEF R
    <2> QED
      BY <2>1
  <1> QED
    BY <1>3

\* The fold's choice is a member.
LEMMA AnyForm ==
  ASSUME NEW s, s # {}
  PROVE  AnyOf(s) \in s
  BY DEF AnyOf

\* A finite set with an element less.
LEMMA LessForm ==
  ASSUME NEW s, IsFiniteSet(s), NEW x \in s
  PROVE  /\ IsFiniteSet(s \ {x})
         /\ Cardinality(s) \in Nat \ {0}
         /\ Cardinality(s \ {x}) = Cardinality(s) - 1
  BY FS_RemoveElement, FS_CardinalityType, FS_EmptySet

\* Two functions that unfold the same sum agree.
LEMMA FoldsAgree ==
  ASSUME NEW f, NEW S, IsFiniteSet(S), NEW T, NEW g, NEW h,
         Folds(f, SUBSET S, g), Folds(f, SUBSET T, h)
  PROVE  \A s \in SUBSET S : s \in SUBSET T => g[s] = h[s]
  <1> DEFINE B == {n \in Nat : \E s \in SUBSET S : s \in SUBSET T /\ Cardinality(s) = n /\ g[s] # h[s]}
  <1>1. \A s \in SUBSET S : IsFiniteSet(s) /\ Cardinality(s) \in Nat
    BY FS_Subset, FS_CardinalityType
  <1>2. SUFFICES ASSUME B # {} PROVE FALSE
    BY <1>1
  <1>3. PICK n \in B : \A m \in B : n <= m
    BY <1>2, LeastForm
  <1>4. PICK s \in SUBSET S : s \in SUBSET T /\ Cardinality(s) = n /\ g[s] # h[s]
    BY <1>3
  <1>5. g[s] = IF s = {} THEN 0 ELSE f[AnyOf(s)] + g[s \ {AnyOf(s)}]
    BY DEF Folds
  <1>6. h[s] = IF s = {} THEN 0 ELSE f[AnyOf(s)] + h[s \ {AnyOf(s)}]
    BY <1>4 DEF Folds
  <1>7. s # {}
    BY <1>4, <1>5, <1>6
  <1> DEFINE r == s \ {AnyOf(s)}
  <1>8. r \in SUBSET S /\ r \in SUBSET T /\ Cardinality(r) = n - 1 /\ n - 1 \in Nat
    BY <1>1, <1>4, <1>7, AnyForm, LessForm
  <1>9. g[r] = h[r]
    <2>1. n - 1 \notin B
      BY <1>3, <1>8
    <2> QED
      BY <1>8, <2>1
  <1> QED
    BY <1>4, <1>5, <1>6, <1>7, <1>9

\* A finite sum of integers can be unfolded.
LEMMA FoldsExist ==
  ASSUME NEW S, IsFiniteSet(S), NEW f, NEW C, C \subseteq Int, 0 \in C,
         \A a \in C, b \in C : a + b \in C,
         \A x \in S : f[x] \in C
  PROVE  \E g \in [SUBSET S -> C] : Folds(f, SUBSET S, g)
  <1> DEFINE D(n) == {s \in SUBSET S : Cardinality(s) <= n}
             B == {n \in Nat : ~ \E g \in [D(n) -> C] : Folds(f, D(n), g)}
  <1>1. \A s \in SUBSET S : IsFiniteSet(s) /\ Cardinality(s) \in Nat
    BY FS_Subset, FS_CardinalityType
  <1>2. B = {}
    <2> SUFFICES ASSUME B # {} PROVE FALSE
      OBVIOUS
    <2>1. PICK n \in B : \A m \in B : n <= m
      <3>1. B \in SUBSET Nat
        OBVIOUS
      <3> HIDE DEF B
      <3> QED
        BY <3>1, LeastForm
    <2>2. n # 0
      <3> SUFFICES ASSUME n = 0 PROVE FALSE
        OBVIOUS
      <3>1. \A s \in D(0) : s = {}
        BY <1>1, FS_EmptySet
      <3> DEFINE g == [s \in D(0) |-> 0]
      <3>2. g \in [D(0) -> C]
        OBVIOUS
      <3>3. Folds(f, D(0), g)
        BY <3>1 DEF Folds
      <3> HIDE DEF g
      <3> QED
        BY <2>1, <3>2, <3>3
    <2>3. n - 1 \in Nat /\ n - 1 \notin B
      <3>1. n \in Nat
        OBVIOUS
      <3> HIDE DEF B
      <3> QED
        BY <2>1, <2>2, <3>1
    <2>4. PICK h \in [D(n - 1) -> C] : Folds(f, D(n - 1), h)
      BY <2>3
    <2> DEFINE g == [s \in D(n) |-> IF s = {} THEN 0 ELSE f[AnyOf(s)] + h[s \ {AnyOf(s)}]]
    <2>5. \A s \in D(n) : s # {} => AnyOf(s) \in S /\ s \ {AnyOf(s)} \in D(n - 1)
      BY <1>1, <2>3, AnyForm, LessForm
    <2>6. g \in [D(n) -> C]
      <3>1. ASSUME NEW s \in D(n), s # {}
            PROVE  f[AnyOf(s)] \in C /\ h[s \ {AnyOf(s)}] \in C
        BY <2>5, <3>1
      <3>2. ASSUME NEW s \in D(n), s # {}
            PROVE  f[AnyOf(s)] + h[s \ {AnyOf(s)}] \in C
        BY <3>1, <3>2
      <3> QED
        BY <3>2
    <2>7. \A s \in D(n - 1) : s \in D(n) /\ g[s] = h[s]
      <3>1. ASSUME NEW s \in D(n - 1) PROVE s \in D(n)
        BY <1>1, <2>1, <2>3
      <3>2. ASSUME NEW s \in D(n - 1)
            PROVE  h[s] = IF s = {} THEN 0 ELSE f[AnyOf(s)] + h[s \ {AnyOf(s)}]
        BY <2>4 DEF Folds
      <3> QED
        BY <3>1, <3>2
    <2>8. Folds(f, D(n), g)
      <3>1. \A s \in D(n) : s # {} => g[s \ {AnyOf(s)}] = h[s \ {AnyOf(s)}]
        BY <2>5, <2>7
      <3>2. g = [s \in D(n) |-> IF s = {} THEN 0 ELSE f[AnyOf(s)] + g[s \ {AnyOf(s)}]]
        BY <3>1
      <3> QED
        BY <3>2 DEF Folds
    <2> HIDE DEF g
    <2> QED
      BY <2>1, <2>6, <2>8
  <1>3. Cardinality(S) \in Nat /\ D(Cardinality(S)) = SUBSET S
    <2>1. \A s \in SUBSET S : Cardinality(s) <= Cardinality(S)
      BY FS_Subset
    <2> QED
      BY <1>1, <2>1
  <1>4. Cardinality(S) \notin B
    BY <1>2
  <1> QED
    BY <1>3, <1>4

\* A sum stays within what is closed under addition, and is one of its terms and
\* the rest.
LEMMA SumWithin ==
  ASSUME NEW S, IsFiniteSet(S), NEW f, NEW C, C \subseteq Int, 0 \in C,
         \A a \in C, b \in C : a + b \in C,
         \A x \in S : f[x] \in C
  PROVE  /\ Sum(f, S) \in C
         /\ S = {} => Sum(f, S) = 0
         /\ S # {} => Sum(f, S) = f[AnyOf(S)] + Sum(f, S \ {AnyOf(S)})
  <1> DEFINE G(T) == CHOOSE g : Folds(f, SUBSET T, g)
  <1>1. \A T : Sum(f, T) = G(T)[T]
    BY DEF Sum, MapThenSumSet, MapThenFoldSet, Folds, AnyOf
  <1>2. ASSUME NEW T \in SUBSET S
        PROVE  Folds(f, SUBSET T, G(T))
    <2>1. IsFiniteSet(T) /\ \A x \in T : f[x] \in C
      BY <1>2, FS_Subset
    <2>2. \E g : Folds(f, SUBSET T, g)
      BY <2>1, FoldsExist
    <2> QED
      BY <2>2
  <1> HIDE DEF G
  <1>3. Sum(f, S) \in C
    <2>1. PICK g \in [SUBSET S -> C] : Folds(f, SUBSET S, g)
      BY FoldsExist
    <2>2. G(S)[S] = g[S]
      <3>1. Folds(f, SUBSET S, G(S))
        BY <1>2
      <3>2. \A s \in SUBSET S : s \in SUBSET S => G(S)[s] = g[s]
        BY <2>1, <3>1, FoldsAgree
      <3> QED
        BY <3>2
    <2> QED
      BY <1>1, <2>1, <2>2
  <1>4. G(S)[S] = IF S = {} THEN 0 ELSE f[AnyOf(S)] + G(S)[S \ {AnyOf(S)}]
    BY <1>2 DEF Folds
  <1>5. S # {} => G(S)[S \ {AnyOf(S)}] = Sum(f, S \ {AnyOf(S)})
    <2> SUFFICES ASSUME S # {}
                 PROVE  G(S)[S \ {AnyOf(S)}] = Sum(f, S \ {AnyOf(S)})
      OBVIOUS
    <2>1. PICK T \in SUBSET S : T = S \ {AnyOf(S)}
      OBVIOUS
    <2>2. Folds(f, SUBSET S, G(S)) /\ Folds(f, SUBSET T, G(T))
      BY <1>2, <2>1
    <2>3. G(S)[T] = G(T)[T]
      <3>1. PICK g : g = G(S)
        OBVIOUS
      <3>2. PICK h : h = G(T)
        OBVIOUS
      <3>3. Folds(f, SUBSET S, g) /\ Folds(f, SUBSET T, h)
        BY <2>2, <3>1, <3>2
      <3>4. \A s \in SUBSET S : s \in SUBSET T => g[s] = h[s]
        BY <3>3, SMTT(20), FoldsAgree
      <3> QED
        BY <2>1, <3>1, <3>2, <3>4
    <2>4. G(S)[T] = Sum(f, T)
      BY <1>1, <2>1, <2>3
    <2> QED
      BY <2>1, <2>4
  <1> QED
    BY <1>1, <1>3, <1>4, <1>5

\* The same for integers.
LEMMA SumForm ==
  ASSUME NEW S, IsFiniteSet(S), NEW f, \A x \in S : f[x] \in Int
  PROVE  /\ Sum(f, S) \in Int
         /\ S = {} => Sum(f, S) = 0
         /\ S # {} => Sum(f, S) = f[AnyOf(S)] + Sum(f, S \ {AnyOf(S)})
  <1>1. PICK C : C = Int
    OBVIOUS
  <1>2. C \subseteq Int /\ 0 \in C /\ \A a \in C, b \in C : a + b \in C
    BY <1>1
  <1>3. \A x \in S : f[x] \in C
    BY <1>1
  <1>4. /\ Sum(f, S) \in C
        /\ S = {} => Sum(f, S) = 0
        /\ S # {} => Sum(f, S) = f[AnyOf(S)] + Sum(f, S \ {AnyOf(S)})
    BY <1>2, <1>3, SumWithin
  <1> QED
    BY <1>1, <1>4

\* A finite sum is one of its terms and the rest.
LEMMA SumRemove ==
  ASSUME NEW S, IsFiniteSet(S), NEW f, \A x \in S : f[x] \in Int, NEW o \in S
  PROVE  /\ Sum(f, S \ {o}) \in Int
         /\ Sum(f, S) = f[o] + Sum(f, S \ {o})
  <1> DEFINE Holds(T) == \A p \in T : Sum(f, T) = f[p] + Sum(f, T \ {p})
             B == {n \in Nat : \E T \in SUBSET S : Cardinality(T) = n /\ ~Holds(T)}
  <1>1. \A T \in SUBSET S : IsFiniteSet(T) /\ Cardinality(T) \in Nat
    BY FS_Subset, FS_CardinalityType
  <1>2. \A T \in SUBSET S : /\ Sum(f, T) \in Int
                            /\ T # {} => Sum(f, T) = f[AnyOf(T)] + Sum(f, T \ {AnyOf(T)})
    BY <1>1, SumForm
  <1>3. B = {}
    <2> SUFFICES ASSUME B # {} PROVE FALSE
      OBVIOUS
    <2>1. PICK n \in B : \A m \in B : n <= m
      <3>1. B \in SUBSET Nat
        OBVIOUS
      <3> HIDE DEF B
      <3> QED
        BY <3>1, LeastForm
    <2>2. PICK T \in SUBSET S : Cardinality(T) = n /\ ~Holds(T)
      OBVIOUS
    <2>3. PICK p \in T : Sum(f, T) # f[p] + Sum(f, T \ {p})
      BY <2>2
    <2>4. \A R \in SUBSET S : Cardinality(R) < n => Holds(R)
      <3>1. \A R \in SUBSET S : ~Holds(R) => Cardinality(R) \in B
        BY <1>1
      <3>2. n \in Nat
        OBVIOUS
      <3> HIDE DEF B, Holds
      <3> QED
        BY <1>1, <2>1, <3>1, <3>2
    <2> DEFINE a == AnyOf(T)
    <2>5. a \in T
      BY AnyForm
    <2>6. Sum(f, T) = f[a] + Sum(f, T \ {a})
      BY <1>2
    <2>7. a # p
      BY <2>3, <2>6
    <2>8. Cardinality(T \ {a}) < n /\ Cardinality(T \ {p}) < n
      <3>1. Cardinality(T) \in Nat /\ IsFiniteSet(T)
        BY <1>1
      <3> HIDE DEF a
      <3> QED
        BY <2>2, <2>5, <3>1, LessForm
    <2> HIDE DEF a
    <2>9. Sum(f, T \ {a}) = f[p] + Sum(f, (T \ {a}) \ {p})
      BY <2>4, <2>7, <2>8
    <2>10. Sum(f, T \ {p}) = f[a] + Sum(f, (T \ {p}) \ {a})
      BY <2>4, <2>5, <2>7, <2>8
    <2>11. (T \ {a}) \ {p} = (T \ {p}) \ {a}
      OBVIOUS
    <2>12. f[a] \in Int /\ f[p] \in Int /\ Sum(f, (T \ {a}) \ {p}) \in Int
      BY <1>2, <2>5
    <2> DEFINE rest == Sum(f, (T \ {a}) \ {p})
    <2>13. Sum(f, T) = f[a] + (f[p] + rest) /\ Sum(f, T \ {p}) = f[a] + rest
      BY <2>6, <2>9, <2>10, <2>11
    <2> HIDE DEF rest
    <2>14. f[a] + (f[p] + rest) = f[p] + (f[a] + rest)
      BY <2>12 DEF rest
    <2> QED
      BY <2>3, <2>13, <2>14
  <1>4. Holds(S)
    BY <1>1, <1>3
  <1> QED
    BY <1>2, <1>4

\* Larger terms have the larger sum.
LEMMA SumMono ==
  ASSUME NEW S, IsFiniteSet(S), NEW f, NEW g,
         \A x \in S : f[x] \in Int /\ g[x] \in Int /\ f[x] <= g[x]
  PROVE  Sum(f, S) <= Sum(g, S)
  <1> DEFINE B == {n \in Nat : \E T \in SUBSET S : Cardinality(T) = n /\ ~(Sum(f, T) <= Sum(g, T))}
  <1>1. \A T \in SUBSET S : IsFiniteSet(T) /\ Cardinality(T) \in Nat
    BY FS_Subset, FS_CardinalityType
  <1>2. \A T \in SUBSET S :
          /\ Sum(f, T) \in Int /\ Sum(g, T) \in Int
          /\ T = {} => Sum(f, T) = 0 /\ Sum(g, T) = 0
          /\ T # {} => /\ Sum(f, T) = f[AnyOf(T)] + Sum(f, T \ {AnyOf(T)})
                       /\ Sum(g, T) = g[AnyOf(T)] + Sum(g, T \ {AnyOf(T)})
    BY <1>1, SumForm
  <1>3. B = {}
    <2> SUFFICES ASSUME B # {} PROVE FALSE
      OBVIOUS
    <2>1. PICK n \in B : \A m \in B : n <= m
      <3>1. B \in SUBSET Nat
        OBVIOUS
      <3> HIDE DEF B
      <3> QED
        BY <3>1, LeastForm
    <2>2. PICK T \in SUBSET S : Cardinality(T) = n /\ ~(Sum(f, T) <= Sum(g, T))
      OBVIOUS
    <2>3. T # {}
      <3>1. T = {} => Sum(f, T) = 0 /\ Sum(g, T) = 0
        BY <1>2
      <3> QED
        BY <2>2, <3>1
    <2> DEFINE R == T \ {AnyOf(T)}
    <2>4. R \in SUBSET S /\ Cardinality(R) = n - 1 /\ n - 1 \in Nat
      BY <1>1, <2>2, <2>3, AnyForm, LessForm
    <2>5. n - 1 \notin B
      <3>1. n \in Nat
        OBVIOUS
      <3> HIDE DEF B
      <3> QED
        BY <2>1, <3>1
    <2>6. Sum(f, R) <= Sum(g, R)
      BY <2>4, <2>5
    <2>7. AnyOf(T) \in S
      BY <2>3, AnyForm
    <2> DEFINE a == AnyOf(T)
    <2>8. Sum(f, T) = f[a] + Sum(f, R) /\ Sum(g, T) = g[a] + Sum(g, R)
      BY <1>2, <2>3
    <2>9. Sum(f, R) \in Int /\ Sum(g, R) \in Int
      BY <1>2, <2>4
    <2> HIDE DEF a, R
    <2>10. f[a] + Sum(f, R) <= g[a] + Sum(g, R)
      BY <2>6, <2>7, <2>9 DEF a
    <2> QED
      BY <2>2, <2>8, <2>10
  <1> QED
    BY <1>1, <1>3

\* A sum of natural numbers is one.
LEMMA SumNat ==
  ASSUME NEW S, IsFiniteSet(S), NEW f, \A x \in S : f[x] \in Nat
  PROVE  Sum(f, S) \in Nat
  <1>1. PICK C : C = Nat
    OBVIOUS
  <1>2. C \subseteq Int /\ 0 \in C /\ \A a \in C, b \in C : a + b \in C
    BY <1>1
  <1>3. \A x \in S : f[x] \in C
    BY <1>1
  <1>4. /\ Sum(f, S) \in C
        /\ S = {} => Sum(f, S) = 0
        /\ S # {} => Sum(f, S) = f[AnyOf(S)] + Sum(f, S \ {AnyOf(S)})
    BY <1>2, <1>3, SumWithin
  <1> QED
    BY <1>1, <1>4

\* A sum of nothing is zero.
LEMMA SumZero ==
  ASSUME NEW S, IsFiniteSet(S), NEW f, \A x \in S : f[x] = 0
  PROVE  Sum(f, S) = 0
  <1>1. PICK C : C = {0}
    OBVIOUS
  <1>2. C \subseteq Int /\ 0 \in C /\ \A a \in C, b \in C : a + b \in C
    BY <1>1
  <1>3. \A x \in S : f[x] \in C
    BY <1>1
  <1>4. /\ Sum(f, S) \in C
        /\ S = {} => Sum(f, S) = 0
        /\ S # {} => Sum(f, S) = f[AnyOf(S)] + Sum(f, S \ {AnyOf(S)})
    BY <1>2, <1>3, SumWithin
  <1> QED
    BY <1>1, <1>4

(***************************************************************************)
(* The orders.                                                             *)
(***************************************************************************)

\* The entry, the protections and the exits are different orders.
LEMMA OrderForm ==
  /\ Entry \in Orders /\ Stops \subseteq Orders /\ Exits \subseteq Orders
  /\ Orders = {Entry} \cup Reducers /\ Reducers = Stops \cup Exits
  /\ Entry \notin Reducers
  /\ \A o \in Stops : o \notin Exits
  /\ Exits = {Primary, Successor, Cleanup}
  /\ Primary # Successor /\ Primary # Cleanup /\ Successor # Cleanup
  <1>1. \A o \in Stops : o[1] = "STOP"
    BY DEF Stops, Stop
  <1>2. \A o \in Exits : o[1] = "EXIT"
    BY DEF Exits, Primary, Successor, Cleanup
  <1>3. Entry[1] = "ENTRY"
    BY DEF Entry
  <1>4. Primary[2] = 1 /\ Successor[2] = 2 /\ Cleanup[2] = 3
    BY DEF Primary, Successor, Cleanup
  <1> QED
    BY <1>1, <1>2, <1>3, <1>4 DEF Orders, Reducers, Exits

\* A protection is the one of its fill.
LEMMA StopForm ==
  /\ \A n \in 1..Lot : Stop(n) \in Stops /\ Stop(n)[2] = n
  /\ \A o \in Stops : \E n \in 1..Lot : o = Stop(n)
  BY DEF Stops, Stop

\* There are finitely many orders that reduce.
LEMMA ReducersFinite == IsFiniteSet(Reducers)
  <1>1. IsFiniteSet(1..Lot)
    BY LotAssumption, FS_Interval
  <1>2. IsFiniteSet(Stops)
    <2> DEFINE f == [n \in 1..Lot |-> Stop(n)]
    <2>1. f \in Surjection(1..Lot, Stops)
      BY StopForm DEF Surjection
    <2> QED
      BY <1>1, <2>1, FS_Surjection
  <1>3. IsFiniteSet(Exits)
    <2>1. IsFiniteSet({}) /\ IsFiniteSet({Primary}) /\ IsFiniteSet({Primary, Successor})
      BY FS_EmptySet, FS_AddElement
    <2>2. IsFiniteSet({Primary, Successor} \cup {Cleanup})
      BY <2>1, FS_AddElement
    <2>3. Exits = {Primary, Successor} \cup {Cleanup}
      BY DEF Exits
    <2> QED
      BY <2>2, <2>3
  <1> QED
    BY <1>2, <1>3, FS_Union DEF Reducers

(***************************************************************************)
(* The invariant.                                                          *)
(***************************************************************************)

Pass == [step : {"IDLE", "READ", "RESUMED", "CLOSE"}, pos : Int, aged : SUBSET Orders, open : BOOLEAN]

TypeInv ==
  /\ TypeOK
  /\ born \in Seq(Orders)
  /\ pass \in [Passes -> Pass]

\* Protections of fills that are on record.
Protected == {Stop(n) : n \in 1..recorded[Entry]}

\* The order may still trade, now or when its call arrives or is made; a recorded
\* fill without a protection will get one.
Pending(o) ==
  \/ state[o] = "READY"
  \/ venue[o] = "LIVE"
  \/ state[o] = "UNKNOWN" /\ venue[o] = "NONE" /\ o \notin aged
  \/ state[o] = "ABSENT" /\ o \in Protected

Claim(o) == IF Pending(o) THEN Ordered(o) ELSE traded[o]
Claims   == [o \in Reducers |-> Claim(o)]

\* What the row of an order, its facts and the venue say of each other.
RowOK(o) ==
  /\ state[o] \in {"ABSENT", "REFUSED", "READY", "NOT_SUBMITTED"} => venue[o] = "NONE"
  /\ state[o] \in {"ABSENT", "REFUSED", "READY"} => o \notin called
  /\ state[o] = "UNKNOWN" => recorded[o] = 0 /\ o \notin term
  /\ state[o] = "OPEN" => venue[o] # "NONE"
  /\ state[o] = "CLOSED" => Complete(o)
  /\ venue[o] = "NONE" => traded[o] = 0 /\ recorded[o] = 0
  /\ venue[o] = "LIVE" => traded[o] < Ordered(o)
  /\ o \in term => Ended(o)
  /\ recorded[o] <= traded[o]
  /\ state[o] # "ABSENT" => traded[o] <= Ordered(o)

\* An exit has a size; its delay passes only when it is not at the venue.
ExitOK(x) ==
  /\ state[x] # "ABSENT" => size[x] \in 1..Lot
  /\ x \in aged => venue[x] # "LIVE"

\* A protection is for a fill that is on record.
StopOK(o) == state[o] # "ABSENT" => o \in Protected

\* The successor follows an exit that is over, the clean-up a called successor.
ChainOK ==
  /\ state[Successor] # "ABSENT" => state[Primary] # "ABSENT" /\ ~Pending(Primary)
  /\ state[Cleanup] # "ABSENT" => Successor \in called

Rows ==
  /\ \A o \in Orders : RowOK(o)
  /\ \A x \in Exits : ExitOK(x)
  /\ \A o \in Stops : StopOK(o)
  /\ aged \subseteq called
  /\ ChainOK

PassInv == \A p \in Passes : /\ pass[p].aged \subseteq aged
                             /\ pass[p].step = "CLOSE" => pass[p].pos = 0

\* The claims do not exceed the fills on record.
Covered == blind \/ Sum(Claims, Reducers) <= recorded[Entry]

\* A completed activation has only final rows, and a ledger of zero.
CompletedInv == lifecycle = "COMPLETED" => (\A o \in Orders : Final(state, o)) /\ Ledger = 0

Inv == TypeInv /\ Rows /\ PassInv /\ Covered /\ CompletedInv

(***************************************************************************)
(* What the invariant gives.                                               *)
(***************************************************************************)

\* What each kind of order is to trade.
LEMMA OrderedForm ==
  /\ Ordered(Entry) = Lot
  /\ \A o \in Stops : Ordered(o) = 1
  /\ \A x \in Exits : Ordered(x) = size[x]
  BY OrderForm DEF Ordered

\* A claim is a number, and no less than what has traded.
LEMMA ClaimForm ==
  ASSUME TypeOK, Rows, NEW o \in Reducers
  PROVE  /\ traded[o] \in Nat /\ recorded[o] \in Nat
         /\ Claim(o) \in Nat /\ Claims[o] = Claim(o)
         /\ traded[o] <= Claim(o)
         /\ Ordered(o) \in 0..Lot
  <1>1. o \in Orders /\ (o \in Stops \/ o \in Exits)
    BY OrderForm
  <1>2. Ordered(o) \in 0..Lot
    BY <1>1, OrderedForm, LotAssumption DEF TypeOK
  <1>3. RowOK(o)
    BY <1>1 DEF Rows
  <1>4. traded[o] \in 0..Lot /\ recorded[o] \in 0..Lot
    BY <1>1 DEF TypeOK
  <1>5. state[o] = "ABSENT" => traded[o] = 0
    BY <1>3 DEF RowOK
  <1>6. traded[o] <= Claim(o)
    BY <1>2, <1>3, <1>4, <1>5 DEF RowOK, Claim
  <1> QED
    BY <1>2, <1>4, <1>6, LotAssumption DEF Claim, Claims

\* The position and the ledger are integers, and the ledger is within the entry.
LEMMA LedgerForm ==
  ASSUME TypeOK
  PROVE  /\ Sum(traded, Reducers) \in Nat /\ Sum(recorded, Reducers) \in Nat
         /\ traded[Entry] \in 0..Lot /\ recorded[Entry] \in 0..Lot
         /\ Position \in Int /\ Ledger \in Int /\ Ledger <= recorded[Entry]
  <1>1. \A o \in Reducers : traded[o] \in Nat /\ recorded[o] \in Nat
    BY OrderForm, LotAssumption DEF TypeOK
  <1>2. Sum(traded, Reducers) \in Nat /\ Sum(recorded, Reducers) \in Nat
    BY <1>1, ReducersFinite, SumNat
  <1>3. traded[Entry] \in 0..Lot /\ recorded[Entry] \in 0..Lot
    BY OrderForm DEF TypeOK
  <1> QED
    BY <1>2, <1>3, LotAssumption DEF Position, Ledger

\* What has traded is within the claims.
LEMMA NoForeign ==
  ASSUME Inv
  PROVE  NoForeignReduction
  <1> SUFFICES ASSUME ~blind
               PROVE  Position >= 0
    BY DEF NoForeignReduction
  <1>1. TypeOK /\ Rows
    BY DEF Inv, TypeInv
  <1>2. Sum(Claims, Reducers) <= recorded[Entry]
    BY DEF Inv, Covered
  <1>3. \A o \in Reducers : /\ traded[o] \in Int /\ Claims[o] \in Int
                            /\ traded[o] <= Claims[o]
    BY <1>1, ClaimForm
  <1>4. Sum(traded, Reducers) <= Sum(Claims, Reducers)
    BY <1>3, ReducersFinite, SumMono
  <1>5. Sum(Claims, Reducers) \in Int
    BY <1>3, ReducersFinite, SumForm
  <1>6. recorded[Entry] <= traded[Entry]
    BY <1>1, OrderForm DEF Rows, RowOK
  <1> QED
    BY <1>1, <1>2, <1>4, <1>5, <1>6, LedgerForm, LotAssumption DEF Position

\* Where every trade is on record, the ledger is the position.
LEMMA FlatForm ==
  ASSUME TypeOK, recorded = traded
  PROVE  Ledger = Position
  BY DEF Ledger, Position

\* A final row has all its trades on record.
LEMMA FinalForm ==
  ASSUME TypeOK, Rows, NEW o \in Orders, Final(state, o)
  PROVE  recorded[o] = traded[o] /\ venue[o] # "LIVE" /\ state[o] # "UNKNOWN"
  BY DEF TypeOK, Rows, RowOK, Final, Complete, Ended

\* Nothing can trade of a completed activation, and its ledger is its position.
LEMMA Flat ==
  ASSUME Inv
  PROVE  CompletedMeansFlat
  <1> SUFFICES ASSUME lifecycle = "COMPLETED"
               PROVE  /\ Position = 0
                      /\ \A o \in Orders : venue[o] # "LIVE" /\ ~(state[o] = "UNKNOWN")
    BY DEF CompletedMeansFlat
  <1>1. TypeOK /\ Rows /\ (\A o \in Orders : Final(state, o)) /\ Ledger = 0
    BY DEF Inv, TypeInv, CompletedInv
  <1>2. \A o \in Orders : recorded[o] = traded[o] /\ venue[o] # "LIVE" /\ state[o] # "UNKNOWN"
    BY <1>1, FinalForm
  <1>3. recorded = traded
    BY <1>1, <1>2 DEF TypeOK
  <1> QED
    BY <1>1, <1>2, <1>3, FlatForm

\* No order has traded more than its claim.
LEMMA TradedForm ==
  ASSUME TypeOK, Rows, NEW o \in Orders
  PROVE  traded[o] <= Claim(o)
  <1>1. CASE o \in Reducers
    BY <1>1, ClaimForm
  <1>2. CASE o = Entry
    BY <1>2, OrderedForm, LotAssumption DEF Claim, TypeOK
  <1> QED
    BY <1>1, <1>2, OrderForm

(***************************************************************************)
(* Steps in which no order gets a claim.                                   *)
(***************************************************************************)

\* The order, and what is known of it, stays.
Same(o) ==
  /\ state'[o] = state[o] /\ venue'[o] = venue[o]
  /\ recorded'[o] = recorded[o] /\ traded'[o] = traded[o]
  /\ o \in called' <=> o \in called
  /\ o \in aged' <=> o \in aged
  /\ o \in term' <=> o \in term

\* The order keeps its invariant and claims no more than before.
Calm(o) ==
  /\ RowOK(o)'
  /\ o \in Exits => ExitOK(o)'
  /\ state[o] = "ABSENT" => o \in Stops \/ state'[o] = "ABSENT"
  /\ state'[o] = "ABSENT" => state[o] = "ABSENT"
  /\ o \in Stops => StopOK(o)'
  /\ Pending(o)' => Pending(o)
  /\ traded'[o] <= Claim(o)

\* An order that stays keeps its invariant.
LEMMA SameCalm ==
  ASSUME TypeOK, Rows, NEW o \in Orders, Same(o), Ordered(o)' = Ordered(o),
         o \in Exits => size'[o] = size[o], recorded'[Entry] = recorded[Entry]
  PROVE  Calm(o)
  <1>1. Protected' = Protected
    BY DEF Protected
  <1>2. RowOK(o)
    BY DEF Rows
  <1>3. RowOK(o)'
    BY <1>1, <1>2 DEF RowOK, Same, Complete, Ended
  <1>4. o \in Exits => ExitOK(o)'
    BY DEF Rows, ExitOK, Same
  <1>5. o \in Stops => StopOK(o)'
    BY <1>1 DEF Rows, StopOK, Same
  <1>6. Pending(o)' => Pending(o)
    BY <1>1 DEF Pending, Same
  <1>7. traded'[o] <= Claim(o)
    <2>1. traded[o] \in 0..Lot
      BY DEF TypeOK
    <2>2. CASE o \in Reducers
      BY <2>2, ClaimForm DEF Same
    <2>3. CASE o = Entry
      BY <2>1, <2>3, OrderedForm, LotAssumption DEF Same, Claim
    <2> QED
      BY <2>2, <2>3, OrderForm
  <1> QED
    BY <1>3, <1>4, <1>5, <1>6, <1>7 DEF Calm, Same

\* A step in which no order gets a claim.
LEMMA CalmStep ==
  ASSUME TypeOK, TypeOK', Rows, Covered, \A o \in Orders : Calm(o),
         size' = size, recorded'[Entry] = recorded[Entry],
         aged' \subseteq called', called \subseteq called', blind => blind'
  PROVE  Rows' /\ Covered'
  <1>1. \A o \in Orders : RowOK(o)'
    BY DEF Calm
  <1>2. \A x \in Exits : ExitOK(x)'
    BY OrderForm DEF Calm
  <1>3. \A o \in Stops : StopOK(o)'
    BY OrderForm DEF Calm
  <1>4. ChainOK'
    <2>1. Primary \in Orders /\ Successor \in Orders /\ Cleanup \in Orders
      BY OrderForm
    <2>2. Successor \notin Stops /\ Cleanup \notin Stops
      BY OrderForm
    <2>3. state'[Successor] # "ABSENT" => state[Successor] # "ABSENT"
      BY <2>1, <2>2 DEF Calm
    <2>4. state'[Cleanup] # "ABSENT" => state[Cleanup] # "ABSENT"
      BY <2>1, <2>2 DEF Calm
    <2>5. state[Primary] # "ABSENT" => state'[Primary] # "ABSENT"
      BY <2>1 DEF Calm
    <2>6. Pending(Primary)' => Pending(Primary)
      BY <2>1 DEF Calm
    <2> QED
      BY <2>3, <2>4, <2>5, <2>6 DEF Rows, ChainOK
  <1>5. Rows'
    BY <1>1, <1>2, <1>3, <1>4 DEF Rows
  <1>6. Covered'
    <2>1. CASE blind
      BY <2>1 DEF Covered
    <2>2. CASE ~blind
      <3>1. Sum(Claims, Reducers) <= recorded[Entry]
        BY <2>2 DEF Covered
      <3>2. ASSUME NEW o \in Reducers
            PROVE  Claims'[o] \in Int /\ Claims[o] \in Int /\ Claims'[o] <= Claims[o]
        <4>1. Claims[o] = Claim(o) /\ Claim(o) \in Nat
          BY ClaimForm
        <4>2. Claims'[o] = Claim(o)' /\ Claim(o)' \in Nat
          <5>1. Claims' = [q \in Reducers |-> Claim(q)']
            BY DEF Claims
          <5>2. traded'[o] \in Nat /\ Ordered(o)' \in Nat
            BY OrderForm, LotAssumption DEF TypeOK, Ordered
          <5> QED
            BY <5>1, <5>2 DEF Claim
        <4>3. Calm(o) /\ Ordered(o)' = Ordered(o)
          BY OrderForm DEF Ordered
        <4>4. Claim(o)' <= Claim(o)
          <5>1. CASE Pending(o)'
            BY <4>1, <4>3, <5>1 DEF Claim, Calm
          <5>2. CASE ~Pending(o)'
            BY <4>3, <5>2 DEF Claim, Calm
          <5> QED
            BY <5>1, <5>2
        <4> QED
          BY <4>1, <4>2, <4>4
      <3>3. Sum(Claims', Reducers) <= Sum(Claims, Reducers)
        BY <3>2, ReducersFinite, SumMono
      <3>4. Sum(Claims', Reducers) \in Int /\ Sum(Claims, Reducers) \in Int
        BY <3>2, ReducersFinite, SumForm
      <3>5. recorded[Entry] \in Int
        BY LedgerForm, LotAssumption
      <3>6. Sum(Claims', Reducers) <= recorded'[Entry]
        BY <3>1, <3>3, <3>4, <3>5
      <3>7. Sum(Claims, Reducers)' = Sum(Claims', Reducers)
        OBVIOUS
      <3> QED
        BY <3>6, <3>7 DEF Covered
    <2> QED
      BY <2>1, <2>2
  <1> QED
    BY <1>5, <1>6

\* The order that moves keeps the claims, the others stay.
LEMMA OneStep ==
  ASSUME TypeOK, TypeOK', Rows, Covered, NEW o \in Orders, Calm(o),
         \A q \in Orders \ {o} : Same(q),
         size' = size, recorded'[Entry] = recorded[Entry],
         aged' \subseteq called', called \subseteq called', blind => blind'
  PROVE  Rows' /\ Covered'
  <1>1. \A q \in Orders : Ordered(q)' = Ordered(q)
    BY DEF Ordered
  <1>2. \A q \in Orders : Calm(q)
    BY <1>1, SameCalm
  <1> QED
    BY <1>2, CalmStep

\* No order moves.
LEMMA NoStep ==
  ASSUME TypeOK, TypeOK', Rows, Covered, \A q \in Orders : Same(q),
         size' = size, recorded'[Entry] = recorded[Entry],
         aged' \subseteq called', called \subseteq called', blind => blind'
  PROVE  Rows' /\ Covered'
  BY OneStep, OrderForm, SameCalm DEF Ordered

(***************************************************************************)
(* Calls, and rows that are given up.                                      *)
(***************************************************************************)

VenueStates == {"NONE", "LIVE", "FILLED", "CANCELLED", "REJECTED"}

\* What a call does to its order, when the row was not called before.
Called(o) ==
  \/ state'[o] \in {"READY", "NOT_SUBMITTED"} /\ venue'[o] = "NONE" /\ o \notin called'
  \/ state'[o] = "OPEN" /\ venue'[o] = "LIVE"
  \/ state'[o] = "UNKNOWN" /\ venue'[o] \in {"NONE", "LIVE"}

\* A call touches its order only.
LEMMA CallForm ==
  ASSUME TypeOK, NEW s \in [Orders -> States], NEW o \in Orders, Call(s, o)
  PROVE  /\ state' \in [Orders -> States] /\ venue' \in [Orders -> VenueStates]
         /\ called' \subseteq Orders /\ called \subseteq called'
         /\ \A q \in Orders \ {o} : /\ state'[q] = s[q] /\ venue'[q] = venue[q]
                                    /\ q \in called' <=> q \in called
         /\ venue[o] = "NONE" /\ o \notin called => Called(o)
  BY DEF TypeOK, Call, Called, States, VenueStates

\* The row of an order that is called.
LEMMA CallRow ==
  ASSUME TypeOK, Rows, NEW o \in Orders, o \notin called, venue[o] = "NONE", Called(o),
         recorded' = recorded, traded' = traded, aged' = aged, term' = term,
         Ordered(o)' \in 1..Lot, o \in Exits => size'[o] \in 1..Lot
  PROVE  /\ RowOK(o)' /\ (o \in Exits => ExitOK(o)')
         /\ state'[o] # "ABSENT" /\ traded[o] = 0
  <1>1. RowOK(o) /\ aged \subseteq called
    BY DEF Rows
  <1>2. traded[o] = 0 /\ recorded[o] = 0 /\ o \notin term /\ o \notin aged
    BY <1>1 DEF RowOK, Ended
  <1>3. state'[o] # "ABSENT"
    BY DEF Called
  <1>4. RowOK(o)'
    BY <1>2 DEF RowOK, Called, Ended, Complete
  <1>5. o \in Exits => ExitOK(o)'
    BY <1>2 DEF ExitOK
  <1> QED
    BY <1>2, <1>3, <1>4, <1>5

\* Calling an order that had its claim.
LEMMA CallCalm ==
  ASSUME TypeOK, Rows, NEW o \in Orders, Called(o),
         \/ state[o] = "READY"
         \/ state[o] = "ABSENT" /\ o \in Protected,
         recorded' = recorded, traded' = traded, aged' = aged, term' = term, size' = size
  PROVE  Calm(o)
  <1>1. RowOK(o) /\ Pending(o)
    BY DEF Rows, Pending
  <1>2. o \notin called /\ venue[o] = "NONE"
    BY <1>1 DEF RowOK
  <1>3. Protected \subseteq Stops
    <2>1. recorded[Entry] \in 0..Lot
      BY LedgerForm
    <2> QED
      BY <2>1, StopForm, LotAssumption DEF Protected
  <1>4. o \in Exits => size'[o] \in 1..Lot
    BY <1>3, OrderForm DEF Rows, ExitOK
  <1>5. Ordered(o)' = Ordered(o)
    BY DEF Ordered
  <1>6. Ordered(o) \in 1..Lot
    <2>1. CASE o \in Stops \/ o = Entry
      BY <2>1, OrderForm, OrderedForm, LotAssumption
    <2>2. CASE o \in Exits
      BY <2>2, <1>4, OrderedForm
    <2> QED
      BY <2>1, <2>2, OrderForm
  <1>7. /\ RowOK(o)' /\ (o \in Exits => ExitOK(o)')
        /\ state'[o] # "ABSENT" /\ traded[o] = 0
    BY <1>2, <1>4, <1>5, <1>6, CallRow
  <1>8. o \in Stops => StopOK(o)'
    BY <1>1 DEF Rows, StopOK, Protected
  <1>9. traded'[o] <= Claim(o)
    BY <1>1, <1>6, <1>7, LotAssumption DEF Claim
  <1> QED
    BY <1>1, <1>3, <1>7, <1>8, <1>9 DEF Calm

\* Giving up a row that was never called.
LEMMA DropCalm ==
  ASSUME TypeOK, Rows, NEW o \in Orders, Ordered(o)' = Ordered(o),
         state'[o] = (IF state[o] = "READY" THEN "NOT_SUBMITTED" ELSE state[o]),
         o \in Exits => size'[o] = size[o],
         venue'[o] = venue[o], o \in called' <=> o \in called,
         recorded' = recorded, traded' = traded, aged' = aged, term' = term
  PROVE  Calm(o)
  <1>1. CASE state[o] = "READY"
    <2>1. RowOK(o)
      BY DEF Rows
    <2>2. RowOK(o)'
      BY <1>1, <2>1 DEF RowOK, Complete, Ended
    <2>3. o \in Exits => ExitOK(o)'
      BY <1>1 DEF Rows, ExitOK
    <2>4. o \in Stops => StopOK(o)'
      BY <1>1 DEF Rows, StopOK, Protected
    <2>5. Pending(o)' => Pending(o)
      BY <1>1 DEF Pending
    <2>6. traded[o] <= Claim(o)
      BY <1>1, <2>1 DEF RowOK, Claim, Pending
    <2> QED
      BY <1>1, <2>2, <2>3, <2>4, <2>5, <2>6 DEF Calm
  <1>2. CASE state[o] # "READY"
    BY <1>2, SameCalm DEF Same
  <1> QED
    BY <1>1, <1>2

(***************************************************************************)
(* Type correctness.                                                       *)
(***************************************************************************)

\* The initial state has its types.
LEMMA TypeInit ==
  ASSUME Init
  PROVE  TypeInv
  <1>1. TypeOK
    BY OrderForm, LotAssumption DEF Init, TypeOK, States
  <1>2. born \in Seq(Orders)
    BY OrderForm DEF Init
  <1>3. pass \in [Passes -> Pass]
    BY DEF Init, Idle, Pass
  <1> QED
    BY <1>1, <1>2, <1>3 DEF TypeInv

\* The least of a set of naturals.
LEMMA MinForm ==
  ASSUME NEW S \in SUBSET Nat, S # {}
  PROVE  Min(S) \in S /\ \A n \in S : Min(S) <= n
  BY LeastForm DEF Min

\* The fill the next protection is for.
LEMMA MissingForm ==
  ASSUME TypeOK, Missing # {}
  PROVE  /\ Min(Missing) \in 1..Lot /\ Stop(Min(Missing)) \in Stops
         /\ Stop(Min(Missing)) \in Protected
         /\ state[Stop(Min(Missing))] \in {"ABSENT", "READY"}
  <1>1. recorded[Entry] \in 0..Lot
    BY LedgerForm
  <1>2. Missing \in SUBSET Nat /\ \A n \in Missing : n \in 1..recorded[Entry]
    BY <1>1, LotAssumption DEF Missing
  <1>3. Min(Missing) \in Missing
    BY <1>2, MinForm
  <1>4. Min(Missing) \in 1..recorded[Entry]
    BY <1>2, <1>3
  <1>5. Min(Missing) \in 1..Lot
    <2>1. PICK n : n = Min(Missing)
      OBVIOUS
    <2> QED
      BY <1>1, <1>4, <2>1, LotAssumption
  <1> QED
    BY <1>3, <1>4, <1>5, StopForm DEF Missing, Protected

\* An exit is created for a position of at least one unit and at most the entry.
LEMMA QuantityForm ==
  ASSUME TypeInv, NEW p \in Passes, pass[p].pos # 0, Attributed(pass[p]),
         NEW x \in NextExit(pass[p])
  PROVE  /\ x \in Exits /\ state[x] \in {"ABSENT", "NOT_SUBMITTED"}
         /\ Quantity(pass[p], x) \in 1..Lot /\ Quantity(pass[p], x) <= Ledger
         /\ Ledger \in Nat
  <1>1. TypeOK /\ pass[p].pos \in Int
    BY DEF TypeInv, Pass
  <1>2. pass[p].pos = Ledger /\ Ledger \in Nat /\ Ledger # 0
    BY <1>1 DEF Attributed
  <1>3. Ledger \in 1..Lot
    BY <1>1, <1>2, LedgerForm, LotAssumption
  <1>4. x \in Exits /\ state[x] \in {"ABSENT", "NOT_SUBMITTED"}
    BY OrderForm DEF NextExit
  <1>5. CASE x = Cleanup
    <2>1. LateFills > 0 /\ LateFills \in Int
      <3>1. base \in 0..Lot /\ recorded[Entry] \in 0..Lot
        BY <1>1, LedgerForm DEF TypeOK
      <3>2. LateFills \in Int
        BY <3>1, LotAssumption DEF LateFills
      <3> QED
        BY <1>5, <3>2, OrderForm DEF NextExit
    <2>2. PICK S : S = {pass[p].pos, LateFills}
      OBVIOUS
    <2>3. S \in SUBSET Nat /\ S # {}
      BY <1>2, <2>1, <2>2
    <2>4. Min(S) \in S /\ \A n \in S : Min(S) <= n
      BY <2>3, MinForm
    <2>5. Min(S) <= Ledger /\ Min(S) \in {Ledger, LateFills}
      BY <1>2, <2>2, <2>4
    <2>6. Quantity(pass[p], x) = Min(S)
      BY <1>5, <2>2 DEF Quantity
    <2> QED
      BY <1>2, <1>3, <1>4, <2>1, <2>5, <2>6, LotAssumption
  <1>6. CASE x # Cleanup
    BY <1>2, <1>3, <1>4, <1>6 DEF Quantity
  <1> QED
    BY <1>5, <1>6

\* The step of a decision that calls no order, and the one that creates an exit.
Gives == \E S \in SUBSET (Orders \ Exits) : NoCall(Dropped(S)) /\ UNCHANGED blind

Making(p, S, x) ==
  /\ pass[p].pos # 0 /\ Attributed(pass[p])
  /\ CreateExit(Dropped(S), pass[p], x)
  /\ blind => blind'
  /\ \/ blind'
     \/ S = {Entry} \cup Stops /\ ~Waiting /\ recorded = traded /\ lifecycle # "COMPLETED"

Makes(p) == \E S \in SUBSET (Orders \ Exits), x \in NextExit(pass[p]) : Making(p, S, x)

\* Every decision of a pass is one of the two.
LEMMA DecideForm ==
  ASSUME TypeOK, NEW p \in Passes, Decide(p)
  PROVE  cancel' \subseteq Orders /\ (Gives \/ Makes(p))
  <1>1. {Entry} \in SUBSET (Orders \ Exits) /\ {Entry} \cup Stops \in SUBSET (Orders \ Exits)
        /\ {} \in SUBSET (Orders \ Exits)
    BY OrderForm
  <1>2. cancel \subseteq Orders /\ \A S : S \in SUBSET Orders => Cancelled(S) \subseteq Orders
    BY DEF Cancelled, TypeOK
  <1>3. CASE lifecycle = "COMPLETED" \/ Reason(pass[p]) = "NONE"
    <2>1. NoCall(state) /\ UNCHANGED <<cancel, blind>>
      BY <1>3 DEF Decide
    <2>2. state = Dropped({})
      BY DEF Dropped, TypeOK
    <2>3. Gives
      BY <1>1, <2>1, <2>2 DEF Gives, NoCall
    <2> QED
      BY <1>2, <2>1, <2>3
  <1>4. CASE ~(lifecycle = "COMPLETED" \/ Reason(pass[p]) = "NONE")
    <2>1. EnsureExit(pass[p], Reason(pass[p])) /\ lifecycle # "COMPLETED"
      BY <1>4 DEF Decide
    <2>2. CASE pass[p].pos = 0
      <3>1. PICK S \in {{Entry}, {Entry} \cup Stops} :
              NoCall(Dropped(S)) /\ cancel' = Cancelled(S) /\ UNCHANGED blind
        BY <2>1, <2>2 DEF EnsureExit
      <3> QED
        BY <1>1, <1>2, <3>1 DEF Gives
    <2>3. CASE pass[p].pos # 0 /\ ~Attributed(pass[p])
      <3>1. NoCall(Dropped({Entry})) /\ cancel' = Cancelled({Entry}) /\ UNCHANGED blind
        BY <2>1, <2>3 DEF EnsureExit
      <3> QED
        BY <1>1, <1>2, <3>1 DEF Gives
    <2>4. CASE pass[p].pos # 0 /\ Attributed(pass[p])
      <3>1. ExitPosition(pass[p], Reason(pass[p]))
        BY <2>1, <2>4 DEF EnsureExit
      <3> DEFINE unready == Reason(pass[p]) # "PROTECTION_RESULT_UNKNOWN"
                 S == IF unready THEN {Entry} \cup Stops ELSE {Entry}
      <3>2. S \in SUBSET (Orders \ Exits) /\ cancel' = Cancelled(S)
        BY <1>1, <3>1 DEF ExitPosition
      <3>3. cancel' \subseteq Orders
        BY <1>2, <3>2
      <3>4. CASE unready /\ Waiting
        BY <3>1, <3>2, <3>3, <3>4 DEF ExitPosition, Gives
      <3>5. CASE ~(unready /\ Waiting)
        <4>1. \/ NoCall(Dropped(S)) /\ UNCHANGED blind
              \/ \E x \in NextExit(pass[p]) :
                   /\ CreateExit(Dropped(S), pass[p], x)
                   /\ blind' = (blind \/ ~unready \/ Unrecorded)
          BY <3>1, <3>5 DEF ExitPosition
        <4>2. CASE NoCall(Dropped(S)) /\ UNCHANGED blind
          BY <3>2, <3>3, <4>2 DEF Gives
        <4>3. ASSUME NEW x \in NextExit(pass[p]), CreateExit(Dropped(S), pass[p], x),
                     blind' = (blind \/ ~unready \/ Unrecorded)
              PROVE  Makes(p)
          <5>1. blind => blind'
            BY <4>3, Zenon
          <5>2. blind' \/ (unready /\ ~Unrecorded)
            BY <4>3, Zenon
          <5>3. unready /\ ~Unrecorded =>
                  S = {Entry} \cup Stops /\ ~Waiting /\ recorded = traded
            BY <3>5 DEF Unrecorded
          <5>4. Making(p, S, x)
            BY <2>1, <2>4, <4>3, <5>1, <5>2, <5>3 DEF Making
          <5> QED
            BY <3>2, <5>4 DEF Makes
        <4> QED
          BY <3>3, <4>1, <4>2, <4>3
      <3> QED
        BY <3>4, <3>5
    <2> QED
      BY <2>2, <2>3, <2>4
  <1> QED
    BY <1>3, <1>4

\* A step of a pass keeps the types.
LEMMA TypeSync ==
  ASSUME TypeInv, Rows, NEW p \in Passes, Sync(p)
  PROVE  TypeInv'
  <1>1. /\ TypeOK /\ born \in Seq(Orders) /\ pass \in [Passes -> Pass]
        /\ state \in [Orders -> States]
    BY DEF TypeInv, TypeOK
  <1>2. ASSUME NEW r \in Pass
        PROVE  [pass EXCEPT ![p] = r] \in [Passes -> Pass]
    BY <1>1
  <1>3. Idle \in Pass
    BY DEF Idle, Pass
  <1>4. CASE Read(p)
    <2>1. Position \in Int /\ aged \in SUBSET Orders
      BY <1>1, LedgerForm DEF TypeOK
    <2>2. [step |-> "READ", pos |-> Position, aged |-> aged \cap ({Primary} \cup Stops),
           open |-> \E o \in Orders : venue[o] = "LIVE"] \in Pass
      BY <2>1 DEF Pass
    <2>3. pass' \in [Passes -> Pass]
      BY <1>2, <1>4, <2>2 DEF Read
    <2> QED
      BY <1>1, <1>4, <2>3 DEF TypeInv, TypeOK, Read, rows, facts, external
  <1>5. CASE Protect(p)
    <2>1. PICK o : o = Stop(Min(Missing))
      OBVIOUS
    <2>2. Missing # {}
      BY <1>5 DEF Protect
    <2>3. o \in Orders
      BY <1>1, <2>1, <2>2, MissingForm, OrderForm
    <2>4. born' \in Seq(Orders)
      <3>1. born' = IF state[o] = "ABSENT" THEN Append(born, o) ELSE born
        BY <1>5, <2>1 DEF Protect
      <3> QED
        BY <1>1, <2>3, <3>1
    <2>5. /\ state' \in [Orders -> States] /\ venue' \in [Orders -> VenueStates]
          /\ called' \subseteq Orders
      <3>1. CASE Call(state, o)
        <4>1. PICK s : s = state
          OBVIOUS
        <4>2. Call(s, o) /\ s \in [Orders -> States]
          BY <1>1, <3>1, <4>1 DEF Call
        <4> QED
          BY <1>1, <2>3, <4>2, CallForm
      <3>2. CASE state' = [state EXCEPT ![o] = "REFUSED"] /\ UNCHANGED <<called, venue>>
        BY <1>1, <3>2 DEF TypeOK, States, VenueStates
      <3> QED
        BY <1>5, <2>1, <3>1, <3>2 DEF Protect
    <2>6. UNCHANGED <<lifecycle, timeDue, size, base, aged, cancel, facts, pass, blind, traded>>
      BY <1>5 DEF Protect
    <2> QED
      BY <1>1, <2>4, <2>5, <2>6 DEF TypeInv, TypeOK, VenueStates, facts
  <1>6. CASE Resume(p)
    <2>1. PICK x \in Exits :
            \/ UNCHANGED <<state, called, venue>>
            \/ Call(state, x)
            \/ state' = [state EXCEPT ![x] = "NOT_SUBMITTED"] /\ UNCHANGED <<called, venue>>
      BY <1>6 DEF Resume
    <2>2. /\ state' \in [Orders -> States] /\ venue' \in [Orders -> VenueStates]
          /\ called' \subseteq Orders
      <3>1. CASE Call(state, x)
        <4>1. PICK s : s = state
          OBVIOUS
        <4>2. Call(s, x) /\ s \in [Orders -> States]
          BY <1>1, <3>1, <4>1 DEF Call
        <4> QED
          BY <1>1, <2>1, <4>2, CallForm, OrderForm
      <3>2. CASE UNCHANGED <<state, called, venue>>
        BY <1>1, <3>2 DEF TypeOK, VenueStates
      <3>3. CASE state' = [state EXCEPT ![x] = "NOT_SUBMITTED"] /\ UNCHANGED <<called, venue>>
        BY <1>1, <3>3 DEF TypeOK, States, VenueStates
      <3> QED
        BY <2>1, <3>1, <3>2, <3>3
    <2>3. pass' \in [Passes -> Pass]
      <3>1. [pass[p] EXCEPT !.step = "RESUMED"] \in Pass
        BY <1>1 DEF Pass
      <3> QED
        BY <1>2, <1>6, <3>1 DEF Resume
    <2>4. UNCHANGED <<lifecycle, timeDue, size, base, born, aged, cancel, facts, blind, traded>>
      BY <1>6 DEF Resume
    <2> QED
      BY <1>1, <2>2, <2>3, <2>4 DEF TypeInv, TypeOK, VenueStates, facts
  <1>7. CASE Decide(p)
    <2>1. pass' \in [Passes -> Pass]
      <3>1. [pass[p] EXCEPT !.step = "CLOSE"] \in Pass
        BY <1>1 DEF Pass
      <3> QED
        BY <1>2, <1>3, <1>7, <3>1 DEF Decide
    <2>2. cancel' \subseteq Orders /\ (Gives \/ Makes(p))
      BY <1>1, <1>7, DecideForm
    <2>3. /\ state' \in [Orders -> States] /\ venue' \in [Orders -> VenueStates]
          /\ called' \subseteq Orders
          /\ size' \in [Exits -> 0..Lot] /\ base' \in 0..Lot /\ born' \in Seq(Orders)
      <3>1. \A S : Dropped(S) \in [Orders -> States]
        BY <1>1 DEF Dropped, States
      <3>2. CASE Gives
        BY <1>1, <3>1, <3>2 DEF Gives, NoCall, TypeOK, VenueStates
      <3>3. CASE Makes(p)
        <4>1. PICK S \in SUBSET (Orders \ Exits), x \in NextExit(pass[p]) : Making(p, S, x)
          BY <3>3 DEF Makes
        <4>2. x \in Exits /\ x \in Orders /\ Quantity(pass[p], x) \in 0..Lot
          BY <4>1, QuantityForm, OrderForm, LotAssumption DEF Making
        <4>3. PICK s : s = Dropped(S)
          OBVIOUS
        <4>4. Call(s, x) /\ s \in [Orders -> States]
          BY <3>1, <4>1, <4>3 DEF Making, CreateExit
        <4>5. /\ state' \in [Orders -> States] /\ venue' \in [Orders -> VenueStates]
              /\ called' \subseteq Orders
          BY <1>1, <4>2, <4>4, CallForm
        <4>6. PICK k : k = Quantity(pass[p], x)
          OBVIOUS
        <4>7. size' = [size EXCEPT ![x] = k] /\ k \in 0..Lot
          BY <4>1, <4>2, <4>6 DEF Making, CreateExit
        <4>8. size' \in [Exits -> 0..Lot]
          BY <1>1, <4>7 DEF TypeOK
        <4>9. base' \in 0..Lot
          BY <1>1, <4>1, OrderForm DEF Making, CreateExit, TypeOK
        <4>10. born' \in Seq(Orders)
          <5>1. born' = IF state[x] = "ABSENT" THEN Append(born, x) ELSE born
            BY <4>1 DEF Making, CreateExit
          <5> QED
            BY <1>1, <4>2, <5>1
        <4> QED
          BY <4>5, <4>8, <4>9, <4>10
      <3> QED
        BY <2>2, <3>2, <3>3
    <2>4. UNCHANGED <<lifecycle, timeDue, aged, facts, traded>>
      BY <1>7 DEF Decide
    <2> QED
      BY <1>1, <2>1, <2>2, <2>3, <2>4 DEF TypeInv, TypeOK, VenueStates, facts
  <1>8. CASE Close(p)
    <2>1. pass' \in [Passes -> Pass]
      BY <1>2, <1>3, <1>8 DEF Close
    <2>2. state' \in [Orders -> States]
      <3>1. Closed \in [Orders -> States]
        BY <1>1 DEF Closed, States
      <3> QED
        BY <1>1, <1>8, <3>1 DEF Close
    <2>3. lifecycle' \in {"RUNNING", "EXITING", "COMPLETED"}
      BY <1>1, <1>8 DEF Close, TypeOK
    <2> QED
      BY <1>1, <1>8, <2>1, <2>2, <2>3 DEF TypeInv, TypeOK, Close, facts, external
  <1> QED
    BY <1>4, <1>5, <1>6, <1>7, <1>8 DEF Sync

\* Every step keeps the types.
LEMMA TypeNext ==
  ASSUME TypeInv, Rows, Next
  PROVE  TypeInv'
  <1>1. /\ TypeOK /\ born \in Seq(Orders) /\ pass \in [Passes -> Pass]
        /\ state \in [Orders -> States]
    BY DEF TypeInv, TypeOK
  <1>2. ASSUME NEW p \in Passes, Sync(p)
        PROVE  TypeInv'
    BY <1>2, TypeSync
  <1>3. CASE OwnerExit
    BY <1>1, <1>3 DEF TypeInv, TypeOK, OwnerExit, rows, facts, external
  <1>4. CASE TimeExit
    BY <1>1, <1>4 DEF TypeInv, TypeOK, TimeExit, rows, facts, external
  <1>5. CASE CallEntry
    <2>1. PICK s : s = state
      OBVIOUS
    <2>2. Call(s, Entry) /\ s \in [Orders -> States] /\ Entry \in Orders
      BY <1>1, <1>5, <2>1, OrderForm DEF CallEntry, Call
    <2>3. /\ state' \in [Orders -> States] /\ venue' \in [Orders -> VenueStates]
          /\ called' \subseteq Orders
      BY <1>1, <2>2, CallForm
    <2> QED
      BY <1>1, <1>5, <2>3 DEF TypeInv, TypeOK, CallEntry, VenueStates, facts
  <1>6. ASSUME NEW o \in Orders, Age(o)
        PROVE  TypeInv'
    BY <1>1, <1>6 DEF TypeInv, TypeOK, Age, rows, facts, external
  <1>7. ASSUME NEW o \in Orders, Records(o)
        PROVE  TypeInv'
    <2>1. Recognised(o) \in [Orders -> States]
      BY <1>1 DEF Recognised, States
    <2>2. CASE RecordFill(o)
      <3>1. recorded[o] \in 0..Lot /\ traded[o] \in 0..Lot /\ recorded[o] < traded[o]
        BY <1>1, <2>2 DEF TypeOK, RecordFill
      <3>2. PICK n : n = recorded[o] + 1
        OBVIOUS
      <3>3. n \in 0..Lot /\ recorded' = [recorded EXCEPT ![o] = n]
        BY <2>2, <3>1, <3>2, LotAssumption DEF RecordFill
      <3>4. recorded' \in [Orders -> 0..Lot]
        BY <1>1, <3>3 DEF TypeOK
      <3> QED
        BY <1>1, <2>1, <2>2, <3>4 DEF TypeInv, TypeOK, RecordFill, external
    <2>3. CASE RecordEnd(o)
      BY <1>1, <2>1, <2>3 DEF TypeInv, TypeOK, RecordEnd, external
    <2>4. CASE QueryUnknown(o)
      BY <1>1, <2>4 DEF TypeInv, TypeOK, QueryUnknown, facts, external, States
    <2> QED
      BY <1>7, <2>2, <2>3, <2>4 DEF Records
  <1>8. ASSUME NEW o \in Orders, Venue(o)
        PROVE  TypeInv'
    <2>1. CASE Trade(o)
      <3>1. traded[o] \in 0..Lot /\ traded[o] < Ordered(o) /\ Ordered(o) \in 0..Lot
        <4>1. Ordered(o) \in 0..Lot
          BY <1>1, OrderForm, OrderedForm, LotAssumption DEF TypeOK
        <4> QED
          BY <1>1, <2>1, <4>1 DEF Trade, Rows, RowOK, TypeOK
      <3>2. PICK n : n = traded[o] + 1
        OBVIOUS
      <3>3. n \in 0..Lot /\ traded' = [traded EXCEPT ![o] = n]
        BY <2>1, <3>1, <3>2, LotAssumption DEF Trade
      <3>4. traded' \in [Orders -> 0..Lot]
        BY <1>1, <3>3 DEF TypeOK
      <3>5. venue' \in [Orders -> {"NONE", "LIVE", "FILLED", "CANCELLED", "REJECTED"}]
        BY <1>1, <2>1 DEF TypeOK, Trade
      <3> QED
        BY <1>1, <2>1, <3>4, <3>5 DEF TypeInv, TypeOK, Trade, rows, facts
    <2>2. CASE Arrive(o) \/ Expire(o) \/ TakeCancel(o) \/ Reject(o)
      BY <1>1, <2>2 DEF TypeInv, TypeOK, Arrive, Expire, TakeCancel, Reject, rows, facts
    <2> QED
      BY <1>8, <2>1, <2>2 DEF Venue
  <1> QED
    BY <1>2, <1>3, <1>4, <1>5, <1>6, <1>7, <1>8 DEF Next

(***************************************************************************)
(* The rows and the claims: the world outside.                             *)
(***************************************************************************)

\* A call of an order that had its claim.
LEMMA CallStep ==
  ASSUME TypeOK, TypeOK', Rows, Covered, NEW o \in Orders, Call(state, o),
         \/ state[o] = "READY"
         \/ state[o] = "ABSENT" /\ o \in Protected,
         UNCHANGED <<recorded, traded, aged, term, size, blind>>
  PROVE  Rows' /\ Covered'
  <1>1. PICK s : s = state
    OBVIOUS
  <1>2. Call(s, o) /\ s \in [Orders -> States]
    BY <1>1 DEF Call, TypeOK
  <1>3. RowOK(o) /\ aged \subseteq called
    BY DEF Rows
  <1>4. venue[o] = "NONE" /\ o \notin called
    BY <1>3 DEF RowOK
  <1>5. /\ called \subseteq called' /\ Called(o)
        /\ \A q \in Orders \ {o} : /\ state'[q] = s[q] /\ venue'[q] = venue[q]
                                   /\ q \in called' <=> q \in called
    BY <1>2, <1>4, CallForm
  <1>6. Calm(o)
    BY <1>5, CallCalm
  <1>7. \A q \in Orders \ {o} : Same(q)
    BY <1>1, <1>5 DEF Same
  <1> QED
    BY <1>3, <1>5, <1>6, <1>7, OneStep

\* A row that was never called is given up.
LEMMA DropStep ==
  ASSUME TypeOK, TypeOK', Rows, Covered, NEW S \in SUBSET Orders, state' = Dropped(S),
         UNCHANGED <<venue, called, recorded, traded, aged, term, size, blind>>
  PROVE  Rows' /\ Covered'
  <1>1. ASSUME NEW q \in Orders
        PROVE  Calm(q)
    <2>1. Ordered(q)' = Ordered(q)
      BY DEF Ordered
    <2>2. CASE q \in S
      BY <2>1, <2>2, DropCalm DEF Dropped
    <2>3. CASE q \notin S
      <3>1. Same(q)
        BY <2>3 DEF Same, Dropped
      <3> QED
        BY <2>1, <3>1, SameCalm
    <2> QED
      BY <2>2, <2>3
  <1>2. aged' \subseteq called'
    BY DEF Rows
  <1> QED
    BY <1>1, <1>2, CalmStep

\* The delay after a call passes.
LEMMA AgeStep ==
  ASSUME TypeOK, TypeOK', Rows, Covered, NEW o \in Orders, Age(o)
  PROVE  Rows' /\ Covered'
  <1>1. /\ o \in called \ aged /\ aged' = aged \cup {o}
        /\ state[o] = "UNKNOWN" \/ (o = Primary /\ state[o] = "OPEN")
        /\ o \in Exits => venue[o] # "LIVE"
        /\ UNCHANGED <<state, size, called, recorded, term, blind, venue, traded>>
    BY DEF Age, rows, facts, external
  <1>2. RowOK(o) /\ aged \subseteq called /\ (o \in Exits => ExitOK(o)) /\ (o \in Stops => StopOK(o))
    BY DEF Rows
  <1>3. RowOK(o)'
    BY <1>1, <1>2 DEF RowOK, Complete, Ended, Ordered
  <1>4. o \in Exits => ExitOK(o)'
    BY <1>1, <1>2 DEF ExitOK
  <1>5. o \in Stops => StopOK(o)'
    BY <1>1, <1>2 DEF StopOK, Protected
  <1>6. Pending(o)' => Pending(o)
    BY <1>1 DEF Pending, Protected
  <1>7. traded'[o] <= Claim(o)
    BY <1>1, TradedForm
  <1>8. Calm(o)
    BY <1>1, <1>3, <1>4, <1>5, <1>6, <1>7 DEF Calm
  <1>9. \A q \in Orders \ {o} : Same(q)
    BY <1>1 DEF Same
  <1> QED
    BY <1>1, <1>2, <1>8, <1>9, OneStep

\* What the account shows of an order: a fill of a reducer, or an end.
LEMMA RecordStep ==
  ASSUME TypeOK, TypeOK', Rows, Covered, NEW o \in Orders,
         (RecordFill(o) /\ o # Entry) \/ RecordEnd(o) \/ QueryUnknown(o)
  PROVE  Rows' /\ Covered'
  <1>1. UNCHANGED <<size, called, aged, blind, venue, traded>>
    BY DEF RecordFill, RecordEnd, QueryUnknown, external
  <1>2. /\ RowOK(o) /\ aged \subseteq called
        /\ (o \in Exits => ExitOK(o)) /\ (o \in Stops => StopOK(o))
    BY DEF Rows
  <1>3. /\ \A q \in Orders \ {o} : Same(q)
        /\ recorded'[Entry] = recorded[Entry]
    BY <1>1, OrderForm DEF Same, RecordFill, RecordEnd, QueryUnknown, Recognised, TypeOK, facts
  <1>4. traded[o] \in 0..Lot /\ recorded[o] \in 0..Lot
    BY DEF TypeOK
  <1>5. state[o] # "ABSENT" /\ state'[o] # "ABSENT" /\ RowOK(o)' /\ (Pending(o)' => Pending(o))
    <2>1. CASE RecordFill(o)
      <3>1. /\ recorded[o] < traded[o] /\ recorded'[o] = recorded[o] + 1 /\ term' = term
            /\ state'[o] = (IF state[o] = "UNKNOWN" THEN "OPEN" ELSE state[o])
        BY <2>1 DEF RecordFill, Recognised, TypeOK
      <3>2. recorded'[o] <= traded'[o] /\ traded[o] # 0
        BY <1>1, <1>4, <3>1, LotAssumption
      <3>3. venue[o] # "NONE" /\ ~Complete(o)
        BY <1>2, <1>4, <3>1, <3>2, LotAssumption DEF RowOK, Complete
      <3>4. state[o] \in {"UNKNOWN", "OPEN"}
        BY <1>2, <3>3 DEF RowOK, TypeOK, States
      <3>5. state'[o] = "OPEN"
        BY <3>1, <3>4
      <3>6. RowOK(o)'
        BY <1>1, <1>2, <3>1, <3>2, <3>3, <3>4, <3>5 DEF RowOK, Ended, Ordered
      <3> QED
        BY <1>1, <3>4, <3>5, <3>6 DEF Pending
    <2>2. CASE RecordEnd(o)
      <3>1. /\ Ended(o) /\ o \in term' /\ recorded' = recorded
            /\ state'[o] = (IF state[o] = "UNKNOWN" THEN "OPEN" ELSE state[o])
        BY <2>2 DEF RecordEnd, Recognised, TypeOK
      <3>2. state[o] \in {"UNKNOWN", "OPEN", "CLOSED"}
        BY <1>2, <3>1 DEF RowOK, Ended, TypeOK, States
      <3>3. state'[o] \in {"OPEN", "CLOSED"} /\ (state'[o] = "CLOSED" => state[o] = "CLOSED")
        BY <3>1, <3>2
      <3>4. RowOK(o)'
        BY <1>1, <1>2, <3>1, <3>2, <3>3 DEF RowOK, Ended, Ordered, Complete
      <3> QED
        BY <1>1, <3>2, <3>3, <3>4 DEF Pending
    <2>3. CASE QueryUnknown(o)
      <3>1. /\ state[o] = "UNKNOWN" /\ recorded' = recorded /\ term' = term
            /\ \/ state'[o] = "OPEN" /\ venue[o] = "LIVE"
               \/ state'[o] = "NOT_SUBMITTED" /\ venue[o] = "NONE"
        BY <2>3 DEF QueryUnknown, TypeOK, facts
      <3>2. RowOK(o)'
        BY <1>1, <1>2, <3>1 DEF RowOK, Ended, Ordered, Complete
      <3> QED
        BY <1>1, <3>1, <3>2 DEF Pending
    <2> QED
      BY <2>1, <2>2, <2>3
  <1>6. o \in Exits => ExitOK(o)'
    BY <1>1, <1>2, <1>5 DEF ExitOK
  <1>7. o \in Stops => StopOK(o)'
    BY <1>2, <1>3, <1>5 DEF StopOK, Protected
  <1>8. Calm(o)
    BY <1>1, <1>5, <1>6, <1>7, TradedForm DEF Calm
  <1> QED
    BY <1>1, <1>2, <1>3, <1>8, OneStep

\* The venue moves an order.
LEMMA VenueStep ==
  ASSUME TypeOK, TypeOK', Rows, Covered, NEW o \in Orders, Venue(o)
  PROVE  Rows' /\ Covered'
  <1>1. UNCHANGED <<state, size, called, aged, recorded, term, blind>>
    BY DEF Venue, Arrive, Trade, Expire, TakeCancel, Reject, rows, facts
  <1>2. /\ RowOK(o) /\ aged \subseteq called
        /\ (o \in Exits => ExitOK(o)) /\ (o \in Stops => StopOK(o))
    BY DEF Rows
  <1>3. \A q \in Orders \ {o} : Same(q)
    BY <1>1 DEF Same, Venue, Arrive, Trade, Expire, TakeCancel, Reject, TypeOK
  <1>4. traded[o] \in 0..Lot /\ recorded[o] \in 0..Lot /\ Ordered(o)' = Ordered(o)
    BY <1>1 DEF TypeOK, Ordered
  <1>5. Ordered(o) \in 0..Lot
    BY OrderForm, OrderedForm, LotAssumption DEF TypeOK
  <1>6. Protected' = Protected
    BY <1>1 DEF Protected
  <1>7. Pending(o) /\ RowOK(o)' /\ (o \in Exits => ExitOK(o)') /\ traded'[o] <= Claim(o)
    <2>1. CASE Arrive(o)
      <3>1. /\ state[o] = "UNKNOWN" /\ venue[o] = "NONE" /\ o \notin aged
            /\ venue'[o] = "LIVE" /\ traded' = traded
        BY <2>1 DEF Arrive, TypeOK
      <3>2. Ordered(o) > 0
        <4>1. CASE o \in Exits
          BY <1>2, <3>1, <4>1, OrderedForm, LotAssumption DEF ExitOK
        <4>2. CASE o \in Stops \/ o = Entry
          BY <4>2, OrderForm, OrderedForm, LotAssumption
        <4> QED
          BY <4>1, <4>2, OrderForm
      <3>3. traded[o] = 0 /\ o \notin term
        BY <1>2, <3>1 DEF RowOK, Ended
      <3>4. RowOK(o)'
        BY <1>1, <1>2, <1>4, <1>5, <3>1, <3>2, <3>3 DEF RowOK, Ended
      <3> QED
        BY <1>1, <1>2, <3>1, <3>4, TradedForm DEF Pending, ExitOK
    <2>2. CASE Trade(o)
      <3>1. PICK n : n = traded[o] + 1
        OBVIOUS
      <3>2. /\ venue[o] = "LIVE" /\ traded'[o] = n
            /\ venue'[o] = (IF n = Ordered(o) THEN "FILLED" ELSE "LIVE")
        BY <2>2, <3>1 DEF Trade, TypeOK
      <3>3. traded[o] < Ordered(o) /\ state[o] \in {"UNKNOWN", "OPEN"} /\ o \notin term
        BY <1>2, <3>2 DEF RowOK, TypeOK, States, Ended, Complete
      <3>4. n <= Ordered(o) /\ n \in Nat /\ recorded[o] <= n /\ (n # Ordered(o) => n < Ordered(o))
        <4>1. recorded[o] <= traded[o]
          BY <1>2 DEF RowOK
        <4> QED
          BY <1>4, <1>5, <3>1, <3>3, <4>1, LotAssumption
      <3>5. RowOK(o)'
        BY <1>1, <1>2, <1>4, <3>2, <3>3, <3>4 DEF RowOK, Ended
      <3>6. o \in Exits => ExitOK(o)'
        BY <1>1, <1>2, <3>2 DEF ExitOK
      <3> QED
        BY <3>2, <3>4, <3>5, <3>6 DEF Pending, Claim
    <2>3. CASE Expire(o) \/ TakeCancel(o) \/ Reject(o)
      <3>1. venue[o] = "LIVE" /\ venue'[o] \in {"CANCELLED", "REJECTED"} /\ traded' = traded
        BY <2>3 DEF Expire, TakeCancel, Reject, TypeOK
      <3>2. RowOK(o)'
        BY <1>1, <1>2, <1>4, <3>1 DEF RowOK, Ended, Complete
      <3>3. o \in Exits => ExitOK(o)'
        BY <1>1, <1>2, <3>1 DEF ExitOK
      <3> QED
        BY <3>1, <3>2, <3>3, TradedForm DEF Pending
    <2> QED
      BY <2>1, <2>2, <2>3 DEF Venue
  <1>8. o \in Stops => StopOK(o)'
    BY <1>1, <1>2, <1>6 DEF StopOK
  <1>9. Calm(o)
    BY <1>1, <1>7, <1>8 DEF Calm
  <1> QED
    BY <1>1, <1>2, <1>3, <1>9, OneStep

\* The loop of the closing closes only rows that are complete.
LEMMA ClosedForm ==
  ASSUME TypeInv, NEW o \in Orders
  PROVE  \/ Closed[o] = state[o]
         \/ Closed[o] = "CLOSED" /\ state[o] = "OPEN" /\ Complete(o)
  <1> DEFINE stuck == {i \in DOMAIN born : ~Closable(born[i])}
             reach == IF stuck = {} THEN Len(born) ELSE Min(stuck) - 1
  <1>1. born \in Seq(Orders)
    BY DEF TypeInv
  <1>2. DOMAIN born = 1..Len(born) /\ Len(born) \in Nat
    BY <1>1
  <1>3. ASSUME NEW i \in 1..reach
        PROVE  Closable(born[i])
    <2>1. CASE stuck = {}
      BY <1>2, <1>3, <2>1
    <2>2. CASE stuck # {}
      <3>1. stuck \in SUBSET Nat /\ stuck \subseteq 1..Len(born)
        BY <1>2
      <3>2. PICK m : m = Min(stuck)
        OBVIOUS
      <3>3. m \in stuck /\ \A n \in stuck : m <= n
        BY <2>2, <3>1, <3>2, MinForm
      <3>4. i \in 1..(m - 1)
        BY <1>3, <2>2, <3>2
      <3>5. m \in 1..Len(born)
        BY <3>1, <3>3
      <3>6. i \in 1..Len(born) /\ ~(m <= i)
        BY <1>2, <3>4, <3>5
      <3>7. i \notin stuck
        BY <3>3, <3>6
      <3> QED
        BY <1>2, <3>6, <3>7
    <2> QED
      BY <2>1, <2>2
  <1>4. Closed[o] = IF state[o] = "OPEN" /\ \E i \in 1..reach : born[i] = o THEN "CLOSED" ELSE state[o]
    BY DEF Closed
  <1> HIDE DEF stuck, reach
  <1> QED
    BY <1>3, <1>4 DEF Closable, Final

\* The closing of rows.
LEMMA CloseStep ==
  ASSUME TypeInv, TypeInv', Rows, Covered, NEW p \in Passes, Close(p)
  PROVE  Rows' /\ Covered'
  <1>1. UNCHANGED <<size, called, aged, recorded, term, blind, venue, traded>>
    BY DEF Close, facts, external
  <1>2. TypeOK /\ TypeOK' /\ aged \subseteq called
    BY DEF TypeInv, Rows
  <1>3. ASSUME NEW o \in Orders
        PROVE  Calm(o)
    <2>1. Ordered(o)' = Ordered(o)
      BY <1>1 DEF Ordered
    <2>2. CASE state'[o] = state[o]
      BY <1>1, <1>2, <2>1, <2>2, SameCalm DEF Same
    <2>3. CASE state'[o] # state[o]
      <3>1. state' = Closed
        BY <2>3 DEF Close
      <3>2. state'[o] = "CLOSED" /\ state[o] = "OPEN" /\ Complete(o)
        BY <2>3, <3>1, ClosedForm
      <3>3. RowOK(o)
        BY DEF Rows
      <3>4. RowOK(o)'
        BY <1>1, <2>1, <3>2, <3>3 DEF RowOK, Complete, Ended
      <3>5. o \in Exits => ExitOK(o)'
        BY <1>1, <3>2 DEF Rows, ExitOK
      <3>6. o \in Stops => StopOK(o)'
        BY <1>1, <3>2 DEF Rows, StopOK, Protected
      <3>7. Pending(o)' => Pending(o)
        BY <1>1, <3>2 DEF Pending
      <3> QED
        BY <1>1, <1>2, <3>2, <3>4, <3>5, <3>6, <3>7, TradedForm DEF Calm
    <2> QED
      BY <2>2, <2>3
  <1> QED
    BY <1>1, <1>2, <1>3, CalmStep

(***************************************************************************)
(* The two steps that give an order a claim.                               *)
(***************************************************************************)

\* A fill of the entry is recorded: its protection may now claim it.
LEMMA FillStep ==
  ASSUME TypeOK, TypeOK', Rows, Covered, RecordFill(Entry)
  PROVE  Rows' /\ Covered'
  <1>1. /\ UNCHANGED <<size, called, aged, term, blind, venue, traded>>
        /\ recorded[Entry] < traded[Entry] /\ recorded' = [recorded EXCEPT ![Entry] = @ + 1]
        /\ state' = Recognised(Entry)
    BY DEF RecordFill, external
  <1>2. PICK r : r = recorded[Entry]
    OBVIOUS
  <1>3. /\ r \in 0..Lot /\ traded[Entry] \in 0..Lot /\ recorded'[Entry] = r + 1
        /\ r + 1 \in 1..Lot /\ r + 1 <= traded[Entry]
    <2>1. r \in 0..Lot /\ traded[Entry] \in 0..Lot /\ r < traded[Entry]
      BY <1>1, <1>2, LedgerForm
    <2>2. recorded'[Entry] = r + 1
      BY <1>1, <1>2, OrderForm DEF TypeOK
    <2> QED
      BY <2>1, <2>2, LotAssumption
  <1> DEFINE t == Stop(r + 1)
  <1>4. t \in Stops /\ t \in Reducers /\ t[2] = r + 1
    BY <1>3, StopForm, OrderForm
  <1>5. \A q \in Orders \ {Entry} : Same(q)
    BY <1>1 DEF Same, Recognised, TypeOK
  <1>6. Protected' = Protected \cup {t} /\ t \notin Protected
    <2>1. PICK r1 : r1 = r + 1
      OBVIOUS
    <2>2. 1..r1 = 1..r \cup {r1} /\ r1 \notin 1..r /\ 1..r1 \subseteq 1..Lot
      BY <1>3, <2>1, LotAssumption
    <2>3. Protected = {Stop(n) : n \in 1..r} /\ Protected' = {Stop(n) : n \in 1..r1}
      BY <1>2, <1>3, <2>1 DEF Protected, Stop
    <2>4. \A n \in 1..r1 : Stop(n)[2] = n
      BY <2>2, StopForm
    <2> HIDE DEF t
    <2>5. t = Stop(r1)
      BY <2>1 DEF t
    <2> QED
      BY <2>2, <2>3, <2>4, <2>5
  <1> HIDE DEF t
  <1>7. state[t] = "ABSENT" /\ state'[t] = "ABSENT" /\ traded[t] = 0 /\ venue[t] = "NONE"
    <2>1. StopOK(t) /\ RowOK(t)
      BY <1>4, OrderForm DEF Rows
    <2>2. state[t] = "ABSENT" /\ traded[t] = 0 /\ venue[t] = "NONE"
      BY <1>6, <2>1 DEF StopOK, RowOK
    <2>3. Same(t)
      BY <1>4, <1>5, OrderForm
    <2> QED
      BY <2>2, <2>3 DEF Same
  <1>8. \A q \in Orders : RowOK(q)'
    <2>1. ASSUME NEW q \in Orders, q # Entry
          PROVE  RowOK(q)'
      <3>1. Same(q) /\ RowOK(q) /\ Ordered(q)' = Ordered(q)
        BY <1>1, <1>5, <2>1 DEF Rows, Ordered
      <3> QED
        BY <3>1 DEF RowOK, Same, Complete, Ended
    <2>2. RowOK(Entry)'
      <3>1. RowOK(Entry) /\ Ordered(Entry)' = Ordered(Entry) /\ state[Entry] \in States
        BY <1>1, OrderForm DEF Rows, Ordered, TypeOK
      <3>2. traded[Entry] # 0 /\ recorded[Entry] # traded[Entry] /\ recorded'[Entry] <= traded[Entry]
        BY <1>2, <1>3
      <3>3. venue[Entry] # "NONE" /\ state[Entry] \in {"UNKNOWN", "OPEN"}
        BY <3>1, <3>2 DEF RowOK, Complete, States
      <3>4. state'[Entry] = "OPEN"
        BY <1>1, <3>3, OrderForm DEF Recognised, TypeOK
      <3> QED
        BY <1>1, <3>1, <3>2, <3>3, <3>4 DEF RowOK, Ended
    <2> QED
      BY <2>1, <2>2
  <1>9. \A q \in Reducers : /\ state'[q] = state[q] /\ Ordered(q)' = Ordered(q)
                            /\ q # t => (Pending(q)' <=> Pending(q))
    BY <1>1, <1>5, <1>6, OrderForm DEF Pending, Same, Ordered
  <1>10. Rows'
    <2>1. \A x \in Exits : ExitOK(x)'
      BY <1>1, <1>9, OrderForm DEF Rows, ExitOK
    <2>2. \A o \in Stops : StopOK(o)'
      BY <1>6, <1>9, OrderForm DEF Rows, StopOK
    <2>3. ChainOK'
      <3>1. Primary # t /\ Primary \in Reducers /\ Successor \in Reducers /\ Cleanup \in Reducers
        BY <1>4, OrderForm
      <3> QED
        BY <1>1, <1>9, <3>1 DEF Rows, ChainOK
    <2>4. aged' \subseteq called'
      BY <1>1 DEF Rows
    <2> QED
      BY <1>8, <2>1, <2>2, <2>3, <2>4 DEF Rows
  <1>11. CASE blind
    BY <1>1, <1>10, <1>11 DEF Covered
  <1>12. CASE ~blind
    <2>1. PICK C : C = Claims
      OBVIOUS
    <2>2. PICK D : D = Claims'
      OBVIOUS
    <2>3. Sum(C, Reducers) <= r
      BY <1>2, <1>12, <2>1 DEF Covered
    <2>4. ASSUME NEW q \in Reducers
          PROVE  /\ C[q] \in Nat /\ C[q] = Claim(q)
                 /\ D[q] = (IF q = t THEN 1 ELSE C[q])
      <3>1. C[q] = Claim(q) /\ C[q] \in Nat
        BY <2>1, ClaimForm
      <3>2. D = [o \in Reducers |-> Claim(o)']
        BY <2>2 DEF Claims
      <3>3. D[q] = Claim(q)'
        BY <3>2
      <3>4. CASE q = t
        <4>1. Ordered(q)' = 1 /\ Pending(q)'
          <5>1. Ordered(q) = 1
            BY <1>4, <3>4, OrderedForm
          <5>2. q \in Protected'
            BY <1>6, <3>4
          <5> QED
            BY <1>7, <1>9, <3>4, <5>1, <5>2 DEF Pending
        <4> QED
          BY <3>1, <3>3, <3>4, <4>1 DEF Claim
      <3>5. CASE q # t
        BY <1>1, <1>9, <3>1, <3>3, <3>5 DEF Claim
      <3> QED
        BY <3>1, <3>4, <3>5
    <2>5. C[t] = 0 /\ D[t] = 1
      <3>1. ~Pending(t)
        BY <1>6, <1>7 DEF Pending
      <3> QED
        BY <1>4, <1>7, <2>4, <3>1 DEF Claim
    <2>6. \A q \in Reducers : C[q] \in Int /\ D[q] \in Int
      BY <2>4
    <2>7. /\ Sum(C, Reducers \ {t}) \in Int /\ Sum(C, Reducers) = C[t] + Sum(C, Reducers \ {t})
          /\ Sum(D, Reducers \ {t}) \in Int /\ Sum(D, Reducers) = D[t] + Sum(D, Reducers \ {t})
      BY <1>4, <2>6, ReducersFinite, SumRemove
    <2>8. Sum(D, Reducers \ {t}) <= Sum(C, Reducers \ {t})
      <3>1. PICK T : T = Reducers \ {t}
        OBVIOUS
      <3>2. IsFiniteSet(T)
        BY <3>1, ReducersFinite, FS_Subset
      <3>3. \A q \in T : D[q] \in Int /\ C[q] \in Int /\ D[q] <= C[q]
        BY <2>4, <2>6, <3>1
      <3>4. Sum(D, T) <= Sum(C, T)
        BY <3>2, <3>3, SumMono
      <3> QED
        BY <3>1, <3>4
    <2>9. Sum(D, Reducers) <= r + 1
      <3>1. PICK c : c = Sum(C, Reducers \ {t})
        OBVIOUS
      <3>2. PICK d : d = Sum(D, Reducers \ {t})
        OBVIOUS
      <3>3. c \in Int /\ d \in Int /\ d <= c /\ 0 + c <= r
        BY <2>3, <2>5, <2>7, <2>8, <3>1, <3>2
      <3>4. 1 + d <= r + 1
        BY <1>3, <3>3
      <3> QED
        BY <2>5, <2>7, <3>2, <3>4
    <2>10. Sum(Claims, Reducers)' = Sum(Claims', Reducers)
      OBVIOUS
    <2>11. Covered'
      BY <1>3, <2>2, <2>9, <2>10 DEF Covered
    <2> QED
      BY <1>10, <2>11
  <1> QED
    BY <1>11, <1>12

\* Whatever exit is created next, the exits before it cannot trade any more, and
\* those after it do not exist.
LEMMA NextExitForm ==
  ASSUME TypeInv, Rows, PassInv, NEW p \in Passes, NEW x \in NextExit(pass[p])
  PROVE  /\ x \notin called /\ venue[x] = "NONE" /\ traded[x] = 0
         /\ \A q \in Exits \ {x} : ~Pending(q)
         /\ x = Primary => state[Successor] = "ABSENT"
         /\ x = Successor => state[Primary] # "ABSENT" /\ state[Cleanup] = "ABSENT"
         /\ x = Cleanup => Successor \in called
  <1>1. /\ TypeOK /\ ChainOK /\ pass[p].aged \subseteq aged
        /\ \A o \in Orders : RowOK(o)
    BY DEF TypeInv, Rows, PassInv
  <1>2. /\ x \in Exits /\ state[x] \in {"ABSENT", "NOT_SUBMITTED"} /\ x \notin called
        /\ x = Primary => Successor \notin called /\ state[Primary] = "ABSENT"
        /\ x = Successor => /\ Successor \notin called /\ state[Primary] # "ABSENT"
                            /\ Resolved(Primary) \/ SuccessorDue(pass[p])
        /\ x = Cleanup => Successor \in called /\ state[Successor] = "CLOSED"
    <2>1. CASE Successor \in called
      BY <1>1, <2>1, OrderForm DEF NextExit, RowOK
    <2>2. CASE Successor \notin called
      BY <1>1, <2>2, OrderForm DEF NextExit, RowOK
    <2> QED
      BY <2>1, <2>2
  <1>3. venue[x] = "NONE" /\ traded[x] = 0
    BY <1>1, <1>2, OrderForm DEF RowOK
  <1>4. ASSUME NEW q \in Exits, state[q] = "ABSENT"
        PROVE  ~Pending(q)
    <2>1. recorded[Entry] \in 0..Lot
      BY <1>1, LedgerForm
    <2>2. Protected \subseteq Stops
      BY <2>1, StopForm, LotAssumption DEF Protected
    <2>3. venue[q] = "NONE" /\ q \notin Protected
      BY <1>1, <1>4, <2>2, OrderForm DEF RowOK
    <2> QED
      BY <1>4, <2>3 DEF Pending
  <1>5. ASSUME NEW q \in Exits, Resolved(q)
        PROVE  ~Pending(q)
    <2>1. RowOK(q)
      BY <1>1, OrderForm
    <2> QED
      BY <1>5, <2>1 DEF Resolved, RowOK, Pending, Complete, Ended
  <1>6. CASE x = Primary
    <2>1. state[Successor] = "ABSENT"
      BY <1>1, <1>2, <1>6 DEF ChainOK
    <2>2. state[Cleanup] = "ABSENT"
      BY <1>1, <1>2, <1>6 DEF ChainOK
    <2> QED
      BY <1>2, <1>3, <1>4, <1>6, <2>1, <2>2, OrderForm
  <1>7. CASE x = Successor
    <2>1. state[Cleanup] = "ABSENT"
      BY <1>1, <1>2, <1>7 DEF ChainOK
    <2>2. ~Pending(Primary)
      <3>1. CASE Resolved(Primary)
        BY <1>5, <3>1, OrderForm
      <3>2. CASE SuccessorDue(pass[p])
        <4>1. Primary \in aged /\ state[Primary] \in {"UNKNOWN", "OPEN"}
          BY <1>1, <3>2 DEF SuccessorDue
        <4>2. venue[Primary] # "LIVE"
          BY <4>1, OrderForm DEF Rows, ExitOK
        <4> QED
          BY <4>1, <4>2 DEF Pending
      <3> QED
        BY <1>2, <1>7, <3>1, <3>2
    <2> QED
      BY <1>2, <1>3, <1>4, <1>7, <2>1, <2>2, OrderForm
  <1>8. CASE x = Cleanup
    <2>1. state[Successor] = "CLOSED" /\ Successor \in called
      BY <1>2, <1>8
    <2>2. ~Pending(Primary)
      BY <1>1, <2>1 DEF ChainOK
    <2>3. ~Pending(Successor)
      BY <1>5, <2>1, OrderForm DEF Resolved
    <2> QED
      BY <1>2, <1>3, <1>8, <2>1, <2>2, <2>3, OrderForm
  <1> QED
    BY <1>2, <1>6, <1>7, <1>8, OrderForm

\* A pass that does not wait for a protection finds none that can still trade.
LEMMA StopsDone ==
  ASSUME TypeOK, Rows, ~Waiting, Replayed, lifecycle # "COMPLETED", NEW o \in Stops
  PROVE  /\ venue[o] # "LIVE" /\ state[o] # "UNKNOWN"
         /\ ~(state[o] = "ABSENT" /\ o \in Protected)
  <1>1. RowOK(o)
    BY OrderForm DEF Rows
  <1>2. state[o] # "UNKNOWN" /\ ~Working(o) /\ ~ \E q \in Stops : Working(q)
    BY DEF Waiting
  <1>3. venue[o] # "LIVE"
    <2>1. state[o] \in States
      BY OrderForm DEF TypeOK
    <2> QED
      BY <1>1, <1>2, <2>1 DEF RowOK, Working, Ended, Complete, States
  <1>4. ~(state[o] = "ABSENT" /\ o \in Protected)
    <2> SUFFICES ASSUME state[o] = "ABSENT", o \in Protected
                 PROVE  FALSE
      OBVIOUS
    <2>1. PICK n \in 1..recorded[Entry] : o = Stop(n)
      BY DEF Protected
    <2>2. n \in Missing
      BY <2>1 DEF Missing
    <2> QED
      BY <1>2, <2>1, <2>2 DEF Replayed
  <1> QED
    BY <1>2, <1>3, <1>4

\* A decision that creates no exit.
LEMMA GiveStep ==
  ASSUME TypeInv, TypeInv', Rows, Covered, Gives,
         UNCHANGED <<aged, recorded, term, traded>>
  PROVE  Rows' /\ Covered'
  <1>1. PICK S \in SUBSET (Orders \ Exits) : NoCall(Dropped(S)) /\ UNCHANGED blind
    BY DEF Gives
  <1>2. S \in SUBSET Orders /\ state' = Dropped(S) /\ UNCHANGED <<venue, called, size>>
    BY <1>1 DEF NoCall
  <1>3. TypeOK /\ TypeOK'
    BY DEF TypeInv
  <1> QED
    BY <1>1, <1>2, <1>3, DropStep

\* The exit is created: what the protections and the exits before it left is what
\* it may trade.
LEMMA MakeStep ==
  ASSUME TypeInv, TypeInv', Rows, PassInv, Covered, NEW p \in Passes, Makes(p), Replayed,
         UNCHANGED <<aged, recorded, term, traded>>
  PROVE  Rows' /\ Covered'
  <1>1. PICK S \in SUBSET (Orders \ Exits), x \in NextExit(pass[p]) : Making(p, S, x)
    BY DEF Makes
  <1>2. TypeOK /\ TypeOK' /\ aged \subseteq called
    BY DEF TypeInv, Rows
  <1>3. /\ x \notin called /\ venue[x] = "NONE" /\ traded[x] = 0
        /\ \A q \in Exits \ {x} : ~Pending(q)
        /\ x = Primary => state[Successor] = "ABSENT"
        /\ x = Successor => state[Primary] # "ABSENT" /\ state[Cleanup] = "ABSENT"
        /\ x = Cleanup => Successor \in called
    BY <1>1, NextExitForm
  <1>4. PICK k : k = Quantity(pass[p], x)
    OBVIOUS
  <1>5. /\ x \in Exits /\ x \in Orders /\ x \notin Stops /\ x # Entry
        /\ k \in 1..Lot /\ k <= Ledger /\ Ledger \in Nat
        /\ size' = [size EXCEPT ![x] = k] /\ size'[x] = k
    <2>1. /\ x \in Exits /\ k \in 1..Lot /\ k <= Ledger /\ Ledger \in Nat
      BY <1>1, <1>4, QuantityForm DEF Making
    <2>2. size' = [size EXCEPT ![x] = k]
      BY <1>1, <1>4 DEF Making, CreateExit
    <2> QED
      BY <1>2, <2>1, <2>2, OrderForm DEF TypeOK
  <1>6. PICK s : s = Dropped(S)
    OBVIOUS
  <1>7. Call(s, x) /\ s \in [Orders -> States]
    <2>1. Dropped(S) \in [Orders -> States]
      BY <1>2 DEF Dropped, TypeOK, States
    <2> QED
      BY <1>1, <1>6, <2>1 DEF Making, CreateExit
  <1>8. /\ called \subseteq called' /\ Called(x)
        /\ \A q \in Orders \ {x} : /\ state'[q] = s[q] /\ venue'[q] = venue[q]
                                   /\ q \in called' <=> q \in called
    BY <1>2, <1>3, <1>5, <1>7, CallForm
  <1>9. \A q \in Orders \ {x} : Ordered(q)' = Ordered(q) /\ (q \in Exits => size'[q] = size[q])
    BY <1>2, <1>5, OrderForm DEF Ordered, TypeOK
  <1>10. Ordered(x)' = k
    BY <1>5 DEF Ordered
  <1>11. /\ RowOK(x)' /\ ExitOK(x)' /\ state'[x] # "ABSENT"
    BY <1>2, <1>3, <1>5, <1>8, <1>10, CallRow
  <1>12. ASSUME NEW q \in Orders \ {x}
         PROVE  Calm(q)
    <2>1. Ordered(q)' = Ordered(q) /\ (q \in Exits => size'[q] = size[q])
      BY <1>9
    <2>2. s[q] = IF q \in S /\ state[q] = "READY" THEN "NOT_SUBMITTED" ELSE state[q]
      BY <1>6 DEF Dropped
    <2>3. CASE q \in S
      BY <1>2, <1>8, <2>1, <2>2, <2>3, DropCalm
    <2>4. CASE q \notin S
      <3>1. Same(q)
        BY <1>8, <2>2, <2>4 DEF Same
      <3> QED
        BY <1>2, <2>1, <3>1, SameCalm
    <2> QED
      BY <2>3, <2>4
  <1>13. \A q \in Exits \ {x} : state'[q] = state[q] /\ ~Pending(q)'
    <2> TAKE q \in Exits \ {x}
    <2>1. q \in Orders \ {x} /\ q \notin S
      BY OrderForm
    <2>2. Calm(q) /\ ~Pending(q)
      BY <1>3, <1>12, <2>1
    <2>3. state'[q] = state[q]
      BY <1>6, <1>8, <2>1 DEF Dropped
    <2> QED
      BY <2>2, <2>3 DEF Calm
  <1>14. Rows'
    <2>1. \A q \in Orders : RowOK(q)'
      BY <1>11, <1>12 DEF Calm
    <2>2. \A q \in Exits : ExitOK(q)'
      BY <1>11, <1>12, OrderForm DEF Calm
    <2>3. \A q \in Stops : StopOK(q)'
      BY <1>5, <1>12, OrderForm DEF Calm
    <2>4. ChainOK'
      <3>1. Primary \in Exits /\ Successor \in Exits /\ Cleanup \in Exits
        BY OrderForm
      <3>2. CASE x = Primary
        BY <1>3, <1>8, <1>11, <1>13, <3>1, <3>2, OrderForm DEF Rows, ChainOK
      <3>3. CASE x = Successor
        BY <1>3, <1>13, <3>1, <3>3, OrderForm DEF ChainOK
      <3>4. CASE x = Cleanup
        BY <1>3, <1>8, <1>13, <3>1, <3>4, OrderForm DEF Rows, ChainOK
      <3> QED
        BY <1>5, <3>2, <3>3, <3>4, OrderForm
    <2>5. aged' \subseteq called'
      BY <1>2, <1>8
    <2> QED
      BY <2>1, <2>2, <2>3, <2>4, <2>5 DEF Rows
  <1>15. CASE blind'
    BY <1>14, <1>15 DEF Covered
  <1>16. CASE ~blind'
    <2>1. S = {Entry} \cup Stops /\ ~Waiting /\ recorded = traded /\ lifecycle # "COMPLETED"
      BY <1>1, <1>16 DEF Making
    <2>2. PICK D : D = Claims'
      OBVIOUS
    <2>3. PICK f : f = traded
      OBVIOUS
    <2>4. ASSUME NEW q \in Reducers
          PROVE  /\ f[q] \in Int /\ D[q] \in Int
                 /\ q # x => D[q] <= f[q]
                 /\ q = x => D[q] <= k
      <3>1. q \in Orders /\ f[q] \in 0..Lot
        BY <1>2, <2>3, OrderForm DEF TypeOK
      <3>2. D = [o \in Reducers |-> Claim(o)']
        BY <2>2 DEF Claims
      <3>3. D[q] = Claim(q)' /\ f'[q] = f[q] /\ traded'[q] = f[q]
        BY <2>3, <3>2
      <3>4. CASE q = x
        BY <1>3, <1>5, <1>10, <2>3, <3>1, <3>3, <3>4, LotAssumption DEF Claim
      <3>5. CASE q # x
        <4>1. ~Pending(q)'
          <5>1. CASE q \in Exits
            BY <1>13, <3>5, <5>1
          <5>2. CASE q \in Stops
            <6>1. /\ venue[q] # "LIVE" /\ state[q] # "UNKNOWN"
                  /\ ~(state[q] = "ABSENT" /\ q \in Protected)
              BY <1>2, <2>1, <5>2, StopsDone
            <6>2. state'[q] = IF state[q] = "READY" THEN "NOT_SUBMITTED" ELSE state[q]
              BY <1>6, <1>8, <2>1, <3>1, <3>5, <5>2 DEF Dropped
            <6>3. venue'[q] = venue[q] /\ Protected' = Protected
              BY <1>8, <3>1, <3>5 DEF Protected
            <6> QED
              BY <6>1, <6>2, <6>3 DEF Pending
          <5> QED
            BY <5>1, <5>2, OrderForm
        <4> QED
          BY <3>1, <3>3, <3>5, <4>1, LotAssumption DEF Claim
      <3> QED
        BY <3>4, <3>5
    <2>5. x \in Reducers /\ f[x] = 0
      BY <1>3, <1>5, <2>3, OrderForm
    <2>6. /\ Sum(f, Reducers \ {x}) \in Int /\ Sum(f, Reducers) = f[x] + Sum(f, Reducers \ {x})
          /\ Sum(D, Reducers \ {x}) \in Int /\ Sum(D, Reducers) = D[x] + Sum(D, Reducers \ {x})
      BY <2>4, <2>5, ReducersFinite, SumRemove
    <2>7. Sum(D, Reducers \ {x}) <= Sum(f, Reducers \ {x})
      <3>1. PICK T : T = Reducers \ {x}
        OBVIOUS
      <3>2. IsFiniteSet(T)
        BY <3>1, ReducersFinite, FS_Subset
      <3>3. \A q \in T : D[q] \in Int /\ f[q] \in Int /\ D[q] <= f[q]
        BY <2>4, <3>1
      <3>4. Sum(D, T) <= Sum(f, T)
        BY <3>2, <3>3, SumMono
      <3> QED
        BY <3>1, <3>4
    <2>8. PICK r : r = recorded[Entry]
      OBVIOUS
    <2>9. r \in 0..Lot /\ Ledger = r - Sum(f, Reducers) /\ Sum(f, Reducers) \in Nat
      BY <1>2, <2>1, <2>3, <2>8, LedgerForm DEF Ledger
    <2>10. Sum(D, Reducers) <= r
      <3>1. PICK d : d = Sum(D, Reducers \ {x})
        OBVIOUS
      <3>2. PICK g : g = Sum(f, Reducers \ {x})
        OBVIOUS
      <3>3. PICK l : l = Ledger
        OBVIOUS
      <3>4. PICK e : e = D[x]
        OBVIOUS
      <3>5. d \in Int /\ g \in Int /\ e \in Int /\ l \in Nat /\ d <= g /\ e <= k /\ k <= l
        BY <1>5, <2>4, <2>5, <2>6, <2>7, <3>1, <3>2, <3>3, <3>4
      <3>6. l = r - (0 + g)
        BY <2>5, <2>6, <2>9, <3>2, <3>3
      <3>7. e + d <= r
        BY <1>5, <2>9, <3>5, <3>6, LotAssumption
      <3> QED
        BY <2>6, <3>1, <3>4, <3>7
    <2>11. Sum(Claims, Reducers)' = Sum(Claims', Reducers)
      OBVIOUS
    <2>12. Covered'
      BY <2>2, <2>8, <2>10, <2>11 DEF Covered
    <2> QED
      BY <1>14, <2>12
  <1> QED
    BY <1>15, <1>16

(***************************************************************************)
(* The invariant.                                                          *)
(***************************************************************************)

\* What a pass knows of the past stays true.
LEMMA PassStep ==
  ASSUME TypeInv, PassInv, Next
  PROVE  PassInv'
  <1>1. pass \in [Passes -> Pass]
    BY DEF TypeInv
  <1>2. aged \subseteq aged'
    BY DEF Next, Sync, Read, Protect, Resume, Decide, Close, OwnerExit, TimeExit, CallEntry, Age,
           Records, RecordFill, RecordEnd, QueryUnknown,
           Venue, Arrive, Trade, Expire, TakeCancel, Reject
  <1>3. CASE UNCHANGED pass
    BY <1>2, <1>3 DEF PassInv
  <1>4. ASSUME NEW p \in Passes, NEW r, pass' = [pass EXCEPT ![p] = r], r.aged \subseteq aged,
               r.step = "CLOSE" => r.pos = 0
        PROVE  PassInv'
    <2>1. ASSUME NEW q \in Passes
          PROVE  pass'[q] = IF q = p THEN r ELSE pass[q]
      BY <1>1, <1>4
    <2> QED
      BY <1>2, <1>4, <2>1 DEF PassInv
  <1>5. ASSUME NEW p \in Passes, Read(p) \/ Resume(p) \/ Decide(p) \/ Close(p)
        PROVE  PassInv'
    <2>1. pass[p] \in Pass /\ pass[p].aged \subseteq aged
      BY <1>1 DEF PassInv
    <2>2. Idle.aged \subseteq aged /\ Idle.step # "CLOSE"
      BY DEF Idle
    <2>3. CASE Read(p)
      <3>1. PICK r : r = [step |-> "READ", pos |-> Position, aged |-> aged \cap ({Primary} \cup Stops),
                          open |-> \E o \in Orders : venue[o] = "LIVE"]
        OBVIOUS
      <3>2. pass' = [pass EXCEPT ![p] = r]
        BY <2>3, <3>1 DEF Read
      <3>3. r.aged \subseteq aged /\ r.step # "CLOSE"
        BY <3>1
      <3> QED
        BY <1>4, <3>2, <3>3
    <2>4. CASE Resume(p)
      <3>1. PICK r : r = [pass[p] EXCEPT !.step = "RESUMED"]
        OBVIOUS
      <3>2. pass' = [pass EXCEPT ![p] = r]
        BY <2>4, <3>1 DEF Resume
      <3>3. r.aged \subseteq aged /\ r.step # "CLOSE"
        BY <2>1, <3>1 DEF Pass
      <3> QED
        BY <1>4, <3>2, <3>3
    <2>5. CASE Decide(p)
      <3>1. PICK r : r = IF pass[p].pos = 0 /\ ~pass[p].open
                         THEN [pass[p] EXCEPT !.step = "CLOSE"] ELSE Idle
        OBVIOUS
      <3>2. pass' = [pass EXCEPT ![p] = r]
        BY <2>5, <3>1 DEF Decide
      <3>3. r.aged \subseteq aged /\ (r.step = "CLOSE" => r.pos = 0)
        BY <2>1, <2>2, <3>1 DEF Pass
      <3> QED
        BY <1>4, <3>2, <3>3
    <2>6. CASE Close(p)
      <3>1. pass' = [pass EXCEPT ![p] = Idle]
        BY <2>6 DEF Close
      <3> QED
        BY <1>4, <2>2, <3>1
    <2> QED
      BY <1>5, <2>3, <2>4, <2>5, <2>6
  <1>6. Next => UNCHANGED pass \/ \E p \in Passes : Read(p) \/ Resume(p) \/ Decide(p) \/ Close(p)
    BY DEF Next, Sync, Protect, OwnerExit, TimeExit, CallEntry, Age,
           Records, RecordFill, RecordEnd, QueryUnknown,
           Venue, Arrive, Trade, Expire, TakeCancel, Reject
  <1> QED
    BY <1>3, <1>5, <1>6

\* Every step keeps the rows and the claims within the fills.
LEMMA RowsStep ==
  ASSUME TypeInv, TypeInv', Rows, PassInv, Covered, Next
  PROVE  Rows' /\ Covered'
  <1>1. TypeOK /\ TypeOK' /\ aged \subseteq called
    BY DEF TypeInv, Rows
  <1>2. ASSUME UNCHANGED <<rows, aged, facts, blind, external>>
        PROVE  Rows' /\ Covered'
    <2>1. UNCHANGED <<state, size, called, aged, recorded, term, blind, venue, traded>>
      BY <1>2 DEF rows, facts, external
    <2>2. \A o \in Orders : Same(o)
      BY <2>1 DEF Same
    <2> QED
      BY <1>1, <2>1, <2>2, NoStep
  <1>3. ASSUME NEW p \in Passes, Sync(p)
        PROVE  Rows' /\ Covered'
    <2>1. CASE Read(p)
      BY <1>2, <2>1 DEF Read
    <2>2. CASE Protect(p)
      <3>1. PICK o : o = Stop(Min(Missing))
        OBVIOUS
      <3>2. o \in Stops /\ o \in Protected /\ o \in Orders /\ state[o] \in {"ABSENT", "READY"}
        BY <1>1, <2>2, <3>1, MissingForm, OrderForm DEF Protect
      <3>3. UNCHANGED <<recorded, traded, aged, term, size, blind>>
        BY <2>2 DEF Protect, facts
      <3>4. CASE Call(state, o)
        BY <1>1, <3>2, <3>3, <3>4, CallStep
      <3>5. CASE /\ state[o] = "ABSENT" /\ state' = [state EXCEPT ![o] = "REFUSED"]
                 /\ UNCHANGED <<called, venue>>
        <4>1. state'[o] = "REFUSED" /\ \A q \in Orders \ {o} : Same(q)
          BY <1>1, <3>2, <3>3, <3>5 DEF Same, TypeOK
        <4>2. RowOK(o) /\ o \notin Exits
          BY <3>2, OrderForm DEF Rows
        <4>3. RowOK(o)' /\ StopOK(o)' /\ ~Pending(o)'
          BY <1>1, <3>2, <3>3, <3>5, <4>1, <4>2
             DEF RowOK, Rows, StopOK, Protected, Pending, Ended, Ordered, TypeOK
        <4>4. Calm(o)
          BY <1>1, <3>2, <3>3, <3>5, <4>1, <4>2, <4>3, TradedForm DEF Calm
        <4> QED
          BY <1>1, <3>2, <3>3, <3>5, <4>1, <4>4, OneStep
      <3> QED
        BY <2>2, <3>1, <3>4, <3>5 DEF Protect
    <2>3. CASE Resume(p)
      <3>1. PICK x \in Exits :
              /\ state[x] = "READY"
              /\ \/ UNCHANGED <<state, called, venue>>
                 \/ Call(state, x)
                 \/ state' = [state EXCEPT ![x] = "NOT_SUBMITTED"] /\ UNCHANGED <<called, venue>>
        BY <2>3 DEF Resume
      <3>2. UNCHANGED <<recorded, traded, aged, term, size, blind>> /\ x \in Orders
        BY <2>3, OrderForm DEF Resume, facts
      <3>3. CASE Call(state, x)
        BY <1>1, <3>1, <3>2, <3>3, CallStep
      <3>4. CASE UNCHANGED <<state, called, venue>>
        <4>1. \A o \in Orders : Same(o)
          BY <3>2, <3>4 DEF Same
        <4> QED
          BY <1>1, <3>2, <3>4, <4>1, NoStep
      <3>5. CASE state' = [state EXCEPT ![x] = "NOT_SUBMITTED"] /\ UNCHANGED <<called, venue>>
        <4>1. state' = Dropped({x})
          BY <1>1, <3>1, <3>5 DEF Dropped, TypeOK
        <4> QED
          BY <1>1, <3>2, <3>5, <4>1, DropStep
      <3> QED
        BY <3>1, <3>3, <3>4, <3>5
    <2>4. CASE Decide(p)
      <3>1. Replayed /\ UNCHANGED <<aged, recorded, term, traded>>
        BY <2>4 DEF Decide, facts
      <3> QED
        BY <1>1, <2>4, <3>1, DecideForm, GiveStep, MakeStep
    <2>5. CASE Close(p)
      BY <2>5, CloseStep
    <2> QED
      BY <1>3, <2>1, <2>2, <2>3, <2>4, <2>5 DEF Sync
  <1>4. CASE OwnerExit \/ TimeExit
    BY <1>2, <1>4 DEF OwnerExit, TimeExit
  <1>5. CASE CallEntry
    <2>1. /\ Call(state, Entry) /\ state[Entry] = "READY" /\ Entry \in Orders
          /\ UNCHANGED <<recorded, traded, aged, term, size, blind>>
      BY <1>5, OrderForm DEF CallEntry, facts
    <2> QED
      BY <1>1, <2>1, CallStep
  <1>6. ASSUME NEW o \in Orders, Records(o)
        PROVE  Rows' /\ Covered'
    <2>1. CASE RecordFill(o) /\ o = Entry
      BY <1>1, <2>1, FillStep
    <2>2. CASE (RecordFill(o) /\ o # Entry) \/ RecordEnd(o) \/ QueryUnknown(o)
      BY <1>1, <2>2, RecordStep
    <2> QED
      BY <1>6, <2>1, <2>2 DEF Records
  <1>7. ASSUME NEW o \in Orders, Age(o) \/ Venue(o)
        PROVE  Rows' /\ Covered'
    BY <1>1, <1>7, AgeStep, VenueStep
  <1> QED
    BY <1>3, <1>4, <1>5, <1>6, <1>7 DEF Next

\* Only the closing completes, and nothing comes to a completed activation.
LEMMA CompletedStep ==
  ASSUME TypeInv, Rows, PassInv, CompletedInv, Next
  PROVE  CompletedInv'
  <1> SUFFICES ASSUME lifecycle' = "COMPLETED"
               PROVE  (\A o \in Orders : Final(state', o)) /\ Ledger' = 0
    BY DEF CompletedInv, Final
  <1>1. TypeOK
    BY DEF TypeInv
  <1>2. ASSUME recorded' = recorded
        PROVE  Ledger' = Ledger
    <2>1. Sum(recorded, Reducers)' = Sum(recorded', Reducers)
      OBVIOUS
    <2> QED
      BY <1>2, <2>1 DEF Ledger
  <1>3. CASE lifecycle = "COMPLETED"
    <2>1. (\A o \in Orders : Final(state, o)) /\ Ledger = 0
      BY <1>3 DEF CompletedInv
    <2>2. \A o \in Orders : /\ recorded[o] = traded[o] /\ venue[o] # "LIVE"
                            /\ state[o] # "UNKNOWN" /\ state[o] # "READY"
      BY <1>1, <2>1, FinalForm DEF Final
    <2>3. \A o \in Orders : ~(recorded[o] < traded[o])
      BY <1>1, <2>2, LotAssumption DEF TypeOK
    <2>4. state' = state /\ recorded' = recorded
      <3>1. ASSUME NEW p \in Passes, Sync(p)
            PROVE  state' = state /\ recorded' = recorded
        BY <1>3, <2>2, <3>1, OrderForm
           DEF Sync, Read, Protect, Resume, Decide, NoCall, Close, rows, facts
      <3>2. CASE OwnerExit \/ TimeExit \/ CallEntry
        BY <1>3, <3>2 DEF OwnerExit, TimeExit, CallEntry, rows, facts
      <3>3. ASSUME NEW o \in Orders, Records(o)
            PROVE  state' = state /\ recorded' = recorded
        <4>1. Recognised(o) = state
          BY <1>1, <2>2 DEF Recognised, TypeOK
        <4> QED
          BY <2>2, <2>3, <3>3, <4>1 DEF Records, RecordFill, RecordEnd, QueryUnknown
      <3>4. ASSUME NEW o \in Orders, Age(o) \/ Venue(o)
            PROVE  state' = state /\ recorded' = recorded
        BY <3>4 DEF Age, Venue, Arrive, Trade, Expire, TakeCancel, Reject, rows, facts
      <3> QED
        BY <3>1, <3>2, <3>3, <3>4 DEF Next
    <2> QED
      BY <1>2, <2>1, <2>4
  <1>4. CASE lifecycle # "COMPLETED"
    <2>1. PICK p \in Passes : Close(p)
      BY <1>4 DEF Next, Sync, Read, Protect, Resume, Decide, OwnerExit, TimeExit, CallEntry, Age,
           Records, RecordFill, RecordEnd, QueryUnknown,
           Venue, Arrive, Trade, Expire, TakeCancel, Reject
    <2>2. /\ MayClose(pass[p]) /\ pass[p].step = "CLOSE"
          /\ state' = Closed /\ recorded' = recorded
          /\ \A o \in Orders : Final(Closed, o)
      BY <1>4, <2>1 DEF Close, facts
    <2>3. pass[p].pos = 0 /\ Ledger = 0
      BY <2>2 DEF MayClose, Attributed, PassInv
    <2> QED
      BY <1>2, <2>2, <2>3
  <1> QED
    BY <1>3, <1>4

\* The invariant holds at first.
LEMMA InvInit ==
  ASSUME Init
  PROVE  Inv
  <1>1. TypeInv /\ TypeOK
    BY TypeInit DEF TypeInv
  <1>2. Rows
    <2>1. \A o \in Orders : RowOK(o)
      <3> TAKE o \in Orders
      <3>1. /\ state[o] \in {"ABSENT", "READY"} /\ (state[o] # "ABSENT" => o = Entry)
            /\ venue[o] = "NONE" /\ traded[o] = 0 /\ recorded[o] = 0
            /\ o \notin called /\ o \notin term
        BY DEF Init
      <3>2. o = Entry => traded[o] <= Ordered(o)
        BY <3>1, OrderedForm, LotAssumption
      <3> QED
        BY <3>1, <3>2 DEF RowOK
    <2>2. \A x \in Exits : ExitOK(x)
      BY OrderForm DEF Init, ExitOK
    <2>3. \A o \in Stops : StopOK(o)
      BY OrderForm DEF Init, StopOK
    <2>4. aged \subseteq called /\ ChainOK
      BY OrderForm DEF Init, ChainOK
    <2> QED
      BY <2>1, <2>2, <2>3, <2>4 DEF Rows
  <1>3. PassInv
    BY DEF Init, Idle, PassInv
  <1>4. Covered
    <2>1. \A q \in Reducers : Claims[q] = 0
      <3> TAKE q \in Reducers
      <3>1. q \in Orders /\ q # Entry
        BY OrderForm
      <3>2. state[q] = "ABSENT" /\ venue[q] = "NONE" /\ traded[q] = 0 /\ recorded[Entry] = 0
        BY <3>1, OrderForm DEF Init
      <3>3. Protected = {}
        BY <3>2 DEF Protected
      <3>4. ~Pending(q)
        BY <3>2, <3>3 DEF Pending
      <3> QED
        BY <3>2, <3>4 DEF Claims, Claim
    <2>2. Sum(Claims, Reducers) = 0
      BY <2>1, ReducersFinite, SumZero
    <2>3. recorded[Entry] = 0
      BY OrderForm DEF Init
    <2> QED
      BY <2>2, <2>3 DEF Covered
  <1>5. CompletedInv
    BY DEF Init, CompletedInv
  <1> QED
    BY <1>1, <1>2, <1>3, <1>4, <1>5 DEF Inv

\* Every step keeps the invariant.
LEMMA InvStep ==
  ASSUME Inv, [Next]_vars
  PROVE  Inv'
  <1>1. TypeInv /\ Rows /\ PassInv /\ Covered /\ CompletedInv
    BY DEF Inv
  <1>2. CASE Next
    BY <1>1, <1>2, TypeNext, RowsStep, PassStep, CompletedStep DEF Inv
  <1>3. CASE UNCHANGED vars
    <2>1. UNCHANGED <<lifecycle, state, size, base, born, called, aged, cancel, recorded, term,
                      pass, blind, venue, traded>>
      BY <1>3 DEF vars, rows, facts, external
    <2>2. TypeInv'
      BY <1>1, <2>1 DEF TypeInv, TypeOK
    <2>3. Rows' /\ Covered'
      <3>1. \A o \in Orders : Same(o)
        BY <2>1 DEF Same
      <3> QED
        BY <1>1, <2>1, <2>2, <3>1, NoStep DEF TypeInv, Rows
    <2>4. PassInv'
      BY <1>1, <2>1 DEF PassInv
    <2>5. CompletedInv'
      BY <1>1, <2>1 DEF CompletedInv, Final, Ledger
    <2> QED
      BY <2>2, <2>3, <2>4, <2>5 DEF Inv
  <1> QED
    BY <1>2, <1>3

(***************************************************************************)
(* The theorems.                                                           *)
(***************************************************************************)

\* The invariant holds in every reachable state, however many passes are under way
\* and whatever fails.
THEOREM Invariance == Spec => []Inv
  BY InvInit, InvStep, PTL DEF Spec

\* The rows, the facts and the venue keep their types: no order trades or records
\* more than it was sent for.
THEOREM TypeCorrect == Spec => []TypeOK
  <1>1. Inv => TypeOK
    BY DEF Inv, TypeInv
  <1> QED
    BY <1>1, Invariance, PTL

\* Protections and exits together never trade more than the activation bought,
\* unless an exit was sent blind: what they may still trade, and have traded, is
\* covered by the fills on record.
THEOREM NothingForeign == Spec => []NoForeignReduction
  BY NoForeign, Invariance, PTL

\* An activation that close_activation completed holds nothing, and has no order
\* that could still trade.
THEOREM CompletedIsFlat == Spec => []CompletedMeansFlat
  BY Flat, Invariance, PTL

-----------------------------------------------------------------------------
(***************************************************************************)
(* The targets of the protections.  Their quantities and costs are sums    *)
(* over fills and legs, so their proofs stand here, beside the lemmas on   *)
(* sums.  The instance renames `facts', which is taken above.              *)
(***************************************************************************)

CONSTANTS Requests, Whole, MinQuantity, MinNotional, Better, NoPlan, None, Error, Slip, MaxFacts
VARIABLES plan, legs, estimate, trades, fills

Targets == INSTANCE ProtectionTargets WITH facts <- trades

\* A fold that unfolds the sum of f is the sum of f.
LEMMA FoldIsSum ==
  ASSUME NEW S, IsFiniteSet(S), NEW f, \A x \in S : f[x] \in Int,
         NEW h, Folds(f, SUBSET S, h)
  PROVE  h[S] = Sum(f, S)
  <1>1. Sum(f, S) = (CHOOSE g : Folds(f, SUBSET S, g))[S]
    BY DEF Sum, MapThenSumSet, MapThenFoldSet, Folds, AnyOf
  <1>2. PICK g : g = CHOOSE g1 : Folds(f, SUBSET S, g1)
    OBVIOUS
  <1>3. Folds(f, SUBSET S, g)
    BY <1>2
  <1>4. \A s \in SUBSET S : s \in SUBSET S => g[s] = h[s]
    BY <1>3, FoldsAgree
  <1> QED
    BY <1>1, <1>2, <1>4

\* A fold exists.
LEMMA FoldOfSum ==
  ASSUME NEW S, IsFiniteSet(S), NEW f, \A x \in S : f[x] \in Int
  PROVE  \E h : Folds(f, SUBSET S, h)
  <1>1. PICK C : C = Int
    OBVIOUS
  <1>2. C \subseteq Int /\ 0 \in C /\ \A a \in C, b \in C : a + b \in C
    BY <1>1
  <1>3. \A x \in S : f[x] \in C
    BY <1>1
  <1> QED
    BY <1>2, <1>3, FoldsExist

\* Terms of at least one make a sum of at least one.
LEMMA SumPositive ==
  ASSUME NEW S, IsFiniteSet(S), S # {}, NEW f, \A x \in S : f[x] \in Nat \ {0}
  PROVE  Sum(f, S) \in Nat \ {0}
  <1>1. PICK o \in S : TRUE
    OBVIOUS
  <1>2. \A x \in S : f[x] \in Int
    OBVIOUS
  <1>3. Sum(f, S \ {o}) \in Int /\ Sum(f, S) = f[o] + Sum(f, S \ {o})
    BY <1>1, <1>2, SumRemove
  <1>4. Sum(f, S \ {o}) \in Nat
    <2>1. PICK T : T = S \ {o}
      OBVIOUS
    <2>2. IsFiniteSet(T) /\ \A x \in T : f[x] \in Nat
      BY <2>1, FS_Subset
    <2> QED
      BY <2>1, <2>2, SumNat
  <1>5. f[o] \in Nat \ {0}
    BY <1>1
  <1> QED
    BY <1>3, <1>4, <1>5

\* What fills bought and cost, as sums.
LEMMA FilledSum ==
  ASSUME NEW S, IsFiniteSet(S), NEW q, \A f \in S : q[f] \in Int /\ q[f] = f.quantity,
         NEW c, \A f \in S : c[f] \in Int /\ c[f] = f.quantity * f.price
  PROVE  Targets!Filled(S) = Sum(q, S) /\ Targets!Cost(S) = Sum(c, S)
  <1> DEFINE Q(h) == h = [s \in SUBSET S |-> IF s = {} THEN 0 ELSE AnyOf(s).quantity + h[s \ {AnyOf(s)}]]
             C(h) == h = [s \in SUBSET S |->
                            IF s = {} THEN 0
                            ELSE AnyOf(s).quantity * AnyOf(s).price + h[s \ {AnyOf(s)}]]
  <1>1. Targets!Filled(S) = (CHOOSE h : Q(h))[S] /\ Targets!Cost(S) = (CHOOSE h : C(h))[S]
    BY DEF Targets!Filled, Targets!Cost, Targets!MapThenSumSet, Targets!MapThenFoldSet, AnyOf
  <1>2. \A s \in SUBSET S : s # {} => /\ AnyOf(s) \in S
                                      /\ q[AnyOf(s)] = AnyOf(s).quantity
                                      /\ c[AnyOf(s)] = AnyOf(s).quantity * AnyOf(s).price
    BY AnyForm
  <1>3. \A h : (Q(h) <=> Folds(q, SUBSET S, h)) /\ (C(h) <=> Folds(c, SUBSET S, h))
    BY <1>2 DEF Folds
  <1> HIDE DEF Q, C
  <1>4. (\E h : Q(h)) /\ (\E h : C(h))
    BY <1>3, FoldOfSum
  <1>5. PICK g : g = CHOOSE h : Q(h)
    OBVIOUS
  <1>6. PICK k : k = CHOOSE h : C(h)
    OBVIOUS
  <1>7. Q(g) /\ C(k)
    BY <1>4, <1>5, <1>6
  <1>8. g[S] = Sum(q, S) /\ k[S] = Sum(c, S)
    BY <1>3, <1>7, FoldIsSum
  <1> QED
    BY <1>1, <1>5, <1>6, <1>8

\* What a schedule buys and what it costs, as sums.
LEMMA QuantitySum ==
  ASSUME NEW ls, IsFiniteSet(DOMAIN ls),
         NEW q, \A i \in DOMAIN ls : q[i] \in Int /\ q[i] = ls[i].quantity,
         NEW c, \A i \in DOMAIN ls : c[i] \in Int /\ c[i] = ls[i].quantity * ls[i].price
  PROVE  Targets!Quantity(ls) = Sum(q, DOMAIN ls) /\ Targets!Notional(ls) = Sum(c, DOMAIN ls)
  <1> DEFINE S == DOMAIN ls
             Q(h) == h = [s \in SUBSET S |-> IF s = {} THEN 0 ELSE ls[AnyOf(s)].quantity + h[s \ {AnyOf(s)}]]
             C(h) == h = [s \in SUBSET S |->
                            IF s = {} THEN 0
                            ELSE ls[AnyOf(s)].quantity * ls[AnyOf(s)].price + h[s \ {AnyOf(s)}]]
  <1>1. Targets!Quantity(ls) = (CHOOSE h : Q(h))[S] /\ Targets!Notional(ls) = (CHOOSE h : C(h))[S]
    BY DEF Targets!Quantity, Targets!Notional, Targets!MapThenSumSet, Targets!MapThenFoldSet, AnyOf
  <1>2. \A s \in SUBSET S : s # {} => /\ AnyOf(s) \in S
                                      /\ q[AnyOf(s)] = ls[AnyOf(s)].quantity
                                      /\ c[AnyOf(s)] = ls[AnyOf(s)].quantity * ls[AnyOf(s)].price
    BY AnyForm
  <1>3. IsFiniteSet(S) /\ \A i \in S : q[i] \in Int /\ c[i] \in Int
    OBVIOUS
  <1>4. \A h : (Q(h) <=> Folds(q, SUBSET S, h)) /\ (C(h) <=> Folds(c, SUBSET S, h))
    BY <1>2 DEF Folds
  <1> HIDE DEF Q, C, S
  <1>5. (\E h : Q(h)) /\ (\E h : C(h))
    BY <1>3, <1>4, FoldOfSum
  <1>6. PICK g : g = CHOOSE h : Q(h)
    OBVIOUS
  <1>7. PICK k : k = CHOOSE h : C(h)
    OBVIOUS
  <1>8. Q(g) /\ C(k)
    BY <1>5, <1>6, <1>7
  <1>9. g[S] = Sum(q, S) /\ k[S] = Sum(c, S)
    BY <1>3, <1>4, <1>8, FoldIsSum
  <1> QED
    BY <1>1, <1>6, <1>7, <1>9 DEF S

\* What the fills bought, and what they cost.
LEMMA FilledForm ==
  ASSUME NEW S, IsFiniteSet(S), \A f \in S : f.quantity \in Nat \ {0} /\ f.price \in Int
  PROVE  /\ Targets!Filled(S) \in Nat /\ (S # {} => Targets!Filled(S) # 0)
         /\ Targets!Cost(S) \in Int
  <1>1. PICK q : q = [f \in S |-> f.quantity]
    OBVIOUS
  <1>2. PICK c : c = [f \in S |-> f.quantity * f.price]
    OBVIOUS
  <1>3. \A f \in S : /\ q[f] \in Int /\ q[f] = f.quantity /\ q[f] \in Nat /\ q[f] \in Nat \ {0}
                     /\ c[f] \in Int /\ c[f] = f.quantity * f.price
    BY <1>1, <1>2
  <1>4. Targets!Filled(S) = Sum(q, S) /\ Targets!Cost(S) = Sum(c, S)
    BY <1>3, FilledSum
  <1>5. Sum(q, S) \in Nat
    BY <1>3, SumNat
  <1>6. Sum(c, S) \in Int
    BY <1>3, SumForm
  <1>7. S # {} => Sum(q, S) # 0
    BY <1>3, SumPositive
  <1> QED
    BY <1>4, <1>5, <1>6, <1>7

\* What a schedule buys, and what it costs.
LEMMA QuantityNotional ==
  ASSUME NEW ls, IsFiniteSet(DOMAIN ls), DOMAIN ls # {},
         \A i \in DOMAIN ls : ls[i].quantity \in Nat \ {0} /\ ls[i].price \in Int
  PROVE  Targets!Quantity(ls) \in Nat \ {0} /\ Targets!Notional(ls) \in Int
  <1>1. PICK I : I = DOMAIN ls
    OBVIOUS
  <1>2. PICK q : q = [i \in I |-> ls[i].quantity]
    OBVIOUS
  <1>3. PICK c : c = [i \in I |-> ls[i].quantity * ls[i].price]
    OBVIOUS
  <1>4. \A i \in I : /\ q[i] \in Int /\ q[i] = ls[i].quantity /\ q[i] \in Nat \ {0}
                     /\ c[i] \in Int /\ c[i] = ls[i].quantity * ls[i].price
    BY <1>1, <1>2, <1>3
  <1>5. Targets!Quantity(ls) = Sum(q, I) /\ Targets!Notional(ls) = Sum(c, I)
    BY <1>1, <1>4, QuantitySum
  <1>6. Sum(q, I) \in Nat \ {0}
    BY <1>1, <1>4, SumPositive
  <1>7. Sum(c, I) \in Int
    BY <1>1, <1>4, SumForm
  <1> QED
    BY <1>5, <1>6, <1>7

\* The least and the greatest of finitely many naturals, and of two integers.
LEMMA ExtremeForm ==
  ASSUME NEW S \in SUBSET Nat, S # {}, IsFiniteSet(S)
  PROVE  /\ Targets!Min(S) \in S /\ \A n \in S : Targets!Min(S) <= n
         /\ Targets!Max(S) \in S /\ \A n \in S : n <= Targets!Max(S)
  <1>1. Targets!Min(S) \in S /\ \A n \in S : Targets!Min(S) <= n
    BY LeastForm DEF Targets!Min
  <1>2. \E m \in S : \A n \in S : n <= m
    <2> DEFINE id == [n \in S |-> n]
               B == {m \in Nat : \A n \in S : n <= m}
    <2>1. \A n \in S : id[n] \in Nat /\ id[n] \in Int
      OBVIOUS
    <2>2. ASSUME NEW n \in S
          PROVE  n <= Sum(id, S)
      <3>1. id[n] = n /\ n \in Nat
        OBVIOUS
      <3>2. PICK T : T = S \ {n}
        OBVIOUS
      <3> HIDE DEF id
      <3>3. Sum(id, S) = id[n] + Sum(id, T)
        BY <2>1, <3>2, SumRemove
      <3>4. Sum(id, T) \in Nat
        <4>1. IsFiniteSet(T) /\ \A x \in T : id[x] \in Nat
          BY <2>1, <3>2, FS_Subset
        <4> QED
          BY <4>1, SumNat
      <3> QED
        BY <3>1, <3>3, <3>4
    <2>3. Sum(id, S) \in Nat
      BY <2>1, SumNat
    <2> HIDE DEF id
    <2>4. B # {}
      BY <2>2, <2>3
    <2>5. PICK m \in B : \A k \in B : m <= k
      BY <2>4, LeastForm
    <2>6. PICK n \in S : ~(n <= m - 1)
      <3>1. CASE m = 0
        <4>1. PICK n \in S : TRUE
          OBVIOUS
        <4>2. n \in Nat
          BY <4>1
        <4>3. ~(n <= m - 1)
          BY <3>1, <4>2
        <4> QED
          BY <4>1, <4>3
      <3>2. CASE m # 0
        <4>1. m - 1 \in Nat /\ ~(m <= m - 1)
          BY <3>2
        <4>2. m - 1 \notin B
          BY <2>5, <4>1
        <4> QED
          BY <4>1, <4>2
      <3> QED
        BY <3>1, <3>2
    <2>7. n = m
      BY <2>6
    <2> QED
      BY <2>6, <2>7
  <1>3. Targets!Max(S) \in S /\ \A n \in S : n <= Targets!Max(S)
    BY <1>2 DEF Targets!Max
  <1> QED
    BY <1>1, <1>3

\* The greater and the lesser of two integers.
LEMMA PairForm ==
  ASSUME NEW a \in Int, NEW b \in Int
  PROVE  /\ Targets!Max({a, b}) \in {a, b} /\ Targets!Max({a, b}) >= a /\ Targets!Max({a, b}) >= b
         /\ Targets!Min({a, b}) \in {a, b} /\ Targets!Min({a, b}) <= a /\ Targets!Min({a, b}) <= b
  <1>1. \E m \in {a, b} : \A n \in {a, b} : m >= n
    OBVIOUS
  <1>2. \E m \in {a, b} : \A n \in {a, b} : m <= n
    OBVIOUS
  <1> QED
    BY <1>1, <1>2 DEF Targets!Max, Targets!Min

\* Rounded stops are whole numbers, never short of what they are rounded from on the
\* side the direction names.
LEMMA SkewedStopForm ==
  ASSUME NEW n \in Int, NEW d \in Nat \ {0}, NEW direction, NEW skew
  PROVE  /\ Targets!SkewedStop(n, d, direction, skew) \in Int
         /\ direction = "LONG" => d * Targets!SkewedStop(n, d, direction, skew) >= n
         /\ direction # "LONG" => d * Targets!SkewedStop(n, d, direction, skew) <= n
  <1>1. Targets!Down(n, d) \in Int /\ d * Targets!Down(n, d) <= n
    BY DEF Targets!Down
  <1>2. Targets!Up(n, d) \in Int /\ d * Targets!Up(n, d) >= n
    <2>1. PICK k \in Int : k = (-n) \div d
      OBVIOUS
    <2>2. d * k <= -n
      BY <2>1
    <2> QED
      BY <2>1, <2>2 DEF Targets!Up
  <1>3. PICK u \in Int : u = Targets!Up(n, d)
    BY <1>2
  <1>4. PICK v \in Int : v = Targets!Down(n, d)
    BY <1>1
  <1>5. d * (u + 1) >= n /\ d * (v - 1) <= n
    BY <1>1, <1>2, <1>3, <1>4
  <1>6. CASE direction = "LONG"
    <2>1. Targets!SkewedStop(n, d, direction, skew) \in {u, u + 1}
      BY <1>3, <1>6 DEF Targets!SkewedStop, Targets!Stopwards, Targets!Side
    <2> QED
      BY <1>2, <1>3, <1>5, <1>6, <2>1
  <1>7. CASE direction # "LONG"
    <2>1. Targets!SkewedStop(n, d, direction, skew) \in {v, v - 1}
      BY <1>4, <1>7 DEF Targets!SkewedStop, Targets!Stopwards, Targets!Side
    <2> QED
      BY <1>1, <1>4, <1>5, <1>7, <2>1
  <1> QED
    BY <1>6, <1>7

\* Arithmetic of the loss: a stop that rounds the budget's quotient towards the entry
\* loses no more than the budget.
LEMMA LossLong ==
  ASSUME NEW w \in Int, NEW e \in Int, NEW x \in Int, NEW c \in Int, NEW q \in Int,
         NEW m \in Int, NEW s \in Int,
         (q * (w - x)) * s >= c * (w + e) - m
  PROVE  w * (c - q * s) + c * e + q * s * x <= m
  OBVIOUS

\* The same above the entry, where the plan is short.
LEMMA LossShort ==
  ASSUME NEW w \in Int, NEW e \in Int, NEW x \in Int, NEW c \in Int, NEW q \in Int,
         NEW m \in Int, NEW s \in Int,
         (q * (w + x)) * s <= c * (w - e) + m
  PROVE  w * (-1) * (c - q * s) + c * e + q * s * x <= m
  OBVIOUS

\* The request a valid plan was compiled from: its policy and its legs in numbers.
LEMMA RequestForm ==
  ASSUME Targets!TargetsAssumption, Targets!RequestsAssumption, NEW r \in Requests
  PROVE  /\ r # NoPlan /\ r.direction \in {"LONG", "SHORT"}
         /\ Whole \in Nat \ {0} /\ r.policy.distance \in Int
         /\ r.policy.entryFee \in Nat /\ r.policy.exitFee \in Nat
         /\ Whole - r.policy.exitFee \in Nat \ {0} /\ Whole + r.policy.exitFee \in Nat \ {0}
         /\ IsFiniteSet(DOMAIN Targets!NormalizedLegs(r)) /\ DOMAIN Targets!NormalizedLegs(r) # {}
         /\ \A i \in DOMAIN Targets!NormalizedLegs(r) :
              /\ Targets!NormalizedLegs(r)[i].price \in Nat
              /\ Targets!NormalizedLegs(r)[i].quantity \in Nat
  <1>0. PICK L : L = [price : Nat, requested : Nat, quantity : Nat]
    OBVIOUS
  <1>1. /\ r # NoPlan /\ r.direction \in {"LONG", "SHORT"}
        /\ r.policy.distance \in 1..(Whole \div 2)
        /\ {r.policy.entryFee, r.policy.exitFee} \subseteq 0..(Whole \div 10)
        /\ Len(Targets!NormalizedLegs(r)) > 0 /\ Targets!NormalizedLegs(r) \in Seq(L)
    BY <1>0 DEF Targets!RequestsAssumption
  <1>2. Whole \in Nat \ {0}
    BY DEF Targets!TargetsAssumption
  <1>3. PICK k \in Int : k = Whole \div 10
    BY <1>2
  <1>4. k < Whole
    BY <1>2, <1>3
  <1>5. PICK a : a = r.policy.entryFee
    OBVIOUS
  <1>6. PICK b : b = r.policy.exitFee
    OBVIOUS
  <1>7. a \in 0..k /\ b \in 0..k
    BY <1>1, <1>3, <1>5, <1>6
  <1>8. a \in Nat /\ b \in Nat /\ Whole - b \in Nat \ {0} /\ Whole + b \in Nat \ {0}
    BY <1>2, <1>4, <1>7
  <1>9. r.policy.distance \in Int
    BY <1>1
  <1>10. PICK ls : ls = Targets!NormalizedLegs(r)
    OBVIOUS
  <1>11. Len(ls) > 0 /\ ls \in Seq(L)
    BY <1>1, <1>10
  <1>12. \A i \in DOMAIN ls : ls[i] \in L
    BY <1>11
  <1>13. \A l \in L : l.price \in Nat /\ l.quantity \in Nat
    BY <1>0
  <1>14. DOMAIN ls = 1..Len(ls) /\ Len(ls) \in Nat /\ DOMAIN ls # {}
    <2>1. DOMAIN ls = 1..Len(ls) /\ Len(ls) \in Nat
      BY <1>11
    <2>2. 1 \in 1..Len(ls)
      BY <1>11, <2>1
    <2> QED
      BY <2>1, <2>2
  <1>15. IsFiniteSet(DOMAIN ls)
    BY <1>14, FS_Interval
  <1>16. \A i \in DOMAIN ls : ls[i].price \in Nat /\ ls[i].quantity \in Nat
    BY <1>12, <1>13
  <1> QED
    BY <1>1, <1>2, <1>5, <1>6, <1>8, <1>9, <1>10, <1>14, <1>15, <1>16

\* What a frozen estimate says.
LEMMA EstimateForm ==
  ASSUME Targets!TargetsAssumption, Targets!RequestsAssumption, NEW r \in Requests,
         NEW ls, ls = Targets!NormalizedLegs(r), ~Targets!HasIssue(r, ls),
         NEW e \in Targets!Estimates(r, ls), e # None
  PROVE  e.maximumLoss \in Int /\ e.boundary = Targets!Boundary(ls, r.direction)
  <1>1. /\ IsFiniteSet(DOMAIN ls) /\ DOMAIN ls # {}
        /\ \A i \in DOMAIN ls : ls[i].price \in Int /\ ls[i].quantity \in Nat
    <2>1. /\ IsFiniteSet(DOMAIN Targets!NormalizedLegs(r)) /\ DOMAIN Targets!NormalizedLegs(r) # {}
          /\ \A i \in DOMAIN Targets!NormalizedLegs(r) :
               /\ Targets!NormalizedLegs(r)[i].price \in Nat
               /\ Targets!NormalizedLegs(r)[i].quantity \in Nat
      BY RequestForm
    <2>2. \A n \in Nat : n \in Int
      OBVIOUS
    <2> QED
      BY <2>1, <2>2
  <1>2. \A i \in DOMAIN ls : ls[i].quantity \in Nat \ {0}
    <2>1. \A i \in DOMAIN ls : ~(ls[i].quantity < MinQuantity)
      BY DEF Targets!HasIssue
    <2>2. MinQuantity \in Nat \ {0}
      BY DEF Targets!TargetsAssumption
    <2>3. ASSUME NEW i \in DOMAIN ls
          PROVE  ls[i].quantity \in Nat \ {0}
      <3>1. PICK n \in Nat : n = ls[i].quantity
        BY <1>1
      <3>2. ~(n < MinQuantity)
        BY <2>1, <3>1
      <3>3. n \in Nat \ {0}
        BY <2>2, <3>2
      <3> QED
        BY <3>1, <3>3
    <2> QED
      BY <2>3
  <1>3. Targets!Quantity(ls) \in Nat \ {0} /\ Targets!Notional(ls) \in Int
    BY <1>1, <1>2, QuantityNotional
  <1>4. PICK tie, skew : e = Targets!Estimate(r, ls, tie, skew)
    BY DEF Targets!Estimates
  <1>5. PICK q \in Nat \ {0} : q = Targets!Quantity(ls)
    BY <1>3
  <1>6. PICK c \in Int : c = Targets!Notional(ls)
    BY <1>3
  <1>7. PICK p : p = r.policy
    OBVIOUS
  <1>8. PICK w \in Nat \ {0} : w = Whole
    BY RequestForm
  <1>9. p.distance \in Int /\ p.entryFee \in Int /\ p.exitFee \in Int
    <2>1. r.policy.distance \in Int /\ r.policy.entryFee \in Nat /\ r.policy.exitFee \in Nat
      BY RequestForm
    <2> QED
      BY <1>7, <2>1
  <1>10. PICK side \in Int : side = Targets!Side(r.direction)
    <2>1. Targets!Side(r.direction) \in Int
      BY DEF Targets!Side
    <2> QED
      BY <2>1
  <1>11. c * (w - side * p.distance) \in Int /\ q * w \in Nat \ {0}
    <2>1. PICK distance \in Int : distance = p.distance
      BY <1>9
    <2>2. c * (w - side * distance) \in Int /\ q * w \in Nat \ {0}
      OBVIOUS
    <2> QED
      BY <2>1, <2>2
  <1>12. PICK stop \in Int : stop = Targets!SkewedStop(c * (w - side * p.distance), q * w, r.direction, tie)
    BY <1>11, SkewedStopForm
  <1>13. w * side * (c - q * stop) + c * p.entryFee + q * stop * p.exitFee \in Int
    <2>1. PICK a \in Int : a = p.entryFee
      BY <1>9
    <2>2. PICK b \in Int : b = p.exitFee
      BY <1>9
    <2>3. w * side * (c - q * stop) + c * a + q * stop * b \in Int
      OBVIOUS
    <2> QED
      BY <2>1, <2>2, <2>3
  <1>14. /\ e.boundary = Targets!Boundary(ls, r.direction)
         /\ e.maximumLoss = Targets!LossAt(c, q, stop, p, r.direction)
    BY <1>4, <1>5, <1>6, <1>7, <1>8, <1>10, <1>12 DEF Targets!Estimate
  <1> QED
    BY <1>8, <1>10, <1>13, <1>14 DEF Targets!LossAt

\* Taking the opposite, as the side of a short plan does.
LEMMA Opposite ==
  ASSUME NEW k \in Int, NEW n \in Int
  PROVE  (-1) * n = -n /\ k + (-1) * n = k - n /\ k - (-1) * n = k + n /\ k - (-n) = k + n
  OBVIOUS

\* Multiplying keeps an order.
LEMMA Multiple ==
  ASSUME NEW d \in Nat, NEW x \in Int, NEW y \in Int, x <= y
  PROVE  d * x <= d * y
  OBVIOUS

\* The target shared by the fills fs: it loses no more than the frozen loss.
LEMMA TargetLoss ==
  ASSUME Targets!TargetsAssumption, Targets!RequestsAssumption, plan \in Requests,
         estimate.maximumLoss \in Int, estimate.boundary \in Int,
         NEW fs, IsFiniteSet(fs), fs # {},
         \A f \in fs : f.quantity \in Nat \ {0} /\ f.price \in Int,
         NEW skew
  PROVE  /\ Targets!AggregateStop(fs, skew) \in Int
         /\ Targets!LossAt(Targets!Cost(fs), Targets!Filled(fs), Targets!AggregateStop(fs, skew),
                           plan.policy, plan.direction) <= estimate.maximumLoss
  <1>1. PICK r \in Requests : r = plan
    OBVIOUS
  <1>2. PICK p : p = r.policy
    OBVIOUS
  <1>3. PICK w \in Nat \ {0} : w = Whole
    BY RequestForm
  <1>4. PICK a \in Nat : a = p.entryFee
    <2>1. r.policy.entryFee \in Nat
      BY RequestForm
    <2> QED
      BY <1>2, <2>1
  <1>5. PICK b \in Nat : b = p.exitFee
    <2>1. r.policy.exitFee \in Nat
      BY RequestForm
    <2> QED
      BY <1>2, <2>1
  <1>6. w - b \in Nat \ {0} /\ w + b \in Nat \ {0}
    <2>1. Whole - r.policy.exitFee \in Nat \ {0} /\ Whole + r.policy.exitFee \in Nat \ {0}
      BY RequestForm
    <2>2. b = r.policy.exitFee
      BY <1>2, <1>5
    <2> QED
      BY <1>3, <2>1, <2>2
  <1>7. PICK distance \in Int : distance = p.distance
    <2>1. r.policy.distance \in Int
      BY RequestForm
    <2> QED
      BY <1>2, <2>1
  <1>8. PICK q \in Nat \ {0} : q = Targets!Filled(fs)
    BY FilledForm
  <1>9. PICK c \in Int : c = Targets!Cost(fs)
    BY FilledForm
  <1>10. PICK m \in Int : m = estimate.maximumLoss
    OBVIOUS
  <1>11. PICK e \in Int : e = estimate.boundary
    OBVIOUS
  <1>12. PICK dir : dir = r.direction
    OBVIOUS
  <1>13. dir \in {"LONG", "SHORT"}
    BY <1>12, RequestForm
  <1>14. PICK side \in Int : side = Targets!Side(dir)
    <2>1. Targets!Side(dir) \in Int
      BY DEF Targets!Side
    <2> QED
      BY <2>1
  <1>15. Targets!DistanceStop(fs, skew) \in Int
    <2>1. c * (w - side * distance) \in Int /\ q * w \in Nat \ {0}
      OBVIOUS
    <2>2. PICK s \in Int : s = Targets!SkewedStop(c * (w - side * distance), q * w, dir, skew)
      BY <2>1, SkewedStopForm
    <2>3. e - side \in Int
      OBVIOUS
    <2>4. Targets!Farther(s, e - side, dir) \in Int
      BY <2>3, PairForm DEF Targets!Farther
    <2> QED
      BY <1>1, <1>2, <1>3, <1>7, <1>8, <1>9, <1>11, <1>12, <1>14, <2>2, <2>4
      DEF Targets!DistanceStop
  <1>16. PICK far \in Int : far = Targets!DistanceStop(fs, skew)
    BY <1>15
  <1>17. CASE dir = "LONG"
    <2>1. side = 1
      BY <1>14, <1>17 DEF Targets!Side
    <2>2. PICK n \in Int : n = c * (w + a) - m
      OBVIOUS
    <2>3. PICK d \in Nat \ {0} : d = q * (w - b)
      BY <1>6
    <2>4. c * (w + side * a) - side * m = n /\ q * (w - side * b) = d
      <3>1. w + side * a = w + a /\ side * m = m /\ w - side * b = w - b
        <4>1. \A k \in Int : 1 * k = k
          OBVIOUS
        <4> QED
          BY <2>1, <4>1
      <3> QED
        BY <2>2, <2>3, <3>1
    <2>5. Targets!BudgetStop(fs) = Targets!SkewedStop(n, d, dir, -side * estimate.skew)
      BY <1>1, <1>2, <1>3, <1>4, <1>5, <1>8, <1>9, <1>10, <1>12, <1>14, <2>4 DEF Targets!BudgetStop
    <2>6. PICK near \in Int : near = Targets!BudgetStop(fs) /\ d * near >= n
      BY <1>17, <2>5, SkewedStopForm
    <2>7. PICK s \in Int : s = Targets!AggregateStop(fs, skew) /\ s >= near
      <3>1. Targets!AggregateStop(fs, skew) = Targets!Max({far, near})
        BY <1>1, <1>12, <1>16, <1>17, <2>6 DEF Targets!AggregateStop, Targets!Nearer
      <3>2. Targets!Max({far, near}) \in {far, near} /\ Targets!Max({far, near}) >= near
        BY PairForm
      <3> QED
        BY <3>1, <3>2
    <2>8. d * s >= n
      <3>1. d * s >= d * near
        BY <2>7, Multiple
      <3>2. d * s \in Int /\ d * near \in Int
        OBVIOUS
      <3> QED
        BY <2>6, <3>1, <3>2
    <2>9. (q * (w - b)) * s >= c * (w + a) - m
      BY <2>2, <2>3, <2>8
    <2>10. w * (c - q * s) + c * a + q * s * b <= m
      BY <2>9, LossLong
    <2>11. Targets!LossAt(c, q, s, p, dir) = w * side * (c - q * s) + c * a + q * s * b
      BY <1>3, <1>4, <1>5, <1>14 DEF Targets!LossAt
    <2>12. w * side = w
      BY <2>1
    <2> QED
      BY <1>1, <1>2, <1>8, <1>9, <1>10, <1>12, <2>7, <2>10, <2>11, <2>12
  <1>18. CASE dir = "SHORT"
    <2>1. side = -1
      BY <1>14, <1>18 DEF Targets!Side
    <2>2. PICK n \in Int : n = c * (w - a) + m
      OBVIOUS
    <2>3. PICK d \in Nat \ {0} : d = q * (w + b)
      BY <1>6
    <2>4. c * (w + side * a) - side * m = n /\ q * (w - side * b) = d
      <3>1. w + side * a = w - a /\ side * m = -m /\ w - side * b = w + b
        <4>1. w + (-1) * a = w - a /\ (-1) * m = -m /\ w - (-1) * b = w + b
          BY Opposite
        <4> QED
          BY <2>1, <4>1
      <3>2. \A k \in Int : k - (-m) = k + m
        BY Opposite
      <3>3. c * (w - a) \in Int
        OBVIOUS
      <3> QED
        BY <2>2, <2>3, <3>1, <3>2, <3>3
    <2>5. Targets!BudgetStop(fs) = Targets!SkewedStop(n, d, dir, -side * estimate.skew)
      BY <1>1, <1>2, <1>3, <1>4, <1>5, <1>8, <1>9, <1>10, <1>12, <1>14, <2>4 DEF Targets!BudgetStop
    <2>6. PICK near \in Int : near = Targets!BudgetStop(fs) /\ d * near <= n
      BY <1>18, <2>5, SkewedStopForm
    <2>7. PICK s \in Int : s = Targets!AggregateStop(fs, skew) /\ s <= near
      <3>1. Targets!AggregateStop(fs, skew) = Targets!Min({far, near})
        BY <1>1, <1>12, <1>16, <1>18, <2>6 DEF Targets!AggregateStop, Targets!Nearer
      <3>2. Targets!Min({far, near}) \in {far, near} /\ Targets!Min({far, near}) <= near
        BY PairForm
      <3> QED
        BY <3>1, <3>2
    <2>8. d * s <= n
      <3>1. d * s <= d * near
        BY <2>7, Multiple
      <3>2. d * s \in Int /\ d * near \in Int
        OBVIOUS
      <3> QED
        BY <2>6, <3>1, <3>2
    <2>9. (q * (w + b)) * s <= c * (w - a) + m
      BY <2>2, <2>3, <2>8
    <2>10. w * (-1) * (c - q * s) + c * a + q * s * b <= m
      BY <2>9, LossShort
    <2>11. Targets!LossAt(c, q, s, p, dir) = w * side * (c - q * s) + c * a + q * s * b
      BY <1>3, <1>4, <1>5, <1>14 DEF Targets!LossAt
    <2> QED
      BY <1>1, <1>2, <1>8, <1>9, <1>10, <1>12, <2>1, <2>7, <2>10, <2>11
  <1> QED
    BY <1>13, <1>17, <1>18

\* The planned prices, as a set of numbers.
LEMMA PricesForm ==
  ASSUME NEW ls, IsFiniteSet(DOMAIN ls), DOMAIN ls # {},
         \A i \in DOMAIN ls : ls[i].price \in Nat
  PROVE  /\ Targets!Prices(ls) \in SUBSET Nat /\ Targets!Prices(ls) # {}
         /\ IsFiniteSet(Targets!Prices(ls))
         /\ \A i \in DOMAIN ls : ls[i].price \in Targets!Prices(ls)
         /\ \A n \in Targets!Prices(ls) : \E i \in DOMAIN ls : n = ls[i].price
  <1>1. PICK S : S = {ls[i].price : i \in DOMAIN ls}
    OBVIOUS
  <1>2. PICK at : at = [i \in DOMAIN ls |-> ls[i].price]
    OBVIOUS
  <1>3. at \in Surjection(DOMAIN ls, S)
    BY <1>1, <1>2 DEF Surjection
  <1>4. IsFiniteSet(S)
    BY <1>3, FS_Surjection
  <1> QED
    BY <1>1, <1>4 DEF Targets!Prices

\* A stop beyond the entry price nearest to it is beyond them all.
LEMMA BoundaryForm ==
  ASSUME NEW ls, IsFiniteSet(DOMAIN ls), DOMAIN ls # {},
         \A i \in DOMAIN ls : ls[i].price \in Nat,
         NEW dir \in {"LONG", "SHORT"}
  PROVE  /\ Targets!Boundary(ls, dir) \in Int
         /\ \A stop \in Int, price \in Targets!Prices(ls) :
              Targets!Beyond(stop, Targets!Boundary(ls, dir), 1, dir)
                => Targets!Beyond(stop, price, 1, dir)
  <1>1. PICK S : S = Targets!Prices(ls)
    OBVIOUS
  <1>2. S \in SUBSET Nat /\ S # {} /\ IsFiniteSet(S)
    BY <1>1, PricesForm
  <1>3. CASE dir = "LONG"
    <2>1. PICK b \in S : b = Targets!Min(S) /\ \A n \in S : b <= n
      BY <1>2, ExtremeForm
    <2>2. \A stop \in Int, n \in S : b - 1 * stop > 0 => n - 1 * stop > 0
      BY <1>2, <2>1
    <2>3. \A stop \in Int, n \in S : 1 * (b - 1 * stop) > 0 => 1 * (n - 1 * stop) > 0
      BY <1>2, <2>2
    <2> QED
      BY <1>1, <1>2, <1>3, <2>1, <2>3 DEF Targets!Boundary, Targets!Beyond, Targets!Side
  <1>4. CASE dir = "SHORT"
    <2>1. PICK b \in S : b = Targets!Max(S) /\ \A n \in S : n <= b
      BY <1>2, ExtremeForm
    <2>2. \A stop \in Int, n \in S : (-1) * (b - 1 * stop) > 0 => (-1) * (n - 1 * stop) > 0
      BY <1>2, <2>1
    <2> QED
      BY <1>1, <1>2, <1>4, <2>1, <2>2 DEF Targets!Boundary, Targets!Beyond, Targets!Side
  <1> QED
    BY <1>3, <1>4

-----------------------------------------------------------------------------
(* The invariant: what the two theorems say of the recorded fills, and the *)
(* numbers they are computed from.                                         *)

Unplanned ==
  plan = NoPlan => legs = <<>> /\ estimate = None /\ trades = {} /\ fills = <<>>

Planned ==
  plan # NoPlan =>
    /\ plan \in Requests
    /\ legs = Targets!NormalizedLegs(plan)
    /\ estimate # None => /\ estimate.maximumLoss \in Int
                          /\ estimate.boundary = Targets!Boundary(legs, plan.direction)

Traded ==
  /\ IsFiniteSet(trades)
  /\ \A f \in trades : f.quantity \in Nat \ {0} /\ f.price \in Int
  /\ Targets!Recorded \subseteq trades

TargetsInv ==
  Unplanned /\ Planned /\ Traded /\ Targets!LossWithinBudget /\ Targets!StopClearsEntries

\* Nothing is planned at first, and nothing recorded.
LEMMA TargetsInit == Targets!Init => TargetsInv
  <1> SUFFICES ASSUME Targets!Init
               PROVE  TargetsInv
    OBVIOUS
  <1>1. plan = NoPlan /\ legs = <<>> /\ estimate = None /\ trades = {} /\ fills = <<>>
    BY DEF Targets!Init
  <1>2. Targets!Recorded = {}
    BY <1>1 DEF Targets!Recorded
  <1>3. Traded
    BY <1>1, <1>2, FS_EmptySet DEF Traded
  <1> QED
    BY <1>1, <1>3
    DEF TargetsInv, Unplanned, Planned, Targets!LossWithinBudget, Targets!StopClearsEntries

\* Activating freezes the estimate of the legs it keeps.
LEMMA ActivateVersionStep ==
  ASSUME Targets!TargetsAssumption, Targets!RequestsAssumption, TargetsInv,
         NEW r \in Requests, Targets!ActivateVersion(r)
  PROVE  TargetsInv'
  <1>1. /\ plan = NoPlan /\ ~Targets!HasIssue(r, Targets!NormalizedLegs(r))
        /\ plan' = r /\ legs' = Targets!NormalizedLegs(r)
        /\ estimate' \in Targets!Estimates(r, Targets!NormalizedLegs(r))
        /\ trades' = trades /\ fills' = fills
    BY DEF Targets!ActivateVersion
  <1>2. legs = <<>> /\ trades = {} /\ fills = <<>>
    BY <1>1 DEF TargetsInv, Unplanned
  <1>3. Targets!Recorded' = {}
    BY <1>1, <1>2 DEF Targets!Recorded
  <1>4. Unplanned'
    <2>1. r # NoPlan
      BY RequestForm
    <2> QED
      BY <1>1, <2>1 DEF Unplanned
  <1>5. Planned'
    <2>1. PICK ls : ls = Targets!NormalizedLegs(r)
      OBVIOUS
    <2>2. PICK e : e = estimate'
      OBVIOUS
    <2>3. e # None => e.maximumLoss \in Int /\ e.boundary = Targets!Boundary(ls, r.direction)
      BY <1>1, <2>1, <2>2, EstimateForm
    <2> QED
      BY <1>1, <2>1, <2>2, <2>3 DEF Planned
  <1>6. Traded'
    BY <1>1, <1>2, <1>3, FS_EmptySet DEF Traded
  <1>7. Targets!LossWithinBudget' /\ Targets!StopClearsEntries'
    BY <1>3 DEF Targets!LossWithinBudget, Targets!StopClearsEntries
  <1> QED
    BY <1>4, <1>5, <1>6, <1>7 DEF TargetsInv

\* A fill the venue reports changes no target until it is recorded.
LEMMA TradeStep ==
  ASSUME Targets!TargetsAssumption, Targets!RequestsAssumption, TargetsInv,
         NEW i \in DOMAIN legs, NEW price \in Targets!TradePrices(i),
         NEW quantity \in 1..Targets!Unfilled(i), Targets!Trade(i, price, quantity)
  PROVE  TargetsInv'
  <1>1. PICK number : trades' = trades \cup {[id |-> number, leg |-> i, price |-> price, quantity |-> quantity]}
    BY DEF Targets!Trade
  <1>2. PICK t : /\ t = [id |-> number, leg |-> i, price |-> price, quantity |-> quantity]
                 /\ trades' = trades \cup {t}
                 /\ plan' = plan /\ legs' = legs /\ estimate' = estimate /\ fills' = fills
    BY <1>1 DEF Targets!Trade
  <1>3. plan # NoPlan
    <2>1. legs # <<>>
      OBVIOUS
    <2> QED
      BY <2>1 DEF TargetsInv, Unplanned
  <1>4. PICK r \in Requests : r = plan
    BY <1>3 DEF TargetsInv, Planned
  <1>5. legs[i].price \in Nat /\ legs[i].quantity \in Nat
    <2>1. PICK ls : ls = Targets!NormalizedLegs(r)
      OBVIOUS
    <2>2. \A j \in DOMAIN ls : ls[j].price \in Nat /\ ls[j].quantity \in Nat
      BY <2>1, RequestForm
    <2>3. legs = ls
      BY <1>3, <1>4, <2>1 DEF TargetsInv, Planned
    <2> QED
      BY <2>2, <2>3
  <1>6. price \in Int
    <2>1. PICK p \in Nat : p = legs[i].price
      BY <1>5
    <2>2. Better \in Nat /\ Slip \in Nat
      BY DEF Targets!TargetsAssumption
    <2>3. \A n \in (p - Slip)..(p + Slip) : n \in Int
      BY <2>2
    <2>4. \A n \in {p - Targets!Side(plan.direction) * k : k \in 0..Better} : n \in Int
      BY <2>2 DEF Targets!Side
    <2> QED
      BY <2>1, <2>3, <2>4 DEF Targets!TradePrices
  <1>7. quantity \in Nat \ {0}
    <2>1. PICK S : S = {f \in trades : f.leg = i}
      OBVIOUS
    <2>2. IsFiniteSet(S)
      BY <2>1, FS_Subset DEF TargetsInv, Traded
    <2>3. Targets!Filled(S) \in Nat
      BY <2>1, <2>2, FilledForm DEF TargetsInv, Traded
    <2>4. PICK m \in Nat : m = Targets!Filled(S)
      BY <2>3
    <2>5. PICK n \in Nat : n = legs[i].quantity
      BY <1>5
    <2>6. Targets!Unfilled(i) = n - m
      BY <2>1, <2>4, <2>5 DEF Targets!Unfilled
    <2>7. n - m \in Int
      OBVIOUS
    <2> QED
      BY <2>6, <2>7
  <1>8. Traded'
    <2>1. IsFiniteSet(trades \cup {t})
      BY FS_AddElement DEF TargetsInv, Traded
    <2>2. t.quantity \in Nat \ {0} /\ t.price \in Int
      BY <1>2, <1>6, <1>7
    <2>3. \A f \in trades \cup {t} : f.quantity \in Nat \ {0} /\ f.price \in Int
      BY <2>2 DEF TargetsInv, Traded
    <2>4. Targets!Recorded' \subseteq trades \cup {t}
      BY <1>2 DEF TargetsInv, Traded, Targets!Recorded
    <2> QED
      BY <1>2, <2>1, <2>3, <2>4 DEF Traded
  <1>9. Unplanned' /\ Planned'
    BY <1>2, <1>3 DEF TargetsInv, Unplanned, Planned
  <1>10. Targets!LossWithinBudget'
    <2>1. Targets!LossWithinBudget
      BY DEF TargetsInv
    <2> QED
      BY <1>2, <2>1 DEF Targets!LossWithinBudget, Targets!Recorded
  <1>11. Targets!StopClearsEntries'
    <2>1. Targets!StopClearsEntries
      BY DEF TargetsInv
    <2> QED
      BY <1>2, <2>1 DEF Targets!StopClearsEntries, Targets!Recorded
  <1> QED
    BY <1>8, <1>9, <1>10, <1>11 DEF TargetsInv

\* Recording a fill gives all of them one new stop, which the conflict check has passed.
LEMMA RecordFillStep ==
  ASSUME Targets!TargetsAssumption, Targets!RequestsAssumption, TargetsInv,
         NEW f \in trades, Targets!RecordFill(f)
  PROVE  TargetsInv'
  <1>1. PICK fs : fs = Targets!Recorded \cup {f}
    OBVIOUS
  <1>2. plan' = plan /\ legs' = legs /\ estimate' = estimate /\ trades' = trades
    BY DEF Targets!RecordFill
  <1>3. /\ IsFiniteSet(fs) /\ fs # {} /\ fs \subseteq trades
        /\ \A g \in fs : g.quantity \in Nat \ {0} /\ g.price \in Int
    <2>1. fs \subseteq trades /\ fs # {}
      BY <1>1 DEF TargetsInv, Traded
    <2> QED
      BY <2>1, FS_Subset DEF TargetsInv, Traded
  <1>4. plan # NoPlan
    BY DEF TargetsInv, Unplanned
  <1>5. PICK r \in Requests : r = plan
    BY <1>4 DEF TargetsInv, Planned
  <1>6. DOMAIN fills' = fs
    <2>1. Targets!Recorded = DOMAIN fills
      BY DEF Targets!Recorded
    <2> QED
      BY <1>1, <2>1 DEF Targets!RecordFill
  <1>7. Targets!Recorded' = fs
    BY <1>6 DEF Targets!Recorded
  <1>8. Unplanned' /\ Planned' /\ Traded'
    BY <1>2, <1>3, <1>4, <1>7 DEF TargetsInv, Unplanned, Planned, Traded
  <1>9. CASE estimate = None
    <2>1. estimate' = None
      BY <1>2, <1>9
    <2> QED
      BY <1>8, <2>1 DEF TargetsInv, Targets!LossWithinBudget, Targets!StopClearsEntries
  <1>10. CASE estimate # None
    <2>1. PICK skew, stop : /\ stop = Targets!AggregateStop(fs, skew)
                            /\ ~Targets!Conflict(fs, stop)
                            /\ \A g \in fs : fills'[g].stop = stop
      <3>1. fs = DOMAIN fills \cup {f}
        BY <1>1 DEF Targets!Recorded
      <3>2. PICK skew : /\ ~Targets!Conflict(fs, Targets!AggregateStop(fs, skew))
                        /\ fills' = [g \in fs |->
                             Targets!AggregateTargets(fs, Targets!AggregateStop(fs, skew))]
        BY <1>10, <3>1 DEF Targets!RecordFill
      <3>3. Targets!AggregateTargets(fs, Targets!AggregateStop(fs, skew)).stop
              = Targets!AggregateStop(fs, skew)
        BY DEF Targets!AggregateTargets
      <3> QED
        BY <3>2, <3>3
    <2>2. estimate.maximumLoss \in Int /\ estimate.boundary = Targets!Boundary(legs, plan.direction)
      BY <1>4, <1>10 DEF TargetsInv, Planned
    <2>3. PICK ls : /\ ls = legs /\ IsFiniteSet(DOMAIN ls) /\ DOMAIN ls # {}
                    /\ \A i \in DOMAIN ls : ls[i].price \in Nat
      BY <1>4, <1>5, RequestForm DEF TargetsInv, Planned
    <2>4. PICK dir \in {"LONG", "SHORT"} : dir = plan.direction
      BY <1>5, RequestForm
    <2>5. /\ estimate.boundary \in Int
          /\ \A s \in Int, price \in Targets!Prices(ls) :
               Targets!Beyond(s, estimate.boundary, 1, dir) => Targets!Beyond(s, price, 1, dir)
      BY <2>2, <2>3, <2>4, BoundaryForm
    <2>6. /\ stop \in Int
          /\ Targets!LossAt(Targets!Cost(fs), Targets!Filled(fs), stop, plan.policy, plan.direction)
               <= estimate.maximumLoss
      BY <1>3, <1>5, <2>1, <2>2, <2>5, TargetLoss
    <2>7. \A s \in {fills'[g].stop : g \in fs} : s = stop
      BY <2>1
    <2>8. Targets!LossWithinBudget'
      <3>1. PICK loss : loss = Targets!LossAt(Targets!Cost(fs), Targets!Filled(fs), stop,
                                              plan.policy, plan.direction)
        OBVIOUS
      <3>2. \A s \in {fills'[g].stop : g \in Targets!Recorded'} :
              Targets!LossAt(Targets!Cost(Targets!Recorded), Targets!Filled(Targets!Recorded), s,
                             plan.policy, plan.direction)' <= estimate.maximumLoss'
        BY <1>2, <1>7, <2>6, <2>7
      <3> QED
        BY <3>2 DEF Targets!LossWithinBudget
    <2>9. Targets!StopClearsEntries'
      <3>1. Targets!Layered(ls) => Targets!Beyond(stop, estimate.boundary, 1, dir)
        BY <2>1, <2>3, <2>4 DEF Targets!Conflict
      <3>2. Targets!Layered(ls) => \A price \in Targets!Prices(ls) : Targets!Beyond(stop, price, 1, dir)
        BY <2>5, <2>6, <3>1
      <3>3. legs' = ls /\ plan'.direction = dir
        BY <1>2, <2>3, <2>4
      <3> QED
        BY <1>7, <2>7, <3>2, <3>3 DEF Targets!StopClearsEntries
    <2> QED
      BY <1>8, <2>8, <2>9 DEF TargetsInv
  <1> QED
    BY <1>9, <1>10

\* The invariant holds in every state of the targets, whatever the rates, the bounds and
\* the requests a validator lets through.
THEOREM TargetsInvariance ==
  ASSUME Targets!TargetsAssumption, Targets!RequestsAssumption
  PROVE  Targets!Spec => []TargetsInv
  <1>1. TargetsInv /\ [Targets!Next]_(Targets!vars) => TargetsInv'
    <2> SUFFICES ASSUME TargetsInv, [Targets!Next]_(Targets!vars)
                 PROVE  TargetsInv'
      OBVIOUS
    <2>1. ASSUME NEW r \in Requests, Targets!ActivateVersion(r)
          PROVE  TargetsInv'
      BY <2>1, ActivateVersionStep
    <2>2. ASSUME NEW i \in DOMAIN legs, NEW price \in Targets!TradePrices(i),
                 NEW quantity \in 1..Targets!Unfilled(i), Targets!Trade(i, price, quantity)
          PROVE  TargetsInv'
      BY <2>2, TradeStep
    <2>3. ASSUME NEW f \in trades, Targets!RecordFill(f)
          PROVE  TargetsInv'
      BY <2>3, RecordFillStep
    <2>4. CASE UNCHANGED Targets!vars
      <3>1. /\ plan' = plan /\ legs' = legs /\ estimate' = estimate
            /\ trades' = trades /\ fills' = fills
        BY <2>4 DEF Targets!vars
      <3>2. Unplanned' /\ Planned' /\ Traded'
        BY <3>1 DEF TargetsInv, Unplanned, Planned, Traded, Targets!Recorded
      <3>3. Targets!LossWithinBudget'
        BY <3>1 DEF TargetsInv, Targets!LossWithinBudget, Targets!Recorded
      <3>4. Targets!StopClearsEntries'
        BY <3>1 DEF TargetsInv, Targets!StopClearsEntries, Targets!Recorded
      <3> QED
        BY <3>2, <3>3, <3>4 DEF TargetsInv
    <2> QED
      BY <2>1, <2>2, <2>3, <2>4 DEF Targets!Next
  <1>2. Targets!Init => TargetsInv
    BY TargetsInit
  <1> QED
    BY <1>1, <1>2, PTL DEF Targets!Spec

\* LossWithinBudget: however the planned orders fill, in part, at better prices and in any
\* order, stopping what is recorded at its shared target loses no more, with both fees,
\* than the loss confirmed at activation (_aggregate_direct_protection_targets).
THEOREM LossCapped ==
  ASSUME Targets!TargetsAssumption, Targets!RequestsAssumption
  PROVE  Targets!Spec => []Targets!LossWithinBudget
  <1>1. TargetsInv => Targets!LossWithinBudget
    BY DEF TargetsInv
  <1> QED
    BY <1>1, TargetsInvariance, PTL

\* StopClearsEntries: in a plan with several entry prices the shared stop lies beyond every
\* one of them (_compile_full_fill_protection_estimate, _aggregate_direct_protection_targets).
THEOREM EntriesCleared ==
  ASSUME Targets!TargetsAssumption, Targets!RequestsAssumption
  PROVE  Targets!Spec => []Targets!StopClearsEntries
  <1>1. TargetsInv => Targets!StopClearsEntries
    BY DEF TargetsInv
  <1> QED
    BY <1>1, TargetsInvariance, PTL

-----------------------------------------------------------------------------
(***************************************************************************)
(* The take-profits of one fill.  The steps the rounding leaves over are   *)
(* served in a strict order, largest remainders first, and are fewer than  *)
(* the levels that lost something; so as many levels get a step as there   *)
(* are steps left.                                                         *)
(***************************************************************************)

\* The fold of a sequence takes its last term first; the sum is the same.
LEMMA SumSeqForm ==
  ASSUME NEW s \in Seq(Int)
  PROVE  Targets!SumSeq(s) = Sum(s, DOMAIN s)
  <1> DEFINE D == DOMAIN s
             I(h) == h = [T \in SUBSET D |-> IF T = {} THEN 0
                                             ELSE h[T \ {Targets!Max(T)}] + s[Targets!Max(T)]]
  <1>1. Targets!SumSeq(s) = (CHOOSE h : I(h))[D]
    BY DEF Targets!SumSeq, Targets!FoldLeft, Targets!MapThenFoldSet
  <1>2. /\ D \in SUBSET Nat /\ IsFiniteSet(D)
        /\ \A x \in D : s[x] \in Int
    <2>1. D = 1..Len(s) /\ Len(s) \in Nat
      OBVIOUS
    <2>2. IsFiniteSet(1..Len(s))
      BY <2>1, FS_Interval
    <2> QED
      BY <2>1, <2>2
  <1> HIDE DEF D
  <1>3. \A T \in SUBSET D : IsFiniteSet(T) /\ Cardinality(T) \in Nat
    BY <1>2, FS_Subset, FS_CardinalityType
  <1>4. \A T \in SUBSET D : T # {} => Targets!Max(T) \in T
    <2> SUFFICES ASSUME NEW T \in SUBSET D, T # {}
                 PROVE  Targets!Max(T) \in T
      OBVIOUS
    <2>1. T \in SUBSET Nat /\ IsFiniteSet(T)
      BY <1>2, <1>3
    <2> QED
      BY <2>1, ExtremeForm
  <1>5. ASSUME NEW T \in SUBSET D, T # {}
        PROVE  /\ Sum(s, T) = Sum(s, T \ {Targets!Max(T)}) + s[Targets!Max(T)]
               /\ T \ {Targets!Max(T)} \in SUBSET D
               /\ Cardinality(T \ {Targets!Max(T)}) = Cardinality(T) - 1
               /\ Cardinality(T) - 1 \in Nat
    <2>1. PICK o \in T : o = Targets!Max(T)
      BY <1>4, <1>5
    <2>2. IsFiniteSet(T) /\ \A x \in T : s[x] \in Int
      BY <1>2, <1>3
    <2>3. Sum(s, T \ {o}) \in Int /\ Sum(s, T) = s[o] + Sum(s, T \ {o})
      BY <2>2, SumRemove
    <2>4. s[o] \in Int
      BY <2>2
    <2>5. Sum(s, T) = Sum(s, T \ {o}) + s[o]
      BY <2>3, <2>4
    <2>6. Cardinality(T \ {o}) = Cardinality(T) - 1 /\ Cardinality(T) \in Nat \ {0}
      BY <2>2, LessForm
    <2>7. Cardinality(T) - 1 \in Nat
      BY <2>6
    <2> QED
      BY <2>1, <2>5, <2>6, <2>7
  <1>6. I([T \in SUBSET D |-> Sum(s, T)])
    <2>1. Sum(s, {}) = 0
      BY FS_EmptySet, SumForm
    <2> QED
      BY <1>5, <2>1
  <1>7. PICK h : h = CHOOSE g : I(g)
    OBVIOUS
  <1>8. I(h)
    <2> HIDE DEF I
    <2> QED
      BY <1>6, <1>7
  <1> DEFINE B == {n \in Nat : \E T \in SUBSET D : Cardinality(T) = n /\ h[T] # Sum(s, T)}
  <1>9. B = {}
    <2> SUFFICES ASSUME B # {} PROVE FALSE
      OBVIOUS
    <2>1. PICK n \in B : \A m \in B : n <= m
      <3>1. B \in SUBSET Nat
        OBVIOUS
      <3> HIDE DEF B
      <3> QED
        BY <3>1, LeastForm
    <2>2. PICK T \in SUBSET D : Cardinality(T) = n /\ h[T] # Sum(s, T)
      OBVIOUS
    <2>3. h[T] = IF T = {} THEN 0 ELSE h[T \ {Targets!Max(T)}] + s[Targets!Max(T)]
      BY <1>8
    <2>4. T # {}
      <3>1. Sum(s, {}) = 0
        BY FS_EmptySet, SumForm
      <3> QED
        BY <2>2, <2>3, <3>1
    <2>5. PICK R \in SUBSET D : /\ R = T \ {Targets!Max(T)}
                                /\ Cardinality(R) = n - 1 /\ n - 1 \in Nat
                                /\ Sum(s, T) = Sum(s, R) + s[Targets!Max(T)]
      BY <1>5, <2>2, <2>4
    <2>6. h[R] = Sum(s, R)
      <3>1. n - 1 \notin B
        <4>1. n \in Nat
          OBVIOUS
        <4> HIDE DEF B
        <4> QED
          BY <2>1, <4>1
      <3> QED
        BY <2>5, <3>1
    <2> QED
      BY <2>2, <2>3, <2>4, <2>5, <2>6
  <1>10. h[D] = Sum(s, D)
    BY <1>3, <1>9
  <1> QED
    BY <1>1, <1>7, <1>10 DEF D

\* A sum of sums, and of multiples.
LEMMA SumAdd ==
  ASSUME NEW S, IsFiniteSet(S), NEW f, NEW g, NEW k,
         \A x \in S : f[x] \in Int /\ g[x] \in Int /\ k[x] = f[x] + g[x]
  PROVE  Sum(k, S) = Sum(f, S) + Sum(g, S)
  <1>1. \A x \in S : f[x] \in Int /\ g[x] \in Int /\ k[x] \in Int
    OBVIOUS
  <1>2. \A T \in SUBSET S :
          /\ Sum(f, T) \in Int /\ Sum(g, T) \in Int
          /\ T = {} => Sum(f, T) = 0 /\ Sum(g, T) = 0
          /\ T # {} => /\ Sum(f, T) = f[AnyOf(T)] + Sum(f, T \ {AnyOf(T)})
                       /\ Sum(g, T) = g[AnyOf(T)] + Sum(g, T \ {AnyOf(T)})
                       /\ AnyOf(T) \in S
    BY <1>1, FS_Subset, SumForm, AnyForm
  <1> DEFINE h == [T \in SUBSET S |-> Sum(f, T) + Sum(g, T)]
  <1>3. Folds(k, SUBSET S, h)
    <2>1. ASSUME NEW T \in SUBSET S
          PROVE  h[T] = IF T = {} THEN 0 ELSE k[AnyOf(T)] + h[T \ {AnyOf(T)}]
      <3>1. CASE T = {}
        <4>1. Sum(f, T) = 0 /\ Sum(g, T) = 0
          BY <1>2, <3>1
        <4>2. h[T] = 0 + 0
          BY <4>1
        <4> QED
          BY <3>1, <4>2
      <3>2. CASE T # {}
        <4> DEFINE a == AnyOf(T)
                   R == T \ {a}
        <4>1. /\ R \in SUBSET S /\ a \in S
              /\ Sum(f, T) = f[a] + Sum(f, R) /\ Sum(g, T) = g[a] + Sum(g, R)
              /\ Sum(f, R) \in Int /\ Sum(g, R) \in Int
          BY <1>2, <3>2
        <4>2. h[T] = Sum(f, T) + Sum(g, T) /\ h[R] = Sum(f, R) + Sum(g, R)
          BY <4>1
        <4>3. k[a] = f[a] + g[a] /\ f[a] \in Int /\ g[a] \in Int
          BY <4>1
        <4> HIDE DEF h, a, R
        <4>4. h[T] = k[a] + h[R]
          BY <4>1, <4>2, <4>3
        <4> QED
          BY <3>2, <4>4 DEF a, R
      <3> QED
        BY <3>1, <3>2
    <2>2. h = [T \in SUBSET S |-> h[T]]
      OBVIOUS
    <2> HIDE DEF h
    <2> QED
      BY <2>1, <2>2 DEF Folds
  <1>4. h[S] = Sum(f, S) + Sum(g, S)
    OBVIOUS
  <1> HIDE DEF h
  <1> QED
    BY <1>1, <1>3, <1>4, FoldIsSum

LEMMA SumScale ==
  ASSUME NEW S, IsFiniteSet(S), NEW f, NEW n \in Int, NEW k,
         \A x \in S : f[x] \in Int /\ k[x] = n * f[x]
  PROVE  Sum(k, S) = n * Sum(f, S)
  <1>1. \A x \in S : f[x] \in Int /\ k[x] \in Int
    OBVIOUS
  <1>2. \A T \in SUBSET S :
          /\ Sum(f, T) \in Int
          /\ T = {} => Sum(f, T) = 0
          /\ T # {} => Sum(f, T) = f[AnyOf(T)] + Sum(f, T \ {AnyOf(T)}) /\ AnyOf(T) \in S
    BY <1>1, FS_Subset, SumForm, AnyForm
  <1> DEFINE h == [T \in SUBSET S |-> n * Sum(f, T)]
  <1>3. Folds(k, SUBSET S, h)
    <2>1. ASSUME NEW T \in SUBSET S
          PROVE  h[T] = IF T = {} THEN 0 ELSE k[AnyOf(T)] + h[T \ {AnyOf(T)}]
      <3>1. CASE T = {}
        <4>1. h[T] = n * 0
          BY <1>2, <3>1
        <4> QED
          BY <3>1, <4>1
      <3>2. CASE T # {}
        <4> DEFINE a == AnyOf(T)
                   R == T \ {a}
        <4>1. /\ R \in SUBSET S /\ a \in S
              /\ Sum(f, T) = f[a] + Sum(f, R) /\ Sum(f, R) \in Int
          BY <1>2, <3>2
        <4>2. h[T] = n * Sum(f, T) /\ h[R] = n * Sum(f, R)
          BY <4>1
        <4>3. k[a] = n * f[a] /\ f[a] \in Int
          BY <4>1
        <4> HIDE DEF h, a, R
        <4>4. PICK v \in Int : v = Sum(f, R)
          BY <4>1
        <4>5. PICK u \in Int : u = f[a]
          BY <4>3
        <4>6. n * (u + v) = n * u + n * v
          OBVIOUS
        <4>7. h[T] = k[a] + h[R]
          BY <4>1, <4>2, <4>3, <4>4, <4>5, <4>6
        <4> QED
          BY <3>2, <4>7 DEF a, R
      <3> QED
        BY <3>1, <3>2
    <2>2. h = [T \in SUBSET S |-> h[T]]
      OBVIOUS
    <2> HIDE DEF h
    <2> QED
      BY <2>1, <2>2 DEF Folds
  <1>4. h[S] = n * Sum(f, S)
    OBVIOUS
  <1> HIDE DEF h
  <1> QED
    BY <1>1, <1>3, <1>4, FoldIsSum

\* Counting is summing ones.
LEMMA SumCount ==
  ASSUME NEW S, IsFiniteSet(S), NEW A, NEW k,
         \A x \in S : k[x] = IF x \in A THEN 1 ELSE 0
  PROVE  Sum(k, S) = Cardinality(S \cap A)
  <1> DEFINE h == [T \in SUBSET S |-> Cardinality(T \cap A)]
  <1>1. \A x \in S : k[x] \in Int
    OBVIOUS
  <1>2. ASSUME NEW T \in SUBSET S
        PROVE  h[T] = IF T = {} THEN 0 ELSE k[AnyOf(T)] + h[T \ {AnyOf(T)}]
    <2>1. CASE T = {}
      BY <2>1, FS_EmptySet
    <2>2. CASE T # {}
      <3> DEFINE a == AnyOf(T)
                 R == T \ {a}
      <3>1. R \in SUBSET S /\ a \in S /\ a \in T
        BY <2>2, AnyForm
      <3>2. h[T] = Cardinality(T \cap A) /\ h[R] = Cardinality(R \cap A)
        BY <3>1
      <3>3. IsFiniteSet(T \cap A)
        BY FS_Subset
      <3>4. k[a] = IF a \in A THEN 1 ELSE 0
        BY <3>1
      <3> HIDE DEF h, a
      <3>5. CASE a \in A
        <4>1. a \in T \cap A /\ R \cap A = (T \cap A) \ {a}
          BY <3>1, <3>5
        <4>2. /\ Cardinality(T \cap A) \in Nat \ {0}
              /\ Cardinality((T \cap A) \ {a}) = Cardinality(T \cap A) - 1
          BY <3>3, <4>1, LessForm
        <4>3. PICK n \in Nat \ {0} : n = Cardinality(T \cap A)
          BY <4>2
        <4>4. h[T] = n /\ h[R] = n - 1 /\ k[a] = 1
          BY <3>2, <3>4, <3>5, <4>1, <4>2, <4>3
        <4>5. h[T] = k[a] + h[R]
          BY <4>4
        <4> QED
          BY <2>2, <4>5 DEF a
      <3>6. CASE a \notin A
        <4>1. R \cap A = T \cap A
          BY <3>1, <3>6
        <4>2. Cardinality(T \cap A) \in Nat
          BY <3>3, FS_CardinalityType
        <4>3. PICK n \in Nat : n = Cardinality(T \cap A)
          BY <4>2
        <4>4. h[T] = n /\ h[R] = n /\ k[a] = 0
          BY <3>2, <3>4, <3>6, <4>1, <4>3
        <4>5. h[T] = k[a] + h[R]
          BY <4>4
        <4> QED
          BY <2>2, <4>5 DEF a
      <3> QED
        BY <3>5, <3>6
    <2> QED
      BY <2>1, <2>2
  <1>3. h = [T \in SUBSET S |-> h[T]] /\ h[S] = Cardinality(S \cap A)
    OBVIOUS
  <1> HIDE DEF h
  <1>4. Folds(k, SUBSET S, h)
    BY <1>2, <1>3 DEF Folds
  <1> QED
    BY <1>1, <1>3, <1>4, FoldIsSum

\* In a strict order of m things, k of them have fewer than k before them (k <= m).
LEMMA RankForm ==
  ASSUME NEW S, IsFiniteSet(S), NEW before,
         \A x \in S : before[x] \in SUBSET S /\ x \notin before[x],
         \A x, y, z \in S : x \in before[y] /\ y \in before[z] => x \in before[z],
         \A x, y \in S : x # y => x \in before[y] \/ y \in before[x],
         NEW rank, \A x \in S : rank[x] = Cardinality(before[x]),
         NEW k \in Nat, k <= Cardinality(S),
         NEW A \in SUBSET S, \A x \in S : x \in A <=> rank[x] < k
  PROVE  Cardinality(A) = k
  <1> DEFINE m == Cardinality(S)
             place == [x \in S |-> rank[x]]
  <1>1. m \in Nat /\ \A x \in S : IsFiniteSet(before[x]) /\ Cardinality(before[x]) \in Nat
    BY FS_Subset, FS_CardinalityType
  <1>2. ASSUME NEW x \in S
        PROVE  rank[x] \in 0..(m - 1)
    <2>1. before[x] \in SUBSET (S \ {x})
      OBVIOUS
    <2>2. IsFiniteSet(S \ {x}) /\ Cardinality(S \ {x}) = m - 1
      BY LessForm
    <2>3. Cardinality(before[x]) <= Cardinality(S \ {x})
      BY <2>1, <2>2, FS_Subset
    <2> HIDE DEF m
    <2> QED
      BY <1>1, <2>2, <2>3
  <1>3. ASSUME NEW x \in S, NEW y \in S, x \in before[y]
        PROVE  rank[x] < rank[y]
    <2>1. before[x] \in SUBSET (before[y] \ {x})
      BY <1>3
    <2>2. /\ IsFiniteSet(before[y] \ {x})
          /\ Cardinality(before[y] \ {x}) = Cardinality(before[y]) - 1
      BY <1>1, <1>3, LessForm
    <2>3. Cardinality(before[x]) <= Cardinality(before[y] \ {x})
      BY <2>1, <2>2, FS_Subset
    <2>4. PICK a \in Nat : a = rank[x] /\ a = Cardinality(before[x])
      BY <1>1
    <2>5. PICK b \in Nat : b = rank[y] /\ b = Cardinality(before[y])
      BY <1>1
    <2>6. a <= b - 1
      BY <2>2, <2>3, <2>4, <2>5
    <2> QED
      BY <2>4, <2>5, <2>6
  <1>4. \A x, y \in S : rank[x] = rank[y] => x = y
    <2>1. ASSUME NEW x \in S, NEW y \in S, rank[x] = rank[y], x # y
          PROVE  FALSE
      <3>1. rank[x] \in Int /\ rank[y] \in Int
        BY <1>1, <1>2
      <3>2. rank[x] < rank[y] \/ rank[y] < rank[x]
        BY <1>3, <2>1
      <3> QED
        BY <2>1, <3>1, <3>2
    <2> QED
      BY <2>1
  <1>5. place \in Injection(S, 0..(m - 1))
    BY <1>2, <1>4 DEF Injection, IsInjective
  <1>6. IsFiniteSet(0..(m - 1)) /\ Cardinality(0..(m - 1)) = m
    <2>1. \A n \in Nat : n - 1 \in Int /\ (IF 0 > n - 1 THEN 0 ELSE (n - 1) - 0 + 1) = n
      OBVIOUS
    <2> HIDE DEF m
    <2> QED
      BY <1>1, <2>1, FS_Interval
  <1>7. place \in Surjection(S, 0..(m - 1))
    <2> HIDE DEF place
    <2> QED
      BY <1>5, <1>6, FS_Injection
  <1> DEFINE first == [x \in A |-> rank[x]]
  <1>8. \A x \in A : rank[x] \in 0..(k - 1)
    <2> HIDE DEF m
    <2> QED
      BY <1>1, <1>2
  <1>9. \A n \in 0..(k - 1) : \E x \in A : rank[x] = n
    <2> SUFFICES ASSUME NEW n \in 0..(k - 1)
                 PROVE  \E x \in A : rank[x] = n
      OBVIOUS
    <2>1. n \in 0..(m - 1)
      <3>1. k <= m
        OBVIOUS
      <3> HIDE DEF m
      <3> QED
        BY <1>1, <3>1
    <2>2. PICK x \in S : place[x] = n
      <3> HIDE DEF place
      <3> QED
        BY <1>7, <2>1 DEF Surjection
    <2>3. rank[x] = n /\ n < k
      BY <2>2
    <2> QED
      BY <2>3
  <1>10. first \in Injection(A, 0..(k - 1)) /\ first \in Surjection(A, 0..(k - 1))
    <2>1. first \in [A -> 0..(k - 1)]
      BY <1>8
    <2>2. first \in Injection(A, 0..(k - 1))
      BY <1>4, <2>1 DEF Injection, IsInjective
    <2>3. first \in Surjection(A, 0..(k - 1))
      BY <1>9, <2>1 DEF Surjection
    <2> QED
      BY <2>2, <2>3
  <1>11. IsFiniteSet(0..(k - 1)) /\ Cardinality(0..(k - 1)) = k
    <2>1. \A n \in Nat : n - 1 \in Int /\ (IF 0 > n - 1 THEN 0 ELSE (n - 1) - 0 + 1) = n
      OBVIOUS
    <2> QED
      BY <2>1, FS_Interval
  <1> HIDE DEF first
  <1> QED
    BY <1>10, <1>11, FS_Injection

\* The instance counts as FiniteSets does.
LEMMA SizeForm ==
  ASSUME NEW S
  PROVE  Targets!Cardinality(S) = Cardinality(S)
  BY DEF Targets!Cardinality, Cardinality

\* A sum of shares is ten times the sum of their whole tenths and the sum of what is left.
LEMMA TenthsForm ==
  ASSUME NEW D, IsFiniteSet(D), NEW share, NEW floor, NEW rest,
         \A i \in D : /\ share[i] \in Int /\ floor[i] \in Int /\ rest[i] \in Int
                      /\ share[i] = 10 * floor[i] + rest[i]
  PROVE  Sum(share, D) = 10 * Sum(floor, D) + Sum(rest, D)
  <1>1. PICK tens : tens = [i \in D |-> 10 * floor[i]]
    OBVIOUS
  <1>2. \A i \in D : tens[i] = 10 * floor[i] /\ tens[i] \in Int
    BY <1>1
  <1>3. \A i \in D : share[i] = tens[i] + rest[i]
    BY <1>2
  <1>4. Sum(tens, D) = 10 * Sum(floor, D)
    BY <1>2, SumScale
  <1>5. Sum(share, D) = Sum(tens, D) + Sum(rest, D)
    BY <1>2, <1>3, SumAdd
  <1> QED
    BY <1>4, <1>5

\* What single digits add up to is at most nine times as many as are not zero.
LEMMA DigitsForm ==
  ASSUME NEW D, IsFiniteSet(D), NEW rest, \A i \in D : rest[i] \in 0..9,
         NEW Lossy \in SUBSET D, \A i \in D : rest[i] > 0 => i \in Lossy
  PROVE  Sum(rest, D) <= 9 * Cardinality(Lossy)
  <1>1. PICK one : one = [i \in D |-> IF i \in Lossy THEN 1 ELSE 0]
    OBVIOUS
  <1>2. PICK nine : nine = [i \in D |-> 9 * one[i]]
    OBVIOUS
  <1>3. /\ \A i \in D : one[i] = IF i \in Lossy THEN 1 ELSE 0
        /\ \A i \in D : one[i] \in Int
    BY <1>1
  <1>4. \A i \in D : nine[i] = 9 * one[i] /\ nine[i] \in Int
    BY <1>2, <1>3
  <1>5. \A i \in D : rest[i] \in Int /\ rest[i] <= nine[i]
    BY <1>3, <1>4
  <1>6. Sum(one, D) = Cardinality(Lossy)
    <2>1. D \cap Lossy = Lossy
      OBVIOUS
    <2>2. Sum(one, D) = Cardinality(D \cap Lossy)
      BY <1>3, SumCount
    <2> QED
      BY <2>1, <2>2
  <1>7. Sum(nine, D) = 9 * Sum(one, D)
    <2>1. PICK k \in Int : k = 9
      OBVIOUS
    <2>2. \A i \in D : one[i] \in Int /\ nine[i] = k * one[i]
      BY <1>3, <1>4, <2>1
    <2>3. Sum(nine, D) = k * Sum(one, D)
      BY <2>2, SumScale
    <2> QED
      BY <2>1, <2>3
  <1>8. Sum(rest, D) <= Sum(nine, D)
    BY <1>4, <1>5, SumMono
  <1> QED
    BY <1>6, <1>7, <1>8

\* The largest remainders: the levels get the whole steps of their common share, each
\* less than one step away from its own.
LEMMA AllocateForm ==
  ASSUME NEW levels \in Seq([r : Nat, fraction : Nat \ {0}]), NEW n \in Nat
  PROVE  /\ Targets!SumSeq(Targets!Allocate(n, levels)) = Targets!TargetSteps(n, levels)
         /\ \A i \in DOMAIN levels :
              /\ 10 * Targets!Allocate(n, levels)[i] > n * levels[i].fraction - 10
              /\ 10 * Targets!Allocate(n, levels)[i] < n * levels[i].fraction + 10
         /\ Targets!SumSeq([i \in DOMAIN levels |-> levels[i].fraction]) <= 10
              => Targets!TargetSteps(n, levels) <= n
  <1> DEFINE D == DOMAIN levels
             m == Len(levels)
             part == [i \in D |-> levels[i].fraction]
             share == [i \in D |-> n * levels[i].fraction]
             floor == [i \in D |-> Targets!FloorSteps(n, levels, i)]
             rest == [i \in D |-> Targets!Remainder(n, levels, i)]
  <1>1. D = 1..m /\ m \in Nat /\ IsFiniteSet(D) /\ Cardinality(D) = m
    <2>1. D = 1..m /\ m \in Nat
      OBVIOUS
    <2>2. IsFiniteSet(1..m) /\ Cardinality(1..m) = m
      <3>1. \A k \in Nat : (IF 1 > k THEN 0 ELSE k - 1 + 1) = k
        OBVIOUS
      <3> HIDE DEF m
      <3> QED
        BY <2>1, <3>1, FS_Interval
    <2> QED
      BY <2>1, <2>2
  <1>2. \A i \in D : levels[i].fraction \in Nat \ {0}
    <2>1. PICK L : L = [r : Nat, fraction : Nat \ {0}]
      OBVIOUS
    <2>2. levels \in Seq(L)
      BY <2>1
    <2>3. \A i \in DOMAIN levels : levels[i] \in L
      BY <2>2
    <2> QED
      BY <2>1, <2>3
  <1>3. \A i \in D : /\ part[i] = levels[i].fraction /\ part[i] \in Nat
                     /\ floor[i] \in Int /\ rest[i] \in 0..9
                     /\ share[i] \in Nat /\ share[i] = n * part[i]
                     /\ share[i] = 10 * floor[i] + rest[i]
    <2> SUFFICES ASSUME NEW i \in D
                 PROVE  /\ part[i] = levels[i].fraction /\ part[i] \in Nat
                        /\ floor[i] \in Int /\ rest[i] \in 0..9
                        /\ share[i] \in Nat /\ share[i] = n * part[i]
                        /\ share[i] = 10 * floor[i] + rest[i]
      OBVIOUS
    <2>1. PICK p \in Nat : p = levels[i].fraction
      BY <1>2
    <2>2. PICK s \in Nat : s = n * p
      OBVIOUS
    <2>3. part[i] = p /\ share[i] = s
      BY <2>1, <2>2
    <2>4. floor[i] = s \div 10 /\ rest[i] = s % 10
      BY <2>1, <2>2 DEF Targets!FloorSteps, Targets!Remainder, Targets!Down
    <2>5. s \div 10 \in Int /\ s % 10 \in 0..9 /\ s = 10 * (s \div 10) + (s % 10)
      OBVIOUS
    <2> HIDE DEF part, share, floor, rest
    <2> QED
      BY <2>1, <2>2, <2>3, <2>4, <2>5
  <1>4. part \in Seq(Int) /\ floor \in Seq(Int) /\ DOMAIN part = D /\ DOMAIN floor = D
    <2>1. part \in [1..m -> Int] /\ floor \in [1..m -> Int]
      BY <1>1, <1>3
    <2> HIDE DEF part, floor, D
    <2>2. \A h \in [1..m -> Int] : h \in Seq(Int) /\ DOMAIN h = 1..m
      BY <1>1
    <2> QED
      BY <1>1, <2>1, <2>2
  <1>5. Targets!SumSeq(part) = Sum(part, D) /\ Targets!SumSeq(floor) = Sum(floor, D)
    <2> HIDE DEF part, floor, D
    <2> QED
      BY <1>4, SumSeqForm
  <1> DEFINE down == Sum(floor, D)
             steps == Targets!TargetSteps(n, levels)
             left == steps - down
             Lossy == {i \in D : rest[i] > 0}
  <1>6. /\ Sum(part, D) \in Nat /\ Sum(share, D) = n * Sum(part, D)
        /\ steps = Sum(share, D) \div 10
    <2>1. Targets!SumSeq(part) = Sum(part, D)
      BY <1>5
    <2>2. steps = (n * Sum(part, D)) \div 10
      BY <2>1 DEF Targets!TargetSteps, Targets!Down
    <2> HIDE DEF part, share, D, steps
    <2>3. \A i \in D : part[i] \in Nat /\ part[i] \in Int
      BY <1>3
    <2>4. Sum(share, D) = n * Sum(part, D)
      <3>1. PICK S : S = D
        OBVIOUS
      <3>2. PICK f : f = part
        OBVIOUS
      <3>3. PICK k : k = share
        OBVIOUS
      <3>4. IsFiniteSet(S) /\ \A x \in S : f[x] \in Int /\ k[x] = n * f[x]
        BY <1>1, <1>3, <2>3, <3>1, <3>2, <3>3
      <3>5. n \in Int
        OBVIOUS
      <3>6. Sum(k, S) = n * Sum(f, S)
        BY <3>4, <3>5, SumScale
      <3> QED
        BY <3>1, <3>2, <3>3, <3>6
    <2>5. Sum(part, D) \in Nat
      BY <1>1, <2>3, SumNat
    <2> QED
      BY <2>2, <2>4, <2>5
  <1>7. /\ down \in Int /\ steps \in Int /\ left \in Nat /\ left <= Cardinality(Lossy)
        /\ Cardinality(Lossy) \in Nat /\ Cardinality(Lossy) <= m
    <2>1. Lossy \in SUBSET D /\ \A i \in D : i \in Lossy <=> rest[i] > 0
      OBVIOUS
    <2> HIDE DEF Lossy, part, share, floor, rest, D, steps, m
    <2>2. \A i \in D : /\ share[i] \in Nat /\ floor[i] \in Int /\ rest[i] \in 0..9
                       /\ share[i] = 10 * floor[i] + rest[i]
      BY <1>3
    <2>3. IsFiniteSet(D) /\ Cardinality(D) = m
      BY <1>1
    <2>4. /\ Sum(share, D) \in Nat /\ Sum(floor, D) \in Int
          /\ Sum(share, D) \div 10 \in Int
          /\ Sum(share, D) \div 10 - Sum(floor, D) \in Nat
          /\ Sum(share, D) \div 10 - Sum(floor, D) <= Cardinality(Lossy)
          /\ Cardinality(Lossy) \in Nat /\ Cardinality(Lossy) <= Cardinality(D)
      <3>1. PICK S : S = D
        OBVIOUS
      <3>2. PICK a : a = share
        OBVIOUS
      <3>3. PICK b : b = floor
        OBVIOUS
      <3>4. PICK c : c = rest
        OBVIOUS
      <3>5. PICK L : L = Lossy
        OBVIOUS
      <3>6. IsFiniteSet(S) /\ L \in SUBSET S /\ \A i \in S : c[i] > 0 => i \in L
        BY <2>1, <2>3, <3>1, <3>4, <3>5
      <3>7. \A i \in S : /\ a[i] \in Nat /\ b[i] \in Int /\ c[i] \in 0..9
                         /\ a[i] = 10 * b[i] + c[i]
        BY <2>2, <3>1, <3>2, <3>3, <3>4
      <3>8. \A i \in S : c[i] \in Nat /\ c[i] \in Int
        BY <3>7
      <3>9. Sum(a, S) = 10 * Sum(b, S) + Sum(c, S)
        <4>1. \A i \in S : /\ a[i] \in Int /\ b[i] \in Int /\ c[i] \in Int
                           /\ a[i] = 10 * b[i] + c[i]
          BY <3>7, <3>8
        <4> QED
          BY <3>6, <4>1, TenthsForm
      <3>10. Sum(c, S) <= 9 * Cardinality(L)
        BY <3>6, <3>7, DigitsForm
      <3>11. PICK x \in Nat : x = Sum(a, S)
        BY <3>6, <3>7, SumNat
      <3>12. PICK y \in Int : y = Sum(b, S)
        BY <3>6, <3>7, SumForm
      <3>13. PICK z \in Nat : z = Sum(c, S)
        BY <3>6, <3>8, SumNat
      <3>14. PICK k \in Nat : k = Cardinality(L) /\ k <= Cardinality(S)
        BY <3>6, FS_Subset, FS_CardinalityType
      <3>15. x = 10 * y + z /\ z <= 9 * k
        BY <3>9, <3>10, <3>11, <3>12, <3>13, <3>14
      <3>16. x \div 10 \in Int /\ x \div 10 - y \in Nat /\ x \div 10 - y <= k
        BY <3>15
      <3> QED
        BY <3>1, <3>2, <3>3, <3>5, <3>11, <3>12, <3>14, <3>16
    <2> QED
      BY <1>6, <2>3, <2>4
  <1> DEFINE before == [i \in D |-> {j \in D : Targets!ServedBefore(n, levels, j, i)}]
             rank == [i \in D |-> Cardinality(before[i])]
             A == {i \in D : rank[i] < left}
             bonus == [i \in D |-> IF i \in A THEN 1 ELSE 0]
             given == Targets!Allocate(n, levels)
  <1>8. /\ \A i \in D : before[i] \in SUBSET D
        /\ \A i, j \in D : j \in before[i] <=> rest[j] > rest[i] \/ (rest[j] = rest[i] /\ j < i)
    BY DEF Targets!ServedBefore
  <1>9. /\ \A x \in D : x \notin before[x]
        /\ \A x, y, z \in D : x \in before[y] /\ y \in before[z] => x \in before[z]
        /\ \A x, y \in D : x # y => x \in before[y] \/ y \in before[x]
    <2> HIDE DEF before, D, rest
    <2>1. \A x \in D : x \in Int /\ rest[x] \in Int
      <3> HIDE DEF m, part, floor
      <3>1. \A x \in D : x \in Int
        BY <1>1
      <3>2. \A x \in D : rest[x] \in Int
        <4>1. \A x \in D : rest[x] \in 0..9
          BY <1>3
        <4> QED
          BY <4>1
      <3> QED
        BY <3>1, <3>2
    <2>2. ASSUME NEW x \in D, NEW y \in D, NEW z \in D, x \in before[y], y \in before[z]
          PROVE  x \in before[z]
      <3>1. PICK a \in Int : a = rest[x]
        BY <2>1
      <3>2. PICK b \in Int : b = rest[y]
        BY <2>1
      <3>3. PICK c \in Int : c = rest[z]
        BY <2>1
      <3>4. a > b \/ (a = b /\ x < y)
        BY <1>8, <2>2, <3>1, <3>2
      <3>5. b > c \/ (b = c /\ y < z)
        BY <1>8, <2>2, <3>2, <3>3
      <3>6. a > c \/ (a = c /\ x < z)
        BY <2>1, <3>4, <3>5
      <3> QED
        BY <1>8, <3>1, <3>3, <3>6
    <2>3. ASSUME NEW x \in D, NEW y \in D, x # y
          PROVE  x \in before[y] \/ y \in before[x]
      BY <1>8, <2>1, <2>3
    <2>4. ASSUME NEW x \in D
          PROVE  x \notin before[x]
      BY <1>8, <2>1
    <2> QED
      BY <2>2, <2>3, <2>4
  <1>10. Cardinality(A) = left /\ \A i \in D : rank[i] = Cardinality(before[i])
    <2>1. A \in SUBSET D /\ \A i \in D : i \in A <=> rank[i] < left
      OBVIOUS
    <2>2. \A i \in D : rank[i] = Cardinality(before[i])
      OBVIOUS
    <2> HIDE DEF before, rank, left, Lossy, A, D, m
    <2>3. left \in Nat /\ left <= Cardinality(D)
      <3>1. Cardinality(D) = m /\ m \in Nat
        BY <1>1
      <3>2. left \in Nat /\ left <= Cardinality(Lossy) /\ Cardinality(Lossy) \in Nat
            /\ Cardinality(Lossy) <= m
        BY <1>7 DEF left
      <3> QED
        BY <3>1, <3>2
    <2>4. \A x \in D : before[x] \in SUBSET D /\ x \notin before[x]
      BY <1>8, <1>9
    <2>5. /\ \A x, y, z \in D : x \in before[y] /\ y \in before[z] => x \in before[z]
          /\ \A x, y \in D : x # y => x \in before[y] \/ y \in before[x]
      BY <1>9
    <2>6. IsFiniteSet(D)
      BY <1>1
    <2>7. PICK k \in Nat : k = left
      BY <2>3
    <2>8. k <= Cardinality(D) /\ \A i \in D : i \in A <=> rank[i] < k
      BY <2>1, <2>3, <2>7
    <2>9. Cardinality(A) = k
      BY <2>1, <2>2, <2>4, <2>5, <2>6, <2>8, RankForm
    <2> QED
      BY <2>2, <2>7, <2>9
  <1>11. DOMAIN given = D /\ \A i \in D : given[i] = floor[i] + bonus[i]
    <2>1. given = [i \in D |-> Targets!FloorSteps(n, levels, i)
                     + IF Targets!Cardinality({j \in D : Targets!ServedBefore(n, levels, j, i)})
                            < Targets!TargetSteps(n, levels) - Targets!SumSeq(floor)
                       THEN 1 ELSE 0]
      BY DEF Targets!Allocate
    <2>2. Targets!SumSeq(floor) = down
      BY <1>5
    <2>3. ASSUME NEW i \in D
          PROVE  given[i] = floor[i] + bonus[i]
      <3>1. before[i] = {j \in D : Targets!ServedBefore(n, levels, j, i)}
        OBVIOUS
      <3>2. bonus[i] = IF Cardinality(before[i]) < left THEN 1 ELSE 0
        OBVIOUS
      <3> HIDE DEF bonus, before
      <3> QED
        BY <2>1, <2>2, <3>1, <3>2, SizeForm
    <2>4. DOMAIN given = D
      BY <2>1
    <2> QED
      BY <2>3, <2>4
  <1>12. \A i \in D : bonus[i] \in {0, 1} /\ (bonus[i] = IF i \in A THEN 1 ELSE 0)
    OBVIOUS
  <1>13. \A i \in D : i \in A => rank[i] < left
    OBVIOUS
  <1>14. Targets!SumSeq(given) = steps
    <2>1. A \in SUBSET D /\ D \cap A = A
      OBVIOUS
    <2> HIDE DEF given, floor, bonus, D, A, left, m
    <2>2. Sum(bonus, D) = left
      <3>1. IsFiniteSet(D) /\ \A i \in D : bonus[i] = IF i \in A THEN 1 ELSE 0
        BY <1>1, <1>12
      <3>2. Sum(bonus, D) = Cardinality(D \cap A)
        BY <3>1, SumCount
      <3> QED
        BY <1>10, <2>1, <3>2
    <2>3. \A i \in D : floor[i] \in Int /\ bonus[i] \in Int
      BY <1>3, <1>12
    <2>4. given \in Seq(Int)
      <3>1. PICK h : h = [i \in 1..m |-> floor[i] + bonus[i]]
        OBVIOUS
      <3>2. h \in [1..m -> Int]
        BY <1>1, <2>3, <3>1
      <3>3. h \in Seq(Int)
        BY <1>1, <3>2
      <3>4. given = h
        BY <1>1, <1>11, <3>1, <3>2 DEF given, Targets!Allocate, D
      <3> QED
        BY <3>3, <3>4
    <2>5. Targets!SumSeq(given) = Sum(given, D)
      BY <1>11, <2>4, SumSeqForm
    <2>6. Sum(given, D) = Sum(floor, D) + Sum(bonus, D)
      BY <1>1, <1>11, <2>3, SumAdd
    <2>7. Sum(given, D) = down + left
      BY <2>2, <2>6
    <2>8. down + (steps - down) = steps
      <3> HIDE DEF down, steps
      <3> QED
        BY <1>7
    <2> QED
      BY <2>5, <2>7, <2>8 DEF left
  <1>15. ASSUME NEW i \in D
         PROVE  /\ 10 * given[i] > n * levels[i].fraction - 10
                /\ 10 * given[i] < n * levels[i].fraction + 10
    <2>1. rest[i] = 0 => bonus[i] = 0
      <3> SUFFICES ASSUME rest[i] = 0
                   PROVE  i \notin A
        BY <1>12
      <3>1. Lossy \in SUBSET before[i]
        <4>1. \A j \in Lossy : j \in D /\ rest[j] > rest[i]
          OBVIOUS
        <4> HIDE DEF Lossy, before, rest, D
        <4> QED
          BY <1>8, <4>1
      <3> HIDE DEF rank, left, Lossy, A, before, D, m
      <3>2. IsFiniteSet(before[i])
        BY <1>1, <1>8, FS_Subset
      <3>3. Cardinality(Lossy) <= Cardinality(before[i]) /\ Cardinality(before[i]) \in Nat
        BY <3>1, <3>2, FS_Subset, FS_CardinalityType
      <3>4. ~(Cardinality(before[i]) < left)
        BY <1>7, <3>3
      <3> QED
        BY <1>10, <1>13, <3>4
    <2>2. given[i] = floor[i] + bonus[i]
      BY <1>11
    <2> HIDE DEF given, floor, bonus, part, share, rest, D
    <2>3. PICK s \in Int : s = n * levels[i].fraction /\ s = share[i]
      <3>1. share[i] \in Nat /\ share[i] = n * part[i] /\ part[i] = levels[i].fraction
        BY <1>3
      <3>2. PICK s \in Nat : s = share[i]
        BY <3>1
      <3>3. s \in Int /\ s = n * levels[i].fraction
        BY <3>1, <3>2
      <3> QED
        BY <3>2, <3>3
    <2>4. PICK d \in Int : d = floor[i]
      BY <1>3
    <2>5. PICK e \in 0..9 : e = rest[i]
      BY <1>3
    <2>6. PICK b \in {0, 1} : b = bonus[i]
      BY <1>12
    <2>7. s = 10 * d + e
      BY <1>3, <2>3, <2>4, <2>5
    <2>8. e = 0 => b = 0
      BY <2>1, <2>5, <2>6
    <2>9. 10 * (d + b) > s - 10 /\ 10 * (d + b) < s + 10
      BY <2>7, <2>8
    <2> QED
      BY <2>2, <2>3, <2>4, <2>6, <2>9
  <1>16. Targets!SumSeq([i \in DOMAIN levels |-> levels[i].fraction]) = Sum(part, D)
    BY <1>5
  <1>17. Targets!SumSeq(Targets!Allocate(n, levels)) = Targets!TargetSteps(n, levels)
    BY <1>14
  <1>18. Sum(part, D) <= 10 => Targets!TargetSteps(n, levels) <= n
    <2>1. PICK a \in Nat : a = Sum(part, D)
      BY <1>6
    <2>2. PICK t \in Nat : t = n * a
      OBVIOUS
    <2>3. steps = t \div 10
      BY <1>6, <2>1, <2>2
    <2>4. a <= 10 => t <= n * 10
      BY <2>2
    <2>5. t <= n * 10 => t \div 10 <= n
      OBVIOUS
    <2> HIDE DEF part
    <2> QED
      BY <2>1, <2>3, <2>4, <2>5
  <1> HIDE DEF part
  <1> QED
    BY <1>15, <1>16, <1>17, <1>18

\* The take-profits of a valid request.
LEMMA LevelsForm ==
  ASSUME Targets!RequestsAssumption, NEW r \in Requests
  PROVE  /\ r.policy.levels \in Seq([r : Nat, fraction : Nat \ {0}])
         /\ Targets!SumSeq([i \in DOMAIN r.policy.levels |-> r.policy.levels[i].fraction]) <= 10
  BY DEF Targets!RequestsAssumption

\* The invariant leaves nothing open that the ladder's arithmetic needs.
LEMMA LadderHolds ==
  ASSUME Targets!RequestsAssumption, TargetsInv
  PROVE  Targets!LadderClosesItsShare
  <1> SUFFICES ASSUME NEW f \in Targets!Recorded
               PROVE  LET levels == plan.policy.levels
                          steps  == Targets!Allocate(f.quantity, levels)
                      IN  /\ Targets!SumSeq(steps) = Targets!TargetSteps(f.quantity, levels)
                          /\ Targets!SumSeq(steps) <= f.quantity
                          /\ \A i \in DOMAIN levels :
                                /\ 10 * steps[i] > f.quantity * levels[i].fraction - 10
                                /\ 10 * steps[i] < f.quantity * levels[i].fraction + 10
    BY DEF Targets!LadderClosesItsShare
  <1>1. f \in trades /\ f.quantity \in Nat
    BY DEF TargetsInv, Traded
  <1>2. plan \in Requests
    BY <1>1 DEF TargetsInv, Unplanned, Planned
  <1>3. PICK r \in Requests : r = plan
    BY <1>2
  <1>4. PICK levels : levels = r.policy.levels
    OBVIOUS
  <1>5. PICK n \in Nat : n = f.quantity
    BY <1>1
  <1>6. /\ levels \in Seq([r : Nat, fraction : Nat \ {0}])
        /\ Targets!SumSeq([i \in DOMAIN levels |-> levels[i].fraction]) <= 10
    BY <1>3, <1>4, LevelsForm
  <1>7. /\ Targets!SumSeq(Targets!Allocate(n, levels)) = Targets!TargetSteps(n, levels)
        /\ \A i \in DOMAIN levels :
             /\ 10 * Targets!Allocate(n, levels)[i] > n * levels[i].fraction - 10
             /\ 10 * Targets!Allocate(n, levels)[i] < n * levels[i].fraction + 10
        /\ Targets!TargetSteps(n, levels) <= n
    BY <1>6, AllocateForm
  <1> QED
    BY <1>3, <1>4, <1>5, <1>7

\* LadderClosesItsShare: whatever a fill's quantity and the ladder's fractions, the
\* take-profits of a recorded fill close the whole steps of the ladder's share of it, never
\* more than the fill, and each level is less than one step away from its own share
\* (_allocate_take_profit_quantities).
THEOREM LaddersClose ==
  ASSUME Targets!TargetsAssumption, Targets!RequestsAssumption
  PROVE  Targets!Spec => []Targets!LadderClosesItsShare
  <1>1. TargetsInv => Targets!LadderClosesItsShare
    BY LadderHolds
  <1> QED
    BY <1>1, TargetsInvariance, PTL

-----------------------------------------------------------------------------
(***************************************************************************)
(* Fills at the planned prices.  At a stop that clears every planned price *)
(* each unit loses, so that a part of the plan loses no more than all of   *)
(* it: the quotient of the frozen loss does not pass the estimate's stop.  *)
(* The invariant adds to the one above the plan as it was activated and    *)
(* that no leg trades more than it is for.                                 *)
(***************************************************************************)

\* A sum over two sets that share nothing.
LEMMA SumUnion ==
  ASSUME NEW S, NEW T, IsFiniteSet(S), IsFiniteSet(T), S \cap T = {},
         NEW w, \A x \in S \cup T : w[x] \in Int
  PROVE  Sum(w, S \cup T) = Sum(w, S) + Sum(w, T)
  <1> DEFINE h == [R \in SUBSET S |-> Sum(w, R \cup T) - Sum(w, T)]
  <1>1. Sum(w, T) \in Int
    BY SumForm
  <1>2. ASSUME NEW R \in SUBSET S
        PROVE  h[R] = IF R = {} THEN 0 ELSE w[AnyOf(R)] + h[R \ {AnyOf(R)}]
    <2>1. CASE R = {}
      <3>1. R \cup T = T
        BY <2>1
      <3>2. h[R] = Sum(w, R \cup T) - Sum(w, T)
        OBVIOUS
      <3> HIDE DEF h
      <3> QED
        BY <1>1, <2>1, <3>1, <3>2
    <2>2. CASE R # {}
      <3> DEFINE a == AnyOf(R)
                 Q == R \ {a}
      <3>1. a \in R /\ Q \in SUBSET S
        BY <2>2, AnyForm
      <3>2. h[R] = Sum(w, R \cup T) - Sum(w, T) /\ h[Q] = Sum(w, Q \cup T) - Sum(w, T)
        BY <3>1
      <3>3. (R \cup T) \ {a} = Q \cup T
        BY <3>1
      <3> HIDE DEF h, a, Q
      <3>4. /\ IsFiniteSet(R \cup T) /\ a \in R \cup T
            /\ \A x \in R \cup T : w[x] \in Int
        BY <3>1, FS_Subset, FS_Union
      <3>5. /\ Sum(w, (R \cup T) \ {a}) \in Int
            /\ Sum(w, R \cup T) = w[a] + Sum(w, (R \cup T) \ {a})
        BY <3>4, SumRemove
      <3>6. PICK s \in Int : s = Sum(w, Q \cup T)
        BY <3>3, <3>5
      <3>7. PICK t \in Int : t = Sum(w, T)
        BY <1>1
      <3>8. PICK b \in Int : b = w[a]
        BY <3>4
      <3>9. h[R] = (b + s) - t /\ h[Q] = s - t
        BY <3>2, <3>3, <3>5, <3>6, <3>7, <3>8
      <3>10. (b + s) - t = b + (s - t)
        OBVIOUS
      <3>11. h[R] = w[a] + h[Q]
        BY <3>8, <3>9, <3>10
      <3> QED
        BY <2>2, <3>11 DEF a, Q
    <2> QED
      BY <2>1, <2>2
  <1>3. h = [R \in SUBSET S |-> h[R]] /\ h[S] = Sum(w, S \cup T) - Sum(w, T)
    OBVIOUS
  <1> HIDE DEF h
  <1>4. Folds(w, SUBSET S, h)
    BY <1>2, <1>3 DEF Folds
  <1>5. h[S] = Sum(w, S)
    BY <1>4, FoldIsSum
  <1>6. Sum(w, S \cup T) \in Int
    BY FS_Union, SumForm
  <1> QED
    BY <1>1, <1>3, <1>5, <1>6

\* group has the members of S of each kind.
Grouped(S, I, kind, group) ==
  /\ \A x \in S : kind[x] \in I
  /\ \A i \in I : group[i] \in SUBSET S /\ \A x \in S : x \in group[i] <=> kind[x] = i

\* A sum over the members of S is the sum of what it is over the members of each kind.
LEMMA SumGroup ==
  ASSUME NEW S, IsFiniteSet(S), NEW I, IsFiniteSet(I),
         NEW kind, NEW group, Grouped(S, I, kind, group),
         NEW w, \A x \in S : w[x] \in Int,
         NEW g, \A i \in I : g[i] = Sum(w, group[i])
  PROVE  Sum(w, S) = Sum(g, I)
  <1>0. /\ \A x \in S : kind[x] \in I
        /\ \A i \in I : group[i] \in SUBSET S
        /\ \A i \in I : \A x \in S : x \in group[i] <=> kind[x] = i
    BY DEF Grouped
  <1> DEFINE Of(T) == {x \in S : kind[x] \in T}
             h == [T \in SUBSET I |-> Sum(w, Of(T))]
  <1>1. \A i \in I : /\ IsFiniteSet(group[i]) /\ g[i] \in Int
    <2> SUFFICES ASSUME NEW i \in I
                 PROVE  IsFiniteSet(group[i]) /\ g[i] \in Int
      OBVIOUS
    <2>1. PICK G : G = group[i] /\ G \in SUBSET S /\ IsFiniteSet(G)
      BY <1>0, FS_Subset
    <2>2. \A x \in G : w[x] \in Int
      BY <2>1
    <2>3. Sum(w, G) \in Int
      BY <2>1, <2>2, SumForm
    <2> QED
      BY <2>1, <2>3
  <1>2. \A T : Of(T) \in SUBSET S /\ IsFiniteSet(Of(T))
    BY FS_Subset
  <1>3. ASSUME NEW T \in SUBSET I
        PROVE  h[T] = IF T = {} THEN 0 ELSE g[AnyOf(T)] + h[T \ {AnyOf(T)}]
    <2>1. CASE T = {}
      <3>1. Of(T) = {} /\ h[T] = Sum(w, Of(T))
        BY <2>1
      <3>2. Sum(w, {}) = 0
        BY FS_EmptySet, SumForm
      <3> QED
        BY <2>1, <3>1, <3>2
    <2>2. CASE T # {}
      <3> DEFINE a == AnyOf(T)
                 R == T \ {a}
      <3>1. a \in T /\ a \in I /\ R \in SUBSET I /\ a \notin R
        BY <2>2, AnyForm
      <3>2. h[T] = Sum(w, Of(T)) /\ h[R] = Sum(w, Of(R))
        BY <3>1
      <3>3. Of(T) = group[a] \cup Of(R) /\ group[a] \cap Of(R) = {}
        <4>1. T = {a} \cup R
          BY <3>1
        <4> HIDE DEF a, R
        <4> QED
          BY <1>0, <3>1, <4>1
      <3>4. PICK P : P = Of(R) /\ P \in SUBSET S /\ IsFiniteSet(P)
        BY <1>2
      <3>5. PICK G : G = group[a] /\ G \in SUBSET S /\ IsFiniteSet(G)
        BY <1>0, <1>1, <3>1
      <3> HIDE DEF h, a, R, Of
      <3>6. G \cap P = {} /\ \A x \in G \cup P : w[x] \in Int
        BY <3>3, <3>4, <3>5
      <3>7. Sum(w, G \cup P) = Sum(w, G) + Sum(w, P)
        BY <3>4, <3>5, <3>6, SumUnion
      <3>8. g[a] = Sum(w, G)
        BY <3>1, <3>5
      <3>9. h[T] = g[a] + h[R]
        BY <3>2, <3>3, <3>4, <3>5, <3>7, <3>8
      <3> QED
        BY <2>2, <3>9 DEF a, R
    <2> QED
      BY <2>1, <2>2
  <1>4. h = [T \in SUBSET I |-> h[T]] /\ h[I] = Sum(w, Of(I)) /\ Of(I) = S
    BY <1>0
  <1> HIDE DEF h, Of
  <1>5. Folds(g, SUBSET I, h)
    BY <1>3, <1>4 DEF Folds
  <1>6. h[I] = Sum(g, I)
    BY <1>1, <1>5, FoldIsSum
  <1> QED
    BY <1>4, <1>6

\* A sum of two multiples.
LEMMA SumLinear ==
  ASSUME NEW S, IsFiniteSet(S), NEW f, NEW g, NEW a \in Int, NEW b \in Int, NEW k,
         \A x \in S : f[x] \in Int /\ g[x] \in Int /\ k[x] = a * f[x] + b * g[x]
  PROVE  Sum(k, S) = a * Sum(f, S) + b * Sum(g, S)
  <1>1. PICK l : l = [x \in S |-> a * f[x]]
    OBVIOUS
  <1>2. PICK r : r = [x \in S |-> b * g[x]]
    OBVIOUS
  <1>3. \A x \in S : f[x] \in Int /\ l[x] = a * f[x]
    BY <1>1
  <1>4. \A x \in S : g[x] \in Int /\ r[x] = b * g[x]
    BY <1>2
  <1>5. ASSUME NEW x \in S
        PROVE  l[x] \in Int /\ r[x] \in Int /\ k[x] = l[x] + r[x]
    <2>1. PICK m \in Int : m = f[x]
      OBVIOUS
    <2>2. PICK n \in Int : n = g[x]
      OBVIOUS
    <2>3. a * m \in Int /\ b * n \in Int
      OBVIOUS
    <2> QED
      BY <1>3, <1>4, <2>1, <2>2, <2>3
  <1>6. Sum(l, S) = a * Sum(f, S)
    BY <1>3, SumScale
  <1>7. Sum(r, S) = b * Sum(g, S)
    BY <1>4, SumScale
  <1>8. Sum(k, S) = Sum(l, S) + Sum(r, S)
    BY <1>5, SumAdd
  <1> QED
    BY <1>6, <1>7, <1>8

\* Fills at planned prices, each leg at most filled, lose no more than the whole plan
\* does, at every stop where no unit gains (a unit at price p is lost for A * p - B).
LEMMA LossOfPart ==
  ASSUME NEW ls, IsFiniteSet(DOMAIN ls),
         \A i \in DOMAIN ls : ls[i].quantity \in Int /\ ls[i].price \in Int,
         NEW S, IsFiniteSet(S),
         \A f \in S : /\ f.quantity \in Nat /\ f.leg \in DOMAIN ls
                      /\ f.price = ls[f.leg].price,
         \A i \in DOMAIN ls : Targets!Filled({f \in S : f.leg = i}) <= ls[i].quantity,
         NEW fs \in SUBSET S,
         NEW A \in Int, NEW B \in Int, \A i \in DOMAIN ls : A * ls[i].price - B \in Nat
  PROVE  A * Targets!Cost(fs) - B * Targets!Filled(fs)
           <= A * Targets!Notional(ls) - B * Targets!Quantity(ls)
  <1>1. PICK I : I = DOMAIN ls
    OBVIOUS
  <1>2. PICK q : q = [f \in S |-> f.quantity]
    OBVIOUS
  <1>3. PICK c : c = [f \in S |-> f.quantity * f.price]
    OBVIOUS
  <1>4. PICK n : n = [i \in I |-> ls[i].quantity]
    OBVIOUS
  <1>5. PICK m : m = [i \in I |-> ls[i].quantity * ls[i].price]
    OBVIOUS
  <1>6. PICK u : u = [i \in I |-> A * ls[i].price - B]
    OBVIOUS
  <1>7. PICK w : w = [f \in S |-> u[f.leg] * q[f]]
    OBVIOUS
  <1>8. PICK v : v = [i \in I |-> u[i] * n[i]]
    OBVIOUS
  <1>9. PICK kind : kind = [f \in S |-> f.leg]
    OBVIOUS
  <1>10. PICK group : group = [i \in I |-> {f \in fs : f.leg = i}]
    OBVIOUS
  <1>11. \A f \in S : f.quantity \in Int /\ f.price \in Int /\ f.leg \in I
    BY <1>1
  <1>12. \A f \in S : /\ q[f] \in Int /\ q[f] = f.quantity /\ q[f] \in Nat
                      /\ c[f] \in Int /\ c[f] = f.quantity * f.price
                      /\ kind[f] = f.leg /\ kind[f] \in I
    BY <1>2, <1>3, <1>9, <1>11
  <1>13. \A i \in I : /\ n[i] \in Int /\ n[i] = ls[i].quantity
                      /\ m[i] \in Int /\ m[i] = ls[i].quantity * ls[i].price
                      /\ u[i] \in Nat /\ u[i] = A * ls[i].price - B
    BY <1>1, <1>4, <1>5, <1>6
  <1>14. ASSUME NEW i \in I
         PROVE  v[i] \in Int /\ v[i] = u[i] * n[i] /\ v[i] = A * m[i] + (-B) * n[i]
    <2>1. PICK p \in Int : p = ls[i].price
      BY <1>1
    <2>2. PICK k \in Int : k = n[i] /\ k = ls[i].quantity
      BY <1>13
    <2>3. u[i] = A * p - B /\ m[i] = k * p
      BY <1>13, <2>1, <2>2
    <2>4. (A * p - B) * k = A * (k * p) + (-B) * k /\ (A * p - B) * k \in Int
      OBVIOUS
    <2>5. v[i] = u[i] * n[i]
      BY <1>8
    <2> QED
      BY <2>2, <2>3, <2>4, <2>5
  <1>15. ASSUME NEW f \in S
         PROVE  w[f] \in Int /\ w[f] = u[kind[f]] * q[f] /\ w[f] = A * c[f] + (-B) * q[f]
    <2>1. PICK p \in Int : p = f.price
      BY <1>11
    <2>2. PICK k \in Int : k = q[f] /\ k = f.quantity
      BY <1>12
    <2>3. u[f.leg] = A * p - B
      BY <1>11, <1>13, <2>1
    <2>4. c[f] = k * p
      BY <1>12, <2>1, <2>2
    <2>5. (A * p - B) * k = A * (k * p) + (-B) * k /\ (A * p - B) * k \in Int
      OBVIOUS
    <2>6. w[f] = u[f.leg] * q[f] /\ kind[f] = f.leg
      BY <1>7, <1>12
    <2> QED
      BY <2>2, <2>3, <2>4, <2>5, <2>6
  <1>16. IsFiniteSet(fs) /\ IsFiniteSet(I)
    BY <1>1, FS_Subset
  <1>17. \A i \in I : /\ group[i] \in SUBSET fs
                      /\ \A f \in fs : f \in group[i] <=> kind[f] = i
    BY <1>10, <1>12
  <1>18. ASSUME NEW i \in I
         PROVE  Sum(q, group[i]) <= n[i]
    <2>1. PICK all : all = {f \in S : f.leg = i} /\ all \in SUBSET S
      OBVIOUS
    <2>2. PICK G : G = group[i]
      OBVIOUS
    <2>3. G \in SUBSET all
      BY <1>10, <2>1, <2>2
    <2>4. PICK R : R = all \ G
      OBVIOUS
    <2>5. IsFiniteSet(all) /\ IsFiniteSet(G) /\ IsFiniteSet(R) /\ G \cap R = {} /\ all = G \cup R
      <3>1. IsFiniteSet(all)
        BY <2>1, FS_Subset
      <3>2. G \in SUBSET all /\ R \in SUBSET all
        BY <2>3, <2>4
      <3>3. IsFiniteSet(G) /\ IsFiniteSet(R)
        BY <3>1, <3>2, FS_Subset
      <3> QED
        BY <2>3, <2>4, <3>1, <3>3
    <2>6. \A f \in all : q[f] \in Int /\ q[f] = f.quantity /\ q[f] \in Nat
      BY <1>12, <2>1
    <2>7. \A f \in all : c[f] \in Int /\ c[f] = f.quantity * f.price
      BY <1>12, <2>1
    <2>8. Targets!Filled(all) = Sum(q, all)
      BY <2>5, <2>6, <2>7, FilledSum
    <2>9. Sum(q, G \cup R) = Sum(q, G) + Sum(q, R)
      BY <2>5, <2>6, SumUnion
    <2>10. Sum(q, G) \in Int
      BY <2>3, <2>5, <2>6, SumForm
    <2>11. Sum(q, R) \in Nat
      BY <2>4, <2>5, <2>6, SumNat
    <2>12. Targets!Filled(all) <= n[i] /\ n[i] \in Int
      BY <1>1, <1>13, <2>1
    <2>13. PICK s \in Int : s = Sum(q, G)
      BY <2>10
    <2>14. PICK t \in Nat : t = Sum(q, R)
      BY <2>11
    <2>15. s + t <= n[i]
      BY <2>5, <2>8, <2>9, <2>12, <2>13, <2>14
    <2>16. s <= n[i]
      BY <2>12, <2>15
    <2> QED
      BY <2>2, <2>13, <2>16
  <1>19. Sum(w, fs) <= Sum(v, I)
    <2>1. PICK g : g = [i \in I |-> Sum(w, group[i])]
      OBVIOUS
    <2>2. \A i \in I : g[i] = Sum(w, group[i])
      BY <2>1
    <2>3. Sum(w, fs) = Sum(g, I)
      <3>1. Grouped(fs, I, kind, group)
        BY <1>12, <1>17 DEF Grouped
      <3>2. \A f \in fs : w[f] \in Int
        BY <1>15
      <3> QED
        BY <1>16, <2>2, <3>1, <3>2, SumGroup
    <2>4. ASSUME NEW i \in I
          PROVE  g[i] \in Int /\ g[i] <= v[i]
      <3>1. PICK G : G = group[i] /\ G \in SUBSET fs /\ IsFiniteSet(G)
        BY <1>16, <1>17, FS_Subset
      <3>2. PICK a \in Nat : a = u[i]
        BY <1>13
      <3>3. \A f \in G : kind[f] = i
        BY <1>17, <3>1
      <3>4. \A f \in G : q[f] \in Int /\ w[f] = a * q[f] /\ w[f] \in Int
        BY <1>12, <1>15, <3>1, <3>2, <3>3
      <3>5. Sum(w, G) = a * Sum(q, G)
        BY <3>1, <3>4, SumScale
      <3>6. Sum(q, G) \in Int
        BY <3>1, <3>4, SumForm
      <3>7. PICK s \in Int : s = Sum(q, G)
        BY <3>6
      <3>8. PICK b \in Int : b = n[i]
        BY <1>13
      <3>9. s <= b
        BY <1>18, <3>1, <3>7, <3>8
      <3>10. a * s \in Int /\ a * s <= a * b
        BY <3>9
      <3>11. g[i] = a * s /\ v[i] = a * b
        BY <1>14, <2>2, <3>1, <3>2, <3>5, <3>7, <3>8
      <3> QED
        BY <3>10, <3>11
    <2>5. \A i \in I : g[i] \in Int /\ v[i] \in Int /\ g[i] <= v[i]
      BY <1>14, <2>4
    <2>6. Sum(g, I) <= Sum(v, I)
      BY <1>16, <2>5, SumMono
    <2> QED
      BY <2>3, <2>6
  <1>20. Sum(w, fs) = A * Targets!Cost(fs) - B * Targets!Filled(fs)
    <2>1. \A f \in fs : c[f] \in Int /\ q[f] \in Int /\ w[f] = A * c[f] + (-B) * q[f]
      BY <1>12, <1>15
    <2>2. Sum(w, fs) = A * Sum(c, fs) + (-B) * Sum(q, fs)
      <3>1. PICK b \in Int : b = -B
        OBVIOUS
      <3>2. \A f \in fs : c[f] \in Int /\ q[f] \in Int /\ w[f] = A * c[f] + b * q[f]
        BY <2>1, <3>1
      <3>3. Sum(w, fs) = A * Sum(c, fs) + b * Sum(q, fs)
        BY <1>16, <3>2, SumLinear
      <3> QED
        BY <3>1, <3>3
    <2>3. Targets!Filled(fs) = Sum(q, fs) /\ Targets!Cost(fs) = Sum(c, fs)
      BY <1>12, <1>16, FilledSum
    <2>4. PICK x \in Int : x = Sum(c, fs)
      BY <1>16, <2>1, SumForm
    <2>5. PICK y \in Int : y = Sum(q, fs)
      BY <1>16, <2>1, SumForm
    <2>6. A * x + (-B) * y = A * x - B * y
      OBVIOUS
    <2> QED
      BY <2>2, <2>3, <2>4, <2>5, <2>6
  <1>21. Sum(v, I) = A * Targets!Notional(ls) - B * Targets!Quantity(ls)
    <2>1. \A i \in I : m[i] \in Int /\ n[i] \in Int /\ v[i] = A * m[i] + (-B) * n[i]
      BY <1>13, <1>14
    <2>2. Sum(v, I) = A * Sum(m, I) + (-B) * Sum(n, I)
      <3>1. PICK b \in Int : b = -B
        OBVIOUS
      <3>2. \A i \in I : m[i] \in Int /\ n[i] \in Int /\ v[i] = A * m[i] + b * n[i]
        BY <2>1, <3>1
      <3>3. Sum(v, I) = A * Sum(m, I) + b * Sum(n, I)
        <4>1. IsFiniteSet(I)
          BY <1>16
        <4> QED
          BY <3>2, <4>1, SumLinear
      <3> QED
        BY <3>1, <3>3
    <2>3. Targets!Quantity(ls) = Sum(n, I) /\ Targets!Notional(ls) = Sum(m, I)
      BY <1>1, <1>13, <1>16, QuantitySum
    <2>4. PICK x \in Int : x = Sum(m, I)
      BY <1>16, <2>1, SumForm
    <2>5. PICK y \in Int : y = Sum(n, I)
      BY <1>16, <2>1, SumForm
    <2>6. A * x + (-B) * y = A * x - B * y
      OBVIOUS
    <2> QED
      BY <2>2, <2>3, <2>4, <2>5, <2>6
  <1> QED
    BY <1>19, <1>20, <1>21

\* Fills none of which is cheaper, or dearer, than a price cost as much, or as little.
LEMMA CostForm ==
  ASSUME NEW S, IsFiniteSet(S), \A f \in S : f.quantity \in Nat /\ f.price \in Int,
         NEW p \in Int
  PROVE  /\ (\A f \in S : p <= f.price) => p * Targets!Filled(S) <= Targets!Cost(S)
         /\ (\A f \in S : f.price <= p) => Targets!Cost(S) <= p * Targets!Filled(S)
         /\ (\A f \in S : f.price = p) => Targets!Cost(S) = p * Targets!Filled(S)
  <1>1. PICK q : q = [f \in S |-> f.quantity]
    OBVIOUS
  <1>2. PICK c : c = [f \in S |-> f.quantity * f.price]
    OBVIOUS
  <1>3. PICK k : k = [f \in S |-> p * f.quantity]
    OBVIOUS
  <1>4. \A f \in S : /\ q[f] \in Int /\ q[f] = f.quantity
                     /\ c[f] \in Int /\ c[f] = f.quantity * f.price
                     /\ k[f] \in Int /\ k[f] = p * q[f]
    BY <1>1, <1>2, <1>3
  <1>5. Targets!Filled(S) = Sum(q, S) /\ Targets!Cost(S) = Sum(c, S)
    BY <1>4, FilledSum
  <1>6. Sum(k, S) = p * Sum(q, S)
    BY <1>4, SumScale
  <1>7. ASSUME NEW f \in S
        PROVE  /\ p <= f.price => k[f] <= c[f]
               /\ f.price <= p => c[f] <= k[f]
    <2>1. PICK n \in Nat : n = f.quantity
      OBVIOUS
    <2>2. PICK a \in Int : a = f.price
      OBVIOUS
    <2>3. c[f] = n * a /\ k[f] = p * n
      BY <1>4, <2>1, <2>2
    <2>4. (p <= a => p * n <= n * a) /\ (a <= p => n * a <= p * n)
      OBVIOUS
    <2> QED
      BY <2>2, <2>3, <2>4
  <1>8. (\A f \in S : p <= f.price) => Sum(k, S) <= Sum(c, S)
    BY <1>4, <1>7, SumMono
  <1>9. (\A f \in S : f.price <= p) => Sum(c, S) <= Sum(k, S)
    BY <1>4, <1>7, SumMono
  <1>10. (\A f \in S : f.price = p) => Sum(c, S) = Sum(k, S)
    <2> SUFFICES ASSUME \A f \in S : f.price = p
                 PROVE  Sum(c, S) = Sum(k, S)
      OBVIOUS
    <2>1. \A f \in S : f.price <= p /\ p <= f.price
      OBVIOUS
    <2>2. Sum(c, S) \in Int /\ Sum(k, S) \in Int
      BY <1>4, SumForm
    <2> QED
      BY <1>8, <1>9, <2>1, <2>2
  <1> QED
    BY <1>5, <1>6, <1>8, <1>9, <1>10

\* The stop lies on the losing side of a price, not on it.
Clears(stop, price, direction) ==
  IF direction = "LONG" THEN stop < price ELSE price < stop

\* A rounded stop is less than a tick from what it is rounded from, unless the error of the
\* quotient pushes it past an exact tick.
LEMMA StopBound ==
  ASSUME NEW n \in Int, NEW d \in Nat \ {0}, NEW direction, NEW skew \in Int,
         skew # Targets!Side(direction)
  PROVE  /\ direction = "LONG" => d * (Targets!SkewedStop(n, d, direction, skew) - 1) < n
         /\ direction # "LONG" => d * (Targets!SkewedStop(n, d, direction, skew) + 1) > n
  <1>1. PICK k \in Int : k = (-n) \div d
    OBVIOUS
  <1>2. d * ((-k) - 1) < n
    <2>1. -n < d * (k + 1)
      BY <1>1
    <2>2. d * ((-k) - 1) = -(d * (k + 1))
      OBVIOUS
    <2>3. d * (k + 1) \in Int
      OBVIOUS
    <2> QED
      BY <2>1, <2>2, <2>3
  <1>3. PICK m \in Int : m = n \div d
    OBVIOUS
  <1>4. d * (m + 1) > n
    BY <1>3
  <1>5. CASE direction = "LONG"
    <2>1. skew # 1 /\ Targets!Side(direction) = 1
      BY <1>5 DEF Targets!Side
    <2>2. Targets!SkewedStop(n, d, direction, skew) = (-k) + 0
      BY <1>1, <1>5, <2>1 DEF Targets!SkewedStop, Targets!Stopwards, Targets!Up
    <2> QED
      BY <1>2, <1>5, <2>2
  <1>6. CASE direction # "LONG"
    <2>1. skew # -1 /\ Targets!Side(direction) = -1
      BY <1>6 DEF Targets!Side
    <2>2. Targets!SkewedStop(n, d, direction, skew) = m + 0
      BY <1>3, <1>6, <2>1 DEF Targets!SkewedStop, Targets!Stopwards, Targets!Down
    <2> QED
      BY <1>4, <1>6, <2>2
  <1> QED
    BY <1>5, <1>6

\* A quotient that is a whole number carries no error.
LEMMA WholeSkew ==
  ASSUME NEW p \in Int, NEW d \in Nat \ {0}, NEW k \in Targets!Skews(p * d, d)
  PROVE  k = 0
  <1>1. PICK x \in Int : x = 10 ^ 0
    OBVIOUS
  <1>2. (p * d * x) % d = 0
    <2>1. p * d * x = (p * x) * d /\ p * x \in Int
      OBVIOUS
    <2>2. \A y \in Int : (y * d) % d = 0
      OBVIOUS
    <2> QED
      BY <2>1, <2>2
  <1>3. 0 \in 0..Targets!DigitBound
    BY DEF Targets!DigitBound
  <1>4. Targets!Terminates(p * d, d)
    BY <1>1, <1>2, <1>3 DEF Targets!Terminates
  <1> QED
    BY <1>4 DEF Targets!Skews

\* Rounding a stop that a cost at one price asks for clears that price, when the target of
\* the price itself does.
LEMMA OnePriceStop ==
  ASSUME NEW rules, NEW direction \in {"LONG", "SHORT"}, NEW p \in Int,
         Whole \in Nat \ {0}, rules.distance \in Int,
         Targets!CompileTargets(rules, direction, p) # Error,
         NEW d \in Nat \ {0}, NEW c \in Int, c = p * d, NEW k \in Targets!Skews(c, d),
         NEW stop, stop = Targets!SkewedStop(
                            c * (Whole - Targets!Side(direction) * rules.distance),
                            d * Whole, direction, k)
  PROVE  stop \in Int /\ Clears(stop, p, direction)
  <1>1. k = 0
    BY WholeSkew
  <1>2. PICK w \in Nat \ {0} : w = Whole
    OBVIOUS
  <1>3. PICK side \in Int : side = Targets!Side(direction) /\ side # 0
    <2>1. Targets!Side(direction) \in Int /\ Targets!Side(direction) # 0
      BY DEF Targets!Side
    <2> QED
      BY <2>1
  <1>4. PICK a \in Int : a = Whole - Targets!Side(direction) * rules.distance
    <2>1. PICK distance \in Int : distance = rules.distance
      OBVIOUS
    <2>2. w - side * distance \in Int
      OBVIOUS
    <2> QED
      BY <1>2, <1>3, <2>1, <2>2
  <1>5. p * a \in Int /\ c * a \in Int /\ d * w \in Nat \ {0}
    OBVIOUS
  <1>6. PICK own : own = Targets!Stopwards(p * a, w, direction)
    OBVIOUS
  <1>7. Targets!Beyond(own, p, 1, direction)
    BY <1>2, <1>4, <1>6 DEF Targets!CompileTargets
  <1>8. stop \in Int
    BY <1>2, <1>4, <1>5, SkewedStopForm
  <1>9. CASE direction = "LONG"
    <2>1. (d * w) * (stop - 1) < c * a
      BY <1>1, <1>2, <1>3, <1>4, <1>5, <1>9, StopBound
    <2>2. own \in Int /\ w * own >= p * a
      <3>1. PICK x \in Int : x = (-(p * a)) \div w
        OBVIOUS
      <3>2. w * x <= -(p * a)
        BY <3>1, <1>5
      <3>3. own = -x
        BY <1>6, <1>9, <3>1 DEF Targets!Stopwards, Targets!Up
      <3>4. w * (-x) = -(w * x) /\ w * x \in Int
        OBVIOUS
      <3> QED
        BY <1>5, <3>2, <3>3, <3>4
    <2>3. d * (w * own) >= d * (p * a)
      BY <1>5, <2>2
    <2>4. c * a = d * (p * a) /\ (d * w) * (stop - 1) = d * (w * (stop - 1))
      BY <1>8
    <2>5. d * (w * (stop - 1)) < d * (w * own)
      <3>1. d * (w * (stop - 1)) \in Int /\ d * (w * own) \in Int /\ d * (p * a) \in Int
        BY <1>8, <2>2
      <3> QED
        BY <2>1, <2>3, <2>4, <3>1
    <2>6. w * (stop - 1) < w * own
      BY <1>8, <2>2, <2>5
    <2>7. stop - 1 < own
      BY <1>8, <2>2, <2>6
    <2>8. p - 1 * own > 0
      <3>1. 1 * (p - 1 * own) > 0
        BY <1>7, <1>9 DEF Targets!Beyond, Targets!Side
      <3> QED
        BY <2>2, <3>1
    <2>9. stop < p
      BY <1>8, <2>2, <2>7, <2>8
    <2> QED
      BY <1>8, <1>9, <2>9 DEF Clears
  <1>10. CASE direction = "SHORT"
    <2>1. (d * w) * (stop + 1) > c * a
      BY <1>1, <1>2, <1>3, <1>4, <1>5, <1>10, StopBound
    <2>2. own \in Int /\ w * own <= p * a
      <3>1. PICK x \in Int : x = (p * a) \div w
        OBVIOUS
      <3>2. w * x <= p * a
        BY <3>1, <1>5
      <3>3. own = x
        BY <1>6, <1>10, <3>1 DEF Targets!Stopwards, Targets!Down
      <3> QED
        BY <3>2, <3>3
    <2>3. d * (w * own) <= d * (p * a)
      BY <1>5, <2>2
    <2>4. c * a = d * (p * a) /\ (d * w) * (stop + 1) = d * (w * (stop + 1))
      BY <1>8
    <2>5. d * (w * (stop + 1)) > d * (w * own)
      <3>1. d * (w * (stop + 1)) \in Int /\ d * (w * own) \in Int /\ d * (p * a) \in Int
        BY <1>8, <2>2
      <3> QED
        BY <2>1, <2>3, <2>4, <3>1
    <2>6. w * (stop + 1) > w * own
      BY <1>8, <2>2, <2>5
    <2>7. stop + 1 > own
      BY <1>8, <2>2, <2>6
    <2>8. p < own
      <3>1. (-1) * (p - 1 * own) > 0
        BY <1>7, <1>10 DEF Targets!Beyond, Targets!Side
      <3> QED
        BY <2>2, <3>1
    <2>9. p < stop
      BY <1>8, <2>2, <2>7, <2>8
    <2> QED
      BY <1>8, <1>10, <2>9 DEF Clears
  <1> QED
    BY <1>9, <1>10

\* A plan of one price has no other.
LEMMA SinglePrice ==
  ASSUME NEW ls, IsFiniteSet(DOMAIN ls), DOMAIN ls # {},
         \A i \in DOMAIN ls : ls[i].price \in Nat, ~Targets!Layered(ls)
  PROVE  \A i, j \in DOMAIN ls : ls[i].price = ls[j].price
  <1> SUFFICES ASSUME NEW i \in DOMAIN ls, NEW j \in DOMAIN ls, ls[i].price # ls[j].price
               PROVE  FALSE
    OBVIOUS
  <1>1. PICK S : S = Targets!Prices(ls)
    OBVIOUS
  <1>2. IsFiniteSet(S) /\ ls[i].price \in S /\ ls[j].price \in S
    BY <1>1, PricesForm
  <1>3. PICK a \in S : a = ls[i].price
    BY <1>2
  <1>4. PICK b \in S \ {a} : b = ls[j].price
    BY <1>2, <1>3
  <1>5. /\ IsFiniteSet(S \ {a}) /\ Cardinality(S) \in Nat
        /\ Cardinality(S \ {a}) = Cardinality(S) - 1
    BY <1>2, LessForm
  <1>6. Cardinality(S \ {a}) \in Nat \ {0}
    BY <1>5, LessForm
  <1>7. ~(Cardinality(S) > 1)
    BY <1>1, SizeForm DEF Targets!Layered
  <1> QED
    BY <1>5, <1>6, <1>7

\* The boundary is the planned price a stop reaches first.
LEMMA BoundaryNearest ==
  ASSUME NEW ls, IsFiniteSet(DOMAIN ls), DOMAIN ls # {},
         \A i \in DOMAIN ls : ls[i].price \in Nat
  PROVE  /\ Targets!Boundary(ls, "LONG") \in Nat
         /\ \A i \in DOMAIN ls : Targets!Boundary(ls, "LONG") <= ls[i].price
         /\ \E i \in DOMAIN ls : Targets!Boundary(ls, "LONG") = ls[i].price
         /\ Targets!Boundary(ls, "SHORT") \in Nat
         /\ \A i \in DOMAIN ls : ls[i].price <= Targets!Boundary(ls, "SHORT")
         /\ \E i \in DOMAIN ls : Targets!Boundary(ls, "SHORT") = ls[i].price
  <1>1. PICK S : S = Targets!Prices(ls)
    OBVIOUS
  <1>2. /\ S \in SUBSET Nat /\ S # {} /\ IsFiniteSet(S)
        /\ \A i \in DOMAIN ls : ls[i].price \in S
        /\ \A n \in S : \E i \in DOMAIN ls : n = ls[i].price
    BY <1>1, PricesForm
  <1>3. /\ Targets!Min(S) \in S /\ \A n \in S : Targets!Min(S) <= n
        /\ Targets!Max(S) \in S /\ \A n \in S : n <= Targets!Max(S)
    BY <1>2, ExtremeForm
  <1>4. Targets!Boundary(ls, "LONG") = Targets!Min(S) /\ Targets!Boundary(ls, "SHORT") = Targets!Max(S)
    BY <1>1 DEF Targets!Boundary
  <1> QED
    BY <1>2, <1>3, <1>4

\* A plan of one price costs that price for all it buys.
LEMMA OnePriceCost ==
  ASSUME NEW ls, IsFiniteSet(DOMAIN ls), NEW p \in Nat,
         \A i \in DOMAIN ls : ls[i].quantity \in Nat,
         \A i \in DOMAIN ls : ls[i].price = p
  PROVE  Targets!Notional(ls) = p * Targets!Quantity(ls)
  <1>1. PICK I : I = DOMAIN ls
    OBVIOUS
  <1>2. PICK q : q = [i \in I |-> ls[i].quantity]
    OBVIOUS
  <1>3. PICK c : c = [i \in I |-> ls[i].quantity * ls[i].price]
    OBVIOUS
  <1>4. \A i \in I : /\ q[i] \in Int /\ q[i] = ls[i].quantity
                     /\ c[i] \in Int /\ c[i] = ls[i].quantity * ls[i].price
                     /\ c[i] = p * q[i]
    BY <1>1, <1>2, <1>3
  <1>5. Targets!Quantity(ls) = Sum(q, I) /\ Targets!Notional(ls) = Sum(c, I)
    BY <1>1, <1>4, QuantitySum
  <1>6. Sum(c, I) = p * Sum(q, I)
    BY <1>1, <1>4, SumScale
  <1> QED
    BY <1>5, <1>6

\* The plan's frozen estimate in numbers: its stop clears every planned price.
LEMMA EstimateNumbers ==
  ASSUME Targets!TargetsAssumption, Targets!RequestsAssumption, NEW r \in Requests,
         NEW ls, ls = Targets!NormalizedLegs(r), ~Targets!HasIssue(r, ls), ~r.market,
         NEW e \in Targets!Estimates(r, ls), e # None
  PROVE  /\ e.stop \in Nat \ {0} /\ e.skew \in Int
         /\ \A i \in DOMAIN ls : /\ ls[i].price \in Nat /\ ls[i].quantity \in Nat \ {0}
                                 /\ Clears(e.stop, ls[i].price, r.direction)
         /\ e.boundary = Targets!Boundary(ls, r.direction)
         /\ e.maximumLoss = Targets!LossAt(Targets!Notional(ls), Targets!Quantity(ls), e.stop,
                                           r.policy, r.direction)
         /\ Targets!Notional(ls) \in Int /\ Targets!Quantity(ls) \in Nat \ {0}
  <1>1. /\ IsFiniteSet(DOMAIN ls) /\ DOMAIN ls # {}
        /\ \A i \in DOMAIN ls : ls[i].price \in Nat /\ ls[i].quantity \in Nat
    <2>1. /\ IsFiniteSet(DOMAIN Targets!NormalizedLegs(r)) /\ DOMAIN Targets!NormalizedLegs(r) # {}
          /\ \A i \in DOMAIN Targets!NormalizedLegs(r) :
               /\ Targets!NormalizedLegs(r)[i].price \in Nat
               /\ Targets!NormalizedLegs(r)[i].quantity \in Nat
      BY RequestForm
    <2> QED
      BY <2>1
  <1>2. ASSUME NEW i \in DOMAIN ls
        PROVE  ls[i].quantity \in Nat \ {0}
    <2>1. PICK n \in Nat : n = ls[i].quantity
      BY <1>1
    <2>2. ~(n < MinQuantity)
      BY <2>1 DEF Targets!HasIssue
    <2>3. MinQuantity \in Nat \ {0}
      BY DEF Targets!TargetsAssumption
    <2>4. n \in Nat \ {0}
      BY <2>2, <2>3
    <2> QED
      BY <2>1, <2>4
  <1>3. \A i \in DOMAIN ls : ls[i].price \in Int /\ ls[i].quantity \in Int
    BY <1>1
  <1>4. PICK c \in Int : c = Targets!Notional(ls)
    BY <1>1, <1>2, <1>3, QuantityNotional
  <1>5. PICK q \in Nat \ {0} : q = Targets!Quantity(ls)
    BY <1>1, <1>2, <1>3, QuantityNotional
  <1>6. PICK dir \in {"LONG", "SHORT"} : dir = r.direction
    BY RequestForm
  <1>7. /\ Whole \in Nat \ {0} /\ r.policy.distance \in Int
    BY RequestForm
  <1>8. PICK tie \in Targets!Skews(c, q), skew \in Targets!Skews(c, q) :
              e = Targets!Estimate(r, ls, tie, skew)
    BY <1>4, <1>5 DEF Targets!Estimates
  <1>9. e.stop > 0 /\ ~Targets!InsideEntryRange(e, ls, dir)
    BY <1>6 DEF Targets!Estimates
  <1>10. skew \in Int
    <2>1. Targets!Skews(c, q) \subseteq {-1, 0, 1}
      BY DEF Targets!Skews
    <2> QED
      BY <2>1
  <1>11. /\ e.stop = Targets!SkewedStop(c * (Whole - Targets!Side(dir) * r.policy.distance),
                                        q * Whole, dir, tie)
         /\ e.boundary = Targets!Boundary(ls, dir)
         /\ e.maximumLoss = Targets!LossAt(c, q, e.stop, r.policy, dir)
         /\ e.skew = skew
    BY <1>4, <1>5, <1>6, <1>8 DEF Targets!Estimate
  <1>12. e.stop \in Int
    <2>1. PICK w \in Nat \ {0} : w = Whole
      BY <1>7
    <2>2. PICK side \in Int : side = Targets!Side(dir)
      <3>1. Targets!Side(dir) \in Int
        BY DEF Targets!Side
      <3> QED
        BY <3>1
    <2>3. PICK distance \in Int : distance = r.policy.distance
      BY <1>7
    <2>4. PICK n \in Int : n = c * (w - side * distance)
      OBVIOUS
    <2>5. PICK d \in Nat \ {0} : d = q * w
      OBVIOUS
    <2>6. Targets!SkewedStop(n, d, dir, tie) \in Int
      BY SkewedStopForm
    <2> QED
      BY <1>11, <2>1, <2>2, <2>3, <2>4, <2>5, <2>6
  <1>13. PICK s \in Int : s = e.stop
    BY <1>12
  <1>14. s \in Nat \ {0}
    BY <1>9, <1>13
  <1>15. \A i \in DOMAIN ls : Clears(s, ls[i].price, dir)
    <2>1. CASE Targets!Layered(ls)
      <3>1. PICK b \in Nat : b = Targets!Boundary(ls, dir)
        BY <1>1, BoundaryNearest
      <3>2. Targets!Beyond(s, b, 1, dir)
        BY <1>9, <1>11, <1>13, <2>1, <3>1 DEF Targets!InsideEntryRange
      <3>3. CASE dir = "LONG"
        <4>1. \A i \in DOMAIN ls : b <= ls[i].price
          BY <1>1, <3>1, <3>3, BoundaryNearest
        <4>2. 1 * (b - 1 * s) > 0
          BY <3>2, <3>3 DEF Targets!Beyond, Targets!Side
        <4>3. s < b
          BY <4>2
        <4>4. ASSUME NEW i \in DOMAIN ls
              PROVE  s < ls[i].price
          <5>1. PICK p \in Nat : p = ls[i].price
            BY <1>1
          <5>2. b <= p
            BY <4>1, <5>1
          <5>3. s < p
            BY <4>3, <5>2
          <5> QED
            BY <5>1, <5>3
        <4> QED
          BY <3>3, <4>4 DEF Clears
      <3>4. CASE dir = "SHORT"
        <4>1. \A i \in DOMAIN ls : ls[i].price <= b
          BY <1>1, <3>1, <3>4, BoundaryNearest
        <4>2. (-1) * (b - 1 * s) > 0
          BY <3>2, <3>4 DEF Targets!Beyond, Targets!Side
        <4>3. b < s
          BY <4>2
        <4>4. ASSUME NEW i \in DOMAIN ls
              PROVE  ls[i].price < s
          <5>1. PICK p \in Nat : p = ls[i].price
            BY <1>1
          <5>2. p <= b
            BY <4>1, <5>1
          <5>3. p < s
            BY <4>3, <5>2
          <5> QED
            BY <5>1, <5>3
        <4> QED
          BY <3>4, <4>4 DEF Clears
      <3> QED
        BY <3>3, <3>4
    <2>2. CASE ~Targets!Layered(ls)
      <3>1. PICK j \in DOMAIN ls : TRUE
        BY <1>1
      <3>2. PICK p \in Nat : p = ls[j].price
        BY <1>1
      <3>3. \A i \in DOMAIN ls : ls[i].price = p
        <4>1. \A i, k \in DOMAIN ls : ls[i].price = ls[k].price
          BY <1>1, <2>2, SinglePrice
        <4> QED
          BY <3>2, <4>1
      <3>4. c = p * q
        BY <1>1, <1>4, <1>5, <3>3, OnePriceCost
      <3>5. Targets!CompileTargets(r.policy, dir, p) # Error
        BY <1>6, <3>1, <3>2 DEF Targets!HasIssue
      <3>6. PICK rules : rules = r.policy
        OBVIOUS
      <3>7. Clears(s, p, dir)
        <4>1. Whole \in Nat \ {0} /\ rules.distance \in Int
          BY <1>7, <3>6
        <4>2. Targets!CompileTargets(rules, dir, p) # Error
          BY <3>5, <3>6
        <4>3. s = Targets!SkewedStop(c * (Whole - Targets!Side(dir) * rules.distance),
                                     q * Whole, dir, tie)
          BY <1>11, <1>13, <3>6
        <4>4. p \in Int
          OBVIOUS
        <4> QED
          BY <3>4, <4>1, <4>2, <4>3, <4>4, OnePriceStop
      <3> QED
        BY <3>3, <3>7
    <2> QED
      BY <2>1, <2>2
  <1> QED
    BY <1>1, <1>2, <1>4, <1>5, <1>6, <1>10, <1>11, <1>13, <1>14, <1>15

\* Arithmetic of a unit bought and stopped: beyond its price it always loses.
LEMMA UnitLoss ==
  ASSUME NEW w \in Nat, NEW a \in Nat, NEW b \in Nat, NEW s \in Nat, NEW p \in Nat
  PROVE  /\ s < p => (w + a) * p - s * (w - b) \in Nat
         /\ p < s => (-(w - a)) * p - (-(s * (w + b))) \in Nat
  <1>1. w * (p - s) + a * p + s * b = (w + a) * p - s * (w - b)
    OBVIOUS
  <1>2. w * (s - p) + a * p + s * b = (-(w - a)) * p - (-(s * (w + b)))
    OBVIOUS
  <1>3. a * p + s * b \in Nat
    OBVIOUS
  <1>4. s < p => w * (p - s) \in Nat
    OBVIOUS
  <1>5. p < s => w * (s - p) \in Nat
    OBVIOUS
  <1>6. \A x, y \in Nat : x + y \in Nat
    OBVIOUS
  <1>7. s < p => w * (p - s) + (a * p + s * b) \in Nat
    BY <1>3, <1>4, <1>6
  <1>8. p < s => w * (s - p) + (a * p + s * b) \in Nat
    BY <1>3, <1>5, <1>6
  <1>9. w * (p - s) + (a * p + s * b) = w * (p - s) + a * p + s * b
    OBVIOUS
  <1>10. w * (s - p) + (a * p + s * b) = w * (s - p) + a * p + s * b
    OBVIOUS
  <1> QED
    BY <1>1, <1>2, <1>7, <1>8, <1>9, <1>10

\* Arithmetic of the budget: where a part loses no more than the plan at the stop s, the
\* budget's quotient does not pass s.
LEMMA PartLong ==
  ASSUME NEW w \in Int, NEW a \in Int, NEW b \in Int, NEW c \in Int, NEW q \in Int,
         NEW n \in Int, NEW k \in Int, NEW s \in Int, NEW m \in Int,
         m = w * 1 * (n - k * s) + n * a + k * s * b,
         (w + a) * c - (s * (w - b)) * q <= (w + a) * n - (s * (w - b)) * k
  PROVE  c * (w + a) - m <= (q * (w - b)) * s
  OBVIOUS

\* The same above the entry, where the plan is short.
LEMMA PartShort ==
  ASSUME NEW w \in Int, NEW a \in Int, NEW b \in Int, NEW c \in Int, NEW q \in Int,
         NEW n \in Int, NEW k \in Int, NEW s \in Int, NEW m \in Int,
         m = w * (-1) * (n - k * s) + n * a + k * s * b,
         (-(w - a)) * c - (-(s * (w + b))) * q <= (-(w - a)) * n - (-(s * (w + b))) * k
  PROVE  (q * (w + b)) * s <= c * (w - a) + m
  OBVIOUS

\* A quotient rounded to less than a tick past a whole number does not pass it.
LEMMA NotAbove ==
  ASSUME NEW d \in Nat \ {0}, NEW n \in Int, NEW b \in Int, NEW s \in Int,
         d * (b - 1) < n, n <= d * s
  PROVE  b <= s
  <1>1. d * (b - 1) < d * s
    OBVIOUS
  <1>2. b - 1 < s
    BY <1>1
  <1> QED
    BY <1>2

LEMMA NotBelow ==
  ASSUME NEW d \in Nat \ {0}, NEW n \in Int, NEW b \in Int, NEW s \in Int,
         n < d * (b + 1), d * s <= n
  PROVE  s <= b
  <1>1. d * s < d * (b + 1)
    OBVIOUS
  <1>2. s < b + 1
    BY <1>1
  <1> QED
    BY <1>2

\* The plan as it was activated, and what its legs have traded.
Frozen ==
  plan # NoPlan => /\ ~Targets!HasIssue(plan, legs)
                   /\ estimate \in Targets!Estimates(plan, legs)

Placed ==
  /\ \A f \in trades : f.leg \in DOMAIN legs
  /\ \A i \in DOMAIN legs : Targets!Filled({f \in trades : f.leg = i}) <= legs[i].quantity

PlanInv == Frozen /\ Placed

\* Fills at planned prices: the stop their budget asks for lies on the estimate's stop or
\* beyond it, so that it clears every planned price.
LEMMA BudgetClears ==
  ASSUME Targets!TargetsAssumption, Targets!RequestsAssumption, TargetsInv, PlanInv,
         NEW r \in Requests, r = plan, NEW ls, ls = legs, NEW e, e = estimate, e # None,
         e.skew # -1, ~r.market,
         \A f \in trades : f.price = ls[f.leg].price,
         NEW fs \in SUBSET trades, fs # {}
  PROVE  /\ Targets!BudgetStop(fs) \in Int
         /\ \A i \in DOMAIN ls : Clears(Targets!BudgetStop(fs), ls[i].price, r.direction)
  <1>1. ls = Targets!NormalizedLegs(r) /\ ~Targets!HasIssue(r, ls) /\ e \in Targets!Estimates(r, ls)
    <2>1. r # NoPlan
      BY RequestForm
    <2> QED
      BY <2>1 DEF PlanInv, Frozen, TargetsInv, Planned
  <1>2. /\ e.stop \in Nat \ {0} /\ e.skew \in Int
        /\ \A i \in DOMAIN ls : /\ ls[i].price \in Nat /\ ls[i].quantity \in Nat \ {0}
                                /\ Clears(e.stop, ls[i].price, r.direction)
        /\ e.maximumLoss = Targets!LossAt(Targets!Notional(ls), Targets!Quantity(ls), e.stop,
                                          r.policy, r.direction)
        /\ Targets!Notional(ls) \in Int /\ Targets!Quantity(ls) \in Nat \ {0}
    BY <1>1, EstimateNumbers
  <1>3. PICK s \in Nat \ {0} : s = e.stop
    BY <1>2
  <1>4. PICK n \in Int : n = Targets!Notional(ls)
    BY <1>2
  <1>5. PICK k \in Nat \ {0} : k = Targets!Quantity(ls)
    BY <1>2
  <1>6. IsFiniteSet(trades) /\ \A f \in trades : f.quantity \in Nat \ {0} /\ f.price \in Int
    BY DEF TargetsInv, Traded
  <1>7. IsFiniteSet(fs) /\ \A f \in fs : f.quantity \in Nat \ {0} /\ f.price \in Int
    BY <1>6, FS_Subset
  <1>8. PICK c \in Int : c = Targets!Cost(fs)
    BY <1>7, FilledForm
  <1>9. PICK q \in Nat \ {0} : q = Targets!Filled(fs)
    BY <1>7, FilledForm
  <1>10. PICK w \in Nat \ {0} : w = Whole
    BY RequestForm
  <1>11. PICK rules : rules = r.policy
    OBVIOUS
  <1>12. PICK a \in Nat : a = rules.entryFee
    <2>1. r.policy.entryFee \in Nat
      BY RequestForm
    <2> QED
      BY <1>11, <2>1
  <1>13. PICK b \in Nat : b = rules.exitFee
    <2>1. r.policy.exitFee \in Nat
      BY RequestForm
    <2> QED
      BY <1>11, <2>1
  <1>14. w - b \in Nat \ {0} /\ w + b \in Nat \ {0}
    <2>1. Whole - r.policy.exitFee \in Nat \ {0} /\ Whole + r.policy.exitFee \in Nat \ {0}
      BY RequestForm
    <2> QED
      BY <1>10, <1>11, <1>13, <2>1
  <1>15. PICK dir \in {"LONG", "SHORT"} : dir = r.direction
    BY RequestForm
  <1>16. PICK side \in Int : side = Targets!Side(dir)
    <2>1. Targets!Side(dir) \in Int
      BY DEF Targets!Side
    <2> QED
      BY <2>1
  <1>17. PICK m : m = e.maximumLoss
    OBVIOUS
  <1>18. m = w * side * (n - k * s) + n * a + k * s * b
    <2>1. m = Targets!LossAt(n, k, s, rules, dir)
      BY <1>2, <1>3, <1>4, <1>5, <1>11, <1>15, <1>17
    <2> QED
      BY <2>1, <1>10, <1>12, <1>13, <1>16 DEF Targets!LossAt
  <1>19. m \in Int
    <2>1. w * side * (n - k * s) + n * a + k * s * b \in Int
      OBVIOUS
    <2> QED
      BY <1>18, <2>1
  <1>20. PICK j \in Int : j = e.skew /\ j # -1
    BY <1>2
  <1>21. IsFiniteSet(DOMAIN ls)
    BY <1>1, RequestForm
  <1>22. ASSUME NEW A \in Int, NEW B \in Int, \A i \in DOMAIN ls : A * ls[i].price - B \in Nat
         PROVE  A * c - B * q <= A * n - B * k
    <2>1. \A i \in DOMAIN ls : ls[i].quantity \in Int /\ ls[i].price \in Int
      BY <1>2
    <2>2. PICK S : S = trades
      OBVIOUS
    <2>3. \A f \in S : /\ f.quantity \in Nat /\ f.leg \in DOMAIN ls
                       /\ f.price = ls[f.leg].price
      BY <1>6, <2>2 DEF PlanInv, Placed
    <2>4. \A i \in DOMAIN ls : Targets!Filled({f \in S : f.leg = i}) <= ls[i].quantity
      BY <2>2 DEF PlanInv, Placed
    <2>5. IsFiniteSet(S) /\ fs \in SUBSET S
      BY <1>6, <2>2
    <2>6. A * Targets!Cost(fs) - B * Targets!Filled(fs)
            <= A * Targets!Notional(ls) - B * Targets!Quantity(ls)
      BY <1>21, <1>22, <2>1, <2>3, <2>4, <2>5, LossOfPart
    <2> QED
      BY <1>4, <1>5, <1>8, <1>9, <2>6
  <1>23. CASE dir = "LONG"
    <2>1. side = 1
      BY <1>16, <1>23 DEF Targets!Side
    <2>2. PICK x \in Int : x = c * (w + a) - m
      BY <1>19
    <2>3. PICK d \in Nat \ {0} : d = q * (w - b)
      BY <1>14
    <2>4. c * (w + side * a) - side * m = x /\ q * (w - side * b) = d
      <3>1. w + side * a = w + a /\ side * m = m /\ w - side * b = w - b
        <4>1. \A y \in Int : 1 * y = y
          OBVIOUS
        <4> QED
          BY <1>19, <2>1, <4>1
      <3> QED
        BY <2>2, <2>3, <3>1
    <2>5. Targets!BudgetStop(fs) = Targets!SkewedStop(x, d, dir, -side * j)
      BY <1>8, <1>9, <1>10, <1>11, <1>12, <1>13, <1>15, <1>16, <1>17, <1>20, <2>4
      DEF Targets!BudgetStop
    <2>6. -side * j \in Int /\ -side * j # side
      BY <1>20, <2>1
    <2>7. PICK near \in Int : near = Targets!BudgetStop(fs) /\ d * (near - 1) < x
      <3>1. PICK z \in Int : z = -side * j /\ z # Targets!Side(dir)
        BY <1>16, <2>6
      <3>2. Targets!SkewedStop(x, d, dir, z) \in Int
        BY SkewedStopForm
      <3>3. d * (Targets!SkewedStop(x, d, dir, z) - 1) < x
        BY <1>23, <3>1, StopBound
      <3> QED
        BY <2>5, <3>1, <3>2, <3>3
    <2>8. \A i \in DOMAIN ls : ls[i].price \in Nat /\ s < ls[i].price
      BY <1>2, <1>3, <1>15, <1>23 DEF Clears
    <2>9. (w + a) * c - (s * (w - b)) * q <= (w + a) * n - (s * (w - b)) * k
      <3>1. PICK A \in Int : A = w + a
        OBVIOUS
      <3>2. PICK B \in Int : B = s * (w - b)
        OBVIOUS
      <3>3. ASSUME NEW i \in DOMAIN ls
            PROVE  A * ls[i].price - B \in Nat
        <4>1. PICK p \in Nat : p = ls[i].price /\ s < p
          BY <2>8
        <4>2. (w + a) * p - s * (w - b) \in Nat
          BY <4>1, UnitLoss
        <4> QED
          BY <3>1, <3>2, <4>1, <4>2
      <3>4. A * c - B * q <= A * n - B * k
        BY <1>22, <3>3
      <3> QED
        BY <3>1, <3>2, <3>4
    <2>10. c * (w + a) - m <= (q * (w - b)) * s
      <3>1. m = w * 1 * (n - k * s) + n * a + k * s * b
        BY <1>18, <2>1
      <3> QED
        BY <1>19, <2>9, <3>1, PartLong
    <2>11. near <= s
      <3>1. x <= d * s
        BY <2>2, <2>3, <2>10
      <3>2. s \in Int
        OBVIOUS
      <3> QED
        BY <2>7, <3>1, <3>2, NotAbove, Zenon
    <2>12. \A i \in DOMAIN ls : near < ls[i].price
      BY <2>8, <2>11
    <2> QED
      BY <1>15, <1>23, <2>7, <2>12 DEF Clears
  <1>24. CASE dir = "SHORT"
    <2>1. side = -1
      BY <1>16, <1>24 DEF Targets!Side
    <2>2. PICK x \in Int : x = c * (w - a) + m
      BY <1>19
    <2>3. PICK d \in Nat \ {0} : d = q * (w + b)
      BY <1>14
    <2>4. c * (w + side * a) - side * m = x /\ q * (w - side * b) = d
      <3>1. w + side * a = w - a /\ side * m = -m /\ w - side * b = w + b
        <4>1. w + (-1) * a = w - a /\ (-1) * m = -m /\ w - (-1) * b = w + b
          BY <1>19, Opposite
        <4> QED
          BY <2>1, <4>1
      <3>2. \A y \in Int : y - (-m) = y + m
        BY <1>19, Opposite
      <3>3. c * (w - a) \in Int
        OBVIOUS
      <3> QED
        BY <2>2, <2>3, <3>1, <3>2, <3>3
    <2>5. Targets!BudgetStop(fs) = Targets!SkewedStop(x, d, dir, -side * j)
      BY <1>8, <1>9, <1>10, <1>11, <1>12, <1>13, <1>15, <1>16, <1>17, <1>20, <2>4
      DEF Targets!BudgetStop
    <2>6. -side * j \in Int /\ -side * j # side
      BY <1>20, <2>1
    <2>7. PICK near \in Int : near = Targets!BudgetStop(fs) /\ x < d * (near + 1)
      <3>1. PICK z \in Int : z = -side * j /\ z # Targets!Side(dir)
        BY <1>16, <2>6
      <3>2. Targets!SkewedStop(x, d, dir, z) \in Int
        BY SkewedStopForm
      <3>3. d * (Targets!SkewedStop(x, d, dir, z) + 1) > x
        BY <1>24, <3>1, StopBound
      <3>4. PICK y \in Int : y = Targets!SkewedStop(x, d, dir, z)
        BY <3>2
      <3>5. x < d * (y + 1)
        BY <3>3, <3>4
      <3> QED
        BY <2>5, <3>1, <3>4, <3>5
    <2>8. \A i \in DOMAIN ls : ls[i].price \in Nat /\ ls[i].price < s
      BY <1>2, <1>3, <1>15, <1>24 DEF Clears
    <2>9. (-(w - a)) * c - (-(s * (w + b))) * q <= (-(w - a)) * n - (-(s * (w + b))) * k
      <3>1. PICK A \in Int : A = -(w - a)
        OBVIOUS
      <3>2. PICK B \in Int : B = -(s * (w + b))
        OBVIOUS
      <3>3. ASSUME NEW i \in DOMAIN ls
            PROVE  A * ls[i].price - B \in Nat
        <4>1. PICK p \in Nat : p = ls[i].price /\ p < s
          BY <2>8
        <4>2. (-(w - a)) * p - (-(s * (w + b))) \in Nat
          BY <4>1, UnitLoss
        <4> QED
          BY <3>1, <3>2, <4>1, <4>2
      <3>4. A * c - B * q <= A * n - B * k
        BY <1>22, <3>3
      <3> QED
        BY <3>1, <3>2, <3>4
    <2>10. (q * (w + b)) * s <= c * (w - a) + m
      <3>1. m = w * (-1) * (n - k * s) + n * a + k * s * b
        BY <1>18, <2>1
      <3> QED
        BY <1>19, <2>9, <3>1, PartShort
    <2>11. s <= near
      <3>1. d * s <= x
        BY <2>2, <2>3, <2>10
      <3>2. s \in Int
        OBVIOUS
      <3> QED
        BY <2>7, <3>1, <3>2, NotBelow, Zenon
    <2>12. \A i \in DOMAIN ls : ls[i].price < near
      BY <2>8, <2>11
    <2> QED
      BY <1>15, <1>24, <2>7, <2>12 DEF Clears
  <1> QED
    BY <1>23, <1>24

\* Fills at planned prices: the stop of the policy's distance clears every planned price.
LEMMA DistanceClears ==
  ASSUME Targets!TargetsAssumption, Targets!RequestsAssumption, TargetsInv, PlanInv,
         NEW r \in Requests, r = plan, NEW ls, ls = legs, NEW e, e = estimate, e # None,
         ~r.market, \A f \in trades : f.price = ls[f.leg].price,
         NEW fs \in SUBSET trades, fs # {},
         NEW skew \in Targets!Skews(Targets!Cost(fs), Targets!Filled(fs))
  PROVE  /\ Targets!DistanceStop(fs, skew) \in Int
         /\ \A i \in DOMAIN ls : Clears(Targets!DistanceStop(fs, skew), ls[i].price, r.direction)
  <1>1. ls = Targets!NormalizedLegs(r) /\ ~Targets!HasIssue(r, ls) /\ e \in Targets!Estimates(r, ls)
    <2>1. r # NoPlan
      BY RequestForm
    <2> QED
      BY <2>1 DEF PlanInv, Frozen, TargetsInv, Planned
  <1>2. /\ \A i \in DOMAIN ls : ls[i].price \in Nat
        /\ e.boundary = Targets!Boundary(ls, r.direction)
    BY <1>1, EstimateNumbers
  <1>3. IsFiniteSet(trades) /\ \A f \in trades : f.quantity \in Nat \ {0} /\ f.price \in Int
    BY DEF TargetsInv, Traded
  <1>4. IsFiniteSet(fs) /\ \A f \in fs : f.quantity \in Nat \ {0} /\ f.price \in Int
    BY <1>3, FS_Subset
  <1>5. PICK c \in Int : c = Targets!Cost(fs)
    BY <1>4, FilledForm
  <1>6. PICK q \in Nat \ {0} : q = Targets!Filled(fs)
    BY <1>4, FilledForm
  <1>7. PICK rules : rules = r.policy
    OBVIOUS
  <1>8. PICK dir \in {"LONG", "SHORT"} : dir = r.direction
    BY RequestForm
  <1>9. Whole \in Nat \ {0} /\ rules.distance \in Int
    BY <1>7, RequestForm
  <1>10. PICK side \in Int : side = Targets!Side(dir)
    <2>1. Targets!Side(dir) \in Int
      BY DEF Targets!Side
    <2> QED
      BY <2>1
  <1>11. PICK s \in Int : s = Targets!SkewedStop(c * (Whole - Targets!Side(dir) * rules.distance),
                                                 q * Whole, dir, skew)
    <2>1. PICK w \in Nat \ {0} : w = Whole
      BY <1>9
    <2>2. PICK distance \in Int : distance = rules.distance
      BY <1>9
    <2>3. PICK n \in Int : n = c * (w - side * distance)
      OBVIOUS
    <2>4. PICK d \in Nat \ {0} : d = q * w
      OBVIOUS
    <2>5. Targets!SkewedStop(n, d, dir, skew) \in Int
      BY SkewedStopForm
    <2> QED
      BY <1>10, <2>1, <2>2, <2>3, <2>4, <2>5
  <1>12. IsFiniteSet(DOMAIN ls) /\ DOMAIN ls # {}
    BY <1>1, RequestForm
  <1>13. CASE Targets!Layered(ls)
    <2>1. PICK b \in Nat : b = Targets!Boundary(ls, dir) /\ b = e.boundary
      BY <1>2, <1>8, <1>12, BoundaryNearest
    <2>2. Targets!DistanceStop(fs, skew) = Targets!Farther(s, b - side, dir)
      BY <1>5, <1>6, <1>7, <1>8, <1>10, <1>11, <1>13, <2>1 DEF Targets!DistanceStop
    <2>3. CASE dir = "LONG"
      <3>1. side = 1
        BY <1>10, <2>3 DEF Targets!Side
      <3>2. PICK t \in Int : t = Targets!DistanceStop(fs, skew) /\ t <= b - 1
        <4>1. PICK x \in Int : x = b - 1
          OBVIOUS
        <4>2. Targets!Min({s, x}) \in {s, x} /\ Targets!Min({s, x}) <= x
          BY PairForm
        <4>3. Targets!DistanceStop(fs, skew) = Targets!Min({s, x})
          BY <2>2, <2>3, <3>1, <4>1 DEF Targets!Farther
        <4> QED
          BY <4>1, <4>2, <4>3
      <3>3. ASSUME NEW i \in DOMAIN ls
            PROVE  t < ls[i].price
        <4>1. PICK p \in Nat : p = ls[i].price
          BY <1>2
        <4>2. b <= p
          BY <1>2, <1>12, <2>1, <2>3, <4>1, BoundaryNearest
        <4>3. t < p
          BY <3>2, <4>2
        <4> QED
          BY <4>1, <4>3
      <3> QED
        BY <1>8, <2>3, <3>2, <3>3 DEF Clears
    <2>4. CASE dir = "SHORT"
      <3>1. side = -1
        BY <1>10, <2>4 DEF Targets!Side
      <3>2. PICK t \in Int : t = Targets!DistanceStop(fs, skew) /\ b + 1 <= t
        <4>1. PICK x \in Int : x = b + 1 /\ x = b - side
          BY <3>1
        <4>2. Targets!Max({s, x}) \in {s, x} /\ Targets!Max({s, x}) >= x
          BY PairForm
        <4>3. Targets!DistanceStop(fs, skew) = Targets!Max({s, x})
          BY <2>2, <2>4, <4>1 DEF Targets!Farther
        <4> QED
          BY <4>1, <4>2, <4>3
      <3>3. ASSUME NEW i \in DOMAIN ls
            PROVE  ls[i].price < t
        <4>1. PICK p \in Nat : p = ls[i].price
          BY <1>2
        <4>2. p <= b
          BY <1>2, <1>12, <2>1, <2>4, <4>1, BoundaryNearest
        <4>3. p < t
          BY <3>2, <4>2
        <4> QED
          BY <4>1, <4>3
      <3> QED
        BY <1>8, <2>4, <3>2, <3>3 DEF Clears
    <2> QED
      BY <2>3, <2>4
  <1>14. CASE ~Targets!Layered(ls)
    <2>1. Targets!DistanceStop(fs, skew) = s
      BY <1>5, <1>6, <1>7, <1>8, <1>10, <1>11, <1>14 DEF Targets!DistanceStop
    <2>2. PICK j \in DOMAIN ls : TRUE
      BY <1>12
    <2>3. PICK p \in Nat : p = ls[j].price
      BY <1>2
    <2>4. \A i \in DOMAIN ls : ls[i].price = p
      <3>1. \A i, k \in DOMAIN ls : ls[i].price = ls[k].price
        BY <1>2, <1>12, <1>14, SinglePrice
      <3> QED
        BY <2>3, <3>1
    <2>5. \A f \in fs : f.price = p
      BY <2>4 DEF PlanInv, Placed
    <2>6. c = p * q
      <3>1. \A f \in fs : f.quantity \in Nat /\ f.price \in Int
        BY <1>4
      <3>2. p \in Int
        OBVIOUS
      <3> QED
        BY <1>4, <1>5, <1>6, <2>5, <3>1, <3>2, CostForm
    <2>7. Targets!CompileTargets(rules, dir, p) # Error
      BY <1>1, <1>7, <1>8, <2>2, <2>3 DEF Targets!HasIssue
    <2>8. Clears(s, p, dir)
      <3>1. p \in Int /\ skew \in Targets!Skews(c, q)
        BY <1>5, <1>6
      <3> QED
        BY <1>9, <1>11, <2>6, <2>7, <3>1, OnePriceStop
    <2> QED
      BY <1>8, <2>1, <2>4, <2>8
  <1> QED
    BY <1>13, <1>14

\* So neither the average entry nor a planned one is reached by the shared stop.
LEMMA NoConflict ==
  ASSUME Targets!TargetsAssumption, Targets!RequestsAssumption, TargetsInv, PlanInv,
         NEW r \in Requests, r = plan, NEW ls, ls = legs, NEW e, e = estimate, e # None,
         e.skew # -1, ~r.market,
         \A f \in trades : f.price = ls[f.leg].price,
         NEW fs \in SUBSET trades, fs # {},
         NEW skew \in Targets!Skews(Targets!Cost(fs), Targets!Filled(fs))
  PROVE  ~Targets!Conflict(fs, Targets!AggregateStop(fs, skew))
  <1>1. PICK dir \in {"LONG", "SHORT"} : dir = r.direction
    BY RequestForm
  <1>2. PICK near \in Int : /\ near = Targets!BudgetStop(fs)
                            /\ \A i \in DOMAIN ls : Clears(near, ls[i].price, dir)
    BY <1>1, BudgetClears
  <1>3. PICK far \in Int : /\ far = Targets!DistanceStop(fs, skew)
                           /\ \A i \in DOMAIN ls : Clears(far, ls[i].price, dir)
    BY <1>1, DistanceClears
  <1>4. PICK s \in Int : /\ s = Targets!AggregateStop(fs, skew)
                         /\ \A i \in DOMAIN ls : Clears(s, ls[i].price, dir)
    <2>1. Targets!Max({far, near}) \in {far, near} /\ Targets!Min({far, near}) \in {far, near}
      BY PairForm
    <2>2. Targets!AggregateStop(fs, skew) \in {far, near}
      BY <1>1, <1>2, <1>3, <2>1 DEF Targets!AggregateStop, Targets!Nearer
    <2> QED
      BY <1>2, <1>3, <2>2
  <1>5. ls = Targets!NormalizedLegs(r) /\ ~Targets!HasIssue(r, ls) /\ e \in Targets!Estimates(r, ls)
    <2>1. r # NoPlan
      BY RequestForm
    <2> QED
      BY <2>1 DEF PlanInv, Frozen, TargetsInv, Planned
  <1>6. /\ IsFiniteSet(DOMAIN ls) /\ DOMAIN ls # {} /\ \A i \in DOMAIN ls : ls[i].price \in Nat
        /\ e.boundary = Targets!Boundary(ls, dir)
    BY <1>1, <1>5, RequestForm, EstimateNumbers
  <1>7. IsFiniteSet(trades) /\ \A f \in trades : f.quantity \in Nat \ {0} /\ f.price \in Int
    BY DEF TargetsInv, Traded
  <1>8. /\ IsFiniteSet(fs)
        /\ \A f \in fs : f.quantity \in Nat \ {0} /\ f.quantity \in Nat /\ f.price \in Int
        /\ \A f \in fs : Clears(s, f.price, dir)
    <2>1. \A f \in fs : f.leg \in DOMAIN ls /\ f.price = ls[f.leg].price
      BY DEF PlanInv, Placed
    <2> QED
      BY <1>4, <1>7, <2>1, FS_Subset
  <1>9. PICK c \in Int : c = Targets!Cost(fs)
    BY <1>8, FilledForm
  <1>10. PICK q \in Nat \ {0} : q = Targets!Filled(fs)
    BY <1>8, FilledForm
  <1>11. PICK b \in Nat : /\ b = Targets!Boundary(ls, dir) /\ b = e.boundary
                          /\ \E i \in DOMAIN ls : b = ls[i].price
    BY <1>6, BoundaryNearest
  <1>12. Clears(s, b, dir)
    BY <1>4, <1>11
  <1>13. CASE dir = "LONG"
    <2>1. (s + 1) * q <= c
      <3>1. PICK p \in Int : p = s + 1
        OBVIOUS
      <3>2. \A f \in fs : p <= f.price
        BY <1>8, <1>13, <3>1 DEF Clears
      <3>3. p * q <= c
        BY <1>8, <1>9, <1>10, <3>2, CostForm
      <3> QED
        BY <3>1, <3>3
    <2>2. 1 * (c - q * s) > 0
      <3>1. (s + 1) * q = q * s + q
        OBVIOUS
      <3>2. PICK x \in Int : x = q * s
        OBVIOUS
      <3>3. x + q <= c
        BY <2>1, <3>1, <3>2
      <3>4. 1 * (c - x) > 0
        BY <3>3
      <3> QED
        BY <3>2, <3>4
    <2>3. 1 * (b - 1 * s) > 0
      BY <1>12, <1>13 DEF Clears
    <2>4. Targets!Beyond(s, c, q, dir) /\ Targets!Beyond(s, b, 1, dir)
      BY <1>13, <2>2, <2>3 DEF Targets!Beyond, Targets!Side
    <2> QED
      BY <1>1, <1>4, <1>9, <1>10, <1>11, <2>4 DEF Targets!Conflict
  <1>14. CASE dir = "SHORT"
    <2>1. c <= (s - 1) * q
      <3>1. PICK p \in Int : p = s - 1
        OBVIOUS
      <3>2. \A f \in fs : f.price <= p
        BY <1>8, <1>14, <3>1 DEF Clears
      <3>3. c <= p * q
        BY <1>8, <1>9, <1>10, <3>2, CostForm
      <3> QED
        BY <3>1, <3>3
    <2>2. (-1) * (c - q * s) > 0
      <3>1. (s - 1) * q = q * s - q
        OBVIOUS
      <3>2. PICK x \in Int : x = q * s
        OBVIOUS
      <3>3. c <= x - q
        BY <2>1, <3>1, <3>2
      <3>4. (-1) * (c - x) > 0
        BY <3>3
      <3> QED
        BY <3>2, <3>4
    <2>3. (-1) * (b - 1 * s) > 0
      BY <1>12, <1>14 DEF Clears
    <2>4. Targets!Beyond(s, c, q, dir) /\ Targets!Beyond(s, b, 1, dir)
      BY <1>14, <2>2, <2>3 DEF Targets!Beyond, Targets!Side
    <2> QED
      BY <1>1, <1>4, <1>9, <1>10, <1>11, <2>4 DEF Targets!Conflict
  <1> QED
    BY <1>13, <1>14

\* The planned prices and parts are within the reach of the invariants.
LEMMA PlannedAccepted ==
  ASSUME Targets!TargetsAssumption, Targets!RequestsAssumption, TargetsInv, PlanInv
  PROVE  Targets!PlannedFillsAreAccepted
  <1> SUFFICES ASSUME estimate # None, estimate.skew # -1, ~plan.market,
                      \A f \in trades : f.price = legs[f.leg].price,
                      NEW f \in trades \ Targets!Recorded,
                      NEW skew \in Targets!Skews(Targets!Cost(Targets!Recorded \cup {f}),
                                                 Targets!Filled(Targets!Recorded \cup {f}))
               PROVE  ~Targets!Conflict(Targets!Recorded \cup {f},
                                        Targets!AggregateStop(Targets!Recorded \cup {f}, skew))
    BY DEF Targets!PlannedFillsAreAccepted
  <1>1. PICK fs : fs = Targets!Recorded \cup {f}
    OBVIOUS
  <1>2. fs \in SUBSET trades /\ fs # {}
    BY <1>1 DEF TargetsInv, Traded
  <1>3. PICK r \in Requests : r = plan
    BY DEF TargetsInv, Unplanned, Planned
  <1>4. PICK ls : ls = legs
    OBVIOUS
  <1>5. PICK e : e = estimate
    OBVIOUS
  <1>6. skew \in Targets!Skews(Targets!Cost(fs), Targets!Filled(fs))
    BY <1>1
  <1>7. e # None /\ e.skew # -1 /\ ~r.market /\ \A g \in trades : g.price = ls[g.leg].price
    BY <1>3, <1>4, <1>5
  <1>8. ~Targets!Conflict(fs, Targets!AggregateStop(fs, skew))
    BY <1>2, <1>3, <1>4, <1>5, <1>6, <1>7, NoConflict
  <1> QED
    BY <1>1, <1>8

\* A leg never trades more than it is for.
LEMMA PlacedStep ==
  ASSUME Targets!TargetsAssumption, Targets!RequestsAssumption, TargetsInv, PlanInv,
         NEW i \in DOMAIN legs, NEW price \in Targets!TradePrices(i),
         NEW quantity \in 1..Targets!Unfilled(i), Targets!Trade(i, price, quantity)
  PROVE  PlanInv'
  <1>1. PICK number : trades' = trades \cup {[id |-> number, leg |-> i, price |-> price, quantity |-> quantity]}
    BY DEF Targets!Trade
  <1>2. PICK t : /\ t = [id |-> number, leg |-> i, price |-> price, quantity |-> quantity]
                 /\ trades' = trades \cup {t}
                 /\ plan' = plan /\ legs' = legs /\ estimate' = estimate
    BY <1>1 DEF Targets!Trade
  <1>3. t.leg = i /\ t.quantity = quantity /\ t.price = price
    BY <1>2
  <1>4. Frozen'
    BY <1>2 DEF PlanInv, Frozen, Targets!HasIssue, Targets!Estimates
  <1>5. \A f \in trades' : f.leg \in DOMAIN legs'
    BY <1>2, <1>3 DEF PlanInv, Placed
  <1>6. TargetsInv'
    BY TradeStep
  <1>7. IsFiniteSet(trades') /\ \A f \in trades' : f.quantity \in Nat \ {0} /\ f.price \in Int
    BY <1>6 DEF TargetsInv, Traded
  <1>8. legs[i].quantity \in Nat
    <2>1. plan # NoPlan
      <3>1. legs # <<>>
        OBVIOUS
      <3> QED
        BY <3>1 DEF TargetsInv, Unplanned
    <2>2. PICK r \in Requests : r = plan /\ legs = Targets!NormalizedLegs(r)
      BY <2>1 DEF TargetsInv, Planned
    <2>3. PICK ls : ls = Targets!NormalizedLegs(r)
      OBVIOUS
    <2>4. \A j \in DOMAIN ls : ls[j].quantity \in Nat
      BY <2>3, RequestForm
    <2> QED
      BY <2>2, <2>3, <2>4
  <1>9. ASSUME NEW j \in DOMAIN legs
        PROVE  Targets!Filled({f \in trades' : f.leg = j}) <= legs[j].quantity
    <2>1. PICK S : S = {f \in trades : f.leg = j}
      OBVIOUS
    <2>2. PICK T : T = {f \in trades' : f.leg = j}
      OBVIOUS
    <2>3. Targets!Filled(S) <= legs[j].quantity
      BY <2>1 DEF PlanInv, Placed
    <2>4. CASE T = S
      BY <2>2, <2>3, <2>4
    <2>5. CASE T # S
      <3>1. j = i /\ T = S \cup {t} /\ t \notin S
        BY <1>2, <1>3, <2>1, <2>2, <2>5
      <3>2. T \ {t} = S
        BY <3>1
      <3>3. IsFiniteSet(T) /\ IsFiniteSet(S) /\ t \in T /\ S \in SUBSET T
        <4>1. IsFiniteSet(T)
          BY <1>7, <2>2, FS_Subset
        <4> QED
          BY <3>1, <4>1, FS_Subset
      <3>4. PICK q : q = [f \in T |-> f.quantity]
        OBVIOUS
      <3>5. PICK c : c = [f \in T |-> f.quantity * f.price]
        OBVIOUS
      <3>6. \A f \in T : /\ q[f] \in Int /\ q[f] = f.quantity
                         /\ c[f] \in Int /\ c[f] = f.quantity * f.price
        BY <1>7, <2>2, <3>4, <3>5
      <3>7. Targets!Filled(T) = Sum(q, T)
        BY <3>3, <3>6, FilledSum
      <3>8. Targets!Filled(S) = Sum(q, S)
        <4>1. \A f \in S : /\ q[f] \in Int /\ q[f] = f.quantity
                           /\ c[f] \in Int /\ c[f] = f.quantity * f.price
          BY <3>3, <3>6
        <4> QED
          BY <3>3, <4>1, FilledSum
      <3>9. Sum(q, S) \in Int /\ Sum(q, T) = q[t] + Sum(q, S)
        BY <3>2, <3>3, <3>6, SumRemove
      <3>10. q[t] = quantity
        BY <1>3, <3>3, <3>6
      <3>11. PICK x \in Int : x = Targets!Filled(S)
        BY <3>8, <3>9
      <3>12. PICK n \in Int : n = legs[i].quantity
        BY <1>8
      <3>13. Targets!Unfilled(i) = n - x
        BY <2>1, <3>1, <3>11, <3>12 DEF Targets!Unfilled
      <3>14. quantity \in Int /\ quantity + x <= n
        <4>1. quantity \in 1..(n - x)
          BY <3>13
        <4> QED
          BY <4>1
      <3>15. Targets!Filled(T) = quantity + x
        BY <3>7, <3>8, <3>9, <3>10, <3>11
      <3> QED
        BY <2>2, <3>1, <3>12, <3>14, <3>15
    <2> QED
      BY <2>4, <2>5
  <1>10. Placed'
    BY <1>2, <1>5, <1>9 DEF Placed
  <1> QED
    BY <1>4, <1>10 DEF PlanInv

\* Nothing has traded when a plan is activated.
LEMMA FrozenStep ==
  ASSUME Targets!TargetsAssumption, Targets!RequestsAssumption, TargetsInv,
         NEW r \in Requests, Targets!ActivateVersion(r)
  PROVE  PlanInv'
  <1>1. /\ plan = NoPlan /\ ~Targets!HasIssue(r, Targets!NormalizedLegs(r))
        /\ plan' = r /\ legs' = Targets!NormalizedLegs(r)
        /\ estimate' \in Targets!Estimates(r, Targets!NormalizedLegs(r))
        /\ trades' = trades
    BY DEF Targets!ActivateVersion
  <1>2. trades' = {}
    BY <1>1 DEF TargetsInv, Unplanned
  <1>3. Frozen'
    BY <1>1 DEF Frozen
  <1>4. Placed'
    <2>1. PICK ls : ls = Targets!NormalizedLegs(r)
      OBVIOUS
    <2>2. \A i \in DOMAIN ls : ls[i].quantity \in Nat
      BY <2>1, RequestForm
    <2>3. Targets!Filled({}) = 0
      <3>1. IsFiniteSet({})
        BY FS_EmptySet
      <3>2. PICK q : q = [f \in {} |-> 0]
        OBVIOUS
      <3>3. Targets!Filled({}) = Sum(q, {})
        BY <3>1, FilledSum
      <3>4. Sum(q, {}) = 0
        BY <3>1, SumForm
      <3> QED
        BY <3>3, <3>4
    <2>4. legs' = ls
      BY <1>1, <2>1
    <2>5. ASSUME NEW i \in DOMAIN ls
          PROVE  Targets!Filled({f \in trades' : f.leg = i}) <= ls[i].quantity
      <3>1. PICK S : S = {f \in trades' : f.leg = i}
        OBVIOUS
      <3>2. S = {}
        BY <1>2, <3>1
      <3>3. PICK n \in Nat : n = ls[i].quantity
        BY <2>2
      <3>4. 0 <= n
        OBVIOUS
      <3> QED
        BY <2>3, <3>1, <3>2, <3>3, <3>4
    <2> QED
      BY <1>2, <2>4, <2>5 DEF Placed
  <1> QED
    BY <1>3, <1>4 DEF PlanInv

\* The plan stays as it was activated, and no leg trades more than it is for.
LEMMA PlanInvariance ==
  ASSUME Targets!TargetsAssumption, Targets!RequestsAssumption
  PROVE  Targets!Spec => []PlanInv
  <1>1. TargetsInv /\ PlanInv /\ [Targets!Next]_(Targets!vars) => PlanInv'
    <2> SUFFICES ASSUME TargetsInv, PlanInv, [Targets!Next]_(Targets!vars)
                 PROVE  PlanInv'
      OBVIOUS
    <2>1. ASSUME NEW r \in Requests, Targets!ActivateVersion(r)
          PROVE  PlanInv'
      BY <2>1, FrozenStep
    <2>2. ASSUME NEW i \in DOMAIN legs, NEW price \in Targets!TradePrices(i),
                 NEW quantity \in 1..Targets!Unfilled(i), Targets!Trade(i, price, quantity)
          PROVE  PlanInv'
      BY <2>2, PlacedStep
    <2>3. ASSUME plan' = plan, legs' = legs, estimate' = estimate, trades' = trades
          PROVE  PlanInv'
      BY <2>3 DEF PlanInv, Frozen, Placed, Targets!HasIssue, Targets!Estimates
    <2>4. ASSUME NEW f \in trades, Targets!RecordFill(f)
          PROVE  PlanInv'
      BY <2>3, <2>4 DEF Targets!RecordFill
    <2>5. CASE UNCHANGED Targets!vars
      BY <2>3, <2>5 DEF Targets!vars
    <2> QED
      BY <2>1, <2>2, <2>4, <2>5 DEF Targets!Next
  <1>2. Targets!Init => PlanInv
    <2> SUFFICES ASSUME Targets!Init
                 PROVE  PlanInv
      OBVIOUS
    <2>1. plan = NoPlan /\ legs = <<>> /\ trades = {}
      BY DEF Targets!Init
    <2>2. DOMAIN legs = {}
      BY <2>1
    <2> QED
      BY <2>1, <2>2 DEF PlanInv, Frozen, Placed
  <1> QED
    BY <1>1, <1>2, TargetsInvariance, PTL DEF Targets!Spec

\* PlannedFillsAreAccepted: whatever the ladder, the amounts, the rates and the budget, and in
\* whatever parts and order fills at exactly the planned prices come, none is refused as
\* a conflict with the loss frozen at activation, unless the division behind that loss rounded
\* it down (_compile_full_fill_protection_estimate, _aggregate_direct_protection_targets).
THEOREM PlannedFillsFit ==
  ASSUME Targets!TargetsAssumption, Targets!RequestsAssumption
  PROVE  Targets!Spec => []Targets!PlannedFillsAreAccepted
  <1>1. TargetsInv /\ PlanInv => Targets!PlannedFillsAreAccepted
    BY PlannedAccepted
  <1> QED
    BY <1>1, TargetsInvariance, PlanInvariance, PTL

-----------------------------------------------------------------------------
(***************************************************************************)
(* The replacement of the protections of one fill.  What its reducers may  *)
(* trade is a sum as well, so its proof stands here.  The instance renames *)
(* what is taken above.                                                    *)
(*                                                                         *)
(* Two things of the rows carry the argument.  A replacement that was to   *)
(* wait is called only when the end of its predecessor is on record, and   *)
(* an end on record is an end at the venue.  And the take-profits form a   *)
(* ladder: the next one is made when the one before it was proven never to *)
(* have been submitted, a market reduction when the trigger of the last    *)
(* one had been crossed, so that one of them all can trade.                *)
(***************************************************************************)

CONSTANTS Bases, Fills, MaxAdjustments, Portion, Policies, Failures
VARIABLES policy, revision, aim, orders, round, done, conflict

Swap == INSTANCE ProtectionReplacement WITH
  Lot <- Portion, Faults <- Failures, base <- aim, pass <- round

\* Finite sets of naturals have extremes.
LEMMA ExtremesForm ==
  ASSUME NEW S \in SUBSET Nat, S # {}, IsFiniteSet(S)
  PROVE  /\ Swap!Min(S) \in S /\ \A n \in S : Swap!Min(S) <= n
         /\ Swap!Max(S) \in S /\ \A n \in S : n <= Swap!Max(S)
  BY ExtremeForm DEF Targets!Min, Targets!Max, Swap!Min, Swap!Max

\* The rows of the actions.
Calls  == {"READY", "ASKED", "SENT", "OPEN", "NOT_SUBMITTED"}
Venues == {"NONE", "LIVE", "CANCELLED", "REJECTED", "CROSSED", "FILLED"}
ActionRows ==
  [kind : Swap!Kinds, step : Nat, price : Nat, size : Nat, pred : Nat, state : Calls, over : BOOLEAN,
   cancel : BOOLEAN, late : BOOLEAN, waited : BOOLEAN, venue : Venues, traded : Nat, recorded : Nat]

\* A row agrees with its order.
Sound(a) ==
  /\ a.size \in 1..Portion
  /\ a.recorded <= a.traded /\ a.traded <= a.size
  /\ a.venue # "NONE" => a.state \in {"SENT", "OPEN"}
  /\ a.state = "OPEN" => a.venue # "NONE"
  /\ a.over => a.venue \notin {"NONE", "LIVE"}
  /\ a.venue \in {"NONE", "CROSSED", "REJECTED"} => a.traded = 0
  /\ a.venue = "LIVE" => a.traded < a.size

\* A replacement names a stop before it, a market reduction the crossed take-profit
\* it stands for.
Linked(s, i) ==
  /\ s[i].pred \in 0..(i - 1)
  /\ s[i].kind \in {"AGGREGATE", "DYNAMIC"} => s[i].pred # 0
  /\ s[i].kind = "MARKET" => /\ s[i].pred # 0
                             /\ s[s[i].pred].kind = "TAKE_PROFIT"
                             /\ s[s[i].pred].over /\ s[s[i].pred].venue = "CROSSED"

Given == {"ASKED", "SENT", "OPEN"}

\* Who was to wait for the stop it replaces has waited.
Relieved(s, i) == s[i].waited /\ s[i].state \in Given => s[i].pred # 0 /\ s[s[i].pred].over

\* One take-profit after the other, and one reduction for each.
LadderForm(s) ==
  /\ \A i, k \in Swap!OfKind(s, "TAKE_PROFIT") : i < k => s[i].state = "NOT_SUBMITTED"
  /\ Swap!OfKind(s, "TAKE_PROFIT") # {} => \E i \in Swap!OfKind(s, "TAKE_PROFIT") : s[i].step = 0
  /\ \A i, k \in Swap!OfKind(s, "MARKET") : s[i].pred = s[k].pred => i = k

Good(s) ==
  /\ s \in Seq(ActionRows)
  /\ \A i \in DOMAIN s : Sound(s[i]) /\ Linked(s, i) /\ Relieved(s, i)
  /\ LadderForm(s)

\* What a pass has read.
Under ==
  [step : {"READ", "MANAGE"}, rev : Nat, base : Nat, held : Int, gap : BOOLEAN, overdue : BOOLEAN,
   crossed : Nat, shared : BOOLEAN]

StopsInv ==
  /\ policy \in Policies /\ revision \in 1..Fills /\ aim \in Bases
  /\ done \in {"NO", "EXIT", "STOPPED"} /\ conflict \in BOOLEAN
  /\ Good(orders)
  /\ round \in [Passes -> {Swap!Idle} \cup Under]

\* The fields of the rows.
LEMMA RowForm ==
  ASSUME NEW s, Good(s)
  PROVE  /\ Len(s) \in Nat /\ DOMAIN s = 1..Len(s) /\ s \in [DOMAIN s -> ActionRows]
         /\ \A i \in DOMAIN s :
              /\ i \in Nat \ {0} /\ s[i] \in ActionRows
              /\ s[i].kind \in Swap!Kinds
              /\ s[i].step \in Nat /\ s[i].price \in Nat /\ s[i].size \in Nat
              /\ s[i].pred \in Nat /\ s[i].state \in Calls /\ s[i].over \in BOOLEAN
              /\ s[i].venue \in Venues /\ s[i].traded \in Nat /\ s[i].recorded \in Nat
              /\ s[i].pred # 0 => s[i].pred \in DOMAIN s
  <1>1. s \in Seq(ActionRows)
    BY DEF Good
  <1>2. Len(s) \in Nat /\ DOMAIN s = 1..Len(s) /\ s \in [DOMAIN s -> ActionRows]
    BY <1>1
  <1>3. ASSUME NEW a \in ActionRows
        PROVE  /\ a.kind \in Swap!Kinds /\ a.step \in Nat /\ a.price \in Nat /\ a.size \in Nat
               /\ a.pred \in Nat /\ a.state \in Calls /\ a.over \in BOOLEAN
               /\ a.venue \in Venues /\ a.traded \in Nat /\ a.recorded \in Nat
    BY DEF ActionRows
  <1>4. ASSUME NEW i \in DOMAIN s, s[i].pred # 0
        PROVE  s[i].pred \in DOMAIN s
    <2>1. s[i].pred \in 0..(i - 1)
      BY DEF Good, Linked
    <2> QED
      BY <1>2, <1>4, <2>1
  <1>5. \A i \in DOMAIN s : i \in Nat \ {0} /\ s[i] \in ActionRows
    BY <1>2
  <1> QED
    BY <1>2, <1>3, <1>4, <1>5

\* How a row may move on.
Onward(s, a, b) ==
  /\ b \in ActionRows /\ Sound(b)
  /\ b.kind = a.kind /\ b.step = a.step /\ b.pred = a.pred
  /\ a.over => b.over /\ b.venue = a.venue
  /\ a.state = "NOT_SUBMITTED" => b.state = "NOT_SUBMITTED"
  /\ b.waited /\ b.state \in Given =>
       (a.waited /\ a.state \in Given) \/ (a.pred # 0 /\ s[a.pred].over)

\* Rows that all move on in this way stay good.
LEMMA Updated ==
  ASSUME NEW s, Good(s), NEW t \in [DOMAIN s -> ActionRows], \A i \in DOMAIN s : Onward(s, s[i], t[i])
  PROVE  Good(t)
  <1>1. /\ Len(s) \in Nat /\ DOMAIN s = 1..Len(s)
        /\ \A i \in DOMAIN s : s[i].pred # 0 => s[i].pred \in DOMAIN s
    BY RowForm
  <1>2. t \in Seq(ActionRows) /\ DOMAIN t = DOMAIN s
    <2>1. PICK n \in Nat : n = Len(s)
      BY <1>1
    <2>2. t \in [1..n -> ActionRows]
      BY <1>1, <2>1
    <2> QED
      BY <1>1, <2>2, SeqDef
  <1>3. ASSUME NEW i \in DOMAIN s
        PROVE  Sound(t[i]) /\ Linked(t, i) /\ Relieved(t, i)
    <2>1. /\ Sound(t[i]) /\ t[i].kind = s[i].kind /\ t[i].pred = s[i].pred
          /\ t[i].waited /\ t[i].state \in Given =>
               (s[i].waited /\ s[i].state \in Given) \/ (s[i].pred # 0 /\ s[s[i].pred].over)
      BY DEF Onward
    <2>2. Linked(s, i) /\ Relieved(s, i)
      BY DEF Good
    <2>3. s[i].pred # 0 =>
            /\ t[s[i].pred].kind = s[s[i].pred].kind
            /\ s[s[i].pred].over => t[s[i].pred].over /\ t[s[i].pred].venue = s[s[i].pred].venue
      BY <1>1 DEF Onward
    <2>4. Linked(t, i)
      BY <2>1, <2>2, <2>3 DEF Linked
    <2>5. Relieved(t, i)
      BY <2>1, <2>2, <2>3 DEF Relieved
    <2> QED
      BY <2>1, <2>4, <2>5
  <1>4. LadderForm(t)
    <2>1. /\ Swap!OfKind(t, "TAKE_PROFIT") = Swap!OfKind(s, "TAKE_PROFIT")
          /\ Swap!OfKind(t, "MARKET") = Swap!OfKind(s, "MARKET")
      BY <1>2 DEF Swap!OfKind, Onward
    <2>2. \A i \in DOMAIN s : /\ t[i].step = s[i].step /\ t[i].pred = s[i].pred
                              /\ s[i].state = "NOT_SUBMITTED" => t[i].state = "NOT_SUBMITTED"
      BY DEF Onward
    <2>3. LadderForm(s) /\ \A k : Swap!OfKind(s, k) \subseteq DOMAIN s
      BY DEF Good, Swap!OfKind
    <2> HIDE DEF Swap!OfKind
    <2> QED
      BY <2>1, <2>2, <2>3 DEF LadderForm
  <1> QED
    BY <1>2, <1>3, <1>4 DEF Good

Alike(a, b) ==
  /\ b.kind = a.kind /\ b.step = a.step /\ b.price = a.price /\ b.size = a.size /\ b.pred = a.pred

\* One field of a row changes, or two.
LEMMA StateRow ==
  ASSUME NEW a \in ActionRows, NEW x \in Calls, NEW b, b = [a EXCEPT !.state = x]
  PROVE  /\ b \in ActionRows /\ Alike(a, b) /\ b.state = x
         /\ b.over = a.over /\ b.waited = a.waited /\ b.venue = a.venue
         /\ b.traded = a.traded /\ b.recorded = a.recorded
  BY DEF ActionRows, Alike

\* A cancel is asked for.
LEMMA CancelRow ==
  ASSUME NEW a \in ActionRows, NEW b, b = [a EXCEPT !.cancel = TRUE]
  PROVE  /\ b \in ActionRows /\ Alike(a, b) /\ b.state = a.state
         /\ b.over = a.over /\ b.waited = a.waited /\ b.venue = a.venue
         /\ b.traded = a.traded /\ b.recorded = a.recorded
  BY DEF ActionRows, Alike

\* A call has had no answer for long.
LEMMA LateRow ==
  ASSUME NEW a \in ActionRows, NEW b, b = [a EXCEPT !.late = TRUE]
  PROVE  /\ b \in ActionRows /\ Alike(a, b) /\ b.state = a.state
         /\ b.over = a.over /\ b.waited = a.waited /\ b.venue = a.venue
         /\ b.traded = a.traded /\ b.recorded = a.recorded
  BY DEF ActionRows, Alike

\* The order ends or begins at the venue.
LEMMA VenueRow ==
  ASSUME NEW a \in ActionRows, NEW x \in Venues, NEW b, b = [a EXCEPT !.venue = x]
  PROVE  /\ b \in ActionRows /\ Alike(a, b) /\ b.state = a.state
         /\ b.over = a.over /\ b.waited = a.waited /\ b.venue = x
         /\ b.traded = a.traded /\ b.recorded = a.recorded
  BY DEF ActionRows, Alike

\* Nothing moves.
LEMMA Still ==
  ASSUME NEW s, NEW a \in ActionRows, Sound(a),
         a.waited /\ a.state \in Given => a.pred # 0 /\ s[a.pred].over
  PROVE  Onward(s, a, a)
  BY DEF Onward

\* A row of good rows.
LEMMA StillIn ==
  ASSUME NEW s, Good(s), NEW i \in DOMAIN s
  PROVE  Onward(s, s[i], s[i])
  BY RowForm, Still DEF Good, Relieved

\* What a pass does to the rows.
LEMMA AskForm ==
  ASSUME NEW s, Good(s), NEW S, NEW c,
         \A i \in DOMAIN s : i \in S /\ s[i].state = "READY" => ~Swap!Waits(s, c, i)
  PROVE  Good(Swap!Ask(s, S, Swap!Waited(s, c)))
  <1>1. PICK w : w = Swap!Waited(s, c)
    OBVIOUS
  <1>2. \A i \in DOMAIN s : w[i] = Swap!Handed(s, c, i) /\ w[i] \in BOOLEAN
    BY <1>1 DEF Swap!Waited, Swap!Handed
  <1>3. PICK t : t = Swap!Ask(s, S, w)
    OBVIOUS
  <1>4. /\ t = [i \in DOMAIN s |-> t[i]]
        /\ \A i \in DOMAIN s : t[i] = IF i \in S /\ s[i].state = "READY"
                                      THEN [s[i] EXCEPT !.state = "ASKED", !.waited = w[i]] ELSE s[i]
    BY <1>3 DEF Swap!Ask
  <1>5. ASSUME NEW i \in DOMAIN s
        PROVE  Onward(s, s[i], t[i]) /\ t[i] \in ActionRows
    <2>1. s[i] \in ActionRows /\ Sound(s[i]) /\ Linked(s, i)
      BY RowForm DEF Good
    <2>2. CASE i \in S /\ s[i].state = "READY"
      <3>1. PICK b : b = t[i]
        OBVIOUS
      <3>2. PICK v \in BOOLEAN : v = w[i]
        BY <1>2
      <3>3. b = [s[i] EXCEPT !.state = "ASKED", !.waited = v]
        BY <1>4, <2>2, <3>1, <3>2
      <3>4. /\ b \in ActionRows /\ Alike(s[i], b) /\ b.state = "ASKED"
            /\ b.over = s[i].over /\ b.waited = v /\ b.venue = s[i].venue
            /\ b.traded = s[i].traded /\ b.recorded = s[i].recorded
        <4>1. PICK a \in ActionRows : a = s[i]
          BY <2>1
        <4>2. b = [a EXCEPT !.state = "ASKED", !.waited = v]
          BY <3>3, <4>1
        <4>3. /\ b \in ActionRows /\ Alike(a, b) /\ b.state = "ASKED"
              /\ b.over = a.over /\ b.waited = v /\ b.venue = a.venue
              /\ b.traded = a.traded /\ b.recorded = a.recorded
          <5>1. PICK x \in Calls : x = "ASKED"
            BY DEF Calls
          <5>2. b = [a EXCEPT !.state = x, !.waited = v]
            BY <4>2, <5>1
          <5> QED
            BY <5>1, <5>2 DEF ActionRows, Alike
        <4> QED
          BY <4>1, <4>3, Zenon
      <3>5. Sound(b)
        BY <2>1, <2>2, <3>4 DEF Sound, Alike
      <3>6. v => s[i].pred # 0 /\ s[s[i].pred].over
        BY <1>2, <2>1, <2>2, <3>2 DEF Swap!Waits, Swap!Handed, Linked
      <3> QED
        BY <2>2, <3>1, <3>4, <3>5, <3>6 DEF Onward, Alike
    <2>3. CASE ~(i \in S /\ s[i].state = "READY")
      BY <1>4, <2>1, <2>3, StillIn
    <2> QED
      BY <2>2, <2>3
  <1>6. t \in [DOMAIN s -> ActionRows]
    BY <1>4, <1>5
  <1> QED
    BY <1>1, <1>3, <1>5, <1>6, Updated

\* A working order whose cancel is asked for.
LEMMA CancelledRow ==
  ASSUME NEW s, Good(s), NEW i \in DOMAIN s, NEW b, b = [s[i] EXCEPT !.cancel = TRUE]
  PROVE  Onward(s, s[i], b)
  <1>1. s[i] \in ActionRows /\ Sound(s[i]) /\ Relieved(s, i)
    BY RowForm DEF Good
  <1>2. /\ b \in ActionRows /\ Alike(s[i], b) /\ b.state = s[i].state
        /\ b.over = s[i].over /\ b.waited = s[i].waited /\ b.venue = s[i].venue
        /\ b.traded = s[i].traded /\ b.recorded = s[i].recorded
    BY <1>1, CancelRow
  <1>3. Sound(b)
    BY <1>1, <1>2 DEF Sound, Alike
  <1> QED
    BY <1>1, <1>2, <1>3 DEF Onward, Alike

\* Cancels.
LEMMA CancelForm ==
  ASSUME NEW s, Good(s), NEW S
  PROVE  /\ Good(Swap!Cancel(s, S))
         /\ \A i \in DOMAIN s : Onward(s, s[i], Swap!Cancel(s, S)[i])
  <1>1. PICK t : t = Swap!Cancel(s, S)
    OBVIOUS
  <1>2. /\ t = [i \in DOMAIN s |-> t[i]]
        /\ \A i \in DOMAIN s : t[i] = IF i \in S /\ Swap!Works(s, i)
                                      THEN [s[i] EXCEPT !.cancel = TRUE] ELSE s[i]
    BY <1>1 DEF Swap!Cancel
  <1>3. ASSUME NEW i \in DOMAIN s
        PROVE  Onward(s, s[i], t[i])
    BY <1>2, CancelledRow, StillIn
  <1>4. t \in [DOMAIN s -> ActionRows]
    BY <1>2, <1>3 DEF Onward
  <1> QED
    BY <1>1, <1>3, <1>4, Updated

\* A replacement is called, or the stop before it cancelled.
LEMMA AdvanceForm ==
  ASSUME NEW s, Good(s), NEW c, NEW i
  PROVE  Good(Swap!Advance(s, c, i))
  <1>1. CASE Swap!Waits(s, c, i)
    BY <1>1, CancelForm DEF Swap!Advance
  <1>2. CASE ~Swap!Waits(s, c, i)
    BY <1>2, AskForm DEF Swap!Advance
  <1> QED
    BY <1>1, <1>2

\* What must hold of the actions that are there when one is made.
Admits(s, a) ==
  /\ a \in ActionRows /\ a.size \in 1..Portion /\ a.state = "READY" /\ ~a.over /\ a.venue = "NONE"
  /\ a.traded = 0 /\ a.recorded = 0
  /\ a.pred \in 0..Len(s)
  /\ a.kind \in {"AGGREGATE", "DYNAMIC"} => a.pred # 0
  /\ a.kind = "TAKE_PROFIT" =>
       /\ \A i \in Swap!OfKind(s, "TAKE_PROFIT") : s[i].state = "NOT_SUBMITTED"
       /\ a.step = 0 \/ Swap!OfKind(s, "TAKE_PROFIT") # {}
  /\ a.kind = "MARKET" =>
       /\ a.pred # 0 /\ s[a.pred].kind = "TAKE_PROFIT"
       /\ s[a.pred].over /\ s[a.pred].venue = "CROSSED"
       /\ \A i \in Swap!OfKind(s, "MARKET") : s[i].pred # a.pred

\* An action that may be made is appended.
LEMMA Extended ==
  ASSUME NEW s, Good(s), NEW a, Admits(s, a)
  PROVE  Good(Append(s, a)) /\ DOMAIN Append(s, a) = 1..(Len(s) + 1)
  <1>1. /\ Len(s) \in Nat /\ DOMAIN s = 1..Len(s) /\ s \in Seq(ActionRows) /\ a \in ActionRows
        /\ \A i \in DOMAIN s : i \in Nat \ {0} /\ (s[i].pred # 0 => s[i].pred \in DOMAIN s)
    BY RowForm DEF Good, Admits
  <1>2. PICK n \in Nat : n = Len(s) + 1
    BY <1>1
  <1>3. PICK t \in Seq(ActionRows) : t = Append(s, a)
    BY <1>1, AppendProperties
  <1>4. /\ DOMAIN t = 1..n /\ t[n] = a /\ n \in DOMAIN t /\ n \notin DOMAIN s
        /\ \A i \in DOMAIN s : i \in DOMAIN t /\ t[i] = s[i] /\ i < n
        /\ \A i \in DOMAIN t : i = n \/ i \in DOMAIN s
    <2>1. /\ DOMAIN t = 1..n /\ t[n] = a /\ \A i \in 1..Len(s) : t[i] = s[i]
      BY <1>1, <1>2, <1>3, AppendProperties
    <2> QED
      BY <1>1, <1>2, <2>1
  <1>5. ASSUME NEW i \in DOMAIN s
        PROVE  Sound(t[i]) /\ Linked(t, i) /\ Relieved(t, i)
    <2>1. Sound(s[i]) /\ Linked(s, i) /\ Relieved(s, i)
      BY DEF Good
    <2>2. t[i] = s[i] /\ (s[i].pred # 0 => t[s[i].pred] = s[s[i].pred])
      BY <1>1, <1>4
    <2> QED
      BY <2>1, <2>2 DEF Linked, Relieved
  <1>6. Sound(t[n])
    BY <1>4 DEF Admits, Sound
  <1>7. Linked(t, n)
    <2>1. a.pred \in 0..(n - 1)
      BY <1>1, <1>2 DEF Admits
    <2>2. a.pred # 0 => a.pred \in DOMAIN s
      BY <1>1, <1>2, <2>1
    <2> QED
      BY <1>4, <2>1, <2>2 DEF Linked, Admits
  <1>8. Relieved(t, n)
    BY <1>4 DEF Relieved, Admits, Given
  <1>9. LadderForm(t)
    <2>1. ASSUME NEW kind
          PROVE  /\ Swap!OfKind(s, kind) \subseteq Swap!OfKind(t, kind)
                 /\ \A i \in Swap!OfKind(t, kind) : i \in Swap!OfKind(s, kind) \/ (i = n /\ a.kind = kind)
                 /\ \A i \in Swap!OfKind(s, kind) : i \in DOMAIN s /\ t[i] = s[i] /\ i < n
      BY <1>4 DEF Swap!OfKind
    <2>2. LadderForm(s)
      BY DEF Good
    <2>3. ASSUME NEW i \in Swap!OfKind(t, "TAKE_PROFIT"), NEW k \in Swap!OfKind(t, "TAKE_PROFIT"), i < k
          PROVE  t[i].state = "NOT_SUBMITTED"
      <3>1. i \in Swap!OfKind(s, "TAKE_PROFIT")
        <4>1. CASE i = n
          <5>1. k \in DOMAIN t
            BY DEF Swap!OfKind
          <5>2. ~(n < k)
            BY <1>2, <1>4, <5>1
          <5> QED
            BY <2>3, <4>1, <5>2
        <4> QED
          BY <2>1, <4>1
      <3>2. CASE k \in Swap!OfKind(s, "TAKE_PROFIT")
        BY <2>1, <2>2, <2>3, <3>1, <3>2 DEF LadderForm
      <3>3. CASE k = n /\ a.kind = "TAKE_PROFIT"
        BY <2>1, <3>1, <3>3 DEF Admits
      <3> QED
        BY <2>1, <3>2, <3>3
    <2>4. ASSUME Swap!OfKind(t, "TAKE_PROFIT") # {}
          PROVE  \E i \in Swap!OfKind(t, "TAKE_PROFIT") : t[i].step = 0
      <3>1. CASE Swap!OfKind(s, "TAKE_PROFIT") # {}
        BY <2>1, <2>2, <3>1 DEF LadderForm
      <3>2. CASE Swap!OfKind(s, "TAKE_PROFIT") = {}
        <4>1. n \in Swap!OfKind(t, "TAKE_PROFIT") /\ a.kind = "TAKE_PROFIT"
          BY <2>1, <2>4, <3>2
        <4> QED
          BY <1>4, <3>2, <4>1 DEF Admits
      <3> QED
        BY <3>1, <3>2
    <2>5. ASSUME NEW i \in Swap!OfKind(t, "MARKET"), NEW k \in Swap!OfKind(t, "MARKET"),
                 t[i].pred = t[k].pred
          PROVE  i = k
      BY <1>4, <2>1, <2>2, <2>5 DEF LadderForm, Admits
    <2> QED
      BY <2>3, <2>4, <2>5 DEF LadderForm
  <1> QED
    BY <1>2, <1>3, <1>4, <1>5, <1>6, <1>7, <1>8, <1>9 DEF Good

\* A replacement is made, and called or held back.
LEMMA ReplaceForm ==
  ASSUME Swap!BoundsAssumption, NEW s, Good(s), NEW c, NEW kind \in {"AGGREGATE", "DYNAMIC"},
         NEW step \in Nat, NEW price \in Nat, NEW pred \in DOMAIN s
  PROVE  Good(Swap!Replace(s, c, Swap!Action(kind, step, price, Portion, pred)))
  <1>1. Portion \in 1..Portion /\ Portion \in Nat
    BY DEF Swap!BoundsAssumption
  <1>2. PICK a : a = Swap!Action(kind, step, price, Portion, pred)
    OBVIOUS
  <1>3. kind \in Swap!Kinds /\ pred \in Nat /\ pred # 0 /\ pred \in 0..Len(s)
    BY RowForm DEF Swap!Kinds
  <1>4. /\ a \in ActionRows /\ a.kind = kind /\ a.size = Portion /\ a.pred = pred
        /\ a.state = "READY" /\ ~a.over /\ a.venue = "NONE" /\ a.traded = 0 /\ a.recorded = 0
    BY <1>1, <1>2, <1>3 DEF Swap!Action, ActionRows, Calls, Venues
  <1>5. Admits(s, a)
    BY <1>1, <1>3, <1>4 DEF Admits
  <1>6. Good(Append(s, a))
    BY <1>5, Extended
  <1> QED
    BY <1>2, <1>6, AdvanceForm DEF Swap!Replace

\* Finite sets of actions.
LEMMA ChosenForm ==
  ASSUME NEW s, Good(s), NEW S, S \subseteq DOMAIN s, S # {}
  PROVE  Swap!Max(S) \in S /\ Swap!Min(S) \in S /\ \A i \in S : i <= Swap!Max(S)
  <1>1. Len(s) \in Nat /\ DOMAIN s = 1..Len(s)
    BY RowForm
  <1>2. IsFiniteSet(S) /\ S \in SUBSET Nat
    <2>1. IsFiniteSet(1..Len(s)) /\ 1..Len(s) \subseteq Nat
      BY <1>1, FS_Interval
    <2> QED
      BY <1>1, <2>1, FS_Subset
  <1> QED
    BY <1>2, ExtremesForm

\* One of the tightest stops.
LEMMA TightestForm ==
  ASSUME NEW s, Good(s), Swap!WorkingStops(s) # {}
  PROVE  Swap!Tightest(s) \in DOMAIN s
  <1>1. PICK W : W = Swap!WorkingStops(s) /\ W \subseteq DOMAIN s
    BY DEF Swap!WorkingStops, Swap!StopsOf
  <1>2. \A i \in DOMAIN s : s[i].price \in Nat
    BY RowForm
  <1> DEFINE P == {s[i].price : i \in W}
             T == {i \in W : \A j \in W : s[j].price <= s[i].price}
  <1>3. P \in SUBSET Nat /\ P # {}
    BY <1>1, <1>2
  <1>4. IsFiniteSet(P)
    <2>1. IsFiniteSet(W)
      <3>1. Len(s) \in Nat /\ DOMAIN s = 1..Len(s)
        BY RowForm
      <3>2. IsFiniteSet(1..Len(s))
        BY <3>1, FS_Interval
      <3> QED
        BY <1>1, <3>1, <3>2, FS_Subset
    <2> DEFINE f == [i \in W |-> s[i].price]
    <2>2. f \in Surjection(W, P)
      BY DEF Surjection
    <2> HIDE DEF f, P
    <2> QED
      BY <2>1, <2>2, FS_Surjection
  <1> HIDE DEF P
  <1>5. PICK m \in P : \A n \in P : n <= m
    BY <1>3, <1>4, ExtremesForm
  <1>6. T # {} /\ T \subseteq DOMAIN s
    BY <1>1, <1>5 DEF P
  <1> HIDE DEF T
  <1>7. Swap!Min(T) \in T
    BY <1>6, ChosenForm
  <1> QED
    BY <1>1, <1>6, <1>7 DEF Swap!Tightest, T

\* Aggregate management of the stops.
LEMMA AggregateForm ==
  ASSUME Swap!BoundsAssumption, NEW s, Good(s), NEW c, c.rev \in Nat, c.base \in Nat
  PROVE  Good(Swap!Aggregate(s, c))
  <1>1. CASE Swap!Rebalances(s, c)
    <2>1. Swap!WorkingStops(s) # {} /\ Swap!WorkingStops(s) \subseteq DOMAIN s
      BY <1>1 DEF Swap!Rebalances, Swap!WorkingStops, Swap!StopsOf
    <2>2. Swap!Newest(s) \in DOMAIN s
      BY <2>1, ChosenForm DEF Swap!Newest
    <2> QED
      BY <1>1, <2>2, ReplaceForm DEF Swap!Aggregate
  <1>2. CASE ~Swap!Rebalances(s, c)
    <2>1. Swap!Aggregate(s, c) = s \/ (\E d : Swap!Aggregate(s, c) = Swap!Advance(s, c, d))
                              \/ (\E S : Swap!Aggregate(s, c) = Swap!Cancel(s, S))
      BY <1>2 DEF Swap!Aggregate
    <2> QED
      BY <2>1, AdvanceForm, CancelForm
  <1> QED
    BY <1>1, <1>2

\* A take-profit or a reduction waits for nothing.
LEMMA FreeForm ==
  ASSUME NEW s, NEW c, NEW i, s[i].kind \in Swap!Reducers
  PROVE  ~Swap!Waits(s, c, i)
  BY DEF Swap!Waits, Swap!Handed, Swap!Reducers

\* A reducer is made and called.
LEMMA MadeForm ==
  ASSUME NEW s, Good(s), NEW c, NEW a, Admits(s, a), a.kind \in Swap!Reducers,
         NEW t, t = Append(s, a)
  PROVE  Good(Swap!Ask(t, {Len(t)}, Swap!Waited(t, c)))
  <1>1. Good(t)
    BY Extended
  <1>2. t[Len(t)] = a
    <2>1. s \in Seq(ActionRows) /\ a \in ActionRows
      BY DEF Good, Admits
    <2>2. Len(t) = Len(s) + 1 /\ Append(s, a)[Len(s) + 1] = a
      BY <2>1, AppendProperties
    <2> QED
      BY <2>2
  <1>3. ~Swap!Waits(t, c, Len(t))
    BY <1>2, FreeForm
  <1> QED
    BY <1>1, <1>3, AskForm

\* A stale take-profit that was not called is given up.
LEMMA GivenUpRow ==
  ASSUME NEW s, Good(s), NEW i \in DOMAIN s, s[i].state = "READY",
         NEW b, b = [s[i] EXCEPT !.state = "NOT_SUBMITTED"]
  PROVE  Onward(s, s[i], b)
  <1>1. s[i] \in ActionRows /\ Sound(s[i])
    BY RowForm DEF Good
  <1>2. PICK x \in Calls : x = "NOT_SUBMITTED"
    BY DEF Calls
  <1>3. /\ b \in ActionRows /\ Alike(s[i], b) /\ b.state = x
        /\ b.over = s[i].over /\ b.waited = s[i].waited /\ b.venue = s[i].venue
        /\ b.traded = s[i].traded /\ b.recorded = s[i].recorded
    BY <1>1, <1>2, StateRow
  <1>4. Sound(b)
    BY <1>1, <1>2, <1>3 DEF Sound, Alike
  <1> QED
    BY <1>2, <1>3, <1>4 DEF Onward, Alike, Given

\* Aggregate management of the take-profits.
LEMMA TakeProfitsForm ==
  ASSUME Swap!BoundsAssumption, NEW s, Good(s), NEW c, c.rev \in Nat, c.base \in Nat
  PROVE  Good(Swap!TakeProfits(s, c))
  <1> DEFINE T == Swap!OfKind(s, "TAKE_PROFIT")
             made == {i \in T : s[i].step = c.rev}
             last == s[Swap!Max(T)]
  <1>1. T \subseteq DOMAIN s /\ \A i \in T : s[i].kind = "TAKE_PROFIT" /\ s[i].kind \in Swap!Reducers
    BY DEF Swap!OfKind, Swap!Reducers
  <1>2. CASE T = {}
    BY <1>2 DEF Swap!TakeProfits
  <1>3. CASE T # {} /\ made # {}
    <2>1. Swap!TakeProfits(s, c) = Swap!Ask(s, made, Swap!Waited(s, c))
      BY <1>3 DEF Swap!TakeProfits
    <2>2. \A i \in made : ~Swap!Waits(s, c, i)
      BY <1>1, FreeForm
    <2> HIDE DEF made
    <2> QED
      BY <2>1, <2>2, AskForm
  <1>4. CASE T # {} /\ made = {} /\ Swap!Stale(s, c) # {}
    <2> DEFINE u == Swap!Cancel(s, Swap!Stale(s, c))
               t == [i \in DOMAIN s |-> IF i \in Swap!Stale(s, c) /\ s[i].state = "READY"
                                        THEN [s[i] EXCEPT !.state = "NOT_SUBMITTED"] ELSE u[i]]
    <2>1. Swap!TakeProfits(s, c) = t
      BY <1>4 DEF Swap!TakeProfits
    <2>2. \A i \in DOMAIN s : Onward(s, s[i], u[i])
      BY CancelForm
    <2> HIDE DEF u
    <2>3. ASSUME NEW i \in DOMAIN s
          PROVE  Onward(s, s[i], t[i])
      <3>1. CASE i \in Swap!Stale(s, c) /\ s[i].state = "READY"
        <4>1. PICK b : b = [s[i] EXCEPT !.state = "NOT_SUBMITTED"]
          OBVIOUS
        <4>2. t[i] = b
          BY <3>1, <4>1
        <4> HIDE DEF t
        <4> QED
          BY <3>1, <4>1, <4>2, GivenUpRow
      <3>2. CASE ~(i \in Swap!Stale(s, c) /\ s[i].state = "READY")
        BY <2>2, <3>2
      <3> QED
        BY <3>1, <3>2
    <2>4. t = [i \in DOMAIN s |-> t[i]]
      OBVIOUS
    <2> HIDE DEF t
    <2>5. t \in [DOMAIN s -> ActionRows]
      BY <2>3, <2>4 DEF Onward
    <2> QED
      BY <2>1, <2>3, <2>5, Updated
  <1>5. CASE T # {} /\ made = {} /\ Swap!Stale(s, c) = {} /\ Swap!Rebuilds(s, c)
    <2>1. Swap!Max(T) \in T /\ \A i \in T : i <= Swap!Max(T)
      BY <1>1, <1>5, ChosenForm
    <2>2. /\ s[Swap!Max(T)].state \in Calls /\ s[Swap!Max(T)].size \in Nat
          /\ s[Swap!Max(T)].recorded \in Nat
          /\ Swap!Max(T) \in Nat /\ Sound(s[Swap!Max(T)])
      BY <1>1, <2>1, RowForm DEF Good
    <2>3. last.state = "NOT_SUBMITTED" /\ last.recorded < last.size
      BY <1>5, <2>2 DEF Swap!Rebuilds, Swap!Rebuildable, Calls
    <2>4. last.size - last.recorded \in 1..Portion /\ last.size - last.recorded \in Nat
      <3>1. last.size \in 1..Portion
        BY <2>2 DEF Sound
      <3>2. Portion \in Nat
        BY DEF Swap!BoundsAssumption
      <3> HIDE DEF last
      <3> QED
        BY <2>2, <2>3, <3>1, <3>2 DEF last
    <2>5. \A i \in T : s[i].state = "NOT_SUBMITTED"
      <3>1. ASSUME NEW i \in T
            PROVE  s[i].state = "NOT_SUBMITTED"
        <4>1. i \in Nat /\ i <= Swap!Max(T)
          BY <1>1, <2>1, RowForm
        <4>2. CASE i = Swap!Max(T)
          BY <2>3, <4>2
        <4>3. CASE i # Swap!Max(T)
          <5>1. i < Swap!Max(T)
            BY <2>2, <4>1, <4>3
          <5> QED
            BY <2>1, <5>1 DEF Good, LadderForm
        <4> QED
          BY <4>2, <4>3
      <3> QED
        BY <3>1
    <2>6. PICK m \in Nat : m = Swap!Max(T) /\ m \in 0..Len(s)
      BY <1>1, <2>1, RowForm
    <2>7. PICK n \in Nat : n = last.size - last.recorded /\ n \in 1..Portion
      BY <2>4
    <2>8. PICK a : a = Swap!Action("TAKE_PROFIT", c.rev, c.base, n, m)
      OBVIOUS
    <2>9. Admits(s, a) /\ a.kind \in Swap!Reducers
      <3>1. "TAKE_PROFIT" \in Swap!Kinds /\ "TAKE_PROFIT" \in Swap!Reducers
        BY DEF Swap!Kinds, Swap!Reducers
      <3>2. /\ a \in ActionRows /\ a.kind = "TAKE_PROFIT" /\ a.size = n /\ a.pred = m
            /\ a.state = "READY" /\ ~a.over /\ a.venue = "NONE" /\ a.traded = 0 /\ a.recorded = 0
        <4>1. PICK kind \in Swap!Kinds : kind = "TAKE_PROFIT"
          BY <3>1
        <4>2. a = Swap!Action(kind, c.rev, c.base, n, m)
          BY <2>8, <4>1
        <4> QED
          BY <4>1, <4>2 DEF Swap!Action, ActionRows, Calls, Venues
      <3> QED
        BY <1>5, <2>5, <2>6, <2>7, <3>1, <3>2 DEF Admits
    <2> DEFINE t == Append(s, Swap!Action("TAKE_PROFIT", c.rev, c.base, last.size - last.recorded,
                                          Swap!Max(T)))
    <2>10. Swap!TakeProfits(s, c) = Swap!Ask(t, {Len(t)}, Swap!Waited(t, c))
      BY <1>5 DEF Swap!TakeProfits
    <2>11. t = Append(s, a)
      BY <2>6, <2>7, <2>8
    <2> HIDE DEF t
    <2>12. Good(Swap!Ask(t, {Len(t)}, Swap!Waited(t, c)))
      BY <2>9, <2>11, MadeForm
    <2> QED
      BY <2>10, <2>12
  <1>6. CASE T # {} /\ made = {} /\ Swap!Stale(s, c) = {} /\ ~Swap!Rebuilds(s, c)
    BY <1>6 DEF Swap!TakeProfits
  <1> QED
    BY <1>2, <1>3, <1>4, <1>5, <1>6

\* What is READY is called, unless it waits.
LEMMA ResumedForm ==
  ASSUME NEW s, Good(s), NEW c
  PROVE  Good(Swap!Resumed(s, c))
  <1> DEFINE ready == {i \in DOMAIN s : s[i].state = "READY"}
             wait == {i \in ready : Swap!Waits(s, c, i)}
             t == Swap!Ask(s, ready \ wait, Swap!Waited(s, c))
  <1>1. Good(t)
    <2>1. \A i \in DOMAIN s : i \in ready \ wait => ~Swap!Waits(s, c, i)
      OBVIOUS
    <2> HIDE DEF ready, wait
    <2> QED
      BY <2>1, AskForm
  <1>2. Swap!Resumed(s, c) = Swap!Cancel(t, {s[i].pred : i \in wait})
    BY DEF Swap!Resumed
  <1> HIDE DEF t
  <1> QED
    BY <1>1, <1>2, CancelForm

\* The reduction that stands for a take-profit whose trigger was crossed.
LEMMA ReducedForm ==
  ASSUME Swap!BoundsAssumption, NEW s, Good(s), NEW c, c.held \in Int
  PROVE  Good(Swap!Reduced(s, c))
  <1>1. CASE Swap!CrossedOnes(s) = {} \/ c.held <= 0 \/ c.held # Swap!Held
    BY <1>1 DEF Swap!Reduced
  <1>2. CASE ~(Swap!CrossedOnes(s) = {} \/ c.held <= 0 \/ c.held # Swap!Held)
    <2>1. Swap!CrossedOnes(s) \subseteq DOMAIN s
      BY DEF Swap!CrossedOnes, Swap!OfKind
    <2>2. PICK i \in Swap!CrossedOnes(s) : i = Swap!Min(Swap!CrossedOnes(s))
      BY <1>2, <2>1, ChosenForm
    <2>3. /\ i \in DOMAIN s /\ s[i].size \in Nat /\ Sound(s[i]) /\ i \in 0..Len(s) /\ i # 0
          /\ i \in Nat
      BY <2>1, RowForm DEF Good
    <2>4. /\ s[i].kind = "TAKE_PROFIT" /\ s[i].over /\ s[i].venue = "CROSSED"
          /\ \A j \in Swap!OfKind(s, "MARKET") : s[j].pred # i
      BY DEF Swap!CrossedOnes, Swap!OfKind
    <2>5. PICK h \in Nat : h = c.held /\ h # 0
      BY <1>2
    <2>6. PICK n \in Nat : n = Swap!Min({s[i].size, h}) /\ n \in 1..Portion
      <3>1. {s[i].size, h} \in SUBSET Nat /\ IsFiniteSet({s[i].size, h})
        <4>1. PICK z \in Nat : z = s[i].size
          BY <2>3
        <4>2. IsFiniteSet({h})
          BY FS_Singleton
        <4>3. IsFiniteSet({h} \cup {z})
          BY <4>2, FS_AddElement
        <4>4. {h} \cup {z} = {s[i].size, h}
          BY <4>1
        <4> QED
          BY <4>1, <4>3, <4>4
      <3>2. /\ Swap!Min({s[i].size, h}) \in {s[i].size, h}
            /\ Swap!Min({s[i].size, h}) <= s[i].size
        BY <3>1, ExtremesForm
      <3>3. PICK m \in {s[i].size, h} : m = Swap!Min({s[i].size, h})
        BY <3>2
      <3>4. s[i].size \in 1..Portion /\ Portion \in Nat
        BY <2>3 DEF Sound, Swap!BoundsAssumption
      <3>5. m \in Nat /\ m # 0 /\ m <= s[i].size
        BY <2>5, <3>2, <3>3, <3>4
      <3> QED
        BY <3>3, <3>4, <3>5
    <2>7. PICK a : a = Swap!Action("MARKET", 0, 0, n, i)
      OBVIOUS
    <2>8. Admits(s, a) /\ a.kind \in Swap!Reducers
      <3>1. "MARKET" \in Swap!Kinds /\ "MARKET" \in Swap!Reducers
        BY DEF Swap!Kinds, Swap!Reducers
      <3>2. /\ a \in ActionRows /\ a.kind = "MARKET" /\ a.size = n /\ a.pred = i
            /\ a.state = "READY" /\ ~a.over /\ a.venue = "NONE" /\ a.traded = 0 /\ a.recorded = 0
        <4>1. PICK kind \in Swap!Kinds : kind = "MARKET"
          BY <3>1
        <4>2. a = Swap!Action(kind, 0, 0, n, i)
          BY <2>7, <4>1
        <4> QED
          BY <2>3, <4>1, <4>2 DEF Swap!Action, ActionRows, Calls, Venues
      <3> QED
        BY <2>3, <2>4, <2>6, <3>1, <3>2 DEF Admits
    <2> DEFINE j == Swap!Min(Swap!CrossedOnes(s))
               t == Append(s, Swap!Action("MARKET", 0, 0, Swap!Min({s[j].size, c.held}), j))
    <2>9. Swap!Reduced(s, c) = Swap!Ask(t, {Len(t)}, Swap!Waited(t, c))
      BY <1>2 DEF Swap!Reduced
    <2>10. t = Append(s, a)
      BY <2>2, <2>5, <2>6, <2>7
    <2> HIDE DEF t
    <2>11. Good(Swap!Ask(t, {Len(t)}, Swap!Waited(t, c)))
      BY <2>8, <2>10, MadeForm
    <2> QED
      BY <2>9, <2>11
  <1> QED
    BY <1>1, <1>2

\* Dynamic management.
LEMMA DynamicForm ==
  ASSUME Swap!BoundsAssumption, NEW s, Good(s), NEW c, c.base \in Nat, c.crossed \in Nat, NEW soon
  PROVE  Good(Swap!Dynamic(s, c, soon))
  <1>1. PICK price \in Nat : price = c.base + c.crossed
    OBVIOUS
  <1>2. \/ Swap!Dynamic(s, c, soon) = s
        \/ \E d : Swap!Dynamic(s, c, soon) = Swap!Advance(s, c, d)
        \/ \E S : Swap!Dynamic(s, c, soon) = Swap!Cancel(s, S)
        \/ /\ Swap!WorkingStops(s) # {}
           /\ Swap!Dynamic(s, c, soon) =
                Swap!Replace(s, c, Swap!Action("DYNAMIC", c.crossed, price, Portion, Swap!Tightest(s)))
    <2>1. CASE c.crossed = 0 \/ c.held <= 0 \/ Swap!WorkingStops(s) = {}
      BY <2>1 DEF Swap!Dynamic
    <2>2. CASE /\ ~(c.crossed = 0 \/ c.held <= 0 \/ Swap!WorkingStops(s) = {})
               /\ {i \in Swap!OfKind(s, "DYNAMIC") : s[i].step = c.crossed} # {}
      <3> DEFINE d == Swap!Max({i \in Swap!OfKind(s, "DYNAMIC") : s[i].step = c.crossed})
                 S == {i \in Swap!WorkingStops(s) \ {d} : c.base + c.crossed > s[i].price}
      <3>1. CASE s[d].state = "READY"
        BY <2>2, <3>1 DEF Swap!Dynamic
      <3>2. CASE s[d].state # "READY" /\ d \in Swap!WorkingStops(s)
        <4>1. Swap!Dynamic(s, c, soon) = Swap!Cancel(s, S)
          BY <2>2, <3>2 DEF Swap!Dynamic
        <4> HIDE DEF S
        <4> QED
          BY <4>1
      <3>3. CASE s[d].state # "READY" /\ d \notin Swap!WorkingStops(s)
        BY <2>2, <3>3 DEF Swap!Dynamic
      <3> QED
        BY <3>1, <3>2, <3>3
    <2>3. CASE /\ ~(c.crossed = 0 \/ c.held <= 0 \/ Swap!WorkingStops(s) = {})
               /\ {i \in Swap!OfKind(s, "DYNAMIC") : s[i].step = c.crossed} = {}
      BY <1>1, <2>3 DEF Swap!Dynamic
    <2> QED
      BY <2>1, <2>2, <2>3
  <1>3. Swap!WorkingStops(s) # {} => Swap!Tightest(s) \in DOMAIN s
    BY TightestForm
  <1> QED
    BY <1>1, <1>2, <1>3, AdvanceForm, CancelForm, ReplaceForm

\* What the records explain is a number.
LEMMA HeldForm ==
  ASSUME Swap!BoundsAssumption, Good(orders), revision \in Nat
  PROVE  Swap!Held \in Int
  <1>1. PICK S : S = DOMAIN orders
    OBVIOUS
  <1>2. IsFiniteSet(S) /\ \A i \in S : orders[i].recorded \in Nat
    <2>1. Len(orders) \in Nat /\ DOMAIN orders = 1..Len(orders)
      BY RowForm
    <2>2. IsFiniteSet(1..Len(orders))
      BY <2>1, FS_Interval
    <2> QED
      BY <1>1, <2>1, <2>2, RowForm
  <1> DEFINE f == [i \in S |-> orders[i].recorded]
             Q(h) == h = [s \in SUBSET S |->
                            IF s = {} THEN 0 ELSE orders[AnyOf(s)].recorded + h[s \ {AnyOf(s)}]]
  <1>3. \A x \in S : f[x] \in Nat /\ f[x] \in Int
    BY <1>2
  <1>4. Swap!MapThenSumSet(LAMBDA i : orders[i].recorded, S) = (CHOOSE h : Q(h))[S]
    BY DEF Swap!MapThenSumSet, Swap!MapThenFoldSet, AnyOf
  <1>5. \A s \in SUBSET S : s # {} => AnyOf(s) \in S /\ f[AnyOf(s)] = orders[AnyOf(s)].recorded
    BY AnyForm
  <1> HIDE DEF f
  <1>6. \A h : Q(h) <=> Folds(f, SUBSET S, h)
    BY <1>5 DEF Folds
  <1> HIDE DEF Q
  <1>7. \E h : Q(h)
    BY <1>2, <1>3, <1>6, FoldOfSum
  <1>8. PICK g : g = CHOOSE h : Q(h)
    OBVIOUS
  <1>9. Q(g)
    BY <1>7, <1>8
  <1>10. g[S] = Sum(f, S)
    BY <1>2, <1>3, <1>6, <1>9, FoldIsSum
  <1>11. Sum(f, S) \in Nat
    BY <1>2, <1>3, SumNat
  <1>12. PICK n \in Nat : n = Swap!MapThenSumSet(LAMBDA i : orders[i].recorded, S)
    BY <1>4, <1>8, <1>10, <1>11
  <1>13. Swap!Held = Portion * revision - n
    BY <1>1, <1>12 DEF Swap!Held
  <1>14. Portion \in Nat
    BY DEF Swap!BoundsAssumption
  <1> QED
    BY <1>13, <1>14

\* The first take-profit is made, or called.
LEMMA CreatedForm ==
  ASSUME Swap!BoundsAssumption, Good(orders), aim \in Bases
  PROVE  Good(Swap!Created)
  <1> DEFINE c == [shared |-> FALSE]
  <1>1. PICK s : s = orders
    OBVIOUS
  <1>2. Good(s) /\ Swap!First = Swap!OfKind(s, "TAKE_PROFIT") \cap {i \in DOMAIN s : s[i].step = 0}
    BY <1>1 DEF Swap!First
  <1>3. PICK d : d = c
    OBVIOUS
  <1> HIDE DEF c
  <1>4. CASE Swap!First # {}
    <2>1. Swap!Created = Swap!Ask(s, Swap!First, Swap!Waited(s, d))
      BY <1>1, <1>3, <1>4 DEF Swap!Created, c
    <2>2. \A i \in Swap!First : ~Swap!Waits(s, d, i)
      BY <1>2, FreeForm DEF Swap!OfKind, Swap!Reducers
    <2> QED
      BY <1>2, <2>1, <2>2, AskForm
  <1>5. CASE Swap!First = {}
    <2>1. Swap!OfKind(s, "TAKE_PROFIT") = {}
      BY <1>2, <1>5 DEF Good, LadderForm, Swap!OfKind
    <2>2. PICK n \in Nat : n = Portion /\ n \in 1..Portion
      BY DEF Swap!BoundsAssumption
    <2>3. PICK price \in Nat : price = aim
      BY DEF Swap!BoundsAssumption
    <2>4. PICK a : a = Swap!Action("TAKE_PROFIT", 0, price, n, 0)
      OBVIOUS
    <2>5. Admits(s, a) /\ a.kind \in Swap!Reducers
      <3>1. PICK kind \in Swap!Kinds : kind = "TAKE_PROFIT" /\ kind \in Swap!Reducers
        BY DEF Swap!Kinds, Swap!Reducers
      <3>2. a = Swap!Action(kind, 0, price, n, 0)
        BY <2>4, <3>1
      <3>3. /\ a \in ActionRows /\ a.kind = kind /\ a.step = 0 /\ a.size = n /\ a.pred = 0
            /\ a.state = "READY" /\ ~a.over /\ a.venue = "NONE" /\ a.traded = 0 /\ a.recorded = 0
        BY <3>2 DEF Swap!Action, ActionRows, Calls, Venues
      <3>4. 0 \in 0..Len(s)
        BY <1>2, RowForm
      <3> QED
        BY <2>1, <2>2, <3>1, <3>3, <3>4 DEF Admits
    <2>6. PICK t : t = Append(s, a)
      OBVIOUS
    <2>7. Swap!Created = Swap!Ask(t, {Len(t)}, Swap!Waited(t, d))
      BY <1>1, <1>3, <1>5, <2>2, <2>3, <2>4, <2>6 DEF Swap!Created, c
    <2> QED
      BY <1>2, <2>5, <2>6, <2>7, MadeForm
  <1> QED
    BY <1>4, <1>5

\* What follows aggregate management of the stops.
LEMMA ManagedForm ==
  ASSUME Swap!BoundsAssumption, NEW s1, Good(s1), NEW c \in Under, NEW t, t \in Swap!Managed(s1, c)
  PROVE  Good(t)
  <1> DEFINE s2 == IF c.gap THEN s1 ELSE Swap!TakeProfits(s1, c)
             s3 == Swap!Resumed(s2, c)
             s4 == Swap!Reduced(s3, c)
  <1>1. t \in (IF c.gap THEN {s4} ELSE {Swap!Dynamic(s4, c, soon) : soon \in BOOLEAN})
    BY DEF Swap!Managed
  <1>2. c.rev \in Nat /\ c.base \in Nat /\ c.held \in Int /\ c.crossed \in Nat
    BY DEF Under
  <1>3. Good(s2)
    BY <1>2, TakeProfitsForm
  <1> HIDE DEF s2
  <1>4. Good(s3)
    BY <1>3, ResumedForm
  <1> HIDE DEF s3
  <1>5. Good(s4)
    BY <1>2, <1>4, ReducedForm
  <1> HIDE DEF s4
  <1>6. \A soon : Good(Swap!Dynamic(s4, c, soon))
    BY <1>2, <1>5, DynamicForm
  <1> QED
    BY <1>1, <1>5, <1>6

\* A row that moves, and those that stay.
LEMMA NextRow ==
  ASSUME NEW s, NEW i, NEW b \in ActionRows, Sound(b), Relieved(s, i), Alike(s[i], b),
         s[i].over => b.over /\ b.venue = s[i].venue,
         s[i].state = "NOT_SUBMITTED" => b.state = "NOT_SUBMITTED",
         b.waited /\ b.state \in Given => s[i].waited /\ s[i].state \in Given
  PROVE  Onward(s, s[i], b)
  BY DEF Onward, Alike, Relieved

\* One row moves.
LEMMA ChangedForm ==
  ASSUME NEW s, Good(s), NEW i \in DOMAIN s, NEW b, Onward(s, s[i], b)
  PROVE  Good([s EXCEPT ![i] = b])
  <1>1. PICK t : t = [s EXCEPT ![i] = b]
    OBVIOUS
  <1>2. s \in [DOMAIN s -> ActionRows] /\ b \in ActionRows
    BY RowForm DEF Onward
  <1>3. t \in [DOMAIN s -> ActionRows] /\ \A j \in DOMAIN s : t[j] = IF j = i THEN b ELSE s[j]
    BY <1>1, <1>2
  <1>4. \A j \in DOMAIN s : Onward(s, s[j], t[j])
    BY <1>3, StillIn
  <1> QED
    BY <1>1, <1>3, <1>4, Updated

\* The row of an action.
LEMMA PickedRow ==
  ASSUME NEW s, Good(s), NEW i \in DOMAIN s
  PROVE  s[i] \in ActionRows /\ Sound(s[i]) /\ Relieved(s, i) /\ s[i].size \in Nat
         /\ s[i].traded \in Nat /\ s[i].recorded \in Nat
  BY RowForm DEF Good

\* The execution action of an order is processed.
LEMMA ProcessRow ==
  ASSUME NEW s, Good(s), NEW i \in DOMAIN s, s[i].state = "ASKED",
         NEW x \in {"READY", "NOT_SUBMITTED", "SENT"}, NEW b, b = [s[i] EXCEPT !.state = x]
  PROVE  Onward(s, s[i], b)
  <1>1. s[i] \in ActionRows /\ Sound(s[i]) /\ Relieved(s, i)
    BY PickedRow
  <1>2. x \in Calls
    BY DEF Calls
  <1>3. /\ b \in ActionRows /\ Alike(s[i], b) /\ b.state = x
        /\ b.over = s[i].over /\ b.waited = s[i].waited /\ b.venue = s[i].venue
        /\ b.traded = s[i].traded /\ b.recorded = s[i].recorded
    BY <1>1, <1>2, StateRow
  <1>4. Sound(b)
    BY <1>1, <1>3 DEF Sound, Alike
  <1> QED
    BY <1>1, <1>3, <1>4, NextRow DEF Given

\* A call reaches the venue.
LEMMA ArriveRow ==
  ASSUME NEW s, Good(s), NEW i \in DOMAIN s, s[i].state = "SENT", s[i].venue = "NONE",
         NEW x \in {"LIVE", "REJECTED", "CROSSED"}, NEW b, b = [s[i] EXCEPT !.venue = x]
  PROVE  Onward(s, s[i], b)
  <1>1. s[i] \in ActionRows /\ Sound(s[i]) /\ Relieved(s, i) /\ s[i].size \in Nat
    BY PickedRow
  <1>2. x \in Venues
    BY DEF Venues
  <1>3. /\ b \in ActionRows /\ Alike(s[i], b) /\ b.state = s[i].state
        /\ b.over = s[i].over /\ b.waited = s[i].waited /\ b.venue = x
        /\ b.traded = s[i].traded /\ b.recorded = s[i].recorded
    BY <1>1, <1>2, VenueRow
  <1>4. Sound(b)
    BY <1>1, <1>3 DEF Sound, Alike
  <1>5. ~s[i].over
    BY <1>1 DEF Sound
  <1> QED
    BY <1>1, <1>3, <1>4, <1>5, NextRow

\* A call without an answer.
LEMMA AgeRow ==
  ASSUME NEW s, Good(s), NEW i \in DOMAIN s, NEW b, b = [s[i] EXCEPT !.late = TRUE]
  PROVE  Onward(s, s[i], b)
  <1>1. s[i] \in ActionRows /\ Sound(s[i]) /\ Relieved(s, i)
    BY PickedRow
  <1>2. /\ b \in ActionRows /\ Alike(s[i], b) /\ b.state = s[i].state
        /\ b.over = s[i].over /\ b.waited = s[i].waited /\ b.venue = s[i].venue
        /\ b.traded = s[i].traded /\ b.recorded = s[i].recorded
    BY <1>1, LateRow
  <1>3. Sound(b)
    BY <1>1, <1>2 DEF Sound, Alike
  <1> QED
    BY <1>1, <1>2, <1>3, NextRow

\* A query proves that there is no order.
LEMMA DisprovedRow ==
  ASSUME NEW s, Good(s), NEW i \in DOMAIN s, s[i].state = "SENT", s[i].venue = "NONE",
         NEW b, b = [s[i] EXCEPT !.state = "NOT_SUBMITTED"]
  PROVE  Onward(s, s[i], b)
  <1>1. s[i] \in ActionRows /\ Sound(s[i]) /\ Relieved(s, i)
    BY PickedRow
  <1>2. PICK x \in Calls : x = "NOT_SUBMITTED"
    BY DEF Calls
  <1>3. /\ b \in ActionRows /\ Alike(s[i], b) /\ b.state = x
        /\ b.over = s[i].over /\ b.waited = s[i].waited /\ b.venue = s[i].venue
        /\ b.traded = s[i].traded /\ b.recorded = s[i].recorded
    BY <1>1, <1>2, StateRow
  <1>4. Sound(b)
    BY <1>1, <1>2, <1>3 DEF Sound, Alike
  <1> QED
    BY <1>1, <1>2, <1>3, <1>4, NextRow DEF Given

\* The order works.
LEMMA WorkingRow ==
  ASSUME NEW s, Good(s), NEW i \in DOMAIN s, s[i].state = "SENT", s[i].venue = "LIVE",
         NEW b, b = [s[i] EXCEPT !.state = "OPEN"]
  PROVE  Onward(s, s[i], b)
  <1>1. s[i] \in ActionRows /\ Sound(s[i]) /\ Relieved(s, i)
    BY PickedRow
  <1>2. PICK x \in Calls : x = "OPEN"
    BY DEF Calls
  <1>3. /\ b \in ActionRows /\ Alike(s[i], b) /\ b.state = x
        /\ b.over = s[i].over /\ b.waited = s[i].waited /\ b.venue = s[i].venue
        /\ b.traded = s[i].traded /\ b.recorded = s[i].recorded
    BY <1>1, <1>2, StateRow
  <1>4. Sound(b)
    BY <1>1, <1>2, <1>3 DEF Sound, Alike
  <1> QED
    BY <1>1, <1>2, <1>3, <1>4, NextRow DEF Given

\* A fill is recorded.
LEMMA FilledRow ==
  ASSUME NEW s, Good(s), NEW i \in DOMAIN s, s[i].recorded < s[i].traded,
         NEW b, b = [s[i] EXCEPT !.recorded = @ + 1, !.state = "OPEN"]
  PROVE  Onward(s, s[i], b)
  <1>1. /\ s[i] \in ActionRows /\ Sound(s[i]) /\ Relieved(s, i)
        /\ s[i].traded \in Nat /\ s[i].recorded \in Nat /\ s[i].size \in Nat
    BY PickedRow
  <1>2. PICK a \in ActionRows : a = s[i]
    BY <1>1
  <1>3. PICK n \in Nat : n = a.recorded + 1 /\ n <= a.traded
    BY <1>1, <1>2
  <1>4. PICK x \in Calls : x = "OPEN"
    BY DEF Calls
  <1>5. b = [a EXCEPT !.recorded = n, !.state = x]
    BY <1>2, <1>3, <1>4
  <1>6. /\ b \in ActionRows /\ Alike(a, b) /\ b.state = x
        /\ b.over = a.over /\ b.waited = a.waited /\ b.venue = a.venue
        /\ b.traded = a.traded /\ b.recorded = n
    BY <1>5 DEF ActionRows, Alike
  <1>7. a.traded # 0 /\ a.venue # "NONE" /\ a.state \in {"SENT", "OPEN"}
    <2>1. a.traded # 0
      BY <1>1, <1>2
    <2> QED
      BY <1>1, <1>2, <2>1 DEF Sound
  <1>8. Sound(b)
    BY <1>1, <1>2, <1>3, <1>4, <1>6, <1>7 DEF Sound, Alike
  <1> QED
    BY <1>1, <1>2, <1>4, <1>6, <1>7, <1>8, NextRow DEF Given

\* The end of an order is recorded.
LEMMA EndedRow ==
  ASSUME NEW s, Good(s), NEW i \in DOMAIN s, s[i].venue \notin {"NONE", "LIVE"},
         NEW b, b = [s[i] EXCEPT !.over = TRUE, !.state = "OPEN"]
  PROVE  Onward(s, s[i], b)
  <1>1. s[i] \in ActionRows /\ Sound(s[i]) /\ Relieved(s, i)
    BY PickedRow
  <1>2. PICK a \in ActionRows : a = s[i]
    BY <1>1
  <1>3. PICK x \in Calls : x = "OPEN"
    BY DEF Calls
  <1>4. b = [a EXCEPT !.over = TRUE, !.state = x]
    BY <1>2, <1>3
  <1>5. /\ b \in ActionRows /\ Alike(a, b) /\ b.state = x
        /\ b.over = TRUE /\ b.waited = a.waited /\ b.venue = a.venue
        /\ b.traded = a.traded /\ b.recorded = a.recorded
    BY <1>4 DEF ActionRows, Alike
  <1>6. a.state \in {"SENT", "OPEN"}
    BY <1>1, <1>2 DEF Sound
  <1>7. Sound(b)
    BY <1>1, <1>2, <1>3, <1>5, <1>6 DEF Sound, Alike
  <1> QED
    BY <1>1, <1>2, <1>3, <1>5, <1>6, <1>7, NextRow DEF Given

\* A cancel takes effect.
LEMMA CancelledAtVenueRow ==
  ASSUME NEW s, Good(s), NEW i \in DOMAIN s, s[i].venue = "LIVE",
         NEW b, b = [s[i] EXCEPT !.venue = "CANCELLED"]
  PROVE  Onward(s, s[i], b)
  <1>1. s[i] \in ActionRows /\ Sound(s[i]) /\ Relieved(s, i)
    BY PickedRow
  <1>2. PICK x \in Venues : x = "CANCELLED"
    BY DEF Venues
  <1>3. /\ b \in ActionRows /\ Alike(s[i], b) /\ b.state = s[i].state
        /\ b.over = s[i].over /\ b.waited = s[i].waited /\ b.venue = x
        /\ b.traded = s[i].traded /\ b.recorded = s[i].recorded
    BY <1>1, <1>2, VenueRow
  <1>4. Sound(b) /\ ~s[i].over
    BY <1>1, <1>2, <1>3 DEF Sound, Alike
  <1> QED
    BY <1>1, <1>3, <1>4, NextRow

\* A reducer trades.
LEMMA TradedRow ==
  ASSUME NEW s, Good(s), NEW i \in DOMAIN s, s[i].venue = "LIVE",
         NEW b, b = [s[i] EXCEPT !.traded = @ + 1,
                                 !.venue = IF s[i].traded + 1 = s[i].size THEN "FILLED" ELSE "LIVE"]
  PROVE  Onward(s, s[i], b)
  <1>1. /\ s[i] \in ActionRows /\ Sound(s[i]) /\ Relieved(s, i)
        /\ s[i].traded \in Nat /\ s[i].recorded \in Nat /\ s[i].size \in Nat
    BY PickedRow
  <1>2. PICK a \in ActionRows : a = s[i]
    BY <1>1
  <1>3. PICK n \in Nat : n = a.traded + 1
    BY <1>1, <1>2
  <1>4. PICK x \in Venues : x = (IF a.traded + 1 = a.size THEN "FILLED" ELSE "LIVE")
    BY DEF Venues
  <1>5. b = [a EXCEPT !.traded = n, !.venue = x]
    BY <1>2, <1>3, <1>4
  <1>6. /\ b \in ActionRows /\ Alike(a, b) /\ b.state = a.state
        /\ b.over = a.over /\ b.waited = a.waited /\ b.venue = x
        /\ b.traded = n /\ b.recorded = a.recorded
    BY <1>5 DEF ActionRows, Alike
  <1>7. a.traded < a.size /\ a.recorded <= a.traded /\ ~a.over /\ a.state \in {"SENT", "OPEN"}
    BY <1>1, <1>2 DEF Sound
  <1>8. n <= a.size /\ a.recorded <= n /\ (x = "LIVE" => n < a.size) /\ x \in {"LIVE", "FILLED"}
    BY <1>1, <1>2, <1>3, <1>4, <1>7
  <1>9. Sound(b)
    BY <1>1, <1>2, <1>6, <1>7, <1>8 DEF Sound, Alike
  <1> QED
    BY <1>1, <1>2, <1>6, <1>7, <1>9, NextRow

\* The initial row alone.
LEMMA FirstRows ==
  ASSUME Swap!BoundsAssumption, aim \in Bases
  PROVE  Good(<<Swap!Action("INITIAL", 0, aim, Portion, 0)>>)
  <1>1. PICK n \in Nat : n = Portion /\ n \in 1..Portion
    BY DEF Swap!BoundsAssumption
  <1>2. PICK price \in Nat : price = aim
    BY DEF Swap!BoundsAssumption
  <1>3. PICK kind \in Swap!Kinds : kind = "INITIAL"
    BY DEF Swap!Kinds
  <1>4. PICK a : a = Swap!Action(kind, 0, price, n, 0)
    OBVIOUS
  <1>5. /\ a \in ActionRows /\ a.kind = kind /\ a.size = n /\ a.pred = 0
        /\ a.state = "READY" /\ ~a.over /\ a.venue = "NONE" /\ ~a.waited
        /\ a.traded = 0 /\ a.recorded = 0
    BY <1>4 DEF Swap!Action, ActionRows, Calls, Venues
  <1>6. PICK s \in Seq(ActionRows) : s = <<a>>
    <2>1. PICK R : R = ActionRows
      OBVIOUS
    <2>2. a \in R
      BY <1>5, <2>1
    <2>3. <<a>> \in Seq(R)
      BY <2>2
    <2> QED
      BY <2>1, <2>3
  <1>7. Len(s) = 1 /\ DOMAIN s = 1..1 /\ s[1] = a
    BY <1>6
  <1>8. \A i \in DOMAIN s : i = 1
    BY <1>7
  <1>9. Sound(s[1]) /\ Relieved(s, 1)
    BY <1>1, <1>5, <1>7 DEF Sound, Relieved
  <1>10. Linked(s, 1)
    BY <1>3, <1>5, <1>7 DEF Linked
  <1>11. Swap!OfKind(s, "TAKE_PROFIT") = {} /\ Swap!OfKind(s, "MARKET") = {}
    BY <1>3, <1>5, <1>7, <1>8 DEF Swap!OfKind
  <1>12. LadderForm(s)
    BY <1>11 DEF LadderForm
  <1>13. Good(s)
    BY <1>8, <1>9, <1>10, <1>12 DEF Good
  <1> QED
    BY <1>1, <1>2, <1>3, <1>4, <1>6, <1>13

\* The fill begins with its original stop.
LEMMA Initially ==
  ASSUME Swap!BoundsAssumption, Swap!Init
  PROVE  StopsInv
  <1>1. policy \in Policies /\ aim \in Bases /\ done = "NO" /\ conflict = FALSE
    BY DEF Swap!Init
  <1>2. revision \in 1..Fills
    BY DEF Swap!Init, Swap!BoundsAssumption
  <1>3. Good(orders)
    BY <1>1, FirstRows DEF Swap!Init
  <1>4. round \in [Passes -> {Swap!Idle} \cup Under]
    BY DEF Swap!Init
  <1> QED
    BY <1>1, <1>2, <1>3, <1>4 DEF StopsInv

\* The steps that leave the passes, and those that only move a row.
LEMMA RowStep ==
  ASSUME StopsInv, NEW i \in DOMAIN orders, NEW b, Onward(orders, orders[i], b),
         orders' = [orders EXCEPT ![i] = b],
         UNCHANGED <<policy, revision, aim, round, done, conflict>>
  PROVE  StopsInv'
  <1>1. Good(orders)
    BY DEF StopsInv
  <1>2. Good(orders')
    BY <1>1, ChangedForm
  <1> QED
    BY <1>2 DEF StopsInv

\* An execution action is processed.
LEMMA ProcessStep ==
  ASSUME StopsInv, NEW i \in DOMAIN orders, Swap!Process(i)
  PROVE  StopsInv'
  <1>1. Good(orders) /\ orders[i].state = "ASKED"
    BY DEF StopsInv, Swap!Process
  <1>2. PICK x \in {"READY", "NOT_SUBMITTED", "SENT"} : orders' = [orders EXCEPT ![i].state = x]
    BY DEF Swap!Process
  <1>3. PICK b : b = [orders[i] EXCEPT !.state = x]
    OBVIOUS
  <1>4. orders' = [orders EXCEPT ![i] = b]
    BY <1>2, <1>3
  <1>5. Onward(orders, orders[i], b)
    BY <1>1, <1>3, ProcessRow
  <1> QED
    BY <1>4, <1>5, RowStep DEF Swap!Process

\* The venue and the events.
LEMMA OrderStep ==
  ASSUME StopsInv, NEW i \in DOMAIN orders,
         Swap!Arrive(i) \/ Swap!Age(i) \/ Swap!Record(i) \/ Swap!TakeCancel(i) \/ Swap!Trade(i)
  PROVE  StopsInv'
  <1>1. Good(orders)
    BY DEF StopsInv
  <1>2. ASSUME NEW b, Swap!Changes(i, b), Onward(orders, orders[i], b)
        PROVE  StopsInv'
    BY <1>2, RowStep DEF Swap!Changes
  <1>3. CASE Swap!Arrive(i)
    <2>1. /\ orders[i].state = "SENT" /\ orders[i].venue = "NONE"
          /\ \E x \in {"LIVE", "REJECTED", "CROSSED"} : Swap!Changes(i, [orders[i] EXCEPT !.venue = x])
      BY <1>3 DEF Swap!Arrive
    <2>2. PICK x \in {"LIVE", "REJECTED", "CROSSED"} : Swap!Changes(i, [orders[i] EXCEPT !.venue = x])
      BY <2>1
    <2>3. PICK b : b = [orders[i] EXCEPT !.venue = x]
      OBVIOUS
    <2>4. Onward(orders, orders[i], b)
      BY <1>1, <2>1, <2>3, ArriveRow
    <2> QED
      BY <1>2, <2>2, <2>3, <2>4
  <1>4. CASE Swap!Age(i)
    <2>1. PICK b : b = [orders[i] EXCEPT !.late = TRUE]
      OBVIOUS
    <2>2. Onward(orders, orders[i], b)
      BY <1>1, <2>1, AgeRow
    <2> QED
      BY <1>2, <1>4, <2>1, <2>2 DEF Swap!Age
  <1>5. CASE Swap!Disproved(i)
    <2>1. PICK b : b = [orders[i] EXCEPT !.state = "NOT_SUBMITTED"]
      OBVIOUS
    <2>2. Onward(orders, orders[i], b)
      BY <1>1, <1>5, <2>1, DisprovedRow DEF Swap!Disproved
    <2> QED
      BY <1>2, <1>5, <2>1, <2>2 DEF Swap!Disproved
  <1>6. CASE Swap!RecordWorking(i)
    <2>1. PICK b : b = [orders[i] EXCEPT !.state = "OPEN"]
      OBVIOUS
    <2>2. Onward(orders, orders[i], b)
      BY <1>1, <1>6, <2>1, WorkingRow DEF Swap!RecordWorking
    <2> QED
      BY <1>2, <1>6, <2>1, <2>2 DEF Swap!RecordWorking
  <1>7. CASE Swap!RecordFill(i)
    <2>1. PICK b : b = [orders[i] EXCEPT !.recorded = @ + 1, !.state = "OPEN"]
      OBVIOUS
    <2>2. Onward(orders, orders[i], b)
      BY <1>1, <1>7, <2>1, FilledRow DEF Swap!RecordFill
    <2> QED
      BY <1>2, <1>7, <2>1, <2>2 DEF Swap!RecordFill
  <1>8. CASE Swap!RecordEnd(i)
    <2>1. PICK b : b = [orders[i] EXCEPT !.over = TRUE, !.state = "OPEN"]
      OBVIOUS
    <2>2. Onward(orders, orders[i], b)
      BY <1>1, <1>8, <2>1, EndedRow DEF Swap!RecordEnd
    <2> QED
      BY <1>2, <1>8, <2>1, <2>2 DEF Swap!RecordEnd
  <1>9. CASE Swap!TakeCancel(i)
    <2>1. PICK b : b = [orders[i] EXCEPT !.venue = "CANCELLED"]
      OBVIOUS
    <2>2. Onward(orders, orders[i], b)
      BY <1>1, <1>9, <2>1, CancelledAtVenueRow DEF Swap!TakeCancel
    <2> QED
      BY <1>2, <1>9, <2>1, <2>2 DEF Swap!TakeCancel
  <1>10. CASE Swap!Trade(i)
    <2>1. PICK b : b = [orders[i] EXCEPT !.traded = @ + 1,
                          !.venue = IF orders[i].traded + 1 = orders[i].size THEN "FILLED" ELSE "LIVE"]
      OBVIOUS
    <2>2. Onward(orders, orders[i], b)
      BY <1>1, <1>10, <2>1, TradedRow DEF Swap!Trade
    <2> QED
      BY <1>2, <1>10, <2>1, <2>2 DEF Swap!Trade
  <1> QED
    BY <1>3, <1>4, <1>5, <1>6, <1>7, <1>8, <1>9, <1>10 DEF Swap!Record

\* A pass reads.
LEMMA ReadStep ==
  ASSUME Swap!BoundsAssumption, StopsInv, NEW p \in Passes, Swap!Read(p)
  PROVE  StopsInv'
  <1>1. Good(orders) /\ revision \in Nat /\ aim \in Nat /\ policy.steps \in Nat
    BY DEF StopsInv, Swap!BoundsAssumption
  <1>2. PICK shared \in BOOLEAN, crossed \in 0..policy.steps :
          round' = [round EXCEPT ![p] =
            [step |-> "READ", rev |-> revision, base |-> aim, held |-> Swap!Held, gap |-> Swap!Gap,
             overdue |-> Swap!Overdue, crossed |-> crossed, shared |-> shared]]
    BY DEF Swap!Read
  <1>3. PICK h \in Int : h = Swap!Held
    BY <1>1, HeldForm
  <1>4. Swap!Gap \in BOOLEAN /\ Swap!Overdue \in BOOLEAN
    BY DEF Swap!Gap, Swap!Overdue
  <1>5. PICK g \in BOOLEAN : g = Swap!Gap
    BY <1>4
  <1>6. PICK o \in BOOLEAN : o = Swap!Overdue
    BY <1>4
  <1>7. PICK r \in Under :
          r = [step |-> "READ", rev |-> revision, base |-> aim, held |-> h, gap |-> g,
               overdue |-> o, crossed |-> crossed, shared |-> shared]
    <2>1. crossed \in Nat
      BY <1>1
    <2> QED
      BY <1>1, <2>1 DEF Under
  <1>8. round' = [round EXCEPT ![p] = r]
    BY <1>2, <1>3, <1>5, <1>6, <1>7
  <1>9. round' \in [Passes -> {Swap!Idle} \cup Under]
    BY <1>8 DEF StopsInv
  <1>10. UNCHANGED <<policy, revision, aim, orders, done, conflict>>
    BY DEF Swap!Read
  <1> QED
    BY <1>9, <1>10 DEF StopsInv

\* A pass goes on to manage the orders, or ends.
LEMMA PassOn ==
  ASSUME StopsInv, NEW p \in Passes, round[p].step \in {"READ", "MANAGE"},
         round' = [round EXCEPT ![p] = Swap!Idle] \/ round' = [round EXCEPT ![p].step = "MANAGE"]
  PROVE  round[p] \in Under /\ round' \in [Passes -> {Swap!Idle} \cup Under]
  <1>1. round \in [Passes -> {Swap!Idle} \cup Under]
    BY DEF StopsInv
  <1>2. round[p] \in Under
    BY <1>1 DEF Swap!Idle
  <1>3. CASE round' = [round EXCEPT ![p] = Swap!Idle]
    BY <1>1, <1>2, <1>3
  <1>4. CASE round' = [round EXCEPT ![p].step = "MANAGE"]
    <2>1. PICK c \in Under : c = round[p]
      BY <1>2
    <2>2. PICK d : d = [c EXCEPT !.step = "MANAGE"]
      OBVIOUS
    <2>3. d \in Under
      BY <2>2 DEF Under
    <2>4. round' = [round EXCEPT ![p] = d]
      BY <1>4, <2>1, <2>2
    <2> QED
      BY <1>1, <1>2, <2>3, <2>4
  <1> QED
    BY <1>2, <1>3, <1>4

\* The task of the original stop.
LEMMA TaskStep ==
  ASSUME Swap!BoundsAssumption, StopsInv, Swap!TakeProfitTask
  PROVE  StopsInv'
  <1>1. Good(Swap!Created)
    BY CreatedForm DEF StopsInv
  <1>2. Good(orders')
    BY <1>1 DEF Swap!TakeProfitTask
  <1>3. UNCHANGED <<policy, revision, aim, round, done, conflict>>
    BY DEF Swap!TakeProfitTask
  <1> QED
    BY <1>2, <1>3 DEF StopsInv

\* A pass makes the first take-profit.
LEMMA ProfitsStep ==
  ASSUME Swap!BoundsAssumption, StopsInv, NEW p \in Passes, Swap!Profits(p)
  PROVE  StopsInv'
  <1>1. round' \in [Passes -> {Swap!Idle} \cup Under]
    BY PassOn DEF Swap!Profits
  <1>2. Good(Swap!Created) /\ Good(orders)
    BY CreatedForm DEF StopsInv
  <1>3. Good(orders')
    <2>1. orders' = orders \/ orders' = Swap!Created
      BY DEF Swap!Profits
    <2> QED
      BY <1>2, <2>1
  <1>4. conflict' \in BOOLEAN
    BY DEF Swap!Profits, StopsInv
  <1>5. UNCHANGED <<policy, revision, aim, done>>
    BY DEF Swap!Profits
  <1> QED
    BY <1>1, <1>3, <1>4, <1>5 DEF StopsInv

\* A pass manages the orders.
LEMMA ManageStep ==
  ASSUME Swap!BoundsAssumption, StopsInv, NEW p \in Passes, Swap!Manage(p)
  PROVE  StopsInv'
  <1>1. round[p] \in Under /\ round' \in [Passes -> {Swap!Idle} \cup Under]
    BY PassOn DEF Swap!Manage
  <1>2. Good(orders)
    BY DEF StopsInv
  <1>3. PICK c \in Under : c = round[p]
    BY <1>1
  <1>4. PICK s1 \in {IF c.gap THEN orders ELSE Swap!Aggregate(orders, c)} :
          /\ orders' \in {orders, s1} \cup Swap!Managed(s1, c)
          /\ done' \in {done, "EXIT"}
    BY <1>3 DEF Swap!Manage
  <1>5. Good(s1)
    <2>1. c.rev \in Nat /\ c.base \in Nat
      BY DEF Under
    <2> QED
      BY <1>2, <2>1, AggregateForm
  <1>6. Good(orders')
    <2>1. PICK t : t = orders'
      OBVIOUS
    <2>2. t \in Swap!Managed(s1, c) => Good(t)
      BY <1>5, ManagedForm
    <2>3. Good(t)
      BY <1>2, <1>4, <1>5, <2>1, <2>2
    <2> QED
      BY <2>1, <2>3
  <1>7. UNCHANGED <<policy, revision, aim, conflict>>
    BY DEF Swap!Manage
  <1> QED
    BY <1>1, <1>4, <1>6, <1>7 DEF StopsInv

\* Every step keeps the invariant.
LEMMA NextStep ==
  ASSUME Swap!BoundsAssumption, StopsInv, [Swap!Next]_(Swap!vars)
  PROVE  StopsInv'
  <1>1. CASE UNCHANGED Swap!vars
    BY <1>1 DEF Swap!vars, StopsInv
  <1>2. CASE Swap!NewFill
    <2>1. revision' \in 1..Fills /\ aim' \in Bases
      <3>1. revision \in Nat /\ Fills \in Nat
        BY DEF StopsInv, Swap!BoundsAssumption
      <3> QED
        BY <1>2, <3>1 DEF Swap!NewFill
    <2> QED
      BY <1>2, <2>1 DEF Swap!NewFill, StopsInv
  <1>3. ASSUME NEW i \in DOMAIN orders, Swap!Trigger(i)
        PROVE  StopsInv'
    BY <1>3 DEF Swap!Trigger, StopsInv
  <1> QED
    BY <1>1, <1>2, <1>3, ProcessStep, OrderStep, ReadStep, ProfitsStep, ManageStep, TaskStep
    DEF Swap!Next

\* The types.
LEMMA TypesHold ==
  ASSUME StopsInv
  PROVE  Swap!TypeOK
  <1>1. ASSUME NEW i \in DOMAIN orders
        PROVE  /\ orders[i].kind \in Swap!Kinds /\ orders[i].pred \in 0..(i - 1)
               /\ orders[i].state \in {"READY", "ASKED", "SENT", "OPEN", "NOT_SUBMITTED"}
               /\ orders[i].venue \in {"NONE", "LIVE", "CANCELLED", "REJECTED", "CROSSED", "FILLED"}
               /\ 0 <= orders[i].recorded /\ orders[i].recorded <= orders[i].traded
               /\ orders[i].traded <= orders[i].size
    <2>1. Good(orders)
      BY DEF StopsInv
    <2>2. /\ orders[i].kind \in Swap!Kinds /\ orders[i].state \in Calls /\ orders[i].venue \in Venues
          /\ orders[i].recorded \in Nat
      BY <2>1, RowForm
    <2>3. Sound(orders[i]) /\ Linked(orders, i)
      BY <2>1 DEF Good
    <2> QED
      BY <2>2, <2>3 DEF Sound, Linked, Calls, Venues
  <1> QED
    BY <1>1 DEF Swap!TypeOK, StopsInv

\* A stop that was called after its predecessor ended stands alone.
LEMMA WaitsHold ==
  ASSUME StopsInv
  PROVE  Swap!HandOffWaits
  <1>1. ASSUME NEW i \in Swap!StopsOf(orders), Swap!Called(i), orders[i].waited
        PROVE  orders[orders[i].pred].venue # "LIVE"
    <2>1. Good(orders) /\ i \in DOMAIN orders
      BY DEF StopsInv, Swap!StopsOf
    <2>2. Relieved(orders, i) /\ (orders[i].pred # 0 => orders[i].pred \in DOMAIN orders)
      BY <2>1, RowForm DEF Good
    <2>3. orders[i].pred \in DOMAIN orders /\ orders[orders[i].pred].over
      BY <1>1, <2>2 DEF Relieved, Swap!Called, Given
    <2>4. Sound(orders[orders[i].pred])
      BY <2>1, <2>3 DEF Good
    <2> QED
      BY <2>3, <2>4 DEF Sound
  <1> QED
    BY <1>1 DEF Swap!HandOffWaits

\* What may still trade of a reducer, or has.
Left(a) ==
  IF a.venue = "LIVE" \/ (a.venue = "NONE" /\ a.state \in {"SENT", "OPEN"}) THEN a.size ELSE a.traded

\* What is left of a sound row.
LEMMA LeftForm ==
  ASSUME Swap!BoundsAssumption, NEW a \in ActionRows, Sound(a)
  PROVE  /\ Left(a) \in Nat /\ Left(a) <= Portion
         /\ a.state = "NOT_SUBMITTED" => Left(a) = 0
         /\ a.venue = "CROSSED" => Left(a) = 0 /\ a.state # "NOT_SUBMITTED"
  <1>1. a.size \in Nat /\ a.traded \in Nat /\ Portion \in Nat
    BY DEF ActionRows, Swap!BoundsAssumption
  <1>2. a.size <= Portion /\ a.traded <= a.size /\ a.traded <= Portion
    BY <1>1 DEF Sound
  <1>3. Left(a) \in {a.size, a.traded}
    BY DEF Left
  <1>4. Left(a) \in Nat /\ Left(a) <= Portion
    BY <1>1, <1>2, <1>3
  <1>5. a.state = "NOT_SUBMITTED" => Left(a) = 0
    BY DEF Left, Sound
  <1>6. a.venue = "CROSSED" => Left(a) = 0 /\ a.state # "NOT_SUBMITTED"
    BY DEF Left, Sound
  <1> QED
    BY <1>4, <1>5, <1>6

\* One reducer at most has something left.
LEMMA OneLeft ==
  ASSUME Swap!BoundsAssumption, NEW s, Good(s),
         NEW i \in Swap!OfKind(s, "TAKE_PROFIT") \cup Swap!OfKind(s, "MARKET"), Left(s[i]) # 0,
         NEW k \in Swap!OfKind(s, "TAKE_PROFIT") \cup Swap!OfKind(s, "MARKET"), Left(s[k]) # 0
  PROVE  i = k
  <1>1. \A j \in DOMAIN s : /\ j \in Nat /\ s[j] \in ActionRows /\ Sound(s[j]) /\ Linked(s, j)
                            /\ s[j].pred # 0 => s[j].pred \in DOMAIN s
    BY RowForm DEF Good
  <1>2. \A j \in DOMAIN s :
          /\ s[j].state = "NOT_SUBMITTED" => Left(s[j]) = 0
          /\ s[j].venue = "CROSSED" => Left(s[j]) = 0 /\ s[j].state # "NOT_SUBMITTED"
    BY <1>1, LeftForm
  <1>3. \A a, b \in Swap!OfKind(s, "TAKE_PROFIT") :
          s[a].state # "NOT_SUBMITTED" /\ s[b].state # "NOT_SUBMITTED" => a = b
    <2>1. ASSUME NEW a \in Swap!OfKind(s, "TAKE_PROFIT"), NEW b \in Swap!OfKind(s, "TAKE_PROFIT"),
                 s[a].state # "NOT_SUBMITTED", s[b].state # "NOT_SUBMITTED"
          PROVE  a = b
      <3>1. ~(a < b) /\ ~(b < a)
        BY <2>1 DEF Good, LadderForm
      <3>2. a \in Nat /\ b \in Nat
        BY <1>1 DEF Swap!OfKind
      <3> QED
        BY <3>1, <3>2
    <2> QED
      BY <2>1
  <1>4. ASSUME NEW m \in Swap!OfKind(s, "MARKET")
        PROVE  /\ s[m].pred \in Swap!OfKind(s, "TAKE_PROFIT")
               /\ s[s[m].pred].state # "NOT_SUBMITTED" /\ Left(s[s[m].pred]) = 0
    <2>1. m \in DOMAIN s /\ s[m].kind = "MARKET"
      BY DEF Swap!OfKind
    <2>2. /\ s[m].pred \in DOMAIN s /\ s[s[m].pred].kind = "TAKE_PROFIT"
          /\ s[s[m].pred].venue = "CROSSED"
      BY <1>1, <2>1 DEF Linked
    <2> QED
      BY <1>2, <2>2 DEF Swap!OfKind
  <1>5. Swap!OfKind(s, "TAKE_PROFIT") \subseteq DOMAIN s
    BY DEF Swap!OfKind
  <1>6. CASE i \in Swap!OfKind(s, "TAKE_PROFIT") /\ k \in Swap!OfKind(s, "TAKE_PROFIT")
    BY <1>2, <1>3, <1>5, <1>6
  <1>7. CASE i \in Swap!OfKind(s, "MARKET") /\ k \in Swap!OfKind(s, "TAKE_PROFIT")
    BY <1>2, <1>3, <1>4, <1>5, <1>7
  <1>8. CASE i \in Swap!OfKind(s, "TAKE_PROFIT") /\ k \in Swap!OfKind(s, "MARKET")
    BY <1>2, <1>3, <1>4, <1>5, <1>8
  <1>9. CASE i \in Swap!OfKind(s, "MARKET") /\ k \in Swap!OfKind(s, "MARKET")
    BY <1>3, <1>4, <1>9 DEF Good, LadderForm
  <1> QED
    BY <1>6, <1>7, <1>8, <1>9

\* Of the reducers one at most can still trade, or has traded.
LEMMA FitHolds ==
  ASSUME Swap!BoundsAssumption, StopsInv
  PROVE  Swap!TakeProfitsFit
  <1>1. PICK s : s = orders /\ Good(s)
    BY DEF StopsInv
  <1>2. PICK R : R = Swap!OfKind(s, "TAKE_PROFIT") \cup Swap!OfKind(s, "MARKET")
    OBVIOUS
  <1>3. PICK f : f = [i \in R |-> Left(s[i])]
    OBVIOUS
  <1>4. R \subseteq DOMAIN s
    BY <1>2 DEF Swap!OfKind
  <1>5. IsFiniteSet(R)
    <2>1. Len(s) \in Nat /\ DOMAIN s = 1..Len(s)
      BY <1>1, RowForm
    <2>2. IsFiniteSet(1..Len(s))
      BY <2>1, FS_Interval
    <2> QED
      BY <1>4, <2>1, <2>2, FS_Subset
  <1>6. \A i \in R : f[i] = Left(s[i]) /\ f[i] \in Nat /\ f[i] \in Int /\ f[i] <= Portion
    <2>1. \A i \in R : Left(s[i]) \in Nat /\ Left(s[i]) <= Portion
      BY <1>1, <1>4, RowForm, LeftForm DEF Good
    <2> QED
      BY <1>3, <2>1
  <1>7. Portion \in Nat
    BY DEF Swap!BoundsAssumption
  <1>8. PICK Z : Z = {0}
    OBVIOUS
  <1>9. Z \subseteq Int /\ 0 \in Z /\ \A a \in Z, b \in Z : a + b \in Z
    BY <1>8
  <1>10. Sum(f, R) <= Portion
    <2>1. CASE \A i \in R : f[i] = 0
      <3>1. Sum(f, R) \in Z
        <4>1. \A x \in R : f[x] \in Z
          BY <1>8, <2>1
        <4> QED
          BY <1>5, <1>9, <4>1, SumWithin
      <3> QED
        BY <1>7, <1>8, <3>1
    <2>2. CASE \E i \in R : f[i] # 0
      <3>1. PICK o \in R : f[o] # 0
        BY <2>2
      <3>2. \A i \in R : i # o => f[i] = 0
        BY <1>1, <1>2, <1>6, <3>1, OneLeft
      <3>3. PICK T : T = R \ {o}
        OBVIOUS
      <3>4. Sum(f, T) \in Z
        <4>1. IsFiniteSet(T) /\ \A x \in T : f[x] \in Z
          BY <1>5, <1>8, <3>2, <3>3, FS_Subset
        <4> QED
          BY <1>9, <4>1, SumWithin
      <3>5. Sum(f, R) = f[o] + Sum(f, T)
        BY <1>5, <1>6, <3>3, SumRemove
      <3> QED
        BY <1>6, <1>7, <1>8, <3>4, <3>5
    <2> QED
      BY <2>1, <2>2
  <1> DEFINE L == Swap!OfKind(orders, "TAKE_PROFIT") \cup Swap!OfKind(orders, "MARKET")
             g == [i \in L |-> IF orders[i].venue = "LIVE" 
                                  \/ (orders[i].venue = "NONE" /\ Swap!Called(i))
                               THEN orders[i].size ELSE orders[i].traded]
  <1>11. Swap!TakeProfitsFit <=> Swap!MapThenSumSet(LAMBDA i : g[i], L) <= Portion
    BY DEF Swap!TakeProfitsFit
  <1>12. L = R /\ g = f
    BY <1>1, <1>2, <1>3 DEF Left, Swap!Called
  <1> HIDE DEF L, g
  <1>13. Swap!MapThenSumSet(LAMBDA i : g[i], L) = Sum(g, L)
    BY DEF Sum, MapThenSumSet, MapThenFoldSet, Swap!MapThenSumSet,
    Swap!MapThenFoldSet
  <1>14. Sum(g, L) <= Portion
    BY <1>10, <1>12
  <1> QED
    BY <1>11, <1>13, <1>14

\* The invariant holds in every reachable state, for every policy, any number of fills and
\* passes, and whatever fails.
THEOREM StopsInvariance ==
  ASSUME Swap!BoundsAssumption
  PROVE  Swap!Spec => []StopsInv
  <1>1. Swap!Init => StopsInv
    BY Initially
  <1>2. StopsInv /\ [Swap!Next]_(Swap!vars) => StopsInv'
    BY NextStep
  <1> QED
    BY <1>1, <1>2, PTL DEF Swap!Spec

\* TypeOK: a replacement names an earlier action, and no more of an order is on record than
\* it traded, nor traded than it was made for.
THEOREM StopTypes ==
  ASSUME Swap!BoundsAssumption
  PROVE  Swap!Spec => []Swap!TypeOK
  <1>1. StopsInv => Swap!TypeOK
    BY TypesHold
  <1> QED
    BY <1>1, StopsInvariance, PTL

\* HandOffWaits: a stop that must not stand beside the one it replaces is called once that
\* one has ended at the venue (_replacement_waits_for_predecessor_cancel,
\* _resume_ready_non_entry_actions).
THEOREM HandOffs ==
  ASSUME Swap!BoundsAssumption
  PROVE  Swap!Spec => []Swap!HandOffWaits
  <1>1. StopsInv => Swap!HandOffWaits
    BY WaitsHold
  <1> QED
    BY <1>1, StopsInvariance, PTL

\* TakeProfitsFit: the take-profits, rebuilt or turned into market reductions, never trade
\* more than the fill (_manage_aggregate_entry_take_profits,
\* _ensure_crossed_take_profit_reductions).
THEOREM TakeProfitsBounded ==
  ASSUME Swap!BoundsAssumption
  PROVE  Swap!Spec => []Swap!TakeProfitsFit
  <1>1. StopsInv => Swap!TakeProfitsFit
    BY FitHolds
  <1> QED
    BY <1>1, StopsInvariance, PTL

================================================================================
