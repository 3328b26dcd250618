---------------------------- MODULE OrderFactsProofs ----------------------------
(***************************************************************************)
(* Theorems about OrderFacts, for an entry of any quantity and any number  *)
(* of faults.                                                              *)
(*                                                                         *)
(* A trade is one fact whichever way it comes, so the facts never have     *)
(* more than the venue.  That they have no less when an activation closes  *)
(* does not follow from the facts alone: after a restart an order's end    *)
(* may be told with too small a quantity.  The account settles it, because *)
(* a pass sees the account flat either after the reducer, which is no      *)
(* larger than what was recorded, or before anything traded, and then no   *)
(* order it finds complete has been called before the last restart.        *)
(***************************************************************************)
EXTENDS OrderFacts, FiniteSetTheorems, SequenceTheorems, WellFoundedInduction, TLAPS

Kinds    == {"ACCEPTED", "FILL", "CANCELLED", "REJECTED", "EXACT", "INFERRED", "BARE"}
Statuses == {"NONE", "WORKING"} \cup Final
States   == {"NONE", "SUBMITTING", "UNKNOWN", "OPEN", "CLOSED"}
Snapshot == [status : Statuses, done : Nat]
Event    == [order : Orders, kind : Kinds, venue : Snapshot]

TypeOK ==
  /\ venue \in [Orders -> Snapshot]
  /\ mode \in {"UP", "CUT", "DOWN"}
  /\ wire \in Seq(Event)
  /\ cache \in [Orders -> [done : Nat, over : BOOLEAN]]
  /\ state \in [Orders -> States]
  /\ size \in [Orders -> Nat]
  /\ fills \in [Orders -> SUBSET [trade : Nat, way : {"event", "query"}]]
  /\ ends \in [Orders -> SUBSET [status : Final, cumulative : Nat]]
  /\ pass \in [on : BOOLEAN, todo : SUBSET Orders, flat : BOOLEAN]
  /\ ask \in [order : Orders \cup {"none"}, status : Statuses, done : Nat]
  /\ done \in BOOLEAN
  /\ faults \in Nat

(***************************************************************************)
(* The invariant.                                                          *)
(***************************************************************************)

\* An order that was not called is not at the venue; no order trades more than it
\* was sized for, and the entries are sized like the plan.
VenueOK(o) ==
  /\ state[o] = "NONE" <=> venue[o].status = "NONE"
  /\ venue[o].done <= size[o]
  /\ venue[o].status = "WORKING" => venue[o].done < size[o]
  /\ venue[o].status \in {"NONE", "REJECTED"} => venue[o].done = 0
  /\ o \in Entries => size[o] <= Lots

\* Every fill is another trade of the order, and what says that the order was
\* cancelled or rejected is true.
FactOK(o) ==
  /\ \A f \in fills[o] : f.trade \in 1 .. venue[o].done
  /\ \A f, g \in fills[o] : SameTrade(f, g) => f = g
  /\ \A e \in ends[o] : e.status # "FILLED" => venue[o].status = e.status

\* What was read or sent of an order is behind the venue, and true once it is final.
Behind(o, status, trades) ==
  /\ venue[o].status # "NONE"
  /\ trades <= venue[o].done
  /\ status \in Final => venue[o] = [status |-> status, done |-> trades]

WireOK == \A i \in DOMAIN wire : Behind(wire[i].order, wire[i].venue.status, wire[i].venue.done)

AskOK == ask # None => ask.order \in Orders /\ Behind(ask.order, ask.status, ask.done)

\* The reducer is the last order to be called, and no larger than what is recorded.
CallsOK ==
  /\ state["retry"] # "NONE" => venue["entry"].status = "REJECTED"
  /\ state["reducer"] # "NONE" =>
       /\ state["entry"] # "NONE"
       /\ state["retry"] # "NONE" \/ venue["entry"].status # "REJECTED"
       /\ size["reducer"] <= Entered

\* The facts have no cancellation with too small a quantity, and will have none.
Honest(o) ==
  /\ \A e \in ends[o] : e.status = "CANCELLED" => e.cumulative = venue[o].done
  /\ \A i \in DOMAIN wire : wire[i].order = o => wire[i].kind # "BARE"

\* The reducer was over when the account was seen flat.
Reduced == state["reducer"] # "NONE" /\ Position = 0 /\ \A o \in Called : Over(o)

\* Nothing had traded when the account was seen flat.
Untraded == \A o \in Called : Honest(o) \/ (Over(o) /\ venue[o].done = 0)

PassOK ==
  /\ \A o \in pass.todo : state[o] # "NONE"
  /\ mode = "DOWN" => ~pass.on
  /\ pass.on /\ pass.flat => Reduced \/ Untraded

Inv ==
  /\ TypeOK
  /\ \A o \in Orders : VenueOK(o) /\ FactOK(o)
  /\ WireOK /\ AskOK /\ CallsOK /\ PassOK /\ ClosedIsAccounted

(***************************************************************************)
(* Facts about the operators.                                              *)
(***************************************************************************)

\* A set of fills of different trades has at most as many members as there are
\* trades, and all of the trades if it has that many.
LEMMA DifferentTrades ==
  ASSUME NEW F, NEW n \in Nat, \A f \in F : f.trade \in 1 .. n,
         \A f, g \in F : f.trade = g.trade => f = g
  PROVE  /\ IsFiniteSet(F) /\ Cardinality(F) \in Nat
         /\ Cardinality(F) <= n
         /\ Cardinality(F) = n => {f.trade : f \in F} = 1 .. n
  <1> DEFINE h == [f \in F |-> f.trade]
  <1>1. h \in Injection(F, 1 .. n)
    BY DEF Injection, IsInjective
  <1>2. IsFiniteSet(1 .. n) /\ Cardinality(1 .. n) = n
    BY FS_Interval
  <1>3. IsFiniteSet(F) /\ Cardinality(F) <= n
        /\ (Cardinality(F) = n <=> h \in Surjection(F, 1 .. n))
    BY <1>1, <1>2, FS_Injection
  <1>4. ASSUME h \in Surjection(F, 1 .. n)
        PROVE  {f.trade : f \in F} = 1 .. n
    <2>1. \A k \in 1 .. n : \E f \in F : h[f] = k
      BY <1>4 DEF Surjection
    <2>2. \A k \in 1 .. n : \E f \in F : f.trade = k
      BY <2>1
    <2> QED
      BY <2>2
  <1> QED
    BY <1>3, <1>4, FS_CardinalityType

LEMMA RecordedForm ==
  ASSUME NEW o \in Orders, TypeOK, FactOK(o)
  PROVE  /\ IsFiniteSet(fills[o]) /\ Recorded(o) \in Nat
         /\ Recorded(o) <= venue[o].done
         /\ Recorded(o) = venue[o].done => {f.trade : f \in fills[o]} = 1 .. venue[o].done
  <1>1. venue[o].done \in Nat
    BY DEF TypeOK, Snapshot
  <1> QED
    BY <1>1, DifferentTrades DEF FactOK, SameTrade, Recorded

\* A finite set in some order.
LEMMA SetToSeqForm ==
  ASSUME NEW S, IsFiniteSet(S)
  PROVE  SetToSeq(S) \in Seq(S)
  <1>1. \E f \in [1 .. Cardinality(S) -> S] : IsInjective(f)
    BY FS_CardinalityType DEF ExistsBijection, Bijection, Injection
  <1>2. SetToSeq(S) \in [1 .. Cardinality(S) -> S]
    BY <1>1 DEF SetToSeq
  <1>3. Cardinality(S) \in Nat
    BY FS_CardinalityType
  <1>4. SetToSeq(S) \in UNION {[1 .. n -> S] : n \in Nat}
    BY <1>2, <1>3
  <1>5. Seq(S) = UNION {[1 .. n -> S] : n \in Nat}
    BY SeqDef, Zenon
  <1> QED
    BY <1>4, <1>5, Zenon

\* Where the elements of a tail, a longer or a joined sequence come from.
LEMMA SequenceForm ==
  ASSUME NEW S, NEW s \in Seq(S)
  PROVE  /\ s # <<>> =>
              /\ Head(s) \in S /\ Tail(s) \in Seq(S)
              /\ \E j \in DOMAIN s : Head(s) = s[j]
              /\ \A i \in DOMAIN Tail(s) : \E j \in DOMAIN s : Tail(s)[i] = s[j]
         /\ \A e \in S :
              /\ Append(s, e) \in Seq(S)
              /\ \A i \in DOMAIN Append(s, e) :
                   Append(s, e)[i] = e \/ \E j \in DOMAIN s : Append(s, e)[i] = s[j]
         /\ \A q \in Seq(S) :
              /\ s \o q \in Seq(S)
              /\ \A i \in DOMAIN (s \o q) :
                   \/ \E j \in DOMAIN q : (s \o q)[i] = q[j]
                   \/ \E j \in DOMAIN s : (s \o q)[i] = s[j]
  <1>1. Len(s) \in Nat /\ DOMAIN s = 1 .. Len(s)
    BY LenProperties
  <1>2. ASSUME s # <<>>
        PROVE  /\ Head(s) \in S /\ Tail(s) \in Seq(S)
               /\ \E j \in DOMAIN s : Head(s) = s[j]
               /\ \A i \in DOMAIN Tail(s) : \E j \in DOMAIN s : Tail(s)[i] = s[j]
    <2>1. /\ Head(s) \in S /\ Tail(s) \in Seq(S) /\ Len(Tail(s)) = Len(s) - 1
          /\ \A i \in 1 .. Len(Tail(s)) : Tail(s)[i] = s[i + 1]
      BY <1>2, HeadTailProperties
    <2>2. DOMAIN Tail(s) = 1 .. Len(Tail(s))
      BY <2>1, LenProperties
    <2>3. \A i \in 1 .. Len(Tail(s)) : i + 1 \in 1 .. Len(s)
      BY <1>1, <2>1
    <2>4. Head(s) = s[1] /\ 1 \in 1 .. Len(s)
      BY <1>1, <1>2, EmptySeq
    <2> QED
      BY <1>1, <2>1, <2>2, <2>3, <2>4
  <1>3. ASSUME NEW e \in S
        PROVE  /\ Append(s, e) \in Seq(S)
               /\ \A i \in DOMAIN Append(s, e) :
                    Append(s, e)[i] = e \/ \E j \in DOMAIN s : Append(s, e)[i] = s[j]
    <2>1. /\ Append(s, e) \in Seq(S) /\ Len(Append(s, e)) = Len(s) + 1
          /\ \A i \in 1 .. Len(s) : Append(s, e)[i] = s[i]
          /\ Append(s, e)[Len(s) + 1] = e
      BY AppendProperties
    <2>2. DOMAIN Append(s, e) = 1 .. Len(Append(s, e))
      BY <2>1, LenProperties
    <2>3. \A i \in 1 .. Len(Append(s, e)) : i \in 1 .. Len(s) \/ i = Len(s) + 1
      BY <1>1, <2>1
    <2> QED
      BY <1>1, <2>1, <2>2, <2>3
  <1>4. ASSUME NEW q \in Seq(S)
        PROVE  /\ s \o q \in Seq(S)
               /\ \A i \in DOMAIN (s \o q) :
                    \/ \E j \in DOMAIN q : (s \o q)[i] = q[j]
                    \/ \E j \in DOMAIN s : (s \o q)[i] = s[j]
    <2>1. /\ s \o q \in Seq(S) /\ Len(s \o q) = Len(s) + Len(q)
          /\ \A i \in 1 .. Len(s) + Len(q) :
               (s \o q)[i] = IF i <= Len(s) THEN s[i] ELSE q[i - Len(s)]
      BY ConcatProperties
    <2>2. DOMAIN (s \o q) = 1 .. Len(s) + Len(q)
      BY <2>1, LenProperties
    <2>3. Len(q) \in Nat /\ DOMAIN q = 1 .. Len(q)
      BY LenProperties
    <2>4. \A i \in 1 .. Len(s) + Len(q) :
            i \in 1 .. Len(s) \/ (~(i <= Len(s)) /\ i - Len(s) \in 1 .. Len(q))
      BY <1>1, <2>3
    <2> QED
      BY <1>1, <2>1, <2>2, <2>3, <2>4
  <1> QED
    BY <1>2, <1>3, <1>4

(***************************************************************************)
(* What the steps have in common.                                          *)
(***************************************************************************)

\* An order at the venue stays there, its trades grow, and its end is final.
Advances ==
  \A o \in Orders : venue[o].status # "NONE" =>
    /\ venue'[o].status # "NONE"
    /\ venue[o].done <= venue'[o].done
    /\ Over(o) => venue'[o] = venue[o]

LEMMA BehindStays ==
  ASSUME TypeOK, TypeOK', Advances,
         NEW o \in Orders, NEW status \in Statuses, NEW n \in Nat, Behind(o, status, n)
  PROVE  Behind(o, status, n)'
  BY DEF TypeOK, Snapshot, Statuses, Advances, Behind, Over

\* The event was under way before.
Kept(i) == \E j \in DOMAIN wire : wire'[i] = wire[j]

LEMMA WireAppend ==
  ASSUME TypeOK, NEW e \in Event, wire' \in {wire, Append(wire, e)}
  PROVE  /\ wire' \in Seq(Event)
         /\ \A i \in DOMAIN wire' : wire'[i] = e \/ Kept(i)
  <1>1. wire \in Seq(Event)
    BY DEF TypeOK
  <1>2. CASE wire' = wire
    BY <1>1, <1>2 DEF Kept
  <1>3. CASE wire' = Append(wire, e)
    BY <1>1, <1>3, SequenceForm DEF Kept
  <1> QED
    BY <1>2, <1>3

LEMMA WireStep ==
  ASSUME TypeOK, TypeOK', WireOK, Advances,
         \A i \in DOMAIN wire' :
           Kept(i) \/ Behind(wire[i].order, wire[i].venue.status, wire[i].venue.done)'
  PROVE  WireOK'
  <1>1. ASSUME NEW i \in DOMAIN wire', Kept(i)
        PROVE  Behind(wire[i].order, wire[i].venue.status, wire[i].venue.done)'
    <2>1. PICK j \in DOMAIN wire : wire'[i] = wire[j]
      BY <1>1 DEF Kept
    <2>2. PICK o \in Orders, status \in Statuses, n \in Nat :
            o = wire[j].order /\ status = wire[j].venue.status /\ n = wire[j].venue.done
      <3>1. wire[j] \in Event
        BY DEF TypeOK
      <3> QED
        BY <3>1 DEF Event, Snapshot
    <2>3. Behind(o, status, n)'
      BY <2>2, BehindStays DEF WireOK
    <2> QED
      BY <2>1, <2>2, <2>3 DEF Behind
  <1> QED
    BY <1>1 DEF WireOK

LEMMA AskStep ==
  ASSUME TypeOK, TypeOK', AskOK, Advances, ask' \in {ask, None}
  PROVE  AskOK'
  <1>1. ASSUME ask # None
        PROVE  Behind(ask.order, ask.status, ask.done)'
               \/ ask' = None
    <2>1. PICK o \in Orders, status \in Statuses, n \in Nat :
            o = ask.order /\ status = ask.status /\ n = ask.done
      BY <1>1 DEF AskOK, TypeOK
    <2>2. Behind(o, status, n)'
      BY <1>1, <2>1, BehindStays DEF AskOK
    <2> QED
      BY <2>1, <2>2 DEF Behind
  <1> QED
    BY <1>1 DEF AskOK, None

(***************************************************************************)
(* Calls and the venue.                                                    *)
(***************************************************************************)

\* An order that was not called has no event under way and no end.
LEMMA UncalledForm ==
  ASSUME Inv, NEW o \in Orders, state[o] = "NONE"
  PROVE  /\ venue[o].status = "NONE" /\ venue[o].done = 0
         /\ \A i \in DOMAIN wire : wire[i].order # o
         /\ \A e \in ends[o] : e.status = "FILLED"
  <1>1. VenueOK(o) /\ FactOK(o) /\ WireOK /\ TypeOK
    BY DEF Inv
  <1>2. venue[o].status = "NONE" /\ venue[o].done = 0
    BY <1>1 DEF VenueOK
  <1>3. \A i \in DOMAIN wire : wire[i].order # o
    BY <1>1, <1>2 DEF WireOK, Behind
  <1>4. \A e \in ends[o] : e.status = "FILLED"
    <2>1. \A e \in ends[o] : e.status \in Final
      BY <1>1 DEF TypeOK
    <2> QED
      BY <1>1, <1>2, <2>1 DEF FactOK, Final
  <1> QED
    BY <1>2, <1>3, <1>4

\* Which order may be called with which quantity.
Callable(o, quantity) ==
  /\ quantity \in Nat \ {0}
  /\ o \in Entries => quantity <= Lots
  /\ o = "retry" => venue["entry"].status = "REJECTED"
  /\ o = "reducer" => Entered > 0 /\ quantity = Entered

LEMMA CallStep ==
  ASSUME Inv, NEW o \in Orders, NEW quantity, Callable(o, quantity), Call(o, quantity)
  PROVE  Inv'
  <1>1. TypeOK
    BY DEF Inv
  <1>2. /\ mode = "UP" /\ state[o] = "NONE" /\ ~done
        /\ state' = [state EXCEPT ![o] = "SUBMITTING"]
        /\ size' = [size EXCEPT ![o] = quantity]
        /\ UNCHANGED <<mode, cache, fills, ends, pass, ask, done, faults>>
    BY DEF Call, facts, loop
  <1>3. PICK status \in {"WORKING", "REJECTED"}, kind \in {"ACCEPTED", "REJECTED"} :
          /\ venue' = [venue EXCEPT ![o] = [status |-> status, done |-> 0]]
          /\ wire' = Append(wire, [order |-> o, kind |-> kind, venue |-> venue'[o]])
    BY <1>2 DEF Call, Become, Tell, Sent
  <1> DEFINE e == [order |-> o, kind |-> kind, venue |-> [status |-> status, done |-> 0]]
  <1>4. e \in Event /\ wire' = Append(wire, e)
    BY <1>1, <1>3 DEF TypeOK, Event, Snapshot, Statuses, Final, Kinds
  <1>5. TypeOK'
    <2>1. wire' \in Seq(Event)
      BY <1>1, <1>4, WireAppend
    <2>2. venue' \in [Orders -> Snapshot]
      BY <1>1, <1>3 DEF TypeOK, Snapshot, Statuses, Final
    <2>3. state' \in [Orders -> States] /\ size' \in [Orders -> Nat]
      BY <1>1, <1>2 DEF TypeOK, States, Callable
    <2> QED
      BY <1>1, <1>2, <2>1, <2>2, <2>3 DEF TypeOK
  <1>6. \A i \in DOMAIN wire' : wire'[i] = e \/ Kept(i)
    BY <1>1, <1>4, WireAppend
  <1> HIDE DEF e
  <1>7. Advances
    BY <1>1, <1>2, <1>3, UncalledForm DEF Advances, TypeOK, Snapshot, Over
  <1>8. WireOK'
    <2>1. Behind(o, status, 0)'
      BY <1>1, <1>3 DEF Behind, TypeOK
    <2>2. \A i \in DOMAIN wire' :
            Kept(i) \/ Behind(wire[i].order, wire[i].venue.status, wire[i].venue.done)'
      BY <1>6, <2>1 DEF e, Behind
    <2> QED
      BY <1>1, <1>5, <1>7, <2>2, WireStep DEF Inv
  <1>9. AskOK'
    BY <1>1, <1>2, <1>5, <1>7, AskStep DEF Inv
  <1>10. \A p \in Orders : VenueOK(p)' /\ FactOK(p)'
    <2> SUFFICES ASSUME NEW p \in Orders
                 PROVE  VenueOK(p)' /\ FactOK(p)'
      OBVIOUS
    <2>1. VenueOK(p) /\ FactOK(p)
      BY DEF Inv
    <2>2. CASE p = o
      <3>1. VenueOK(p)'
        BY <1>1, <1>2, <1>3, <2>2 DEF VenueOK, TypeOK, Callable
      <3>2. FactOK(p)'
        <4>1. venue[o].done = 0 /\ venue'[o].done = 0 /\ \A x \in ends[o] : x.status = "FILLED"
          BY <1>1, <1>2, <1>3, UncalledForm DEF TypeOK
        <4> QED
          BY <1>2, <2>1, <2>2, <4>1 DEF FactOK
      <3> QED
        BY <3>1, <3>2
    <2>3. CASE p # o
      BY <1>1, <1>2, <1>3, <2>1, <2>3 DEF VenueOK, FactOK, TypeOK
    <2> QED
      BY <2>2, <2>3
  <1>11. CallsOK'
    <2>1. Entered' = Entered
      BY <1>2 DEF Entered, Recorded
    <2>2. Entered > 0 => state["entry"] # "NONE" /\ (state["retry"] # "NONE" \/ venue["entry"].status # "REJECTED")
      <3>1. \A p \in Entries : VenueOK(p) /\ Recorded(p) \in Nat /\ Recorded(p) <= venue[p].done
        BY <1>1, RecordedForm DEF Inv, Entries, Orders
      <3> QED
        BY <1>1, <3>1 DEF Entered, VenueOK, Entries, CallsOK, Inv, TypeOK, Snapshot, Orders
    <2> QED
      BY <1>1, <1>2, <1>3, <2>1, <2>2 DEF CallsOK, Inv, TypeOK, Callable, Orders, Entries, VenueOK
  <1>12. PassOK'
    <2>1. ~Reduced
      BY <1>1, <1>2 DEF Reduced, CallsOK, Inv, Callable, VenueOK, Orders, Entries
    <2>2. ASSUME Untraded
          PROVE  Untraded'
      <3> SUFFICES ASSUME NEW p \in Called'
                   PROVE  Honest(p)' \/ (Over(p)' /\ venue'[p].done = 0)
        BY DEF Untraded
      <3>1. \A i \in DOMAIN wire' : wire'[i].kind = "BARE" =>
              \E j \in DOMAIN wire : wire'[i] = wire[j] /\ wire'[i].order # o
        BY <1>2, <1>6, UncalledForm DEF Kept, e
      <3>2. CASE p = o
        BY <1>1, <1>2, <1>3, <3>1, <3>2, UncalledForm DEF Honest
      <3>3. CASE p # o
        BY <1>1, <1>2, <1>3, <2>2, <3>1, <3>3 DEF Honest, Untraded, Over, Called, TypeOK
      <3> QED
        BY <3>2, <3>3
    <2>3. \A p \in pass'.todo : state'[p] # "NONE"
      BY <1>1, <1>2 DEF PassOK, Inv, TypeOK
    <2> QED
      BY <1>2, <2>1, <2>2, <2>3 DEF PassOK, Inv
  <1>13. ClosedIsAccounted'
    BY <1>2 DEF ClosedIsAccounted
  <1> QED
    BY <1>5, <1>8, <1>9, <1>10, <1>11, <1>12, <1>13 DEF Inv

\* An order trades, or ends, at the venue.
LEMMA VenueStep ==
  ASSUME Inv, Venue
  PROVE  Inv'
  <1>1. TypeOK
    BY DEF Inv
  <1>2. /\ UNCHANGED <<mode, cache, state, size, fills, ends, pass, ask, done, faults>>
        /\ \E o \in Orders, status \in {"WORKING", "FILLED", "CANCELLED"}, n \in Nat,
              kind \in {"FILL", "CANCELLED"} :
             /\ venue[o].status = "WORKING"
             /\ venue[o].done <= n /\ n <= size[o]
             /\ status = "WORKING" => n < size[o]
             /\ venue' = [venue EXCEPT ![o] = [status |-> status, done |-> n]]
             /\ wire' = IF mode = "UP"
                        THEN Append(wire, [order |-> o, kind |-> kind, venue |-> venue'[o]])
                        ELSE wire
    <2>1. ASSUME NEW o \in Orders
          PROVE  venue[o].status = "WORKING" =>
                   venue[o].done \in Nat /\ size[o] \in Nat /\ venue[o].done < size[o]
      BY <1>1 DEF Inv, VenueOK, TypeOK, Snapshot
    <2>2. CASE \E o \in Orders : Trade(o)
      <3>1. PICK o \in Orders : Trade(o)
        BY <2>2
      <3> DEFINE n == venue[o].done + 1
                 status == IF n = size[o] THEN "FILLED" ELSE "WORKING"
      <3>2. /\ n \in Nat /\ venue[o].done <= n /\ n <= size[o]
            /\ status \in {"WORKING", "FILLED", "CANCELLED"}
            /\ status = "WORKING" => n < size[o]
        BY <2>1, <3>1 DEF Trade
      <3> QED
        BY <3>1, <3>2 DEF Trade, Become, Tell, Sent, facts, loop
    <2>3. CASE \E o \in Orders : EndOrder(o)
      <3>1. PICK o \in Orders : EndOrder(o)
        BY <2>3
      <3>2. venue[o].done \in Nat /\ venue[o].done <= size[o]
        BY <2>1, <3>1 DEF EndOrder
      <3>3. /\ venue[o].status = "WORKING"
            /\ venue' = [venue EXCEPT ![o] = [status |-> "CANCELLED", done |-> venue[o].done]]
            /\ wire' = IF mode = "UP"
                       THEN Append(wire, [order |-> o, kind |-> "CANCELLED", venue |-> venue'[o]])
                       ELSE wire
            /\ UNCHANGED <<mode, cache, state, size, fills, ends, pass, ask, done, faults>>
        BY <3>1 DEF EndOrder, Become, Tell, Sent, facts, loop
      <3>4. venue[o].done <= venue[o].done
        BY <3>2
      <3> QED
        BY <3>2, <3>3, <3>4
    <2> QED
      BY <2>2, <2>3 DEF Venue
  <1>3. PICK o \in Orders, status \in {"WORKING", "FILLED", "CANCELLED"}, n \in Nat,
             kind \in {"FILL", "CANCELLED"} :
          /\ venue[o].status = "WORKING"
          /\ venue[o].done <= n /\ n <= size[o]
          /\ status = "WORKING" => n < size[o]
          /\ venue' = [venue EXCEPT ![o] = [status |-> status, done |-> n]]
          /\ wire' = IF mode = "UP"
                     THEN Append(wire, [order |-> o, kind |-> kind, venue |-> venue'[o]])
                     ELSE wire
    BY <1>2
  <1> DEFINE e == [order |-> o, kind |-> kind, venue |-> [status |-> status, done |-> n]]
  <1>4. e \in Event /\ wire' \in {wire, Append(wire, e)} /\ venue'[o] = e.venue
    BY <1>1, <1>3 DEF TypeOK, Event, Snapshot, Statuses, Final, Kinds
  <1> HIDE DEF e
  <1>5. TypeOK'
    <2>1. wire' \in Seq(Event)
      BY <1>1, <1>4, WireAppend
    <2>2. venue' \in [Orders -> Snapshot]
      BY <1>1, <1>3 DEF TypeOK, Snapshot, Statuses, Final
    <2> QED
      BY <1>1, <1>2, <2>1, <2>2 DEF TypeOK
  <1>6. \A i \in DOMAIN wire' : wire'[i] = e \/ Kept(i)
    BY <1>1, <1>4, WireAppend
  <1>7. e.order = o /\ e.kind # "BARE" /\ e.venue = venue'[o]
        /\ venue'[o].status = status /\ venue'[o].done = n
    BY <1>1, <1>3 DEF TypeOK, e
  <1>8. Advances
    <2>1. ASSUME NEW p \in Orders, p # o
          PROVE  venue'[p] = venue[p] /\ venue[p].done \in Nat
      BY <1>1, <1>3, <2>1 DEF TypeOK, Snapshot
    <2> QED
      BY <1>3, <1>7, <2>1 DEF Advances, Over, Final
  <1>9. WireOK'
    <2>1. Behind(o, status, n)'
      BY <1>1, <1>3 DEF Behind, TypeOK
    <2>2. \A i \in DOMAIN wire' :
            Kept(i) \/ Behind(wire[i].order, wire[i].venue.status, wire[i].venue.done)'
      BY <1>6, <1>7, <2>1 DEF Behind
    <2> QED
      BY <1>1, <1>5, <1>8, <2>2, WireStep DEF Inv
  <1>10. AskOK'
    BY <1>1, <1>2, <1>5, <1>8, AskStep DEF Inv
  <1>11. \A p \in Orders : VenueOK(p)' /\ FactOK(p)'
    <2> SUFFICES ASSUME NEW p \in Orders
                 PROVE  VenueOK(p)' /\ FactOK(p)'
      OBVIOUS
    <2>1. VenueOK(p) /\ FactOK(p)
      BY DEF Inv
    <2>2. CASE p = o
      <3>1. VenueOK(p)'
        BY <1>1, <1>2, <1>3, <2>1, <2>2 DEF VenueOK, TypeOK
      <3>2. \A x \in ends[p] : x.status = "FILLED"
        <4>1. \A x \in ends[p] : x.status \in Final
          BY <1>1 DEF TypeOK
        <4> QED
          BY <1>3, <2>1, <2>2, <4>1 DEF FactOK, Final
      <3>3. \A f \in fills[p] : f.trade \in 1 .. n
        BY <1>1, <1>3, <2>1, <2>2 DEF FactOK, TypeOK, Snapshot
      <3>4. FactOK(p)'
        BY <1>2, <1>7, <2>1, <2>2, <3>2, <3>3 DEF FactOK
      <3> QED
        BY <3>1, <3>4
    <2>3. CASE p # o
      BY <1>1, <1>2, <1>3, <2>1, <2>3 DEF VenueOK, FactOK, TypeOK
    <2> QED
      BY <2>2, <2>3
  <1>12. CallsOK'
    BY <1>1, <1>2, <1>3 DEF CallsOK, Inv, TypeOK, Orders, Entries, Entered, Recorded
  <1>13. o \in Called /\ ~Over(o)
    BY <1>3 DEF Called, Over, Final, Inv, VenueOK
  <1>14. PassOK'
    <2>1. ASSUME Untraded
          PROVE  Untraded'
      <3> SUFFICES ASSUME NEW p \in Called'
                   PROVE  Honest(p)' \/ (Over(p)' /\ venue'[p].done = 0)
        BY DEF Untraded
      <3>1. \A i \in DOMAIN wire' : wire'[i].kind = "BARE" => Kept(i)
        BY <1>6, <1>7
      <3>2. p \in Called /\ p \in Orders
        BY <1>2 DEF Called
      <3>3. CASE p = o
        <4>1. Honest(o)
          BY <1>13, <2>1 DEF Untraded
        <4>2. FactOK(o)
          BY DEF Inv
        <4> QED
          BY <1>2, <1>3, <3>1, <3>3, <4>1, <4>2 DEF Honest, FactOK, Kept
      <3>4. CASE p # o
        <4>1. venue'[p] = venue[p]
          BY <1>1, <1>3, <3>2, <3>4 DEF TypeOK
        <4> QED
          BY <1>2, <2>1, <3>1, <3>2, <4>1 DEF Honest, Untraded, Over, Kept
      <3> QED
        BY <3>3, <3>4
    <2> QED
      BY <1>2, <1>13, <2>1 DEF PassOK, Inv, Reduced
  <1>15. ClosedIsAccounted'
    BY <1>2, <1>13 DEF ClosedIsAccounted, Inv
  <1> QED
    BY <1>5, <1>9, <1>10, <1>11, <1>12, <1>14, <1>15 DEF Inv

(***************************************************************************)
(* Steps the venue takes no part in.                                       *)
(***************************************************************************)

\* The orders that were called remain the same.
SameCalls == \A o \in Orders : state'[o] = "NONE" <=> state[o] = "NONE"

LEMMA StandStill ==
  ASSUME TypeOK, UNCHANGED venue
  PROVE  Advances
  BY DEF Advances, TypeOK, Snapshot

\* A step that learns nothing.
LEMMA QuietStep ==
  ASSUME Inv, TypeOK', UNCHANGED <<venue, size, fills, ends, done>>, SameCalls,
         WireOK', AskOK', PassOK'
  PROVE  Inv'
  <1>1. \A o \in Orders : VenueOK(o)' /\ FactOK(o)'
    BY DEF Inv, VenueOK, FactOK, SameCalls
  <1>2. CallsOK'
    BY DEF Inv, CallsOK, SameCalls, Orders, Entries, Entered, Recorded
  <1>3. ClosedIsAccounted'
    BY DEF Inv, ClosedIsAccounted, SameCalls, Called, Over
  <1> QED
    BY <1>1, <1>2, <1>3 DEF Inv

\* A pass goes on, or ends.
LEMMA PassStep ==
  ASSUME Inv, UNCHANGED <<venue, ends>>, SameCalls,
         \A i \in DOMAIN wire' : wire'[i].kind = "BARE" => Kept(i),
         mode' = "DOWN" => ~pass'.on,
         pass'.on /\ pass'.flat => pass.on /\ pass.flat,
         pass'.todo \subseteq pass.todo
  PROVE  PassOK'
  <1>1. Called' = Called
    BY DEF SameCalls, Called
  <1>2. \A o \in Orders : Honest(o) => Honest(o)'
    BY DEF Honest, Kept
  <1>3. Untraded => Untraded'
    BY <1>1, <1>2 DEF Untraded, Over, Called
  <1>4. Reduced => Reduced'
    BY <1>1 DEF Reduced, Position, Over, SameCalls, Orders
  <1>5. \A o \in pass'.todo : state'[o] # "NONE"
    BY DEF PassOK, Inv, TypeOK, SameCalls
  <1> QED
    BY <1>3, <1>4, <1>5 DEF PassOK, Inv

\* Only the wire, the cache, the mode, the state of a called order, the pass and the
\* query may change, and no event comes to the wire.
LEMMA IdleStep ==
  ASSUME Inv, TypeOK', UNCHANGED <<venue, size, fills, ends, done>>, SameCalls,
         \A i \in DOMAIN wire' : Kept(i), AskOK',
         mode' = "DOWN" => ~pass'.on,
         pass'.on /\ pass'.flat => pass.on /\ pass.flat,
         pass'.todo \subseteq pass.todo
  PROVE  Inv'
  <1>1. WireOK'
    BY StandStill, WireStep DEF Inv
  <1> QED
    BY <1>1, PassStep, QuietStep

(***************************************************************************)
(* Learning facts.                                                         *)
(***************************************************************************)

\* The facts are true.
Teaches(o, fs, es) ==
  /\ fs \in SUBSET [trade : 1 .. venue[o].done, way : {"event", "query"}]
  /\ \A f, g \in fs : f.trade = g.trade => f = g
  /\ es \in SUBSET [status : Final, cumulative : Nat]
  /\ \A e \in es : e.status # "FILLED" => e.status = venue[o].status

LEMMA LearnStep ==
  ASSUME Inv, NEW o \in Orders, NEW fs, NEW es, Teaches(o, fs, es), Learn(o, fs, es),
         UNCHANGED <<venue, mode, size, done>>,
         cache' \in [Orders -> [done : Nat, over : BOOLEAN]], faults' \in Nat,
         wire' \in Seq(Event), \A i \in DOMAIN wire' : Kept(i), ask' \in {ask, None},
         pass' = pass \/ \E x : pass' = [pass EXCEPT !.todo = @ \ {x}],
         \/ ~Honest(o)
         \/ \A e \in es : e.status = "CANCELLED" => e.cumulative = venue[o].done
  PROVE  Inv'
  <1>1. TypeOK /\ FactOK(o) /\ VenueOK(o) /\ venue[o].done \in Nat
    BY DEF Inv, TypeOK, Snapshot
  <1>2. /\ fills' = [fills EXCEPT ![o] = @ \cup New(o, fs)]
        /\ ends' = [ends EXCEPT ![o] = @ \cup es]
        /\ state' = [state EXCEPT ![o] = Opened(o)]
    BY DEF Learn
  <1>3. Opened(o) \in States /\ (Opened(o) = "NONE" <=> state[o] = "NONE")
    BY <1>1 DEF Opened, TypeOK, States
  <1>4. New(o, fs) \in SUBSET [trade : Nat, way : {"event", "query"}]
    BY <1>1 DEF New, Teaches
  <1>5. pass' \in [on : BOOLEAN, todo : SUBSET Orders, flat : BOOLEAN]
        /\ pass'.on = pass.on /\ pass'.flat = pass.flat /\ pass'.todo \subseteq pass.todo
    BY <1>1 DEF TypeOK
  <1>6. TypeOK'
    <2>1. fills' \in [Orders -> SUBSET [trade : Nat, way : {"event", "query"}]]
      BY <1>1, <1>2, <1>4 DEF TypeOK
    <2>2. ends' \in [Orders -> SUBSET [status : Final, cumulative : Nat]]
      BY <1>1, <1>2 DEF TypeOK, Teaches
    <2>3. state' \in [Orders -> States]
      BY <1>1, <1>2, <1>3 DEF TypeOK
    <2>4. ask' \in [order : Orders \cup {"none"}, status : Statuses, done : Nat]
      BY <1>1 DEF TypeOK, None, Statuses
    <2> QED
      BY <1>1, <1>5, <2>1, <2>2, <2>3, <2>4 DEF TypeOK
  <1>7. SameCalls /\ Called' = Called
    BY <1>1, <1>2, <1>3 DEF SameCalls, Called, TypeOK
  <1>8. WireOK' /\ AskOK'
    BY <1>1, <1>6, StandStill, WireStep, AskStep DEF Inv
  <1>9. /\ fills'[o] = fills[o] \cup New(o, fs) /\ ends'[o] = ends[o] \cup es
        /\ \A p \in Orders : p # o => fills'[p] = fills[p] /\ ends'[p] = ends[p]
    BY <1>1, <1>2 DEF TypeOK
  <1>10. \A p \in Orders : VenueOK(p)' /\ FactOK(p)'
    <2> SUFFICES ASSUME NEW p \in Orders
                 PROVE  VenueOK(p)' /\ FactOK(p)'
      OBVIOUS
    <2>1. VenueOK(p) /\ FactOK(p)
      BY DEF Inv
    <2>2. VenueOK(p)'
      BY <1>7, <2>1 DEF VenueOK, SameCalls
    <2>3. CASE p # o
      BY <1>9, <2>1, <2>2, <2>3 DEF FactOK
    <2>4. CASE p = o
      <3>1. \A f \in fills'[o] : f.trade \in 1 .. venue'[o].done
        BY <1>1, <1>9 DEF FactOK, New, Teaches
      <3>2. \A f, g \in fills'[o] : SameTrade(f, g) => f = g
        BY <1>1, <1>9 DEF FactOK, New, Teaches, SameTrade
      <3>3. \A e \in ends'[o] : e.status # "FILLED" => venue'[o].status = e.status
        BY <1>1, <1>9 DEF FactOK, Teaches
      <3> QED
        BY <2>2, <2>4, <3>1, <3>2, <3>3 DEF FactOK
    <2> QED
      BY <2>3, <2>4
  <1>11. \A p \in Orders : Recorded(p) \in Nat /\ Recorded(p)' \in Nat /\ Recorded(p) <= Recorded(p)'
    <2> SUFFICES ASSUME NEW p \in Orders
                 PROVE  Recorded(p) \in Nat /\ Recorded(p)' \in Nat /\ Recorded(p) <= Recorded(p)'
      OBVIOUS
    <2>1. IsFiniteSet(fills[p]) /\ Recorded(p) \in Nat
      BY <1>1, RecordedForm DEF Inv
    <2>2. IsFiniteSet(fills'[p]) /\ Recorded(p)' \in Nat
      <3>1. venue'[p].done \in Nat /\ FactOK(p)'
        BY <1>6, <1>10 DEF TypeOK, Snapshot
      <3> QED
        BY <3>1, DifferentTrades DEF FactOK, SameTrade, Recorded
    <2>3. fills[p] \subseteq fills'[p]
      BY <1>9
    <2> QED
      BY <2>1, <2>2, <2>3, FS_Subset DEF Recorded
  <1>12. CallsOK'
    <2>1. Entered \in Nat /\ Entered' \in Nat /\ Entered <= Entered'
      BY <1>11 DEF Entered, Orders, Entries
    <2>2. size["reducer"] \in Nat
      BY <1>1 DEF TypeOK, Orders
    <2> QED
      BY <1>7, <2>1, <2>2 DEF CallsOK, Inv, SameCalls, Orders, Entries
  <1>13. PassOK'
    <2>1. \A p \in Orders : Honest(p) => Honest(p)'
      <3> SUFFICES ASSUME NEW p \in Orders, Honest(p)
                   PROVE  Honest(p)'
        OBVIOUS
      <3>1. \A e \in ends'[p] : e.status = "CANCELLED" => e.cumulative = venue'[p].done
        BY <1>9 DEF Honest
      <3> QED
        BY <3>1 DEF Honest, Kept
    <2>2. Untraded => Untraded'
      BY <1>7, <2>1 DEF Untraded, Over, Called
    <2>3. Reduced => Reduced'
      BY <1>7 DEF Reduced, Position, Over, SameCalls, Orders
    <2>4. \A p \in pass'.todo : state'[p] # "NONE"
      BY <1>1, <1>5, <1>7 DEF PassOK, Inv, TypeOK, SameCalls
    <2> QED
      BY <1>5, <2>2, <2>3, <2>4 DEF PassOK, Inv
  <1>14. ClosedIsAccounted'
    <2> SUFFICES ASSUME done, NEW p \in Called
                 PROVE  Over(p)' /\ {f.trade : f \in fills'[p]} = 1 .. venue'[p].done
      BY <1>7 DEF ClosedIsAccounted
    <2>1. p \in Orders /\ Over(p) /\ {f.trade : f \in fills[p]} = 1 .. venue[p].done
      BY DEF Inv, ClosedIsAccounted, Called
    <2>2. fills[p] \subseteq fills'[p] /\ \A f \in fills'[p] : f.trade \in 1 .. venue[p].done
      BY <1>9, <1>10, <2>1 DEF FactOK
    <2> QED
      BY <2>1, <2>2 DEF Over
  <1> QED
    BY <1>6, <1>8, <1>10, <1>12, <1>13, <1>14 DEF Inv

LEMMA EndedForm ==
  ASSUME NEW status \in Statuses, NEW n \in Nat
  PROVE  /\ Ended(status, n) \in SUBSET [status : Final, cumulative : Nat]
         /\ \A x \in Ended(status, n) : x.status = status /\ (status = "CANCELLED" => x.cumulative = n)
         /\ Ended(status, n) # {} => status \in Final
  BY DEF Ended, Final, Statuses

\* What an event teaches is true; only an order's end replayed without its trades may
\* have too small a quantity.
LEMMA NormalizeForm ==
  ASSUME Inv, NEW e \in Event, Behind(e.order, e.venue.status, e.venue.done), Normalize(e)
  PROVE  /\ cache' \in [Orders -> [done : Nat, over : BOOLEAN]]
         /\ \E fs, es :
              /\ Teaches(e.order, fs, es) /\ Learn(e.order, fs, es)
              /\ \/ e.kind = "BARE"
                 \/ \A x \in es : x.status = "CANCELLED" => x.cumulative = venue[e.order].done
  <1> DEFINE o == e.order
             missing == Missing(o, e.venue)
             exact == Exact(o, missing)
             end == IF cache[o].over THEN {} ELSE Ended(e.venue.status, e.venue.done)
  <1>1. TypeOK /\ o \in Orders /\ e.venue.done \in Nat /\ e.venue.status \in Statuses
        /\ cache[o].done \in Nat /\ size[o] \in Nat /\ venue[o].done \in Nat
    BY DEF Inv, TypeOK, Event, Snapshot
  <1>2. missing \subseteq 1 .. venue[o].done /\ IsFiniteSet(missing) /\ Cardinality(missing) \in Nat
    <2>1. IsFiniteSet(missing)
      <3>1. cache[o].done + 1 \in Int /\ e.venue.done \in Int
        BY <1>1
      <3>2. IsFiniteSet(cache[o].done + 1 .. e.venue.done)
        BY <3>1, FS_Interval
      <3> QED
        BY <3>2 DEF Missing
    <2> QED
      BY <1>1, <2>1, FS_CardinalityType DEF Missing, Behind
  <1>3. /\ end \in SUBSET [status : Final, cumulative : Nat]
        /\ \A x \in end : x.status = venue[o].status
                          /\ (x.status = "CANCELLED" => x.cumulative = venue[o].done)
    BY <1>1, EndedForm DEF Behind
  <1>4. CASE e.kind = "BARE" /\ Learn(o, {}, Ended(e.venue.status, cache[o].done))
             /\ cache' = [cache EXCEPT ![o].over = TRUE]
    <2>1. Teaches(o, {}, Ended(e.venue.status, cache[o].done))
      BY <1>1, EndedForm DEF Teaches, Behind
    <2>2. cache' \in [Orders -> [done : Nat, over : BOOLEAN]]
      <3>1. cache[o] \in [done : Nat, over : BOOLEAN]
        BY <1>1 DEF TypeOK
      <3>2. [cache[o] EXCEPT !.over = TRUE] \in [done : Nat, over : BOOLEAN]
        BY <3>1
      <3>3. cache' = [cache EXCEPT ![o] = [cache[o] EXCEPT !.over = TRUE]]
        BY <1>4
      <3> QED
        BY <1>1, <3>2, <3>3 DEF TypeOK
    <2> QED
      BY <1>4, <2>1, <2>2
  <1>5. ASSUME Count(o, e.venue)
        PROVE  cache' \in [Orders -> [done : Nat, over : BOOLEAN]]
    BY <1>1, <1>5 DEF Count, TypeOK
  <1>6. CASE Learn(o, exact.fills, exact.ends \cup end) /\ Count(o, e.venue)
    <2>1. /\ exact.fills = {[trade |-> k, way |-> "event"] : k \in missing}
          /\ exact.ends \in SUBSET {[status |-> "FILLED", cumulative |-> size[o]]}
      BY DEF Exact
    <2>2. Teaches(o, exact.fills, exact.ends \cup end)
      BY <1>1, <1>2, <1>3, <2>1 DEF Teaches, Final
    <2>3. \A x \in exact.ends \cup end : x.status = "CANCELLED" => x.cumulative = venue[o].done
      BY <1>3, <2>1
    <2> QED
      BY <1>5, <1>6, <2>2, <2>3
  <1>7. CASE Learn(o, {}, Inferred(Cardinality(missing)) \cup end) /\ Count(o, e.venue)
    <2>1. /\ Inferred(Cardinality(missing)) \in SUBSET [status : Final, cumulative : Nat]
          /\ \A x \in Inferred(Cardinality(missing)) : x.status = "FILLED"
      BY <1>2 DEF Inferred, Final
    <2>2. Teaches(o, {}, Inferred(Cardinality(missing)) \cup end)
      BY <1>3, <2>1 DEF Teaches
    <2>3. \A x \in Inferred(Cardinality(missing)) \cup end :
            x.status = "CANCELLED" => x.cumulative = venue[o].done
      BY <1>3, <2>1
    <2> QED
      BY <1>5, <1>7, <2>2, <2>3
  <1> QED
    BY <1>4, <1>6, <1>7 DEF Normalize

LEMMA DeliverStep ==
  ASSUME Inv, Deliver
  PROVE  Inv'
  <1>1. TypeOK /\ WireOK
    BY DEF Inv
  <1>2. /\ mode # "DOWN" /\ wire # <<>> /\ wire' = Tail(wire)
        /\ UNCHANGED <<venue, mode, size, pass, ask, done, faults>>
    BY DEF Deliver, loop
  <1>3. /\ wire' \in Seq(Event) /\ \A i \in DOMAIN wire' : Kept(i)
        /\ Head(wire) \in Event /\ \E j \in DOMAIN wire : Head(wire) = wire[j]
    <2>1. wire \in Seq(Event)
      BY <1>1 DEF TypeOK
    <2> QED
      BY <1>2, <2>1, SequenceForm DEF Kept
  <1>4. PICK e \in Event : e = Head(wire)
    BY <1>3
  <1>5. Behind(e.order, e.venue.status, e.venue.done) /\ (e.kind = "BARE" => ~Honest(e.order))
    BY <1>1, <1>3, <1>4 DEF WireOK, Honest
  <1>6. CASE UNCHANGED <<cache, state, facts>>
    <2>1. TypeOK'
      BY <1>1, <1>2, <1>3, <1>6 DEF TypeOK, facts
    <2>2. AskOK'
      BY <1>1, <1>2, <2>1, StandStill, AskStep DEF Inv
    <2> QED
      BY <1>2, <1>3, <1>6, <2>1, <2>2, IdleStep DEF facts, SameCalls, PassOK, Inv
  <1>7. CASE Normalize(e)
    <2>1. PICK fs, es :
            /\ Teaches(e.order, fs, es) /\ Learn(e.order, fs, es)
            /\ \/ e.kind = "BARE"
               \/ \A x \in es : x.status = "CANCELLED" => x.cumulative = venue[e.order].done
      BY <1>5, <1>7, NormalizeForm
    <2>2. cache' \in [Orders -> [done : Nat, over : BOOLEAN]]
      BY <1>5, <1>7, NormalizeForm
    <2>3. e.order \in Orders /\ faults' \in Nat
      BY <1>1, <1>2 DEF Event, TypeOK
    <2> QED
      BY <1>2, <1>3, <1>5, <2>1, <2>2, <2>3, LearnStep
  <1> QED
    BY <1>4, <1>6, <1>7 DEF Deliver

LEMMA AnsweredForm ==
  ASSUME Answered
  PROVE  ask' = None /\ \E x : pass' = [pass EXCEPT !.todo = @ \ {x}]
  BY DEF Answered

LEMMA FallBackStep ==
  ASSUME Inv, FallBack
  PROVE  Inv'
  <1>1. TypeOK /\ AskOK
    BY DEF Inv
  <1>2. /\ ask # None /\ Answered /\ UNCHANGED <<venue, mode, wire, size, done>>
        /\ faults' \in Nat
    BY <1>1 DEF FallBack, Fault, TypeOK
  <1> DEFINE e == [order |-> ask.order, kind |-> "INFERRED", venue |-> venue[ask.order]]
  <1>3. ask.order \in Orders /\ venue[ask.order].status # "NONE" /\ venue[ask.order] \in Snapshot
    BY <1>1, <1>2 DEF AskOK, Behind, TypeOK
  <1>4. e \in Event /\ e.order = ask.order /\ e.kind = "INFERRED" /\ e.venue = venue[ask.order]
    BY <1>3 DEF Event, Kinds
  <1>5. Behind(e.order, e.venue.status, e.venue.done)
    BY <1>3, <1>4 DEF Behind, Snapshot
  <1>6. /\ wire' \in Seq(Event) /\ \A i \in DOMAIN wire' : Kept(i)
    BY <1>1, <1>2 DEF TypeOK, Kept
  <1>7. UNCHANGED <<cache, state, facts>> \/ Normalize(e)
    BY DEF FallBack
  <1> HIDE DEF e
  <1>8. CASE UNCHANGED <<cache, state, facts>>
    <2>1. TypeOK'
      BY <1>1, <1>2, <1>6, <1>8 DEF TypeOK, facts, Answered, None, Statuses
    <2>2. AskOK'
      BY <1>1, <1>2, <2>1, StandStill, AskStep DEF Inv, Answered
    <2>3. pass'.on = pass.on /\ pass'.flat = pass.flat /\ pass'.todo \subseteq pass.todo
      BY <1>1, <1>2 DEF Answered, TypeOK
    <2>4. mode' = "DOWN" => ~pass'.on
      BY <1>2, <2>3 DEF Inv, PassOK
    <2> QED
      BY <1>2, <1>6, <1>8, <2>1, <2>2, <2>3, <2>4, IdleStep DEF facts, SameCalls
  <1>9. CASE Normalize(e)
    <2>1. PICK fs, es :
            /\ Teaches(e.order, fs, es) /\ Learn(e.order, fs, es)
            /\ \/ e.kind = "BARE"
               \/ \A x \in es : x.status = "CANCELLED" => x.cumulative = venue[e.order].done
      BY <1>4, <1>5, <1>9, NormalizeForm
    <2>2. cache' \in [Orders -> [done : Nat, over : BOOLEAN]]
      BY <1>4, <1>5, <1>9, NormalizeForm
    <2> QED
      BY <1>2, <1>3, <1>4, <1>6, <2>1, <2>2, AnsweredForm, LearnStep
  <1> QED
    BY <1>7, <1>8, <1>9

LEMMA ReadTradesStep ==
  ASSUME Inv, ReadTrades
  PROVE  Inv'
  <1>1. TypeOK /\ AskOK
    BY DEF Inv
  <1> DEFINE fs == {[trade |-> k, way |-> "query"] : k \in 1 .. ask.done}
  <1>2. /\ ask # None /\ Answered /\ UNCHANGED <<venue, mode, wire, cache, size, done, faults>>
        /\ Learn(ask.order, fs, QueryEnd)
    BY DEF ReadTrades
  <1>3. /\ ask.order \in Orders /\ Behind(ask.order, ask.status, ask.done)
        /\ ask.done \in Nat /\ ask.status \in Statuses /\ venue[ask.order].done \in Nat
    BY <1>1, <1>2 DEF AskOK, TypeOK, Snapshot
  <1>4. /\ QueryEnd \in SUBSET [status : Final, cumulative : Nat]
        /\ \A x \in QueryEnd : x.status = venue[ask.order].status /\ x.cumulative = venue[ask.order].done
    BY <1>3 DEF QueryEnd, Behind
  <1>5. Teaches(ask.order, fs, QueryEnd)
    BY <1>3, <1>4 DEF Teaches, Behind
  <1>6. /\ wire' \in Seq(Event) /\ \A i \in DOMAIN wire' : Kept(i)
        /\ cache' \in [Orders -> [done : Nat, over : BOOLEAN]] /\ faults' \in Nat
    BY <1>1, <1>2 DEF TypeOK, Kept
  <1> QED
    BY <1>2, <1>3, <1>4, <1>5, <1>6, AnsweredForm, LearnStep

(***************************************************************************)
(* Faults, and the steps of a pass that learn nothing.                     *)
(***************************************************************************)

LEMMA IdleFrame ==
  ASSUME Inv, UNCHANGED <<venue, size, fills, ends, done>>,
         state' \in [Orders -> States], SameCalls,
         wire' \in {wire, <<>>}, ask' \in {ask, None}, pass' \in {pass, Idle},
         mode' \in {"UP", "CUT", "DOWN"}, faults' \in Nat,
         cache' \in [Orders -> [done : Nat, over : BOOLEAN]],
         mode' = "DOWN" => ~pass'.on
  PROVE  Inv'
  <1>1. TypeOK /\ AskOK
    BY DEF Inv
  <1>2. wire' \in Seq(Event) /\ \A i \in DOMAIN wire' : Kept(i)
    <2>1. wire' \in Seq(Event)
      <3>1. wire \in Seq(Event) /\ <<>> \in Seq(Event)
        BY <1>1, EmptySeq DEF TypeOK
      <3> QED
        BY <3>1
    <2>2. CASE wire' = wire
      BY <2>1, <2>2 DEF Kept
    <2>3. CASE wire' = <<>>
      BY <2>1, <2>3
    <2> QED
      BY <2>2, <2>3
  <1>3. pass' \in [on : BOOLEAN, todo : SUBSET Orders, flat : BOOLEAN]
    <2>1. Idle \in [on : BOOLEAN, todo : SUBSET Orders, flat : BOOLEAN]
      BY DEF Idle
    <2> QED
      BY <1>1, <2>1 DEF TypeOK
  <1>4. ask' \in [order : Orders \cup {"none"}, status : Statuses, done : Nat]
    BY <1>1 DEF TypeOK, None, Statuses
  <1>5. TypeOK'
    BY <1>1, <1>2, <1>3, <1>4 DEF TypeOK
  <1>6. AskOK'
    BY <1>1, <1>5, StandStill, AskStep
  <1>7. (pass'.on /\ pass'.flat => pass.on /\ pass.flat) /\ pass'.todo \subseteq pass.todo
    BY DEF Idle
  <1> QED
    BY <1>2, <1>5, <1>6, <1>7, IdleStep

LEMMA ResultUnknownStep ==
  ASSUME Inv, NEW o \in Orders, ResultUnknown(o)
  PROVE  Inv'
  <1>1. TypeOK /\ PassOK
    BY DEF Inv
  <1>2. state' \in [Orders -> States] /\ SameCalls
    BY <1>1 DEF ResultUnknown, TypeOK, States, SameCalls
  <1> QED
    BY <1>1, <1>2, IdleFrame DEF ResultUnknown, TypeOK, PassOK, facts, loop

LEMMA DisconnectStep ==
  ASSUME Inv, Disconnect
  PROVE  Inv'
  <1>1. TypeOK /\ faults' \in Nat
    BY DEF Inv, TypeOK, Disconnect, Fault
  <1> QED
    BY <1>1, IdleFrame DEF Disconnect, TypeOK, SameCalls, facts, loop

LEMMA KillStep ==
  ASSUME Inv, Kill
  PROVE  Inv'
  <1>1. TypeOK /\ faults' \in Nat /\ cache' \in [Orders -> [done : Nat, over : BOOLEAN]]
    BY DEF Inv, TypeOK, Kill, Fault
  <1> QED
    BY <1>1, IdleFrame DEF Kill, TypeOK, SameCalls, Idle, facts

LEMMA EndPassStep ==
  ASSUME Inv, EndPass
  PROVE  Inv'
  <1>1. TypeOK
    BY DEF Inv
  <1> QED
    BY <1>1, IdleFrame DEF EndPass, TypeOK, SameCalls, Idle, facts

LEMMA ReadOrderStep ==
  ASSUME Inv, NEW o \in Orders, ReadOrder(o)
  PROVE  Inv'
  <1>1. TypeOK /\ VenueOK(o) /\ PassOK
    BY DEF Inv
  <1>2. /\ pass.on /\ o \in pass.todo
        /\ ask' = [order |-> o, status |-> venue[o].status, done |-> venue[o].done]
        /\ UNCHANGED <<venue, mode, wire, cache, state, size, fills, ends, pass, done, faults>>
    BY DEF ReadOrder, facts
  <1>3. venue[o] \in Snapshot
    BY <1>1 DEF TypeOK
  <1>4. TypeOK'
    BY <1>1, <1>2, <1>3 DEF TypeOK, Snapshot
  <1>5. \A i \in DOMAIN wire' : Kept(i)
    BY <1>2 DEF Kept
  <1>6. PassOK'
    BY <1>2, <1>5, PassStep DEF SameCalls, PassOK, Inv
  <1>7. WireOK'
    BY <1>1, <1>2, <1>4, <1>5, StandStill, WireStep DEF Inv
  <1>8. AskOK'
    <2>1. venue[o].status # "NONE"
      BY <1>1, <1>2 DEF PassOK, VenueOK
    <2> QED
      BY <1>2, <1>3, <2>1 DEF AskOK, Behind, Snapshot
  <1> QED
    BY <1>2, <1>4, <1>6, <1>7, <1>8, QuietStep DEF SameCalls

\* What Nautilus replays stands for the venue, and only after a restart an end comes
\* without its trades.
LEMMA ReconcileForm ==
  ASSUME Inv, NEW restart \in BOOLEAN, Reconcile(restart), UNCHANGED venue
  PROVE  /\ wire' \in Seq(Event)
         /\ \A i \in DOMAIN wire' :
              \/ Kept(i)
              \/ /\ wire'[i].order \in Called /\ wire'[i].venue = venue[wire'[i].order]
                 /\ wire'[i].kind = "BARE" => restart
  <1>1. TypeOK
    BY DEF Inv
  <1>2. PICK way \in [Called -> {"EXACT", "INFERRED", "BARE"}] :
          /\ \A o \in Called : way[o] \in Ways(o, restart)
          /\ wire' = wire \o SetToSeq({[order |-> o, kind |-> way[o], venue |-> venue[o]] : o \in Called})
    BY DEF Reconcile
  <1> DEFINE replay == {[order |-> o, kind |-> way[o], venue |-> venue[o]] : o \in Called}
             f == [o \in Called |-> [order |-> o, kind |-> way[o], venue |-> venue[o]]]
  <1>3. IsFiniteSet(replay)
    <2>1. IsFiniteSet(Orders)
      <3>1. IsFiniteSet({"entry"})
        BY FS_Singleton
      <3>2. IsFiniteSet({"entry"} \cup {"retry"})
        BY <3>1, FS_AddElement
      <3>3. IsFiniteSet(({"entry"} \cup {"retry"}) \cup {"reducer"})
        BY <3>2, FS_AddElement
      <3>4. Orders = ({"entry"} \cup {"retry"}) \cup {"reducer"}
        BY DEF Orders, Entries
      <3> QED
        BY <3>3, <3>4
    <2>2. IsFiniteSet(Called)
      BY <2>1, FS_Subset DEF Called
    <2>3. f \in Surjection(Called, replay)
      BY DEF Surjection
    <2> QED
      BY <2>2, <2>3, FS_Surjection
  <1>4. replay \subseteq Event
    BY <1>1, <1>2 DEF TypeOK, Event, Kinds, Called
  <1>5. SetToSeq(replay) \in Seq(replay) /\ SetToSeq(replay) \in Seq(Event)
    BY <1>3, <1>4, SetToSeqForm, SeqMonotonic
  <1>6. PICK q : q = SetToSeq(replay)
    OBVIOUS
  <1>7. q \in Seq(replay) /\ q \in Seq(Event) /\ wire' = wire \o q /\ \A j \in DOMAIN q : q[j] \in replay
    <2>1. q \in Seq(replay) /\ q \in Seq(Event) /\ wire' = wire \o q
      BY <1>2, <1>5, <1>6, Zenon
    <2> HIDE DEF replay
    <2> QED
      BY <2>1
  <1>8. \A o \in Called : way[o] = "BARE" => restart
    BY <1>2 DEF Ways
  <1>9. \A e \in replay : /\ e.order \in Called /\ e.venue = venue[e.order]
                          /\ e.kind = "BARE" => restart
    BY <1>8
  <1> HIDE DEF replay
  <1>10. wire \in Seq(Event)
    BY <1>1 DEF TypeOK
  <1> QED
    BY <1>7, <1>9, <1>10, SequenceForm DEF Kept

LEMMA ReconcileStep ==
  ASSUME Inv, Reconnect \/ Restart
  PROVE  Inv'
  <1>1. TypeOK /\ AskOK /\ PassOK
    BY DEF Inv
  <1>2. /\ mode' = "UP" /\ UNCHANGED <<venue, cache, size, fills, ends, pass, ask, done, faults>>
        /\ (mode = "CUT" /\ Reconcile(FALSE)) \/ (mode = "DOWN" /\ Reconcile(TRUE))
    BY DEF Reconnect, Restart, facts, loop
  <1>3. state' \in [Orders -> States] /\ SameCalls
    BY <1>1 DEF Reconnect, Restart, TypeOK, States, SameCalls
  <1>4. /\ wire' \in Seq(Event)
        /\ \A i \in DOMAIN wire' :
             \/ Kept(i)
             \/ /\ wire'[i].order \in Called /\ wire'[i].venue = venue[wire'[i].order]
                /\ wire'[i].kind = "BARE" => mode = "DOWN"
    BY <1>2, ReconcileForm
  <1>5. TypeOK'
    BY <1>1, <1>2, <1>3, <1>4 DEF TypeOK
  <1>6. AskOK'
    BY <1>1, <1>2, <1>5, StandStill, AskStep
  <1>7. WireOK'
    <2>1. \A o \in Called : o \in Orders /\ Behind(o, venue[o].status, venue[o].done)'
      BY <1>1, <1>2 DEF Called, Behind, Inv, VenueOK, TypeOK, Snapshot
    <2>2. \A i \in DOMAIN wire' :
            Kept(i) \/ Behind(wire[i].order, wire[i].venue.status, wire[i].venue.done)'
      BY <1>2, <1>4, <2>1 DEF Behind
    <2> QED
      BY <1>1, <1>2, <1>5, <2>2, StandStill, WireStep DEF Inv
  <1>8. PassOK'
    <2>1. CASE mode = "DOWN"
      BY <1>1, <1>2, <1>3, <2>1 DEF PassOK, SameCalls, TypeOK
    <2>2. CASE mode # "DOWN"
      BY <1>2, <1>3, <1>4, <2>2, PassStep
    <2> QED
      BY <2>1, <2>2
  <1> QED
    BY <1>2, <1>3, <1>5, <1>6, <1>7, <1>8, QuietStep

\* A flat account with no order was seen after the reducer or before anything traded.
LEMMA ObserveStep ==
  ASSUME Inv, Observe
  PROVE  Inv'
  <1>1. TypeOK /\ AskOK /\ \A o \in Orders : VenueOK(o)
    BY DEF Inv
  <1> DEFINE flat == Position = Virtual /\ Position = 0 /\ OpenOrders = {}
  <1>2. /\ mode # "DOWN"
        /\ pass' = [on |-> TRUE, todo |-> Asked, flat |-> flat]
        /\ UNCHANGED <<venue, mode, wire, cache, state, size, fills, ends, ask, done, faults>>
    BY DEF Observe, facts
  <1>3. Asked \subseteq Called /\ Called \subseteq Orders
    BY DEF Asked, Unresolved, Called
  <1>4. pass' \in [on : BOOLEAN, todo : SUBSET Orders, flat : BOOLEAN]
    <2>1. flat \in BOOLEAN
      OBVIOUS
    <2> QED
      BY <1>2, <1>3, <2>1
  <1>5. TypeOK'
    BY <1>1, <1>2, <1>4 DEF TypeOK
  <1>6. WireOK' /\ AskOK'
    BY <1>2 DEF Inv, WireOK, AskOK, Behind
  <1>7. ASSUME flat
        PROVE  Reduced \/ Untraded
    <2>1. \A o \in Called : Over(o)
      BY <1>1, <1>7 DEF OpenOrders, Over, Called, VenueOK, TypeOK, Snapshot, Statuses
    <2>2. CASE state["reducer"] # "NONE"
      BY <1>7, <2>1, <2>2 DEF Reduced
    <2>3. CASE state["reducer"] = "NONE"
      <3>1. \A o \in Orders : venue[o].done \in Nat
        BY <1>1 DEF TypeOK, Snapshot
      <3>2. venue["reducer"].done = 0
        BY <1>1, <2>3 DEF VenueOK, Orders
      <3>3. venue["entry"].done = 0 /\ venue["retry"].done = 0
        BY <1>7, <3>1, <3>2 DEF Position, Orders, Entries
      <3> QED
        BY <2>1, <3>2, <3>3 DEF Untraded, Called, Orders, Entries
    <2> QED
      BY <2>2, <2>3
  <1>8. PassOK'
    <2>1. \A o \in pass'.todo : state'[o] # "NONE"
      BY <1>2, <1>3 DEF Called
    <2>2. pass'.flat => flat
      BY <1>2
    <2>3. (Reduced => Reduced') /\ (Untraded => Untraded')
      BY <1>2 DEF Reduced, Untraded, Position, Over, Called, Honest
    <2> QED
      BY <1>2, <1>7, <2>1, <2>2, <2>3 DEF PassOK
  <1> QED
    BY <1>2, <1>5, <1>6, <1>8, QuietStep DEF SameCalls

(***************************************************************************)
(* The closing.                                                            *)
(***************************************************************************)

\* A bounded set of naturals has a greatest element.
LEMMA MaxForm ==
  ASSUME NEW S \in SUBSET Nat, S # {}, NEW b \in Nat, \A x \in S : x <= b
  PROVE  Max(S) \in S /\ \A x \in S : x <= Max(S)
  <1> DEFINE R == {ss \in Nat \X Nat : ss[1] < ss[2]}
             U == {u \in Nat : \A x \in S : x <= u}
  <1>1. IsWellFoundedOn(R, Nat)
    BY NatLessThanWellFounded DEF OpToRel
  <1>2. U \subseteq Nat /\ b \in U
    OBVIOUS
  <1> HIDE DEF R, U
  <1>3. PICK u \in U : \A v \in U : ~(<<v, u>> \in R)
    BY <1>1, <1>2, WFMin
  <1>4. u \in Nat /\ \A x \in S : x <= u
    BY <1>2, <1>3 DEF U
  <1>5. \A v \in U : u <= v
    <2> SUFFICES ASSUME NEW v \in U
                 PROVE  u <= v
      OBVIOUS
    <2>1. <<v, u>> \in Nat \X Nat /\ ~(v < u)
      BY <1>2, <1>3, <1>4 DEF R
    <2> QED
      BY <1>2, <1>4, <2>1
  <1>6. u \in S
    <2> SUFFICES ASSUME u \notin S
                 PROVE  FALSE
      OBVIOUS
    <2>1. \A x \in S : x <= u - 1
      BY <1>4
    <2>2. u - 1 \in Nat
      <3>1. PICK x \in S : x \in Nat
        OBVIOUS
      <3>2. x <= u - 1
        BY <2>1
      <3> QED
        BY <1>4, <3>1, <3>2
    <2>3. u - 1 \in U
      BY <2>1, <2>2 DEF U
    <2> QED
      BY <1>4, <1>5, <2>3
  <1>7. \E m \in S : \A x \in S : m >= x
    BY <1>4, <1>6
  <1>8. Max(S) \in S /\ \A x \in S : Max(S) >= x
    BY <1>7 DEF Max
  <1> QED
    BY <1>8

\* An order whose fills are complete is over at the venue; they are its trades, unless
\* its cancellation was told with too small a quantity.
LEMMA CompleteForm ==
  ASSUME Inv, NEW o \in Called, ends[o] # {}, FillsComplete(o)
  PROVE  /\ Over(o)
         /\ Honest(o) => Recorded(o) = venue[o].done
  <1>1. /\ TypeOK /\ VenueOK(o) /\ FactOK(o) /\ o \in Orders /\ state[o] # "NONE"
        /\ venue[o] \in Snapshot /\ size[o] \in Nat
    BY DEF Inv, Called, TypeOK
  <1>2. Recorded(o) \in Nat /\ Recorded(o) <= venue[o].done
    BY <1>1, RecordedForm
  <1>3. CASE Recorded(o) = size[o]
    BY <1>1, <1>2, <1>3 DEF VenueOK, Snapshot, Statuses, Over
  <1>4. CASE /\ \A e \in ends[o] :
                  /\ e.cumulative <= size[o]
                  /\ e.status = "FILLED" => e.cumulative = size[o]
             /\ Recorded(o) = Max({e.cumulative : e \in ends[o]})
    <2> DEFINE C == {e.cumulative : e \in ends[o]}
    <2>1. C \in SUBSET Nat /\ C # {} /\ (\A x \in C : x <= size[o]) /\ Recorded(o) = Max(C)
      BY <1>1, <1>4 DEF TypeOK
    <2> HIDE DEF C
    <2>2. Recorded(o) \in C
      BY <1>1, <2>1, MaxForm
    <2>3. PICK e \in ends[o] : e.cumulative = Recorded(o) /\ e.status \in Final
      BY <1>1, <2>2 DEF C, TypeOK
    <2>4. CASE e.status = "FILLED"
      BY <1>3, <1>4, <2>3, <2>4
    <2>5. CASE e.status # "FILLED"
      <3>1. venue[o].status = e.status
        BY <1>1, <2>3, <2>5 DEF FactOK
      <3>2. Honest(o) => Recorded(o) = venue[o].done
        BY <1>1, <1>2, <2>3, <2>5, <3>1 DEF Honest, VenueOK, Final, Snapshot
      <3> QED
        BY <2>3, <3>1, <3>2 DEF Over
    <2> QED
      BY <2>4, <2>5
  <1> QED
    BY <1>3, <1>4 DEF FillsComplete

\* When a pass has proved the end, every order is over and every trade recorded.
LEMMA ProvenIsAccounted ==
  ASSUME Inv, pass.on, Proven
  PROVE  \A o \in Called : Over(o) /\ {f.trade : f \in fills[o]} = 1 .. venue[o].done
  <1>1. /\ TypeOK /\ CallsOK /\ PassOK /\ Called \subseteq Orders
        /\ \A o \in Orders : VenueOK(o) /\ FactOK(o)
    BY DEF Inv, Called
  <1>2. \A o \in Called : Over(o) /\ (Honest(o) => Recorded(o) = venue[o].done)
    BY CompleteForm DEF Proven
  <1>3. \A o \in Orders : /\ Recorded(o) \in Nat /\ venue[o].done \in Nat /\ size[o] \in Nat
                          /\ Recorded(o) <= venue[o].done /\ venue[o].done <= size[o]
    BY <1>1, RecordedForm DEF TypeOK, Snapshot, VenueOK
  <1>4. \A o \in Called : Recorded(o) = venue[o].done
    <2>1. CASE Reduced
      <3>1. Entered = Recorded("entry") + Recorded("retry") /\ Entered = Recorded("reducer")
        BY <1>3 DEF Proven, Virtual, Entered, Orders, Entries
      <3>2. venue["entry"].done + venue["retry"].done = venue["reducer"].done
        BY <1>3, <2>1 DEF Reduced, Position, Orders, Entries
      <3>3. venue["reducer"].done <= Entered
        BY <1>1, <1>3, <2>1, <3>1 DEF Reduced, CallsOK, Orders, Entries
      <3>4. /\ Recorded("entry") = venue["entry"].done
            /\ Recorded("retry") = venue["retry"].done
            /\ Recorded("reducer") = venue["reducer"].done
        <4>1. "entry" \in Orders /\ "retry" \in Orders /\ "reducer" \in Orders
          BY DEF Orders, Entries
        <4> QED
          BY <1>3, <3>1, <3>2, <3>3, <4>1
      <3> QED
        BY <1>1, <3>4 DEF Orders, Entries
    <2>2. CASE Untraded
      BY <1>1, <1>2, <1>3, <2>2 DEF Untraded
    <2> QED
      BY <1>1, <2>1, <2>2 DEF PassOK, Proven
  <1> QED
    BY <1>1, <1>2, <1>4, RecordedForm

LEMMA CloseStep ==
  ASSUME Inv, Close
  PROVE  Inv'
  <1>1. TypeOK /\ AskOK
    BY DEF Inv
  <1>2. /\ pass.on /\ Proven /\ pass' = Idle /\ done'
        /\ state' = [o \in Orders |-> IF o \in Called THEN "CLOSED" ELSE state[o]]
        /\ UNCHANGED <<venue, mode, wire, cache, size, fills, ends, ask, faults>>
    BY DEF Close, facts
  <1>3. state' \in [Orders -> States] /\ SameCalls
    BY <1>1, <1>2 DEF TypeOK, States, SameCalls, Called
  <1>4. Called' = Called
    BY <1>3 DEF SameCalls, Called
  <1>5. TypeOK'
    <2>1. pass' \in [on : BOOLEAN, todo : SUBSET Orders, flat : BOOLEAN]
      BY <1>2 DEF Idle
    <2>2. done' \in BOOLEAN
      BY DEF Close
    <2> QED
      BY <1>1, <1>2, <1>3, <2>1, <2>2 DEF TypeOK
  <1>6. WireOK' /\ AskOK'
    BY <1>2 DEF Inv, WireOK, AskOK, Behind
  <1>7. \A o \in Orders : VenueOK(o)' /\ FactOK(o)'
    BY <1>2, <1>3 DEF Inv, VenueOK, FactOK, SameCalls
  <1>8. CallsOK'
    BY <1>2, <1>3 DEF Inv, CallsOK, SameCalls, Orders, Entries, Entered, Recorded
  <1>9. PassOK'
    BY <1>2 DEF PassOK, Idle
  <1>10. ClosedIsAccounted'
    BY <1>2, <1>4, ProvenIsAccounted DEF ClosedIsAccounted, Over
  <1> QED
    BY <1>5, <1>6, <1>7, <1>8, <1>9, <1>10 DEF Inv

(***************************************************************************)
(* The invariant holds.                                                    *)
(***************************************************************************)

LEMMA InvInit == Init => Inv
  <1> SUFFICES ASSUME Init
               PROVE  Inv
    OBVIOUS
  <1>1. TypeOK
    <2>1. wire \in Seq(Event)
      BY EmptySeq DEF Init
    <2>2. pass \in [on : BOOLEAN, todo : SUBSET Orders, flat : BOOLEAN]
      BY DEF Init, Idle
    <2>3. cache \in [Orders -> [done : Nat, over : BOOLEAN]]
      BY DEF Init
    <2>4. venue \in [Orders -> Snapshot] /\ ask \in [order : Orders \cup {"none"}, status : Statuses, done : Nat]
      BY DEF Init, Snapshot, Statuses, None
    <2> QED
      BY <2>1, <2>2, <2>3, <2>4 DEF TypeOK, Init, States
  <1>2. \A o \in Orders : VenueOK(o) /\ FactOK(o)
    BY FactsAssumption DEF Init, VenueOK, FactOK, Final
  <1>3. WireOK /\ AskOK /\ CallsOK /\ PassOK /\ ClosedIsAccounted
    BY DEF Init, WireOK, AskOK, CallsOK, PassOK, ClosedIsAccounted, Idle, Orders, Entries
  <1> QED
    BY <1>1, <1>2, <1>3 DEF Inv

LEMMA CallSteps ==
  ASSUME Inv, CallEntry \/ CallRetry \/ CallReducer
  PROVE  Inv'
  <1>1. CASE CallEntry
    BY <1>1, FactsAssumption, CallStep DEF CallEntry, Callable, Orders, Entries
  <1>2. CASE CallRetry
    <2>1. venue["entry"].status = "REJECTED"
      <3>1. FactOK("entry")
        BY DEF Inv, Orders, Entries
      <3> QED
        BY <1>2, <3>1 DEF CallRetry, Retryable, FactOK
    <2>2. Callable("retry", Lots) /\ Call("retry", Lots) /\ "retry" \in Orders
      BY <1>2, <2>1, FactsAssumption DEF CallRetry, Callable, Orders, Entries
    <2> QED
      BY <2>2, CallStep
  <1>3. CASE CallReducer
    <2>1. \A o \in Entries : Recorded(o) \in Nat
      BY RecordedForm DEF Inv, Orders
    <2>2. Entered \in Nat
      BY <2>1 DEF Entered, Entries
    <2>3. Callable("reducer", Entered) /\ Call("reducer", Entered) /\ "reducer" \in Orders
      BY <1>3, <2>2 DEF CallReducer, Callable, Orders, Entries
    <2>4. PICK q : q = Entered
      OBVIOUS
    <2>5. Callable("reducer", q) /\ Call("reducer", q)
      BY <2>3, <2>4
    <2> QED
      BY <2>3, <2>5, CallStep
  <1> QED
    BY <1>1, <1>2, <1>3

LEMMA InvStep == Inv /\ [Next]_vars => Inv'
  <1> SUFFICES ASSUME Inv, [Next]_vars
               PROVE  Inv'
    OBVIOUS
  <1>1. CASE CallEntry \/ CallRetry \/ CallReducer
    BY <1>1, CallSteps
  <1>2. CASE Venue
    BY <1>2, VenueStep
  <1>3. CASE Deliver \/ ReadTrades \/ FallBack
    BY <1>3, DeliverStep, ReadTradesStep, FallBackStep
  <1>4. CASE \E o \in Orders : ResultUnknown(o) \/ ReadOrder(o)
    BY <1>4, ResultUnknownStep, ReadOrderStep
  <1>5. CASE Disconnect \/ Kill \/ Reconnect \/ Restart
    BY <1>5, DisconnectStep, KillStep, ReconcileStep
  <1>6. CASE Observe \/ Close \/ EndPass
    BY <1>6, ObserveStep, CloseStep, EndPassStep
  <1>7. CASE UNCHANGED vars
    <2>1. UNCHANGED <<venue, mode, wire, cache, state, size, fills, ends, pass, ask, done, faults>>
      BY <1>7 DEF vars, facts, loop
    <2>2. TypeOK'
      BY <2>1 DEF Inv, TypeOK
    <2>3. PassOK' /\ AskOK' /\ WireOK'
      BY <2>1 DEF Inv, PassOK, AskOK, WireOK, Behind, Reduced, Untraded, Position, Over, Called, Honest
    <2> QED
      BY <2>1, <2>2, <2>3, QuietStep DEF SameCalls
  <1> QED
    BY <1>1, <1>2, <1>3, <1>4, <1>5, <1>6, <1>7 DEF Next, Pass

\* The strengthening holds in every state, for any order size and number of faults.
THEOREM Invariance == Spec => []Inv
  BY InvInit, InvStep, PTL DEF Spec

(***************************************************************************)
(* The theorems.                                                           *)
(***************************************************************************)

\* No order ever has more fills than trades, on whichever ways and however often the
\* trades are told, so a quantity conflict can only come from the venue.
THEOREM TradesCountOnce == Spec => []CountedOnce
  <1>1. Inv => CountedOnce
    <2> SUFFICES ASSUME Inv
                 PROVE  CountedOnce
      OBVIOUS
    <2>1. \A o \in Orders : /\ Recorded(o) \in Nat /\ venue[o].done \in Nat /\ size[o] \in Nat
                            /\ Recorded(o) <= venue[o].done /\ venue[o].done <= size[o]
      BY RecordedForm DEF Inv, TypeOK, Snapshot, VenueOK
    <2>2. \A o \in Entries : size[o] <= Lots /\ o \in Orders
      BY DEF Inv, VenueOK, Orders
    <2> QED
      BY <2>1, <2>2, FactsAssumption DEF CountedOnce, QuantityConflict
  <1> QED
    BY <1>1, Invariance, PTL

\* A closed activation has no order at the venue and all trades of its orders.
THEOREM ClosingsAreAccounted == Spec => []ClosedIsAccounted
  <1>1. Inv => ClosedIsAccounted
    BY DEF Inv
  <1> QED
    BY <1>1, Invariance, PTL
=============================================================================
