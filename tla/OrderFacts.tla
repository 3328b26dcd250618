------------------------------- MODULE OrderFacts -------------------------------
(***************************************************************************)
(* How the Executor learns what became of its orders.  An order's trades   *)
(* and its end reach the facts on three ways: as events of the user stream *)
(* through the Nautilus cache, as events Nautilus infers when it           *)
(* reconciles after a reconnection, a restart or an order query, and as    *)
(* the order and the trades a pass of the responsibility loop reads from   *)
(* the venue itself.  A pass closes the activation when these facts and    *)
(* the account agree.                                                      *)
(*                                                                         *)
(* One activation with an entry, a second attempt of it, and one order     *)
(* that reduces their position.                                            *)
(* A trade has one lot and is known by its number within the order.        *)
(***************************************************************************)
EXTENDS Integers, Sequences, FiniteSets, SequencesExt, FiniteSetsExt, Functions, TLC

CONSTANTS
  Lots,       \* quantity of the entry
  MaxFaults   \* bound: connections lost, processes killed and queries failed

ASSUME FactsAssumption == Lots \in Nat \ {0} /\ MaxFaults \in Nat

VARIABLES
  venue,   \* external: status and trades of each order
  mode,    \* UP, CUT with the user stream lost, DOWN with the process ended
  wire,    \* events on their way through the Nautilus cache, in order
  cache,   \* external: the trades the cache counts, and whether the order is over there
  state,   \* state of each action
  size,    \* quantity in its action_terms
  fills,   \* its FILL facts: the trade and the way it came
  ends,    \* its terminal ORDER_STATE facts: status and cumulative quantity
  pass,    \* the pass under way: whom it asks, and whether it saw a flat account
  ask,     \* the order it has read, before it reads the order's trades
  done,    \* the activation is COMPLETED and its actions CLOSED
  faults   \* bound: faults so far

facts == <<fills, ends>>
loop  == <<pass, ask>>
vars  == <<venue, mode, wire, cache, state, size, facts, loop, done, faults>>

Entries == {"entry", "retry"}
Orders  == Entries \cup {"reducer"}

\* An order that expires ends like one that is cancelled.
Final == {"FILLED", "CANCELLED", "REJECTED"}

Idle   == [on |-> FALSE, todo |-> {}, flat |-> FALSE]
None   == [order |-> "none", status |-> "NONE", done |-> 0]

Over(o)   == venue[o].status \in Final
Called    == {o \in Orders : state[o] # "NONE"}
Position  == venue["entry"].done + venue["retry"].done - venue["reducer"].done

(***************************************************************************)
(* What the facts say.                                                     *)
(***************************************************************************)

Recorded(o) == Cardinality(fills[o])

Entered == Recorded("entry") + Recorded("retry")

\* The activation's virtual position.
Virtual == Entered - Recorded("reducer")

\* Every fill before the order's end is persisted.
FillsComplete(o) ==
  LET cumulative == {e.cumulative : e \in ends[o]}
  IN \/ Recorded(o) = size[o] /\ [status |-> "FILLED", cumulative |-> size[o]] \in ends[o]
     \/ /\ ends[o] # {}
        /\ \A e \in ends[o] :
             /\ e.cumulative <= size[o]
             /\ e.status = "FILLED" => e.cumulative = size[o]
             /\ e.status = "REJECTED" => e.cumulative = 0
        /\ Recorded(o) = Max(cumulative)

QuantityConflict == \E o \in Entries : Recorded(o) > Lots

\* Mutant: the same trade is another fact on another way.
SameTradeAndWay(f, g) == f = g

\* A trade is one fact on whichever way it comes.
SameTrade(f, g) == f.trade = g.trade

New(o, fs) == {f \in fs : \A g \in fills[o] : ~SameTrade(f, g)}

\* A fact about an order opens an action whose call has no answer yet.
Opened(o) == IF state[o] \in {"SUBMITTING", "UNKNOWN"} THEN "OPEN" ELSE state[o]

Learn(o, fs, es) ==
  /\ fills' = [fills EXCEPT ![o] = @ \cup New(o, fs)]
  /\ ends' = [ends EXCEPT ![o] = @ \cup es]
  /\ state' = [state EXCEPT ![o] = Opened(o)]

(***************************************************************************)
(* The venue.                                                              *)
(***************************************************************************)

Sent(o, kind) == [order |-> o, kind |-> kind, venue |-> venue'[o]]

Tell(o, kind) ==
  wire' = IF mode = "UP" THEN Append(wire, Sent(o, kind)) ELSE wire

Become(o, status, trades) == venue' = [venue EXCEPT ![o] = [status |-> status, done |-> trades]]

\* The venue takes the order, or rejects it.
Call(o, quantity) ==
  /\ mode = "UP" /\ state[o] = "NONE" /\ ~done
  /\ state' = [state EXCEPT ![o] = "SUBMITTING"]
  /\ size' = [size EXCEPT ![o] = quantity]
  /\ \/ Become(o, "WORKING", 0) /\ Tell(o, "ACCEPTED")
     \/ Become(o, "REJECTED", 0) /\ Tell(o, "REJECTED")
  /\ UNCHANGED <<mode, cache, facts, loop, done, faults>>

CallEntry == Call("entry", Lots)

\* The next attempt of an entry the venue's rules rejected.
Retryable == \E e \in ends["entry"] : e.status = "REJECTED" /\ FillsComplete("entry")
CallRetry == Retryable /\ Call("retry", Lots)

CallReducer == Entered > 0 /\ Call("reducer", Entered)

Trade(o) ==
  /\ venue[o].status = "WORKING"
  /\ o = "reducer" => Position > 0
  /\ Become(o, IF venue[o].done + 1 = size[o] THEN "FILLED" ELSE "WORKING", venue[o].done + 1)
  /\ Tell(o, "FILL")
  /\ UNCHANGED <<mode, cache, state, size, facts, loop, done, faults>>

EndOrder(o) ==
  /\ venue[o].status = "WORKING"
  /\ Become(o, "CANCELLED", venue[o].done)
  /\ Tell(o, "CANCELLED")
  /\ UNCHANGED <<mode, cache, state, size, facts, loop, done, faults>>

(***************************************************************************)
(* Events of Nautilus and the facts they are normalised to.                *)
(***************************************************************************)

\* Trades of a known trade id, and with the last one the order's end.
Exact(o, trades) ==
  LET fs == {[trade |-> k, way |-> "event"] : k \in trades}
      last == New(o, fs) # {} /\ Max(trades \cup {0}) = size[o]
  IN [fills |-> fs,
      ends |-> IF last THEN {[status |-> "FILLED", cumulative |-> size[o]]} ELSE {}]

\* A trade Nautilus infers from a quantity is an end of the order with it.
Inferred(quantity) ==
  IF quantity = 0 THEN {} ELSE {[status |-> "FILLED", cumulative |-> quantity]}

\* The end of an order with what the cache has counted then.
Ended(status, counted) ==
  IF status = "CANCELLED" THEN {[status |-> status, cumulative |-> counted]}
  ELSE IF status = "REJECTED" THEN {[status |-> status, cumulative |-> 0]} ELSE {}

Count(o, v) == cache' = [cache EXCEPT ![o] = [done |-> v.done, over |-> v.status \in Final]]

\* The cache counts a trade once and ends an order once.
Missing(o, v) == cache[o].done + 1 .. v.done

Known(e) == Missing(e.order, e.venue) = {} /\ (cache[e.order].over \/ e.venue.status \notin Final)

Normalize(e) ==
  LET o == e.order
      exact == Exact(o, Missing(o, e.venue))
      end == IF cache[o].over THEN {} ELSE Ended(e.venue.status, e.venue.done)
  IN \/ /\ e.kind \in {"ACCEPTED", "FILL", "CANCELLED", "REJECTED", "EXACT"}
        /\ Learn(o, exact.fills, exact.ends \cup end) /\ Count(o, e.venue)
     \/ /\ e.kind = "INFERRED"
        /\ Learn(o, {}, Inferred(Cardinality(Missing(o, e.venue))) \cup end) /\ Count(o, e.venue)
     \/ /\ e.kind = "BARE"
        /\ Learn(o, {}, Ended(e.venue.status, cache[o].done))
        /\ cache' = [cache EXCEPT ![o].over = TRUE]

Deliver ==
  /\ mode # "DOWN" /\ wire # <<>>
  /\ wire' = Tail(wire)
  /\ LET e == Head(wire)
     IN IF e.kind # "ACCEPTED" /\ Known(e)
        THEN UNCHANGED <<cache, state, facts>>
        ELSE Normalize(e)
  /\ UNCHANGED <<venue, mode, size, loop, done, faults>>

\* No answer in time, an answer nobody can trust: the result is unknown.
ResultUnknown(o) ==
  /\ mode # "DOWN" /\ state[o] = "SUBMITTING"
  /\ state' = [state EXCEPT ![o] = "UNKNOWN"]
  /\ UNCHANGED <<venue, mode, wire, cache, size, facts, loop, done, faults>>

(***************************************************************************)
(* Faults.                                                                 *)
(***************************************************************************)

Fault == faults < MaxFaults /\ faults' = faults + 1

Disconnect ==
  /\ mode = "UP" /\ Fault
  /\ mode' = "CUT"
  /\ UNCHANGED <<venue, wire, cache, state, size, facts, loop, done>>

\* The process ends; Nautilus keeps no cache, the events on their way are lost.
Kill ==
  /\ mode # "DOWN" /\ Fault
  /\ mode' = "DOWN"
  /\ wire' = <<>> /\ pass' = Idle /\ ask' = None
  /\ cache' = [o \in Orders |-> [done |-> 0, over |-> FALSE]]
  /\ UNCHANGED <<venue, state, size, facts, done>>

\* What Nautilus may make of an order when it reconciles.
Ways(o, restart) ==
  {"EXACT"} \cup (IF venue[o].done > 0 THEN {"INFERRED"} ELSE {}) \cup
  IF restart /\ venue[o].status = "CANCELLED" THEN {"BARE"} ELSE {}

Reconcile(restart) ==
  \E way \in [Called -> {"EXACT", "INFERRED", "BARE"}] :
    /\ \A o \in Called : way[o] \in Ways(o, restart)
    /\ wire' = wire \o SetToSeq({[order |-> o, kind |-> way[o], venue |-> venue[o]] : o \in Called})

Reconnect ==
  /\ mode = "CUT" /\ mode' = "UP"
  /\ Reconcile(FALSE)
  /\ UNCHANGED <<venue, cache, state, size, facts, loop, done, faults>>

Restart ==
  /\ mode = "DOWN" /\ mode' = "UP"
  /\ state' = [o \in Orders |-> IF state[o] = "SUBMITTING" THEN "UNKNOWN" ELSE state[o]]
  /\ Reconcile(TRUE)
  /\ UNCHANGED <<venue, cache, size, facts, loop, done, faults>>

(***************************************************************************)
(* A pass of the responsibility loop.                                      *)
(***************************************************************************)

Unresolved == {o \in Called : state[o] \in {"SUBMITTING", "UNKNOWN", "OPEN"}}
OpenOrders == {o \in Orders : venue[o].status = "WORKING"}

\* Mutant: an account that is not explained asks for nobody.
AskedWhenMissing == {o \in Unresolved \ OpenOrders : ends[o] = {}}

\* An account nobody can explain asks for every order; otherwise the pass
\* asks for those that are open no more and not known to be over.
Asked ==
  IF Position # Virtual THEN Unresolved
  ELSE {o \in Unresolved \ OpenOrders : ends[o] = {}}

Observe ==
  /\ mode # "DOWN" /\ ~pass.on /\ ~done /\ Called # {}
  /\ pass' = [on |-> TRUE, todo |-> Asked,
              flat |-> Position = Virtual /\ Position = 0 /\ OpenOrders = {}]
  /\ UNCHANGED <<venue, mode, wire, cache, state, size, facts, ask, done, faults>>

ReadOrder(o) ==
  /\ pass.on /\ o \in pass.todo /\ ask = None
  /\ ask' = [order |-> o, status |-> venue[o].status, done |-> venue[o].done]
  /\ UNCHANGED <<venue, mode, wire, cache, state, size, facts, pass, done, faults>>

\* The trades add up to the order's executed quantity.
Agrees == venue[ask.order].done = ask.done

Answered == ask' = None /\ pass' = [pass EXCEPT !.todo = @ \ {ask.order}]

QueryEnd == IF ask.status \in Final THEN {[status |-> ask.status, cumulative |-> ask.done]} ELSE {}

ReadTrades ==
  /\ ask # None /\ (ask.done > 0 => Agrees)
  /\ Learn(ask.order, {[trade |-> k, way |-> "query"] : k \in 1 .. ask.done}, QueryEnd)
  /\ Answered
  /\ UNCHANGED <<venue, mode, wire, cache, size, done, faults>>

\* A query that fails leaves the identity query to Nautilus, which infers.
FallBack ==
  /\ ask # None
  /\ \/ ask.done > 0 /\ ~Agrees /\ UNCHANGED faults
     \/ Fault
  /\ LET e == [order |-> ask.order, kind |-> "INFERRED", venue |-> venue[ask.order]]
     IN IF Known(e) THEN UNCHANGED <<cache, state, facts>> ELSE Normalize(e)
  /\ Answered
  /\ UNCHANGED <<venue, mode, wire, size, done>>

\* Mutant: an order whose end is not known is skipped.
ProvenOfEnded ==
  /\ pass.flat /\ Virtual = 0
  /\ \A o \in Called : ends[o] # {} => FillsComplete(o)

\* The account it observed had no position and no order, and the facts it
\* has by now explain that.
Proven ==
  /\ pass.flat /\ Virtual = 0
  /\ Entered > 0 => Recorded("reducer") > 0
  /\ \A o \in Called : state[o] = "OPEN" /\ ends[o] # {} /\ FillsComplete(o)

Close ==
  /\ pass.on /\ pass.todo = {} /\ Proven
  /\ pass' = Idle /\ done' = TRUE
  /\ state' = [o \in Orders |-> IF o \in Called THEN "CLOSED" ELSE state[o]]
  /\ UNCHANGED <<venue, mode, wire, cache, size, facts, ask, faults>>

EndPass ==
  /\ pass.on /\ pass.todo = {} /\ ~Proven
  /\ pass' = Idle
  /\ UNCHANGED <<venue, mode, wire, cache, state, size, facts, ask, done, faults>>

(***************************************************************************)
(* Specification.                                                          *)
(***************************************************************************)

Init ==
  /\ venue = [o \in Orders |-> [status |-> "NONE", done |-> 0]]
  /\ mode = "UP" /\ wire = <<>>
  /\ cache = [o \in Orders |-> [done |-> 0, over |-> FALSE]]
  /\ state = [o \in Orders |-> "NONE"]
  /\ size = [o \in Orders |-> 0]
  /\ fills = [o \in Orders |-> {}] /\ ends = [o \in Orders |-> {}]
  /\ pass = Idle /\ ask = None
  /\ done = FALSE /\ faults = 0

Venue == \E o \in Orders : Trade(o) \/ EndOrder(o)

Pass == Observe \/ (\E o \in Orders : ReadOrder(o)) \/ ReadTrades \/ FallBack \/ Close \/ EndPass

Next ==
  \/ CallEntry \/ CallRetry \/ CallReducer \/ Venue
  \/ Deliver \/ (\E o \in Orders : ResultUnknown(o))
  \/ Disconnect \/ Kill \/ Reconnect \/ Restart
  \/ Pass

\* Orders end, events arrive, connections and processes come back, the
\* position is reduced, and passes follow one another.
Fairness ==
  /\ \A o \in Orders : WF_vars(Trade(o) \/ EndOrder(o))
  /\ WF_vars(CallReducer) /\ WF_vars(Deliver) /\ WF_vars(Reconnect) /\ WF_vars(Restart)
  /\ WF_vars(Observe) /\ WF_vars(\E o \in Orders : ReadOrder(o)) /\ WF_vars(ReadTrades)
  /\ WF_vars(FallBack) /\ WF_vars(Close) /\ WF_vars(EndPass)

Spec == Init /\ [][Next]_vars /\ Fairness

(***************************************************************************)
(* Properties.                                                             *)
(***************************************************************************)

\* A completed activation has no order at the venue, and the fills it keeps
\* are its orders' trades, whichever way each of them came and whatever was
\* lost or read at two instants (_try_close_activation, terminal_fills_complete).
ClosedIsAccounted ==
  done => \A o \in Called : Over(o) /\ {f.trade : f \in fills[o]} = 1 .. venue[o].done

\* A trade that comes as an event and by query counts once: no order has
\* more fills than trades, so none conflicts with its quantity and the
\* account is not stopped for an anomaly there is not (apply_venue_fact_with_result).
CountedOnce == ~QuantityConflict /\ \A o \in Orders : Recorded(o) <= venue[o].done

\* The orders left a position; a successor's work (see ExitResponsibility).
Residual == (\A o \in Called : Over(o)) /\ state["reducer"] # "NONE" /\ Position > 0

\* The facts have an order's end with a wrong quantity: Nautilus inferred a
\* part of the order, or replayed its end without its trades, and no other
\* fact has told the quantity since.
Misread ==
  \E o \in Orders :
    /\ ends[o] # {}
    /\ \/ \E e \in ends[o] : e.status = "FILLED" /\ e.cumulative # size[o]
       \/ \A e \in ends[o] : e.cumulative < venue[o].done

\* An activation that called its entry does not stay open for ever, unless
\* the reducer left a position or an end stays misread: what was lost on one
\* way is asked for on another (_query_actions_missing_from_open_order_facts,
\* _query_called_actions_if_due).
Converges == []<>(state["entry"] = "NONE" \/ done \/ Residual \/ Misread)

=============================================================================
