--------------------------- MODULE ExitResponsibility ---------------------------
(***************************************************************************)
(* How the Executor protects, reduces and closes what one activation       *)
(* bought: the passes of the responsibility sync.                          *)
(*                                                                         *)
(* A pass reads the account (an await), replays the protection of every    *)
(* recorded fill, decides on the exit, and after another await (funding)   *)
(* tries to close the activation, all from the facts it read first.        *)
(* Passes are started by fills, by protections that begin to work, by      *)
(* the clock and by the loop: several may be under way at a time, and      *)
(* between two steps of one the venue and the order events move on.        *)
(*                                                                         *)
(* Quantities are in units of one entry fill.  The account may hold other  *)
(* activations' positions of the instrument, on the same side: the venue   *)
(* limits a reduce-only order to the account, not to the activation.       *)
(***************************************************************************)
EXTENDS Integers, FiniteSets, Sequences, FiniteSetsExt

CONSTANTS
  Passes,  \* passes of sync that may be under way at a time
  Lot,     \* quantity of the entry order
  Other,   \* what other activations hold in the account
  Faults   \* pairs of a failure and of the order it may happen to

ASSUME LotAssumption == Lot \in Nat \ {0} /\ Other \in Nat

Entry     == <<"ENTRY", 1>>
Stop(n)   == <<"STOP", n>>
Primary   == <<"EXIT", 1>>
Successor == <<"EXIT", 2>>
Cleanup   == <<"EXIT", 3>>

Stops  == {Stop(n) : n \in 1..Lot}
Exits  == {Primary, Successor, Cleanup}
Orders == {Entry} \cup Stops \cup Exits

ASSUME FaultsAssumption ==
  Faults \subseteq {"UNVALUED", "REFUSED", "UNKNOWN", "REJECTED"} \X Orders

Fails(o, fault) == <<fault, o>> \in Faults

VARIABLES
  lifecycle,  \* lifecycle of the activation
  timeDue,    \* clock: the direct time exit is due
  state,      \* action of an order, ABSENT before the row exists
  size,       \* quantity of an exit
  base,       \* entry fills recorded when the successor was created
  born,       \* the actions in the order they were created
  called,     \* orders with call_started_at
  aged,       \* clock: orders called longer ago than the successor delay
  cancel,     \* orders whose cancel was called
  recorded,   \* fills recorded for an order
  term,       \* orders with a terminal order state on record
  pass,       \* process: the passes of sync
  blind,      \* history: an exit was sent although a protection of unknown outcome
              \* or a fill that is not on record could still make it too large
  venue,      \* external: the order at the venue
  traded      \* external: what it has traded

rows     == <<state, size, base, born, called>>
facts    == <<recorded, term>>
external == <<venue, traded>>
vars == <<lifecycle, timeDue, rows, aged, cancel, facts, pass, blind, external>>

Sum(f, S) == MapThenSumSet(LAMBDA o : f[o], S)

Reducers == Stops \cup Exits

\* What the activation holds at the venue, and what its ledger says.
Position == traded[Entry] - Sum(traded, Reducers)
Ledger   == recorded[Entry] - Sum(recorded, Reducers)

Idle == [step |-> "IDLE", pos |-> 0, aged |-> {}, open |-> FALSE]

(***************************************************************************)
(* What the rows say.                                                      *)
(***************************************************************************)

\* The terminal state is on record with every fill of the order.  The quantity it
\* reports is the venue's here; DirectSchedule has the case that it is less.
Complete(o) == o \in term /\ recorded[o] = traded[o]

\* _exit_action_resolved.
Resolved(o) ==
  \/ state[o] \in {"NOT_SUBMITTED", "CLOSED"}
  \/ state[o] = "OPEN" /\ Complete(o)

\* An order is known to work: OPEN, and no terminal state on record.
Working(o) == state[o] = "OPEN" /\ o \notin term

\* An entry that may still fill.
EntryUnresolved == state[Entry] = "UNKNOWN" \/ (state[Entry] = "OPEN" /\ ~Complete(Entry))

\* Faulty: a protection the venue ended by itself does not count as failed.
FailedIfRefused(o) == state[o] \in {"REFUSED", "NOT_SUBMITTED"}

\* A protection that ended without a trade: _failed_protection_seen, and fills
\* CAP refused a protection for.
Failed(o) ==
  \/ state[o] \in {"REFUSED", "NOT_SUBMITTED"}
  \/ o \in term /\ venue[o] \in {"CANCELLED", "REJECTED"}

Gap == \E o \in Stops : Failed(o)

\* _unknown_protection_exit_due, at the time the facts were read.
UnknownDue(c) == \E o \in Stops : state[o] = "UNKNOWN" /\ o \in c.aged

\* _risk_reduction_fill_seen.
ReductionSeen == \E o \in Reducers : recorded[o] > 0

\* Why the pass has to exit, or NONE.
Reason(c) ==
  IF lifecycle = "EXITING" THEN "PLAN_EXIT"
  ELSE IF timeDue THEN "DIRECT_TIME_EXIT"
  ELSE IF Gap THEN "PROTECTION_GAP"
  ELSE IF UnknownDue(c) THEN "PROTECTION_RESULT_UNKNOWN"
  ELSE IF c.pos = 0 /\ ReductionSeen THEN "ENTRY_CYCLE_CLOSED"
  ELSE "NONE"

(***************************************************************************)
(* Calls.                                                                  *)
(***************************************************************************)

\* process_execution_action for the order o, with s the rows before it: left
\* READY when CAP cannot value it, refused, accepted, or of unknown outcome and
\* then at the venue or not.
Call(s, o) ==
  \/ /\ \/ Fails(o, "UNVALUED") /\ state' = [s EXCEPT ![o] = "READY"]
        \/ Fails(o, "REFUSED")  /\ state' = [s EXCEPT ![o] = "NOT_SUBMITTED"]
     /\ UNCHANGED <<called, venue>>
  \/ /\ state' = [s EXCEPT ![o] = "OPEN"]
     /\ called' = called \cup {o}
     /\ venue' = [venue EXCEPT ![o] = "LIVE"]
  \/ /\ Fails(o, "UNKNOWN")
     /\ state' = [s EXCEPT ![o] = "UNKNOWN"]
     /\ called' = called \cup {o}
     /\ venue' \in {venue, [venue EXCEPT ![o] = "LIVE"]}

\* The rows a pass drops because they were never called.
Dropped(S) == [o \in Orders |-> IF o \in S /\ state[o] = "READY" THEN "NOT_SUBMITTED" ELSE state[o]]

\* Faulty: an exit cancels the reducers and leaves the entry to fill.
CancelledButEntry(S) == cancel \cup {o \in S \ {Entry} : Working(o)}

\* _ensure_cancel for every order in S that works.  A call that came to nothing
\* gets one successor; both stand for one cancel here.
Cancelled(S) == cancel \cup {o \in S : Working(o)}

(***************************************************************************)
(* _ensure_exit, from the facts c of the pass.                             *)
(***************************************************************************)

\* Faulty: a reducer that is only known to have been called is not waited for.
WaitingIfWorking == \E o \in Stops : Working(o)

\* A protection may still trade: the exit waits for it.
Waiting == \E o \in Stops : state[o] = "UNKNOWN" \/ Working(o)

\* Orders have traded more than the rows know.
Unrecorded == recorded # traded

\* _unknown_exit_successor_due: the exit was called so long before the facts were
\* read that it would have traded, and the position is still there.
SuccessorDue(c) == Primary \in called /\ Primary \in c.aged /\ state[Primary] \in {"UNKNOWN", "OPEN"}

\* The fills recorded after the successor was created, once it is closed.
LateFills == recorded[Entry] - base

\* The exit to create from the facts c, at most one: the first one, its one
\* successor, or the one clean-up after the successor.
NextExit(c) ==
  IF Successor \in called
  THEN {x \in {Cleanup} : state[x] = "ABSENT" /\ state[Successor] = "CLOSED" /\ LateFills > 0}
  ELSE IF state[Primary] = "ABSENT" THEN {Primary}
  ELSE {x \in {Successor} :
          /\ state[x] \in {"ABSENT", "NOT_SUBMITTED"}
          /\ Resolved(Primary) \/ SuccessorDue(c)}

Quantity(c, x) == IF x = Cleanup THEN Min({c.pos, LateFills}) ELSE c.pos

\* create_position_exit and its call.
CreateExit(s, c, x) ==
  /\ size' = [size EXCEPT ![x] = Quantity(c, x)]
  /\ base' = IF x = Successor THEN recorded[Entry] ELSE base
  /\ born' = IF state[x] = "ABSENT" THEN Append(born, x) ELSE born
  /\ Call(s, x)

\* The rows change, but no order is called.
NoCall(s) ==
  /\ state' = s
  /\ UNCHANGED <<size, base, born, called, venue>>

\* Faulty: the position read is not compared with the fills on record.
AttributedAlways(c) == c.pos >= 0

\* _position_attribution_proven: the position read is what the fills on record
\* add up to now.
Attributed(c) == c.pos >= 0 /\ c.pos = Ledger

\* The position the facts found is still there: stop its reducers, then reduce it.
ExitPosition(c, reason) ==
  LET unready == reason # "PROTECTION_RESULT_UNKNOWN"
      s == Dropped(IF unready THEN {Entry} \cup Stops ELSE {Entry})
  IN
  /\ cancel' = Cancelled(IF unready THEN {Entry} \cup Stops ELSE {Entry})
  /\ IF unready /\ Waiting THEN NoCall(s) /\ UNCHANGED blind
     ELSE \/ /\ NextExit(c) = {}
             /\ NoCall(s)
             /\ UNCHANGED blind
          \/ \E x \in NextExit(c) :
               /\ CreateExit(s, c, x)
               /\ blind' = (blind \/ ~unready \/ Unrecorded)

EnsureExit(c, reason) ==
  IF c.pos = 0
  THEN /\ NoCall(Dropped(IF EntryUnresolved THEN {Entry} ELSE {Entry} \cup Stops))
       /\ cancel' = Cancelled(IF EntryUnresolved THEN {Entry} ELSE {Entry} \cup Stops)
       /\ UNCHANGED blind
  ELSE IF ~Attributed(c)
  THEN /\ NoCall(Dropped({Entry}))
       /\ cancel' = Cancelled({Entry})
       /\ UNCHANGED blind
  ELSE ExitPosition(c, reason)

(***************************************************************************)
(* The steps of a pass.                                                    *)
(***************************************************************************)

\* The account answers: only a position the ledger explains makes facts.
Read(p) ==
  /\ pass[p].step = "IDLE"
  /\ lifecycle # "COMPLETED"
  /\ Position = Ledger
  /\ pass' = [pass EXCEPT ![p] =
       [step |-> "READ", pos |-> Position, aged |-> aged \cap ({Primary} \cup Stops),
        open |-> \E o \in Orders : venue[o] = "LIVE"]]
  /\ UNCHANGED <<lifecycle, timeDue, rows, aged, cancel, facts, blind, external>>

\* Stops that a recorded fill lacks.
Missing == {n \in 1..recorded[Entry] : state[Stop(n)] \in {"ABSENT", "READY"}}

\* _replay_entry_fill_protections: the next fill gets its protection, or CAP
\* refuses to let one be formed.
Protect(p) ==
  /\ pass[p].step = "READ"
  /\ lifecycle \in {"RUNNING", "EXITING"}
  /\ Missing # {}
  /\ LET o == Stop(Min(Missing)) IN
     /\ born' = IF state[o] = "ABSENT" THEN Append(born, o) ELSE born
     /\ \/ Call(state, o)
        \/ /\ Fails(o, "REFUSED") /\ state[o] = "ABSENT"
           /\ state' = [state EXCEPT ![o] = "REFUSED"]
           /\ UNCHANGED <<called, venue>>
  /\ UNCHANGED <<lifecycle, timeDue, size, base, aged, cancel, facts, pass, blind, traded>>

\* Every recorded fill has its protection.  From there on a pass runs to its last
\* await, unless it reads the account once more to create the take-profits of a
\* protection that works.
Replayed ==
  \/ lifecycle = "COMPLETED"
  \/ \A n \in Missing : state[Stop(n)] # "ABSENT"
  \/ lifecycle = "RUNNING" /\ ~Gap /\ \E o \in Stops : Working(o)

\* _resume_ready_non_entry_actions for the exits: one that was never called is
\* called for the position it was made for, and given up for any other.
Resume(p) ==
  LET c == pass[p] IN
  /\ c.step = "READ"
  /\ Replayed
  /\ \E x \in Exits :
       /\ state[x] = "READY"
       /\ IF ~Attributed(c) THEN UNCHANGED <<state, called, venue>>
          ELSE IF size[x] = c.pos THEN Call(state, x)
          ELSE /\ state' = [state EXCEPT ![x] = "NOT_SUBMITTED"]
               /\ UNCHANGED <<called, venue>>
  /\ pass' = [pass EXCEPT ![p].step = "RESUMED"]
  /\ UNCHANGED <<lifecycle, timeDue, size, base, born, aged, cancel, facts, blind, traded>>

\* From there to the last await.  Only a position of zero without open orders is
\* looked at again after it.
Decide(p) ==
  LET c == pass[p] IN
  /\ c.step = "RESUMED" \/ (c.step = "READ" /\ \A x \in Exits : state[x] # "READY")
  /\ Replayed
  /\ IF lifecycle = "COMPLETED" \/ Reason(c) = "NONE"
     THEN /\ NoCall(state)
          /\ UNCHANGED <<cancel, blind>>
     ELSE EnsureExit(c, Reason(c))
  /\ pass' = [pass EXCEPT ![p] = IF c.pos = 0 /\ ~c.open THEN [c EXCEPT !.step = "CLOSE"] ELSE Idle]
  /\ UNCHANGED <<lifecycle, timeDue, aged, facts, traded>>

Final(s, o) == s[o] \in {"ABSENT", "REFUSED", "NOT_SUBMITTED", "CLOSED"}

\* An action that is final, or that the loop of _try_close_activation may close.
Closable(o) == Final(state, o) \/ (state[o] = "OPEN" /\ Complete(o))

\* The loop closes the actions in the order of their creation, up to the first
\* one it cannot close.
Closed ==
  LET stuck == {i \in DOMAIN born : ~Closable(born[i])}
      reach == IF stuck = {} THEN Len(born) ELSE Min(stuck) - 1
  IN [o \in Orders |->
        IF state[o] = "OPEN" /\ \E i \in 1..reach : born[i] = o THEN "CLOSED" ELSE state[o]]

\* The early returns of _try_close_activation, for facts without a position or
\* an open order.
MayClose(c) ==
  /\ Attributed(c)
  /\ lifecycle = "RUNNING" => recorded[Entry] = 0 \/ ReductionSeen

\* _try_close_activation, close_activation.
Close(p) ==
  /\ pass[p].step = "CLOSE"
  /\ IF MayClose(pass[p]) /\ lifecycle # "COMPLETED"
     THEN /\ state' = Closed
          /\ lifecycle' = IF \A o \in Orders : Final(Closed, o) THEN "COMPLETED" ELSE lifecycle
     ELSE UNCHANGED <<state, lifecycle>>
  /\ pass' = [pass EXCEPT ![p] = Idle]
  /\ UNCHANGED <<timeDue, size, base, born, called, aged, cancel, facts, blind, external>>

(***************************************************************************)
(* Everything else that moves.                                             *)
(***************************************************************************)

\* enter_exit: the owner's command.
OwnerExit ==
  /\ lifecycle = "RUNNING"
  /\ lifecycle' = "EXITING"
  /\ UNCHANGED <<timeDue, rows, aged, cancel, facts, pass, blind, external>>

\* The time exit of the first fill is due.
TimeExit ==
  /\ ~timeDue /\ recorded[Entry] > 0
  /\ timeDue' = TRUE
  /\ UNCHANGED <<lifecycle, rows, aged, cancel, facts, pass, blind, external>>

\* DirectSchedule calls the entry.
CallEntry ==
  /\ lifecycle = "RUNNING"
  /\ state[Entry] = "READY"
  /\ Call(state, Entry)
  /\ UNCHANGED <<lifecycle, timeDue, size, base, born, aged, cancel, facts, pass, blind, traded>>

\* The delay after the call of an order is over.  A market exit that reached the
\* venue has traded by then.
Age(o) ==
  /\ o \in called \ aged
  /\ state[o] = "UNKNOWN" \/ (o = Primary /\ state[o] = "OPEN")
  /\ o \in Exits => venue[o] # "LIVE"
  /\ aged' = aged \cup {o}
  /\ UNCHANGED <<lifecycle, timeDue, rows, cancel, facts, pass, blind, external>>

\* An order event: a fill, or the end of the order.  Either one proves that an
\* UNKNOWN call reached the venue.
Recognised(o) == [state EXCEPT ![o] = IF @ = "UNKNOWN" THEN "OPEN" ELSE @]

RecordFill(o) ==
  /\ recorded[o] < traded[o]
  /\ recorded' = [recorded EXCEPT ![o] = @ + 1]
  /\ state' = Recognised(o)
  /\ UNCHANGED <<lifecycle, timeDue, size, base, born, called, aged, cancel, term, pass, blind, external>>

Ended(o) == venue[o] \in {"FILLED", "CANCELLED", "REJECTED"}

\* A last fill is the end of an order too, but a cancellation may overtake fills.
RecordEnd(o) ==
  /\ Ended(o) /\ o \notin term
  /\ venue[o] = "FILLED" => recorded[o] = traded[o]
  /\ term' = term \cup {o}
  /\ state' = Recognised(o)
  /\ UNCHANGED <<lifecycle, timeDue, size, base, born, called, aged, cancel, recorded, pass, blind, external>>

\* A query of an UNKNOWN call finds the order working, or proves there is none.
QueryUnknown(o) ==
  /\ state[o] = "UNKNOWN"
  /\ \/ /\ venue[o] = "LIVE"
        /\ state' = [state EXCEPT ![o] = "OPEN"]
     \/ /\ venue[o] = "NONE" /\ o \in aged
        /\ state' = [state EXCEPT ![o] = "NOT_SUBMITTED"]
  /\ UNCHANGED <<lifecycle, timeDue, size, base, born, called, aged, cancel, facts, pass, blind, external>>

Records(o) == RecordFill(o) \/ RecordEnd(o) \/ QueryUnknown(o)

\* A call that timed out arrives; after the delay it does not any more.
Arrive(o) ==
  /\ state[o] = "UNKNOWN" /\ venue[o] = "NONE" /\ o \notin aged
  /\ venue' = [venue EXCEPT ![o] = "LIVE"]
  /\ UNCHANGED <<lifecycle, timeDue, rows, aged, cancel, facts, pass, blind, traded>>

\* What the order is to trade in all.
Ordered(o) == IF o = Entry THEN Lot ELSE IF o \in Stops THEN 1 ELSE size[o]

\* An order trades one unit; a reduce-only order needs a position in the account.
Trade(o) ==
  /\ venue[o] = "LIVE"
  /\ o \in Reducers => Other + Position > 0
  /\ traded' = [traded EXCEPT ![o] = @ + 1]
  /\ venue' = [venue EXCEPT ![o] = IF traded[o] + 1 = Ordered(o) THEN "FILLED" ELSE "LIVE"]
  /\ UNCHANGED <<lifecycle, timeDue, rows, aged, cancel, facts, pass, blind>>

\* A market exit that finds no position left ends.
Expire(o) ==
  /\ o \in Exits /\ venue[o] = "LIVE" /\ Other + Position <= 0
  /\ venue' = [venue EXCEPT ![o] = "CANCELLED"]
  /\ UNCHANGED <<lifecycle, timeDue, rows, aged, cancel, facts, pass, blind, traded>>

\* A cancel takes effect.
TakeCancel(o) ==
  /\ venue[o] = "LIVE" /\ o \in cancel
  /\ venue' = [venue EXCEPT ![o] = "CANCELLED"]
  /\ UNCHANGED <<lifecycle, timeDue, rows, aged, cancel, facts, pass, blind, traded>>

\* The venue ends an order by itself.
Reject(o) ==
  /\ Fails(o, "REJECTED")
  /\ venue[o] = "LIVE" /\ traded[o] = 0
  /\ venue' = [venue EXCEPT ![o] = "REJECTED"]
  /\ UNCHANGED <<lifecycle, timeDue, rows, aged, cancel, facts, pass, blind, traded>>

Init ==
  /\ lifecycle = "RUNNING" /\ timeDue = FALSE
  /\ state = [o \in Orders |-> IF o = Entry THEN "READY" ELSE "ABSENT"]
  /\ size = [o \in Exits |-> 0] /\ base = 0
  /\ born = <<Entry>>
  /\ called = {} /\ aged = {} /\ term = {}
  /\ cancel = {}
  /\ recorded = [o \in Orders |-> 0]
  /\ pass = [p \in Passes |-> Idle]
  /\ blind = FALSE
  /\ venue = [o \in Orders |-> "NONE"]
  /\ traded = [o \in Orders |-> 0]

Sync(p) == Read(p) \/ Protect(p) \/ Resume(p) \/ Decide(p) \/ Close(p)
Venue(o) == Arrive(o) \/ Trade(o) \/ Expire(o) \/ TakeCancel(o) \/ Reject(o)

Next ==
  \/ \E p \in Passes : Sync(p)
  \/ OwnerExit \/ TimeExit \/ CallEntry
  \/ \E o \in Orders : Age(o) \/ Records(o) \/ Venue(o)

Spec == Init /\ [][Next]_vars

\* The loop calls sync again and again, events and queries are delivered, the
\* delay passes, and the venue executes market exits and takes cancels.  It owes
\* nothing else: no entry has to fill, no protection has to trigger.
Fairness ==
  /\ \A p \in Passes : WF_vars(Sync(p))
  /\ \A o \in Orders : WF_vars(Age(o)) /\ WF_vars(Records(o))
  /\ \A o \in Stops \cup {Entry} : WF_vars(TakeCancel(o))
  /\ \A o \in Exits : WF_vars(Trade(o) \/ Expire(o))

FairSpec == Spec /\ Fairness

(***************************************************************************)
(* Properties.                                                             *)
(***************************************************************************)

States == {"ABSENT", "REFUSED", "READY", "NOT_SUBMITTED", "UNKNOWN", "OPEN", "CLOSED"}

\* Every variable has its type.
TypeOK ==
  /\ lifecycle \in {"RUNNING", "EXITING", "COMPLETED"}
  /\ state \in [Orders -> States]
  /\ size \in [Exits -> 0..Lot]
  /\ base \in 0..Lot
  /\ {called, aged, cancel, term} \subseteq SUBSET Orders
  /\ {recorded, traded} \subseteq [Orders -> 0..Lot]
  /\ venue \in [Orders -> {"NONE", "LIVE", "FILLED", "CANCELLED", "REJECTED"}]

\* The activation never reduces what other activations hold in the account: what
\* its protections and exits trade never exceeds what it bought, however old the
\* facts an exit is decided from.  An exit sent blind gives this up.
NoForeignReduction == blind \/ Position >= 0

\* A completed activation holds nothing, and no order of it can trade any more.
CompletedMeansFlat ==
  lifecycle = "COMPLETED" =>
    /\ Position = 0
    /\ \A o \in Orders : venue[o] # "LIVE" /\ ~(state[o] = "UNKNOWN")

\* A position without a working protection and without an exit at the venue.
Naked ==
  /\ Position > 0
  /\ \A o \in Reducers : venue[o] # "LIVE"

\* A fill was recorded after the successor exit was created, and the position it
\* left is still there.  The one clean-up exit is created only once the successor
\* is closed, and nothing closes it while there is a position.
Outlived == Successor \in called /\ LateFills > 0 /\ Position > 0

\* No position stays naked: a protection or an exit comes, whatever became of the
\* protections before, as long as no fill outlives the two exits.
NakedEnds == Naked ~> (~Naked \/ Outlived)

\* An exit the owner asked for ends with the activation, late fills or not, unless
\* it reduced what others hold: the ledger then never explains the position again;
\* or a fill outlives the two exits.
ExitCompletes ==
  lifecycle = "EXITING" ~> (lifecycle = "COMPLETED" \/ Position < 0 \/ Outlived)

=============================================================================
