------------------------------ MODULE AccountStop ------------------------------
(***************************************************************************)
(* The account-wide NEW_RISK stop: how the Executor sets it when the venue *)
(* reports what no action explains, and how the owner lifts it.            *)
(*                                                                         *)
(* Two processes work on the same tables in READ COMMITTED transactions:   *)
(*   - the Executor records a report in one transaction: it inserts the    *)
(*     fact, takes the account's advisory lock, reads the current stop     *)
(*     version, and either appends a version or leaves it to the current   *)
(*     one.  Its account observer awaits the answers of several queries    *)
(*     and then stamps and inserts them as one account snapshot;           *)
(*   - the App lifts the stop in one transaction that takes the same lock  *)
(*     and then reads its evidence one statement after the other.          *)
(* Only the lock orders the two.  Every stamp the host clock gives is a    *)
(* tick of its own.                                                        *)
(***************************************************************************)
EXTENDS Naturals, Sequences

CONSTANTS
  Activations,
  Requests,   \* HTTP requests to lift the stop
  Key,        \* Key[r]: the idempotency key of request r
  MaxTime,    \* bound: ticks of the host clock
  MaxTrades,  \* bound: changes of the account nobody attributes
  MaxAge      \* ACCOUNT_SYSTEM_STOP_RELEASE_EVIDENCE_MAX_AGE

ASSUME KeyAssumption == \A r \in Requests : Key[r] # "NONE"
ASSUME MaxTimeAssumption == MaxTime \in Nat
ASSUME MaxTradesAssumption == MaxTrades \in Nat
ASSUME MaxAgeAssumption == MaxAge \in Nat

VARIABLES
  now,         \* the host clock
  position,    \* external: the account holds a position of no action
  order,       \* external: the account has a resting order of no action
  trades,      \* external: such changes so far
  reports,     \* external: reports of the venue not yet recorded
  venueFacts,  \* committed venue_fact rows of the account
  stops,       \* committed stop_state_version rows of the account
  open,        \* activations that are not COMPLETED
  closedAt,    \* when the takeover of an activation was closed, 0 if it was not
  recorder,    \* the Executor's transaction in progress
  answers,     \* the observer's answers, by query
  request      \* the App's transactions

venue    == <<position, order, trades, reports>>
rows     == <<venueFacts, stops, open, closedAt>>
vars     == <<now, venue, rows, recorder, answers, request>>

Anomaly  == "SYSTEM_ATTRIBUTED_ACTION_ANOMALY"
External == "SYSTEM_EXTERNAL_ACTIVITY"
Release  == "USER_SYSTEM_STOP_RELEASE"

\* The sources of a stop, which are also the kinds of fact that demand one.
SystemSources == {Anomaly, External}

Queries == {"POSITIONS", "ORDERS"}
NotReading == [q \in Queries |-> "NONE"]
Idle == [step |-> "IDLE"]

\* What a query would find.
Held(q) == IF q = "POSITIONS" THEN position ELSE order

\* The current stop version, and whether it stops NEW_RISK.
Current == stops[Len(stops)]
Stopped == stops # <<>> /\ Current.source \in SystemSources

\* The steps of a request between its lock and its end.
Locked == {"LOCKED", "READ", "CHECKED"}

\* Faulty: the stop is decided without the account's lock.
LockFreeAlways == TRUE

\* No transaction of the App holds the account's lock.
LockFree == \A r \in Requests : request[r].step \notin Locked

\* The current stop already says what this source would say.
Absorbs(source) == Stopped /\ Current.source \in {External, source}

\* The account's facts received after t.
Later(t) == {f \in venueFacts : f.at > t}

\* Faulty: any closed takeover resolves the stop.
ResolvesEver(p, since) == closedAt[p] > 0

\* The activation was taken over by the user and closed since.
Resolves(p, since) == closedAt[p] > 0 /\ closedAt[p] >= since

\* The account snapshots received since a stop began.
Snapshots(since) == {f \in venueFacts : f.kind = "SNAPSHOT" /\ f.at >= since}

\* The version a transaction of the Executor appends.
StopFor(t) ==
  [source |-> t.kind, at |-> t.at, cutoff |-> 0, lifted |-> 0, key |-> "NONE"]

\* The version a request appends.
ReleaseFor(r) ==
  [source |-> Release, at |-> request[r].asked, cutoff |-> request[r].cutoff,
   lifted |-> request[r].expected, key |-> Key[r]]

\* The fact a transaction of the Executor inserts.
FactFor(t) == [kind |-> t.kind, at |-> t.at, empty |-> FALSE]

\* The account may hold what its owner left there before Halpha ran.
Init ==
  /\ now = 0
  /\ position \in BOOLEAN
  /\ order \in BOOLEAN
  /\ trades = 0
  /\ reports = {}
  /\ venueFacts = {}
  /\ stops = <<>>
  /\ open = {}
  /\ closedAt = [p \in Activations |-> 0]
  /\ recorder = Idle
  /\ answers = NotReading
  /\ request = [r \in Requests |-> Idle]

Tick == now < MaxTime /\ now' = now + 1

(***************************************************************************)
(* The account at the venue (external): somebody else trades on it.        *)
(***************************************************************************)

Trade == trades < MaxTrades /\ trades' = trades + 1

PlaceOrder ==
  /\ Trade
  /\ ~order
  /\ order' = TRUE
  /\ reports' = reports \cup {"WORKING"}
  /\ UNCHANGED <<now, position, rows, recorder, answers, request>>

FillOrder ==
  /\ Trade
  /\ order
  /\ order' = FALSE
  /\ position' = TRUE
  /\ reports' = reports \cup {"FILL"}
  /\ UNCHANGED <<now, rows, recorder, answers, request>>

\* A terminal report without a fill demands no stop.
CancelOrder ==
  /\ Trade
  /\ order
  /\ order' = FALSE
  /\ UNCHANGED <<now, position, reports, rows, recorder, answers, request>>

ClosePosition ==
  /\ Trade
  /\ position
  /\ position' = FALSE
  /\ reports' = reports \cup {"FILL"}
  /\ UNCHANGED <<now, order, rows, recorder, answers, request>>

(***************************************************************************)
(* The Executor: one callback, one transaction.                            *)
(***************************************************************************)

\* The callback is stamped and its fact inserted, not yet committed: a report
\* nobody can attribute, or a late fill or a quantity conflict of an action.
BeginRecord ==
  /\ recorder = Idle
  /\ Tick
  /\ \/ \E report \in reports :
          recorder' = [step |-> "INSERTED", kind |-> External, at |-> now',
                       report |-> {report}]
     \/ recorder' = [step |-> "INSERTED", kind |-> Anomaly, at |-> now',
                     report |-> {}]
  /\ UNCHANGED <<venue, rows, answers, request>>

\* The lock is granted, the current version read, a version appended unless
\* the current one absorbs the signal, and the transaction committed.
CommitRecord ==
  /\ recorder # Idle
  /\ LockFree
  /\ venueFacts' = venueFacts \cup {FactFor(recorder)}
  /\ stops' = IF Absorbs(recorder.kind) THEN stops
              ELSE Append(stops, StopFor(recorder))
  /\ reports' = reports \ recorder.report
  /\ recorder' = Idle
  /\ UNCHANGED <<now, position, order, trades, open, closedAt, answers, request>>

\* The wait for the lock times out or the process dies: nothing is committed,
\* and the venue reports again.
AbortRecord ==
  /\ recorder # Idle
  /\ recorder' = Idle
  /\ UNCHANGED <<now, venue, rows, answers, request>>

(***************************************************************************)
(* The account observer: several queries in flight, one stamp.             *)
(***************************************************************************)

StartRead ==
  /\ recorder = Idle
  /\ answers = NotReading
  /\ answers' = [q \in Queries |-> "PENDING"]
  /\ UNCHANGED <<now, venue, rows, recorder, request>>

\* The venue answers one of the queries, when it gets to it.
Answer(q) ==
  /\ answers[q] = "PENDING"
  /\ answers' = [answers EXCEPT ![q] =
       IF Held(q) THEN "HELD" ELSE "NOTHING"]
  /\ UNCHANGED <<now, venue, rows, recorder, request>>

\* All answered: received_at and cutoff are now, whenever each answer was true.
Stamp ==
  /\ recorder = Idle
  /\ \A q \in Queries : answers[q] \in {"HELD", "NOTHING"}
  /\ Tick
  /\ venueFacts' = venueFacts \cup
       {[kind |-> "SNAPSHOT", at |-> now',
         empty |-> \A q \in Queries : answers[q] = "NOTHING"]}
  /\ answers' = NotReading
  /\ UNCHANGED <<venue, stops, open, closedAt, recorder, request>>

\* A query fails, the gather times out, or the process dies.
GiveUpRead ==
  /\ answers # NotReading
  /\ answers' = NotReading
  /\ UNCHANGED <<now, venue, rows, recorder, request>>

(***************************************************************************)
(* Activations, in transactions that do not take the account's lock.       *)
(***************************************************************************)

Activate(p) ==
  /\ p \notin open
  /\ closedAt[p] = 0
  /\ open' = open \cup {p}
  /\ UNCHANGED <<now, venue, venueFacts, stops, closedAt, recorder, answers,
                 request>>

\* The responsibility of a taken-over activation ends.
CloseTakenOver(p) ==
  /\ p \in open
  /\ Tick
  /\ open' = open \ {p}
  /\ closedAt' = [closedAt EXCEPT ![p] = now']
  /\ UNCHANGED <<venue, venueFacts, stops, recorder, answers, request>>

(***************************************************************************)
(* The App: one request, one transaction, one statement after the other.   *)
(***************************************************************************)

\* The owner saw version v.  A version this key wrote before is the answer;
\* nothing is locked yet.
Ask(r) ==
  /\ request[r] = Idle
  /\ \E v \in 1..Len(stops), p \in Activations :
       request' = [request EXCEPT ![r] =
         [step |-> IF \E n \in 1..Len(stops) : stops[n].key = Key[r]
                     THEN "ENDED" ELSE "BEGUN",
          asked |-> now, expected |-> v, activation |-> p, cutoff |-> 0]]
  /\ UNCHANGED <<now, venue, rows, recorder, answers>>

\* The lock is granted, and the current version is the one the owner saw, stops
\* NEW_RISK, and is resolved by the activation the request names.
Lock(r) ==
  /\ request[r].step = "BEGUN"
  /\ LockFree
  /\ request[r].expected = Len(stops)
  /\ Stopped
  /\ request[r].activation \notin open
  /\ Resolves(request[r].activation, Current.at)
  /\ request' = [request EXCEPT ![r].step = "LOCKED"]
  /\ UNCHANGED <<now, venue, rows, recorder, answers>>

\* The latest snapshot since the stop shows an empty account and is fresh by
\* the stamp of the request.
ReadSnapshot(r) ==
  /\ request[r].step = "LOCKED"
  /\ \E s \in Snapshots(Current.at) :
       /\ \A other \in Snapshots(Current.at) : other.at <= s.at
       /\ s.empty
       /\ s.at <= request[r].asked
       /\ request[r].asked <= s.at + MaxAge
       /\ request' = [request EXCEPT ![r].step = "READ", ![r].cutoff = s.at]
  /\ UNCHANGED <<now, venue, rows, recorder, answers>>

\* No activation of the account is open, and no fact of it is later than the
\* snapshot.
CheckAccount(r) ==
  /\ request[r].step = "READ"
  /\ open = {}
  /\ Later(request[r].cutoff) = {}
  /\ request' = [request EXCEPT ![r].step = "CHECKED"]
  /\ UNCHANGED <<now, venue, rows, recorder, answers>>

\* The release is appended and the transaction committed.
CommitRelease(r) ==
  /\ request[r].step = "CHECKED"
  /\ stops' = Append(stops, ReleaseFor(r))
  /\ request' = [request EXCEPT ![r].step = "ENDED"]
  /\ UNCHANGED <<now, venue, venueFacts, open, closedAt, recorder, answers>>

\* Evidence that is missing, a version that changed, an action still open, a
\* timeout: the transaction is rolled back.
Refuse(r) ==
  /\ request[r].step \in {"BEGUN"} \cup Locked
  /\ request' = [request EXCEPT ![r].step = "ENDED"]
  /\ UNCHANGED <<now, venue, rows, recorder, answers>>

--------------------------------------------------------------------------------

Next ==
  \/ PlaceOrder \/ FillOrder \/ CancelOrder \/ ClosePosition
  \/ BeginRecord \/ CommitRecord \/ AbortRecord
  \/ StartRead \/ (\E q \in Queries : Answer(q)) \/ Stamp \/ GiveUpRead
  \/ \E p \in Activations : Activate(p) \/ CloseTakenOver(p)
  \/ \E r \in Requests :
       \/ Ask(r) \/ Lock(r) \/ ReadSnapshot(r) \/ CheckAccount(r)
       \/ CommitRelease(r) \/ Refuse(r)

Spec == Init /\ [][Next]_vars

(***************************************************************************)
(* Correctness.                                                            *)
(***************************************************************************)

Times == 0..MaxTime

Fact == [kind : SystemSources \cup {"SNAPSHOT"}, at : Times,
         empty : BOOLEAN]

StopVersion == [source : SystemSources \cup {Release}, at : Times,
                cutoff : Times, lifted : Nat,
                key : {Key[r] : r \in Requests} \cup {"NONE"}]

Transaction ==
  [step : {"INSERTED"}, kind : SystemSources, at : Times,
   report : SUBSET {"WORKING", "FILL"}]

RequestState ==
  [step : {"BEGUN", "ENDED"} \cup Locked, asked : Times, expected : Nat,
   activation : Activations, cutoff : Times]

\* Every variable has its type.
TypeOK ==
  /\ now \in Times
  /\ position \in BOOLEAN
  /\ order \in BOOLEAN
  /\ trades \in Nat
  /\ reports \in SUBSET {"WORKING", "FILL"}
  /\ venueFacts \in SUBSET Fact
  /\ stops \in Seq(StopVersion)
  /\ open \in SUBSET Activations
  /\ closedAt \in [Activations -> Times]
  /\ recorder \in {Idle} \cup Transaction
  /\ answers \in [Queries -> {"NONE", "PENDING", "HELD", "NOTHING"}]
  /\ request \in [Requests -> {Idle} \cup RequestState]

\* A release rests on a snapshot that was stamped after the fact was.
LiftedAfter(f) ==
  \E n \in 1..Len(stops) :
    stops[n].source = Release /\ f.at <= stops[n].cutoff

\* A committed fact that demands a stop is never forgotten: NEW_RISK is
\* stopped, or a release rests on an account snapshot stamped after the fact.
\* A fact absorbed by the current version while that version is being lifted
\* would be; the account's lock and the query for later facts exclude it.
NoForgottenActivity ==
  \A f \in venueFacts :
    f.kind \in SystemSources => Stopped \/ LiftedAfter(f)

\* External activity that no release has lifted is what the current version
\* says: an anomaly is upgraded to the conflict, and the conflict is neither
\* downgraded nor absorbed by an anomaly.
ConflictIsNamed ==
  \A f \in venueFacts :
    f.kind = External =>
      LiftedAfter(f) \/ (stops # <<>> /\ Current.source = External)

\* A release lifts the version its owner saw and no later one, on an account
\* snapshot and the closing of a takeover that are both younger than that
\* version, though both are read by statements of their own while the
\* Executor and other requests commit.
ReleaseAnswersItsStop ==
  \A n \in 1..Len(stops) :
    stops[n].source = Release =>
      /\ n > 1
      /\ stops[n].lifted = n - 1
      /\ stops[n-1].source \in SystemSources
      /\ stops[n].cutoff >= stops[n-1].at
      /\ \E p \in Activations :
           closedAt[p] > 0 /\ closedAt[p] >= stops[n-1].at
================================================================================
