------------------------------- MODULE EntrySignal -------------------------------
(***************************************************************************)
(* The path of a strategy's entry, from the venue's bars to the call: the  *)
(* adapter warms its indicators from history and then follows two streams  *)
(* of closed bars, the evaluator turns them into proposals, and for each   *)
(* proposal a task of its own reads fresh account facts, has the plan and  *)
(* CAP decide, reads the facts again and calls.  Bars are lost and         *)
(* repeated, several tasks wait at once, the owner decides meanwhile, and  *)
(* the process may end at any step.                                        *)
(*                                                                         *)
(* One activation of a LONG strategy.  A bar is the minute in which it     *)
(* closes; the target bar k closes with minute k * Interval.               *)
(***************************************************************************)
EXTENDS Integers, Sequences, FiniteSets, SequencesExt, FiniteSetsExt, Functions

CONSTANTS
  Horizon,        \* bound: the minutes of a behaviour
  Deadline,       \* valid_until of the plan
  Interval,       \* minutes of a target bar
  Lookback,       \* target bars of the channel
  Confirmations,  \* source bars that must confirm
  Prices,         \* closes of source bars
  Extension,      \* how far above the channel an entry may still be
  Backlog,        \* bound: bars of one stream on their way
  MaxFaults       \* bound: connections lost and processes killed

ASSUME EntryAssumption ==
  /\ {Horizon, Deadline, Interval, Lookback, Confirmations, Backlog} \subseteq Nat \ {0}
  /\ MaxFaults \in Nat /\ Extension \in Nat /\ Prices \subseteq Nat

VARIABLES
  closes,     \* external: the close of every minute so far
  link,       \* external: the market connection
  wire,       \* external: closed bars on their way to the adapter, by stream
  stage,      \* process: DOWN, WARMING, LIVE, or FAILED with a failure latched
  asked,      \* process: when the history was requested
  channel,    \* evaluator: the target bars of the channel, oldest first
  source,     \* evaluator: _last_source_ts, 0 before the first
  window,     \* evaluator: _confirmation_bars
  tasks,      \* process: the proposals under way and what each waits for
  lifecycle,  \* lifecycle of the activation
  run,        \* its run_state
  stop,       \* its stop of new risk
  consumed,   \* entry_opportunity_consumed
  events,     \* PlanEvents by source identity: what was decided
  action,     \* execution actions of these events
  called,     \* history: the identities that were sent to the venue
  filled,     \* history: the orders that traded
  faults      \* bound: faults so far

evaluator == <<channel, source, window>>
plan      == <<lifecycle, run, stop, consumed>>
records   == <<events, action, called, filled>>
world     == <<closes, link>>
vars == <<world, wire, stage, asked, evaluator, tasks, plan, records, faults>>

Now == Len(closes)

\* The last target bar a request of the history can return.
Requested == Now \div Interval

(***************************************************************************)
(* The indicators and the one-shot decision.                               *)
(***************************************************************************)

\* Before minute 1 every bar closed at 0.
Close(m) == IF m < 1 THEN 0 ELSE closes[m]

\* The high of a target bar.
High(k) == Max({Close(m) : m \in (k - 1) * Interval + 1 .. k * Interval})

\* The upper bound of the channel over some target bars.
Upper(ks) == Max({High(k) : k \in ks})

\* Every confirming close is above the channel, the last not too far.
Triggered(ks, ms) ==
  /\ \A i \in DOMAIN ms : Close(ms[i]) > Upper(ks)
  /\ Close(Last(ms)) <= Upper(ks) + Extension

(***************************************************************************)
(* What the plan says of entries.                                          *)
(***************************************************************************)

Open == {id \in DOMAIN action : action[id] \in {"READY", "CALLED"}}

\* state_provider: the opportunity is consumed by a fill or an open entry.
Consumed == consumed \/ Open # {}

NewRiskAllowed == lifecycle = "RUNNING" /\ run = "ACTIVE" /\ stop # "STOPPED"

(***************************************************************************)
(* The venue's bars (external).                                            *)
(***************************************************************************)

Push(k, m) == [k EXCEPT !.source = Append(@, m),
                        !.target = IF m % Interval = 0 THEN Append(@, m \div Interval) ELSE @]

\* A minute ends.  Who is connected and subscribed will get its bars.
Minute(p) ==
  /\ Now < Horizon
  /\ Len(wire.source) < Backlog /\ Len(wire.target) < Backlog
  /\ closes' = Append(closes, p)
  /\ wire' = IF link = "UP" /\ stage \in {"LIVE", "FAILED"} THEN Push(wire, Now + 1) ELSE wire
  /\ UNCHANGED <<link, stage, asked, evaluator, tasks, plan, records, faults>>

Fault == faults < MaxFaults /\ faults' = faults + 1

\* The connection is lost, and with it the bars of the next minutes.
Disconnect ==
  /\ link = "UP" /\ Fault
  /\ link' = "DOWN"
  /\ UNCHANGED <<closes, wire, stage, asked, evaluator, tasks, plan, records>>

\* The client subscribes again; the venue may repeat its last bars, and does
\* not send those that closed in between.
Reconnect(again) ==
  /\ link = "DOWN"
  /\ link' = "UP"
  /\ Now > 0 /\ Len(wire.source) < Backlog
  /\ wire' = IF again /\ stage = "LIVE" THEN [wire EXCEPT !.source = Append(@, Now)] ELSE wire
  /\ UNCHANGED <<closes, stage, asked, evaluator, tasks, plan, records, faults>>

(***************************************************************************)
(* The adapter: warm-up.                                                   *)
(***************************************************************************)

\* The contiguous target bars of the channel that end with k.
Ending(k) == [i \in 1..Lookback |-> k - Lookback + i]

\* on_start in a new process, which first pauses what an earlier process ran.
\* The cache of the framework is empty there, so the history is requested.
Start ==
  /\ stage = "DOWN"
  /\ lifecycle = "RUNNING"
  /\ run' = "PAUSED"
  /\ stage' = "WARMING" /\ asked' = Requested
  /\ UNCHANGED <<world, wire, evaluator, tasks, lifecycle, stop, consumed, records, faults>>

\* The history up to the request is there: the indicators are primed and both
\* streams are subscribed from here on.
HistoryComplete ==
  /\ stage = "WARMING"
  /\ channel' = Ending(asked) /\ window' = <<>> /\ source' = 0
  /\ stage' = "LIVE"
  /\ UNCHANGED <<world, wire, asked, tasks, plan, records, faults>>

\* The history has a hole, or its request fails or takes too long.
HistoryRefused ==
  /\ stage = "WARMING" /\ Fault
  /\ stage' = "FAILED"
  /\ UNCHANGED <<world, wire, asked, evaluator, tasks, plan, records>>

(***************************************************************************)
(* The adapter: closed bars.  An exception latches a failure.              *)
(***************************************************************************)

Receives == stage \in {"LIVE", "FAILED"}

\* _accept_target.
AcceptTarget(k) ==
  /\ IF k = Last(channel) + 1
     THEN /\ channel' = Append(Tail(channel), k)
          /\ window' = <<>>
     ELSE UNCHANGED <<channel, window>>
  /\ stage' = IF k - Last(channel) \in {0, 1} THEN stage ELSE "FAILED"

\* While the opportunity is consumed bars are not even looked at.
TargetBar ==
  /\ Receives /\ wire.target # <<>>
  /\ wire' = [wire EXCEPT !.target = Tail(@)]
  /\ IF Consumed THEN UNCHANGED <<stage, evaluator>>
     ELSE AcceptTarget(Head(wire.target)) /\ UNCHANGED source
  /\ UNCHANGED <<world, asked, tasks, plan, records, faults>>

Newest(s) == SubSeq(s, Max({1, Len(s) - Confirmations + 1}), Len(s))

\* Faulty: a hole between source bars does not restart the confirmation.
ConfirmingAcrossGaps(m) == Newest(Append(window, m))

\* The confirmation bars once minute m is accepted.
Confirming(m) ==
  IF source # 0 /\ m # source + 1 THEN <<m>> ELSE Newest(Append(window, m))

\* The evaluator has all it needs for a decision at minute m.
Decidable(m, ms) ==
  /\ m > Last(channel) * Interval
  /\ m < Deadline
  /\ Len(ms) = Confirmations

\* A table with one more entry.
With(f, id, v) == [x \in DOMAIN f \cup {id} |-> IF x = id THEN v ELSE f[x]]

\* The proposal becomes a task, unless its identity has one.
Propose(id) == tasks' = IF id \in DOMAIN tasks THEN tasks ELSE With(tasks, id, "FACTS")

\* What the streams of quotes and marks last brought.
Quotes == {"FRESH", "STALE"}

\* The sizing snapshot: there is none without a fresh quote and mark.
Sized(quote) == quote = "FRESH"

\* _accept_source and evaluate_entry.
AcceptSource(m, quote) ==
  /\ source' = m
  /\ window' = Confirming(m)
  /\ IF /\ Decidable(m, Confirming(m))
        /\ Sized(quote) /\ NewRiskAllowed
        /\ Triggered(Range(channel), Confirming(m))
     THEN Propose(<<Last(channel), m>>)
     ELSE UNCHANGED tasks

SourceBar(quote) ==
  /\ Receives /\ wire.source # <<>>
  /\ wire' = [wire EXCEPT !.source = Tail(@)]
  /\ LET m == Head(wire.source) IN
       /\ IF Consumed \/ m <= source THEN UNCHANGED <<source, window, tasks>>
          ELSE AcceptSource(m, quote)
       /\ stage' = IF ~Consumed /\ m < source THEN "FAILED" ELSE stage
  /\ UNCHANGED <<world, asked, channel, plan, records, faults>>

(***************************************************************************)
(* The tasks of the proposals.                                             *)
(***************************************************************************)

Without(f, id) == Restrict(f, DOMAIN f \ {id})

\* The bar of the proposal is at most 65 seconds old when the facts are there.
Fresh(id) == Now < Deadline /\ Now <= id[2] + 1

\* The refusal of a proposal, unless its identity was decided before.
Unfit(id) == IF id \in DOMAIN events THEN events ELSE With(events, id, "REFUSED")

\* The facts are missing, stale, or show that the entry is not possible.
RefuseFacts(id) ==
  /\ tasks[id] = "FACTS"
  /\ events' = Unfit(id)
  /\ tasks' = Without(tasks, id)
  /\ UNCHANGED <<world, wire, stage, asked, evaluator, plan, action, called, filled, faults>>

\* Faulty: only a fill takes the opportunity away.
BlocksFilled == lifecycle # "RUNNING" \/ run # "ACTIVE" \/ consumed

\* consume_strategy_proposal of TRADEPLAN: no new risk, or an entry is open.
Blocks == lifecycle # "RUNNING" \/ run # "ACTIVE" \/ consumed \/ Open # {}

\* The event that is recorded of a new source.
Verdict == IF Blocks \/ stop = "STOPPED" THEN "REFUSED" ELSE "ACCEPTED"

\* The action of an accepted event, one for a source.
Ready(id, verdict) ==
  IF verdict = "ACCEPTED" /\ id \notin DOMAIN action
  THEN With(action, id, "READY") ELSE action

\* TRADEPLAN and CAP decide, and an accepted proposal becomes a READY action in
\* the same transaction.  A source that was decided before keeps its decision.
Decide(id) ==
  /\ tasks[id] = "FACTS" /\ Fresh(id)
  /\ events' = IF id \in DOMAIN events THEN events ELSE With(events, id, Verdict)
  /\ action' = Ready(id, events'[id])
  /\ tasks' = IF id \in DOMAIN action' /\ action'[id] = "READY"
              THEN [tasks EXCEPT ![id] = "REFRESH"] ELSE Without(tasks, id)
  /\ UNCHANGED <<world, wire, stage, asked, evaluator, plan, called, filled, faults>>

\* reject_before_submission: the second facts are refused.
RefuseRefreshed(id) ==
  /\ tasks[id] = "REFRESH"
  /\ tasks' = Without(tasks, id)
  /\ action' = [action EXCEPT ![id] = IF @ = "READY" THEN "NOT_SUBMITTED" ELSE @]
  /\ UNCHANGED <<world, wire, stage, asked, evaluator, plan, events, called, filled, faults>>

\* process_execution_action, when nothing stands against the call.
Call(id) ==
  /\ tasks[id] = "REFRESH" /\ Fresh(id)
  /\ lifecycle = "RUNNING" /\ stop # "STOPPED" /\ stage = "LIVE"
  /\ action[id] = "READY"
  /\ action' = [action EXCEPT ![id] = "CALLED"]
  /\ called' = called \cup {id}
  /\ tasks' = Without(tasks, id)
  /\ UNCHANGED <<world, wire, stage, asked, evaluator, plan, events, filled, faults>>

\* It ends without a call: CAP refuses, the failure has taken the right to
\* call away, the client refuses, or the valuation is not known.
CallNot(id) ==
  /\ tasks[id] = "REFRESH" /\ Fresh(id)
  /\ lifecycle = "RUNNING"
  /\ \/ action' = [action EXCEPT ![id] = "NOT_SUBMITTED"]
     \/ stop # "STOPPED" /\ UNCHANGED action
  /\ tasks' = Without(tasks, id)
  /\ UNCHANGED <<world, wire, stage, asked, evaluator, plan, events, called, filled, faults>>

\* An exception in a task: a takeover in the meantime, or a fault.
TaskFails(id) ==
  /\ \/ tasks[id] = "REFRESH" /\ lifecycle = "USER_TAKEOVER" /\ UNCHANGED faults
     \/ Fault
  /\ tasks' = Without(tasks, id)
  /\ stage' = "FAILED"
  /\ UNCHANGED <<world, wire, asked, evaluator, plan, records>>

(***************************************************************************)
(* Venue events, the owner, and the end of the process.                    *)
(***************************************************************************)

\* The order trades: record_first_fill, and the action closes.
Fill(id) ==
  /\ stage # "DOWN"
  /\ id \in called \ filled /\ action[id] \in {"CALLED", "HANDED_OVER"}
  /\ filled' = filled \cup {id}
  /\ consumed' = TRUE
  /\ action' = [action EXCEPT ![id] = IF @ = "CALLED" THEN "CLOSED" ELSE @]
  /\ UNCHANGED <<world, wire, stage, asked, evaluator, tasks, lifecycle, run, stop, events, called, faults>>

\* The order was rejected or never existed.
NoFill(id) ==
  /\ stage # "DOWN"
  /\ action[id] = "CALLED"
  /\ action' = [action EXCEPT ![id] = "CLOSED"]
  /\ UNCHANGED <<world, wire, stage, asked, evaluator, tasks, plan, events, called, filled, faults>>

\* The owner resumes what the new process has paused.
Resume ==
  /\ lifecycle = "RUNNING" /\ run = "PAUSED" /\ stage = "LIVE"
  /\ run' = "ACTIVE"
  /\ UNCHANGED <<world, wire, stage, asked, evaluator, tasks, lifecycle, stop, consumed, records, faults>>

\* The owner stops new risk, and lifts that stop once.
StopOrRelease ==
  /\ lifecycle = "RUNNING"
  /\ \/ stop = "NONE" /\ stop' = "STOPPED"
     \/ stop = "STOPPED" /\ stop' = "RELEASED"
  /\ UNCHANGED <<world, wire, stage, asked, evaluator, tasks, lifecycle, run, consumed, records, faults>>

\* The owner takes over; what is not known to be open is handed over.
TakeOver ==
  /\ lifecycle = "RUNNING"
  /\ lifecycle' = "USER_TAKEOVER"
  /\ \E open \in SUBSET called :
       action' = [id \in DOMAIN action |->
                    IF id \in Open \ open THEN "HANDED_OVER" ELSE action[id]]
  /\ UNCHANGED <<world, wire, stage, asked, evaluator, tasks, run, stop, consumed, events, called, filled, faults>>

\* The process is killed, or ends because a failure is latched.
Down ==
  /\ stage # "DOWN"
  /\ (stage = "FAILED" /\ UNCHANGED faults) \/ Fault
  /\ stage' = "DOWN" /\ asked' = 0
  /\ tasks' = <<>>
  /\ wire' = [source |-> <<>>, target |-> <<>>]
  /\ channel' = Ending(0) /\ source' = 0 /\ window' = <<>>
  /\ UNCHANGED <<world, plan, records>>

(***************************************************************************)
(* The specification.                                                      *)
(***************************************************************************)

\* A process that runs, and an activation the owner has just confirmed.
Init ==
  /\ closes = <<>> /\ link = "UP"
  /\ wire = [source |-> <<>>, target |-> <<>>]
  /\ stage = "LIVE" /\ asked = 0
  /\ channel = Ending(0) /\ source = 0 /\ window = <<>>
  /\ tasks = <<>>
  /\ lifecycle = "RUNNING" /\ run = "ACTIVE" /\ stop = "NONE" /\ consumed = FALSE
  /\ events = <<>> /\ action = <<>> /\ called = {} /\ filled = {}
  /\ faults = 0

TaskStep(id) ==
  RefuseFacts(id) \/ Decide(id) \/ RefuseRefreshed(id) \/ Call(id) \/ CallNot(id)

Next ==
  \/ \E p \in Prices : Minute(p)
  \/ Disconnect
  \/ \E again \in BOOLEAN : Reconnect(again)
  \/ Start \/ HistoryComplete \/ HistoryRefused
  \/ TargetBar
  \/ \E quote \in Quotes : SourceBar(quote)
  \/ \E id \in DOMAIN tasks : TaskStep(id) \/ TaskFails(id)
  \/ \E id \in DOMAIN action : Fill(id) \/ NoFill(id)
  \/ Resume \/ StopOrRelease \/ TakeOver \/ Down

Spec == Init /\ [][Next]_vars

(***************************************************************************)
(* Properties.                                                             *)
(***************************************************************************)

\* An activation has at most one open entry, and never a second one that
\* trades, however many proposals wait for their facts at once (the guard of
\* consume_strategy_proposal over the open responsibility and the fill).
OneEntry == Cardinality(Open) <= 1 /\ Cardinality(filled) <= 1

\* Whatever bars were lost or repeated, an accepted entry rests on bars that
\* exist: the minutes before its source bar follow each other and its last
\* target bar, and all closed above the channel that ends with this bar.
SignalIsTrue ==
  \A id \in DOMAIN action :
    LET ms == [i \in 1..Confirmations |-> id[2] - Confirmations + i] IN
    /\ ms[1] > id[1] * Interval
    /\ Triggered({id[1] - i : i \in 0..Lookback - 1}, ms)
================================================================================
