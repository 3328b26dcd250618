# Halpha in TLA+

Halpha trades for one owner on one Binance account.  The owner activates a plan;
an Executor process enters, protects and closes the position; an App process
serves the owner.  Both work on one PostgreSQL database, and the venue answers
late, twice, in any order or not at all.  What can go wrong is rarely in one
function: it is in what two of these parties do between two transactions, or two
awaits, of a third.  That is what the modules here are about.

Every definition is translated from the source.  `PROJECT.json` names for each
the lines it stands for, the runs, the mutants that show a property can fail, the
hazards and the theorems.

    ExecutionAction        states and transitions of one execution action
    ExecutionDispatch      from an action to at most one call, and back   (core)
    SubmissionPromise      what EXE promises of an order                  (abstract)
    OrderFacts             how trades and ends of orders become facts
    ActivationControl      owner commands, pauses, exits and closings
    AccountStop            the account-wide stop and its release
    EntrySignal            a strategy's entry, from bars to the call
    EntryMarket            what a direct activation knows of the market
    DirectSchedule         the legs of an order schedule and their attempts
    ProtectionTargets      what a direct plan may buy and where its stops stand
    ProtectionReplacement  how stops and take-profits of a fill are replaced
    ExitResponsibility     protecting, reducing and closing what was bought
    ExecutorProcess        the Executor as a process
    MarketFeed             the public market on an owner's chart
    MC*                    instances for TLC;  *Proofs: theorems for TLAPS

`ExecutionDispatch` extends `ExecutionAction` and implements `SubmissionPromise`
through a refinement mapping.  `DirectSchedule` extends `EntryMarket`, which gives
every judgement the scheduler can form of a market.  The other models are separate
abstractions of code that overlaps, each cut where the hazards of its subject are
and taking the rest as one step:

- `ExecutionDispatch` keeps one row per intended call, crashes and the calls; the
  owner's controls are steps without receipts, facts are kinds without quantity.
- `OrderFacts` is what `ExecutionDispatch` takes for an `Observe`: events,
  inferences and queries of one order, with quantities.
- `ActivationControl` keeps receipts, versions and evidence and reduces an
  activation to its latest entry.
- `DirectSchedule` and `EntrySignal` are the two ways an entry comes about;
  either ends in the dispatch.
- `ProtectionReplacement` follows one fill until its stop trades or an exit is
  asked for, `ExitResponsibility` from the protection to the completed activation;
  `ProtectionTargets` has the numbers both of them take as given.
- `AccountStop` keeps what is inside one transaction of two processes, which the
  others take as atomic; `ExecutorProcess` what is around all of the Executor's.

## 1. Inventory

### Trading core

**Execution actions** (`venue_integration/models.py`, `transitions.py`,
`service.py`, `repository.py`).  State: rows of `execution_action`, one per
intended venue mutation (entry, exit, protection, take-profit, cancel), with the
states READY, SUBMITTING, UNKNOWN, NOT_SUBMITTED, OPEN, CLOSED, HANDED_OVER.
Operations: create, prepare a submission, record its result, absorb a fact,
close from terminal facts, hand over, recover on start.  Called by the
coordinator, each call inside a transaction of the coordinator's.  Hard: the
row is the only memory a crash leaves of a call; facts of an order arrive before
its own call has returned, or after its row was closed.  Correct when an action
is called at most once, when a negative state is a proof that nothing exists
outside, and when a cancel is closed by its target's end only.

**Venue gateway and client** (`gateway.py`, `nautilus_client.py`,
`dispatch_lock.py`).  State: the permit of one committed submission and the
session-level lock of an activation.  Operations: authorise a SUBMITTING row,
call once, classify the outcome as not submitted, submitted or uncertain.  Hard:
the lock outlives the transaction that checked the action, and has to be
released when the call raises.  Correct when no owner decision commits between
check and call, and no waiter is left behind a dead dispatch.

**Nautilus events and venue facts** (`nautilus_events.py`, `rejections.py`,
`facts.py`, `nautilus_account.py`, the queries of `responsibilities.py`).  State:
rows of `venue_fact`, bound to an action or to the account.  Operations: normalise
a callback, insert it once, read an order and its trades from the venue, ask
whether a terminal fact's fills are complete.  Hard: the same trade arrives as an
event, as Nautilus' inference after a reconnection, and by query, each under an
identity of its own; an end may precede the fills it counts, or count too few.
Correct when a trade becomes one fact however it comes, and an activation is
closed with all of them.

**Executor coordinator** (`executor/coordinator.py`).  State: none in the
database of its own; in memory the startup barrier and the switch that allows
mutations.  Operations: process an action, handle a callback, protect a fill,
close an activation, refresh the barrier.  One asyncio loop, one connection, so
its transactions do not interleave with each other, only with the App, the venue
and death - but its coroutines do, at every await between two transactions.

**Startup recovery** (`executor/runtime.py`, `continuity.py`,
`coordinator.py`, `planning/repository.py`).  Operations: pause every activation
with something to reconcile, turn SUBMITTING into UNKNOWN, hold new entries back
until each recovered identity is resolved, finish receipts.  Hard: facts are
replayed; an identity may never have existed.  Correct when no entry passes an
unresolved identity and the barrier is let go of whatever the venue knows.

**Product responsibilities** (`executor/responsibilities.py`).  State: what one
pass of `sync` has read.  Operations: apply a takeover, query unknown orders,
protect fills, replace stops, rebuild take-profits, cancel, exit and succeed an
exit that failed, close.  Hard: a pass decides on the activation and the account
as they were before several awaited queries, passes overlap, and the transactions
that follow do not repeat every check.  Correct when no position is left without a
stop or an exit, when what reduces it never exceeds it, and when a completed
activation leaves no order and no position.

**Owner controls** (`planning/control_service.py`, `user_workbench/*`, the
control endpoints of `app/planning_api.py`).  State: `command` and its receipt.
Operations: STOP_NEW_RISK, RESUME_ACTIVATION, EXIT_STRATEGY, USER_TAKEOVER, each
known by an idempotency key and aimed at a version of the activation.  Hard:
answers are lost and commands sent again; the evidence of a resume is read on a
connection of its own before the deciding transaction.  Correct when receipts
are true, decisions are not undone, and a resume rests on evidence younger than
the pause.

**Activation lifecycle** (`planning/transitions.py`, `repository.py`,
`service.py`).  State: the row of `plan_activation` (lifecycle RUNNING, EXITING,
USER_TAKEOVER, COMPLETED; run state; protection; take-profit and schedule state;
version).  Written by both processes.

**CAP checks and stops** (`capital/*`).  State: versioned stops of an activation
and of the account.  Operations: check an action, stop, lift.  Hard: an
account-wide stop is raised by the Executor's facts while the owner lifts the
previous one.

**System stop release and account observation** (`app/planning_api.py`,
`executor/account_observation.py`).  State: account snapshots as facts, each
gathered from four concurrent queries.  Operations: observe, release.  Correct
when no fact that demands a stop is forgotten and a release lifts the version
its owner saw.

**Order schedules and policies** (`planning/order_schedule*.py`,
`order_policies.py`, `executor/direct_schedule.py`).
State: the frozen legs, stop and take-profits of a direct plan; the attempts of
each leg.  Operations: compile and freeze, submit a leg, retry, reprice, expire,
release.  Hard: the scheduler reads the activation once and awaits the account and
the market before it acts; rounding decides whether the frozen loss still covers a
fill.  Correct when one attempt of one leg is at work, none is called while a fill
lacks protection, and no fill makes the loss larger than was agreed.

**Strategy adapters and bar evaluation** (`planning/adapter.py`,
`bar_evaluation.py`, `indicators.py`, `strategies/one_shot.py`,
`executor/product_entry.py`).  State: a channel of target bars, a
window of confirming bars, proposals under way.  Operations: warm up from history,
take a bar, propose, decide, refresh the facts, call.  Hard: bars are lost and
repeated when a connection returns; several proposals wait for facts at once; an
order that failed gives the opportunity back.  Correct when an entry rests on an
unbroken confirmation and is unique.

**Executor runtime and process control** (`executor/runtime.py`, `__main__.py`,
`runtime_control.py`, `windows_runtime.py`, `live_write_gate.py`).  State: the scheduled task, mutexes,
the stop event, the database session; in memory whether mutations are allowed and
whether a component has failed.  Operations: start, stop, reconcile, become ready,
latch a failure, end within a time.  Hard: everything fails at every step, and two
processes must never both act.  Correct when a stop that was reported is quiet,
when entries wait for the recovery and for the admitted binding, and when a
signalled process ends.

**Position attribution** (`position_attribution.py`): by sums of recorded trades,
part of `OrderFacts` and `ExitResponsibility`.  **Outcomes** (`outcomes/*`):
versioned reviews of a completed activation; not modelled, nothing of the core
reads them.

### Around it

**Public market data** (`public_market.py`, `public_market_stream.py`, the frontend's
`marketStream.ts` and `OrderScheduleChart.tsx`): one relay per channel with bounded queues,
a page that stitches a window to a stream.  Hard: a bar can be lost in five
places, and a chart with a hole looks like a chart.  Modelled as `MarketFeed`.

Backup, projections, notifications, venue helpers, configuration and Windows
deployment, schema, the rest of the frontend and tools are listed in
`PROJECT.json` with the reason they are left out: they read the state the modules
change, or are I/O.

## 2. How the modules correspond to the code

### ExecutionDispatch

| State | Code |
|---|---|
| `lifecycle`, `runState` | `plan_activation.lifecycle`, `run_state` |
| `stopped`, `accountStopped` | current `stop_state_version` of activation and account |
| `state`, `facts` | `execution_action.state`; kinds of `venue_fact` bound to it |
| `up`, `writable`, `pending` | the process, `_venue_mutations_enabled`, `_startup_recovery_pending` |
| `dispatch` | `process_execution_action` on the stack, after its prepare or after its call |
| `queued`, `inflight`, `venue` | external: inside Nautilus, on the wire, what the venue has to say |
| `asking` | called orders a `sync` has read and asks the venue's account API about |
| `calls`, `begun`, `overtaken` | history: calls, what an earlier process called, entries handed over while a query of them was under way |

`Create`, `RejectReady`, `Prepare`, `CapReject`, `Refuse`, `CallOnce`, `RecordUnknown` and their
neighbours are the transactions of `process_execution_action`; `Observe` is
`handle_nautilus_order_event`, with everything it does in one transaction
(opening the action, closing its cancels, stopping the account on a late fill,
letting the barrier go).  The answers of queries take another way, `apply_venue_fact`:
`AskVenue`, `ApplyAnswer` and `EndQuery` are a query begun from rows a `sync` has
read, a fact of its answer, and its end; an answer neither stops the account nor
lets the barrier go, and between its beginning and its facts anything may happen,
a takeover included.  `ApplyTakeover`, `ReconcileCancel` and
`CloseActivation` belong to the responsibility loop; `Restart` is the startup
order of the runtime.  A crash may happen in every state, a transaction may fail
in every dispatch.

`SubmissionPromise` says the same of an order in six claims and seven steps.
The mapping takes a row's state to a claim: SUBMITTING and UNKNOWN are
"possible", NOT_SUBMITTED is "absent", OPEN and CLOSED are "known",
HANDED_OVER is "released".

### OrderFacts

An entry, a second attempt of it and the order that reduces their position, one
lot per trade.  `venue` is what is true; `wire` what Nautilus has yet to hand on,
`cache` what it counts; `fills` and `ends` are the facts, each with the way it
came.  `Deliver` is `handle_nautilus_order_event` of one message; `Reconnect` and
`Restart` let Nautilus infer what the stream lost (an inferred trade is an
ORDER_STATE of status FILLED, not a FILL); `Observe`, `ReadOrder`, `ReadTrades`,
`FallBack`, `Close`, `EndPass` are one pass of the responsibility loop, which reads
an order and its trades in two requests between which both may move.  That the
Nautilus cache counts an execution once, that commissions come with their trade,
and that the account's position is one consistent snapshot are assumptions.
EXPIRED is treated like CANCELLED.  The reducer is called once, for what is on
record; a residue is `ExitResponsibility`'s subject.

### ActivationControl

| State | Code |
|---|---|
| `plan` | the row of `plan_activation`: lifecycle, run state and pause, opportunity, fill, protection, pending action, version, the takeover's command, the closure |
| `stopped` | the activation's own stop |
| `entry`, `exposure`, `ended` | the latest ENTRY action; its recorded fills, reduced or not; its terminal fact |
| `order`, `position` | external: the venue |
| `fact` | the latest position fact that matches, and whether an action was updated since |
| `loop` | the snapshot a `sync` decides on |
| `command`, `receipt`, `request` | committed commands and receipts, requests in progress |

Each of the owner's intents is one transaction of `submit`, completion without
venue responsibility included; `ReadProof` is the earlier transaction that reads
a resume's evidence.  `StartSync`, `Prove` and `CloseActivation` are the three
points of the responsibility loop between which others run.  `PauseForLoss` is
the continuity guard; it leaves a pause from an earlier loss alone, as the code
does.

Stamps are counted in losses of the Executor: every pause belongs to one, and of
a fact and a pause only the order matters.  A fill is whole or not at all.
`Reduce` stands for any reducer that is filled.

### AccountStop

One module for two transactions that only an advisory lock orders: the
Executor's (insert the fact, lock, read the current version, append or leave it)
and the App's (begin, lock, answer a retry from its receipt, read the snapshot,
look for later facts and open activations, append the release), each statement a
step.  The account observer is two queries whose answers arrive separately and
are stamped with one time.  `position` and `order` are the account's true state.
Stamps are ticks of one clock that never goes back.

### EntrySignal

`closes` are the minutes so far, `wire` the closed bars on their way by stream;
`channel`, `source` and `window` are the evaluator's memory; `tasks` the proposals
under way with what each waits for; `events` and `action` the committed decisions.
`Start`, `HistoryComplete` and `HistoryRefused` are the warm-up, `TargetBar` and
`SourceBar` the adapter's `on_bar`, `TaskStep` one await of the proposal's
`_process`: account facts, the decision of plan and CAP, facts again, the call.
The owner stops, releases, resumes and takes over between any two steps; a
process that dies loses its evaluator and its tasks and keeps the rows.

One LONG activation; a bar is the minute in which it closes.  Channel values, ATR
and sizing are abstracted: a quote is fresh or stale when the size is computed.
The in-memory `_completed` set is subsumed by the replay of a source identity in
the database.  Cache warm-up of a second activation, exit and expiry of READY
entries are not in this module.

### DirectSchedule and EntryMarket

A record `adv` is what one run of `_advance` carries in its local variables from
await to await; it takes a snapshot of the activation once and never reads it
again.  `state`, `why`, `term`, `filled` are the rows and facts of each attempt of
each leg, `counted` the greatest quantity a terminal report has named (it may be
less than what was traded, and a later report may name more; an entry is closed when
its fills on record reach it, as in `terminal_fills_complete`), `taken` and `covered`
how far the activation and the protections have followed, `cancel` and `cause` the CANCEL action.  `Records`, `ProtectionMoves`,
`RecordReduction` are the coordinator's transactions that move meanwhile;
`Arrive`, `Trade`, `End`, `Sell` the venue.  Market facts enter as the set of
judgements `EntryMarket` derives from them: a fact too old or incomplete is
missing, and a condition about it is unknown.  A ladder is combined as ALL and
post-only, the others as ANY.  Controls enter as blocked runs or calls.

### ProtectionTargets

Integer arithmetic of a direct plan: `RawPrices`, `RawNotionals`, `NormalizedLegs`
and `CompileTargets` are `order_schedule.py` (levels by spacing, amounts by mode,
quantization, sliced entries), `Estimate` the loss frozen at activation,
`AggregateTargets` and `Allocate` the shared stop and the take-profits of `transitions.py`, computed anew from all
fills by every `RecordFill`.
Prices are ticks, quantities steps, money is kept multiplied by `Whole`.  The
128-digit division is exact, or off in its last digit where the quotient does not
terminate, which matters at an exact tie of the rounding after it: `skew` is the
sign of the error there.  Minimum and maximum price, maximum quantity, GTD, custom
weights and digests are left out.

### ProtectionReplacement

One fill of a long position.  `orders` is the sequence of its stops and
take-profits, in the order they were created, each with its row, its order and the
predecessor it replaces; `pass` the passes of `sync`; `base` and `revision` the
aggregate target other fills move.  `Read`, `Profits`, `Manage` are the three
parts of a pass; `Process` what the coordinator does with a READY action before
anything else runs (the `Settled` disjunct of `Next`).  The profit lock is the
stepped rule, one take-profit level, prices are small integers.  `FACT_CONFLICT`
ends the process, and with it the behaviour.

### ExitResponsibility

The entry, a protection for each of its fills, the primary exit, its successor and the
clean-up exit, each a row, a called order and what it traded; `pass` the passes of
`sync` with the ledger each has read.  `Read`, `Protect`, `Resume`, `Decide`,
`Close` are the steps of a pass between its awaits; `Age` is the successor delay;
`OwnerExit` and `TimeExit` begin an exit.  `blind` is a history variable: an exit
was sent although something unresolved could still make it too large.  The account
may hold `Other` of the same instrument, which a reduce-only order would take.

Assumed: a market exit trades before the successor delay passes; a call arrives
before that or never; cancels overtake fills or not, and take effect in the end; a
terminal report names what was traded (the case that it names less is in
`DirectSchedule`).
Take-profits and replaced stops are in `ProtectionReplacement`, takeovers in
`ActivationControl`, entries that will be retried in `DirectSchedule`.  The code
compares sums of recorded trades with the account, so two errors that cancel out
are not seen; the properties say so by `blind`.

### ExecutorProcess

`enabled`, `starting`, `stopping`, `event`, `mutex` belong to the scheduled task
and the control commands; `phase` to `observer`, `loop` and `guarded` to the
process; `gate` and `binding` to the file of the live write gate.  Startup is
`Trigger`, `Hold`, `Admit`, `Pause`, `Build`, `Prepare`, `Ready`, the two readings
of the gate apart; work is `SeeStop`, the supervision of database and streams, the
calls; the end is `Leave`, `Close`, `Exit`, the two watchdogs `HardExit` and
`LivenessExit`.  One unfinished activation stands for all.

### MarketFeed

The App's relay (`clients`, `live`, `server`, `queue`, `over`, `boundary`), the web
socket, the page's hook (`page`) and the chart's loader (`chart`).  Time is the bar
in progress.  `SendQuote`, `SendBar`, `Lose`, `Resubscribe` are the venue; `Relay`
and `Connect` the App; `Receive`, `Load`, `Show` and their neighbours the page.
`resetData` of the chart library always starts a load (external).  A window is
read, and clients start, within one bar; two equal messages never wait behind each
other.  Funding, the policy close of a socket, a source mismatch, the shutdown of
the App and the throttling are left out.

## 3. What the runs show

| Run | Instance | Shows |
|---|---|---|
| `dispatch` | one activation, an entry and its cancel, one restart; fair | the dispatch implements `SubmissionPromise` (one call at most; READY and NOT_SUBMITTED are proofs); a cancel rests on its target's end; no entry passes an identity called by an earlier process; every call is allowed by the owner's decisions at the moment it is made; a late fill of a handed-over entry stops the account unless a query was under way at the hand-over; the barrier is released |
| `order_facts` | an entry of two lots, its second attempt, a reducer, one fault; fair | every trade becomes one fact however it comes; a completed activation has all of them; what one way lost is learned on another |
| `control` | one command of any intent, two losses of the Executor | a decision against new risk holds; a resume is never effective on evidence from before the pause it ends; a completion leaves nothing |
| `stop_release` | one activation, a request and its retry under one key, clock to 4, one unattributed trade, evidence age 3 | no fact that demands a stop is forgotten; a release lifts the version its owner saw |
| `entry_signal` | six minutes, target bars of two, a channel of one, two confirmations, two prices, one fault | at most one entry is open or trades; it rests on an unbroken confirmation |
| `schedule_legs` | two legs of a ladder and of a sliced order; a repriced one of two fills with a retry and a replacement; restarts | one attempt may trade at a time; no leg is bought twice; none is called while a recorded fill lacks protection, or while the ledger lacks a fill that the account shows |
| `targets` | ladders of two and three levels, sliced and market entries, long and short, three fills each up to a tick better or two worse | the stop never loses more than was frozen and clears the planned entries; planned fills are accepted; take-profits add up |
| `stops` | one fill of two units, another that moves the target, a take-profit or a dynamic step; refusals, losses, rejections; fair | a replacement that must not stand beside its predecessor waits for its end; take-profits fit the fill; a fill without a live stop gets one or an exit |
| `exit_safe` | two overlapping passes, a fill of one unit, one unit of another activation; unvalued and unknown calls, a refused protection | what the activation's orders trade never exceeds what it bought, unless an exit was sent blind; a completed activation is flat |
| `exit_fair` | one pass, an account of its own, a fill in three parts, the second protection rejected; fair | no position stays without protection or exit, and an exit the owner asked for completes, as long as no fill comes after the successor exit was created and outlives it |
| `process_life` | one failure, two bindings; fair | a reported stop is quiet; entries follow the recovery of their own process and its binding; a signalled stop ends; the Executor serves again |
| `market_feed` | three bars, a queue of three, two faults; fair | a bar missing in the middle of the chart is never left unannounced; the page gets back to LIVE with a whole window |

The larger instances have between three hundred thousand and one and a half million
states (`exit_fair` 373,295, `order_facts` 748,361, `market_feed` 833,011,
`entry_signal` 1,015,683, `exit_safe` 1,306,081, `schedule_legs` 1,525,845).

All cfgs but `process_life`'s say `CHECK_DEADLOCK FALSE`: the system may really
stop, when every activation is completed and nothing is left to report, and the
bounded clocks, trades and faults stop every behaviour in the end.  In
`market_feed` a page whose first start failed stays orphaned, as in the code.

Bounds, and why they are enough.

- *Two actions* (`dispatch`): an action meets others as the target of a cancel or
  as an earlier identity of its activation; two entries of one activation are left
  to the theorems, which are for any number.  *One restart*: a second one finds
  the row UNKNOWN instead of SUBMITTING, which the first already produces.
- *One command* (`control`): a retry and a contradiction of it are covered by
  `ReceiptsStayTrue` and `NoEntryOnceDecided`, for any number.  *Two losses*:
  evidence from the first pause against the second.
- *Two requests with one key* (`stop_release`): the third meets the receipt as the
  second does.  *Clock to 4*: a stop, a snapshot after it, a release after that
  and one tick between any two.
- *Two lots, one fault* (`order_facts`): a trade known and one lost; the invariants
  are proved for every size and number.
- *Six minutes* (`entry_signal`): a channel, its two confirmations and a second
  signal behind it; *one* backlog bar per stream lets the streams overtake each
  other.  Proved for all values.
- *Two legs, one retry, one replacement* (`schedule_legs`): what separates two
  attempts of a leg and two legs; proved for all values.  An understated report needs
  an attempt of two fills: the repriced schedule has one.  With two in the legs of the
  ladder too the run has five million states; it was made once and holds.
- *Two fills* (`stops`): one moves the target of the other; with three, checked
  for the invariants alone, the branch that rebalances a stale stop fires too.
- *Two passes* (`exit_safe`): a decision and what overlaps it.  *Lot 3*
  (`exit_fair`): a part for each of the exits that may follow one another, the
  primary one, its successor and the clean-up, so that the third comes when the chain
  is at its end; with two the chain never gets there.  The same holds when every
  protection may be refused (made once, 1,257,447 states).  With unknown
  outcomes of stops `ExitCompletes` does not hold, section 6.
- *Capacity 3* (`market_feed`, 256 in the code): a queue that overflows with one
  event already forwarded.  A bar that belongs to no window is missed within the
  next bar or never, so *three* are enough for a hole in the middle.

Keys, requests and passes that nothing tells apart are permuted (`SYMMETRY`) in
runs without liveness.

Each property has a mutant: a definition with a bug somebody could write (a check
left out, a stale value, a wrong set of facts).  The faulty forms stand next to
the right ones, are marked "Faulty" and used by no action.

### Fairness

- `ExecutionDispatch`: the Executor is restarted (the runtime's supervision),
  ends the dispatch it is in (a synchronous function), runs its event loop and
  its periodic loop (`sync` and `retry_startup_recovery_queries`).  An order the
  venue knows is reported, by the stream or by the answer to a query: only for
  called and open actions, which are the ones the code queries.  Nothing is
  assumed of the owner, of new proposals, of the wire.
- `OrderFacts`: orders trade or end, events are delivered, connections and
  processes come back, and passes follow one another step by step.
- `ExitResponsibility`: the steps of a pass (one asyncio loop that runs what is
  ready), the successor delay, the recording of events, market exits that trade.
  Nothing makes the owner act or an entry trade.
- `ProtectionReplacement`: the coordinator ends what is READY (`WF` of the step
  that is not settled); passes and the venue's answers by `SF`, since a fill, a
  trigger or another pass may disable them again and again.
- `ExecutorProcess`: the triggers of the scheduled task, each step of startup and
  of ending, the watchdogs.  Not the database, the streams or the owner: that
  `ServesAgain` speaks of a behaviour in which they work is part of the property.
- `MarketFeed`: the venue sends (`SF`, as routes go down in between); tasks, timers
  and renders run (`WF`).  Faults are bounded, so that what recovers can be seen.

## 4. What is proved

TLAPS proves the theorems `PROJECT.json` lists, for every value of the constants:
every number of actions, activations, keys, requests, legs, retries, lots, bindings,
restarts, faults.  They rest on the named assumptions of the modules: the constants
have their types, a cancel names an order of its own activation (the gate refuses
others), `None` is no key and no command, and the stop distance, fees and take-profit
fractions of a request are within the limits of their validators.  Each module proves that an inductive
invariant holds (type correctness in parts that say what a variable may be, and
named parts that relate variables) and reads the properties off it.

**ExecutionDispatchProofs.**  `TypeCorrect` carries the fact that a dead process
holds nothing.  `IntentInv` adds to it that an action without intent was never
called, that a dispatch holds a SUBMITTING row called as often as its step says,
and that an order is in one place at a time; it is inductive because only
`Prepare` makes an intent and only a restart ends one.  From it follow
`CalledAtMostOnce` and `NegativeStatesAreProof`.  `BarrierInv` adds that what an
earlier process called and nobody resolved is in the barrier, `ControlInv` that
the dispatch on the stack is still allowed: every control that could forbid it
waits for the lock.  `FactInv` ties recorded facts to what the venue has to say;
it gives `CancelsRestOnTargets`, `LateFillsStopAccount` and the step simulation
behind `DispatchKeepsPromise`.  `LateFillsStopAccount` also needs that an entry
which is asked about and handed over was asked about before (`AskedIsOvertaken`): a
sync begins no query in an activation that is taken over, and a takeover is not
undone.  `CompletionInv` adds that a closed order has a
terminal fact and that a completed activation has only settled actions.

**AccountStopProofs.**  `StopInv` says that a request holding the lock excludes
every other and the recorder's last step (`Exclusive`), and that what it has read
so far is still so (`HolderKnows`: its version is the current one, its snapshot
is younger, the closing it rests on stands).  None of the three properties is
inductive without it: they speak of committed rows, and the danger is in a
transaction that has read and not yet written.

**ActivationControlProofs.**  The row of an activation only follows itself
(`Follows`: its version grows with every change, an end is final, a takeover and
a fill are not forgotten).  `ReceiptInv` holds a receipt true because whatever it
says is kept by that relation.  `EvidenceInv` says what evidence that is still
good for a command implies: the version the command names is the present one, so
the pause it was read in is the present one.  `ClosingInv` ties rows, facts and
venue together entry by entry.  `NoEntryOnceDecided` and `ResumesAreProven` are
action properties from the same invariants.

**DirectScheduleProofs.**  At most one attempt is alive, where alive includes an
order called late and one whose call has not returned; every earlier attempt of its
leg is closed with nothing traded, and a leg's first attempts are formed together.
That an attempt is closed does not say that its fills are on record: its report may
have named too few.  What a run of `_advance` read before an await is tied to what is
so after it: the
opportunity it saw unconsumed is consumed only when as many attempts as legs have
fills.  `CallsAreProtected` and `CallsKnowTheLedger` are action properties from the same
invariant.  `LedgerInv` says of a run that waits for the account of a leg: nothing of
the schedule is active, so nothing trades any more; the ledger it read before counts no
more than is recorded; and once the account has answered, all that has traded is that
ledger and what has been sold.  If nothing was sold beyond the ledger's count, then the
recorded total is the traded total, and as no attempt records more than it traded, every
attempt is complete.

**OrderFactsProofs.**  The facts of an order never exceed its trades at the venue,
because each FILL is a different trade and an inferred one is recorded as a state.
That at the closing they are no fewer is the hard half: the account was seen flat
either after the reducer was called, and then the reducer's size was what is on
record and it was the last order called, or before anything traded, and then the
orders called since have honest ends.  An end with too small a quantity comes only
from a restart's replay, and a killed process has no pass.  An event on the wire or
a query half answered is never ahead of the venue (`WireOK`, `AskOK`).

**EntrySignalProofs.**  The channel is a run of consecutive target bars, the window
a run of consecutive minutes, neither ahead of the clock, across losses and repeats
of bars.  Were the first confirming minute not after the last target bar, the
closing minute of that bar would be among the confirming ones; but its close is not
above the bar's high, and so not above the channel.  At most one action is pending,
and accepted events always have one.

The last part of the module proves `NoSilentHole` of `MarketFeed` (`HolesAreAnnounced`)
through an instance, as both modules have a clock, a wire and faults.  `FeedInv` says
that the bars are whole unless a renewal is on its way.  Whole means: no bar on the
socket or behind it in the queue is more than one ahead of the chart unless the bar
before it is in front of it, and while the market route is up the last closed bar has
been sent.  A renewal is on its way when the page waits for quotes of a later
generation, when a window is due or loading, or when the notice that will send it there
is in transit or owed, which is what the queue's overflow flag stands for.  Everything
that loses a bar begins a renewal; it ends with a window that was just read, and then
the chart is whole because the window ends with the last closed bar.

**ExecutorProcessProofs.**  The stop, the recovery and the binding need one part
each (`StopInv`, `RecoveryInv`, `HoldingInv`): who holds the mutex in which phase,
which process may still call when the event is set or the task disabled, and what
must have been resolved before a process may be in a phase that calls entries.

**ExitResponsibilityProofs.**  The invariant counts claims: a protection claims one
unit from the moment its fill is on record until it cannot trade any more, an exit
claims its size from its creation to its end, then each claims what it traded.
`Covered` says that the claims never exceed the recorded fills unless an exit was
sent blind.  Two steps create a claim.  A recorded fill of the entry brings the unit
its protection claims.  An exit is created when the protections are over, as a pass
that is not blind waits for them and has replayed every recorded fill, when the
exits before it are over (`ChainOK`: an exit of unknown outcome is followed only
after the delay in which it would have traded), and when every trade is on record,
so that the ledger is what the claims leave.  A pass that calls a READY exit from
old facts creates no claim, which is why a decision may be overtaken by another
pass.  `CompletedInv` keeps the rows of a completed activation final.  Position and
ledger are sums over a set of orders that grows with the entry; the first part of the
module proves of the library's fold what is needed (a term can be taken out, larger
terms make larger sums), each induction as a least counterexample.

A second part of the module proves `LossWithinBudget` and `StopClearsEntries` of
`ProtectionTargets` (`LossCapped`, `EntriesCleared`), which needs the same sums, through
an instance, as both modules have a variable `facts`.  For every plan, every set of
fills at any prices and in any order, and every error of the quotients' last digit, the
shared stop is the nearer of two; the one that the budget asks for is rounded towards
the entry, so that it satisfies the inequality of the loss, and any stop nearer still
satisfies it, because the divisor is positive: fees are below the whole.  The stop
clears the entries because the conflict check compares it with the entry price nearest
to it, frozen with the estimate.

`LadderClosesItsShare` (`LaddersClose`) is a fact of arithmetic that every state
satisfies.  What rounding each level down leaves over is a sum of remainders below ten,
so it is less than the number of levels that lost something.  `ServedBefore` is a strict
order; in such an order of m things exactly k have fewer than k before them (`RankForm`,
a bijection of the ranks), so that exactly the steps left over are handed out, and none
to a level that lost nothing.  The validators' bound of the fractions gives the rest.

`PlannedFillsAreAccepted` (`PlannedFillsFit`) needs two facts more of the plan, in
`PlanInv`: it is as valid as it was at activation, with an estimate computed from its
legs (`Frozen`), and no leg trades more than it is for (`Placed`).  A stop that
clears every planned price loses on each unit, so a part of the plan loses no more than
the whole (`LossOfPart`: the fills are summed leg by leg).  The estimate's own stop is
such a stop: with several prices because a stop inside their range is an issue of the
schedule, with one because the target of that price is valid and the quotient of the
cost and the quantity is exact (`OnePriceStop`, `WholeSkew`).  So the quotient the budget
asks for does not pass the estimate's stop, and it is rounded by less than a tick.  That
last step is where the hypothesis on the frozen loss is needed: a loss that was rounded
down can push an exact quotient one tick on.

The same module proves `TypeOK`, `HandOffWaits` and `TakeProfitsFit` of
`ProtectionReplacement` (`StopTypes`, `HandOffs`, `TakeProfitsBounded`), again through an
instance.  `StopsInv` has four parts that speak of rows.  `Sound`: a row agrees with its
order, so an end on record is an end at the venue and an order that was never submitted
has no trace there.  `Linked`: what replaces or stands for another action names an
earlier one, and a market reduction a take-profit whose trigger was crossed.
`Relieved`: what was to wait and was called follows a stop whose end is on record; every
part of a pass that calls a stop, at once, on resumption or in dynamic management, asks
`Waits` of the rows as they are, and an end on record stays.  `LadderForm`: a
take-profit is made only when no earlier one was submitted, and a crossed one gets one
reduction.  It follows that of the take-profits and reductions of a fill all but one
have nothing at the venue, whatever the passes have read before.  That needs
`Rebuildable` to be as narrow as the code has it: with a rule that also takes a
cancelled take-profit whose fills are not complete, the proof fails at that step.

### Only model-checked

Every invariant, action property and refinement that a run checks is stated by a theorem.
What is left to TLC:

- Liveness: `BarrierIsReleased`, `Converges`, `NakedEnds` (two modules),
  `ExitCompletes`, `StopEnds`, `ServesAgain`, `Recovers`.  The prover has no rule
  for fairness and ENABLED.
- What the spacings and amounts of a schedule compute (folds and powers over the
  levels): `RequestsAssumption` says what the theorems about `ProtectionTargets` need
  of it, that the legs have whole prices and quantities.

## 5. Not modelled, and assumptions

- Amounts that CAP reserves, wallet and margin arithmetic, several instruments and
  hedge mode.
- Outcomes, backup, the other endpoints, the forward observation of positions,
  funding, the pacing of queries.
- The database is serial where a module has one action; waits of transactions for
  each other's locks are not modelled.  `AccountStop` is the module that looks into
  overlapping transactions.  Serialization failures appear as transactions that do
  nothing.
- The host clock never goes back (`AccountStop`); stamps may be equal.
- Digests identify what they are computed from.
- An error raised out of a callback leaves the rows as they were;
  `ExecutorProcess` has what the runtime does to a failed component.

## 6. Observations

Places where a comment, a document or a neighbouring piece of code says otherwise
than the code does, or that a reader of the models would ask about.  No run checks
them.

- `responsibilities.py:740`: the docstring says never-called actions are handed
  over; UNKNOWN ones are too, as EXE-002 asks.
- `account_observation.py:566, 642`: four queries share one stamp, where
  CAP-002 speaks of a uniform cutoff; all four can be empty although the account
  never was.
- `coordinator.py:2761` takes the activation's row before its control lock,
  `control_service.py:152` the other way round: PostgreSQL may have to end a
  deadlock.
- A control that completes an activation leaves an earlier EXIT_STRATEGY's receipt
  PROCESSING until the next start (`control_service.py:47`).
- A takeover that commits while the loop awaits the account is closed without its
  command's identity (`responsibilities.py:2707`).
- A RESUME may become effective although a fill was recorded after its evidence was
  read: a recorded fill changes the activation's version only once it is protected.
- `responsibilities.py:1467`: attribution compares sums, so foreign quantity and a
  missing record of the same size cancel out.
- `_ensure_exit` and the comment at `responsibilities.py:1247` ("any late entry fill
  remains attributable and is reduced again"): the clean-up exit waits for a CLOSED
  successor (`:3027`), and the loop that closes actions runs only without a position
  (`:2604`).  A fill after the successor was created thus stays without protection and
  exit, and the activation never ends, with no fault at all: a fill before the exit,
  one between primary and successor, one after the successor.  `Outlived` names the
  case, and `NakedEnds` and `ExitCompletes` except it; without the exception TLC
  finds it in `exit_fair`'s instance, with 37 steps.  Nor is a late fill after an
  exit of unknown outcome reduced again.
- `coordinator.py:1588` stops the account on a fill of an entry that is not OPEN, as
  `docs/L2/HALPHA-EXE-001...md:42` asks of a late fill ("终态后迟到成交只停止新风险")
  and `tests/runtime/test_executor_coordinator.py:1299` tests it, for callbacks.  An
  answer to a query (`responsibilities.py:679`, `coordinator.py:1919`) records the same
  fill without a stop; a query that was under way at a takeover brings one for a
  handed-over entry (`overtaken`).
- `facts.py:378`: the greatest terminal quantity reported decides whether an entry is
  complete.  One that is understated closes the row with a fill missing; the scheduler
  is kept from the next leg by the account's position, not by the row.
- `responsibilities.py:480`, `transitions.py:921`: the take-profit event of a fill
  depends on targets later fills rewrite; its replay is a FACT_CONFLICT after two
  fills.
- `responsibilities.py:1715` cancels a DYNAMIC stop; two READY replacements may
  have the same predecessor.
- `responsibilities.py:1940`, `coordinator.py:2428` need a CLOSED take-profit where
  the docstring speaks of a lost one.
- `transitions.py:1187`: a fill of one step and fractions below one raise
  TAKE_PROFIT_SPLIT_INVALID, uncaught.  A loss that 128 digits rounded down refuses
  exactly the planned fills (SHORT, 51.4 x 0.011 and 51.5 x 0.003, 50 bps), raised
  outside the `try` of `create_protection_for_fill`.
- `direct_schedule.py:1290`: two legs whose conditions alternate cycle, against
  TRADEPLAN-002:20.  `_action_check_for_leg` of a later leg is outside any `try`.
- `adapter.on_bar`: "no later bar can create another entry", but a rejected entry
  gives the opportunity back.  `bar_evaluation.py:233`: a channel may be older than
  its comment says.
- An observer's probe failure leaves a READY process with mutations off
  (`runtime.py:902, 2686` against the docstring at `__main__.py:147`).
- A part that Nautilus infers is recorded as FILLED with the last quantity as the
  cumulative one (`nautilus_events.py:184`); if the order later ends cancelled its
  fills never count as complete, orders of known end are not queried
  (`responsibilities.py:579`), and the activation does not close.
- `MarketFeed`: a window read across the end of a bar, or a first quote before the
  market route is subscribed, loses a bar without notice; LIVE is shown for a moment
  with a hole; a failed load is not retried before the next generation.

## 7. Plan

Done, in the order of what the system must not get wrong: the dispatch and its
promise; facts; controls, pauses and closings; the account's stop; entries;
protection and exits; the process; the chart.  To come:

1. Composition: `ActivationControl`'s entry as what `ExecutionDispatch` does to one
   ENTRY action, and `OrderFacts` under it, as refinements.
2. Outcomes: versions of a review and its retry after a failed transaction.
