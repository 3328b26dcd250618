--------------------------- MODULE ExecutionDispatch ---------------------------
(***************************************************************************)
(* How one ExecutionAction becomes at most one call of the venue, across   *)
(* crashes of the Executor, late venue callbacks and owner controls.       *)
(*                                                                         *)
(* Three parties share the state:                                          *)
(*   - the Executor: one asyncio loop and one autocommit connection.  Its  *)
(*     process_execution_action is synchronous, so between two of its      *)
(*     transactions no other Executor handler runs, but the process may    *)
(*     die, a statement may fail, and the App and the venue may move;      *)
(*   - the App: control transactions that take the activation's dispatch   *)
(*     lock before they touch the activation;                              *)
(*   - Nautilus and the venue (external): hand the order on, or deny or    *)
(*     lose it, and report order states and fills any number of times, in  *)
(*     any order and as late as they like.                                 *)
(*                                                                         *)
(* A variable holds what PostgreSQL holds (it survives a crash) unless its *)
(* comment says it lives in the process.                                   *)
(***************************************************************************)
EXTENDS ExecutionAction, Naturals

CONSTANTS
  Activations,
  Actions,
  Owner,        \* Owner[a]: the activation of action a
  Kind,         \* Kind[a]: its action kind
  Target,       \* Target[a]: the order a CANCEL names (itself for an order)
  MaxRestarts   \* bound: restarts of the Executor

ASSUME OwnerAssumption == Owner \in [Actions -> Activations]
ASSUME KindAssumption == Kind \in [Actions -> ActionKinds]
\* PersistedActionGate refuses a cancel whose target is a cancel or belongs to
\* another activation, so a cancel with any other target is never called.
ASSUME TargetAssumption ==
  /\ Target \in [Actions -> Actions]
  /\ \A a \in Actions :
       IF Kind[a] = "CANCEL"
         THEN Kind[Target[a]] # "CANCEL" /\ Owner[Target[a]] = Owner[a]
         ELSE Target[a] = a
ASSUME MaxRestartsAssumption == MaxRestarts \in Nat

VARIABLES
  lifecycle,      \* plan_activation.lifecycle
  runState,       \* plan_activation.run_state
  stopped,        \* activations whose own stop version contains NEW_RISK
  accountStopped, \* the account's stop version contains NEW_RISK; how it is
                  \* lifted again is the subject of AccountStop
  state,          \* execution_action.state, ABSENT before the row exists
  facts,          \* kinds of venue_fact rows bound to the action
  up,             \* process: the Executor runs
  writable,       \* process: _venue_mutations_enabled
  pending,        \* process: _startup_recovery_pending
  dispatch,       \* process: the process_execution_action in progress
  asking,         \* process: orders a sync asks the venue's account API about
  restarts,       \* number of restarts so far
  queued,         \* external: in Nautilus, not yet on the wire
  inflight,       \* external: on the wire
  venue,          \* external: what the venue has to report of an order
  calls,          \* history: hand-overs of the action to the client
  begun,          \* history: submissions begun by the running process
  overtaken       \* history: orders handed over while a sync asked about them

database == <<lifecycle, runState, stopped, accountStopped, state, facts>>
process  == <<up, writable, pending, dispatch, asking, restarts>>
external == <<queued, inflight, venue>>
history  == <<calls, begun, overtaken>>
vars     == <<database, process, external, history>>

Cancels == {a \in Actions : Kind[a] = "CANCEL"}
Orders  == Actions \ Cancels
Entries == {a \in Actions : Kind[a] = "ENTRY"}

Of(p) == {a \in Actions : Owner[a] = p}

FactKinds == {"WORKING", "FILL", "TERMINAL"}
Idle == [step |-> "IDLE"]

(***************************************************************************)
(* What the handlers share: their guards, and what they do to one row.     *)
(* A form marked "Faulty" is the definition after it with a plausible bug: *)
(* a check of what the properties notice, used by no action.               *)
(***************************************************************************)

\* The Executor may run a handler: the process is up and no
\* process_execution_action is on its stack.
Free == up /\ dispatch = Idle

\* Faulty: the controls do not take the dispatch lock.
UnlockedAlways(p) == TRUE

\* No dispatch of the activation holds its lock.
Unlocked(p) == dispatch # Idle => Owner[dispatch.action] # p

\* Faulty: the barrier is checked once, before the process is connected.
AllowsSubmissionAlways(p) == TRUE

\* startup_recovery_allows_submission.
AllowsSubmission(p) == \A a \in pending : Owner[a] # p

\* _submission_block_reason gives no reason.
NotBlocked(a) ==
  LET p == Owner[a] IN
  /\ lifecycle[p] \notin {"USER_TAKEOVER", "COMPLETED"}
  /\ a \in Entries => runState[p] = "ACTIVE"

\* The part of CAP's check that reads owner, lifecycle and stop versions.
CapAccepts(a) ==
  LET p == Owner[a] IN
  /\ lifecycle[p] \notin {"USER_TAKEOVER", "COMPLETED"}
  /\ a \in Entries => /\ ~accountStopped
                      /\ p \notin stopped
                      /\ lifecycle[p] = "RUNNING"

\* list_open_cancels_for_target.
OpenCancels(a) == {c \in Cancels : Target[c] = a /\ state[c] \in CalledOpen}

\* No open entry and no called action is left, the two action queries of
\* _complete_if_no_venue_responsibility.
NoOpenResponsibility(p) ==
  \A a \in Of(p) :
    /\ state[a] \notin CalledOpen
    /\ a \in Entries => state[a] # "READY"

\* Faulty: any venue fact of the order confirms its cancels.
ResolvedByAnyFact(a, f, new) == IF new THEN OpenCancels(a) ELSE {}

\* The cancels one callback of order a closes: an inserted terminal fact is
\* what they wait for.
Resolved(a, f, new) == IF new /\ f = "TERMINAL" THEN OpenCancels(a) ELSE {}

\* The state an action moves to when the venue reports it.
Recognised(s) == IF s \in Unresolved THEN "OPEN" ELSE s

\* The rows after one fact of order a is recorded that resolves the cancels of S.
RowsWith(a, S) ==
  [b \in Actions |-> IF b \in S THEN "CLOSED"
                    ELSE IF b = a THEN Recognised(state[a])
                    ELSE state[b]]

\* Faulty: a handed-over entry is taken for the user's own business.
LateIfClosed(s) == s = "CLOSED"

\* An inserted fill of an entry in this state is one nobody waits for.
Late(s) == s # "OPEN"

\* Faulty: only the loop releases the barrier.
BarrierKept(S) == pending

\* What is left of the startup barrier when the actions of S are resolved.
BarrierWithout(S) == pending \ S

\* Faulty: the interrupted call is taken for one that never left.
RecoveredAsUnsent(s) == IF s = "SUBMITTING" THEN "NOT_SUBMITTED" ELSE s

\* Faulty: recovery invents a state of its own.
RecoveredAsPending(s) == IF s = "SUBMITTING" THEN "PENDING" ELSE s

\* prepare_startup_reconciliation of one row: a call may have happened.
Recovered(s) == IF s = "SUBMITTING" THEN "UNKNOWN" ELSE s

\* The target of the cancel has a terminal fact.
TargetEnded(c) == "TERMINAL" \in facts[Target[c]]

\* The venue works the order.
Live(a) == "WORKING" \in venue[a] /\ "TERMINAL" \notin venue[a]

Init ==
  /\ lifecycle = [p \in Activations |-> "RUNNING"]
  /\ runState = [p \in Activations |-> "ACTIVE"]
  /\ stopped = {}
  /\ accountStopped = FALSE
  /\ state = [a \in Actions |-> "ABSENT"]
  /\ facts = [a \in Actions |-> {}]
  /\ up = TRUE
  /\ writable = TRUE
  /\ pending = {}
  /\ dispatch = Idle
  /\ asking = {}
  /\ restarts = 0
  /\ queued = {}
  /\ inflight = {}
  /\ venue = [a \in Actions |-> {}]
  /\ calls = [a \in Actions |-> 0]
  /\ begun = {}
  /\ overtaken = {}

(***************************************************************************)
(* The Executor: the row, then the intent, then the call.                  *)
(***************************************************************************)

\* A proposal CAP accepts is committed as a READY action.  Entries wait for
\* the startup recovery of their activation; a cancel needs its target's row.
Create(a) ==
  /\ Free
  /\ state[a] = "ABSENT"
  /\ CapAccepts(a)
  /\ a \in Entries => AllowsSubmission(Owner[a])
  /\ a \in Cancels => state[Target[a]] # "ABSENT"
  /\ state' = [state EXCEPT ![a] = "READY"]
  /\ UNCHANGED <<lifecycle, runState, stopped, accountStopped, facts,
                 process, external, history>>

\* A READY action a fresh-fact check no longer wants is closed unsent.
RejectReady(a) ==
  /\ Free
  /\ state[a] = "READY"
  /\ state' = [state EXCEPT ![a] = "NOT_SUBMITTED"]
  /\ UNCHANGED <<lifecycle, runState, stopped, accountStopped, facts,
                 process, external, history>>

\* The dispatch lock is taken, the barrier and the activation are read again,
\* CAP checks again, and SUBMITTING commits before anything leaves the process.
Prepare(a) ==
  /\ Free
  /\ state[a] = "READY"
  /\ a \in Entries => AllowsSubmission(Owner[a])
  /\ NotBlocked(a)
  /\ CapAccepts(a)
  /\ state' = [state EXCEPT ![a] = "SUBMITTING"]
  /\ dispatch' = [step |-> "PREPARED", action |-> a]
  /\ begun' = begun \cup {a}
  /\ UNCHANGED <<lifecycle, runState, stopped, accountStopped, facts,
                 up, writable, pending, asking, restarts, external,
                 calls, overtaken>>

\* The same transaction when CAP rejects: by a stop, or by an amount this
\* module does not hold.  CAP never weighs the amounts of a cancel.
CapReject(a) ==
  /\ Free
  /\ state[a] = "READY"
  /\ a \in Entries => AllowsSubmission(Owner[a])
  /\ NotBlocked(a)
  /\ a \notin Cancels \/ ~CapAccepts(a)
  /\ state' = [state EXCEPT ![a] = "NOT_SUBMITTED"]
  /\ UNCHANGED <<lifecycle, runState, stopped, accountStopped, facts,
                 process, external, history>>

\* Between SUBMITTING and the call: the Live gate of an entry closed, the
\* maintenance stop disabled mutations, or the client proves an order expired
\* before its adapter hop.
Refuse ==
  /\ up
  /\ dispatch.step = "PREPARED"
  /\ dispatch.action \in Orders \/ ~writable
  /\ state' = [state EXCEPT ![dispatch.action] = "NOT_SUBMITTED"]
  /\ dispatch' = Idle
  /\ UNCHANGED <<lifecycle, runState, stopped, accountStopped, facts,
                 up, writable, pending, asking, restarts, external, history>>

\* One permit, one call.  The client either hands the mutation to Nautilus or
\* fails locally first; both end in an exception the coordinator cannot read
\* as proof.
CallOnce ==
  /\ up /\ writable
  /\ dispatch.step = "PREPARED"
  /\ dispatch' = [dispatch EXCEPT !.step = "CALLED"]
  /\ \/ /\ queued' = queued \cup {dispatch.action}
        /\ calls' = [calls EXCEPT ![dispatch.action] = @ + 1]
     \/ UNCHANGED <<queued, calls>>
  /\ UNCHANGED <<database, up, writable, pending, asking, restarts,
                 inflight, venue, begun, overtaken>>

\* The uncertain result is persisted and the dispatch lock released.
RecordUnknown ==
  /\ up
  /\ dispatch.step = "CALLED"
  /\ state' = [state EXCEPT ![dispatch.action] = "UNKNOWN"]
  /\ dispatch' = Idle
  /\ UNCHANGED <<lifecycle, runState, stopped, accountStopped, facts,
                 up, writable, pending, asking, restarts, external, history>>

\* An exception outside the guarded call (a failing statement, an identity
\* check of the gate) leaves process_execution_action with nothing persisted.
Abandon ==
  /\ up
  /\ dispatch # Idle
  /\ dispatch' = Idle
  /\ UNCHANGED <<database, up, writable, pending, asking, restarts,
                 external, history>>

(***************************************************************************)
(* The Executor: what the venue reports.                                   *)
(***************************************************************************)

\* One callback of order a carrying one fact, inserted or recognised as already
\* held (a replay under a new event identity, or one more fill, is inserted
\* though its kind is known).  Any fact resolves a call whose result was
\* unknown; an inserted terminal fact closes the open cancels of the order; an
\* inserted fill of an entry that is no longer open stops new risk on the
\* account.
\* After the commit the barrier lets go of every action the facts resolved.
Observe(a, f) ==
  /\ Free
  /\ a \in Orders
  /\ f \in venue[a]
  /\ \E new \in {TRUE, f \notin facts[a]} :
       LET resolved == Resolved(a, f, new) IN
       /\ facts' = [facts EXCEPT ![a] = @ \cup {f}]
       /\ state' = RowsWith(a, resolved)
       /\ accountStopped' = (\/ accountStopped
                             \/ /\ new /\ f = "FILL" /\ a \in Entries
                                /\ Late(Recognised(state[a])))
       /\ pending' = BarrierWithout(resolved \cup {a})
  /\ UNCHANGED <<lifecycle, runState, stopped, up, writable, dispatch, asking,
                 restarts, external, history>>

\* A sync reads the rows of an activation that is neither taken over nor
\* completed, and asks the venue about a called one that is not settled.
AskVenue(a) ==
  /\ Free
  /\ a \in Orders \ asking
  /\ lifecycle[Owner[a]] \notin {"USER_TAKEOVER", "COMPLETED"}
  /\ state[a] \in CalledOpen
  /\ asking' = asking \cup {a}
  /\ UNCHANGED <<database, up, writable, pending, dispatch, restarts,
                 external, history>>

\* apply_venue_fact, for one fact of the answer.  The row may have moved since it
\* was read, and the fact is recorded as in a callback; but no fill of it stops
\* the account, a terminal fact closes the cancels even if it was held before,
\* and the barrier is left alone.
ApplyAnswer(a, f) ==
  /\ Free
  /\ a \in asking
  /\ f \in venue[a]
  /\ facts' = [facts EXCEPT ![a] = @ \cup {f}]
  /\ state' = RowsWith(a, Resolved(a, f, TRUE))
  /\ UNCHANGED <<lifecycle, runState, stopped, accountStopped,
                 process, external, history>>

\* The answer is applied, or none came.
EndQuery(a) ==
  /\ Free
  /\ a \in asking
  /\ asking' = asking \ {a}
  /\ UNCHANGED <<database, up, writable, pending, dispatch, restarts,
                 external, history>>

\* The risk engine denies a queued order: proof that nothing was sent.  A
\* responsibility already handed over keeps its state: the update is refused.
Deny(a) ==
  /\ Free
  /\ a \in queued \cap Orders
  /\ queued' = queued \ {a}
  /\ IF state[a] \in Unresolved
       THEN /\ state' = [state EXCEPT ![a] = "NOT_SUBMITTED"]
            /\ pending' = BarrierWithout({a})
       ELSE UNCHANGED <<state, pending>>
  /\ UNCHANGED <<lifecycle, runState, stopped, accountStopped, facts,
                 up, writable, dispatch, asking, restarts, inflight, venue, history>>

\* A rejection that proves nothing (no reason, timeout, not found) keeps the
\* action unresolved.
VenueResultUnknown(a) ==
  /\ Free
  /\ state[a] = "SUBMITTING"
  /\ state' = [state EXCEPT ![a] = "UNKNOWN"]
  /\ UNCHANGED <<lifecycle, runState, stopped, accountStopped, facts,
                 process, external, history>>

\* The responsibility loop finds the terminal fact an UNKNOWN cancel waits
\* for, whichever callback persisted it.
ReconcileCancel(c) ==
  /\ Free
  /\ c \in Cancels
  /\ lifecycle[Owner[c]] # "COMPLETED"
  /\ state[c] = "UNKNOWN"
  /\ TargetEnded(c)
  /\ state' = [state EXCEPT ![c] = "CLOSED"]
  /\ UNCHANGED <<lifecycle, runState, stopped, accountStopped, facts,
                 process, external, history>>

\* An OPEN order with a terminal status and complete fills is closed.  Whether
\* the fills are complete is arithmetic on quantities this module leaves out:
\* it closes whenever the code could.
CloseAction(a) ==
  /\ Free
  /\ state[a] = "OPEN"
  /\ "TERMINAL" \in facts[a]
  /\ state' = [state EXCEPT ![a] = "CLOSED"]
  /\ UNCHANGED <<lifecycle, runState, stopped, accountStopped, facts,
                 process, external, history>>

\* refresh_startup_recovery_state: responsibilities closed elsewhere leave the
\* barrier.
RefreshBarrier ==
  /\ Free
  /\ pending' = {a \in pending : state[a] \notin Terminal}
  /\ pending' # pending
  /\ UNCHANGED <<database, up, writable, dispatch, asking, restarts,
                 external, history>>

\* A persisted takeover hands over what is not confirmed open.
ApplyTakeover(p) ==
  /\ Free
  /\ lifecycle[p] = "USER_TAKEOVER"
  /\ \E a \in Of(p) : state[a] \in HandOver
  /\ state' = [a \in Actions |->
                 IF Owner[a] = p /\ state[a] \in HandOver
                   THEN "HANDED_OVER" ELSE state[a]]
  /\ overtaken' = overtaken \cup {a \in asking \cap Of(p) : state[a] \in HandOver}
  /\ UNCHANGED <<lifecycle, runState, stopped, accountStopped, facts,
                 process, external, calls, begun>>

\* Every action of the activation is terminal and the account evidence, which
\* this module leaves to the environment, is flat.  The transaction takes the
\* control lock; the only other holder in this session would be a dispatch,
\* which Free excludes.
CloseActivation(p) ==
  /\ Free
  /\ lifecycle[p] # "COMPLETED"
  /\ \E a \in Of(p) : state[a] # "ABSENT"
  /\ \A a \in Of(p) : state[a] \in Terminal \cup {"ABSENT"}
  /\ lifecycle' = [lifecycle EXCEPT ![p] = "COMPLETED"]
  /\ runState' = [runState EXCEPT ![p] = "ACTIVE"]
  /\ UNCHANGED <<stopped, accountStopped, state, facts,
                 process, external, history>>

\* disable_venue_mutations takes the lock CallOnce holds until its result is
\* persisted.
MaintenanceStop ==
  /\ up /\ writable
  /\ dispatch = Idle \/ dispatch.step = "PREPARED"
  /\ writable' = FALSE
  /\ UNCHANGED <<database, up, pending, dispatch, asking, restarts,
                 external, history>>

\* An unattributed venue fact stops new risk on the account.
ExternalActivity ==
  /\ Free
  /\ ~accountStopped
  /\ accountStopped' = TRUE
  /\ UNCHANGED <<lifecycle, runState, stopped, state, facts,
                 process, external, history>>

(***************************************************************************)
(* The Executor: death and restart.                                        *)
(***************************************************************************)

\* The process dies with its session lock, its permit and Nautilus's queue.
Crash ==
  /\ up
  /\ restarts < MaxRestarts
  /\ up' = FALSE
  /\ pending' = {}
  /\ dispatch' = Idle
  /\ queued' = {}
  /\ asking' = {}
  /\ begun' = {}
  /\ UNCHANGED <<database, writable, restarts, inflight, venue, calls, overtaken>>

\* Before Nautilus runs: activations with unfinished work are paused (those
\* whose entry window is over are not, and lose an earlier pause: a condition
\* of the plan's clock, left open here), SUBMITTING becomes UNKNOWN, and every
\* called identity that is not settled joins the barrier.  An OPEN action is
\* settled when its terminal fact is there and its fills are complete.
Restart ==
  /\ ~up
  /\ up' = TRUE
  /\ writable' = TRUE
  /\ restarts' = restarts + 1
  /\ \E over \in SUBSET {p \in Activations : lifecycle[p] = "RUNNING"} :
       runState' = [p \in Activations |->
         IF p \in over THEN "ACTIVE"
         ELSE IF /\ lifecycle[p] = "RUNNING"
                 /\ \E a \in Of(p) : state[a] # "ABSENT"
              THEN "PAUSED"
         ELSE runState[p]]
  /\ state' = [a \in Actions |-> Recovered(state[a])]
  /\ \E settled \in SUBSET {a \in Actions : /\ state[a] = "OPEN"
                                            /\ "TERMINAL" \in facts[a]} :
       pending' = {a \in Actions : state[a] \in CalledOpen} \ settled
  /\ UNCHANGED <<lifecycle, stopped, accountStopped, facts, dispatch, asking,
                 external, history>>

(***************************************************************************)
(* The App: owner controls, each one transaction under the dispatch lock.  *)
(***************************************************************************)

StopNewRisk(p) ==
  /\ Unlocked(p)
  /\ p \notin stopped
  /\ stopped' = stopped \cup {p}
  /\ UNCHANGED <<lifecycle, runState, accountStopped, state, facts,
                 process, external, history>>

ResumeActivation(p) ==
  /\ Unlocked(p)
  /\ runState[p] = "PAUSED"
  /\ lifecycle[p] = "RUNNING"
  /\ runState' = [runState EXCEPT ![p] = "ACTIVE"]
  /\ UNCHANGED <<lifecycle, stopped, accountStopped, state, facts,
                 process, external, history>>

\* An exit or takeover of an activation without venue responsibility completes
\* it in the same transaction.  has_entry_fill and pending_action_digest, which
\* forbid that too, are planning state: here either outcome may follow.
Lifecycles(p, entered) ==
  {entered} \cup (IF NoOpenResponsibility(p) THEN {"COMPLETED"} ELSE {})

ExitStrategy(p) ==
  /\ Unlocked(p)
  /\ lifecycle[p] \in {"RUNNING", "EXITING"}
  /\ \E l \in Lifecycles(p, "EXITING") :
       /\ lifecycle' = [lifecycle EXCEPT ![p] = l]
       /\ runState' = [runState EXCEPT ![p] = IF l = "COMPLETED"
                                                THEN "ACTIVE" ELSE @]
  /\ stopped' = stopped \cup {p}
  /\ UNCHANGED <<accountStopped, state, facts, process, external, history>>

UserTakeover(p) ==
  /\ Unlocked(p)
  /\ lifecycle[p] # "COMPLETED"
  /\ \E l \in Lifecycles(p, "USER_TAKEOVER") :
       /\ lifecycle' = [lifecycle EXCEPT ![p] = l]
       /\ runState' = [runState EXCEPT ![p] = IF l = "COMPLETED"
                                                THEN "ACTIVE" ELSE @]
  /\ UNCHANGED <<stopped, accountStopped, state, facts,
                 process, external, history>>

(***************************************************************************)
(* Nautilus and the venue (external).                                      *)
(***************************************************************************)

Transmit(a) ==
  /\ up
  /\ a \in queued
  /\ queued' = queued \ {a}
  /\ inflight' = inflight \cup {a}
  /\ UNCHANGED <<database, process, venue, history>>

\* A cancel whose order Nautilus does not hold as open never leaves it.
DropCancel(c) ==
  /\ up
  /\ c \in queued \cap Cancels
  /\ queued' = queued \ {c}
  /\ UNCHANGED <<database, process, inflight, venue, history>>

\* The request arrives: an order is accepted or rejected, a cancel ends a live
\* order or changes nothing.
Arrive(a) ==
  /\ a \in inflight
  /\ inflight' = inflight \ {a}
  /\ \/ /\ a \in Orders
        /\ \E f \in {"WORKING", "TERMINAL"} :
             venue' = [venue EXCEPT ![a] = @ \cup {f}]
     \/ /\ a \in Cancels
        /\ venue' = [venue EXCEPT ![Target[a]] =
                       IF Live(Target[a]) THEN @ \cup {"TERMINAL"} ELSE @]
  /\ UNCHANGED <<database, process, queued, history>>

Lose(a) ==
  /\ a \in inflight
  /\ inflight' = inflight \ {a}
  /\ UNCHANGED <<database, process, queued, venue, history>>

\* A live order fills, or ends (filled, expired, cancelled by hand).
Trade(a) ==
  /\ Live(a)
  /\ \E f \in {"FILL", "TERMINAL"} \ venue[a] :
       venue' = [venue EXCEPT ![a] = @ \cup {f}]
  /\ UNCHANGED <<database, process, queued, inflight, history>>

--------------------------------------------------------------------------------

Executor ==
  \/ \E a \in Actions :
       \/ Create(a) \/ RejectReady(a) \/ Prepare(a) \/ CapReject(a)
       \/ \E f \in FactKinds : Observe(a, f) \/ ApplyAnswer(a, f)
       \/ AskVenue(a) \/ EndQuery(a)
       \/ Deny(a) \/ VenueResultUnknown(a)
       \/ ReconcileCancel(a) \/ CloseAction(a)
  \/ Refuse \/ CallOnce \/ RecordUnknown \/ Abandon
  \/ RefreshBarrier \/ MaintenanceStop \/ ExternalActivity
  \/ \E p \in Activations : ApplyTakeover(p) \/ CloseActivation(p)
  \/ Crash \/ Restart

Controls ==
  \E p \in Activations :
    \/ StopNewRisk(p) \/ ResumeActivation(p)
    \/ ExitStrategy(p) \/ UserTakeover(p)

Environment ==
  \E a \in Actions :
    \/ Transmit(a) \/ DropCancel(a) \/ Arrive(a) \/ Lose(a) \/ Trade(a)

Next == Executor \/ Controls \/ Environment

Spec == Init /\ [][Next]_vars

(***************************************************************************)
(* Fairness: the Executor is restarted after a death, ends the dispatch it *)
(* is in, and its event loop and periodic responsibility loop (sync and    *)
(* retry_startup_recovery_queries, every ten seconds) run: an order the    *)
(* venue knows is reported, by the stream or by the answer to a query of   *)
(* its identity, facts and takeovers are applied, the barrier refreshed.   *)
(* Only called and open identities are queried, so a report that comes by  *)
(* itself is not counted on.  Nothing is assumed of the owner, of new      *)
(* proposals or of the wire.                                               *)
(***************************************************************************)
Fairness ==
  /\ WF_vars(Restart)
  /\ WF_vars(Refuse) /\ WF_vars(CallOnce) /\ WF_vars(RecordUnknown)
  /\ WF_vars(RefreshBarrier)
  /\ \A p \in Activations : WF_vars(ApplyTakeover(p))
  /\ \A a \in Actions :
       /\ \A f \in FactKinds :
            WF_vars(state[a] \in CalledOpen /\ Observe(a, f))
       /\ WF_vars(ReconcileCancel(a))

FairSpec == Spec /\ Fairness

(***************************************************************************)
(* Correctness.                                                            *)
(***************************************************************************)

\* Every variable has its type, and a dead process holds nothing.
TypeOK ==
  /\ lifecycle \in [Activations ->
                      {"RUNNING", "EXITING", "USER_TAKEOVER", "COMPLETED"}]
  /\ runState \in [Activations -> {"ACTIVE", "PAUSED"}]
  /\ stopped \in SUBSET Activations
  /\ accountStopped \in BOOLEAN
  /\ state \in [Actions -> ActionStates \cup {"ABSENT"}]
  /\ facts \in [Actions -> SUBSET FactKinds]
  /\ up \in BOOLEAN
  /\ writable \in BOOLEAN
  /\ pending \in SUBSET Actions
  /\ dispatch \in {Idle} \cup [step : {"PREPARED", "CALLED"}, action : Actions]
  /\ asking \in SUBSET Orders
  /\ restarts \in Nat
  /\ queued \in SUBSET Actions
  /\ inflight \in SUBSET Actions
  /\ venue \in [Actions -> SUBSET FactKinds]
  /\ calls \in [Actions -> Nat]
  /\ begun \in SUBSET Actions
  /\ overtaken \in SUBSET Actions
  /\ ~up => /\ pending = {} /\ dispatch = Idle /\ asking = {}
            /\ queued = {} /\ begun = {}

\* No action is handed to the client twice, whatever crashes between its
\* intent, its call and the record of the result (PersistedActionGate,
\* prepare_submission and the restart of SUBMITTING as UNKNOWN).
CallAtMostOnce == \A a \in Actions : calls[a] <= 1

\* A row that is missing, READY or NOT_SUBMITTED is proof that nothing of the
\* action is or will be outside the process: SUBMITTING commits before the
\* call, and only provable refusals end in NOT_SUBMITTED.
NoTraceWithoutIntent ==
  \A a \in Actions :
    state[a] \in {"ABSENT", "READY", "NOT_SUBMITTED"} =>
      /\ a \notin queued \cup inflight
      /\ venue[a] = {}

\* While an entry is dispatched, no identity called by an earlier process of
\* the same activation is still unresolved: the startup barrier is let go by
\* facts and terminal rows only.
RecoveryBarrier ==
  dispatch.step # "IDLE" =>
    \A b \in Of(Owner[dispatch.action]) :
      dispatch.action \in Entries /\ state[b] \in Unresolved => b \in begun

\* A call leaves only while the owner's decisions allow it: none after a
\* takeover or completion, and no new risk after a stop of the activation or
\* the account, an exit, or while the activation is paused.  The check is one
\* transaction earlier than the call; the dispatch lock, and an Executor that
\* runs nothing else meanwhile, keep it true.
MayCall(a) ==
  LET p == Owner[a] IN
  /\ lifecycle[p] \notin {"USER_TAKEOVER", "COMPLETED"}
  /\ a \in Entries =>
       /\ lifecycle[p] = "RUNNING" /\ runState[p] = "ACTIVE"
       /\ p \notin stopped /\ ~accountStopped

CallRespectsControl ==
  [][\A a \in Actions : calls'[a] > calls[a] => MayCall(a)]_vars

\* A CANCEL is closed by nothing but a persisted terminal fact of its target,
\* and is never OPEN: the venue has no identity of its own for it.
CancelRestsOnTarget ==
  \A c \in Cancels :
    /\ state[c] # "OPEN"
    /\ state[c] = "CLOSED" => "TERMINAL" \in facts[Target[c]]

\* When an activation is completed, by the responsibility loop or by an exit
\* or takeover without venue responsibility, none of its orders is at work,
\* queued or on the wire, except those a takeover handed to the user.
CompletedLeavesNoOrder ==
  \A a \in Orders :
    lifecycle[Owner[a]] = "COMPLETED" /\ state[a] # "HANDED_OVER" =>
      a \notin queued \cup inflight /\ ~Live(a)

\* A fill that turns up for an entry whose responsibility was handed over has
\* stopped new risk on the whole account in the transaction that recorded it.
\* The only exception the code leaves is a sync that was already asking about the
\* entry when the takeover handed it over: its answer is recorded without a stop.
\* No entry is asked about after its hand-over.
LateFillStopsAccount ==
  \A a \in Entries :
    state[a] = "HANDED_OVER" /\ "FILL" \in facts[a] =>
      accountStopped \/ a \in overtaken

\* The barrier lets go of every identity the venue reports.
BarrierIsReleased ==
  \A a \in Orders : (a \in pending /\ venue[a] # {}) ~> (a \notin pending)

(***************************************************************************)
(* The promise of EXE, implemented.                                        *)
(***************************************************************************)

ClaimOf(s) ==
  CASE s = "ABSENT"            -> "none"
    [] s = "READY"             -> "intended"
    [] s \in Unresolved        -> "possible"
    [] s = "NOT_SUBMITTED"     -> "absent"
    [] s \in {"OPEN", "CLOSED"} -> "known"
    [] OTHER                   -> "released"

Promise == INSTANCE SubmissionPromise WITH
  claim  <- [a \in Orders |-> ClaimOf(state[a])],
  called <- {a \in Orders : calls[a] > 0},
  exists <- {a \in Orders : venue[a] # {}}

\* The dispatch of orders keeps the promise of EXE.
KeepsPromise == Promise!Spec

================================================================================
