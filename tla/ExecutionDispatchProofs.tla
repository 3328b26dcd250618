------------------------ MODULE ExecutionDispatchProofs ------------------------
(***************************************************************************)
(* Theorems about ExecutionDispatch, for every set of activations and      *)
(* actions, every bound on restarts and every assignment of owners, kinds  *)
(* and targets its assumptions allow.                                      *)
(***************************************************************************)
EXTENDS ExecutionDispatch, TLAPS

(***************************************************************************)
(* Type correctness.                                                       *)
(***************************************************************************)

LEMMA TypeInit == Init => TypeOK
  <1> SUFFICES ASSUME Init PROVE TypeOK
    OBVIOUS
  <1>1. /\ lifecycle \in [Activations ->
                      {"RUNNING", "EXITING", "USER_TAKEOVER", "COMPLETED"}]
        /\ runState \in [Activations -> {"ACTIVE", "PAUSED"}]
    BY DEF Init
  <1>2. /\ stopped \in SUBSET Activations
        /\ accountStopped \in BOOLEAN
        /\ up \in BOOLEAN
        /\ writable \in BOOLEAN
        /\ restarts \in Nat
    BY DEF Init
  <1>3. /\ state \in [Actions -> ActionStates \cup {"ABSENT"}]
        /\ facts \in [Actions -> SUBSET FactKinds]
        /\ venue \in [Actions -> SUBSET FactKinds]
        /\ calls \in [Actions -> Nat]
    BY DEF Init
  <1> QED
    BY <1>1, <1>2, <1>3 DEF Init, TypeOK

LEMMA TypeStep == TypeOK /\ [Next]_vars => TypeOK'
  <1> SUFFICES ASSUME TypeOK, [Next]_vars PROVE TypeOK'
    OBVIOUS
  <1> USE DEF TypeOK, ActionStates, FactKinds, Free, database, process,
              external, history
  <1>1. ASSUME NEW a \in Actions, Create(a) \/ RejectReady(a) \/ CapReject(a)
        PROVE  TypeOK'
    BY <1>1 DEF Create, RejectReady, CapReject
  <1>15. ASSUME NEW a \in Actions, Prepare(a)
        PROVE  TypeOK'
    BY <1>15 DEF Prepare
  <1>2. ASSUME NEW a \in Actions, NEW f \in FactKinds, Observe(a, f)
        PROVE  TypeOK'
    BY <1>2 DEF Observe, RowsWith, Free, Recognised, BarrierWithout
  <1>16. ASSUME NEW a \in Actions, AskVenue(a) \/ EndQuery(a)
         PROVE  TypeOK'
    BY <1>16 DEF AskVenue, EndQuery
  <1>17. ASSUME NEW a \in Actions, NEW f \in FactKinds, ApplyAnswer(a, f)
         PROVE  TypeOK'
    BY <1>17 DEF ApplyAnswer, RowsWith, Recognised
  <1>3. ASSUME NEW a \in Actions, Deny(a) \/ VenueResultUnknown(a)
        PROVE  TypeOK'
    BY <1>3 DEF Deny, VenueResultUnknown, BarrierWithout
  <1>4. ASSUME NEW a \in Actions, ReconcileCancel(a) \/ CloseAction(a)
        PROVE  TypeOK'
    BY <1>4 DEF ReconcileCancel, CloseAction
  <1>5. CASE Refuse \/ RecordUnknown \/ Abandon
    BY <1>5 DEF Refuse, RecordUnknown, Abandon
  <1>6. CASE CallOnce
    <2>1. dispatch \in [step : {"PREPARED", "CALLED"}, action : Actions]
      BY <1>6 DEF CallOnce, Idle
    <2>2. dispatch' \in [step : {"PREPARED", "CALLED"}, action : Actions]
      BY <1>6, <2>1 DEF CallOnce
    <2>3. queued' \in SUBSET Actions /\ calls' \in [Actions -> Nat]
      BY <1>6, <2>1 DEF CallOnce
    <2> QED
      BY <1>6, <2>2, <2>3 DEF CallOnce
  <1>7. CASE RefreshBarrier \/ MaintenanceStop \/ ExternalActivity
    BY <1>7 DEF RefreshBarrier, MaintenanceStop, ExternalActivity
  <1>8. ASSUME NEW p \in Activations, ApplyTakeover(p) \/ CloseActivation(p)
        PROVE  TypeOK'
    <2>1. CASE ApplyTakeover(p)
      <3>1. overtaken' \in SUBSET Actions
        BY <2>1 DEF ApplyTakeover, Of
      <3> QED
        BY <2>1, <3>1 DEF ApplyTakeover
    <2>2. CASE CloseActivation(p)
      BY <2>2 DEF CloseActivation
    <2> QED
      BY <1>8, <2>1, <2>2
  <1>9. CASE Crash
    BY <1>9 DEF Crash
  <1>10. CASE Restart
    BY <1>10 DEF Restart, Recovered
  <1>11. ASSUME NEW p \in Activations, StopNewRisk(p) \/ ResumeActivation(p)
         PROVE  TypeOK'
    BY <1>11 DEF StopNewRisk, ResumeActivation
  <1>12. ASSUME NEW p \in Activations, ExitStrategy(p) \/ UserTakeover(p)
         PROVE  TypeOK'
    BY <1>12 DEF ExitStrategy, UserTakeover, Lifecycles
  <1>13. ASSUME NEW a \in Actions,
                Transmit(a) \/ DropCancel(a) \/ Arrive(a) \/ Lose(a) \/ Trade(a)
         PROVE  TypeOK'
    BY <1>13 DEF Transmit, DropCancel, Arrive, Lose, Trade, Orders
  <1>14. CASE UNCHANGED vars
    BY <1>14 DEF vars
  <1> QED
    BY <1>15, <1>16, <1>17, <1>1, <1>2, <1>3, <1>4, <1>5, <1>6, <1>7, <1>8, <1>9,
       <1>10, <1>11, <1>12, <1>13, <1>14 DEF Next, Executor, Controls, Environment

\* Every variable keeps its type, and a dead Executor holds no dispatch, no
\* barrier and no order queued in Nautilus.
THEOREM TypeCorrect == Spec => []TypeOK
  BY TypeInit, TypeStep, PTL DEF Spec

\* What a callback and the answer to a query have in common.
Recording(a, f) ==
  /\ a \in Orders
  /\ f \in venue[a]
  /\ \E new \in BOOLEAN : state' = RowsWith(a, Resolved(a, f, new))
  /\ facts' = [facts EXCEPT ![a] = @ \cup {f}]
  /\ UNCHANGED <<lifecycle, dispatch, asking, queued, inflight, venue, calls,
                 begun, overtaken>>

LEMMA RecordingOfFact ==
  ASSUME TypeOK, NEW a \in Actions, NEW f \in FactKinds,
         Observe(a, f) \/ ApplyAnswer(a, f)
  PROVE  Recording(a, f)
  <1> USE DEF Recording, process, external, history
  <1>1. CASE Observe(a, f)
    BY <1>1 DEF Observe
  <1>2. CASE ApplyAnswer(a, f)
    BY <1>2 DEF ApplyAnswer, TypeOK
  <1> QED
    BY <1>1, <1>2

(***************************************************************************)
(* A call follows its intent, at most once, and a negative state is a      *)
(* proof.  The two invariants are not inductive: they need where the       *)
(* running dispatch stands, that a row before its intent was never called, *)
(* and that an order leaves a trace in one place at a time.                *)
(***************************************************************************)

\* A row before its intent was never handed to the client.
UncalledBeforeIntent ==
  \A a \in Actions : state[a] \in {"ABSENT", "READY"} => calls[a] = 0

\* The action being dispatched has its intent, and is not called before its
\* one call.
DispatchHoldsIntent ==
  dispatch # Idle =>
    /\ dispatch.action \in Actions
    /\ dispatch.step \in {"PREPARED", "CALLED"}
    /\ state[dispatch.action] = "SUBMITTING"
    /\ dispatch.step = "PREPARED" => calls[dispatch.action] = 0

\* What was never called left no trace; an order is queued, on the wire or at
\* the venue, never in two of these places.
OneTrace ==
  \A a \in Actions :
    /\ calls[a] = 0 => a \notin queued \cup inflight /\ venue[a] = {}
    /\ a \in queued => a \notin inflight
    /\ a \in queued \cup inflight => venue[a] = {}

IntentInv ==
  /\ TypeOK
  /\ CallAtMostOnce
  /\ NoTraceWithoutIntent
  /\ UncalledBeforeIntent
  /\ DispatchHoldsIntent
  /\ OneTrace

\* What a dispatch in progress gives: a typed action in SUBMITTING.
LEMMA DispatchFacts ==
  ASSUME IntentInv, dispatch.step \in {"PREPARED", "CALLED"}
  PROVE  /\ dispatch # Idle
         /\ dispatch.action \in Actions
         /\ state[dispatch.action] = "SUBMITTING"
         /\ dispatch.step = "PREPARED" => calls[dispatch.action] = 0
  BY DEF IntentInv, DispatchHoldsIntent, Idle

LEMMA IntentInit == Init => IntentInv
  <1> SUFFICES ASSUME Init PROVE IntentInv
    OBVIOUS
  <1>1. TypeOK
    BY TypeInit
  <1>2. /\ CallAtMostOnce
        /\ NoTraceWithoutIntent
        /\ UncalledBeforeIntent
        /\ OneTrace
    BY DEF Init, CallAtMostOnce, NoTraceWithoutIntent, UncalledBeforeIntent,
           OneTrace
  <1>3. DispatchHoldsIntent
    BY DEF Init, DispatchHoldsIntent
  <1> QED
    BY <1>1, <1>2, <1>3 DEF IntentInv

LEMMA IntentStep == IntentInv /\ [Next]_vars => IntentInv'
  <1> SUFFICES ASSUME IntentInv, [Next]_vars PROVE IntentInv'
    OBVIOUS
  <1>t. TypeOK /\ TypeOK'
    BY TypeStep DEF IntentInv
  <1> DEFINE Rest == /\ CallAtMostOnce
                     /\ NoTraceWithoutIntent
                     /\ UncalledBeforeIntent
                     /\ DispatchHoldsIntent
                     /\ OneTrace
  <1>r. Rest
    BY DEF IntentInv
  <1>s. SUFFICES Rest'
    BY <1>t DEF IntentInv
  <1> USE DEF CallAtMostOnce, NoTraceWithoutIntent, UncalledBeforeIntent,
              DispatchHoldsIntent, OneTrace, database, process, external,
              history, Free
  <1>1. ASSUME NEW a \in Actions, Create(a) \/ RejectReady(a) \/ CapReject(a)
        PROVE  Rest'
    BY <1>1, <1>t, <1>r DEF Create, RejectReady, CapReject, TypeOK
  <1>2. ASSUME NEW a \in Actions, Prepare(a)
        PROVE  Rest'
    BY <1>2, <1>t, <1>r DEF Prepare, TypeOK
  <1>3. CASE Refuse
    <2> DEFINE d == dispatch.action
    <2>1. d \in Actions /\ state[d] = "SUBMITTING" /\ calls[d] = 0
      BY <1>3, DispatchFacts DEF Refuse
    <2>2. state' = [state EXCEPT ![d] = "NOT_SUBMITTED"] /\ dispatch' = Idle
      BY <1>3 DEF Refuse
    <2>3. UNCHANGED <<calls, queued, inflight, venue>>
      BY <1>3 DEF Refuse
    <2> QED
      BY <2>1, <2>2, <2>3, <1>t, <1>r DEF TypeOK, Idle
  <1>4. CASE CallOnce
    <2> DEFINE d == dispatch.action
    <2>1. d \in Actions /\ state[d] = "SUBMITTING" /\ calls[d] = 0
      BY <1>4, DispatchFacts DEF CallOnce
    <2>2. dispatch'.action = d /\ dispatch'.step = "CALLED"
      BY <1>4, <1>t DEF CallOnce, TypeOK, Idle
    <2>3. UNCHANGED <<state, inflight, venue>>
      BY <1>4 DEF CallOnce
    <2>4. \/ /\ queued' = queued \cup {d}
             /\ calls' = [calls EXCEPT ![d] = @ + 1]
          \/ UNCHANGED <<queued, calls>>
      BY <1>4 DEF CallOnce
    <2> QED
      BY <2>1, <2>2, <2>3, <2>4, <1>t, <1>r DEF TypeOK
  <1>5. CASE RecordUnknown \/ Abandon
    <2> DEFINE d == dispatch.action
    <2>1. dispatch' = Idle
      BY <1>5 DEF RecordUnknown, Abandon
    <2>2. \/ UNCHANGED state
          \/ d \in Actions /\ state' = [state EXCEPT ![d] = "UNKNOWN"]
      BY <1>5, DispatchFacts DEF RecordUnknown, Abandon
    <2>3. UNCHANGED <<calls, queued, inflight, venue>>
      BY <1>5 DEF RecordUnknown, Abandon
    <2> QED
      BY <2>1, <2>2, <2>3, <1>t, <1>r DEF TypeOK, Idle
  <1>6. ASSUME NEW a \in Actions, NEW f \in FactKinds,
               Observe(a, f) \/ ApplyAnswer(a, f)
        PROVE  Rest'
    <2>1. Recording(a, f)
      BY <1>6, <1>t, RecordingOfFact
    <2>2. dispatch = Idle
      BY <1>6 DEF Observe, ApplyAnswer
    <2> QED
      BY <2>1, <2>2, <1>t, <1>r
         DEF Recording, RowsWith, Resolved, OpenCancels, CalledOpen, Unresolved,
             Recognised, TypeOK
  <1>7. ASSUME NEW a \in Actions, Deny(a) \/ VenueResultUnknown(a)
        PROVE  Rest'
    BY <1>7, <1>t, <1>r DEF Deny, VenueResultUnknown, Unresolved, TypeOK
  <1>8. ASSUME NEW a \in Actions, ReconcileCancel(a) \/ CloseAction(a)
        PROVE  Rest'
    BY <1>8, <1>t, <1>r DEF ReconcileCancel, CloseAction, TypeOK
  <1>9. ASSUME NEW p \in Activations, ApplyTakeover(p)
        PROVE  Rest'
    BY <1>9, <1>t, <1>r DEF ApplyTakeover, HandOver, Unresolved, TypeOK
  <1>10. CASE Crash
    BY <1>10, <1>t, <1>r DEF Crash, TypeOK, Idle
  <1>11. CASE Restart
    <2>1. dispatch = Idle /\ dispatch' = Idle
      BY <1>11, <1>t DEF Restart, TypeOK
    <2> QED
      BY <1>11, <2>1, <1>t, <1>r DEF Restart, Recovered, TypeOK, Idle
  <1>12. ASSUME NEW a \in Actions,
                Transmit(a) \/ DropCancel(a) \/ Lose(a)
         PROVE  Rest'
    BY <1>12, <1>t, <1>r DEF Transmit, DropCancel, Lose, TypeOK
  <1>13. ASSUME NEW a \in Actions, Arrive(a)
         PROVE  Rest'
    BY <1>13, <1>t, <1>r, TargetAssumption DEF Arrive, Live, TypeOK
  <1>14. ASSUME NEW a \in Actions, Trade(a)
         PROVE  Rest'
    BY <1>14, <1>t, <1>r DEF Trade, Live, TypeOK
  <1>15. CASE UNCHANGED <<state, dispatch, calls, queued, inflight, venue>>
    BY <1>15, <1>r DEF Idle
  <1> QED
    BY <1>1, <1>2, <1>3, <1>4, <1>5, <1>6, <1>7, <1>8, <1>9, <1>10, <1>11,
       <1>12, <1>13, <1>14, <1>15
       DEF Next, Executor, Controls, Environment, RefreshBarrier,
           MaintenanceStop, ExternalActivity, CloseActivation, StopNewRisk,
           ResumeActivation, ExitStrategy, UserTakeover, AskVenue, EndQuery, vars

\* No action is handed to the client twice.
THEOREM CalledAtMostOnce == Spec => []CallAtMostOnce
  <1>1. IntentInv => CallAtMostOnce
    BY DEF IntentInv
  <1> QED
    BY <1>1, IntentInit, IntentStep, PTL DEF Spec

\* A row that is missing, READY or NOT_SUBMITTED leaves nothing outside.
THEOREM NegativeStatesAreProof == Spec => []NoTraceWithoutIntent
  <1>1. IntentInv => NoTraceWithoutIntent
    BY DEF IntentInv
  <1> QED
    BY <1>1, IntentInit, IntentStep, PTL DEF Spec

(***************************************************************************)
(* The startup barrier.  An unresolved row was begun by the running        *)
(* process or is in the barrier, and the barrier of the activation is      *)
(* empty while one of its entries is dispatched.                           *)
(***************************************************************************)

UnresolvedIsHeld ==
  up => \A b \in Actions : state[b] \in Unresolved => b \in begun \cup pending

BarrierIsClear ==
  dispatch # Idle /\ dispatch.action \in Entries =>
    \A b \in pending : Owner[b] # Owner[dispatch.action]

BarrierInv == IntentInv /\ UnresolvedIsHeld /\ BarrierIsClear

LEMMA BarrierInit == Init => BarrierInv
  <1> SUFFICES ASSUME Init PROVE BarrierInv
    OBVIOUS
  <1>1. IntentInv
    BY IntentInit
  <1>2. UnresolvedIsHeld
    BY DEF Init, UnresolvedIsHeld, Unresolved
  <1>3. BarrierIsClear
    BY DEF Init, BarrierIsClear
  <1> QED
    BY <1>1, <1>2, <1>3 DEF BarrierInv

LEMMA BarrierStep == BarrierInv /\ [Next]_vars => BarrierInv'
  <1> SUFFICES ASSUME BarrierInv, [Next]_vars PROVE BarrierInv'
    OBVIOUS
  <1>t. TypeOK /\ IntentInv /\ IntentInv'
    BY IntentStep DEF BarrierInv, IntentInv
  <1> DEFINE Rest == UnresolvedIsHeld /\ BarrierIsClear
  <1>r. Rest
    BY DEF BarrierInv
  <1>s. SUFFICES Rest'
    BY <1>t DEF BarrierInv
  <1> USE DEF UnresolvedIsHeld, BarrierIsClear, Unresolved, database, process,
              external, history, Free
  <1>1. ASSUME NEW a \in Actions, Create(a) \/ RejectReady(a) \/ CapReject(a)
        PROVE  Rest'
    BY <1>1, <1>t, <1>r DEF Create, RejectReady, CapReject, TypeOK
  <1>2. ASSUME NEW a \in Actions, Prepare(a)
        PROVE  Rest'
    BY <1>2, <1>t, <1>r DEF Prepare, AllowsSubmission, TypeOK
  <1>3. CASE Refuse
    BY <1>3, <1>t, <1>r, DispatchFacts DEF Refuse, Idle, TypeOK
  <1>4. CASE CallOnce
    <2>1. dispatch' # Idle => dispatch'.action = dispatch.action /\ dispatch # Idle
      BY <1>4, <1>t DEF CallOnce, TypeOK, Idle
    <2> QED
      BY <1>4, <2>1, <1>r DEF CallOnce, Entries
  <1>5. CASE RecordUnknown \/ Abandon
    <2>1. dispatch' = Idle
      BY <1>5 DEF RecordUnknown, Abandon
    <2>2. dispatch.action \in begun \cup pending \/ UNCHANGED state
      BY <1>5, <1>t, <1>r, DispatchFacts DEF RecordUnknown, Abandon, TypeOK
    <2> QED
      BY <1>5, <2>1, <2>2, <1>t, <1>r DEF RecordUnknown, Abandon, TypeOK, Idle
  <1>6. ASSUME NEW a \in Actions, NEW f \in FactKinds, Observe(a, f)
        PROVE  Rest'
    BY <1>6, <1>t, <1>r
       DEF Observe, RowsWith, Resolved, OpenCancels, CalledOpen, Recognised,
           BarrierWithout, Idle, TypeOK
  <1>14. ASSUME NEW a \in Actions, NEW f \in FactKinds, ApplyAnswer(a, f)
         PROVE  Rest'
    BY <1>14, <1>t, <1>r
       DEF ApplyAnswer, RowsWith, Resolved, OpenCancels, Recognised, TypeOK
  <1>7. ASSUME NEW a \in Actions, Deny(a) \/ VenueResultUnknown(a)
        PROVE  Rest'
    BY <1>7, <1>t, <1>r
       DEF Deny, VenueResultUnknown, BarrierWithout, Idle, TypeOK
  <1>8. ASSUME NEW a \in Actions, ReconcileCancel(a) \/ CloseAction(a)
        PROVE  Rest'
    BY <1>8, <1>t, <1>r DEF ReconcileCancel, CloseAction, TypeOK
  <1>9. ASSUME NEW p \in Activations, ApplyTakeover(p)
        PROVE  Rest'
    BY <1>9, <1>t, <1>r DEF ApplyTakeover, HandOver, TypeOK
  <1>10. CASE RefreshBarrier
    BY <1>10, <1>r DEF RefreshBarrier, Terminal, Idle
  <1>11. CASE Crash
    BY <1>11 DEF Crash, Idle
  <1>12. CASE Restart
    <2>1. dispatch' = Idle
      BY <1>12, <1>t DEF Restart, TypeOK
    <2>2. UnresolvedIsHeld'
      BY <1>12, <1>t DEF Restart, Recovered, CalledOpen, TypeOK
    <2> QED
      BY <2>1, <2>2 DEF Idle
  <1>13. CASE UNCHANGED <<up, state, begun, pending, dispatch>>
    BY <1>13, <1>r DEF Idle, Entries
  <1> QED
    BY <1>1, <1>2, <1>3, <1>4, <1>5, <1>6, <1>7, <1>8, <1>9, <1>10, <1>11,
       <1>12, <1>13, <1>14
       DEF Next, Executor, Controls, Environment, MaintenanceStop,
           ExternalActivity, CloseActivation, StopNewRisk, ResumeActivation,
           ExitStrategy, UserTakeover, Transmit, DropCancel, Arrive, Lose,
           Trade, AskVenue, EndQuery, vars

\* While an entry is dispatched, every unresolved identity of its activation
\* was begun by the running process.
THEOREM BarrierProtectsEntries == Spec => []RecoveryBarrier
  <1>1. BarrierInv => RecoveryBarrier
    BY DispatchFacts
       DEF BarrierInv, IntentInv, UnresolvedIsHeld, BarrierIsClear,
           RecoveryBarrier, Of, Idle, TypeOK
  <1> QED
    BY <1>1, BarrierInit, BarrierStep, PTL DEF Spec

(***************************************************************************)
(* The owner's decisions.  What CAP and the activation allowed when the    *)
(* intent was committed is still allowed when the call leaves.             *)
(***************************************************************************)

DispatchIsAllowed == dispatch # Idle => MayCall(dispatch.action)

ControlInv == IntentInv /\ DispatchIsAllowed

LEMMA ControlInit == Init => ControlInv
  BY IntentInit DEF Init, ControlInv, DispatchIsAllowed

LEMMA ControlStep == ControlInv /\ [Next]_vars => ControlInv'
  <1> SUFFICES ASSUME ControlInv, [Next]_vars PROVE ControlInv'
    OBVIOUS
  <1>t. TypeOK /\ IntentInv /\ IntentInv' /\ DispatchIsAllowed
    BY IntentStep DEF ControlInv, IntentInv
  <1>s. SUFFICES DispatchIsAllowed'
    BY <1>t DEF ControlInv
  <1> USE DEF DispatchIsAllowed, database, process, external, history, Free
  <1>1. ASSUME NEW a \in Actions, Prepare(a)
        PROVE  DispatchIsAllowed'
    BY <1>1 DEF Prepare, NotBlocked, CapAccepts, MayCall, Entries
  <1>2. CASE Refuse \/ RecordUnknown \/ Abandon \/ Crash
    BY <1>2 DEF Refuse, RecordUnknown, Abandon, Crash, Idle
  <1>3. CASE CallOnce
    <2>1. dispatch # Idle /\ dispatch'.action = dispatch.action
      BY <1>3, <1>t DEF CallOnce, TypeOK, Idle
    <2> QED
      BY <1>3, <2>1, <1>t DEF CallOnce, MayCall, Entries
  <1>4. ASSUME NEW p \in Activations,
               StopNewRisk(p) \/ ResumeActivation(p) \/ ExitStrategy(p)
                 \/ UserTakeover(p)
        PROVE  DispatchIsAllowed'
    <2>1. /\ UNCHANGED <<dispatch, accountStopped>>
          /\ stopped' \subseteq stopped \cup {p}
          /\ dispatch # Idle => Owner[dispatch.action] # p
      BY <1>4 DEF StopNewRisk, ResumeActivation, ExitStrategy, UserTakeover,
                  Unlocked
    <2>2. \A q \in Activations \ {p} :
            lifecycle'[q] = lifecycle[q] /\ runState'[q] = runState[q]
      BY <1>4, <1>t DEF StopNewRisk, ResumeActivation, ExitStrategy,
                        UserTakeover, TypeOK
    <2>3. ASSUME dispatch # Idle
          PROVE  Owner[dispatch.action] \in Activations \ {p}
      BY <2>1, <2>3, <1>t, OwnerAssumption
         DEF IntentInv, DispatchHoldsIntent
    <2> QED
      BY <2>1, <2>2, <2>3, <1>t DEF MayCall, Entries, Idle
  <1>5. CASE dispatch = Idle /\ dispatch' = dispatch
    BY <1>5 DEF Idle
  <1>6. CASE UNCHANGED <<lifecycle, runState, stopped, accountStopped, dispatch>>
    BY <1>6, <1>t DEF MayCall, Entries, Idle
  <1>7. Restart => dispatch = Idle /\ dispatch' = dispatch
    BY <1>t DEF Restart, TypeOK
  <1> QED
    BY <1>1, <1>2, <1>3, <1>4, <1>5, <1>6, <1>7
       DEF Next, Executor, Controls, Environment, Create, RejectReady,
           CapReject, Observe, AskVenue, ApplyAnswer, EndQuery, Deny,
           VenueResultUnknown, ReconcileCancel, CloseAction, RefreshBarrier, MaintenanceStop, ExternalActivity,
           ApplyTakeover, CloseActivation, Transmit, DropCancel, Arrive, Lose,
           Trade, vars

\* A call leaves only while the owner's decisions allow it.
THEOREM ControlsAreRespected == Spec => CallRespectsControl
  <1>1. ControlInv /\ [Next]_vars =>
          [\A a \in Actions : calls'[a] > calls[a] => MayCall(a)]_vars
    <2> SUFFICES ASSUME ControlInv, [Next]_vars,
                        NEW a \in Actions, calls'[a] > calls[a]
                 PROVE  MayCall(a)
      OBVIOUS
    <2>1. TypeOK
      BY DEF ControlInv, IntentInv
    <2>2. ASSUME UNCHANGED calls PROVE FALSE
      BY <2>1, <2>2 DEF TypeOK
    <2>3. CallOnce
      BY <2>2
         DEF Next, Executor, Controls, Environment, Create, RejectReady,
             Prepare, CapReject, Refuse, RecordUnknown, Abandon, Observe,
             AskVenue, ApplyAnswer, EndQuery,
             Deny, VenueResultUnknown, ReconcileCancel, CloseAction,
             RefreshBarrier, MaintenanceStop, ExternalActivity,
             ApplyTakeover, CloseActivation, Crash, Restart, StopNewRisk,
             ResumeActivation, ExitStrategy, UserTakeover, Transmit,
             DropCancel, Arrive, Lose, Trade, vars, history
    <2>4. a = dispatch.action
      BY <2>1, <2>3 DEF CallOnce, TypeOK
    <2>5. dispatch # Idle
      BY <2>3 DEF CallOnce, Idle
    <2> QED
      BY <2>4, <2>5 DEF ControlInv, DispatchIsAllowed
  <1> QED
    BY <1>1, ControlInit, ControlStep, PTL DEF Spec, CallRespectsControl

(***************************************************************************)
(* What facts prove.  Facts come from the venue, and a row with facts is   *)
(* confirmed or handed over.                                               *)
(***************************************************************************)

\* Facts are of orders, and were at the venue first.
FactsFromVenue == \A a \in Actions : facts[a] \subseteq venue[a]

\* A confirmed order exists at the venue, and one with facts was confirmed or
\* handed over before.
ConfirmedByVenue ==
  \A a \in Orders :
    /\ state[a] \in {"OPEN", "CLOSED"} => venue[a] # {}
    /\ facts[a] # {} => state[a] \in {"OPEN", "CLOSED", "HANDED_OVER"}

\* An entry handed over under a query is marked.
AskedIsOvertaken ==
  \A a \in asking : state[a] = "HANDED_OVER" => a \in overtaken

FactInv ==
  /\ IntentInv
  /\ FactsFromVenue
  /\ ConfirmedByVenue
  /\ CancelRestsOnTarget
  /\ LateFillStopsAccount
  /\ AskedIsOvertaken

LEMMA FactInit == Init => FactInv
  <1> SUFFICES ASSUME Init PROVE FactInv
    OBVIOUS
  <1>1. IntentInv
    BY IntentInit
  <1> QED
    BY <1>1, TargetAssumption
       DEF Init, FactInv, FactsFromVenue, ConfirmedByVenue,
           CancelRestsOnTarget, LateFillStopsAccount, AskedIsOvertaken,
           Orders, Cancels, Entries

LEMMA FactStep == FactInv /\ [Next]_vars => FactInv'
  <1> SUFFICES ASSUME FactInv, [Next]_vars PROVE FactInv'
    OBVIOUS
  <1>t. TypeOK /\ TypeOK' /\ IntentInv /\ IntentInv'
    BY IntentStep DEF FactInv, IntentInv
  <1> DEFINE Rest == /\ FactsFromVenue
                     /\ ConfirmedByVenue
                     /\ CancelRestsOnTarget
                     /\ LateFillStopsAccount
                     /\ AskedIsOvertaken
  <1>r. Rest
    BY DEF FactInv
  <1>s. SUFFICES Rest'
    BY <1>t DEF FactInv
  <1>k. \A a \in Actions : Target[a] \in Actions
    BY TargetAssumption
  <1> USE DEF FactsFromVenue, ConfirmedByVenue, CancelRestsOnTarget,
              LateFillStopsAccount, AskedIsOvertaken, database, process,
              external, history, Orders, Cancels, Entries
  <1>1. ASSUME NEW a \in Actions,
               Create(a) \/ RejectReady(a) \/ Prepare(a) \/ CapReject(a)
        PROVE  Rest'
    BY <1>1, <1>t, <1>r DEF Create, RejectReady, Prepare, CapReject, TypeOK
  <1>2. CASE Refuse \/ RecordUnknown
    <2> DEFINE d == dispatch.action
    <2>1. d \in Actions /\ state[d] = "SUBMITTING"
      BY <1>2, <1>t, DispatchFacts DEF Refuse, RecordUnknown
    <2>2. \E s \in {"NOT_SUBMITTED", "UNKNOWN"} :
            state' = [state EXCEPT ![d] = s]
      BY <1>2 DEF Refuse, RecordUnknown
    <2>3. UNCHANGED <<facts, venue, accountStopped, asking, overtaken>>
      BY <1>2 DEF Refuse, RecordUnknown
    <2> QED
      BY <2>1, <2>2, <2>3, <1>t, <1>r DEF TypeOK
  <1>3. ASSUME NEW a \in Actions, NEW f \in FactKinds,
               Observe(a, f) \/ ApplyAnswer(a, f)
        PROVE  Rest'
    <2>0. Recording(a, f)
      BY <1>3, <1>t, RecordingOfFact
    <2>1. PICK new \in BOOLEAN : state' = RowsWith(a, Resolved(a, f, new))
      BY <2>0 DEF Recording
    <2>2. /\ a \in Orders /\ f \in venue[a]
          /\ facts' = [facts EXCEPT ![a] = @ \cup {f}]
          /\ UNCHANGED <<venue, asking, overtaken>>
      BY <2>0 DEF Recording
    <2>3. \A c \in Resolved(a, f, new) :
            c \in Cancels /\ Target[c] = a /\ f = "TERMINAL"
      BY DEF Resolved, OpenCancels
    <2>4. /\ state[a] \notin {"ABSENT", "READY", "NOT_SUBMITTED"}
          /\ state'[a] = Recognised(state[a])
          /\ state'[a] \in {"OPEN", "CLOSED", "HANDED_OVER"}
      BY <2>1, <2>2, <2>3, <1>t
         DEF IntentInv, NoTraceWithoutIntent, RowsWith, Recognised, Unresolved,
             TypeOK, ActionStates
    <2>5. FactsFromVenue'
      BY <2>1, <2>2, <1>r, <1>t DEF TypeOK
    <2>6. ConfirmedByVenue'
      BY <2>1, <2>2, <2>3, <2>4, <1>r, <1>t DEF RowsWith, TypeOK
    <2>7. CancelRestsOnTarget'
      BY <2>1, <2>2, <2>3, <1>r, <1>t, <1>k DEF RowsWith, TypeOK
    <2>8. accountStopped => accountStopped'
      BY <1>3 DEF Observe, ApplyAnswer
    <2>9. \A b \in Orders : state'[b] = "HANDED_OVER" => state[b] = "HANDED_OVER"
      BY <2>1, <2>2, <1>t DEF RowsWith, Recognised, TypeOK
    <2>10. LateFillStopsAccount'
      <3> SUFFICES ASSUME NEW b \in Entries, state'[b] = "HANDED_OVER",
                          "FILL" \in facts'[b], b \notin overtaken
                   PROVE  accountStopped'
        BY <2>2
      <3>1. state[b] = "HANDED_OVER" /\ b \in Orders
        BY <2>9
      <3>2. CASE "FILL" \in facts[b]
        BY <3>1, <3>2, <2>8, <1>r
      <3>3. CASE "FILL" \notin facts[b]
        <4>1. b = a /\ f = "FILL"
          BY <3>3, <2>2, <1>t DEF TypeOK
        <4>2. ~ApplyAnswer(a, f)
          BY <3>1, <4>1, <1>r DEF ApplyAnswer
        <4>3. Late(Recognised(state[a]))
          BY <3>1, <4>1 DEF Recognised, Unresolved, Late
        <4> QED
          BY <1>3, <3>3, <4>1, <4>2, <4>3 DEF Observe
      <3> QED
        BY <3>2, <3>3
    <2>11. AskedIsOvertaken'
      BY <2>2, <2>9, <1>r, <1>t DEF TypeOK
    <2> QED
      BY <2>5, <2>6, <2>7, <2>10, <2>11
  <1>4. ASSUME NEW a \in Actions, Deny(a)
        PROVE  Rest'
    BY <1>4, <1>t, <1>r
       DEF Deny, IntentInv, OneTrace, Unresolved, TypeOK
  <1>5. ASSUME NEW a \in Actions, VenueResultUnknown(a)
        PROVE  Rest'
    BY <1>5, <1>t, <1>r DEF VenueResultUnknown, TypeOK
  <1>6. ASSUME NEW a \in Actions, ReconcileCancel(a) \/ CloseAction(a)
        PROVE  Rest'
    BY <1>6, <1>t, <1>r, <1>k
       DEF ReconcileCancel, CloseAction, TargetEnded, TypeOK
  <1>7. ASSUME NEW p \in Activations, ApplyTakeover(p)
        PROVE  Rest'
    <2>1. FactsFromVenue' /\ ConfirmedByVenue' /\ CancelRestsOnTarget'
      BY <1>7, <1>t, <1>r, SMTT(20)
         DEF ApplyTakeover, HandOver, Unresolved, TypeOK
    <2>2. LateFillStopsAccount'
      <3> SUFFICES ASSUME NEW b \in Entries, state'[b] = "HANDED_OVER",
                          "FILL" \in facts'[b]
                   PROVE  accountStopped' \/ b \in overtaken'
        OBVIOUS
      <3>1. facts' = facts /\ accountStopped' = accountStopped
        BY <1>7 DEF ApplyTakeover
      <3>2. state[b] \in {"OPEN", "CLOSED", "HANDED_OVER"}
        BY <3>1, <1>r
      <3>3. state[b] = "HANDED_OVER"
        BY <1>7, <1>t, <3>2 DEF ApplyTakeover, HandOver, Unresolved, TypeOK
      <3>4. overtaken \subseteq overtaken'
        BY <1>7 DEF ApplyTakeover
      <3> QED
        BY <3>1, <3>3, <3>4, <1>r
    <2>3. AskedIsOvertaken'
      BY <1>7, <1>t, <1>r DEF ApplyTakeover, Of, TypeOK
    <2> QED
      BY <2>1, <2>2, <2>3
  <1>11. ASSUME NEW a \in Actions, AskVenue(a)
         PROVE  Rest'
    BY <1>11, <1>t, <1>r DEF AskVenue, CalledOpen, Unresolved, TypeOK
  <1>8. CASE Restart
    BY <1>8, <1>t, <1>r DEF Restart, Recovered, TypeOK
  <1>9. ASSUME NEW a \in Actions, Arrive(a) \/ Trade(a)
        PROVE  Rest'
    <2>1. UNCHANGED <<state, facts, accountStopped, asking, overtaken>>
      BY <1>9 DEF Arrive, Trade
    <2>2. \A b \in Actions : venue[b] \subseteq venue'[b]
      BY <1>9, <1>t, <1>k DEF Arrive, Trade, TypeOK
    <2> QED
      BY <2>1, <2>2, <1>r
  <1>10. CASE /\ UNCHANGED <<state, facts, venue, overtaken>>
              /\ accountStopped => accountStopped'
              /\ asking' \subseteq asking
    BY <1>10, <1>r
  <1> QED
    BY <1>1, <1>2, <1>3, <1>4, <1>5, <1>6, <1>7, <1>8, <1>9, <1>10, <1>11
       DEF Next, Executor, Controls, Environment, CallOnce, Abandon,
           RefreshBarrier, MaintenanceStop, ExternalActivity, CloseActivation,
           Crash, StopNewRisk, ResumeActivation, ExitStrategy, UserTakeover,
           Transmit, DropCancel, Lose, EndQuery, vars

\* A CANCEL is closed only on a persisted terminal fact of its target.
THEOREM CancelsRestOnTargets == Spec => []CancelRestsOnTarget
  <1>1. FactInv => CancelRestsOnTarget
    BY DEF FactInv
  <1> QED
    BY <1>1, FactInit, FactStep, PTL DEF Spec

\* A fill of a handed-over entry has stopped new risk on the account, unless a sync
\* was asking about the entry when it was handed over.
THEOREM LateFillsStopAccount == Spec => []LateFillStopsAccount
  <1>1. FactInv => LateFillStopsAccount
    BY DEF FactInv
  <1> QED
    BY <1>1, FactInit, FactStep, PTL DEF Spec

(***************************************************************************)
(* The dispatch of orders implements SubmissionPromise: each step is a     *)
(* step of the promise about one order, the release of a set of orders, or *)
(* changes nothing the promise speaks of.                                  *)
(***************************************************************************)

claimed  == [o \in Orders |-> ClaimOf(state[o])]
called   == {o \in Orders : calls[o] > 0}
existing == {o \in Orders : venue[o] # {}}

LEMMA PromiseInit == Init => Promise!Init
  BY DEF Init, Promise!Init, ClaimOf, Unresolved, Orders

\* A step that gives action a the state t gives its order the claim of t.
LEMMA ClaimOfStep ==
  ASSUME TypeOK, NEW a \in Actions, NEW t,
         state' = [state EXCEPT ![a] = t]
  PROVE  /\ a \in Orders => claimed' = [claimed EXCEPT ![a] = ClaimOf(t)]
         /\ a \notin Orders => claimed' = claimed
         /\ ClaimOf(t) = ClaimOf(state[a]) => claimed' = claimed
  BY DEF TypeOK, claimed, Orders

\* The same for the order of an action whose trace does not change.
LEMMA PromiseOfRow ==
  ASSUME TypeOK, NEW a \in Actions, NEW t,
         state' = [state EXCEPT ![a] = t],
         UNCHANGED <<called, existing>>,
         \/ state[a] = "ABSENT" /\ t = "READY"
         \/ state[a] = "READY" /\ t = "SUBMITTING"
         \/ /\ state[a] \in {"READY", "SUBMITTING", "UNKNOWN"}
            /\ t = "NOT_SUBMITTED" /\ venue[a] = {}
         \/ state[a] \in Unresolved /\ t = "OPEN" /\ venue[a] # {}
         \/ ClaimOf(t) = ClaimOf(state[a])
  PROVE  Promise!Next \/ UNCHANGED <<claimed, called, existing>>
  <1>1. CASE a \notin Orders \/ ClaimOf(t) = ClaimOf(state[a])
    BY <1>1, ClaimOfStep
  <1>2. CASE a \in Orders /\ ClaimOf(t) # ClaimOf(state[a])
    <2>1. claimed' = [claimed EXCEPT ![a] = ClaimOf(t)]
      BY <1>2, ClaimOfStep
    <2>2. claimed[a] = ClaimOf(state[a])
      BY <1>2 DEF claimed
    <2>3. CASE state[a] = "ABSENT" /\ t = "READY"
      <3>1. Promise!Intend(a)
        BY <2>1, <2>2, <2>3
           DEF Promise!Intend, ClaimOf, Unresolved, claimed, called, existing
      <3> QED
        BY <3>1, <1>2 DEF Promise!Next
    <2>4. CASE state[a] = "READY" /\ t = "SUBMITTING"
      <3>1. Promise!Attempt(a)
        BY <2>1, <2>2, <2>4
           DEF Promise!Attempt, ClaimOf, Unresolved, claimed, called, existing
      <3> QED
        BY <3>1, <1>2 DEF Promise!Next
    <2>5. CASE /\ state[a] \in {"READY", "SUBMITTING", "UNKNOWN"}
               /\ t = "NOT_SUBMITTED" /\ venue[a] = {}
      <3>1. Promise!Exclude(a)
        BY <2>1, <2>2, <2>5
           DEF Promise!Exclude, ClaimOf, Unresolved, claimed, called, existing
      <3> QED
        BY <3>1, <1>2 DEF Promise!Next
    <2>6. CASE state[a] \in Unresolved /\ t = "OPEN" /\ venue[a] # {}
      <3>1. Promise!Recognise(a)
        BY <1>2, <2>1, <2>2, <2>6
           DEF Promise!Recognise, ClaimOf, Unresolved, claimed, called, existing
      <3> QED
        BY <3>1, <1>2 DEF Promise!Next
    <2> QED
      BY <1>2, <2>3, <2>4, <2>5, <2>6
  <1> QED
    BY <1>1, <1>2

LEMMA PromiseStep ==
  FactInv /\ [Next]_vars =>
    Promise!Next \/ UNCHANGED <<claimed, called, existing>>
  <1> SUFFICES ASSUME FactInv, [Next]_vars
               PROVE  Promise!Next \/ UNCHANGED <<claimed, called, existing>>
    OBVIOUS
  <1>t. TypeOK /\ IntentInv /\ NoTraceWithoutIntent /\ OneTrace
    BY DEF FactInv, IntentInv
  <1> USE DEF database, process, external, history
  <1>1. ASSUME NEW a \in Actions,
               \/ Create(a) \/ RejectReady(a) \/ Prepare(a) \/ CapReject(a)
               \/ VenueResultUnknown(a)
        PROVE  Promise!Next \/ UNCHANGED <<claimed, called, existing>>
    <2>1. UNCHANGED <<called, existing>>
      BY <1>1 DEF Create, RejectReady, Prepare, CapReject, VenueResultUnknown,
                  called, existing
    <2>2. CASE Create(a)
      BY <2>1, <2>2, <1>t, PromiseOfRow DEF Create
    <2>3. CASE RejectReady(a) \/ CapReject(a)
      <3>1. /\ state[a] = "READY" /\ venue[a] = {}
            /\ state' = [state EXCEPT ![a] = "NOT_SUBMITTED"]
        BY <2>3, <1>t DEF RejectReady, CapReject, NoTraceWithoutIntent
      <3> QED
        BY <3>1, <2>1, <1>t, PromiseOfRow
    <2>4. CASE Prepare(a)
      BY <2>1, <2>4, <1>t, PromiseOfRow DEF Prepare
    <2>5. CASE VenueResultUnknown(a)
      <3>1. ClaimOf("UNKNOWN") = ClaimOf(state[a])
        BY <2>5 DEF VenueResultUnknown, ClaimOf, Unresolved
      <3> QED
        BY <3>1, <2>1, <2>5, <1>t, PromiseOfRow DEF VenueResultUnknown
    <2> QED
      BY <1>1, <2>2, <2>3, <2>4, <2>5
  <1>2. CASE Refuse \/ RecordUnknown
    <2> DEFINE d == dispatch.action
    <2>1. d \in Actions /\ state[d] = "SUBMITTING"
      BY <1>2, <1>t, DispatchFacts DEF Refuse, RecordUnknown
    <2>2. UNCHANGED <<called, existing>>
      BY <1>2 DEF Refuse, RecordUnknown, called, existing
    <2>3. CASE Refuse
      <3>1. venue[d] = {}
        BY <2>1, <2>3, <1>t, DispatchFacts DEF Refuse, OneTrace
      <3> QED
        BY <3>1, <2>1, <2>2, <2>3, <1>t, PromiseOfRow DEF Refuse
    <2>4. CASE RecordUnknown
      <3>1. ClaimOf("UNKNOWN") = ClaimOf(state[d])
        BY <2>1 DEF ClaimOf, Unresolved
      <3> QED
        BY <3>1, <2>1, <2>2, <2>4, <1>t, PromiseOfRow DEF RecordUnknown
    <2> QED
      BY <1>2, <2>3, <2>4
  <1>3. CASE CallOnce
    <2> DEFINE d == dispatch.action
    <2>1. d \in Actions /\ state[d] = "SUBMITTING" /\ calls[d] = 0
      BY <1>3, <1>t, DispatchFacts DEF CallOnce
    <2>2. UNCHANGED <<claimed, existing>>
      BY <1>3 DEF CallOnce, claimed, existing
    <2>3. CASE UNCHANGED calls \/ d \notin Orders
      <3>1. UNCHANGED called
        BY <1>3, <2>3, <1>t DEF CallOnce, called, Orders, TypeOK
      <3> QED
        BY <3>1, <2>2
    <2>4. CASE calls' = [calls EXCEPT ![d] = @ + 1] /\ d \in Orders
      <3>1. called' = called \cup {d} /\ d \notin called
        BY <2>1, <2>4, <1>t DEF called, Orders, TypeOK
      <3>2. claimed[d] = "possible"
        BY <2>1, <2>4 DEF claimed, ClaimOf, Unresolved
      <3>3. \E o \in Orders : Promise!Call(o)
        BY <3>1, <3>2, <2>2, <2>4 DEF Promise!Call, claimed, called, existing
      <3> QED
        BY <3>3 DEF Promise!Next
    <2> QED
      BY <1>3, <2>3, <2>4 DEF CallOnce
  <1>4. ASSUME NEW a \in Actions, NEW f \in FactKinds,
               Observe(a, f) \/ ApplyAnswer(a, f)
        PROVE  Promise!Next \/ UNCHANGED <<claimed, called, existing>>
    <2>0. Recording(a, f)
      BY <1>4, <1>t, RecordingOfFact
    <2>1. a \in Orders /\ venue[a] # {} /\ UNCHANGED <<called, existing>>
      BY <2>0 DEF Recording, called, existing
    <2>2. PICK new \in BOOLEAN : state' = RowsWith(a, Resolved(a, f, new))
      BY <2>0 DEF Recording
    <2>3. \A b \in Orders : b \notin Resolved(a, f, new)
      BY DEF Resolved, OpenCancels, Orders
    <2>4. claimed' = [claimed EXCEPT ![a] = ClaimOf(Recognised(state[a]))]
      BY <2>1, <2>2, <2>3, <1>t DEF RowsWith, claimed, Orders, TypeOK
    <2>5. CASE state[a] \in Unresolved
      <3>1. /\ claimed[a] = "possible"
            /\ claimed' = [claimed EXCEPT ![a] = "known"]
        BY <2>1, <2>4, <2>5 DEF claimed, ClaimOf, Recognised, Unresolved
      <3>2. Promise!Recognise(a)
        BY <2>1, <3>1 DEF Promise!Recognise, claimed, called, existing
      <3> QED
        BY <2>1, <3>2 DEF Promise!Next
    <2>6. CASE state[a] \notin Unresolved
      BY <2>1, <2>4, <2>6 DEF claimed, Recognised
    <2> QED
      BY <2>5, <2>6
  <1>5. ASSUME NEW a \in Actions, Deny(a)
        PROVE  Promise!Next \/ UNCHANGED <<claimed, called, existing>>
    <2>1. venue[a] = {} /\ UNCHANGED <<called, existing>>
      BY <1>5, <1>t DEF Deny, OneTrace, called, existing
    <2>2. CASE state[a] \in Unresolved
      BY <1>5, <2>1, <2>2, <1>t, PromiseOfRow DEF Deny, Unresolved
    <2>3. CASE state[a] \notin Unresolved
      BY <1>5, <2>1, <2>3 DEF Deny, claimed
    <2> QED
      BY <2>2, <2>3
  <1>6. ASSUME NEW a \in Actions, ReconcileCancel(a) \/ CloseAction(a)
        PROVE  Promise!Next \/ UNCHANGED <<claimed, called, existing>>
    <2>1. UNCHANGED <<called, existing>>
      BY <1>6 DEF ReconcileCancel, CloseAction, called, existing
    <2>2. CASE ReconcileCancel(a)
      <3>1. a \notin Orders
        BY <2>2 DEF ReconcileCancel, Orders
      <3> QED
        BY <3>1, <2>1, <2>2, <1>t, ClaimOfStep DEF ReconcileCancel
    <2>3. CASE CloseAction(a)
      <3>1. ClaimOf("CLOSED") = ClaimOf(state[a])
        BY <2>3 DEF CloseAction, ClaimOf, Unresolved
      <3> QED
        BY <3>1, <2>1, <2>3, <1>t, PromiseOfRow DEF CloseAction
    <2> QED
      BY <1>6, <2>2, <2>3
  <1>7. ASSUME NEW p \in Activations, ApplyTakeover(p)
        PROVE  Promise!Next \/ UNCHANGED <<claimed, called, existing>>
    <2> DEFINE S == {o \in Orders : Owner[o] = p /\ state[o] \in HandOver}
    <2>1. UNCHANGED <<called, existing>>
      BY <1>7 DEF ApplyTakeover, called, existing
    <2>2. \A o \in S : claimed[o] \in {"intended", "possible"}
      BY DEF claimed, ClaimOf, HandOver, Unresolved
    <2>3. claimed' = [o \in Orders |-> IF o \in S THEN "released"
                                        ELSE claimed[o]]
      BY <1>7, <1>t
         DEF ApplyTakeover, claimed, ClaimOf, Orders, Unresolved, TypeOK
    <2>4. Promise!Release(S)
      BY <2>1, <2>2, <2>3 DEF Promise!Release, claimed, called, existing
    <2> QED
      BY <2>4 DEF Promise!Next
  <1>8. CASE Restart
    BY <1>8, <1>t
       DEF Restart, Recovered, claimed, called, existing, ClaimOf, Unresolved,
           Orders, TypeOK
  <1>9. ASSUME NEW a \in Actions, Arrive(a)
        PROVE  Promise!Next \/ UNCHANGED <<claimed, called, existing>>
    <2>1. UNCHANGED <<claimed, called>>
      BY <1>9 DEF Arrive, claimed, called
    <2>2. CASE a \in Orders
      <3>1. existing' = existing \cup {a}
        BY <1>9, <2>2, <1>t DEF Arrive, existing, Orders, TypeOK
      <3>2. /\ venue[a] = {} /\ calls[a] # 0
            /\ state[a] \notin {"ABSENT", "READY", "NOT_SUBMITTED"}
        BY <1>9, <1>t DEF Arrive, OneTrace, NoTraceWithoutIntent
      <3>3. state[a] \in Unresolved \cup {"HANDED_OVER"}
        BY <3>2, <2>2, <1>t
           DEF FactInv, ConfirmedByVenue, TypeOK, ActionStates, Unresolved
      <3>4. a \in called \ existing
        BY <2>2, <3>2, <1>t DEF called, existing, TypeOK
      <3>5. claimed[a] \in {"possible", "released"}
        BY <2>2, <3>3 DEF claimed, ClaimOf, Unresolved
      <3>6. Promise!Appear(a)
        BY <2>1, <3>1, <3>4, <3>5
           DEF Promise!Appear, claimed, called, existing
      <3> QED
        BY <2>2, <3>6 DEF Promise!Next
    <2>3. CASE a \notin Orders
      <3>1. UNCHANGED existing
        BY <1>9, <2>3, <1>t, TargetAssumption
           DEF Arrive, Live, existing, Orders, TypeOK
      <3> QED
        BY <2>1, <3>1
    <2> QED
      BY <2>2, <2>3
  <1>10. ASSUME NEW a \in Actions, Trade(a)
         PROVE  UNCHANGED <<claimed, called, existing>>
    BY <1>10, <1>t DEF Trade, Live, claimed, called, existing, Orders, TypeOK
  <1>11. CASE UNCHANGED <<state, calls, venue>>
    BY <1>11 DEF claimed, called, existing
  <1> QED
    BY <1>1, <1>2, <1>3, <1>4, <1>5, <1>6, <1>7, <1>8, <1>9, <1>10, <1>11
       DEF Next, Executor, Controls, Environment, Abandon, RefreshBarrier,
           MaintenanceStop, ExternalActivity, CloseActivation, Crash,
           StopNewRisk, ResumeActivation, ExitStrategy, UserTakeover,
           Transmit, DropCancel, Lose, AskVenue, EndQuery, vars

\* What Halpha claims of its orders, across crashes, late reports and a
\* takeover, is the promise of EXE.
THEOREM DispatchKeepsPromise == Spec => KeepsPromise
  <1>1. FactInv /\ [Next]_vars => [Promise!Next]_(Promise!vars)
    BY PromiseStep DEF Promise!vars, claimed, called, existing
  <1> QED
    BY <1>1, PromiseInit, FactInit, FactStep, PTL
       DEF Spec, KeepsPromise, Promise!Spec

(***************************************************************************)
(* Completion.  An activation is completed only when nothing of it is      *)
(* called and open, nothing of it is called afterwards, and a closed order *)
(* has ended at the venue.                                                 *)
(***************************************************************************)

ClosedHasEnded == \A a \in Orders : state[a] = "CLOSED" => "TERMINAL" \in facts[a]

CompletedIsSettled ==
  \A a \in Actions :
    lifecycle[Owner[a]] = "COMPLETED" => state[a] \notin CalledOpen

CompletionInv == FactInv /\ ClosedHasEnded /\ CompletedIsSettled

LEMMA CompletionInit == Init => CompletionInv
  BY FactInit, OwnerAssumption
     DEF Init, CompletionInv, ClosedHasEnded, CompletedIsSettled, Orders

LEMMA CompletionStep == CompletionInv /\ [Next]_vars => CompletionInv'
  <1> SUFFICES ASSUME CompletionInv, [Next]_vars PROVE CompletionInv'
    OBVIOUS
  <1>t. TypeOK /\ IntentInv /\ FactInv /\ FactInv'
    BY FactStep DEF CompletionInv, FactInv, IntentInv
  <1> DEFINE Rest == ClosedHasEnded /\ CompletedIsSettled
  <1>r. Rest
    BY DEF CompletionInv
  <1>s. SUFFICES Rest'
    BY <1>t DEF CompletionInv
  <1>k. \A a \in Actions : Owner[a] \in Activations
    BY OwnerAssumption
  <1> USE DEF ClosedHasEnded, CompletedIsSettled, CalledOpen, Unresolved,
              database, process, external, history, Orders
  <1>1. ASSUME NEW a \in Actions, Create(a) \/ RejectReady(a) \/ CapReject(a)
        PROVE  Rest'
    BY <1>1, <1>t, <1>r DEF Create, RejectReady, CapReject, TypeOK
  <1>2. ASSUME NEW a \in Actions, Prepare(a)
        PROVE  Rest'
    BY <1>2, <1>t, <1>r DEF Prepare, NotBlocked, TypeOK
  <1>3. CASE Refuse \/ RecordUnknown
    <2> DEFINE d == dispatch.action
    <2>1. d \in Actions /\ state[d] = "SUBMITTING"
      BY <1>3, <1>t, DispatchFacts DEF Refuse, RecordUnknown
    <2>2. \E s \in {"NOT_SUBMITTED", "UNKNOWN"} :
            state' = [state EXCEPT ![d] = s]
      BY <1>3 DEF Refuse, RecordUnknown
    <2>3. UNCHANGED <<facts, lifecycle>>
      BY <1>3 DEF Refuse, RecordUnknown
    <2> QED
      BY <2>1, <2>2, <2>3, <1>t, <1>r DEF TypeOK
  <1>4. ASSUME NEW a \in Actions, NEW f \in FactKinds,
               Observe(a, f) \/ ApplyAnswer(a, f)
        PROVE  Rest'
    <2>0. Recording(a, f)
      BY <1>4, <1>t, RecordingOfFact
    <2>1. PICK new \in BOOLEAN : state' = RowsWith(a, Resolved(a, f, new))
      BY <2>0 DEF Recording
    <2>2. /\ facts' = [facts EXCEPT ![a] = @ \cup {f}]
          /\ UNCHANGED lifecycle
      BY <2>0 DEF Recording
    <2>3. Resolved(a, f, new) \subseteq Cancels
      BY DEF Resolved, OpenCancels
    <2>4. ClosedHasEnded'
      BY <2>1, <2>2, <2>3, <1>t, <1>r DEF RowsWith, Recognised, TypeOK
    <2>5. CompletedIsSettled'
      BY <2>1, <2>2, <1>t, <1>r DEF RowsWith, Recognised, TypeOK
    <2> QED
      BY <2>4, <2>5
  <1>5. ASSUME NEW a \in Actions, Deny(a) \/ VenueResultUnknown(a)
        PROVE  Rest'
    BY <1>5, <1>t, <1>r DEF Deny, VenueResultUnknown, TypeOK
  <1>6. ASSUME NEW a \in Actions, ReconcileCancel(a) \/ CloseAction(a)
        PROVE  Rest'
    BY <1>6, <1>t, <1>r DEF ReconcileCancel, CloseAction, TypeOK
  <1>7. ASSUME NEW p \in Activations, ApplyTakeover(p)
        PROVE  Rest'
    BY <1>7, <1>t, <1>r DEF ApplyTakeover, TypeOK
  <1>8. ASSUME NEW p \in Activations, CloseActivation(p)
        PROVE  Rest'
    BY <1>8, <1>t, <1>r, <1>k DEF CloseActivation, Of, Terminal, TypeOK
  <1>9. CASE Restart
    BY <1>9, <1>t, <1>r DEF Restart, Recovered, TypeOK
  <1>10. ASSUME NEW p \in Activations, ExitStrategy(p) \/ UserTakeover(p)
         PROVE  Rest'
    BY <1>10, <1>t, <1>r, <1>k
       DEF ExitStrategy, UserTakeover, Lifecycles, NoOpenResponsibility, Of,
           TypeOK
  <1>11. CASE UNCHANGED <<state, facts, lifecycle>>
    BY <1>11, <1>r
  <1> QED
    BY <1>1, <1>2, <1>3, <1>4, <1>5, <1>6, <1>7, <1>8, <1>9, <1>10, <1>11
       DEF Next, Executor, Controls, Environment, CallOnce, Abandon,
           RefreshBarrier, MaintenanceStop, ExternalActivity, Crash,
           StopNewRisk, ResumeActivation, Transmit, DropCancel, Arrive, Lose,
           Trade, AskVenue, EndQuery, vars

\* A completed activation has no order at work, queued or on the wire, except
\* those a takeover handed to the user.
THEOREM CompletionLeavesNoOrder == Spec => []CompletedLeavesNoOrder
  <1>1. CompletionInv => CompletedLeavesNoOrder
    <2> SUFFICES ASSUME CompletionInv, NEW a \in Orders,
                        lifecycle[Owner[a]] = "COMPLETED",
                        state[a] # "HANDED_OVER"
                 PROVE  a \notin queued \cup inflight /\ ~Live(a)
      BY DEF CompletedLeavesNoOrder
    <2>1. /\ a \in Actions /\ TypeOK /\ NoTraceWithoutIntent /\ OneTrace
          /\ FactsFromVenue
      BY DEF CompletionInv, FactInv, IntentInv, Orders
    <2>2. state[a] \in {"ABSENT", "READY", "NOT_SUBMITTED", "CLOSED"}
      BY <2>1 DEF CompletionInv, CompletedIsSettled, CalledOpen, Unresolved,
                  TypeOK, ActionStates
    <2>3. CASE state[a] = "CLOSED"
      BY <2>1, <2>3 DEF CompletionInv, ClosedHasEnded, FactsFromVenue,
                        OneTrace, Live
    <2>4. CASE state[a] # "CLOSED"
      BY <2>1, <2>2, <2>4 DEF NoTraceWithoutIntent, Live
    <2> QED
      BY <2>3, <2>4
  <1> QED
    BY <1>1, CompletionInit, CompletionStep, PTL DEF Spec

================================================================================
