------------------------ MODULE ActivationControlProofs ------------------------
(***************************************************************************)
(* Theorems about ActivationControl, for every set of keys and commands    *)
(* and any number of losses.                                               *)
(***************************************************************************)
EXTENDS ActivationControl, TLAPS

USE DEF clock

(***************************************************************************)
(* Type correctness.                                                       *)
(***************************************************************************)

LEMMA TypeInit == Init => TypeOK
  <1> SUFFICES ASSUME Init PROVE TypeOK
    OBVIOUS
  <1>1. 0 \in 0..MaxLosses /\ 1 \in Nat \ {0}
    BY MaxLossesAssumption
  <1>2. Open \in [by : {"NONE", "CONTROL", "EXECUTION"}, handover : Keys \cup {None}]
    BY DEF Open
  <1>3. plan \in Plan
    BY <1>1, <1>2, Zenon DEF Init, Plan
  <1>4. /\ plan.run = "ACTIVE" /\ plan.pausedIn = 0 /\ plan.lifecycle = "RUNNING"
        /\ plan.closure.by = "NONE"
    BY DEF Init, Open
  <1>5. WellFormed(plan)
    BY <1>3, <1>4 DEF WellFormed
  <1> QED
    BY <1>1, <1>5 DEF Init, TypeOK, NoSnapshot, NoRequest

LEMMA VersionNext ==
  ASSUME NEW p \in Plan
  PROVE  p.version + 1 \in Nat \ {0}
  BY DEF Plan

\* What the projections of the row preserve.
LEMMA CompletedForm ==
  ASSUME NEW p, WellFormed(p), NEW by \in {"CONTROL", "EXECUTION"},
         NEW handover \in Keys \cup {None}
  PROVE  WellFormed(Completed(p, by, handover))
  <1> DEFINE q == Completed(p, by, handover)
  <1>1. p \in Plan /\ p.version + 1 \in Nat \ {0} /\ 0 \in 0..MaxLosses
    BY VersionNext, MaxLossesAssumption DEF WellFormed
  <1>2. [by |-> by, handover |-> handover] \in
          [by : {"NONE", "CONTROL", "EXECUTION"}, handover : Keys \cup {None}]
    OBVIOUS
  <1>3. q \in Plan
    BY <1>1, <1>2, Zenon DEF Plan, Completed
  <1>4. /\ q.run = "ACTIVE" /\ q.pausedIn = 0
        /\ q.lifecycle = "COMPLETED" /\ q.closure.by = by
    BY <1>1, Zenon DEF Completed, Plan
  <1> QED
    BY <1>3, <1>4 DEF WellFormed

LEMMA CompletedIfNoneForm ==
  ASSUME NEW p, WellFormed(p), NEW k \in Keys
  PROVE  WellFormed(CompletedIfNone(p, k))
  BY CompletedForm DEF CompletedIfNone

LEMMA ExitedForm ==
  ASSUME NEW p, WellFormed(p), ~Final(p)
  PROVE  WellFormed(Exited(p))
  <1>1. CASE p.lifecycle = "EXITING"
    BY <1>1 DEF Exited
  <1>2. CASE p.lifecycle # "EXITING"
    <2> DEFINE q == Exited(p)
    <2>1. p \in Plan /\ p.version + 1 \in Nat \ {0}
      BY VersionNext DEF WellFormed
    <2>2. q \in Plan
      BY <1>2, <2>1, Zenon DEF Plan, Exited
    <2>3. /\ q.lifecycle = "EXITING" /\ q.run = p.run /\ q.pausedIn = p.pausedIn
          /\ q.closure = p.closure
      BY <1>2, <2>1, Zenon DEF Exited, Plan
    <2> QED
      BY <2>2, <2>3 DEF WellFormed, Final
  <1> QED
    BY <1>1, <1>2
LEMMA TakenOverForm ==
  ASSUME NEW p, WellFormed(p), p.lifecycle # "COMPLETED", NEW k \in Keys
  PROVE  WellFormed(TakenOver(p, k))
  <1>1. CASE p.lifecycle = "USER_TAKEOVER"
    BY <1>1 DEF TakenOver
  <1>2. CASE p.lifecycle # "USER_TAKEOVER"
    <2> DEFINE q == TakenOver(p, k)
    <2>1. p \in Plan /\ p.version + 1 \in Nat \ {0}
      BY VersionNext DEF WellFormed
    <2>2. q \in Plan
      BY <1>2, <2>1, Zenon DEF Plan, TakenOver
    <2>3. /\ q.lifecycle = "USER_TAKEOVER" /\ q.run = p.run /\ q.pausedIn = p.pausedIn
          /\ q.closure = p.closure /\ q.takenBy = k
      BY <1>2, <2>1, Zenon DEF TakenOver, Plan
    <2> QED
      BY <2>2, <2>3 DEF WellFormed
  <1> QED
    BY <1>1, <1>2

LEMMA ResumedForm ==
  ASSUME NEW p, WellFormed(p), NEW k \in Keys
  PROVE  WellFormed(Resumed(p, k))
  <1>1. CASE p.run = "ACTIVE"
    BY <1>1 DEF Resumed
  <1>2. CASE p.run # "ACTIVE"
    <2> DEFINE q == Resumed(p, k)
    <2>1. p \in Plan /\ p.version + 1 \in Nat \ {0} /\ 0 \in 0..MaxLosses
      BY VersionNext, MaxLossesAssumption DEF WellFormed
    <2>2. q \in Plan
      BY <1>2, <2>1, Zenon DEF Plan, Resumed
    <2>3. /\ q.lifecycle = p.lifecycle /\ q.run = "ACTIVE" /\ q.pausedIn = 0
          /\ q.closure = p.closure /\ q.takenBy = p.takenBy
      BY <1>2, <2>1, Zenon DEF Resumed, Plan
    <2> QED
      BY <2>2, <2>3 DEF WellFormed
  <1> QED
    BY <1>1, <1>2

\* The request of one key, updated.
LEMMA RequestForm ==
  ASSUME TypeOK, NEW k \in Keys, NEW intent, Decides(k, intent)
  PROVE  /\ request' \in [Keys -> [step : {"NONE", "SENT", "PROVEN", "ENDED"},
                                   proof : 0..MaxLosses]]
         /\ UNCHANGED <<exposure, ended, fact, entry, order, position, executor,
                        losses, late, loop, command>>
  BY DEF TypeOK, Decides, venue

LEMMA TypeOwner ==
  ASSUME TypeOK, NEW k \in Keys, OwnerStep(k)
  PROVE  TypeOK'
  <1> USE DEF TypeOK
  <1>1. CASE Ask(k)
    <2>1. plan.version \in Nat \ {0}
      BY DEF WellFormed, Plan
    <2> QED
      BY <1>1, <2>1, MaxLossesAssumption DEF Ask, rows, venue, NoRequest
  <1>2. CASE Retry(k)
    BY <1>2, MaxLossesAssumption DEF Retry, rows, venue, NoRequest
  <1>3. CASE ReadProof(k)
    BY <1>3, MaxLossesAssumption DEF ReadProof, rows, venue
  <1>4. CASE StopNewRisk(k)
    BY <1>4, RequestForm DEF StopNewRisk, Fresh, Answered
  <1>5. CASE ResumeActivation(k)
    BY <1>5, RequestForm, ResumedForm DEF ResumeActivation, Fresh, Answered
  <1>6. CASE RejectResume(k)
    BY <1>6, RequestForm DEF RejectResume, Fresh, Answered
  <1>7. CASE ExitStrategy(k)
    BY <1>7, RequestForm, ExitedForm, CompletedIfNoneForm
    DEF ExitStrategy, Fresh, Answered
  <1>8. CASE UserTakeover(k)
    BY <1>8, RequestForm, TakenOverForm, CompletedIfNoneForm
    DEF UserTakeover, Fresh, Answered
  <1>9. CASE RejectVersion(k)
    BY <1>9, RequestForm DEF RejectVersion, Answered
  <1>10. CASE AnswerOnly(k)
    BY <1>10, RequestForm DEF AnswerOnly
  <1> QED
    BY <1>1, <1>2, <1>3, <1>4, <1>5, <1>6, <1>7, <1>8, <1>9, <1>10 DEF OwnerStep

LEMMA TouchedForm ==
  ASSUME TypeOK, Touched
  PROVE  fact' \in [in : 0..MaxLosses, quiet : BOOLEAN]
  BY DEF TypeOK, Touched

LEMMA TypeExecutor ==
  ASSUME TypeOK, ExecutorStep
  PROVE  TypeOK'
  <1> USE DEF TypeOK
  <1>0. plan \in Plan /\ plan.version + 1 \in Nat \ {0} /\ 0 \in 0..MaxLosses
    BY VersionNext, MaxLossesAssumption DEF WellFormed
  <1>1. CASE CreateEntry
    BY <1>1, TouchedForm DEF CreateEntry, owner
  <1>2. CASE DispatchEntry
    BY <1>2, TouchedForm DEF DispatchEntry, owner
  <1>3. CASE RejectEntry
    BY <1>3, TouchedForm DEF RejectEntry, owner, venue
  <1>4. CASE Recognise
    BY <1>4, TouchedForm DEF Recognise, Opened, owner, venue
  <1>5. CASE RecordFill
    BY <1>5, TouchedForm DEF RecordFill, Opened, owner, venue
  <1>6. CASE RecordEnd
    BY <1>6, TouchedForm DEF RecordEnd, Opened, owner, venue
  <1>7. CASE ProtectFill
    <2>1. plan.version + 2 \in Nat \ {0}
      BY <1>0 DEF Plan
    <2>2. plan' \in Plan
      BY <1>0, <1>7, <2>1, Zenon DEF ProtectFill, Plan
    <2>3. /\ plan'.lifecycle = plan.lifecycle /\ plan'.run = plan.run
          /\ plan'.pausedIn = plan.pausedIn /\ plan'.closure = plan.closure
          /\ plan'.takenBy = plan.takenBy
      BY <1>0, <1>7, Zenon DEF ProtectFill, Plan
    <2>4. WellFormed(plan')
      BY <2>2, <2>3 DEF WellFormed
    <2> QED
      BY <1>7, <2>4, TouchedForm DEF ProtectFill, owner, venue
  <1>8. CASE ProtectionWorks
    <2>2. plan' \in Plan
      BY <1>0, <1>8, Zenon DEF ProtectionWorks, Plan
    <2>3. /\ plan'.lifecycle = plan.lifecycle /\ plan'.run = plan.run
          /\ plan'.pausedIn = plan.pausedIn /\ plan'.closure = plan.closure
          /\ plan'.takenBy = plan.takenBy
      BY <1>0, <1>8, Zenon DEF ProtectionWorks, Plan
    <2>4. WellFormed(plan')
      BY <2>2, <2>3 DEF WellFormed
    <2> QED
      BY <1>8, <2>4, TouchedForm DEF ProtectionWorks, owner, venue
  <1>9. CASE Reduce
    <2>1. fact' \in [in : 0..MaxLosses, quiet : BOOLEAN]
      BY <1>9, TouchedForm, Zenon DEF Reduce
    <2>2. position' \in BOOLEAN /\ exposure' \in {"NONE", "HELD", "FLAT"}
      BY <1>9, Zenon DEF Reduce
    <2>3. /\ UNCHANGED <<plan, stopped, ended, entry, order, executor, losses, late,
                         loop>>
          /\ UNCHANGED <<command, receipt, request>>
      BY <1>9, Zenon DEF Reduce, owner
    <2> QED
      BY <2>1, <2>2, <2>3
  <1>10. CASE ConsumeOpportunity
    <2> DEFINE expired == [plan EXCEPT !.consumed = TRUE, !.version = @ + 1]
    <2>1. expired \in Plan
      BY <1>0, Zenon DEF Plan
    <2>2. /\ expired.lifecycle = plan.lifecycle /\ expired.run = plan.run
          /\ expired.pausedIn = plan.pausedIn /\ expired.closure = plan.closure
          /\ expired.takenBy = plan.takenBy
      BY <1>0, Zenon DEF Plan
    <2>3. WellFormed(expired)
      BY <2>1, <2>2 DEF WellFormed
    <2>4. WellFormed(plan')
      BY <1>10, <2>3, CompletedForm DEF ConsumeOpportunity
    <2> QED
      BY <1>10, <2>4 DEF ConsumeOpportunity, Finished, rows, venue
  <1>11. CASE RecordPosition
    BY <1>11 DEF RecordPosition, owner, venue
  <1>12. CASE HandOver
    BY <1>12, TouchedForm DEF HandOver, owner, venue
  <1>13. CASE StartSync
    BY <1>13 DEF StartSync, Reconciled, WellFormed, Plan, rows, owner, venue
  <1>14. CASE AbandonSync
    BY <1>14 DEF AbandonSync, NoSnapshot, rows, owner, venue
  <1>15. CASE Prove
    BY <1>15, TouchedForm DEF Prove, owner, venue
  <1>16. CASE CloseActivation
    <2> DEFINE closed == [plan EXCEPT !.protection = "CLOSED", !.pending = FALSE,
                                      !.version = @ + 1]
               handover == IF loop.lifecycle = "USER_TAKEOVER" THEN loop.takenBy
                           ELSE None
    <2>1. closed \in Plan
      BY <1>0, Zenon DEF Plan
    <2>2. /\ closed.lifecycle = plan.lifecycle /\ closed.run = plan.run
          /\ closed.pausedIn = plan.pausedIn /\ closed.closure = plan.closure
          /\ closed.takenBy = plan.takenBy
      BY <1>0, Zenon DEF Plan
    <2>3. WellFormed(closed)
      BY <2>1, <2>2 DEF WellFormed
    <2>4. handover \in Keys \cup {None}
      OBVIOUS
    <2>5. WellFormed(plan')
      BY <1>16, <2>3, <2>4, CompletedForm DEF CloseActivation
    <2> QED
      BY <1>16, <2>5 DEF CloseActivation, Finished, NoSnapshot, rows, venue
  <1>17. CASE Crash
    BY <1>17 DEF Crash, NoSnapshot, rows, owner, venue
  <1>18. CASE PauseForLoss
    <2> DEFINE paused == [plan EXCEPT !.run = "PAUSED", !.pausedIn = losses + 1,
                                      !.resumedBy = None, !.version = @ + 1]
               freed == [plan EXCEPT !.run = "ACTIVE", !.pausedIn = 0,
                                     !.resumedBy = None, !.version = @ + 1]
    <2>0. executor = "DOWN" /\ executor' = "STARTING" /\ losses' = losses + 1
      BY <1>18, Zenon DEF PauseForLoss
    <2>1. losses' \in 0..MaxLosses /\ losses' > 0 /\ losses' = losses + 1
      BY <2>0, MaxLossesAssumption
    <2>2. paused \in Plan /\ freed \in Plan
      BY <1>0, <2>1, Zenon DEF Plan
    <2>3. /\ paused.lifecycle = plan.lifecycle /\ paused.closure = plan.closure
          /\ paused.takenBy = plan.takenBy
          /\ paused.run = "PAUSED" /\ paused.pausedIn = losses'
          /\ freed.lifecycle = plan.lifecycle /\ freed.closure = plan.closure
          /\ freed.takenBy = plan.takenBy
          /\ freed.run = "ACTIVE" /\ freed.pausedIn = 0
      BY <1>0, <2>1, Zenon DEF Plan
    <2>4. WellFormed(paused) /\ WellFormed(freed)
      BY <2>1, <2>2, <2>3 DEF WellFormed
    <2>5. plan' \in {paused, freed, plan}
      BY <1>18 DEF PauseForLoss
    <2> QED
      BY <1>18, <2>0, <2>1, <2>4, <2>5 DEF PauseForLoss, rows, owner, venue
  <1>19. CASE Start
    BY <1>19, TouchedForm DEF Start, Finished, venue
  <1> QED
    BY <1>1, <1>2, <1>3, <1>4, <1>5, <1>6, <1>7, <1>8, <1>9, <1>10, <1>11, <1>12,
       <1>13, <1>14, <1>15, <1>16, <1>17, <1>18, <1>19
    DEF ExecutorStep, ExpireEntry, InvalidateEntry

LEMMA TypeStep == TypeOK /\ [Next]_vars => TypeOK'
  <1> SUFFICES ASSUME TypeOK, [Next]_vars PROVE TypeOK'
    OBVIOUS
  <1>1. CASE FillOrder
    BY <1>1 DEF FillOrder, TypeOK, rows, owner
  <1>2. CASE EndOrder
    BY <1>2 DEF EndOrder, TypeOK, rows, owner
  <1>3. CASE WindowEnds
    BY <1>3 DEF WindowEnds, TypeOK, rows, venue, owner
  <1>4. CASE UNCHANGED vars
    BY <1>4 DEF vars, TypeOK, rows, venue, owner
  <1> QED
    BY <1>1, <1>2, <1>3, <1>4, TypeOwner, TypeExecutor DEF Next

\* Every reachable state of the activation, of its commands and of the loop's
\* snapshot is well typed, and the row of plan_activation agrees with itself: a
\* projection that sets one column resets the others it must.
THEOREM TypeCorrect == Spec => []TypeOK
  BY TypeInit, TypeStep, PTL DEF Spec

(***************************************************************************)
(* How the row may follow another: its version grows with every change, an *)
(* end is final, a takeover and a fill are not forgotten, and a fill       *)
(* consumes the opportunity.                                               *)
(***************************************************************************)

Follows(p, q) ==
  /\ q = p \/ p.version < q.version
  /\ p.lifecycle = "COMPLETED" => q.lifecycle = "COMPLETED"
  /\ Final(p) => Final(q)
  /\ p.takenBy # None => q.takenBy # None
  /\ p.hasFill => q.hasFill
  /\ (p.hasFill => p.consumed) => (q.hasFill => q.consumed)

\* It follows without a resume.
Keeps(p, q) == Follows(p, q) /\ q.resumedBy \in {p.resumedBy, None}

LEMMA KeepsSame == ASSUME NEW p PROVE Keeps(p, p)
  BY DEF Keeps, Follows

LEMMA KeepsTransitive ==
  ASSUME NEW p \in Plan, NEW q \in Plan, NEW r \in Plan, Keeps(p, q), Keeps(q, r)
  PROVE  Keeps(p, r)
  <1>1. p.version \in Nat /\ q.version \in Nat /\ r.version \in Nat
    BY DEF Plan
  <1>2. r = p \/ p.version < r.version
    BY <1>1 DEF Keeps, Follows
  <1> QED
    BY <1>2, Zenon DEF Keeps, Follows

LEMMA VersionGrows ==
  ASSUME NEW p \in Plan
  PROVE  p.version < p.version + 1 /\ p.version < p.version + 2
  BY DEF Plan

LEMMA CompletedKeeps ==
  ASSUME NEW p \in Plan, NEW by, NEW handover
  PROVE  Keeps(p, Completed(p, by, handover))
  <1> DEFINE q == Completed(p, by, handover)
  <1>1. /\ q.version = p.version + 1 /\ q.lifecycle = "COMPLETED"
        /\ q.takenBy = p.takenBy /\ q.resumedBy = p.resumedBy
        /\ q.hasFill = p.hasFill /\ q.consumed = TRUE
    BY Zenon DEF Completed, Plan
  <1> QED
    BY <1>1, VersionGrows DEF Keeps, Follows, Final

LEMMA CompletedIfNoneKeeps ==
  ASSUME NEW p \in Plan, NEW k
  PROVE  Keeps(p, CompletedIfNone(p, k))
  BY CompletedKeeps, KeepsSame DEF CompletedIfNone

LEMMA ExitedKeeps ==
  ASSUME NEW p \in Plan, ~Final(p)
  PROVE  Keeps(p, Exited(p))
  <1>1. CASE p.lifecycle = "EXITING"
    BY <1>1, KeepsSame DEF Exited
  <1>2. CASE p.lifecycle # "EXITING"
    <2> DEFINE q == Exited(p)
    <2>1. /\ q.version = p.version + 1
          /\ q.takenBy = p.takenBy /\ q.resumedBy = p.resumedBy
          /\ q.hasFill = p.hasFill /\ q.consumed = TRUE
      BY <1>2, Zenon DEF Exited, Plan
    <2> QED
      BY <2>1, VersionGrows DEF Keeps, Follows, Final
  <1> QED
    BY <1>1, <1>2

LEMMA TakenOverKeeps ==
  ASSUME NEW p \in Plan, p.lifecycle # "COMPLETED", NEW k \in Keys
  PROVE  Keeps(p, TakenOver(p, k))
  <1>1. CASE p.lifecycle = "USER_TAKEOVER"
    BY <1>1, KeepsSame DEF TakenOver
  <1>2. CASE p.lifecycle # "USER_TAKEOVER"
    <2> DEFINE q == TakenOver(p, k)
    <2>1. /\ q.version = p.version + 1 /\ q.lifecycle = "USER_TAKEOVER"
          /\ q.takenBy = k /\ q.resumedBy = p.resumedBy
          /\ q.hasFill = p.hasFill /\ q.consumed = TRUE
      BY <1>2, Zenon DEF TakenOver, Plan
    <2> QED
      BY <2>1, VersionGrows, NoneAssumption DEF Keeps, Follows, Final
  <1> QED
    BY <1>1, <1>2

LEMMA ResumedFollows ==
  ASSUME NEW p \in Plan, NEW k \in Keys
  PROVE  /\ Follows(p, Resumed(p, k))
         /\ p.run = "ACTIVE" => Resumed(p, k) = p
         /\ p.run # "ACTIVE" => Resumed(p, k).resumedBy = k
  <1>1. CASE p.run = "ACTIVE"
    BY <1>1, KeepsSame DEF Resumed, Keeps
  <1>2. CASE p.run # "ACTIVE"
    <2> DEFINE q == Resumed(p, k)
    <2>1. /\ q.version = p.version + 1 /\ q.lifecycle = p.lifecycle
          /\ q.takenBy = p.takenBy /\ q.resumedBy = k
          /\ q.hasFill = p.hasFill /\ q.consumed = p.consumed
      BY <1>2, Zenon DEF Resumed, Plan
    <2> QED
      BY <1>2, <2>1, VersionGrows DEF Follows, Final
  <1> QED
    BY <1>1, <1>2

LEMMA ExitKeeps ==
  ASSUME WellFormed(plan), NEW k \in Keys, ExitStrategy(k)
  PROVE  Keeps(plan, plan')
  <1>1. plan \in Plan /\ ~Final(plan) /\ plan' = CompletedIfNone(Exited(plan), k)
    BY DEF WellFormed, ExitStrategy
  <1>2. Exited(plan) \in Plan /\ plan' \in Plan
    BY <1>1, ExitedForm, CompletedIfNoneForm DEF WellFormed
  <1> QED
    BY <1>1, <1>2, ExitedKeeps, CompletedIfNoneKeeps, KeepsTransitive

LEMMA TakeoverKeeps ==
  ASSUME WellFormed(plan), NEW k \in Keys, UserTakeover(k)
  PROVE  Keeps(plan, plan')
  <1>1. /\ plan \in Plan /\ plan.lifecycle # "COMPLETED"
        /\ plan' = CompletedIfNone(TakenOver(plan, k), k)
    BY DEF WellFormed, UserTakeover
  <1>2. TakenOver(plan, k) \in Plan /\ plan' \in Plan
    BY <1>1, TakenOverForm, CompletedIfNoneForm DEF WellFormed
  <1> QED
    BY <1>1, <1>2, TakenOverKeeps, CompletedIfNoneKeeps, KeepsTransitive

LEMMA ExecutorKeeps ==
  ASSUME TypeOK, ExecutorStep
  PROVE  Keeps(plan, plan')
  <1>0. WellFormed(plan) /\ plan \in Plan
    BY DEF TypeOK, WellFormed
  <1>1. CASE UNCHANGED plan
    BY <1>1, KeepsSame
  <1>2. CASE ProtectFill
    <2>1. /\ plan'.version = plan.version + 2 /\ plan'.lifecycle = plan.lifecycle
          /\ plan'.takenBy = plan.takenBy /\ plan'.resumedBy = plan.resumedBy
          /\ plan'.hasFill = TRUE /\ plan'.consumed = TRUE
      BY <1>0, <1>2, Zenon DEF ProtectFill, Plan
    <2> QED
      BY <1>0, <2>1, VersionGrows DEF Keeps, Follows, Final
  <1>3. CASE ProtectionWorks
    <2>1. /\ plan'.version = plan.version + 1 /\ plan'.lifecycle = plan.lifecycle
          /\ plan'.takenBy = plan.takenBy /\ plan'.resumedBy = plan.resumedBy
          /\ plan'.hasFill = plan.hasFill /\ plan'.consumed = plan.consumed
      BY <1>0, <1>3, Zenon DEF ProtectionWorks, Plan
    <2> QED
      BY <1>0, <2>1, VersionGrows DEF Keeps, Follows, Final
  <1>4. CASE ConsumeOpportunity
    <2> DEFINE expired == [plan EXCEPT !.consumed = TRUE, !.version = @ + 1]
    <2>1. /\ expired.version = plan.version + 1 /\ expired.lifecycle = plan.lifecycle
          /\ expired.takenBy = plan.takenBy /\ expired.resumedBy = plan.resumedBy
          /\ expired.hasFill = plan.hasFill /\ expired.consumed = TRUE
          /\ expired \in Plan
      BY <1>0, VersionNext, Zenon DEF Plan
    <2>2. Keeps(plan, expired)
      BY <1>0, <2>1, VersionGrows DEF Keeps, Follows, Final
    <2>3. CASE plan' = expired
      BY <2>2, <2>3
    <2>4. CASE plan' = Completed(expired, "EXECUTION", None)
      <3>1. Keeps(expired, plan')
        BY <2>1, <2>4, CompletedKeeps
      <3>2. plan' \in Plan
        BY TypeExecutor DEF TypeOK, WellFormed
      <3> QED
        BY <1>0, <2>1, <2>2, <3>1, <3>2, KeepsTransitive
    <2> QED
      BY <1>4, <2>3, <2>4 DEF ConsumeOpportunity
  <1>5. CASE CloseActivation
    <2> DEFINE closed == [plan EXCEPT !.protection = "CLOSED", !.pending = FALSE,
                                      !.version = @ + 1]
               handover == IF loop.lifecycle = "USER_TAKEOVER" THEN loop.takenBy
                           ELSE None
    <2>1. /\ closed.version = plan.version + 1 /\ closed.lifecycle = plan.lifecycle
          /\ closed.takenBy = plan.takenBy /\ closed.resumedBy = plan.resumedBy
          /\ closed.hasFill = plan.hasFill /\ closed.consumed = plan.consumed
          /\ closed \in Plan
      BY <1>0, VersionNext, Zenon DEF Plan
    <2>2. Keeps(plan, closed)
      BY <1>0, <2>1, VersionGrows DEF Keeps, Follows, Final
    <2>3. PICK projected \in {plan, closed} :
            plan' = Completed(projected, "EXECUTION", handover)
      BY <1>5 DEF CloseActivation
    <2>4. projected \in Plan /\ Keeps(plan, projected) /\ Keeps(projected, plan')
      BY <1>0, <2>1, <2>2, <2>3, KeepsSame, CompletedKeeps
    <2>5. plan' \in Plan
      BY TypeExecutor DEF TypeOK, WellFormed
    <2> QED
      BY <1>0, <2>4, <2>5, KeepsTransitive
  <1>6. CASE PauseForLoss
    <2> DEFINE paused == [plan EXCEPT !.run = "PAUSED", !.pausedIn = losses',
                                      !.resumedBy = None, !.version = @ + 1]
               freed == [plan EXCEPT !.run = "ACTIVE", !.pausedIn = 0,
                                     !.resumedBy = None, !.version = @ + 1]
    <2>1. \A q \in {paused, freed} :
            /\ q.version = plan.version + 1 /\ q.lifecycle = plan.lifecycle
            /\ q.takenBy = plan.takenBy /\ q.resumedBy = None
            /\ q.hasFill = plan.hasFill /\ q.consumed = plan.consumed
      BY <1>0, Zenon DEF Plan
    <2>2. plan' \in {paused, freed, plan}
      BY <1>6 DEF PauseForLoss
    <2> HIDE DEF paused, freed
    <2>3. \A q \in {paused, freed} : Keeps(plan, q)
      BY <1>0, <2>1, VersionGrows DEF Keeps, Follows, Final
    <2> QED
      BY <2>2, <2>3, KeepsSame
  <1>7. \/ UNCHANGED plan \/ ProtectFill \/ ProtectionWorks
        \/ ConsumeOpportunity \/ CloseActivation \/ PauseForLoss
    BY DEF ExecutorStep, CreateEntry, DispatchEntry, RejectEntry, Recognise,
           RecordFill, RecordEnd, Reduce, RecordPosition, HandOver, StartSync,
           AbandonSync, Prove, Crash, Start, ExpireEntry, InvalidateEntry
  <1> QED
    BY <1>1, <1>2, <1>3, <1>4, <1>5, <1>6, <1>7

LEMMA PlanFollows ==
  ASSUME TypeOK, [Next]_vars
  PROVE  Follows(plan, plan')
  <1>0. WellFormed(plan) /\ plan \in Plan
    BY DEF TypeOK, WellFormed
  <1>1. ASSUME NEW k \in Keys, OwnerStep(k) PROVE Follows(plan, plan')
    <2>1. CASE UNCHANGED plan
      BY <2>1, KeepsSame DEF Keeps
    <2>2. CASE ResumeActivation(k)
      BY <1>0, <2>2, ResumedFollows DEF ResumeActivation
    <2>3. CASE ExitStrategy(k)
      BY <1>0, <2>3, ExitKeeps DEF Keeps
    <2>4. CASE UserTakeover(k)
      BY <1>0, <2>4, TakeoverKeeps DEF Keeps
    <2> QED
      BY <1>1, <2>1, <2>2, <2>3, <2>4
      DEF OwnerStep, Ask, Retry, ReadProof, StopNewRisk, RejectResume,
          RejectVersion, AnswerOnly
  <1>2. CASE ExecutorStep
    BY <1>2, ExecutorKeeps DEF Keeps
  <1>3. CASE FillOrder \/ EndOrder \/ WindowEnds \/ UNCHANGED vars
    BY <1>3, KeepsSame DEF FillOrder, EndOrder, WindowEnds, vars, Keeps
  <1> QED
    BY <1>1, <1>2, <1>3 DEF Next

(***************************************************************************)
(* Receipts.  A receipt belongs to a command that was sent, and a takeover *)
(* is never in process; both are needed to carry ReceiptsAreTrue over a    *)
(* new command and over the Executor's finishing of receipts.              *)
(***************************************************************************)

ReceiptInv ==
  /\ TypeOK
  /\ \A k \in Keys :
       /\ receipt[k] # "NONE" => command[k] # None
       /\ receipt[k] = "PROCESSING" => command[k].intent # "USER_TAKEOVER"
  /\ ReceiptsAreTrue

LEMMA ReceiptInit == Init => ReceiptInv
  BY TypeInit DEF Init, ReceiptInv, ReceiptsAreTrue

\* What is left of a receipt's truth when only the rows go on.
LEMMA ReceiptFrame ==
  ASSUME ReceiptInv, Follows(plan, plan'), TypeOK', stopped => stopped',
         \A k \in Keys : receipt[k] # "NONE" => command'[k] = command[k],
         receipt' = receipt
  PROVE  ReceiptInv'
  BY DEF ReceiptInv, ReceiptsAreTrue, Follows

LEMMA ReceiptFinished ==
  ASSUME ReceiptInv, Follows(plan, plan'), TypeOK', stopped' = stopped,
         command' = command, receipt' = Finished(plan')
  PROVE  ReceiptInv'
  <1>1. \A k \in Keys :
          \/ receipt'[k] = receipt[k]
          \/ /\ receipt[k] = "PROCESSING" /\ receipt'[k] = "EFFECTIVE"
             /\ plan'.lifecycle = "COMPLETED"
    BY DEF Finished
  <1> QED
    BY <1>1 DEF ReceiptInv, ReceiptsAreTrue, Follows

\* A decision answers one command; what it claims must be shown.
LEMMA ReceiptAnswered ==
  ASSUME ReceiptInv, Follows(plan, plan'), TypeOK', stopped => stopped',
         NEW k \in Keys, NEW state \in {"PROCESSING", "EFFECTIVE", "REJECTED"},
         command[k] # None, command' = command, Answered(k, state),
         state = "PROCESSING" => command[k].intent # "USER_TAKEOVER",
         state = "EFFECTIVE" /\ command[k].intent = "EXIT_STRATEGY" =>
           plan'.lifecycle = "COMPLETED",
         state = "EFFECTIVE" /\ command[k].intent = "USER_TAKEOVER" =>
           Final(plan') /\ plan'.takenBy # None,
         state # "REJECTED" /\ command[k].intent \in {"STOP_NEW_RISK", "EXIT_STRATEGY"}
           => stopped'
  PROVE  ReceiptInv'
  <1>1. receipt'[k] = state /\ \A j \in Keys \ {k} : receipt'[j] = receipt[j]
    BY DEF Answered, ReceiptInv, TypeOK
  <1>2. \A j \in Keys :
          /\ receipt'[j] # "NONE" => command'[j] # None
          /\ receipt'[j] = "PROCESSING" => command'[j].intent # "USER_TAKEOVER"
    BY <1>1 DEF ReceiptInv
  <1>3. ReceiptsAreTrue'
    BY <1>1 DEF ReceiptInv, ReceiptsAreTrue, Follows
  <1> QED
    BY <1>2, <1>3 DEF ReceiptInv

LEMMA ReceiptOwner ==
  ASSUME ReceiptInv, NEW k \in Keys, OwnerStep(k)
  PROVE  ReceiptInv'
  <1>0. TypeOK /\ WellFormed(plan) /\ TypeOK' /\ Follows(plan, plan')
    BY TypeOwner, PlanFollows DEF ReceiptInv, TypeOK, Next
  <1>1. CASE Ask(k)
    <2>1. \A j \in Keys : receipt[j] # "NONE" => command'[j] = command[j]
      BY <1>0, <1>1 DEF Ask, ReceiptInv, TypeOK
    <2>2. stopped' = stopped /\ receipt' = receipt
      BY <1>1 DEF Ask, rows
    <2> QED
      BY <1>0, <2>1, <2>2, ReceiptFrame
  <1>2. CASE Retry(k) \/ ReadProof(k) \/ AnswerOnly(k)
    <2>1. stopped' = stopped /\ receipt' = receipt /\ command' = command
      BY <1>2 DEF Retry, ReadProof, AnswerOnly, Decides, rows
    <2> QED
      BY <1>0, <2>1, ReceiptFrame
  <1>3. CASE StopNewRisk(k)
    <2> DEFINE state == IF plan.pending THEN "PROCESSING" ELSE "EFFECTIVE"
    <2>1. /\ command[k] # None /\ command' = command /\ stopped'
          /\ command[k].intent = "STOP_NEW_RISK" /\ Answered(k, state)
      BY <1>3 DEF StopNewRisk, Fresh, Decides
    <2>2. state \in {"PROCESSING", "EFFECTIVE", "REJECTED"}
      OBVIOUS
    <2> HIDE DEF state
    <2> QED
      BY <1>0, <2>1, <2>2, ReceiptAnswered
  <1>4. CASE ResumeActivation(k)
    <2>1. /\ command[k] # None /\ command' = command /\ stopped' = stopped
          /\ command[k].intent = "RESUME_ACTIVATION" /\ Answered(k, "EFFECTIVE")
      BY <1>4 DEF ResumeActivation, Fresh, Decides
    <2> QED
      BY <1>0, <2>1, ReceiptAnswered
  <1>5. CASE RejectResume(k) \/ RejectVersion(k)
    <2>1. /\ command[k] # None /\ command' = command /\ stopped' = stopped
          /\ Answered(k, "REJECTED")
      BY <1>5 DEF RejectResume, RejectVersion, Fresh, Decides
    <2> QED
      BY <1>0, <2>1, ReceiptAnswered
  <1>6. CASE ExitStrategy(k)
    <2> DEFINE state == IF plan'.lifecycle = "COMPLETED" THEN "EFFECTIVE"
                        ELSE "PROCESSING"
    <2>1. /\ command[k] # None /\ command' = command /\ stopped'
          /\ command[k].intent = "EXIT_STRATEGY" /\ Answered(k, state)
      BY <1>6 DEF ExitStrategy, Fresh, Decides
    <2>2. /\ state \in {"PROCESSING", "EFFECTIVE", "REJECTED"}
          /\ state = "EFFECTIVE" => plan'.lifecycle = "COMPLETED"
      OBVIOUS
    <2> HIDE DEF state
    <2> QED
      BY <1>0, <2>1, <2>2, ReceiptAnswered
  <1>7. CASE UserTakeover(k)
    <2>1. /\ command[k] # None /\ command' = command /\ stopped' = stopped
          /\ command[k].intent = "USER_TAKEOVER" /\ Answered(k, "EFFECTIVE")
          /\ plan.lifecycle # "COMPLETED"
          /\ plan' = CompletedIfNone(TakenOver(plan, k), k)
      BY <1>7 DEF UserTakeover, Fresh, Decides
    <2> DEFINE taken == TakenOver(plan, k)
    <2>2. WellFormed(taken) /\ taken \in Plan
      BY <1>0, <2>1, TakenOverForm DEF WellFormed
    <2>3. taken.lifecycle = "USER_TAKEOVER"
      BY <1>0, Zenon DEF TakenOver, WellFormed, Plan
    <2>4. Final(taken) /\ taken.takenBy # None
      BY <2>2, <2>3, NoneAssumption DEF Final, WellFormed
    <2>5. Follows(taken, plan')
      BY <2>1, <2>2, CompletedIfNoneKeeps DEF Keeps
    <2>6. Final(plan') /\ plan'.takenBy # None
      BY <2>4, <2>5 DEF Follows
    <2> QED
      BY <1>0, <2>1, <2>6, ReceiptAnswered
  <1> QED
    BY <1>1, <1>2, <1>3, <1>4, <1>5, <1>6, <1>7 DEF OwnerStep

LEMMA ReceiptStep == ReceiptInv /\ [Next]_vars => ReceiptInv'
  <1> SUFFICES ASSUME ReceiptInv, [Next]_vars PROVE ReceiptInv'
    OBVIOUS
  <1>0. TypeOK' /\ Follows(plan, plan')
    BY TypeStep, PlanFollows DEF ReceiptInv
  <1>1. CASE \E k \in Keys : OwnerStep(k)
    BY <1>1, ReceiptOwner
  <1>2. CASE UNCHANGED <<stopped, command, receipt>>
    BY <1>0, <1>2, ReceiptFrame
  <1>3. CASE stopped' = stopped /\ command' = command /\ receipt' = Finished(plan')
    BY <1>0, <1>3, ReceiptFinished
  <1>4. ExecutorStep => \/ UNCHANGED <<stopped, command, receipt>>
                        \/ /\ stopped' = stopped /\ command' = command
                           /\ receipt' = Finished(plan')
    BY DEF ExecutorStep, CreateEntry, DispatchEntry, RejectEntry, Recognise,
           RecordFill, RecordEnd, ProtectFill, ProtectionWorks, Reduce, ExpireEntry,
           InvalidateEntry, ConsumeOpportunity,
           RecordPosition, HandOver, StartSync, AbandonSync, Prove, CloseActivation,
           Crash, PauseForLoss, Start, rows, owner
  <1>5. FillOrder \/ EndOrder \/ WindowEnds \/ UNCHANGED vars =>
          UNCHANGED <<stopped, command, receipt>>
    BY DEF FillOrder, EndOrder, WindowEnds, vars, rows, owner
  <1> QED
    BY <1>1, <1>2, <1>3, <1>4, <1>5 DEF Next

\* Whatever the owner and the Executor do in between, a receipt that says
\* EFFECTIVE or PROCESSING stays true of plan_activation and of its stop.
THEOREM ReceiptsStayTrue == Spec => []ReceiptsAreTrue
  <1>1. ReceiptInv => ReceiptsAreTrue
    BY DEF ReceiptInv
  <1> QED
    BY <1>1, ReceiptInit, ReceiptStep, PTL DEF Spec

\* Once a stop, an exit or a takeover is accepted, no transaction of the
\* Executor creates an entry and none calls one, for any number of commands.
THEOREM NoEntryOnceDecided == Spec => NoEntryAfterDecision
  <1>1. ReceiptInv /\ Decided => stopped \/ Final(plan)
    BY DEF ReceiptInv, ReceiptsAreTrue, Decided
  <1>2. CreateEntry => ~stopped /\ ~Final(plan)
    BY DEF CreateEntry, CapAccepts, Final
  <1>3. DispatchEntry => entry' # "READY"
    BY DEF DispatchEntry
  <1>4. DispatchEntry /\ entry' = "CALLED" => ~stopped /\ ~Final(plan)
    BY DEF DispatchEntry, CapAccepts
  <1>5. [Next]_vars /\ ~CreateEntry /\ ~DispatchEntry =>
          entry' = entry \/ entry' \notin {"READY", "CALLED"}
    <2>1. \A k \in Keys : OwnerStep(k) => entry' = entry
      BY DEF OwnerStep, Ask, Retry, ReadProof, StopNewRisk, ResumeActivation,
             RejectResume, ExitStrategy, UserTakeover, RejectVersion, AnswerOnly,
             Fresh, Decides
    <2>2. FillOrder \/ EndOrder \/ WindowEnds \/ UNCHANGED vars => entry' = entry
      BY DEF FillOrder, EndOrder, WindowEnds, vars
    <2>3. ExecutorStep /\ ~CreateEntry /\ ~DispatchEntry =>
            entry' = entry \/ entry' \notin {"READY", "CALLED"}
      BY DEF ExecutorStep, RejectEntry, Recognise, RecordFill, RecordEnd, Opened,
             ProtectFill, ProtectionWorks, Reduce, ExpireEntry,
             InvalidateEntry, ConsumeOpportunity, RecordPosition,
             HandOver, StartSync, AbandonSync, Prove, CloseActivation, Crash,
             PauseForLoss, Start
    <2> QED
      BY <2>1, <2>2, <2>3 DEF Next
  <1>6. CreateEntry => entry' # "CALLED"
    BY DEF CreateEntry
  <1>7. ReceiptInv /\ [Next]_vars =>
          [Decided => /\ entry' = "READY" => entry = "READY"
                      /\ entry' = "CALLED" => entry = "CALLED"]_vars
    BY <1>1, <1>2, <1>3, <1>4, <1>5, <1>6
  <1> QED
    BY <1>7, ReceiptInit, ReceiptStep, PTL DEF Spec, NoEntryAfterDecision

(***************************************************************************)
(* Resumes.  Evidence that is still good for a command was read while the  *)
(* version the command names was paused; as long as that version stands,   *)
(* the pause is the same and no entry can be called.                       *)
(***************************************************************************)

GoodFor(k) ==
  /\ request[k].step = "PROVEN"
  /\ request[k].proof > 0
  /\ command[k].expected = plan.version

EvidenceInv ==
  /\ TypeOK
  /\ fact.in <= losses
  /\ \A k \in Keys :
       /\ request[k].step # "NONE" => command[k] # None
       /\ command[k] # None => command[k].expected <= plan.version
       /\ request[k].proof <= fact.in
       /\ GoodFor(k) => /\ plan.run = "PAUSED"
                        /\ plan.pausedIn <= request[k].proof
                        /\ entry # "CALLED"

LEMMA EvidenceInit == Init => EvidenceInv
  <1> SUFFICES ASSUME Init PROVE EvidenceInv
    OBVIOUS
  <1>1. TypeOK
    BY TypeInit
  <1>2. fact.in = 0 /\ losses = 0
    BY DEF Init
  <1>3. \A k \in Keys : /\ command[k] = None /\ request[k].step = "NONE"
                        /\ request[k].proof = 0
    BY DEF Init, NoRequest
  <1> QED
    BY <1>1, <1>2, <1>3 DEF EvidenceInv, GoodFor

\* What is left of the evidence when neither commands nor requests move.
LEMMA EvidenceFrame ==
  ASSUME EvidenceInv, TypeOK', Follows(plan, plan'),
         fact.in <= fact'.in, fact'.in <= losses',
         command' = command, request' = request,
         plan.run = "PAUSED" /\ entry # "CALLED" => entry' # "CALLED"
  PROVE  EvidenceInv'
  <1> USE DEF EvidenceInv
  <1>1. /\ plan.version \in Nat /\ plan'.version \in Nat
        /\ fact.in \in Nat /\ fact'.in \in Nat
    BY MaxLossesAssumption DEF TypeOK, WellFormed, Plan
  <1> SUFFICES ASSUME NEW k \in Keys
               PROVE  /\ request[k].step # "NONE" => command[k] # None
                      /\ command[k] # None => command[k].expected <= plan'.version
                      /\ request[k].proof <= fact'.in
                      /\ GoodFor(k)' => /\ plan'.run = "PAUSED"
                                        /\ plan'.pausedIn <= request[k].proof
                                        /\ entry' # "CALLED"
    OBVIOUS
  <1>2. request[k].proof \in Nat
    BY MaxLossesAssumption DEF TypeOK
  <1>3. command[k] # None => command[k].expected \in Nat
    BY DEF TypeOK
  <1>4. request[k].proof <= fact'.in
    BY <1>1, <1>2
  <1>5. command[k] # None => command[k].expected <= plan'.version
    BY <1>1, <1>3 DEF Follows
  <1>6. ASSUME GoodFor(k)'
        PROVE  plan'.run = "PAUSED" /\ plan'.pausedIn <= request[k].proof
               /\ entry' # "CALLED"
    <2>1. request[k].step = "PROVEN" /\ request[k].proof > 0 /\ command[k] # None
          /\ command[k].expected = plan'.version
      BY <1>6 DEF GoodFor
    <2>2. ~(plan.version < plan'.version)
      BY <1>1, <1>3, <2>1
    <2>3. plan' = plan
      BY <2>2 DEF Follows
    <2> QED
      BY <2>1, <2>3 DEF GoodFor
  <1> QED
    BY <1>4, <1>5, <1>6

\* A decision ends its request; the others are as they were, or stale.
LEMMA EvidenceDecided ==
  ASSUME EvidenceInv, TypeOK', Follows(plan, plan'),
         NEW k \in Keys, NEW intent, Decides(k, intent)
  PROVE  EvidenceInv'
  <1> USE DEF EvidenceInv
  <1>1. /\ plan.version \in Nat /\ plan'.version \in Nat
    BY DEF TypeOK, WellFormed, Plan
  <1>2. fact' = fact /\ losses' = losses /\ command' = command /\ entry' = entry
    BY DEF Decides
  <1>3. /\ command[k] # None
        /\ request'[k].step = "ENDED" /\ request'[k].proof = request[k].proof
        /\ \A j \in Keys \ {k} : request'[j] = request[j]
    BY DEF Decides, TypeOK
  <1> SUFFICES ASSUME NEW j \in Keys
               PROVE  /\ request'[j].step # "NONE" => command[j] # None
                      /\ command[j] # None => command[j].expected <= plan'.version
                      /\ request'[j].proof <= fact.in
                      /\ GoodFor(j)' => /\ plan'.run = "PAUSED"
                                        /\ plan'.pausedIn <= request'[j].proof
                                        /\ entry' # "CALLED"
    BY <1>2
  <1>4. command[j] # None => command[j].expected \in Nat
    BY DEF TypeOK
  <1>5. command[j] # None => command[j].expected <= plan'.version
    BY <1>1, <1>4 DEF Follows
  <1>6. request'[j].step # "NONE" => command[j] # None
    BY <1>3
  <1>7. request'[j].proof <= fact.in
    BY <1>3
  <1>8. ASSUME GoodFor(j)'
        PROVE  plan'.run = "PAUSED" /\ plan'.pausedIn <= request'[j].proof
               /\ entry' # "CALLED"
    <2>1. j # k /\ request'[j] = request[j]
      BY <1>3, <1>8 DEF GoodFor
    <2>2. request[j].step = "PROVEN" /\ request[j].proof > 0 /\ command[j] # None
          /\ command[j].expected = plan'.version
      BY <1>2, <1>8, <2>1 DEF GoodFor
    <2>3. ~(plan.version < plan'.version)
      BY <1>1, <1>4, <2>2
    <2>4. plan' = plan
      BY <2>3 DEF Follows
    <2> QED
      BY <1>2, <2>1, <2>2, <2>4 DEF GoodFor
  <1> QED
    BY <1>5, <1>6, <1>7, <1>8

LEMMA EvidenceOwner ==
  ASSUME EvidenceInv, NEW k \in Keys, OwnerStep(k)
  PROVE  EvidenceInv'
  <1>0. TypeOK /\ TypeOK' /\ Follows(plan, plan')
    BY TypeOwner, PlanFollows DEF EvidenceInv, Next
  <1>1. plan.version \in Nat \ {0} /\ fact.in \in Nat
    BY <1>0, MaxLossesAssumption DEF TypeOK, WellFormed, Plan
  <1>2. CASE Ask(k)
    <2>0. PICK intent \in Intents :
            command' = [command EXCEPT ![k] =
                          [intent |-> intent, expected |-> plan.version]]
      BY <1>2 DEF Ask
    <2>1. /\ command'[k] # None /\ command'[k].expected = plan.version
          /\ \A j \in Keys \ {k} : command'[j] = command[j]
      BY <1>0, <1>1, <2>0, NoneAssumption DEF TypeOK
    <2>2. /\ UNCHANGED <<plan, fact, losses, entry>>
          /\ request'[k].step = "SENT" /\ request'[k].proof = 0
          /\ \A j \in Keys \ {k} : request'[j] = request[j]
      BY <1>0, <1>2 DEF Ask, rows, NoRequest, TypeOK
    <2> QED
      BY <1>0, <1>1, <2>1, <2>2 DEF EvidenceInv, GoodFor
  <1>3. CASE Retry(k)
    <2>1. /\ UNCHANGED <<plan, fact, losses, entry, command>>
          /\ request[k].step # "NONE"
          /\ request'[k].step = "SENT" /\ request'[k].proof = 0
          /\ \A j \in Keys \ {k} : request'[j] = request[j]
      BY <1>0, <1>3 DEF Retry, rows, NoRequest, TypeOK
    <2> QED
      BY <1>0, <1>1, <2>1 DEF EvidenceInv, GoodFor
  <1>4. CASE ReadProof(k)
    <2>1. /\ UNCHANGED <<plan, fact, losses, entry, command>>
          /\ request[k].step # "NONE"
          /\ request'[k].step = "PROVEN"
          /\ request'[k].proof = 0 \/ (Proves /\ request'[k].proof = fact.in)
          /\ \A j \in Keys \ {k} : request'[j] = request[j]
      BY <1>0, <1>4 DEF ReadProof, rows, TypeOK
    <2> QED
      BY <1>0, <1>1, <2>1 DEF EvidenceInv, GoodFor, Proves
  <1>5. ASSUME NEW intent, Decides(k, intent) PROVE EvidenceInv'
    BY <1>0, <1>5, EvidenceDecided
  <1> QED
    BY <1>2, <1>3, <1>4, <1>5
    DEF OwnerStep, StopNewRisk, ResumeActivation, RejectResume, ExitStrategy,
        UserTakeover, RejectVersion, AnswerOnly, Fresh

LEMMA EvidenceStep == EvidenceInv /\ [Next]_vars => EvidenceInv'
  <1> SUFFICES ASSUME EvidenceInv, [Next]_vars PROVE EvidenceInv'
    OBVIOUS
  <1>0. TypeOK /\ TypeOK' /\ Follows(plan, plan')
    BY TypeStep, PlanFollows DEF EvidenceInv
  <1>1. fact.in \in Nat /\ losses \in Nat /\ fact.in <= losses
    BY <1>0, MaxLossesAssumption DEF TypeOK, EvidenceInv
  <1>2. CASE \E k \in Keys : OwnerStep(k)
    BY <1>2, EvidenceOwner
  <1>3. ASSUME ~\E k \in Keys : OwnerStep(k)
        PROVE  UNCHANGED <<command, request>>
    BY <1>3 DEF Next, ExecutorStep, CreateEntry, DispatchEntry, RejectEntry,
           Recognise, RecordFill, RecordEnd, ProtectFill, ProtectionWorks, Reduce,
           ExpireEntry, InvalidateEntry, ConsumeOpportunity, RecordPosition,
           HandOver, StartSync, AbandonSync, Prove,
           CloseActivation, Crash, PauseForLoss, Start, FillOrder, EndOrder,
           WindowEnds, vars,
           owner
  <1>4. ASSUME ~\E k \in Keys : OwnerStep(k)
        PROVE  \/ fact'.in = fact.in /\ losses' = losses
               \/ fact'.in = losses /\ losses' = losses
               \/ fact' = fact /\ losses' = losses + 1
    <2>1. Touched => fact'.in = fact.in
      BY <1>0 DEF Touched, TypeOK
    <2> QED
      BY <1>4, <2>1
      DEF Next, ExecutorStep, CreateEntry, DispatchEntry, RejectEntry,
          Recognise, RecordFill, RecordEnd, ProtectFill, ProtectionWorks, Reduce,
          ExpireEntry, InvalidateEntry, ConsumeOpportunity, RecordPosition,
          HandOver, StartSync, AbandonSync, Prove,
          CloseActivation, Crash, PauseForLoss, Start, FillOrder, EndOrder,
          WindowEnds, vars,
          rows
  <1>5. ASSUME ~\E k \in Keys : OwnerStep(k), plan.run = "PAUSED",
               entry # "CALLED"
        PROVE  entry' # "CALLED"
    BY <1>5 DEF Next, ExecutorStep, CreateEntry, DispatchEntry, RejectEntry,
           Recognise, RecordFill, RecordEnd, Opened, ProtectFill, ProtectionWorks,
           Reduce, ExpireEntry, InvalidateEntry, ConsumeOpportunity,
           RecordPosition, HandOver, StartSync, AbandonSync,
           Prove, CloseActivation, Crash, PauseForLoss, Start, FillOrder, EndOrder,
           WindowEnds,
           vars
  <1>6. ASSUME ~\E k \in Keys : OwnerStep(k) PROVE EvidenceInv'
    <2>1. fact.in <= fact'.in /\ fact'.in <= losses'
      BY <1>1, <1>4, <1>6
    <2> QED
      BY <1>0, <1>3, <1>5, <1>6, <2>1, EvidenceFrame
  <1> QED
    BY <1>2, <1>6

\* Only a command resumes, and only on evidence from after the pause it ends,
\* however often the activation was resumed, lost and paused since the evidence
\* was read: the version the command names keeps both transactions together.
THEOREM ResumesAreProven == Spec => ResumeIsProven
  <1>1. ASSUME EvidenceInv, [Next]_vars, NEW k \in Keys,
               plan'.resumedBy = k, plan.resumedBy # k
        PROVE  ResumeActivation(k) /\ plan.run # "ACTIVE"
    <2>0. plan'.resumedBy \notin {plan.resumedBy, None}
      BY <1>1, NoneAssumption
    <2>1. ~Keeps(plan, plan')
      BY <2>0, Zenon DEF Keeps
    <2>2. TypeOK /\ WellFormed(plan) /\ plan \in Plan
      BY <1>1 DEF EvidenceInv, TypeOK, WellFormed
    <2>3. plan' # plan /\ ~ExecutorStep
      BY <2>1, <2>2, KeepsSame, ExecutorKeeps
    <2>4. PICK j \in Keys : OwnerStep(j)
      BY <1>1, <2>3 DEF Next, FillOrder, EndOrder, WindowEnds, vars
    <2>5. ResumeActivation(j)
      BY <2>1, <2>2, <2>3, <2>4, ExitKeeps, TakeoverKeeps
      DEF OwnerStep, Ask, Retry, ReadProof, StopNewRisk, RejectResume,
          RejectVersion, AnswerOnly
    <2>6. plan' = Resumed(plan, j)
      BY <2>5 DEF ResumeActivation
    <2>7. plan.run # "ACTIVE" /\ plan'.resumedBy = j
      BY <2>2, <2>3, <2>6, ResumedFollows
    <2> QED
      BY <1>1, <2>5, <2>7
  <1>2. EvidenceInv /\ [Next]_vars =>
          [\A k \in Keys :
             plan'.resumedBy = k /\ plan.resumedBy # k =>
               /\ plan.run = "PAUSED"
               /\ request[k].proof >= plan.pausedIn
               /\ request[k].proof <= fact.in
               /\ entry # "CALLED"]_vars
    <2> SUFFICES ASSUME EvidenceInv, [Next]_vars, NEW k \in Keys,
                        plan'.resumedBy = k, plan.resumedBy # k
                 PROVE  /\ plan.run = "PAUSED"
                        /\ request[k].proof >= plan.pausedIn
                        /\ request[k].proof <= fact.in
                        /\ entry # "CALLED"
      OBVIOUS
    <2>0. ResumeActivation(k) /\ plan.run # "ACTIVE"
      BY <1>1
    <2>1. GoodFor(k)
      BY <2>0 DEF ResumeActivation, Fresh, Decides, Current, GoodFor
    <2>2. /\ plan.run = "PAUSED" /\ plan.pausedIn <= request[k].proof
          /\ entry # "CALLED" /\ request[k].proof <= fact.in
      BY <2>1 DEF EvidenceInv
    <2>3. plan.pausedIn \in Nat /\ request[k].proof \in Nat
      BY MaxLossesAssumption DEF EvidenceInv, TypeOK, WellFormed, Plan
    <2> QED
      BY <2>2, <2>3
  <1> QED
    BY <1>2, EvidenceInit, EvidenceStep, PTL DEF Spec, ResumeIsProven

(***************************************************************************)
(* Completion.  What the rows record and what the venue holds are tied     *)
(* together entry by entry; a closed entry leaves nothing behind, and only *)
(* an activation without an open entry completes.                          *)
(***************************************************************************)

ClosingInv ==
  /\ TypeOK
  \* a recorded fill is a fill of the order, and reduces to nothing
  /\ exposure # "NONE" => order = "FILLED"
  /\ position <=> order = "FILLED" /\ exposure # "FLAT"
  /\ ended => order \in {"FILLED", "CANCELED"}
  \* what was reduced had been protected, and consumed the opportunity
  /\ exposure = "FLAT" => plan.hasFill
  /\ plan.hasFill => plan.consumed
  \* the entry and its order
  /\ entry \in {"NONE", "READY"} => order = "NONE"
  /\ entry = "CLOSED" => order # "WORKING" /\ (order = "FILLED" => exposure = "FLAT")
  /\ entry = "HANDED_OVER" => Final(plan)
  \* the closing, between its transactions and afterwards
  /\ loop.step = "PROVEN" => entry \in {"CLOSED", "HANDED_OVER"}
  /\ executor # "UP" => loop.step = "IDLE"
  /\ plan.lifecycle = "COMPLETED" => entry \notin OpenEntry

LEMMA ClosingInit == Init => ClosingInv
  BY TypeInit DEF Init, ClosingInv, NoSnapshot, OpenEntry

LEMMA ClosingImplies == ClosingInv => CompletedLeavesNothing
  BY DEF ClosingInv, CompletedLeavesNothing, OpenEntry, TypeOK

\* The row completes only when no entry is open.
LEMMA OwnerCompletes ==
  ASSUME TypeOK, NEW k \in Keys, OwnerStep(k), plan.lifecycle # "COMPLETED",
         plan'.lifecycle = "COMPLETED"
  PROVE  entry \notin OpenEntry
  <1>0. plan \in Plan
    BY DEF TypeOK, WellFormed
  <1>1. ASSUME NEW p, plan' = CompletedIfNone(p, k), p.lifecycle # "COMPLETED"
        PROVE  entry \notin OpenEntry
    BY <1>1 DEF CompletedIfNone, NoVenueResponsibility
  <1>2. CASE ExitStrategy(k)
    <2>1. Exited(plan).lifecycle = "EXITING"
      BY <1>0, Zenon DEF Exited, Plan
    <2> QED
      BY <1>1, <1>2, <2>1 DEF ExitStrategy
  <1>3. CASE UserTakeover(k)
    <2>1. TakenOver(plan, k).lifecycle = "USER_TAKEOVER"
      BY <1>0, Zenon DEF TakenOver, Plan
    <2> QED
      BY <1>1, <1>3, <2>1 DEF UserTakeover
  <1>4. ~ResumeActivation(k)
    <2>1. Resumed(plan, k).lifecycle = plan.lifecycle
      BY <1>0, Zenon DEF Resumed, Plan
    <2> QED
      BY <2>1 DEF ResumeActivation
  <1>5. plan' # plan
    OBVIOUS
  <1> QED
    BY <1>2, <1>3, <1>4, <1>5
    DEF OwnerStep, Ask, Retry, ReadProof, StopNewRisk, RejectResume, RejectVersion,
        AnswerOnly

LEMMA ExecutorCompletes ==
  ASSUME TypeOK, ExecutorStep, plan.lifecycle # "COMPLETED",
         plan'.lifecycle = "COMPLETED"
  PROVE  CloseActivation \/ (ConsumeOpportunity /\ entry = "NONE")
  <1>0. plan \in Plan
    BY DEF TypeOK, WellFormed
  <1>1. plan' # plan
    OBVIOUS
  <1>2. ~ProtectFill
    <2>1. ProtectFill => plan'.lifecycle = plan.lifecycle
      BY <1>0, Zenon DEF ProtectFill, Plan
    <2> QED
      BY <2>1
  <1>3. ~ProtectionWorks
    <2>1. ProtectionWorks => plan'.lifecycle = plan.lifecycle
      BY <1>0, Zenon DEF ProtectionWorks, Plan
    <2> QED
      BY <2>1
  <1>4. ConsumeOpportunity => entry = "NONE"
    <2>1. [plan EXCEPT !.consumed = TRUE, !.version = @ + 1].lifecycle = plan.lifecycle
      BY <1>0, Zenon DEF Plan
    <2> QED
      BY <2>1 DEF ConsumeOpportunity
  <1>5. ~PauseForLoss
    <2> DEFINE paused == [plan EXCEPT !.run = "PAUSED", !.pausedIn = losses',
                                      !.resumedBy = None, !.version = @ + 1]
               freed == [plan EXCEPT !.run = "ACTIVE", !.pausedIn = 0,
                                     !.resumedBy = None, !.version = @ + 1]
    <2>1. paused.lifecycle = plan.lifecycle /\ freed.lifecycle = plan.lifecycle
      BY <1>0, Zenon DEF Plan
    <2>2. PauseForLoss => plan' \in {paused, freed, plan}
      BY DEF PauseForLoss
    <2> QED
      BY <2>1, <2>2
  <1> QED
    BY <1>1, <1>2, <1>3, <1>4, <1>5
    DEF ExecutorStep, CreateEntry, DispatchEntry, RejectEntry, Recognise,
        RecordFill, RecordEnd, Reduce, RecordPosition, HandOver, StartSync,
        AbandonSync, Prove, Crash, Start, ExpireEntry, InvalidateEntry

LEMMA ClosingOwner ==
  ASSUME ClosingInv, NEW k \in Keys, OwnerStep(k)
  PROVE  ClosingInv'
  <1>0. TypeOK /\ TypeOK' /\ Follows(plan, plan')
    BY TypeOwner, PlanFollows DEF ClosingInv, Next
  <1>1. UNCHANGED <<exposure, ended, entry, order, position, executor, loop>>
    BY DEF OwnerStep, Ask, Retry, ReadProof, StopNewRisk, ResumeActivation,
           RejectResume, ExitStrategy, UserTakeover, RejectVersion, AnswerOnly,
           Fresh, Decides, rows, venue
  <1>2. plan'.lifecycle = "COMPLETED" => entry \notin OpenEntry
    BY <1>0, OwnerCompletes DEF ClosingInv
  <1>3. /\ exposure = "FLAT" => plan'.hasFill
        /\ plan'.hasFill => plan'.consumed
        /\ entry = "HANDED_OVER" => Final(plan')
    BY <1>0 DEF ClosingInv, Follows
  <1> QED
    BY <1>0, <1>1, <1>2, <1>3 DEF ClosingInv

LEMMA ClosingExecutor ==
  ASSUME ClosingInv, ExecutorStep
  PROVE  ClosingInv'
  <1>0. TypeOK /\ TypeOK' /\ Follows(plan, plan')
    BY TypeExecutor, PlanFollows DEF ClosingInv, Next
  <1>1. /\ plan.hasFill => plan'.hasFill
        /\ plan'.hasFill => plan'.consumed
        /\ Final(plan) => Final(plan')
    BY <1>0 DEF ClosingInv, Follows
  <1>2. plan'.lifecycle = "COMPLETED" =>
          entry \notin OpenEntry
    BY <1>0, ExecutorCompletes DEF ClosingInv, OpenEntry, CloseActivation
  <1> USE DEF ClosingInv, OpenEntry
  <1>3. CASE CreateEntry
    <2>1. order \notin {"WORKING", "FILLED"}
      BY <1>0, <1>3 DEF CreateEntry, Final, TypeOK
    <2> QED
      BY <1>0, <1>1, <1>3, <2>1 DEF CreateEntry, Free, Final
  <1>4. CASE DispatchEntry
    BY <1>0, <1>1, <1>4 DEF DispatchEntry, Free, Final
  <1>5. CASE RejectEntry
    BY <1>0, <1>1, <1>2, <1>5 DEF RejectEntry, Free, venue
  <1>6. CASE Recognise
    BY <1>0, <1>1, <1>2, <1>6 DEF Recognise, Free, Opened, venue
  <1>7. CASE RecordFill
    BY <1>0, <1>1, <1>2, <1>7 DEF RecordFill, Free, Opened, venue
  <1>8. CASE RecordEnd
    BY <1>0, <1>1, <1>2, <1>8 DEF RecordEnd, Free, Opened, venue
  <1>9. CASE Reduce
    BY <1>0, <1>1, <1>2, <1>9 DEF Reduce, Free
  <1>10. CASE HandOver
    BY <1>0, <1>1, <1>2, <1>10 DEF HandOver, Free, Final, venue
  <1>11. CASE Prove
    BY <1>0, <1>1, <1>2, <1>11 DEF Prove, Free, FillsComplete, venue, TypeOK
  <1>12. CASE StartSync \/ AbandonSync
    BY <1>0, <1>1, <1>2, <1>12
    DEF StartSync, AbandonSync, NoSnapshot, Free, rows, venue
  <1>13. CASE CloseActivation \/ Crash \/ PauseForLoss \/ Start
    BY <1>0, <1>1, <1>2, <1>13
    DEF CloseActivation, Crash, PauseForLoss, Start, NoSnapshot, rows, venue
  <1>14. CASE ProtectFill \/ ProtectionWorks \/ ConsumeOpportunity \/ RecordPosition
    BY <1>0, <1>1, <1>2, <1>14
    DEF ProtectFill, ProtectionWorks, ConsumeOpportunity, RecordPosition, rows,
        venue
  <1> QED
    BY <1>3, <1>4, <1>5, <1>6, <1>7, <1>8, <1>9, <1>10, <1>11, <1>12, <1>13, <1>14
    DEF ExecutorStep, ExpireEntry, InvalidateEntry

LEMMA ClosingStep == ClosingInv /\ [Next]_vars => ClosingInv'
  <1> SUFFICES ASSUME ClosingInv, [Next]_vars PROVE ClosingInv'
    OBVIOUS
  <1>0. TypeOK /\ TypeOK'
    BY TypeStep DEF ClosingInv
  <1>1. CASE \E k \in Keys : OwnerStep(k)
    BY <1>1, ClosingOwner
  <1>2. CASE ExecutorStep
    BY <1>2, ClosingExecutor
  <1>3. CASE FillOrder \/ EndOrder \/ WindowEnds
    BY <1>0, <1>3 DEF ClosingInv, FillOrder, EndOrder, WindowEnds, rows, venue
  <1>4. CASE UNCHANGED vars
    BY <1>0, <1>4 DEF ClosingInv, vars, rows, venue
  <1> QED
    BY <1>1, <1>2, <1>3, <1>4 DEF Next

\* A completed activation leaves no order and no position behind, whatever was
\* committed between the reading of the account and the closing, for any number
\* of commands and of losses of the Executor.
THEOREM CompletionLeavesNothing == Spec => []CompletedLeavesNothing
  BY ClosingInit, ClosingImplies, ClosingStep, PTL DEF Spec

================================================================================
