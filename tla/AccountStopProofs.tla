--------------------------- MODULE AccountStopProofs ---------------------------
(***************************************************************************)
(* Theorems about AccountStop, for every set of activations and requests,  *)
(* every assignment of keys and every bound on time and trades.            *)
(***************************************************************************)
EXTENDS AccountStop, SequenceTheorems, TLAPS

(***************************************************************************)
(* Type correctness.                                                       *)
(***************************************************************************)

LEMMA TypeInit == Init => TypeOK
  <1> SUFFICES ASSUME Init PROVE TypeOK
    OBVIOUS
  <1>1. 0 \in Times
    BY MaxTimeAssumption DEF Times
  <1>2. stops \in Seq(StopVersion)
    BY DEF Init
  <1>3. /\ position \in BOOLEAN /\ order \in BOOLEAN
        /\ trades \in Nat
    BY Zenon DEF Init
  <1>4. answers \in [Queries -> {"NONE", "PENDING", "HELD", "NOTHING"}]
    BY DEF Init, NotReading
  <1> QED
    BY <1>1, <1>2, <1>3, <1>4 DEF Init, TypeOK

\* What an appended version leaves and adds.
LEMMA Appended ==
  ASSUME stops \in Seq(StopVersion), NEW v \in StopVersion,
         stops' = Append(stops, v)
  PROVE  /\ stops' \in Seq(StopVersion)
         /\ stops' # <<>>
         /\ Len(stops) \in Nat
         /\ Len(stops') = Len(stops) + 1
         /\ \A n \in 1..Len(stops) : stops'[n] = stops[n]
         /\ stops'[Len(stops')] = v
  BY AppendProperties

LEMMA StopForType ==
  ASSUME NEW t \in Transaction
  PROVE  StopFor(t) \in StopVersion /\ FactFor(t) \in Fact
  BY MaxTimeAssumption DEF StopFor, FactFor, StopVersion, Fact, Transaction, Times

LEMMA ReleaseForType ==
  ASSUME NEW r \in Requests, request[r] \in RequestState
  PROVE  ReleaseFor(r) \in StopVersion
  BY DEF ReleaseFor, StopVersion, RequestState

LEMMA TickType ==
  ASSUME now \in Times, Tick
  PROVE  now' \in Times
  BY MaxTimeAssumption DEF Tick, Times

LEMMA StepOfRequest ==
  ASSUME NEW r \in Requests, request[r].step # "IDLE",
         request \in [Requests -> {Idle} \cup RequestState]
  PROVE  request[r] \in RequestState
  BY DEF Idle

LEMMA TypeStep == TypeOK /\ [Next]_vars => TypeOK'
  <1> SUFFICES ASSUME TypeOK, [Next]_vars PROVE TypeOK'
    OBVIOUS
  <1> USE DEF TypeOK, venue, rows
  <1>1. CASE PlaceOrder \/ FillOrder \/ CancelOrder \/ ClosePosition
    <2>1. trades' \in Nat
      BY <1>1 DEF PlaceOrder, FillOrder, CancelOrder, ClosePosition, Trade
    <2>2. position' \in BOOLEAN /\ order' \in BOOLEAN
      BY <1>1, Zenon DEF PlaceOrder, FillOrder, CancelOrder, ClosePosition
    <2>3. reports' \in SUBSET {"WORKING", "FILL"}
      BY <1>1 DEF PlaceOrder, FillOrder, CancelOrder, ClosePosition
    <2>4. UNCHANGED <<now, venueFacts, stops, open, closedAt, recorder, answers,
                      request>>
      BY <1>1 DEF PlaceOrder, FillOrder, CancelOrder, ClosePosition
    <2> QED
      BY <2>1, <2>2, <2>3, <2>4
  <1>2. CASE BeginRecord
    <2>1. now' \in Times
      BY <1>2, TickType DEF BeginRecord
    <2>2. PICK k \in SystemSources, R \in SUBSET reports :
            recorder' = [step |-> "INSERTED", kind |-> k, at |-> now',
                         report |-> R]
      <3>1. CASE \E report \in reports :
                   recorder' = [step |-> "INSERTED", kind |-> External,
                                at |-> now', report |-> {report}]
        BY <3>1 DEF SystemSources
      <3>2. CASE recorder' = [step |-> "INSERTED", kind |-> Anomaly,
                              at |-> now', report |-> {}]
        BY <3>2 DEF SystemSources
      <3> QED
        BY <1>2, <3>1, <3>2 DEF BeginRecord
    <2>3. recorder' \in Transaction
      BY <2>1, <2>2 DEF Transaction
    <2> QED
      BY <1>2, <2>1, <2>3 DEF BeginRecord
  <1>3. CASE CommitRecord
    <2>1. recorder \in Transaction
      BY <1>3 DEF CommitRecord
    <2>2. stops' \in Seq(StopVersion) /\ venueFacts' \in SUBSET Fact
      BY <1>3, <2>1, StopForType, AppendProperties DEF CommitRecord
    <2> QED
      BY <1>3, <2>2 DEF CommitRecord
  <1>4. CASE AbortRecord
    BY <1>4 DEF AbortRecord
  <1>5. CASE StartRead \/ GiveUpRead
    BY <1>5 DEF StartRead, GiveUpRead, NotReading
  <1>6. ASSUME NEW q \in Queries, Answer(q)
        PROVE  TypeOK'
    BY <1>6 DEF Answer
  <1>7. CASE Stamp
    <2>1. now' \in Times
      BY <1>7, TickType DEF Stamp
    <2>2. PICK e \in BOOLEAN :
            venueFacts' = venueFacts \cup
              {[kind |-> "SNAPSHOT", at |-> now', empty |-> e]}
      BY <1>7, Zenon DEF Stamp
    <2>3. venueFacts' \in SUBSET Fact
      BY <2>1, <2>2 DEF Fact
    <2> QED
      BY <1>7, <2>1, <2>3 DEF Stamp, NotReading
  <1>8. ASSUME NEW p \in Activations, Activate(p)
        PROVE  TypeOK'
    BY <1>8 DEF Activate
  <1>9. ASSUME NEW p \in Activations, CloseTakenOver(p)
        PROVE  TypeOK'
    BY <1>9, TickType DEF CloseTakenOver
  <1>10. ASSUME NEW r \in Requests, Ask(r)
         PROVE  TypeOK'
    <2>1. PICK v \in 1..Len(stops), p \in Activations :
            request' = [request EXCEPT ![r] =
              [step |-> IF \E n \in 1..Len(stops) : stops[n].key = Key[r]
                          THEN "ENDED" ELSE "BEGUN",
               asked |-> now, expected |-> v, activation |-> p, cutoff |-> 0]]
      BY <1>10 DEF Ask
    <2>2. request'[r] \in RequestState
      BY <2>1, MaxTimeAssumption DEF RequestState, Times
    <2> QED
      BY <1>10, <2>1, <2>2 DEF Ask
  <1>11. ASSUME NEW r \in Requests,
                Lock(r) \/ CheckAccount(r) \/ Refuse(r)
         PROVE  TypeOK'
    <2>1. request[r] \in RequestState
      BY <1>11 DEF Lock, CheckAccount, Refuse, Idle, Locked
    <2>2. PICK s \in {"LOCKED", "CHECKED", "ENDED"} :
            request' = [request EXCEPT ![r].step = s]
      BY <1>11 DEF Lock, CheckAccount, Refuse
    <2>3. request'[r] \in RequestState
      BY <2>1, <2>2 DEF RequestState, Locked
    <2> QED
      BY <1>11, <2>2, <2>3 DEF Lock, CheckAccount, Refuse
  <1>12. ASSUME NEW r \in Requests, ReadSnapshot(r)
         PROVE  TypeOK'
    <2>1. request[r] \in RequestState
      BY <1>12 DEF ReadSnapshot, Idle
    <2>2. PICK s \in venueFacts :
            request' = [request EXCEPT ![r].step = "READ", ![r].cutoff = s.at]
      BY <1>12 DEF ReadSnapshot, Snapshots
    <2>3. s.at \in Times
      BY DEF Fact
    <2>4. request'[r] \in RequestState
      BY <2>1, <2>2, <2>3 DEF RequestState, Locked
    <2> QED
      BY <1>12, <2>2, <2>4 DEF ReadSnapshot
  <1>13. ASSUME NEW r \in Requests, CommitRelease(r)
         PROVE  TypeOK'
    <2>1. request[r] \in RequestState
      BY <1>13 DEF CommitRelease, Idle
    <2>2. stops' \in Seq(StopVersion)
      BY <1>13, <2>1, ReleaseForType, AppendProperties DEF CommitRelease
    <2>3. request'[r] \in RequestState
      BY <1>13, <2>1 DEF CommitRelease, RequestState
    <2> QED
      BY <1>13, <2>2, <2>3 DEF CommitRelease
  <1>14. CASE UNCHANGED vars
    BY <1>14 DEF vars
  <1> QED
    BY <1>1, <1>2, <1>3, <1>4, <1>5, <1>6, <1>7, <1>8, <1>9, <1>10, <1>11,
       <1>12, <1>13, <1>14
    DEF Next

\* Every reachable state is well typed.
THEOREM TypeCorrect == Spec => []TypeOK
  BY TypeInit, TypeStep, PTL DEF Spec

(***************************************************************************)
(* No activity is forgotten.                                               *)
(*                                                                         *)
(* The invariants say what committed rows show; a request that is on its   *)
(* way carries the rest of the argument.  Nobody else holds the lock, so   *)
(* no version and no fact that demands one is committed while it is there, *)
(* and once it has asked for later facts all of them are behind its        *)
(* snapshot.                                                               *)
(***************************************************************************)

Exclusive ==
  \A r, s \in Requests :
    request[r].step \in Locked /\ request[s].step \in Locked => r = s

Knows(r) ==
  /\ request[r].step \in Locked =>
       /\ Stopped
       /\ request[r].expected = Len(stops)
       /\ Resolves(request[r].activation, Current.at)
  /\ request[r].step \in {"READ", "CHECKED"} => request[r].cutoff >= Current.at
  /\ request[r].step = "CHECKED" =>
       \A f \in venueFacts :
         f.kind \in SystemSources => f.at <= request[r].cutoff

HolderKnows == \A r \in Requests : Knows(r)

OpenIsNotClosed == \A p \in open : closedAt[p] = 0

StopInv ==
  /\ TypeOK
  /\ OpenIsNotClosed
  /\ Exclusive
  /\ HolderKnows
  /\ NoForgottenActivity
  /\ ConflictIsNamed
  /\ ReleaseAnswersItsStop

LEMMA StopInit == Init => StopInv
  <1> SUFFICES ASSUME Init PROVE StopInv
    OBVIOUS
  <1>1. Len(stops) = 0
    BY DEF Init
  <1>2. Exclusive /\ HolderKnows
    BY DEF Init, Exclusive, HolderKnows, Knows, Locked, Idle
  <1>3. NoForgottenActivity /\ ConflictIsNamed /\ OpenIsNotClosed
    BY DEF Init, NoForgottenActivity, ConflictIsNamed, OpenIsNotClosed
  <1>4. ReleaseAnswersItsStop
    BY <1>1 DEF ReleaseAnswersItsStop
  <1> QED
    BY <1>2, <1>3, <1>4, TypeInit DEF StopInv

\* A step that commits no version, moves no request, commits no fact that
\* demands a stop and leaves closed activations closed disturbs nothing.
LEMMA QuietStep ==
  ASSUME StopInv, UNCHANGED <<stops, request>>,
         \A f \in venueFacts' : f \in venueFacts \/ f.kind = "SNAPSHOT",
         \A p \in Activations :
           closedAt[p] > 0 => closedAt'[p] = closedAt[p]
  PROVE  /\ Exclusive' /\ HolderKnows'
         /\ NoForgottenActivity' /\ ConflictIsNamed' /\ ReleaseAnswersItsStop'
  <1> USE DEF StopInv
  <1>1. "SNAPSHOT" \notin SystemSources
    BY DEF SystemSources, Anomaly, External
  <1>2. Exclusive'
    BY DEF Exclusive
  <1>3. (Stopped' <=> Stopped) /\ Current' = Current
    BY DEF Stopped, Current
  <1>4. ASSUME NEW r \in Requests, request[r].step \in Locked
        PROVE  request[r].activation \in Activations
    BY <1>4 DEF TypeOK, Locked, Idle, RequestState
  <1>5. HolderKnows'
    <2> SUFFICES ASSUME NEW r \in Requests PROVE Knows(r)'
      BY DEF HolderKnows
    <2>1. Knows(r)
      BY DEF HolderKnows
    <2>2. request[r].step \in Locked =>
            Resolves(request[r].activation, Current.at)'
      BY <1>3, <1>4, <2>1 DEF Knows, Resolves
    <2>3. request[r].step = "CHECKED" =>
            \A f \in venueFacts' :
              f.kind \in SystemSources => f.at <= request[r].cutoff
      BY <1>1, <2>1 DEF Knows
    <2> QED
      BY <1>3, <2>1, <2>2, <2>3 DEF Knows
  <1>6. \A f : LiftedAfter(f)' <=> LiftedAfter(f)
    BY DEF LiftedAfter
  <1>7. NoForgottenActivity'
    BY <1>1, <1>3, <1>6 DEF NoForgottenActivity
  <1>8. ConflictIsNamed'
    BY <1>1, <1>3, <1>6 DEF ConflictIsNamed, SystemSources, External
  <1>9. ReleaseAnswersItsStop'
    BY DEF ReleaseAnswersItsStop
  <1> QED
    BY <1>2, <1>5, <1>7, <1>8, <1>9

\* A request on its way commits nothing.
LEMMA RequestStep ==
  ASSUME StopInv, NEW r \in Requests,
         Ask(r) \/ Lock(r) \/ ReadSnapshot(r) \/ CheckAccount(r) \/ Refuse(r)
  PROVE  Exclusive' /\ HolderKnows'
  <1> USE DEF StopInv
  <1>1. UNCHANGED <<venueFacts, stops, closedAt>>
    BY DEF Ask, Lock, ReadSnapshot, CheckAccount, Refuse, rows
  <1>2. (Stopped' <=> Stopped) /\ Current' = Current
    BY <1>1 DEF Stopped, Current
  <1>3. \A s \in Requests \ {r} : request'[s] = request[s]
    BY DEF Ask, Lock, ReadSnapshot, CheckAccount, Refuse, TypeOK
  <1>4. ASSUME NEW s \in Requests \ {r} PROVE Knows(s)'
    <2>1. Knows(s)
      BY DEF HolderKnows
    <2> QED
      BY <1>1, <1>2, <1>3, <2>1 DEF Knows, Resolves
  <1>10. ASSUME Knows(r)' PROVE HolderKnows'
    BY <1>4, <1>10 DEF HolderKnows
  <1>11. ASSUME request'[r].step \in Locked => request[r].step \in Locked
         PROVE  Exclusive'
    BY <1>3, <1>11 DEF Exclusive
  <1>5. CASE Ask(r)
    <2>1. request'[r].step \in {"ENDED", "BEGUN"}
      BY <1>5 DEF Ask, TypeOK
    <2>2. Knows(r)'
      BY <2>1 DEF Knows, Locked
    <2> QED
      BY <1>10, <1>11, <2>1, <2>2 DEF Locked
  <1>6. CASE Refuse(r)
    <2>1. request[r] \in RequestState
      BY <1>6 DEF Refuse, TypeOK, Idle, Locked
    <2>2. request'[r].step = "ENDED"
      BY <1>6, <2>1 DEF Refuse, TypeOK, RequestState
    <2>3. Knows(r)'
      BY <2>2 DEF Knows, Locked
    <2> QED
      BY <1>10, <1>11, <2>2, <2>3 DEF Locked
  <1>7. CASE Lock(r)
    <2>1. request[r] \in RequestState
      BY <1>7 DEF Lock, TypeOK, Idle
    <2>2. /\ request'[r].step = "LOCKED"
          /\ request'[r].expected = request[r].expected
          /\ request'[r].activation = request[r].activation
      BY <1>7, <2>1 DEF Lock, TypeOK, RequestState
    <2>3. Exclusive'
      BY <1>3, <1>7 DEF Exclusive, Lock, LockFree
    <2>4. /\ Stopped' /\ request'[r].expected = Len(stops')
          /\ Resolves(request[r].activation, Current.at)'
      BY <1>1, <1>2, <1>7, <2>2 DEF Lock, Resolves
    <2>5. Knows(r)'
      BY <2>2, <2>4 DEF Knows, Locked
    <2> QED
      BY <1>10, <2>3, <2>5
  <1>8. CASE ReadSnapshot(r)
    <2>0. request[r].step = "LOCKED"
      BY <1>8 DEF ReadSnapshot
    <2>1. request[r] \in RequestState /\ request[r].step = "LOCKED"
      BY <2>0, StepOfRequest DEF TypeOK
    <2>2. PICK s \in Snapshots(Current.at) :
            request' = [request EXCEPT ![r].step = "READ", ![r].cutoff = s.at]
      BY <1>8 DEF ReadSnapshot
    <2>3. /\ request'[r].step = "READ"
          /\ request'[r].cutoff = s.at
          /\ request'[r].expected = request[r].expected
          /\ request'[r].activation = request[r].activation
      BY <2>1, <2>2 DEF TypeOK, RequestState
    <2>4. request'[r].cutoff >= Current'.at
      BY <1>2, <2>3 DEF Snapshots
    <2>5. /\ Stopped' /\ request'[r].expected = Len(stops')
          /\ Resolves(request[r].activation, Current.at)'
      <3>1. Knows(r)
        BY DEF HolderKnows
      <3> QED
        BY <1>1, <1>2, <2>1, <2>3, <3>1 DEF Knows, Resolves, Locked
    <2>6. Exclusive'
      BY <1>11, <2>1 DEF Locked
    <2>7. Knows(r)'
      BY <2>3, <2>4, <2>5 DEF Knows, Locked
    <2> QED
      BY <1>10, <2>6, <2>7
  <1>9. CASE CheckAccount(r)
    <2>1. request[r] \in RequestState /\ request[r].step = "READ"
      BY <1>9 DEF CheckAccount, TypeOK, Idle
    <2>2. /\ request'[r].step = "CHECKED"
          /\ request'[r].cutoff = request[r].cutoff
          /\ request'[r].expected = request[r].expected
          /\ request'[r].activation = request[r].activation
      BY <1>9, <2>1 DEF CheckAccount, TypeOK, RequestState
    <2>3. \A f \in venueFacts' : f.at <= request'[r].cutoff
      <3>1. ASSUME NEW f \in venueFacts PROVE ~(f.at > request[r].cutoff)
        BY <1>9 DEF CheckAccount, Later
      <3>2. \A f \in venueFacts : f.at \in Nat
        BY DEF TypeOK, Fact, Times
      <3>3. request[r].cutoff \in Nat
        BY <2>1 DEF RequestState, Times
      <3> QED
        BY <1>1, <2>2, <3>1, <3>2, <3>3
    <2>4. /\ Stopped' /\ request'[r].expected = Len(stops')
          /\ Resolves(request[r].activation, Current.at)'
          /\ request'[r].cutoff >= Current'.at
      <3>1. Knows(r)
        BY DEF HolderKnows
      <3> QED
        BY <1>1, <1>2, <2>1, <2>2, <3>1 DEF Knows, Resolves, Locked
    <2>5. Exclusive'
      BY <1>11, <2>1 DEF Locked
    <2>6. Knows(r)'
      BY <2>2, <2>3, <2>4 DEF Knows, Locked
    <2> QED
      BY <1>10, <2>5, <2>6
  <1> QED
    BY <1>5, <1>6, <1>7, <1>8, <1>9

\* What a release has lifted stays lifted when a version is appended.
LEMMA LiftedStays ==
  ASSUME stops \in Seq(StopVersion), NEW v \in StopVersion,
         stops' = Append(stops, v),
         NEW f, LiftedAfter(f)
  PROVE  LiftedAfter(f)'
  BY Appended DEF LiftedAfter

LEMMA RecordStep ==
  ASSUME StopInv, CommitRecord
  PROVE  /\ Exclusive' /\ HolderKnows'
         /\ NoForgottenActivity' /\ ConflictIsNamed' /\ ReleaseAnswersItsStop'
  <1> USE DEF StopInv
  <1>1. recorder \in Transaction /\ FactFor(recorder) \in Fact
    BY StopForType DEF CommitRecord, TypeOK
  <1>2. /\ venueFacts' = venueFacts \cup {FactFor(recorder)}
        /\ UNCHANGED <<closedAt, request>>
    BY DEF CommitRecord
  <1>3. Exclusive' /\ HolderKnows'
    <2>1. \A r \in Requests : request'[r].step \notin Locked
      BY <1>2 DEF CommitRecord, LockFree
    <2> QED
      BY <2>1 DEF Exclusive, HolderKnows, Knows, Locked
  <1>4. /\ recorder.kind \in SystemSources
        /\ FactFor(recorder).kind = recorder.kind
    BY <1>1 DEF Transaction, FactFor
  <1>5. CASE Absorbs(recorder.kind)
    <2>1. stops' = stops
      BY <1>5 DEF CommitRecord
    <2>2. (Stopped' <=> Stopped) /\ Current' = Current /\ Stopped
      BY <1>5, <2>1 DEF Stopped, Current, Absorbs
    <2>3. \A f : LiftedAfter(f)' <=> LiftedAfter(f)
      BY <2>1 DEF LiftedAfter
    <2>4. NoForgottenActivity'
      BY <2>2 DEF NoForgottenActivity
    <2>5. ASSUME NEW f \in venueFacts', f.kind = External
          PROVE  LiftedAfter(f)' \/ (stops' # <<>> /\ Current'.source = External)
      <3>1. CASE f \in venueFacts
        BY <2>1, <2>2, <2>3, <2>5, <3>1 DEF ConflictIsNamed
      <3>2. CASE f = FactFor(recorder)
        <4>1. recorder.kind = External
          BY <1>4, <2>5, <3>2
        <4>2. Current.source = External /\ stops # <<>>
          BY <1>5, <4>1 DEF Absorbs, Stopped
        <4> QED
          BY <2>1, <2>2, <4>2
      <3> QED
        BY <1>2, <3>1, <3>2
    <2>6. ConflictIsNamed'
      BY <2>5 DEF ConflictIsNamed
    <2>7. ReleaseAnswersItsStop'
      BY <1>2, <2>1 DEF ReleaseAnswersItsStop
    <2> QED
      BY <1>3, <2>4, <2>6, <2>7
  <1>6. CASE ~Absorbs(recorder.kind)
    <2>1. /\ stops \in Seq(StopVersion)
          /\ StopFor(recorder) \in StopVersion
          /\ stops' = Append(stops, StopFor(recorder))
      BY <1>1, <1>6, StopForType DEF CommitRecord, TypeOK
    <2>2. /\ stops' # <<>>
          /\ Len(stops) \in Nat
          /\ Len(stops') = Len(stops) + 1
          /\ \A n \in 1..Len(stops) : stops'[n] = stops[n]
          /\ stops'[Len(stops')] = StopFor(recorder)
      BY <2>1, Appended
    <2>3. Stopped' /\ Current'.source = recorder.kind
      BY <1>4, <2>2 DEF Stopped, Current, StopFor
    <2>4. NoForgottenActivity'
      BY <2>3 DEF NoForgottenActivity
    <2>5. ASSUME NEW f \in venueFacts', f.kind = External,
                 recorder.kind # External
          PROVE  LiftedAfter(f)'
      <3>1. f \in venueFacts
        BY <1>2, <1>4, <2>5
      <3>2. ~(stops # <<>> /\ Current.source = External)
        BY <1>6 DEF Absorbs, Stopped, SystemSources
      <3>3. LiftedAfter(f)
        BY <2>5, <3>1, <3>2 DEF ConflictIsNamed
      <3> QED
        BY <2>1, <3>3, LiftedStays
    <2>6. ConflictIsNamed'
      BY <2>2, <2>3, <2>5 DEF ConflictIsNamed
    <2>7. StopFor(recorder).source # Release
      BY <1>4 DEF StopFor, SystemSources, Anomaly, External, Release
    <2>8. ReleaseAnswersItsStop'
      <3> SUFFICES ASSUME NEW n \in 1..Len(stops'), stops'[n].source = Release
                   PROVE  /\ n > 1
                          /\ stops'[n].lifted = n - 1
                          /\ stops'[n-1].source \in SystemSources
                          /\ stops'[n].cutoff >= stops'[n-1].at
                          /\ \E p \in Activations :
                               closedAt[p] > 0 /\ closedAt[p] >= stops'[n-1].at
        BY <1>2 DEF ReleaseAnswersItsStop
      <3>1. n \in 1..Len(stops)
        BY <2>2, <2>7
      <3>2. n > 1 => n - 1 \in 1..Len(stops)
        BY <2>2, <3>1
      <3> QED
        BY <2>2, <3>1, <3>2 DEF ReleaseAnswersItsStop
    <2> QED
      BY <1>3, <2>4, <2>6, <2>8
  <1> QED
    BY <1>5, <1>6

LEMMA ReleaseStep ==
  ASSUME StopInv, NEW r \in Requests, CommitRelease(r)
  PROVE  /\ Exclusive' /\ HolderKnows'
         /\ NoForgottenActivity' /\ ConflictIsNamed' /\ ReleaseAnswersItsStop'
  <1> USE DEF StopInv
  <1>1. request[r].step = "CHECKED" /\ request[r] \in RequestState
    BY StepOfRequest DEF CommitRelease, TypeOK
  <1>2. /\ Stopped
        /\ request[r].expected = Len(stops)
        /\ Resolves(request[r].activation, Current.at)
        /\ request[r].cutoff >= Current.at
        /\ \A f \in venueFacts :
             f.kind \in SystemSources => f.at <= request[r].cutoff
    BY <1>1 DEF HolderKnows, Knows, Locked
  <1>3. /\ stops \in Seq(StopVersion)
        /\ ReleaseFor(r) \in StopVersion
        /\ stops' = Append(stops, ReleaseFor(r))
    BY <1>1, ReleaseForType DEF CommitRelease, TypeOK
  <1>4. /\ stops' # <<>>
        /\ Len(stops) \in Nat
        /\ Len(stops') = Len(stops) + 1
        /\ \A n \in 1..Len(stops) : stops'[n] = stops[n]
        /\ stops'[Len(stops')] = ReleaseFor(r)
    BY <1>3, Appended
  <1>5. UNCHANGED <<venueFacts, closedAt>>
    BY DEF CommitRelease
  <1>6. \A s \in Requests : request'[s].step \notin Locked
    <2>1. request'[r].step = "ENDED"
      BY <1>1 DEF CommitRelease, TypeOK, RequestState
    <2>2. \A s \in Requests \ {r} :
            request'[s] = request[s] /\ request[s].step \notin Locked
      BY <1>1 DEF CommitRelease, TypeOK, Exclusive, Locked
    <2> QED
      BY <2>1, <2>2 DEF Locked
  <1>7. Exclusive' /\ HolderKnows'
    BY <1>6 DEF Exclusive, HolderKnows, Knows, Locked
  <1>8. ASSUME NEW f \in venueFacts, f.kind \in SystemSources
        PROVE  LiftedAfter(f)'
    <2>1. Len(stops') \in 1..Len(stops')
      BY <1>4
    <2>2. /\ stops'[Len(stops')].source = Release
          /\ stops'[Len(stops')].cutoff = request[r].cutoff
      BY <1>4 DEF ReleaseFor
    <2> QED
      BY <1>2, <1>8, <2>1, <2>2 DEF LiftedAfter
  <1>9. NoForgottenActivity'
    BY <1>5, <1>8 DEF NoForgottenActivity
  <1>10. ConflictIsNamed'
    BY <1>5, <1>8 DEF ConflictIsNamed, SystemSources
  <1>11. ReleaseAnswersItsStop'
    <2> SUFFICES ASSUME NEW n \in 1..Len(stops'), stops'[n].source = Release
                 PROVE  /\ n > 1
                        /\ stops'[n].lifted = n - 1
                        /\ stops'[n-1].source \in SystemSources
                        /\ stops'[n].cutoff >= stops'[n-1].at
                        /\ \E p \in Activations :
                             closedAt[p] > 0 /\ closedAt[p] >= stops'[n-1].at
      BY <1>5 DEF ReleaseAnswersItsStop
    <2>1. CASE n = Len(stops')
      <3>1. /\ Len(stops) > 0
            /\ n - 1 = Len(stops)
            /\ stops'[n-1] = Current
            /\ Current.source \in SystemSources
        BY <1>2, <1>3, <1>4, <2>1 DEF Stopped, Current
      <3>2. /\ stops'[n].lifted = request[r].expected
            /\ stops'[n].cutoff = request[r].cutoff
        BY <1>4, <2>1 DEF ReleaseFor
      <3>3. \E p \in Activations :
              closedAt[p] > 0 /\ closedAt[p] >= stops'[n-1].at
        BY <1>1, <1>2, <3>1 DEF Resolves, RequestState
      <3> QED
        BY <1>2, <1>4, <3>1, <3>2, <3>3
    <2>2. CASE n # Len(stops')
      <3>1. n \in 1..Len(stops)
        BY <1>4, <2>2
      <3>2. n > 1 => n - 1 \in 1..Len(stops)
        BY <1>4, <3>1
      <3> QED
        BY <1>4, <3>1, <3>2 DEF ReleaseAnswersItsStop
    <2> QED
      BY <2>1, <2>2
  <1> QED
    BY <1>7, <1>9, <1>10, <1>11

LEMMA StopStep == StopInv /\ [Next]_vars => StopInv'
  <1> SUFFICES ASSUME StopInv, [Next]_vars PROVE StopInv'
    OBVIOUS
  <1>1. TypeOK'
    BY TypeStep DEF StopInv
  <1> USE DEF venue, rows
  <1>2. OpenIsNotClosed'
    <2>1. CASE \E p \in Activations : Activate(p) \/ CloseTakenOver(p)
      BY <2>1 DEF Activate, CloseTakenOver, StopInv, OpenIsNotClosed, TypeOK
    <2>2. CASE UNCHANGED <<open, closedAt>>
      BY <2>2 DEF StopInv, OpenIsNotClosed
    <2> QED
      BY <2>1, <2>2
      DEF Next, vars, PlaceOrder, FillOrder, CancelOrder, ClosePosition,
          BeginRecord, CommitRecord, AbortRecord, StartRead, Answer, Stamp,
          GiveUpRead, Ask, Lock, ReadSnapshot, CheckAccount, CommitRelease,
          Refuse
  <1>3. CASE CommitRecord
    BY <1>1, <1>2, <1>3, RecordStep DEF StopInv
  <1>4. ASSUME NEW r \in Requests, CommitRelease(r)
        PROVE  StopInv'
    BY <1>1, <1>2, <1>4, ReleaseStep DEF StopInv
  <1>5. ASSUME NEW r \in Requests,
               \/ Ask(r) \/ Lock(r) \/ ReadSnapshot(r) \/ CheckAccount(r)
               \/ Refuse(r)
        PROVE  StopInv'
    <2>1. Exclusive' /\ HolderKnows'
      BY <1>5, RequestStep
    <2>2. UNCHANGED <<venueFacts, stops, closedAt>>
      BY <1>5 DEF Ask, Lock, ReadSnapshot, CheckAccount, Refuse
    <2>3. (Stopped' <=> Stopped) /\ Current' = Current
      BY <2>2 DEF Stopped, Current
    <2>4. \A f : LiftedAfter(f)' <=> LiftedAfter(f)
      BY <2>2 DEF LiftedAfter
    <2>5. NoForgottenActivity' /\ ConflictIsNamed'
      BY <2>2, <2>3, <2>4 DEF StopInv, NoForgottenActivity, ConflictIsNamed
    <2>6. ReleaseAnswersItsStop'
      BY <2>2 DEF StopInv, ReleaseAnswersItsStop
    <2> QED
      BY <1>1, <1>2, <2>1, <2>5, <2>6 DEF StopInv
  <1>6. ASSUME UNCHANGED <<stops, request>>,
               \A f \in venueFacts' : f \in venueFacts \/ f.kind = "SNAPSHOT",
               \A p \in Activations :
                 closedAt[p] > 0 => closedAt'[p] = closedAt[p]
        PROVE  StopInv'
    BY <1>1, <1>2, <1>6, QuietStep DEF StopInv
  <1>7. CASE \/ PlaceOrder \/ FillOrder \/ CancelOrder \/ ClosePosition
             \/ BeginRecord \/ AbortRecord \/ StartRead \/ GiveUpRead
             \/ (\E q \in Queries : Answer(q)) \/ UNCHANGED vars
    <2>1. UNCHANGED <<venueFacts, stops, closedAt, request>>
      BY <1>7
      DEF PlaceOrder, FillOrder, CancelOrder, ClosePosition, BeginRecord,
          AbortRecord, StartRead, GiveUpRead, Answer, vars
    <2> QED
      BY <1>6, <2>1
  <1>8. CASE Stamp
    <2>1. \A f \in venueFacts' : f \in venueFacts \/ f.kind = "SNAPSHOT"
      BY <1>8 DEF Stamp
    <2>2. UNCHANGED <<stops, closedAt, request>>
      BY <1>8 DEF Stamp
    <2> QED
      BY <1>6, <2>1, <2>2
  <1>9. ASSUME NEW p \in Activations, Activate(p) \/ CloseTakenOver(p)
        PROVE  StopInv'
    <2>1. UNCHANGED <<stops, venueFacts, request>>
      BY <1>9 DEF Activate, CloseTakenOver
    <2>2. \A q \in Activations : closedAt[q] > 0 => closedAt'[q] = closedAt[q]
      BY <1>9
      DEF Activate, CloseTakenOver, StopInv, OpenIsNotClosed, TypeOK
    <2> QED
      BY <1>6, <2>1, <2>2
  <1> QED
    BY <1>3, <1>4, <1>5, <1>7, <1>8, <1>9 DEF Next

LEMMA StopInvariant == Spec => []StopInv
  BY StopInit, StopStep, PTL DEF Spec

\* A fact that demands a stop is covered by a stop in force or by a release on
\* a later snapshot, however the Executor's transactions, the observer and
\* any number of release requests interleave.
THEOREM ActivityIsNotForgotten == Spec => []NoForgottenActivity
  <1>1. StopInv => NoForgottenActivity
    BY DEF StopInv
  <1> QED
    BY <1>1, StopInvariant, PTL

\* External activity no release has lifted is the source of the current stop.
THEOREM ConflictsAreNamed == Spec => []ConflictIsNamed
  <1>1. StopInv => ConflictIsNamed
    BY DEF StopInv
  <1> QED
    BY <1>1, StopInvariant, PTL

\* A release lifts exactly the version its owner saw, on evidence younger than
\* that version.
THEOREM ReleasesAnswerTheirStop == Spec => []ReleaseAnswersItsStop
  <1>1. StopInv => ReleaseAnswersItsStop
    BY DEF StopInv
  <1> QED
    BY <1>1, StopInvariant, PTL

================================================================================
