------------------------ MODULE ExecutorProcessProofs ------------------------
(***************************************************************************)
(* Theorems about ExecutorProcess, for any number of failures and of       *)
(* bindings.                                                               *)
(*                                                                         *)
(* A process holds the executor mutex from its start to its cleanup, so    *)
(* the binding that admitted it cannot be replaced under it; it is in      *)
(* service without a recovery to come only when no call of an earlier      *)
(* process is open; and a reported stop stands on a disabled task, which   *)
(* no trigger starts.                                                      *)
(***************************************************************************)
EXTENDS ExecutorProcess, TLAPS

USE DEF task, start, rights, health, plan, file, world, process

Flags ==
  /\ enabled \in BOOLEAN /\ starting \in BOOLEAN /\ stands \in BOOLEAN /\ quiet \in BOOLEAN
  /\ mutations \in BOOLEAN /\ latched \in BOOLEAN /\ seen \in BOOLEAN /\ pending \in BOOLEAN
  /\ guarded \in BOOLEAN /\ fresh \in BOOLEAN

Values ==
  /\ stopping \in {"IDLE", "SIGNAL", "WAIT", "FORCED"}
  /\ phase \in Startup \cup {"DOWN", "RUNNING", "SERVING", "CLEANUP", "EXITING"}
  /\ mode \in {"NONE", "FULL", "RISK_ONLY"}
  /\ observer \in {"NONE", "RUNNING", "ENDED"}
  /\ loop \in {"LIVE", "STALLED"}
  /\ event \in {"NONE", "CLEAR", "SET"}
  /\ mutex \in {"FREE", "EXECUTOR", "MAINTENANCE"}
  /\ session \in {"NONE", "STARTING", "READY", "LOST"}
  /\ run \in {"ACTIVE", "PAUSED"}
  /\ acted \in {"NONE", "HERE", "EARLIER"}
  /\ unresolved \subseteq {"HERE", "EARLIER"}
  /\ gate \in {"OPEN", "CLOSED", "INVALID"}
  /\ database \in {"OK", "STALLED"}
  /\ stream \in {"HEALTHY", "OVERDUE"}
  /\ phase = "DOWN" => session = "NONE" /\ event = "NONE" /\ mutex # "EXECUTOR"

Numbers == admitted \in 0..MaxBindings /\ binding \in 0..MaxBindings /\ faults \in 0..MaxFaults

LEMMA TypeParts == TypeOK <=> Flags /\ Values /\ Numbers
  BY Zenon DEF TypeOK, Flags, Values, Numbers

\* The phases in which the process holds the mutex, and those after the gate has
\* admitted it.
Admitted == {"GATED", "PAUSED", "BUILT", "RUNNING", "SERVING", "CLEANUP"}
Holding  == Admitted \cup {"HELD"}

StopInv ==
  /\ stands => ~enabled
  /\ quiet => ~enabled /\ phase = "DOWN"

RecoveryInv == phase \in {"RUNNING", "SERVING"} /\ "EARLIER" \in unresolved => pending

HoldingInv ==
  /\ phase \in Holding => mutex = "EXECUTOR"
  /\ phase \in Admitted => admitted = binding
  /\ mutex = "MAINTENANCE" => binding < MaxBindings

Inv == TypeOK /\ StopInv /\ RecoveryInv /\ HoldingInv

(***************************************************************************)
(* Every action keeps the invariant.                                       *)
(***************************************************************************)

\* Every Boolean variable stays one.
LEMMA FlagsStep ==
  ASSUME Flags, Next
  PROVE  Flags'
  <1>1. CASE Trigger
    BY <1>1, Zenon
    DEF Flags, Trigger, Launch, Before
  <1>2. CASE Control
    <2>1. CASE StartBegin
      BY <2>1, Zenon DEF Flags, StartBegin
    <2>2. CASE StartRun
      BY <2>2, Zenon DEF Flags, StartRun, Launch, Before
    <2>3. CASE StopBegin
      BY <2>3, Zenon DEF Flags, StopBegin, Disabled
    <2>4. CASE StopSignal
      BY <2>4, Zenon DEF Flags, StopSignal
    <2>5. CASE StopReport
      BY <2>5, Zenon DEF Flags, StopReport
    <2>6. CASE StopTimeout
      BY <2>6, Zenon DEF Flags, StopTimeout, Gone, MutexAfter
    <2> QED
      BY <1>2, <2>1, <2>2, <2>3, <2>4, <2>5, <2>6 DEF Control
  <1>3. CASE Starting
    <2>1. CASE Rejected
      BY <2>1, Zenon DEF Flags, Rejected, Gone, MutexAfter
    <2>2. CASE Hold
      BY <2>2, Zenon DEF Flags, Hold
    <2>3. CASE Admit
      BY <2>3, Zenon DEF Flags, Admit
    <2>4. CASE Pause
      BY <2>4, Zenon DEF Flags, Pause, Paused
    <2>5. CASE Build
      BY <2>5, Zenon DEF Flags, Build
    <2>6. CASE Prepare
      BY <2>6 DEF Flags, Prepare, LeftOpen
    <2>7. CASE Ready
      BY <2>7, Zenon DEF Flags, Ready, Published
    <2>8. CASE Resolve
      BY <2>8, Zenon DEF Flags, Resolve, Published
    <2> QED
      BY <1>3, <2>1, <2>2, <2>3, <2>4, <2>5, <2>6, <2>7, <2>8 DEF Starting
  <1>4. CASE Working
    <2>1. CASE EnterVenue
      BY <2>1, Zenon DEF Flags, EnterVenue, CallVenue
    <2>2. CASE ReduceVenue
      BY <2>2, Zenon DEF Flags, ReduceVenue, CallVenue
    <2>3. CASE ComponentFails
      BY <2>3, Zenon DEF Flags, ComponentFails, Fault
    <2>4. CASE ObserverProbes
      BY <2>4, Zenon DEF Flags, ObserverProbes
    <2>5. CASE SeeStop
      BY <2>5, Zenon DEF Flags, SeeStop
    <2> QED
      BY <1>4, <2>1, <2>2, <2>3, <2>4, <2>5 DEF Working
  <1>5. CASE Ending
    BY <1>5, Zenon
    DEF Flags, Ending, Fail, Leave, Close, Exit, HardExit, Stall, LivenessExit, Die,
        Looping, StillGuarded, Gone, MutexAfter, Fault
  <1>6. CASE Outside
    <2>1. CASE OwnerResumes
      BY <2>1, Zenon DEF Flags, OwnerResumes
    <2>2. CASE GateExpires
      BY <2>2, Zenon DEF Flags, GateExpires
    <2>3. CASE MaintenanceBegin
      BY <2>3, Zenon DEF Flags, MaintenanceBegin, MaintenanceMay
    <2>4. CASE MaintenanceEnd
      BY <2>4, Zenon DEF Flags, MaintenanceEnd
    <2>5. CASE DatabaseMoves
      BY <2>5, Zenon DEF Flags, DatabaseMoves
    <2>6. CASE SessionBreaks
      BY <2>6, Zenon DEF Flags, SessionBreaks, Fault
    <2>7. CASE StreamMoves
      BY <2>7, Zenon DEF Flags, StreamMoves
    <2> QED
      BY <1>6, <2>1, <2>2, <2>3, <2>4, <2>5, <2>6, <2>7 DEF Outside
  <1> QED
    BY <1>1, <1>2, <1>3, <1>4, <1>5, <1>6 DEF Next

\* Every enumerated variable keeps its type, and a process that is gone holds nothing.
LEMMA ValuesStep ==
  ASSUME Values, Next
  PROVE  Values'
  <1>1. CASE Trigger
    BY <1>1
    DEF Values, Startup, Trigger, Launch, Before
  <1>2. CASE Control
    BY <1>2
    DEF Values, Startup, Control, StartBegin, StartRun, StopBegin, StopSignal, StopReport,
        StopTimeout, Launch, Before, Disabled, EventExists, Gone, MutexAfter
  <1>3. CASE Starting
    <2>1. CASE Rejected
      BY <2>1 DEF Values, Startup, Rejected, Gone, MutexAfter
    <2>2. CASE Hold
      BY <2>2 DEF Values, Startup, Hold
    <2>3. CASE Admit
      BY <2>3 DEF Values, Startup, Admit
    <2>4. CASE Pause
      BY <2>4 DEF Values, Startup, Pause, Paused
    <2>5. CASE Build
      BY <2>5 DEF Values, Startup, Build
    <2>6. CASE Prepare
      BY <2>6 DEF Values, Startup, Prepare, LeftOpen, Looping
    <2>7. CASE Ready
      BY <2>7 DEF Values, Startup, Ready, Published
    <2>8. CASE Resolve
      BY <2>8 DEF Values, Startup, Resolve, Published
    <2> QED
      BY <1>3, <2>1, <2>2, <2>3, <2>4, <2>5, <2>6, <2>7, <2>8 DEF Starting
  <1>4. CASE Working
    BY <1>4
    DEF Values, Startup, Working, EnterVenue, ReduceVenue, ComponentFails, ObserverProbes,
        SeeStop, CallVenue, Fault
  <1>5. CASE Ending
    BY <1>5
    DEF Values, Startup, Ending, Fail, Leave, Close, Exit, HardExit, Stall, LivenessExit,
        Die, Looping, StillGuarded, Gone, MutexAfter, Fault
  <1>6. CASE Outside
    BY <1>6
    DEF Values, Startup, Outside, OwnerResumes, GateExpires, MaintenanceBegin,
        MaintenanceEnd, DatabaseMoves, SessionBreaks, StreamMoves, MaintenanceMay, Fault
  <1> QED
    BY <1>1, <1>2, <1>3, <1>4, <1>5, <1>6 DEF Next

\* A binding is replaced by the one maintenance that holds the mutex.
LEMMA NumbersStep ==
  ASSUME Numbers, HoldingInv, Next
  PROVE  Numbers'
  <1>1. CASE Trigger
    BY <1>1, BoundsAssumption
    DEF Numbers, HoldingInv, Trigger, Launch, Before
  <1>2. CASE Control
    BY <1>2, BoundsAssumption
    DEF Numbers, HoldingInv, Control, StartBegin, StartRun, StopBegin, StopSignal,
        StopReport, StopTimeout, Launch, Before, Disabled, Gone, MutexAfter
  <1>3. CASE Starting
    BY <1>3, BoundsAssumption
    DEF Numbers, HoldingInv, Starting, Rejected, Hold, Admit, Pause, Build, Prepare, Ready,
        Resolve, Gone, MutexAfter, Paused, LeftOpen, Published
  <1>4. CASE Working
    BY <1>4, BoundsAssumption
    DEF Numbers, HoldingInv, Working, EnterVenue, ReduceVenue, ComponentFails,
        ObserverProbes, SeeStop, CallVenue, Fault
  <1>5. CASE Ending
    BY <1>5, BoundsAssumption
    DEF Numbers, HoldingInv, Ending, Fail, Leave, Close, Exit, HardExit, Stall,
        LivenessExit, Die, Looping, StillGuarded, Gone, MutexAfter, Fault
  <1>6. CASE Outside
    BY <1>6, BoundsAssumption
    DEF Numbers, HoldingInv, Outside, OwnerResumes, GateExpires, MaintenanceBegin,
        MaintenanceEnd, DatabaseMoves, SessionBreaks, StreamMoves, MaintenanceMay, Fault
  <1> QED
    BY <1>1, <1>2, <1>3, <1>4, <1>5, <1>6 DEF Next

\* Only a start command enables the task, and it takes both histories back.
LEMMA StopStep ==
  ASSUME Flags, StopInv, Next
  PROVE  StopInv'
  <1>1. CASE Trigger
    BY <1>1
    DEF Flags, StopInv, Trigger, Launch, Before
  <1>2. CASE Control
    BY <1>2
    DEF Flags, StopInv, Control, StartBegin, StartRun, StopBegin, StopSignal, StopReport,
        StopTimeout, Launch, Before, Disabled, Gone, MutexAfter
  <1>3. CASE Starting
    BY <1>3
    DEF Flags, StopInv, Starting, Rejected, Hold, Admit, Pause, Build, Prepare, Ready,
        Resolve, Gone, MutexAfter, Paused, LeftOpen, Published
  <1>4. CASE Working
    BY <1>4
    DEF Flags, StopInv, Working, EnterVenue, ReduceVenue, ComponentFails, ObserverProbes,
        SeeStop, CallVenue, Fault
  <1>5. CASE Ending
    BY <1>5
    DEF Flags, StopInv, Ending, Fail, Leave, Close, Exit, HardExit, Stall, LivenessExit,
        Die, Looping, StillGuarded, Gone, MutexAfter, Fault
  <1>6. CASE Outside
    BY <1>6
    DEF Flags, StopInv, Outside, OwnerResumes, GateExpires, MaintenanceBegin,
        MaintenanceEnd, DatabaseMoves, SessionBreaks, StreamMoves, MaintenanceMay, Fault
  <1> QED
    BY <1>1, <1>2, <1>3, <1>4, <1>5, <1>6 DEF Next

\* A process comes into service with the recovery pending when a call of an earlier
\* one is open, and only the resolution of that call ends it.
LEMMA RecoveryStep ==
  ASSUME Flags, Values, RecoveryInv, Next
  PROVE  RecoveryInv'
  <1>1. CASE Trigger
    BY <1>1
    DEF RecoveryInv, Flags, Trigger, Launch, Before, Looping
  <1>2. CASE Control
    BY <1>2
    DEF RecoveryInv, Flags, Control, StartBegin, StartRun, StopBegin, StopSignal,
        StopReport, StopTimeout, Launch, Before, Disabled, Gone, MutexAfter
  <1>3. CASE Starting
    BY <1>3
    DEF RecoveryInv, Flags, Starting, Rejected, Hold, Admit, Pause, Build, Prepare, Ready,
        Resolve, Gone, MutexAfter, Paused, LeftOpen, Published
  <1>4. CASE Working
    BY <1>4
    DEF RecoveryInv, Flags, Working, EnterVenue, ReduceVenue, ComponentFails,
        ObserverProbes, SeeStop, CallVenue, Fault
  <1>5. CASE Ending
    BY <1>5
    DEF RecoveryInv, Flags, Ending, Fail, Leave, Close, Exit, HardExit, Stall, LivenessExit,
        Die, Looping, StillGuarded, Gone, MutexAfter, Fault
  <1>6. CASE Outside
    BY <1>6
    DEF RecoveryInv, Flags, Outside, OwnerResumes, GateExpires, MaintenanceBegin,
        MaintenanceEnd, DatabaseMoves, SessionBreaks, StreamMoves, MaintenanceMay, Fault
  <1> QED
    BY <1>1, <1>2, <1>3, <1>4, <1>5, <1>6 DEF Next

\* The mutex and the binding that admitted a process stay while it is there.
LEMMA HoldingStep ==
  ASSUME Values, Numbers, HoldingInv, Next
  PROVE  HoldingInv'
  <1>1. CASE Trigger
    BY <1>1
    DEF HoldingInv, Holding, Admitted, Values, Numbers, Startup, Trigger, Launch, Before
  <1>2. CASE Control
    BY <1>2
    DEF HoldingInv, Holding, Admitted, Values, Numbers, Startup, Control, StartBegin,
        StartRun, StopBegin, StopSignal, StopReport, StopTimeout, Launch, Before, Disabled,
        Gone, MutexAfter
  <1>3. CASE Starting
    BY <1>3
    DEF HoldingInv, Holding, Admitted, Values, Numbers, Startup, Starting, Rejected, Hold,
        Admit, Pause, Build, Prepare, Ready, Resolve, Gone, MutexAfter, Paused, LeftOpen,
        Published
  <1>4. CASE Working
    BY <1>4
    DEF HoldingInv, Holding, Admitted, Values, Numbers, Startup, Working, EnterVenue,
        ReduceVenue, ComponentFails, ObserverProbes, SeeStop, CallVenue, Fault
  <1>5. CASE Ending
    BY <1>5
    DEF HoldingInv, Holding, Admitted, Values, Numbers, Startup, Ending, Fail, Leave, Close,
        Exit, HardExit, Stall, LivenessExit, Die, Looping, StillGuarded, Gone, MutexAfter,
        Fault
  <1>6. CASE Outside
    BY <1>6
    DEF HoldingInv, Holding, Admitted, Values, Numbers, Startup, Outside, OwnerResumes,
        GateExpires, MaintenanceBegin, MaintenanceEnd, DatabaseMoves, SessionBreaks,
        StreamMoves, MaintenanceMay, Fault
  <1> QED
    BY <1>1, <1>2, <1>3, <1>4, <1>5, <1>6 DEF Next

LEMMA InvInit == Init => Inv
  <1> SUFFICES ASSUME Init
               PROVE  Inv
    OBVIOUS
  <1>1. Flags
    BY Zenon DEF Init, Flags
  <1>2. Values
    BY DEF Init, Values, Startup
  <1>3. Numbers
    BY BoundsAssumption DEF Init, Numbers
  <1>4. StopInv /\ RecoveryInv /\ HoldingInv
    BY DEF Init, StopInv, RecoveryInv, HoldingInv, Holding, Admitted
  <1> QED
    BY <1>1, <1>2, <1>3, <1>4, TypeParts DEF Inv

LEMMA InvStep == Inv /\ [Next]_vars => Inv'
  <1> SUFFICES ASSUME Inv, [Next]_vars
               PROVE  Inv'
    OBVIOUS
  <1>1. Flags /\ Values /\ Numbers /\ StopInv /\ RecoveryInv /\ HoldingInv
    BY TypeParts DEF Inv
  <1>2. Flags' /\ Values' /\ Numbers' /\ StopInv' /\ RecoveryInv' /\ HoldingInv'
    <2>1. CASE Next
      BY <1>1, <2>1, FlagsStep, ValuesStep, NumbersStep, StopStep, RecoveryStep, HoldingStep
    <2>2. CASE UNCHANGED vars
      <3>1. Flags'
        BY <1>1, <2>2, Zenon DEF Flags, vars
      <3>2. Values' /\ Numbers'
        BY <1>1, <2>2 DEF Values, Numbers, vars
      <3>3. StopInv' /\ RecoveryInv' /\ HoldingInv'
        BY <1>1, <2>2 DEF StopInv, RecoveryInv, HoldingInv, vars
      <3> QED
        BY <3>1, <3>2, <3>3
    <2> QED
      BY <2>1, <2>2
  <1>3. TypeOK'
    BY <1>2, TypeParts, PTL
  <1> QED
    BY <1>2, <1>3 DEF Inv

\* The strengthening holds in every state of a process, whatever is killed or lost.
THEOREM Invariance == Spec => []Inv
  BY InvInit, InvStep, PTL DEF Spec

(***************************************************************************)
(* The theorems.                                                           *)
(***************************************************************************)

\* A process that is gone leaves neither a session nor the stop event nor the mutex
\* behind, and every variable keeps its type.
THEOREM TypeCorrect == Spec => []TypeOK
  <1>1. Inv => TypeOK
    BY DEF Inv
  <1> QED
    BY <1>1, Invariance, PTL

\* A reported stop holds against the triggers of the task until somebody asks for
\* a start, however the stop and the starts overlap.
THEOREM StopsAreQuiet == Spec => []StoppedIsQuiet
  <1>1. Inv => StoppedIsQuiet
    BY DEF Inv, StopInv, StoppedIsQuiet
  <1> QED
    BY <1>1, Invariance, PTL

\* No process buys before the calls of the processes before it are resolved.
THEOREM EntriesFollowRecovery == Spec => EntryAfterRecovery
  <1>1. Inv /\ [Next]_vars => [EnterVenue => "EARLIER" \notin unresolved]_vars
    <2> SUFFICES ASSUME Inv, EnterVenue
                 PROVE  "EARLIER" \notin unresolved
      OBVIOUS
    <2>1. phase \in {"RUNNING", "SERVING"} /\ ~pending
      BY DEF EnterVenue, CallVenue, Looping, MayEnter
    <2> QED
      BY <2>1 DEF Inv, RecoveryInv
  <1> QED
    BY <1>1, Invariance, PTL DEF Spec, EntryAfterRecovery

\* The binding a process was admitted under is the one in the file whenever it buys:
\* whoever replaces the file needs the mutex the process holds.
THEOREM EntriesUnderBinding == Spec => EntryUnderAdmittedBinding
  <1>1. Inv /\ [Next]_vars => [EnterVenue => binding = admitted]_vars
    <2> SUFFICES ASSUME Inv, EnterVenue
                 PROVE  binding = admitted
      OBVIOUS
    <2>1. phase \in {"RUNNING", "SERVING"}
      BY DEF EnterVenue, CallVenue, Looping
    <2> QED
      BY <2>1 DEF Inv, HoldingInv, Admitted
  <1> QED
    BY <1>1, Invariance, PTL DEF Spec, EntryUnderAdmittedBinding

==============================================================================
