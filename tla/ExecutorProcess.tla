----------------------------- MODULE ExecutorProcess -----------------------------
(***************************************************************************)
(* The life of the Executor as a process: how Windows and the control      *)
(* commands start and stop it, what it must prove before it may call the   *)
(* venue, what takes that right away again, and how it ends.               *)
(*                                                                         *)
(* A task that is enabled is started by its triggers whenever it does not  *)
(* run.  The process reads the live gate, takes the executor mutex and the *)
(* stop event, reads the gate again, pauses the activations an earlier     *)
(* process has acted for, builds the runtime, resolves what the earlier    *)
(* process left open, and reports itself ready.  From then on two loops    *)
(* watch the same database session: the main loop, whose failure ends the  *)
(* process, and the account observer, a task of its own.                   *)
(*                                                                         *)
(* One activation that is not finished stands for all.                     *)
(***************************************************************************)
EXTENDS Naturals

CONSTANTS
  MaxFaults,     \* failures of the process and of its components
  MaxBindings    \* live gate bindings that are ever provisioned

ASSUME BoundsAssumption == MaxFaults \in Nat /\ MaxBindings \in Nat \ {0}

VARIABLES
  enabled,    \* the scheduled task is enabled
  starting,   \* a start command is about to ask for a run
  stopping,   \* step of a stop command
  stands,     \* history: no start has overruled the stop command since it began
  quiet,      \* history: a stop was reported and no start has begun since
  phase,      \* process: how far it has come
  mode,       \* process: FULL or RISK_ONLY, as the startup gate admitted it
  admitted,   \* process: the binding that admitted it
  mutations,  \* process: _venue_mutations_enabled
  latched,    \* process: _fatal_component_failure
  seen,       \* process: the stop event has reached the event loop
  pending,    \* process: the startup recovery has something to resolve
  observer,   \* process: the account observer
  loop,       \* process: the event loop makes progress
  guarded,    \* process: the failure cleanup watchdog is armed
  event,      \* external: the stop event
  mutex,      \* external: who holds the executor mutex
  session,    \* external: the database session of the process and its name
  run,        \* run_state of the activation
  acted,      \* in which process the activation first got an action
  fresh,      \* history: the owner resumed while this process was there
  unresolved, \* in which processes actions were called whose outcome is unknown
  gate,       \* what the live gate file says now
  binding,    \* which binding the file holds
  database,   \* external: the server answers in time
  stream,     \* external: the execution and market streams
  faults      \* bound: failures so far

task     == <<enabled, starting, stopping, stands, quiet>>
start    == <<mode, admitted>>
rights   == <<mutations, latched, seen, pending, observer>>
health   == <<loop, guarded>>
plan     == <<run, acted, fresh, unresolved>>
file     == <<gate, binding>>
world    == <<database, stream>>
process  == <<phase, start, rights, health, event, session>>
vars == <<task, process, mutex, plan, file, world, faults>>

Startup == {"LOADED", "HELD", "GATED", "PAUSED", "BUILT"}

\* The event loop runs: the node is started, or the process is ready.
Looping == phase \in {"RUNNING", "SERVING"} /\ loop = "LIVE"

\* The stop event can be opened from the moment the mutex is held to the end of main.
EventExists == phase \notin {"DOWN", "LOADED", "EXITING"}

ProbeFails == database # "OK" \/ session = "LOST"

(***************************************************************************)
(* The end of a process, whoever causes it.                                *)
(***************************************************************************)

\* The mutex belongs to the process and goes with it, however it ends.
MutexAfter == IF mutex = "EXECUTOR" THEN "FREE" ELSE mutex

Gone ==
  /\ phase' = "DOWN"
  /\ mode' = "NONE" /\ admitted' = 0
  /\ mutations' = FALSE /\ latched' = FALSE /\ seen' = FALSE /\ pending' = FALSE
  /\ observer' = "NONE"
  /\ loop' = "LIVE" /\ guarded' = FALSE
  /\ event' = "NONE" /\ session' = "NONE"
  /\ mutex' = MutexAfter

Fault == faults < MaxFaults /\ faults' = faults + 1

\* The process is killed, or the machine goes down.
Die ==
  /\ phase # "DOWN"
  /\ Fault
  /\ Gone
  /\ UNCHANGED <<task, plan, file, world>>

(***************************************************************************)
(* The scheduled task and the lifecycle commands.                          *)
(***************************************************************************)

\* What this process has done is what an earlier one has done for the next.
Before(x) == IF x = "HERE" THEN "EARLIER" ELSE x

\* A new process; it reads the gate file before anything else.
Launch ==
  /\ enabled
  /\ phase = "DOWN"
  /\ gate # "INVALID"
  /\ phase' = "LOADED"
  /\ acted' = Before(acted)
  /\ unresolved' = {Before(x) : x \in unresolved}
  /\ fresh' = FALSE
  /\ UNCHANGED <<enabled, stopping, stands, quiet, start, rights, health, event, session, mutex,
                 run, file, world, faults>>

\* A trigger of the task: at boot, and every minute.
Trigger ==
  /\ Launch
  /\ UNCHANGED starting

\* _start_task up to the request to run.
StartBegin ==
  /\ ~starting
  /\ enabled' = TRUE
  /\ stands' = FALSE /\ quiet' = FALSE
  /\ starting' = (phase = "DOWN")
  /\ UNCHANGED <<stopping, process, mutex, plan, file, world, faults>>

\* The request starts a process, or the task runs already or is disabled again.
StartRun ==
  /\ starting
  /\ starting' = FALSE
  /\ \/ Launch
     \/ UNCHANGED <<enabled, stopping, stands, quiet, process, mutex, plan, file, world, faults>>

\* Faulty: a stop leaves the task as it is.
DisabledNever == enabled

\* A stop disables the task before anything else.
Disabled == FALSE

\* _stop_task up to the look at the state of the task.
StopBegin ==
  /\ stopping = "IDLE"
  /\ enabled' = Disabled
  /\ IF phase = "DOWN"
     THEN /\ quiet' = TRUE
          /\ UNCHANGED <<stopping, stands>>
     ELSE /\ stopping' = "SIGNAL"
          /\ stands' = TRUE
          /\ UNCHANGED quiet
  /\ UNCHANGED <<starting, process, mutex, plan, file, world, faults>>

\* signal_stop_event; without an event the command is rejected.
StopSignal ==
  /\ stopping = "SIGNAL"
  /\ IF EventExists
     THEN /\ event' = "SET"
          /\ stopping' = "WAIT"
     ELSE /\ stopping' = "IDLE"
          /\ UNCHANGED event
  /\ UNCHANGED <<enabled, starting, stands, quiet, phase, start, rights, health, session,
                 mutex, plan, file, world, faults>>

\* The task is seen to have stopped: STOPPED.
StopReport ==
  /\ stopping \in {"WAIT", "FORCED"}
  /\ phase = "DOWN"
  /\ stopping' = "IDLE"
  /\ quiet' = (quiet \/ stands)
  /\ UNCHANGED <<enabled, starting, stands, process, mutex, plan, file, world, faults>>

\* The wait takes too long: the command is rejected, or it stops the task by force
\* and waits once more.
StopTimeout ==
  /\ stopping \in {"WAIT", "FORCED"}
  /\ phase # "DOWN"
  /\ \/ /\ stopping' = "IDLE"
        /\ UNCHANGED <<process, mutex>>
     \/ /\ stopping = "WAIT"
        /\ stopping' = "FORCED"
        /\ Gone
  /\ UNCHANGED <<enabled, starting, stands, quiet, plan, file, world, faults>>

(***************************************************************************)
(* Start of the process.                                                   *)
(***************************************************************************)

\* STARTUP_REJECTED: a step of the start has failed.
Rejected ==
  /\ phase \in Startup
  /\ \/ phase = "LOADED" /\ mutex # "FREE"
     \/ phase = "HELD" /\ gate = "INVALID"
     \/ phase # "LOADED" /\ ProbeFails
  /\ Gone
  /\ UNCHANGED <<task, plan, file, world, faults>>

\* acquire_executor_mutex, create_stop_event.
Hold ==
  /\ phase = "LOADED"
  /\ mutex = "FREE"
  /\ mutex' = "EXECUTOR"
  /\ event' = "CLEAR"
  /\ phase' = "HELD"
  /\ UNCHANGED <<task, start, rights, health, session, plan, file, world, faults>>

\* require_live_write_gate_startup: the gate is read again, now with the database.
Admit ==
  /\ phase = "HELD"
  /\ gate # "INVALID" /\ database = "OK"
  /\ mode' = IF gate = "OPEN" THEN "FULL" ELSE "RISK_ONLY"
  /\ admitted' = binding
  /\ phase' = "GATED"
  /\ UNCHANGED <<task, rights, health, event, session, mutex, plan, file, world, faults>>

\* pause_open_activations: what an earlier process has acted for waits for the owner.
Paused == IF acted = "NONE" THEN "ACTIVE" ELSE "PAUSED"

Pause ==
  /\ phase = "GATED"
  /\ database = "OK"
  /\ run' = Paused
  /\ phase' = "PAUSED"
  /\ UNCHANGED <<task, start, rights, health, event, session, mutex,
                 acted, fresh, unresolved, file, world, faults>>

\* build: the session is called STARTING, the recovery barrier is armed.
Build ==
  /\ phase = "PAUSED"
  /\ database = "OK"
  /\ session' = "STARTING"
  /\ pending' = TRUE
  /\ mutations' = TRUE
  /\ phase' = "BUILT"
  /\ UNCHANGED <<task, start, latched, seen, observer, health, event, mutex, plan,
                 file, world, faults>>

\* What the earlier process left open: initialize_startup_recovery.
LeftOpen == "EARLIER" \in unresolved

\* run_until_stop up to the tasks of the event loop.
Prepare ==
  /\ phase = "BUILT"
  /\ ~ProbeFails
  /\ pending' = LeftOpen
  /\ observer' = "RUNNING"
  /\ phase' = "RUNNING"
  /\ UNCHANGED <<task, start, mutations, latched, seen, health, event, session, mutex,
                 plan, file, world, faults>>

\* report_ready publishes the build in the name of the session, once the recovery
\* is complete.
Published(left) == IF left THEN session ELSE "READY"

\* From the resumed processors to on_ready.
Ready ==
  /\ phase = "RUNNING" /\ Looping
  /\ ~latched /\ ~ProbeFails
  /\ phase' = "SERVING"
  /\ session' = Published(pending)
  /\ UNCHANGED <<task, start, rights, health, event, mutex, plan, file, world, faults>>

\* The outcome of the calls of this or of an earlier process is found.  The latter
\* completes the recovery, and a process that is in service reports itself again.
Resolve ==
  /\ Looping
  /\ ~ProbeFails
  /\ \E x \in unresolved :
       /\ unresolved' = unresolved \ {x}
       /\ pending' = (pending /\ x # "EARLIER")
       /\ session' = IF pending /\ x = "EARLIER" /\ phase = "SERVING"
                     THEN Published(FALSE) ELSE session
  /\ UNCHANGED <<task, phase, start, mutations, latched, seen, observer, health, event,
                 mutex, run, acted, fresh, file, world, faults>>

(***************************************************************************)
(* The work of the process.                                                *)
(***************************************************************************)

\* Faulty: the startup barrier is not asked.
MayEnterUnrecovered == mode = "FULL" /\ gate = "OPEN" /\ run = "ACTIVE"

\* An entry: _activation_submission_enabled, the guard of the live gate and the
\* run state of the activation.
MayEnter ==
  /\ mode = "FULL"
  /\ gate = "OPEN"
  /\ run = "ACTIVE"
  /\ ~pending

\* process_execution_action behind the mutation lock.  The outcome may stay
\* unknown.
CallVenue(entry) ==
  /\ Looping
  /\ mutations
  /\ session # "LOST" /\ database = "OK"
  /\ IF entry THEN MayEnter ELSE acted # "NONE"
  /\ acted' = IF acted = "NONE" THEN "HERE" ELSE acted
  /\ unresolved' \in {unresolved, unresolved \cup {"HERE"}}
  /\ UNCHANGED <<task, process, mutex, run, fresh, file, world, faults>>

EnterVenue  == CallVenue(TRUE)
ReduceVenue == CallVenue(FALSE)

\* _handle_component_failure for an unexpected exception.
ComponentFails ==
  /\ Looping
  /\ ~latched
  /\ Fault
  /\ latched' = TRUE
  /\ mutations' = FALSE
  /\ UNCHANGED <<task, phase, start, seen, pending, observer, health, event, session, mutex,
                 plan, file, world>>

\* The account observer probes the database; a failed probe disables the
\* mutations and ends this task, and nobody looks at the result of the task.
ObserverProbes ==
  /\ Looping
  /\ observer = "RUNNING"
  /\ ProbeFails
  /\ mutations' = FALSE
  /\ observer' = "ENDED"
  /\ UNCHANGED <<task, phase, start, latched, seen, pending, health, event, session, mutex,
                 plan, file, world, faults>>

\* The stop event reaches the event loop: _arm_maintenance_stop_latch.
SeeStop ==
  /\ Looping
  /\ event = "SET" /\ ~seen
  /\ seen' = TRUE
  /\ mutations' = FALSE
  /\ UNCHANGED <<task, phase, start, latched, pending, observer, health, event, session,
                 mutex, plan, file, world, faults>>

(***************************************************************************)
(* The end of the process.                                                 *)
(***************************************************************************)

\* What the startup raises on before it reports itself, and what the main loop
\* raises on.
Failing == latched \/ ProbeFails \/ (phase = "SERVING" /\ stream = "OVERDUE")

\* The loop raises: the stop waiter is woken, unless that fails too, and the
\* cleanup is bounded.
Fail ==
  /\ Looping
  /\ Failing
  /\ phase' = "CLEANUP"
  /\ mutations' = FALSE
  /\ observer' = "NONE"
  /\ guarded' = TRUE
  /\ event' \in {event, "SET"}
  /\ UNCHANGED <<task, start, latched, seen, pending, loop, session, mutex, plan,
                 file, world, faults>>

\* The loop ends on the stop.
Leave ==
  /\ phase = "SERVING" /\ Looping
  /\ seen
  /\ phase' = "CLEANUP"
  /\ mutations' = FALSE
  /\ observer' = "NONE"
  /\ UNCHANGED <<task, start, latched, seen, pending, health, event, session, mutex, plan,
                 file, world, faults>>

\* Faulty: the watchdog of a failed process is always called off.
StillGuardedNever == FALSE

\* close has run; the watchdog is called off if the stop waiter was woken.
StillGuarded == guarded /\ event # "SET"

\* close and the end of main: the session and the mutex are released.
Close ==
  /\ phase = "CLEANUP" /\ loop = "LIVE"
  /\ phase' = "EXITING"
  /\ session' = "NONE"
  /\ guarded' = StillGuarded
  /\ mutex' = "FREE"
  /\ UNCHANGED <<task, start, rights, loop, event, plan, file, world, faults>>

\* The process ends when the thread that waits for the stop event has ended.
Exit ==
  /\ phase = "EXITING"
  /\ event = "SET"
  /\ Gone
  /\ UNCHANGED <<task, plan, file, world, faults>>

\* The failure cleanup watchdog.
HardExit ==
  /\ guarded
  /\ Gone
  /\ UNCHANGED <<task, plan, file, world, faults>>

\* The event loop, or the cleanup, stops making progress.
Stall ==
  /\ phase \in {"RUNNING", "SERVING", "CLEANUP"}
  /\ loop = "LIVE"
  /\ Fault
  /\ loop' = "STALLED"
  /\ UNCHANGED <<task, phase, start, rights, guarded, event, session, mutex, plan, file, world>>

\* Faulty: the liveness watchdog is closed before the runtime is.
WatchedLooping == phase \in {"RUNNING", "SERVING"}

\* The liveness watchdog runs from before build to after close.
Watched == phase \in {"BUILT", "RUNNING", "SERVING", "CLEANUP"}

\* No heartbeat for too long.
LivenessExit ==
  /\ Watched
  /\ loop = "STALLED"
  /\ Gone
  /\ UNCHANGED <<task, plan, file, world, faults>>

(***************************************************************************)
(* The owner, the live gate, the database and the streams.                 *)
(***************************************************************************)

\* The owner resumes a paused activation.
OwnerResumes ==
  /\ run = "PAUSED" /\ database = "OK"
  /\ run' = "ACTIVE"
  /\ fresh' = TRUE
  /\ UNCHANGED <<task, process, mutex, acted, unresolved, file, world, faults>>

\* An expired binding closes the gate.
GateExpires ==
  /\ gate = "OPEN"
  /\ gate' = "CLOSED"
  /\ UNCHANGED <<task, process, mutex, plan, binding, world, faults>>

\* Faulty: the gate is replaced while the Executor runs.
MaintenanceMayAlways == mutex # "MAINTENANCE"

\* The maintenance mutex is the mutex of the Executor.
MaintenanceMay == mutex = "FREE"

\* provision_live_write_gate_binding: takes the mutex ...
MaintenanceBegin ==
  /\ binding < MaxBindings
  /\ MaintenanceMay
  /\ mutex' = "MAINTENANCE"
  /\ UNCHANGED <<task, process, plan, file, world, faults>>

\* ... and replaces the binding, which may turn out invalid.
MaintenanceEnd ==
  /\ mutex = "MAINTENANCE"
  /\ binding' = binding + 1
  /\ gate' \in {"OPEN", "CLOSED", "INVALID"}
  /\ mutex' = "FREE"
  /\ UNCHANGED <<task, process, plan, world, faults>>

DatabaseMoves ==
  /\ database' = IF database = "OK" THEN "STALLED" ELSE "OK"
  /\ UNCHANGED <<task, process, mutex, plan, file, stream, faults>>

SessionBreaks ==
  /\ session \in {"STARTING", "READY"}
  /\ Fault
  /\ session' = "LOST"
  /\ UNCHANGED <<task, phase, start, rights, health, event, mutex, plan, file, world>>

\* A stream is broken for longer than it may be, or comes back.
StreamMoves ==
  /\ stream' = IF stream = "HEALTHY" THEN "OVERDUE" ELSE "HEALTHY"
  /\ UNCHANGED <<task, process, mutex, plan, file, database, faults>>

Init ==
  /\ enabled = FALSE /\ starting = FALSE /\ stopping = "IDLE"
  /\ stands = FALSE /\ quiet = FALSE
  /\ phase = "DOWN" /\ mode = "NONE" /\ admitted = 0
  /\ mutations = FALSE /\ latched = FALSE /\ seen = FALSE /\ pending = FALSE
  /\ observer = "NONE" /\ loop = "LIVE" /\ guarded = FALSE
  /\ event = "NONE" /\ mutex = "FREE" /\ session = "NONE"
  /\ run = "ACTIVE" /\ acted = "NONE" /\ fresh = FALSE /\ unresolved = {}
  /\ gate = "OPEN" /\ binding = 1
  /\ database = "OK" /\ stream = "HEALTHY" /\ faults = 0

Control == StartBegin \/ StartRun \/ StopBegin \/ StopSignal \/ StopReport \/ StopTimeout

Starting == Rejected \/ Hold \/ Admit \/ Pause \/ Build \/ Prepare \/ Ready \/ Resolve

Working == EnterVenue \/ ReduceVenue \/ ComponentFails \/ ObserverProbes \/ SeeStop

Ending == Fail \/ Leave \/ Close \/ Exit \/ HardExit \/ Stall \/ LivenessExit \/ Die

Outside ==
  \/ OwnerResumes \/ GateExpires \/ MaintenanceBegin \/ MaintenanceEnd
  \/ DatabaseMoves \/ SessionBreaks \/ StreamMoves

Next == Trigger \/ Control \/ Starting \/ Working \/ Ending \/ Outside

Spec == Init /\ [][Next]_vars

(***************************************************************************)
(* The code goes on by itself: the triggers of the task, the steps of the  *)
(* start, the event loop, the exit and the two watchdogs.                  *)
(***************************************************************************)
FairSpec ==
  /\ Spec
  /\ WF_vars(Trigger)
  /\ WF_vars(Rejected \/ Hold \/ Admit \/ Pause \/ Build \/ Prepare)
  /\ WF_vars(Ready \/ Fail \/ Leave) /\ WF_vars(SeeStop)
  /\ WF_vars(Close) /\ WF_vars(Exit) /\ WF_vars(HardExit) /\ WF_vars(LivenessExit)
  /\ WF_vars(MaintenanceEnd)

(***************************************************************************)
(* Properties.                                                             *)
(***************************************************************************)

\* Every variable has its type, and a process that is gone holds nothing.
TypeOK ==
  /\ phase = "DOWN" => session = "NONE" /\ event = "NONE" /\ mutex # "EXECUTOR"
  /\ {enabled, starting, stands, quiet, mutations, latched, seen, pending, guarded, fresh}
       \subseteq BOOLEAN
  /\ stopping \in {"IDLE", "SIGNAL", "WAIT", "FORCED"}
  /\ phase \in Startup \cup {"DOWN", "RUNNING", "SERVING", "CLEANUP", "EXITING"}
  /\ mode \in {"NONE", "FULL", "RISK_ONLY"}
  /\ {admitted, binding} \subseteq 0..MaxBindings
  /\ observer \in {"NONE", "RUNNING", "ENDED"}
  /\ loop \in {"LIVE", "STALLED"}
  /\ event \in {"NONE", "CLEAR", "SET"}
  /\ mutex \in {"FREE", "EXECUTOR", "MAINTENANCE"}
  /\ session \in {"NONE", "STARTING", "READY", "LOST"}
  /\ run \in {"ACTIVE", "PAUSED"}
  /\ acted \in {"NONE", "HERE", "EARLIER"}
  /\ unresolved \subseteq {"HERE", "EARLIER"}
  /\ gate \in {"OPEN", "CLOSED", "INVALID"}
  /\ database \in {"OK", "STALLED"}
  /\ stream \in {"HEALTHY", "OVERDUE"}
  /\ faults \in 0..MaxFaults

\* After a stop has been reported no process runs until somebody asks for a start,
\* although the triggers of the task never rest.
StoppedIsQuiet == quiet => phase = "DOWN"

\* No entry is called while a call of an earlier process has an unknown outcome.
EntryAfterRecovery == [][EnterVenue => "EARLIER" \notin unresolved]_vars

\* A process buys only under the binding that admitted it, however long it runs.
EntryUnderAdmittedBinding == [][EnterVenue => binding = admitted]_vars

\* A signalled stop ends the process, whatever fails or hangs on the way.
StopEnds == event = "SET" ~> phase = "DOWN"

\* As long as the task is enabled, the gate valid and the database there, a
\* process is ready again and again, whatever ended the one before.
ServesAgain ==
  []<>(phase = "SERVING" \/ ~enabled \/ gate = "INVALID" \/ database # "OK")
=============================================================================
