--------------------------- MODULE ActivationControl ---------------------------
(***************************************************************************)
(* One activation between its owner and the Executor.                      *)
(*                                                                         *)
(* The owner sends commands to the App, which handles each in one          *)
(* transaction under the activation's control lock: a command is known by  *)
(* its idempotency key, names the version of the activation its owner saw, *)
(* and leaves a receipt.  The evidence of a RESUME is read in a            *)
(* transaction before that one.  The Executor enters, protects and closes  *)
(* the activation in transactions of its own, and its responsibility loop  *)
(* decides on a snapshot of the activation and of the account that is      *)
(* older than the transaction it ends in.                                  *)
(*                                                                         *)
(* The entry is one action and one order of the venue, filled at once or   *)
(* not at all; a closed entry may be followed by another.  Times are       *)
(* losses: of a fact and a pause it only matters which is later, and every *)
(* pause belongs to a loss of the Executor, so both are stamped with the   *)
(* number of losses so far.                                                *)
(***************************************************************************)
EXTENDS Naturals

CONSTANTS
  Keys,       \* idempotency keys of the owner's commands
  Intents,    \* bound: the commands the owner may send
  None,
  MaxLosses   \* bound: losses of the Executor

ASSUME IntentsAssumption ==
  Intents \subseteq {"STOP_NEW_RISK", "RESUME_ACTIVATION", "EXIT_STRATEGY",
                     "USER_TAKEOVER"}
ASSUME NoneAssumption ==
  None \notin Keys /\ None \notin [intent : Intents, expected : Nat]
ASSUME MaxLossesAssumption == MaxLosses \in Nat

VARIABLES
  plan,       \* the row of plan_activation
  stopped,    \* the activation's stop_state_version stops NEW_RISK
  entry,      \* the state of the activation's latest ENTRY action
  exposure,   \* what the recorded fills amount to: NONE, HELD or FLAT
  ended,      \* a terminal fact of the entry is recorded
  order,      \* external: the entry's order at the venue
  position,   \* external: the activation holds a position
  fact,       \* the latest position fact of the activation that matches
  executor,   \* UP, DOWN or STARTING
  losses,     \* losses of the Executor so far
  late,       \* external: the entry window has ended
  loop,       \* the responsibility loop's snapshot
  command,    \* committed commands, by key, from the time they are sent
  receipt,    \* their receipts
  request     \* the App's requests, by key

venue == <<order, position>>
clock == <<losses, late>>
rows  == <<stopped, exposure, ended, fact>>
owner == <<command, receipt, request>>
vars  == <<plan, rows, entry, venue, executor, clock, loop, owner>>

Open == [by |-> "NONE", handover |-> None]
NoRequest == [step |-> "NONE", proof |-> 0]
NoSnapshot == [step |-> "IDLE", lifecycle |-> "RUNNING", takenBy |-> None]

\* The states in which an entry may still have changed venue or exposure.
OpenEntry == {"READY", "CALLED", "OPEN"}

Init ==
  /\ plan = [lifecycle |-> "RUNNING", run |-> "ACTIVE", pausedIn |-> 0,
             resumedBy |-> None, consumed |-> FALSE, hasFill |-> FALSE,
             protection |-> "NONE", pending |-> FALSE, version |-> 1,
             takenBy |-> None, closure |-> Open]
  /\ stopped = FALSE
  /\ entry = "NONE"
  /\ exposure = "NONE"
  /\ ended = FALSE
  /\ order = "NONE"
  /\ position = FALSE
  /\ fact = [in |-> 0, quiet |-> FALSE]
  /\ executor = "UP"
  /\ losses = 0
  /\ late = FALSE
  /\ loop = NoSnapshot
  /\ command = [k \in Keys |-> None]
  /\ receipt = [k \in Keys |-> "NONE"]
  /\ request = [k \in Keys |-> NoRequest]

(***************************************************************************)
(* The owner's commands.                                                   *)
(***************************************************************************)

Final(p) == p.lifecycle \in {"USER_TAKEOVER", "COMPLETED"}

Completed(p, by, handover) ==
  [p EXCEPT !.lifecycle = "COMPLETED", !.run = "ACTIVE", !.pausedIn = 0,
            !.consumed = TRUE, !.version = @ + 1,
            !.closure = [by |-> by, handover |-> handover]]

\* Nothing of the activation is or may come to be outside the process.
NoVenueResponsibility(p) ==
  ~p.hasFill /\ ~p.pending /\ entry \notin OpenEntry

CompletedIfNone(p, k) ==
  IF NoVenueResponsibility(p)
    THEN Completed(p, "CONTROL", IF p.lifecycle = "USER_TAKEOVER" THEN k ELSE None)
    ELSE p

Exited(p) ==
  IF p.lifecycle = "EXITING" THEN p
  ELSE [p EXCEPT !.lifecycle = "EXITING", !.consumed = TRUE, !.version = @ + 1]

TakenOver(p, k) ==
  IF p.lifecycle = "USER_TAKEOVER" THEN p
  ELSE [p EXCEPT !.lifecycle = "USER_TAKEOVER", !.consumed = TRUE,
                 !.takenBy = k, !.version = @ + 1]

\* What an effective RESUME needs beside its evidence.
MayResume(p) == p.lifecycle = "RUNNING" /\ ~p.consumed /\ ~late

Resumed(p, k) ==
  IF p.run = "ACTIVE" THEN p
  ELSE [p EXCEPT !.run = "ACTIVE", !.pausedIn = 0, !.resumedBy = k,
                 !.version = @ + 1]

\* The activation is the one the owner saw.
Current(k) == command[k].expected = plan.version

\* The receipts after the Executor has completed the activation.
Finished(p) ==
  [k \in Keys |-> IF receipt[k] = "PROCESSING" /\ p.lifecycle = "COMPLETED"
                    THEN "EFFECTIVE" ELSE receipt[k]]

\* The owner sends a command against the version on the screen.
Ask(k) ==
  /\ command[k] = None
  /\ \E intent \in Intents :
       command' = [command EXCEPT ![k] =
         [intent |-> intent, expected |-> plan.version]]
  /\ request' = [request EXCEPT ![k] = [NoRequest EXCEPT !.step = "SENT"]]
  /\ UNCHANGED <<plan, rows, entry, venue, executor, clock, loop, receipt>>

\* A client that got no answer sends the same command again.
Retry(k) ==
  /\ request[k].step = "ENDED"
  /\ request' = [request EXCEPT ![k] = [NoRequest EXCEPT !.step = "SENT"]]
  /\ UNCHANGED <<plan, rows, entry, venue, executor, clock, loop, command,
                 receipt>>

\* Faulty: evidence from before the pause is taken, too.
ProvesFromBefore ==
  /\ plan.run = "PAUSED" /\ ~plan.consumed /\ ~late
  /\ fact.in > 0 /\ fact.quiet
  /\ entry # "CALLED"

\* The evidence the Executor left allows the activation to go on.
Proves ==
  /\ plan.run = "PAUSED" /\ ~plan.consumed /\ ~late
  /\ fact.in >= plan.pausedIn /\ fact.quiet
  /\ entry # "CALLED"

\* The evidence of a RESUME is read; it may also be too old by now.
ReadProof(k) ==
  /\ request[k].step = "SENT"
  /\ command[k].intent = "RESUME_ACTIVATION"
  /\ \E proof \in {0} \cup (IF Proves THEN {fact.in} ELSE {}) :
       request' = [request EXCEPT ![k] = [step |-> "PROVEN", proof |-> proof]]
  /\ UNCHANGED <<plan, rows, entry, venue, executor, clock, loop, command,
                 receipt>>

\* The request's transaction is about to decide.
Decides(k, intent) ==
  /\ command[k] # None
  /\ command[k].intent = intent
  /\ request[k].step = (IF intent = "RESUME_ACTIVATION" THEN "PROVEN" ELSE "SENT")
  /\ request' = [request EXCEPT ![k].step = "ENDED"]
  /\ UNCHANGED <<exposure, ended, fact, entry, venue, executor, clock, loop,
                 command>>

\* A decision on a command that has no receipt yet, against the version seen.
Fresh(k, intent) ==
  Decides(k, intent) /\ receipt[k] = "NONE" /\ Current(k)

Answered(k, state) == receipt' = [receipt EXCEPT ![k] = state]

StopNewRisk(k) ==
  /\ Fresh(k, "STOP_NEW_RISK")
  /\ stopped' = TRUE
  /\ Answered(k, IF plan.pending THEN "PROCESSING" ELSE "EFFECTIVE")
  /\ UNCHANGED plan

ResumeActivation(k) ==
  /\ Fresh(k, "RESUME_ACTIVATION")
  /\ request[k].proof > 0
  /\ plan.run = "ACTIVE" \/ MayResume(plan)
  /\ plan' = Resumed(plan, k)
  /\ Answered(k, "EFFECTIVE")
  /\ UNCHANGED stopped

RejectResume(k) ==
  /\ Fresh(k, "RESUME_ACTIVATION")
  /\ request[k].proof = 0 \/ ~(MayResume(plan) \/ plan.run = "ACTIVE")
  /\ Answered(k, "REJECTED")
  /\ UNCHANGED <<plan, stopped>>

ExitStrategy(k) ==
  /\ Fresh(k, "EXIT_STRATEGY")
  /\ ~Final(plan)
  /\ stopped' = TRUE
  /\ plan' = CompletedIfNone(Exited(plan), k)
  /\ Answered(k, IF plan'.lifecycle = "COMPLETED" THEN "EFFECTIVE" ELSE "PROCESSING")

UserTakeover(k) ==
  /\ Fresh(k, "USER_TAKEOVER")
  /\ plan.lifecycle # "COMPLETED"
  /\ plan' = CompletedIfNone(TakenOver(plan, k), k)
  /\ Answered(k, "EFFECTIVE")
  /\ UNCHANGED stopped

\* The activation has changed since the owner saw it.
RejectVersion(k) ==
  /\ \E intent \in Intents : Decides(k, intent)
  /\ receipt[k] = "NONE"
  /\ ~Current(k)
  /\ Answered(k, "REJECTED")
  /\ UNCHANGED <<plan, stopped>>

\* The transaction changes nothing: the receipt exists already, or the command
\* is refused by an exception, or the database aborts the transaction.
AnswerOnly(k) ==
  /\ \E intent \in Intents : Decides(k, intent)
  /\ UNCHANGED <<plan, stopped, receipt>>

(***************************************************************************)
(* The Executor.                                                           *)
(***************************************************************************)

\* No coroutine is between two transactions of the closing.
Free == executor = "UP" /\ loop.step # "PROVEN"

\* An action has been updated since the latest position fact.
Touched == fact' = [fact EXCEPT !.quiet = FALSE]

\* Faulty: the stop is not read again.
CapAcceptsAlways == TRUE

\* CAP's answer for an entry.
CapAccepts == ~stopped

\* A proposal passes TRADEPLAN and CAP, and its action is created.
CreateEntry ==
  /\ Free
  /\ plan.lifecycle = "RUNNING" /\ plan.run = "ACTIVE" /\ ~plan.consumed /\ ~late
  /\ entry \notin OpenEntry
  /\ CapAccepts
  /\ entry' = "READY"
  /\ order' = "NONE"
  /\ ended' = FALSE
  /\ Touched
  /\ UNCHANGED <<plan, stopped, exposure, position, executor, clock, loop, owner>>

\* The entry is checked again and called, all under the control lock.  The
\* call may be lost, and a rejected action is never called.
DispatchEntry ==
  /\ Free
  /\ entry = "READY"
  /\ ~Final(plan) /\ plan.run = "ACTIVE"
  /\ IF CapAccepts
       THEN entry' = "CALLED" /\ order' \in {"NONE", "WORKING"}
       ELSE entry' = "CLOSED" /\ UNCHANGED order
  /\ Touched
  /\ UNCHANGED <<plan, stopped, exposure, ended, position, executor, clock, loop,
                 owner>>

\* The facts of the moment speak against an entry that was not called.
RejectEntry ==
  /\ Free
  /\ entry = "READY"
  /\ plan.lifecycle # "USER_TAKEOVER"
  /\ entry' = "CLOSED"
  /\ Touched
  /\ UNCHANGED <<plan, stopped, exposure, ended, venue, executor, clock, loop,
                 owner>>

\* A fact of the order opens an action that was called.
Opened == entry' = IF entry = "CALLED" THEN "OPEN" ELSE entry

Recognise ==
  /\ Free
  /\ entry = "CALLED"
  /\ order # "NONE"
  /\ Opened
  /\ Touched
  /\ UNCHANGED <<plan, stopped, exposure, ended, venue, executor, clock, loop,
                 owner>>

\* The fill's fact is recorded, in a transaction of its own.
RecordFill ==
  /\ Free
  /\ order = "FILLED"
  /\ exposure = "NONE"
  /\ exposure' = "HELD"
  /\ Opened
  /\ Touched
  /\ UNCHANGED <<plan, stopped, ended, venue, executor, clock, loop, owner>>

\* The terminal fact is recorded; it may come before the fill's.
RecordEnd ==
  /\ Free
  /\ order \in {"FILLED", "CANCELED"}
  /\ ~ended
  /\ ended' = TRUE
  /\ Opened
  /\ Touched
  /\ UNCHANGED <<plan, stopped, exposure, venue, executor, clock, loop, owner>>

\* The recorded fill consumes the opportunity and is protected: the first fill
\* and the projection are two versions of the row.
ProtectFill ==
  /\ Free
  /\ exposure = "HELD"
  /\ ~plan.hasFill
  /\ ~Final(plan)
  /\ plan' = [plan EXCEPT !.hasFill = TRUE, !.consumed = TRUE,
                          !.protection = "UNKNOWN", !.pending = TRUE,
                          !.version = @ + 2]
  /\ Touched
  /\ UNCHANGED <<stopped, exposure, ended, entry, venue, executor, clock, loop,
                 owner>>

\* The venue reports the protection at work.
ProtectionWorks ==
  /\ Free
  /\ plan.protection = "UNKNOWN"
  /\ plan.lifecycle # "COMPLETED"
  /\ plan' = [plan EXCEPT !.protection = "WORKING", !.pending = FALSE,
                          !.version = @ + 1]
  /\ Touched
  /\ UNCHANGED <<stopped, exposure, ended, entry, venue, executor, clock, loop,
                 owner>>

\* A reducer, protection or exit, is filled and its fill recorded.
Reduce ==
  /\ Free
  /\ exposure = "HELD"
  /\ plan.hasFill
  /\ position' = FALSE
  /\ exposure' = "FLAT"
  /\ Touched
  /\ UNCHANGED <<plan, stopped, ended, entry, order, executor, clock, loop, owner>>

\* The opportunity is consumed.  An activation that never had an action is
\* completed in the same transaction.
ConsumeOpportunity ==
  /\ Free
  /\ ~plan.consumed
  /\ LET consumed == [plan EXCEPT !.consumed = TRUE, !.version = @ + 1]
     IN IF entry = "NONE"
          THEN /\ plan' = Completed(consumed, "EXECUTION", None)
               /\ receipt' = Finished(plan')
          ELSE /\ plan' = consumed
               /\ UNCHANGED receipt
  /\ UNCHANGED <<rows, entry, venue, executor, clock, loop, command, request>>

\* At the end of the entry window.
ExpireEntry == late /\ ConsumeOpportunity

\* Before it: the market invalidates the entry, or what is left of it expires.
InvalidateEntry == ~late /\ ConsumeOpportunity

\* The fills the actions record explain the position at the venue.
Matches == position = (exposure = "HELD")

\* A position fact that matches is recorded.
RecordPosition ==
  /\ Free
  /\ Matches
  /\ fact' = [in |-> losses, quiet |-> TRUE]
  /\ UNCHANGED <<plan, stopped, exposure, ended, entry, venue, executor, clock,
                 loop, owner>>

\* What the Executor has not closed passes to the user.
HandOver ==
  /\ Free
  /\ plan.lifecycle = "USER_TAKEOVER"
  /\ entry \in {"READY", "CALLED"}
  /\ entry' = "HANDED_OVER"
  /\ Touched
  /\ UNCHANGED <<plan, stopped, exposure, ended, venue, executor, clock, loop,
                 owner>>

(***************************************************************************)
(* The responsibility loop: it reads the account and the activation, awaits *)
(* other answers, and closes what it has read.                             *)
(***************************************************************************)

\* The loop looks after every activation that is not completed, paused or not.
Reconciled == plan.lifecycle # "COMPLETED"

\* The account is flat and explained by the recorded fills.
StartSync ==
  /\ Free
  /\ loop.step = "IDLE"
  /\ Reconciled
  /\ plan.lifecycle = "USER_TAKEOVER" => entry \notin {"READY", "CALLED"}
  /\ ~position /\ Matches
  /\ loop' = [step |-> "READ", lifecycle |-> plan.lifecycle, takenBy |-> plan.takenBy]
  /\ UNCHANGED <<plan, rows, entry, venue, executor, clock, owner>>

AbandonSync ==
  /\ loop.step = "READ"
  /\ loop' = NoSnapshot
  /\ UNCHANGED <<plan, rows, entry, venue, executor, clock, owner>>

\* Faulty: the order's end is taken for the end of its fills.
FillsCompleteWhenEnded == TRUE

\* The recorded fills add up to what the terminal fact reports as filled.
FillsComplete == order = "FILLED" => exposure # "NONE"

\* The recorded fills still explain the position that was read, and every
\* action is closed or can be: the first transaction of the closing.
Prove ==
  /\ Free
  /\ loop.step = "READ"
  /\ exposure # "HELD"
  /\ \/ entry \in {"CLOSED", "HANDED_OVER"} /\ UNCHANGED entry
     \/ entry = "OPEN" /\ ended /\ FillsComplete /\ entry' = "CLOSED"
  /\ loop' = [loop EXCEPT !.step = "PROVEN"]
  /\ Touched
  /\ UNCHANGED <<plan, stopped, exposure, ended, venue, executor, clock, owner>>

\* The second: the activation is completed with the identity the loop read,
\* whatever the row says by now, and its receipts are finished.
CloseActivation ==
  /\ executor = "UP"
  /\ loop.step = "PROVEN"
  /\ LET projected == IF plan.protection \in {"UNKNOWN", "WORKING"}
                        THEN [plan EXCEPT !.protection = "CLOSED",
                                          !.pending = FALSE, !.version = @ + 1]
                        ELSE plan
     IN plan' = Completed(projected, "EXECUTION",
                  IF loop.lifecycle = "USER_TAKEOVER" THEN loop.takenBy ELSE None)
  /\ receipt' = Finished(plan')
  /\ loop' = NoSnapshot
  /\ UNCHANGED <<rows, entry, venue, executor, clock, command, request>>

(***************************************************************************)
(* Loss and return of the Executor.                                        *)
(***************************************************************************)

Crash ==
  /\ executor # "DOWN"
  /\ losses < MaxLosses
  /\ executor' = "DOWN"
  /\ loop' = NoSnapshot
  /\ UNCHANGED <<plan, rows, entry, venue, clock, owner>>

\* The activation has something a new process must reconcile first.
HasHistory(p) == p.hasFill \/ p.pending \/ entry # "NONE"

MustPause(p) ==
  ~Final(p) /\ p.run = "ACTIVE" /\ ~p.consumed /\ ~late /\ HasHistory(p)

\* There is nothing a pause could protect.
NeedNotPause(p) ==
  /\ p.lifecycle = "RUNNING" /\ p.run = "PAUSED"
  /\ p.consumed \/ late \/ ~HasHistory(p)

\* The continuity guard, before anything else starts.
PauseForLoss ==
  /\ executor = "DOWN"
  /\ executor' = "STARTING"
  /\ losses' = losses + 1
  /\ plan' = CASE MustPause(plan) ->
                    [plan EXCEPT !.run = "PAUSED", !.pausedIn = losses',
                                 !.resumedBy = None, !.version = @ + 1]
               [] NeedNotPause(plan) ->
                    [plan EXCEPT !.run = "ACTIVE", !.pausedIn = 0,
                                 !.resumedBy = None, !.version = @ + 1]
               [] OTHER -> plan
  /\ UNCHANGED <<late, rows, entry, venue, loop, owner>>

\* The process finishes receipts, marks what it may have sent, and goes on.
Start ==
  /\ executor = "STARTING"
  /\ executor' = "UP"
  /\ receipt' = Finished(plan)
  /\ IF entry = "CALLED" THEN Touched ELSE UNCHANGED fact
  /\ UNCHANGED <<plan, stopped, exposure, ended, entry, venue, clock, loop,
                 command, request>>

(***************************************************************************)
(* The venue and the time (external).                                      *)
(***************************************************************************)

FillOrder ==
  /\ order = "WORKING"
  /\ order' = "FILLED"
  /\ position' = TRUE
  /\ UNCHANGED <<plan, rows, entry, executor, clock, loop, owner>>

EndOrder ==
  /\ order = "WORKING"
  /\ order' = "CANCELED"
  /\ UNCHANGED <<plan, rows, entry, position, executor, clock, loop, owner>>

WindowEnds ==
  /\ ~late
  /\ late' = TRUE
  /\ UNCHANGED <<plan, rows, entry, venue, executor, losses, loop, owner>>

--------------------------------------------------------------------------------

OwnerStep(k) ==
  \/ Ask(k) \/ Retry(k) \/ ReadProof(k)
  \/ StopNewRisk(k) \/ ResumeActivation(k) \/ RejectResume(k)
  \/ ExitStrategy(k) \/ UserTakeover(k) \/ RejectVersion(k) \/ AnswerOnly(k)

ExecutorStep ==
  \/ CreateEntry \/ DispatchEntry \/ RejectEntry
  \/ Recognise \/ RecordFill \/ RecordEnd
  \/ ProtectFill \/ ProtectionWorks \/ Reduce
  \/ ExpireEntry \/ InvalidateEntry
  \/ RecordPosition \/ HandOver
  \/ StartSync \/ AbandonSync \/ Prove \/ CloseActivation
  \/ Crash \/ PauseForLoss \/ Start

Next ==
  \/ \E k \in Keys : OwnerStep(k)
  \/ ExecutorStep
  \/ FillOrder \/ EndOrder \/ WindowEnds

Spec == Init /\ [][Next]_vars

(***************************************************************************)
(* Correctness.                                                            *)
(***************************************************************************)

Plan ==
  [lifecycle : {"RUNNING", "EXITING", "USER_TAKEOVER", "COMPLETED"},
   run : {"ACTIVE", "PAUSED"}, pausedIn : 0..MaxLosses,
   resumedBy : Keys \cup {None}, consumed : BOOLEAN, hasFill : BOOLEAN,
   protection : {"NONE", "UNKNOWN", "WORKING", "CLOSED"}, pending : BOOLEAN,
   version : Nat \ {0}, takenBy : Keys \cup {None},
   closure : [by : {"NONE", "CONTROL", "EXECUTION"}, handover : Keys \cup {None}]]

\* A pause knows the loss it belongs to, a takeover its command, and what the
\* row says of its own end agrees with its lifecycle.
WellFormed(p) ==
  /\ p \in Plan
  /\ (p.run = "PAUSED") <=> (p.pausedIn > 0)
  /\ (p.lifecycle = "COMPLETED") <=> (p.closure.by # "NONE")
  /\ p.lifecycle = "USER_TAKEOVER" => p.takenBy \in Keys

\* Every variable has its type, and the row agrees with itself.
TypeOK ==
  /\ WellFormed(plan)
  /\ stopped \in BOOLEAN
  /\ entry \in {"NONE", "READY", "CALLED", "OPEN", "CLOSED", "HANDED_OVER"}
  /\ exposure \in {"NONE", "HELD", "FLAT"}
  /\ ended \in BOOLEAN
  /\ order \in {"NONE", "WORKING", "FILLED", "CANCELED"}
  /\ position \in BOOLEAN
  /\ fact \in [in : 0..MaxLosses, quiet : BOOLEAN]
  /\ executor \in {"UP", "DOWN", "STARTING"}
  /\ losses \in 0..MaxLosses
  /\ late \in BOOLEAN
  /\ executor = "DOWN" => losses < MaxLosses
  /\ loop \in [step : {"IDLE", "READ", "PROVEN"},
               lifecycle : {"RUNNING", "EXITING", "USER_TAKEOVER"},
               takenBy : Keys \cup {None}]
  /\ command \in [Keys -> {None} \cup [intent : Intents, expected : Nat \ {0}]]
  /\ receipt \in [Keys -> {"NONE", "PROCESSING", "EFFECTIVE", "REJECTED"}]
  /\ request \in [Keys -> [step : {"NONE", "SENT", "PROVEN", "ENDED"},
                          proof : 0..MaxLosses]]

\* A paused activation goes on only by a command whose evidence was recorded
\* after the pause it ends, and with no call unresolved when it does, though the
\* evidence was read in a transaction of its own and the activation may have been
\* resumed, lost and paused again in between.
ResumeIsProven ==
  [][ \A k \in Keys :
        plan'.resumedBy = k /\ plan.resumedBy # k =>
          /\ plan.run = "PAUSED"
          /\ request[k].proof >= plan.pausedIn
          /\ request[k].proof <= fact.in
          /\ entry # "CALLED" ]_vars

\* The owner has decided against new risk.
Decided ==
  \E k \in Keys :
    /\ receipt[k] \in {"PROCESSING", "EFFECTIVE"}
    /\ command[k].intent \in {"STOP_NEW_RISK", "EXIT_STRATEGY", "USER_TAKEOVER"}

\* After an accepted stop, exit or takeover no entry is created or called, in
\* any later run state: a resume that is effective afterwards does not lift
\* the stop, and an entry created before is rejected by CAP.
NoEntryAfterDecision ==
  [][ Decided => /\ entry' = "READY" => entry = "READY"
                 /\ entry' = "CALLED" => entry = "CALLED" ]_vars

\* A receipt says what is so: an effective exit has completed its activation,
\* an effective takeover has taken it, a stop that is accepted stops.
ReceiptsAreTrue ==
  \A k \in Keys :
    /\ receipt[k] = "EFFECTIVE" /\ command[k].intent = "EXIT_STRATEGY" =>
         plan.lifecycle = "COMPLETED"
    /\ receipt[k] = "EFFECTIVE" /\ command[k].intent = "USER_TAKEOVER" =>
         Final(plan) /\ plan.takenBy # None
    /\ receipt[k] \in {"PROCESSING", "EFFECTIVE"}
         /\ command[k].intent \in {"STOP_NEW_RISK", "EXIT_STRATEGY"} => stopped

\* A completed activation leaves no order and no position but those of an
\* action that was handed over, though the account was read before the
\* transactions that close it and the order's end may be known before its fill.
CompletedLeavesNothing ==
  plan.lifecycle = "COMPLETED" /\ entry # "HANDED_OVER" =>
    ~position /\ order # "WORKING" /\ entry \notin OpenEntry

================================================================================
