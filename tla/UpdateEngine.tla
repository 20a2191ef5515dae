---------------------------- MODULE UpdateEngine ----------------------------
(***************************************************************************)
(* Managed updates (src/server/updater): a worker which the system starts  *)
(* every minute (entry.ts, engine.ts), the controller that runs the        *)
(* application (control.ts) and the application with the user's data.      *)
(* They share small JSON files, each replaced atomically, and the data     *)
(* directory.  Any of them can die between two steps; the worker's lease,  *)
(* a loopback listener, is alive exactly while the worker is.              *)
(*                                                                         *)
(* Runtime 0 is installed first, runtime n comes with update n.  What a    *)
(* directory holds is abstract: the runtime that wrote its format and the  *)
(* number of the user's completed turns in it.                             *)
(***************************************************************************)
EXTENDS Naturals

CONSTANTS
  MaxUpdates, MaxTurns, MaxFaults,  \* bounds
  None, Partial                     \* no file or process; an incomplete copy

FINISHED_PHASES == {"prepared", "succeeded", "rolled-back", "failed"}
SWITCH_PHASES == {"pausing", "backing-up", "starting", "verifying", "rolling-back",
                  "recovery-required"}

\* An update, a directory with data, an application.
Requests == [id : Nat, phase : {"queued", "preparing"} \cup SWITCH_PHASES \cup FINISHED_PHASES,
             prepareOnly : BOOLEAN, oldRuntime : Nat, dataExisted : BOOLEAN,
             newMayHaveStarted : BOOLEAN, dataRestored : BOOLEAN]
Copies == [format : Nat, turns : Nat]
Applications == [runtime : Nat, paused : BOOLEAN, busy : BOOLEAN]

UpdateAssumption ==
  /\ MaxUpdates \in Nat /\ MaxTurns \in Nat /\ MaxFaults \in Nat
  /\ None # Partial
  /\ \A nothing \in {None, Partial} : nothing \notin Requests \cup Copies \cup Applications

VARIABLES
  request, state,          \* request.json, state.json
  control, runner,         \* control.json, runner.json
  worker, ctl,             \* where the worker and the controller are
  app,                     \* the application process
  data, backup, staged, quarantine,  \* the data root and the copies of this update
  updates, turns, faults,  \* history: updates requested, turns completed, faults
  stale                    \* history: the controller launched against newer orders

files   == <<control, runner, request, state>>
copies  == <<backup, staged, quarantine>>
history == <<updates, turns, faults, stale>>
vars    == <<files, worker, ctl, app, data, copies, history>>

Finished == state = None \/ state.phase \in FINISHED_PHASES
Switching == state # None /\ state.phase \in SWITCH_PHASES
leaseAlive == worker # "idle"
launchAllowed == Switching => leaseAlive
verificationPending == Switching

Init ==
  /\ request = None /\ state = None
  /\ control = [runtime |-> 0, paused |-> FALSE]
  /\ runner = [runtime |-> 0, stopped |-> TRUE, error |-> FALSE]
  /\ worker = "idle" /\ ctl = [pc |-> "down", runtime |-> 0]
  /\ app = None
  /\ data \in {None, [format |-> 0, turns |-> 0]}
  /\ backup = None /\ staged = None /\ quarantine = None
  /\ updates = 0 /\ turns = 0 /\ faults = 0 /\ stale = FALSE

-----------------------------------------------------------------------------
(* Requests: the exclusive creation of request.json, then its content. *)

enqueueUpdate ==
  /\ request = None /\ updates < MaxUpdates
  /\ request' = Partial
  /\ UNCHANGED <<state, control, runner, worker, ctl, app, data, copies, history>>

\* A request is withdrawn if an update or a recovery is pending.
RequestWritten ==
  /\ request = Partial
  /\ IF Finished
     THEN /\ \E prepareOnly \in BOOLEAN :
               request' = [id |-> updates + 1, phase |-> "queued",
                           prepareOnly |-> prepareOnly, oldRuntime |-> control.runtime,
                           dataExisted |-> FALSE, newMayHaveStarted |-> FALSE,
                           dataRestored |-> FALSE]
          /\ updates' = updates + 1
     ELSE request' = None /\ UNCHANGED updates
  /\ UNCHANGED <<state, control, runner, worker, ctl, app, data, copies, turns, faults, stale>>

-----------------------------------------------------------------------------
(* The worker up to the end of a switch.  A step is an effect and the save *)
(* that follows it.                                                        *)

WorkerStart ==
  /\ worker = "idle" /\ worker' = "claim"
  /\ UNCHANGED <<files, ctl, app, data, copies, history>>

\* Mutant: the request of the current state is taken for a new one.
ClaimAgain ==
  /\ worker = "claim"
  /\ IF request = None \/ ~Finished
     THEN worker' = "execute" /\ UNCHANGED <<request, state, copies>>
     ELSE IF request = Partial
     THEN request' = None /\ worker' = "execute" /\ UNCHANGED <<state, copies>>
     ELSE /\ state' = request /\ worker' = "unlink"
          /\ backup' = None /\ staged' = None /\ quarantine' = None
          /\ UNCHANGED request
  /\ UNCHANGED <<control, runner, ctl, app, data, history>>

\* An incomplete request is moved aside (when it is old enough), one that was
\* claimed before is removed, and a new one waits for a pending update.  Each
\* update has directories of its own.
claimRequest ==
  /\ worker = "claim"
  /\ IF request = None
     THEN worker' = "execute" /\ UNCHANGED <<request, state, copies>>
     ELSE IF request = Partial
     THEN request' \in {None, Partial} /\ worker' = "execute" /\ UNCHANGED <<state, copies>>
     ELSE IF state # None /\ state.id = request.id
     THEN worker' = "unlink" /\ UNCHANGED <<request, state, copies>>
     ELSE IF ~Finished
     THEN worker' = "execute" /\ UNCHANGED <<request, state, copies>>
     ELSE /\ state' = request /\ worker' = "unlink"
          /\ backup' = None /\ staged' = None /\ quarantine' = None
          /\ UNCHANGED request
  /\ UNCHANGED <<control, runner, ctl, app, data, history>>

Unlink ==
  /\ worker = "unlink"
  /\ request' = None /\ worker' = "execute"
  /\ UNCHANGED <<state, control, runner, ctl, app, data, copies, history>>

Save(phase, next) == state' = [state EXCEPT !.phase = phase] /\ worker' = next

\* execute(): an interrupted preparation has failed, an interrupted switch is rolled back.
execute ==
  /\ worker = "execute"
  /\ IF Finished THEN worker' = "idle" /\ UNCHANGED state
     ELSE IF Switching THEN worker' = "rollback" /\ UNCHANGED state
     ELSE IF state.phase = "queued" THEN Save("preparing", "prepare")
     ELSE Save("failed", "idle")
  /\ UNCHANGED <<request, control, runner, ctl, app, data, copies, history>>

Prepared ==
  /\ worker = "prepare"
  /\ IF state.prepareOnly THEN Save("prepared", "idle") ELSE Save("pausing", "pause")
  /\ UNCHANGED <<request, control, runner, ctl, app, data, copies, history>>

\* pauseManagedServer, in a switch or in its rollback: give the order, ...
pauseManagedServer ==
  /\ worker \in {"pause", "rollback pause"}
  /\ control' = [control EXCEPT !.paused = TRUE]
  /\ worker' = IF worker = "pause" THEN "wait" ELSE "rollback wait"
  /\ UNCHANGED <<request, state, runner, ctl, app, data, copies, history>>

\* ... and wait until the controller has stopped the application.
Stopped ==
  /\ runner.stopped /\ ~runner.error /\ app = None
  /\ \/ worker = "wait" /\ Save("backing-up", "backup")
     \/ worker = "rollback wait" /\ worker' = "restore" /\ UNCHANGED state
  /\ UNCHANGED <<request, control, runner, ctl, app, data, copies, history>>

\* Mutant: new code may start before the journal says so.
BackUpUnrecorded ==
  /\ worker = "backup"
  /\ backup' = data
  /\ state' = [state EXCEPT !.phase = "starting", !.dataExisted = data # None]
  /\ worker' = "start"
  /\ UNCHANGED <<request, control, runner, ctl, app, data, staged, quarantine, history>>

\* The copy is verified, and the journal says that new code may start.
BackUp ==
  /\ worker = "backup"
  /\ backup' = data
  /\ state' = [state EXCEPT !.phase = "starting", !.dataExisted = data # None,
                            !.newMayHaveStarted = TRUE]
  /\ worker' = "start"
  /\ UNCHANGED <<request, control, runner, ctl, app, data, staged, quarantine, history>>

resumeManagedServer ==
  /\ worker \in {"start", "rollback start"}
  /\ control' = [runtime |-> IF worker = "start" THEN state.id ELSE state.oldRuntime,
                 paused |-> FALSE]
  /\ IF worker = "start" THEN worker' = "started" ELSE worker' = "rollback verify"
  /\ UNCHANGED <<request, state, runner, ctl, app, data, copies, history>>

Started ==
  /\ worker = "started" /\ Save("verifying", "verify")
  /\ UNCHANGED <<request, control, runner, ctl, app, data, copies, history>>

\* verifyRuntime: the application that the controller launched serves this runtime.
Serves(runtime) ==
  /\ app # None /\ app.runtime = runtime
  /\ runner.runtime = runtime /\ ~runner.error

Verified ==
  /\ \/ worker = "verify" /\ Serves(state.id) /\ Save("succeeded", "idle")
     \/ worker = "rollback verify" /\ Serves(state.oldRuntime) /\ Save("rolled-back", "idle")
  /\ UNCHANGED <<request, control, runner, ctl, app, data, copies, history>>

-----------------------------------------------------------------------------
(* Rollback and the recovery of the data. *)

BeginRollback ==
  /\ worker = "rollback" /\ Save("rolling-back", "rollback pause")
  /\ UNCHANGED <<request, control, runner, ctl, app, data, copies, history>>

\* restoreData: what an earlier attempt has left decides where to go on.
restoreData ==
  /\ worker = "restore"
  /\ IF ~state.newMayHaveStarted \/ state.dataRestored
     THEN worker' = "rollback start" /\ UNCHANGED staged
     ELSE IF ~state.dataExisted THEN worker' = "set aside" /\ UNCHANGED staged
     ELSE IF data # None /\ quarantine # None /\ data = backup
     THEN worker' = "restored" /\ UNCHANGED staged
     ELSE /\ worker' = IF staged = backup THEN "set aside" ELSE "stage"
          /\ staged' = IF staged = backup THEN staged ELSE None
  /\ UNCHANGED <<files, ctl, app, data, backup, quarantine, history>>

\* Copying the backup takes time: a crash leaves a part of it.
Stage ==
  /\ worker = "stage"
  /\ IF staged = None THEN staged' = Partial /\ UNCHANGED worker
     ELSE staged' = backup /\ worker' = "set aside"
  /\ UNCHANGED <<files, ctl, app, data, backup, quarantine, history>>

\* What the new runtime wrote is set aside, and nothing is overwritten.
SetAside ==
  /\ worker = "set aside"
  /\ data # None => quarantine = None
  /\ data' = None /\ quarantine' = IF data = None THEN quarantine ELSE data
  /\ worker' = IF state.dataExisted THEN "put back" ELSE "restored"
  /\ UNCHANGED <<files, ctl, app, backup, staged, history>>

PutBack ==
  /\ worker = "put back"
  /\ data' = staged /\ staged' = None
  /\ worker' = "restored"
  /\ UNCHANGED <<files, ctl, app, backup, quarantine, history>>

Restored ==
  /\ worker = "restored"
  /\ state' = [state EXCEPT !.dataRestored = TRUE] /\ worker' = "rollback start"
  /\ UNCHANGED <<request, control, runner, ctl, app, data, copies, history>>

GiveUp ==
  /\ worker = "give up" /\ Save("recovery-required", "idle")
  /\ UNCHANGED <<request, control, runner, ctl, app, data, copies, history>>

Fail ==
  /\ worker = "fail" /\ Save("failed", "idle")
  /\ UNCHANGED <<request, control, runner, ctl, app, data, copies, history>>

-----------------------------------------------------------------------------
(* What goes wrong in the worker. *)

Recovering == {"rollback", "rollback pause", "rollback wait", "restore", "stage", "set aside",
               "put back", "restored", "rollback start", "rollback verify"}
Forward == {"prepare", "pause", "wait", "backup", "start", "started", "verify"}

\* An exception: a rollback that fails is given up until the next run.
Throw ==
  /\ worker' = CASE worker \in Recovering -> "give up"
                 [] worker \in Forward /\ Switching -> "rollback"
                 [] OTHER -> "fail"
  /\ UNCHANGED <<files, ctl, app, data, copies, updates, turns, stale>>

\* The release cannot be prepared or does not start, the application is busy, or the
\* data is not what an interrupted restore would have left.
Refused ==
  /\ \/ worker \in {"prepare", "verify"}
     \/ worker \in {"wait", "rollback wait"} /\ runner.error
     \/ worker = "set aside" /\ data # None /\ quarantine # None
  /\ Throw /\ UNCHANGED faults

Fault == faults < MaxFaults /\ faults' = faults + 1

\* A file operation fails, or a wait times out.
StepFails == worker \in Recovering \cup Forward /\ Fault /\ Throw

WorkerDies ==
  /\ worker # "idle" /\ Fault /\ worker' = "idle"
  /\ UNCHANGED <<files, ctl, app, data, copies, updates, turns, stale>>

-----------------------------------------------------------------------------
(* The controller. *)

\* A new controller first stops the application that an earlier one has left.
ControllerStart ==
  /\ ctl.pc = "down"
  /\ app # None => ~app.busy
  /\ app' = None
  /\ runner' = [runner EXCEPT !.stopped = TRUE]
  /\ ctl' = [ctl EXCEPT !.pc = "idle"]
  /\ UNCHANGED <<request, state, control, worker, data, copies, history>>

MayRun == ~control.paused /\ launchAllowed

\* A round of the loop: stop the application, launch it, or open it to its user.
Round ==
  /\ ctl.pc = "idle"
  /\ IF ~MayRun \/ (app # None /\ runner.runtime # control.runtime)
     THEN ctl' = [ctl EXCEPT !.pc = "stop"] /\ UNCHANGED <<app, runner>>
     ELSE IF app = None
     THEN /\ ctl' = [pc |-> "launch", runtime |-> control.runtime]
          /\ UNCHANGED <<app, runner>>
     ELSE /\ app' = [app EXCEPT !.paused = @ /\ verificationPending]
          /\ runner' = [runner EXCEPT !.error = FALSE]
          /\ UNCHANGED ctl
  /\ UNCHANGED <<request, state, control, worker, data, copies, history>>

\* An application with active turns refuses, which the runner's status says.
stopApp ==
  /\ ctl.pc = "stop" /\ ctl' = [ctl EXCEPT !.pc = "idle"]
  /\ IF app # None /\ app.busy
     THEN runner' = [runner EXCEPT !.error = TRUE] /\ UNCHANGED app
     ELSE runner' = [runner EXCEPT !.stopped = TRUE, !.error = FALSE] /\ app' = None
  /\ UNCHANGED <<request, state, control, worker, data, copies, history>>

\* The identity is recorded before the process is spawned.
Launch ==
  /\ ctl.pc = "launch" /\ ctl' = [ctl EXCEPT !.pc = "spawn"]
  /\ runner' = [runtime |-> ctl.runtime, stopped |-> FALSE, error |-> FALSE]
  /\ UNCHANGED <<request, state, control, worker, app, data, copies, history>>

Spawn ==
  /\ ctl.pc = "spawn" /\ ctl' = [ctl EXCEPT !.pc = "idle"]
  /\ app' = [runtime |-> ctl.runtime, paused |-> verificationPending, busy |-> FALSE]
  /\ stale' = (stale \/ ~MayRun \/ ctl.runtime # control.runtime)
  /\ UNCHANGED <<files, worker, data, copies, updates, turns, faults>>

ControllerDies ==
  /\ ctl.pc # "down" /\ Fault
  /\ ctl' = [ctl EXCEPT !.pc = "down"]
  /\ UNCHANGED <<files, worker, app, data, copies, updates, turns, stale>>

-----------------------------------------------------------------------------
(* The application and its user. *)

Higher(m, n) == IF m > n THEN m ELSE n

\* An application that finds no data, or not all of its files, starts empty.
Opened == IF data \in {None, Partial} THEN [format |-> app.runtime, turns |-> 0]
          ELSE [data EXCEPT !.format = Higher(@, app.runtime)]

\* The application creates its data or migrates it, open to the user or not.
Migrate ==
  /\ app # None /\ data' = Opened /\ data' # data
  /\ UNCHANGED <<files, worker, ctl, app, copies, history>>

TurnStarts ==
  /\ app # None /\ ~app.paused /\ ~app.busy /\ turns < MaxTurns
  /\ app' = [app EXCEPT !.busy = TRUE]
  /\ UNCHANGED <<files, worker, ctl, data, copies, history>>

TurnEnds ==
  /\ app # None /\ app.busy
  /\ app' = [app EXCEPT !.busy = FALSE]
  /\ data' = [Opened EXCEPT !.turns = @ + 1] /\ turns' = turns + 1
  /\ UNCHANGED <<files, worker, ctl, copies, updates, faults, stale>>

AppDies ==
  /\ app # None /\ Fault /\ app' = None
  /\ UNCHANGED <<files, worker, ctl, data, copies, updates, turns, stale>>

-----------------------------------------------------------------------------
WorkerStep ==
  \/ claimRequest \/ Unlink \/ execute \/ Prepared \/ pauseManagedServer \/ Stopped
  \/ BackUp \/ resumeManagedServer \/ Started \/ Verified
  \/ BeginRollback \/ restoreData \/ Stage \/ SetAside \/ PutBack \/ Restored
  \/ GiveUp \/ Fail \/ Refused

ControllerStep == ControllerStart \/ Round \/ stopApp \/ Launch \/ Spawn

Next ==
  \/ enqueueUpdate \/ RequestWritten \/ WorkerStart \/ WorkerStep \/ ControllerStep
  \/ Migrate \/ TurnStarts \/ TurnEnds
  \/ StepFails \/ WorkerDies \/ ControllerDies \/ AppDies

Spec == Init /\ [][Next]_vars

-----------------------------------------------------------------------------
(* Properties. *)

\* The user's turns that a copy of the data holds.
TurnsIn(copy) == IF copy \in {None, Partial} THEN 0 ELSE copy.turns

\* At any time the copy that a recovery would go on with holds every completed turn,
\* in a format that the runtime it belongs to can read.
UserDataIsSafe ==
  LET undone == Switching /\ state.newMayHaveStarted /\ ~state.dataRestored
      keeps(copy) == /\ TurnsIn(copy) = turns
                     /\ copy # None => copy # Partial /\ copy.format <= state.oldRuntime
  IN stale \/ IF undone THEN keeps(backup) ELSE TurnsIn(data) = turns

\* No application runs on data that a newer runtime has migrated, and one that is open
\* to its user has all of the user's turns.
RunsOnItsData ==
  stale \/ app = None \/
    /\ data # None => data.format <= app.runtime
    /\ ~app.paused => TurnsIn(data) = turns

\* A recovery keeps the user's data and no program meets data it cannot read.
DataIsSafe == UserDataIsSafe /\ RunsOnItsData

\* The outcome of an update is final: a request is not executed twice.
OutcomeIsFinal ==
  [][state # None /\ state.phase \in FINISHED_PHASES /\ state' # state => state'.id > state.id]_vars

\* Whatever fails on the way, an update comes to an end, and an application of the selected
\* runtime is open to the user again.
Settled == stale \/ (Finished /\ app # None /\ app.runtime = control.runtime /\ ~app.paused)
=============================================================================
