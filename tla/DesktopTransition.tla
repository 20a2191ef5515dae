--------------------------- MODULE DesktopTransition ---------------------------
(***************************************************************************)
(* The switch from one managed installation to another                     *)
(* (src/server/distribution/transition.ts): a journal, a helper that the   *)
(* system starts every minute until the journal is final, and the update   *)
(* engine, which here gives each of its effects a step and leaves the      *)
(* user's data to UpdateEngine.  The helper may die, and any step may      *)
(* fail, while the ordinary updater, an update command and the launcher    *)
(* act on the same files.                                                  *)
(*                                                                         *)
(* Installation 0 is there first; transition n installs installation n.    *)
(* An ordinary update gives the selected runtime a new version.            *)
(***************************************************************************)
EXTENDS Naturals

CONSTANTS
  MaxTransitions, MaxUpdates, MaxFaults,  \* bounds
  None, Torn                              \* no file or service; a file created but not written

TERMINAL == {"succeeded", "rolled-back", "failed"}
FINISHED_PHASES == {"succeeded", "rolled-back", "failed"}
SWITCH_PHASES == {"pausing", "starting", "verifying", "rolling-back", "recovery-required"}

\* What was captured before a transition, a journal, and an update or its request.
Plans == [deployment : Nat, runtime : Nat]
Journals == [id : Nat, phase : {"queued", "switching", "recovery-required"} \cup TERMINAL, old : Plans]
Updates == [id : {"update", "transition"} \X Nat,
            phase : {"queued", "preparing"} \cup SWITCH_PHASES \cup FINISHED_PHASES]

TransitionAssumption ==
  /\ MaxTransitions \in Nat /\ MaxUpdates \in Nat /\ MaxFaults \in Nat
  /\ None # Torn
  /\ \A nothing \in {None, Torn} : nothing \notin Nat \cup Plans \cup Journals \cup Updates

VARIABLES
  journal,               \* desktop-transition.json
  request, state,        \* request.json, state.json: [id, phase]
  deployment, control, marker,  \* deployment.json, control.json, desktop.json and its receipt
  service, updater,      \* the registered application and updater services
  helper,                \* is the transition's own worker registered?
  worker,                \* where that worker is; it holds the lease unless idle or retiring
  ordinary,              \* where the ordinary updater is
  launcher, plan,        \* where the desktop launcher is, and what it has captured
  command,               \* where an update command is
  transitions, updates, faults  \* bounds

files   == <<request, state, deployment, control, marker>>
native  == <<service, updater, helper>>
others  == <<ordinary, launcher, plan, command>>
history == <<transitions, updates, faults>>
vars    == <<journal, files, native, worker, others, history>>

desktopTransitionPending == journal # None /\ journal.phase \notin TERMINAL
leaseAlive == worker \notin {"idle", "retire"} \/ ordinary = "leased"
Finished == state # None => state.phase \in FINISHED_PHASES
Reservation == [id |-> <<"transition", journal.id>>, phase |-> "preparing"]
Ours(file) == file # None /\ file # Torn /\ file.id = <<"transition", journal.id>>

Fault == faults < MaxFaults /\ faults' = faults + 1

Init ==
  /\ journal = None /\ request = None /\ state = None
  /\ deployment = 0 /\ control = [of |-> 0, version |-> 0, paused |-> FALSE] /\ marker = 0
  /\ service = 0 /\ updater = [of |-> 0, on |-> TRUE] /\ helper = FALSE
  /\ worker = "idle" /\ ordinary = "idle" /\ launcher = "idle" /\ plan = None /\ command = "idle"
  /\ transitions = 0 /\ updates = 0 /\ faults = 0

-----------------------------------------------------------------------------
(* The launcher. *)

\* What the recorded services are is captured before anything is copied; a transition
\* that is under way is only given its helper again.
requestDesktopTransition ==
  /\ launcher = "idle" /\ ~leaseAlive
  /\ IF desktopTransitionPending
     THEN launcher' = "register" /\ UNCHANGED <<transitions, plan>>
     ELSE /\ transitions < MaxTransitions /\ transitions' = transitions + 1
          /\ request = None /\ Finished
          /\ service = deployment /\ updater.of = deployment
          /\ launcher' = "publish"
          /\ plan' = [deployment |-> deployment, runtime |-> control.version]
  /\ UNCHANGED <<journal, files, native, worker, ordinary, command, updates, faults>>

\* The journal is published before its helper is registered.
Publish ==
  /\ launcher = "publish" /\ launcher' = "register"
  /\ journal' = [id |-> transitions, phase |-> "queued", old |-> plan]
  /\ plan' = None
  /\ UNCHANGED <<files, native, worker, ordinary, command, history>>

\* Loading the helper anew ends a run of it that has started since.
Register ==
  /\ launcher = "register" /\ launcher' = "idle"
  /\ helper' = TRUE
  /\ \/ UNCHANGED <<worker, faults>>
     \/ worker # "idle" /\ worker' = "idle" /\ Fault
  /\ UNCHANGED <<journal, files, service, updater, ordinary, plan, command, transitions, updates>>

LauncherDies ==
  /\ launcher # "idle" /\ launcher' = "idle" /\ plan' = None
  /\ UNCHANGED <<journal, files, native, worker, ordinary, command, history>>

-----------------------------------------------------------------------------
(* Ordinary updates: the command, and the updater, which leaves a          *)
(* transition alone.                                                       *)

enqueueUpdate ==
  /\ command = "idle" /\ updates < MaxUpdates /\ ~desktopTransitionPending
  /\ command' = "open" /\ updates' = updates + 1
  /\ UNCHANGED <<journal, files, native, worker, ordinary, launcher, plan, transitions, faults>>

\* The exclusive creation of request.json, and its content; it is withdrawn if an
\* update or a recovery is pending.
OpenRequest ==
  /\ command = "open"
  /\ IF request = None THEN request' = Torn /\ command' = "write"
     ELSE command' = "idle" /\ UNCHANGED request
  /\ UNCHANGED <<journal, state, deployment, control, marker, native, worker, ordinary, launcher, plan, history>>

WriteRequest ==
  /\ command = "write" /\ command' = "idle"
  /\ request' = IF Finished THEN [id |-> <<"update", updates>>, phase |-> "queued"] ELSE None
  /\ UNCHANGED <<journal, state, deployment, control, marker, native, worker, ordinary, launcher, plan, history>>

CommandDies ==
  /\ command # "idle" /\ Fault
  /\ command' = "idle"
  /\ UNCHANGED <<journal, files, native, worker, ordinary, launcher, plan, transitions, updates>>

\* Mutant: the updater does not look for a transition.
MayRunAnyway == TRUE

MayRun == ~desktopTransitionPending

\* The timer starts the updater, which looks for a transition before it takes the lease.
UpdaterStarts ==
  /\ ordinary = "idle" /\ updater.on /\ MayRun
  /\ ordinary' = "checked"
  /\ UNCHANGED <<journal, files, native, worker, launcher, plan, command, history>>

TakeLease ==
  /\ ordinary = "checked"
  /\ ordinary' = IF leaseAlive THEN "idle" ELSE "leased"
  /\ UNCHANGED <<journal, files, native, worker, launcher, plan, command, history>>

\* claimRequest and the execution of what is then in state.json, with the ordinary
\* effects: they switch runtimes of the selected deployment.
Execute(current) ==
  \/ /\ current # None => current.phase \in FINISHED_PHASES
     /\ state' = current /\ UNCHANGED control
  \/ /\ current # None /\ current.phase = "queued"
     /\ \/ state' = [current EXCEPT !.phase = "succeeded"] /\ control' = [control EXCEPT !.version = @ + 1]
        \/ state' = [current EXCEPT !.phase = "failed"] /\ UNCHANGED control
  \/ /\ current # None /\ current.phase = "preparing"
     /\ state' = [current EXCEPT !.phase = "failed"] /\ UNCHANGED control
  \/ /\ current # None /\ current.phase \in SWITCH_PHASES
     /\ state' = [current EXCEPT !.phase = "rolled-back"]
     /\ control' = [of |-> journal.old.deployment, version |-> journal.old.runtime, paused |-> FALSE]

\* A request whose command died before it was written is moved aside, when it is old enough.
UpdaterRuns ==
  /\ ordinary = "leased" /\ ordinary' = "idle"
  /\ IF request = None \/ request = Torn
     THEN request' = (IF command = "write" THEN request ELSE None) /\ Execute(state)
     ELSE IF state # None /\ state.id = request.id
     THEN request' = None /\ Execute(state)
     ELSE IF Finished
     THEN request' = None /\ Execute(request)
     ELSE UNCHANGED request /\ Execute(state)
  /\ UNCHANGED <<journal, deployment, marker, native, worker, launcher, plan, command, history>>

-----------------------------------------------------------------------------
(* The transition's worker: from the queue to the switch.                  *)

Goto(next) ==
  /\ worker' = next
  /\ UNCHANGED <<journal, files, native, others, history>>

\* What an earlier run of the helper has reached decides where this one goes on.
TimerFires ==
  /\ worker = "idle" /\ helper /\ journal # None /\ ~leaseAlive
  /\ Goto(IF journal.phase \in TERMINAL THEN "retire"
          ELSE IF journal.phase = "queued" THEN "check"
          ELSE IF Ours(state) THEN "execute"
          ELSE "release reservation")

Unchanged == control.version = journal.old.runtime /\ control.of = journal.old.deployment
             /\ deployment = journal.old.deployment

\* assertIdle, and what was captured is still there; the application may be busy.
assertIdle ==
  /\ worker = "check"
  /\ \/ request = None /\ Finished /\ Unchanged /\ updater.of = deployment /\ service = deployment
        /\ Goto("reserve")
     \/ Goto("release reservation")

\* The request slot is reserved, while the lease is held.
Reserve ==
  /\ worker = "reserve"
  /\ IF request = None
     THEN request' = Torn /\ worker' = "write"
     ELSE worker' = "release reservation" /\ UNCHANGED request
  /\ UNCHANGED <<journal, state, deployment, control, marker, native, others, history>>

WriteReservation ==
  /\ worker = "write" /\ worker' = "save switching"
  /\ request' = Reservation
  /\ UNCHANGED <<journal, state, deployment, control, marker, native, others, history>>

save(phase, next) ==
  /\ journal' = [journal EXCEPT !.phase = phase] /\ worker' = next
  /\ UNCHANGED <<files, native, others, history>>

SaveSwitching == worker = "save switching" /\ save("switching", "stop updater")

\* The updater is ended, also a run of it that is under way.
stopUpdater ==
  /\ worker = "stop updater" /\ worker' = "stage"
  /\ updater' = [updater EXCEPT !.on = FALSE]
  /\ ordinary' = "idle"
  /\ UNCHANGED <<journal, files, service, helper, launcher, plan, command, history>>

\* Staged files may be damaged by now.
Stage ==
  /\ worker = "stage"
  /\ \/ /\ state' = [id |-> <<"transition", journal.id>>, phase |-> "queued"]
        /\ worker' = "start"
     \/ worker' = "release reservation" /\ UNCHANGED state
  /\ UNCHANGED <<journal, request, deployment, control, marker, native, others, history>>

\* A reservation of this transition is given back; one that cannot be read ends the run.
releaseReservation ==
  /\ worker \in {"start", "release reservation"}
  /\ request' = IF Ours(request) THEN None ELSE request
  /\ worker' = IF worker = "start" THEN "execute"
               ELSE IF request = Torn THEN "idle" ELSE "restore updater"
  /\ UNCHANGED <<journal, state, deployment, control, marker, native, others, history>>

\* The updater of the old installation runs again if it was stopped and nothing was switched.
restoreUpdater ==
  /\ worker \in {"restore updater", "end"}
  /\ worker' = IF worker = "end" THEN "save end" ELSE "save failed"
  /\ IF (worker = "end" /\ state.phase = "failed") \/ (worker # "end" /\ journal.phase # "queued")
     THEN updater' = [of |-> journal.old.deployment, on |-> TRUE]
     ELSE UNCHANGED updater
  /\ UNCHANGED <<journal, files, service, helper, others, history>>

SaveFailed == worker = "save failed" /\ save("failed", "idle")

-----------------------------------------------------------------------------
(* The update engine with the effects of the transition.                   *)

Engine(phase, next) ==
  /\ state' = [state EXCEPT !.phase = phase] /\ worker' = next
  /\ UNCHANGED <<journal, request, deployment, control, marker, native, others, history>>

execute ==
  /\ worker = "execute"
  /\ IF Finished THEN Goto("end")
     ELSE IF state.phase \in SWITCH_PHASES THEN Goto("rollback")
     ELSE IF state.phase = "queued" THEN Engine("preparing", "prepare")
     ELSE Engine("failed", "end")

Prepared == worker = "prepare" /\ Engine("pausing", "pause")

\* pauseManagedServer, for the switch or for its rollback.
Pause ==
  /\ worker \in {"pause", "rollback pause"}
  /\ control' = [control EXCEPT !.paused = TRUE]
  /\ worker' = IF worker = "pause" THEN "back up" ELSE "old deployment"
  /\ UNCHANGED <<journal, request, state, deployment, marker, native, others, history>>

BackedUp == worker = "back up" /\ Engine("starting", "new deployment")

SelectDeployment ==
  /\ worker \in {"new deployment", "old deployment"}
  /\ deployment' = IF worker = "new deployment" THEN journal.id ELSE journal.old.deployment
  /\ worker' = IF worker = "new deployment" THEN "new unload" ELSE "old unload"
  /\ UNCHANGED <<journal, request, state, control, marker, native, others, history>>

\* install and restore: the registered application is unloaded, its replacement loaded,
\* then the updater's.
Unload ==
  /\ worker \in {"new unload", "old unload"}
  /\ service' = None
  /\ worker' = IF worker = "new unload" THEN "new service" ELSE "old service"
  /\ UNCHANGED <<journal, files, updater, helper, others, history>>

Load ==
  /\ worker \in {"new service", "old service"}
  /\ service' = IF worker = "new service" THEN journal.id ELSE journal.old.deployment
  /\ worker' = IF worker = "new service" THEN "new updater" ELSE "old updater"
  /\ UNCHANGED <<journal, files, updater, helper, others, history>>

LoadUpdater ==
  /\ worker \in {"new updater", "old updater"}
  /\ IF worker = "new updater"
     THEN updater' = [of |-> journal.id, on |-> TRUE] /\ worker' = "new resume"
     ELSE updater' = [of |-> journal.old.deployment, on |-> TRUE] /\ worker' = "old metadata"
  /\ UNCHANGED <<journal, files, service, helper, others, history>>

\* The marker and receipt of the old installation, or that it had none.
RestoreMetadata ==
  /\ worker = "old metadata" /\ worker' = "old resume"
  /\ marker' = journal.old.deployment
  /\ UNCHANGED <<journal, request, state, deployment, control, native, others, history>>

resumeManagedServer ==
  /\ worker \in {"new resume", "old resume"}
  /\ control' = IF worker = "new resume" THEN [of |-> journal.id, version |-> 0, paused |-> FALSE]
                ELSE [of |-> journal.old.deployment, version |-> journal.old.runtime, paused |-> FALSE]
  /\ worker' = IF worker = "new resume" THEN "started" ELSE "old verify"
  /\ UNCHANGED <<journal, request, state, deployment, marker, native, others, history>>

Started == worker = "started" /\ Engine("verifying", "verify")

\* The new runtime serves: its receipt and marker are written.
Verified ==
  /\ worker = "verify" /\ worker' = "verified"
  /\ service = journal.id /\ marker' = journal.id
  /\ UNCHANGED <<journal, request, state, deployment, control, native, others, history>>

Succeeded == worker = "verified" /\ Engine("succeeded", "end")

BeginRollback == worker = "rollback" /\ Engine("rolling-back", "rollback pause")

RolledBack == worker = "old verify" /\ service = journal.old.deployment /\ Engine("rolled-back", "end")

GiveUp == worker = "give up" /\ Engine("recovery-required", "recovery required")

SaveRecovery == worker = "recovery required" /\ save("recovery-required", "idle")

Fail == worker = "fail" /\ Engine("failed", "end")

SaveEnd == worker = "save end" /\ save(state.phase, "idle")

\* The helper retires when its journal is final.
Retire ==
  /\ worker = "retire" /\ worker' = "idle"
  /\ helper' = FALSE
  /\ UNCHANGED <<journal, files, service, updater, others, history>>

-----------------------------------------------------------------------------
(* What goes wrong in the worker.                                          *)

Queueing == {"check", "reserve", "write", "save switching", "stop updater", "stage", "start"}
Forward  == {"prepare", "pause", "back up", "new deployment", "new unload", "new service", "new updater",
             "new resume", "started", "verify", "verified"}
Backward == {"rollback", "rollback pause", "old deployment", "old unload", "old service", "old updater",
             "old metadata", "old resume", "old verify"}
Ending   == {"fail", "give up", "end", "save end"}

\* An exception: the switch is undone, its rollback given up until the next run.
Exception ==
  CASE worker \in Queueing -> "release reservation"
    [] worker \in Forward \/ (worker = "execute" /\ ~Finished) ->
         IF state.phase \in SWITCH_PHASES THEN "rollback" ELSE "fail"
    [] worker \in Backward -> "give up"
    [] worker \in Ending \/ (worker = "execute" /\ Finished) -> "recovery required"
    [] OTHER -> "idle"

\* The new runtime cannot be prepared or does not serve.
Refused == worker \in {"prepare", "verify"} /\ Goto(Exception)

StepFails ==
  /\ worker # "idle" /\ Fault /\ worker' = Exception
  /\ UNCHANGED <<journal, files, native, others, transitions, updates>>

WorkerDies ==
  /\ worker # "idle" /\ Fault
  /\ worker' = "idle"
  /\ UNCHANGED <<journal, files, native, others, transitions, updates>>

-----------------------------------------------------------------------------
TransitionStep ==
  \/ TimerFires \/ assertIdle \/ Reserve \/ WriteReservation \/ SaveSwitching \/ stopUpdater \/ Stage
  \/ releaseReservation \/ restoreUpdater \/ SaveFailed
  \/ execute \/ Prepared \/ Pause \/ BackedUp \/ SelectDeployment \/ Unload \/ Load \/ LoadUpdater
  \/ RestoreMetadata \/ resumeManagedServer \/ Started \/ Verified \/ Succeeded
  \/ BeginRollback \/ RolledBack \/ GiveUp \/ SaveRecovery \/ Fail \/ SaveEnd \/ Retire \/ Refused

UpdaterStep == UpdaterStarts \/ TakeLease \/ UpdaterRuns
CommandStep == OpenRequest \/ WriteRequest

Next ==
  \/ requestDesktopTransition \/ Publish \/ Register \/ LauncherDies
  \/ enqueueUpdate \/ CommandStep \/ CommandDies \/ UpdaterStep
  \/ TransitionStep \/ StepFails \/ WorkerDies

Spec == Init /\ [][Next]_vars

-----------------------------------------------------------------------------
(* Properties. *)

\* Unless a transition is pending, everything on the computer belongs to one installation:
\* its record, the services, the markers and the selected runtime, and its updater runs.
InstallationIsWhole ==
  desktopTransitionPending \/
    /\ service = deployment /\ marker = deployment
    /\ updater = [of |-> deployment, on |-> TRUE]
    /\ control.of = deployment /\ ~control.paused

\* A transition whose helper is registered ends, and the request slot becomes free, although
\* steps failed and the helper died; except when a kill between the creation of a request and
\* its content left one that no run of the helper can read (transition.ts:238).
Settled ==
  \/ request = None /\ ~desktopTransitionPending
  \/ desktopTransitionPending /\ (~helper \/ (worker = "idle" /\ request = Torn))
=============================================================================
