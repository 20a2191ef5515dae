------------------------------ MODULE MCSettles ------------------------------
(***************************************************************************)
(* What was begun comes to an end, whatever dies on the way: a chat's turn *)
(* with a provider whose process outlives it (CodexAppServer,              *)
(* ClaudeSession), an update of the program (UpdateEngine), its switch to  *)
(* another installation (DesktopTransition), and an update of a provider's *)
(* CLI (CliUpdates).  A behaviour is of one of them.                       *)
(***************************************************************************)
EXTENDS CodexAppServer

CONSTANTS MaxPrompts, MaxSessions,
          MaxUpdates, MaxUserTurns, MaxFaults, Partial,
          MaxTransitions, MaxOrdinary,
          CLIs, MaxInstalls, MaxKills, MaxUpsets

VARIABLES work,         \* what the behaviour is about: "codex", "claude", "update", "switch" or "cli"
          sessions, claudeSessions, activeTurn, launch, stopping, barrier, prompts, queued, outcome,
          answered, trespassed, misled,
          request, state, control, runner, worker, ctl, app, data, backup, staged, quarantine,
          updates, userTurns, faults, stale,
          transition, reservation, switch, deployment, owner, marker, service, updater, helper, mover,
          ordinary, launcher, plan, command, transitions, ordinaries, mishaps,
          cli, installer, journal, records, plans, running, todo, closed, maintenance, agents, terminal,
          kills, upsets, installs, blind

claude == <<sessions, claudeSessions, activeTurn, launch, stopping, barrier, prompts, queued, outcome,
            answered, trespassed, misled>>
update == <<request, state, control, runner, worker, ctl, app, data, backup, staged, quarantine,
            updates, userTurns, faults, stale>>

switching == <<transition, reservation, switch, deployment, owner, marker, service, updater, helper, mover,
               ordinary, launcher, plan, command, transitions, ordinaries, mishaps>>

updateCli == <<cli, installer, journal, records, plans, running, todo, closed, maintenance, agents, terminal,
               kills, upsets, installs, blind>>

Claude == INSTANCE ClaudeSession WITH turns <- prompts, MaxTurns <- MaxPrompts
Update == INSTANCE UpdateEngine WITH turns <- userTurns, MaxTurns <- MaxUserTurns
Switch == INSTANCE DesktopTransition WITH
            journal <- transition, request <- reservation, state <- switch, control <- owner,
            worker <- mover, updates <- ordinaries, faults <- mishaps,
            MaxUpdates <- MaxOrdinary, Torn <- Partial
Cli == INSTANCE CliUpdates WITH Providers <- CLIs, spawned <- installs

ASSUME MCSettlesAssumption == /\ Claude!ClaudeAssumption /\ Update!UpdateAssumption
                              /\ Switch!TransitionAssumption /\ Cli!CliUpdatesAssumption

MCInit == /\ work \in {"codex", "claude", "update", "switch", "cli"}
          /\ Init /\ Claude!Init /\ Update!Init /\ Switch!Init /\ Cli!Init
          /\ work # "update" => data = None

MCNext ==
  \/ work = "codex" /\ Next /\ UNCHANGED <<work, claude, update, switching, updateCli>>
  \/ work = "claude" /\ Claude!Next /\ UNCHANGED <<work, vars, update, switching, updateCli>>
  \/ work = "update" /\ Update!Next /\ UNCHANGED <<work, vars, claude, switching, updateCli>>
  \/ work = "switch" /\ Switch!Next /\ UNCHANGED <<work, vars, claude, update, updateCli>>
  \/ work = "cli" /\ Cli!Next /\ UNCHANGED <<work, vars, claude, update, switching>>

\* The fairness of what the behaviour is about.  A provider that stays idle has no fair
\* action that is enabled; but the system starts the worker of an update every minute and
\* keeps the controller running, and both take their steps.  A release that starts may
\* still be refused.
UpdateFairness ==
  /\ WF_update(work = "update" /\ Update!WorkerStart) /\ WF_update(work = "update" /\ Update!WorkerStep)
  /\ WF_update(work = "update" /\ Update!ControllerStep)
  /\ WF_update(work = "update" /\ Update!RequestWritten) /\ WF_update(work = "update" /\ Update!TurnEnds)

\* The system starts helper and updater every minute and lets a command finish; the launcher
\* may be closed at any time.
SwitchFairness ==
  /\ WF_switching(work = "switch" /\ Switch!TransitionStep)
  /\ WF_switching(work = "switch" /\ Switch!UpdaterStep) /\ WF_switching(work = "switch" /\ Switch!CommandStep)

MCSpec == MCInit /\ [][MCNext]_<<work, vars, claude, update, switching, updateCli>>
          /\ Fairness /\ Claude!Fairness /\ UpdateFairness /\ SwitchFairness /\ Cli!Fairness

\* The properties of ClaudeSession, UpdateEngine, DesktopTransition and CliUpdates, stated there.
NoHiddenWork == Claude!NoHiddenWork
TurnEnds == Claude!TurnEnds
DataIsSafe == Update!DataIsSafe
OutcomeIsFinal == Update!OutcomeIsFinal
InstallationIsWhole == Switch!InstallationIsWhole
InstallsAlone == Cli!InstallsAlone

\* An update comes to an end, of the program, of its installation or of a CLI (Settled, in
\* the three modules).
UpdateSettles == []<>((work = "update" => Update!Settled) /\ Switch!Settled /\ Cli!Settled)
=============================================================================
