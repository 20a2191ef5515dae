----------------------------- MODULE CliUpdates -----------------------------
(***************************************************************************)
(* Updates of the provider CLIs that a user consented to                   *)
(* (src/server/provider-cli-updates.ts): the record of an update is saved  *)
(* before its installer starts and at every step, the installer outlives   *)
(* the server, and a restart takes up what was interrupted.  Agents are    *)
(* kept away for as long (agent.ts, reserveCliUpdate; server.ts).          *)
(*                                                                         *)
(* The installations are npm's, which are the ones that are retried and    *)
(* repaired.  A token is its plan: a request with any other one is refused *)
(* without a trace, as is one that expired.  Pids are not used again.      *)
(***************************************************************************)
EXTENDS Naturals, FiniteSets

CONSTANTS Providers,    \* the CLIs
          MaxInstalls,  \* bound: installers spawned
          MaxKills,     \* bound: deaths of the server
          MaxUpsets,    \* bound: failed saves, stops and checks, changes by the user
          None

Pids == 1..MaxInstalls

\* The record of an update, and an update or a recovery under way.
Records == [phase : {"installing", "verifying", "succeeded", "failed"}, attempts : 0..2,
            pid : Pids \cup {None}, blocked : BOOLEAN]
Runs == [provider : Providers, recovery : BOOLEAN,
         at : {"reserving", "consented", "installing", "spawning", "spawned", "waiting",
               "verifying", "inspecting", "succeeded", "failed", "end"}]

CliUpdatesAssumption ==
  /\ MaxInstalls \in Nat /\ MaxKills \in Nat /\ MaxUpsets \in Nat
  /\ None \notin Providers \cup Pids \cup Records \cup Runs /\ "gone" \notin Providers

VARIABLES
  cli,         \* what the selected command of a provider is: see Versions
  installer,   \* per pid, the provider an installer is at work on, or "gone"
  journal,     \* the records on disk
  records,     \* ... and in memory
  plans,       \* what a status offered: the kind, the CLI it saw and whether it repairs the record
  running,     \* the update or the recovery under way
  todo,        \* the records recoverInterrupted() has not come to
  closed, maintenance, agents, terminal,
  kills, upsets,
  spawned,     \* history: installers since the user's last consent
  blind        \* history: an installer nobody knows of was given up, or taken for finished

world == <<cli, installer>>
idle == <<closed, agents, terminal>>
bounds == <<kills, upsets>>
history == <<spawned, blind>>
vars == <<world, journal, records, plans, running, todo, idle, maintenance, bounds, history>>

\* "damaged" does not run; "other" is a version nobody asked for, or another selection.
Versions == {"old", "damaged", "target", "other"}

NewRecord == [phase |-> "installing", attempts |-> 0, pid |-> None, blocked |-> FALSE]

Init ==
  /\ cli = [p \in Providers |-> "old"] /\ installer = [i \in Pids |-> None]
  /\ journal = [p \in Providers |-> None] /\ records = journal /\ plans = journal
  /\ running = None /\ todo = {} /\ closed = FALSE /\ maintenance = FALSE
  /\ agents = FALSE /\ terminal = FALSE /\ kills = 0 /\ upsets = 0
  /\ spawned = [p \in Providers |-> 0] /\ blind = FALSE

Upset == upsets < MaxUpsets /\ upsets' = upsets + 1 /\ kills' = kills

\* Mutant: a saved pid is taken for a process.
cliInstallerSaved(pid) == pid # None

cliInstallerAlive(pid) == pid # None /\ installer[pid] \in Providers
Pending(p) == records[p] # None /\ cliInstallerAlive(records[p].pid)
Blocked(p) == records[p] # None /\ records[p].blocked

busy == running # None \/ \E p \in Providers : Pending(p)
unresolvedInstaller == \E p \in Providers : Pending(p) \/ Blocked(p)

\* reserve() decides before it awaits anything.
MayReserve == ~terminal /\ ~agents /\ ~maintenance

\* recoverInterrupted() awaits nothing between two records: no request comes in there.
Serving == running # None \/ todo = {}

Step(p, at) == running # None /\ running.provider = p /\ running.at = at
Goto(at) == running' = [running EXCEPT !.at = at] /\ maintenance' = maintenance
Ends == running' = None /\ maintenance' = FALSE

-----------------------------------------------------------------------------
(* The user looks, consents, starts turns, opens terminals, changes a CLI. *)

Recoverable(p) == records[p] # None /\ records[p].phase = "failed" /\ ~records[p].blocked

status(p) ==
  /\ Serving /\ ~busy /\ ~closed /\ ~unresolvedInstaller /\ cli[p] # "target"
  /\ plans' = [plans EXCEPT ![p] = [saw |-> cli[p], recovers |-> cli[p] = "damaged" /\ Recoverable(p)]]
  /\ UNCHANGED <<world, journal, records, running, todo, idle, maintenance, bounds, history>>

start(p) ==
  /\ Serving /\ ~closed /\ ~busy /\ ~unresolvedInstaller /\ plans[p] # None /\ MayReserve
  /\ running' = [provider |-> p, at |-> "reserving", recovery |-> FALSE] /\ maintenance' = TRUE
  /\ UNCHANGED <<world, journal, records, plans, todo, idle, bounds, history>>

\* getAgentEnvironment() refuses while an update is busy, startTurnForChat during maintenance.
Turn ==
  /\ Serving /\ agents' = ~agents /\ (agents' => ~busy /\ ~maintenance /\ ~closed)
  /\ UNCHANGED <<world, journal, records, plans, running, todo, closed, terminal, maintenance, bounds, history>>

Terminal ==
  /\ Serving /\ terminal' = ~terminal
  /\ UNCHANGED <<world, journal, records, plans, running, todo, closed, agents, maintenance, bounds, history>>

\* ... after the installer that is at work on it is finished, as the status asks for.
UserChanges(p) ==
  /\ \A i \in Pids : installer[i] # p
  /\ Upset /\ \E to \in Versions \ {cli[p]} : cli' = [cli EXCEPT ![p] = to]
  /\ UNCHANGED <<installer, journal, records, plans, running, todo, idle, maintenance, history>>

-----------------------------------------------------------------------------
(* start(): the reservation, the second look, the record.                  *)

StopAllFails(p) ==
  /\ Step(p, "reserving") /\ ~running.recovery /\ Upset /\ Ends
  /\ UNCHANGED <<world, journal, records, plans, todo, idle, history>>

\* The selection is looked at again before the consent is used up.
Consented(p) ==
  /\ Step(p, "reserving") /\ ~running.recovery
  /\ IF plans[p].saw = cli[p] /\ (plans[p].recovers => Recoverable(p))
     THEN plans' = [plans EXCEPT ![p] = None] /\ spawned' = [spawned EXCEPT ![p] = 0] /\ Goto("consented")
     ELSE Ends /\ UNCHANGED <<plans, spawned>>
  /\ UNCHANGED <<world, journal, records, todo, idle, bounds, blind>>

\* Nothing is installed whose record could not be saved first.
Saved(p) ==
  /\ Step(p, "consented")
  /\ \/ /\ journal' = [journal EXCEPT ![p] = NewRecord]
        /\ records' = [records EXCEPT ![p] = [NewRecord EXCEPT !.attempts = 1]]
        /\ Goto("installing") /\ UNCHANGED bounds
     \/ Upset /\ Ends /\ UNCHANGED <<journal, records>>
  /\ UNCHANGED <<world, plans, todo, idle, history>>

-----------------------------------------------------------------------------
(* perform().                                                              *)

\* A save that it awaits.  If it fails, the catch notes the failure and saves that.
Save(p, next) ==
  \/ journal' = [journal EXCEPT ![p] = records[p]] /\ Goto(next) /\ UNCHANGED <<records, bounds>>
  \/ Upset /\ records' = [records EXCEPT ![p].phase = "failed"] /\ Goto("failed") /\ UNCHANGED journal

Saves(p) ==
  /\ \/ Step(p, "installing") /\ Save(p, "spawning")
     \/ Step(p, "verifying") /\ Save(p, "inspecting")
     \/ Step(p, "succeeded") /\ Save(p, "end")
  /\ UNCHANGED <<world, plans, todo, idle, history>>

\* runCliInstaller: a process, unless npm is not to be found (or the bound is reached) ...
Spawn(p) ==
  /\ Step(p, "spawning")
  /\ \/ \E i \in Pids :
          /\ installer[i] = None /\ \A j \in Pids : j < i => installer[j] # None
          /\ installer' = [installer EXCEPT ![i] = p]
          /\ records' = [records EXCEPT ![p].pid = i]
          /\ spawned' = [spawned EXCEPT ![p] = @ + 1]
          /\ Goto("spawned") /\ UNCHANGED bounds
     \/ /\ Upset \/ ((\A i \in Pids : installer[i] # None) /\ UNCHANGED bounds)
        /\ Goto("waiting") /\ UNCHANGED <<installer, records, spawned>>
  /\ UNCHANGED <<cli, journal, plans, todo, idle, blind>>

\* ... whose pid is saved while it runs; it is waited for even if that fails.
onSpawn(p) ==
  /\ Step(p, "spawned") /\ Goto("waiting")
  /\ \/ journal' = [journal EXCEPT ![p] = records[p]] /\ UNCHANGED bounds
     \/ Upset /\ UNCHANGED journal
  /\ UNCHANGED <<world, records, plans, todo, idle, history>>

Verifying(r) == [r EXCEPT !.pid = None, !.phase = "verifying"]

InstallerDone(p) ==
  /\ Step(p, "waiting") /\ ~running.recovery /\ ~Pending(p)
  /\ records' = [records EXCEPT ![p] = Verifying(@)] /\ Goto("verifying")
  /\ UNCHANGED <<world, journal, plans, todo, idle, bounds, history>>

\* Mutant: the CLI is repaired although its installer may still run.
MayRetryAnyway(p) == cli[p] = "damaged" /\ records[p].attempts < 2

\* Only a CLI that does not run is installed again, once, and never beside an installer
\* that may still run.
MayRetry(p) == cli[p] = "damaged" /\ ~Blocked(p) /\ records[p].attempts < 2

Inspected(p) ==
  /\ Step(p, "inspecting")
  /\ \/ /\ cli[p] = "target" /\ Goto("succeeded") /\ UNCHANGED bounds
        /\ blind' = (blind \/ \E i \in Pids : installer[i] = p)
        /\ records' = [records EXCEPT ![p].phase = "succeeded", ![p].blocked = FALSE]
     \/ /\ MayRetry(p) /\ UNCHANGED <<bounds, blind>>
        /\ records' = [records EXCEPT ![p].phase = "installing", ![p].attempts = @ + 1]
        /\ running' = [running EXCEPT !.at = "installing", !.recovery = FALSE] /\ UNCHANGED maintenance
     \/ /\ cli[p] # "target" /\ ~MayRetry(p) /\ UNCHANGED <<bounds, blind>>
        /\ records' = [records EXCEPT ![p].phase = "failed"] /\ Goto("failed")
     \/ /\ cli[p] = "target" /\ Upset    \* the fresh App Server is not what it should be
        /\ records' = [records EXCEPT ![p].phase = "failed"] /\ Goto("failed") /\ UNCHANGED blind
  /\ UNCHANGED <<world, journal, plans, todo, idle, spawned>>

Finish(p) ==
  /\ \/ Step(p, "end") /\ UNCHANGED <<journal, bounds>>
     \/ Step(p, "failed") /\ journal' = [journal EXCEPT ![p] = records[p]] /\ UNCHANGED bounds
     \/ Step(p, "failed") /\ Upset /\ UNCHANGED journal
  /\ Ends
  /\ UNCHANGED <<world, records, plans, todo, idle, history>>

-----------------------------------------------------------------------------
(* recoverInterrupted(), and what it recovers from.                        *)

Unknown(p) == records[p].phase = "installing" /\ records[p].pid = None

Interrupted(p) ==
  records[p] # None /\ (records[p].phase \in {"installing", "verifying"} \/ records[p].blocked)

recover(p) ==
  /\ running = None /\ p \in todo /\ todo' = todo \ {p}
  /\ \/ (closed \/ ~Interrupted(p)) /\ UNCHANGED <<records, running, maintenance, blind>>
     \/ /\ ~closed /\ Interrupted(p) /\ MayReserve /\ maintenance' = TRUE
        /\ running' = [provider |-> p, at |-> "reserving", recovery |-> TRUE]
        /\ UNCHANGED <<records, blind>>
     \/ /\ ~closed /\ Interrupted(p) /\ ~MayReserve
        /\ running' = [provider |-> p, at |-> "failed", recovery |-> TRUE]
        /\ records' = [records EXCEPT ![p].phase = "failed"]
        /\ blind' = (blind \/ (Unknown(p) /\ ~Blocked(p))) /\ UNCHANGED maintenance
  /\ UNCHANGED <<world, journal, plans, idle, bounds, spawned>>

\* An installer whose pid was never saved may run for ever: no second one beside it.
Reserved(p) ==
  /\ Step(p, "reserving") /\ running.recovery /\ Goto("waiting")
  /\ records' = [records EXCEPT ![p].blocked = @ \/ Unknown(p)]
  /\ UNCHANGED <<world, journal, plans, todo, idle, bounds, history>>

Waited(p) ==
  /\ Step(p, "waiting") /\ running.recovery
  /\ \/ closed /\ Ends /\ UNCHANGED records
     \/ /\ ~closed /\ ~Pending(p) /\ Goto("verifying")
        /\ records' = [records EXCEPT ![p] = Verifying(@)]
  /\ UNCHANGED <<world, journal, plans, todo, idle, bounds, history>>

close ==
  /\ ~closed /\ Serving /\ closed' = TRUE
  /\ UNCHANGED <<world, journal, records, plans, running, todo, agents, terminal, maintenance, bounds, history>>

\* The server goes, of itself or killed, and starts again; an installer goes on.
Restart ==
  /\ kills < MaxKills /\ kills' = kills + 1
  /\ records' = journal /\ plans' = [p \in Providers |-> None] /\ todo' = Providers
  /\ running' = None /\ closed' = FALSE /\ maintenance' = FALSE /\ agents' = FALSE /\ terminal' = FALSE
  /\ UNCHANGED <<world, journal, upsets, history>>

\* An installer takes the launcher away first, and may end at any time.
Works(i) ==
  /\ installer[i] \in Providers
  /\ \/ cli' = [cli EXCEPT ![installer[i]] = "damaged"] /\ UNCHANGED installer
     \/ /\ \E to \in {"target", cli[installer[i]]} : cli' = [cli EXCEPT ![installer[i]] = to]
        /\ installer' = [installer EXCEPT ![i] = "gone"]
  /\ UNCHANGED <<journal, records, plans, running, todo, idle, maintenance, bounds, history>>

InstallerEnds(i) == Works(i) /\ installer'[i] = "gone"

UpdateStep ==
  \E p \in Providers :
    \/ Consented(p) \/ Saved(p) \/ Saves(p) \/ Spawn(p) \/ onSpawn(p) \/ InstallerDone(p)
    \/ Inspected(p) \/ Finish(p) \/ recover(p) \/ Reserved(p) \/ Waited(p)

Next ==
  \/ Turn \/ Terminal \/ close \/ Restart \/ UpdateStep
  \/ \E p \in Providers : status(p) \/ start(p) \/ UserChanges(p) \/ StopAllFails(p)
  \/ \E i \in Pids : Works(i)

\* The event loop goes on, and an installer ends.
Fairness == WF_vars(UpdateStep) /\ \A i \in Pids : WF_vars(InstallerEnds(i))

Spec == Init /\ [][Next]_vars

-----------------------------------------------------------------------------
(* Properties.                                                             *)

Alive == {i \in Pids : installer[i] \in Providers}

\* No two installers are ever at work on one CLI, whatever dies between a save and what it
\* records; unless one that nobody knows of was given up, or taken for finished because
\* the target is there.
OneInstaller == blind \/ \A i, j \in Alive : installer[i] = installer[j] => i = j

\* No agent works while an installer does, also not after a restart; unless nobody knows
\* of the installer.
AgentsStayAway == agents => \A i \in Alive : blind \/ Blocked(installer[i])

\* A consent is good for one installer and one repair, however often it is recovered.
TwiceAtMost == \A p \in Providers : spawned[p] <= 2

\* What a user consents to is done once and alone.
InstallsAlone == OneInstaller /\ AgentsStayAway /\ TwiceAtMost

\* No update, and no recovery, lasts for ever.
Settled == running = None
=============================================================================
