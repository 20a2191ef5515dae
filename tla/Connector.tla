------------------------------ MODULE Connector ------------------------------
(***************************************************************************)
(* Remote access: the binding of this computer to an account and the       *)
(* tunnel that serves it (createConnector,                                 *)
(* src/src/server/connect/connector.ts).  A heartbeat (tick) and the       *)
(* user's changes take turns; requests of the settings page, the exit of   *)
(* the tunnel and the shutdown come in between.  The account service is    *)
(* external: what it does with a request is read off the answers the code  *)
(* expects.                                                                *)
(*                                                                         *)
(* Left out: the origin and its migration, the names and leases that a     *)
(* heartbeat carries, back-off times, and a tunnel process that survives a *)
(* killed server.                                                          *)
(***************************************************************************)
EXTENDS Naturals, Sequences

CONSTANTS MaxKeys,    \* bound on device keys: enrollments
          MaxFaults,  \* bound on lost answers, failed writes, lost tunnels, shutdowns and kills
          None

DeviceKeys == 1..MaxKeys
DeviceStates == [key : DeviceKeys, enrolled : BOOLEAN, bound : BOOLEAN, paused : BOOLEAN,
                 pendingUnbind : BOOLEAN, pendingPause : BOOLEAN]

(* An operation: what it is, the step it is at, what it asked or was       *)
(* answered, how many stops it waits for, and whether a stop came since it *)
(* read transportRevision.                                                 *)
Asks == {"enroll", "claim", "connect", "heartbeat", "pause", "resume", "revoke"}
Replies == {"ok", "pending", "NOT_FOUND", "ACCESS_PAUSED", "CONNECTION_EXPIRED", "lost"}
Steps == {"asking", "answered", "over", "last save", "refused", "bound", "serve", "start", "prepare",
          "generation", "configure", "new device", "intent", "pause", "revoke", "repair"}
Operations ==
  [kind : {"tick", "enroll", "pause", "unbind", "resume", "repair"}, step : Steps,
   ask : {None} \union Asks \union Asks \X Replies, wait : Nat, moved : BOOLEAN]

ConnectorAssumption == {MaxKeys, MaxFaults} \subseteq Nat /\ None \notin DeviceStates \union Operations

VARIABLES
  state, disk,      \* DeviceState or None: in memory, and in device.json
  cloud,            \* key -> what the account service has for it
  op,               \* the tick or change under way, or None
  adapter, frpc,    \* the local end of the tunnel and its process
  stops,            \* stopTransport's operations in their order: what each still has to stop
  blocked,          \* componentStatus is an error: no start before a repair
  stopped,          \* stop() was called
  keys, faults,     \* keys made, faults so far
  unsaved           \* history: a pause, an unbind or a revocation could not be saved

transport == <<adapter, frpc, stops>>
vars == <<state, disk, cloud, op, transport, blocked, stopped, keys, faults, unsaved>>

Bound == state # None /\ state.bound

Init ==
  /\ state = None /\ disk = None
  /\ cloud = [k \in DeviceKeys |-> "none"]
  /\ op = None
  /\ adapter = FALSE /\ frpc = FALSE /\ stops = <<>>
  /\ blocked = FALSE /\ stopped = FALSE
  /\ keys = 0 /\ faults = 0 /\ unsaved = FALSE

Fault == faults < MaxFaults /\ faults' = faults + 1

Operation(kind, step) == [kind |-> kind, step |-> step, ask |-> None, wait |-> 0, moved |-> FALSE]
At(step) == op # None /\ op.step = step
Going(step) == [op EXCEPT !.step = step]
Asking(what) == [op EXCEPT !.step = "asking", !.ask = what]

(* stopTransport: tunnel and adapter are let go at once and stopped in turn.*)
Letting(o) == IF o = None THEN None ELSE [o EXCEPT !.moved = TRUE]
stopTransport ==
  /\ adapter' = FALSE /\ frpc' = FALSE
  /\ stops' = Append(stops, [adapter |-> adapter, frpc |-> frpc])

\* The operation stops the transport and waits until that is done.
StopAndGo(step) == stopTransport /\ op' = [op EXCEPT !.step = step, !.wait = Len(stops) + 1, !.moved = TRUE]

Stopped ==
  /\ stops # <<>> /\ stops' = Tail(stops)
  /\ op' = IF op = None \/ op.wait = 0 THEN op ELSE [op EXCEPT !.wait = @ - 1]
  /\ UNCHANGED <<state, disk, cloud, adapter, frpc, blocked, stopped, keys, faults, unsaved>>

(***************************************************************************)
(* The account service (external)                                          *)
(***************************************************************************)
Live == {"active", "paused"}

CloudAfter(ask, k) ==
  CASE ask = "enroll" -> "pending"
    [] ask = "revoke" /\ cloud[k] \in Live \union {"pending"} -> "retired"
    [] ask = "pause" /\ cloud[k] = "active" -> "paused"
    [] ask = "resume" /\ cloud[k] = "paused" -> "active"
    [] OTHER -> cloud[k]

Answer(ask, k) ==
  CASE ask = "enroll" -> "ok"
    [] cloud[k] \in {"none", "retired"} -> "NOT_FOUND"
    [] ask = "claim" -> IF cloud[k] = "pending" THEN "pending" ELSE "ok"
    [] ask \in {"connect", "heartbeat"} /\ cloud[k] = "paused" -> "ACCESS_PAUSED"
    [] OTHER -> "ok"

CloudHandles ==
  /\ At("asking") /\ op.wait = 0 /\ ~stopped
  /\ cloud' = [cloud EXCEPT ![state.key] = CloudAfter(op.ask, state.key)]
  /\ \/ op' = [op EXCEPT !.step = "answered", !.ask = <<op.ask, Answer(op.ask, state.key)>>]
     \/ /\ op.ask = "heartbeat" /\ Answer(op.ask, state.key) = "ok"
        /\ op' = [op EXCEPT !.step = "answered", !.ask = <<op.ask, "CONNECTION_EXPIRED">>]
  /\ UNCHANGED <<state, disk, transport, blocked, stopped, keys, faults, unsaved>>

\* The account's owner approves the computer by the page of a saved enrollment, and may
\* pause, resume or remove a computer there.
Owner(k) ==
  /\ \/ /\ cloud[k] = "pending" /\ disk # None /\ disk.key = k /\ disk.enrolled
        /\ cloud' = [cloud EXCEPT ![k] = "active"]
     \/ cloud[k] \in Live /\ \E to \in {"active", "paused", "retired"} : cloud' = [cloud EXCEPT ![k] = to]
  /\ UNCHANGED <<state, disk, op, transport, blocked, stopped, keys, faults, unsaved>>

(***************************************************************************)
(* Requests and writes                                                     *)
(***************************************************************************)
\* The network fails under a request, before or after the service took it.  That may
\* change the route, which stops the transport; a failed challenge is asked for again then.
Lost ==
  /\ At("asking") /\ op.wait = 0 /\ ~stopped /\ Fault
  /\ LET failed == [op EXCEPT !.step = "answered", !.ask = <<op.ask, "lost">>] IN
     \/ /\ cloud' \in {cloud, [cloud EXCEPT ![state.key] = CloudAfter(op.ask, state.key)]}
        /\ \/ op' = failed /\ UNCHANGED transport
           \/ op' = [failed EXCEPT !.wait = Len(stops) + 1, !.moved = TRUE] /\ stopTransport
     \/ UNCHANGED cloud /\ StopAndGo("asking")
  /\ UNCHANGED <<state, disk, blocked, stopped, keys, unsaved>>

Aborted ==
  /\ At("asking") /\ stopped
  /\ op' = [op EXCEPT !.step = "answered", !.ask = <<op.ask, "lost">>]
  /\ UNCHANGED <<state, disk, cloud, transport, blocked, stopped, keys, faults, unsaved>>

Answered(ask) == At("answered") /\ op.wait = 0 /\ op.ask[1] = ask
Reply == op.ask[2]

\* save(), which may fail.
Saves == disk' = state /\ UNCHANGED faults
SaveFails == Fault /\ UNCHANGED disk

\* Whatever does not touch the service, the files or the transport.
Same == UNCHANGED <<cloud, blocked, stopped, keys>>
NoWrite == UNCHANGED <<disk, faults, unsaved>>

\* An operation that waited for a stop, or for a last write, is over.
Over ==
  /\ At("over") /\ op.wait = 0 /\ op' = None
  /\ UNCHANGED <<state, transport>> /\ Same /\ NoWrite

LastSave ==
  /\ At("last save") /\ op' = None
  /\ (Saves \/ SaveFails)
  /\ UNCHANGED <<state, transport, unsaved>> /\ Same

\* The catch of tick(): a refused computer is paused and its transport stopped; other
\* errors are left to the next tick.
Refused(reply) == state.bound /\ reply \in {"NOT_FOUND", "ACCESS_PAUSED"}

Throw(reply) ==
  CASE op.kind = "tick" /\ ~stopped /\ Refused(reply) ->
         state' = [state EXCEPT !.paused = TRUE] /\ op' = Going("refused") /\ UNCHANGED transport
    [] op.kind = "tick" /\ ~stopped /\ reply = "CONNECTION_EXPIRED" ->
         StopAndGo("over") /\ UNCHANGED state
    [] OTHER -> op' = None /\ UNCHANGED <<state, transport>>

RefusedSaved ==
  /\ At("refused")
  /\ \/ Saves /\ StopAndGo("over") /\ UNCHANGED unsaved
     \/ SaveFails /\ op' = None /\ unsaved' = TRUE /\ UNCHANGED transport
  /\ UNCHANGED state /\ Same

(***************************************************************************)
(* tick()                                                                  *)
(***************************************************************************)
\* Where a tick begins: a pending revocation, an enrollment to claim, a pause the service
\* does not know of yet, and only then the tunnel.
tick ==
  /\ op = None /\ ~stopped /\ state # None
  /\ LET o == Operation("tick", "serve") IN
     CASE state.pendingUnbind -> op' = [o EXCEPT !.step = "revoke"] /\ UNCHANGED state
       [] ~state.pendingUnbind /\ state.enrolled /\ ~state.bound ->
            \/ op' = [o EXCEPT !.step = "asking", !.ask = "claim"] /\ UNCHANGED state
            \/ op' = [o EXCEPT !.step = "last save"] /\ state' = None  \* expired
       [] ~state.pendingUnbind /\ state.bound /\ state.pendingPause ->
            op' = [o EXCEPT !.step = "asking", !.ask = "pause"] /\ UNCHANGED state
       [] ~state.pendingUnbind /\ state.bound /\ ~state.pendingPause ->
            ~state.paused /\ ~blocked /\ op' = o /\ UNCHANGED state
       [] OTHER -> FALSE
  /\ UNCHANGED transport /\ Same /\ NoWrite

Claimed ==
  /\ Answered("claim")
  /\ IF Reply = "ok" /\ ~stopped
     THEN state' = [state EXCEPT !.bound = TRUE, !.enrolled = FALSE] /\ op' = Going("bound") /\ UNCHANGED transport
     ELSE Throw(Reply)
  /\ Same /\ NoWrite

BoundSaved ==
  /\ At("bound")
  /\ \/ Saves /\ op' = IF state.paused \/ blocked THEN None ELSE Going("serve")
     \/ SaveFails /\ op' = None
  /\ UNCHANGED <<state, transport, unsaved>> /\ Same

\* The tunnel is started when there is none; otherwise a heartbeat is due, or a probe of
\* the direct route succeeds and ends the tunnel.
serve ==
  /\ At("serve") /\ op.wait = 0
  /\ \/ stopped /\ op' = None /\ UNCHANGED transport
     \/ ~stopped /\ frpc /\ op' = Asking("heartbeat") /\ UNCHANGED transport
     \/ ~stopped /\ frpc /\ StopAndGo("serve")
     \/ ~stopped /\ ~frpc /\ StopAndGo("start")
  /\ UNCHANGED state /\ Same /\ NoWrite

Beaten ==
  /\ Answered("heartbeat")
  /\ \/ Reply = "ok" /\ op' = None /\ UNCHANGED <<state, transport>>
     \/ Reply = "ok" /\ ~stopped /\ ~op.moved /\ StopAndGo("over") /\ UNCHANGED state   \* connecting too long
     \/ Reply # "ok" /\ Throw(Reply)
  /\ Same /\ NoWrite

(***************************************************************************)
(* startTransport                                                          *)
(***************************************************************************)
Start ==
  /\ At("start") /\ op.wait = 0
  /\ \/ op' = Asking("connect") /\ UNCHANGED blocked
     \/ op' = None /\ blocked' = TRUE          \* no valid executable
  /\ UNCHANGED <<state, transport, cloud, stopped, keys>> /\ NoWrite

Connected ==
  /\ Answered("connect")
  /\ IF Reply # "ok" THEN Throw(Reply)
     ELSE /\ op' = IF stopped \/ state.paused THEN None ELSE [op EXCEPT !.step = "prepare", !.wait = Len(stops)]
          /\ UNCHANGED <<state, transport>>
  /\ Same /\ NoWrite

\* The transport's revision is read, and the generation saved.
Prepare ==
  /\ At("prepare") /\ op.wait = 0
  /\ \/ op' = [op EXCEPT !.step = "generation", !.moved = FALSE]
     \/ op' = None                             \* the tunnel's address changes the route
  /\ UNCHANGED <<state, transport>> /\ Same /\ NoWrite

StartAdapter ==
  /\ At("generation")
  /\ \/ Saves /\ adapter' = TRUE /\ op' = Going("configure")
     \/ SaveFails /\ op' = None /\ UNCHANGED adapter
  /\ UNCHANGED <<state, frpc, stops, unsaved>> /\ Same

\* Mutant of MaySpawn: a stop that came while the tunnel was configured is not noticed.
MaySpawnAnyway == ~stopped /\ ~state.paused

MaySpawn == ~stopped /\ ~state.paused /\ ~op.moved

Spawn ==
  /\ At("configure")
  /\ \/ MaySpawn /\ frpc' = TRUE /\ op' = None /\ UNCHANGED <<adapter, stops, blocked, faults>>
     \/ ~MaySpawn /\ StopAndGo("over") /\ UNCHANGED <<blocked, faults>>
     \/ MaySpawn /\ Fault /\ StopAndGo("over") /\ blocked' = TRUE           \* it cannot be spawned
     \/ Fault /\ op' = None /\ UNCHANGED <<transport, blocked>>             \* its files cannot be written
  /\ UNCHANGED <<state, disk, cloud, stopped, keys, unsaved>>

(***************************************************************************)
(* Changes.  One that meets a tick or another change is refused.           *)
(***************************************************************************)
change == op = None /\ ~stopped

enroll ==
  /\ change /\ keys < MaxKeys /\ ~blocked
  /\ state = None \/ (state # None /\ ~state.bound /\ ~state.pendingUnbind)
  /\ keys' = keys + 1
  /\ state' = [key |-> keys + 1, enrolled |-> FALSE, bound |-> FALSE,
               paused |-> FALSE, pendingUnbind |-> FALSE, pendingPause |-> FALSE]
  /\ op' = Operation("enroll", "new device")
  /\ UNCHANGED <<cloud, blocked, stopped, transport>> /\ NoWrite

DeviceSaved ==
  /\ At("new device")
  /\ \/ Saves /\ op' = Asking("enroll")
     \/ SaveFails /\ op' = None
  /\ UNCHANGED <<state, transport, unsaved>> /\ Same

Enrolled ==
  /\ Answered("enroll")
  /\ IF Reply = "ok" THEN state' = [state EXCEPT !.enrolled = TRUE] /\ op' = Going("last save")
     ELSE op' = None /\ UNCHANGED state
  /\ UNCHANGED transport /\ Same /\ NoWrite

\* pause and unbind: what the user wants is saved, then the transport is stopped, and only
\* then the service is told.
Intend(kind, wanted) ==
  /\ change
  /\ state' = wanted /\ op' = Operation(kind, "intent")
  /\ UNCHANGED transport /\ Same /\ NoWrite

pause == Bound /\ Intend("pause", [state EXCEPT !.paused = TRUE, !.pendingPause = TRUE])
unbind == state # None /\ Intend("unbind", [state EXCEPT !.paused = TRUE, !.pendingUnbind = TRUE])

Then == IF op.kind = "pause" THEN "pause" ELSE "revoke"

IntentSaved ==
  /\ At("intent")
  /\ \/ Saves /\ StopAndGo(Then) /\ UNCHANGED unsaved
     \/ SaveFails /\ op' = None /\ unsaved' = TRUE /\ UNCHANGED transport
  /\ UNCHANGED state /\ Same

TellPause ==
  /\ At("pause") /\ op.wait = 0 /\ op' = Asking("pause")
  /\ UNCHANGED <<state, transport>> /\ Same /\ NoWrite

PauseTold ==
  /\ Answered("pause")
  /\ IF Reply = "ok" THEN /\ state' = [state EXCEPT !.pendingPause = FALSE]
                          /\ op' = Going("last save") /\ UNCHANGED transport
     ELSE Throw(Reply)
  /\ Same /\ NoWrite

resume ==
  /\ change /\ Bound /\ ~state.pendingUnbind
  /\ op' = [Operation("resume", "asking") EXCEPT !.ask = "resume"]
  /\ UNCHANGED <<state, transport>> /\ Same /\ NoWrite

Resumed ==
  /\ Answered("resume")
  /\ IF Reply = "ok" THEN state' = [state EXCEPT !.paused = FALSE, !.pendingPause = FALSE] /\ op' = Going("last save")
     ELSE op' = None /\ UNCHANGED state
  /\ UNCHANGED transport /\ Same /\ NoWrite

\* revoke(): a binding is retired, or an enrollment cancelled.
revoke ==
  /\ At("revoke") /\ op.wait = 0
  /\ IF state.bound \/ state.enrolled THEN op' = Asking("revoke") /\ UNCHANGED state
     ELSE state' = None /\ op' = Going("last save")
  /\ UNCHANGED transport /\ Same /\ NoWrite

\* Mutant of Revocation: a computer the service does not know is not taken for revoked.
RevocationTaken(reply) == reply = "ok"

\* A repeated request finds nothing any more: that is as good as done.
Revocation(reply) == reply \in {"ok", "NOT_FOUND"}

Revoked ==
  /\ Answered("revoke")
  /\ IF Revocation(Reply) /\ ~(op.kind = "tick" /\ stopped)
     THEN state' = None /\ op' = Going("last save") /\ UNCHANGED transport
     ELSE Throw(Reply)
  /\ Same /\ NoWrite

repairTransport ==
  /\ change /\ blocked
  /\ stopTransport
  /\ op' = [Operation("repair", "repair") EXCEPT !.wait = Len(stops) + 1]
  /\ UNCHANGED state /\ Same /\ NoWrite

Repaired ==
  /\ At("repair") /\ op.wait = 0 /\ op' = None
  /\ blocked' \in BOOLEAN
  /\ UNCHANGED <<state, transport, cloud, stopped, keys>> /\ NoWrite

(***************************************************************************)
(* What comes in between                                                   *)
(***************************************************************************)
\* A request of the settings page fails and changes the route, or the tunnel's process
\* exits, at once perhaps.
RouteFails ==
  /\ state # None /\ ~stopped /\ Fault
  /\ stopTransport /\ op' = Letting(op)
  /\ UNCHANGED <<state, disk, cloud, blocked, stopped, keys, unsaved>>

TunnelExits ==
  /\ frpc /\ Fault
  /\ adapter' = FALSE /\ frpc' = FALSE
  /\ stops' = Append(stops, [adapter |-> adapter, frpc |-> FALSE])
  /\ op' = Letting(op) /\ blocked' \in {blocked, TRUE}
  /\ UNCHANGED <<state, disk, cloud, stopped, keys, unsaved>>

stop ==
  /\ ~stopped /\ Fault /\ stopped' = TRUE
  /\ stopTransport /\ op' = Letting(op)
  /\ UNCHANGED <<state, disk, cloud, blocked, keys, unsaved>>

\* StillOn starts again after a shutdown or a kill.
Restart ==
  /\ IF stopped THEN UNCHANGED faults ELSE Fault
  /\ state' = disk /\ op' = None
  /\ adapter' = FALSE /\ frpc' = FALSE /\ stops' = <<>>
  /\ blocked' = FALSE /\ stopped' = FALSE /\ unsaved' = FALSE
  /\ UNCHANGED <<disk, cloud, keys>>

-----------------------------------------------------------------------------

Continue ==
  \/ Stopped \/ Over \/ LastSave \/ RefusedSaved \/ Claimed \/ BoundSaved \/ serve \/ Beaten
  \/ Start \/ Connected \/ Prepare \/ StartAdapter \/ Spawn
  \/ DeviceSaved \/ Enrolled \/ IntentSaved \/ TellPause \/ PauseTold \/ Resumed \/ revoke \/ Revoked \/ Repaired
  \/ Aborted

Next ==
  \/ tick \/ Continue \/ CloudHandles \/ Lost \/ \E k \in DeviceKeys : Owner(k)
  \/ enroll \/ pause \/ unbind \/ resume \/ repairTransport
  \/ RouteFails \/ TunnelExits \/ stop \/ Restart

Spec == Init /\ [][Next]_vars

\* The service takes requests, writes and stops end, ticks come between the changes, and
\* StillOn is started again after a shutdown.
Fairness ==
  /\ WF_vars(Continue) /\ WF_vars(CloudHandles) /\ SF_vars(tick)
  /\ WF_vars(stopped /\ Restart)

-----------------------------------------------------------------------------
(* Properties.                                                             *)

\* A tunnel process never runs without the adapter it leads to, whatever failed, exited or
\* was stopped while it was being started (connector.ts:252).
TunnelHasItsAdapter == frpc => adapter

\* Between operations nothing of a paused, removed or unbound computer is reachable, unless
\* that intention could not be saved: then the transport is not stopped (connector.ts:452, 461).
ClosedWhenTold ==
  op = None /\ (state = None \/ state.paused) /\ ~unsaved => ~adapter /\ ~frpc

\* What is reachable from outside is what the user left open, and works.
ReachableAsTold == TunnelHasItsAdapter /\ ClosedWhenTold

\* Once an unbinding is saved the service is told, and once a pause is, unless it has forgotten
\* the computer; then neither is tried any more, although answers were lost, StillOn was
\* restarted, or an attempt before was taken without an answer (connector.ts:299, 311).
Wants(device, k) == device # None /\ device.key = k

ServiceIsTold ==
  \A k \in DeviceKeys :
    /\ Wants(disk, k) /\ disk.pendingUnbind
         ~> cloud[k] \notin Live /\ ~(Wants(state, k) /\ state.pendingUnbind)
    /\ Wants(state, k) /\ state.pendingPause
         ~> ~Wants(state, k) \/ ~state.pendingPause \/ cloud[k] = "retired"
=============================================================================
