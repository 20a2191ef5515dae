---------------------------- MODULE QuickCommand ----------------------------
(***************************************************************************)
(* A quick command is started once although the line may drop at any time: *)
(* the delivery that remembers an unanswered launch                        *)
(* (src/src/client/app/quickCommandDelivery.ts), the socket's command queue *)
(* (src/src/client/app/socket.ts), the router                              *)
(* (src/src/server/ws-router.ts) and, for a remote browser, the receipts of *)
(* src/src/server/connect/operations.ts.                                   *)
(*                                                                         *)
(* One project in one browser tab; launches are numbered.                  *)
(***************************************************************************)
EXTENDS Naturals, FiniteSets, Sequences, SequencesExt

CONSTANTS MaxLaunches,  \* bound on launches
          MaxFaults,    \* bound on lost connections and server restarts
          None

QuickCommandAssumption == {MaxLaunches, MaxFaults} \subseteq Nat /\ None \notin Nat \cup {"done", "rejected"}

Launches == 1..MaxLaunches

VARIABLES
  remote,             \* the tab reaches the server through Connect
  open,               \* the socket is open
  launched, pending,  \* launches so far; the one the delivery remembers, or None
  promise,            \* what that launch waits for: "none", "sent", "lookup"
  waiters,            \* socket.pending
  outboundQueue,
  up, down,           \* frames on the open connection
  late,               \* requests of a lost connection the server may still see
  running,            \* requests in execution: [launch, here, done]
  receipts,           \* the receipt of each launch, remote only
  faults,
  executed, told      \* history: what ran, and what the user was told

client == <<pending, promise, waiters, outboundQueue, launched>>
vars == <<remote, open, client, up, down, late, running, receipts, faults, executed, told>>

Init ==
  /\ remote \in BOOLEAN /\ open = TRUE
  /\ launched = 0 /\ pending = None /\ promise = "none"
  /\ waiters = {} /\ outboundQueue = <<>> /\ up = <<>> /\ down = <<>> /\ late = {} /\ running = {}
  /\ receipts = [l \in Launches |-> "none"]
  /\ faults = 0
  /\ executed = [l \in Launches |-> 0] /\ told = [l \in Launches |-> None]

(***************************************************************************)
(* The client                                                              *)
(***************************************************************************)
Tell(launch, what) == told' = [told EXCEPT ![launch] = what]

\* The launch is over: the next selection starts a new one.
Settle(launch, what) == pending' = None /\ promise' = "none" /\ Tell(launch, what)

(* A remote command is refused while the socket is down; a local one waits *)
(* in the queue.                                                           *)
command(launch) ==
  IF remote /\ ~open THEN Settle(launch, "rejected") /\ UNCHANGED <<waiters, up, outboundQueue>>
  ELSE /\ pending' = launch /\ promise' = "sent" /\ UNCHANGED told
       /\ waiters' = waiters \union {launch}
       /\ IF open THEN up' = Append(up, launch) /\ UNCHANGED outboundQueue
          ELSE outboundQueue' = Append(outboundQueue, launch) /\ UNCHANGED up

Start ==
  /\ pending = None /\ launched < MaxLaunches
  /\ launched' = launched + 1
  /\ command(launched + 1)
  /\ UNCHANGED <<remote, open, down, late, running, receipts, faults, executed>>

\* A selection while a launch is unanswered only looks for its receipt.
StartAgain ==
  /\ pending # None /\ promise = "none"
  /\ promise' = "lookup"
  /\ UNCHANGED <<remote, open, pending, waiters, outboundQueue, launched, up, down, late, running, receipts,
                 faults, executed, told>>

\* Mutant of recover: a receipt that is missing counts as a request that was lost.
RecoverMissing ==
  /\ promise = "lookup"
  /\ CASE remote /\ receipts[pending] = "ack" -> Settle(pending, "done")
       [] remote /\ receipts[pending] \in {"error", "none"} -> Settle(pending, "rejected")
       [] OTHER -> promise' = "none" /\ UNCHANGED <<pending, told>>
  /\ UNCHANGED <<remote, open, waiters, outboundQueue, launched, up, down, late, running, receipts, faults, executed>>

(* Only a completed receipt decides: a missing one may race the request.   *)
(* A local tab has none to look at.                                        *)
recover ==
  /\ promise = "lookup"
  /\ CASE remote /\ receipts[pending] = "ack" -> Settle(pending, "done")
       [] remote /\ receipts[pending] = "error" -> Settle(pending, "rejected")
       [] OTHER -> promise' = "none" /\ UNCHANGED <<pending, told>>
  /\ UNCHANGED <<remote, open, waiters, outboundQueue, launched, up, down, late, running, receipts, faults, executed>>

\* The lookup itself may fail.
LookupFails ==
  /\ promise = "lookup" /\ promise' = "none"
  /\ UNCHANGED <<remote, open, pending, waiters, outboundQueue, launched, up, down, late, running, receipts,
                 faults, executed, told>>

\* An answer settles the launch if somebody still waits for it.
Answered ==
  /\ open /\ down # <<>>
  /\ down' = Tail(down)
  /\ LET launch == Head(down).launch IN
     /\ waiters' = waiters \ {launch}
     /\ IF launch \notin waiters THEN UNCHANGED <<pending, promise, told>>
        ELSE Settle(launch, IF Head(down).type = "ack" THEN "done" ELSE "rejected")
  /\ UNCHANGED <<remote, open, outboundQueue, launched, up, late, running, receipts, faults, executed>>

\* close: every waiter is rejected, and the launch that waited looks for its receipt.
WaitersRejected ==
  /\ waiters' = {}
  /\ promise' = IF promise = "sent" THEN "lookup" ELSE promise
  /\ outboundQueue' = IF remote THEN <<>> ELSE outboundQueue
  /\ UNCHANGED <<pending, launched, told>>

\* The connection is lost; what was on its way up may still arrive.
Disconnect ==
  /\ open /\ faults < MaxFaults
  /\ open' = FALSE /\ faults' = faults + 1
  /\ late' = late \union ToSet(up) /\ up' = <<>> /\ down' = <<>>
  /\ running' = {[r EXCEPT !.here = FALSE] : r \in running}
  /\ WaitersRejected
  /\ UNCHANGED <<remote, receipts, executed>>

\* An attempt that fails closes as well.
ConnectFails ==
  /\ ~open /\ waiters # {}
  /\ WaitersRejected
  /\ UNCHANGED <<remote, open, up, down, late, running, receipts, faults, executed>>

\* open: the commands that waited are sent.
Connect ==
  /\ ~open /\ open' = TRUE
  /\ up' = outboundQueue /\ outboundQueue' = <<>>
  /\ UNCHANGED <<remote, pending, promise, waiters, launched, down, late, running, receipts, faults, executed, told>>

(***************************************************************************)
(* The server                                                              *)
(***************************************************************************)
Reply(launch, type) == down' = Append(down, [launch |-> launch, type |-> type])

\* begin: a remote request leaves a receipt before it runs, one that has a
\* receipt is not run again.
Begin(launch, here) ==
  IF remote /\ receipts[launch] # "none"
  THEN UNCHANGED <<running, receipts>>
  ELSE /\ running' = running \union {[launch |-> launch, here |-> here, done |-> FALSE]}
       /\ receipts' = IF remote THEN [receipts EXCEPT ![launch] = "pending"] ELSE receipts

Handle ==
  /\ open /\ up # <<>>
  /\ up' = Tail(up)
  /\ Begin(Head(up), TRUE)
  /\ UNCHANGED <<remote, open, client, down, late, faults, executed, told>>

HandleLate(launch) ==
  /\ launch \in late /\ late' = late \ {launch}
  /\ \/ Begin(launch, FALSE)
     \/ UNCHANGED <<running, receipts>>
  /\ UNCHANGED <<remote, open, client, up, down, faults, executed, told>>

\* chat.startQuickCommand: the chat is created and the command given to the agent.
Run(r) ==
  /\ r \in running /\ ~r.done
  /\ running' = (running \ {r}) \union {[r EXCEPT !.done = TRUE]}
  /\ executed' = [executed EXCEPT ![r.launch] = @ + 1]
  /\ UNCHANGED <<remote, open, client, up, down, late, receipts, faults, told>>

\* send: the receipt is completed with the answer, which a lost connection swallows.
Finish(r, type) ==
  /\ r \in running /\ running' = running \ {r}
  /\ receipts' = IF remote THEN [receipts EXCEPT ![r.launch] = IF @ = "pending" THEN type ELSE @] ELSE receipts
  /\ IF r.here THEN Reply(r.launch, type) ELSE UNCHANGED down
  /\ UNCHANGED <<remote, open, client, up, late, faults, executed, told>>

Complete(r) == r.done /\ Finish(r, "ack")
Refuse(r) == ~r.done /\ Finish(r, "error")

Unfinished(receipt) == IF receipt = "pending" THEN "unknown" ELSE receipt

\* The server is killed and started again: unfinished receipts become unknown.
Restart ==
  /\ faults < MaxFaults /\ faults' = faults + 1
  /\ running' = {} /\ late' = {} /\ up' = <<>> /\ down' = <<>>
  /\ receipts' = [l \in Launches |-> Unfinished(receipts[l])]
  /\ open' = FALSE
  /\ IF open THEN WaitersRejected ELSE UNCHANGED <<client, told>>
  /\ UNCHANGED <<remote, executed>>

\* After a day the receipt of a settled request is deleted.
Expire(launch) ==
  /\ receipts[launch] \in {"ack", "error", "unknown"} /\ launch \notin late
  /\ receipts' = [receipts EXCEPT ![launch] = "none"]
  /\ UNCHANGED <<remote, open, client, up, down, late, running, faults, executed, told>>

Next ==
  \/ Start \/ StartAgain \/ recover \/ LookupFails \/ Answered
  \/ Disconnect \/ ConnectFails \/ Connect \/ Handle \/ Restart
  \/ \E launch \in Launches : HandleLate(launch) \/ Expire(launch)
  \/ \E r \in running : Run(r) \/ Complete(r) \/ Refuse(r)

Spec == Init /\ [][Next]_vars

(***************************************************************************)
(* Properties                                                              *)
(***************************************************************************)
\* Selecting the command again never runs it again unless the user was told
\* how the launch before ended, however the request, its answer, a restart or a
\* delayed arrival interleave.
NoDoubleRun ==
  /\ \A i \in Launches : executed[i] <= 1
  /\ \A i, j \in Launches : i < j /\ executed[i] = 1 /\ executed[j] = 1 => told[i] = "done"

\* What the user is told is so, and stays so: a launch that is done ran, a launch
\* that was refused did not run and never will.
ToldTheTruth ==
  \A l \in Launches : /\ told[l] = "done" => executed[l] = 1
                      /\ told[l] = "rejected" => executed[l] = 0

\* A launch runs once, and its user knows.
LaunchedOnce == NoDoubleRun /\ ToldTheTruth
=============================================================================
