------------------------------ MODULE ChatRun ------------------------------
(***************************************************************************)
(* The run control of ONE chat: AgentCoordinator in src/server/agent.ts,   *)
(* for a provider whose runs are separate processes holding the thread's   *)
(* writer lock (Codex, add-ons).  Client requests (send, enqueue, steer,   *)
(* Esc, dequeue, stopDraining) and the tails of finished runs interleave   *)
(* at every await; each is a thread with a program counter.                *)
(*                                                                         *)
(* A thread whose "micro" is not "-" continues in the microtask queue:     *)
(* no I/O completion and no new request runs before it.                    *)
(***************************************************************************)
EXTENDS Naturals, Sequences, FiniteSets, SequencesExt

CONSTANTS
  Reqs,                \* client requests; a message is named by the request that sent it
  MaxRuns,             \* bound: provider turns ever started
  StartedMemory,       \* STARTED_QUEUED_MESSAGE_MEMORY
  TailLag,             \* may a run's exit be confirmed before runTurn has read its stream to the end?
  StopWindow           \* may other work run while stopActiveTurn writes its bookkeeping?

None    == 0
Runs    == 1..MaxRuns
Threads == Reqs \cup Runs

ASSUME ChatRunAssumption ==
  /\ Reqs \cap Nat = {}
  /\ MaxRuns \in Nat \ {0}
  /\ StartedMemory \in Nat \ {0}
  /\ TailLag \in BOOLEAN /\ StopWindow \in BOOLEAN

VARIABLES
  thr,         \* per thread: where it is in the code, and its locals
  queue,       \* the store's queued messages
  generation, paused, barrier, launching, steering, claimed, started,  \* ChatRunControl
  activeTurn,  \* activeTurns.get(chatId)
  draining,    \* drainingStreams.get(chatId)
  run,         \* per run: how far runTurn has come
  cancel,      \* per run: cancelRequested and the shared stop bookkeeping
  release,     \* per run: the release attempt of its barrier
  alive,       \* runs whose process lives, so holds the writer lock
  delivered,   \* history: how often a message was given to a provider turn
  removed,     \* history: messages whose dequeue was acknowledged
  slipped,     \* history: the end of a run slipped past the barrier that waits for it
  attention    \* history: a launch failed, or a wait for a stop ended unconfirmed

control == <<generation, paused, barrier, launching, steering, claimed, started>>
history == <<delivered, removed, slipped, attention>>
vars == <<thr, queue, control, activeTurn, draining, run, cancel, release, alive, history>>

PCs == {"idle", "qwrite", "dwrite", "drain", "qwait", "swait", "launch", "booted",
        "cancel", "clwait", "cact", "cstop", "cwait", "join", "done"}

Thread == [pc    : PCs,
           cmd   : {"none", "send", "enqueue", "drain", "steer", "esc", "dequeue", "stopDraining"},
           micro : {"-", "again", "rejected"},
           msg   : Reqs \cup {None},
           gen   : Nat,                    \* expectedGeneration
           on    : Runs \cup {None},       \* the run waited for, stopped or launched
           for   : Threads \cup {None},    \* the thread waited for
           round : 0..2,                   \* attempt of runSteer
           retry : BOOLEAN,                \* awaitRunStopped's retry
           saw   : SUBSET Runs]            \* history: live runs when an Esc arrived

NewThread == [pc |-> "idle", cmd |-> "none", micro |-> "-", msg |-> None, gen |-> 0,
              on |-> None, for |-> None, round |-> 0, retry |-> FALSE, saw |-> {}]

\* A thread that returned keeps no locals.
Ended(t) == [NewThread EXCEPT !.cmd = thr[t].cmd, !.pc = "done"]

Init ==
  /\ thr = [t \in Threads |-> NewThread]
  /\ queue = <<>> /\ generation = 0 /\ paused = FALSE /\ barrier = None
  /\ launching = None /\ steering = None /\ claimed = {} /\ started = <<>>
  /\ activeTurn = None /\ draining = None
  /\ run     = [r \in Runs |-> "none"]
  /\ cancel  = [r \in Runs |-> "no"]
  /\ release = [r \in Runs |-> "none"]
  /\ alive = {}
  /\ delivered = [m \in Reqs |-> 0] /\ removed = {}
  /\ slipped = FALSE /\ attention = FALSE

-----------------------------------------------------------------------------
(* What the code reads. *)

isChatBusy == activeTurn # None \/ launching # None

Queued == ToSet(queue)

\* Mutant: a started message whose removal is not written yet is taken again.
ClaimableAgain == {i \in DOMAIN queue : queue[i] \notin claimed}

Claimable == {i \in DOMAIN queue : queue[i] \notin claimed \cup ToSet(started)}

nextQueuedMessage(m) == \E i \in Claimable : m = queue[i] /\ \A j \in Claimable : i <= j

\* barrier.error
stopFailed == barrier # None /\ release[barrier] = "failed"

\* Mutant: a stop or a steer does not invalidate the starts that wait.
NeverSuperseded(t) == FALSE

\* StartSupersededError: a stop or a steer came after the decision to start.
Superseded(t) == generation # thr[t].gen

steeredMessage == IF steering = None THEN None ELSE thr[steering].msg

\* The event loop takes new work only when the microtask queue is empty, and,
\* without StopWindow, when no stop is between its request and its barrier.
Quiescent ==
  /\ \A t \in Threads : thr[t].micro = "-"
  /\ StopWindow \/ \A r \in Runs : cancel[r] # "writing"

-----------------------------------------------------------------------------
(* Pieces shared by the handlers. *)

releaseRun(r) ==
  /\ barrier' = r
  /\ release' = [release EXCEPT ![r] = "pending"]

\* Mutant: the draining stream is dropped and nobody waits for its process.
ForgetDraining ==
  /\ draining' = None
  /\ UNCHANGED <<barrier, release>>

\* Every path that starts or stops a run first takes the draining stream away
\* and turns it into the barrier.
DropDraining ==
  /\ draining' = None
  /\ IF draining # None /\ barrier # draining
     THEN releaseRun(draining)
     ELSE UNCHANGED <<barrier, release>>

Becomes(t, thread) == thr' = [thr EXCEPT ![t] = thread]

Goto(t, pc) == Becomes(t, [thr[t] EXCEPT !.pc = pc, !.micro = "again", !.on = None])

\* The thread returns to its caller; a steer also gives up the handoff.
Return(t) ==
  /\ Becomes(t, Ended(t))
  /\ steering' = IF steering = t THEN None ELSE steering

Unclaim(t) == claimed' = claimed \ {thr[t].msg}

\* queueMessage(): the message goes to the store's queue, one write later.
KeepInQueue(t) ==
  Becomes(t, [thr[t] EXCEPT !.pc = "qwrite", !.micro = "-", !.on = None])

\* Mutant: the send that could not start is dropped.
DropStart(t) == Return(t) /\ Unclaim(t)

\* How each start ends when it launched nothing: a send keeps its message in
\* the queue, a queued message is unclaimed and stays there.
GiveUpStart(t) ==
  IF thr[t].cmd = "send"
  THEN KeepInQueue(t) /\ UNCHANGED <<claimed, steering>>
  ELSE Return(t) /\ Unclaim(t)

-----------------------------------------------------------------------------
(* Client requests. *)

Arrive(t, cmd) ==
  /\ t \in Reqs /\ thr[t].pc = "idle" /\ Quiescent
  /\ cmd \in {"send", "enqueue", "steer", "esc", "dequeue", "stopDraining"}

send(t) ==
  /\ Arrive(t, "send")
  /\ LET new == [NewThread EXCEPT !.cmd = "send", !.msg = t, !.gen = generation]
     IN IF isChatBusy \/ steering # None
        THEN /\ Becomes(t, [new EXCEPT !.pc = "qwrite"])
             /\ UNCHANGED <<paused, draining, barrier, release>>
        ELSE /\ Becomes(t, [new EXCEPT !.pc = "swait", !.micro = "again"])
             /\ paused' = FALSE
             /\ DropDraining
  /\ UNCHANGED <<queue, generation, launching, steering, claimed, started, activeTurn,
                 run, cancel, alive, history>>

enqueue(t) ==
  /\ Arrive(t, "enqueue")
  /\ Becomes(t, [NewThread EXCEPT !.cmd = "enqueue", !.msg = t, !.pc = "qwrite"])
  /\ UNCHANGED <<queue, control, activeTurn, draining, run, cancel, release, alive, history>>

\* Mutant: nothing drains the queue after a write.
QueueWrittenOnly(t) ==
  /\ thr[t].pc = "qwrite" /\ Quiescent
  /\ queue' = Append(queue, t)
  /\ Becomes(t, Ended(t))
  /\ UNCHANGED <<control, activeTurn, draining, run, cancel, release, alive, history>>

\* The store applied queued_message_enqueued.  Only enqueue() goes on to
\* scheduleQueuedMessages(), which leaves a chat with a failed stop alone.
QueueWritten(t) ==
  /\ thr[t].pc = "qwrite" /\ Quiescent
  /\ queue' = Append(queue, t)
  /\ IF thr[t].cmd = "enqueue" /\ ~stopFailed
     THEN Becomes(t, [thr[t] EXCEPT !.pc = "drain", !.cmd = "drain", !.micro = "again",
                             !.msg = None])
     ELSE Becomes(t, Ended(t))
  /\ UNCHANGED <<control, activeTurn, draining, run, cancel, release, alive, history>>

steer(t, m) ==
  /\ Arrive(t, "steer")
  /\ LET new == [NewThread EXCEPT !.cmd = "steer", !.msg = m]
     IN \/ /\ steeredMessage = m
           /\ Becomes(t, [new EXCEPT !.pc = "join", !.for = steering])
           /\ UNCHANGED <<generation, paused, steering>>
        \/ /\ steeredMessage # m
           /\ m \in Queued /\ m \notin claimed \cup ToSet(started)
           /\ generation' = generation + 1
           /\ paused' = FALSE
           /\ steering' = t
           /\ Becomes(t, [new EXCEPT !.pc = "cancel", !.micro = "again",
                                  !.gen = generation + 1])
  /\ UNCHANGED <<queue, barrier, launching, claimed, started, activeTurn, draining, run,
                 cancel, release, alive, history>>

JoinReturns(t) ==
  /\ thr[t].pc = "join" /\ thr[thr[t].for].pc = "done"
  /\ Quiescent
  /\ Becomes(t, Ended(t))
  /\ UNCHANGED <<queue, control, activeTurn, draining, run, cancel, release, alive, history>>

Esc(t) ==
  /\ Arrive(t, "esc")
  /\ generation' = generation + 1
  /\ paused' = TRUE
  /\ Becomes(t, [NewThread EXCEPT !.cmd = "esc", !.pc = "cancel",
                                  !.micro = "again", !.saw = alive])
  /\ UNCHANGED <<queue, barrier, launching, steering, claimed, started, activeTurn, draining,
                 run, cancel, release, alive, history>>

dequeue(t, m) ==
  /\ Arrive(t, "dequeue")
  /\ m \in Queued /\ m \notin claimed
  /\ Becomes(t, [NewThread EXCEPT !.cmd = "dequeue", !.msg = m, !.pc = "dwrite"])
  /\ UNCHANGED <<queue, control, activeTurn, draining, run, cancel, release, alive, history>>

RemoveFromQueue(m) ==
  IF m \in Queued
  THEN \E i \in DOMAIN queue : queue[i] = m /\ queue' = RemoveAt(queue, i)
  ELSE queue' = queue

DequeueWritten(t) ==
  /\ thr[t].pc = "dwrite" /\ Quiescent
  /\ RemoveFromQueue(thr[t].msg)
  /\ removed' = removed \cup {thr[t].msg}
  /\ Becomes(t, Ended(t))
  /\ UNCHANGED <<control, activeTurn, draining, run, cancel, release, alive, delivered,
                 slipped, attention>>

stopDraining(t) ==
  /\ Arrive(t, "stopDraining")
  /\ draining # None
  /\ DropDraining
  /\ Becomes(t, [thr[t] EXCEPT !.cmd = "stopDraining", !.pc = "done"])
  /\ UNCHANGED <<queue, generation, paused, launching, steering, claimed, started, activeTurn,
                 run, cancel, alive, history>>

-----------------------------------------------------------------------------
(* Starting from the queue: maybeStartNextQueuedMessage. *)

DrainBegin(t) ==
  /\ thr[t].pc = "drain" /\ thr[t].micro = "again"
  /\ IF paused \/ steering # None \/ isChatBusy \/ Claimable = {}
     THEN Becomes(t, Ended(t))
     ELSE Becomes(t, [thr[t] EXCEPT !.pc = "qwait", !.gen = generation])
  /\ UNCHANGED <<queue, control, activeTurn, draining, run, cancel, release, alive, history>>

\* Claim m and enter startTurnForChat for it.
dequeueAndStartQueuedMessage(t, m) ==
  /\ claimed' = claimed \cup {m}
  /\ Becomes(t, [thr[t] EXCEPT !.pc = "swait", !.micro = "again", !.msg = m])
  /\ DropDraining

DrainContinue(t) ==
  /\ thr[t].pc = "qwait" /\ thr[t].micro = "again" /\ barrier = None
  /\ IF Superseded(t) \/ paused \/ steering # None \/ Claimable = {}
     THEN /\ Becomes(t, Ended(t))
          /\ UNCHANGED <<claimed, draining, barrier, release>>
     ELSE \E m \in Queued : nextQueuedMessage(m) /\ dequeueAndStartQueuedMessage(t, m)
  /\ UNCHANGED <<queue, generation, paused, launching, steering, started, activeTurn,
                 run, cancel, alive, history>>

-----------------------------------------------------------------------------
(* awaitRunStopped: the loop of a waiting thread.  "again" is the head of the *)
(* loop, "rejected" the resumption after the attempt it awaited failed.       *)

Waits == {"qwait", "swait", "cwait"}

\* ChatStopError, as each caller handles it.
StopError(t) ==
  /\ attention' = TRUE
  /\ IF thr[t].pc = "swait" THEN GiveUpStart(t)
                            ELSE Return(t) /\ UNCHANGED claimed

AwaitLoop(t) ==
  /\ thr[t].pc \in Waits /\ thr[t].micro = "again" /\ barrier # None
  /\ \/ /\ release[barrier] = "pending"
        /\ Becomes(t, [thr[t] EXCEPT !.micro = "-", !.on = barrier])
        /\ UNCHANGED <<release, claimed, steering, attention>>
     \/ /\ release[barrier] # "pending" /\ thr[t].retry
        /\ release' = [release EXCEPT ![barrier] = "pending"]
        /\ Becomes(t, [thr[t] EXCEPT !.micro = "-", !.on = barrier, !.retry = FALSE])
        /\ UNCHANGED <<claimed, steering, attention>>
     \/ /\ release[barrier] # "pending" /\ ~thr[t].retry
        /\ StopError(t)
        /\ UNCHANGED release
  /\ UNCHANGED <<queue, generation, paused, barrier, launching, started, activeTurn, draining,
                 run, cancel, alive, delivered, removed, slipped>>

AwaitRejected(t) ==
  /\ thr[t].pc \in Waits /\ thr[t].micro = "rejected"
  /\ IF barrier = thr[t].on
     THEN StopError(t)
     ELSE /\ Goto(t, thr[t].pc)
          /\ UNCHANGED <<claimed, steering, attention>>
  /\ UNCHANGED <<queue, generation, paused, barrier, launching, started, activeTurn, draining,
                 run, cancel, release, alive, delivered, removed, slipped>>

AwaitTimeout(t) ==
  /\ thr[t].pc \in Waits /\ thr[t].on # None /\ Quiescent
  /\ StopError(t)
  /\ UNCHANGED <<queue, generation, paused, barrier, launching, started, activeTurn, draining,
                 run, cancel, release, alive, delivered, removed, slipped>>

-----------------------------------------------------------------------------
(* startTurnForChat after the wait, and launchTurn. *)

StartContinue(t) ==
  /\ thr[t].pc = "swait" /\ thr[t].micro = "again" /\ barrier = None
  /\ \/ /\ Superseded(t)
        /\ GiveUpStart(t)
        /\ UNCHANGED launching
     \/ /\ ~Superseded(t) /\ isChatBusy                             \* ChatBusyError
        /\ IF thr[t].cmd = "steer" /\ thr[t].round < 2
           THEN /\ Becomes(t, [thr[t] EXCEPT !.pc = "cancel", !.round = @ + 1])
                /\ Unclaim(t)
                /\ UNCHANGED steering
           ELSE GiveUpStart(t)
        /\ UNCHANGED launching
     \/ /\ ~Superseded(t) /\ ~isChatBusy
        /\ launching' = t
        /\ Becomes(t, [thr[t] EXCEPT !.pc = "launch", !.micro = "-"])
        /\ UNCHANGED <<claimed, steering>>
  /\ UNCHANGED <<queue, generation, paused, barrier, started, activeTurn, draining, run, cancel,
                 release, alive, history>>

\* Mutant: a cancel that waits for a launch is not resumed.
WakeNobody(f, t) == f

\* Resolving control.launching resumes the cancels that wait for it.
WakeCancels(f, t) ==
  [u \in Threads |-> IF f[u].pc = "clwait" /\ f[u].for = t
                     THEN [f[u] EXCEPT !.pc = "cact", !.micro = "again"] ELSE f[u]]

EndLaunch(t) ==
  /\ launching' = None
  /\ thr' = WakeCancels([thr EXCEPT ![t] = Ended(t)], t)
  /\ steering' = IF steering = t THEN None ELSE steering
  /\ Unclaim(t)

Remember(m) == LET all == Append(started, m)
               IN IF Len(all) > StartedMemory THEN Tail(all) ELSE all

\* The provider turn exists: its process runs with the message.  A queued
\* message is marked started before its removal is written.
Boot(t) ==
  /\ thr[t].pc = "launch" /\ Quiescent
  /\ \E r \in Runs :
       /\ run[r] = "none" /\ \A s \in Runs : s < r => run[s] # "none"
       /\ run' = [run EXCEPT ![r] = "booted"]
       /\ alive' = alive \cup {r}
       /\ Becomes(t, [thr[t] EXCEPT !.pc = "booted", !.on = r])
  /\ delivered' = [delivered EXCEPT ![thr[t].msg] = @ + 1]
  /\ started' = IF thr[t].cmd = "send" THEN started ELSE Remember(thr[t].msg)
  /\ UNCHANGED <<queue, generation, paused, barrier, launching, steering, claimed, activeTurn,
                 draining, cancel, release, removed, slipped, attention>>

\* launchTurn throws before the provider turn exists; a queued message stays queued.
LaunchFails(t) ==
  /\ thr[t].pc = "launch" /\ Quiescent
  /\ EndLaunch(t)
  /\ attention' = TRUE
  /\ UNCHANGED <<queue, generation, paused, barrier, started, activeTurn, draining, run, cancel,
                 release, alive, delivered, removed, slipped>>

\* consumeQueuedMessage's removal is written (or failed, which is only
\* reported), the turn becomes the active one and runTurn starts reading it.
Register(t) ==
  /\ thr[t].pc = "booted" /\ Quiescent
  /\ \/ thr[t].cmd # "send" /\ RemoveFromQueue(thr[t].msg)
     \/ UNCHANGED queue
  /\ activeTurn' = thr[t].on
  /\ run' = [run EXCEPT ![thr[t].on] = "streaming"]
  /\ EndLaunch(t)
  /\ UNCHANGED <<generation, paused, barrier, started, draining, cancel, release, alive, history>>

-----------------------------------------------------------------------------
(* cancel: Esc, and the stop that ↑ performs before its handoff. *)

CancelEnter(t) ==
  /\ thr[t].pc = "cancel" /\ thr[t].micro = "again"
  /\ DropDraining
  /\ IF launching # None
     THEN Becomes(t, [thr[t] EXCEPT !.pc = "clwait", !.micro = "-", !.for = launching])
     ELSE Becomes(t, [thr[t] EXCEPT !.pc = "cact"])
  /\ UNCHANGED <<queue, generation, paused, launching, steering, claimed, started, activeTurn,
                 run, cancel, alive, history>>

CancelActive(t) ==
  /\ thr[t].pc = "cact" /\ thr[t].micro = "again"
  /\ IF activeTurn # None
     THEN /\ Becomes(t, [thr[t] EXCEPT !.pc = "cstop", !.micro = "-", !.on = activeTurn])
          /\ cancel' = [cancel EXCEPT ![activeTurn] = IF @ = "no" THEN "writing" ELSE @]
     ELSE /\ Becomes(t, [thr[t] EXCEPT !.pc = "cwait", !.retry = TRUE])
          /\ UNCHANGED cancel
  /\ UNCHANGED <<queue, control, activeTurn, draining, run, release, alive, history>>

\* The end of stopActiveTurn: its bookkeeping is written (after the writes
\* runTurn already had in the store's queue), the turn leaves activeTurns and
\* becomes the stop barrier; every cancel sharing it goes on to wait.
StopRecorded(r) ==
  /\ cancel[r] = "writing" /\ run[r] # "recording"
  /\ \A t \in Threads : thr[t].micro = "-"
  /\ cancel' = [cancel EXCEPT ![r] = "done"]
  /\ activeTurn' = IF activeTurn = r THEN None ELSE activeTurn
  /\ releaseRun(r)
  /\ thr' = [t \in Threads |->
               IF thr[t].pc = "cstop" /\ thr[t].on = r
               THEN [thr[t] EXCEPT !.pc = "cwait", !.micro = "again", !.on = None, !.retry = TRUE]
               ELSE thr[t]]
  /\ UNCHANGED <<queue, generation, paused, launching, steering, claimed, started, draining, run,
                 alive, history>>

CancelContinue(t) ==
  /\ thr[t].pc = "cwait" /\ thr[t].micro = "again" /\ barrier = None
  /\ \/ /\ \/ thr[t].cmd = "esc"                                    \* the stop is confirmed
           \/ Superseded(t)
           \/ thr[t].msg \in claimed \cup ToSet(started)            \* already_started
           \/ thr[t].msg \notin Queued
        /\ Return(t)
        /\ UNCHANGED <<claimed, draining, barrier, release>>
     \/ /\ thr[t].cmd = "steer" /\ ~Superseded(t)
        /\ thr[t].msg \in Queued /\ thr[t].msg \notin claimed \cup ToSet(started)
        /\ dequeueAndStartQueuedMessage(t, thr[t].msg)
        /\ UNCHANGED steering
  /\ UNCHANGED <<queue, generation, paused, launching, started, activeTurn, run, cancel, alive,
                 history>>

-----------------------------------------------------------------------------
(* runTurn, and the process behind it. *)

\* A result entry arrived and is being recorded.
TurnResult(r) ==
  /\ run[r] = "streaming" /\ cancel[r] = "no" /\ Quiescent
  /\ run' = [run EXCEPT ![r] = "recording"]
  /\ UNCHANGED <<thr, queue, control, activeTurn, draining, cancel, release, alive, history>>

ResultRecorded(r) ==
  /\ run[r] = "recording"
  /\ \A t \in Threads : thr[t].micro = "-"
  /\ run' = [run EXCEPT ![r] = "resulted"]
  /\ activeTurn' = None
  /\ draining' = r
  /\ UNCHANGED <<thr, queue, control, cancel, release, alive, history>>

\* The stream ended, or its loop broke because the turn was cancelled: runTurn's
\* finally block.  A turn that was not cancelled goes on to drain the queue.
StreamEnds(r) ==
  /\ run[r] \in {"streaming", "resulted"} /\ Quiescent
  /\ run' = [run EXCEPT ![r] = "ended"]
  /\ IF cancel[r] = "no" /\ barrier # r
     THEN releaseRun(r)
     ELSE UNCHANGED <<barrier, release>>
  /\ activeTurn' = IF activeTurn = r THEN None ELSE activeTurn
  /\ draining' = None
  /\ slipped' = (slipped \/ cancel[r] = "writing")
  /\ thr' = IF cancel[r] = "no"
            THEN [thr EXCEPT ![r] = [NewThread EXCEPT !.cmd = "drain", !.pc = "drain",
                                                      !.micro = "again"]]
            ELSE thr
  /\ UNCHANGED <<queue, generation, paused, launching, steering, claimed, started, cancel, alive,
                 delivered, removed, attention>>

ProcessExits(r) ==
  /\ r \in alive /\ run[r] # "booted" /\ Quiescent
  /\ alive' = alive \ {r}
  /\ UNCHANGED <<thr, queue, control, activeTurn, draining, run, cancel, release, history>>

Resume(r, micro) ==
  thr' = [t \in Threads |-> IF thr[t].pc \in Waits /\ thr[t].on = r
                            THEN [thr[t] EXCEPT !.micro = micro,
                                                !.on = IF micro = "again" THEN None ELSE @]
                            ELSE thr[t]]

\* The exit of r is confirmed: attemptRelease clears r's barrier.
ReleaseConfirmed(r) ==
  /\ release[r] = "pending" /\ r \notin alive /\ Quiescent
  /\ TailLag \/ run[r] = "ended"
  /\ release' = [release EXCEPT ![r] = "done"]
  /\ barrier' = IF barrier = r THEN None ELSE barrier
  /\ slipped' = (slipped \/ run[r] # "ended")
  /\ Resume(r, "again")
  /\ UNCHANGED <<queue, generation, paused, launching, steering, claimed, started, activeTurn,
                 draining, run, cancel, alive, delivered, removed, attention>>

ReleaseFails(r) ==
  /\ release[r] = "pending" /\ r \in alive /\ Quiescent
  /\ release' = [release EXCEPT ![r] = "failed"]
  /\ Resume(r, "rejected")
  /\ UNCHANGED <<queue, control, activeTurn, draining, run, cancel, alive, history>>

-----------------------------------------------------------------------------
Request(t) == \/ send(t) \/ enqueue(t) \/ Esc(t) \/ stopDraining(t)
              \/ \E m \in Reqs : steer(t, m) \/ dequeue(t, m)

ThreadStep(t) ==
  \/ QueueWritten(t) \/ DequeueWritten(t) \/ JoinReturns(t)
  \/ DrainBegin(t) \/ DrainContinue(t)
  \/ AwaitLoop(t) \/ AwaitRejected(t)
  \/ StartContinue(t) \/ CancelEnter(t) \/ CancelActive(t) \/ CancelContinue(t)

LaunchStep(t) == Boot(t) \/ Register(t)

RunStep(r) == StopRecorded(r) \/ ResultRecorded(r) \/ ReleaseConfirmed(r)

Next ==
  \/ \E t \in Threads : \/ Request(t) \/ ThreadStep(t) \/ LaunchStep(t)
                        \/ LaunchFails(t) \/ AwaitTimeout(t)
  \/ \E r \in Runs : \/ RunStep(r) \/ TurnResult(r) \/ StreamEnds(r)
                     \/ ProcessExits(r) \/ ReleaseFails(r)

Spec == Init /\ [][Next]_vars

-----------------------------------------------------------------------------
(* Properties. *)

\* What a thread carries where: the tail of a run only drains, a start has its
\* message, a launched turn its run.
Shape(t, n) ==
  /\ t \in Runs => /\ n.cmd \in {"none", "drain"}
                   /\ n.pc \in {"idle", "drain", "qwait", "swait", "launch", "booted", "done"}
  /\ n.pc \in {"dwrite", "swait", "launch", "booted"} => n.msg \in Reqs
  /\ n.pc \in {"booted", "cstop"} => n.on \in Runs

ThreadsOK == thr \in [Threads -> Thread] /\ \A t \in Threads : Shape(t, thr[t])

QueueOK == queue \in Seq(Reqs) /\ started \in Seq(Reqs) /\ claimed \in SUBSET Reqs

ControlOK ==
  /\ generation \in Nat /\ paused \in BOOLEAN
  /\ barrier \in Runs \cup {None}
  /\ launching \in Threads \cup {None} /\ steering \in Reqs \cup {None}
  /\ activeTurn \in Runs \cup {None} /\ draining \in Runs \cup {None}

RunsOK ==
  /\ run \in [Runs -> {"none", "booted", "streaming", "recording", "resulted", "ended"}]
  /\ cancel \in [Runs -> {"no", "writing", "done"}]
  /\ release \in [Runs -> {"none", "pending", "failed", "done"}]
  /\ alive \in SUBSET Runs

HistoryOK ==
  /\ delivered \in [Reqs -> Nat] /\ removed \in SUBSET Reqs
  /\ slipped \in BOOLEAN /\ attention \in BOOLEAN

TypeOK == ThreadsOK /\ QueueOK /\ ControlOK /\ RunsOK /\ HistoryOK

\* hasActiveWork(): what reserveCliUpdate and restartSessions rely on.
hasActiveWork == activeTurn # None \/ draining # None \/ barrier # None \/ launching # None

\* No two runs of the chat hold the provider's thread at once (agent.ts: "nothing
\* resumes the thread until the process is confirmed gone"), unless the end of a
\* run slipped past its barrier.
OneWriter == slipped \/ \A r, s \in alive : r = s

\* While a process of the chat lives, the coordinator knows of work, so a CLI
\* update or a session restart never runs over it; with the same exception.
IdleMeansGone == slipped \/ (alive # {} => hasActiveWork)

\* A run is not forgotten before its process is gone: both of the above.
NoRunForgotten == OneWriter /\ IdleMeansGone

\* A message is given to the provider at most once, whichever of send, enqueue,
\* steer and the tails of finished runs compete for it.
SentOnce == \A m \in Reqs : delivered[m] <= 1

\* A queued message leaves the queue only by being sent or dequeued, and a send
\* returns only with its message sent, queued, or its own launch failed.
NothingLost ==
  [][/\ \A m \in Queued : \/ m \in ToSet(queue')
                          \/ delivered[m] > 0
                          \/ m \in removed'
     /\ \A m \in Reqs : thr[m].cmd = "send" /\ thr[m].pc # "done" /\ thr'[m].pc = "done"
          => \/ m \in ToSet(queue') \/ delivered[m] > 0 \/ thr[m].pc = "launch"]_vars

\* Esc parks the chat: once every Esc and steer returned, nothing runs or starts
\* until a send or steer unparks it.
EscHolds ==
  /\ paused
  /\ \A t \in Reqs : thr[t].cmd \in {"esc", "steer"} => thr[t].pc = "done"
  => launching = None /\ activeTurn = None

\* While a steer holds the handoff, only its message starts.
SteerGoesFirst ==
  [][launching' # launching /\ launching' # None /\ steering # None => launching' = steering]_vars

EscSucceeds(t) ==
  /\ thr[t].cmd = "esc" /\ thr[t].pc = "cwait" /\ thr[t].micro = "again" /\ barrier = None
  /\ thr'[t].pc = "done"

\* An Esc that reports success has seen every run it found dead ...
EscConfirms == [][\A t \in Reqs : EscSucceeds(t) => thr[t].saw \cap alive = {}]_vars

\* ... with no exception but a run's end that slipped past its barrier.
StopConfirmed == [][\A t \in Reqs : EscSucceeds(t) => slipped \/ thr[t].saw \cap alive = {}]_vars

\* Both: a stop and a handoff that are reported hold against every other request.
CommandsKeepTheirWord == StopConfirmed /\ SteerGoesFirst

-----------------------------------------------------------------------------
(* Liveness.  Threads, store writes and the event loop make progress; every   *)
(* provider turn ends, and every process told to stop exits or the release    *)
(* fails.  New requests, launch failures and timeouts are not owed.           *)

Fairness ==
  /\ \A t \in Threads : WF_vars(ThreadStep(t)) /\ WF_vars(LaunchStep(t))
  /\ \A r \in Runs : /\ WF_vars(RunStep(r)) /\ WF_vars(TurnResult(r))
                     /\ WF_vars(StreamEnds(r)) /\ WF_vars(ProcessExits(r))

LiveSpec == Spec /\ Fairness

\* The chat waits for its user: parked by Esc, or a launch or a stop failed.
NeedsUser == paused \/ attention \/ stopFailed

\* A message the user enqueued is sent or dequeued sooner or later, unless the
\* chat waits for its user: it is never stranded in an idle chat.
EnqueuedDrains ==
  \A m \in Reqs : thr[m].cmd \in {"enqueue", "drain"} /\ m \in Queued
                 ~> delivered[m] > 0 \/ m \in removed \/ NeedsUser

\* The same for every queued message, those that send() queued included.
QueueDrains ==
  \A m \in Reqs : m \in Queued ~> delivered[m] > 0 \/ m \in removed \/ NeedsUser

\* Every request returns: no cycle of waits among Esc, steer, starts and stops.
RequestsReturn == \A t \in Reqs : thr[t].pc # "idle" ~> thr[t].pc = "done"
=============================================================================
