# Verification of StillOn

StillOn runs coding agents (Claude, Codex, add-on providers) on the user's own
machine and shows them in a browser. The server (`src/server`, Bun/TypeScript)
owns the chats, starts and stops provider processes and keeps an event store on
disk; the client (`src/client`, React) talks to it over a WebSocket.

This directory holds TLA+ modules of the parts where ordering, failure and
concurrency decide about correctness, the TLC configurations that check them and
the proofs that TLAPS checks. `PROJECT.json` maps every definition to the code
it models, and lists runs, mutants (deliberate bugs each property must detect),
findings, hazards and theorems.

## 1. The system

| Component | State | Operations | Interacts with | What must hold |
|---|---|---|---|---|
| **Chat run control** (`server/agent.ts`) | per chat: `activeTurns`, `drainingStreams`, `ChatRunControl` (generation, barrier, paused, launching, steering, claimed and started messages) | send, enqueue, steer (↑), cancel (Esc), dequeue, stopDraining, tail of a run, drain of the queue | event store (queue, turn records), providers (turns, exits), router (calls, state changes) | one process per thread; a message is sent once and never lost; Esc parks; a steered message goes first; nothing is stranded |
| **Event store** (`server/event-store.ts`) | in-memory state, seven append-only logs, snapshot, its backup, log archives, `writeChain` | append, compact, initialize (load, quarantine, replay), transcripts | everyone | what was acknowledged survives restarts; backup and archives form a recovery pair |
| **Asynchronous answers** (`agent.ts`, `client/app/asyncQuestionDelivery.ts`) | answer journal; per-browser delivery entries | answer, reconcile, observe, check | store, run control, Codex | an answer is delivered once; a late acknowledgement undoes nothing |
| **Claude sessions** (`agent.ts` `runClaudeSession`) | one session per chat, prompt sequence numbers | start, prompt, result, close | run control | a result ends its own prompt, no work goes on that the chat does not show |
| **Codex exec** (`server/codex-exec.ts`) | sessions, pending turns, writer per thread | startSession, startTurn, interrupt, close, release | run control, process ownership | one writer per thread across chats |
| **Codex app server** (`server/codex-app-server.ts`) | one JSON-RPC process, pending requests | requests, steer, notifications | run control | a turn is over only when the provider's is; a lost process ends every turn and request |
| **Process ownership** (`server/process-tree.ts`) | recorded identities | record, terminate | Codex exec | no survivor missed, no stranger signalled |
| **Managed updates** (`server/updater`) | request, state, journal, lease, data backup | enqueue, claim, execute, rollback | service manager, server control | user data is never overwritten; every interrupted switch is recovered |
| **Desktop distribution** (`server/distribution`) | transition journal, reservation of the request slot, deployment record, service registrations | request, switch, roll back, retire | updater, service manager | everything on the computer belongs to one installation |
| **Connect** (`server/connect`) | binding, pending pause or unbind, tunnel process, adapter, receipts | enrol, heartbeat, pause, resume, unbind, repair, stop | account service, router | nothing is reachable that the user closed; the service learns of it |
| **Router, read models** (`server/ws-router.ts`, `read-models.ts`, `shared/chat-stream.ts`) | subscriptions, per-connection snapshots, pending writes | subscribe, broadcast, commands | all of the above | a client's view converges to the server's |
| **Client** (`client/app/socket.ts`, `useStillOnState.ts`, stores) | connection, outbound queue, caches | connect, command, subscribe | router | a command is sent at most once; caches never hide newer state |
| **Provider CLIs** (`server/provider-cli-updates.ts`, `provider-cli-journal.ts`) | plans, records on disk, maintenance, terminals | start, recover, repair, close | run control, npm | an installer runs alone, agents wait for it, its record comes to an end |
| **Uploads** (`server/chunked-uploads.ts`, `client/lib/attachmentUpload.ts`) | staged files, receipts; attachments of the composer | begin, chunk, expire, retry | workspace files | a file is saved once, as it was sent |
| **Transcripts, terminals, statistics, previews, settings, service installation, client views** | see section 5 and `PROJECT.json` | | | |

What is hard here: each handler is `async`, and between any two awaits any other
handler or stream event of the same chat may run; processes end when they like
and can refuse to die; the server may be killed between any two file operations;
browsers repeat commands and see acknowledgements late.

## 2. What is modelled

Each module models one component. Three pairs meet in a specification that both
sides keep: `EventStore` implements `DurableLog`, `AnswerServer` implements
`AnswerRecord`, and `AnswerDelivery` takes `AnswerRecord`'s actions for the server. The
`MC` modules put components that answer one question side by side: a behaviour of
`MCRecords`, say, is of one of four components, chosen in `Init` by the
variable `record`, and the variables of the others keep their first
value.

### ChatRun: the run control of one chat

`ChatRun.tla` models `AgentCoordinator` for one chat and for the providers whose
runs are processes that hold the thread's writer lock (Codex, add-ons).

*Threads.* Every client request and the tail of every finished run
(`startNextQueuedMessage` in `runTurn`'s `finally`) is a thread; `thr[t].pc` is the
await it stands at. An action is the code between two awaits. JavaScript's two
levels of scheduling are kept: a thread with `micro = "again"` (or `"rejected"`)
continues in the microtask queue, and no I/O completion and no new request comes
before it (`Quiescent`).

| Code | Model |
|---|---|
| `send`, `enqueue`, `steer`, `cancel` (Esc), `dequeue`, `stopDraining` | `send`, `enqueue`, `steer`, `Esc`, `dequeue`, `stopDraining` up to the first await |
| `enqueueMessage` resolves, `scheduleQueuedMessages` | `QueueWritten` |
| `maybeStartNextQueuedMessage` | `DrainBegin`, `DrainContinue` |
| `awaitRunStopped` | `AwaitLoop`, `AwaitRejected`, `AwaitTimeout` |
| `startTurnForChat` after its wait, `launchTurn` | `StartContinue`, `Boot`, `LaunchFails`, `Register` |
| `cancel`, `stopActiveTurn`, the rest of `runSteer` | `CancelEnter`, `CancelActive`, `StopRecorded`, `CancelContinue` |
| `runTurn` | `TurnResult`, `ResultRecorded`, `StreamEnds` |
| `releaseRun`, `attemptRelease` | `releaseRun`, `ReleaseConfirmed`, `ReleaseFails` |
| the provider process | `ProcessExits` (external) |

*Abstractions.* A message is named by the request that sent it. A barrier is the
run it waits for, with the state of its release; its `kind` only says how the process is
told to exit. A `cancel` with a stale `runId` returns at once and is left out.
`postToolFollowUp`, which only the Codex plan mode sets, `cliMaintenance` and the
Claude path are not modelled. `hasActiveWork()` is modelled for what it promises
to `reserveCliUpdate` and `restartSessions`.

*Two switches* separate what the code guarantees from what rests on timing:
`TailLag` lets a process exit be confirmed before `runTurn` has read the stream to its
end, `StopWindow` lets other work run while `stopActiveTurn` writes. In both cases the end
of a run can slip past its barrier; the history variable `slipped` records it,
and the safety properties that depend on it say so.

*Properties.* `NoRunForgotten` (`OneWriter`, `IdleMeansGone`), `SentOnce`, `NothingLost`, `EscHolds`,
`CommandsKeepTheirWord` (`SteerGoesFirst` and `StopConfirmed`); liveness: `EnqueuedDrains`,
`RequestsReturn`.

### EventStore and DurableLog: durability

`EventStore.tla` models the files: per log its content and archive, the snapshot
and its backup, with one action per file operation of `compact()`, the appends, the
recovery of `initialize()`, kills (`Crash`, `TornAppend`), a rejected write (which
poisons `writeChain`) and an unreadable snapshot. An event is abstract: the effect
of a log or snapshot is the set of events it makes visible. Applied over a state that holds them
already, most events change nothing; two kinds do, and a replay (`Restored`) shows it: a queued message is pushed once
more (`Lists`, `Again`; `event-store.ts:671`), and a chat that is created anew loses what
other logs said of it (`Creating`, `Inner`; `:540`). The comparison of a
log with its archive (`shouldReplayCurrentLog`), which decides what a restart trusts, is
kept exactly. Two files that hold the same events are equal in the model; in the
code they are the same text, because an archive is a copy.

`DurableLog.tla` is what callers rely on: an open store shows exactly the
acknowledged events, each once. `EventStore` implements it (`ImplementsDurableLog`), with the
events of the answer journal left out, since those do not survive (see below).

The history variable `mixed` says where this ends. A kill while `compact()` truncates leaves logs behind whose
events the snapshot holds. Alone that does no harm: such a log equals its archive and is not replayed. Once
something is appended to it, it differs, and the next start replays all of it over the snapshot: messages
show twice, and a chat may be created anew behind its turns. From that append on `DurableLog` is `blurred`
(events twice or hidden, but nothing that was never acknowledged), `AckedSurvives` and
`TornCostsNextWorn` promise no more, nor does `RecoversFromBackupWorn`, also when such a log was archived.

### AnswerServer, AnswerDelivery and AnswerRecord: answering a question of the agent

The agent asks a question and works on; a browser answers it later. The answer is
steered into the turn that asked, or queued as a follow-up message. `AnswerServer.tla`
is the server's side, `AnswerDelivery.tla` one browser's. They meet in
`AnswerRecord.tla`, the delivery status the server keeps of each submission:
`AnswerServer` implements it, `AnswerDelivery` takes its actions for the server.

| Code | Model |
|---|---|
| `answerAsyncQuestion` | `answerAsyncQuestion`, `SubmittingRecorded`, `SteerArrives`, `SteerReplied`, `SteerUncertain`, `SteerRefused`, `FollowUpQueued`, `Settled`: one action per stretch between awaits |
| `reconcileSubmitting` | `reconcileSubmitting` |
| start of a follow-up, `consumeQueuedMessage` | `ClaimFollowUp`, `LaunchFails`, `consumeQueuedMessage`, `Consumed`, `Accepted` |
| `dequeue` | `dequeue`, `Dequeued` |
| the store's `writeChain`, `compact`, a restart | `chain` with `Apply`, `Compact`, `Restart` |
| `AsyncQuestionDelivery`: `put`, `observe`, `check`, `submit`, its timer | `put`, `observe` with `Outdated`, `check` and `Checked`, `submit`, `Overdue` |
| `AsyncQuestionCard` (its effect, its button) | `Render`, `CheckAgain` |
| `StillOnSocket`: replies, queries, connection | `Replied`, `Receive`, `QueryTimeout`, `Connect`, `ConnectFails`, `Disconnected`, `Lose`, `Reload` |
| the server as the browser sees it | `RecordAnswer`, `OtherClientAnswers`, `RecordDelivery`, `Return`, `Refuse`, `AnswerQuery`, `Snapshot`, `Restart` |

*Abstractions.* One question; a chat that nobody deletes; writes that succeed
(EventStore has those that fail). The queue is the set of its follow-ups, because only one
claim at a time matters here; ChatRun has its order. In `AnswerDelivery` other
clients exist only through the records they leave, replies nobody waits for are left
out, and a request counts as arrived when it is sent; when a connection breaks, any request
without a record may turn out not to have arrived. `Init` chooses between the
machine's own browser and one that came through Connect, which keeps neither
an outbound queue nor a session storage.

*History variables* say where a promise ends, and the property that depends on one
names it: `forgot` (a restart lost a record that compaction had truncated, finding 3),
`resent` (a kill between sending a follow-up and removing it: it is sent again),
`overtaken` (a reconciliation that did not see a record still being written).

*Properties.* Server: `OneAnswer` (`AnsweredOnce` and `FailedIsSafe`), `AcceptedWasSent`,
`ImplementsAnswerRecord`. Browser: `Truthful`, `CardKeepsItsWord` (`NoRegress` and
`NeverReplayed`), `FactsReachTheCard`.

### ChatCatalog: projects, chats and queues

`ChatCatalog.tla` is the other half of the store: what the events do to the state. A call
checks the state, puts an event into `writeChain` (`append`) and returns when it is
written and applied; `replayLogs` merges the logs at a restart, by time, kind and position.
Forks copy a transcript while it may grow, pruning looks at a chat and deletes it
some awaits later. One directory is opened as a workspace, so that a
second `openProject` for it, a removal and a reopening meet. Fields that an event just
sets are one field; a chat's queue has at most one message; entry times,
statistics and old data formats are left out.

*Properties.* `EmptyIsEmpty` (a chat that claims to have no messages has an empty
transcript), `RestartKeepsTheCatalog` (the merged replay of five logs shows what was shown
before the restart).

### CodexExec and ProcessOwnership: processes

`CodexExec.tla` models `codex-exec.ts` for several chats on shared threads: `startTurn`,
`waitForThreadRelease`, `releaseWriter`, `runRelease`, `interrupt`, `close`, results and exits. A
process tree is the Codex process and its tools; how it is ended is `ProcessOwnership.tla`:
the tables of the system that the tracker reads, which may be old when it does, processes that
fork, lose their parent or exit, pids that are used again, the rounds of
`terminate`, and `record`, which the child's first output starts, also beside a `terminate` under way
(`codex-exec.ts:714`; only a recording that began earlier is awaited, `:955`). In `CodexExec` a start that waits in a replaced context only fails, tools of released
runs are no longer followed, and `stopAll` is called when the manager is idle.

*Properties.* `ThreadIsHandedOver` (`OneWriterPerThread`, `RunningIsLeftAlone`), `StopTakesTools`,
`StopsTheTree` (`Confirmed`, `OnlyOurs`). `StopTakesTools` is about a stop that came before a release decided what to
terminate (`Undecided`; `runRelease`, `codex-exec.ts:945`) or while one was under way that failed. `Confirmed` is about processes that a table read
before the confirmation showed. History: `raced` (two starts waited for the same
holder and both spawned, `codex-exec.ts:433`), `mistaken` (a stranger with the child's pid was
taken for the child, which was not recorded yet), `crossed` (a table was read after a younger one by
which a pid in it had been used again).

### CodexAppServer and ClaudeSession: long-lived providers

`CodexAppServer.tla` models one session of `codex-app-server.ts` with the coordinator that uses it: the
JSON-RPC process (external), its two pipes, the start of a turn, notifications, questions
(`onToolRequest`, the one slot `pendingTool`, the clients that answer), steers, interrupts, the
loss of the process (`failContext`) and a new one. `stopSession` settles no request: a steer under way
returns only if its reply is in the pipe and still read (`LeaveSteer`), and `RequestsSettle` speaks of the other ones. The provider is taken to
interrupt a turn before it answers `turn/interrupt`, which is what the manager relies on.

`ClaudeSession.tla` models the Claude path of `agent.ts`: prompts that go to a session which
may still work on an earlier one, results, a
cancel, a replaced session whose loop is still running, and processes that die. A process also works of its own
accord, when a background task of an earlier prompt ends (`WorksUnasked`), and that has a result, too: the loop takes the
first prompt off its list for each result (`Completed`, `agent.ts:2012`), and none if the list is empty. A result's
record and the end of its turn are one step.

*Properties.* `OverIsOver`, `QuestionIsAsked`, `RequestsSettle`; `NoHiddenWork`, `TurnEnds`. History:
`doubled` (two clients answer one question at once, and the second answer empties the slot of
the next one), `trespassed` (the end of a replaced session removes its successor's entry, `agent.ts:2058`), `misled` (a result
that no prompt asked for took the place of a prompt). A turn whose launch throws behind its registration is `Stranded`;
`TurnEnds` excepts both (see "Seen while modelling").

### UpdateEngine, DesktopTransition and CliUpdates: updates

`UpdateEngine.tla` models `server/updater`: the request file, the worker that the system starts every
minute, its journal with one action per save, rename and copy (backup, staging, setting aside,
putting back), the controller that runs the application and obeys the orders of the
worker, and the application, which migrates data and takes turns. The worker, the controller
and the application can die between any two steps. Saves are atomic (a rename); one worker
runs at a time, as the lease ensures.

`DesktopTransition.tla` models `distribution/transition.ts`: the launcher, which publishes a journal and registers a
helper; the helper's run with one action per file or service (reservation, the update engine's phases, deployment,
services, markers, orders); beside it the ordinary updater, which looks for a transition and then
takes the lease, and an update command. Each of them can die, and each step of the helper can fail. What the
engine does to the user's data is `UpdateEngine`'s.

`CliUpdates.tla` models `provider-cli-updates.ts`: the consented plan, its record on disk, the installer,
which outlives the server, maintenance (agents wait), terminals, recovery after a restart and
the one repair. Installations are npm's; pids are not used again.

*Properties.* `DataIsSafe` (`UserDataIsSafe`, `RunsOnItsData`), `OutcomeIsFinal`; `InstallsAlone`
(`OneInstaller`, `AgentsStayAway`, `TwiceAtMost`); `InstallationIsWhole`; `UpdateSettles` (all three). History: `stale` (the
controller launched against orders that were newer than those it had read,
`control.ts:129`), `blind` (an installer whose pid was never saved, or which was taken for
finished because the target version was there).

### Subscriptions and QuickCommand: the browser

`Subscriptions.tla` joins three files: the router's pushes (one under way per connection, refreshes
coalesced behind it, one read shared by a broadcast), the encoder and decoder of `chat-stream.ts`
(sequence numbers, epochs, deltas, resynchronisation) and the client socket's
subscriptions and reconnects. A transcript is the list of its records; a snapshot is the window of recent
entries, whether there are older ones, and the version of the metadata. A push takes its topics in any order (the code: in the order of
the connection's map), and so do the subscriptions that are sent again on a reconnect. Sockets are ordered and are lost as a whole.
The module's assumption lists that tabs and broadcast caches are different things, and that "nothing" and the snapshot of a deleted
chat are no snapshot of a chat that exists.

`QuickCommand.tla` models one project in one tab: the fence around an unanswered launch
(`quickCommandDelivery.ts`), the socket's queue of commands, the router, and for a remote browser
the receipts of `connect/operations.ts`. Without receipts, on the machine's own browser, a launch
that was never answered stays fenced until a reload.

*Properties.* `ScreenIsTrue` (`Whole`, `CaughtUp`), `NeverBack`, `LaunchedOnce` (`NoDoubleRun`,
`ToldTheTruth`). History: `owed` (a failed read ended a push together with the refresh that waited
behind it).

### SocketTransport, Connector and ChunkedUploads: connections

`SocketTransport.tla` models both sides of the framing: large messages in parts with a window
of acknowledgements, small ones whole, sockets that refuse a write, a peer of the old
version. `Connector.tla` models the binding to an account and the tunnel: heartbeats and
the user's changes, which take turns, requests that may be lost after the service
took them, the tunnel's process and the shutdown in between, one action per await. The account
service is external. `ChunkedUploads.tla` models the composer's retries and the server's staging:
chunks that are lost, repeated or half written, the saved file, receipts, expiry, the
limit of unfinished uploads and restarts.

*Properties.* `InOrder`, `Arrives`; `ReachableAsTold` (`TunnelHasItsAdapter`, `ClosedWhenTold`),
`ServiceIsTold`; `SavedAsSent` (`UploadedIsWhole`, `SavedOnce`). History: `unsaved` (a
pause, unbinding or revocation whose save failed: the tunnel is not stopped,
although `docs/connect-remote-access.md:28` has it close immediately).

## 3. Runs

| Run | Instance | Shows |
|---|---|---|
| `ChatRunSafety` | 4 requests, 2 runs, both switches on, symmetry | the safety properties of ChatRun |
| `ChatRunLive` | 3 requests, 3 runs, both switches off | `EnqueuedDrains`, `RequestsReturn` |
| `Records` | store with kills: 3 logs (one creates chats, one has their turns, one a queue), 2 events each; worn store: 1 log of 5 events, torn appends, one corrupt snapshot; catalog: 2 chats, 2 workspace ids, 3 calls, 1 restart; card: 2 submissions, 1 fault | what is written down is what is read back |
| `Answers` | server: 3 submissions, 2 restarts; card of a local client: 2 submissions, no faults | one answer, and its outcome reaches the card |
| `Processes` | 2 chats on 1 thread, 3 runs, until a session with a run has ended; 3 pids, 3 starts; symmetry | a thread is handed over, a stop ends the tree and nothing else |
| `Settles` | app server: 2 clients, 2 turns, 2 questions, 1 steer, 2 processes; Claude: 3 prompts, 2 sessions, work of its own accord when a process is idle, until a loop is misled; updater: 2 updates, 2 turns of the user, 2 faults; switch: 2 transitions, 1 ordinary update, 2 faults; CLIs: 2, 3 installers, 1 kill, 1 upset | work comes to an end, and the end is true |
| `Browser` | 2 tabs or 2 subscriptions of one, 2 records, 1 frame in flight, 1 fault, window and slots of 1; 3 launches, 3 faults; symmetry | a screen is true and never goes back; a launch runs once |
| `Connections` | 2 uploads of 2 chunks, 2 attempts, 1 unfinished, 2 faults; 2 messages of 3 parts, window and capacity 2; 2 device keys, 2 faults | uploads, framing and the tunnel |
| `ChatRunStranded` | 2 requests | **violated:** a message queued by `send` can be stranded |
| `ChatRunStopWindow` | 3 requests, `StopWindow` | **violated:** a second Esc can report success too early |
| `EventStoreAnswers` | 3 logs, one the journal; no kills | **violated:** the answer journal does not survive a clean shutdown |
| `EventStoreArchiveCrash` | kills while archiving or publishing | **violated:** acknowledged events are lost |

*Bounds.* ChatRun: four requests are the fewest that break `SteerGoesFirst` in a wrong program
(a message to run, one to steer, one to wait and the request that competes); two runs are
a run and its replacement, and the liveness run adds the one that slips in between. `MaxRuns` must
be at least the number of requests there: otherwise the last message waits for the bound and
not for the code. Store: two events per log distinguish a log from its archive before
and after an append, also of a log that was left behind; each of the three logs is one of the kinds that a second application tells apart; three would show a torn line with an event on both sides,
and five repeat it around a compaction; `Threshold = 3`
makes both outcomes of `shouldCompact` occur. Catalog: three calls are a creation, a message and what
competes with it; a second id is what reopening a removed workspace makes. Answers: three
submissions are the one that fails, the one that replaces it and one that competes with both; the
second restart meets what the first one reconciled. A card tells its own submission
only from "another" one, so two are enough.

Processes: a third run is the one that starts while the second waits for the first; with three pids and three starts the child, a tool and
a third process live together, and a pid is used again while a table that shows its former owner is still unread. App server: a second turn or
process is where what the first left behind would show. Updates: the second update is the one
whose rollback must not touch what the first one did; two faults let a rollback fail
and the worker die in one behaviour. Installers: a third is what two would have to be
followed by to break `TwiceAtMost`. Browser: a window of one entry moves with each record, so every
delta removes something; one slot makes encoders collide; the metadata does not change there (`MaxMeta = 0`, one change exceeds
five minutes), so the half of `NeverBack` about it rests on the proof. `FactsReachTheCard` is checked without faults of the network; lost and
late replies are in `Records`. Transport: three parts exceed the
window. Where the code's number is larger (4 attempts, 16 unfinished uploads, 4 encoders), the
smaller one makes the limit reachable.

Symmetry is used where all properties are invariants or action properties (requests, submissions,
chats, pids, tabs), never with liveness. `CHECK_DEADLOCK FALSE` is set where a component that has nothing left to do,
or is at its bound, really stops.

*Fairness* is what the event loop, the disk and a provider that answers or dies give; what
users, other clients, the network's faults and kills do is never fair.

- ChatRun (`LiveSpec`): a thread that can continue does, writes complete, a provider turn ends, a process that was told to
  stop or whose run is over exits or its release fails (the SIGTERM/SIGKILL budget of
  `codex-exec.ts`). `NeedsUser` names the states in which the code leaves the queue to the user: parked by Esc, a
  failed launch, or a stop that is not confirmed (`agent.ts:1219`).
- AnswerDelivery: the socket reconnects while the tab is open, the server answers queries and owes a snapshot after
  each change, messages arrive, React runs effects and timers fire. The server's progress on a request
  is not fair: the property is about records that have become stable.
- CodexAppServer: the coordinator's awaits return, lines are read, a closed process is noticed, the provider serves its
  requests or dies. It need not complete a turn, so a turn that runs is not required to end.
- ClaudeSession: the loop of a session and its input are read; the provider need not answer, and `TurnEnds` speaks of
  turns that were answered or whose process is gone.
- UpdateEngine: the system starts the worker every minute and keeps the controller running (the service manager), both take their steps, and the
  user's turns end. DesktopTransition: the system starts helper and updater, and a command that runs goes on; the launcher may be closed at any time. CliUpdates: the server's awaits return, an installer ends.
- SocketTransport: a refused write is retried (the 25 ms timer) and frames arrive. Connector: requests, writes and stops
  end; `tick` is strongly fair, since it runs on an interval and waits for its turn among the
  changes; a stopped server is started again.

### What the violated runs say of the code

1. `QueueDrains` (`agent.ts:1811`). `send` finds the chat busy and queues; the run ends
   before the write; its drain sees an empty queue; nobody schedules the queue
   after the write, as `enqueue` does (`agent.ts:1864`).
2. `EscConfirms` (`agent.ts:2173`). While the first Esc writes its bookkeeping, the stream
   ends; `runTurn`'s `finally` removes the active turn and leaves the barrier to the Esc, which has not
   published it; a second Esc finds neither and returns. A send in the same window starts
   a second process.
3. `AnswersSurvive` (`event-store.ts:1874`). Each compaction, so each clean shutdown
   (`server.ts:807`), truncates the answer journal, which the snapshot does not hold. The run has no kills:
   an answer is recorded, the server is shut down and started again, and the answer is gone.
4. `AckedSurvives` with kills while archiving or publishing (`event-store.ts:1909`). The log equals its
   fresh archive, so the next start skips it, although the snapshot does not contain it yet.

### Seen while modelling

The models reach these states, and the properties name them or allow them:

- *Answers.* When the user dequeues a queued follow-up (`agent.ts:1955`), or a kill falls between its removal
  and its "accepted" record, the record stays "queued" and the question can no longer be answered. While a client's own
  answer is under way the card adopts another client's "submitting" record; when both fail, `observe` ignores the
  own failure (`asyncQuestionDelivery.ts:93`) and the card stays on "sending".
- *Store.* A kill while `compact()` truncates, an append to one of the logs left behind and a second kill: the next start replays that log
  over a snapshot that holds it, so that a queued message shows twice (`event-store.ts:671` looks at no id), or chats are made anew
  behind the turns that the snapshot had (`mixed`).
- *Catalog.* A message queued behind a deletion makes the transcript's record throw inside `writeChain`, so every later write is
  rejected until a restart (`event-store.ts:761`). Two concurrent `openProject` calls give one path two ids (`:866`). A removed
  workspace that is reopened after a compaction gets a new id, and its chats stay with the old one. Pruning can
  delete a chat whose first message was queued behind the look (`:1117`). Of two marks in one millisecond the replay prefers the
  reader's, which a test states.
- *Codex.* Two chats that wait for the same holder both spawn (`codex-exec.ts:433`, `raced`). A finished run's release decides to end only
  the writer (`codex-exec.ts:945`) and then awaits the recording (`:955`) and a table (`process-tree.ts:261`) before its first signal; a stop that comes
  in between, or later in an attempt that succeeds, joins it and leaves the tools alive. A `record` whose table is read after a younger one of
  `terminate`, by which a pid had been used again, puts the former owner's identity in the place of the new one's, which a
  confirmed stop then does not see (`crossed`); and a survivor that only such a recording's table shows, read when the stop was confirmed, is left, too.
- *Codex app server.* A stopped session settles
  no request (`codex-app-server.ts:1064`; its close handler returns, `:1153`), so a steer under way never returns to its caller: the answer's lock stays
  held and the card shows the answer as being sent until the server is restarted. A plan question refused by a cancel is an unhandled rejection;
  two clients that answer at the same time empty the next question's slot (`doubled`).
- *Claude.* The end of a replaced session deletes the map entry of its successor (`agent.ts:2058`, `trespassed`). The result of a background
  task that arrives when the next prompt is on its way takes that prompt's place in the list (`agent.ts:2012`, `misled`): it ends the
  prompt's turn while the process still works on it, and the prompt's own result ends nothing, or the turn after it. A turn that was registered
  (`agent.ts:1639`) when its session's loop had just ended is not removed when its launch throws (`:1671`): the chat is
  busy until Esc (`Stranded`). No document or test of the repository speaks of either.
- *Updates.* A controller that read its orders before an `await` can launch against newer ones (`stale`). A CLI record whose recovery is
  refused because a terminal was opened ends as failed without `recoveryBlocked`, so that a repair is offered beside an
  installer nobody knows of (`server.ts:327`, `provider-cli-updates.ts:285`); a target version that is found while that installer still
  runs lifts the block (`blind`).
- *Installation switch.* A kill (or a full disk) between the creation of `request.json` and its content leaves a file that
  `releaseReservation` (`transition.ts:238`) cannot parse, so that every run of the helper ends there, and the updater,
  which would move the file aside, waits for the transition. `Settled` excepts this state; nothing in the repository says what
  should happen.
- *Browser.* The deletion of a chat is broadcast to sidebars only; other tabs learn of it with their next push.
  A failed read ends the push and drops the refresh that waited behind it (`owed`). The decoder's path for a gap in the sequence is not
  reachable on ordered sockets.
- *Connect.* When the save of a pause or unbinding fails the tunnel stays up (`unsaved`). A write that fails in `startTransport` while the
  connector stops can leave the adapter listening without a tunnel. A stop that was queued may remove `frpc.json` after a later start wrote it.
- *Uploads.* The limit of unfinished uploads is checked before an `await`, so that it can be exceeded by requests that arrive together.
  A duplicate that arrives after a restart saves a second copy.

## 4. Proofs

TLC checks small instances; what follows holds for every value of the constants. Each proof has
the same shape: an inductive invariant with named parts, first checked by TLC, a lemma per action
(or per kind of step) that keeps it, and a temporal step that combines them.

**Assumptions.** A proof uses the assumption of its component: that bounds are natural numbers and
that markers such as `None` are none of the other values. `ChatRun`, `CodexExec`, `CodexAppServer` and
`AnswerServer` state it as an `ASSUME`; a component that an `MC` module instantiates with other values has it as an operator:
lemmas take it as hypothesis, `MCRecordsAssumption`, `MCSettlesAssumption`, `MCConnectionsAssumption`, `MCProcessesAssumption` and
`MCBrowserAssumption` assume it of each instance, and TLC evaluates all five. Hypotheses about the program are named in the theorems below, and are no others.

**Modules.** A component that a run checks directly has its proofs in a module that extends it. Components that
`MCSettles` instantiates have theirs in `SettlesProofs`, where `Claude!`, `Update!`, `Switch!` and `Cli!` name their definitions
(those of `CodexAppServer` stand first, with their own names):
first an invariant and a theorem about the component's own specification, then the same for `MCSpec`, by one lemma
(`Components`: a step of `MCSettles` is a step of each component or leaves it alone). `ConnectionsProofs` is
laid out the same way over `MCConnections` (`Transport!`, `Link!`), `BrowserProofs` over `MCBrowser` (`Command!`). `RecordsProofs` carries what `EventStoreProofs`
proves of any store over to the worn one of `MCRecords`, and proves of its card (`Delivery!`) and its catalog (`Catalog!`). `CodexExecProofs` proves of
`CodexExec` and, over `MCProcesses`, of `ProcessOwnership` (`Ownership!`).

**`ChatRunProofs`** (any requests and any number of runs; faults of all kinds).

| Theorem | Of what |
|---|---|
| `TypeCorrect` | `TypeOK` with `Shape`: a start in flight has its message, a stop its run, and the tail of a run never acts for a client |
| `RunsAreRemembered` | `NoRunForgotten` |
| `EscParks` | `EscHolds` |
| `WordIsKept` | `CommandsKeepTheirWord` |
| `MessagesAreKept` | `NothingLost` |
| `SentOnceWhileKnown`, `MessageIsSentOnce` | `SentOnce` |

The invariant `Inv` has four parts. `Launches`: one thread launches, and `launching` says which. `Known`:
each run is where the control looks for it (`RunPlaced`: the active turn, the draining stream
or the barrier), two runs are never current, and what a waiting thread
has seen settled stays settled (`Knows`) - this is where one writer comes from, and it holds until the end
of a run `slipped` past its barrier. `Carries`: a start holds the message of its own send.
`Words`: a decision that no later Esc or steer superseded may rely on the chat not being parked and the handoff
being its own; while a parked chat still runs, somebody stops it. `Superseded`, the comparison of
generations after each await, is what every one of these steps rests on. `Once` adds, for each message, that
who holds it has claimed it and that it was not given to the provider before, unless it is remembered as started.
`SentOnce` needs that memory: the coordinator forgets started messages beyond
`STARTED_QUEUED_MESSAGE_MEMORY` (50, `agent.ts`), and a message whose removal from the queue failed 50 starts ago
could be sent again. `SentOnceWhileKnown` states the condition as `StillKnown` (no message still
queued is forgotten), `MessageIsSentOnce` as at most `StartedMemory` runs.

**`EventStoreProofs`** (any logs, bounds, restarts).

* `TypeCorrect`.
* `AckedSurvivesRestarts` and `ImplementsAbstractStore`, under `NoLossyFault` (no torn line, no
  corruption, no kill between archiving and publishing: the faults the runs
  show to be lossy); both hold until the store is `mixed`. The inductive invariant `Durable` adds to the statement about the running store: what the disk holds of the kept
  events is acknowledged (`OnlyAcked`); every line can be
  read (`Readable`); snapshot and replayed logs together hold every kept event when the store is down
  (`Recoverable`); memory holds them from the load on (`Held`); from
  publishing on, the snapshot does (`Published`). A replay shows an event twice or hides one only if it meets events which the snapshot holds. `Fresh` keeps, until the store is `mixed`
  (`Plain`), that a log with such events is not replayed: a log equals its archive from archiving until it is truncated (`Agree`). After that what
  shows is still made of acknowledged events (`Sober`). The refinement maps `Start`'s successor to `Open`, `append` to `Add`, the stops to
  `Close` and the rest to stuttering.
* `TornCostsAtMostNext` and `BackupRecovers` (and the same of `MCRecords` in `RecordsProofs`), with torn lines and unreadable snapshots, under `NoKillBeforePublishing`
  and as long as the store is not `mixed`. `Needed` are the acknowledged events that were not appended right behind a torn
  line. `WornInv`: until a snapshot becomes unreadable all files together are `Intact`, which keeps for each needed event
  where it is found, in memory, in the snapshot with the logs (`OnDisk`) and in the backup with the archives (`Restorable`), through
  each step of a compaction; and what is lost to one corruption is `Restorable`.

**`AnswerServerProofs`** (any submissions and restarts).

* `TypeCorrect`; `AcceptedIsSent`. The record alone is not inductive, since it is written
  long after the sending: `SentInv` adds everything that is about to write it.
* `ImplementsRecord`: the refinement of `AnswerRecord`. `Orderly` relates the write chain to who waits for it: which
  writes the handler and the start of a follow-up still have in it (`Awaited`), what is recorded of submissions and
  the queue (`Recorded`), and what a record that settles a submission will meet when it
  is applied (`Settling`), so that each `Apply` is a step of the record or none.
* `QuestionAnsweredOnce`: `Told` adds that nothing was sent of a submission that is not live and that a follow-up
  that was not started was not sent.

**`CodexExecProofs`** (any chats, threads and number of runs): `ThreadsAreHandedOver`
and `StopsTakeTools`. What makes `IInv` inductive is what the chats know of their
runs (`ChatsKnowTheirRun`): an unreleased run is the writer of its chat's session, or its chat
is retired, so that a start that found its own run released can take a thread only from
another chat; a start that still waits has a session whose run it waits for, or none
unreleased. `Sound` keeps, for each run, why it may be released: it is over or
stopped, also once its session was replaced. `Claimed` holds until two starts waited
for the same run (`raced`). Most steps add, move and release no run (`Gentle`) and keep the invariant by one lemma.
`StopsTakeTools` says nothing of a stop that joins an attempt whose scope is decided and which succeeds.

*ProcessOwnership* (any pids, any number of processes, both platforms): `StopsTheWholeTree`, with `OwnInv`. The processes change while the code reads
tables that are old, so the invariant compares three pictures: the truth (`table`), the table that was printed (`rows`) and what is
recorded (`owned`). `Possible` says what every table shows of parents and children. `Shows(last)`: processes that had started
when the table was printed (their starts are at most `last`) and live are in it as they are, and a pid that was used again
since holds a process that is younger. `Recognised` and `Identified`: what was seen linked to the child is recorded under its
pid, and what is recorded of a living process is so. Then a table with no target left proves that nothing known lives,
although it is old; and a target that is a stranger of the table can only descend from a child mistaken for another (`mistaken`).
`LearntIsRecorded` is the step from one table to the next: links to what is known are found by `descendantsOf`. The tables of `record` and of `terminate` are
unread at the same time and may be read in either order; until they `crossed`, the older one takes no recorded identity back.

*CodexAppServer*, in `SettlesProofs` (any clients, turns, questions, steers and processes): `Invariance`, `WhatIsOverIsOver`,
`QuestionsAreAsked`, with `CodexInv`. The manager takes a completion for the end of the turn it waits for without comparing them. That this is right
rests on the pipes: a start or an end on its way is the coordinator's turn's, and there is one (`OneTurn`); a turn that
is not pending has left nothing in pipes or process, except while an interrupt is under way (`Over`); the reply to the
interrupt comes behind the end that it caused (`Interrupting`); questions wait only for a turn
that runs, and a plan among them means that its turn has finished (`Queue`).

**`SettlesProofs`**. *ClaudeSession* (any turns and sessions): `WorkIsNotHidden`, with `ClaudeInv`. A session that does not
fit is closed when its turn's launch begins, so one that runs is the map's entry (`Shown`); launch, active turn and entry name the same session or none
(`Entered`). That a process has no turn beside the active one which nobody cancelled is a matter of counting: its loop waits for as many
prompts as the process has, or has answered and nobody read yet (`Awaited`), in the order of their numbers, so that the result which the loop
takes for the active turn's is indeed the last prompt's, and nothing is left behind it. Interrupts in the input
are no prompts, nor is what a process does or says of its own accord (`Due` is what it owes to prompts); `Counted` carries the sum through the
queue. The counting holds until the loop was `misled`, all of it until the end of a replaced session removed its successor's
entry (`trespassed`), as the property says.

*CliUpdates* (any CLIs, installers, kills and failed saves): `UpdatesInstallAlone`, with the invariant `CliInv`. `Known`
is the core: an installer at work is in the record in memory and in the one on disk, by its pid or as one of which nobody knows
whether it runs, so that recovery finds it; `Sound` relates the attempts in both records to the installers
that were started, which bounds them by two.

*UpdateEngine* (any updates, turns of the user and faults): `DataSurvives` and `UpdatesOnce`, with `UpdateInv`. `UpdatePhased` and `Journalled` tie the worker's place
to what a successor would read in the journal; `Safe` says which of data, backup, staged and set-aside copy holds the user's turns at each of these places,
and that no application writes where a recovery goes on. `UpdateNumbered` gives `UpdatesOnce`: a request left behind by a dead worker has a number the journal has seen.

*DesktopTransition* (any transitions, ordinary updates and faults): `InstallationStaysWhole`, with `SwitchInv`. `SwitchPhased` ties the helper's place to its two journals, `Alone` keeps
the ordinary updater out of a switch, `Switched` says for each place what already belongs to the new installation and what still belongs to the old one.

**`ConnectionsProofs`**. *ChunkedUploads* (any attachments, chunks, tries and faults): `AttachmentsSavedAsSent`, with `UploadsInv`. `InTurn`: the composer waits
for one request at most, and requests of an attachment are served in turn, also those of tries it gave up. `Confirmed`: what the server
confirmed is in the staged file as it was sent, although an abandoned request may have written behind it, so that a chunk that is sent again
is written at its own place. `Kept`: a file was saved once, and stays as long as the composer may show it.

*SocketTransport* (any messages, frames per message, window and buffer, either version of the peer): `MessagesArriveInOrder`, with
`TransportInv`. Both properties of the framing come from one fact about each direction: what the peer has is a prefix of what was given, and frames under
way, the transfer and the queue, read in this order, bring just the rest of it (`Line`), unless the peer has failed. The answer
to a probe travels among the messages and belongs to none (`Genuine`).

*Connector* (any device keys, lost answers, failed writes, exits and shutdowns): `ReachableIsAsTold`, with `ConnectorInv`. A computer that is paused or removed has no
transport but one that is being stopped, or the operation that closed it stops it next (`ShutMeansOff`). An operation that serves the tunnel was
begun for an open computer, which no change closes meanwhile since a change is refused as busy (`Underway`); a start in whose course the transport was stopped has noticed
(`moved`, the `transportRevision` that `startTransport` compares before it spawns). A removal pauses first, on disk too, so that what a
restart reads is closed (`RemovedMeansPaused`).

**`RecordsProofs`**, *AnswerDelivery* (any submissions, reconnects, lost sends): `CardIsTruthful`, with `CardInv`, and `CardKeepsWord`.
`Told`: whatever may still reach the card (the snapshot, states, acknowledgements and errors on their way, what the
session storage holds) says of a settled submission what the server's record said of it; `Unsent`: an answer in the outbound
queue was not sent, so that giving it up is safe. `Keeps` is the order of outcomes that `CardKeepsWord` says every step respects.

*ChatCatalog* (any chats, workspaces and bounds; rejected writes, kills, shutdowns): `EmptyChatsAreEmpty`, with `CatalogInv`. `Sound`: in
memory, in the snapshot and behind any replay, an offset that is not 0 stands for messages, and a chat's id was taken. `ChainOK`: a pending write is of a chat that
exists, and a chat whose creation is pending has neither an entry nor a second creation behind it, so that no creation forgets messages. `HasOK`, the
property for every state: a restart compares each offset with its transcript (`RestoreIs`). `replayLogs` is a recursive function of the set of events, each applied
behind those that precede it; that the order has a latest event in every set (`HasLast`), that the function exists for every log (`HasReplay`) and
keeps `Sound` (`ReplayIsSound`) is shown by least counterexamples. The invariant does not need the chain to be empty; the property says so
because the code writes the entry and marks the chat in two steps of one write, which are one here.

**`BrowserProofs`**, *QuickCommand* (any launches, restarts, expiries and lost connections): `LaunchedOnceHolds`, with `CommandInv`. `OneRequest`: a launch has
one request, in the client's queue, on the wire, late or in execution, and a request that may still come has not run. `Answering`: a receipt or
an answer under way says what has happened, and after an error nothing is left that could run the launch. `Remembered`: only the last launch
may be unanswered, so that one pending receipt suffices.

*Subscriptions* (any tabs, subscriptions, records, window, encoder slots, frames on their way and faults): `ScreenIsTrueHolds` and `NeverBackHolds`, with
`SubscriptionsInv`. The server never learns what a tab shows; it encodes against what it sent last. The invariant therefore follows each subscription
along the frames on their way (`Chain`): there are stages, the first is the decoder and the view of the tab, the last is what the server's
encoder or signature stands for (`Sender`), and each frame takes one stage to the next (`Moves`), which is not older (`Before`). Each view of the chain is of
the chat's past (`Past`). That a delta does what the whole snapshot would is a lemma about the encoder and the decoder's merge (`RoundTrip`, for any two
snapshots whose entries have different ids); it also shows that in this order no decoder ever asks for its stream anew. `SubOK`: the frames of a dropped subscription or of
a stream before a reconnect find nobody. `AheadOf`, for what a push is going to send, on its own read or on one that it shares with other connections: it is not older than the
end of the chain. `Held` is why that can be kept: a broadcast takes a cache which nobody uses, and reads and prepared snapshots are dropped with
their last user, so that nothing read earlier is met again. `Shows` gives the caught-up half of `ScreenIsTrue`: with no broadcast scheduled and no refresh pending, what pushes have read is the
chat as it is, and what they are done with stands for it. What the window shows rests on the lemmas `Enumerated` (a set of numbers has
an increasing order: induction, by a least counterexample, since the library's induction theorems cannot be used), `OrderedIs`, `SnapIs` and `LaterIds`.

**Only model-checked.** `RestartKeepsTheCatalog` (ChatCatalog): it says that a replay in the order of times comes to the same state as the
appends in the order of the chain, field by field, for every log; what is proved of the replay is what it keeps, not that the two orders agree.
And all liveness, which is out of the prover's reach.

## 5. Not modelled, and what is left

- *Rendering and settings* (`client/app` apart from the stores named above, `client/components`): most of the
  program's lines. They have no protocol state of their own; what they call is modelled.
  `useStillOnState.ts` is part of this, though its optimistic updates would deserve a module.
- *Previews, terminals, discovery, sign-in, statistics, service installation, the command line*: I/O around the
  operating system, single-file settings and counters derived from streams.
- *Desktop distribution* apart from the switch: bundles, release feeds; `server/updater/setup.ts`, the first installation.
- *Transcripts*: windows over an append-only file, pure functions.
- *Inside modelled components*: translation of provider items into transcript entries (`codex-app-server.ts`), parsing of streams,
  the relay's byte queues and the adapter's HTTP proxy (Connect), the router's other commands, native installers, migrations
  of old data, forks and title generation of run control. `PROJECT.json` says for each component what is left out.

The map therefore covers about a tenth of the repository's lines, most of the lines that coordinate.

Left to do, most important first: ClaudeSession under ChatRun's barrier; the relay queues of Connect; `useStillOnState.ts`.
