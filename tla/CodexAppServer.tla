--------------------------- MODULE CodexAppServer ---------------------------
(***************************************************************************)
(* CodexAppServerManager (src/server/codex-app-server.ts) for one chat, as *)
(* the coordinator (src/server/agent.ts) drives it: one long-lived process *)
(* speaks JSON-RPC over its pipes, and a turn is a request, a stream of    *)
(* notifications and questions of the provider.  Which runs the            *)
(* coordinator starts and stops is the subject of ChatRun.                 *)
(***************************************************************************)
EXTENDS Naturals, Sequences

CONSTANTS
  Clients,                  \* browsers that can answer a question
  MaxTurns, MaxAsks, MaxSteers, MaxSpawns,  \* bounds: turns, questions, steers, processes
  None

ASSUME AppServerAssumption == {MaxTurns, MaxAsks, MaxSteers, MaxSpawns} \subseteq Nat /\ None \notin Nat

VARIABLES
  context,     \* the chat's SessionContext, or None: closed, and its pendingTurn, or None
  phase,       \* how far the coordinator is with its turn
  turns,       \* turns begun; the last one is the coordinator's
  known,       \* turns whose provider id is known (turnId)
  stream,      \* how the stream of each turn ended, "open" or "none"
  chain,       \* onToolRequest's chain: the first one is asked, the others wait
  slot,        \* active.pendingTool, or None
  responses,   \* client -> the question whose answer respondTool is writing, or None
  steers,      \* steers sent
  steering,    \* "none", "sent" while the last one has no reply, or "lost" with its session
  child,       \* the process: alive, the turn it works on, its unanswered questions
  toServer, toClient,       \* its pipes
  spawns, asks,             \* bounds
  finished,    \* history: turns the provider completed by itself
  doubled      \* history: two clients answered one question at the same time

manager == <<context, known, stream, steers, steering>>
tools == <<chain, slot, responses, asks, doubled>>
provider == <<child, toServer, toClient, spawns, finished>>
vars == <<manager, tools, provider, phase, turns>>

Turns == 1..MaxTurns
Plan == MaxAsks + 1         \* the request that asks for approval of a plan

NoChild == [alive |-> FALSE, turn |-> None, asked |-> {}]

Init ==
  /\ context = None /\ phase = "idle" /\ turns = 0 /\ known = {} /\ stream = [t \in Turns |-> "none"]
  /\ chain = <<>> /\ slot = None /\ responses = [c \in Clients |-> None]
  /\ steers = 0 /\ steering = "none"
  /\ child = NoChild /\ toServer = <<>> /\ toClient = <<>>
  /\ spawns = 0 /\ asks = 0 /\ finished = {} /\ doubled = FALSE

Msg(kind, n) == [kind |-> kind, n |-> n, ok |-> TRUE]
Open == context # None /\ ~context.closed
Pending == IF context = None THEN None ELSE context.pending

\* writeMessage: what is written to a process that is gone is lost.
writeMessage(msgs) == toServer' = IF child.alive THEN toServer \o msgs ELSE toServer

-----------------------------------------------------------------------------
(* Questions.                                                              *)

\* What the provider is told: a plan was not its question, and comes last, with its turn over.
Answers(answered) ==
  LET n == Len(answered) IN
    [i \in 1..(IF answered[n] = Plan THEN n - 1 ELSE n) |-> Msg("answer", answered[i])]

NoTools == chain' = <<>> /\ slot' = None /\ responses' = [c \in Clients |-> None]

\* Mutant: the questions of a turn are not queued behind each other.
AskAtOnce(a) ==
  IF phase = "running" THEN slot' = a /\ chain' = Append(chain, a) /\ UNCHANGED toServer
  ELSE UNCHANGED <<slot, chain>> /\ writeMessage(Answers(<<a>>))

\* onToolRequest: asked at once if none is before it; refused when the turn is not (or no
\* longer) the chat's, which the provider reads as an error.  A refused plan ends its
\* handler with a rejection that nobody handles.
onToolRequest(a) ==
  IF chain # <<>> THEN chain' = Append(chain, a) /\ UNCHANGED <<slot, toServer>>
  ELSE IF phase = "running" THEN slot' = a /\ chain' = <<a>> /\ UNCHANGED toServer
  ELSE UNCHANGED <<slot, chain>> /\ writeMessage(Answers(<<a>>))

\* The first question is resolved: its handler replies, and the next one is asked or, in a
\* turn that is being cancelled, they are all refused.
Resolve ==
  IF phase = "running"
  THEN /\ chain' = Tail(chain) /\ slot' = IF Len(chain) > 1 THEN chain[2] ELSE None
       /\ writeMessage(Answers(<<Head(chain)>>))
  ELSE chain' = <<>> /\ slot' = None /\ writeMessage(Answers(chain))

\* An approved, refused or discarded plan ends its turn (handleTurnCompleted).
PlanResolved ==
  IF Head(chain) = Plan /\ Pending # None
  THEN stream' = [stream EXCEPT ![Pending] = "plan"] /\ context' = [context EXCEPT !.pending = None]
  ELSE UNCHANGED <<stream, context>>

\* respondTool, up to the write of the answer.
respondTool(c) ==
  /\ responses[c] = None /\ phase = "running" /\ slot # None
  /\ responses' = [responses EXCEPT ![c] = slot]
  /\ UNCHANGED <<manager, provider, phase, turns, chain, slot, asks, doubled>>

\* Its rest: it clears whatever question is asked now and resolves its own.
AnswerWritten(c) ==
  /\ responses[c] # None
  /\ responses' = [responses EXCEPT ![c] = None]
  /\ IF chain # <<>> /\ Head(chain) = responses[c]
     THEN Resolve /\ PlanResolved /\ UNCHANGED doubled
     ELSE slot' = None /\ doubled' = TRUE /\ UNCHANGED <<chain, toServer, context, stream>>
  /\ UNCHANGED <<known, steers, steering, asks, child, toClient, spawns, finished, phase, turns>>

-----------------------------------------------------------------------------
(* Sessions and turns.                                                     *)

\* stopSession rejects no request, and its context is closed when the process goes: a steer
\* under way returns only if its reply is in the pipe by now and is still read.
LeaveSteer ==
  \/ steering' = IF steering = "sent" THEN "lost" ELSE steering
  \/ /\ steering = "sent" /\ \E i \in DOMAIN toClient : toClient[i].kind = "steer"
     /\ steering' = "none"

stopSession ==
  /\ context' = None /\ child' = NoChild /\ toServer' = <<>> /\ toClient' = <<>> /\ LeaveSteer

\* startSession: a session that fits (same folder, thread and transport) is used again,
\* another one is stopped; initialize and thread/* are one request here.
startSession ==
  /\ phase = "idle" /\ turns < MaxTurns
  /\ turns' = turns + 1
  /\ \/ Open /\ phase' = "ready" /\ UNCHANGED <<context, child, toServer, toClient, spawns, steering>>
     \/ /\ spawns < MaxSpawns /\ spawns' = spawns + 1
        /\ context' = [closed |-> FALSE, pending |-> None] /\ LeaveSteer
        /\ child' = [NoChild EXCEPT !.alive = TRUE] /\ toServer' = <<Msg("open", 0)>> /\ toClient' = <<>>
        /\ phase' = "opening"
  /\ UNCHANGED <<tools, known, stream, steers, finished>>

\* requireSession and startTurn's request.
startTurn ==
  /\ phase = "ready"
  /\ IF Open /\ context.pending = None
     THEN /\ context' = [context EXCEPT !.pending = turns] /\ phase' = "starting"
          /\ stream' = [stream EXCEPT ![turns] = "open"] /\ writeMessage(<<Msg("start", turns)>>)
     ELSE phase' = "idle" /\ UNCHANGED <<context, stream, toServer>>
  /\ UNCHANGED <<tools, known, steers, steering, child, toClient, spawns, finished, turns>>

\* The coordinator registers the turn, one or two store writes later.
Register ==
  /\ phase = "registering" /\ phase' = "running"
  /\ UNCHANGED <<manager, tools, provider, turns>>

\* runTurn: the stream is over; a question left open by a lost process goes with the turn.
StreamEnds ==
  /\ phase = "running" /\ stream[turns] # "open"
  /\ phase' = "idle" /\ NoTools
  /\ UNCHANGED <<manager, provider, turns, asks, doubled>>

\* cancel: the question asked is taken at once (one that lost its slot is never resolved), ...
Esc ==
  /\ phase = "running" /\ phase' = "cancelling" /\ slot' = None
  /\ chain' = IF slot = None THEN <<>> ELSE chain
  /\ UNCHANGED <<manager, provider, turns, responses, asks, doubled>>

\* ... and discarded after a write; ...

Discard ==
  /\ phase = "cancelling" /\ chain # <<>>
  /\ Resolve /\ PlanResolved
  /\ UNCHANGED <<known, steers, steering, responses, asks, doubled, child, toClient, spawns, finished, phase, turns>>

\* Mutant: the provider is told to stop and not waited for.
InterruptAndGo ==
  /\ phase = "cancelling" /\ chain = <<>>
  /\ NoTools /\ phase' = "idle"
  /\ IF Pending = None THEN UNCHANGED <<context, stream, toServer>>
     ELSE /\ context' = [context EXCEPT !.pending = None]
          /\ stream' = [stream EXCEPT ![Pending] = "cut"]
          /\ IF Pending \notin known THEN UNCHANGED toServer ELSE writeMessage(<<Msg("interrupt", Pending)>>)
  /\ UNCHANGED <<known, steers, steering, asks, doubled, child, toClient, spawns, finished, turns>>

\* ... and after the bookkeeping the turn is interrupted: a plan that waits for approval
\* has no turn any more, and neither has a context that failed.
interrupt ==
  /\ phase = "cancelling" /\ chain = <<>>
  /\ NoTools
  /\ IF Pending = None THEN phase' = "idle" /\ UNCHANGED <<context, stream, toServer>>
     ELSE /\ context' = [context EXCEPT !.pending = None]
          /\ stream' = [stream EXCEPT ![Pending] = "cut"]
          /\ IF Pending \notin known THEN phase' = "idle" /\ UNCHANGED toServer
             ELSE phase' = "stopping" /\ writeMessage(<<Msg("interrupt", Pending)>>)
  /\ UNCHANGED <<known, steers, steering, asks, doubled, child, toClient, spawns, finished, turns>>

\* A stop that failed is tried again; nothing is pending any more, so it succeeds.
RetryStop ==
  /\ phase = "failed" /\ phase' = "idle"
  /\ UNCHANGED <<manager, tools, provider, turns>>

\* steerTurn, for an answer to an asynchronous question (AnswerServer), one at a time.
steerTurn ==
  /\ Open /\ context.pending # None /\ context.pending \in known
  /\ steering = "none" /\ steers < MaxSteers
  /\ steers' = steers + 1 /\ steering' = "sent" /\ writeMessage(<<Msg("steer", context.pending)>>)
  /\ UNCHANGED <<tools, context, known, stream, child, toClient, spawns, finished, phase, turns>>

\* The chat is deleted, or the program stops.
CloseSession ==
  /\ phase = "idle" /\ context # None
  /\ stopSession
  /\ UNCHANGED <<tools, known, stream, steers, spawns, finished, phase, turns>>

-----------------------------------------------------------------------------
(* The process (external) and what the manager reads from it, in order.    *)

Say(msgs) == toClient' = toClient \o msgs

\* A turn is interrupted before the reply says so, and refused if it is over.
Serve ==
  LET m == Head(toServer)
      active == child.turn # None /\ child.turn = m.n
      no == [m EXCEPT !.ok = FALSE] IN
  /\ child.alive /\ toServer # <<>> /\ toServer' = Tail(toServer)
  /\ \/ /\ m.kind \in {"open", "start"}
        /\ \/ child' = (IF m.kind = "start" THEN [child EXCEPT !.turn = m.n] ELSE child) /\ Say(<<m>>)
           \/ UNCHANGED child /\ Say(<<no>>)
     \/ /\ m.kind = "interrupt"
        /\ child' = IF active THEN [child EXCEPT !.turn = None, !.asked = {}] ELSE child
        /\ Say(IF active THEN <<Msg("interrupted", m.n), m>> ELSE <<no>>)
     \/ m.kind = "steer" /\ UNCHANGED child /\ Say(<<IF active THEN m ELSE no>>)
     \/ m.kind = "answer" /\ child' = [child EXCEPT !.asked = @ \ {m.n}] /\ UNCHANGED toClient
  /\ UNCHANGED <<manager, tools, spawns, finished, phase, turns>>

Asks ==
  /\ child.alive /\ child.turn # None /\ asks < MaxAsks
  /\ asks' = asks + 1 /\ child' = [child EXCEPT !.asked = @ \cup {asks + 1}]
  /\ Say(<<Msg("ask", asks + 1)>>)
  /\ UNCHANGED <<manager, chain, slot, responses, doubled, toServer, spawns, finished, phase, turns>>

Completes ==
  /\ child.alive /\ child.turn # None /\ child.asked = {}
  /\ finished' = finished \cup {child.turn} /\ child' = [child EXCEPT !.turn = None]
  /\ \E kind \in {"completed", "plan"} : Say(<<Msg(kind, child.turn)>>)
  /\ UNCHANGED <<manager, tools, toServer, spawns, phase, turns>>

\* A fatal error of the turn; the process lives on.
Errs ==
  /\ child.alive /\ child.turn # None
  /\ child' = [child EXCEPT !.turn = None, !.asked = {}] /\ Say(<<Msg("error", child.turn)>>)
  /\ UNCHANGED <<manager, tools, toServer, spawns, finished, phase, turns>>

Dies ==
  /\ child.alive /\ child' = NoChild /\ toServer' = <<>>
  /\ UNCHANGED <<manager, tools, toClient, spawns, finished, phase, turns>>

\* Mutant: the requests under way are not rejected.
FailTurnOnly ==
  /\ context' = [context EXCEPT !.closed = TRUE, !.pending = None]
  /\ stream' = IF Pending # None THEN [stream EXCEPT ![Pending] = "failed"] ELSE stream
  /\ UNCHANGED <<phase, steering>>

\* failContext: the turn ends with an error and every request under way is rejected, so a
\* session that was opening is stopped, a start fails and a stop is not confirmed.
failContext ==
  /\ context' = IF phase = "opening" THEN None ELSE [context EXCEPT !.closed = TRUE, !.pending = None]
  /\ stream' = IF Pending # None THEN [stream EXCEPT ![Pending] = "failed"] ELSE stream
  /\ phase' = CASE phase \in {"opening", "starting"} -> "idle" [] phase = "stopping" -> "failed" [] OTHER -> phase
  /\ steering' = IF steering = "sent" THEN "none" ELSE steering

\* "close" is emitted when the output has been read.
ProcessClosed ==
  /\ Open /\ ~child.alive /\ toClient = <<>>
  /\ failContext
  /\ UNCHANGED <<tools, known, steers, provider, turns>>

\* handleResponse: nobody waits for the reply of a request that was rejected.
handleResponse(m) ==
  \/ /\ m.kind = "open" /\ phase = "opening"
     /\ IF m.ok THEN phase' = "ready" /\ UNCHANGED <<context, child, toServer>>
        ELSE phase' = "idle" /\ context' = None /\ child' = NoChild /\ toServer' = <<>>
     /\ UNCHANGED <<known, stream, steering>>
  \/ /\ m.kind = "start" /\ phase = "starting" /\ UNCHANGED <<child, toServer, steering>>
     /\ IF m.ok THEN phase' = "registering" /\ known' = known \cup {turns} /\ UNCHANGED <<context, stream>>
        ELSE /\ phase' = "idle" /\ context' = [context EXCEPT !.pending = None]
             /\ stream' = [stream EXCEPT ![turns] = "cut"] /\ UNCHANGED known
  \/ /\ m.kind = "interrupt" /\ phase = "stopping" /\ phase' = IF m.ok THEN "idle" ELSE "failed"
     /\ UNCHANGED <<context, known, stream, steering, child, toServer>>
  \/ /\ m.kind = "steer" /\ steering = "sent" /\ steering' = "none"
     /\ UNCHANGED <<context, known, stream, child, toServer, phase>>

\* handleTurnCompleted: the notification does not say which turn the pending one must be.
handleTurnCompleted(m) ==
  IF m.kind = "plan"
  THEN /\ known' = known \ {Pending} /\ onToolRequest(Plan)
       /\ UNCHANGED <<context, stream, phase, steering>>
  ELSE /\ context' = [context EXCEPT !.pending = None]
       /\ stream' = [stream EXCEPT ![Pending] = m.kind]
       /\ UNCHANGED <<known, phase, steering, chain, slot, toServer>>

handleNotification(m) ==
  \/ /\ m.kind = "error" /\ Pending # None
     /\ failContext /\ UNCHANGED <<known, chain, slot, child, toServer>>
  \/ /\ m.kind \in {"completed", "plan", "interrupted"} /\ Pending # None
     /\ handleTurnCompleted(m) /\ UNCHANGED child

\* handleServerRequest: refused when no turn is pending.
handleServerRequest(m) ==
  /\ m.kind = "ask" /\ UNCHANGED <<context, known, stream, steering, phase, child>>
  /\ IF Pending # None THEN onToolRequest(m.n)
     ELSE UNCHANGED <<chain, slot>> /\ writeMessage(Answers(<<m.n>>))

Ignored(m) ==
  /\ CASE m.kind \in {"error", "completed", "plan", "interrupted"} -> Pending = None
       [] m.kind = "start" -> phase # "starting"
       [] m.kind = "interrupt" -> phase # "stopping"
       [] m.kind = "steer" -> steering # "sent"
       [] OTHER -> FALSE
  /\ UNCHANGED <<context, known, stream, steering, phase, chain, slot, child, toServer>>

\* attachListeners reads a line.
Read ==
  /\ context # None /\ toClient # <<>> /\ toClient' = Tail(toClient)
  /\ LET m == Head(toClient) IN
       \/ handleResponse(m) /\ UNCHANGED <<chain, slot>>
       \/ handleNotification(m) \/ handleServerRequest(m) \/ Ignored(m)
  /\ UNCHANGED <<steers, responses, asks, doubled, spawns, finished, turns>>

-----------------------------------------------------------------------------

Coordinate ==
  \/ startSession \/ startTurn \/ Register \/ StreamEnds
  \/ Esc \/ Discard \/ interrupt \/ RetryStop \/ steerTurn \/ CloseSession

Next ==
  \/ Coordinate \/ Read \/ ProcessClosed
  \/ Serve \/ Asks \/ Completes \/ Errs \/ Dies
  \/ \E c \in Clients : respondTool(c) \/ AnswerWritten(c)

Spec == Init /\ [][Next]_vars

\* Store writes and reads complete; the provider serves its requests or dies.
Fairness ==
  /\ WF_vars(startTurn) /\ WF_vars(Register) /\ WF_vars(Discard) /\ WF_vars(interrupt)
  /\ WF_vars(Read) /\ WF_vars(ProcessClosed) /\ WF_vars(Serve)

-----------------------------------------------------------------------------
(* Properties.                                                             *)

\* While the coordinator takes the chat for idle, and may start a turn in the session,
\* the provider works on no turn of it: what a stop or a result confirmed is over
\* (codex-app-server.ts:961, agent.ts:1355).
IdleMeansIdle == phase \in {"idle", "ready"} /\ Open => child.turn = None

\* A stream ends as completed, or with a plan to approve, only for the turn that the
\* provider completed: completions carry no turn that the handler compares
\* (codex-app-server.ts:1610).
OwnCompletion == \A t \in Turns : stream[t] \in {"completed", "plan"} => t \in finished

\* A turn is over for the coordinator only when it is over for the provider.
OverIsOver == IdleMeansIdle /\ OwnCompletion

\* The question that a running turn waits for is the one clients can answer, unless two
\* clients answered the one before it at the same time (agent.ts:1518, agent.ts:2533).
QuestionIsAsked == phase = "running" /\ chain # <<>> /\ ~doubled => slot = Head(chain)

\* A start, a stop and a steer come to an end, also when the process is lost under them
\* (failContext, codex-app-server.ts:1669); a steer whose session is stopped need not.
RequestsSettle ==
  /\ []<>(phase \notin {"opening", "ready", "starting", "registering", "cancelling", "stopping"})
  /\ []<>(steering # "sent")
=============================================================================
