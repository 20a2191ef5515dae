---------------------------- MODULE ClaudeSession ----------------------------
(***************************************************************************)
(* The Claude path of the coordinator (src/server/agent.ts) for one chat:  *)
(* one long-lived process takes the prompts of many turns, a loop          *)
(* (runClaudeSession) reads its events, and a session that does not fit    *)
(* the next turn is replaced.  When turns may start is checked in ChatRun. *)
(***************************************************************************)
EXTENDS Naturals, Sequences, FiniteSets

CONSTANTS
  MaxTurns, MaxSessions,    \* bounds: turns and processes started
  None

\* ClaudeSessionState with its process: what it was sent (a turn's prompt, or None, an
\* interrupt), works on (0 is work of its own accord, such as the end of a background task)
\* and has said, and whether a prompt had asked for it; and ActiveTurn.
Session ==
  [closed : BOOLEAN, dead : BOOLEAN, loop : {"reading", "draining", "over"},
   nextPromptSeq : Nat, pendingPromptSeqs : Seq(Nat),
   input : Seq((Nat \ {0}) \cup {None}), working : Nat \cup {None}, waiting : Seq(Nat \ {0}),
   output : Seq([kind : {"result", "interrupted"}, asked : BOOLEAN])]
ActiveTurn == [turn : Nat, session : Nat, seq : Nat \cup {None}, cancelled : BOOLEAN]

ClaudeAssumption == {MaxTurns, MaxSessions} \subseteq Nat /\ None \notin Nat \cup Session \cup ActiveTurn

VARIABLES
  sessions,        \* ClaudeSessionState by number, with its process, or None
  claudeSessions,  \* the chat's entry in the map: a session, or None
  activeTurn,      \* the chat's entry in activeTurns, or None
  launch,          \* launchTurn under way: its turn, its session, and the loop that waits for it
  stopping,        \* stopActiveTurn under way: the session of its turn, or None
  barrier,         \* a stop waits for the interrupt of this session
  turns,           \* turns begun
  queued,          \* the chat has a queued message
  outcome,         \* what was recorded of each turn
  answered,        \* history: turns whose prompt the process answered
  trespassed,      \* history: the loop of a replaced session ended a turn or an entry of its successor
  misled           \* history: what no prompt had asked for was taken for the answer to one

vars == <<sessions, claudeSessions, activeTurn, launch, stopping, barrier, turns, queued, outcome,
          answered, trespassed, misled>>

Turns == 1..MaxTurns
Started == {s \in 1..MaxSessions : sessions[s] # None}

Init ==
  /\ sessions = [s \in 1..MaxSessions |-> None] /\ claudeSessions = None
  /\ activeTurn = None /\ launch = None /\ stopping = None /\ barrier = None
  /\ turns = 0 /\ queued = FALSE /\ outcome = [t \in Turns |-> "none"]
  /\ answered = {} /\ trespassed = FALSE /\ misled = FALSE

NewSession ==
  [closed |-> FALSE, dead |-> FALSE, loop |-> "reading",
   nextPromptSeq |-> 0, pendingPromptSeqs |-> <<>>,
   input |-> <<>>, working |-> None, waiting |-> <<>>, output |-> <<>>]

Close(s) == [sessions EXCEPT ![s].closed = TRUE]

-----------------------------------------------------------------------------
(* Starting a turn.                                                        *)

\* Mutant: a session that does not fit is forgotten, not closed.
BeginLaunchKeeping(loop) ==
  /\ turns' = turns + 1
  /\ \/ /\ claudeSessions # None
        /\ launch' = [turn |-> turns + 1, session |-> claudeSessions, by |-> loop]
        /\ UNCHANGED <<sessions, claudeSessions>>
     \/ /\ claudeSessions' = None
        /\ launch' = [turn |-> turns + 1, session |-> None, by |-> loop]
        /\ UNCHANGED sessions

\* launchTurn and startClaudeTurn up to their first wait: the session is used again if the
\* folder, effort and permission mode are those it was started with and nothing is forked.
BeginLaunch(loop) ==
  /\ turns' = turns + 1
  /\ \/ /\ claudeSessions # None
        /\ launch' = [turn |-> turns + 1, session |-> claudeSessions, by |-> loop]
        /\ UNCHANGED <<sessions, claudeSessions>>
     \/ /\ sessions' = IF claudeSessions = None THEN sessions ELSE Close(claudeSessions)
        /\ claudeSessions' = None
        /\ launch' = [turn |-> turns + 1, session |-> None, by |-> loop]

\* (That a start may slip in while a stop is written is in ChatRun.)
Idle == activeTurn = None /\ launch = None /\ stopping = None /\ barrier = None

startTurnForChat ==
  /\ Idle /\ turns < MaxTurns
  /\ BeginLaunch(None)
  /\ UNCHANGED <<activeTurn, stopping, barrier, queued, outcome, answered, trespassed, misled>>

enqueue ==
  /\ ~queued /\ ~Idle /\ turns < MaxTurns /\ queued' = TRUE
  /\ UNCHANGED <<sessions, claudeSessions, activeTurn, launch, stopping, barrier, turns, outcome,
                 answered, trespassed, misled>>

\* startClaudeSession returns: the session is entered and its loop begins.
SessionStarted ==
  /\ launch # None /\ launch.session = None
  /\ \E s \in 1..MaxSessions :
       /\ s = Cardinality(Started) + 1
       /\ sessions' = [sessions EXCEPT ![s] = NewSession]
       /\ claudeSessions' = s /\ launch' = [launch EXCEPT !.session = s]
  /\ UNCHANGED <<activeTurn, stopping, barrier, turns, queued, outcome, answered, trespassed, misled>>

\* The loop that started the turn reads on.
LoopResumes(ss) == IF launch.by = None THEN ss ELSE [ss EXCEPT ![launch.by].loop = "reading"]

\* startClaudeSession, setModel or setPermissionMode fails; a queued message stays queued.
LaunchFails ==
  /\ launch # None
  /\ launch.session # None => sessions[launch.session].dead
  /\ outcome' = [outcome EXCEPT ![launch.turn] = "failed"]
  /\ sessions' = LoopResumes(sessions) /\ launch' = None /\ queued' = (queued \/ launch.by # None)
  /\ UNCHANGED <<claudeSessions, activeTurn, stopping, barrier, turns, answered, trespassed, misled>>

\* The rest of launchTurn: the turn is registered, and its prompt goes to the session that
\* the map holds now; without one the launch fails and the turn stays registered.
Register ==
  /\ launch # None /\ launch.session # None
  /\ launch' = None
  /\ IF claudeSessions = None
     THEN /\ activeTurn' = [turn |-> launch.turn, session |-> launch.session, seq |-> None, cancelled |-> FALSE]
          /\ outcome' = [outcome EXCEPT ![launch.turn] = "failed"]
          /\ sessions' = LoopResumes(sessions)
     ELSE LET seq == sessions[claudeSessions].nextPromptSeq + 1 IN
          /\ activeTurn' = [turn |-> launch.turn, session |-> launch.session, seq |-> seq, cancelled |-> FALSE]
          /\ sessions' = LoopResumes([sessions EXCEPT
               ![claudeSessions].nextPromptSeq = seq,
               ![claudeSessions].pendingPromptSeqs = Append(@, seq),
               ![claudeSessions].input = Append(@, launch.turn)])
          /\ UNCHANGED outcome
  /\ UNCHANGED <<claudeSessions, stopping, barrier, turns, queued, answered, trespassed, misled>>

-----------------------------------------------------------------------------
(* The loop.                                                               *)

\* Results and aborts come in the order of the prompts; but a process that works of its own
\* accord has results too, and the loop takes the first prompt off the list for each.
Completed(s) == IF sessions[s].pendingPromptSeqs = <<>> THEN None ELSE Head(sessions[s].pendingPromptSeqs)

\* Mutant: an aborted prompt is not taken off the list.
PromptsLeftByResults(s, kind) ==
  IF kind = "result" /\ Completed(s) # None THEN Tail(sessions[s].pendingPromptSeqs)
  ELSE sessions[s].pendingPromptSeqs

PromptsLeft(s, kind) == IF Completed(s) = None THEN <<>> ELSE Tail(sessions[s].pendingPromptSeqs)

\* A result ends the active turn if its prompt is the active one's.
ResultEnds(s, kind) == kind = "result" /\ activeTurn # None /\ activeTurn.seq = Completed(s)

\* One event; after the end of a turn the next queued message is started within the loop.
runClaudeSession(s) ==
  /\ sessions[s].loop = "reading" /\ sessions[s].output # <<>>
  /\ LET event == Head(sessions[s].output)
         rest == [sessions[s] EXCEPT !.output = Tail(@), !.pendingPromptSeqs = PromptsLeft(s, event.kind)]
         ends == ResultEnds(s, event.kind) IN
     /\ sessions' = [sessions EXCEPT ![s] = [rest EXCEPT !.loop =
          IF ends /\ ~activeTurn.cancelled THEN "draining" ELSE "reading"]]
     /\ outcome' = IF ends /\ ~activeTurn.cancelled
                   THEN [outcome EXCEPT ![activeTurn.turn] = "finished"] ELSE outcome
     /\ activeTurn' = IF ends THEN None ELSE activeTurn
     /\ trespassed' = (trespassed \/ (ends /\ activeTurn.session # s))
     /\ misled' = (misled \/ (~event.asked /\ Completed(s) # None))
  /\ UNCHANGED <<claudeSessions, launch, stopping, barrier, turns, queued, answered>>

\* maybeStartNextQueuedMessage, awaited by the loop.
Drain(s) ==
  /\ sessions[s].loop = "draining" /\ (launch # None => launch.by # s)
  /\ IF queued /\ Idle /\ turns < MaxTurns
     THEN BeginLaunch(s) /\ queued' = FALSE
     ELSE /\ sessions' = [sessions EXCEPT ![s].loop = "reading"]
          /\ UNCHANGED <<claudeSessions, launch, turns, queued>>
  /\ UNCHANGED <<activeTurn, stopping, barrier, outcome, answered, trespassed, misled>>

\* The stream ends after a close or with the process; the end clears the chat's entries,
\* whoever they belong to by now.
LoopEnds(s) ==
  /\ sessions[s].loop = "reading" /\ sessions[s].output = <<>> /\ (sessions[s].closed \/ sessions[s].dead)
  /\ sessions' = [sessions EXCEPT ![s].loop = "over", ![s].closed = TRUE]
  /\ trespassed' = (trespassed \/ claudeSessions \notin {s, None}
                     \/ (activeTurn # None /\ activeTurn.session # s))
  /\ claudeSessions' = None
  /\ outcome' = IF activeTurn # None /\ ~activeTurn.cancelled
                THEN [outcome EXCEPT ![activeTurn.turn] = "failed"] ELSE outcome
  /\ activeTurn' = None
  /\ UNCHANGED <<launch, stopping, barrier, turns, queued, answered, misled>>

-----------------------------------------------------------------------------
(* Stopping a turn and closing the session.                                *)

Esc ==
  /\ activeTurn # None /\ ~activeTurn.cancelled
  /\ activeTurn' = [activeTurn EXCEPT !.cancelled = TRUE]
  /\ stopping' = activeTurn.session
  /\ outcome' = [outcome EXCEPT ![activeTurn.turn] = "cancelled"]
  /\ UNCHANGED <<sessions, claudeSessions, launch, barrier, turns, queued, answered, trespassed, misled>>

\* stopActiveTurn's end, also of a turn that the loop ended meanwhile, and releaseClaudeRun's
\* interrupt.
stopActiveTurn ==
  /\ stopping # None
  /\ activeTurn' = None /\ stopping' = None /\ barrier' = stopping
  /\ sessions' = [sessions EXCEPT ![stopping].input = Append(@, None)]
  /\ UNCHANGED <<claudeSessions, launch, turns, queued, outcome, answered, trespassed, misled>>

\* The interrupt is answered, fails, or is given three seconds.
releaseClaudeRun ==
  /\ barrier # None /\ barrier' = None
  /\ UNCHANGED <<sessions, claudeSessions, activeTurn, launch, stopping, turns, queued, outcome,
                 answered, trespassed, misled>>

\* closeChat, restartSessions or reserveCliUpdate, in an idle chat.
closeChat ==
  /\ Idle /\ claudeSessions # None
  /\ sessions' = Close(claudeSessions) /\ claudeSessions' = None
  /\ UNCHANGED <<activeTurn, launch, stopping, barrier, turns, queued, outcome, answered,
                 trespassed, misled>>

-----------------------------------------------------------------------------
(* The process (external): prompts are worked on one after the other.      *)

Running(s) == ~sessions[s].dead /\ ~sessions[s].closed

NextPrompt(p) ==
  IF p.waiting = <<>> THEN [p EXCEPT !.working = None]
  ELSE [p EXCEPT !.working = Head(p.waiting), !.waiting = Tail(p.waiting)]

Says(p, kind) == [kind |-> kind, asked |-> p.working # 0]

ReadsInput(s) ==
  /\ Running(s) /\ sessions[s].input # <<>>
  /\ LET p == [sessions[s] EXCEPT !.input = Tail(@)]
         turn == Head(sessions[s].input) IN
     sessions' = [sessions EXCEPT ![s] =
       IF turn = None
       THEN IF p.working = None THEN p ELSE NextPrompt([p EXCEPT !.output = Append(@, Says(p, "interrupted"))])
       ELSE IF p.working = None THEN [p EXCEPT !.working = turn] ELSE [p EXCEPT !.waiting = Append(@, turn)]]
  /\ UNCHANGED <<claudeSessions, activeTurn, launch, stopping, barrier, turns, queued, outcome,
                 answered, trespassed, misled>>

Answers(s) ==
  /\ Running(s) /\ sessions[s].working # None
  /\ answered' = (answered \cup {sessions[s].working}) \ {0}
  /\ sessions' = [sessions EXCEPT ![s] =
       NextPrompt([sessions[s] EXCEPT !.output = Append(@, Says(sessions[s], "result"))])]
  /\ UNCHANGED <<claudeSessions, activeTurn, launch, stopping, barrier, turns, queued, outcome,
                 trespassed, misled>>

\* A background task of an earlier prompt ends and the process takes it up by itself: when it
\* has nothing else to do and all it said was read, and not once a loop is misled (bounds).
WorksUnasked(s) ==
  /\ Running(s) /\ ~misled /\ sessions[s].nextPromptSeq > 0
  /\ sessions[s].working = None /\ sessions[s].input = <<>> /\ sessions[s].output = <<>>
  /\ sessions' = [sessions EXCEPT ![s].working = 0]
  /\ UNCHANGED <<claudeSessions, activeTurn, launch, stopping, barrier, turns, queued, outcome, answered,
                 trespassed, misled>>

Dies(s) ==
  /\ Running(s)
  /\ sessions' = [sessions EXCEPT ![s].dead = TRUE, ![s].working = None, ![s].waiting = <<>>, ![s].input = <<>>]
  /\ UNCHANGED <<claudeSessions, activeTurn, launch, stopping, barrier, turns, queued, outcome,
                 answered, trespassed, misled>>

-----------------------------------------------------------------------------

SessionStep(s) ==
  runClaudeSession(s) \/ Drain(s) \/ LoopEnds(s) \/ ReadsInput(s) \/ Answers(s) \/ WorksUnasked(s) \/ Dies(s)

Next ==
  \/ startTurnForChat \/ enqueue \/ SessionStarted \/ LaunchFails \/ Register
  \/ Esc \/ stopActiveTurn \/ releaseClaudeRun \/ closeChat
  \/ \E s \in Started : SessionStep(s)

Spec == Init /\ [][Next]_vars

Fairness ==
  /\ WF_vars(stopActiveTurn) /\ WF_vars(Register \/ LaunchFails)
  /\ \A s \in 1..MaxSessions :
       /\ WF_vars(s \in Started /\ (runClaudeSession(s) \/ Drain(s) \/ LoopEnds(s)))
       /\ WF_vars(s \in Started /\ ReadsInput(s))

-----------------------------------------------------------------------------
(* Properties.                                                             *)

\* One process works in the chat's session at a time (agent.ts:1709), unless the end of a
\* replaced session removed its successor from the map (agent.ts:2058).
OneSession == Cardinality({s \in Started : Running(s)}) > 1 => trespassed

\* A turn whose prompt a process has, and that nobody cancelled, is the active one; unless the
\* loop took what no prompt had asked for as the answer to one (agent.ts:2012-2013): from then
\* on it may end turns ahead of their results.
WorkIsShown ==
  \A s \in Started : Running(s) =>
    LET t == sessions[s].working IN
    t \notin {None, 0} /\ outcome[t] # "cancelled" /\ ~trespassed /\ ~misled =>
      activeTurn # None /\ activeTurn.turn = t

\* No work on a prompt goes on that the chat does not show.
NoHiddenWork == OneSession /\ WorkIsShown

\* The chat does not stay busy with a turn that was answered or whose process is gone.  Two
\* such turns it does stay busy with, until Esc: one registered after the loop of its session
\* had ended (agent.ts:1639; its launch throws at 1671-1673 and nobody removes it), and one
\* of a misled loop, when the end of an aborted prompt took its place in the list.
Over(turn) == turn.turn \in answered \/ sessions[turn.session].dead
Stranded(turn) == turn.seq = None
TurnEnds == []<>~(activeTurn # None /\ Over(activeTurn) /\ ~Stranded(activeTurn) /\ ~misled)
=============================================================================
