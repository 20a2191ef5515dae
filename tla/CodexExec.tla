------------------------------ MODULE CodexExec ------------------------------
(***************************************************************************)
(* CodexExecManager (src/server/codex-exec.ts): the runs of `codex exec`,  *)
(* one process tree per turn.  Codex allows one writer per thread, and     *)
(* several chats can be on the same thread, so a start first waits until   *)
(* the run before it is released: its processes are confirmed gone.  What  *)
(* terminate() confirms is the subject of ProcessOwnership.                *)
(***************************************************************************)
EXTENDS Naturals, FiniteSets

CONSTANTS
  Chats, Threads,
  MaxRuns,         \* bound: runs spawned
  MaxDetached,     \* bound: runs whose session has ended before another one ends
  None

\* What is known of a chat's context, of a start that waits and of a run (PendingTurn).
Session == [token : Threads \cup {None}, writer : 1..MaxRuns \cup {None}]
Wait == [run : 1..MaxRuns, step : {"own", "holder"}]
Run == [chat : Chats, current : BOOLEAN, thread : Threads \cup {None}, resolved : BOOLEAN,
        stop : BOOLEAN, released : BOOLEAN, attempt : {"none", "grace", "tree", "writer"},
        alive : BOOLEAN, tools : BOOLEAN, whole : BOOLEAN]

ASSUME CodexExecAssumption ==
  /\ MaxRuns \in Nat /\ MaxDetached \in Nat
  /\ None \notin Threads \cup Nat \cup Session \cup Wait \cup Run

VARIABLES
  sessions,         \* chat -> [token, writer] of its context, or None
  waits,            \* chat -> [run, step] of its startTurn in waitForThreadRelease, or None
  runs,             \* the runs (PendingTurn), numbered as they are spawned
  writersByThread,  \* thread -> the run that claimed it last, or None
  retired,          \* chats that are not used again
  raced             \* history: a start spawned over a run that claimed the thread
                    \* while the start waited for an earlier one

vars == <<sessions, waits, runs, writersByThread, retired, raced>>

Runs == {r \in 1..MaxRuns : runs[r] # None}

Init ==
  /\ sessions = [c \in Chats |-> None] /\ waits = [c \in Chats |-> None]
  /\ runs = [r \in 1..MaxRuns |-> None] /\ writersByThread = [t \in Threads |-> None]
  /\ retired = {} /\ raced = FALSE

-----------------------------------------------------------------------------
(* Releasing a run.                                                        *)

\* "whole" is a history variable: a stop came before it was decided what is terminated.
Undecided(run) == run.attempt \in {"none", "grace"}

\* Mutant: what is terminated is decided when the attempt starts.
ReleaseWriterAtOnce(rs, r, mode) ==
  IF rs[r].released THEN rs
  ELSE [rs EXCEPT ![r].stop = @ \/ mode = "stop",
                  ![r].whole = @ \/ (mode = "stop" /\ Undecided(rs[r])),
                  ![r].attempt = IF @ # "none" THEN @ ELSE IF mode = "stop" THEN "tree" ELSE "writer"]

\* releaseWriter: one attempt for all callers; a stop during its grace is seen by it.
releaseWriter(rs, r, mode) ==
  IF rs[r].released THEN rs
  ELSE [rs EXCEPT ![r].stop = @ \/ mode = "stop",
                  ![r].whole = @ \/ (mode = "stop" /\ Undecided(rs[r])),
                  ![r].attempt = IF @ = "none" THEN "grace" ELSE @]

\* runRelease: the grace ends with the exit, with a stop or with time; then the scope is
\* decided.  Until the first signal terminate() still awaits record() and a process
\* table: a stop in between joins this attempt and does not change its scope.
runRelease(r) ==
  /\ runs[r].attempt = "grace"
  /\ runs' = [runs EXCEPT ![r].attempt = IF runs[r].stop THEN "tree" ELSE "writer"]
  /\ UNCHANGED <<sessions, waits, writersByThread, retired, raced>>

\* terminate() confirms that they are gone (what the stops were is not read again), ...
Released(r) ==
  /\ runs[r].attempt \in {"tree", "writer"}
  /\ ~runs[r].alive /\ (runs[r].attempt = "tree" => ~runs[r].tools)
  /\ runs' = [runs EXCEPT ![r].attempt = "none", ![r].released = TRUE,
                       ![r].stop = FALSE, ![r].whole = FALSE, ![r].tools = FALSE]
  /\ writersByThread' = [t \in Threads |-> IF writersByThread[t] = r /\ runs[r].thread = t THEN None
                                           ELSE writersByThread[t]]
  /\ UNCHANGED <<sessions, waits, retired, raced>>

\* ... or not: whoever waits for the attempt fails with it, and the next call tries again,
\* with all the stops there have been.
CodexStopError(r) ==
  /\ runs[r].attempt \in {"tree", "writer"}
  /\ runs' = [runs EXCEPT ![r].attempt = "none", ![r].whole = runs[r].stop]
  /\ waits' = [c \in Chats |-> IF waits[c] # None /\ waits[c].run = r THEN None ELSE waits[c]]
  /\ UNCHANGED <<sessions, writersByThread, retired, raced>>

-----------------------------------------------------------------------------
(* Sessions.  A run is current while its context is the chat's session.    *)

Pending(c) == {r \in Runs : runs[r].chat = c /\ runs[r].current /\ ~runs[r].resolved}

OwnWriter(c) ==
  LET w == sessions[c].writer IN IF w # None /\ ~runs[w].released THEN w ELSE None

Detached(c) ==
  [r \in 1..MaxRuns |-> IF r \in Runs /\ runs[r].chat = c THEN [runs[r] EXCEPT !.current = FALSE]
                        ELSE runs[r]]

Detachable == Cardinality({r \in Runs : ~runs[r].current}) < MaxDetached

\* stopSession: a pending turn is stopped, a finished one may end by itself.
StopRuns(c) ==
  IF OwnWriter(c) = None THEN Detached(c)
  ELSE releaseWriter(Detached(c), OwnWriter(c), IF OwnWriter(c) \in Pending(c) THEN "stop" ELSE "result")

\* Mutant: the run of a replaced session is forgotten.
StartSessionAnew(c) ==
  /\ c \notin retired /\ (sessions[c] # None => Detachable)
  /\ \E token \in (IF sessions[c] = None THEN Threads ELSE {sessions[c].token}) \cup {None} :
       sessions' = [sessions EXCEPT ![c] = [token |-> token, writer |-> None]]
  /\ runs' = IF sessions[c] = None THEN runs ELSE StopRuns(c)
  /\ waits' = [waits EXCEPT ![c] = None]
  /\ UNCHANGED <<writersByThread, retired, raced>>

\* startSession, when the chat has no session, its folder changed or it forks: a session
\* that fits is used again as it is.  A start that waits in a replaced session fails.
startSession(c) ==
  /\ c \notin retired /\ (sessions[c] # None => Detachable)
  /\ \E token \in (IF sessions[c] = None THEN Threads ELSE {sessions[c].token}) \cup {None} :
       sessions' = [sessions EXCEPT ![c] =
         [token |-> token, writer |-> IF sessions[c] = None THEN None ELSE OwnWriter(c)]]
  /\ runs' = IF sessions[c] = None THEN runs ELSE StopRuns(c)
  /\ waits' = [waits EXCEPT ![c] = None]
  /\ UNCHANGED <<writersByThread, retired, raced>>

\* stopSession at the end of a one-off request or of the program, and between turns
\* (stopAll for maintenance, which the coordinator allows only then).
stopSession(c) ==
  /\ sessions[c] # None /\ Detachable
  /\ runs' = StopRuns(c)
  /\ sessions' = [sessions EXCEPT ![c] = None]
  /\ waits' = [waits EXCEPT ![c] = None]
  /\ retired' = IF \A r \in Runs : runs[r].chat = c => runs[r].released THEN retired
                ELSE retired \cup {c}
  /\ UNCHANGED <<writersByThread, raced>>

-----------------------------------------------------------------------------
(* Turns.                                                                  *)

\* The run of another chat on the thread.
threadHolder(c) ==
  LET token == sessions[c].token
      holder == IF token = None THEN None ELSE writersByThread[token]
  IN IF holder # None /\ ~runs[holder].released /\ runs[holder].chat # c THEN holder ELSE None

\* Spawn the process: it is the chat's writer, and claims the thread that it resumes.
Spawn(c) ==
  \E r \in 1..MaxRuns \ Runs :
    /\ 1..(r - 1) \subseteq Runs
    /\ runs' = [runs EXCEPT ![r] =
         [chat |-> c, current |-> TRUE, thread |-> sessions[c].token, resolved |-> FALSE,
          stop |-> FALSE, released |-> FALSE, attempt |-> "none",
          alive |-> TRUE, tools |-> TRUE, whole |-> FALSE]]
    /\ writersByThread' = [t \in Threads |-> IF t = sessions[c].token THEN r ELSE writersByThread[t]]
    /\ sessions' = [sessions EXCEPT ![c].writer = r]
    /\ waits' = [waits EXCEPT ![c] = None]
    /\ raced' = (raced \/ threadHolder(c) # None)

WaitForRelease(c, r, step) ==
  /\ runs' = releaseWriter(runs, r, "result")
  /\ waits' = [waits EXCEPT ![c] = [run |-> r, step |-> step]]
  /\ UNCHANGED <<sessions, writersByThread, raced>>

\* A turn that another chat is running is an error (CodexThreadBusyError).
AfterHolder(c) ==
  IF runs[threadHolder(c)].resolved THEN WaitForRelease(c, threadHolder(c), "holder")
  ELSE waits' = [waits EXCEPT ![c] = None] /\ UNCHANGED <<runs, sessions, writersByThread, raced>>

startTurn(c) ==
  /\ sessions[c] # None /\ Pending(c) = {} /\ waits[c] = None
  /\ IF OwnWriter(c) # None THEN WaitForRelease(c, OwnWriter(c), "own")
     ELSE IF threadHolder(c) # None THEN AfterHolder(c)
     ELSE Spawn(c)
  /\ UNCHANGED retired

\* waitForThreadRelease: after the chat's own run, look once for one of another chat.
waitForThreadRelease(c) ==
  /\ waits[c] # None /\ runs[waits[c].run].released
  /\ IF waits[c].step = "own" /\ threadHolder(c) # None THEN AfterHolder(c) ELSE Spawn(c)
  /\ UNCHANGED retired

Resolved(r) == [runs EXCEPT ![r].resolved = TRUE]

\* finishTurn: the turn completes or fails, or its process ended without a result.
finishTurn(r) ==
  /\ ~runs[r].resolved /\ runs' = Resolved(r)
  /\ UNCHANGED <<sessions, waits, writersByThread, retired, raced>>

interrupt(r) ==
  /\ runs' = releaseWriter(Resolved(r), r, "stop")
  /\ UNCHANGED <<sessions, waits, writersByThread, retired, raced>>

close(r) ==
  /\ runs' = releaseWriter(Resolved(r), r, IF runs[r].resolved THEN "result" ELSE "stop")
  /\ UNCHANGED <<sessions, waits, writersByThread, retired, raced>>

\* thread.started: a resumed thread reports itself, otherwise it is a new one.
ThreadStarted(r) ==
  /\ runs[r].alive /\ runs[r].thread = None
  /\ \E t \in Threads :
       /\ \A s \in Runs : runs[s].thread # t
       /\ \A c \in Chats : sessions[c] # None => sessions[c].token # t
       /\ runs' = [runs EXCEPT ![r].thread = t]
       /\ writersByThread' = [writersByThread EXCEPT ![t] = r]
       /\ sessions' = IF runs[r].current THEN [sessions EXCEPT ![runs[r].chat].token = t] ELSE sessions
  /\ UNCHANGED <<waits, retired, raced>>

-----------------------------------------------------------------------------
(* Processes: the Codex processes and the tools end when they like; what   *)
(* becomes of the tools of a released run is not followed.                 *)

Ends(r) ==
  /\ ~runs[r].released
  /\ \/ runs[r].alive /\ runs' = [runs EXCEPT ![r].alive = FALSE]
     \/ runs[r].tools /\ runs' = [runs EXCEPT ![r].tools = FALSE]
  /\ UNCHANGED <<sessions, waits, writersByThread, retired, raced>>

-----------------------------------------------------------------------------
Next ==
  \/ \E c \in Chats : startSession(c) \/ stopSession(c) \/ startTurn(c) \/ waitForThreadRelease(c)
  \/ \E r \in Runs : finishTurn(r) \/ interrupt(r) \/ close(r) \/ ThreadStarted(r) \/ Ends(r)
  \/ \E r \in Runs : runRelease(r) \/ Released(r) \/ CodexStopError(r)

Spec == Init /\ [][Next]_vars

-----------------------------------------------------------------------------
(* Properties.                                                             *)

\* Contexts, waits and runs keep their shape, and nothing names a run that is not there.
TypeOK ==
  /\ sessions \in [Chats -> Session \cup {None}] /\ waits \in [Chats -> Wait \cup {None}]
  /\ runs \in [1..MaxRuns -> Run \cup {None}]
  /\ writersByThread \in [Threads -> Runs \cup {None}]
  /\ retired \subseteq Chats /\ raced \in BOOLEAN
  /\ \A c \in Chats : /\ sessions[c] # None => sessions[c].writer \in Runs \cup {None}
                      /\ waits[c] # None => waits[c].run \in Runs

\* Codex allows one writer per thread: no two runs' processes are on one thread, as long
\* as no two starts waited for the same run.
OneWriterPerThread ==
  raced \/ \A r, s \in Runs :
             r # s /\ runs[r].alive /\ runs[s].alive /\ runs[r].thread # None
             => runs[r].thread # runs[s].thread

\* A turn that is running is never taken down by another chat's start: its run is
\* released only after its result or by a stop of its own.
RunningIsLeftAlone ==
  \A r \in Runs : runs[r].attempt # "none" => runs[r].resolved \/ runs[r].stop

\* Both: a thread passes from one run to the next, it is neither shared nor taken.
ThreadIsHandedOver == OneWriterPerThread /\ RunningIsLeftAlone

\* A stop takes the tools down, too, although a release was already under way, if it came
\* before that release decided what to terminate, or if that release failed.
StopTakesTools ==
  [][\A r \in Runs : runs[r].whole /\ runs'[r].released => runs[r].released \/ ~runs[r].tools]_vars
=============================================================================
