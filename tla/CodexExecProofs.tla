--------------------------- MODULE CodexExecProofs ---------------------------
(***************************************************************************)
(* Proofs about the processes of the chats: CodexExec, for any chats,      *)
(* threads and number of runs, and, in the second half, ProcessOwnership,  *)
(* for any pids and number of processes started.                           *)
(***************************************************************************)
EXTENDS MCProcesses, TLAPS

-----------------------------------------------------------------------------
(* The inductive invariant of CodexExec.                                   *)

\* A chat that is in use has its unreleased run as the writer of its session.
WriterOf(c, r) == sessions[c] # None /\ sessions[c].writer = r

ChatsKnowTheirRun ==
  /\ \A r \in Runs : ~runs[r].released => runs[r].chat \in retired \/ WriterOf(runs[r].chat, r)
  /\ \A r \in Runs : runs[r].current => sessions[runs[r].chat] # None
  /\ \A c \in Chats : sessions[c] # None =>
       c \notin retired /\ (sessions[c].writer # None => runs[sessions[c].writer].chat = c)
  /\ \A c \in Chats : waits[c] # None =>
       /\ sessions[c] # None
       /\ IF waits[c].step = "own" THEN sessions[c].writer = waits[c].run ELSE OwnWriter(c) = None

\* What may have been done to a run so far.
Steady(run) ==
  /\ run.released => ~run.alive
  /\ run.attempt # "none" => run.resolved \/ run.stop
  /\ run.whole => run.stop /\ run.attempt # "writer"

\* ... and a run whose session was replaced is over or stopped.
Sound(run) ==
  Steady(run) /\ (~run.released /\ ~run.current => run.resolved \/ run.stop)

\* A run stays the same one, where it was, and does not come to life again.
SameRun(after, run) ==
  /\ after.chat = run.chat /\ after.thread = run.thread
  /\ after.released = run.released /\ (after.alive => run.alive) /\ (after.current => run.current)

\* A run that writes to a thread is the one that claimed it last.
Claimed(r) ==
  runs[r].alive /\ runs[r].thread # None => writersByThread[runs[r].thread] = r

IInv ==
  /\ TypeOK
  /\ ChatsKnowTheirRun
  /\ \A r \in Runs : Sound(runs[r])
  /\ raced \/ \A r \in Runs : Claimed(r)

LEMMA NoneIsNothing ==
  /\ None \notin Threads /\ None \notin 1..MaxRuns
  /\ None \notin Session /\ None \notin Wait /\ None \notin Run
BY CodexExecAssumption

\* releaseWriter leaves a run's identity alone and keeps it sound.
LEMMA ReleaseKeeps ==
  ASSUME NEW rs \in [1..MaxRuns -> Run \cup {None}], NEW r \in 1..MaxRuns, rs[r] # None,
         NEW mode \in {"stop", "result"}, NEW after, after = releaseWriter(rs, r, mode)
  PROVE  /\ after \in [1..MaxRuns -> Run \cup {None}] /\ after[r] \in Run
         /\ \A s \in 1..MaxRuns : s # r => after[s] = rs[s]
         /\ SameRun(after[r], rs[r])
         /\ Steady(rs[r]) /\ (mode = "stop" \/ rs[r].resolved \/ rs[r].stop) => Sound(after[r])
<1>1. CASE rs[r].released
  BY <1>1 DEF releaseWriter, SameRun, Sound
<1>2. CASE ~rs[r].released
  <2> DEFINE run == [rs[r] EXCEPT !.stop = @ \/ mode = "stop",
                                  !.whole = @ \/ (mode = "stop" /\ Undecided(rs[r])),
                                  !.attempt = IF @ = "none" THEN "grace" ELSE @]
  <2>1. after = [rs EXCEPT ![r] = run]
    BY <1>2 DEF releaseWriter
  <2>2. run \in Run /\ run.current = rs[r].current /\ run.released = rs[r].released /\ run.alive = rs[r].alive
        /\ SameRun(run, rs[r])
    BY DEF Run, SameRun
  <2>3. /\ run.resolved = rs[r].resolved
        /\ run.stop = (rs[r].stop \/ mode = "stop")
        /\ run.whole = (rs[r].whole \/ (mode = "stop" /\ Undecided(rs[r])))
        /\ run.attempt = IF rs[r].attempt = "none" THEN "grace" ELSE rs[r].attempt
    BY DEF Run
  <2>4. Steady(rs[r]) /\ (mode = "stop" \/ rs[r].resolved \/ rs[r].stop) => Sound(run)
    BY <2>2, <2>3 DEF Sound, Steady, Undecided, Run
  <2> HIDE DEF run
  <2> QED BY <2>1, <2>2, <2>4
<1> QED BY <1>1, <1>2

-----------------------------------------------------------------------------
(* Steps that leave who is on which thread alone.                          *)

\* No run is added, moved or released, and what is done to the runs is sound.
Gentle ==
  /\ runs' \in [1..MaxRuns -> Run \cup {None}]
  /\ \A r \in 1..MaxRuns \ Runs : runs'[r] = None
  /\ \A r \in Runs : /\ runs'[r] \in Run /\ Sound(runs'[r])
                     /\ SameRun(runs'[r], runs[r])

\* Chats stop waiting, or start to wait for a run that the invariant allows.
WaitsFit ==
  /\ waits' \in [Chats -> Wait \cup {None}]
  /\ \A c \in Chats : \/ waits'[c] = None \/ waits'[c] = waits[c]
                       \/ /\ sessions[c] # None /\ waits'[c].run \in Runs
                          /\ IF waits'[c].step = "own" THEN sessions[c].writer = waits'[c].run
                             ELSE OwnWriter(c) = None

LEMMA SameRuns == ASSUME IInv, Gentle PROVE Runs' = Runs
BY NoneIsNothing DEF Gentle, Runs

LEMMA OwnWriterStays ==
  ASSUME IInv, Gentle, NEW c \in Chats, sessions[c] # None, sessions'[c] = sessions[c]
  PROVE  OwnWriter(c)' = OwnWriter(c)
<1>1. sessions[c].writer # None => sessions[c].writer \in Runs
  BY DEF IInv, TypeOK
<1> QED BY <1>1 DEF OwnWriter, Gentle, SameRun

LEMMA GentleStep ==
  ASSUME IInv, Gentle, WaitsFit, UNCHANGED <<sessions, writersByThread, retired, raced>>
  PROVE  IInv'
<1>1. Runs' = Runs
  BY SameRuns
<1>2. TypeOK'
  BY <1>1 DEF IInv, TypeOK, Gentle, WaitsFit
<1>3. ChatsKnowTheirRun'
  <2>1. \A r \in Runs' : ~runs'[r].released =>
            (runs[r].chat \in retired \/ WriterOf(runs[r].chat, r))'
    BY <1>1 DEF IInv, ChatsKnowTheirRun, Gentle, WriterOf, SameRun
  <2>2. \A c \in Chats : sessions'[c] # None =>
          c \notin retired' /\ (sessions'[c].writer # None => runs'[sessions'[c].writer].chat = c)
    BY <1>1 DEF IInv, TypeOK, ChatsKnowTheirRun, Gentle, SameRun
  <2>3. ASSUME NEW c \in Chats, waits'[c] # None
        PROVE  /\ sessions'[c] # None
               /\ IF waits'[c].step = "own" THEN sessions'[c].writer = waits'[c].run
                  ELSE OwnWriter(c)' = None
    <3>1. sessions[c] # None
      BY <2>3 DEF IInv, ChatsKnowTheirRun, WaitsFit
    <3>2. OwnWriter(c)' = OwnWriter(c)
      BY <3>1, OwnWriterStays
    <3> QED BY <2>3, <3>1, <3>2 DEF IInv, ChatsKnowTheirRun, WaitsFit
  <2>4. \A r \in Runs' : runs'[r].current => (sessions[runs[r].chat] # None)'
    BY <1>1 DEF IInv, ChatsKnowTheirRun, Gentle, SameRun
  <2> QED BY <2>1, <2>2, <2>3, <2>4 DEF ChatsKnowTheirRun
<1>4. \A r \in Runs' : Sound(runs'[r])
  BY <1>1 DEF Gentle
<1>5. raced' \/ \A r \in Runs' : Claimed(r)'
  BY <1>1 DEF IInv, Claimed, Gentle, SameRun
<1> QED BY <1>2, <1>3, <1>4, <1>5 DEF IInv

LEMMA WaitsStay == ASSUME IInv, waits' = waits PROVE WaitsFit
BY DEF IInv, TypeOK, WaitsFit

\* A step that changes one run gently.
LEMMA OneRunGentle ==
  ASSUME IInv, NEW r \in Runs, NEW after \in Run,
         runs' \in [1..MaxRuns -> Run \cup {None}], runs'[r] = after,
         \A s \in 1..MaxRuns : s # r => runs'[s] = runs[s],
         Sound(after), SameRun(after, runs[r])
  PROVE  Gentle
BY DEF IInv, TypeOK, Gentle, Runs, SameRun

LEMMA RunIsRun == ASSUME TypeOK, NEW r \in Runs PROVE r \in 1..MaxRuns /\ runs[r] \in Run /\ runs[r] # None
BY DEF TypeOK, Runs

-----------------------------------------------------------------------------
(* The steps.                                                              *)

LEMMA ReleaseStepGentle ==
  ASSUME IInv, NEW r \in Runs, NEW mode \in {"stop", "result"}, NEW rs,
         rs = runs \/ rs = Resolved(r), runs' = releaseWriter(rs, r, mode),
         mode = "stop" \/ rs[r].resolved \/ rs[r].stop
  PROVE  Gentle
<1>1. /\ r \in 1..MaxRuns /\ runs[r] \in Run /\ runs[r] # None /\ Sound(runs[r])
      /\ runs \in [1..MaxRuns -> Run \cup {None}]
  BY RunIsRun DEF IInv, TypeOK
<1>2. /\ rs \in [1..MaxRuns -> Run \cup {None}] /\ rs[r] \in Run /\ rs[r] # None
      /\ \A s \in 1..MaxRuns : s # r => rs[s] = runs[s]
      /\ SameRun(rs[r], runs[r]) /\ Sound(rs[r])
  <2>1. CASE rs = runs
    BY <1>1, <2>1 DEF SameRun
  <2>2. CASE rs = Resolved(r)
    BY <1>1, <2>2, NoneIsNothing DEF Resolved, Run, Sound, Steady, SameRun
  <2> QED BY <2>1, <2>2
<1>3. /\ runs' \in [1..MaxRuns -> Run \cup {None}] /\ runs'[r] \in Run
      /\ \A s \in 1..MaxRuns : s # r => runs'[s] = rs[s]
      /\ SameRun(runs'[r], rs[r]) /\ Sound(runs'[r])
  <2>1. /\ r \in 1..MaxRuns /\ rs \in [1..MaxRuns -> Run \cup {None}] /\ rs[r] # None
        /\ mode \in {"stop", "result"} /\ runs' = releaseWriter(rs, r, mode)
    BY <1>1, <1>2
  <2>2. Steady(rs[r]) /\ (mode = "stop" \/ rs[r].resolved \/ rs[r].stop)
    BY <1>2 DEF Sound
  <2>3. runs' \in [1..MaxRuns -> Run \cup {None}] /\ runs'[r] \in Run
    BY ONLY <2>1, ReleaseKeeps
  <2>4. \A s \in 1..MaxRuns : s # r => runs'[s] = rs[s]
    BY ONLY <2>1, ReleaseKeeps, CodexExecAssumption
  <2>5. SameRun(runs'[r], rs[r])
    BY ONLY <2>1, ReleaseKeeps
  <2>6. Sound(runs'[r])
    BY ONLY <2>1, <2>2, ReleaseKeeps
  <2> QED BY ONLY <2>3, <2>4, <2>5, <2>6
<1>4. SameRun(runs'[r], runs[r])
  BY <1>2, <1>3 DEF SameRun
<1> QED BY <1>1, <1>2, <1>3, <1>4, OneRunGentle

LEMMA RunStep ==
  ASSUME IInv, NEW r \in Runs, runRelease(r) \/ finishTurn(r) \/ interrupt(r) \/ close(r) \/ Ends(r)
  PROVE  IInv'
<1>1. /\ r \in 1..MaxRuns /\ runs[r] \in Run /\ runs[r] # None /\ Sound(runs[r])
      /\ runs \in [1..MaxRuns -> Run \cup {None}]
  BY RunIsRun DEF IInv, TypeOK
<1>2. WaitsFit /\ UNCHANGED <<sessions, writersByThread, retired, raced>>
  BY WaitsStay DEF runRelease, finishTurn, interrupt, close, Ends
<1>3. Resolved(r)[r].resolved
  BY <1>1 DEF Resolved, Run
<1>4. CASE runRelease(r)
  <2>1. /\ runs' \in [1..MaxRuns -> Run \cup {None}] /\ runs'[r] \in Run
        /\ \A s \in 1..MaxRuns : s # r => runs'[s] = runs[s]
        /\ SameRun(runs'[r], runs[r])
        /\ Sound(runs'[r])
    BY <1>1, <1>4 DEF runRelease, Run, Sound, Steady, SameRun
  <2> QED BY <1>2, <2>1, OneRunGentle, GentleStep
<1>5. CASE finishTurn(r)
  <2>1. /\ runs' \in [1..MaxRuns -> Run \cup {None}] /\ runs'[r] \in Run
        /\ \A s \in 1..MaxRuns : s # r => runs'[s] = runs[s]
        /\ SameRun(runs'[r], runs[r])
        /\ Sound(runs'[r])
    BY <1>1, <1>5 DEF finishTurn, Resolved, Run, Sound, Steady, SameRun
  <2> QED BY <1>2, <2>1, OneRunGentle, GentleStep
<1>6. CASE interrupt(r)
  BY <1>2, <1>3, <1>6, ReleaseStepGentle, GentleStep DEF interrupt
<1>7. CASE close(r)
  BY <1>2, <1>3, <1>7, ReleaseStepGentle, GentleStep DEF close
<1>8. CASE Ends(r)
  <2>1. /\ runs' \in [1..MaxRuns -> Run \cup {None}] /\ runs'[r] \in Run
        /\ \A s \in 1..MaxRuns : s # r => runs'[s] = runs[s]
        /\ SameRun(runs'[r], runs[r])
        /\ Sound(runs'[r])
    <3>1. CASE runs' = [runs EXCEPT ![r].alive = FALSE]
      BY <1>1, <3>1 DEF Run, Sound, Steady, SameRun
    <3>2. CASE runs' = [runs EXCEPT ![r].tools = FALSE]
      BY <1>1, <3>2 DEF Run, Sound, Steady, SameRun
    <3> QED BY <1>8, <3>1, <3>2 DEF Ends
  <2> QED BY <1>2, <2>1, OneRunGentle, GentleStep
<1> QED BY <1>4, <1>5, <1>6, <1>7, <1>8

LEMMA CodexStopErrorStep ==
  ASSUME IInv, NEW r \in Runs, CodexStopError(r)
  PROVE  IInv'
<1>1. /\ r \in 1..MaxRuns /\ runs[r] \in Run /\ runs[r] # None /\ Sound(runs[r])
      /\ runs \in [1..MaxRuns -> Run \cup {None}]
  BY RunIsRun DEF IInv, TypeOK
<1>2. WaitsFit
  BY DEF IInv, TypeOK, CodexStopError, WaitsFit
<1>3. /\ runs' \in [1..MaxRuns -> Run \cup {None}] /\ runs'[r] \in Run
      /\ \A s \in 1..MaxRuns : s # r => runs'[s] = runs[s]
      /\ SameRun(runs'[r], runs[r])
      /\ Sound(runs'[r])
  BY <1>1 DEF CodexStopError, Run, Sound, Steady, SameRun
<1> QED BY <1>2, <1>3, OneRunGentle, GentleStep DEF CodexStopError

LEMMA ReleasedStep ==
  ASSUME IInv, NEW r \in Runs, Released(r)
  PROVE  IInv'
<1>1. /\ r \in 1..MaxRuns /\ runs[r] \in Run /\ runs[r] # None /\ Sound(runs[r])
      /\ runs \in [1..MaxRuns -> Run \cup {None}]
  BY RunIsRun DEF IInv, TypeOK
<1>2. /\ runs' \in [1..MaxRuns -> Run \cup {None}] /\ runs'[r] \in Run /\ Sound(runs'[r])
      /\ \A s \in 1..MaxRuns : s # r => runs'[s] = runs[s]
      /\ runs'[r].chat = runs[r].chat /\ runs'[r].released /\ ~runs'[r].alive
      /\ runs'[r].current = runs[r].current
  BY <1>1 DEF Released, Run, Sound, Steady
<1>3. Runs' = Runs
  BY <1>1, <1>2, NoneIsNothing DEF Runs
<1>4. TypeOK'
  BY <1>2, <1>3 DEF IInv, TypeOK, Released
<1>5. ChatsKnowTheirRun'
  <2>1. \A s \in Runs' : ~runs'[s].released =>
            (runs[s].chat \in retired \/ WriterOf(runs[s].chat, s))'
    BY <1>2, <1>3, RunIsRun DEF IInv, ChatsKnowTheirRun, WriterOf, Released
  <2>2. \A c \in Chats : sessions'[c] # None =>
          c \notin retired' /\ (sessions'[c].writer # None => runs'[sessions'[c].writer].chat = c)
    BY <1>2, <1>3, RunIsRun DEF IInv, TypeOK, ChatsKnowTheirRun, Released
  <2>3. ASSUME NEW c \in Chats, sessions[c] # None, OwnWriter(c) = None
        PROVE  OwnWriter(c)' = None
    BY <1>2, <2>3, RunIsRun DEF OwnWriter, IInv, TypeOK, Released
  <2>4. \A c \in Chats : waits'[c] # None =>
          /\ sessions'[c] # None
          /\ IF waits'[c].step = "own" THEN sessions'[c].writer = waits'[c].run
             ELSE OwnWriter(c)' = None
    BY <2>3 DEF IInv, ChatsKnowTheirRun, Released
  <2>5. \A s \in Runs' : runs'[s].current => (sessions[runs[s].chat] # None)'
    BY <1>2, <1>3, RunIsRun DEF IInv, ChatsKnowTheirRun, Released
  <2> QED BY <2>1, <2>2, <2>4, <2>5 DEF ChatsKnowTheirRun
<1>6. \A s \in Runs' : Sound(runs'[s])
  BY <1>2, <1>3, RunIsRun DEF IInv
<1>7. raced' \/ \A s \in Runs' : Claimed(s)'
  <2>1. ASSUME NEW s \in Runs, Claimed(s)
        PROVE  Claimed(s)'
    <3>1. CASE s = r
      BY <1>2, <3>1 DEF Claimed
    <3>2. CASE s # r
      BY <1>2, <2>1, <3>2, RunIsRun DEF Claimed, Released, Run, IInv
    <3> QED BY <3>1, <3>2
  <2> QED BY <1>3, <2>1 DEF IInv, Released
<1> QED BY <1>4, <1>5, <1>6, <1>7 DEF IInv

\* A session that is stopped or replaced: its run is released, stopped when it is pending.
LEMMA StopRunsGentle ==
  ASSUME IInv, NEW c \in Chats, sessions[c] # None, runs' = StopRuns(c)
  PROVE  Gentle /\ \A r \in Runs : runs[r].chat = c => ~runs'[r].current
<1> DEFINE ds == Detached(c)
           w == OwnWriter(c)
<1>1. /\ ds \in [1..MaxRuns -> Run \cup {None}]
      /\ \A r \in 1..MaxRuns \ Runs : ds[r] = None
      /\ \A r \in Runs : ds[r] \in Run /\ SameRun(ds[r], runs[r]) /\ (runs[r].chat = c => ~ds[r].current)
  <2>1. \A r \in Runs : [runs[r] EXCEPT !.current = FALSE] \in Run
    BY RunIsRun DEF IInv, Run
  <2> QED BY <2>1, RunIsRun, NoneIsNothing DEF Detached, SameRun, IInv, TypeOK, Runs, Run
<1>2. \A r \in Runs : r # w => Sound(ds[r])
  <2> SUFFICES ASSUME NEW r \in Runs, r # w PROVE Sound(ds[r])
    OBVIOUS
  <2>1. runs[r] \in Run /\ Sound(runs[r]) /\ r \in 1..MaxRuns
    BY RunIsRun DEF IInv
  <2>2. CASE runs[r].chat # c
    BY <2>1, <2>2 DEF Detached
  <2>3. CASE runs[r].chat = c
    <3>1. runs[r].released
      BY <2>3, NoneIsNothing DEF IInv, ChatsKnowTheirRun, WriterOf, OwnWriter
    <3>2. ds[r] = [runs[r] EXCEPT !.current = FALSE]
      BY <2>1, <2>3 DEF Detached
    <3> QED BY <2>1, <3>1, <3>2 DEF Sound, Steady, Run
  <2> QED BY <2>2, <2>3
<1>3. CASE w = None
  <2>1. None \notin Runs
    BY NoneIsNothing DEF Runs
  <2>2. runs' = ds
    BY <1>3 DEF StopRuns
  <2> QED BY <1>1, <1>2, <1>3, <2>1, <2>2 DEF Gentle
<1>4. CASE w # None
  <2> DEFINE mode == IF w \in Pending(c) THEN "stop" ELSE "result"
  <2>1. w \in Runs /\ ~runs[w].released /\ runs[w].chat = c /\ Sound(runs[w]) /\ runs[w] \in Run
    BY <1>4, RunIsRun DEF OwnWriter, IInv, TypeOK, ChatsKnowTheirRun
  <2>2. runs' = releaseWriter(ds, w, mode) /\ mode \in {"stop", "result"} /\ w \in 1..MaxRuns
    BY <1>4, <2>1 DEF StopRuns, Runs
  <2>3. ds[w] = [runs[w] EXCEPT !.current = FALSE] /\ ds[w] # None
    BY <1>1, <2>1, <2>2, NoneIsNothing DEF Detached
  <2>4. Steady(ds[w]) /\ (mode = "stop" \/ ds[w].resolved \/ ds[w].stop)
    <3>1. mode = "stop" \/ runs[w].resolved \/ runs[w].stop
      BY <2>1 DEF Pending, Sound
    <3> QED BY <2>1, <2>3, <3>1 DEF Sound, Steady, Run
  <2> HIDE DEF ds, w, mode
  <2>5. runs' \in [1..MaxRuns -> Run \cup {None}] /\ runs'[w] \in Run /\ Sound(runs'[w])
    BY ONLY <1>1, <2>2, <2>3, <2>4, ReleaseKeeps, CodexExecAssumption
  <2>6. \A s \in 1..MaxRuns : s # w => runs'[s] = ds[s]
    BY ONLY <1>1, <2>2, <2>3, ReleaseKeeps, CodexExecAssumption
  <2>7. SameRun(runs'[w], ds[w])
    BY ONLY <1>1, <2>2, <2>3, ReleaseKeeps, CodexExecAssumption
  <2> QED BY <1>1, <1>2, <2>1, <2>2, <2>5, <2>6, <2>7 DEF Gentle, SameRun, Runs
<1> QED BY <1>3, <1>4

-----------------------------------------------------------------------------
(* Sessions.                                                               *)

LEMMA SameRunsAreGentle == ASSUME IInv, runs' = runs PROVE Gentle
BY RunIsRun DEF IInv, TypeOK, Gentle, SameRun, Runs

\* The session of c becomes "ctx", or ends; c's run is not forgotten by it.
LEMMA SessionStep ==
  ASSUME IInv, Gentle, NEW c \in Chats, NEW ctx,
         sessions' = [sessions EXCEPT ![c] = ctx], waits' = [waits EXCEPT ![c] = None],
         UNCHANGED <<writersByThread, raced>>,
         \/ /\ ctx = None /\ retired' \in {retired, retired \cup {c}}
            /\ \A r \in Runs : runs[r].chat = c => ~runs'[r].current
            /\ \A r \in Runs : runs[r].chat = c /\ ~runs[r].released => c \in retired'
         \/ /\ ctx \in Session /\ retired' = retired /\ c \notin retired
            /\ ctx.writer \in Runs \cup {None}
            /\ ctx.writer # None => runs[ctx.writer].chat = c
            /\ \A r \in Runs : runs[r].chat = c /\ ~runs[r].released => ctx.writer = r
  PROVE  IInv'
<1>1. Runs' = Runs
  BY SameRuns
<1>2. /\ sessions'[c] = ctx /\ \A d \in Chats : d # c => sessions'[d] = sessions[d]
      /\ waits'[c] = None /\ \A d \in Chats : d # c => waits'[d] = waits[d]
      /\ ctx \in Session => ctx # None
  BY NoneIsNothing DEF IInv, TypeOK
<1>3. TypeOK'
  BY <1>1, <1>2 DEF IInv, TypeOK, Gentle
<1>4. ChatsKnowTheirRun'
  <2>1. \A r \in Runs' : ~runs'[r].released =>
            (runs[r].chat \in retired \/ WriterOf(runs[r].chat, r))'
    <3> SUFFICES ASSUME NEW r \in Runs, ~runs[r].released
                 PROVE  runs[r].chat \in retired'
                        \/ (sessions'[runs[r].chat] # None /\ sessions'[runs[r].chat].writer = r)
      BY <1>1 DEF Gentle, SameRun, WriterOf
    <3>1. runs[r].chat \in Chats
      BY RunIsRun DEF IInv, Run
    <3>2. CASE runs[r].chat = c
      BY <1>2, <3>2
    <3>3. CASE runs[r].chat # c
      BY <1>2, <3>1, <3>3 DEF IInv, ChatsKnowTheirRun, WriterOf
    <3> QED BY <3>2, <3>3
  <2>2. \A r \in Runs' : runs'[r].current => (sessions[runs[r].chat] # None)'
    <3> SUFFICES ASSUME NEW r \in Runs, runs'[r].current
                 PROVE  sessions'[runs[r].chat] # None
      BY <1>1 DEF Gentle, SameRun
    <3>1. runs[r].chat \in Chats /\ runs[r].current
      BY RunIsRun DEF IInv, Run, Gentle, SameRun
    <3> QED BY <1>2, <3>1 DEF IInv, ChatsKnowTheirRun
  <2>3. \A d \in Chats : sessions'[d] # None =>
          d \notin retired' /\ (sessions'[d].writer # None => runs'[sessions'[d].writer].chat = d)
    <3> SUFFICES ASSUME NEW d \in Chats, sessions'[d] # None
                 PROVE  d \notin retired' /\ (sessions'[d].writer # None => runs'[sessions'[d].writer].chat = d)
      OBVIOUS
    <3>1. CASE d = c
      BY <1>2, <3>1 DEF Gentle, SameRun
    <3>2. CASE d # c
      BY <1>2, <3>2 DEF IInv, TypeOK, ChatsKnowTheirRun, Gentle, SameRun
    <3> QED BY <3>1, <3>2
  <2>4. ASSUME NEW d \in Chats, waits'[d] # None
        PROVE  /\ sessions'[d] # None
               /\ IF waits'[d].step = "own" THEN sessions'[d].writer = waits'[d].run
                  ELSE OwnWriter(d)' = None
    <3>1. d # c /\ sessions'[d] = sessions[d] /\ waits'[d] = waits[d] /\ sessions[d] # None
      BY <1>2, <2>4 DEF IInv, ChatsKnowTheirRun
    <3>2. OwnWriter(d)' = OwnWriter(d)
      BY <3>1, OwnWriterStays
    <3> QED BY <2>4, <3>1, <3>2 DEF IInv, ChatsKnowTheirRun
  <2> QED BY <2>1, <2>2, <2>3, <2>4 DEF ChatsKnowTheirRun
<1>5. \A r \in Runs' : Sound(runs'[r])
  BY <1>1 DEF Gentle
<1>6. raced' \/ \A r \in Runs' : Claimed(r)'
  BY <1>1 DEF IInv, Claimed, Gentle, SameRun
<1> QED BY <1>3, <1>4, <1>5, <1>6 DEF IInv

LEMMA StartSessionStep == ASSUME IInv, NEW c \in Chats, startSession(c) PROVE IInv'
<1> DEFINE w == IF sessions[c] = None THEN None ELSE OwnWriter(c)
<1>1. PICK token \in (IF sessions[c] = None THEN Threads ELSE {sessions[c].token}) \cup {None} :
        sessions' = [sessions EXCEPT ![c] = [token |-> token, writer |-> w]]
  BY DEF startSession
<1>2. Gentle
  BY SameRunsAreGentle, StopRunsGentle DEF startSession
<1>3. w \in Runs \cup {None} /\ (w # None => runs[w].chat = c)
  BY DEF IInv, TypeOK, ChatsKnowTheirRun, OwnWriter
<1>4. token \in Threads \cup {None}
  BY <1>1 DEF IInv, TypeOK, Session
<1>5. [token |-> token, writer |-> w] \in Session
  BY <1>3, <1>4 DEF Session, Runs
<1>6. \A r \in Runs : runs[r].chat = c /\ ~runs[r].released => w = r
  BY DEF startSession, IInv, ChatsKnowTheirRun, WriterOf, OwnWriter
<1>7. /\ waits' = [waits EXCEPT ![c] = None] /\ UNCHANGED <<writersByThread, raced>>
      /\ retired' = retired /\ c \notin retired
  BY DEF startSession
<1> HIDE DEF w
<1> QED BY <1>1, <1>2, <1>3, <1>5, <1>6, <1>7, SessionStep

LEMMA StopSessionStep == ASSUME IInv, NEW c \in Chats, stopSession(c) PROVE IInv'
<1>1. /\ sessions[c] # None /\ runs' = StopRuns(c) /\ sessions' = [sessions EXCEPT ![c] = None]
      /\ waits' = [waits EXCEPT ![c] = None] /\ UNCHANGED <<writersByThread, raced>>
      /\ retired' \in {retired, retired \cup {c}}
  BY DEF stopSession
<1>2. Gentle /\ \A r \in Runs : runs[r].chat = c => ~runs'[r].current
  BY <1>1, StopRunsGentle
<1>3. \A r \in Runs : runs[r].chat = c /\ ~runs[r].released => c \in retired'
  BY DEF stopSession
<1> QED BY <1>1, <1>2, <1>3, SessionStep

-----------------------------------------------------------------------------
(* Turns.                                                                  *)

\* A chat whose own run is released has no other that is not.
LEMMA OwnIsOnly ==
  ASSUME IInv, NEW c \in Chats, sessions[c] # None, OwnWriter(c) = None, NEW r \in Runs, runs[r].chat = c
  PROVE  runs[r].released
BY NoneIsNothing DEF IInv, ChatsKnowTheirRun, WriterOf, OwnWriter, Runs

\* The new run takes the thread over: nobody else claimed it, or it is remembered that
\* somebody did.
LEMMA SpawnStep ==
  ASSUME IInv, NEW c \in Chats, sessions[c] # None, OwnWriter(c) = None, Spawn(c), retired' = retired
  PROVE  IInv'
<1> DEFINE new == [chat |-> c, current |-> TRUE, thread |-> sessions[c].token, resolved |-> FALSE,
                   stop |-> FALSE, released |-> FALSE, attempt |-> "none",
                   alive |-> TRUE, tools |-> TRUE, whole |-> FALSE]
<1>1. PICK r \in 1..MaxRuns \ Runs : runs' = [runs EXCEPT ![r] = new]
                                    /\ sessions' = [sessions EXCEPT ![c].writer = r]
                                    /\ writersByThread' = [t \in Threads |->
                                          IF t = sessions[c].token THEN r ELSE writersByThread[t]]
  BY DEF Spawn
<1>2. sessions[c] \in Session /\ c \notin retired
  BY DEF IInv, TypeOK, ChatsKnowTheirRun
<1>3. new \in Run /\ new # None /\ new.chat = c /\ new.thread = sessions[c].token /\ Sound(new)
  <2>1. new \in Run
    BY <1>2 DEF Session, Run
  <2>2. Sound(new)
    BY DEF Sound, Steady
  <2> QED BY <2>1, <2>2, NoneIsNothing
<1>4. new.released = FALSE /\ new.current = TRUE
  OBVIOUS
<1> HIDE DEF new
<1>5. /\ runs' \in [1..MaxRuns -> Run \cup {None}] /\ runs'[r] = new
      /\ \A s \in 1..MaxRuns : s # r => runs'[s] = runs[s]
  BY <1>1, <1>3 DEF IInv, TypeOK
<1>6. Runs' = Runs \cup {r} /\ r \notin Runs /\ r \in 1..MaxRuns /\ \A s \in Runs : runs'[s] = runs[s]
  BY <1>1, <1>3, <1>5 DEF Runs
<1>7. /\ sessions' \in [Chats -> Session \cup {None}]
      /\ sessions'[c] # None /\ sessions'[c].writer = r /\ \A d \in Chats : d # c => sessions'[d] = sessions[d]
  <2>1. [sessions[c] EXCEPT !.writer = r] \in Session /\ [sessions[c] EXCEPT !.writer = r].writer = r
    BY <1>2, <1>6 DEF Session
  <2> QED BY <1>1, <2>1, NoneIsNothing DEF IInv, TypeOK
<1>8. waits' = [waits EXCEPT ![c] = None]
  BY DEF Spawn
<1>9. TypeOK'
  <2>1. writersByThread' \in [Threads -> Runs' \cup {None}]
    BY <1>1, <1>6 DEF IInv, TypeOK
  <2>2. raced' \in BOOLEAN
    BY DEF Spawn, IInv, TypeOK
  <2> QED BY <1>5, <1>6, <1>7, <1>8, <2>1, <2>2 DEF IInv, TypeOK
<1>10. ChatsKnowTheirRun'
  <2>1. \A s \in Runs' : ~runs'[s].released =>
            (runs[s].chat \in retired \/ WriterOf(runs[s].chat, s))'
    <3> SUFFICES ASSUME NEW s \in Runs', ~runs'[s].released
                 PROVE  runs'[s].chat \in retired'
                        \/ (sessions'[runs'[s].chat] # None /\ sessions'[runs'[s].chat].writer = s)
      BY DEF WriterOf
    <3>1. CASE s = r
      BY <1>3, <1>5, <1>7, <3>1
    <3>2. CASE s # r
      <4>1. s \in Runs /\ runs'[s] = runs[s] /\ runs[s].chat \in Chats
        BY <1>6, <3>2, RunIsRun DEF IInv, Run
      <4>2. runs[s].chat # c
        BY <4>1, OwnIsOnly
      <4> QED BY <1>7, <4>1, <4>2 DEF IInv, ChatsKnowTheirRun, WriterOf
    <3> QED BY <3>1, <3>2
  <2>2. \A s \in Runs' : runs'[s].current => (sessions[runs[s].chat] # None)'
    <3> SUFFICES ASSUME NEW s \in Runs', runs'[s].current PROVE sessions'[runs'[s].chat] # None
      OBVIOUS
    <3>1. CASE s = r
      BY <1>3, <1>5, <1>7, <3>1
    <3>2. CASE s # r
      BY <1>6, <1>7, <3>2, RunIsRun DEF IInv, ChatsKnowTheirRun, Run
    <3> QED BY <3>1, <3>2
  <2>3. \A d \in Chats : sessions'[d] # None =>
          d \notin retired' /\ (sessions'[d].writer # None => runs'[sessions'[d].writer].chat = d)
    <3> SUFFICES ASSUME NEW d \in Chats, sessions'[d] # None
                 PROVE  d \notin retired' /\ (sessions'[d].writer # None => runs'[sessions'[d].writer].chat = d)
      OBVIOUS
    <3>1. CASE d = c
      BY <1>2, <1>3, <1>5, <1>7, <3>1
    <3>2. CASE d # c
      BY <1>6, <1>7, <3>2 DEF IInv, TypeOK, ChatsKnowTheirRun
    <3> QED BY <3>1, <3>2
  <2>4. ASSUME NEW d \in Chats, waits'[d] # None
        PROVE  /\ sessions'[d] # None
               /\ IF waits'[d].step = "own" THEN sessions'[d].writer = waits'[d].run
                  ELSE OwnWriter(d)' = None
    <3>1. d # c /\ sessions'[d] = sessions[d] /\ waits'[d] = waits[d] /\ sessions[d] # None
      BY <1>7, <1>8, <2>4 DEF IInv, TypeOK, ChatsKnowTheirRun
    <3>2. OwnWriter(d)' = OwnWriter(d)
      BY <1>6, <3>1 DEF OwnWriter, IInv, TypeOK
    <3> QED BY <2>4, <3>1, <3>2 DEF IInv, ChatsKnowTheirRun
  <2> QED BY <2>1, <2>2, <2>3, <2>4 DEF ChatsKnowTheirRun
<1>11. \A s \in Runs' : Sound(runs'[s])
  BY <1>3, <1>5, <1>6 DEF IInv
<1>12. raced' \/ \A s \in Runs' : Claimed(s)'
  <2> SUFFICES ASSUME ~raced, threadHolder(c) = None, NEW s \in Runs', runs'[s].alive, runs'[s].thread # None
               PROVE  writersByThread'[runs'[s].thread] = s
    BY DEF Spawn, Claimed
  <2>1. CASE s = r
    BY <1>1, <1>2, <1>3, <1>5, <2>1 DEF Session
  <2>2. CASE s # r
    <3>1. s \in Runs /\ runs'[s] = runs[s] /\ runs[s].thread \in Threads /\ writersByThread[runs[s].thread] = s
          /\ ~runs[s].released
      BY <1>6, <2>2, RunIsRun DEF IInv, Run, Claimed, Sound, Steady
    <3>2. runs[s].chat # c
      BY <3>1, OwnIsOnly
    <3>3. s # None
      BY <3>1, NoneIsNothing DEF Runs
    <3>4. runs[s].thread # sessions[c].token
      BY <3>1, <3>2, <3>3, NoneIsNothing DEF threadHolder
    <3> QED BY <1>1, <3>1, <3>4
  <2> QED BY <2>1, <2>2
<1> QED BY <1>9, <1>10, <1>11, <1>12 DEF IInv

LEMMA ThreadStartedStep == ASSUME IInv, NEW r \in Runs, ThreadStarted(r) PROVE IInv'
<1>1. PICK t \in Threads :
        /\ \A s \in Runs : runs[s].thread # t
        /\ runs' = [runs EXCEPT ![r].thread = t]
        /\ writersByThread' = [writersByThread EXCEPT ![t] = r]
        /\ sessions' = IF runs[r].current THEN [sessions EXCEPT ![runs[r].chat].token = t] ELSE sessions
  BY DEF ThreadStarted
<1>2. /\ r \in 1..MaxRuns /\ runs[r] \in Run /\ Sound(runs[r]) /\ runs[r].chat \in Chats
      /\ runs[r].current => sessions[runs[r].chat] # None
  BY RunIsRun DEF IInv, Run, ChatsKnowTheirRun
<1>3. /\ runs' \in [1..MaxRuns -> Run \cup {None}] /\ runs'[r] \in Run /\ Sound(runs'[r])
      /\ \A s \in 1..MaxRuns : s # r => runs'[s] = runs[s]
      /\ runs'[r].chat = runs[r].chat /\ runs'[r].released = runs[r].released
      /\ runs'[r].current = runs[r].current /\ runs'[r].thread = t
  BY <1>1, <1>2 DEF IInv, TypeOK, Run, Sound, Steady
<1>4. Runs' = Runs
  BY <1>2, <1>3, NoneIsNothing DEF Runs
<1>5. /\ sessions' \in [Chats -> Session \cup {None}]
      /\ \A d \in Chats : /\ sessions'[d] = None <=> sessions[d] = None
                          /\ sessions[d] # None => sessions'[d].writer = sessions[d].writer
  <2>1. CASE ~runs[r].current
    BY <1>1, <2>1 DEF IInv, TypeOK
  <2>2. CASE runs[r].current
    <3> DEFINE d == runs[r].chat
               ctx == [sessions[d] EXCEPT !.token = t]
    <3>1. sessions[d] \in Session
      BY <1>2, <2>2 DEF IInv, TypeOK
    <3>2. ctx \in Session /\ ctx.writer = sessions[d].writer
      BY <3>1 DEF Session
    <3>3. sessions' = [sessions EXCEPT ![d] = ctx]
      BY <1>1, <2>2
    <3> HIDE DEF ctx, d
    <3> QED BY <3>1, <3>2, <3>3, NoneIsNothing DEF IInv, TypeOK
  <2> QED BY <2>1, <2>2
<1>6. UNCHANGED <<waits, retired, raced>>
  BY DEF ThreadStarted
<1>7. TypeOK'
  <2>1. writersByThread' \in [Threads -> Runs' \cup {None}]
    BY <1>1, <1>4 DEF IInv, TypeOK
  <2>2. \A d \in Chats : sessions'[d] # None => sessions'[d].writer \in Runs' \cup {None}
    BY <1>4, <1>5 DEF IInv, TypeOK
  <2> QED BY <1>3, <1>4, <1>5, <1>6, <2>1, <2>2 DEF IInv, TypeOK
<1>8. ChatsKnowTheirRun'
  <2>1. \A s \in Runs : /\ runs'[s].released = runs[s].released /\ runs'[s].current = runs[s].current
                        /\ runs'[s].chat = runs[s].chat /\ runs[s].chat \in Chats
    BY <1>3, RunIsRun DEF IInv, Run
  <2>2. \A s \in Runs' : ~runs'[s].released =>
            (runs[s].chat \in retired \/ WriterOf(runs[s].chat, s))'
    BY <1>4, <1>5, <1>6, <2>1 DEF IInv, ChatsKnowTheirRun, WriterOf
  <2>3. \A s \in Runs' : runs'[s].current => (sessions[runs[s].chat] # None)'
    BY <1>4, <1>5, <2>1 DEF IInv, ChatsKnowTheirRun
  <2>4. \A d \in Chats : sessions'[d] # None =>
          d \notin retired' /\ (sessions'[d].writer # None => runs'[sessions'[d].writer].chat = d)
    BY <1>5, <1>6, <2>1 DEF IInv, TypeOK, ChatsKnowTheirRun
  <2>5. \A d \in Chats : sessions[d] # None => OwnWriter(d)' = OwnWriter(d)
    BY <1>5, <2>1 DEF OwnWriter, IInv, TypeOK
  <2>6. \A d \in Chats : waits'[d] # None =>
          /\ sessions'[d] # None
          /\ IF waits'[d].step = "own" THEN sessions'[d].writer = waits'[d].run
             ELSE OwnWriter(d)' = None
    BY <1>5, <1>6, <2>5 DEF IInv, ChatsKnowTheirRun
  <2> QED BY <2>2, <2>3, <2>4, <2>6 DEF ChatsKnowTheirRun
<1>9. \A s \in Runs' : Sound(runs'[s])
  BY <1>3, <1>4, RunIsRun DEF IInv
<1>10. raced' \/ \A s \in Runs' : Claimed(s)'
  <2>1. ASSUME NEW s \in Runs, Claimed(s) PROVE Claimed(s)'
    <3>1. CASE s = r
      BY <1>1, <1>3, <3>1 DEF Claimed, IInv, TypeOK
    <3>2. CASE s # r
      BY <1>1, <1>3, <2>1, <3>2, RunIsRun DEF Claimed, IInv, TypeOK, Run
    <3> QED BY <3>1, <3>2
  <2> QED BY <1>4, <1>6, <2>1 DEF IInv
<1> QED BY <1>7, <1>8, <1>9, <1>10 DEF IInv

LEMMA WaitForReleaseStep ==
  ASSUME IInv, NEW c \in Chats, sessions[c] # None, NEW r \in Runs, NEW step \in {"own", "holder"},
         runs[r].resolved \/ runs[r].stop,
         IF step = "own" THEN sessions[c].writer = r ELSE OwnWriter(c) = None,
         WaitForRelease(c, r, step), retired' = retired
  PROVE  IInv'
<1>1. Gentle
  BY ReleaseStepGentle DEF WaitForRelease
<1>2. [run |-> r, step |-> step] \in Wait
  BY DEF Wait, Runs
<1>3. WaitsFit
  BY <1>2 DEF WaitForRelease, WaitsFit, IInv, TypeOK
<1> QED BY <1>1, <1>3, GentleStep DEF WaitForRelease

LEMMA AfterHolderStep ==
  ASSUME IInv, NEW c \in Chats, sessions[c] # None, OwnWriter(c) = None, threadHolder(c) # None,
         AfterHolder(c), retired' = retired
  PROVE  IInv'
<1>1. threadHolder(c) \in Runs
  BY DEF threadHolder, IInv, TypeOK, Session
<1>2. CASE runs[threadHolder(c)].resolved
  BY <1>1, <1>2, WaitForReleaseStep DEF AfterHolder
<1>3. CASE ~runs[threadHolder(c)].resolved
  <2>1. waits' = [waits EXCEPT ![c] = None] /\ UNCHANGED <<runs, sessions, writersByThread, raced>>
    BY <1>3 DEF AfterHolder
  <2>2. WaitsFit
    BY <2>1 DEF WaitsFit, IInv, TypeOK
  <2> QED BY <2>1, <2>2, SameRunsAreGentle, GentleStep
<1> QED BY <1>2, <1>3

LEMMA StartTurnStep == ASSUME IInv, NEW c \in Chats, startTurn(c) PROVE IInv'
<1>1. sessions[c] # None /\ Pending(c) = {} /\ retired' = retired
  BY DEF startTurn
<1>2. CASE OwnWriter(c) # None
  <2> DEFINE w == OwnWriter(c)
  <2>1. w \in Runs /\ ~runs[w].released /\ runs[w].chat = c /\ sessions[c].writer = w /\ Sound(runs[w])
    BY <1>1, <1>2 DEF OwnWriter, IInv, TypeOK, ChatsKnowTheirRun
  <2>2. runs[w].resolved \/ runs[w].stop
    BY <1>1, <2>1 DEF Pending, Sound
  <2>3. WaitForRelease(c, w, "own")
    BY <1>2 DEF startTurn
  <2> HIDE DEF w
  <2> QED BY <1>1, <2>1, <2>2, <2>3, WaitForReleaseStep
<1>3. CASE OwnWriter(c) = None /\ threadHolder(c) # None
  BY <1>1, <1>3, AfterHolderStep DEF startTurn
<1>4. CASE OwnWriter(c) = None /\ threadHolder(c) = None
  BY <1>1, <1>4, SpawnStep DEF startTurn
<1> QED BY <1>2, <1>3, <1>4

LEMMA WaitStep == ASSUME IInv, NEW c \in Chats, waitForThreadRelease(c) PROVE IInv'
<1>1. /\ waits[c] # None /\ runs[waits[c].run].released /\ retired' = retired
      /\ sessions[c] # None
  BY DEF waitForThreadRelease, IInv, ChatsKnowTheirRun
<1>2. OwnWriter(c) = None
  BY <1>1 DEF OwnWriter, IInv, ChatsKnowTheirRun
<1>3. CASE waits[c].step = "own" /\ threadHolder(c) # None
  BY <1>1, <1>2, <1>3, AfterHolderStep DEF waitForThreadRelease
<1>4. CASE ~(waits[c].step = "own" /\ threadHolder(c) # None)
  BY <1>1, <1>2, <1>4, SpawnStep DEF waitForThreadRelease
<1> QED BY <1>3, <1>4

-----------------------------------------------------------------------------
(* The theorems.                                                           *)

LEMMA InitInv == Init => IInv
<1> SUFFICES ASSUME Init PROVE IInv
  OBVIOUS
<1>1. Runs = {}
  BY DEF Init, Runs
<1>2. TypeOK
  BY DEF Init, TypeOK
<1> QED BY <1>1, <1>2 DEF Init, IInv, ChatsKnowTheirRun

LEMMA NextInv == IInv /\ [Next]_vars => IInv'
<1> SUFFICES ASSUME IInv, [Next]_vars PROVE IInv'
  OBVIOUS
<1>1. ASSUME NEW c \in Chats, startSession(c) PROVE IInv'
  BY <1>1, StartSessionStep
<1>2. ASSUME NEW c \in Chats, stopSession(c) PROVE IInv'
  BY <1>2, StopSessionStep
<1>3. ASSUME NEW c \in Chats, startTurn(c) PROVE IInv'
  BY <1>3, StartTurnStep
<1>4. ASSUME NEW c \in Chats, waitForThreadRelease(c) PROVE IInv'
  BY <1>4, WaitStep
<1>5. ASSUME NEW r \in Runs, runRelease(r) \/ finishTurn(r) \/ interrupt(r) \/ close(r) \/ Ends(r) PROVE IInv'
  BY <1>5, RunStep
<1>6. ASSUME NEW r \in Runs, ThreadStarted(r) PROVE IInv'
  BY <1>6, ThreadStartedStep
<1>7. ASSUME NEW r \in Runs, Released(r) PROVE IInv'
  BY <1>7, ReleasedStep
<1>8. ASSUME NEW r \in Runs, CodexStopError(r) PROVE IInv'
  BY <1>8, CodexStopErrorStep
<1>9. CASE UNCHANGED vars
  <2>1. WaitsFit /\ Gentle
    BY <1>9, WaitsStay, SameRunsAreGentle DEF vars
  <2> QED BY <1>9, <2>1, GentleStep DEF vars
<1> QED BY <1>1, <1>2, <1>3, <1>4, <1>5, <1>6, <1>7, <1>8, <1>9 DEF Next

\* The shape of the state, and what the chats, the runs and the threads know of each other.
THEOREM Invariance == Spec => []IInv
BY InitInv, NextInv, PTL DEF Spec

\* Whatever the chats do, a thread has one writer, and a running turn is not taken down
\* by another chat's start (as long as no two starts waited for the same run).
THEOREM ThreadsAreHandedOver == Spec => []ThreadIsHandedOver
<1>1. IInv => ThreadIsHandedOver
  <2> SUFFICES ASSUME IInv PROVE OneWriterPerThread /\ RunningIsLeftAlone
    BY DEF ThreadIsHandedOver
  <2>1. RunningIsLeftAlone
    BY DEF RunningIsLeftAlone, IInv, Sound, Steady
  <2>2. OneWriterPerThread
    BY DEF OneWriterPerThread, IInv, Claimed
  <2> QED BY <2>1, <2>2
<1> QED BY <1>1, Invariance, PTL

\* A run is released by nothing but the confirmation that its processes are gone.
LEMMA OnlyReleasedReleases ==
  ASSUME IInv, Next, NEW r \in Runs, ~Released(r)
  PROVE  runs'[r].released = runs[r].released
<1>1. r \in 1..MaxRuns /\ runs[r] \in Run /\ runs \in [1..MaxRuns -> Run \cup {None}]
  BY RunIsRun DEF IInv, TypeOK
<1>2. ASSUME NEW s \in Runs, NEW rs \in {runs, Resolved(s)}, NEW mode \in {"stop", "result"},
             runs' = releaseWriter(rs, s, mode)
      PROVE  runs'[r].released = runs[r].released
  <2>1. s \in 1..MaxRuns /\ runs[s] \in Run
    BY RunIsRun DEF IInv
  <2>2. /\ rs \in [1..MaxRuns -> Run \cup {None}] /\ rs[s] # None
        /\ rs[r].released = runs[r].released
    <3>1. CASE rs = runs
      BY <1>1, <2>1, <3>1, NoneIsNothing
    <3>2. CASE rs = Resolved(s)
      BY <1>1, <2>1, <3>2, NoneIsNothing DEF Resolved, Run
    <3> QED BY <3>1, <3>2
  <2>3. \A q \in 1..MaxRuns : q # s => runs'[q] = rs[q]
    BY ONLY <1>2, <2>1, <2>2, ReleaseKeeps, CodexExecAssumption
  <2>4. SameRun(runs'[s], rs[s])
    BY ONLY <1>2, <2>1, <2>2, ReleaseKeeps, CodexExecAssumption
  <2> QED BY <1>1, <2>2, <2>3, <2>4 DEF SameRun
<1>3. ASSUME NEW c \in Chats, startSession(c) \/ stopSession(c) PROVE runs'[r].released = runs[r].released
  <2>1. Gentle
    BY <1>3, SameRunsAreGentle, StopRunsGentle DEF startSession, stopSession
  <2> QED BY <2>1 DEF Gentle, SameRun
<1>4. ASSUME NEW c \in Chats, Spawn(c) PROVE runs'[r].released = runs[r].released
  BY <1>1, <1>4 DEF Spawn
<1>5. ASSUME NEW c \in Chats, NEW w, w # None, w \in {OwnWriter(c), threadHolder(c)},
             NEW step, WaitForRelease(c, w, step), sessions[c] # None
      PROVE  runs'[r].released = runs[r].released
  <2>1. w \in Runs
    BY <1>5 DEF OwnWriter, threadHolder, IInv, TypeOK, Session
  <2> QED BY <1>2, <1>5, <2>1 DEF WaitForRelease
<1>6. ASSUME NEW c \in Chats, startTurn(c) \/ waitForThreadRelease(c) PROVE runs'[r].released = runs[r].released
  <2>1. sessions[c] # None
    BY <1>6 DEF startTurn, waitForThreadRelease, IInv, ChatsKnowTheirRun
  <2>2. CASE OwnWriter(c) # None /\ WaitForRelease(c, OwnWriter(c), "own")
    BY <1>5, <2>1, <2>2
  <2>3. CASE threadHolder(c) # None /\ AfterHolder(c)
    BY <1>5, <2>1, <2>3 DEF AfterHolder
  <2> QED BY <1>4, <1>6, <2>2, <2>3 DEF startTurn, waitForThreadRelease
<1>7. ASSUME NEW s \in Runs, interrupt(s) \/ close(s) PROVE runs'[r].released = runs[r].released
  BY <1>2, <1>7 DEF interrupt, close
<1>8. ASSUME NEW s \in Runs,
             runRelease(s) \/ finishTurn(s) \/ Ends(s) \/ ThreadStarted(s) \/ CodexStopError(s) \/ Released(s)
      PROVE  runs'[r].released = runs[r].released
  <2>1. s \in 1..MaxRuns /\ runs[s] \in Run
    BY RunIsRun DEF IInv
  <2>2. CASE runRelease(s)
    BY <1>1, <2>1, <2>2 DEF runRelease, Run
  <2>3. CASE finishTurn(s)
    BY <1>1, <2>1, <2>3 DEF finishTurn, Resolved, Run
  <2>4. CASE Ends(s)
    BY <1>1, <2>1, <2>4 DEF Ends, Run
  <2>5. CASE ThreadStarted(s)
    BY <1>1, <2>1, <2>5 DEF ThreadStarted, Run
  <2>6. CASE CodexStopError(s)
    BY <1>1, <2>1, <2>6 DEF CodexStopError, Run
  <2>7. CASE Released(s)
    BY <1>1, <2>1, <2>7 DEF Released, Run
  <2> QED BY <1>8, <2>2, <2>3, <2>4, <2>5, <2>6, <2>7
<1> QED BY <1>3, <1>6, <1>7, <1>8 DEF Next

\* Every release of a run that was stopped before the release decided what to terminate, or
\* during an attempt that failed before this one, ends its tools as well.
THEOREM StopsTakeTools == Spec => StopTakesTools
<1> DEFINE Step == \A r \in Runs : runs[r].whole /\ runs'[r].released => runs[r].released \/ ~runs[r].tools
<1>1. IInv /\ [Next]_vars => [Step]_vars
  <2> SUFFICES ASSUME IInv, Next, NEW r \in Runs, runs[r].whole, runs'[r].released, ~runs[r].released
               PROVE  ~runs[r].tools
    OBVIOUS
  <2>1. CASE Released(r)
    BY <2>1 DEF Released, IInv, Sound, Steady
  <2>2. CASE ~Released(r)
    BY <2>2, OnlyReleasedReleases
  <2> QED BY <2>1, <2>2
<1> QED BY <1>1, Invariance, PTL DEF Spec, StopTakesTools
-----------------------------------------------------------------------------
(***************************************************************************)
(* The processes of a run (ProcessOwnership).                              *)
(***************************************************************************)
(* The inductive invariant of ProcessOwnership. *)

Places == {"idle", "list", "listed", "wait", "fallback", "fallback wait", "fallback end", "failed", "done"}

Terminating == [step : Places, round : Nat, scope : {"tree", "writer"}]

OwnTypeOK ==
  /\ windows \in BOOLEAN /\ exited \in BOOLEAN /\ mistaken \in BOOLEAN /\ crossed \in BOOLEAN
  /\ table \in [Pids -> Ownership!Process \cup {None}]
  /\ rows \in [Ownership!Readers -> [Pids -> Ownership!Process \cup {None}]]
  /\ owned \in [Pids -> Ownership!Identities \cup {None}] /\ starts \in Nat \ {0} /\ known \subseteq Nat
  /\ pc \in Terminating
  /\ recording \in [step : {"none", "list", "listed", "over"}, alive : BOOLEAN]

\* What every table shows: pids and parents agree with what started what, as far as
\* the parent lives.
Possible(t) ==
  /\ \A p \in Pids : t[p] # None /\ t[p].start = 1 => p = Root
  /\ \A p, q \in Pids : t[p] # None /\ t[q] # None =>
       /\ t[p].start = t[q].start => p = q
       /\ t[q].up = t[p].start => /\ t[q].ppid = p /\ t[q].start > t[p].start /\ t[q].ours = t[p].ours
                                  /\ t[q].codex => t[p].codex
                                  /\ t[p].zombie => windows
       /\ t[q].ppid = p /\ (windows => t[q].start >= t[p].start) => t[q].up = t[p].start

WorldOK ==
  /\ Possible(table)
  /\ \A p \in Pids : table[p] # None =>
       /\ table[p].start <= starts /\ table[p].up <= starts
       /\ ~windows /\ table[p].ppid # None => table[table[p].ppid] # None
  /\ ~exited => table[Root] # None /\ table[Root].start = 1 /\ table[Root].ours

\* Two tables show the same process with the same pid.
Agrees(t, u) ==
  \A p, q \in Pids : t[p] # None /\ u[q] # None /\ t[p].start = u[q].start =>
    p = q /\ t[p].ours = u[q].ours /\ t[p].codex = u[q].codex

\* A table t was printed before a table u: who had started by then and is in u is in t.
Before(t, u, last) ==
  \A p \in Pids : u[p] # None /\ u[p].start <= last =>
    IF t[p] = None THEN windows /\ u[p].zombie
    ELSE t[p].start = u[p].start /\ (t[p].zombie => u[p].zombie)

Shows(t, last) ==
  (\A p \in Pids : t[p] # None => t[p].start <= last) /\ Before(t, table, last)

\* What is recorded of the processes in a table is so.
Identified(t) ==
  \A p \in Pids : t[p] # None /\ owned[p] # None /\ owned[p].start = t[p].start =>
    owned[p].codex = t[p].codex /\ (~mistaken => t[p].ours)

\* The tables that were printed and are not read yet.
Printouts ==
  \A a \in Ownership!Readers :
    /\ Possible(rows[a]) /\ Identified(rows[a]) /\ Agrees(rows[a], table)
    /\ \A b \in Ownership!Readers : Agrees(rows[a], rows[b])
    /\ \A p \in Pids : windows /\ rows[a][p] # None => ~rows[a][p].zombie
    /\ ~exited /\ rows[a][Root] # None => rows[a][Root].start = 1 /\ rows[a][Root].ours
    /\ \E last \in 0..starts : Shows(rows[a], last)

Records ==
  /\ Identified(table)
  /\ \A p \in Pids : owned[p] # None => owned[p].start <= starts
  /\ \A k \in known : k <= starts
  /\ ~exited /\ owned[Root] # None => owned[Root].start = 1

\* What is known of the processes of the system is recorded, and what is known of those in
\* a table was.
Recognised ==
  \A p \in Pids : table[p] # None /\ table[p].start \in known =>
    owned[p] # None /\ owned[p].start = table[p].start
Followed(t) ==
  \A p \in Pids : t[p] # None /\ t[p].start \in known => owned[p] # None /\ owned[p].start >= t[p].start

\* Whoever is known but too young for the table t that terminate() will read has a known
\* ancestor in it.
Older(t, u, last) ==
  \A q \in Pids : u[q] # None /\ u[q].start \in known /\ u[q].start > last =>
    \E p \in Pids : t[p] # None /\ ~t[p].zombie /\ t[p].start \in known /\ (u[q].codex => t[p].codex)

\* A table u that shows something younger was printed later.
Later(t, u, last) == (\E q \in Pids : u[q] # None /\ u[q].start > last) => Before(t, u, last)

Guarded(t, u, last) ==
  /\ 1 <= last /\ Shows(t, last)
  /\ Older(t, table, last) /\ Older(t, u, last) /\ Later(t, u, last)

Recognition ==
  /\ Recognised /\ \A a \in Ownership!Readers : Followed(rows[a])
  /\ pc.step = "listed" => \E last \in 0..starts : Guarded(rows["terminate"], rows["record"], last)

OwnInv ==
  OwnTypeOK /\ WorldOK /\ Printouts /\ Records /\ (~crossed => Recognition) /\ StopsTheTree

-----------------------------------------------------------------------------
(* The system. *)

LEMMA OwnFacts ==
  ASSUME Ownership!OwnershipAssumption
  PROVE  /\ Root \in Pids /\ None \notin Pids /\ None \notin Ownership!Identities
            /\ None \notin Ownership!Process
         /\ Ownership!NoRows = [p \in Pids |-> None]
BY DEF Ownership!OwnershipAssumption, Ownership!NoRows

LEMMA ReadersAre ==
  /\ Ownership!Readers = {"record", "terminate"}
  /\ "record" \in Ownership!Readers /\ "terminate" \in Ownership!Readers
BY DEF Ownership!Readers

\* A table that is not there yet shows nothing.
LEMMA NothingShown ==
  ASSUME NEW t, \A p \in Pids : t[p] = None
  PROVE  /\ Possible(t) /\ Identified(t) /\ Followed(t)
         /\ \A u : Agrees(t, u) /\ Agrees(u, t)
BY DEF Possible, Identified, Followed, Agrees

LEMMA OwnInit ==
  ASSUME Ownership!OwnershipAssumption, Ownership!Init
  PROVE  OwnInv
<1> DEFINE child == [start |-> 1, ppid |-> None, up |-> 0, ours |-> TRUE, codex |-> TRUE, zombie |-> FALSE]
<1>1. /\ windows \in BOOLEAN /\ table = [Ownership!NoRows EXCEPT ![Root] = child] /\ starts = 1
         /\ exited = FALSE
      /\ owned = Ownership!NoRows /\ rows = [reader \in Ownership!Readers |-> Ownership!NoRows]
      /\ recording = [step |-> "none", alive |-> FALSE]
      /\ pc = [step |-> "idle", round |-> 1, scope |-> "writer"] /\ known = {} /\ struck = {}
         /\ mistaken = FALSE /\ crossed = FALSE
  BY DEF Ownership!Init
<1>2. child \in Ownership!Process /\ child.start = 1 /\ child.up = 0 /\ child.ppid = None /\ child.ours
  BY DEF Ownership!Process
<1> HIDE DEF child
<1>3. /\ \A p \in Pids : table[p] = IF p = Root THEN child ELSE None
      /\ table \in [Pids -> Ownership!Process \cup {None}]
  BY <1>1, <1>2, OwnFacts
<1>4. \A p \in Pids : owned[p] = None /\ \A a \in Ownership!Readers : rows[a][p] = None
  BY <1>1, OwnFacts
<1>5. OwnTypeOK
  <2>1. rows \in [Ownership!Readers -> [Pids -> Ownership!Process \cup {None}]]
    BY <1>1, OwnFacts
  <2>2. pc \in Terminating
    BY <1>1 DEF Terminating, Places
  <2>3. recording \in [step : {"none", "list", "listed", "over"}, alive : BOOLEAN]
    BY <1>1
  <2>4. owned \in [Pids -> Ownership!Identities \cup {None}] /\ known \subseteq Nat
    BY <1>1, OwnFacts
  <2>5. starts \in Nat \ {0}
    BY <1>1
  <2>6. exited \in BOOLEAN /\ mistaken \in BOOLEAN /\ crossed \in BOOLEAN
    BY <1>1, Zenon
  <2> QED BY <1>1, <1>3, <2>1, <2>2, <2>3, <2>4, <2>5, <2>6 DEF OwnTypeOK
<1>6. WorldOK
  <2>1. \A p \in Pids : table[p] # None => p = Root /\ table[p] = child
    BY <1>3
  <2>2. Possible(table)
    BY <1>2, <2>1, OwnFacts DEF Possible
  <2> QED BY <1>1, <1>2, <1>3, <2>1, <2>2, OwnFacts DEF WorldOK
<1>7. Printouts
  <2> SUFFICES ASSUME NEW a \in Ownership!Readers
               PROVE  /\ Possible(rows[a]) /\ Identified(rows[a]) /\ Agrees(rows[a], table)
                      /\ \A b \in Ownership!Readers : Agrees(rows[a], rows[b])
                      /\ \A p \in Pids : windows /\ rows[a][p] # None => ~rows[a][p].zombie
                      /\ ~exited /\ rows[a][Root] # None => rows[a][Root].start = 1 /\ rows[a][Root].ours
                      /\ \E last \in 0..starts : Shows(rows[a], last)
    BY DEF Printouts
  <2>1. PICK t : t = rows[a]
    OBVIOUS
  <2>2. \A p \in Pids : t[p] = None
    BY <1>4, <2>1
  <2>3. Shows(t, 0) /\ 0 \in 0..starts
    BY <1>1, <1>2, <1>3, <2>2 DEF Shows, Before
  <2>4. Possible(t) /\ Identified(t) /\ \A u : Agrees(t, u)
    BY <2>2, NothingShown
  <2> QED BY <2>1, <2>2, <2>3, <2>4, OwnFacts
<1>8. Records /\ Recognition
  <2>1. \A a \in Ownership!Readers : Followed(rows[a])
    BY <1>4 DEF Followed
  <2> QED BY <1>1, <1>4, <2>1, OwnFacts DEF Records, Identified, Recognition, Recognised
<1>9. StopsTheTree
  BY <1>1 DEF StopsTheTree, Ownership!StopsTheTree, Ownership!Confirmed, Ownership!OnlyOurs, Ownership!At
<1> QED BY <1>5, <1>6, <1>7, <1>8, <1>9 DEF OwnInv

\* However the processes change: what goes on is what it was, what is new is younger than
\* all that has been seen.
GoesOn(p) ==
  \/ /\ table[p] # None /\ table'[p].start = table[p].start /\ table'[p].ours = table[p].ours
     /\ table'[p].codex = table[p].codex /\ (table[p].zombie => table'[p].zombie)
  \/ table'[p].start > starts

LEMMA WorldKeeps ==
  ASSUME OwnInv, OwnTypeOK', WorldOK',
         UNCHANGED <<windows, owned, rows, recording, pc, known, struck, mistaken, crossed>>,
         starts <= starts', exited => exited',
         \A p \in Pids : table'[p] # None => GoesOn(p)
  PROVE  OwnInv'
<1>0. OwnTypeOK /\ WorldOK /\ Printouts /\ Records /\ (~crossed => Recognition) /\ StopsTheTree
  BY DEF OwnInv
<1>1. /\ starts \in Nat /\ starts' \in Nat /\ known \subseteq Nat /\ 0..starts \subseteq 0..starts'
      /\ \A p \in Pids : /\ table[p] # None => table[p].start \in Nat
                         /\ table'[p] # None => table'[p].start \in Nat
                         /\ \A a \in Ownership!Readers : rows[a][p] # None => rows[a][p].start \in Nat
                         /\ owned[p] # None => owned[p].start \in Nat
  BY <1>0 DEF OwnTypeOK, Ownership!Process, Ownership!Identities
<1>2. \A k \in known : k \in Nat /\ k <= starts
  BY <1>0, <1>1 DEF Records
<1>3. Identified(table)' /\ (~crossed' => Recognised')
  BY <1>0, <1>1, <1>2 DEF Records, Recognition, Recognised, Identified, GoesOn
<1>4. ASSUME NEW a \in Ownership!Readers, NEW last \in 0..starts, Shows(rows[a], last)
      PROVE  Shows(rows[a], last)' /\ last \in 0..starts'
  BY <1>1, <1>4 DEF Shows, Before, GoesOn
<1>5. ASSUME NEW a \in Ownership!Readers
      PROVE  (/\ Possible(rows[a]) /\ Identified(rows[a]) /\ Agrees(rows[a], table)
              /\ \A b \in Ownership!Readers : Agrees(rows[a], rows[b])
              /\ \A p \in Pids : windows /\ rows[a][p] # None => ~rows[a][p].zombie
              /\ ~exited /\ rows[a][Root] # None => rows[a][Root].start = 1 /\ rows[a][Root].ours
              /\ \E last \in 0..starts : Shows(rows[a], last))'
  <2>1. /\ Possible(rows[a])' /\ Identified(rows[a])' /\ \A b \in Ownership!Readers : Agrees(rows[a], rows[b])'
        /\ \A p \in Pids : windows' /\ rows'[a][p] # None => ~rows'[a][p].zombie
        /\ ~exited' /\ rows'[a][Root] # None => rows'[a][Root].start = 1 /\ rows'[a][Root].ours
    BY <1>0 DEF Printouts, Possible, Identified, Agrees
  <2>2. PICK last \in 0..starts : Shows(rows[a], last)
    BY <1>0 DEF Printouts
  <2>3. Shows(rows[a], last)' /\ last \in 0..starts'
    BY <1>4, <2>2
  <2>4. Agrees(rows[a], table)'
    <3> SUFFICES ASSUME NEW p \in Pids, NEW q \in Pids, rows[a][p] # None, table'[q] # None,
                        rows[a][p].start = table'[q].start
                 PROVE  p = q /\ rows[a][p].ours = table'[q].ours /\ rows[a][p].codex = table'[q].codex
      BY DEF Agrees
    <3>1. ~(table'[q].start > starts)
      BY <1>1, <2>2 DEF Shows
    <3>2. table[q] # None /\ table'[q].start = table[q].start /\ table'[q].ours = table[q].ours
          /\ table'[q].codex = table[q].codex
      BY <3>1 DEF GoesOn
    <3> QED BY <1>0, <3>2 DEF Printouts, Agrees
  <2> QED BY <2>1, <2>3, <2>4
<1>6. Printouts'
  BY <1>5 DEF Printouts
<1>7. Records'
  <2>1. \A p \in Pids : owned'[p] # None => owned'[p].start <= starts'
    BY <1>0, <1>1 DEF Records
  <2>2. \A k \in known' : k <= starts'
    BY <1>1, <1>2
  <2>3. ~exited' /\ owned'[Root] # None => owned'[Root].start = 1
    BY <1>0 DEF Records
  <2> QED BY <1>3, <2>1, <2>2, <2>3 DEF Records
<1>8. ~crossed' => Recognition'
  <2> SUFFICES ASSUME ~crossed
               PROVE  Recognition'
    OBVIOUS
  <2>1. Recognised' /\ \A a \in Ownership!Readers : Followed(rows[a])'
    BY <1>0, <1>3 DEF Recognition, Followed
  <2>2. ASSUME pc'.step = "listed"
        PROVE  \E last \in 0..starts' : Guarded(rows["terminate"], rows["record"], last)'
    <3>1. PICK last \in 0..starts : Guarded(rows["terminate"], rows["record"], last)
      BY <1>0, <2>2 DEF Recognition
    <3>2. Shows(rows["terminate"], last)' /\ last \in 0..starts' /\ 1 <= last
      BY <1>4, <3>1, ReadersAre DEF Guarded
    <3>3. Older(rows["terminate"], rows["record"], last)' /\ Later(rows["terminate"], rows["record"], last)'
      BY <3>1 DEF Guarded, Older, Later, Before
    <3>4. Older(rows["terminate"], table, last)'
      <4> SUFFICES ASSUME NEW q \in Pids, table'[q] # None, table'[q].start \in known, table'[q].start > last
                   PROVE  \E p \in Pids : /\ rows["terminate"][p] # None /\ ~rows["terminate"][p].zombie
                                          /\ rows["terminate"][p].start \in known
                                          /\ table'[q].codex => rows["terminate"][p].codex
        BY DEF Older
      <4>1. ~(table'[q].start > starts)
        BY <1>1, <1>2
      <4>2. table[q] # None /\ table'[q].start = table[q].start /\ table'[q].codex = table[q].codex
        BY <4>1 DEF GoesOn
      <4> QED BY <3>1, <4>2 DEF Guarded, Older
    <3> QED BY <3>2, <3>3, <3>4 DEF Guarded
  <2> QED BY <2>1, <2>2 DEF Recognition
<1>9. StopsTheTree'
  <2>1. Ownership!Confirmed'
    <3> SUFFICES ASSUME pc'.step = "done", ~crossed, NEW p \in Pids, Ownership!Living(p)', table'[p].ours,
                        pc'.scope = "tree" \/ table'[p].codex
                 PROVE  table'[p].start \notin known'
      BY DEF Ownership!Confirmed, Ownership!At
    <3>1. table'[p] # None /\ ~table'[p].zombie
      BY DEF Ownership!Living
    <3>2. CASE table'[p].start > starts
      BY <1>1, <1>2, <3>1, <3>2
    <3>3. CASE /\ table[p] # None /\ table'[p].start = table[p].start /\ table'[p].ours = table[p].ours
               /\ table'[p].codex = table[p].codex /\ (table[p].zombie => table'[p].zombie)
      BY <1>0, <3>1, <3>3
      DEF StopsTheTree, Ownership!StopsTheTree, Ownership!Confirmed, Ownership!At, Ownership!Living
    <3> QED BY <3>1, <3>2, <3>3 DEF GoesOn
  <2>2. Ownership!OnlyOurs'
    BY <1>0 DEF StopsTheTree, Ownership!StopsTheTree, Ownership!OnlyOurs
  <2> QED BY <2>1, <2>2 DEF StopsTheTree, Ownership!StopsTheTree
<1> QED BY <1>6, <1>7, <1>8, <1>9 DEF OwnInv

LEMMA BornInv ==
  ASSUME Ownership!OwnershipAssumption, OwnInv, NEW q \in Pids, NEW ppid \in Pids \cup {None}, NEW up \in Nat,
         NEW ours \in BOOLEAN, NEW codex \in BOOLEAN, Ownership!Started(q, ppid, up, ours, codex),
         \/ ppid = None /\ up = 0
         \/ /\ ppid \in Pids /\ table[ppid] # None /\ ~table[ppid].zombie
            /\ up = table[ppid].start /\ ours = table[ppid].ours /\ (codex => table[ppid].codex)
  PROVE  OwnInv'
<1> DEFINE new == [start |-> starts + 1, ppid |-> ppid, up |-> up, ours |-> ours, codex |-> codex, zombie |-> FALSE]
<1>0. OwnTypeOK /\ WorldOK /\ Records
  BY DEF OwnInv
<1>1. /\ table[q] = None /\ starts' = starts + 1 /\ table' = [table EXCEPT ![q] = new]
      /\ UNCHANGED <<windows, exited, owned, rows, recording, pc, known, struck, mistaken, crossed>>
  BY DEF Ownership!Started, Ownership!code, Ownership!history
<1>2. /\ starts \in Nat \ {0} /\ new \in Ownership!Process /\ new.start = starts + 1 /\ new.ppid = ppid /\ new.up = up
      /\ new.ours = ours /\ new.codex = codex /\ ~new.zombie
  BY <1>0 DEF OwnTypeOK, Ownership!Process
<1> HIDE DEF new
<1>3. \A p \in Pids : table'[p] = IF p = q THEN new ELSE table[p]
  BY <1>0, <1>1 DEF OwnTypeOK
<1>4. /\ \A p \in Pids : table[p] # None => /\ table[p] \in Ownership!Process /\ table[p].start \in Nat \ {0}
                                            /\ table[p].up \in Nat /\ table[p].start <= starts
                                               /\ table[p].up <= starts
      /\ Possible(table)
  BY <1>0 DEF OwnTypeOK, WorldOK, Ownership!Process
<1>5. OwnTypeOK'
  <2>1. table' \in [Pids -> Ownership!Process \cup {None}]
    BY <1>0, <1>1, <1>2 DEF OwnTypeOK
  <2> QED BY <1>0, <1>1, <1>2, <2>1 DEF OwnTypeOK
<1>6. Possible(table')
  <2>0. \A p \in Pids : table'[p] # None /\ table'[p].start = 1 => p = Root
    BY <1>2, <1>3, <1>4 DEF Possible
  <2> SUFFICES ASSUME NEW p \in Pids, NEW r \in Pids, table'[p] # None, table'[r] # None
               PROVE  /\ table'[p].start = table'[r].start => p = r
                      /\ table'[r].up = table'[p].start =>
                           /\ table'[r].ppid = p /\ table'[r].start > table'[p].start
                              /\ table'[r].ours = table'[p].ours
                           /\ table'[r].codex => table'[p].codex
                           /\ table'[p].zombie => windows
                      /\ table'[r].ppid = p /\ (windows => table'[r].start >= table'[p].start)
                           => table'[r].up = table'[p].start
    BY <1>1, <2>0 DEF Possible
  <2>1. CASE p # q /\ r # q
    BY <1>3, <1>4, <2>1 DEF Possible
  <2>2. CASE p = q /\ r = q
    <3>1. up # starts + 1
      BY <1>2, <1>4
    <3>2. ppid # q
      BY <1>1, OwnFacts
    <3> QED BY <1>2, <1>3, <2>2, <3>1, <3>2
  <2>3. CASE p = q /\ r # q
    <3>1. table[r] # None /\ table[r].start < starts + 1 /\ table[r].up < starts + 1
      BY <1>2, <1>3, <1>4, <2>3
    <3>2. table[r].ppid = q => windows
      BY <1>0, <1>1, <3>1, OwnFacts DEF WorldOK
    <3> QED BY <1>2, <1>3, <1>4, <2>3, <3>1, <3>2
  <2>4. CASE p # q /\ r = q
    <3>1. table[p] # None /\ table[p].start < starts + 1 /\ table[p].start \in Nat \ {0}
      BY <1>2, <1>3, <1>4, <2>4
    <3>2. CASE ppid = None /\ up = 0
      BY <1>2, <1>3, <2>4, <3>1, <3>2, OwnFacts
    <3>3. CASE /\ ppid \in Pids /\ table[ppid] # None /\ ~table[ppid].zombie
               /\ up = table[ppid].start /\ ours = table[ppid].ours /\ (codex => table[ppid].codex)
      <4>1. up = table[p].start => ppid = p
        BY <1>4, <3>1, <3>3 DEF Possible
      <4> QED BY <1>2, <1>3, <2>4, <3>1, <3>3, <4>1
    <3> QED BY <3>2, <3>3
  <2> QED BY <2>1, <2>2, <2>3, <2>4
<1>7. WorldOK'
  <2>1. \A p \in Pids : table'[p] # None => table'[p].start <= starts' /\ table'[p].up <= starts'
    <3>1. up <= starts
      BY <1>2, <1>4
    <3> QED BY <1>1, <1>2, <1>3, <1>4, <3>1
  <2>2. \A p \in Pids : table'[p] # None /\ ~windows' /\ table'[p].ppid # None => table'[table'[p].ppid] # None
    <3> SUFFICES ASSUME NEW p \in Pids, table'[p] # None, ~windows, table'[p].ppid # None
                 PROVE  table'[table'[p].ppid] # None
      BY <1>1
    <3>1. \A r \in Pids : table[r] # None => table'[r] # None
      BY <1>1, <1>3
    <3>2. CASE p = q
      BY <1>2, <1>3, <3>1, <3>2
    <3>3. CASE p # q
      <4>1. table[p].ppid \in Pids /\ table[table[p].ppid] # None /\ table'[p] = table[p]
        BY <1>0, <1>3, <1>4, <3>3 DEF WorldOK, Ownership!Process
      <4> QED BY <3>1, <4>1
    <3> QED BY <3>2, <3>3
  <2>3. ~exited' => table'[Root] # None /\ table'[Root].start = 1 /\ table'[Root].ours
    BY <1>0, <1>1, <1>3, OwnFacts DEF WorldOK
  <2> QED BY <1>6, <2>1, <2>2, <2>3, <1>1 DEF WorldOK, Possible
<1> QED
  <2>1. /\ starts <= starts' /\ (exited => exited')
        /\ \A p \in Pids : table'[p] # None => GoesOn(p)
    BY <1>1, <1>2, <1>3 DEF GoesOn
  <2> QED BY <1>1, <1>5, <1>7, <2>1, WorldKeeps

LEMMA StartInv ==
  ASSUME Ownership!OwnershipAssumption, OwnInv, NEW p \in Pids, NEW q \in Pids,
         Ownership!Stranger(p) \/ Ownership!Fork(p, q)
  PROVE  OwnInv'
<1>1. CASE Ownership!Stranger(p)
  <2>1. None \in Pids \cup {None} /\ 0 \in Nat /\ FALSE \in BOOLEAN
    OBVIOUS
  <2> QED BY <1>1, <2>1, BornInv DEF Ownership!Stranger
<1>2. CASE Ownership!Fork(p, q)
  <2>1. table[p] # None /\ ~table[p].zombie
    BY <1>2 DEF Ownership!Fork
  <2>2. table[p] \in Ownership!Process
    BY <2>1 DEF OwnInv, OwnTypeOK
  <2>3. table[p].start \in Nat /\ table[p].ours \in BOOLEAN /\ table[p].codex \in BOOLEAN
    BY <2>2 DEF Ownership!Process
  <2>4. PICK codex \in BOOLEAN : /\ Ownership!Started(q, p, table[p].start, table[p].ours, codex)
                                 /\ codex => table[p].codex
    BY <1>2, <2>3 DEF Ownership!Fork
  <2> QED BY <2>1, <2>3, <2>4, BornInv
<1> QED BY <1>1, <1>2

LEMMA ExitInv ==
  ASSUME Ownership!OwnershipAssumption, OwnInv, NEW p \in Pids, Ownership!Exit(p)
  PROVE  OwnInv'
<1> DEFINE after(q) == IF q = p THEN IF p = Root
    /\ table[p].ours THEN [table[p] EXCEPT !.zombie = TRUE] ELSE None
                       ELSE IF table[q] # None /\ table[q].up = table[p].start /\ ~windows
                       THEN [table[q] EXCEPT !.ppid = None, !.up = 0] ELSE table[q]
<1>0. OwnTypeOK /\ WorldOK /\ Possible(table)
  BY DEF OwnInv, WorldOK
<1>1. /\ table[p] # None /\ ~table[p].zombie /\ table' = [q \in Pids |-> after(q)]
      /\ \A q \in Pids : table'[q] = after(q)
  BY DEF Ownership!Exit
<1>u. UNCHANGED <<windows, starts, exited, owned, rows, recording, pc, known, struck, mistaken, crossed>>
  BY DEF Ownership!Exit, Ownership!code, Ownership!history
<1>2. \A q \in Pids : table[q] # None => table[q] \in Ownership!Process
  BY <1>0 DEF OwnTypeOK
<1>3. ASSUME NEW q \in Pids, table'[q] # None
      PROVE  /\ table[q] # None /\ table'[q] \in Ownership!Process /\ table'[q].start = table[q].start
             /\ table'[q].ours = table[q].ours /\ table'[q].codex = table[q].codex
             /\ IF ~windows /\ q # p /\ table[q].up = table[p].start
                THEN table'[q].ppid = None /\ table'[q].up = 0
                ELSE table'[q].ppid = table[q].ppid /\ table'[q].up = table[q].up
             /\ IF q = p THEN table'[q].zombie /\ p = Root ELSE table'[q].zombie = table[q].zombie
  <2>1. CASE q = p
    BY <1>1, <1>2, <1>3, <2>1 DEF Ownership!Process
  <2>2. CASE q # p
    <3>1. table'[q] = after(q) /\ table[q] # None
      BY <1>1, <1>3, <2>2
    <3>2. CASE table[q].up = table[p].start /\ ~windows
      <4> DEFINE n == [table[q] EXCEPT !.ppid = None, !.up = 0]
      <4>1. table[q] \in Ownership!Process
        BY <1>2, <3>1
      <4>2. /\ n \in Ownership!Process /\ n.start = table[q].start /\ n.ours = table[q].ours
            /\ n.codex = table[q].codex /\ n.zombie = table[q].zombie /\ n.ppid = None /\ n.up = 0
        BY <4>1 DEF Ownership!Process
      <4>3. table'[q] = n
        BY <2>2, <3>1, <3>2
      <4> HIDE DEF n
      <4> QED BY <2>2, <3>1, <3>2, <4>2, <4>3
    <3>3. CASE ~(table[q].up = table[p].start /\ ~windows)
      BY <1>2, <2>2, <3>1, <3>3
    <3> QED BY <3>2, <3>3
  <2> QED BY <2>1, <2>2
<1>4. \A q \in Pids : q # p /\ table[q] # None => table'[q] # None
  <2> SUFFICES ASSUME NEW q \in Pids, q # p, table[q] # None
               PROVE  table'[q] # None
    OBVIOUS
  <2>1. table'[q] = after(q)
    BY <1>1
  <2>2. CASE table[q].up = table[p].start /\ ~windows
    <3>1. table'[q] = [table[q] EXCEPT !.ppid = None, !.up = 0]
      BY <2>1, <2>2
    <3>2. [table[q] EXCEPT !.ppid = None, !.up = 0] \in Ownership!Process
      BY <1>2 DEF Ownership!Process
    <3> QED BY <3>1, <3>2, OwnFacts
  <2>3. CASE ~(table[q].up = table[p].start /\ ~windows)
    BY <2>1, <2>3
  <2> QED BY <2>2, <2>3
<1>5. OwnTypeOK'
  <2>1. \A q \in Pids : table'[q] \in Ownership!Process \cup {None}
    BY <1>3
  <2>2. table' \in [Pids -> Ownership!Process \cup {None}]
    BY <1>1, <2>1
  <2> QED BY <1>0, <1>u, <2>2 DEF OwnTypeOK
<1> HIDE DEF after
<1>6. Possible(table')
  <2>0. \A q \in Pids : table'[q] # None /\ table'[q].start = 1 => q = Root
    BY <1>0, <1>3 DEF Possible
  <2> SUFFICES ASSUME NEW r \in Pids, NEW q \in Pids, table'[r] # None, table'[q] # None
               PROVE  /\ table'[r].start = table'[q].start => r = q
                      /\ table'[q].up = table'[r].start =>
                           /\ table'[q].ppid = r /\ table'[q].start > table'[r].start
                              /\ table'[q].ours = table'[r].ours
                           /\ table'[q].codex => table'[r].codex
                           /\ table'[r].zombie => windows
                      /\ table'[q].ppid = r /\ (windows => table'[q].start >= table'[r].start)
                           => table'[q].up = table'[r].start
    BY <2>0 DEF Possible
  <2>1. /\ table[r] # None /\ table[q] # None /\ table[r].start \in Nat \ {0}
           /\ table[r].start = table'[r].start
        /\ table[q].start = table'[q].start /\ table[r].ours = table'[r].ours /\ table[q].ours = table'[q].ours
        /\ table[r].codex = table'[r].codex /\ table[q].codex = table'[q].codex
    BY <1>2, <1>3 DEF Ownership!Process
  <2>2. CASE ~windows /\ q # p /\ table[q].up = table[p].start
    BY <1>0, <1>3, <2>1, <2>2, OwnFacts DEF Possible
  <2>3. CASE ~(~windows /\ q # p /\ table[q].up = table[p].start)
    <3>1. table'[q].ppid = table[q].ppid /\ table'[q].up = table[q].up
      BY <1>3, <2>3
    <3>2. CASE q = p /\ r = p
      BY <1>0, <2>1, <3>1, <3>2 DEF Possible
    <3>3. CASE ~(q = p /\ r = p) /\ table[q].up = table[r].start
      <4>1. r = p => windows
        BY <2>3, <3>3
      <4>2. r # p => table'[r].zombie = table[r].zombie
        BY <1>3
      <4> QED BY <1>0, <2>1, <3>1, <3>3, <4>1, <4>2 DEF Possible
    <3>4. CASE table[q].up # table[r].start
      BY <1>0, <2>1, <3>1, <3>4 DEF Possible
    <3> QED BY <3>2, <3>3, <3>4
  <2> QED BY <2>2, <2>3
<1>7. WorldOK'
  <2>1. \A q \in Pids : table'[q] # None => table'[q].start <= starts' /\ table'[q].up <= starts'
    <3> SUFFICES ASSUME NEW q \in Pids, table'[q] # None
                 PROVE  table'[q].start <= starts' /\ table'[q].up <= starts'
      OBVIOUS
    <3>1. /\ starts' \in Nat /\ table[q].start <= starts /\ table[q].up <= starts /\ starts' = starts
      BY <1>0, <1>3, <1>u DEF WorldOK, OwnTypeOK
    <3> QED BY <1>3, <3>1
  <2>2. ASSUME NEW q \in Pids, table'[q] # None, ~windows, table'[q].ppid # None
        PROVE  table'[table'[q].ppid] # None
    <3>1. table'[q].ppid = table[q].ppid /\ (q # p => table[q].up # table[p].start)
      BY <1>3, <2>2
    <3>2. table[q].ppid \in Pids /\ table[table[q].ppid] # None
      BY <1>0, <1>2, <1>3, <2>2, <3>1 DEF WorldOK, Ownership!Process
    <3>3. table[q].ppid # p \/ q = p
      <4>1. table[q].ppid = p => table[q].up = table[p].start
        BY <1>0, <1>1, <1>3, <2>2 DEF Possible
      <4> QED BY <3>1, <4>1
    <3>4. CASE q = p /\ table[q].ppid = p
      BY <1>3, <2>2, <3>1, <3>4
    <3> QED BY <1>4, <3>1, <3>2, <3>3, <3>4
  <2>3. ~exited' => table'[Root] # None /\ table'[Root].start = 1 /\ table'[Root].ours
    <3> SUFFICES ASSUME ~exited
                 PROVE  table'[Root] # None /\ table'[Root].start = 1 /\ table'[Root].ours
      BY <1>u
    <3>1. table[Root] # None /\ table[Root].start = 1 /\ table[Root].ours /\ table[Root] \in Ownership!Process
      BY <1>0, <1>2, OwnFacts DEF WorldOK
    <3>2. CASE p = Root
      <4>1. table'[Root] = [table[Root] EXCEPT !.zombie = TRUE]
        BY <1>1, <3>1, <3>2, OwnFacts DEF after
      <4>2. [table[Root] EXCEPT !.zombie = TRUE] \in Ownership!Process
        BY <3>1 DEF Ownership!Process
      <4>3. table'[Root] # None
        BY <4>1, <4>2, OwnFacts
      <4> QED BY <1>3, <3>1, <4>3, OwnFacts
    <3>3. CASE p # Root
      <4>1. table'[Root] # None
        BY <1>4, <3>1, <3>3, OwnFacts
      <4> QED BY <1>3, <3>1, <4>1, OwnFacts
    <3> QED BY <3>2, <3>3
  <2>4. Possible(table)'
    BY <1>6, <1>u DEF Possible
  <2> QED BY <1>u, <2>1, <2>2, <2>3, <2>4 DEF WorldOK
<1> QED
  <2>1. \A q \in Pids : table'[q] # None => GoesOn(q)
    BY <1>3 DEF GoesOn
  <2>2. starts <= starts' /\ (exited => exited')
    BY <1>0, <1>u DEF OwnTypeOK
  <2> QED BY <1>u, <1>5, <1>7, <2>1, <2>2, WorldKeeps

LEMMA ReapInv ==
  ASSUME Ownership!OwnershipAssumption, OwnInv, Ownership!Reap
  PROVE  OwnInv'
<1>0. OwnTypeOK /\ WorldOK /\ Possible(table)
  BY DEF OwnInv, WorldOK
<1>1. /\ table[Root] # None /\ table[Root].zombie /\ table' = [table EXCEPT ![Root] = None] /\ exited' = TRUE
      /\ UNCHANGED <<windows, starts, owned, rows, recording, pc, known, struck, mistaken, crossed>>
  BY DEF Ownership!Reap, Ownership!code, Ownership!history
<1>2. \A q \in Pids : table'[q] = IF q = Root THEN None ELSE table[q]
  BY <1>0, <1>1 DEF OwnTypeOK
<1>3. OwnTypeOK'
  <2>1. table' \in [Pids -> Ownership!Process \cup {None}]
    BY <1>0, <1>1 DEF OwnTypeOK
  <2> QED BY <1>0, <1>1, <2>1 DEF OwnTypeOK
<1>4. Possible(table)'
  BY <1>0, <1>1, <1>2 DEF Possible
<1>5. ASSUME NEW q \in Pids, table'[q] # None, ~windows, table'[q].ppid # None
      PROVE  table'[table'[q].ppid] # None
  <2>1. table[q] # None /\ table'[q] = table[q] /\ table[q] \in Ownership!Process
    BY <1>0, <1>2, <1>5 DEF OwnTypeOK
  <2>2. table[q].ppid \in Pids /\ table[table[q].ppid] # None
    BY <1>0, <1>5, <2>1 DEF WorldOK, Ownership!Process
  <2>3. table[q].ppid # Root
    BY <1>0, <1>1, <1>5, <2>1, OwnFacts DEF Possible
  <2> QED BY <1>2, <2>1, <2>2, <2>3
<1>6. WorldOK'
  BY <1>0, <1>1, <1>2, <1>4, <1>5 DEF WorldOK
<1>7. /\ \A q \in Pids : table'[q] # None => table[q] # None /\ table'[q] = table[q]
      /\ starts <= starts' /\ (exited => exited')
  BY <1>0, <1>1, <1>2 DEF OwnTypeOK
<1>8. \A q \in Pids : table'[q] # None => GoesOn(q)
  BY <1>7 DEF GoesOn
<1> QED BY <1>1, <1>3, <1>6, <1>7, <1>8, WorldKeeps

-----------------------------------------------------------------------------
(* What the code makes of a table it has read. *)

LEMMA ChildrenDescend ==
  ASSUME NEW t, NEW p
  PROVE  /\ Ownership!Children(t, p) \subseteq Ownership!descendantsOf(t, p)
         /\ \A q \in Ownership!descendantsOf(t, p) :
              q \in Pids /\ Ownership!Children(t, q) \subseteq Ownership!descendantsOf(t, p)
         /\ \A set \in SUBSET Pids :
              Ownership!Children(t, p) \subseteq set /\ (\A q \in set : Ownership!Children(t, q) \subseteq set)
                => Ownership!descendantsOf(t, p) \subseteq set
<1> DEFINE kids(q) == Ownership!Children(t, q)
           fits(set) == kids(p) \subseteq set /\ \A q \in set : kids(q) \subseteq set
<1>1. Ownership!descendantsOf(t, p) = {q \in Pids : \A set \in SUBSET Pids : fits(set) => q \in set}
  BY DEF Ownership!descendantsOf, Ownership!Closed
<1>2. \A q : kids(q) \subseteq Pids
  BY DEF Ownership!Children
<1> HIDE DEF kids
<1>3. kids(p) \subseteq Ownership!descendantsOf(t, p)
  BY <1>1, <1>2
<1>4. \A q \in Ownership!descendantsOf(t, p) : q \in Pids /\ kids(q) \subseteq Ownership!descendantsOf(t, p)
  BY <1>1, <1>2
<1>5. \A set \in SUBSET Pids : kids(p) \subseteq set /\ (\A q \in set : kids(q) \subseteq set)
        => Ownership!descendantsOf(t, p) \subseteq set
  BY <1>1
<1> QED BY <1>3, <1>4, <1>5 DEF kids

\* A table is read, and only a stranger that is taken for the child is not recognised.
Reads(a, isAlive) ==
  /\ Ownership!Read(a, isAlive)
  /\ mistaken' \in BOOLEAN /\ (mistaken => mistaken')
  /\ isAlive /\ rows[a][Root] # None /\ owned[Root] = None => rows[a][Root].ours \/ mistaken'

\* What Absorbed records: what is recorded is of this table or stays, and it is followed.
LEMMA AbsorbedRecords ==
  ASSUME Ownership!OwnershipAssumption, OwnInv, NEW a \in Ownership!Readers, NEW isAlive \in BOOLEAN,
         Reads(a, isAlive)
  PROVE  /\ owned' \in [Pids -> Ownership!Identities \cup {None}]
         /\ \A p \in Pids :
              \/ owned'[p] = owned[p]
              \/ rows[a][p] # None /\ owned'[p] = Ownership!Identity(rows[a][p])
         /\ \A p \in Pids : rows[a][p] # None /\ owned[p] # None /\ owned[p].start = rows[a][p].start =>
              owned'[p] # None /\ owned'[p].start = rows[a][p].start
         /\ isAlive /\ rows[a][Root] # None /\ (owned[Root] # None => owned[Root].start = rows[a][Root].start)
              => owned'[Root] # None /\ owned'[Root].start = rows[a][Root].start
         /\ \A p \in Pids : rows[a][p] # None /\ owned'[p] # None /\ owned'[p].start = rows[a][p].start =>
              owned'[p].codex = rows[a][p].codex /\ (~mistaken' => rows[a][p].ours)
         /\ \A p, q \in Pids : Ownership!sameProcess(rows[a][p], owned'[p]) /\ q \in Ownership!Children(rows[a], p) =>
              owned'[q] = Ownership!Identity(rows[a][q])
<1> DEFINE first == rows[a][Root] # None /\ isAlive /\ owned[Root] = None
           with == IF first THEN [owned EXCEPT ![Root] = Ownership!Identity(rows[a][Root])] ELSE owned
           same == {q \in Pids : Ownership!sameProcess(rows[a][q], with[q])}
           found == UNION {Ownership!descendantsOf(rows[a], p) : p \in same}
<1>0. /\ OwnTypeOK /\ Possible(rows[a]) /\ Identified(rows[a]) /\ (mistaken => mistaken')
      /\ rows[a] \in [Pids -> Ownership!Process \cup {None}] /\ owned' = Ownership!Absorbed(rows[a], isAlive)
  BY DEF OwnInv, OwnTypeOK, Printouts, Reads, Ownership!Read
<1>1. /\ owned' = [p \in Pids |-> IF p \in found THEN Ownership!Identity(rows[a][p]) ELSE with[p]]
      /\ \A p \in Pids : owned'[p] = IF p \in found THEN Ownership!Identity(rows[a][p]) ELSE with[p]
  BY <1>0 DEF Ownership!Absorbed
<1>2. \A p \in Pids : rows[a][p] # None =>
        /\ rows[a][p] \in Ownership!Process /\ Ownership!Identity(rows[a][p]) \in Ownership!Identities
        /\ Ownership!Identity(rows[a][p]).start = rows[a][p].start
           /\ Ownership!Identity(rows[a][p]).codex = rows[a][p].codex
  BY <1>0 DEF OwnTypeOK, Ownership!Process, Ownership!Identity, Ownership!Identities
<1>3. \A p \in Pids : with[p] = IF p = Root /\ first THEN Ownership!Identity(rows[a][Root]) ELSE owned[p]
  BY <1>0 DEF OwnTypeOK
<1> HIDE DEF with
<1>4. \A p \in Pids : with[p] \in Ownership!Identities \cup {None}
  BY <1>0, <1>2, <1>3 DEF OwnTypeOK
<1>5. \A p \in Pids : rows[a][p] # None /\ with[p] # None /\ with[p].start = rows[a][p].start =>
        with[p].codex = rows[a][p].codex /\ (~mistaken' => rows[a][p].ours)
  BY <1>0, <1>2, <1>3 DEF Identified, Reads
<1> DEFINE good == {q \in Pids : rows[a][q] # None /\ (~mistaken' => rows[a][q].ours)}
<1>6. \A p, q \in Pids : rows[a][p] # None /\ (~mistaken' => rows[a][p].ours) /\ q \in Ownership!Children(rows[a], p)
      => q \in good
  BY <1>0 DEF Ownership!Children, Possible
<1>7. found \subseteq good
  <2> SUFFICES ASSUME NEW p \in same
               PROVE  Ownership!descendantsOf(rows[a], p) \subseteq good
    OBVIOUS
  <2>1. p \in Pids /\ rows[a][p] # None /\ (~mistaken' => rows[a][p].ours)
    BY <1>5 DEF Ownership!sameProcess
  <2>2. \A q : Ownership!Children(rows[a], q) \subseteq Pids
    BY DEF Ownership!Children
  <2>3. Ownership!Children(rows[a], p) \subseteq good
    BY <1>6, <2>1, <2>2
  <2>4. \A q \in good : Ownership!Children(rows[a], q) \subseteq good
    BY <1>6, <2>2
  <2>5. good \in SUBSET Pids
    OBVIOUS
  <2> HIDE DEF good
  <2> QED BY <2>3, <2>4, <2>5, ChildrenDescend
<1>8. ASSUME NEW p \in Pids, NEW q \in Pids, Ownership!sameProcess(rows[a][p], owned'[p]),
             q \in Ownership!Children(rows[a], p)
      PROVE  q \in found
  <2>1. CASE p \in found
    <3>1. PICK r \in same : p \in Ownership!descendantsOf(rows[a], r)
      BY <2>1
    <3>2. q \in Ownership!descendantsOf(rows[a], r)
      BY <1>8, <3>1, ChildrenDescend
    <3> QED BY <3>2
  <2>2. CASE p \notin found
    <3>1. p \in same
      BY <1>1, <1>8, <2>2
    <3>2. q \in Ownership!descendantsOf(rows[a], p)
      BY <1>8, ChildrenDescend
    <3> QED BY <3>1, <3>2
  <2> QED BY <2>1, <2>2
<1>9. \A p \in Pids : p \in found => rows[a][p] # None /\ (~mistaken' => rows[a][p].ours)
  BY <1>7
<1> HIDE DEF found, good, same
<1>10. owned' \in [Pids -> Ownership!Identities \cup {None}]
  BY <1>1, <1>2, <1>4, <1>9
<1>11. \A p \in Pids : owned'[p] = owned[p] \/ (rows[a][p] # None /\ owned'[p] = Ownership!Identity(rows[a][p]))
  BY <1>1, <1>3, <1>9
<1>12. \A p \in Pids : rows[a][p] # None /\ owned[p] # None /\ owned[p].start = rows[a][p].start =>
         owned'[p] # None /\ owned'[p].start = rows[a][p].start
  BY <1>2, <1>11, OwnFacts
<1>13. isAlive /\ rows[a][Root] # None /\ (owned[Root] # None => owned[Root].start = rows[a][Root].start)
         => owned'[Root] # None /\ owned'[Root].start = rows[a][Root].start
  BY <1>1, <1>2, <1>3, OwnFacts
<1>14. \A p \in Pids : rows[a][p] # None /\ owned'[p] # None /\ owned'[p].start = rows[a][p].start =>
         owned'[p].codex = rows[a][p].codex /\ (~mistaken' => rows[a][p].ours)
  BY <1>1, <1>2, <1>5, <1>9
<1>15. \A p, q \in Pids : Ownership!sameProcess(rows[a][p], owned'[p]) /\ q \in Ownership!Children(rows[a], p) =>
         owned'[q] = Ownership!Identity(rows[a][q])
  BY <1>1, <1>8
<1> QED BY <1>10, <1>11, <1>12, <1>13, <1>14, <1>15

\* The pids from which a table's links are followed.
First(t, isAlive) ==
  {p \in Pids : t[p] # None /\ t[p].ours /\ (t[p].start \in known \/ (t[p].start = 1 /\ isAlive))}

LEMMA LinkedIsLeast ==
  ASSUME NEW t, NEW isAlive
  PROVE  /\ Ownership!Linked(t, isAlive) \subseteq Pids
         /\ First(t, isAlive) \subseteq Ownership!Linked(t, isAlive)
         /\ \A p \in Ownership!Linked(t, isAlive) : Ownership!Kin(t, p) \subseteq Ownership!Linked(t, isAlive)
         /\ \A set \in SUBSET Pids :
              First(t, isAlive) \subseteq set /\ (\A p \in set : Ownership!Kin(t, p) \subseteq set)
                => Ownership!Linked(t, isAlive) \subseteq set
<1> DEFINE first == First(t, isAlive)
           kin(p) == Ownership!Kin(t, p)
           fits(set) == first \subseteq set /\ \A p \in set : kin(p) \subseteq set
<1>1. Ownership!Linked(t, isAlive) = {q \in Pids : \A set \in SUBSET Pids : fits(set) => q \in set}
  BY DEF Ownership!Linked, Ownership!Closed, First
<1>2. first \subseteq Pids /\ \A p : kin(p) \subseteq Pids
  BY DEF Ownership!Kin, First
<1> HIDE DEF kin, first
<1>3. first \subseteq Ownership!Linked(t, isAlive)
  BY <1>1, <1>2
<1>4. \A p \in Ownership!Linked(t, isAlive) : kin(p) \subseteq Ownership!Linked(t, isAlive)
  BY <1>1, <1>2
<1>5. \A set \in SUBSET Pids : first \subseteq set /\ (\A p \in set : kin(p) \subseteq set)
        => Ownership!Linked(t, isAlive) \subseteq set
  BY <1>1
<1>6. Ownership!Linked(t, isAlive) \subseteq Pids
  BY <1>1
<1> QED BY <1>3, <1>4, <1>5, <1>6 DEF first, kin

\* What reading a table changes.
LEMMA ReadDoes ==
  ASSUME Ownership!OwnershipAssumption, OwnInv, NEW a \in Ownership!Readers, NEW isAlive \in BOOLEAN,
         Reads(a, isAlive)
  PROVE  /\ known \subseteq known'
         /\ \A k \in known' : k \in known \/ \E p \in Ownership!Linked(rows[a], isAlive) : k = rows[a][p].start
         /\ pc.step # "done" =>
              \A p \in Ownership!Linked(rows[a], isAlive) : rows[a][p].start \in known'
         /\ ~crossed' => /\ ~crossed
                         /\ \A p \in Pids : rows[a][p] # None /\ owned[p] # None
                                            => ~(rows[a][p].start < owned[p].start)
         /\ \A b \in Ownership!Readers : b # a => rows'[b] = rows[b]
         /\ \A p \in Pids : rows'[a][p] = None
         /\ rows' \in [Ownership!Readers -> [Pids -> Ownership!Process \cup {None}]] /\ crossed' \in BOOLEAN
<1>0. /\ rows \in [Ownership!Readers -> [Pids -> Ownership!Process \cup {None}]] /\ crossed \in BOOLEAN
      /\ Ownership!NoRows \in [Pids -> Ownership!Process \cup {None}]
  BY OwnFacts DEF OwnInv, OwnTypeOK
<1>1. /\ known' = IF pc.step = "done" THEN known
                  ELSE known \cup {rows[a][p].start : p \in Ownership!Linked(rows[a], isAlive)}
      /\ crossed' = (crossed \/ \E p \in Pids : /\ rows[a][p] # None /\ owned[p] # None
                                               /\ rows[a][p].start < owned[p].start)
      /\ rows' = [rows EXCEPT ![a] = Ownership!NoRows]
  BY DEF Reads, Ownership!Read, Ownership!At
<1>2. \A b \in Ownership!Readers : b # a => rows'[b] = rows[b]
  BY <1>0, <1>1
<1>3. \A p \in Pids : rows'[a][p] = None
  BY <1>0, <1>1, OwnFacts
<1>4. rows' \in [Ownership!Readers -> [Pids -> Ownership!Process \cup {None}]]
  BY <1>0, <1>1
<1>5. crossed' \in BOOLEAN
  BY <1>0, <1>1, Zenon
<1>6. ~crossed' => /\ ~crossed
                   /\ \A p \in Pids : rows[a][p] # None /\ owned[p] # None
                                      => ~(rows[a][p].start < owned[p].start)
  BY <1>1
<1>7. known \subseteq known'
      /\ \A k \in known' : k \in known \/ \E p \in Ownership!Linked(rows[a], isAlive) : k = rows[a][p].start
  BY <1>1
<1>8. pc.step # "done" => \A p \in Ownership!Linked(rows[a], isAlive) : rows[a][p].start \in known'
  BY <1>1
<1> QED BY <1>2, <1>3, <1>4, <1>5, <1>6, <1>7, <1>8

\* Only processes that the table shows are linked in it.
LEMMA LinkedIsShown ==
  ASSUME OwnInv, NEW a \in Ownership!Readers, NEW isAlive \in BOOLEAN, NEW p \in Ownership!Linked(rows[a], isAlive)
  PROVE  p \in Pids /\ rows[a][p] # None /\ rows[a][p] \in Ownership!Process
<1> DEFINE shown == {q \in Pids : rows[a][q] # None}
<1>1. First(rows[a], isAlive) \subseteq shown
  BY DEF First
<1>2. \A q \in shown : Ownership!Kin(rows[a], q) \subseteq shown
  BY DEF Ownership!Kin
<1>3. p \in shown
  BY <1>1, <1>2, LinkedIsLeast
<1> QED BY <1>3 DEF OwnInv, OwnTypeOK

\* What is learnt from a table is recorded as the table shows it.
LEMMA LearntIsRecorded ==
  ASSUME Ownership!OwnershipAssumption, OwnInv, NEW a \in Ownership!Readers, NEW isAlive \in BOOLEAN,
         Reads(a, isAlive), ~crossed', NEW p \in Ownership!Linked(rows[a], isAlive)
  PROVE  owned'[p] # None /\ owned'[p].start = rows[a][p].start
<1> DEFINE seen == {q \in Pids : /\ rows[a][q] # None /\ rows[a][q].ours
                                 /\ owned'[q] # None /\ owned'[q].start = rows[a][q].start}
<1>0. /\ OwnTypeOK /\ Possible(rows[a]) /\ Followed(rows[a])
      /\ \A q \in Pids : windows /\ rows[a][q] # None => ~rows[a][q].zombie
      /\ \A q \in Pids : rows[a][q] # None => rows[a][q] \in Ownership!Process
      /\ \A q \in Pids : owned[q] # None => owned[q] \in Ownership!Identities
      /\ \A q \in Pids : rows[a][q] # None /\ owned[q] # None => ~(rows[a][q].start < owned[q].start)
  BY ReadDoes DEF OwnInv, OwnTypeOK, Printouts, Recognition
<1>1. First(rows[a], isAlive) \subseteq seen
  <2> SUFFICES ASSUME NEW q \in First(rows[a], isAlive)
               PROVE  q \in seen
    OBVIOUS
  <2>1. /\ q \in Pids /\ rows[a][q] # None /\ rows[a][q].ours /\ rows[a][q].start \in Nat \ {0}
        /\ rows[a][q].start \in known \/ (rows[a][q].start = 1 /\ isAlive)
        /\ owned[q] # None => owned[q].start \in Nat \ {0}
    BY <1>0 DEF First, Ownership!Process, Ownership!Identities
  <2>2. CASE rows[a][q].start \in known
    <3>1. owned[q] # None /\ owned[q].start = rows[a][q].start
      BY <1>0, <2>1, <2>2 DEF Followed
    <3> QED BY <2>1, <3>1, AbsorbedRecords
  <2>3. CASE rows[a][q].start = 1 /\ isAlive
    <3>1. q = Root
      BY <1>0, <2>1, <2>3 DEF Possible
    <3>2. owned[Root] # None => owned[Root].start = rows[a][Root].start
      BY <1>0, <2>1, <2>3, <3>1
    <3> QED BY <2>1, <2>3, <3>1, <3>2, AbsorbedRecords
  <2> QED BY <2>1, <2>2, <2>3
<1>3. ASSUME NEW q \in seen, NEW r \in Ownership!Kin(rows[a], q)
      PROVE  r \in seen
  <2>1. r \in Pids /\ rows[a][r] # None /\ rows[a][r].up = rows[a][q].start
    BY <1>3 DEF Ownership!Kin
  <2>2. rows[a][r].ppid = q /\ rows[a][r].start > rows[a][q].start /\ rows[a][r].ours = rows[a][q].ours
        /\ ~rows[a][q].zombie
    BY <1>0, <2>1 DEF Possible
  <2>3. rows[a][r] \in Ownership!Process /\ rows[a][q] \in Ownership!Process
    BY <1>0, <2>1
  <2>4. rows[a][r].start >= rows[a][q].start
    BY <2>2, <2>3 DEF Ownership!Process
  <2>5. r \in Ownership!Children(rows[a], q)
    BY <2>1, <2>2, <2>4 DEF Ownership!Children
  <2>6. Ownership!sameProcess(rows[a][q], owned'[q])
    BY <2>2 DEF Ownership!sameProcess
  <2>7. owned'[r] = Ownership!Identity(rows[a][r])
    BY <2>1, <2>5, <2>6, AbsorbedRecords
  <2>8. owned'[r].start = rows[a][r].start /\ owned'[r] \in Ownership!Identities
    BY <2>3, <2>7 DEF Ownership!Identity, Ownership!Identities, Ownership!Process
  <2> QED BY <2>1, <2>2, <2>8, OwnFacts
<1>4. p \in seen
  <2>1. \A q \in seen : Ownership!Kin(rows[a], q) \subseteq seen
    BY <1>3
  <2>2. seen \in SUBSET Pids
    OBVIOUS
  <2> HIDE DEF seen
  <2> QED BY <1>1, <2>1, <2>2, LinkedIsLeast
<1> QED BY <1>4

\* What a table showed and what the system is now.
LEMMA StillTrue ==
  ASSUME Ownership!OwnershipAssumption, OwnInv, NEW a \in Ownership!Readers, NEW isAlive \in BOOLEAN,
         Reads(a, isAlive), UNCHANGED <<windows, table, starts, exited>>
  PROVE  Records' /\ known' \subseteq Nat
<1>0. /\ OwnTypeOK /\ Records /\ Identified(table) /\ Agrees(rows[a], table)
      /\ \A p \in Pids : rows[a][p] # None => rows[a][p] \in Ownership!Process /\ rows[a][p].start \in Nat
      /\ known \subseteq Nat /\ starts \in Nat
  BY DEF OwnInv, OwnTypeOK, Records, Printouts, Ownership!Process
<1>1. PICK last \in 0..starts : Shows(rows[a], last)
  BY DEF OwnInv, Printouts
<1>2. \A p \in Pids : rows[a][p] # None => rows[a][p].start <= starts
  BY <1>0, <1>1 DEF Shows
<1>3. ASSUME NEW k \in known'
      PROVE  k \in Nat /\ k <= starts
  <2>1. CASE k \in known
    BY <1>0, <2>1 DEF Records
  <2>2. CASE k \notin known
    <3>1. PICK p \in Ownership!Linked(rows[a], isAlive) : k = rows[a][p].start
      BY <1>3, <2>2, ReadDoes
    <3> QED BY <1>0, <1>2, <3>1, LinkedIsShown
  <2> QED BY <2>1, <2>2
<1>4. ASSUME NEW p \in Pids, owned'[p] # None
      PROVE  owned'[p].start <= starts
  <2>1. CASE owned'[p] = owned[p]
    BY <1>0, <1>4, <2>1 DEF Records
  <2>2. CASE rows[a][p] # None /\ owned'[p] = Ownership!Identity(rows[a][p])
    <3>1. owned'[p].start = rows[a][p].start
      BY <2>2 DEF Ownership!Identity
    <3> QED BY <1>2, <2>2, <3>1
  <2> QED BY <2>1, <2>2, AbsorbedRecords
<1>5. ASSUME NEW p \in Pids, table[p] # None, owned'[p] # None, owned'[p].start = table[p].start
      PROVE  owned'[p].codex = table[p].codex /\ (~mistaken' => table[p].ours)
  <2>1. CASE owned'[p] = owned[p]
    BY <1>0, <1>5, <2>1 DEF Identified, Reads
  <2>2. CASE rows[a][p] # None /\ owned'[p] = Ownership!Identity(rows[a][p])
    <3>1. owned'[p].start = rows[a][p].start
      BY <2>2 DEF Ownership!Identity
    <3>2. rows[a][p].ours = table[p].ours /\ rows[a][p].codex = table[p].codex
      BY <1>0, <1>5, <2>2, <3>1 DEF Agrees
    <3> QED BY <1>5, <2>2, <3>1, <3>2, AbsorbedRecords
  <2> QED BY <2>1, <2>2, AbsorbedRecords
<1>6. Identified(table)'
  BY <1>5 DEF Identified
<1>7. ~exited' /\ owned'[Root] # None => owned'[Root].start = 1
  <2> SUFFICES ASSUME ~exited, owned'[Root] # None
               PROVE  owned'[Root].start = 1
    OBVIOUS
  <2>1. CASE owned'[Root] = owned[Root]
    BY <1>0, <2>1 DEF Records
  <2>2. CASE rows[a][Root] # None /\ owned'[Root] = Ownership!Identity(rows[a][Root])
    <3>1. owned'[Root].start = rows[a][Root].start /\ rows[a][Root].start = 1
      BY <2>2 DEF Ownership!Identity, OwnInv, Printouts
    <3> QED BY <3>1
  <2> QED BY <2>1, <2>2, AbsorbedRecords, OwnFacts
<1>8. known' \subseteq Nat /\ \A k \in known' : k <= starts'
  BY <1>3
<1>9. \A p \in Pids : owned'[p] # None => owned'[p].start <= starts'
  BY <1>4
<1> QED BY <1>6, <1>7, <1>8, <1>9 DEF Records

\* The other reader's table is as good as before.
LEMMA PrintoutsStay ==
  ASSUME Ownership!OwnershipAssumption, OwnInv, NEW a \in Ownership!Readers, NEW isAlive \in BOOLEAN,
         Reads(a, isAlive), UNCHANGED <<windows, table, starts, exited>>
  PROVE  Printouts'
<1> SUFFICES ASSUME NEW b \in Ownership!Readers
             PROVE  (/\ Possible(rows[b]) /\ Identified(rows[b]) /\ Agrees(rows[b], table)
                     /\ \A c \in Ownership!Readers : Agrees(rows[b], rows[c])
                     /\ \A p \in Pids : windows /\ rows[b][p] # None => ~rows[b][p].zombie
                     /\ ~exited /\ rows[b][Root] # None => rows[b][Root].start = 1 /\ rows[b][Root].ours
                     /\ \E last \in 0..starts : Shows(rows[b], last))'
  BY DEF Printouts
<1>1. CASE b = a
  <2>1. PICK t : t = rows'[a]
    OBVIOUS
  <2>2. \A p \in Pids : t[p] = None
    BY <2>1, ReadDoes
  <2>3. Possible(rows[b])' /\ Identified(rows[b])'
    BY <1>1, <2>1, <2>2 DEF Possible, Identified
  <2>4. Agrees(rows[b], table)' /\ \A c \in Ownership!Readers : Agrees(rows[b], rows[c])'
    BY <1>1, <2>1, <2>2 DEF Agrees
  <2>5. 0 \in 0..starts' /\ Shows(rows[b], 0)'
    <3>1. starts \in Nat /\ \A p \in Pids : table[p] # None => table[p].start \in Nat \ {0}
      BY DEF OwnInv, OwnTypeOK, Ownership!Process
    <3> QED BY <1>1, <2>1, <2>2, <3>1 DEF Shows, Before
  <2> QED BY <1>1, <2>1, <2>2, <2>3, <2>4, <2>5, OwnFacts
<1>2. CASE b # a
  <2>0. rows'[b] = rows[b]
    BY <1>2, ReadDoes
  <2>1. Possible(rows[b])' /\ Agrees(rows[b], table)' /\ \E last \in 0..starts' : Shows(rows[b], last)'
    <3>1. PICK last \in 0..starts : Shows(rows[b], last)
      BY DEF OwnInv, Printouts
    <3>2. Shows(rows[b], last)'
      BY <2>0, <3>1 DEF Shows, Before
    <3> QED BY <2>0, <3>2 DEF OwnInv, Printouts, Possible, Agrees
  <2>2. \A c \in Ownership!Readers : Agrees(rows[b], rows[c])'
    <3> SUFFICES ASSUME NEW c \in Ownership!Readers
                 PROVE  Agrees(rows[b], rows[c])'
      OBVIOUS
    <3>1. CASE c = a
      BY <3>1, ReadDoes DEF Agrees
    <3>2. CASE c # a
      BY <2>0, <3>2, ReadDoes DEF OwnInv, Printouts, Agrees
    <3> QED BY <3>1, <3>2
  <2>3. Identified(rows[b])'
    <3> SUFFICES ASSUME NEW p \in Pids, rows[b][p] # None, owned'[p] # None, owned'[p].start = rows[b][p].start
                 PROVE  owned'[p].codex = rows[b][p].codex /\ (~mistaken' => rows[b][p].ours)
      BY <2>0 DEF Identified
    <3>1. CASE owned'[p] = owned[p]
      BY <3>1 DEF OwnInv, Printouts, Identified, Reads
    <3>2. CASE rows[a][p] # None /\ owned'[p] = Ownership!Identity(rows[a][p])
      <4>1. owned'[p].start = rows[a][p].start
        BY <3>2 DEF Ownership!Identity
      <4>2. rows[a][p].ours = rows[b][p].ours /\ rows[a][p].codex = rows[b][p].codex
        BY <3>2, <4>1 DEF OwnInv, Printouts, Agrees
      <4> QED BY <3>2, <4>1, <4>2, AbsorbedRecords
    <3> QED BY <3>1, <3>2, AbsorbedRecords
  <2> QED BY <2>0, <2>1, <2>2, <2>3 DEF OwnInv, Printouts
<1> QED BY <1>1, <1>2

\* What is known is still recorded, if no table was read too late.
LEMMA StillRecognised ==
  ASSUME Ownership!OwnershipAssumption, OwnInv, NEW a \in Ownership!Readers, NEW isAlive \in BOOLEAN,
         Reads(a, isAlive), UNCHANGED <<windows, table, starts, exited>>, ~crossed'
  PROVE  Recognised' /\ \A b \in Ownership!Readers : Followed(rows[b])'
<1>0. /\ OwnTypeOK /\ Recognition /\ Printouts /\ Recognised
      /\ \A p \in Pids : table[p] # None => table[p] \in Ownership!Process /\ table[p].start \in Nat
      /\ \A p \in Pids : rows[a][p] # None => rows[a][p] \in Ownership!Process /\ rows[a][p].start \in Nat
      /\ \A p \in Pids : owned[p] # None => owned[p].start \in Nat
      /\ \A p \in Pids : rows[a][p] # None /\ owned[p] # None => ~(rows[a][p].start < owned[p].start)
  BY ReadDoes DEF OwnInv, OwnTypeOK, Ownership!Process, Ownership!Identities, Recognition
<1>1. PICK last \in 0..starts : Shows(rows[a], last)
  BY <1>0 DEF Printouts
<1>2. last \in Nat
  BY <1>0, <1>1 DEF OwnTypeOK
<1>3. ASSUME NEW p \in Pids, table[p] # None, table[p].start \in known'
      PROVE  owned'[p] # None /\ owned'[p].start = table[p].start
  <2>1. CASE table[p].start \in known
    <3>1. owned[p] # None /\ owned[p].start = table[p].start
      BY <1>0, <1>3, <2>1 DEF Recognised
    <3>2. CASE owned'[p] = owned[p]
      BY <3>1, <3>2
    <3>3. CASE rows[a][p] # None /\ owned'[p] = Ownership!Identity(rows[a][p])
      <4>1. table[p].start <= rows[a][p].start /\ rows[a][p].start <= last
        BY <1>0, <1>1, <1>3, <3>1, <3>3 DEF Shows
      <4>2. table[p].start <= last
        BY <1>0, <1>2, <1>3, <3>3, <4>1
      <4>3. rows[a][p].start = table[p].start
        BY <1>1, <1>3, <3>3, <4>2 DEF Shows, Before
      <4> QED BY <1>3, <3>1, <3>3, <4>3, AbsorbedRecords
    <3> QED BY <3>2, <3>3, AbsorbedRecords
  <2>2. CASE table[p].start \notin known
    <3>1. PICK q \in Ownership!Linked(rows[a], isAlive) : table[p].start = rows[a][q].start
      BY <1>3, <2>2, ReadDoes
    <3>2. q \in Pids /\ rows[a][q] # None
      BY <3>1, LinkedIsShown
    <3>3. p = q
      BY <1>0, <1>3, <3>1, <3>2 DEF Printouts, Agrees
    <3> QED BY <3>1, <3>3, LearntIsRecorded
  <2> QED BY <2>1, <2>2
<1>4. ASSUME NEW b \in Ownership!Readers, NEW p \in Pids, rows'[b][p] # None, rows'[b][p].start \in known'
      PROVE  owned'[p] # None /\ owned'[p].start >= rows'[b][p].start
  <2>1. /\ b # a /\ rows'[b] = rows[b] /\ rows[b][p] # None
        /\ rows[b][p] \in Ownership!Process /\ rows[b][p].start \in Nat
    BY <1>0, <1>4, ReadDoes DEF OwnTypeOK, Ownership!Process
  <2>2. CASE rows[b][p].start \in known
    <3>1. owned[p] # None /\ owned[p].start >= rows[b][p].start
      BY <1>0, <2>1, <2>2 DEF Recognition, Followed
    <3>2. CASE owned'[p] = owned[p]
      BY <2>1, <3>1, <3>2
    <3>3. CASE rows[a][p] # None /\ owned'[p] = Ownership!Identity(rows[a][p])
      <4>1. owned'[p] # None /\ owned'[p].start = rows[a][p].start
        <5>1. Ownership!Identity(rows[a][p]) \in Ownership!Identities
          BY <1>0, <3>3 DEF Ownership!Identity, Ownership!Identities, Ownership!Process
        <5> QED BY <3>3, <5>1, OwnFacts DEF Ownership!Identity
      <4> QED BY <1>0, <2>1, <3>1, <3>3, <4>1
    <3> QED BY <3>2, <3>3, AbsorbedRecords
  <2>3. CASE rows[b][p].start \notin known
    <3>1. PICK q \in Ownership!Linked(rows[a], isAlive) : rows[b][p].start = rows[a][q].start
      BY <1>4, <2>1, <2>3, ReadDoes
    <3>2. q \in Pids /\ rows[a][q] # None
      BY <3>1, LinkedIsShown
    <3>3. p = q
      BY <1>0, <2>1, <3>1, <3>2 DEF Printouts, Agrees
    <3>4. owned'[p] # None /\ owned'[p].start = rows[b][p].start
      BY <3>1, <3>3, LearntIsRecorded
    <3> QED BY <2>1, <3>4
  <2> QED BY <2>2, <2>3
<1> QED BY <1>3, <1>4 DEF Recognised, Followed


-----------------------------------------------------------------------------
(* The code's steps. *)

LEMMA Untouched ==
  ASSUME OwnInv, UNCHANGED <<windows, table, starts, exited>>
  PROVE  WorldOK'
BY DEF OwnInv, WorldOK, Possible

LEMMA Placed ==
  ASSUME OwnInv, NEW step \in Places, NEW round \in Nat, Ownership!GotoRound(step, round)
  PROVE  /\ pc'.step = step
         /\ pc' \in Terminating
<1>1. pc \in [step : Places, round : Nat, scope : {"tree", "writer"}]
  BY DEF OwnInv, OwnTypeOK, Terminating
<1>2. pc' = [pc EXCEPT !.step = step, !.round = round]
  BY DEF Ownership!GotoRound
<1>3. pc' = [step |-> step, round |-> round, scope |-> pc.scope]
  BY <1>1, <1>2
<1> QED BY <1>1, <1>3 DEF Terminating

LEMMA NotDone ==
  ASSUME pc'.step # "done"
  PROVE  Ownership!Confirmed'
BY DEF Ownership!Confirmed, Ownership!At

\* A confirmation stays what it was.
LEMMA StillConfirmed ==
  ASSUME OwnInv, UNCHANGED <<table, pc>>, pc.step = "done" => known' = known, crossed => crossed'
  PROVE  Ownership!Confirmed'
BY DEF OwnInv, StopsTheTree, Ownership!StopsTheTree, Ownership!Confirmed, Ownership!At, Ownership!Living

\* A step of the code that reads no table.
LEMMA QuietInv ==
  ASSUME Ownership!OwnershipAssumption, OwnInv,
         UNCHANGED <<windows, table, starts, exited, owned, rows, known, struck, crossed>>,
         recording' \in [step : {"none", "list", "listed", "over"}, alive : BOOLEAN],
         mistaken' \in BOOLEAN, mistaken => mistaken',
         pc' \in Terminating, pc'.step = "listed" => pc.step = "listed", Ownership!Confirmed'
  PROVE  OwnInv'
<1>0. OwnTypeOK /\ WorldOK /\ Printouts /\ Records /\ StopsTheTree /\ (~crossed => Recognition)
  BY DEF OwnInv
<1>1. OwnTypeOK'
  BY <1>0 DEF OwnTypeOK
<1>2. Printouts'
  BY <1>0 DEF Printouts, Possible, Identified, Agrees, Shows, Before
<1>3. Records'
  BY <1>0 DEF Records, Identified
<1>4. ~crossed' => Recognition'
  BY <1>0 DEF Recognition, Recognised, Followed, Guarded, Older, Later, Shows, Before
<1>5. StopsTheTree'
  BY <1>0 DEF StopsTheTree, Ownership!StopsTheTree, Ownership!OnlyOurs
<1> QED BY <1>1, <1>2, <1>3, <1>4, <1>5, Untouched DEF OwnInv

LEMMA QuietSteps ==
  ASSUME Ownership!OwnershipAssumption, OwnInv,
         \/ Ownership!record \/ Ownership!terminate \/ Ownership!ProcessDiscoveryError
         \/ Ownership!waitUntilGone \/ Ownership!terminateWithoutDiscovery
  PROVE  OwnInv'
<1>0. /\ OwnTypeOK /\ pc.round \in Nat /\ pc.step \in Places /\ pc \in Terminating /\ mistaken \in BOOLEAN
      /\ pc \in [step : Places, round : Nat, scope : {"tree", "writer"}] /\ exited \in BOOLEAN
      /\ recording \in [step : {"none", "list", "listed", "over"}, alive : BOOLEAN]
  BY DEF OwnInv, OwnTypeOK, Terminating
<1>1. CASE Ownership!record
  <2>1. /\ recording' = [step |-> "list", alive |-> ~exited]
        /\ UNCHANGED <<windows, table, starts, exited, owned, rows, pc, known, struck, mistaken, crossed>>
    BY <1>1 DEF Ownership!record, Ownership!rootAlive, Ownership!world, Ownership!history
  <2>2. recording' \in [step : {"none", "list", "listed", "over"}, alive : BOOLEAN]
    BY <1>0, <2>1
  <2> QED BY <1>0, <2>1, <2>2, StillConfirmed, QuietInv
<1>2. CASE Ownership!terminate
  <2>1. UNCHANGED <<windows, table, starts, exited, owned, rows, recording, known, struck, mistaken, crossed>>
    BY <1>2 DEF Ownership!terminate, Ownership!world, Ownership!history
  <2>2. pc'.step = "list" /\ pc' \in Terminating
    BY <1>2 DEF Ownership!terminate, Places, Terminating
  <2> QED BY <1>0, <2>1, <2>2, NotDone, QuietInv
<1>3. CASE Ownership!ProcessDiscoveryError
  <2>1. UNCHANGED <<windows, table, starts, exited, owned, rows, known, struck, mistaken, crossed>>
    BY <1>3 DEF Ownership!ProcessDiscoveryError, Ownership!world, Ownership!history
  <2>2. CASE Ownership!RecordIsOver /\ UNCHANGED pc
    <3>1. recording' \in [step : {"none", "list", "listed", "over"}, alive : BOOLEAN]
      BY <1>0, <2>2 DEF Ownership!RecordIsOver
    <3> QED BY <1>0, <2>1, <2>2, <3>1, StillConfirmed, QuietInv
  <2>3. CASE (IF pc.round = 1 THEN Ownership!Goto("fallback") ELSE Ownership!Goto("failed"))
             /\ UNCHANGED recording
    <3>1. pc'.step \in {"fallback", "failed"} /\ pc' \in Terminating
      BY <1>0, <2>3 DEF Ownership!Goto, Places, Terminating
    <3> QED BY <1>0, <2>1, <2>3, <3>1, NotDone, QuietInv
  <2> QED BY <1>3, <2>2, <2>3 DEF Ownership!ProcessDiscoveryError
<1>4. CASE Ownership!waitUntilGone
  <2>1. UNCHANGED <<windows, table, starts, exited, owned, rows, recording, known, struck, mistaken, crossed>>
    BY <1>4 DEF Ownership!waitUntilGone, Ownership!world, Ownership!history
  <2>2. pc'.step = "list" /\ pc' \in Terminating
    <3>1. Ownership!GotoRound("list", pc.round + 1)
      BY <1>4 DEF Ownership!waitUntilGone
    <3>2. pc.round + 1 \in Nat
      BY <1>0
    <3>3. "list" \in Places
      BY DEF Places
    <3> QED BY <3>1, <3>2, <3>3, Placed
  <2> QED BY <1>0, <2>1, <2>2, NotDone, QuietInv
<1>5. CASE Ownership!terminateWithoutDiscovery
  <2>1. UNCHANGED <<windows, table, starts, exited, owned, rows, recording, known, struck, mistaken, crossed>>
    BY <1>5 DEF Ownership!terminateWithoutDiscovery, Ownership!world, Ownership!history
  <2>2. pc'.step \in {"fallback wait", "fallback end"} /\ pc' \in Terminating
    BY <1>0, <1>5 DEF Ownership!terminateWithoutDiscovery, Ownership!Goto, Places, Terminating
  <2> QED BY <1>0, <2>1, <2>2, NotDone, QuietInv
<1> QED BY <1>1, <1>2, <1>3, <1>4, <1>5

LEMMA FallbackSteps ==
  ASSUME Ownership!OwnershipAssumption, OwnInv, Ownership!FallbackWait \/ Ownership!FallbackEnd
  PROVE  OwnInv'
<1>0. /\ OwnTypeOK /\ pc.round \in Nat /\ pc.step \in Places
      /\ pc \in [step : Places, round : Nat, scope : {"tree", "writer"}] /\ mistaken \in BOOLEAN
      /\ recording \in [step : {"none", "list", "listed", "over"}, alive : BOOLEAN]
  BY DEF OwnInv, OwnTypeOK, Terminating
<1>1. CASE Ownership!FallbackWait
  <2>1. UNCHANGED <<windows, table, starts, exited, owned, rows, recording, known, struck, crossed>>
    BY <1>1 DEF Ownership!FallbackWait, Ownership!world
  <2>2. /\ pc'.step \in {"fallback wait", "fallback end"}
        /\ pc' \in Terminating
    <3>1. Ownership!GotoRound("fallback end", 1) \/ Ownership!GotoRound("fallback wait", 2)
      BY <1>1 DEF Ownership!FallbackWait
    <3>2. "fallback end" \in Places /\ "fallback wait" \in Places
      BY DEF Places
    <3>3. 1 \in Nat /\ 2 \in Nat
      OBVIOUS
    <3> QED BY <3>1, <3>2, <3>3, Placed
  <2>3. mistaken' \in BOOLEAN /\ (mistaken => mistaken')
    <3>1. mistaken' = mistaken \/ mistaken' = (mistaken \/ ~table[Root].ours)
      BY <1>1 DEF Ownership!FallbackWait
    <3> QED BY <1>0, <3>1, Zenon
  <2> QED BY <1>0, <2>1, <2>2, <2>3, NotDone, QuietInv
<1>2. CASE Ownership!FallbackEnd
  <2>1. UNCHANGED <<windows, table, starts, exited, owned, rows, recording, known, struck, mistaken, crossed>>
    BY <1>2 DEF Ownership!FallbackEnd, Ownership!world, Ownership!history
  <2>2. /\ pc'.step \in {"done", "failed"} /\ pc'.scope = pc.scope
        /\ pc' \in Terminating
        /\ pc'.step = "done" => pc.scope = "writer" /\ Ownership!Remaining = {}
    BY <1>0, <1>2 DEF Ownership!FallbackEnd, Ownership!Goto, Places, Terminating
  <2>3. Ownership!Confirmed'
    <3> SUFFICES ASSUME pc'.step = "done", ~crossed, NEW p \in Pids, table[p] # None, table[p].codex,
                        table[p].start \in known
                 PROVE  FALSE
      BY <2>1, <2>2 DEF Ownership!Confirmed, Ownership!At, Ownership!Living
    <3>1. owned[p] # None /\ owned[p].start = table[p].start /\ owned[p].codex = table[p].codex
      BY DEF OwnInv, Records, Recognition, Recognised, Identified
    <3>2. p \in Ownership!Remaining
      BY <3>1 DEF Ownership!Remaining, Ownership!InScope
    <3> QED BY <2>2, <3>2
  <2> QED BY <1>0, <2>1, <2>2, <2>3, QuietInv
<1> QED BY <1>1, <1>2

\* A table is printed: for now it is the truth, but for what Windows leaves out.
LEMMA PrintedInv ==
  ASSUME Ownership!OwnershipAssumption, OwnInv, NEW a \in Ownership!Readers,
         rows' = [rows EXCEPT ![a] = Ownership!Printed],
         UNCHANGED <<windows, table, starts, exited, owned, known, struck, mistaken, crossed>>,
         recording' \in [step : {"none", "list", "listed", "over"}, alive : BOOLEAN], pc' \in Terminating,
         a = "record" => pc' = pc, a = "terminate" => pc'.step # "done"
  PROVE  OwnInv'
<1> DEFINE t == rows'[a]
<1>0. /\ OwnTypeOK /\ WorldOK /\ Printouts /\ Records /\ StopsTheTree /\ Possible(table) /\ Identified(table)
      /\ starts \in Nat \ {0}
      /\ \A p \in Pids : table[p] # None => table[p] \in Ownership!Process /\ table[p].start <= starts
      /\ rows \in [Ownership!Readers -> [Pids -> Ownership!Process \cup {None}]]
  BY DEF OwnInv, WorldOK, Records, OwnTypeOK
<1>1. /\ t = [p \in Pids |-> IF windows /\ table[p] # None /\ table[p].zombie THEN None ELSE table[p]]
      /\ \A b \in Ownership!Readers : b # a => rows'[b] = rows[b]
  BY <1>0 DEF Ownership!Printed
<1>2. /\ \A p \in Pids : /\ t[p] = None \/ t[p] = table[p]
                         /\ t[p] = None /\ table[p] # None => windows /\ table[p].zombie
                         /\ windows /\ t[p] # None => ~t[p].zombie
      /\ t \in [Pids -> Ownership!Process \cup {None}]
  BY <1>0, <1>1 DEF OwnTypeOK
<1>3. rows' \in [Ownership!Readers -> [Pids -> Ownership!Process \cup {None}]]
  <2>1. Ownership!Printed \in [Pids -> Ownership!Process \cup {None}]
    BY <1>0 DEF Ownership!Printed, OwnTypeOK
  <2> QED BY <1>0, <2>1
<1> HIDE DEF t
<1>4. OwnTypeOK'
  BY <1>0, <1>3 DEF OwnTypeOK
<1>5. Possible(t) /\ Identified(t) /\ Agrees(t, table) /\ Agrees(t, t)
      /\ \A b \in Ownership!Readers : Agrees(t, rows[b]) /\ Agrees(rows[b], t)
  <2>1. Possible(t) /\ Identified(t)
    BY <1>0, <1>2 DEF Possible, Identified
  <2>2. Agrees(t, table) /\ Agrees(t, t)
    BY <1>0, <1>2 DEF Possible, Agrees
  <2>3. ASSUME NEW b \in Ownership!Readers
        PROVE  Agrees(t, rows[b]) /\ Agrees(rows[b], t)
    <3>1. Agrees(rows[b], table)
      BY <1>0 DEF Printouts
    <3> QED BY <1>2, <3>1 DEF Agrees
  <2> QED BY <2>1, <2>2, <2>3
<1>6. starts \in 0..starts /\ Shows(t, starts)
  <2>1. \A p \in Pids : t[p] # None => t[p].start <= starts
    BY <1>0, <1>2
  <2>2. Before(t, table, starts)
    BY <1>2 DEF Before
  <2> QED BY <1>0, <2>1, <2>2 DEF Shows
<1>7. Printouts'
  <2> SUFFICES ASSUME NEW b \in Ownership!Readers
               PROVE  (/\ Possible(rows[b]) /\ Identified(rows[b]) /\ Agrees(rows[b], table)
                       /\ \A c \in Ownership!Readers : Agrees(rows[b], rows[c])
                       /\ \A p \in Pids : windows /\ rows[b][p] # None => ~rows[b][p].zombie
                       /\ ~exited /\ rows[b][Root] # None => rows[b][Root].start = 1 /\ rows[b][Root].ours
                       /\ \E last \in 0..starts : Shows(rows[b], last))'
    BY DEF Printouts
  <2>1. CASE b = a
    <3>0. rows'[b] = t
      BY <2>1 DEF t
    <3>1. Possible(rows[b])' /\ Identified(rows[b])' /\ Agrees(rows[b], table)'
      BY <1>5, <3>0 DEF Possible, Identified, Agrees
    <3>2. \A c \in Ownership!Readers : Agrees(rows[b], rows[c])'
      <4> SUFFICES ASSUME NEW c \in Ownership!Readers
                   PROVE  Agrees(rows[b], rows[c])'
        OBVIOUS
      <4>1. CASE c = a
        <5>1. rows'[c] = t
          BY <4>1 DEF t
        <5> QED BY <1>5, <3>0, <5>1 DEF Agrees
      <4>2. CASE c # a
        BY <1>1, <1>5, <3>0, <4>2 DEF Agrees
      <4> QED BY <4>1, <4>2
    <3>3. \A p \in Pids : windows' /\ rows'[b][p] # None => ~rows'[b][p].zombie
      BY <1>2, <3>0
    <3>4. ~exited' /\ rows'[b][Root] # None => rows'[b][Root].start = 1 /\ rows'[b][Root].ours
      BY <1>0, <1>2, <3>0, OwnFacts DEF WorldOK
    <3>5. Shows(rows[b], starts)'
      BY <1>6, <3>0 DEF Shows, Before
    <3> QED BY <1>6, <3>1, <3>2, <3>3, <3>4, <3>5
  <2>2. CASE b # a
    <3>0. rows'[b] = rows[b]
      BY <1>1, <2>2
    <3>1. Possible(rows[b])' /\ Identified(rows[b])' /\ Agrees(rows[b], table)'
      BY <1>0, <3>0 DEF Printouts, Possible, Identified, Agrees
    <3>2. \A c \in Ownership!Readers : Agrees(rows[b], rows[c])'
      <4> SUFFICES ASSUME NEW c \in Ownership!Readers
                   PROVE  Agrees(rows[b], rows[c])'
        OBVIOUS
      <4>1. CASE c = a
        <5>1. rows'[c] = t
          BY <4>1 DEF t
        <5> QED BY <1>5, <3>0, <5>1 DEF Agrees
      <4>2. CASE c # a
        BY <1>0, <1>1, <3>0, <4>2 DEF Printouts, Agrees
      <4> QED BY <4>1, <4>2
    <3>3. /\ \A p \in Pids : windows' /\ rows'[b][p] # None => ~rows'[b][p].zombie
          /\ ~exited' /\ rows'[b][Root] # None => rows'[b][Root].start = 1 /\ rows'[b][Root].ours
      BY <1>0, <3>0 DEF Printouts
    <3>4. \E last \in 0..starts' : Shows(rows[b], last)'
      <4>1. PICK last \in 0..starts : Shows(rows[b], last)
        BY <1>0 DEF Printouts
      <4>2. Shows(rows[b], last)'
        BY <3>0, <4>1 DEF Shows, Before
      <4> QED BY <4>1, <4>2
    <3> QED BY <3>1, <3>2, <3>3, <3>4
  <2> QED BY <2>1, <2>2
<1>8. Records'
  BY <1>0 DEF Records, Identified
<1>9. ASSUME ~crossed'
      PROVE  Recognition'
  <2>0. Recognition /\ Recognised
    BY <1>9 DEF OwnInv, Recognition
  <2>1. Recognised'
    BY <2>0 DEF Recognised
  <2>2. ASSUME NEW b \in Ownership!Readers
        PROVE  Followed(rows[b])'
    <3>1. CASE b = a
      <4>1. \A p \in Pids : t[p] # None /\ t[p].start \in known => owned[p] # None /\ owned[p].start >= t[p].start
        <5>1. \A p \in Pids : owned[p] # None => owned[p].start \in Nat
          BY <1>0 DEF OwnTypeOK, Ownership!Identities
        <5> QED BY <1>2, <2>0, <5>1 DEF Recognised
      <4> QED BY <3>1, <4>1 DEF Followed, t
    <3>2. CASE b # a
      BY <1>1, <2>0, <3>2 DEF Recognition, Followed
    <3> QED BY <3>1, <3>2
  <2>3. ASSUME pc'.step = "listed"
        PROVE  \E last \in 0..starts' : Guarded(rows["terminate"], rows["record"], last)'
    <3>0. PICK T, R : T = rows'["terminate"] /\ R = rows'["record"]
      OBVIOUS
    <3>1. CASE a = "terminate"
      <4>1. T = t /\ R = rows["record"]
        BY <1>1, <3>0, <3>1, ReadersAre DEF t
      <4>2. \A p \in Pids : R[p] # None => ~(R[p].start > starts)
        <5>1. PICK last \in 0..starts : Shows(R, last)
          BY <1>0, <4>1, ReadersAre DEF Printouts
        <5>2. \A p \in Pids : R[p] # None => R[p].start \in Nat
          BY <1>0, <4>1, ReadersAre DEF Ownership!Process
        <5> QED BY <1>0, <5>1, <5>2 DEF Shows
      <4>3. \A p \in Pids : table[p] # None => ~(table[p].start > starts)
        BY <1>0 DEF Ownership!Process
      <4>4. Older(T, table, starts)' /\ Older(T, R, starts)' /\ Later(T, R, starts)' /\ Shows(T, starts)'
        BY <1>6, <4>1, <4>2, <4>3 DEF Older, Later, Shows, Before
      <4>5. Guarded(T, R, starts)'
        BY <1>0, <4>4 DEF Guarded
      <4> QED BY <1>6, <3>0, <4>5
    <3>2. CASE a = "record"
      <4>1. R = t /\ T = rows["terminate"] /\ pc.step = "listed"
        BY <1>1, <2>3, <3>0, <3>2, ReadersAre DEF t
      <4>2. PICK last \in 0..starts : Guarded(T, rows["record"], last)
        BY <2>0, <4>1 DEF Recognition
      <4>3. Older(T, table, last)' /\ Shows(T, last)' /\ 1 <= last
        BY <4>2 DEF Guarded, Older, Shows, Before
      <4>4. Older(T, R, last)'
        BY <1>2, <4>1, <4>3 DEF Older
      <4>5. Later(T, R, last)'
        BY <1>2, <4>1, <4>3 DEF Later, Shows, Before
      <4>6. Guarded(T, R, last)'
        BY <4>3, <4>4, <4>5 DEF Guarded
      <4> QED BY <3>0, <4>6
    <3> QED BY <3>1, <3>2, ReadersAre
  <2> QED BY <2>1, <2>2, <2>3 DEF Recognition
<1>10. StopsTheTree'
  <2>1. Ownership!OnlyOurs'
    BY <1>0 DEF StopsTheTree, Ownership!StopsTheTree, Ownership!OnlyOurs
  <2>2. Ownership!Confirmed'
    BY StillConfirmed, NotDone, ReadersAre
  <2> QED BY <2>1, <2>2 DEF StopsTheTree, Ownership!StopsTheTree
<1> QED BY <1>4, <1>7, <1>8, <1>9, <1>10, Untouched DEF OwnInv

LEMMA ListInv ==
  ASSUME Ownership!OwnershipAssumption, OwnInv, Ownership!listProcesses
  PROVE  OwnInv'
<1>0. /\ pc \in Terminating /\ pc \in [step : Places, round : Nat, scope : {"tree", "writer"}]
      /\ recording \in [step : {"none", "list", "listed", "over"}, alive : BOOLEAN]
  BY DEF OwnInv, OwnTypeOK, Terminating
<1>1. UNCHANGED <<windows, table, starts, exited, owned, known, struck, mistaken, crossed>>
  BY DEF Ownership!listProcesses, Ownership!world, Ownership!history
<1>2. CASE recording' = [recording EXCEPT !.step = "listed"] /\ UNCHANGED pc
           /\ rows' = [rows EXCEPT !["record"] = Ownership!Printed]
  <2>1. PICK a \in Ownership!Readers : a = "record" /\ rows' = [rows EXCEPT ![a] = Ownership!Printed]
    BY <1>2, ReadersAre
  <2>2. recording' \in [step : {"none", "list", "listed", "over"}, alive : BOOLEAN]
    BY <1>0, <1>2
  <2>3. a # "terminate"
    BY <2>1
  <2> QED BY <1>0, <1>1, <1>2, <2>1, <2>2, <2>3, PrintedInv
<1>3. CASE Ownership!Goto("listed") /\ UNCHANGED recording
           /\ rows' = [rows EXCEPT !["terminate"] = Ownership!Printed]
  <2>1. PICK a \in Ownership!Readers : a = "terminate" /\ rows' = [rows EXCEPT ![a] = Ownership!Printed]
    BY <1>3, ReadersAre
  <2>2. pc' \in Terminating /\ pc'.step = "listed"
    BY <1>0, <1>3 DEF Ownership!Goto, Places, Terminating
  <2>3. a # "record"
    BY <2>1
  <2> QED BY <1>0, <1>1, <1>3, <2>1, <2>2, <2>3, PrintedInv
<1> QED BY <1>2, <1>3 DEF Ownership!listProcesses

\* What record() learns has a known ancestor in the table that terminate() will read, or is in it.
LEMMA GuardStays ==
  ASSUME Ownership!OwnershipAssumption, OwnInv, NEW a \in Ownership!Readers, NEW isAlive \in BOOLEAN,
         Reads(a, isAlive), UNCHANGED <<windows, table, starts, exited, pc>>, ~crossed', a = "record",
         pc.step = "listed"
  PROVE  \E last \in 0..starts : Guarded(rows["terminate"], rows["record"], last)'
<1>0. PICK T, R : T = rows["terminate"] /\ R = rows[a]
  OBVIOUS
<1>1. PICK last \in 0..starts : Guarded(T, R, last)
  BY <1>0, ReadDoes DEF OwnInv, Recognition
<1>2. /\ last \in Nat /\ 1 <= last /\ Shows(T, last) /\ Older(T, table, last) /\ Older(T, R, last)
      /\ Later(T, R, last)
  BY <1>1 DEF Guarded, OwnInv, OwnTypeOK
<1>3. /\ Possible(R) /\ Agrees(R, T) /\ Agrees(R, table)
      /\ \A q \in Pids : windows /\ R[q] # None => ~R[q].zombie
  BY <1>0, ReadersAre DEF OwnInv, Printouts
<1>4. /\ \A p \in Pids : R[p] # None => R[p].start \in Nat
      /\ \A p \in Pids : table[p] # None => table[p].start \in Nat
  BY <1>0 DEF OwnInv, OwnTypeOK, Ownership!Process
<1> DEFINE linked == Ownership!Linked(R, isAlive)
           elder(q) == \E p \in Pids : /\ T[p] # None /\ ~T[p].zombie /\ T[p].start \in known'
                                       /\ R[q].codex => T[p].codex
           set == {q \in linked : R[q] # None /\ (R[q].start > last => elder(q))}
<1>5. /\ linked \subseteq Pids /\ First(R, isAlive) \subseteq linked
      /\ \A p \in linked : Ownership!Kin(R, p) \subseteq linked
  BY LinkedIsLeast
<1>6. known \subseteq known' /\ \A p \in linked : R[p].start \in known'
  <2>1. pc.step # "done"
    OBVIOUS
  <2> QED BY <1>0, <2>1, ReadDoes
<1>7. First(R, isAlive) \subseteq set
  <2> SUFFICES ASSUME NEW q \in First(R, isAlive)
               PROVE  q \in set
    OBVIOUS
  <2>1. q \in Pids /\ R[q] # None /\ q \in linked /\ (R[q].start \in known \/ R[q].start = 1)
    BY <1>5 DEF First
  <2>2. R[q].start > last => elder(q)
    <3> SUFFICES ASSUME R[q].start > last
                 PROVE  elder(q)
      OBVIOUS
    <3>1. R[q].start \in known
      BY <1>2, <2>1
    <3> QED BY <1>2, <1>6, <2>1, <3>1 DEF Older
  <2> HIDE DEF linked, elder
  <2> QED BY <2>1, <2>2
<1>8. ASSUME NEW q \in set, NEW r \in Ownership!Kin(R, q)
      PROVE  r \in set
  <2>1. q \in Pids /\ r \in Pids /\ R[r] # None /\ R[q] # None /\ R[r].up = R[q].start /\ r \in linked
    BY <1>5, <1>8 DEF Ownership!Kin
  <2>2. (R[r].codex => R[q].codex) /\ ~R[q].zombie
    BY <1>3, <2>1 DEF Possible
  <2>3. ASSUME R[r].start > last
        PROVE  elder(r)
    <3>1. CASE R[q].start > last
      <4>1. elder(q)
        BY <1>8, <3>1
      <4> QED BY <2>2, <4>1
    <3>2. CASE ~(R[q].start > last)
      <4>1. R[q].start <= last
        BY <1>2, <1>4, <2>1, <3>2
      <4>2. Before(T, R, last)
        BY <1>2, <2>1, <2>3 DEF Later
      <4>3. T[q] # None /\ T[q].start = R[q].start /\ ~T[q].zombie
        BY <2>1, <2>2, <4>1, <4>2 DEF Before
      <4>4. R[q].codex = T[q].codex
        BY <1>3, <2>1, <4>3 DEF Agrees
      <4>5. T[q].start \in known'
        BY <1>6, <1>8, <4>3
      <4> QED BY <2>1, <2>2, <4>3, <4>4, <4>5
    <3> QED BY <3>1, <3>2
  <2> HIDE DEF linked, elder
  <2> QED BY <2>1, <2>3
<1>9. linked \subseteq set
  <2>1. \A q \in set : Ownership!Kin(R, q) \subseteq set
    BY <1>8
  <2>2. set \in SUBSET Pids
    BY <1>5
  <2> HIDE DEF set
  <2> QED BY <1>7, <2>1, <2>2, LinkedIsLeast
<1> HIDE DEF linked
<1>10. Older(T, table, last)'
  <2> SUFFICES ASSUME NEW q \in Pids, table[q] # None, table[q].start \in known', table[q].start > last
               PROVE  \E p \in Pids : /\ T[p] # None /\ ~T[p].zombie /\ T[p].start \in known'
                                      /\ table[q].codex => T[p].codex
    BY DEF Older
  <2>1. CASE table[q].start \in known
    BY <1>2, <1>6, <2>1 DEF Older
  <2>2. CASE table[q].start \notin known
    <3>1. PICK r \in linked : table[q].start = R[r].start
      BY <1>0, <2>2, ReadDoes DEF linked
    <3>2. r \in Pids /\ R[r] # None /\ elder(r)
      BY <1>5, <1>9, <3>1
    <3>3. R[r].codex = table[q].codex
      BY <1>3, <3>1, <3>2 DEF Agrees
    <3> QED BY <3>2, <3>3
  <2> QED BY <2>1, <2>2
<1>11. \A p \in Pids : rows'[a][p] = None
  BY ReadDoes
<1>12. Older(T, rows[a], last)' /\ Later(T, rows[a], last)'
  BY <1>11 DEF Older, Later
<1>13. Shows(T, last)'
  BY <1>2 DEF Shows, Before
<1>14. rows'["terminate"] = T
  BY <1>0, ReadersAre, ReadDoes
<1>15. Guarded(T, rows[a], last)'
  BY <1>2, <1>10, <1>12, <1>13 DEF Guarded
<1>16. Guarded(rows["terminate"], rows["record"], last)'
  BY <1>14, <1>15
<1> QED BY <1>16

\* A table has been read.
LEMMA ReadInv ==
  ASSUME Ownership!OwnershipAssumption, OwnInv, NEW a \in Ownership!Readers, NEW isAlive \in BOOLEAN,
         Reads(a, isAlive), UNCHANGED <<windows, table, starts, exited>>,
         recording' \in [step : {"none", "list", "listed", "over"}, alive : BOOLEAN], pc' \in Terminating,
         pc'.step = "listed" => pc' = pc /\ a = "record", StopsTheTree'
  PROVE  OwnInv'
<1>0. OwnTypeOK
  BY DEF OwnInv
<1>1. OwnTypeOK'
  <2>1. /\ rows' \in [Ownership!Readers -> [Pids -> Ownership!Process \cup {None}]] /\ crossed' \in BOOLEAN
        /\ owned' \in [Pids -> Ownership!Identities \cup {None}] /\ known' \subseteq Nat
        /\ mistaken' \in BOOLEAN
    BY AbsorbedRecords, ReadDoes, StillTrue DEF Reads
  <2> QED BY <1>0, <2>1 DEF OwnTypeOK
<1>2. Records' /\ Printouts'
  BY StillTrue, PrintoutsStay
<1>3. ASSUME ~crossed'
      PROVE  Recognition'
  <2>1. Recognised' /\ \A b \in Ownership!Readers : Followed(rows[b])'
    BY <1>3, StillRecognised
  <2>2. pc'.step = "listed" => \E last \in 0..starts' : Guarded(rows["terminate"], rows["record"], last)'
    BY <1>3, GuardStays
  <2> QED BY <2>1, <2>2 DEF Recognition
<1> QED BY <1>1, <1>2, <1>3, Untouched DEF OwnInv

LEMMA RecordedInv ==
  ASSUME Ownership!OwnershipAssumption, OwnInv, Ownership!Recorded
  PROVE  OwnInv'
<1>0. /\ OwnTypeOK /\ StopsTheTree /\ pc \in Terminating /\ mistaken \in BOOLEAN
      /\ recording \in [step : {"none", "list", "listed", "over"}, alive : BOOLEAN]
  BY DEF OwnInv, OwnTypeOK
<1>1. /\ Ownership!Read("record", recording.alive) /\ recording' = [recording EXCEPT !.step = "over"]
      /\ mistaken' = (mistaken \/ /\ recording.alive /\ owned[Root] = None
                                  /\ rows["record"][Root] # None /\ ~rows["record"][Root].ours)
      /\ UNCHANGED <<windows, table, starts, exited, pc, struck>>
  BY DEF Ownership!Recorded, Ownership!RecordIsOver, Ownership!world
<1>2. PICK a \in Ownership!Readers : a = "record" /\ Ownership!Read(a, recording.alive)
  BY <1>1, ReadersAre
<1>3. recording.alive \in BOOLEAN /\ recording' \in [step : {"none", "list", "listed", "over"}, alive : BOOLEAN]
  BY <1>0, <1>1
<1>4. PICK isAlive \in BOOLEAN : isAlive = recording.alive
  BY <1>3
<1>5. Reads(a, isAlive)
  <2>1. mistaken' \in BOOLEAN /\ (mistaken => mistaken')
    BY <1>0, <1>1, Zenon
  <2>2. isAlive /\ rows[a][Root] # None /\ owned[Root] = None => rows[a][Root].ours \/ mistaken'
    BY <1>1, <1>2, <1>4
  <2> QED BY <1>2, <1>4, <2>1, <2>2 DEF Reads
<1>6. StopsTheTree'
  <2>1. crossed => crossed'
    BY <1>5, ReadDoes
  <2>2. pc.step = "done" => known' = known
    BY <1>1 DEF Ownership!Read, Ownership!At
  <2>3. Ownership!Confirmed'
    BY <1>1, <2>1, <2>2, StillConfirmed
  <2>4. Ownership!OnlyOurs'
    BY <1>0, <1>1 DEF StopsTheTree, Ownership!StopsTheTree, Ownership!OnlyOurs
  <2> QED BY <2>3, <2>4 DEF StopsTheTree, Ownership!StopsTheTree
<1>7. pc' = pc /\ pc' \in Terminating
  BY <1>0, <1>1
<1> QED BY <1>1, <1>2, <1>3, <1>5, <1>6, <1>7, ReadInv

LEMMA SignalInv ==
  ASSUME Ownership!OwnershipAssumption, OwnInv, Ownership!Signal
  PROVE  OwnInv'
<1>0. /\ OwnTypeOK /\ StopsTheTree /\ Printouts /\ pc \in Terminating /\ mistaken \in BOOLEAN /\ exited \in BOOLEAN
      /\ pc \in [step : Places, round : Nat, scope : {"tree", "writer"}]
      /\ recording \in [step : {"none", "list", "listed", "over"}, alive : BOOLEAN]
  BY DEF OwnInv, OwnTypeOK, Terminating
<1>1. PICK a \in Ownership!Readers : a = "terminate"
  BY ReadersAre
<1>2. PICK isAlive \in BOOLEAN : isAlive = ~exited
  BY <1>0, Zenon
<1> DEFINE T == rows[a]
           targets == Ownership!live(T, owned')
           new == {p \in targets : table[p] # None /\ ~table[p].ours /\ table[p] = T[p]}
<1>3. /\ pc.step = "listed" /\ Ownership!Read(a, isAlive)
      /\ UNCHANGED <<windows, table, starts, exited, recording, mistaken>>
  BY <1>1, <1>2 DEF Ownership!Signal, Ownership!At, Ownership!rootAlive, Ownership!world
<1>4. /\ pc' = [pc EXCEPT !.step = IF targets = {} THEN "done" ELSE IF pc.round = 3 THEN "failed" ELSE "wait"]
      /\ struck' = struck \/ struck' = struck \cup new
  BY <1>1 DEF Ownership!Signal, Ownership!Goto
<1>5. /\ pc' \in Terminating /\ pc'.scope = pc.scope
      /\ pc'.step \in {"done", "failed", "wait"} /\ (pc'.step = "done" => targets = {})
  <2> HIDE DEF targets
  <2> QED BY <1>0, <1>4 DEF Places, Terminating
<1>6. Reads(a, isAlive)
  <2>1. isAlive /\ rows[a][Root] # None => rows[a][Root].ours
    BY <1>0, <1>2 DEF Printouts
  <2> QED BY <1>0, <1>3, <2>1 DEF Reads
<1>7. Ownership!Confirmed'
  <2> SUFFICES ASSUME pc'.step = "done", ~crossed', NEW p \in Pids, table[p] # None, ~table[p].zombie,
                      pc.scope = "tree" \/ table[p].codex, table[p].start \in known'
               PROVE  FALSE
    BY <1>3, <1>5 DEF Ownership!Confirmed, Ownership!At, Ownership!Living
  <2>0. /\ Recognition /\ Identified(table)' /\ Recognised'
        /\ \A q \in Pids : T[q] # None /\ owned[q] # None => ~(T[q].start < owned[q].start)
    BY <1>3, <1>6, ReadDoes, StillTrue, StillRecognised DEF OwnInv, Records
  <2>1. PICK last \in 0..starts : Guarded(T, rows["record"], last)
    BY <1>1, <1>3, <2>0 DEF Recognition
  <2>2. /\ last \in Nat /\ Shows(T, last) /\ Older(T, table, last)
        /\ table[p].start \in Nat
        /\ \A q \in Pids : T[q] # None => T[q].start \in Nat
        /\ \A q \in Pids : owned[q] # None => owned[q].start \in Nat
    BY <1>0, <2>1 DEF OwnTypeOK, Guarded, Ownership!Process, Ownership!Identities
  <2>3. CASE table[p].start <= last
    <3>1. T[p] # None /\ T[p].start = table[p].start /\ ~T[p].zombie
      BY <2>2, <2>3 DEF Shows, Before
    <3>2. owned'[p] # None /\ owned'[p].start = table[p].start /\ owned'[p].codex = table[p].codex
      BY <1>3, <2>0 DEF Recognised, Identified
    <3>3. p \in targets
      BY <3>1, <3>2 DEF Ownership!live, Ownership!InScope, Ownership!sameProcess
    <3> QED BY <1>5, <3>3
  <2>4. CASE ~(table[p].start <= last)
    <3>1. table[p].start > last
      BY <2>2, <2>4
    <3>2. table[p].start \in known
      <4> SUFFICES ASSUME table[p].start \notin known
                   PROVE  FALSE
        OBVIOUS
      <4>1. PICK q \in Ownership!Linked(T, isAlive) : table[p].start = T[q].start
        BY <1>6, ReadDoes
      <4>2. q \in Pids /\ T[q] # None
        BY <4>1, LinkedIsShown
      <4> QED BY <2>2, <3>1, <4>1, <4>2 DEF Shows
    <3>3. PICK w \in Pids : T[w] # None /\ ~T[w].zombie /\ T[w].start \in known /\ (table[p].codex => T[w].codex)
      BY <2>2, <3>1, <3>2 DEF Older
    <3>4. owned[w] # None /\ owned[w].start >= T[w].start
      BY <2>0, <3>3 DEF Recognition, Followed
    <3>5. owned[w].start = T[w].start
      BY <2>0, <2>2, <3>3, <3>4
    <3>6. owned'[w] # None /\ owned'[w].start = T[w].start
      BY <1>6, <3>3, <3>4, <3>5, AbsorbedRecords
    <3>7. owned'[w].codex = T[w].codex
      BY <1>6, <3>3, <3>6, AbsorbedRecords
    <3>8. w \in targets
      BY <3>3, <3>6, <3>7 DEF Ownership!live, Ownership!InScope, Ownership!sameProcess
    <3> QED BY <1>5, <3>8
  <2> QED BY <2>3, <2>4
<1>8. Ownership!OnlyOurs'
  <2> SUFFICES ASSUME ~mistaken', NEW p \in new
               PROVE  FALSE
    BY <1>0, <1>3, <1>4 DEF Ownership!OnlyOurs, StopsTheTree, Ownership!StopsTheTree
  <2>1. p \in Pids /\ T[p] # None /\ owned'[p] # None /\ owned'[p].start = T[p].start
        /\ ~table[p].ours /\ table[p] = T[p]
    BY DEF Ownership!live, Ownership!sameProcess
  <2>2. T[p].ours
    BY <1>6, <2>1, AbsorbedRecords
  <2> QED BY <2>1, <2>2
<1> QED
  <2>1. StopsTheTree'
    BY <1>7, <1>8 DEF StopsTheTree, Ownership!StopsTheTree
  <2>2. pc'.step # "listed" /\ recording' \in [step : {"none", "list", "listed", "over"}, alive : BOOLEAN]
    BY <1>0, <1>3, <1>5
  <2> QED BY <1>3, <1>5, <1>6, <2>1, <2>2, ReadInv

LEMMA OwnStep ==
  ASSUME Ownership!OwnershipAssumption, OwnInv, Ownership!Next
  PROVE  OwnInv'
<1>1. CASE Ownership!World
  BY <1>1, ExitInv, ReapInv, StartInv DEF Ownership!World
<1>2. CASE Ownership!Code
  BY <1>2, QuietSteps, FallbackSteps, ListInv, RecordedInv, SignalInv DEF Ownership!Code
<1> QED BY <1>1, <1>2 DEF Ownership!Next

\* However the processes of a run fork, exit, are orphaned and have their pids used again while
\* record() and terminate() read tables that are old, record() also beside terminate(): a
\* confirmed stop leaves no process of its scope alive that it knew, unless a table was read
\* after a younger one by which one of its pids had been used again; and nothing is signalled
\* that the table showed to be a stranger's.
THEOREM StopsTheWholeTree == MCSpec => []StopsTheTree
<1>0. Ownership!OwnershipAssumption
  BY MCProcessesAssumption
<1>1. MCInit => OwnInv
  BY <1>0, OwnInit DEF MCInit
<1>2. OwnInv /\ [MCNext]_<<level, vars, process>> => OwnInv'
  <2> SUFFICES ASSUME OwnInv, [MCNext]_<<level, vars, process>>
               PROVE  OwnInv'
    OBVIOUS
  <2>1. CASE Ownership!Next
    BY <1>0, <2>1, OwnStep
  <2>2. CASE UNCHANGED process
    <3>0. /\ UNCHANGED <<windows, table, starts, exited, owned, rows, recording, pc, known, struck, mistaken, crossed>>
          /\ OwnTypeOK
      BY <2>2 DEF process, OwnInv
    <3>1. /\ recording' \in [step : {"none", "list", "listed", "over"}, alive : BOOLEAN]
          /\ mistaken' \in BOOLEAN /\ (mistaken => mistaken') /\ pc' \in Terminating
      BY <3>0 DEF OwnTypeOK
    <3>2. Ownership!Confirmed'
      BY <3>0, StillConfirmed
    <3> QED BY <1>0, <3>0, <3>1, <3>2, QuietInv
  <2> QED BY <2>1, <2>2 DEF MCNext, process
<1>3. OwnInv => StopsTheTree
  BY DEF OwnInv
<1> QED BY <1>1, <1>2, <1>3, PTL DEF MCSpec
=============================================================================
