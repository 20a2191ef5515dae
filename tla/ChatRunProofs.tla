---------------------------- MODULE ChatRunProofs ----------------------------
(***************************************************************************)
(* Proofs about ChatRun: for any requests, any number of runs and every    *)
(* interleaving.  First its types, then its safety properties.             *)
(*                                                                         *)
(* The inductive invariant has four parts.                                 *)
(*   Launches  who launches, and what the tail of a run may do             *)
(*   Known     no process lives that the control does not know of          *)
(*   Carries   which message a start carries                               *)
(*   Words     what a decided start, a stop and a park may rely on         *)
(* On top of it, Once: a message is given to the provider at most once.    *)
(* A step of one thread that starts and ends nothing is handled for all    *)
(* actions by the Quiet lemmas; what remains per action is its effect on   *)
(* the thread.                                                             *)
(***************************************************************************)
EXTENDS ChatRun, SequenceTheorems, TLAPS

-----------------------------------------------------------------------------
(* Types. *)

LEMMA RunsAreNat ==
  /\ Runs \subseteq Nat /\ None \in Nat /\ None \notin Runs
  /\ Reqs \cap Runs = {} /\ None \notin Reqs
BY ChatRunAssumption DEF Runs, None

LEMMA NewThreadType == NewThread \in Thread
BY DEF NewThread, Thread, PCs, None

LEMMA EndedType ==
  ASSUME ThreadsOK, NEW t \in Threads
  PROVE  Ended(t) \in Thread /\ Shape(t, Ended(t))
BY NewThreadType DEF ThreadsOK, Shape, Ended, Thread, NewThread, PCs, None

LEMMA BecomesType ==
  ASSUME ThreadsOK, NEW t \in Threads, NEW n \in Thread, Shape(t, n), Becomes(t, n)
  PROVE  ThreadsOK'
BY DEF ThreadsOK, Becomes, Shape

LEMMA RemoveAtType ==
  ASSUME NEW S, NEW s \in Seq(S), NEW i \in DOMAIN s
  PROVE  RemoveAt(s, i) \in Seq(S)
<1>1. i \in 1..Len(s) /\ Len(s) \in Nat
  BY LenProperties
<1>2. SubSeq(s, 1, i - 1) \in Seq(S)
  BY <1>1, SubSeqProperties
<1>3. SubSeq(s, i + 1, Len(s)) \in Seq(S)
  BY <1>1, SubSeqProperties
<1> QED BY <1>2, <1>3, ConcatProperties DEF RemoveAt

LEMMA RemoveFromQueueType ==
  ASSUME QueueOK, NEW m, RemoveFromQueue(m)
  PROVE  queue' \in Seq(Reqs)
BY RemoveAtType DEF QueueOK, RemoveFromQueue

LEMMA RememberType ==
  ASSUME QueueOK, NEW m \in Reqs
  PROVE  Remember(m) \in Seq(Reqs)
<1>1. Append(started, m) \in Seq(Reqs) /\ Append(started, m) # <<>>
  BY AppendProperties DEF QueueOK
<1> QED BY <1>1, HeadTailProperties DEF Remember

LEMMA QueuedType == QueueOK => Queued \subseteq Reqs
BY ElementOfSeq, LenProperties DEF QueueOK, Queued, ToSet

LEMMA GiveUpStartThread ==
  ASSUME ThreadsOK, NEW t \in Threads, GiveUpStart(t)
  PROVE  ThreadsOK'
<1> DEFINE kept == [thr[t] EXCEPT !.pc = "qwrite", !.micro = "-", !.on = None]
<1>1. CASE thr[t].cmd = "send"
  <2>1. Becomes(t, kept)
    BY <1>1 DEF GiveUpStart, KeepInQueue
  <2>2. kept \in Thread
    BY DEF ThreadsOK, Thread, PCs, None
  <2>3. Shape(t, kept)
    BY <1>1, RunsAreNat DEF ThreadsOK, Thread, Shape
  <2> HIDE DEF kept
  <2> QED BY <2>1, <2>2, <2>3, BecomesType
<1>2. CASE thr[t].cmd # "send"
  BY <1>2, EndedType, BecomesType DEF GiveUpStart, Return
<1> QED BY <1>1, <1>2

LEMMA StopErrorThread ==
  ASSUME ThreadsOK, NEW t \in Threads, StopError(t)
  PROVE  ThreadsOK'
BY GiveUpStartThread, EndedType, BecomesType DEF StopError, Return

LEMMA SendThread ==
  ASSUME ThreadsOK, QueueOK, ControlOK, RunsOK, NEW t \in Threads, send(t)
  PROVE  ThreadsOK'
<1> DEFINE n1 == [NewThread EXCEPT !.cmd = "send", !.msg = t, !.gen = generation,
                                   !.pc = "qwrite"]
<1> DEFINE n2 == [NewThread EXCEPT !.cmd = "send", !.msg = t, !.gen = generation,
                                   !.pc = "swait", !.micro = "again"]
<1>1. \/ Becomes(t, n1)
      \/ Becomes(t, n2)
  BY RunsAreNat DEF send, Arrive, DropDraining, releaseRun, ThreadsOK, Thread, Shape, Threads
<1>2. thr[t] \in Thread /\ Shape(t, thr[t])
  BY DEF ThreadsOK
<1>3. t \in Reqs
  BY DEF send, Arrive, DropDraining, releaseRun
<1>4. n1 \in Thread /\ Shape(t, n1)
  <2>1. n1 \in Thread
    BY NewThreadType, <1>3, RunsAreNat DEF Thread, PCs, Threads, None, ControlOK, RunsOK
  <2>2. Shape(t, n1)
    BY <1>2, <1>3, RunsAreNat DEF Shape, Threads, Thread, NewThread, None
  <2> QED BY <2>1, <2>2
<1>5. n2 \in Thread /\ Shape(t, n2)
  <2>1. n2 \in Thread
    BY NewThreadType, <1>3, RunsAreNat DEF Thread, PCs, Threads, None, ControlOK, RunsOK
  <2>2. Shape(t, n2)
    BY <1>2, <1>3, RunsAreNat DEF Shape, Threads, Thread, NewThread, None
  <2> QED BY <2>1, <2>2
<1> HIDE DEF n1, n2
<1> QED BY <1>1, <1>4, <1>5, BecomesType

LEMMA EnqueueThread ==
  ASSUME ThreadsOK, QueueOK, ControlOK, RunsOK, NEW t \in Threads, enqueue(t)
  PROVE  ThreadsOK'
<1> DEFINE n1 == [NewThread EXCEPT !.cmd = "enqueue", !.msg = t, !.pc = "qwrite"]
<1>1. Becomes(t, n1)
  BY RunsAreNat DEF enqueue, Arrive, ThreadsOK, Thread, Shape, Threads
<1>2. thr[t] \in Thread /\ Shape(t, thr[t])
  BY DEF ThreadsOK
<1>3. t \in Reqs
  BY DEF enqueue, Arrive
<1>4. n1 \in Thread /\ Shape(t, n1)
  <2>1. n1 \in Thread
    BY NewThreadType, <1>3, RunsAreNat DEF Thread, PCs, Threads, None
  <2>2. Shape(t, n1)
    BY <1>2, <1>3, RunsAreNat DEF Shape, Threads, Thread, NewThread, None
  <2> QED BY <2>1, <2>2
<1> HIDE DEF n1
<1> QED BY <1>1, <1>4, BecomesType

LEMMA EscThread ==
  ASSUME ThreadsOK, QueueOK, ControlOK, RunsOK, NEW t \in Threads, Esc(t)
  PROVE  ThreadsOK'
<1> DEFINE n1 == [NewThread EXCEPT !.cmd = "esc", !.pc = "cancel", !.micro = "again",
                                   !.saw = alive]
<1>1. Becomes(t, n1)
  BY RunsAreNat DEF Esc, Arrive, ThreadsOK, Thread, Shape, Threads
<1>2. thr[t] \in Thread /\ Shape(t, thr[t])
  BY DEF ThreadsOK
<1>3. t \in Reqs
  BY DEF Esc, Arrive
<1>4. n1 \in Thread /\ Shape(t, n1)
  <2>1. n1 \in Thread
    BY NewThreadType, <1>3, RunsAreNat DEF Thread, PCs, Threads, None, ControlOK, RunsOK
  <2>2. Shape(t, n1)
    BY <1>2, <1>3, RunsAreNat DEF Shape, Threads, Thread, NewThread, None
  <2> QED BY <2>1, <2>2
<1> HIDE DEF n1
<1> QED BY <1>1, <1>4, BecomesType

LEMMA StopDrainingThread ==
  ASSUME ThreadsOK, QueueOK, ControlOK, RunsOK, NEW t \in Threads, stopDraining(t)
  PROVE  ThreadsOK'
<1> DEFINE n1 == [thr[t] EXCEPT !.cmd = "stopDraining", !.pc = "done"]
<1>1. Becomes(t, n1)
  BY RunsAreNat DEF stopDraining, Arrive, DropDraining, releaseRun, ThreadsOK, Thread,
     Shape, Threads
<1>2. thr[t] \in Thread /\ Shape(t, thr[t])
  BY DEF ThreadsOK
<1>3. t \in Reqs
  BY DEF stopDraining, Arrive, DropDraining, releaseRun
<1>4. n1 \in Thread /\ Shape(t, n1)
  <2>1. n1 \in Thread
    BY <1>2, RunsAreNat DEF Thread, PCs, Threads, None
  <2>2. Shape(t, n1)
    BY <1>2, <1>3, RunsAreNat DEF Shape, Threads, Thread, None, ControlOK, Waits
  <2> QED BY <2>1, <2>2
<1> HIDE DEF n1
<1> QED BY <1>1, <1>4, BecomesType

LEMMA SteerThread ==
  ASSUME ThreadsOK, QueueOK, ControlOK, RunsOK, NEW t \in Threads, NEW m \in Reqs, steer(t, m)
  PROVE  ThreadsOK'
<1> DEFINE n1 == [NewThread EXCEPT !.cmd = "steer", !.msg = m, !.pc = "join", !.for = steering]
<1> DEFINE n2 == [NewThread EXCEPT !.cmd = "steer", !.msg = m, !.pc = "cancel",
                                   !.micro = "again", !.gen = generation + 1]
<1>1. \/ Becomes(t, n1)
      \/ Becomes(t, n2)
  BY RunsAreNat DEF steer, Arrive, ThreadsOK, Thread, Shape, Threads
<1>2. thr[t] \in Thread /\ Shape(t, thr[t])
  BY DEF ThreadsOK
<1>3. t \in Reqs
  BY DEF steer, Arrive
<1>4. n1 \in Thread /\ Shape(t, n1)
  <2>1. n1 \in Thread
    BY NewThreadType, <1>3, RunsAreNat DEF Thread, PCs, Threads, None, ControlOK, RunsOK
  <2>2. Shape(t, n1)
    BY <1>2, <1>3, RunsAreNat DEF Shape, Threads, Thread, NewThread, None
  <2> QED BY <2>1, <2>2
<1>5. n2 \in Thread /\ Shape(t, n2)
  <2>0. generation + 1 \in Nat
    BY DEF ControlOK
  <2>1. n2 \in Thread
    BY NewThreadType, <1>3, <2>0, RunsAreNat DEF Thread, PCs, Threads, None, ControlOK, RunsOK
  <2>2. Shape(t, n2)
    BY <1>2, <1>3, RunsAreNat DEF Shape, Threads, Thread, NewThread, None
  <2> QED BY <2>1, <2>2
<1> HIDE DEF n1, n2
<1> QED BY <1>1, <1>4, <1>5, BecomesType

LEMMA DequeueThread ==
  ASSUME ThreadsOK, QueueOK, ControlOK, RunsOK, NEW t \in Threads, NEW m \in Reqs, dequeue(t, m)
  PROVE  ThreadsOK'
<1> DEFINE n1 == [NewThread EXCEPT !.cmd = "dequeue", !.msg = m, !.pc = "dwrite"]
<1>1. Becomes(t, n1)
  BY RunsAreNat DEF dequeue, Arrive, ThreadsOK, Thread, Shape, Threads
<1>2. thr[t] \in Thread /\ Shape(t, thr[t])
  BY DEF ThreadsOK
<1>3. t \in Reqs
  BY DEF dequeue, Arrive
<1>4. n1 \in Thread /\ Shape(t, n1)
  <2>1. n1 \in Thread
    BY NewThreadType, <1>3, RunsAreNat DEF Thread, PCs, Threads, None
  <2>2. Shape(t, n1)
    BY <1>2, <1>3, RunsAreNat DEF Shape, Threads, Thread, NewThread, None
  <2> QED BY <2>1, <2>2
<1> HIDE DEF n1
<1> QED BY <1>1, <1>4, BecomesType

LEMMA QueueWrittenThread ==
  ASSUME ThreadsOK, QueueOK, ControlOK, RunsOK, NEW t \in Threads, QueueWritten(t)
  PROVE  ThreadsOK'
<1> DEFINE n1 == [thr[t] EXCEPT !.pc = "drain", !.cmd = "drain", !.micro = "again", !.msg = None]
<1>1. \/ Becomes(t, Ended(t))
      \/ t \in Reqs /\ Becomes(t, n1)
  BY RunsAreNat DEF QueueWritten, ThreadsOK, Thread, Shape, Threads
<1>2. thr[t] \in Thread /\ Shape(t, thr[t])
  BY DEF ThreadsOK
<1>3. t \in Reqs => n1 \in Thread /\ Shape(t, n1)
  <2> SUFFICES ASSUME t \in Reqs PROVE n1 \in Thread /\ Shape(t, n1)
    OBVIOUS
  <2>1. n1 \in Thread
    BY <1>2, RunsAreNat DEF Thread, PCs, Threads, None
  <2>2. Shape(t, n1)
    BY <1>2, RunsAreNat DEF Shape, Threads, Thread, None, ControlOK, Waits
  <2> QED BY <2>1, <2>2
<1> HIDE DEF n1
<1> QED BY <1>1, <1>3, EndedType, BecomesType

LEMMA DequeueWrittenThread ==
  ASSUME ThreadsOK, QueueOK, ControlOK, RunsOK, NEW t \in Threads, DequeueWritten(t)
  PROVE  ThreadsOK'
BY EndedType, BecomesType DEF DequeueWritten, RemoveFromQueue

LEMMA JoinReturnsThread ==
  ASSUME ThreadsOK, QueueOK, ControlOK, RunsOK, NEW t \in Threads, JoinReturns(t)
  PROVE  ThreadsOK'
BY EndedType, BecomesType DEF JoinReturns

LEMMA DrainBeginThread ==
  ASSUME ThreadsOK, QueueOK, ControlOK, RunsOK, NEW t \in Threads, DrainBegin(t)
  PROVE  ThreadsOK'
<1> DEFINE n1 == [thr[t] EXCEPT !.pc = "qwait", !.gen = generation]
<1>1. \/ Becomes(t, Ended(t))
      \/ Becomes(t, n1)
  BY RunsAreNat DEF DrainBegin, ThreadsOK, Thread, Shape, Threads
<1>2. thr[t] \in Thread /\ Shape(t, thr[t])
  BY DEF ThreadsOK
<1>3. thr[t].pc = "drain"
  BY DEF DrainBegin
<1>4. n1 \in Thread /\ Shape(t, n1)
  <2>1. n1 \in Thread
    BY <1>2, RunsAreNat DEF Thread, PCs, Threads, None, ControlOK, RunsOK
  <2>2. Shape(t, n1)
    BY <1>2, <1>3, RunsAreNat DEF Shape, Threads, Thread, None, ControlOK, Waits
  <2> QED BY <2>1, <2>2
<1> HIDE DEF n1
<1> QED BY <1>1, <1>4, EndedType, BecomesType

LEMMA DrainContinueThread ==
  ASSUME ThreadsOK, QueueOK, ControlOK, RunsOK, NEW t \in Threads, DrainContinue(t)
  PROVE  ThreadsOK'
<1> DEFINE n1(m) == [thr[t] EXCEPT !.pc = "swait", !.micro = "again", !.msg = m]
<1>1. \/ Becomes(t, Ended(t))
      \/ \E m \in Queued : Becomes(t, n1(m))
  BY RunsAreNat DEF DrainContinue, dequeueAndStartQueuedMessage, DropDraining, releaseRun,
     ThreadsOK, Thread, Shape, Threads
<1>2. thr[t] \in Thread /\ Shape(t, thr[t])
  BY DEF ThreadsOK
<1>3. thr[t].pc = "qwait"
  BY DEF DrainContinue, dequeueAndStartQueuedMessage, DropDraining, releaseRun
<1>4. \A m \in Queued : n1(m) \in Thread /\ Shape(t, n1(m))
  <2> TAKE m \in Queued
  <2>1. m \in Reqs
    BY QueuedType
  <2>2. n1(m) \in Thread
    BY <1>2, <2>1 DEF Thread, PCs
  <2>3. Shape(t, n1(m))
    BY <1>2, <1>3, <2>1 DEF Shape, Thread
  <2> QED BY <2>2, <2>3
<1> HIDE DEF n1
<1> QED BY <1>1, <1>4, EndedType, BecomesType

LEMMA AwaitLoopThread ==
  ASSUME ThreadsOK, QueueOK, ControlOK, RunsOK, NEW t \in Threads, AwaitLoop(t)
  PROVE  ThreadsOK'
<1> DEFINE n1 == [thr[t] EXCEPT !.micro = "-", !.on = barrier]
<1> DEFINE n2 == [thr[t] EXCEPT !.micro = "-", !.on = barrier, !.retry = FALSE]
<1>1. \/ StopError(t)
      \/ Becomes(t, n1)
      \/ Becomes(t, n2)
  BY RunsAreNat DEF AwaitLoop, Waits, ThreadsOK, Thread, Shape, Threads
<1>2. thr[t] \in Thread /\ Shape(t, thr[t])
  BY DEF ThreadsOK
<1>3. thr[t].pc \in Waits
  BY DEF AwaitLoop, Waits
<1>4. n1 \in Thread /\ Shape(t, n1)
  <2>1. n1 \in Thread
    BY <1>2, RunsAreNat DEF Thread, PCs, Threads, None, ControlOK, RunsOK
  <2>2. Shape(t, n1)
    BY <1>2, <1>3, RunsAreNat DEF Shape, Threads, Thread, None, ControlOK, Waits
  <2> QED BY <2>1, <2>2
<1>5. n2 \in Thread /\ Shape(t, n2)
  <2>1. n2 \in Thread
    BY <1>2, RunsAreNat DEF Thread, PCs, Threads, None, ControlOK, RunsOK
  <2>2. Shape(t, n2)
    BY <1>2, <1>3, RunsAreNat DEF Shape, Threads, Thread, None, ControlOK, Waits
  <2> QED BY <2>1, <2>2
<1> HIDE DEF n1, n2
<1> QED BY <1>1, <1>4, <1>5, StopErrorThread, BecomesType

LEMMA AwaitRejectedThread ==
  ASSUME ThreadsOK, QueueOK, ControlOK, RunsOK, NEW t \in Threads, AwaitRejected(t)
  PROVE  ThreadsOK'
<1> DEFINE n1 == [thr[t] EXCEPT !.micro = "again", !.on = None]
<1>1. \/ StopError(t)
      \/ Becomes(t, n1)
  BY RunsAreNat DEF AwaitRejected, Goto, ThreadsOK, Thread, Shape, Threads
<1>2. thr[t] \in Thread /\ Shape(t, thr[t])
  BY DEF ThreadsOK
<1>3. thr[t].pc \in Waits
  BY DEF AwaitRejected, Goto
<1>4. n1 \in Thread /\ Shape(t, n1)
  <2>1. n1 \in Thread
    BY <1>2, RunsAreNat DEF Thread, PCs, Threads, None
  <2>2. Shape(t, n1)
    BY <1>2, <1>3, RunsAreNat DEF Shape, Threads, Thread, None, ControlOK, Waits
  <2> QED BY <2>1, <2>2
<1> HIDE DEF n1
<1> QED BY <1>1, <1>4, StopErrorThread, BecomesType

LEMMA AwaitTimeoutThread ==
  ASSUME ThreadsOK, QueueOK, ControlOK, RunsOK, NEW t \in Threads, AwaitTimeout(t)
  PROVE  ThreadsOK'
BY StopErrorThread, BecomesType DEF AwaitTimeout

LEMMA StartContinueThread ==
  ASSUME ThreadsOK, QueueOK, ControlOK, RunsOK, NEW t \in Threads, StartContinue(t)
  PROVE  ThreadsOK'
<1> DEFINE n1 == [thr[t] EXCEPT !.pc = "cancel", !.round = @ + 1]
<1> DEFINE n2 == [thr[t] EXCEPT !.pc = "launch", !.micro = "-"]
<1>1. \/ GiveUpStart(t)
      \/ thr[t].round < 2 /\ t \notin Runs /\ Becomes(t, n1)
      \/ Becomes(t, n2)
  BY RunsAreNat DEF StartContinue, Unclaim, ThreadsOK, Thread, Shape, Threads
<1>2. thr[t] \in Thread /\ Shape(t, thr[t])
  BY DEF ThreadsOK
<1>3. thr[t].pc = "swait"
  BY DEF StartContinue, Unclaim
<1>4. thr[t].round < 2 /\ t \notin Runs => n1 \in Thread /\ Shape(t, n1)
  <2> SUFFICES ASSUME thr[t].round < 2 /\ t \notin Runs PROVE n1 \in Thread /\ Shape(t, n1)
    OBVIOUS
  <2>0. thr[t].round + 1 \in 0..2
    BY <1>2 DEF Thread
  <2>1. n1 \in Thread
    BY <1>2, <2>0, RunsAreNat DEF Thread, PCs, Threads, None
  <2>2. Shape(t, n1)
    BY <1>2, <1>3, RunsAreNat DEF Shape, Threads, Thread, None, ControlOK, Waits
  <2> QED BY <2>1, <2>2
<1>5. n2 \in Thread /\ Shape(t, n2)
  <2>1. n2 \in Thread
    BY <1>2, RunsAreNat DEF Thread, PCs, Threads, None
  <2>2. Shape(t, n2)
    BY <1>2, <1>3, RunsAreNat DEF Shape, Threads, Thread, None, ControlOK, Waits
  <2> QED BY <2>1, <2>2
<1> HIDE DEF n1, n2
<1> QED BY <1>1, <1>4, <1>5, GiveUpStartThread, BecomesType

LEMMA CancelEnterThread ==
  ASSUME ThreadsOK, QueueOK, ControlOK, RunsOK, NEW t \in Threads, CancelEnter(t)
  PROVE  ThreadsOK'
<1> DEFINE n1 == [thr[t] EXCEPT !.pc = "clwait", !.micro = "-", !.for = launching]
<1> DEFINE n2 == [thr[t] EXCEPT !.pc = "cact"]
<1>1. \/ Becomes(t, n1)
      \/ Becomes(t, n2)
  BY RunsAreNat DEF CancelEnter, DropDraining, releaseRun, ThreadsOK, Thread, Shape, Threads
<1>2. thr[t] \in Thread /\ Shape(t, thr[t])
  BY DEF ThreadsOK
<1>3. thr[t].pc = "cancel"
  BY DEF CancelEnter, DropDraining, releaseRun
<1>4. n1 \in Thread /\ Shape(t, n1)
  <2>1. n1 \in Thread
    BY <1>2, RunsAreNat DEF Thread, PCs, Threads, None, ControlOK, RunsOK
  <2>2. Shape(t, n1)
    BY <1>2, <1>3, RunsAreNat DEF Shape, Threads, Thread, None, ControlOK, Waits
  <2> QED BY <2>1, <2>2
<1>5. n2 \in Thread /\ Shape(t, n2)
  <2>1. n2 \in Thread
    BY <1>2, RunsAreNat DEF Thread, PCs, Threads, None, ControlOK, RunsOK
  <2>2. Shape(t, n2)
    BY <1>2, <1>3, RunsAreNat DEF Shape, Threads, Thread, None, ControlOK, Waits
  <2> QED BY <2>1, <2>2
<1> HIDE DEF n1, n2
<1> QED BY <1>1, <1>4, <1>5, BecomesType

LEMMA CancelActiveThread ==
  ASSUME ThreadsOK, QueueOK, ControlOK, RunsOK, NEW t \in Threads, CancelActive(t)
  PROVE  ThreadsOK'
<1> DEFINE n1 == [thr[t] EXCEPT !.pc = "cstop", !.micro = "-", !.on = activeTurn]
<1> DEFINE n2 == [thr[t] EXCEPT !.pc = "cwait", !.retry = TRUE]
<1>1. \/ activeTurn # None /\ Becomes(t, n1)
      \/ Becomes(t, n2)
  BY RunsAreNat DEF CancelActive, ThreadsOK, Thread, Shape, Threads
<1>2. thr[t] \in Thread /\ Shape(t, thr[t])
  BY DEF ThreadsOK
<1>3. thr[t].pc = "cact"
  BY DEF CancelActive
<1>4. activeTurn # None => n1 \in Thread /\ Shape(t, n1)
  <2> SUFFICES ASSUME activeTurn # None PROVE n1 \in Thread /\ Shape(t, n1)
    OBVIOUS
  <2>1. n1 \in Thread
    BY <1>2, RunsAreNat DEF Thread, PCs, Threads, None, ControlOK, RunsOK
  <2>2. Shape(t, n1)
    BY <1>2, <1>3, RunsAreNat DEF Shape, Threads, Thread, None, ControlOK, Waits
  <2> QED BY <2>1, <2>2
<1>5. n2 \in Thread /\ Shape(t, n2)
  <2>1. n2 \in Thread
    BY <1>2, RunsAreNat DEF Thread, PCs, Threads, None, ControlOK, RunsOK
  <2>2. Shape(t, n2)
    BY <1>2, <1>3, RunsAreNat DEF Shape, Threads, Thread, None, ControlOK, Waits
  <2> QED BY <2>1, <2>2
<1> HIDE DEF n1, n2
<1> QED BY <1>1, <1>4, <1>5, BecomesType

LEMMA CancelContinueThread ==
  ASSUME ThreadsOK, QueueOK, ControlOK, RunsOK, NEW t \in Threads, CancelContinue(t)
  PROVE  ThreadsOK'
<1> DEFINE n1 == [thr[t] EXCEPT !.pc = "swait", !.micro = "again", !.msg = thr[t].msg]
<1>1. \/ Becomes(t, Ended(t))
      \/ thr[t].msg \in Queued /\ Becomes(t, n1)
  BY RunsAreNat DEF CancelContinue, Return, dequeueAndStartQueuedMessage, DropDraining,
     releaseRun, ThreadsOK, Thread, Shape, Threads
<1>2. thr[t] \in Thread /\ Shape(t, thr[t])
  BY DEF ThreadsOK
<1>3. thr[t].pc = "cwait"
  BY DEF CancelContinue, Return, dequeueAndStartQueuedMessage, DropDraining, releaseRun
<1>4. thr[t].msg \in Queued => n1 \in Thread /\ Shape(t, n1)
  <2> SUFFICES ASSUME thr[t].msg \in Queued PROVE n1 \in Thread /\ Shape(t, n1)
    OBVIOUS
  <2>1. n1 \in Thread
    BY <1>2, QueuedType, RunsAreNat DEF Thread, PCs, Threads, None
  <2>2. Shape(t, n1)
    BY <1>2, <1>3, QueuedType, RunsAreNat DEF Shape, Threads, Thread, None, ControlOK, Waits
  <2> QED BY <2>1, <2>2
<1> HIDE DEF n1
<1> QED BY <1>1, <1>4, EndedType, BecomesType

LEMMA BootThread ==
  ASSUME ThreadsOK, NEW t \in Threads, Boot(t)
  PROVE  ThreadsOK'
<1> DEFINE n(r) == [thr[t] EXCEPT !.pc = "booted", !.on = r]
<1>1. PICK r \in Runs : Becomes(t, n(r))
  BY DEF Boot
<1>2. thr[t] \in Thread /\ Shape(t, thr[t])
  BY DEF ThreadsOK
<1>3. n(r) \in Thread
  BY <1>2 DEF Thread, PCs
<1>4. Shape(t, n(r))
  <2>1. thr[t].pc = "launch"
    BY DEF Boot
  <2> QED BY <1>2, <2>1 DEF Shape, Thread
<1> HIDE DEF n
<1> QED BY <1>1, <1>3, <1>4, BecomesType

LEMMA UpdateType ==
  ASSUME NEW f, thr' = f, f = [u \in Threads |-> f[u]],
         \A u \in Threads : f[u] \in Thread /\ Shape(u, f[u])
  PROVE  ThreadsOK'
BY DEF ThreadsOK, Shape

LEMMA EndLaunchThread ==
  ASSUME ThreadsOK, NEW t \in Threads, EndLaunch(t)
  PROVE  ThreadsOK'
<1> DEFINE f == [thr EXCEPT ![t] = Ended(t)]
           g == [u \in Threads |-> IF f[u].pc = "clwait" /\ f[u].for = t
                                   THEN [f[u] EXCEPT !.pc = "cact", !.micro = "again"]
                                   ELSE f[u]]
<1>a. thr' = WakeCancels(f, t)
  BY DEF EndLaunch
<1>b. WakeCancels(f, t) = g
  <2> HIDE DEF f
  <2> QED BY DEF WakeCancels
<1>1. thr' = g /\ g = [u \in Threads |-> g[u]]
  BY <1>a, <1>b
<1>2. ASSUME NEW u \in Threads PROVE g[u] \in Thread /\ Shape(u, g[u])
  <2>1. f[u] \in Thread /\ Shape(u, f[u])
    BY EndedType DEF ThreadsOK
  <2> HIDE DEF f
  <2>2. CASE f[u].pc = "clwait"
    <3>1. [f[u] EXCEPT !.pc = "cact", !.micro = "again"] \in Thread
      BY <2>1 DEF Thread, PCs
    <3>2. Shape(u, [f[u] EXCEPT !.pc = "cact", !.micro = "again"])
      BY <2>1, <2>2 DEF Thread, Shape
    <3> QED BY <2>1, <3>1, <3>2
  <2> QED BY <2>1, <2>2
<1> HIDE DEF g
<1> QED BY <1>1, <1>2, UpdateType

LEMMA StopRecordedThread ==
  ASSUME ThreadsOK, NEW r \in Runs, StopRecorded(r)
  PROVE  ThreadsOK'
<1> DEFINE n(u) == [thr[u] EXCEPT !.pc = "cwait", !.micro = "again", !.on = None, !.retry = TRUE]
           g == [u \in Threads |-> IF thr[u].pc = "cstop" /\ thr[u].on = r
                                   THEN n(u) ELSE thr[u]]
<1>1. thr' = g /\ g = [u \in Threads |-> g[u]]
  BY DEF StopRecorded
<1>2. ASSUME NEW u \in Threads PROVE g[u] \in Thread /\ Shape(u, g[u])
  <2>1. thr[u] \in Thread /\ Shape(u, thr[u])
    BY DEF ThreadsOK
  <2>2. CASE thr[u].pc = "cstop"
    <3>1. n(u) \in Thread
      BY <2>1 DEF Thread, PCs, None
    <3>2. Shape(u, n(u))
      BY <2>1, <2>2 DEF Thread, Shape
    <3> QED BY <2>1, <3>1, <3>2
  <2> QED BY <2>1, <2>2
<1> HIDE DEF g
<1> QED BY <1>1, <1>2, UpdateType

LEMMA StreamEndsThread ==
  ASSUME ThreadsOK, NEW r \in Runs, StreamEnds(r)
  PROVE  ThreadsOK'
<1> DEFINE n == [NewThread EXCEPT !.cmd = "drain", !.pc = "drain", !.micro = "again"]
<1>1. \/ UNCHANGED thr
      \/ Becomes(r, n)
  BY DEF StreamEnds, Becomes
<1>2. n \in Thread
  BY NewThreadType DEF Thread, PCs
<1>3. Shape(r, n)
  BY NewThreadType DEF Shape, Thread
<1>4. CASE UNCHANGED thr
  BY <1>4 DEF ThreadsOK, Shape
<1> HIDE DEF n
<1> QED BY <1>1, <1>2, <1>3, <1>4, BecomesType DEF Threads

LEMMA ResumeThread ==
  ASSUME ThreadsOK, NEW r \in Runs, NEW micro \in {"again", "rejected"}, Resume(r, micro)
  PROVE  ThreadsOK'
<1> DEFINE n(u) == [thr[u] EXCEPT !.micro = micro, !.on = IF micro = "again" THEN None ELSE @]
           g == [u \in Threads |-> IF thr[u].pc \in Waits /\ thr[u].on = r
                                   THEN n(u) ELSE thr[u]]
<1>1. thr' = g /\ g = [u \in Threads |-> g[u]]
  BY DEF Resume
<1>2. ASSUME NEW u \in Threads PROVE g[u] \in Thread /\ Shape(u, g[u])
  <2>1. thr[u] \in Thread /\ Shape(u, thr[u])
    BY DEF ThreadsOK
  <2>2. CASE thr[u].pc \in Waits
    <3>1. n(u) \in Thread
      BY <2>1 DEF Thread, None
    <3>2. Shape(u, n(u))
      BY <2>1, <2>2 DEF Thread, Shape, Waits
    <3> QED BY <2>1, <3>1, <3>2
  <2> QED BY <2>1, <2>2
<1> HIDE DEF g
<1> QED BY <1>1, <1>2, UpdateType

-----------------------------------------------------------------------------

LEMMA TypeInit == Init => TypeOK
<1> SUFFICES ASSUME Init PROVE TypeOK
  OBVIOUS
<1>1. ThreadsOK
  BY NewThreadType DEF Init, ThreadsOK, Shape, NewThread
<1>2. QueueOK
  BY EmptySeq DEF Init, QueueOK
<1>3. ControlOK
  BY DEF Init, ControlOK
<1>4. RunsOK
  BY DEF Init, RunsOK
<1>5. HistoryOK
  BY DEF Init, HistoryOK
<1> QED BY <1>1, <1>2, <1>3, <1>4, <1>5 DEF TypeOK

LEMMA TypeStep ==
  ASSUME TypeOK, [Next]_vars
  PROVE  TypeOK'
<1> USE RunsAreNat DEF TypeOK, Threads, control, history
<1>1. ASSUME NEW t \in Threads, send(t) PROVE TypeOK'
  <2>1. ThreadsOK'
    BY <1>1, SendThread
  <2>2. QueueOK' /\ ControlOK'
    BY <1>1 DEF QueueOK, ControlOK, send, Arrive, DropDraining, releaseRun
  <2>3. RunsOK' /\ HistoryOK'
    BY <1>1 DEF RunsOK, HistoryOK, send, Arrive, DropDraining, releaseRun
  <2> QED BY <2>1, <2>2, <2>3
<1>2. ASSUME NEW t \in Threads, enqueue(t) PROVE TypeOK'
  <2>1. ThreadsOK'
    BY <1>2, EnqueueThread
  <2>2. QueueOK' /\ ControlOK'
    BY <1>2 DEF QueueOK, ControlOK, enqueue, Arrive
  <2>3. RunsOK' /\ HistoryOK'
    BY <1>2 DEF RunsOK, HistoryOK, enqueue, Arrive
  <2> QED BY <2>1, <2>2, <2>3
<1>3. ASSUME NEW t \in Threads, Esc(t) PROVE TypeOK'
  <2>1. ThreadsOK'
    BY <1>3, EscThread
  <2>2. QueueOK' /\ ControlOK'
    BY <1>3 DEF QueueOK, ControlOK, Esc, Arrive
  <2>3. RunsOK' /\ HistoryOK'
    BY <1>3 DEF RunsOK, HistoryOK, Esc, Arrive
  <2> QED BY <2>1, <2>2, <2>3
<1>4. ASSUME NEW t \in Threads, stopDraining(t) PROVE TypeOK'
  <2>1. ThreadsOK'
    BY <1>4, StopDrainingThread
  <2>2. QueueOK' /\ ControlOK'
    BY <1>4 DEF QueueOK, ControlOK, stopDraining, Arrive, DropDraining, releaseRun
  <2>3. RunsOK' /\ HistoryOK'
    BY <1>4 DEF RunsOK, HistoryOK, stopDraining, Arrive, DropDraining, releaseRun
  <2> QED BY <2>1, <2>2, <2>3
<1>5. ASSUME NEW t \in Threads, NEW m \in Reqs, steer(t, m) PROVE TypeOK'
  <2>1. ThreadsOK'
    BY <1>5, SteerThread
  <2>a. generation + 1 \in Nat /\ t \in Reqs
    BY <1>5 DEF ControlOK, steer, Arrive
  <2>2. QueueOK' /\ ControlOK'
    BY <1>5, <2>a DEF QueueOK, ControlOK, steer
  <2>3. RunsOK' /\ HistoryOK'
    BY <1>5 DEF RunsOK, HistoryOK, steer, Arrive
  <2> QED BY <2>1, <2>2, <2>3
<1>6. ASSUME NEW t \in Threads, NEW m \in Reqs, dequeue(t, m) PROVE TypeOK'
  <2>1. ThreadsOK'
    BY <1>6, DequeueThread
  <2>2. QueueOK' /\ ControlOK'
    BY <1>6 DEF QueueOK, ControlOK, dequeue, Arrive
  <2>3. RunsOK' /\ HistoryOK'
    BY <1>6 DEF RunsOK, HistoryOK, dequeue, Arrive
  <2> QED BY <2>1, <2>2, <2>3
<1>7. ASSUME NEW t \in Threads, QueueWritten(t) PROVE TypeOK'
  <2>1. ThreadsOK'
    BY <1>7, QueueWrittenThread
  <2>a. t \in Reqs
    BY <1>7 DEF QueueWritten, ThreadsOK, Shape
  <2>b. Append(queue, t) \in Seq(Reqs)
    BY <2>a, AppendProperties DEF QueueOK
  <2>2. QueueOK' /\ ControlOK'
    BY <1>7, <2>b DEF QueueOK, ControlOK, QueueWritten
  <2>3. RunsOK' /\ HistoryOK'
    BY <1>7 DEF RunsOK, HistoryOK, QueueWritten
  <2> QED BY <2>1, <2>2, <2>3
<1>8. ASSUME NEW t \in Threads, DequeueWritten(t) PROVE TypeOK'
  <2>1. ThreadsOK'
    BY <1>8, DequeueWrittenThread
  <2>a. queue' \in Seq(Reqs)
    BY <1>8, RemoveFromQueueType DEF DequeueWritten
  <2>2. QueueOK' /\ ControlOK'
    BY <1>8, <2>a DEF QueueOK, ControlOK, DequeueWritten
  <2>c. thr[t].msg \in Reqs
    BY <1>8 DEF DequeueWritten, ThreadsOK, Shape
  <2>3. RunsOK' /\ HistoryOK'
    BY <1>8, <2>c DEF RunsOK, HistoryOK, DequeueWritten
  <2> QED BY <2>1, <2>2, <2>3
<1>9. ASSUME NEW t \in Threads, JoinReturns(t) PROVE TypeOK'
  <2>1. ThreadsOK'
    BY <1>9, JoinReturnsThread
  <2>2. QueueOK' /\ ControlOK'
    BY <1>9 DEF QueueOK, ControlOK, JoinReturns
  <2>3. RunsOK' /\ HistoryOK'
    BY <1>9 DEF RunsOK, HistoryOK, JoinReturns
  <2> QED BY <2>1, <2>2, <2>3
<1>10. ASSUME NEW t \in Threads, DrainBegin(t) PROVE TypeOK'
  <2>1. ThreadsOK'
    BY <1>10, DrainBeginThread
  <2>2. QueueOK' /\ ControlOK'
    BY <1>10 DEF QueueOK, ControlOK, DrainBegin
  <2>3. RunsOK' /\ HistoryOK'
    BY <1>10 DEF RunsOK, HistoryOK, DrainBegin
  <2> QED BY <2>1, <2>2, <2>3
<1>11. ASSUME NEW t \in Threads, DrainContinue(t) PROVE TypeOK'
  <2>1. ThreadsOK'
    BY <1>11, DrainContinueThread
  <2>2. QueueOK' /\ ControlOK'
    BY <1>11, QueuedType DEF QueueOK, ControlOK, DrainContinue, dequeueAndStartQueuedMessage,
       DropDraining, releaseRun
  <2>3. RunsOK' /\ HistoryOK'
    BY <1>11 DEF RunsOK, HistoryOK, DrainContinue, dequeueAndStartQueuedMessage,
       DropDraining, releaseRun
  <2> QED BY <2>1, <2>2, <2>3
<1>12. ASSUME NEW t \in Threads, AwaitLoop(t) PROVE TypeOK'
  <2>1. ThreadsOK'
    BY <1>12, AwaitLoopThread
  <2>2. QueueOK' /\ ControlOK'
    BY <1>12 DEF QueueOK, ControlOK, AwaitLoop, Waits, StopError, GiveUpStart, Return,
       Unclaim, KeepInQueue
  <2>3. RunsOK' /\ HistoryOK'
    BY <1>12 DEF RunsOK, HistoryOK, AwaitLoop, Waits, StopError, GiveUpStart, Return,
       Unclaim, KeepInQueue
  <2> QED BY <2>1, <2>2, <2>3
<1>13. ASSUME NEW t \in Threads, AwaitRejected(t) PROVE TypeOK'
  <2>1. ThreadsOK'
    BY <1>13, AwaitRejectedThread
  <2>2. QueueOK' /\ ControlOK'
    BY <1>13 DEF QueueOK, ControlOK, AwaitRejected, Goto, StopError, GiveUpStart, Return,
       Unclaim, KeepInQueue
  <2>3. RunsOK' /\ HistoryOK'
    BY <1>13 DEF RunsOK, HistoryOK, AwaitRejected, Goto, StopError, GiveUpStart, Return,
       Unclaim, KeepInQueue
  <2> QED BY <2>1, <2>2, <2>3
<1>14. ASSUME NEW t \in Threads, AwaitTimeout(t) PROVE TypeOK'
  <2>1. ThreadsOK'
    BY <1>14, AwaitTimeoutThread
  <2>2. QueueOK' /\ ControlOK'
    BY <1>14 DEF QueueOK, ControlOK, AwaitTimeout, StopError, GiveUpStart, Return, Unclaim,
       KeepInQueue
  <2>3. RunsOK' /\ HistoryOK'
    BY <1>14 DEF RunsOK, HistoryOK, AwaitTimeout, StopError, GiveUpStart, Return, Unclaim,
       KeepInQueue
  <2> QED BY <2>1, <2>2, <2>3
<1>15. ASSUME NEW t \in Threads, StartContinue(t) PROVE TypeOK'
  <2>1. ThreadsOK'
    BY <1>15, StartContinueThread
  <2>2. QueueOK' /\ ControlOK'
    BY <1>15 DEF QueueOK, ControlOK, StartContinue, GiveUpStart, Return, Unclaim, KeepInQueue
  <2>3. RunsOK' /\ HistoryOK'
    BY <1>15 DEF RunsOK, HistoryOK, StartContinue, GiveUpStart, Return, Unclaim, KeepInQueue
  <2> QED BY <2>1, <2>2, <2>3
<1>16. ASSUME NEW t \in Threads, CancelEnter(t) PROVE TypeOK'
  <2>1. ThreadsOK'
    BY <1>16, CancelEnterThread
  <2>2. QueueOK' /\ ControlOK'
    BY <1>16 DEF QueueOK, ControlOK, CancelEnter, DropDraining, releaseRun
  <2>3. RunsOK' /\ HistoryOK'
    BY <1>16 DEF RunsOK, HistoryOK, CancelEnter, DropDraining, releaseRun
  <2> QED BY <2>1, <2>2, <2>3
<1>17. ASSUME NEW t \in Threads, CancelActive(t) PROVE TypeOK'
  <2>1. ThreadsOK'
    BY <1>17, CancelActiveThread
  <2>2. QueueOK' /\ ControlOK'
    BY <1>17 DEF QueueOK, ControlOK, CancelActive
  <2>3. RunsOK' /\ HistoryOK'
    BY <1>17 DEF RunsOK, HistoryOK, CancelActive
  <2> QED BY <2>1, <2>2, <2>3
<1>18. ASSUME NEW t \in Threads, CancelContinue(t) PROVE TypeOK'
  <2>1. ThreadsOK'
    BY <1>18, CancelContinueThread
  <2>2. QueueOK' /\ ControlOK'
    BY <1>18, QueuedType DEF QueueOK, ControlOK, CancelContinue, Return,
       dequeueAndStartQueuedMessage, DropDraining, releaseRun
  <2>3. RunsOK' /\ HistoryOK'
    BY <1>18 DEF RunsOK, HistoryOK, CancelContinue, Return, dequeueAndStartQueuedMessage,
       DropDraining, releaseRun
  <2> QED BY <2>1, <2>2, <2>3
<1>19. ASSUME NEW t \in Threads, Boot(t) PROVE TypeOK'
  <2>1. ThreadsOK'
    BY <1>19, BootThread
  <2>a. thr[t].msg \in Reqs
    BY <1>19 DEF Boot, ThreadsOK, Shape
  <2>b. Remember(thr[t].msg) \in Seq(Reqs)
    BY <2>a, RememberType
  <2>2. QueueOK' /\ ControlOK'
    BY <1>19, <2>b DEF QueueOK, ControlOK, Boot
  <2>3. RunsOK'
    BY <1>19 DEF RunsOK, Boot
  <2>4. HistoryOK'
    BY <1>19, <2>a DEF HistoryOK, Boot
  <2> QED BY <2>1, <2>2, <2>3, <2>4
<1>20. ASSUME NEW t \in Threads, LaunchFails(t) PROVE TypeOK'
  <2>1. ThreadsOK'
    BY <1>20, EndLaunchThread DEF LaunchFails
  <2>2. QueueOK' /\ ControlOK'
    BY <1>20 DEF QueueOK, ControlOK, LaunchFails, EndLaunch, WakeCancels, Unclaim
  <2>3. RunsOK' /\ HistoryOK'
    BY <1>20 DEF RunsOK, HistoryOK, LaunchFails, EndLaunch, WakeCancels, Unclaim
  <2> QED BY <2>1, <2>2, <2>3
<1>21. ASSUME NEW t \in Threads, Register(t) PROVE TypeOK'
  <2>1. ThreadsOK'
    BY <1>21, EndLaunchThread DEF Register
  <2>a. queue' \in Seq(Reqs)
    BY <1>21, RemoveFromQueueType DEF Register, QueueOK
  <2>b. thr[t].on \in Runs
    BY <1>21 DEF Register, ThreadsOK, Shape
  <2>2. QueueOK' /\ ControlOK'
    BY <1>21, <2>a, <2>b DEF QueueOK, ControlOK, Register, EndLaunch, Unclaim
  <2>3. RunsOK' /\ HistoryOK'
    BY <1>21 DEF RunsOK, HistoryOK, Register, EndLaunch, WakeCancels, Unclaim, RemoveFromQueue
  <2> QED BY <2>1, <2>2, <2>3
<1>22. ASSUME NEW r \in Runs, StopRecorded(r) PROVE TypeOK'
  <2>1. ThreadsOK'
    BY <1>22, StopRecordedThread
  <2>2. QueueOK' /\ ControlOK'
    BY <1>22 DEF QueueOK, ControlOK, StopRecorded, releaseRun
  <2>3. RunsOK' /\ HistoryOK'
    BY <1>22 DEF RunsOK, HistoryOK, StopRecorded, releaseRun
  <2> QED BY <2>1, <2>2, <2>3
<1>23. ASSUME NEW r \in Runs, TurnResult(r) PROVE TypeOK'
  <2>1. ThreadsOK'
    BY <1>23 DEF TurnResult, ThreadsOK, Shape
  <2>2. QueueOK' /\ ControlOK'
    BY <1>23 DEF QueueOK, ControlOK, TurnResult
  <2>3. RunsOK' /\ HistoryOK'
    BY <1>23 DEF RunsOK, HistoryOK, TurnResult
  <2> QED BY <2>1, <2>2, <2>3
<1>24. ASSUME NEW r \in Runs, ResultRecorded(r) PROVE TypeOK'
  <2>1. ThreadsOK'
    BY <1>24 DEF ResultRecorded, ThreadsOK, Shape
  <2>2. QueueOK' /\ ControlOK'
    BY <1>24 DEF QueueOK, ControlOK, ResultRecorded
  <2>3. RunsOK' /\ HistoryOK'
    BY <1>24 DEF RunsOK, HistoryOK, ResultRecorded
  <2> QED BY <2>1, <2>2, <2>3
<1>25. ASSUME NEW r \in Runs, StreamEnds(r) PROVE TypeOK'
  <2>1. ThreadsOK'
    BY <1>25, StreamEndsThread
  <2>2. QueueOK' /\ ControlOK'
    BY <1>25 DEF QueueOK, ControlOK, StreamEnds, releaseRun
  <2>3. RunsOK' /\ HistoryOK'
    BY <1>25 DEF RunsOK, HistoryOK, StreamEnds, releaseRun
  <2> QED BY <2>1, <2>2, <2>3
<1>26. ASSUME NEW r \in Runs, ProcessExits(r) PROVE TypeOK'
  <2>1. ThreadsOK'
    BY <1>26 DEF ProcessExits, ThreadsOK, Shape
  <2>2. QueueOK' /\ ControlOK'
    BY <1>26 DEF QueueOK, ControlOK, ProcessExits
  <2>3. RunsOK' /\ HistoryOK'
    BY <1>26 DEF RunsOK, HistoryOK, ProcessExits
  <2> QED BY <2>1, <2>2, <2>3
<1>27. ASSUME NEW r \in Runs, ReleaseConfirmed(r) PROVE TypeOK'
  <2>1. ThreadsOK'
    BY <1>27, ResumeThread DEF ReleaseConfirmed
  <2>2. QueueOK' /\ ControlOK'
    BY <1>27 DEF QueueOK, ControlOK, ReleaseConfirmed, Resume, Waits
  <2>3. RunsOK' /\ HistoryOK'
    BY <1>27 DEF RunsOK, HistoryOK, ReleaseConfirmed, Resume, Waits
  <2> QED BY <2>1, <2>2, <2>3
<1>28. ASSUME NEW r \in Runs, ReleaseFails(r) PROVE TypeOK'
  <2>1. ThreadsOK'
    BY <1>28, ResumeThread DEF ReleaseFails
  <2>2. QueueOK' /\ ControlOK'
    BY <1>28 DEF QueueOK, ControlOK, ReleaseFails, Resume, Waits
  <2>3. RunsOK' /\ HistoryOK'
    BY <1>28 DEF RunsOK, HistoryOK, ReleaseFails, Resume, Waits
  <2> QED BY <2>1, <2>2, <2>3
<1>29. CASE UNCHANGED vars
  BY <1>29 DEF vars, ThreadsOK, Shape, QueueOK, ControlOK, RunsOK, HistoryOK
<1> QED
  BY <1>1, <1>2, <1>3, <1>4, <1>5, <1>6, <1>7, <1>8, <1>9, <1>10, <1>11, <1>12, <1>13,
     <1>14, <1>15, <1>16, <1>17, <1>18, <1>19, <1>20, <1>21, <1>22, <1>23, <1>24, <1>25,
     <1>26, <1>27, <1>28, <1>29
  DEF Next, Request, ThreadStep, LaunchStep, RunStep

\* The run control keeps its shape through every interleaving of requests, run
\* tails, stops and exits (agent.ts ChatRunControl): a start in flight always has
\* its message, a stop its run, and the tail of a run never acts for a client.
THEOREM TypeCorrect == Spec => []TypeOK
BY TypeInit, TypeStep, PTL DEF Spec

-----------------------------------------------------------------------------
(* The inductive invariant. *)

\* Where a stop is on its way.
Stops == {"cancel", "clwait", "cact", "cstop"}

\* Where a start holds its message.
Holding == {"swait", "launch", "booted"}

Launches ==
  /\ \A t \in Threads : /\ thr[t].pc \in {"launch", "booted"} <=> launching = t
                        /\ thr[t].pc = "booted" => run[thr[t].on] = "booted"
  /\ \A r \in Runs : thr[r].pc # "idle" => run[r] = "ended"

\* The run whose process the control has to account for.
Current(r) == run[r] \in {"booted", "streaming", "recording", "resulted"} \/ barrier = r

\* A run is where the control looks for it.
RunPlaced(r) ==
  /\ run[r] = "none" => r \notin alive /\ cancel[r] = "no"
  /\ run[r] = "booted" => /\ launching # None /\ cancel[r] = "no"
                          /\ thr[launching].pc = "booted" /\ thr[launching].on = r
  /\ run[r] \in {"streaming", "recording"} =>
       \/ activeTurn = r
       \/ barrier = r /\ cancel[r] = "done" /\ run[r] = "streaming"
  /\ run[r] = "resulted" => draining = r \/ barrier = r
  /\ run[r] = "ended" => barrier = r \/ r \notin alive
  /\ release[r] = "pending" => barrier = r
  /\ cancel[r] = "writing" => run[r] \in {"streaming", "recording", "resulted"}
  /\ cancel[r] = "done" => barrier = r \/ run[r] = "ended"
  /\ activeTurn = r => run[r] \in {"streaming", "recording"} /\ cancel[r] # "done"
  /\ draining = r => run[r] = "resulted"
  /\ barrier = r => /\ run[r] \in {"streaming", "resulted", "ended"}
                    /\ release[r] \in {"pending", "failed"}
                    /\ run[r] = "streaming" => cancel[r] = "done"
  /\ Current(r) /\ launching # None => run[r] = "booted"

\* What a thread has seen settled stays settled while it waits.
Knows(t) ==
  /\ thr[t].pc \in {"swait", "cact"} => draining = None
  /\ thr[t].pc = "cact" => thr[t].micro = "again" /\ \A r \in Runs : run[r] # "booted"
  /\ thr[t].pc \in Waits /\ thr[t].micro # "again" => barrier # None /\ thr[t].on = barrier
  /\ thr[t].pc = "cstop" => cancel[thr[t].on] = "writing"
  /\ thr[t].pc = "cwait" => thr[t].saw \cap alive \subseteq {barrier}

Placed ==
  /\ \A r \in Runs : RunPlaced(r)
  /\ \A r, s \in Runs : Current(r) /\ Current(s) => r = s

Known == Placed /\ \A t \in Threads : Knows(t)

\* Which commands reach which places of the code.
Fits(n) ==
  /\ n.pc = "qwrite" => n.cmd \in {"send", "enqueue"}
  /\ n.cmd = "enqueue" => n.pc \in {"qwrite", "done"}
  /\ n.cmd = "send" => n.pc \in {"qwrite", "swait", "launch", "booted", "done"}
  /\ n.pc \in Stops \cup {"cwait"} => n.cmd \in {"esc", "steer"}

Carries ==
  \A t \in Threads :
    /\ Fits(thr[t])
    /\ thr[t].pc \in Holding /\ thr[t].cmd = "send" => thr[t].msg = t
    /\ thr[t].pc = "booted" => delivered[thr[t].msg] > 0

\* A thread that has decided to start something, or to stop for its steer.
Deciding(n) == n.pc \in {"qwait", "swait"} \/ (n.cmd = "steer" /\ n.pc \in Stops \cup {"cwait"})

\* A decision no later stop or steer superseded may rely on it: the chat is not
\* parked, and the handoff is free or its own.
Decided(t) ==
  /\ thr[t].gen <= generation
  /\ Deciding(thr[t]) /\ ~Superseded(t) => ~paused /\ (steering # None => steering = t)
  /\ thr[t].pc = "clwait" => launching # None /\ thr[t].for = launching

\* While a parked chat launches or runs, somebody is still stopping it.
Stopping ==
  /\ paused /\ launching # None => \E t \in Reqs : thr[t].pc \in {"cancel", "clwait"}
  /\ paused /\ activeTurn # None =>
       \E t \in Reqs : \/ thr[t].pc \in {"cancel", "clwait", "cact"}
                       \/ thr[t].pc = "cstop" /\ thr[t].on = activeTurn

Words == (\A t \in Threads : Decided(t)) /\ Stopping

Inv == Launches /\ (slipped \/ Known) /\ Carries /\ Words

-----------------------------------------------------------------------------
(* Steps of one thread. *)

LEMMA Moved ==
  ASSUME ThreadsOK, NEW t \in Threads, NEW n, Becomes(t, n)
  PROVE  thr'[t] = n /\ \A u \in Threads : u # t => thr'[u] = thr[u]
BY DEF ThreadsOK, Becomes

LEMMA EndedPc == ASSUME NEW t PROVE Ended(t).pc = "done" /\ Ended(t).cmd = thr[t].cmd
                                    /\ Ended(t).gen = 0
BY DEF Ended, NewThread

\* No run is started, stopped or ended; the draining stream may become the barrier.
LEMMA QuietKnown ==
  ASSUME TypeOK, Launches, Known, NEW t \in Threads, NEW n, Becomes(t, n),
         DropDraining \/ UNCHANGED <<draining, barrier, release>>,
         UNCHANGED <<launching, activeTurn, run, cancel, alive>>,
         thr[t].pc \notin {"launch", "booted"}, n.pc \notin {"launch", "booted", "cstop"},
         n.pc \in {"swait", "cact"} => draining' = None,
         n.pc = "cact" => n.micro = "again" /\ launching = None,
         n.pc \in Waits /\ n.micro # "again" => barrier # None /\ n.on = barrier,
         n.pc = "cwait" => n.saw \cap alive \subseteq {barrier}
  PROVE  Known'
<1> USE RunsAreNat DEF TypeOK, Threads, Known, Placed
<1>1. /\ thr'[t] = n
      /\ \A u \in Threads : u # t => thr'[u] = thr[u]
  BY Moved
<1>2. barrier' = barrier \/ (barrier = None /\ barrier' = draining)
  <2>1. CASE draining # None /\ barrier # None
    <3>1. Current(draining) /\ Current(barrier)
      BY <2>1 DEF Current, ControlOK, RunPlaced
    <3> QED BY <2>1, <3>1 DEF ControlOK, DropDraining
  <2> QED BY <2>1 DEF DropDraining, releaseRun
<1>3. Placed'
  BY SMTT(60), <1>1, <1>2
  DEF RunPlaced, Current, Launches, DropDraining, releaseRun, ControlOK, RunsOK
<1>4. ASSUME NEW u \in Threads, u # t PROVE Knows(u)'
  BY <1>1, <1>2, <1>4 DEF Knows, DropDraining, releaseRun, RunsOK
<1>5. Knows(t)'
  BY <1>1, <1>2 DEF Knows, RunPlaced, Launches, DropDraining, RunsOK
<1> QED BY <1>3, <1>4, <1>5

LEMMA QuietLaunches ==
  ASSUME TypeOK, Launches, NEW t \in Threads, NEW n, Becomes(t, n),
         UNCHANGED <<launching, run>>,
         thr[t].pc \notin {"launch", "booted"}, n.pc \notin {"launch", "booted"},
         t \in Reqs \/ thr[t].pc # "idle"
  PROVE  Launches'
<1>1. /\ thr'[t] = n
      /\ \A u \in Threads : u # t => thr'[u] = thr[u]
  BY Moved DEF TypeOK
<1>2. ASSUME NEW u \in Threads
      PROVE  /\ thr'[u].pc \in {"launch", "booted"} <=> launching' = u
             /\ thr'[u].pc = "booted" => run'[thr'[u].on] = "booted"
  BY <1>1, <1>2 DEF Launches
<1>3. ASSUME NEW r \in Runs, thr'[r].pc # "idle" PROVE run'[r] = "ended"
  BY <1>1, <1>3, RunsAreNat DEF Launches, Threads
<1> QED BY <1>2, <1>3 DEF Launches

LEMMA QuietCarries ==
  ASSUME TypeOK, Carries, NEW t \in Threads, NEW n, Becomes(t, n), delivered' = delivered,
         Fits(n), n.pc # "booted", n.pc \in Holding /\ n.cmd = "send" => n.msg = t
  PROVE  Carries'
BY Moved DEF TypeOK, Carries, Fits

LEMMA QuietWords ==
  ASSUME TypeOK, Words, NEW t \in Threads, NEW n, Becomes(t, n),
         UNCHANGED <<generation, launching, activeTurn>>,
         paused' => paused, steering' \in {steering, None},
         thr[t].pc \notin Stops,
         n.gen \in {thr[t].gen, generation, 0}, n.pc # "clwait",
         Deciding(n) /\ n.gen = generation => ~paused' /\ (steering # None => steering = t)
  PROVE  Words'
<1>1. /\ thr'[t] = n
      /\ \A u \in Threads : u # t => thr'[u] = thr[u]
  BY Moved DEF TypeOK
<1>2. \A u \in Threads : thr[u].gen \in Nat
  BY DEF TypeOK, ThreadsOK, Thread
<1>3. ASSUME NEW u \in Threads PROVE Decided(u)'
  <2>1. CASE u = t
    BY <1>1, <1>2, <2>1 DEF Words, Decided, Superseded, TypeOK, ControlOK
  <2>2. CASE u # t
    BY <1>1, <1>3, <2>2 DEF Words, Decided, Superseded
  <2> QED BY <2>1, <2>2
<1>4. Stopping'
  <2>1. \A u \in Reqs : thr[u].pc \in Stops => thr'[u] = thr[u]
    BY <1>1 DEF Threads
  <2> QED BY <2>1 DEF Words, Stopping, Stops
<1> QED BY <1>3, <1>4 DEF Words

-----------------------------------------------------------------------------
(* The client requests. *)

LEMMA SendInv ==
  ASSUME TypeOK, Inv, NEW t \in Threads, send(t)
  PROVE  Inv'
<1> DEFINE n1 == [NewThread EXCEPT !.cmd = "send", !.msg = t, !.gen = generation,
                                   !.pc = "qwrite"]
<1> DEFINE n2 == [NewThread EXCEPT !.cmd = "send", !.msg = t, !.gen = generation,
                                   !.pc = "swait", !.micro = "again"]
<1>1. \/ Becomes(t, n1) /\ UNCHANGED <<draining, barrier, release, paused>>
      \/ Becomes(t, n2) /\ DropDraining /\ ~paused' /\ steering = None
  BY DEF send
<1>2. /\ n1.pc = "qwrite" /\ n1.cmd = "send" /\ n1.msg = t /\ n1.gen = generation
      /\ n2.pc = "swait" /\ n2.cmd = "send" /\ n2.msg = t /\ n2.gen = generation
      /\ n2.micro = "again"
  BY DEF NewThread
<1>3. /\ UNCHANGED <<launching, activeTurn, run, cancel, alive, generation, steering,
                     delivered, slipped>>
      /\ thr[t].pc = "idle" /\ t \in Reqs
  BY DEF send, Arrive, history
<1> HIDE DEF n1, n2
<1>4. slipped \/ Known'
  BY <1>1, <1>2, <1>3, QuietKnown DEF Inv, Waits, DropDraining
<1>5. Launches' /\ Carries'
  BY <1>1, <1>2, <1>3, QuietLaunches, QuietCarries DEF Inv, Fits, Stops
<1>6. Words'
  BY <1>1, <1>2, <1>3, QuietWords DEF Inv, Deciding, Stops
<1> QED BY <1>3, <1>4, <1>5, <1>6 DEF Inv

LEMMA EnqueueInv ==
  ASSUME TypeOK, Inv, NEW t \in Threads, enqueue(t)
  PROVE  Inv'
<1> DEFINE n1 == [NewThread EXCEPT !.cmd = "enqueue", !.msg = t, !.pc = "qwrite"]
<1>1. Becomes(t, n1) /\ n1.pc = "qwrite" /\ n1.cmd = "enqueue" /\ n1.gen = 0
  BY DEF enqueue, NewThread
<1>2. /\ UNCHANGED <<launching, activeTurn, run, cancel, alive, draining, barrier, release,
                     generation, paused, steering, delivered, slipped>>
      /\ thr[t].pc = "idle" /\ t \in Reqs
  BY DEF enqueue, Arrive, control, history
<1> HIDE DEF n1
<1>3. slipped \/ Known'
  BY <1>1, <1>2, QuietKnown DEF Inv, Waits
<1>4. Launches' /\ Carries'
  BY <1>1, <1>2, QuietLaunches, QuietCarries DEF Inv, Fits, Stops, Holding
<1>5. Words'
  BY <1>1, <1>2, QuietWords DEF Inv, Deciding, Stops
<1> QED BY <1>2, <1>3, <1>4, <1>5 DEF Inv

\* What a stop or a steer that bumps the generation does to the decisions of others.
LEMMA Bumped ==
  ASSUME TypeOK, Words, generation' = generation + 1, UNCHANGED launching,
         NEW u \in Threads, thr'[u] = thr[u]
  PROVE  Decided(u)'
BY DEF TypeOK, ThreadsOK, Thread, ControlOK, Words, Decided, Superseded

LEMMA EscInv ==
  ASSUME TypeOK, Inv, NEW t \in Threads, Esc(t)
  PROVE  Inv'
<1> DEFINE n1 == [NewThread EXCEPT !.cmd = "esc", !.pc = "cancel", !.micro = "again",
                                   !.saw = alive]
<1>1. Becomes(t, n1) /\ n1.pc = "cancel" /\ n1.cmd = "esc" /\ n1.gen = 0
  BY DEF Esc, NewThread
<1>2. /\ UNCHANGED <<launching, activeTurn, run, cancel, alive, draining, barrier, release,
                     delivered, slipped>>
      /\ thr[t].pc = "idle" /\ t \in Reqs
      /\ generation' = generation + 1
  BY DEF Esc, Arrive, history
<1> HIDE DEF n1
<1>3. slipped \/ Known'
  BY <1>1, <1>2, QuietKnown DEF Inv, Waits
<1>4. Launches' /\ Carries'
  BY <1>1, <1>2, QuietLaunches, QuietCarries DEF Inv, Fits, Holding
<1>5. Words'
  <2>1. /\ thr'[t] = n1
        /\ \A u \in Threads : u # t => thr'[u] = thr[u]
    BY <1>1, Moved DEF TypeOK
  <2>2. ASSUME NEW u \in Threads PROVE Decided(u)'
    BY <1>1, <1>2, <2>1, <2>2, Bumped
    DEF Inv, Decided, Deciding, TypeOK, ControlOK
  <2>3. Stopping'
    BY <1>1, <1>2, <2>1 DEF Stopping
  <2> QED BY <2>2, <2>3 DEF Words
<1> QED BY <1>2, <1>3, <1>4, <1>5 DEF Inv

LEMMA StopDrainingInv ==
  ASSUME TypeOK, Inv, NEW t \in Threads, stopDraining(t)
  PROVE  Inv'
<1> DEFINE n1 == [thr[t] EXCEPT !.cmd = "stopDraining", !.pc = "done"]
<1>1. Becomes(t, n1) /\ DropDraining
  BY DEF stopDraining
<1>2. n1.pc = "done" /\ n1.cmd = "stopDraining" /\ n1.gen = thr[t].gen
  BY DEF TypeOK, ThreadsOK, Thread
<1>3. /\ UNCHANGED <<launching, activeTurn, run, cancel, alive, generation, paused, steering,
                     delivered, slipped>>
      /\ thr[t].pc = "idle" /\ t \in Reqs
  BY DEF stopDraining, Arrive, history
<1> HIDE DEF n1
<1>4. slipped \/ Known'
  BY <1>1, <1>2, <1>3, QuietKnown DEF Inv, Waits
<1>5. Launches' /\ Carries'
  BY <1>1, <1>2, <1>3, QuietLaunches, QuietCarries DEF Inv, Fits, Stops, Holding
<1>6. Words'
  BY <1>1, <1>2, <1>3, QuietWords DEF Inv, Deciding, Stops
<1> QED BY <1>3, <1>4, <1>5, <1>6 DEF Inv

LEMMA SteerInv ==
  ASSUME TypeOK, Inv, NEW t \in Threads, NEW m \in Reqs, steer(t, m)
  PROVE  Inv'
<1> DEFINE n1 == [NewThread EXCEPT !.cmd = "steer", !.msg = m, !.pc = "join", !.for = steering]
<1> DEFINE n2 == [NewThread EXCEPT !.cmd = "steer", !.msg = m, !.pc = "cancel",
                                   !.micro = "again", !.gen = generation + 1]
<1>1. \/ Becomes(t, n1) /\ UNCHANGED <<generation, paused, steering>>
      \/ Becomes(t, n2) /\ generation' = generation + 1 /\ ~paused' /\ steering' = t
  BY DEF steer
<1>2. /\ n1.pc = "join" /\ n1.cmd = "steer" /\ n1.gen = 0
      /\ n2.pc = "cancel" /\ n2.cmd = "steer" /\ n2.gen = generation + 1
  BY DEF NewThread
<1>3. /\ UNCHANGED <<launching, activeTurn, run, cancel, alive, draining, barrier, release,
                     delivered, slipped>>
      /\ thr[t].pc = "idle" /\ t \in Reqs
  BY DEF steer, Arrive, history
<1> HIDE DEF n1, n2
<1>4. slipped \/ Known'
  BY <1>1, <1>2, <1>3, QuietKnown DEF Inv, Waits
<1>5. Launches' /\ Carries'
  BY <1>1, <1>2, <1>3, QuietLaunches, QuietCarries DEF Inv, Fits, Stops, Holding
<1>6. CASE Becomes(t, n1) /\ UNCHANGED <<generation, paused, steering>>
  <2>1. Words'
    BY <1>2, <1>3, <1>6, QuietWords DEF Inv, Deciding, Stops
  <2> QED BY <1>3, <1>4, <1>5, <2>1 DEF Inv
<1>7. CASE Becomes(t, n2) /\ generation' = generation + 1 /\ ~paused' /\ steering' = t
  <2>1. /\ thr'[t] = n2
        /\ \A u \in Threads : u # t => thr'[u] = thr[u]
    BY <1>7, Moved DEF TypeOK
  <2>2. ASSUME NEW u \in Threads PROVE Decided(u)'
    BY <1>2, <1>3, <1>7, <2>1, <2>2, Bumped DEF Inv, Decided, TypeOK, ControlOK
  <2>3. Stopping'
    BY <1>7 DEF Stopping
  <2> QED BY <1>3, <1>4, <1>5, <2>2, <2>3 DEF Inv, Words
<1> QED BY <1>1, <1>6, <1>7

LEMMA DequeueInv ==
  ASSUME TypeOK, Inv, NEW t \in Threads, NEW m \in Reqs, dequeue(t, m)
  PROVE  Inv'
<1> DEFINE n1 == [NewThread EXCEPT !.cmd = "dequeue", !.msg = m, !.pc = "dwrite"]
<1>1. Becomes(t, n1) /\ n1.pc = "dwrite" /\ n1.cmd = "dequeue" /\ n1.gen = 0
  BY DEF dequeue, NewThread
<1>2. /\ UNCHANGED <<launching, activeTurn, run, cancel, alive, draining, barrier, release,
                     generation, paused, steering, delivered, slipped>>
      /\ thr[t].pc = "idle" /\ t \in Reqs
  BY DEF dequeue, Arrive, control, history
<1> HIDE DEF n1
<1>3. slipped \/ Known'
  BY <1>1, <1>2, QuietKnown DEF Inv, Waits
<1>4. Launches' /\ Carries'
  BY <1>1, <1>2, QuietLaunches, QuietCarries DEF Inv, Fits, Stops, Holding
<1>5. Words'
  BY <1>1, <1>2, QuietWords DEF Inv, Deciding, Stops
<1> QED BY <1>2, <1>3, <1>4, <1>5 DEF Inv

-----------------------------------------------------------------------------
(* The queue and the drains. *)

\* A thread that returns without having touched the control.
LEMMA ReturnInv ==
  ASSUME TypeOK, Inv, NEW t \in Threads, Becomes(t, Ended(t)),
         UNCHANGED <<launching, activeTurn, run, cancel, alive, draining, barrier, release,
                     generation, paused, delivered, slipped>>,
         steering' \in {steering, None},
         thr[t].pc \notin {"idle", "launch", "booted"} \cup Stops
  PROVE  Inv'
<1>1. slipped \/ Known'
  BY QuietKnown, EndedPc DEF Inv, Waits
<1>2. Launches' /\ Carries'
  BY QuietLaunches, QuietCarries, EndedPc DEF Inv, Fits, Stops, Holding, Carries
<1>3. Words'
  BY QuietWords, EndedPc DEF Inv, Deciding, Stops
<1> QED BY <1>1, <1>2, <1>3 DEF Inv

LEMMA QueueWrittenInv ==
  ASSUME TypeOK, Inv, NEW t \in Threads, QueueWritten(t)
  PROVE  Inv'
<1> DEFINE n1 == [thr[t] EXCEPT !.pc = "drain", !.cmd = "drain", !.micro = "again", !.msg = None]
<1>1. Becomes(t, Ended(t)) \/ Becomes(t, n1)
  BY DEF QueueWritten
<1>2. n1.pc = "drain" /\ n1.cmd = "drain" /\ n1.gen = thr[t].gen
  BY DEF TypeOK, ThreadsOK, Thread
<1>3. /\ UNCHANGED <<launching, activeTurn, run, cancel, alive, draining, barrier, release,
                     generation, paused, steering, delivered, slipped>>
      /\ thr[t].pc = "qwrite"
  BY DEF QueueWritten, control, history
<1> HIDE DEF n1
<1>4. CASE Becomes(t, Ended(t))
  BY <1>3, <1>4, ReturnInv DEF Stops
<1>5. CASE Becomes(t, n1)
  <2>1. slipped \/ Known'
    BY <1>2, <1>3, <1>5, QuietKnown DEF Inv, Waits
  <2>2. Launches' /\ Carries'
    BY <1>2, <1>3, <1>5, QuietLaunches, QuietCarries DEF Inv, Fits, Stops, Holding
  <2>3. Words'
    BY <1>2, <1>3, <1>5, QuietWords DEF Inv, Deciding, Stops
  <2> QED BY <1>3, <2>1, <2>2, <2>3 DEF Inv
<1> QED BY <1>1, <1>4, <1>5

LEMMA DequeueWrittenInv ==
  ASSUME TypeOK, Inv, NEW t \in Threads, DequeueWritten(t)
  PROVE  Inv'
BY ReturnInv DEF DequeueWritten, control, Stops

LEMMA JoinReturnsInv ==
  ASSUME TypeOK, Inv, NEW t \in Threads, JoinReturns(t)
  PROVE  Inv'
BY ReturnInv DEF JoinReturns, control, history, Stops

LEMMA DrainBeginInv ==
  ASSUME TypeOK, Inv, NEW t \in Threads, DrainBegin(t)
  PROVE  Inv'
<1> DEFINE n1 == [thr[t] EXCEPT !.pc = "qwait", !.gen = generation]
<1>1. \/ Becomes(t, Ended(t))
      \/ Becomes(t, n1) /\ ~paused /\ steering = None
  BY DEF DrainBegin
<1>2. /\ n1.pc = "qwait" /\ n1.micro = "again" /\ n1.gen = generation /\ n1.cmd = thr[t].cmd
      /\ thr[t].pc = "drain"
  BY DEF TypeOK, ThreadsOK, Thread, DrainBegin
<1>3. UNCHANGED <<launching, activeTurn, run, cancel, alive, draining, barrier, release,
                  generation, paused, steering, delivered, slipped>>
  BY DEF DrainBegin, control, history
<1> HIDE DEF n1
<1>4. CASE Becomes(t, Ended(t))
  BY <1>2, <1>3, <1>4, ReturnInv DEF Stops
<1>5. CASE Becomes(t, n1) /\ ~paused /\ steering = None
  <2>1. slipped \/ Known'
    BY <1>2, <1>3, <1>5, QuietKnown DEF Inv, Waits
  <2>2. Launches' /\ Carries'
    BY <1>2, <1>3, <1>5, QuietLaunches, QuietCarries DEF Inv, Carries, Fits, Stops, Holding
  <2>3. Words'
    BY <1>2, <1>3, <1>5, QuietWords DEF Inv, Deciding, Stops
  <2> QED BY <1>3, <2>1, <2>2, <2>3 DEF Inv
<1> QED BY <1>1, <1>4, <1>5

LEMMA DrainContinueInv ==
  ASSUME TypeOK, Inv, NEW t \in Threads, DrainContinue(t)
  PROVE  Inv'
<1> DEFINE n1(m) == [thr[t] EXCEPT !.pc = "swait", !.micro = "again", !.msg = m]
<1>1. \/ Becomes(t, Ended(t)) /\ UNCHANGED <<draining, barrier, release>>
      \/ \E m \in Queued : Becomes(t, n1(m)) /\ DropDraining /\ ~paused /\ steering = None
  BY DEF DrainContinue, dequeueAndStartQueuedMessage
<1>2. \A m : /\ n1(m).pc = "swait" /\ n1(m).micro = "again"
             /\ n1(m).gen = thr[t].gen /\ n1(m).cmd = thr[t].cmd
  BY DEF TypeOK, ThreadsOK, Thread
<1>3. /\ UNCHANGED <<launching, activeTurn, run, cancel, alive, generation, paused, steering,
                     delivered, slipped>>
      /\ thr[t].pc = "qwait"
  BY DEF DrainContinue, history
<1> HIDE DEF n1
<1>4. CASE Becomes(t, Ended(t)) /\ UNCHANGED <<draining, barrier, release>>
  BY <1>3, <1>4, ReturnInv DEF Stops
<1>5. ASSUME NEW m \in Queued, Becomes(t, n1(m)), DropDraining, ~paused, steering = None
      PROVE  Inv'
  <2>1. slipped \/ Known'
    BY <1>2, <1>3, <1>5, QuietKnown DEF Inv, Waits, DropDraining
  <2>2. thr[t].cmd # "send" /\ thr[t].cmd # "enqueue"
    BY <1>3 DEF Inv, Carries, Fits
  <2>3. Launches' /\ Carries'
    BY <1>2, <1>3, <1>5, <2>2, QuietLaunches, QuietCarries DEF Inv, Fits, Stops
  <2>4. Words'
    BY <1>2, <1>3, <1>5, QuietWords DEF Inv, Deciding, Stops
  <2> QED BY <1>3, <2>1, <2>3, <2>4 DEF Inv
<1> QED BY <1>1, <1>4, <1>5

-----------------------------------------------------------------------------
(* awaitRunStopped. *)

\* Where a start that launched nothing, or a wait that failed, leaves its thread.
GivenUp(t, n) ==
  /\ Becomes(t, n) /\ n.cmd = thr[t].cmd
  /\ \/ n.pc = "done" /\ n.gen = 0
     \/ n.pc = "qwrite" /\ n.cmd = "send" /\ n.gen = thr[t].gen

LEMMA GiveUpStartBecomes ==
  ASSUME ThreadsOK, NEW t \in Threads, GiveUpStart(t)
  PROVE  (\E n : GivenUp(t, n)) /\ steering' \in {steering, None}
<1> DEFINE n1 == [thr[t] EXCEPT !.pc = "qwrite", !.micro = "-", !.on = None]
<1>1. /\ Becomes(t, Ended(t)) \/ (Becomes(t, n1) /\ thr[t].cmd = "send")
      /\ steering' \in {steering, None}
  BY DEF GiveUpStart, Return, KeepInQueue
<1>2. n1.pc = "qwrite" /\ n1.cmd = thr[t].cmd /\ n1.gen = thr[t].gen
  BY DEF ThreadsOK, Thread
<1> HIDE DEF n1
<1> QED BY <1>1, <1>2, EndedPc DEF GivenUp

LEMMA StopErrorBecomes ==
  ASSUME ThreadsOK, NEW t \in Threads, StopError(t)
  PROVE  (\E n : GivenUp(t, n)) /\ steering' \in {steering, None}
BY GiveUpStartBecomes, EndedPc DEF StopError, Return, GivenUp

LEMMA GivenUpInv ==
  ASSUME TypeOK, Inv, NEW t \in Threads, NEW n, GivenUp(t, n),
         UNCHANGED <<launching, activeTurn, run, cancel, alive, draining, barrier, release,
                     generation, paused, delivered, slipped>>,
         steering' \in {steering, None}, thr[t].pc \in Waits
  PROVE  Inv'
<1>1. slipped \/ Known'
  BY QuietKnown DEF GivenUp, Inv, Waits
<1>2. Launches' /\ Carries'
  BY QuietLaunches, QuietCarries DEF GivenUp, Inv, Fits, Stops, Holding, Carries, Waits
<1>3. Words'
  BY QuietWords DEF GivenUp, Inv, Deciding, Stops, Waits
<1> QED BY <1>1, <1>2, <1>3 DEF Inv

\* A wait that goes on waiting keeps its decision.
LEMMA WaitOnInv ==
  ASSUME TypeOK, Inv, NEW t \in Threads, NEW n, Becomes(t, n), thr[t].pc \in Waits,
         n.pc = thr[t].pc, n.cmd = thr[t].cmd, n.gen = thr[t].gen, n.msg = thr[t].msg,
         UNCHANGED <<launching, activeTurn, run, generation, paused, steering, delivered>>
  PROVE  Launches' /\ Carries' /\ Words'
<1>1. Launches' /\ Carries'
  BY QuietLaunches, QuietCarries DEF Inv, Fits, Stops, Holding, Carries, Waits
<1>2. Deciding(n) /\ n.gen = generation => ~paused /\ (steering # None => steering = t)
  BY DEF Inv, Words, Decided, Deciding, Superseded
<1>3. Words'
  BY <1>2, QuietWords DEF Inv, Stops, Waits
<1> QED BY <1>1, <1>3

LEMMA AwaitLoopInv ==
  ASSUME TypeOK, Inv, NEW t \in Threads, AwaitLoop(t)
  PROVE  Inv'
<1> DEFINE n1 == [thr[t] EXCEPT !.micro = "-", !.on = barrier]
<1> DEFINE n2 == [thr[t] EXCEPT !.micro = "-", !.on = barrier, !.retry = FALSE]
<1>1. \/ StopError(t) /\ UNCHANGED release
      \/ Becomes(t, n1) /\ UNCHANGED <<release, steering>>
      \/ /\ Becomes(t, n2) /\ UNCHANGED steering
         /\ release' = [release EXCEPT ![barrier] = "pending"]
  BY DEF AwaitLoop
<1>2. /\ UNCHANGED <<launching, activeTurn, run, cancel, alive, draining, barrier,
                     generation, paused, delivered, slipped>>
      /\ thr[t].pc \in Waits /\ barrier # None
  BY DEF AwaitLoop
<1>3. /\ n1.pc = thr[t].pc /\ n1.on = barrier /\ n1.saw = thr[t].saw
      /\ n1.cmd = thr[t].cmd /\ n1.gen = thr[t].gen /\ n1.msg = thr[t].msg
      /\ n2.pc = thr[t].pc /\ n2.on = barrier /\ n2.saw = thr[t].saw
      /\ n2.cmd = thr[t].cmd /\ n2.gen = thr[t].gen /\ n2.msg = thr[t].msg
  BY DEF TypeOK, ThreadsOK, Thread
<1> HIDE DEF n1, n2
<1>4. CASE StopError(t) /\ UNCHANGED release
  BY <1>2, <1>4, StopErrorBecomes, GivenUpInv DEF TypeOK
<1>5. CASE Becomes(t, n1) /\ UNCHANGED <<release, steering>>
  <2>1. slipped \/ Known'
    BY <1>2, <1>3, <1>5, QuietKnown DEF Inv, Known, Knows, Waits
  <2> QED BY <1>2, <1>3, <1>5, <2>1, WaitOnInv DEF Inv
<1>6. CASE /\ Becomes(t, n2) /\ UNCHANGED steering
           /\ release' = [release EXCEPT ![barrier] = "pending"]
  <2>1. ASSUME Known PROVE Known'
    <3>1. /\ thr'[t] = n2
          /\ \A u \in Threads : u # t => thr'[u] = thr[u]
      BY <1>6, Moved DEF TypeOK
    <3>2. Placed'
      BY <1>2, <1>6, <2>1, <3>1, RunsAreNat
      DEF Inv, Launches, Known, Placed, RunPlaced, Current, TypeOK, ControlOK, RunsOK, Waits
    <3>3. ASSUME NEW u \in Threads PROVE Knows(u)'
      BY <1>2, <1>3, <2>1, <3>1 DEF Known, Knows, Waits
    <3> QED BY <3>2, <3>3 DEF Known
  <2> QED BY <1>2, <1>3, <1>6, <2>1, WaitOnInv DEF Inv
<1> QED BY <1>1, <1>4, <1>5, <1>6

LEMMA AwaitRejectedInv ==
  ASSUME TypeOK, Inv, NEW t \in Threads, AwaitRejected(t)
  PROVE  Inv'
<1> DEFINE n1 == [thr[t] EXCEPT !.pc = thr[t].pc, !.micro = "again", !.on = None]
<1>1. \/ StopError(t)
      \/ Becomes(t, n1) /\ UNCHANGED steering
  BY DEF AwaitRejected, Goto
<1>2. /\ UNCHANGED <<launching, activeTurn, run, cancel, alive, draining, barrier, release,
                     generation, paused, delivered, slipped>>
      /\ thr[t].pc \in Waits
  BY DEF AwaitRejected
<1>3. /\ n1.pc = thr[t].pc /\ n1.micro = "again" /\ n1.saw = thr[t].saw
      /\ n1.cmd = thr[t].cmd /\ n1.gen = thr[t].gen /\ n1.msg = thr[t].msg
  BY DEF TypeOK, ThreadsOK, Thread
<1> HIDE DEF n1
<1>4. CASE StopError(t)
  BY <1>2, <1>4, StopErrorBecomes, GivenUpInv DEF TypeOK
<1>5. CASE Becomes(t, n1) /\ UNCHANGED steering
  <2>1. slipped \/ Known'
    BY <1>2, <1>3, <1>5, QuietKnown DEF Inv, Known, Knows, Waits
  <2> QED BY <1>2, <1>3, <1>5, <2>1, WaitOnInv DEF Inv
<1> QED BY <1>1, <1>4, <1>5

LEMMA AwaitTimeoutInv ==
  ASSUME TypeOK, Inv, NEW t \in Threads, AwaitTimeout(t)
  PROVE  Inv'
BY StopErrorBecomes, GivenUpInv DEF TypeOK, AwaitTimeout

-----------------------------------------------------------------------------
(* Starts and launches. *)

LEMMA NoneCurrent ==
  ASSUME TypeOK, Known, barrier = None, draining = None, activeTurn = None, launching = None,
         NEW r \in Runs
  PROVE  ~Current(r)
BY RunsAreNat DEF Known, Placed, RunPlaced, Current

LEMMA StartContinueInv ==
  ASSUME TypeOK, Inv, NEW t \in Threads, StartContinue(t)
  PROVE  Inv'
<1> DEFINE n1 == [thr[t] EXCEPT !.pc = "cancel", !.round = @ + 1]
<1> DEFINE n2 == [thr[t] EXCEPT !.pc = "launch", !.micro = "-"]
<1>1. \/ GiveUpStart(t) /\ launching' = launching
      \/ /\ Becomes(t, n1) /\ UNCHANGED <<launching, steering>>
         /\ thr[t].cmd = "steer"
      \/ /\ Becomes(t, n2) /\ launching' = t /\ UNCHANGED steering
         /\ ~isChatBusy /\ ~Superseded(t)
  BY DEF StartContinue
<1>2. /\ UNCHANGED <<activeTurn, run, cancel, alive, draining, barrier, release, generation,
                     paused, delivered, slipped>>
      /\ thr[t].pc = "swait" /\ barrier = None
  BY DEF StartContinue, history
<1>3. /\ n1.pc = "cancel" /\ n1.cmd = thr[t].cmd /\ n1.gen = thr[t].gen
      /\ n2.pc = "launch" /\ n2.cmd = thr[t].cmd /\ n2.gen = thr[t].gen /\ n2.msg = thr[t].msg
  BY DEF TypeOK, ThreadsOK, Thread
<1> HIDE DEF n1, n2
<1>4. CASE GiveUpStart(t) /\ launching' = launching
  BY <1>2, <1>4, GiveUpStartBecomes, GivenUpInv DEF TypeOK, Waits
<1>5. CASE /\ Becomes(t, n1) /\ UNCHANGED <<launching, steering>>
           /\ thr[t].cmd = "steer"
  <2>1. slipped \/ Known'
    BY <1>2, <1>3, <1>5, QuietKnown DEF Inv, Waits
  <2>2. Launches' /\ Carries'
    BY <1>2, <1>3, <1>5, QuietLaunches, QuietCarries DEF Inv, Fits, Stops, Holding
  <2>3. Deciding(n1) /\ n1.gen = generation => ~paused /\ (steering # None => steering = t)
    BY <1>2, <1>3, <1>5 DEF Inv, Words, Decided, Deciding, Superseded
  <2>4. Words'
    BY <1>2, <1>3, <1>5, <2>3, QuietWords DEF Inv, Stops
  <2> QED BY <1>2, <2>1, <2>2, <2>4 DEF Inv
<1>6. CASE /\ Becomes(t, n2) /\ launching' = t /\ UNCHANGED steering
           /\ ~isChatBusy /\ ~Superseded(t)
  <2>1. /\ thr'[t] = n2
        /\ \A u \in Threads : u # t => thr'[u] = thr[u]
    BY <1>6, Moved DEF TypeOK
  <2>2. launching = None /\ activeTurn = None /\ t # None
    BY <1>6, RunsAreNat DEF isChatBusy, Threads
  <2>3. ASSUME Known PROVE Known'
    <3>1. \A r \in Runs : ~Current(r)
      BY <1>2, <2>2, <2>3, NoneCurrent DEF Known, Knows
    <3>2. \A r \in Runs : ~Current(r)' /\ RunPlaced(r)'
      BY <1>2, <2>3, <3>1 DEF Known, Placed, RunPlaced, Current
    <3>3. ASSUME NEW u \in Threads PROVE Knows(u)'
      BY <1>2, <1>3, <2>1, <2>3 DEF Known, Knows, Waits
    <3> QED BY <3>2, <3>3 DEF Known, Placed
  <2>4. Launches'
    BY <1>2, <1>3, <1>6, <2>1, <2>2, RunsAreNat DEF Inv, Launches, Threads
  <2>5. Carries'
    BY <1>2, <1>3, <2>1 DEF Inv, Carries, Fits, Holding, Stops
  <2>6. ~paused
    BY <1>2, <1>6 DEF Inv, Words, Decided, Deciding
  <2>7. ASSUME NEW u \in Threads PROVE Decided(u)'
    BY <1>2, <1>3, <1>6, <2>1, <2>2, <2>7
    DEF Inv, Words, Decided, Deciding, Stops, Superseded
  <2>8. Stopping'
    BY <1>2, <2>6 DEF Stopping
  <2> QED BY <1>2, <2>3, <2>4, <2>5, <2>7, <2>8 DEF Inv, Words
<1> QED BY <1>1, <1>4, <1>5, <1>6

\* While a launch is under way and has booted nothing yet, no run is current.
LEMMA LaunchCurrent ==
  ASSUME TypeOK, Launches, Known, NEW t \in Threads, thr[t].pc = "launch"
  PROVE  \A r \in Runs : ~Current(r)
BY RunsAreNat DEF Known, Placed, RunPlaced, Launches, Threads

LEMMA BootInv ==
  ASSUME TypeOK, Inv, NEW t \in Threads, Boot(t)
  PROVE  Inv'
<1> DEFINE n1(r) == [thr[t] EXCEPT !.pc = "booted", !.on = r]
<1>1. PICK r \in Runs : /\ run[r] = "none"
                        /\ run' = [run EXCEPT ![r] = "booted"]
                        /\ alive' = alive \cup {r}
                        /\ Becomes(t, n1(r))
  BY DEF Boot
<1>2. /\ UNCHANGED <<launching, activeTurn, cancel, draining, barrier, release, generation,
                     paused, steering, slipped>>
      /\ thr[t].pc = "launch"
      /\ delivered' = [delivered EXCEPT ![thr[t].msg] = @ + 1]
      /\ \A u \in Threads : thr[u].micro = "-"
  BY DEF Boot, Quiescent
<1>3. /\ n1(r).pc = "booted" /\ n1(r).on = r /\ n1(r).msg = thr[t].msg
      /\ n1(r).cmd = thr[t].cmd /\ n1(r).gen = thr[t].gen
  BY DEF TypeOK, ThreadsOK, Thread
<1> HIDE DEF n1
<1>4. /\ thr'[t] = n1(r)
      /\ \A u \in Threads : u # t => thr'[u] = thr[u]
  BY <1>1, Moved DEF TypeOK
<1>5. launching = t /\ t # None
  BY <1>2, RunsAreNat DEF Inv, Launches, Threads
<1>6. ASSUME Known PROVE Known'
  <2>1. \A s \in Runs : ~Current(s)
    BY <1>2, <1>6, LaunchCurrent DEF Inv
  <2>2. barrier = None /\ draining = None
    BY <1>6, <2>1 DEF Current, TypeOK, ControlOK, Known, Placed, RunPlaced
  <2>3. Placed'
    BY <1>1, <1>2, <1>3, <1>4, <1>5, <1>6, <2>1, <2>2, RunsAreNat
    DEF Known, Placed, RunPlaced, Current, TypeOK, ControlOK, RunsOK
  <2>4. ASSUME NEW u \in Threads PROVE Knows(u)'
    BY <1>1, <1>2, <1>3, <1>4, <1>6, <2>2, <2>4 DEF Known, Knows, Waits
  <2> QED BY <2>3, <2>4 DEF Known
<1>7. Launches'
  <2>1. ASSUME NEW u \in Threads
        PROVE  /\ thr'[u].pc \in {"launch", "booted"} <=> launching' = u
               /\ thr'[u].pc = "booted" => run'[thr'[u].on] = "booted"
    BY <1>1, <1>2, <1>3, <1>4, <1>5, <2>1 DEF Inv, Launches, TypeOK, RunsOK
  <2>2. \A s \in Runs : thr'[s].pc # "idle" => run'[s] = "ended"
    BY <1>1, <1>2, <1>4 DEF Inv, Launches, TypeOK, RunsOK, Threads
  <2> QED BY <2>1, <2>2 DEF Launches
<1>8. Carries'
  <2>1. thr[t].msg \in Reqs
    BY <1>2 DEF TypeOK, ThreadsOK, Shape
  <2>2. delivered'[thr[t].msg] > 0 /\ \A m \in Reqs : delivered'[m] >= delivered[m]
    BY <1>2, <2>1 DEF TypeOK, HistoryOK
  <2>3. \A u \in Threads : u # t => thr[u].pc # "booted"
    BY <1>5 DEF Inv, Launches
  <2>4. ASSUME NEW u \in Threads
        PROVE  /\ Fits(thr[u])'
               /\ thr'[u].pc \in Holding /\ thr'[u].cmd = "send" => thr'[u].msg = u
    BY <1>2, <1>3, <1>4 DEF Inv, Carries, Fits, Holding, Stops
  <2> QED BY <1>3, <1>4, <2>2, <2>3, <2>4 DEF Carries
<1>9. Words'
  <2>1. ASSUME NEW u \in Threads PROVE Decided(u)'
    BY <1>2, <1>3, <1>4, <2>1 DEF Inv, Words, Decided, Deciding, Stops, Superseded
  <2>2. Stopping'
    BY <1>2, <1>4 DEF Inv, Words, Stopping, Threads
  <2> QED BY <2>1, <2>2 DEF Words
<1> QED BY <1>2, <1>6, <1>7, <1>8, <1>9 DEF Inv

\* What the end of a launch does to the threads.
LEMMA Woken ==
  ASSUME ThreadsOK, NEW t \in Threads, EndLaunch(t)
  PROVE  /\ thr'[t] = Ended(t)
         /\ \A u \in Threads \ {t} :
              IF thr[u].pc = "clwait" /\ thr[u].for = t
              THEN /\ thr'[u].pc = "cact" /\ thr'[u].micro = "again"
                   /\ thr'[u].cmd = thr[u].cmd /\ thr'[u].gen = thr[u].gen
                   /\ thr'[u].msg = thr[u].msg
              ELSE thr'[u] = thr[u]
<1> DEFINE f == [thr EXCEPT ![t] = Ended(t)]
           n(u) == [thr[u] EXCEPT !.pc = "cact", !.micro = "again"]
           g == [u \in Threads |-> IF f[u].pc = "clwait" /\ f[u].for = t
                                   THEN [f[u] EXCEPT !.pc = "cact", !.micro = "again"]
                                   ELSE f[u]]
<1>1. thr' = WakeCancels(f, t)
  BY DEF EndLaunch
<1>2. WakeCancels(f, t) = g
  <2> HIDE DEF f
  <2> QED BY DEF WakeCancels
<1>3. f[t] = Ended(t) /\ \A u \in Threads \ {t} : f[u] = thr[u]
  BY DEF ThreadsOK
<1> HIDE DEF f
<1>4. thr'[t] = Ended(t)
  BY <1>1, <1>2, <1>3, EndedPc
<1>5. ASSUME NEW u \in Threads \ {t}
      PROVE  IF thr[u].pc = "clwait" /\ thr[u].for = t
             THEN /\ thr'[u].pc = "cact" /\ thr'[u].micro = "again"
                  /\ thr'[u].cmd = thr[u].cmd /\ thr'[u].gen = thr[u].gen
                  /\ thr'[u].msg = thr[u].msg
             ELSE thr'[u] = thr[u]
  <2>1. thr'[u] = IF thr[u].pc = "clwait" /\ thr[u].for = t THEN n(u) ELSE thr[u]
    BY <1>1, <1>2, <1>3
  <2>2. /\ n(u).pc = "cact" /\ n(u).micro = "again" /\ n(u).cmd = thr[u].cmd
        /\ n(u).gen = thr[u].gen /\ n(u).msg = thr[u].msg
    BY DEF ThreadsOK, Thread
  <2> HIDE DEF n
  <2> QED BY <2>1, <2>2
<1> QED BY <1>4, <1>5

\* The end of a launch: all that waits for it stops waiting.
LEMMA EndLaunchInv ==
  ASSUME TypeOK, Inv, NEW t \in Threads, EndLaunch(t), thr[t].pc \in {"launch", "booted"},
         UNCHANGED <<generation, paused, delivered>>,
         activeTurn' = activeTurn \/ (\E u \in Reqs : thr[u].pc \in {"cancel", "clwait"}) \/ ~paused
  PROVE  /\ Carries' /\ Words'
         /\ \A u \in Threads : thr'[u].pc \notin {"launch", "booted", "clwait"}
         /\ \A u \in Threads : \/ thr'[u] = thr[u]
                               \/ thr'[u].pc = "done"
                               \/ thr'[u].pc = "cact" /\ thr'[u].micro = "again"
         /\ \A r \in Runs : thr'[r].pc # "idle" => r = t \/ thr[r].pc # "idle"
<1>1. /\ thr'[t] = Ended(t)
      /\ \A u \in Threads \ {t} :
           IF thr[u].pc = "clwait" /\ thr[u].for = t
           THEN /\ thr'[u].pc = "cact" /\ thr'[u].micro = "again"
                /\ thr'[u].cmd = thr[u].cmd /\ thr'[u].gen = thr[u].gen
                /\ thr'[u].msg = thr[u].msg
           ELSE thr'[u] = thr[u]
  BY Woken DEF TypeOK
<1>2. launching = t /\ launching' = None /\ steering' \in {steering, None}
  BY DEF Inv, Launches, EndLaunch
<1>3. \A u \in Threads : thr[u].pc = "clwait" => thr[u].for = t
  BY <1>2 DEF Inv, Words, Decided
<1>4. \A u \in Threads : u # t => thr[u].pc \notin {"launch", "booted"}
  BY <1>2 DEF Inv, Launches
<1>5. Carries'
  BY <1>1, <1>4, EndedPc DEF Inv, Carries, Fits, Holding, Stops
<1>6. ASSUME NEW u \in Threads PROVE Decided(u)'
  <2>1. thr[u].gen \in Nat /\ generation \in Nat
    BY DEF TypeOK, ThreadsOK, Thread, ControlOK
  <2>2. CASE u = t
    BY <1>1, <2>1, <2>2, EndedPc DEF Decided, Deciding, Stops
  <2>3. CASE u # t
    BY <1>1, <1>2, <1>3, <2>3 DEF Inv, Words, Decided, Deciding, Stops, Superseded
  <2> QED BY <2>2, <2>3
<1>7. Stopping'
  <2>1. \A u \in Reqs : thr[u].pc \in Stops => u \in Threads \ {t}
    BY DEF Threads, Stops
  <2>2. ASSUME paused, activeTurn' # None
        PROVE  \E u \in Reqs : \/ thr'[u].pc \in {"cancel", "clwait", "cact"}
                               \/ thr'[u].pc = "cstop" /\ thr'[u].on = activeTurn'
    <3>1. PICK u \in Reqs : \/ thr[u].pc \in {"cancel", "clwait"}
                            \/ activeTurn' = activeTurn /\ thr[u].pc = "cact"
                            \/ /\ activeTurn' = activeTurn
                               /\ thr[u].pc = "cstop" /\ thr[u].on = activeTurn
      BY <2>2 DEF Inv, Words, Stopping
    <3>2. u \in Threads \ {t}
      BY <2>1, <3>1 DEF Stops
    <3> QED BY <1>1, <1>3, <3>1, <3>2
  <2> QED BY <1>2, <2>2 DEF Stopping
<1>8. \A u \in Threads : thr'[u].pc \notin {"launch", "booted", "clwait"}
  BY <1>1, <1>3, <1>4, EndedPc
<1>9. /\ \A u \in Threads : \/ thr'[u] = thr[u]
                            \/ thr'[u].pc = "done"
                            \/ thr'[u].pc = "cact" /\ thr'[u].micro = "again"
      /\ \A r \in Runs : thr'[r].pc # "idle" => r = t \/ thr[r].pc # "idle"
  BY <1>1, EndedPc DEF Threads
<1> QED BY <1>5, <1>6, <1>7, <1>8, <1>9 DEF Words

LEMMA LaunchFailsInv ==
  ASSUME TypeOK, Inv, NEW t \in Threads, LaunchFails(t)
  PROVE  Inv'
<1>1. /\ UNCHANGED <<activeTurn, run, cancel, alive, draining, barrier, release, generation,
                     paused, delivered, slipped>>
      /\ thr[t].pc = "launch" /\ launching' = None /\ EndLaunch(t)
  BY DEF LaunchFails, EndLaunch
<1>2. /\ Carries' /\ Words'
      /\ \A u \in Threads : thr'[u].pc \notin {"launch", "booted", "clwait"}
      /\ \A u \in Threads : \/ thr'[u] = thr[u]
                            \/ thr'[u].pc = "done"
                            \/ thr'[u].pc = "cact" /\ thr'[u].micro = "again"
      /\ \A r \in Runs : thr'[r].pc # "idle" => r = t \/ thr[r].pc # "idle"
  BY <1>1, EndLaunchInv
<1>3. Launches'
  <2>1. \A s \in Runs : thr'[s].pc # "idle" => run[s] = "ended"
    BY <1>1, <1>2 DEF Inv, Launches
  <2> QED BY <1>1, <1>2, <2>1, RunsAreNat DEF Launches, Threads
<1>4. ASSUME Known PROVE Known'
  <2>1. \A s \in Runs : ~Current(s)
    BY <1>1, <1>4, LaunchCurrent DEF Inv
  <2>2. draining = None /\ \A r \in Runs : run[r] # "booted"
    BY <1>4, <2>1 DEF Current, TypeOK, ControlOK, Known, Placed, RunPlaced
  <2>3. Placed'
    BY <1>1, <1>4, <2>1, <2>2 DEF Known, Placed, RunPlaced, Current
  <2>4. ASSUME NEW u \in Threads PROVE Knows(u)'
    BY <1>1, <1>2, <1>4, <2>2, <2>4 DEF Known, Knows, Waits
  <2> QED BY <2>3, <2>4 DEF Known
<1> QED BY <1>1, <1>2, <1>3, <1>4 DEF Inv

LEMMA RegisterInv ==
  ASSUME TypeOK, Inv, NEW t \in Threads, Register(t)
  PROVE  Inv'
<1> DEFINE r == thr[t].on
<1>1. /\ UNCHANGED <<cancel, alive, draining, barrier, release, generation, paused, delivered,
                     slipped>>
      /\ thr[t].pc = "booted" /\ launching' = None /\ activeTurn' = r /\ EndLaunch(t)
      /\ run' = [run EXCEPT ![r] = "streaming"]
  BY DEF Register, EndLaunch, history
<1>2. /\ r \in Runs /\ run[r] = "booted" /\ launching = t /\ t # None
      /\ \A u \in Threads : u # t => thr[u].pc \notin {"launch", "booted"}
  BY <1>1, RunsAreNat DEF Inv, Launches, TypeOK, ThreadsOK, Shape, Threads
<1>a. ~paused \/ \E u \in Reqs : thr[u].pc \in {"cancel", "clwait"}
  BY <1>2 DEF Inv, Words, Stopping
<1>3. /\ Carries' /\ Words'
      /\ \A u \in Threads : thr'[u].pc \notin {"launch", "booted", "clwait"}
      /\ \A u \in Threads : \/ thr'[u] = thr[u]
                            \/ thr'[u].pc = "done"
                            \/ thr'[u].pc = "cact" /\ thr'[u].micro = "again"
      /\ \A s \in Runs : thr'[s].pc # "idle" => s = t \/ thr[s].pc # "idle"
  BY <1>1, <1>a, EndLaunchInv
<1> HIDE DEF r
<1>4. Launches'
  <2>1. \A s \in Runs : thr'[s].pc # "idle" => run[s] = "ended"
    BY <1>1, <1>3 DEF Inv, Launches
  <2> QED BY <1>1, <1>2, <1>3, <2>1, RunsAreNat DEF Launches, TypeOK, RunsOK, Threads
<1>5. ASSUME Known PROVE Known'
  <2>1. cancel[r] = "no" /\ \A s \in Runs : Current(s) => s = r
    BY <1>2, <1>5 DEF Known, Placed, RunPlaced, Current
  <2>2. /\ draining = None /\ barrier = None /\ activeTurn = None
        /\ \A s \in Runs : run'[s] # "booted"
    BY <1>1, <1>2, <1>5, <2>1 DEF Current, TypeOK, ControlOK, RunsOK, Known, Placed, RunPlaced
  <2>3. Placed'
    BY <1>1, <1>2, <1>5, <2>1, <2>2, RunsAreNat
    DEF Known, Placed, RunPlaced, Current, TypeOK, RunsOK
  <2>4. ASSUME NEW u \in Threads PROVE Knows(u)'
    BY <1>1, <1>3, <1>5, <2>2, <2>4 DEF Known, Knows, Waits
  <2> QED BY <2>3, <2>4 DEF Known
<1> QED BY <1>1, <1>3, <1>4, <1>5 DEF Inv

-----------------------------------------------------------------------------
(* cancel. *)

LEMMA CancelEnterInv ==
  ASSUME TypeOK, Inv, NEW t \in Threads, CancelEnter(t)
  PROVE  Inv'
<1> DEFINE n1 == [thr[t] EXCEPT !.pc = "clwait", !.micro = "-", !.for = launching]
<1> DEFINE n2 == [thr[t] EXCEPT !.pc = "cact"]
<1>1. \/ Becomes(t, n1) /\ launching # None
      \/ Becomes(t, n2) /\ launching = None
  BY DEF CancelEnter
<1>2. /\ UNCHANGED <<launching, activeTurn, run, cancel, alive, generation, paused, steering,
                     delivered, slipped>>
      /\ DropDraining
      /\ thr[t].pc = "cancel" /\ thr[t].micro = "again"
  BY DEF CancelEnter, history
<1>3. /\ n1.pc = "clwait" /\ n1.cmd = thr[t].cmd /\ n1.gen = thr[t].gen /\ n1.for = launching
      /\ n2.pc = "cact" /\ n2.cmd = thr[t].cmd /\ n2.gen = thr[t].gen
      /\ n2.micro = thr[t].micro
  BY DEF TypeOK, ThreadsOK, Thread
<1> HIDE DEF n1, n2
<1>4. \A u \in Threads : thr'[u] = IF u # t THEN thr[u] ELSE IF launching = None THEN n2 ELSE n1
  BY <1>1, Moved DEF TypeOK
<1>5. slipped \/ Known'
  BY <1>1, <1>2, <1>3, QuietKnown DEF Inv, Waits, DropDraining
<1>6. Launches' /\ Carries'
  <2>1. thr[t].cmd \in {"esc", "steer"}
    BY <1>2 DEF Inv, Carries, Fits, Stops
  <2> QED BY <1>1, <1>2, <1>3, <2>1, QuietLaunches, QuietCarries DEF Inv, Fits, Stops, Holding
<1>7. ASSUME NEW u \in Threads PROVE Decided(u)'
  <2>1. CASE u # t
    BY <1>2, <1>4, <1>7, <2>1 DEF Inv, Words, Decided, Superseded
  <2>2. CASE u = t
    BY <1>2, <1>3, <1>4, <2>2 DEF Inv, Words, Decided, Deciding, Stops, Superseded
  <2> QED BY <2>1, <2>2
<1>8. Stopping'
  BY <1>2, <1>3, <1>4 DEF Inv, Words, Stopping, Threads
<1> QED BY <1>2, <1>5, <1>6, <1>7, <1>8 DEF Inv, Words

\* A run that lives and is not the active turn is the barrier, once nothing drains.
LEMMA OthersWait ==
  ASSUME TypeOK, Known, draining = None, activeTurn = None, NEW r \in alive, run[r] # "booted"
  PROVE  barrier = r
BY DEF TypeOK, RunsOK, Known, Placed, RunPlaced

LEMMA CancelActiveInv ==
  ASSUME TypeOK, Inv, NEW t \in Threads, CancelActive(t)
  PROVE  Inv'
<1> DEFINE n1 == [thr[t] EXCEPT !.pc = "cstop", !.micro = "-", !.on = activeTurn]
<1> DEFINE n2 == [thr[t] EXCEPT !.pc = "cwait", !.retry = TRUE]
<1>1. \/ /\ activeTurn # None /\ Becomes(t, n1)
         /\ cancel' = [cancel EXCEPT ![activeTurn] = IF @ = "no" THEN "writing" ELSE @]
      \/ activeTurn = None /\ Becomes(t, n2) /\ cancel' = cancel
  BY DEF CancelActive
<1>2. /\ UNCHANGED <<launching, activeTurn, run, alive, draining, barrier, release,
                     generation, paused, steering, delivered, slipped>>
      /\ thr[t].pc = "cact" /\ thr[t].micro = "again"
  BY DEF CancelActive, control, history
<1>3. /\ n1.pc = "cstop" /\ n1.on = activeTurn /\ n1.cmd = thr[t].cmd /\ n1.gen = thr[t].gen
      /\ n2.pc = "cwait" /\ n2.micro = thr[t].micro /\ n2.saw = thr[t].saw
      /\ n2.cmd = thr[t].cmd /\ n2.gen = thr[t].gen
      /\ thr[t].saw \in SUBSET Runs
  BY DEF TypeOK, ThreadsOK, Thread
<1> HIDE DEF n1, n2
<1>4. \A u \in Threads :
        thr'[u] = IF u # t THEN thr[u] ELSE IF activeTurn = None THEN n2 ELSE n1
  BY <1>1, Moved DEF TypeOK
<1>5. ASSUME Known PROVE Known'
  <2>1. draining = None /\ \A r \in Runs : run[r] # "booted"
    BY <1>2, <1>5 DEF Known, Knows
  <2>2. CASE /\ activeTurn # None /\ Becomes(t, n1)
             /\ cancel' = [cancel EXCEPT ![activeTurn] = IF @ = "no" THEN "writing" ELSE @]
    <3>1. cancel'[activeTurn] = "writing"
      BY <1>5, <2>2 DEF Known, Placed, RunPlaced, TypeOK, ControlOK, RunsOK
    <3>2. Placed'
      BY <1>2, <1>5, <2>1, <2>2, RunsAreNat
      DEF Known, Placed, RunPlaced, Current, TypeOK, ControlOK, RunsOK
    <3>3. ASSUME NEW u \in Threads, u # t PROVE Knows(u)'
      BY <1>2, <1>4, <1>5, <2>2, <3>1, <3>3
      DEF Known, Knows, Waits, TypeOK, RunsOK, ThreadsOK, Shape
    <3>4. Knows(t)'
      BY <1>2, <1>3, <1>4, <2>2, <3>1 DEF Knows, Waits
    <3> QED BY <3>2, <3>3, <3>4 DEF Known
  <2>3. CASE activeTurn = None /\ Becomes(t, n2) /\ cancel' = cancel
    <3>1. thr[t].saw \cap alive \subseteq {barrier}
      BY <1>3, <1>5, <2>1, <2>3, OthersWait DEF TypeOK, RunsOK
    <3> QED BY <1>2, <1>3, <1>5, <2>3, <3>1, QuietKnown DEF Inv, Waits
  <2> QED BY <1>1, <2>2, <2>3
<1>6. Launches' /\ Carries'
  <2>1. thr[t].cmd \in {"esc", "steer"}
    BY <1>2 DEF Inv, Carries, Fits, Stops
  <2> QED BY <1>1, <1>2, <1>3, <2>1, QuietLaunches, QuietCarries DEF Inv, Fits, Stops, Holding
<1>7. ASSUME NEW u \in Threads PROVE Decided(u)'
  <2>1. CASE u # t
    BY <1>2, <1>4, <1>7, <2>1 DEF Inv, Words, Decided, Superseded
  <2>2. CASE u = t
    BY <1>2, <1>3, <1>4, <2>2 DEF Inv, Words, Decided, Deciding, Stops, Superseded
  <2> QED BY <2>1, <2>2
<1>8. Stopping'
  BY <1>2, <1>3, <1>4 DEF Inv, Words, Stopping, Threads
<1> QED BY <1>2, <1>5, <1>6, <1>7, <1>8 DEF Inv, Words

LEMMA CancelContinueInv ==
  ASSUME TypeOK, Inv, NEW t \in Threads, CancelContinue(t)
  PROVE  Inv'
<1> DEFINE n1(m) == [thr[t] EXCEPT !.pc = "swait", !.micro = "again", !.msg = m]
<1>1. \/ Becomes(t, Ended(t)) /\ UNCHANGED <<draining, barrier, release>>
      \/ /\ \E m : Becomes(t, n1(m)) /\ DropDraining
         /\ thr[t].cmd = "steer" /\ UNCHANGED steering
  BY DEF CancelContinue, Return, dequeueAndStartQueuedMessage
<1>2. \A m : /\ n1(m).pc = "swait" /\ n1(m).micro = "again"
             /\ n1(m).gen = thr[t].gen /\ n1(m).cmd = thr[t].cmd
  BY DEF TypeOK, ThreadsOK, Thread
<1>3. /\ UNCHANGED <<launching, activeTurn, run, cancel, alive, generation, paused,
                     delivered, slipped>>
      /\ thr[t].pc = "cwait" /\ steering' \in {steering, None}
  BY DEF CancelContinue, Return, history
<1> HIDE DEF n1
<1>4. CASE Becomes(t, Ended(t)) /\ UNCHANGED <<draining, barrier, release>>
  BY <1>3, <1>4, ReturnInv DEF Stops
<1>5. ASSUME NEW m, Becomes(t, n1(m)), DropDraining, thr[t].cmd = "steer", UNCHANGED steering
      PROVE  Inv'
  <2>1. slipped \/ Known'
    BY <1>2, <1>3, <1>5, QuietKnown DEF Inv, Waits, DropDraining
  <2>2. Launches' /\ Carries'
    BY <1>2, <1>3, <1>5, QuietLaunches, QuietCarries DEF Inv, Fits, Stops
  <2>3. Deciding(n1(m)) /\ n1(m).gen = generation
          => ~paused /\ (steering # None => steering = t)
    BY <1>2, <1>3, <1>5 DEF Inv, Words, Decided, Deciding, Superseded
  <2>4. Words'
    BY <1>2, <1>3, <1>5, <2>3, QuietWords DEF Inv, Stops
  <2> QED BY <1>3, <2>1, <2>2, <2>4 DEF Inv
<1> QED BY <1>1, <1>4, <1>5

\* A step that changes no thread's command, generation and message, and moves
\* threads only from one wait to another.
LEMMA SettledInv ==
  ASSUME TypeOK, Inv, UNCHANGED <<launching, generation, paused, steering, delivered>>,
         activeTurn' \in {activeTurn, None},
         \A u \in Threads :
           \/ thr'[u] = thr[u]
           \/ thr[u].pc = "cstop" /\ thr'[u].pc = "cwait" /\ thr[u].on # activeTurn'
              /\ thr'[u].cmd = thr[u].cmd /\ thr'[u].gen = thr[u].gen
           \/ thr[u].pc \in Waits /\ thr'[u].pc = thr[u].pc /\ thr'[u].cmd = thr[u].cmd
              /\ thr'[u].gen = thr[u].gen /\ thr'[u].msg = thr[u].msg
           \/ u \in Runs /\ thr'[u].pc = "drain" /\ thr'[u].cmd = "drain" /\ thr'[u].gen = 0
  PROVE  Carries' /\ Words'
<1>1. Carries'
  BY DEF Inv, Carries, Fits, Stops, Waits, Holding
<1>2. ASSUME NEW u \in Threads PROVE Decided(u)'
  BY <1>2 DEF Inv, Words, Decided, Deciding, Stops, Superseded, Waits, TypeOK, ControlOK
<1>3. Stopping'
  <2>1. \A u \in Reqs : u \in Threads /\ u \notin Runs
    BY RunsAreNat DEF Threads
  <2> QED BY <2>1 DEF Inv, Words, Stopping, Waits
<1> QED BY <1>1, <1>2, <1>3 DEF Words

LEMMA StopRecordedInv ==
  ASSUME TypeOK, Inv, NEW r \in Runs, StopRecorded(r)
  PROVE  Inv'
<1>1. /\ cancel[r] = "writing" /\ run[r] # "recording"
      /\ \A t \in Threads : thr[t].micro = "-"
      /\ cancel' = [cancel EXCEPT ![r] = "done"]
      /\ activeTurn' = IF activeTurn = r THEN None ELSE activeTurn
      /\ barrier' = r /\ release' = [release EXCEPT ![r] = "pending"]
      /\ UNCHANGED <<launching, draining, run, alive, generation, paused, steering, delivered,
                     slipped>>
  BY DEF StopRecorded, releaseRun, history
<1>2. ASSUME NEW u \in Threads
      PROVE  \/ thr'[u] = thr[u] /\ ~(thr[u].pc = "cstop" /\ thr[u].on = r)
             \/ /\ thr'[u].pc = "cwait" /\ thr'[u].micro = "again" /\ thr[u].pc = "cstop"
                /\ thr[u].on = r /\ thr'[u].cmd = thr[u].cmd /\ thr'[u].gen = thr[u].gen
  <2> DEFINE n == [thr[u] EXCEPT !.pc = "cwait", !.micro = "again", !.on = None, !.retry = TRUE]
  <2>1. thr'[u] = IF thr[u].pc = "cstop" /\ thr[u].on = r THEN n ELSE thr[u]
    BY DEF StopRecorded
  <2>2. n.pc = "cwait" /\ n.micro = "again" /\ n.cmd = thr[u].cmd /\ n.gen = thr[u].gen
    BY DEF TypeOK, ThreadsOK, Thread
  <2> HIDE DEF n
  <2> QED BY <2>1, <2>2
<1>3. Carries' /\ Words'
  BY <1>1, <1>2, SettledInv, RunsAreNat
<1>4. Launches'
  BY <1>1, <1>2, RunsAreNat DEF Inv, Launches, Threads
<1>5. ASSUME Known PROVE Known'
  <2>1. \A s \in Runs : Current(s) => s = r
    BY <1>1, <1>5 DEF Known, Placed, RunPlaced, Current, TypeOK, RunsOK
  <2>2. \A s \in alive : s = r
    BY <1>5, <2>1 DEF Known, Placed, RunPlaced, Current, TypeOK, RunsOK
  <2>3. run[r] \notin {"booted", "none", "ended"}
    BY <1>1, <1>5 DEF Known, Placed, RunPlaced
  <2>4. Placed'
    BY <1>1, <1>5, <2>1, <2>3, RunsAreNat
    DEF Known, Placed, RunPlaced, Current, TypeOK, RunsOK, ControlOK
  <2>5. barrier \in {None, r} /\ \A t \in Threads : thr[t].pc # "cact"
    BY <1>1, <1>5, <2>1 DEF Current, TypeOK, ControlOK, Known, Knows
  <2>6. ASSUME NEW u \in Threads PROVE Knows(u)'
    <3>1. CASE thr'[u] = thr[u] /\ ~(thr[u].pc = "cstop" /\ thr[u].on = r)
      BY <1>1, <1>5, <2>2, <2>5, <2>6, <3>1, RunsAreNat
      DEF Known, Knows, Waits, TypeOK, RunsOK, ThreadsOK, Shape
    <3>2. CASE thr'[u].pc = "cwait" /\ thr'[u].micro = "again"
      BY <1>1, <2>2, <3>2 DEF Knows
    <3> QED BY <1>2, <2>6, <3>1, <3>2
  <2> QED BY <2>4, <2>6 DEF Known
<1> QED BY <1>1, <1>3, <1>4, <1>5 DEF Inv

-----------------------------------------------------------------------------
(* runTurn and the process behind it. *)

LEMMA TurnResultInv ==
  ASSUME TypeOK, Inv, NEW r \in Runs, TurnResult(r)
  PROVE  Inv'
<1>1. /\ run[r] = "streaming" /\ cancel[r] = "no"
      /\ run' = [run EXCEPT ![r] = "recording"]
      /\ UNCHANGED <<thr, launching, activeTurn, cancel, alive, draining, barrier, release,
                     generation, paused, steering, delivered, slipped>>
  BY DEF TurnResult, control, history
<1>2. Carries' /\ Words'
  BY <1>1, SettledInv
<1>3. Launches'
  BY <1>1 DEF Inv, Launches, TypeOK, RunsOK, ThreadsOK, Shape
<1>4. ASSUME Known PROVE Known'
  <2>1. Placed'
    BY <1>1, <1>4 DEF Known, Placed, RunPlaced, Current, TypeOK, RunsOK
  <2>2. ASSUME NEW u \in Threads PROVE Knows(u)'
    BY <1>1, <1>4, <2>2 DEF Known, Knows, Waits, TypeOK, RunsOK
  <2> QED BY <2>1, <2>2 DEF Known
<1> QED BY <1>1, <1>2, <1>3, <1>4 DEF Inv

LEMMA ResultRecordedInv ==
  ASSUME TypeOK, Inv, NEW r \in Runs, ResultRecorded(r)
  PROVE  Inv'
<1>1. /\ run[r] = "recording"
      /\ \A t \in Threads : thr[t].micro = "-"
      /\ run' = [run EXCEPT ![r] = "resulted"]
      /\ activeTurn' = None /\ draining' = r
      /\ UNCHANGED <<thr, launching, cancel, alive, barrier, release, generation, paused,
                     steering, delivered, slipped>>
  BY DEF ResultRecorded, control, history
<1>2. Carries' /\ Words'
  BY <1>1, SettledInv
<1>3. Launches'
  BY <1>1 DEF Inv, Launches, TypeOK, RunsOK, ThreadsOK, Shape
<1>4. ASSUME Known PROVE Known'
  <2>1. /\ activeTurn = r /\ barrier = None
        /\ \A s \in Runs : Current(s) => s = r
    BY <1>1, <1>4, RunsAreNat DEF Known, Placed, RunPlaced, Current, TypeOK, ControlOK
  <2>2. Placed'
    BY <1>1, <1>4, <2>1, RunsAreNat DEF Known, Placed, RunPlaced, Current, TypeOK, RunsOK
  <2>3. ASSUME NEW u \in Threads PROVE Knows(u)'
    BY <1>1, <1>4, <2>1, <2>3 DEF Known, Knows, Waits, TypeOK, RunsOK
  <2> QED BY <2>2, <2>3 DEF Known
<1> QED BY <1>1, <1>2, <1>3, <1>4 DEF Inv

LEMMA StreamEndsInv ==
  ASSUME TypeOK, Inv, NEW r \in Runs, StreamEnds(r)
  PROVE  Inv'
<1> DEFINE n == [NewThread EXCEPT !.cmd = "drain", !.pc = "drain", !.micro = "again"]
<1>1. /\ run[r] \in {"streaming", "resulted"}
      /\ \A t \in Threads : thr[t].micro = "-"
      /\ run' = [run EXCEPT ![r] = "ended"]
      /\ IF cancel[r] = "no" /\ barrier # r
         THEN barrier' = r /\ release' = [release EXCEPT ![r] = "pending"]
         ELSE UNCHANGED <<barrier, release>>
      /\ activeTurn' = IF activeTurn = r THEN None ELSE activeTurn
      /\ draining' = None
      /\ UNCHANGED <<launching, cancel, alive, generation, paused, steering, delivered>>
  BY DEF StreamEnds, Quiescent, releaseRun
<1>2. slipped' \/ (~slipped /\ cancel[r] # "writing")
  BY DEF StreamEnds
<1>3. \A u \in Threads :
        \/ thr'[u] = thr[u]
        \/ u = r /\ thr'[u].pc = "drain" /\ thr'[u].cmd = "drain" /\ thr'[u].gen = 0
  <2>1. UNCHANGED thr \/ Becomes(r, n)
    BY DEF StreamEnds, Becomes
  <2>2. n.pc = "drain" /\ n.cmd = "drain" /\ n.gen = 0
    BY DEF NewThread
  <2> HIDE DEF n
  <2> QED BY <2>1, <2>2, Moved DEF TypeOK, Threads
<1>4. Carries' /\ Words'
  BY <1>1, <1>3, SettledInv
<1>5. Launches'
  <2>1. thr[r].pc = "idle" /\ r \in Threads
    BY <1>1 DEF Inv, Launches, Threads
  <2>2. ASSUME NEW u \in Threads
        PROVE  /\ thr'[u].pc \in {"launch", "booted"} <=> launching' = u
               /\ thr'[u].pc = "booted" => run'[thr'[u].on] = "booted"
    BY <1>1, <1>3, <2>1, <2>2 DEF Inv, Launches, TypeOK, RunsOK, ThreadsOK, Shape
  <2>3. \A s \in Runs : thr'[s].pc # "idle" => run'[s] = "ended"
    BY <1>1, <1>3 DEF Inv, Launches, TypeOK, RunsOK, Threads
  <2> QED BY <2>2, <2>3 DEF Launches
<1>6. ASSUME Known, cancel[r] # "writing" PROVE Known'
  <2>1. /\ \A s \in Runs : Current(s) => s = r
        /\ launching = None
    BY <1>1, <1>6 DEF Known, Placed, RunPlaced, Current
  <2>2. cancel[r] = "no" \/ barrier = r
    BY <1>1, <1>6 DEF Known, Placed, RunPlaced, TypeOK, RunsOK
  <2>3. Placed'
    BY <1>1, <1>6, <2>1, <2>2, RunsAreNat
    DEF Known, Placed, RunPlaced, Current, TypeOK, RunsOK, ControlOK
  <2>4. barrier \in {None, r}
    BY <2>1 DEF Current, TypeOK, ControlOK
  <2>5. ASSUME NEW u \in Threads PROVE Knows(u)'
    BY <1>1, <1>3, <1>6, <2>4, <2>5, RunsAreNat DEF Known, Knows, Waits, TypeOK, RunsOK
  <2> QED BY <2>3, <2>5 DEF Known
<1> QED BY <1>2, <1>4, <1>5, <1>6 DEF Inv

LEMMA ProcessExitsInv ==
  ASSUME TypeOK, Inv, NEW r \in Runs, ProcessExits(r)
  PROVE  Inv'
<1>1. /\ alive' = alive \ {r}
      /\ UNCHANGED <<thr, launching, activeTurn, run, cancel, draining, barrier, release,
                     generation, paused, steering, delivered, slipped>>
  BY DEF ProcessExits, control, history
<1>2. Carries' /\ Words'
  BY <1>1, SettledInv
<1>3. Launches'
  BY <1>1 DEF Inv, Launches
<1>4. ASSUME Known PROVE Known'
  <2>1. Placed'
    BY <1>1, <1>4 DEF Known, Placed, RunPlaced, Current
  <2>2. ASSUME NEW u \in Threads PROVE Knows(u)'
    BY <1>1, <1>4, <2>2 DEF Known, Knows
  <2> QED BY <2>1, <2>2 DEF Known
<1> QED BY <1>1, <1>2, <1>3, <1>4 DEF Inv

\* Which threads the end of a release attempt resumes, and how.
LEMMA Resumed ==
  ASSUME ThreadsOK, NEW r \in Runs, NEW micro, Resume(r, micro), NEW u \in Threads
  PROVE  IF thr[u].pc \in Waits /\ thr[u].on = r
         THEN /\ thr'[u].pc = thr[u].pc /\ thr'[u].saw = thr[u].saw
              /\ thr'[u].cmd = thr[u].cmd /\ thr'[u].gen = thr[u].gen
              /\ thr'[u].msg = thr[u].msg /\ thr'[u].micro = micro
              /\ micro # "again" => thr'[u].on = thr[u].on
         ELSE thr'[u] = thr[u]
<1> DEFINE n == [thr[u] EXCEPT !.micro = micro, !.on = IF micro = "again" THEN None ELSE @]
<1>1. thr'[u] = IF thr[u].pc \in Waits /\ thr[u].on = r THEN n ELSE thr[u]
  BY DEF Resume
<1>2. /\ n.pc = thr[u].pc /\ n.saw = thr[u].saw /\ n.micro = micro
      /\ n.cmd = thr[u].cmd /\ n.gen = thr[u].gen /\ n.msg = thr[u].msg
      /\ micro # "again" => n.on = thr[u].on
  BY DEF ThreadsOK, Thread
<1> HIDE DEF n
<1> QED BY <1>1, <1>2

\* A release attempt moves only waiting threads, and only to the head of their loop.
LEMMA ResumeInv ==
  ASSUME TypeOK, Inv, NEW r \in Runs, NEW micro, Resume(r, micro),
         UNCHANGED <<launching, run, activeTurn, generation, paused, steering, delivered>>
  PROVE  Launches' /\ Carries' /\ Words'
<1>1. Carries' /\ Words'
  BY Resumed, SettledInv DEF TypeOK
<1>2. \A u \in Threads : thr'[u].pc = thr[u].pc /\ (thr[u].pc \notin Waits => thr'[u] = thr[u])
  BY Resumed DEF TypeOK
<1>3. Launches'
  BY <1>2 DEF Inv, Launches, Threads, Waits
<1> QED BY <1>1, <1>3

LEMMA ReleaseConfirmedInv ==
  ASSUME TypeOK, Inv, NEW r \in Runs, ReleaseConfirmed(r)
  PROVE  Inv'
<1>1. /\ release[r] = "pending" /\ r \notin alive
      /\ release' = [release EXCEPT ![r] = "done"]
      /\ barrier' = IF barrier = r THEN None ELSE barrier
      /\ Resume(r, "again")
      /\ UNCHANGED <<launching, activeTurn, draining, run, cancel, alive, generation, paused,
                     steering, delivered>>
  BY DEF ReleaseConfirmed
<1>2. slipped' \/ (~slipped /\ run[r] = "ended")
  BY DEF ReleaseConfirmed
<1>3. Launches' /\ Carries' /\ Words'
  BY <1>1, ResumeInv
<1>4. ASSUME Known, run[r] = "ended" PROVE Known'
  <2>1. barrier = r /\ barrier' = None
    BY <1>1, <1>4 DEF Known, Placed, RunPlaced
  <2>2. \A u \in Threads :
          IF thr[u].pc \in Waits /\ thr[u].on = r
          THEN thr'[u].pc = thr[u].pc /\ thr'[u].saw = thr[u].saw /\ thr'[u].micro = "again"
          ELSE thr'[u] = thr[u]
    BY <1>1, Resumed DEF TypeOK
  <2>3. launching # None /\ thr[launching].pc = "booted" => thr'[launching] = thr[launching]
    BY <2>2 DEF TypeOK, ControlOK, Waits
  <2>4. Placed'
    BY <1>1, <1>4, <2>1, <2>3, RunsAreNat DEF Known, Placed, RunPlaced, Current, TypeOK, RunsOK
  <2>5. ASSUME NEW u \in Threads PROVE Knows(u)'
    BY <1>1, <1>4, <2>1, <2>2, <2>5 DEF Known, Knows, Waits
  <2> QED BY <2>4, <2>5 DEF Known
<1> QED BY <1>2, <1>3, <1>4 DEF Inv

LEMMA ReleaseFailsInv ==
  ASSUME TypeOK, Inv, NEW r \in Runs, ReleaseFails(r)
  PROVE  Inv'
<1>1. /\ release[r] = "pending"
      /\ release' = [release EXCEPT ![r] = "failed"]
      /\ Resume(r, "rejected")
      /\ UNCHANGED <<launching, activeTurn, draining, run, cancel, alive, barrier, generation,
                     paused, steering, delivered, slipped>>
  BY DEF ReleaseFails, control, history
<1>2. Launches' /\ Carries' /\ Words'
  BY <1>1, ResumeInv
<1>3. ASSUME Known PROVE Known'
  <2>1. barrier = r
    BY <1>1, <1>3 DEF Known, Placed, RunPlaced
  <2>2. \A u \in Threads :
          IF thr[u].pc \in Waits /\ thr[u].on = r
          THEN /\ thr'[u].pc = thr[u].pc /\ thr'[u].saw = thr[u].saw
               /\ thr'[u].micro = "rejected" /\ thr'[u].on = thr[u].on
          ELSE thr'[u] = thr[u]
    BY <1>1, Resumed DEF TypeOK
  <2>3. launching # None /\ thr[launching].pc = "booted" => thr'[launching] = thr[launching]
    BY <2>2 DEF TypeOK, ControlOK, Waits
  <2>4. Placed'
    BY <1>1, <1>3, <2>1, <2>3, RunsAreNat DEF Known, Placed, RunPlaced, Current, TypeOK, RunsOK
  <2>5. ASSUME NEW u \in Threads PROVE Knows(u)'
    <3>1. CASE thr[u].pc \in Waits /\ thr[u].on = r
      BY <1>1, <1>3, <2>1, <2>2, <2>5, <3>1, RunsAreNat DEF Known, Knows, Waits
    <3>2. CASE ~(thr[u].pc \in Waits /\ thr[u].on = r)
      BY <1>1, <1>3, <2>2, <2>5, <3>2 DEF Known, Knows
    <3> QED BY <3>1, <3>2
  <2> QED BY <2>4, <2>5 DEF Known
<1> QED BY <1>1, <1>2, <1>3 DEF Inv

-----------------------------------------------------------------------------
(* Safety. *)

LEMMA InvInit == Init => Inv
<1> SUFFICES ASSUME Init PROVE Inv
  OBVIOUS
<1>1. \A t \in Threads : thr[t].pc = "idle" /\ thr[t].cmd = "none" /\ thr[t].gen = 0
  BY DEF Init, NewThread
<1>2. Launches /\ Carries /\ Words
  BY <1>1, RunsAreNat
  DEF Init, Launches, Carries, Fits, Stops, Holding, Words, Decided, Deciding, Stopping, Threads
<1>3. Placed
  BY RunsAreNat DEF Init, Placed, RunPlaced, Current
<1>4. \A t \in Threads : Knows(t)
  BY <1>1 DEF Knows, Waits
<1> QED BY <1>2, <1>3, <1>4 DEF Inv, Known

LEMMA InvStep ==
  ASSUME TypeOK, Inv, [Next]_vars
  PROVE  Inv'
<1>1. ASSUME NEW t \in Threads, Request(t) PROVE Inv'
  BY <1>1, SendInv, EnqueueInv, EscInv, StopDrainingInv, SteerInv, DequeueInv DEF Request
<1>2. ASSUME NEW t \in Threads, ThreadStep(t) PROVE Inv'
  BY <1>2, QueueWrittenInv, DequeueWrittenInv, JoinReturnsInv, DrainBeginInv, DrainContinueInv,
     AwaitLoopInv, AwaitRejectedInv, StartContinueInv, CancelEnterInv, CancelActiveInv,
     CancelContinueInv
  DEF ThreadStep
<1>3. ASSUME NEW t \in Threads, LaunchStep(t) \/ LaunchFails(t) \/ AwaitTimeout(t) PROVE Inv'
  BY <1>3, BootInv, RegisterInv, LaunchFailsInv, AwaitTimeoutInv DEF LaunchStep
<1>4. ASSUME NEW r \in Runs, RunStep(r) PROVE Inv'
  BY <1>4, StopRecordedInv, ResultRecordedInv, ReleaseConfirmedInv DEF RunStep
<1>5. ASSUME NEW r \in Runs,
             TurnResult(r) \/ StreamEnds(r) \/ ProcessExits(r) \/ ReleaseFails(r)
      PROVE  Inv'
  BY <1>5, TurnResultInv, StreamEndsInv, ProcessExitsInv, ReleaseFailsInv
<1>6. CASE UNCHANGED vars
  BY <1>6
  DEF vars, control, history, Inv, Launches, Known, Placed, RunPlaced, Current, Knows, Carries,
      Words, Decided, Superseded, Stopping
<1> QED BY <1>1, <1>2, <1>3, <1>4, <1>5, <1>6 DEF Next

LEMMA InvHolds == Spec => [](TypeOK /\ Inv)
BY TypeInit, TypeStep, InvInit, InvStep, PTL DEF Spec

\* A run's process is known to the coordinator until it is gone, and no second
\* run is started over it (agent.ts ChatRunControl.barrier: "nothing resumes the
\* thread until the process is confirmed gone"; hasActiveWork), with the one
\* exception of a run whose end slipped past its barrier.
THEOREM RunsAreRemembered == Spec => []NoRunForgotten
<1>1. ASSUME TypeOK, Inv PROVE NoRunForgotten
  <2>1. ASSUME Known, NEW r \in alive PROVE Current(r)
    BY <1>1, <2>1 DEF Known, Placed, RunPlaced, Current, TypeOK, RunsOK
  <2>2. OneWriter
    BY <1>1, <2>1 DEF OneWriter, Inv, Known, Placed, TypeOK, RunsOK
  <2>3. ASSUME Known, NEW r \in alive PROVE hasActiveWork
    BY <1>1, <2>1, <2>3, RunsAreNat
    DEF hasActiveWork, Known, Placed, RunPlaced, Current, TypeOK, RunsOK
  <2> QED BY <1>1, <2>2, <2>3 DEF NoRunForgotten, IdleMeansGone, Inv
<1> QED BY <1>1, InvHolds, PTL

\* Esc parks the chat: with every Esc and steer answered nothing runs or starts
\* until a send or a steer unparks it (agent.ts cancel, startTurnForChat's
\* generation check).
THEOREM EscParks == Spec => []EscHolds
<1>1. ASSUME TypeOK, Inv PROVE EscHolds
  <2>1. ASSUME NEW t \in Reqs, thr[t].pc \in Stops PROVE thr[t].cmd \in {"esc", "steer"}
    BY <1>1, <2>1 DEF Inv, Carries, Fits, Threads
  <2> QED BY <1>1, <2>1 DEF EscHolds, Inv, Words, Stopping, Stops
<1> QED BY <1>1, InvHolds, PTL

\* An Esc that returns success has seen every run it found end, unless a run's end slipped
\* past its barrier (`slipped`, agent.ts:2173), and while a steer holds the handoff only its
\* message starts, against every other request (agent.ts cancel and runSteer).
THEOREM WordIsKept == Spec => CommandsKeepTheirWord
<1>1. ASSUME TypeOK, Inv, NEW t \in Reqs, EscSucceeds(t)
      PROVE  slipped \/ thr[t].saw \cap alive = {}
  <2>1. thr[t].saw \in SUBSET Runs /\ t \in Threads
    BY <1>1 DEF TypeOK, ThreadsOK, Thread, Threads
  <2> QED BY <1>1, <2>1, RunsAreNat DEF EscSucceeds, Inv, Known, Knows
<1>2. ASSUME TypeOK, Inv, [Next]_vars,
             launching' # launching, launching' # None, steering # None
      PROVE  launching' = steering
  <2>1. PICK t \in Threads : StartContinue(t)
    BY <1>2
    DEF Next, Request, ThreadStep, LaunchStep, RunStep, send, enqueue, Esc, stopDraining, steer,
        dequeue, QueueWritten, DequeueWritten, JoinReturns, DrainBegin, DrainContinue, AwaitLoop,
        AwaitRejected, AwaitTimeout, CancelEnter, CancelActive, CancelContinue, Boot, Register,
        LaunchFails, EndLaunch, StopRecorded, ResultRecorded, ReleaseConfirmed, TurnResult,
        StreamEnds, ProcessExits, ReleaseFails, vars, control
  <2>2. launching' = t /\ ~Superseded(t) /\ thr[t].pc = "swait"
    BY <1>2, <2>1 DEF StartContinue
  <2> QED BY <1>2, <2>2 DEF Inv, Words, Decided, Deciding
<1>3. ASSUME TypeOK, Inv, [Next]_vars
      PROVE  /\ [\A t \in Reqs : EscSucceeds(t) => slipped \/ thr[t].saw \cap alive = {}]_vars
             /\ [launching' # launching /\ launching' # None /\ steering # None
                   => launching' = steering]_vars
  BY <1>1, <1>2, <1>3
<1>4. Spec => [][\A t \in Reqs : EscSucceeds(t) => slipped \/ thr[t].saw \cap alive = {}]_vars
  BY <1>3, InvHolds, PTL DEF Spec
<1>5. Spec => [][launching' # launching /\ launching' # None /\ steering # None
                   => launching' = steering]_vars
  BY <1>3, InvHolds, PTL DEF Spec
<1> QED BY <1>4, <1>5 DEF CommandsKeepTheirWord, StopConfirmed, SteerGoesFirst

-----------------------------------------------------------------------------
(* What leaves the queue. *)

LEMMA RemoveAtSet ==
  ASSUME NEW S, NEW s \in Seq(S), NEW i \in DOMAIN s
  PROVE  /\ ToSet(RemoveAt(s, i)) \subseteq ToSet(s)
         /\ \A x \in ToSet(s) : x # s[i] => x \in ToSet(RemoveAt(s, i))
<1> DEFINE a == SubSeq(s, 1, i - 1)
           b == SubSeq(s, i + 1, Len(s))
           c == RemoveAt(s, i)
<1>1. i \in 1..Len(s) /\ Len(s) \in Nat /\ DOMAIN s = 1..Len(s)
  BY LenProperties
<1>2. a \in Seq(S) /\ Len(a) = i - 1 /\ \A k \in 1..(i - 1) : a[k] = s[k]
  BY <1>1, SubSeqProperties
<1>3. b \in Seq(S) /\ Len(b) = Len(s) - i /\ \A k \in 1..(Len(s) - i) : b[k] = s[i + k]
  BY <1>1, SubSeqProperties
<1>4. /\ DOMAIN c = 1..(Len(s) - 1)
      /\ \A k \in DOMAIN c : c[k] = IF k < i THEN s[k] ELSE s[k + 1]
  <2>1. c = a \o b /\ Len(a \o b) = Len(s) - 1 /\ a \o b \in Seq(S)
    BY <1>1, <1>2, <1>3, ConcatProperties DEF RemoveAt
  <2> HIDE DEF a, b, c
  <2>2. DOMAIN c = 1..(Len(s) - 1)
    BY <2>1, LenProperties
  <2>3. ASSUME NEW k \in DOMAIN c PROVE c[k] = IF k < i THEN s[k] ELSE s[k + 1]
    <3>0. k \in 1..(Len(a) + Len(b))
      BY <1>1, <1>2, <1>3, <2>2, <2>3
    <3>1. c[k] = IF k <= Len(a) THEN a[k] ELSE b[k - Len(a)]
      BY <1>2, <1>3, <2>1, <3>0, ConcatProperties
    <3>2. CASE k < i
      BY <1>1, <1>2, <2>2, <2>3, <3>1, <3>2
    <3>3. CASE k >= i
      <4>1. k - Len(a) \in 1..(Len(s) - i) /\ i + (k - Len(a)) = k + 1
        BY <1>1, <1>2, <2>2, <2>3, <3>3
      <4> QED BY <1>1, <1>2, <1>3, <2>2, <2>3, <3>1, <3>3, <4>1
    <3> QED BY <1>1, <2>2, <2>3, <3>2, <3>3
  <2> QED BY <2>2, <2>3
<1> HIDE DEF c
<1>5. ToSet(c) \subseteq ToSet(s)
  BY <1>1, <1>4 DEF ToSet
<1>6. ASSUME NEW j \in DOMAIN s, s[j] # s[i] PROVE s[j] \in ToSet(c)
  <2>1. CASE j < i
    BY <1>1, <1>4, <1>6, <2>1 DEF ToSet
  <2>2. CASE j > i
    <3>1. j - 1 \in DOMAIN c /\ c[j - 1] = s[j]
      BY <1>1, <1>4, <1>6, <2>2
    <3> QED BY <3>1 DEF ToSet
  <2> QED BY <1>1, <1>6, <2>1, <2>2
<1> QED BY <1>5, <1>6 DEF ToSet, c

LEMMA AppendSet ==
  ASSUME NEW S, NEW s \in Seq(S), NEW x \in S
  PROVE  ToSet(Append(s, x)) = ToSet(s) \cup {x}
<1>1. /\ DOMAIN s = 1..Len(s) /\ Len(s) \in Nat
      /\ DOMAIN Append(s, x) = 1..(Len(s) + 1)
      /\ \A k \in 1..Len(s) : Append(s, x)[k] = s[k]
      /\ Append(s, x)[Len(s) + 1] = x
  BY AppendProperties, LenProperties
<1>2. ASSUME NEW y \in ToSet(Append(s, x)) PROVE y \in ToSet(s) \cup {x}
  BY <1>1, <1>2 DEF ToSet
<1>3. ASSUME NEW y \in ToSet(s) \cup {x} PROVE y \in ToSet(Append(s, x))
  BY <1>1, <1>3 DEF ToSet
<1> QED BY <1>2, <1>3

LEMMA RemoveFromQueueSet ==
  ASSUME QueueOK, NEW m, RemoveFromQueue(m)
  PROVE  ToSet(queue') \subseteq Queued /\ \A k \in Queued : k # m => k \in ToSet(queue')
BY RemoveAtSet DEF QueueOK, RemoveFromQueue, Queued

LEMMA RememberSet ==
  ASSUME QueueOK, NEW m \in Reqs
  PROVE  m \in ToSet(Remember(m))
<1> DEFINE all == Append(started, m)
<1>1. all \in Seq(Reqs) /\ Len(all) = Len(started) + 1 /\ all[Len(all)] = m /\ Len(started) \in Nat
  BY AppendProperties, LenProperties DEF QueueOK
<1> HIDE DEF all
<1>2. CASE Len(all) > StartedMemory
  <2>1. Len(all) > 1
    BY <1>1, <1>2, ChatRunAssumption
  <2>2. Tail(all) \in Seq(Reqs) /\ Len(Tail(all)) = Len(all) - 1 /\ all # <<>>
        /\ Tail(all)[Len(all) - 1] = all[Len(all)]
    BY <1>1, <2>1, HeadTailProperties, EmptySeq
  <2>3. Len(all) - 1 \in DOMAIN Tail(all)
    BY <1>1, <2>1, <2>2, LenProperties
  <2> QED BY <1>1, <1>2, <2>2, <2>3 DEF Remember, ToSet, all
<1>3. CASE ~(Len(all) > StartedMemory)
  <2>1. Len(all) \in DOMAIN all
    BY <1>1, LenProperties
  <2> QED BY <1>1, <1>3, <2>1 DEF Remember, ToSet, all
<1> QED BY <1>2, <1>3

\* A queued message leaves the queue only when it was sent or is dequeued.
LEMMA QueueKept ==
  ASSUME TypeOK, Inv, [Next]_vars, NEW m \in Queued
  PROVE  m \in ToSet(queue') \/ delivered[m] > 0 \/ m \in removed'
<1>1. \/ UNCHANGED queue
      \/ \E t \in Threads : QueueWritten(t) \/ DequeueWritten(t) \/ Register(t)
  BY DEF Next, Request, ThreadStep, LaunchStep, RunStep, send, enqueue, Esc, stopDraining, steer,
     dequeue, JoinReturns, DrainBegin, DrainContinue, AwaitLoop, AwaitRejected, AwaitTimeout,
     StartContinue, CancelEnter, CancelActive, CancelContinue, Boot, LaunchFails, StopRecorded,
     ResultRecorded, ReleaseConfirmed, TurnResult, StreamEnds, ProcessExits, ReleaseFails, vars
<1>2. CASE UNCHANGED queue
  BY <1>2 DEF Queued
<1>3. ASSUME NEW t \in Threads, QueueWritten(t) PROVE m \in ToSet(queue')
  <2>1. t \in Reqs
    BY <1>3 DEF QueueWritten, TypeOK, ThreadsOK, Shape, Threads
  <2> QED BY <1>3, <2>1, AppendSet DEF QueueWritten, Queued, TypeOK, QueueOK
<1>4. ASSUME NEW t \in Threads, DequeueWritten(t)
      PROVE  m \in ToSet(queue') \/ m \in removed'
  BY <1>4, RemoveFromQueueSet DEF DequeueWritten, TypeOK
<1>5. ASSUME NEW t \in Threads, Register(t)
      PROVE  m \in ToSet(queue') \/ delivered[m] > 0
  <2>1. delivered[thr[t].msg] > 0
    BY <1>5 DEF Register, Inv, Carries
  <2> QED BY <1>5, <2>1, RemoveFromQueueSet DEF Register, TypeOK, Queued
<1> QED BY <1>1, <1>2, <1>3, <1>4, <1>5

\* The step that ends a send which has not reached its launch queues its message.
LEMMA SendQueues ==
  ASSUME TypeOK, Inv, [Next]_vars, NEW m \in Reqs,
         thr[m].cmd = "send", thr[m].pc \in {"qwrite", "swait"}, thr'[m].pc = "done"
  PROVE  m \in ToSet(queue')
<1> USE DEF TypeOK
<1>a. m \in Threads /\ m \notin Runs
  BY RunsAreNat DEF Threads
<1>1. ASSUME NEW t \in Threads, Request(t) PROVE FALSE
  <2>1. \E n : Becomes(t, n) /\ thr[t].pc = "idle"
    BY <1>1 DEF Request, send, enqueue, Esc, stopDraining, steer, dequeue, Arrive
  <2> QED BY <1>a, <2>1, Moved
<1>2. ASSUME NEW t \in Threads, QueueWritten(t) PROVE m \in ToSet(queue')
  <2>1. t = m
    BY <1>a, <1>2, Moved DEF QueueWritten
  <2> QED BY <1>2, <2>1, AppendSet DEF QueueWritten, QueueOK
<1>3. ASSUME NEW t \in Threads,
             DequeueWritten(t) \/ JoinReturns(t) \/ DrainBegin(t) \/ DrainContinue(t)
               \/ CancelEnter(t) \/ CancelActive(t) \/ CancelContinue(t) \/ Boot(t)
      PROVE  FALSE
  <2>1. \E n : Becomes(t, n) /\ thr[t].pc \notin {"qwrite", "swait"}
    BY <1>3 DEF DequeueWritten, JoinReturns, DrainBegin, DrainContinue, CancelEnter, CancelActive,
       CancelContinue, dequeueAndStartQueuedMessage, Return, Boot
  <2> QED BY <1>a, <2>1, Moved
<1>4. ASSUME NEW t \in Threads, GiveUpStart(t), thr[t].pc \in {"qwrite", "swait"} PROVE FALSE
  <2> DEFINE n1 == [thr[t] EXCEPT !.pc = "qwrite", !.micro = "-", !.on = None]
  <2>1. t = m
    BY <1>a, <1>4, GiveUpStartBecomes, Moved DEF GivenUp
  <2>2. Becomes(t, n1)
    BY <1>4, <2>1 DEF GiveUpStart, KeepInQueue
  <2>3. n1.pc = "qwrite"
    BY DEF ThreadsOK, Thread
  <2> HIDE DEF n1
  <2> QED BY <2>1, <2>2, <2>3, Moved
<1>5. ASSUME NEW t \in Threads, StopError(t), thr[t].pc \in Waits PROVE FALSE
  <2>1. CASE thr[t].pc = "swait"
    BY <1>4, <1>5, <2>1 DEF StopError
  <2>2. CASE thr[t].pc # "swait"
    BY <1>a, <1>5, <2>2, Moved DEF StopError, Return, Waits
  <2> QED BY <2>1, <2>2
<1>6. ASSUME NEW t \in Threads, AwaitLoop(t) \/ AwaitRejected(t) \/ AwaitTimeout(t) PROVE FALSE
  <2> DEFINE n1 == [thr[t] EXCEPT !.micro = "-", !.on = barrier]
             n2 == [thr[t] EXCEPT !.micro = "-", !.on = barrier, !.retry = FALSE]
             n3 == [thr[t] EXCEPT !.pc = thr[t].pc, !.micro = "again", !.on = None]
  <2>1. /\ StopError(t) \/ Becomes(t, n1) \/ Becomes(t, n2) \/ Becomes(t, n3)
        /\ thr[t].pc \in Waits
    BY <1>6 DEF AwaitLoop, AwaitRejected, AwaitTimeout, Goto
  <2>2. n1.pc = thr[t].pc /\ n2.pc = thr[t].pc /\ n3.pc = thr[t].pc
    BY DEF ThreadsOK, Thread
  <2> HIDE DEF n1, n2, n3
  <2> QED BY <1>a, <1>5, <2>1, <2>2, Moved DEF Waits
<1>7. ASSUME NEW t \in Threads, StartContinue(t) PROVE FALSE
  <2> DEFINE n1 == [thr[t] EXCEPT !.pc = "cancel", !.round = @ + 1]
             n2 == [thr[t] EXCEPT !.pc = "launch", !.micro = "-"]
  <2>1. /\ GiveUpStart(t) \/ Becomes(t, n1) \/ Becomes(t, n2)
        /\ thr[t].pc = "swait"
    BY <1>7 DEF StartContinue
  <2>2. n1.pc = "cancel" /\ n2.pc = "launch"
    BY DEF ThreadsOK, Thread
  <2> HIDE DEF n1, n2
  <2> QED BY <1>a, <1>4, <2>1, <2>2, Moved
<1>8. ASSUME NEW t \in Threads, LaunchFails(t) \/ Register(t) PROVE FALSE
  <2>1. EndLaunch(t) /\ thr[t].pc \notin {"qwrite", "swait"}
    BY <1>8 DEF LaunchFails, Register
  <2> QED BY <1>a, <2>1, Woken
<1>9. ASSUME NEW r \in Runs, StopRecorded(r) PROVE FALSE
  BY <1>a, <1>9 DEF StopRecorded
<1>10. ASSUME NEW r \in Runs, StreamEnds(r) PROVE FALSE
  <2>1. thr'[m] = thr[m]
    BY <1>a, <1>10 DEF StreamEnds, ThreadsOK
  <2> QED BY <2>1
<1>11. ASSUME NEW r \in Runs, ReleaseConfirmed(r) \/ ReleaseFails(r) PROVE FALSE
  <2>1. \E micro : Resume(r, micro)
    BY <1>11 DEF ReleaseConfirmed, ReleaseFails
  <2> QED BY <1>a, <2>1, Resumed
<1>12. ASSUME UNCHANGED thr PROVE FALSE
  BY <1>12
<1> QED
  BY <1>1, <1>2, <1>3, <1>6, <1>7, <1>8, <1>9, <1>10, <1>11, <1>12
  DEF Next, ThreadStep, LaunchStep, RunStep, TurnResult, ResultRecorded, ProcessExits, vars

\* A queued message leaves the queue only by being sent or dequeued, and a send
\* returns only with its message sent, queued, or its own launch failed (agent.ts
\* send, queueMessage, dequeue), whatever else happens in between.
THEOREM MessagesAreKept == Spec => NothingLost
<1>1. ASSUME TypeOK, Inv, [Next]_vars, NEW m \in Reqs,
             thr[m].cmd = "send", thr[m].pc # "done", thr'[m].pc = "done"
      PROVE  m \in ToSet(queue') \/ delivered[m] > 0 \/ thr[m].pc = "launch"
  <2>1. m \in Threads
    BY DEF Threads
  <2>2. thr[m].pc \in {"qwrite", "swait", "launch", "booted"}
    BY <1>1, <2>1 DEF Inv, Carries, Fits
  <2>3. thr[m].pc = "booted" => delivered[m] > 0
    BY <1>1, <2>1 DEF Inv, Carries, Holding
  <2> QED BY <1>1, <2>2, <2>3, SendQueues
<1>2. ASSUME TypeOK, Inv, [Next]_vars
      PROVE  [/\ \A m \in Queued : \/ m \in ToSet(queue')
                                   \/ delivered[m] > 0
                                   \/ m \in removed'
              /\ \A m \in Reqs : thr[m].cmd = "send" /\ thr[m].pc # "done" /\ thr'[m].pc = "done"
                   => \/ m \in ToSet(queue') \/ delivered[m] > 0 \/ thr[m].pc = "launch"]_vars
  BY <1>1, <1>2, QueueKept
<1> QED BY <1>2, InvHolds, PTL DEF Spec, NothingLost


-----------------------------------------------------------------------------
(* A message is given to the provider once. *)

Holds(t, m) == thr[t].pc \in Holding /\ thr[t].msg = m

\* A message its own request has not written to the queue, and may never write.
NotQueuedYet(m) ==
  thr[m].pc = "idle" \/ (thr[m].cmd \in {"send", "enqueue"} /\ thr[m].pc # "done")

OnceFor(m) ==
  /\ \A t \in Threads : Holds(t, m) =>
       /\ thr[t].pc # "booted" => delivered[m] = 0
       /\ thr[t].cmd # "send" => m \in claimed
       /\ thr[t].pc = "booted" /\ thr[t].cmd # "send" => m \notin Queued \/ m \in ToSet(started)
       /\ \A u \in Threads : Holds(u, m) => u = t
  /\ m \in Queued /\ delivered[m] > 0 => m \in claimed \cup ToSet(started)
  /\ NotQueuedYet(m) => /\ m \notin Queued
                        /\ \A t \in Threads : Holds(t, m) => t = m
                        /\ thr[m].pc # "booted" => delivered[m] = 0
  /\ delivered[m] <= 1

Once == \A m \in Reqs : OnceFor(m)

\* A message that is still queued is not forgotten as started.
StillKnown == ToSet(started) \cap Queued \subseteq ToSet(started')

\* A step that gives a thread no message to start.
Stays(u) ==
  /\ thr'[u].pc \in Holding =>
       /\ thr[u].pc \in Holding
       /\ thr'[u].msg = thr[u].msg /\ thr'[u].cmd = thr[u].cmd
       /\ thr'[u].pc = "booted" <=> thr[u].pc = "booted"
  /\ u \in Reqs /\ NotQueuedYet(u)' =>
       NotQueuedYet(u) /\ (thr'[u].pc # "booted" => thr[u].pc # "booted")

LEMMA OnceFrame ==
  ASSUME Once, \A u \in Threads : Stays(u), delivered' = delivered,
         ToSet(queue') \subseteq Queued, StillKnown,
         NEW k, claimed' \in {claimed, claimed \ {k}},
         claimed' # claimed =>
           /\ \A u \in Threads : ~Holds(u, k)'
           /\ k \in ToSet(queue') /\ delivered[k] > 0 => k \in ToSet(started)
  PROVE  Once'
<1> SUFFICES ASSUME NEW m \in Reqs PROVE OnceFor(m)'
  BY DEF Once
<1>1. OnceFor(m)
  BY DEF Once
<1>2. m \in Queued' => m \in Queued /\ (m \in ToSet(started) => m \in ToSet(started)')
  BY DEF Queued, StillKnown
<1>3. ASSUME NEW t \in Threads, Holds(t, m)'
      PROVE  /\ Holds(t, m) /\ thr'[t].cmd = thr[t].cmd
             /\ thr'[t].pc = "booted" <=> thr[t].pc = "booted"
             /\ m \in claimed => m \in claimed'
  BY <1>3 DEF Holds, Stays
<1>4. m \in Threads
  BY DEF Threads
<1>5. /\ NotQueuedYet(m)' => NotQueuedYet(m)
      /\ NotQueuedYet(m)' /\ thr'[m].pc # "booted" => thr[m].pc # "booted"
  BY <1>4 DEF Stays
<1>6. m \in Queued' /\ delivered[m] > 0 => m \in claimed' \cup ToSet(started)'
  BY <1>1, <1>2 DEF OnceFor, Queued
<1>7. ASSUME NEW t \in Threads, Holds(t, m)'
      PROVE  /\ thr'[t].pc # "booted" => delivered'[m] = 0
             /\ thr'[t].cmd # "send" => m \in claimed'
             /\ thr'[t].pc = "booted" /\ thr'[t].cmd # "send"
                  => m \notin Queued' \/ m \in ToSet(started)'
             /\ \A u \in Threads : Holds(u, m)' => u = t
  BY <1>1, <1>2, <1>3, <1>7 DEF OnceFor
<1>8. NotQueuedYet(m)' => /\ m \notin Queued'
                          /\ \A t \in Threads : Holds(t, m)' => t = m
                          /\ thr'[m].pc # "booted" => delivered'[m] = 0
  BY <1>1, <1>2, <1>3, <1>5 DEF OnceFor
<1> QED BY <1>1, <1>6, <1>7, <1>8 DEF OnceFor

\* A thread that moves to a place where it holds no message, or keeps the one it has.
LEMMA OnceMove ==
  ASSUME TypeOK, Inv, Once, NEW t \in Threads, NEW n, Becomes(t, n),
         UNCHANGED <<delivered, started>>, ToSet(queue') \subseteq Queued,
         thr[t].pc \notin {"launch", "booted"}, n.pc \notin {"booted", "idle"},
         n.pc \in Holding => /\ thr[t].pc = "swait"
                             /\ n.msg = thr[t].msg /\ n.cmd = thr[t].cmd,
         n.cmd \in {"send", "enqueue"} /\ n.pc # "done" =>
           thr[t].pc = "idle" \/ (n.cmd = thr[t].cmd /\ thr[t].pc # "done"),
         \/ claimed' = claimed
         \/ Unclaim(t) /\ thr[t].pc = "swait" /\ n.pc \notin Holding
  PROVE  Once'
<1>1. /\ thr'[t] = n
      /\ \A u \in Threads : u # t => thr'[u] = thr[u]
  BY Moved DEF TypeOK
<1>2. \A u \in Threads : Stays(u)
  BY <1>1 DEF Stays, NotQueuedYet, Holding
<1>3. StillKnown
  BY DEF StillKnown, Queued
<1>k. PICK k : k = thr[t].msg
  OBVIOUS
<1>4. ASSUME claimed' # claimed
      PROVE  /\ \A u \in Threads : ~Holds(u, k)'
             /\ ~(delivered[k] > 0)
  <2>1. thr[t].pc = "swait" /\ n.pc \notin Holding
    BY <1>4
  <2>2. k \in Reqs /\ Holds(t, k)
    BY <1>k, <2>1 DEF TypeOK, ThreadsOK, Shape, Holds, Holding
  <2>3. OnceFor(k)
    BY <2>2 DEF Once
  <2>4. delivered[k] = 0 /\ \A u \in Threads : Holds(u, k) => u = t
    BY <2>1, <2>2, <2>3 DEF OnceFor
  <2>5. ASSUME NEW u \in Threads, Holds(u, k)' PROVE FALSE
    BY <1>1, <2>1, <2>4, <2>5 DEF Holds
  <2> QED BY <2>4, <2>5
<1>5. claimed' \in {claimed, claimed \ {k}}
  BY <1>k DEF Unclaim
<1> QED BY <1>2, <1>3, <1>4, <1>5, OnceFrame

\* A thread that takes a message nobody holds, to start it.
LEMMA OnceTake ==
  ASSUME TypeOK, Inv, Once, NEW t \in Threads, NEW n, Becomes(t, n),
         UNCHANGED <<delivered, started, queue>>, claimed \subseteq claimed',
         n.pc = "swait", NEW m \in Reqs, n.msg = m,
         delivered[m] = 0, \A u \in Threads : ~Holds(u, m),
         n.cmd # "send" => m \in claimed',
         thr[t].pc \notin Holding,
         NotQueuedYet(m) => m = t,
         n.cmd \in {"send", "enqueue"} => thr[t].pc = "idle"
  PROVE  Once'
<1>1. /\ thr'[t] = n
      /\ \A u \in Threads : u # t => thr'[u] = thr[u]
  BY Moved DEF TypeOK
<1> SUFFICES ASSUME NEW k \in Reqs PROVE OnceFor(k)'
  BY DEF Once
<1>2. OnceFor(k)
  BY DEF Once
<1>3. \A u \in Threads : Holds(u, k)' <=> Holds(u, k) \/ (u = t /\ k = m)
  BY <1>1 DEF Holds, Holding
<1>4. \A u \in Threads : u # t => thr'[u] = thr[u]
  BY <1>1
<1>5. k \in Threads /\ Queued' = Queued
  BY DEF Threads, Queued
<1>6. NotQueuedYet(k)' => NotQueuedYet(k) /\ (thr'[k].pc # "booted" => thr[k].pc # "booted")
  BY <1>1, <1>5 DEF NotQueuedYet, Holding
<1>7. ASSUME NEW u \in Threads, Holds(u, k)'
      PROVE  /\ thr'[u].pc # "booted" => delivered'[k] = 0
             /\ thr'[u].cmd # "send" => k \in claimed'
             /\ thr'[u].pc = "booted" /\ thr'[u].cmd # "send"
                  => k \notin Queued' \/ k \in ToSet(started)'
             /\ \A w \in Threads : Holds(w, k)' => w = u
  <2>1. CASE u = t
    BY <1>1, <1>3, <1>7, <2>1 DEF Holds
  <2>2. CASE u # t
    BY <1>1, <1>2, <1>3, <1>5, <1>7, <2>2 DEF OnceFor
  <2> QED BY <2>1, <2>2
<1>8. k \in Queued' /\ delivered'[k] > 0 => k \in claimed' \cup ToSet(started)'
  BY <1>2, <1>5 DEF OnceFor
<1>9. NotQueuedYet(k)' => /\ k \notin Queued'
                          /\ \A u \in Threads : Holds(u, k)' => u = k
                          /\ thr'[k].pc # "booted" => delivered'[k] = 0
  BY <1>1, <1>2, <1>3, <1>5, <1>6 DEF OnceFor, NotQueuedYet, Holding
<1> QED BY <1>2, <1>7, <1>8, <1>9 DEF OnceFor

LEMMA RequestOnce ==
  ASSUME TypeOK, Inv, Once, NEW t \in Threads, Request(t)
  PROVE  Once'
<1> DEFINE n1 == [NewThread EXCEPT !.cmd = "send", !.msg = t, !.gen = generation,
                                   !.pc = "qwrite"]
           n2 == [NewThread EXCEPT !.cmd = "send", !.msg = t, !.gen = generation,
                                   !.pc = "swait", !.micro = "again"]
           n3 == [NewThread EXCEPT !.cmd = "enqueue", !.msg = t, !.pc = "qwrite"]
           n4 == [NewThread EXCEPT !.cmd = "esc", !.pc = "cancel", !.micro = "again",
                                   !.saw = alive]
           n5 == [thr[t] EXCEPT !.cmd = "stopDraining", !.pc = "done"]
           n6(m) == [NewThread EXCEPT !.cmd = "steer", !.msg = m, !.pc = "join", !.for = steering]
           n7(m) == [NewThread EXCEPT !.cmd = "steer", !.msg = m, !.pc = "cancel",
                                      !.micro = "again", !.gen = generation + 1]
           n8(m) == [NewThread EXCEPT !.cmd = "dequeue", !.msg = m, !.pc = "dwrite"]
           \* A request that goes somewhere else than to its start.
           Elsewhere(n) == /\ n.pc \notin Holding \cup {"idle"}
                           /\ n.cmd \in {"send", "enqueue"} => n.pc = "qwrite"
<1>1. /\ UNCHANGED <<delivered, started, queue, claimed>>
      /\ t \in Reqs /\ thr[t].pc = "idle"
  BY DEF Request, send, enqueue, Esc, stopDraining, steer, dequeue, Arrive, control, history
<1>2. \/ Becomes(t, n1) \/ Becomes(t, n2) \/ Becomes(t, n3) \/ Becomes(t, n4) \/ Becomes(t, n5)
      \/ \E m \in Reqs : Becomes(t, n6(m)) \/ Becomes(t, n7(m)) \/ Becomes(t, n8(m))
  BY DEF Request, send, enqueue, Esc, stopDraining, steer, dequeue
<1>3. /\ n2.pc = "swait" /\ n2.cmd = "send" /\ n2.msg = t
      /\ Elsewhere(n1) /\ Elsewhere(n3) /\ Elsewhere(n4)
      /\ \A m : Elsewhere(n6(m)) /\ Elsewhere(n7(m)) /\ Elsewhere(n8(m))
  BY DEF NewThread, Holding
<1>4. Elsewhere(n5)
  BY DEF TypeOK, ThreadsOK, Thread, Holding
<1> HIDE DEF n1, n2, n3, n4, n5, n6, n7, n8
<1>5. ASSUME NEW n, Becomes(t, n), Elsewhere(n) PROVE Once'
  <2>1. ToSet(queue') \subseteq Queued /\ n.pc \notin Holding
    BY <1>1, <1>5 DEF Queued
  <2> QED BY <1>1, <1>5, <2>1, OnceMove DEF Holding
<1>6. ASSUME Becomes(t, n2) PROVE Once'
  <2>1. OnceFor(t) /\ NotQueuedYet(t) /\ t \in Threads
    BY <1>1 DEF Once, NotQueuedYet
  <2>2. delivered[t] = 0 /\ \A u \in Threads : ~Holds(u, t)
    BY <1>1, <2>1 DEF OnceFor, Holds, Holding
  <2> QED BY <1>1, <1>3, <1>6, <2>1, <2>2, OnceTake DEF Holding
<1> QED BY <1>2, <1>3, <1>4, <1>5, <1>6

LEMMA QueueWrittenOnce ==
  ASSUME TypeOK, Inv, Once, NEW t \in Threads, QueueWritten(t)
  PROVE  Once'
<1> DEFINE n1 == [thr[t] EXCEPT !.pc = "drain", !.cmd = "drain", !.micro = "again", !.msg = None]
<1>1. PICK n : /\ Becomes(t, n) /\ n.pc \in {"drain", "done"}
               /\ n.cmd \in {"send", "enqueue"} => n.pc = "done"
  <2>1. Becomes(t, Ended(t)) \/ Becomes(t, n1)
    BY DEF QueueWritten
  <2>2. n1.pc = "drain" /\ n1.cmd = "drain"
    BY DEF TypeOK, ThreadsOK, Thread
  <2> HIDE DEF n1
  <2> QED BY <2>1, <2>2, EndedPc
<1>2. /\ thr'[t] = n
      /\ \A u \in Threads : u # t => thr'[u] = thr[u]
  BY <1>1, Moved DEF TypeOK
<1>3. /\ UNCHANGED <<delivered, started, claimed>>
      /\ thr[t].pc = "qwrite" /\ t \in Reqs
  BY DEF QueueWritten, control, history, TypeOK, ThreadsOK, Shape, Threads
<1>4. Queued' = Queued \cup {t}
  BY <1>3, AppendSet DEF QueueWritten, Queued, TypeOK, QueueOK
<1>5. /\ NotQueuedYet(t) /\ OnceFor(t)
      /\ delivered[t] = 0 /\ \A u \in Threads : ~Holds(u, t)
  <2>1. NotQueuedYet(t)
    BY <1>3 DEF Inv, Carries, Fits, NotQueuedYet
  <2>2. OnceFor(t)
    BY <1>3 DEF Once
  <2> QED BY <1>3, <2>1, <2>2 DEF OnceFor, Holds, Holding
<1> SUFFICES ASSUME NEW k \in Reqs PROVE OnceFor(k)'
  BY DEF Once
<1>6. OnceFor(k) /\ k \in Threads
  BY DEF Once, Threads
<1>7. \A u \in Threads : Holds(u, k)' => Holds(u, k) /\ thr'[u] = thr[u]
  BY <1>1, <1>2 DEF Holds, Holding
<1>8. k # t => (NotQueuedYet(k)' <=> NotQueuedYet(k)) /\ thr'[k] = thr[k]
  BY <1>2, <1>6 DEF NotQueuedYet
<1>9. ~NotQueuedYet(t)'
  BY <1>1, <1>2 DEF NotQueuedYet
<1>10. ASSUME NEW u \in Threads, Holds(u, k)'
       PROVE  /\ thr'[u].pc # "booted" => delivered'[k] = 0
              /\ thr'[u].cmd # "send" => k \in claimed'
              /\ thr'[u].pc = "booted" /\ thr'[u].cmd # "send"
                   => k \notin Queued' \/ k \in ToSet(started)'
              /\ \A w \in Threads : Holds(w, k)' => w = u
  BY <1>3, <1>4, <1>5, <1>6, <1>7, <1>10 DEF OnceFor
<1>11. k \in Queued' /\ delivered'[k] > 0 => k \in claimed' \cup ToSet(started)'
  BY <1>3, <1>4, <1>5, <1>6 DEF OnceFor
<1>12. NotQueuedYet(k)' => /\ k \notin Queued'
                           /\ \A u \in Threads : Holds(u, k)' => u = k
                           /\ thr'[k].pc # "booted" => delivered'[k] = 0
  BY <1>3, <1>4, <1>6, <1>7, <1>8, <1>9 DEF OnceFor
<1> QED BY <1>3, <1>6, <1>10, <1>11, <1>12 DEF OnceFor

\* A thread that returns; the start that does unclaims its message.
LEMMA ReturnOnce ==
  ASSUME TypeOK, Inv, Once, NEW t \in Threads, NEW n, Becomes(t, n),
         n.pc \in {"done", "drain", "qwait", "qwrite", "cancel", "clwait", "cact", "cstop", "cwait"},
         n.cmd = thr[t].cmd, n.pc # "done" => thr[t].pc # "done",
         UNCHANGED <<delivered, started>>, ToSet(queue') \subseteq Queued,
         thr[t].pc \notin {"launch", "booted"},
         claimed' = claimed \/ (Unclaim(t) /\ thr[t].pc = "swait")
  PROVE  Once'
BY OnceMove DEF Holding

LEMMA StopErrorOnce ==
  ASSUME TypeOK, Inv, Once, NEW t \in Threads, StopError(t), thr[t].pc \in Waits,
         UNCHANGED <<delivered, started, queue>>
  PROVE  Once'
<1>1. \E n : GivenUp(t, n)
  BY StopErrorBecomes DEF TypeOK
<1>2. claimed' = claimed \/ (Unclaim(t) /\ thr[t].pc = "swait")
  BY DEF StopError, GiveUpStart
<1> QED BY <1>1, <1>2, ReturnOnce DEF GivenUp, Waits, Queued

LEMMA WaitOnce ==
  ASSUME TypeOK, Inv, Once, NEW t \in Threads, AwaitLoop(t) \/ AwaitRejected(t) \/ AwaitTimeout(t)
  PROVE  Once'
<1> DEFINE n1 == [thr[t] EXCEPT !.micro = "-", !.on = barrier]
           n2 == [thr[t] EXCEPT !.micro = "-", !.on = barrier, !.retry = FALSE]
           n3 == [thr[t] EXCEPT !.pc = thr[t].pc, !.micro = "again", !.on = None]
<1>1. /\ \/ StopError(t)
         \/ claimed' = claimed /\ (Becomes(t, n1) \/ Becomes(t, n2) \/ Becomes(t, n3))
      /\ thr[t].pc \in Waits /\ UNCHANGED <<delivered, started, queue>>
  BY DEF AwaitLoop, AwaitRejected, AwaitTimeout, Goto
<1>2. /\ n1.pc = thr[t].pc /\ n2.pc = thr[t].pc /\ n3.pc = thr[t].pc
      /\ n1.cmd = thr[t].cmd /\ n2.cmd = thr[t].cmd /\ n3.cmd = thr[t].cmd
      /\ n1.msg = thr[t].msg /\ n2.msg = thr[t].msg /\ n3.msg = thr[t].msg
  BY DEF TypeOK, ThreadsOK, Thread
<1> HIDE DEF n1, n2, n3
<1>3. ASSUME NEW n, Becomes(t, n), claimed' = claimed,
             n.pc = thr[t].pc, n.cmd = thr[t].cmd, n.msg = thr[t].msg
      PROVE  Once'
  BY <1>1, <1>3, OnceMove DEF Waits, Holding, Queued
<1> QED BY <1>1, <1>2, <1>3, StopErrorOnce

LEMMA StartContinueOnce ==
  ASSUME TypeOK, Inv, Once, NEW t \in Threads, StartContinue(t)
  PROVE  Once'
<1> DEFINE n1 == [thr[t] EXCEPT !.pc = "cancel", !.round = @ + 1]
           n2 == [thr[t] EXCEPT !.pc = "launch", !.micro = "-"]
<1>1. /\ \/ GiveUpStart(t)
         \/ Becomes(t, n1) /\ Unclaim(t)
         \/ Becomes(t, n2) /\ claimed' = claimed
      /\ thr[t].pc = "swait" /\ UNCHANGED <<delivered, started, queue>>
  BY DEF StartContinue, history
<1>2. /\ n1.pc = "cancel" /\ n1.cmd = thr[t].cmd
      /\ n2.pc = "launch" /\ n2.cmd = thr[t].cmd /\ n2.msg = thr[t].msg
  BY DEF TypeOK, ThreadsOK, Thread
<1> HIDE DEF n1, n2
<1>3. CASE GiveUpStart(t)
  <2>1. \E n : GivenUp(t, n)
    BY <1>3, GiveUpStartBecomes DEF TypeOK
  <2>2. claimed' = claimed \/ Unclaim(t)
    BY <1>3 DEF GiveUpStart
  <2> QED BY <1>1, <2>1, <2>2, ReturnOnce DEF GivenUp, Queued
<1>4. CASE Becomes(t, n1) /\ Unclaim(t)
  BY <1>1, <1>2, <1>4, ReturnOnce DEF Queued
<1>5. CASE Becomes(t, n2) /\ claimed' = claimed
  BY <1>1, <1>2, <1>5, OnceMove DEF Queued
<1> QED BY <1>1, <1>3, <1>4, <1>5

\* A queued message that is neither claimed nor started has not been given to
\* the provider, and nobody is about to.
LEMMA ClaimableIsFree ==
  ASSUME TypeOK, Inv, Once, NEW m \in Queued, m \notin claimed \cup ToSet(started)
  PROVE  /\ m \in Reqs /\ delivered[m] = 0 /\ ~NotQueuedYet(m)
         /\ \A u \in Threads : ~Holds(u, m)
<1>1. m \in Reqs
  BY QueuedType DEF TypeOK
<1>2. OnceFor(m) /\ delivered[m] \in Nat
  BY <1>1 DEF Once, TypeOK, HistoryOK
<1>3. ~NotQueuedYet(m) /\ delivered[m] = 0
  BY <1>2 DEF OnceFor
<1>4. ASSUME NEW u \in Threads, Holds(u, m) PROVE FALSE
  <2>1. thr[u].cmd = "send" /\ thr[u].pc \in Holding /\ thr[u].msg = m
    BY <1>2, <1>4 DEF OnceFor, Holds
  <2>2. u = m
    BY <2>1 DEF Inv, Carries
  <2> QED BY <1>3, <2>1, <2>2 DEF NotQueuedYet, Holding
<1> QED BY <1>1, <1>3, <1>4

LEMMA TakeOnce ==
  ASSUME TypeOK, Inv, Once, NEW t \in Threads, NEW m \in Queued,
         m \notin claimed \cup ToSet(started), dequeueAndStartQueuedMessage(t, m),
         thr[t].pc \in {"qwait", "cwait"}, UNCHANGED <<delivered, started, queue>>
  PROVE  Once'
<1> DEFINE n1 == [thr[t] EXCEPT !.pc = "swait", !.micro = "again", !.msg = m]
<1>1. Becomes(t, n1) /\ claimed' = claimed \cup {m}
  BY DEF dequeueAndStartQueuedMessage
<1>2. n1.pc = "swait" /\ n1.msg = m /\ n1.cmd = thr[t].cmd
  BY DEF TypeOK, ThreadsOK, Thread
<1> HIDE DEF n1
<1>3. thr[t].cmd \notin {"send", "enqueue"}
  BY DEF Inv, Carries, Fits
<1> QED BY <1>1, <1>2, <1>3, ClaimableIsFree, OnceTake DEF Holding

LEMMA DrainContinueOnce ==
  ASSUME TypeOK, Inv, Once, NEW t \in Threads, DrainContinue(t)
  PROVE  Once'
<1>1. /\ \/ Becomes(t, Ended(t)) /\ claimed' = claimed
         \/ \E m \in Queued : nextQueuedMessage(m) /\ dequeueAndStartQueuedMessage(t, m)
      /\ thr[t].pc = "qwait" /\ UNCHANGED <<delivered, started, queue>>
  BY DEF DrainContinue, history
<1>2. CASE Becomes(t, Ended(t)) /\ claimed' = claimed
  BY <1>1, <1>2, EndedPc, ReturnOnce DEF Queued
<1>3. CASE \E m \in Queued : nextQueuedMessage(m) /\ dequeueAndStartQueuedMessage(t, m)
  BY <1>1, <1>3, TakeOnce DEF nextQueuedMessage, Claimable
<1> QED BY <1>1, <1>2, <1>3

LEMMA CancelContinueOnce ==
  ASSUME TypeOK, Inv, Once, NEW t \in Threads, CancelContinue(t)
  PROVE  Once'
<1>1. /\ \/ Becomes(t, Ended(t)) /\ claimed' = claimed
         \/ /\ thr[t].msg \in Queued /\ thr[t].msg \notin claimed \cup ToSet(started)
            /\ dequeueAndStartQueuedMessage(t, thr[t].msg)
      /\ thr[t].pc = "cwait" /\ UNCHANGED <<delivered, started, queue>>
  BY DEF CancelContinue, Return, history
<1>2. CASE Becomes(t, Ended(t)) /\ claimed' = claimed
  BY <1>1, <1>2, EndedPc, ReturnOnce DEF Queued
<1> QED BY <1>1, <1>2, TakeOnce

LEMMA StepOnce ==
  ASSUME TypeOK, Inv, Once, NEW t \in Threads,
         DequeueWritten(t) \/ JoinReturns(t) \/ DrainBegin(t) \/ CancelEnter(t) \/ CancelActive(t)
  PROVE  Once'
<1> DEFINE n1 == [thr[t] EXCEPT !.pc = "qwait", !.gen = generation]
           n2 == [thr[t] EXCEPT !.pc = "clwait", !.micro = "-", !.for = launching]
           n3 == [thr[t] EXCEPT !.pc = "cact"]
           n4 == [thr[t] EXCEPT !.pc = "cstop", !.micro = "-", !.on = activeTurn]
           n5 == [thr[t] EXCEPT !.pc = "cwait", !.retry = TRUE]
<1>1. /\ \/ Becomes(t, Ended(t)) \/ Becomes(t, n1) \/ Becomes(t, n2)
         \/ Becomes(t, n3) \/ Becomes(t, n4) \/ Becomes(t, n5)
      /\ thr[t].pc \in {"dwrite", "join", "drain", "cancel", "cact"}
      /\ UNCHANGED <<delivered, started, claimed>>
  BY DEF DequeueWritten, JoinReturns, DrainBegin, CancelEnter, CancelActive, control, history
<1>2. ToSet(queue') \subseteq Queued
  <2>1. CASE DequeueWritten(t)
    BY <2>1, RemoveFromQueueSet DEF DequeueWritten, TypeOK
  <2>2. CASE ~DequeueWritten(t)
    BY <2>2 DEF JoinReturns, DrainBegin, CancelEnter, CancelActive, Queued
  <2> QED BY <2>1, <2>2
<1>3. /\ n1.pc = "qwait" /\ n2.pc = "clwait" /\ n3.pc = "cact" /\ n4.pc = "cstop"
      /\ n5.pc = "cwait"
      /\ n1.cmd = thr[t].cmd /\ n2.cmd = thr[t].cmd /\ n3.cmd = thr[t].cmd
      /\ n4.cmd = thr[t].cmd /\ n5.cmd = thr[t].cmd
  BY DEF TypeOK, ThreadsOK, Thread
<1> HIDE DEF n1, n2, n3, n4, n5
<1>4. ASSUME NEW n, Becomes(t, n), n.pc \in {"done", "qwait", "clwait", "cact", "cstop", "cwait"},
             n.cmd = thr[t].cmd
      PROVE  Once'
  BY <1>1, <1>2, <1>4, ReturnOnce
<1> QED BY <1>1, <1>3, <1>4, EndedPc

LEMMA BootOnce ==
  ASSUME TypeOK, Inv, Once, StillKnown, NEW t \in Threads, Boot(t)
  PROVE  Once'
<1> DEFINE n1(r) == [thr[t] EXCEPT !.pc = "booted", !.on = r]
<1>1. PICK r \in Runs : Becomes(t, n1(r))
  BY DEF Boot
<1>2. /\ n1(r).pc = "booted" /\ n1(r).msg = thr[t].msg /\ n1(r).cmd = thr[t].cmd
  BY DEF TypeOK, ThreadsOK, Thread
<1> HIDE DEF n1
<1>3. /\ thr'[t].pc = "booted" /\ thr'[t].msg = thr[t].msg /\ thr'[t].cmd = thr[t].cmd
      /\ \A u \in Threads : u # t => thr'[u] = thr[u]
  BY <1>1, <1>2, Moved DEF TypeOK
<1>4. PICK m \in Reqs : m = thr[t].msg
  BY DEF Boot, TypeOK, ThreadsOK, Shape
<1>5. /\ thr[t].pc = "launch" /\ Holds(t, m) /\ UNCHANGED <<queue, claimed>>
      /\ delivered' = [delivered EXCEPT ![m] = @ + 1]
      /\ thr[t].cmd # "send" => m \in ToSet(started')
  BY <1>4, RememberSet DEF Boot, Holds, Holding, TypeOK
<1>6. delivered[m] = 0 /\ OnceFor(m)
  BY <1>5 DEF Once, OnceFor
<1>7. delivered'[m] = 1 /\ \A k \in Reqs : k # m => delivered'[k] = delivered[k]
  BY <1>5, <1>6 DEF TypeOK, HistoryOK
<1>8. \A u \in Threads : thr[u].pc # "booted"
  BY <1>5 DEF Inv, Launches
<1> SUFFICES ASSUME NEW k \in Reqs PROVE OnceFor(k)'
  BY DEF Once
<1>9. OnceFor(k) /\ k \in Threads /\ Queued' = Queued
  BY <1>5 DEF Once, Threads, Queued
<1>10. \A u \in Threads : Holds(u, k)' <=> Holds(u, k)
  BY <1>3, <1>5 DEF Holds, Holding
<1>11. /\ NotQueuedYet(k)' => NotQueuedYet(k)
       /\ k # t => thr'[k] = thr[k]
  BY <1>3, <1>5, <1>9 DEF NotQueuedYet
<1>12. ASSUME NEW u \in Threads, Holds(u, k)'
       PROVE  /\ thr'[u].pc # "booted" => delivered'[k] = 0
              /\ thr'[u].cmd # "send" => k \in claimed'
              /\ thr'[u].pc = "booted" /\ thr'[u].cmd # "send"
                   => k \notin Queued' \/ k \in ToSet(started)'
              /\ \A w \in Threads : Holds(w, k)' => w = u
  <2>1. CASE u = t
    <3>1. k = m
      BY <1>4, <1>10, <1>12, <2>1 DEF Holds
    <3> QED BY <1>3, <1>5, <1>6, <1>10, <2>1, <3>1 DEF OnceFor
  <2>2. CASE u # t
    <3>1. k # m
      BY <1>5, <1>6, <1>10, <1>12, <2>2 DEF OnceFor
    <3> QED BY <1>3, <1>5, <1>7, <1>8, <1>9, <1>10, <1>12, <2>2, <3>1 DEF OnceFor
  <2> QED BY <2>1, <2>2
<1>13. k \in Queued' /\ delivered'[k] > 0 => k \in claimed' \cup ToSet(started)'
  <2>1. CASE k = m /\ thr[t].cmd = "send"
    <3>1. t = m
      BY <1>4, <1>5, <2>1 DEF Inv, Carries, Holding
    <3>2. NotQueuedYet(m)
      BY <1>5, <2>1, <3>1 DEF NotQueuedYet
    <3> QED BY <1>6, <1>9, <2>1, <3>2 DEF OnceFor
  <2>2. CASE k = m /\ thr[t].cmd # "send"
    BY <1>5, <2>2
  <2>3. CASE k # m
    BY <1>5, <1>7, <1>9, <2>3 DEF OnceFor, StillKnown
  <2> QED BY <2>1, <2>2, <2>3
<1>14. NotQueuedYet(k)' => /\ k \notin Queued'
                           /\ \A u \in Threads : Holds(u, k)' => u = k
                           /\ thr'[k].pc # "booted" => delivered'[k] = 0
  <2>1. CASE k = m
    BY <1>3, <1>5, <1>6, <1>9, <1>10, <1>11, <2>1 DEF OnceFor
  <2>2. CASE k # m
    <3>1. NotQueuedYet(k) => delivered[k] = 0
      BY <1>8, <1>9 DEF OnceFor
    <3> QED BY <1>7, <1>9, <1>10, <1>11, <2>2, <3>1 DEF OnceFor
  <2> QED BY <2>1, <2>2
<1>15. delivered'[k] <= 1
  BY <1>7, <1>9 DEF OnceFor
<1> QED BY <1>12, <1>13, <1>14, <1>15 DEF OnceFor

LEMMA EndLaunchOnce ==
  ASSUME TypeOK, Inv, Once, NEW t \in Threads, LaunchFails(t) \/ Register(t)
  PROVE  Once'
<1>1. /\ EndLaunch(t) /\ thr[t].pc \in {"launch", "booted"}
      /\ UNCHANGED <<delivered, started>>
      /\ thr[t].pc = "launch" => queue' = queue
  BY DEF LaunchFails, Register, history
<1>2. /\ thr'[t].pc = "done"
      /\ \A u \in Threads \ {t} : \/ thr'[u] = thr[u]
                                  \/ /\ thr[u].pc = "clwait" /\ thr'[u].pc = "cact"
                                     /\ thr'[u].cmd = thr[u].cmd
  BY <1>1, Woken, EndedPc DEF TypeOK
<1>3. \A u \in Threads : Stays(u)
  BY <1>1, <1>2 DEF Stays, NotQueuedYet, Holding
<1>4. ToSet(queue') \subseteq Queued /\ StillKnown
  BY <1>1, RemoveFromQueueSet DEF LaunchFails, Register, Queued, TypeOK, StillKnown
<1>5. PICK m \in Reqs : m = thr[t].msg
  BY <1>1 DEF TypeOK, ThreadsOK, Shape
<1>6. Holds(t, m) /\ OnceFor(m)
  BY <1>1, <1>5 DEF Once, Holds, Holding
<1>7. \A u \in Threads : ~Holds(u, m)'
  <2>1. ASSUME NEW u \in Threads, Holds(u, m)' PROVE Holds(u, m) /\ u # t
    BY <1>2, <2>1 DEF Holds, Holding
  <2> QED BY <1>6, <2>1 DEF OnceFor
<1>8. m \in ToSet(queue') /\ delivered[m] > 0 => m \in ToSet(started)
  <2>1. CASE thr[t].cmd = "send"
    <3>1. NotQueuedYet(m)
      BY <1>1, <1>5, <2>1 DEF Inv, Carries, Holding, NotQueuedYet
    <3> QED BY <1>4, <1>6, <3>1 DEF OnceFor
  <2>2. CASE thr[t].cmd # "send"
    BY <1>1, <1>4, <1>6, <2>2 DEF OnceFor
  <2> QED BY <2>1, <2>2
<1>9. claimed' = claimed \ {m}
  BY <1>1, <1>5 DEF EndLaunch, Unclaim
<1> QED BY <1>1, <1>3, <1>4, <1>7, <1>8, <1>9, OnceFrame

LEMMA RunOnce ==
  ASSUME TypeOK, Inv, Once, NEW r \in Runs,
         RunStep(r) \/ TurnResult(r) \/ StreamEnds(r) \/ ProcessExits(r) \/ ReleaseFails(r)
  PROVE  Once'
<1>1. UNCHANGED <<delivered, queue, started, claimed>>
  BY DEF RunStep, StopRecorded, ResultRecorded, ReleaseConfirmed, TurnResult, StreamEnds,
     ProcessExits, ReleaseFails, control, history
<1>2. ASSUME NEW u \in Threads PROVE Stays(u)
  <2>1. CASE StopRecorded(r)
    <3> DEFINE n == [thr[u] EXCEPT !.pc = "cwait", !.micro = "again", !.on = None, !.retry = TRUE]
    <3>1. thr'[u] = thr[u] \/ (thr[u].pc = "cstop" /\ thr'[u] = n)
      BY <2>1 DEF StopRecorded
    <3>2. n.pc = "cwait" /\ n.cmd = thr[u].cmd
      BY DEF TypeOK, ThreadsOK, Thread
    <3> HIDE DEF n
    <3> QED BY <3>1, <3>2 DEF Stays, NotQueuedYet, Holding
  <2>2. CASE StreamEnds(r)
    <3> DEFINE n == [NewThread EXCEPT !.cmd = "drain", !.pc = "drain", !.micro = "again"]
    <3>1. thr'[u] = thr[u] \/ (u = r /\ thr'[u] = n)
      BY <2>2 DEF StreamEnds, TypeOK, ThreadsOK, Threads
    <3>2. n.pc = "drain"
      BY DEF NewThread
    <3> HIDE DEF n
    <3> QED BY <3>1, <3>2, RunsAreNat DEF Stays, NotQueuedYet, Holding
  <2>3. CASE ReleaseConfirmed(r) \/ ReleaseFails(r)
    <3>1. \/ thr'[u] = thr[u]
          \/ thr'[u].pc = thr[u].pc /\ thr'[u].cmd = thr[u].cmd /\ thr'[u].msg = thr[u].msg
      BY <2>3, Resumed DEF ReleaseConfirmed, ReleaseFails, TypeOK
    <3> QED BY <3>1 DEF Stays, NotQueuedYet
  <2>4. CASE ResultRecorded(r) \/ TurnResult(r) \/ ProcessExits(r)
    BY <2>4 DEF ResultRecorded, TurnResult, ProcessExits, Stays, NotQueuedYet
  <2> QED BY <2>1, <2>2, <2>3, <2>4 DEF RunStep
<1> QED BY <1>1, <1>2, OnceFrame DEF StillKnown, Queued

LEMMA OnceInit == Init => Once
<1> SUFFICES ASSUME Init PROVE Once
  OBVIOUS
<1>1. Queued = {} /\ \A t \in Threads : thr[t].pc = "idle"
  BY DEF Init, Queued, ToSet, NewThread
<1> QED BY <1>1 DEF Init, Once, OnceFor, Holds, Holding, Threads

LEMMA OnceStep ==
  ASSUME TypeOK, Inv, Once, StillKnown, [Next]_vars
  PROVE  Once'
<1>1. ASSUME NEW t \in Threads, Request(t) PROVE Once'
  BY <1>1, RequestOnce
<1>2. ASSUME NEW t \in Threads, ThreadStep(t) PROVE Once'
  BY <1>2, QueueWrittenOnce, StepOnce, DrainContinueOnce, WaitOnce, StartContinueOnce,
     CancelContinueOnce
  DEF ThreadStep
<1>3. ASSUME NEW t \in Threads, LaunchStep(t) \/ LaunchFails(t) \/ AwaitTimeout(t) PROVE Once'
  BY <1>3, BootOnce, EndLaunchOnce, WaitOnce DEF LaunchStep
<1>4. ASSUME NEW r \in Runs,
             RunStep(r) \/ TurnResult(r) \/ StreamEnds(r) \/ ProcessExits(r) \/ ReleaseFails(r)
      PROVE  Once'
  BY <1>4, RunOnce
<1>5. CASE UNCHANGED vars
  BY <1>5 DEF vars, control, history, Once, OnceFor, Holds, NotQueuedYet, Queued
<1> QED BY <1>1, <1>2, <1>3, <1>4, <1>5 DEF Next

\* A message is given to the provider at most once, whichever of send, enqueue,
\* steer and the tails of finished runs compete for it (agent.ts
\* nextQueuedMessage, claimedMessageIds, consumeQueuedMessage), while the memory
\* of started messages keeps those whose removal from the queue failed.
THEOREM SentOnceWhileKnown == Spec /\ [][StillKnown]_vars => []SentOnce
<1>1. TypeOK /\ Inv /\ Once /\ [StillKnown]_vars /\ [Next]_vars => Once'
  <2>1. UNCHANGED vars => StillKnown
    BY DEF vars, control, StillKnown
  <2> QED BY <2>1, OnceStep
<1>2. Once => SentOnce
  BY DEF Once, OnceFor, SentOnce
<1> QED BY <1>1, <1>2, OnceInit, InvHolds, PTL DEF Spec

\* One message is remembered per run at most.
RememberedRuns == Len(started) \in Nat /\ \A r \in Runs : run[r] = "none" => Len(started) < r

LEMMA RememberedRunsStep ==
  ASSUME TypeOK, RememberedRuns, MaxRuns <= StartedMemory, [Next]_vars
  PROVE  RememberedRuns' /\ StillKnown
<1>1. ASSUME started' = started, \A r \in Runs : run'[r] = "none" => run[r] = "none"
      PROVE  RememberedRuns' /\ StillKnown
  BY <1>1 DEF RememberedRuns, StillKnown
<1>2. ASSUME NEW t \in Threads, Boot(t) PROVE RememberedRuns' /\ StillKnown
  <2>1. PICK r \in Runs : /\ run[r] = "none" /\ \A s \in Runs : s < r => run[s] # "none"
                          /\ run' = [run EXCEPT ![r] = "booted"]
    BY <1>2 DEF Boot
  <2>2. PICK m \in Reqs : m = thr[t].msg
    BY <1>2 DEF Boot, TypeOK, ThreadsOK, Shape
  <2>3. started' = started \/ started' = Remember(m)
    BY <1>2, <2>2 DEF Boot
  <2>4. Len(started) < r /\ r \in Nat /\ r <= MaxRuns /\ MaxRuns \in Nat /\ StartedMemory \in Nat
    BY <2>1, ChatRunAssumption DEF RememberedRuns, Runs
  <2>5. /\ Len(Append(started, m)) = Len(started) + 1
        /\ ToSet(Append(started, m)) = ToSet(started) \cup {m}
    BY AppendSet, AppendProperties DEF TypeOK, QueueOK
  <2>6. Remember(m) = Append(started, m)
    BY <2>4, <2>5 DEF Remember, RememberedRuns
  <2>7. /\ Len(started') \in Nat /\ Len(started') <= Len(started) + 1
        /\ ToSet(started) \subseteq ToSet(started')
    <3>1. CASE started' = started
      BY <3>1 DEF RememberedRuns
    <3>2. CASE started' = Append(started, m)
      BY <2>5, <3>2 DEF RememberedRuns
    <3> QED BY <2>3, <2>6, <3>1, <3>2
  <2>8. ASSUME NEW s \in Runs, run'[s] = "none" PROVE Len(started') < s
    <3>1. s # r /\ run[s] = "none"
      BY <2>1, <2>8 DEF TypeOK, RunsOK
    <3>2. r < s /\ s \in Nat
      BY <2>1, <2>4, <3>1, RunsAreNat
    <3> QED BY <2>4, <2>7, <3>2 DEF RememberedRuns
  <2> QED BY <2>7, <2>8 DEF RememberedRuns, StillKnown
<1>3. \/ \E t \in Threads : Boot(t)
      \/ started' = started /\ \A r \in Runs : run'[r] = "none" => run[r] = "none"
  <2>1. \/ UNCHANGED <<started, run>>
        \/ \E t \in Threads : Boot(t) \/ Register(t)
        \/ \E r \in Runs : ResultRecorded(r) \/ TurnResult(r) \/ StreamEnds(r)
    BY DEF Next, Request, ThreadStep, LaunchStep, RunStep, send, enqueue, Esc, stopDraining,
       steer, dequeue, QueueWritten, DequeueWritten, JoinReturns, DrainBegin, DrainContinue,
       AwaitLoop, AwaitRejected, AwaitTimeout, StartContinue, CancelEnter, CancelActive,
       CancelContinue, LaunchFails, StopRecorded, ReleaseConfirmed, ProcessExits, ReleaseFails,
       vars, control
  <2>2. ASSUME NEW t \in Threads, Register(t)
        PROVE  started' = started /\ \A r \in Runs : run'[r] = "none" => run[r] = "none"
    BY <2>2 DEF Register, TypeOK, RunsOK
  <2>3. ASSUME NEW r \in Runs, ResultRecorded(r) \/ TurnResult(r) \/ StreamEnds(r)
        PROVE  started' = started /\ \A s \in Runs : run'[s] = "none" => run[s] = "none"
    <3>1. /\ started' = started
          /\ \/ run' = [run EXCEPT ![r] = "recording"]
             \/ run' = [run EXCEPT ![r] = "resulted"]
             \/ run' = [run EXCEPT ![r] = "ended"]
      BY <2>3 DEF ResultRecorded, TurnResult, StreamEnds, control
    <3> QED BY <3>1 DEF TypeOK, RunsOK
  <2> QED BY <2>1, <2>2, <2>3
<1> QED BY <1>1, <1>2, <1>3

\* The same for a chat that has not started more turns than STARTED_QUEUED_MESSAGE_MEMORY.
THEOREM MessageIsSentOnce == MaxRuns <= StartedMemory => (Spec => []SentOnce)
<1> SUFFICES ASSUME MaxRuns <= StartedMemory PROVE Spec => []SentOnce
  OBVIOUS
<1>1. Init => RememberedRuns
  BY RunsAreNat, EmptySeq DEF Init, RememberedRuns, Runs, None
<1>2. TypeOK /\ RememberedRuns /\ [Next]_vars => RememberedRuns' /\ [StillKnown]_vars
  BY RememberedRunsStep
<1>3. Spec => [][StillKnown]_vars
  BY <1>1, <1>2, InvHolds, PTL DEF Spec
<1> QED BY <1>3, SentOnceWhileKnown, PTL
=============================================================================
