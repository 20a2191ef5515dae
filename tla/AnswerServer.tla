---------------------------- MODULE AnswerServer ----------------------------
(***************************************************************************)
(* The server's side of answering ONE asynchronous question of the agent   *)
(* (answerAsyncQuestion in src/server/agent.ts): the answer is steered     *)
(* into the turn that asked, or queued as a follow-up message which a      *)
(* later turn consumes.  Its delivery status is kept in the store's answer *)
(* journal.  All writes go through the store's one writeChain; whoever     *)
(* awaits a write continues in the step that applies it.                   *)
(*                                                                         *)
(* A submission names its request, its record and its queued message.      *)
(* Writes do not fail here (EventStore treats the ones that do) and nobody *)
(* deletes the chat.                                                       *)
(* Requests wait for the chat's lock before they read anything, so one     *)
(* arrives when it gets the lock.                                          *)
(***************************************************************************)
EXTENDS Naturals, Sequences, FiniteSets, SequencesExt

CONSTANTS
  Subs,         \* submissionIds of all clients
  None,
  MaxRestarts   \* bound

ASSUME AnswerServerAssumption == None \notin Subs /\ MaxRestarts \in Nat

VARIABLES
  status, latest,  \* asyncQuestionSubmissions, asyncQuestionResponses of the store
  journaled,       \* submissions whose record is in the journal file
  queue,           \* queued follow-ups
  chain,           \* writeChain: writes not applied yet
  handler,         \* the answerAsyncQuestion that holds the chat's lock
  claim,           \* the follow-up that is being started
  started,         \* startedQueuedMessageIds
  turn,            \* the provider's active turn
  restarts,        \* history: number of restarts
  taken,           \* history: submissions ever recorded
  sent,            \* history: how often the provider was given the answer
  forgot,          \* history: a restart lost a record, which compaction had truncated
  resent,          \* history: a restart met a follow-up that had been sent and not removed
  overtaken        \* history: a reconciliation did not see a record being written

store   == <<status, latest, journaled, queue>>
history == <<restarts, taken, sent, forgot, resent, overtaken>>
vars    == <<store, chain, handler, claim, started, turn, history>>

Statuses == {"none", "submitting", "queued", "accepted", "failed", "delivery_unknown"}

\* A record of the journal, written by a handler or by the start of a follow-up.
Record(s, to, by) == [op |-> "record", sub |-> s, to |-> to, by |-> by]
Enqueue(s)        == [op |-> "enqueue", sub |-> s, to |-> "none", by |-> "handler"]
Removal(s, by)     == [op |-> "remove", sub |-> s, to |-> "none", by |-> by]

Idle == [pc |-> "idle", sub |-> None]

Init ==
  /\ status = [s \in Subs |-> "none"] /\ latest = None /\ journaled = {} /\ queue = {}
  /\ chain = <<>> /\ handler = Idle /\ claim = Idle /\ started = {}
  /\ turn \in {"origin", "other", "none"}
  /\ restarts = 0 /\ taken = {} /\ sent = [s \in Subs |-> 0]
  /\ forgot = FALSE /\ resent = FALSE /\ overtaken = FALSE

-----------------------------------------------------------------------------
(* The store's writeChain. *)

\* The writes that reach the disk and then the memory of the store.
StatusAfter(w) == IF w.op = "record" THEN [status EXCEPT ![w.sub] = w.to] ELSE status
LatestAfter(w) == IF w.op = "record" THEN w.sub ELSE latest
JournalAfter(w) == IF w.op = "record" THEN journaled \cup {w.sub} ELSE journaled
QueueAfter(w) == CASE w.op = "enqueue" -> queue \cup {w.sub}
                   [] w.op = "remove"  -> queue \ {w.sub}
                   [] OTHER            -> queue

\* The head of the chain is applied; its writer goes on to append "next".
Apply(next) ==
  LET w == Head(chain)
  IN /\ status' = StatusAfter(w) /\ latest' = LatestAfter(w)
     /\ journaled' = JournalAfter(w) /\ queue' = QueueAfter(w)
     /\ chain' = Tail(chain) \o next

Writing(op, by) == chain # <<>> /\ Head(chain).op = op /\ Head(chain).by = by

-----------------------------------------------------------------------------
(* answerAsyncQuestion. *)

\* A crash-left record is re-derived: a queue entry proves that it is queued.
reconcileSubmitting(s) ==
  LET to == IF s \in queue THEN "queued" ELSE "delivery_unknown"
  IN /\ chain' = Append(chain, Record(s, to, "handler"))
     /\ handler' = [pc |-> "settling", sub |-> s]
     /\ overtaken' = (overtaken \/ Record(s, "accepted", "start") \in ToSet(chain))

\* Mutant: a submitting record is taken for one that failed.
AnswerAnew(s) ==
  /\ handler.pc = "idle"
  /\ LET prior == IF status[s] # "none" THEN s ELSE latest
     IN /\ s \notin taken
        /\ prior # None => status[prior] \in {"failed", "submitting"}
        /\ taken' = taken \cup {s}
        /\ chain' = Append(chain, Record(s, "submitting", "handler"))
        /\ handler' = [pc |-> "recording", sub |-> s]
  /\ UNCHANGED <<store, claim, started, turn, restarts, sent, forgot, resent, overtaken>>

\* A request that finds any other record returns it and changes nothing.
answerAsyncQuestion(s) ==
  /\ handler.pc = "idle"
  /\ LET prior == IF status[s] # "none" THEN s ELSE latest
     IN \/ /\ prior # None /\ status[prior] = "submitting"
           /\ reconcileSubmitting(prior)
           /\ UNCHANGED taken
        \/ /\ s \notin taken
           /\ prior # None => status[prior] = "failed"
           /\ taken' = taken \cup {s}
           /\ chain' = Append(chain, Record(s, "submitting", "handler"))
           /\ handler' = [pc |-> "recording", sub |-> s]
           /\ UNCHANGED overtaken
  /\ UNCHANGED <<store, claim, started, turn, restarts, sent, forgot, resent>>

\* The submitting record is written: steer the answer into the turn that asked,
\* if that still runs and can be steered, else queue a follow-up.
SubmittingRecorded ==
  /\ handler.pc = "recording" /\ Writing("record", "handler")
  /\ \/ /\ turn = "origin"
        /\ handler' = [handler EXCEPT !.pc = "steering"] /\ Apply(<<>>)
     \/ handler' = [handler EXCEPT !.pc = "enqueueing"] /\ Apply(<<Enqueue(handler.sub)>>)
  /\ UNCHANGED <<claim, started, turn, history>>

SettleAs(to) ==
  /\ handler' = [handler EXCEPT !.pc = "settling"]
  /\ chain' = Append(chain, Record(handler.sub, to, "handler"))

\* The provider takes the steered answer; the reply is under way.
SteerArrives ==
  /\ handler.pc = "steering" /\ turn = "origin"
  /\ handler' = [handler EXCEPT !.pc = "steered"]
  /\ sent' = [sent EXCEPT ![handler.sub] = @ + 1]
  /\ UNCHANGED <<store, chain, claim, started, turn, restarts, taken, forgot, resent, overtaken>>

SteerReplied ==
  /\ handler.pc = "steered"
  /\ SettleAs("accepted")
  /\ UNCHANGED <<store, claim, started, turn, history>>

\* Mutant: silence is taken for success.
SteerPresumed ==
  /\ handler.pc \in {"steering", "steered"}
  /\ SettleAs("accepted")
  /\ UNCHANGED <<store, claim, started, turn, history>>

\* An error that confirms nothing: the provider may have the answer.
SteerUncertain ==
  /\ handler.pc \in {"steering", "steered"}
  /\ SettleAs("delivery_unknown")
  /\ UNCHANGED <<store, claim, started, turn, history>>

\* The provider refuses: the answer failed, or, when the turn is over, it is
\* queued as a follow-up.
SteerRefused ==
  /\ handler.pc = "steering"
  /\ IF turn = "origin"
     THEN SettleAs("failed")
     ELSE /\ handler' = [handler EXCEPT !.pc = "enqueueing"]
          /\ chain' = Append(chain, Enqueue(handler.sub))
  /\ UNCHANGED <<store, claim, started, turn, history>>

\* Mutant: the record of the queued follow-up is written some time later.
FollowUpQueuedLater ==
  /\ \/ /\ Writing("enqueue", "handler")
        /\ Apply(<<>>) /\ UNCHANGED handler
     \/ /\ handler.pc = "enqueueing" /\ Enqueue(handler.sub) \notin ToSet(chain)
        /\ SettleAs("queued") /\ UNCHANGED store
  /\ UNCHANGED <<claim, started, turn, history>>

\* The follow-up is in the queue, and its record is on its way at once.
FollowUpQueued ==
  /\ handler.pc = "enqueueing" /\ Writing("enqueue", "handler")
  /\ handler' = [handler EXCEPT !.pc = "settling"]
  /\ Apply(<<Record(handler.sub, "queued", "handler")>>)
  /\ UNCHANGED <<claim, started, turn, history>>

\* The request returns its record and gives up the lock.
Settled ==
  /\ handler.pc = "settling" /\ Writing("record", "handler")
  /\ handler' = Idle
  /\ Apply(<<>>)
  /\ UNCHANGED <<claim, started, turn, history>>

-----------------------------------------------------------------------------
(* The queue: starting a follow-up, and removing it. *)

\* Some drain or steer of the chat's queue claims the follow-up (see ChatRun).
ClaimFollowUp(s) ==
  /\ claim.pc = "idle" /\ turn = "none"
  /\ s \in queue \ started
  /\ claim' = [pc |-> "starting", sub |-> s]
  /\ UNCHANGED <<store, chain, handler, started, turn, history>>

LaunchFails ==
  /\ claim.pc = "starting"
  /\ claim' = Idle
  /\ UNCHANGED <<store, chain, handler, started, turn, history>>

\* The provider turn exists; consumeQueuedMessage removes the message.  One that
\* a dequeue removed before is gone, and its record is left alone.
consumeQueuedMessage ==
  /\ claim.pc = "starting"
  /\ turn' = "other"
  /\ sent' = [sent EXCEPT ![claim.sub] = @ + 1]
  /\ started' = started \cup {claim.sub}
  /\ IF claim.sub \in queue
     THEN /\ claim' = [claim EXCEPT !.pc = "removing"]
          /\ chain' = Append(chain, Removal(claim.sub, "start"))
     ELSE claim' = Idle /\ UNCHANGED chain
  /\ UNCHANGED <<store, handler, restarts, taken, forgot, resent, overtaken>>

\* The answer is sent, and its record, if still undecided, says so.
Consumed ==
  /\ claim.pc = "removing" /\ Writing("remove", "start")
  /\ IF status[claim.sub] \in {"queued", "submitting"}
     THEN /\ claim' = [claim EXCEPT !.pc = "accepting"]
          /\ Apply(<<Record(claim.sub, "accepted", "start")>>)
     ELSE claim' = Idle /\ Apply(<<>>)
  /\ UNCHANGED <<handler, started, turn, history>>

Accepted ==
  /\ claim.pc = "accepting" /\ Writing("record", "start")
  /\ claim' = Idle
  /\ Apply(<<>>)
  /\ UNCHANGED <<handler, started, turn, history>>

dequeue(s) ==
  /\ s \in queue /\ claim.sub # s
  /\ Removal(s, "user") \notin ToSet(chain)
  /\ chain' = Append(chain, Removal(s, "user"))
  /\ UNCHANGED <<store, handler, claim, started, turn, history>>

Dequeued ==
  /\ Writing("remove", "user")
  /\ Apply(<<>>)
  /\ UNCHANGED <<handler, claim, started, turn, history>>

-----------------------------------------------------------------------------
(* The chat's turns, compaction and restarts. *)

TurnEnds ==
  /\ turn # "none"
  /\ turn' = "none"
  /\ UNCHANGED <<store, chain, handler, claim, started, history>>

OtherTurnStarts ==
  /\ turn = "none" /\ claim.pc = "idle"
  /\ turn' = "other"
  /\ UNCHANGED <<store, chain, handler, claim, started, history>>

\* compact() truncates the answer journal; the queue is part of the snapshot.
Compact ==
  /\ journaled # {}
  /\ journaled' = {}
  /\ UNCHANGED <<status, latest, queue, chain, handler, claim, started, turn, history>>

\* The process dies and starts again from the disk.  (A write that reached the
\* disk and not the memory is one that was applied just before.)
Restart ==
  /\ restarts < MaxRestarts
  /\ restarts' = restarts + 1
  /\ status' = [s \in Subs |-> IF s \in journaled THEN status[s] ELSE "none"]
  /\ latest' = IF latest \in journaled THEN latest ELSE None
  /\ forgot' = (forgot \/ \E s \in Subs \ journaled : status[s] # "none")
  /\ resent' = (resent \/ queue \cap started # {})
  /\ chain' = <<>> /\ handler' = Idle /\ claim' = Idle /\ started' = {} /\ turn' = "none"
  /\ UNCHANGED <<journaled, queue, taken, sent, overtaken>>

-----------------------------------------------------------------------------
Next ==
  \/ \E s \in Subs : answerAsyncQuestion(s) \/ ClaimFollowUp(s) \/ dequeue(s)
  \/ SubmittingRecorded \/ SteerArrives \/ SteerReplied \/ SteerUncertain \/ SteerRefused
  \/ FollowUpQueued \/ Settled
  \/ LaunchFails \/ consumeQueuedMessage \/ Consumed \/ Accepted \/ Dequeued
  \/ TurnEnds \/ OtherTurnStarts \/ Compact \/ Restart

Spec == Init /\ [][Next]_vars

-----------------------------------------------------------------------------
(* Properties. *)

Writes == [op : {"record", "enqueue", "remove"}, sub : Subs, to : Statuses,
           by : {"handler", "start", "user"}]

TypeOK ==
  /\ status \in [Subs -> Statuses] /\ latest \in Subs \cup {None}
  /\ journaled \in SUBSET Subs /\ queue \in SUBSET Subs /\ started \in SUBSET Subs
  /\ chain \in Seq(Writes)
  /\ handler \in [pc : {"recording", "steering", "steered", "enqueueing", "settling"},
                  sub : Subs] \cup {Idle}
  /\ claim \in [pc : {"starting", "removing", "accepting"}, sub : Subs] \cup {Idle}
  /\ turn \in {"origin", "other", "none"}
  /\ restarts \in Nat /\ taken \in SUBSET Subs /\ sent \in [Subs -> Nat]
  /\ forgot \in BOOLEAN /\ resent \in BOOLEAN /\ overtaken \in BOOLEAN

\* A question is answered at most once: no two submissions reach the provider and
\* none reaches it twice, unless a restart forgot the answer or met a follow-up
\* that was sent and not removed.
AnsweredOnce ==
  forgot \/ resent \/
    \A s, z \in Subs : sent[s] <= 1 /\ (sent[s] > 0 /\ sent[z] > 0 => s = z)

\* An answer reported as failed was not given to the provider and never will be,
\* so its user may send another one.
FailedIsSafe ==
  forgot \/ \A s \in Subs : status[s] = "failed" => sent[s] = 0 /\ s \notin queue

\* One answer, and no false permission to give another.
OneAnswer == AnsweredOnce /\ FailedIsSafe

\* An answer reported as accepted was given to the provider.
AcceptedWasSent == \A s \in Subs : status[s] = "accepted" => sent[s] > 0

\* An accepted answer stays accepted for as long as it is remembered, unless after
\* a restart a reconciliation overtook the record.
AcceptedStays ==
  [][\A s \in Subs : status[s] = "accepted" =>
       status'[s] \in {"accepted", "none"} \/ overtaken]_vars

AnswerRecords == INSTANCE AnswerRecord

\* The journal behaves as its clients expect; of what the abstract record allows, an
\* accepted answer is doubted only where AcceptedStays says so.
ImplementsAnswerRecord == AnswerRecords!Spec /\ AcceptedStays
=============================================================================
