------------------------- MODULE AnswerServerProofs -------------------------
(***************************************************************************)
(* Proofs about AnswerServer: for any submissions and number of restarts.  *)
(***************************************************************************)
EXTENDS AnswerServer, SequenceTheorems, TLAPS

-----------------------------------------------------------------------------
(* Types. *)

\* A write that is applied leaves the store and the chain well typed.
LEMMA ApplyType ==
  ASSUME TypeOK, chain # <<>>, NEW next \in Seq(Writes), Apply(next)
  PROVE  /\ status' \in [Subs -> Statuses] /\ latest' \in Subs \cup {None}
         /\ journaled' \in SUBSET Subs /\ queue' \in SUBSET Subs
         /\ chain' \in Seq(Writes)
<1>1. chain \in Seq(Writes)
  BY DEF TypeOK
<1>2. Head(chain) \in Writes /\ Tail(chain) \in Seq(Writes)
  BY <1>1
<1>3. Tail(chain) \o next \in Seq(Writes)
  BY <1>2
<1>4. Head(chain).sub \in Subs /\ Head(chain).to \in Statuses
  BY <1>2 DEF Writes
<1> QED
  BY <1>3, <1>4 DEF Apply, StatusAfter, LatestAfter, JournalAfter, QueueAfter, TypeOK

\* So does a write that is appended.
LEMMA AppendType ==
  ASSUME TypeOK, NEW w \in Writes
  PROVE  Append(chain, w) \in Seq(Writes)
BY DEF TypeOK

LEMMA WriteType ==
  ASSUME NEW s \in Subs
  PROVE  /\ \A to \in Statuses, by \in {"handler", "start"} : Record(s, to, by) \in Writes
         /\ Enqueue(s) \in Writes
         /\ \A by \in {"start", "user"} : Removal(s, by) \in Writes
BY DEF Record, Enqueue, Removal, Writes, Statuses

LEMMA HandlerSub ==
  ASSUME TypeOK
  PROVE  /\ handler.pc # "idle" => handler.sub \in Subs
         /\ claim.pc # "idle" => claim.sub \in Subs
BY DEF TypeOK, Idle

LEMMA SettleType ==
  ASSUME TypeOK, NEW to \in Statuses, handler.pc # "idle", SettleAs(to)
  PROVE  /\ chain' \in Seq(Writes)
         /\ handler' \in [pc : {"settling"}, sub : Subs]
<1>1. handler.sub \in Subs
  BY HandlerSub
<1>2. Record(handler.sub, to, "handler") \in Writes
  BY <1>1, WriteType
<1>3. handler' = [pc |-> "settling", sub |-> handler.sub]
  BY DEF SettleAs, TypeOK, Idle
<1> QED BY <1>1, <1>2, <1>3, AppendType DEF SettleAs

LEMMA TypeCorrectInit == Init => TypeOK
<1> SUFFICES ASSUME Init PROVE TypeOK
  OBVIOUS
<1>1. status \in [Subs -> Statuses] /\ sent \in [Subs -> Nat]
  BY DEF Init, Statuses
<1>2. chain \in Seq(Writes)
  BY DEF Init
<1>3. handler = Idle /\ claim = Idle /\ restarts \in Nat
  BY DEF Init
<1>4. forgot \in BOOLEAN /\ resent \in BOOLEAN /\ overtaken \in BOOLEAN
  BY DEF Init
<1> QED BY <1>1, <1>2, <1>3, <1>4 DEF Init, TypeOK

LEMMA TypeCorrectStep ==
  ASSUME TypeOK, [Next]_vars
  PROVE  TypeOK'
<1>1. ASSUME NEW s \in Subs, answerAsyncQuestion(s) PROVE TypeOK'
  <2> DEFINE prior == IF status[s] # "none" THEN s ELSE latest
  <2>1. CASE /\ prior # None /\ status[prior] = "submitting"
             /\ reconcileSubmitting(prior) /\ UNCHANGED taken
    <3>1. prior \in Subs
      BY <2>1 DEF TypeOK
    <3> DEFINE to == IF prior \in queue THEN "queued" ELSE "delivery_unknown"
    <3>2. Record(prior, to, "handler") \in Writes
      BY <3>1, WriteType DEF Statuses
    <3>3. chain' \in Seq(Writes)
      BY <2>1, <3>2, AppendType DEF reconcileSubmitting
    <3>4. handler' \in [pc : {"settling"}, sub : Subs]
      BY <2>1, <3>1 DEF reconcileSubmitting
    <3>5. overtaken' \in BOOLEAN
      BY <2>1 DEF reconcileSubmitting, TypeOK
    <3> QED BY <1>1, <2>1, <3>3, <3>4, <3>5 DEF answerAsyncQuestion, store, TypeOK
  <2>2. CASE /\ s \notin taken /\ taken' = taken \cup {s}
             /\ chain' = Append(chain, Record(s, "submitting", "handler"))
             /\ handler' = [pc |-> "recording", sub |-> s]
             /\ UNCHANGED overtaken
    <3>1. Record(s, "submitting", "handler") \in Writes
      BY WriteType DEF Statuses
    <3>2. chain' \in Seq(Writes)
      BY <2>2, <3>1, AppendType
    <3> QED BY <1>1, <2>2, <3>2 DEF answerAsyncQuestion, store, TypeOK
  <2> QED BY <1>1, <2>1, <2>2 DEF answerAsyncQuestion
<1>2. CASE SubmittingRecorded
  <2>1. handler.sub \in Subs
    BY <1>2, HandlerSub DEF SubmittingRecorded
  <2>2. /\ handler' = [pc |-> "steering", sub |-> handler.sub]
           \/ handler' = [pc |-> "enqueueing", sub |-> handler.sub]
        /\ Apply(<<>>) \/ Apply(<<Enqueue(handler.sub)>>)
    BY <1>2 DEF SubmittingRecorded, TypeOK, Idle
  <2>3. <<>> \in Seq(Writes) /\ <<Enqueue(handler.sub)>> \in Seq(Writes)
    BY <2>1, WriteType
  <2>4. chain # <<>>
    BY <1>2 DEF SubmittingRecorded, Writing
  <2> QED BY <1>2, <2>1, <2>2, <2>3, <2>4, ApplyType DEF SubmittingRecorded, history, TypeOK
<1>3. CASE SteerArrives
  <2>1. handler.sub \in Subs
    BY <1>3, HandlerSub DEF SteerArrives
  <2>2. handler' = [pc |-> "steered", sub |-> handler.sub]
    BY <1>3 DEF SteerArrives, TypeOK, Idle
  <2>3. sent' \in [Subs -> Nat]
    BY <1>3, <2>1 DEF SteerArrives, TypeOK
  <2> QED BY <1>3, <2>1, <2>2, <2>3 DEF SteerArrives, store, TypeOK
<1>4. CASE SteerReplied
  <2>1. chain' \in Seq(Writes) /\ handler' \in [pc : {"settling"}, sub : Subs]
    BY <1>4, SettleType DEF SteerReplied, Statuses
  <2> QED BY <1>4, <2>1 DEF SteerReplied, store, history, TypeOK
<1>5. CASE SteerUncertain
  <2>1. chain' \in Seq(Writes) /\ handler' \in [pc : {"settling"}, sub : Subs]
    BY <1>5, SettleType DEF SteerUncertain, Statuses
  <2> QED BY <1>5, <2>1 DEF SteerUncertain, store, history, TypeOK
<1>6. CASE SteerRefused
  <2>1. CASE SettleAs("failed")
    <3>1. chain' \in Seq(Writes) /\ handler' \in [pc : {"settling"}, sub : Subs]
      BY <1>6, <2>1, SettleType DEF SteerRefused, Statuses
    <3> QED BY <1>6, <3>1 DEF SteerRefused, store, history, TypeOK
  <2>2. CASE /\ handler' = [handler EXCEPT !.pc = "enqueueing"]
             /\ chain' = Append(chain, Enqueue(handler.sub))
    <3>1. handler.sub \in Subs
      BY <1>6, HandlerSub DEF SteerRefused
    <3>2. handler' = [pc |-> "enqueueing", sub |-> handler.sub]
      BY <1>6, <2>2 DEF SteerRefused, TypeOK, Idle
    <3>3. chain' \in Seq(Writes)
      BY <2>2, <3>1, WriteType, AppendType
    <3> QED BY <1>6, <3>1, <3>2, <3>3 DEF SteerRefused, store, history, TypeOK
  <2> QED BY <1>6, <2>1, <2>2 DEF SteerRefused
<1>7. CASE FollowUpQueued
  <2>1. handler.sub \in Subs
    BY <1>7, HandlerSub DEF FollowUpQueued
  <2>2. handler' = [pc |-> "settling", sub |-> handler.sub]
    BY <1>7 DEF FollowUpQueued, TypeOK, Idle
  <2>3. <<Record(handler.sub, "queued", "handler")>> \in Seq(Writes)
    BY <2>1, WriteType DEF Statuses
  <2> QED BY <1>7, <2>1, <2>2, <2>3, ApplyType DEF FollowUpQueued, Writing, history, TypeOK
<1>8. CASE Settled
  <2>1. <<>> \in Seq(Writes)
    OBVIOUS
  <2> QED BY <1>8, <2>1, ApplyType DEF Settled, Writing, history, TypeOK
<1>9. ASSUME NEW s \in Subs, ClaimFollowUp(s) PROVE TypeOK'
  BY <1>9 DEF ClaimFollowUp, store, history, TypeOK
<1>10. CASE LaunchFails
  BY <1>10 DEF LaunchFails, store, history, TypeOK
<1>11. CASE consumeQueuedMessage
  <2>1. claim.sub \in Subs
    BY <1>11, HandlerSub DEF consumeQueuedMessage
  <2>2. sent' \in [Subs -> Nat] /\ started' \in SUBSET Subs
    BY <1>11, <2>1 DEF consumeQueuedMessage, TypeOK
  <2>3. /\ claim' = Idle \/ claim' = [pc |-> "removing", sub |-> claim.sub]
        /\ chain' = chain \/ chain' = Append(chain, Removal(claim.sub, "start"))
    BY <1>11 DEF consumeQueuedMessage, TypeOK, Idle
  <2>4. chain' \in Seq(Writes)
    BY <2>1, <2>3, WriteType, AppendType DEF TypeOK
  <2> QED BY <1>11, <2>1, <2>2, <2>3, <2>4 DEF consumeQueuedMessage, store, TypeOK
<1>12. CASE Consumed
  <2>1. claim.sub \in Subs
    BY <1>12, HandlerSub DEF Consumed
  <2>2. /\ claim' = Idle \/ claim' = [pc |-> "accepting", sub |-> claim.sub]
        /\ Apply(<<>>) \/ Apply(<<Record(claim.sub, "accepted", "start")>>)
    BY <1>12 DEF Consumed, TypeOK, Idle
  <2>3. <<>> \in Seq(Writes) /\ <<Record(claim.sub, "accepted", "start")>> \in Seq(Writes)
    BY <2>1, WriteType DEF Statuses
  <2>4. chain # <<>>
    BY <1>12 DEF Consumed, Writing
  <2> QED BY <1>12, <2>1, <2>2, <2>3, <2>4, ApplyType DEF Consumed, history, TypeOK
<1>13. CASE Accepted
  <2>1. <<>> \in Seq(Writes)
    OBVIOUS
  <2> QED BY <1>13, <2>1, ApplyType DEF Accepted, Writing, history, TypeOK
<1>14. ASSUME NEW s \in Subs, dequeue(s) PROVE TypeOK'
  <2>1. chain' \in Seq(Writes)
    BY <1>14, WriteType, AppendType DEF dequeue
  <2> QED BY <1>14, <2>1 DEF dequeue, store, history, TypeOK
<1>15. CASE Dequeued
  <2>1. <<>> \in Seq(Writes)
    OBVIOUS
  <2> QED BY <1>15, <2>1, ApplyType DEF Dequeued, Writing, history, TypeOK
<1>16. CASE TurnEnds
  BY <1>16 DEF TurnEnds, store, history, TypeOK
<1>17. CASE OtherTurnStarts
  BY <1>17 DEF OtherTurnStarts, store, history, TypeOK
<1>18. CASE Compact
  BY <1>18 DEF Compact, history, TypeOK
<1>19. CASE Restart
  <2>1. status' \in [Subs -> Statuses] /\ latest' \in Subs \cup {None} /\ restarts' \in Nat
    BY <1>19 DEF Restart, TypeOK, Statuses
  <2>2. forgot' \in BOOLEAN /\ resent' \in BOOLEAN
    BY <1>19 DEF Restart, TypeOK
  <2>3. <<>> \in Seq(Writes)
    OBVIOUS
  <2> QED BY <1>19, <2>1, <2>2, <2>3 DEF Restart, TypeOK
<1>20. CASE UNCHANGED vars
  BY <1>20 DEF vars, store, history, TypeOK
<1> QED
  BY <1>1, <1>2, <1>3, <1>4, <1>5, <1>6, <1>7, <1>8, <1>9, <1>10, <1>11, <1>12, <1>13,
     <1>14, <1>15, <1>16, <1>17, <1>18, <1>19, <1>20 DEF Next

\* Every state is well typed: a request that holds the lock and a start of a
\* follow-up always have their submission.
THEOREM TypeCorrect == Spec => []TypeOK
<1>1. Init => TypeOK
  BY TypeCorrectInit
<1>2. TypeOK /\ [Next]_vars => TypeOK'
  BY TypeCorrectStep
<1> QED BY <1>1, <1>2, PTL DEF Spec

-----------------------------------------------------------------------------
(* What is reported as accepted was sent. *)

\* The same of every promise under way: a record to be written, a steer whose reply
\* is awaited, a start that has launched its turn.
SentInv ==
  /\ AcceptedWasSent
  /\ \A i \in DOMAIN chain : chain[i].to = "accepted" => sent[chain[i].sub] > 0
  /\ handler.pc = "steered" => sent[handler.sub] > 0
  /\ claim.pc \in {"removing", "accepting"} => sent[claim.sub] > 0

\* Nothing accepted is in a sequence of writes that was not sent.
Backed(writes) == \A i \in DOMAIN writes : writes[i].to = "accepted" => sent[writes[i].sub] > 0

LEMMA ChainSub == ASSUME TypeOK PROVE \A i \in DOMAIN chain : chain[i].sub \in Subs
<1>1. chain \in Seq(Writes)
  BY DEF TypeOK
<1>2. \A i \in DOMAIN chain : chain[i] \in Writes
  BY <1>1
<1> QED BY <1>2 DEF Writes

LEMMA OneBacked ==
  ASSUME NEW w \in Writes, w.to = "accepted" => sent[w.sub] > 0
  PROVE  <<w>> \in Seq(Writes) /\ Backed(<<w>>)
BY DEF Backed

LEMMA AppendBacked ==
  ASSUME TypeOK, SentInv, NEW w \in Writes, w.to = "accepted" => sent[w.sub] > 0,
         chain' = Append(chain, w), UNCHANGED sent
  PROVE  \A i \in DOMAIN chain' : chain'[i].to = "accepted" => sent'[chain'[i].sub] > 0
BY DEF SentInv, TypeOK

\* Applying the head of the chain keeps the promises.
LEMMA ApplyBacked ==
  ASSUME TypeOK, SentInv, chain # <<>>, UNCHANGED sent,
         NEW next \in Seq(Writes), Backed(next), Apply(next)
  PROVE  /\ AcceptedWasSent'
         /\ \A i \in DOMAIN chain' : chain'[i].to = "accepted" => sent'[chain'[i].sub] > 0
<1>1. chain \in Seq(Writes) /\ Head(chain) = chain[1] /\ 1 \in DOMAIN chain
  BY DEF TypeOK
<1>2. chain[1] \in Writes
  BY <1>1
<1>3. ASSUME NEW s \in Subs, status'[s] = "accepted" PROVE sent'[s] > 0
  <2>1. status[s] = "accepted" \/ (chain[1].sub = s /\ chain[1].to = "accepted")
    BY <1>1, <1>2, <1>3 DEF Apply, StatusAfter, TypeOK, Writes
  <2> QED BY <1>1, <2>1 DEF SentInv, AcceptedWasSent
<1>4. ASSUME NEW i \in DOMAIN chain', chain'[i].to = "accepted" PROVE sent'[chain'[i].sub] > 0
  <2>1. chain' = Tail(chain) \o next
    BY DEF Apply
  <2>2. CASE i <= Len(Tail(chain))
    <3>1. chain'[i] = chain[i + 1] /\ i + 1 \in DOMAIN chain
      BY <1>1, <2>1, <2>2
    <3> QED BY <1>4, <3>1 DEF SentInv
  <2>3. CASE ~(i <= Len(Tail(chain)))
    <3>1. /\ chain'[i] = next[i - Len(Tail(chain))]
          /\ i - Len(Tail(chain)) \in DOMAIN next
      BY <1>1, <2>1, <2>3
    <3> QED BY <1>4, <3>1 DEF Backed
  <2> QED BY <2>2, <2>3
<1> QED BY <1>3, <1>4 DEF AcceptedWasSent

\* Sending more takes nothing back.
LEMMA SendBacked ==
  ASSUME TypeOK, SentInv, NEW s \in Subs, sent' = [sent EXCEPT ![s] = @ + 1]
  PROVE  /\ \A z \in Subs : sent[z] > 0 => sent'[z] > 0
         /\ sent'[s] > 0
BY DEF TypeOK

LEMMA SentInvStep ==
  ASSUME TypeOK, SentInv, [Next]_vars
  PROVE  SentInv'
<1> DEFINE Chained == \A i \in DOMAIN chain : chain[i].to = "accepted" => sent[chain[i].sub] > 0
<1>0. AcceptedWasSent /\ Chained
  BY DEF SentInv
<1>1. ASSUME NEW s \in Subs, answerAsyncQuestion(s) PROVE SentInv'
  <2> DEFINE prior == IF status[s] # "none" THEN s ELSE latest
             to == IF prior \in queue THEN "queued" ELSE "delivery_unknown"
  <2>1. PICK w \in Writes : chain' = Append(chain, w) /\ w.to # "accepted"
    <3>1. CASE prior # None /\ status[prior] = "submitting" /\ reconcileSubmitting(prior)
      <4>1. prior \in Subs
        BY <3>1 DEF TypeOK
      <4>2. Record(prior, to, "handler") \in Writes
        BY <4>1, WriteType DEF Statuses
      <4> QED BY <3>1, <4>2 DEF reconcileSubmitting, Record
    <3>2. CASE chain' = Append(chain, Record(s, "submitting", "handler"))
      <4>1. Record(s, "submitting", "handler") \in Writes
        BY WriteType DEF Statuses
      <4> QED BY <3>2, <4>1 DEF Record
    <3> QED BY <1>1, <3>1, <3>2 DEF answerAsyncQuestion
  <2>2. UNCHANGED sent /\ UNCHANGED status /\ UNCHANGED claim
    BY <1>1 DEF answerAsyncQuestion, store
  <2>3. Chained'
    BY <2>1, <2>2, AppendBacked
  <2>4. handler'.pc # "steered"
    BY <1>1 DEF answerAsyncQuestion, reconcileSubmitting
  <2> QED BY <1>0, <2>2, <2>3, <2>4 DEF SentInv, AcceptedWasSent
<1>2. CASE SubmittingRecorded
  <2>1. handler.sub \in Subs
    BY <1>2, HandlerSub DEF SubmittingRecorded
  <2>2. PICK next \in Seq(Writes) : Backed(next) /\ Apply(next)
    <3>1. <<>> \in Seq(Writes) /\ Backed(<<>>)
      BY DEF Backed
    <3>2. <<Enqueue(handler.sub)>> \in Seq(Writes) /\ Backed(<<Enqueue(handler.sub)>>)
      BY <2>1, WriteType DEF Backed, Enqueue
    <3> QED BY <1>2, <3>1, <3>2 DEF SubmittingRecorded
  <2>3. chain # <<>> /\ UNCHANGED <<claim, sent>>
    BY <1>2 DEF SubmittingRecorded, Writing, history
  <2>4. AcceptedWasSent' /\ Chained'
    BY <2>2, <2>3, ApplyBacked
  <2>5. handler'.pc # "steered"
    BY <1>2 DEF SubmittingRecorded, TypeOK, Idle
  <2> QED BY <2>3, <2>4, <2>5 DEF SentInv
<1>3. CASE SteerArrives
  <2>1. handler.sub \in Subs /\ handler'.sub = handler.sub
    BY <1>3, HandlerSub DEF SteerArrives, TypeOK, Idle
  <2>2. /\ \A z \in Subs : sent[z] > 0 => sent'[z] > 0
        /\ sent'[handler.sub] > 0
    BY <1>3, <2>1, SendBacked DEF SteerArrives
  <2>3. UNCHANGED <<status, chain, claim>>
    BY <1>3 DEF SteerArrives, store
  <2>4. \A i \in DOMAIN chain : chain[i].sub \in Subs
    BY ChainSub
  <2>5. claim.pc # "idle" => claim.sub \in Subs
    BY HandlerSub
  <2> QED BY <1>0, <2>1, <2>2, <2>3, <2>4, <2>5 DEF SentInv, AcceptedWasSent
<1>4. ASSUME NEW to \in Statuses, handler.pc # "idle", SettleAs(to),
             to = "accepted" => sent[handler.sub] > 0,
             UNCHANGED <<status, claim, sent>>
      PROVE  SentInv'
  <2>1. handler.sub \in Subs
    BY <1>4, HandlerSub
  <2>2. Record(handler.sub, to, "handler") \in Writes
    BY <1>4, <2>1, WriteType
  <2>3. Chained'
    BY <1>4, <2>2, AppendBacked DEF SettleAs, Record
  <2>4. handler'.pc = "settling"
    BY <1>4, SettleType
  <2> QED BY <1>0, <1>4, <2>3, <2>4 DEF SentInv, AcceptedWasSent
<1>5. CASE SteerReplied
  BY <1>4, <1>5 DEF SteerReplied, Statuses, SentInv, store, history
<1>6. CASE SteerUncertain
  BY <1>4, <1>6 DEF SteerUncertain, Statuses, store, history
<1>7. CASE SteerRefused
  <2>1. CASE SettleAs("failed")
    BY <1>4, <1>7, <2>1 DEF SteerRefused, Statuses, store, history
  <2>2. CASE /\ handler' = [handler EXCEPT !.pc = "enqueueing"]
             /\ chain' = Append(chain, Enqueue(handler.sub))
    <3>1. Enqueue(handler.sub) \in Writes
      BY <1>7, HandlerSub, WriteType DEF SteerRefused
    <3>2. UNCHANGED <<status, claim, sent>>
      BY <1>7 DEF SteerRefused, store, history
    <3>3. Chained'
      BY <2>2, <3>1, <3>2, AppendBacked DEF Enqueue
    <3>4. handler'.pc = "enqueueing"
      BY <2>2 DEF TypeOK, Idle
    <3> QED BY <1>0, <3>2, <3>3, <3>4 DEF SentInv, AcceptedWasSent
  <2> QED BY <1>7, <2>1, <2>2 DEF SteerRefused
<1>8. CASE FollowUpQueued
  <2>1. /\ <<Record(handler.sub, "queued", "handler")>> \in Seq(Writes)
        /\ Backed(<<Record(handler.sub, "queued", "handler")>>)
    <3>1. handler.sub \in Subs
      BY <1>8, HandlerSub DEF FollowUpQueued
    <3>2. /\ Record(handler.sub, "queued", "handler") \in Writes
          /\ Record(handler.sub, "queued", "handler").to # "accepted"
      BY <3>1, WriteType DEF Record, Statuses
    <3> QED BY <3>2, OneBacked
  <2>2. chain # <<>> /\ UNCHANGED <<claim, sent>>
    BY <1>8 DEF FollowUpQueued, Writing, history
  <2>3. AcceptedWasSent' /\ Chained'
    BY <1>8, <2>1, <2>2, ApplyBacked DEF FollowUpQueued
  <2>4. handler'.pc = "settling"
    BY <1>8 DEF FollowUpQueued, TypeOK, Idle
  <2> QED BY <2>2, <2>3, <2>4 DEF SentInv
<1>9. ASSUME Apply(<<>>), chain # <<>>, UNCHANGED sent,
             handler' \in {handler, Idle}, claim' \in {claim, Idle}
      PROVE  SentInv'
  <2>1. <<>> \in Seq(Writes) /\ Backed(<<>>)
    BY DEF Backed
  <2>2. AcceptedWasSent' /\ Chained'
    BY <1>9, <2>1, ApplyBacked
  <2> QED BY <1>9, <2>2 DEF SentInv, Idle
<1>10. CASE Settled
  BY <1>9, <1>10 DEF Settled, Writing, history
<1>11. CASE Accepted
  BY <1>9, <1>11 DEF Accepted, Writing, history
<1>12. CASE Dequeued
  BY <1>9, <1>12 DEF Dequeued, Writing, history
<1>13. CASE Consumed
  <2>1. CASE Apply(<<>>) /\ claim' = Idle
    BY <1>9, <1>13, <2>1 DEF Consumed, Writing, history
  <2>2. CASE /\ claim' = [claim EXCEPT !.pc = "accepting"]
             /\ Apply(<<Record(claim.sub, "accepted", "start")>>)
    <3>1. claim.sub \in Subs /\ sent[claim.sub] > 0
      BY <1>13, HandlerSub DEF Consumed, SentInv
    <3>2. /\ <<Record(claim.sub, "accepted", "start")>> \in Seq(Writes)
          /\ Backed(<<Record(claim.sub, "accepted", "start")>>)
      <4>1. /\ Record(claim.sub, "accepted", "start") \in Writes
            /\ Record(claim.sub, "accepted", "start").sub = claim.sub
        BY <3>1, WriteType DEF Record, Statuses
      <4> QED BY <3>1, <4>1, OneBacked
    <3>3. chain # <<>> /\ UNCHANGED <<handler, sent>>
      BY <1>13 DEF Consumed, Writing, history
    <3>4. AcceptedWasSent' /\ Chained'
      BY <2>2, <3>2, <3>3, ApplyBacked
    <3>5. claim'.sub = claim.sub
      BY <2>2 DEF TypeOK, Idle
    <3> QED BY <3>1, <3>3, <3>4, <3>5 DEF SentInv
  <2> QED BY <1>13, <2>1, <2>2 DEF Consumed
<1>14. CASE consumeQueuedMessage
  <2>1. claim.sub \in Subs
    BY <1>14, HandlerSub DEF consumeQueuedMessage
  <2>2. /\ \A z \in Subs : sent[z] > 0 => sent'[z] > 0
        /\ sent'[claim.sub] > 0
    BY <1>14, <2>1, SendBacked DEF consumeQueuedMessage
  <2>3. UNCHANGED <<status, handler>>
    BY <1>14 DEF consumeQueuedMessage, store
  <2>4. \A i \in DOMAIN chain : chain[i].sub \in Subs
    BY ChainSub
  <2>5. handler.pc # "idle" => handler.sub \in Subs
    BY HandlerSub
  <2>6. /\ claim' = Idle \/ claim' = [pc |-> "removing", sub |-> claim.sub]
        /\ chain' = chain \/ chain' = Append(chain, Removal(claim.sub, "start"))
    BY <1>14 DEF consumeQueuedMessage, TypeOK, Idle
  <2>7. Chained'
    <3>1. CASE chain' = chain
      BY <1>0, <2>2, <2>4, <3>1
    <3>2. CASE chain' = Append(chain, Removal(claim.sub, "start"))
      <4>1. Removal(claim.sub, "start").to # "accepted"
        BY DEF Removal
      <4>2. ASSUME NEW i \in DOMAIN chain', chain'[i].to = "accepted"
            PROVE  i \in DOMAIN chain /\ chain'[i] = chain[i]
        BY <3>2, <4>1, <4>2 DEF TypeOK
      <4> QED BY <1>0, <2>2, <2>4, <4>2
    <3> QED BY <2>6, <3>1, <3>2
  <2>8. claim'.pc \in {"removing", "accepting"} => sent'[claim'.sub] > 0
    BY <2>2, <2>6 DEF Idle
  <2> QED BY <1>0, <2>2, <2>3, <2>5, <2>7, <2>8 DEF SentInv, AcceptedWasSent
<1>15. ASSUME NEW s \in Subs, dequeue(s) PROVE SentInv'
  <2>1. Removal(s, "user") \in Writes /\ Removal(s, "user").to # "accepted"
    BY WriteType DEF Removal
  <2>2. UNCHANGED <<status, handler, claim, sent>>
    BY <1>15 DEF dequeue, store, history
  <2>3. Chained'
    BY <1>15, <2>1, <2>2, AppendBacked DEF dequeue
  <2> QED BY <1>0, <2>2, <2>3 DEF SentInv, AcceptedWasSent
<1>16. ASSUME UNCHANGED <<status, chain, handler, sent>>,
              claim' = claim \/ claim'.pc \in {"idle", "starting"}
       PROVE  SentInv'
  BY <1>0, <1>16 DEF SentInv, AcceptedWasSent
<1>17. ASSUME NEW s \in Subs, ClaimFollowUp(s) PROVE SentInv'
  BY <1>16, <1>17 DEF ClaimFollowUp, store, history
<1>18. CASE LaunchFails
  BY <1>16, <1>18 DEF LaunchFails, Idle, store, history
<1>19. CASE TurnEnds \/ OtherTurnStarts \/ Compact \/ UNCHANGED vars
  BY <1>16, <1>19 DEF TurnEnds, OtherTurnStarts, Compact, vars, store, history
<1>20. CASE Restart
  <2>1. \A s \in Subs : status'[s] = "accepted" => status[s] = "accepted"
    BY <1>20 DEF Restart
  <2>2. UNCHANGED sent /\ chain' = <<>> /\ handler' = Idle /\ claim' = Idle
    BY <1>20 DEF Restart
  <2> QED BY <1>0, <2>1, <2>2 DEF SentInv, AcceptedWasSent, Idle
<1> QED
  BY <1>1, <1>2, <1>3, <1>5, <1>6, <1>7, <1>8, <1>10, <1>11, <1>12, <1>13, <1>14, <1>15,
     <1>17, <1>18, <1>19, <1>20 DEF Next

\* An answer reported as accepted was given to the provider, whatever crashes,
\* lost replies and concurrent starts of follow-ups happen.
THEOREM AcceptedIsSent == Spec => []AcceptedWasSent
<1>1. Init => TypeOK /\ SentInv
  BY TypeCorrectInit DEF Init, SentInv, AcceptedWasSent, Idle
<1>2. TypeOK /\ SentInv /\ [Next]_vars => TypeOK' /\ SentInv'
  BY TypeCorrectStep, SentInvStep
<1>3. SentInv => AcceptedWasSent
  BY DEF SentInv
<1> QED BY <1>1, <1>2, <1>3, PTL DEF Spec

-----------------------------------------------------------------------------
(* The journal is an AnswerRecord, and a question is answered once.  The   *)
(* inductive invariant Orderly says which writes are under way, for whom,  *)
(* and in which order; on top of it, Told says what was sent.              *)

Live(s) == status[s] \notin {"none", "failed"}

\* The handler has not settled its submission.
Fresh == {"recording", "steering", "steered", "enqueueing"}

\* A write is awaited by whoever gave it.
OfHandler(w) ==
  w.by = "handler" =>
    /\ w.sub = handler.sub
    /\ \/ w.op = "record" /\ w.to = "submitting" /\ handler.pc = "recording"
       \/ w.op = "enqueue" /\ w.to = "none" /\ handler.pc = "enqueueing"
       \/ /\ w.op = "record" /\ handler.pc = "settling"
          /\ w.to \in {"queued", "accepted", "failed", "delivery_unknown"}

OfStart(w) ==
  w.by = "start" =>
    /\ w.sub = claim.sub
    /\ \/ w.op = "remove" /\ w.to = "none" /\ claim.pc = "removing"
       \/ w.op = "record" /\ w.to = "accepted" /\ claim.pc = "accepting"

OfUser(w) == w.by = "user" => w.op = "remove" /\ w.to = "none"

Awaited ==
  /\ \A i \in DOMAIN chain : OfHandler(chain[i]) /\ OfStart(chain[i]) /\ OfUser(chain[i])
  /\ \A i, j \in DOMAIN chain : chain[i].by = chain[j].by /\ chain[i].by # "user" => i = j

\* The latest submission speaks for the question, and no other one is live.
Recorded ==
  /\ \A s \in Subs : Live(s) => s = latest
  /\ \A s \in Subs : status[s] # "none" => s \in taken
  /\ queue \subseteq taken
  /\ latest # None => status[latest] # "none"
  /\ latest \in journaled \/ journaled = {}
  /\ handler.pc # "idle" => handler.sub \in taken
  /\ claim.pc # "idle" => claim.sub \in taken

Handled ==
  /\ handler.pc = "recording" => status[handler.sub] = "none" /\ \A s \in Subs : ~Live(s)
  /\ handler.pc \in Fresh \ {"recording"} => status[handler.sub] = "submitting"
  /\ handler.pc \in Fresh => handler.sub \notin queue /\ claim.sub # handler.sub
  /\ claim.pc = "accepting" =>
       /\ status[claim.sub] \in {"submitting", "queued", "delivery_unknown"}
       /\ claim.sub \notin queue

\* What the record that settles a submission meets: an accepted one only with a
\* doubt, after a reconciliation that did not see its record.
Settling(i) ==
  handler.pc = "settling" /\ chain[i].by = "handler" =>
    /\ \/ status[handler.sub] = "submitting"
       \/ status[handler.sub] = "accepted" /\ chain[i].to = "delivery_unknown" /\ overtaken
    /\ chain[i].to \in {"accepted", "failed"} => handler.sub \notin queue /\ claim.sub # handler.sub
    /\ \A j \in DOMAIN chain : chain[j].by = "start" /\ chain[j].op = "record" /\ j < i
         => chain[i].to = "delivery_unknown" /\ overtaken

Orderly == Awaited /\ Recorded /\ Handled /\ \A i \in DOMAIN chain : Settling(i)

-----------------------------------------------------------------------------
(* The chain after a step: its first k writes are gone, and w may be new.  *)

NextChain(k, more, w) ==
  \A i \in DOMAIN chain' :
    /\ i \in Nat \ {0}
    /\ \/ i + k \in DOMAIN chain /\ chain'[i] = chain[i + k]
       \/ more /\ i = Len(chain) + 1 - k /\ chain'[i] = w

LEMMA ChainDomain == TypeOK => DOMAIN chain = 1..Len(chain) /\ Len(chain) \in Nat
BY DEF TypeOK

LEMMA SameChain == ASSUME TypeOK, chain' = chain, NEW w PROVE NextChain(0, FALSE, w)
BY ChainDomain DEF NextChain

LEMMA AppendChain ==
  ASSUME TypeOK, NEW w, chain' = Append(chain, w)
  PROVE  NextChain(0, TRUE, w)
BY DEF NextChain, TypeOK

LEMMA ApplyChain ==
  ASSUME TypeOK, chain # <<>>
  PROVE  /\ Head(chain) = chain[1] /\ 1 \in DOMAIN chain /\ Head(chain) \in Writes
         /\ Apply(<<>>) => \A w : NextChain(1, FALSE, w)
         /\ \A w \in Writes : Apply(<<w>>) => NextChain(1, TRUE, w)
<1>1. chain \in Seq(Writes) /\ Len(chain) \in Nat /\ Len(chain) > 0
  BY DEF TypeOK
<1>2. Head(chain) = chain[1] /\ 1 \in DOMAIN chain /\ Head(chain) \in Writes
  BY <1>1
<1>3. Tail(chain) \in Seq(Writes) /\ Len(Tail(chain)) = Len(chain) - 1
  BY <1>1
<1>4. \A i \in 1..(Len(chain) - 1) : Tail(chain)[i] = chain[i + 1] /\ i + 1 \in DOMAIN chain
  BY <1>1
<1>5. ASSUME Apply(<<>>), NEW w PROVE NextChain(1, FALSE, w)
  <2>1. chain' = Tail(chain)
    BY <1>3, <1>5 DEF Apply
  <2>2. DOMAIN chain' = 1..(Len(chain) - 1)
    BY <1>1, <1>3, <2>1
  <2> QED BY <1>1, <1>4, <2>1, <2>2 DEF NextChain
<1>6. ASSUME NEW w \in Writes, Apply(<<w>>) PROVE NextChain(1, TRUE, w)
  <2>1. chain' = Tail(chain) \o <<w>>
    BY <1>3, <1>6 DEF Apply
  <2>2. /\ DOMAIN chain' = 1..Len(chain) /\ chain'[Len(chain)] = w
        /\ \A i \in 1..(Len(chain) - 1) : chain'[i] = Tail(chain)[i]
    <3>1. <<w>> \in Seq(Writes) /\ Len(<<w>>) = 1 /\ <<w>>[1] = w
      BY <1>6
    <3>2. PICK t \in Seq(Writes), v \in Seq(Writes) : t = Tail(chain) /\ v = <<w>>
      BY <1>3, <3>1
    <3>3. /\ t \o v \in Seq(Writes) /\ Len(t \o v) = Len(t) + Len(v)
          /\ \A i \in 1..Len(t) + Len(v) : (t \o v)[i] = IF i <= Len(t) THEN t[i] ELSE v[i - Len(t)]
      BY ConcatProperties
    <3>4. chain' = t \o v /\ Len(t) = Len(chain) - 1 /\ Len(v) = 1 /\ v[1] = w
      BY <1>3, <2>1, <3>1, <3>2
    <3>5. chain' \in Seq(Writes) /\ Len(chain') = Len(chain)
      BY <1>1, <3>3, <3>4
    <3>6. \A i \in 1..(Len(chain) - 1) : chain'[i] = t[i]
      BY <1>1, <3>3, <3>4
    <3>7. chain'[Len(chain)] = w
      BY <1>1, <3>3, <3>4
    <3> QED BY <1>1, <3>2, <3>5, <3>6, <3>7
  <2> QED BY <1>1, <1>4, <2>2 DEF NextChain
<1> QED BY <1>2, <1>5, <1>6

\* Writes by one party are all gone, or were never there.
Gone(by, k) == \A i \in DOMAIN chain : chain[i].by = by => k = 1 /\ i = 1

LEMMA AwaitedStep ==
  ASSUME TypeOK, Awaited, NEW k \in {0, 1}, NEW more \in BOOLEAN, NEW w, NextChain(k, more, w),
         handler' = handler \/ Gone("handler", k), claim' = claim \/ Gone("start", k),
         more => /\ OfHandler(w)' /\ OfStart(w)' /\ OfUser(w)
                 /\ w.by # "user" => Gone(w.by, k)
  PROVE  Awaited'
<1>0. \A i \in DOMAIN chain' : i \in Nat \ {0} /\ ~(k = 1 /\ i + k = 1)
  BY DEF NextChain
<1>1. ASSUME NEW i \in DOMAIN chain', NEW x, x = chain'[i]
      PROVE  OfHandler(x)' /\ OfStart(x)' /\ OfUser(x)
  <2>1. CASE i + k \in DOMAIN chain /\ x = chain[i + k]
    <3>1. OfHandler(x) /\ OfStart(x) /\ OfUser(x)
      BY <2>1 DEF Awaited
    <3>2. OfHandler(x)'
      BY <1>0, <2>1, <3>1 DEF OfHandler, Gone
    <3>3. OfStart(x)'
      BY <1>0, <2>1, <3>1 DEF OfStart, Gone
    <3> QED BY <3>1, <3>2, <3>3
  <2>2. CASE more /\ x = w
    BY <2>2
  <2> QED BY <1>1, <2>1, <2>2 DEF NextChain
<1>2. ASSUME NEW i \in DOMAIN chain'
      PROVE  (OfHandler(chain[i]))' /\ (OfStart(chain[i]))' /\ (OfUser(chain[i]))'
  <2>1. PICK x : x = chain'[i]
    OBVIOUS
  <2> QED BY <1>1, <2>1 DEF OfHandler, OfStart, OfUser
<1>3. ASSUME NEW i \in DOMAIN chain', NEW j \in DOMAIN chain',
             chain'[i].by = chain'[j].by, chain'[i].by # "user"
      PROVE  i = j
  <2>2. CASE i + k \in DOMAIN chain /\ chain'[i] = chain[i + k]
             /\ j + k \in DOMAIN chain /\ chain'[j] = chain[j + k]
    <3>1. i + k = j + k
      BY <1>3, <2>2 DEF Awaited
    <3> QED BY <1>0, <3>1
  <2>3. ASSUME NEW e \in DOMAIN chain', e + k \in DOMAIN chain,
               chain'[e] = chain[e + k], more, chain'[e].by = w.by, w.by # "user"
        PROVE  FALSE
    BY <1>0, <2>3 DEF Gone
  <2> QED BY <1>3, <2>2, <2>3 DEF NextChain
<1> QED BY <1>2, <1>3 DEF Awaited

\* What the handler awaits is still to come, and nothing else changes for it.
LEMMA SettlingStep ==
  ASSUME TypeOK, Orderly, NEW k \in {0, 1}, NEW more \in BOOLEAN, NEW w, NextChain(k, more, w),
         handler' = handler, UNCHANGED status, overtaken => overtaken',
         handler.sub \in queue' => handler.sub \in queue,
         claim'.sub \in {claim.sub, None} \cup queue,
         more => w.by # "handler"
  PROVE  \A i \in DOMAIN chain' : Settling(i)'
<1> SUFFICES ASSUME NEW i \in DOMAIN chain', handler.pc = "settling", chain'[i].by = "handler"
             PROVE  Settling(i)'
  BY DEF Settling
<1>0. DOMAIN chain = 1..Len(chain) /\ Len(chain) \in Nat
  BY ChainDomain
<1>1. i \in Nat \ {0} /\ i + k \in DOMAIN chain /\ chain'[i] = chain[i + k]
  BY DEF NextChain
<1>2. Settling(i + k)
  BY <1>1 DEF Orderly
<1>3. handler.sub # None
  BY HandlerSub, AnswerServerAssumption
<1>4. ASSUME NEW j \in DOMAIN chain', chain'[j].by = "start", chain'[j].op = "record", j < i
      PROVE  chain'[i].to = "delivery_unknown" /\ overtaken'
  <2>1. j \in Nat \ {0} /\ j + k \in DOMAIN chain /\ chain'[j] = chain[j + k]
    BY <1>0, <1>1, <1>4 DEF NextChain
  <2>2. j + k < i + k
    BY <1>1, <1>4, <2>1
  <2> QED BY <1>1, <1>2, <1>4, <2>1, <2>2 DEF Settling
<1>5. chain'[i].to \in {"accepted", "failed"} => handler.sub \notin queue' /\ claim'.sub # handler.sub
  BY <1>1, <1>2, <1>3 DEF Settling
<1> QED BY <1>1, <1>2, <1>4, <1>5 DEF Settling

\* The handler has just given the record that settles its submission.
LEMMA SettlesStep ==
  ASSUME TypeOK, Orderly, NEW k \in {0, 1}, NEW w, NextChain(k, TRUE, w), Gone("handler", k),
         status'[handler'.sub] = "submitting",
         w.to \in {"accepted", "failed"} => handler'.sub \notin queue' /\ claim'.sub # handler'.sub,
         \A j \in DOMAIN chain : chain[j].by = "start" /\ chain[j].op = "record"
           => w.to = "delivery_unknown" /\ overtaken'
  PROVE  \A i \in DOMAIN chain' : Settling(i)'
<1> SUFFICES ASSUME NEW i \in DOMAIN chain', chain'[i].by = "handler"
             PROVE  Settling(i)'
  BY DEF Settling
<1>0. DOMAIN chain = 1..Len(chain) /\ Len(chain) \in Nat
  BY ChainDomain
<1>1. chain'[i] = w /\ i = Len(chain) + 1 - k
  <2>1. i \in Nat \ {0} /\ ~(k = 1 /\ i + k = 1)
    BY DEF NextChain
  <2> QED BY <2>1 DEF NextChain, Gone
<1>2. ASSUME NEW j \in DOMAIN chain', chain'[j].by = "start", chain'[j].op = "record", j < i
      PROVE  w.to = "delivery_unknown" /\ overtaken'
  <2>1. j + k \in DOMAIN chain /\ chain'[j] = chain[j + k]
    BY <1>0, <1>1, <1>2 DEF NextChain
  <2> QED BY <1>2, <2>1
<1> QED BY <1>1, <1>2 DEF Settling

-----------------------------------------------------------------------------
(* Orderly is inductive. *)

\* Who awaits nothing has no write under way, or its only one is being applied.
LEMMA OwnWrites ==
  ASSUME TypeOK, Awaited
  PROVE  /\ handler.pc \in {"idle", "steering", "steered"} => Gone("handler", 0)
         /\ claim.pc \in {"idle", "starting"} => Gone("start", 0)
         /\ chain # <<>> /\ Head(chain).by # "user" => Gone(Head(chain).by, 1)
<1>1. handler.pc \in {"idle", "steering", "steered"} => Gone("handler", 0)
  BY DEF Awaited, OfHandler, Gone
<1>2. claim.pc \in {"idle", "starting"} => Gone("start", 0)
  BY DEF Awaited, OfStart, Gone
<1>3. ASSUME chain # <<>>, Head(chain).by # "user" PROVE Gone(Head(chain).by, 1)
  BY <1>3, ApplyChain DEF Awaited, Gone
<1> QED BY <1>1, <1>2, <1>3

LEMMA HeadWrite ==
  ASSUME TypeOK, Awaited, chain # <<>>
  PROVE  /\ OfHandler(Head(chain)) /\ OfStart(Head(chain)) /\ OfUser(Head(chain))
         /\ Head(chain) \in Writes
BY ApplyChain DEF Awaited

\* An accepting record in the chain speaks for the live submission.
LEMMA StartRecord ==
  ASSUME TypeOK, Orderly, NEW j \in DOMAIN chain, chain[j].by = "start", chain[j].op = "record"
  PROVE  /\ claim.pc = "accepting" /\ claim.sub \in Subs /\ claim.sub = latest
         /\ claim.sub \notin queue
         /\ chain[j] = Record(claim.sub, "accepted", "start")
         /\ handler.pc \notin Fresh
<1>1. OfStart(chain[j])
  BY DEF Orderly, Awaited
<1>2. claim.pc = "accepting" /\ chain[j].sub = claim.sub /\ chain[j].to = "accepted"
  BY <1>1 DEF OfStart
<1>3. claim.sub \in Subs
  BY <1>2, HandlerSub
<1>4. Live(claim.sub) /\ claim.sub \notin queue
  BY <1>2 DEF Orderly, Handled, Live
<1>5. claim.sub = latest
  BY <1>3, <1>4 DEF Orderly, Recorded
<1>6. chain[j] = Record(claim.sub, "accepted", "start")
  <2>1. chain[j] \in Writes
    BY DEF TypeOK
  <2> QED BY <1>2, <2>1 DEF Writes, Record
<1>7. handler.pc \notin Fresh
  <2>1. handler.pc # "recording"
    BY <1>3, <1>4 DEF Orderly, Handled
  <2>2. ASSUME handler.pc \in Fresh \ {"recording"} PROVE FALSE
    <3>1. handler.sub \in Subs
      BY <2>2, HandlerSub DEF Fresh
    <3>2. Live(handler.sub) /\ claim.sub # handler.sub
      BY <2>2 DEF Orderly, Handled, Live
    <3> QED BY <1>5, <3>1, <3>2 DEF Orderly, Recorded
  <2> QED BY <2>1, <2>2
<1> QED BY <1>2, <1>3, <1>4, <1>5, <1>6, <1>7

\* No record is written, and nobody's submission changes.
LEMMA RecordedStays ==
  ASSUME Recorded, UNCHANGED <<status, latest, journaled>>, taken \subseteq taken',
         queue' \subseteq taken',
         handler'.pc # "idle" => handler'.sub \in taken',
         claim'.pc # "idle" => claim'.sub \in taken'
  PROVE  Recorded'
BY DEF Recorded, Live

LEMMA AnswerOrderly ==
  ASSUME TypeOK, Orderly, NEW s \in Subs, answerAsyncQuestion(s)
  PROVE  Orderly'
<1> DEFINE prior == IF status[s] # "none" THEN s ELSE latest
<1>0. /\ UNCHANGED <<status, latest, journaled, queue, claim>>
      /\ handler.pc = "idle" /\ Gone("handler", 0)
  BY OwnWrites DEF answerAsyncQuestion, store, Orderly
<1>1. CASE prior # None /\ status[prior] = "submitting" /\ reconcileSubmitting(prior) /\ UNCHANGED taken
  <2>1. PICK to : /\ to = IF prior \in queue THEN "queued" ELSE "delivery_unknown"
    OBVIOUS
  <2>2. prior \in Subs /\ Live(prior)
    BY <1>1 DEF TypeOK, Live
  <2>3. prior = latest /\ prior \in taken
    BY <2>2 DEF Orderly, Recorded, Live
  <2>4. PICK w : w = Record(prior, to, "handler")
    OBVIOUS
  <2>5. /\ chain' = Append(chain, w) /\ handler' = [pc |-> "settling", sub |-> prior]
        /\ overtaken' = (overtaken \/ Record(prior, "accepted", "start") \in ToSet(chain))
    BY <1>1, <2>1, <2>4 DEF reconcileSubmitting
  <2>6. /\ w.op = "record" /\ w.sub = prior /\ w.to = to /\ w.by = "handler"
        /\ to \in {"queued", "delivery_unknown"}
    BY <2>1, <2>4 DEF Record
  <2> HIDE DEF prior
  <2>7. NextChain(0, TRUE, w)
    BY <2>5, AppendChain
  <2>8. Awaited'
    <3>1. OfHandler(w)' /\ OfStart(w)' /\ OfUser(w)
      BY <2>5, <2>6 DEF OfHandler, OfStart, OfUser
    <3> QED BY <1>0, <2>6, <2>7, <3>1, AwaitedStep DEF Orderly
  <2>9. Recorded'
    BY <1>0, <1>1, <2>3, <2>5, RecordedStays DEF Orderly, Recorded
  <2>10. Handled'
    BY <1>0, <2>5 DEF Orderly, Handled, Fresh
  <2>11. \A i \in DOMAIN chain' : Settling(i)'
    <3>1. ASSUME NEW j \in DOMAIN chain, chain[j].by = "start", chain[j].op = "record"
          PROVE  w.to = "delivery_unknown" /\ overtaken'
      <4>1. /\ claim.sub = prior /\ prior \notin queue
            /\ chain[j] = Record(prior, "accepted", "start")
        BY <2>3, <3>1, StartRecord
      <4>2. chain[j] \in ToSet(chain)
        BY DEF ToSet
      <4> QED BY <2>1, <2>5, <2>6, <4>1, <4>2
    <3>2. status'[handler'.sub] = "submitting"
      BY <1>0, <1>1, <2>5
    <3>3. w.to \notin {"accepted", "failed"}
      BY <2>6
    <3> QED BY <1>0, <2>7, <3>1, <3>2, <3>3, SettlesStep
  <2> QED BY <2>8, <2>9, <2>10, <2>11 DEF Orderly
<1>2. CASE /\ s \notin taken /\ (prior # None => status[prior] = "failed")
           /\ taken' = taken \cup {s}
           /\ chain' = Append(chain, Record(s, "submitting", "handler"))
           /\ handler' = [pc |-> "recording", sub |-> s]
           /\ UNCHANGED overtaken
  <2>1. status[s] = "none" /\ prior = latest
    BY <1>2 DEF Orderly, Recorded
  <2>2. \A z \in Subs : ~Live(z)
    BY <1>2, <2>1, AnswerServerAssumption DEF Orderly, Recorded, Live
  <2> HIDE DEF prior
  <2>3. PICK w : w = Record(s, "submitting", "handler")
    OBVIOUS
  <2>4. w.op = "record" /\ w.sub = s /\ w.to = "submitting" /\ w.by = "handler"
    BY <2>3 DEF Record
  <2>5. NextChain(0, TRUE, w)
    BY <1>2, <2>3, AppendChain
  <2>6. Awaited'
    <3>1. OfHandler(w)' /\ OfStart(w)' /\ OfUser(w)
      BY <1>2, <2>4 DEF OfHandler, OfStart, OfUser
    <3> QED BY <1>0, <2>4, <2>5, <3>1, AwaitedStep DEF Orderly
  <2>7. Recorded'
    BY <1>0, <1>2, RecordedStays DEF Orderly, Recorded
  <2>8. Handled'
    <3>1. s \notin queue
      BY <1>2 DEF Orderly, Recorded
    <3>2. claim.sub # s
      BY <1>2, AnswerServerAssumption DEF Orderly, Recorded, TypeOK, Idle
    <3> QED BY <1>0, <1>2, <2>1, <2>2, <3>1, <3>2 DEF Orderly, Handled, Fresh, Live
  <2>9. \A i \in DOMAIN chain' : Settling(i)'
    BY <1>2 DEF Settling
  <2> QED BY <2>6, <2>7, <2>8, <2>9 DEF Orderly
<1> QED BY <1>1, <1>2 DEF answerAsyncQuestion

LEMMA SubmittingOrderly ==
  ASSUME TypeOK, Orderly, SubmittingRecorded
  PROVE  Orderly'
<1> DEFINE h == handler.sub
           w == Enqueue(handler.sub)
<1>0. /\ handler.pc = "recording" /\ chain # <<>> /\ UNCHANGED <<claim, taken, overtaken>>
      /\ Head(chain).op = "record" /\ Head(chain).by = "handler"
      /\ h \in Subs
  BY HandlerSub DEF SubmittingRecorded, Writing, history
<1>1. Head(chain).sub = h /\ Head(chain).to = "submitting" /\ Gone("handler", 1)
  BY <1>0, HeadWrite, OwnWrites DEF Orderly, OfHandler
<1>2. PICK next : Apply(next)
  BY DEF SubmittingRecorded
<1>3. /\ status' = [status EXCEPT ![h] = "submitting"] /\ latest' = h
      /\ journaled' = journaled \cup {h} /\ queue' = queue
  BY <1>0, <1>1, <1>2 DEF Apply, StatusAfter, LatestAfter, JournalAfter, QueueAfter
<1>4. /\ handler'.sub = h
      /\ \/ handler'.pc = "steering" /\ Apply(<<>>)
         \/ handler'.pc = "enqueueing" /\ Apply(<<w>>)
  BY DEF SubmittingRecorded, TypeOK, Idle
<1>5. Awaited'
  <2>1. CASE Apply(<<>>)
    <3>1. NextChain(1, FALSE, w)
      BY <1>0, <2>1, ApplyChain
    <3> QED BY <1>0, <1>1, <3>1, AwaitedStep DEF Orderly
  <2>2. CASE handler'.pc = "enqueueing" /\ Apply(<<w>>)
    <3>1. PICK x : x = w
      OBVIOUS
    <3>2. NextChain(1, TRUE, x)
      BY <1>0, <2>2, <3>1, ApplyChain, WriteType
    <3>3. x.op = "enqueue" /\ x.sub = h /\ x.to = "none" /\ x.by = "handler"
      BY <3>1 DEF Enqueue
    <3>4. OfHandler(x)' /\ OfStart(x)' /\ OfUser(x)
      BY <1>4, <2>2, <3>3 DEF OfHandler, OfStart, OfUser
    <3> HIDE DEF w
    <3> QED BY <1>0, <1>1, <3>2, <3>3, <3>4, AwaitedStep DEF Orderly
  <2> QED BY <1>4, <2>1, <2>2
<1>6. \A s \in Subs : ~Live(s)
  BY <1>0 DEF Orderly, Handled
<1>7. Recorded'
  <2>1. /\ h \in taken
        /\ \A s \in Subs : status[s] # "none" => s \in taken
        /\ queue \subseteq taken
        /\ claim.pc # "idle" => claim.sub \in taken
    BY <1>0 DEF Orderly, Recorded
  <2>2. \A s \in Subs : status'[s] = IF s = h THEN "submitting" ELSE status[s]
    BY <1>3 DEF TypeOK
  <2>3. \A s \in Subs : Live(s)' => s = latest'
    BY <1>3, <1>6, <2>2 DEF Live
  <2>4. latest' # None => status'[latest'] # "none"
    BY <1>0, <1>3, <2>2
  <2> QED BY <1>0, <1>3, <1>4, <2>1, <2>2, <2>3, <2>4 DEF Recorded
<1>8. Handled'
  <2>1. status'[h] = "submitting" /\ handler'.pc # "recording"
    BY <1>0, <1>3, <1>4 DEF TypeOK
  <2>2. h \notin queue /\ claim.sub # h
    BY <1>0 DEF Orderly, Handled, Fresh
  <2>3. claim.pc # "accepting"
    BY <1>6, HandlerSub DEF Orderly, Handled, Live
  <2> QED BY <1>0, <1>3, <1>4, <2>1, <2>2, <2>3 DEF Handled
<1>9. \A i \in DOMAIN chain' : Settling(i)'
  BY <1>4 DEF Settling
<1> QED BY <1>5, <1>7, <1>8, <1>9 DEF Orderly

LEMMA SteerArrivesOrderly ==
  ASSUME TypeOK, Orderly, SteerArrives
  PROVE  Orderly'
<1>1. /\ UNCHANGED <<status, latest, journaled, queue, chain, claim, taken>>
      /\ handler.pc = "steering" /\ handler'.pc = "steered" /\ handler'.sub = handler.sub
  BY DEF SteerArrives, store, TypeOK, Idle
<1>2. PICK w : NextChain(0, FALSE, w)
  BY <1>1, SameChain
<1>3. Awaited'
  BY <1>1, <1>2, OwnWrites, AwaitedStep DEF Orderly
<1>4. Recorded'
  BY <1>1, RecordedStays DEF Orderly, Recorded
<1>5. Handled'
  BY <1>1 DEF Orderly, Handled, Fresh
<1>6. \A i \in DOMAIN chain' : Settling(i)'
  BY <1>1 DEF Settling
<1> QED BY <1>3, <1>4, <1>5, <1>6 DEF Orderly

\* A submission that was just submitted, and is settled after k writes are applied.
LEMMA SettlesOrderly ==
  ASSUME TypeOK, Orderly, NEW k \in {0, 1}, NEW w, NextChain(k, TRUE, w), Gone("handler", k),
         handler.pc \in Fresh \ {"recording"},
         handler'.pc = "settling", handler'.sub = handler.sub,
         w.op = "record", w.sub = handler.sub, w.by = "handler",
         w.to \in {"queued", "accepted", "failed", "delivery_unknown"},
         UNCHANGED <<status, latest, journaled, claim, taken>>,
         queue' = queue \/ (queue' = queue \cup {handler.sub} /\ w.to = "queued")
  PROVE  Orderly'
<1>1. Awaited'
  <2>1. OfHandler(w)' /\ OfStart(w)' /\ OfUser(w)
    BY DEF OfHandler, OfStart, OfUser
  <2> QED BY <2>1, AwaitedStep DEF Orderly
<1>2. Recorded'
  BY RecordedStays DEF Orderly, Recorded, Fresh
<1>3. claim.sub # handler.sub /\ handler.sub \notin queue /\ status[handler.sub] = "submitting"
  BY DEF Orderly, Handled
<1>4. Handled'
  BY <1>3 DEF Orderly, Handled, Fresh
<1>5. \A i \in DOMAIN chain' : Settling(i)'
  <2>1. \A j \in DOMAIN chain : ~(chain[j].by = "start" /\ chain[j].op = "record")
    BY StartRecord
  <2> QED BY <1>3, <2>1, SettlesStep
<1> QED BY <1>1, <1>2, <1>4, <1>5 DEF Orderly

LEMMA SettleAsOrderly ==
  ASSUME TypeOK, Orderly, handler.pc \in {"steering", "steered"},
         NEW to \in {"accepted", "failed", "delivery_unknown"}, SettleAs(to),
         UNCHANGED <<store, claim, taken>>
  PROVE  Orderly'
<1>1. PICK w : w = Record(handler.sub, to, "handler")
  OBVIOUS
<1>2. w.op = "record" /\ w.sub = handler.sub /\ w.by = "handler" /\ w.to = to
  BY <1>1 DEF Record
<1>3. NextChain(0, TRUE, w)
  BY <1>1, AppendChain DEF SettleAs
<1>4. handler'.pc = "settling" /\ handler'.sub = handler.sub
  BY DEF SettleAs, TypeOK, Idle
<1>5. Gone("handler", 0)
  BY OwnWrites DEF Orderly
<1>6. /\ handler.pc \in Fresh \ {"recording"} /\ queue' = queue
      /\ UNCHANGED <<status, latest, journaled, claim, taken>>
      /\ w.to \in {"queued", "accepted", "failed", "delivery_unknown"}
  BY <1>2 DEF Fresh, store
<1> QED BY <1>2, <1>3, <1>4, <1>5, <1>6, SettlesOrderly

LEMMA SteerOrderly ==
  ASSUME TypeOK, Orderly, SteerReplied \/ SteerUncertain \/ SteerRefused
  PROVE  Orderly'
<1>1. /\ UNCHANGED <<status, latest, journaled, queue, claim, taken>>
      /\ handler.pc \in {"steering", "steered"}
  BY DEF SteerReplied, SteerUncertain, SteerRefused, store, history
<1>2. ASSUME NEW to \in {"accepted", "failed", "delivery_unknown"}, SettleAs(to)
      PROVE  Orderly'
  BY <1>1, <1>2, SettleAsOrderly DEF store
<1>3. CASE /\ handler' = [handler EXCEPT !.pc = "enqueueing"]
           /\ chain' = Append(chain, Enqueue(handler.sub))
  <2>1. PICK w : w = Enqueue(handler.sub)
    OBVIOUS
  <2>2. w.op = "enqueue" /\ w.sub = handler.sub /\ w.by = "handler" /\ w.to = "none"
    BY <2>1 DEF Enqueue
  <2>3. NextChain(0, TRUE, w)
    BY <1>3, <2>1, AppendChain
  <2>4. handler'.pc = "enqueueing" /\ handler'.sub = handler.sub
    BY <1>3 DEF TypeOK, Idle
  <2>5. Gone("handler", 0)
    BY <1>1, OwnWrites DEF Orderly
  <2>6. Awaited'
    <3>1. OfHandler(w)' /\ OfStart(w)' /\ OfUser(w)
      BY <2>2, <2>4 DEF OfHandler, OfStart, OfUser
    <3> QED BY <1>1, <2>2, <2>3, <2>5, <3>1, AwaitedStep DEF Orderly
  <2>7. Recorded'
    BY <1>1, <2>4, RecordedStays DEF Orderly, Recorded
  <2>8. Handled'
    BY <1>1, <2>4 DEF Orderly, Handled, Fresh
  <2>9. \A i \in DOMAIN chain' : Settling(i)'
    BY <2>4 DEF Settling
  <2> QED BY <2>6, <2>7, <2>8, <2>9 DEF Orderly
<1>4. \/ SettleAs("accepted") \/ SettleAs("failed") \/ SettleAs("delivery_unknown")
      \/ /\ handler' = [handler EXCEPT !.pc = "enqueueing"]
         /\ chain' = Append(chain, Enqueue(handler.sub))
  BY DEF SteerReplied, SteerUncertain, SteerRefused
<1> QED BY <1>2, <1>3, <1>4

LEMMA FollowUpOrderly ==
  ASSUME TypeOK, Orderly, FollowUpQueued
  PROVE  Orderly'
<1>1. /\ handler.pc = "enqueueing" /\ chain # <<>> /\ handler.sub \in Subs
      /\ Head(chain).op = "enqueue" /\ Head(chain).by = "handler"
      /\ UNCHANGED <<claim, taken>>
  BY HandlerSub DEF FollowUpQueued, Writing, history
<1>2. Head(chain).sub = handler.sub /\ Gone("handler", 1)
  BY <1>1, HeadWrite, OwnWrites DEF Orderly, OfHandler
<1>3. PICK w : w = Record(handler.sub, "queued", "handler")
  OBVIOUS
<1>4. w.op = "record" /\ w.sub = handler.sub /\ w.by = "handler" /\ w.to = "queued"
  BY <1>3 DEF Record
<1>5. w \in Writes
  BY <1>1, <1>3, WriteType DEF Statuses
<1>6. Apply(<<w>>)
  BY <1>3 DEF FollowUpQueued
<1>7. NextChain(1, TRUE, w)
  BY <1>1, <1>5, <1>6, ApplyChain
<1>8. UNCHANGED <<status, latest, journaled>> /\ queue' = queue \cup {handler.sub}
  BY <1>1, <1>2, <1>6 DEF Apply, StatusAfter, LatestAfter, JournalAfter, QueueAfter
<1>9. handler'.pc = "settling" /\ handler'.sub = handler.sub
  BY DEF FollowUpQueued, TypeOK, Idle
<1> QED BY <1>1, <1>2, <1>4, <1>7, <1>8, <1>9, SettlesOrderly DEF Fresh

\* The record that settles a submission, as it is applied.
LEMMA SettledRecord ==
  ASSUME TypeOK, Orderly, Settled
  PROVE  /\ chain # <<>> /\ Head(chain) = chain[1] /\ 1 \in DOMAIN chain /\ Settling(1)
         /\ Head(chain).op = "record" /\ Head(chain).by = "handler" /\ handler.pc = "settling"
         /\ Head(chain).sub = handler.sub
         /\ Head(chain).to \in {"queued", "accepted", "failed", "delivery_unknown"}
         /\ handler.sub \in Subs /\ handler.sub = latest /\ Live(latest)
         /\ status' = [status EXCEPT ![latest] = Head(chain).to]
         /\ latest' = latest /\ journaled' = journaled \cup {latest} /\ queue' = queue
<1>1. /\ handler.pc = "settling" /\ chain # <<>> /\ handler.sub \in Subs /\ Apply(<<>>)
      /\ Head(chain).op = "record" /\ Head(chain).by = "handler"
  BY HandlerSub DEF Settled, Writing
<1>2. /\ Head(chain).sub = handler.sub
      /\ Head(chain).to \in {"queued", "accepted", "failed", "delivery_unknown"}
  BY <1>1, HeadWrite DEF Orderly, OfHandler
<1>3. Head(chain) = chain[1] /\ 1 \in DOMAIN chain /\ Settling(1)
  BY <1>1, ApplyChain DEF Orderly
<1>4. Live(handler.sub)
  BY <1>1, <1>3 DEF Settling, Live
<1>5. handler.sub = latest
  BY <1>1, <1>4 DEF Orderly, Recorded
<1>6. /\ status' = [status EXCEPT ![latest] = Head(chain).to]
      /\ latest' = latest /\ journaled' = journaled \cup {latest} /\ queue' = queue
  BY <1>1, <1>2, <1>5 DEF Apply, StatusAfter, LatestAfter, JournalAfter, QueueAfter
<1> QED BY <1>1, <1>2, <1>3, <1>4, <1>5, <1>6

LEMMA SettledOrderly ==
  ASSUME TypeOK, Orderly, Settled
  PROVE  Orderly'
<1>1. handler' = Idle /\ UNCHANGED <<claim, taken>> /\ Apply(<<>>)
  BY DEF Settled, history
<1>2. PICK to : to = Head(chain).to
  OBVIOUS
<1>3. /\ chain # <<>> /\ Head(chain).by = "handler" /\ latest \in Subs
      /\ \A s \in Subs : status'[s] = IF s = latest THEN to ELSE status[s]
      /\ latest' = latest /\ journaled' = journaled \cup {latest} /\ queue' = queue
      /\ to # "none" /\ latest \in taken /\ Live(latest)
      /\ to \in {"accepted", "failed"} => latest \notin queue /\ claim.sub # latest
      /\ to \in {"accepted", "failed", "queued", "delivery_unknown"}
  BY <1>2, SettledRecord DEF TypeOK, Settling, Orderly, Recorded
<1>4. Awaited'
  <2>1. PICK w : NextChain(1, FALSE, w)
    BY <1>1, <1>3, ApplyChain
  <2> QED BY <1>1, <1>3, <2>1, OwnWrites, AwaitedStep DEF Orderly
<1>5. Recorded'
  BY <1>1, <1>3 DEF Orderly, Recorded, Live, Idle
<1>6. Handled'
  <2>1. ASSUME claim.pc = "accepting"
        PROVE  /\ status'[claim.sub] \in {"submitting", "queued", "delivery_unknown"}
               /\ claim.sub \notin queue
    <3>1. claim.sub \in Subs
      BY <2>1, HandlerSub
    <3> QED BY <1>3, <2>1, <3>1 DEF Orderly, Handled
  <2> QED BY <1>1, <1>3, <2>1 DEF Handled, Fresh, Idle
<1>7. \A i \in DOMAIN chain' : Settling(i)'
  BY <1>1 DEF Settling, Idle
<1> QED BY <1>4, <1>5, <1>6, <1>7 DEF Orderly

\* A claim comes or goes: the records and the handler stay, and the chain loses its
\* first write, or gains one by a start or by the user, or both.
LEMMA ClaimOrderly ==
  ASSUME TypeOK, Orderly, NEW k \in {0, 1}, NEW more \in BOOLEAN, NEW w, NextChain(k, more, w),
         claim' = claim \/ Gone("start", k),
         UNCHANGED <<status, latest, journaled, handler, taken, overtaken>>,
         queue' \subseteq queue,
         claim' \in {claim, Idle} \/ claim'.sub \in queue \/ (claim.pc # "idle" /\ claim'.sub = claim.sub),
         claim' = claim \/ (claim'.pc = "accepting" =>
           /\ status[claim'.sub] \in {"submitting", "queued", "delivery_unknown"}
           /\ claim'.sub \notin queue'),
         more => /\ OfStart(w)' /\ OfUser(w) /\ w.by \in {"start", "user"}
                 /\ w.by = "start" => Gone("start", k)
  PROVE  Orderly'
<1>1. Awaited'
  <2>1. more => OfHandler(w)'
    BY DEF OfHandler
  <2>2. more => (w.by # "user" => Gone(w.by, k))
    OBVIOUS
  <2> QED BY <2>1, <2>2, AwaitedStep DEF Orderly
<1>2. Recorded'
  BY RecordedStays DEF Orderly, Recorded, Idle
<1>3. claim'.sub \in {claim.sub, None} \cup queue
  BY DEF Idle
<1>4. Handled'
  <2>1. handler.pc # "idle" => handler.sub # None
    BY HandlerSub, AnswerServerAssumption
  <2>2. handler.pc \in Fresh => handler.sub \notin queue' /\ claim'.sub # handler.sub
    BY <1>3, <2>1 DEF Orderly, Handled, Fresh
  <2>3. claim'.pc = "accepting" =>
           /\ status[claim'.sub] \in {"submitting", "queued", "delivery_unknown"}
           /\ claim'.sub \notin queue'
    BY DEF Orderly, Handled
  <2> QED BY <2>2, <2>3 DEF Orderly, Handled, Live
<1>5. \A i \in DOMAIN chain' : Settling(i)'
  BY <1>3, SettlingStep
<1> QED BY <1>1, <1>2, <1>4, <1>5 DEF Orderly

LEMMA QueueOrderly ==
  ASSUME TypeOK, Orderly, NEW s \in Subs,
         ClaimFollowUp(s) \/ LaunchFails \/ dequeue(s) \/ Dequeued
  PROVE  Orderly'
<1>1. CASE ClaimFollowUp(s) \/ LaunchFails
  <2>1. PICK w : NextChain(0, FALSE, w)
    BY <1>1, SameChain DEF ClaimFollowUp, LaunchFails
  <2>2. Gone("start", 0)
    BY <1>1, OwnWrites DEF ClaimFollowUp, LaunchFails, Orderly
  <2>3. UNCHANGED <<status, latest, journaled, queue, handler, taken, overtaken>>
    BY <1>1 DEF ClaimFollowUp, LaunchFails, store, history
  <2>4. claim'.pc # "accepting" /\ (claim' = Idle \/ claim'.sub \in queue)
    BY <1>1 DEF ClaimFollowUp, LaunchFails, Idle
  <2> QED BY <2>1, <2>2, <2>3, <2>4, ClaimOrderly
<1>2. CASE dequeue(s)
  <2>1. PICK w : w = Removal(s, "user")
    OBVIOUS
  <2>2. NextChain(0, TRUE, w)
    BY <1>2, <2>1, AppendChain DEF dequeue
  <2>3. w.by = "user" /\ OfUser(w) /\ OfStart(w)'
    BY <2>1 DEF Removal, OfUser, OfStart
  <2>4. UNCHANGED <<status, latest, journaled, queue, handler, claim, taken, overtaken>>
    BY <1>2 DEF dequeue, store, history
  <2> QED BY <2>2, <2>3, <2>4, ClaimOrderly
<1>3. CASE Dequeued
  <2>1. chain # <<>> /\ Apply(<<>>) /\ Head(chain).op = "remove"
    BY <1>3 DEF Dequeued, Writing
  <2>2. PICK w : NextChain(1, FALSE, w)
    BY <2>1, ApplyChain
  <2>3. UNCHANGED <<status, latest, journaled, handler, claim, taken, overtaken>> /\ queue' \subseteq queue
    BY <1>3, <2>1 DEF Dequeued, Apply, StatusAfter, LatestAfter, JournalAfter, QueueAfter, history
  <2> QED BY <2>2, <2>3, ClaimOrderly
<1> QED BY <1>1, <1>2, <1>3

LEMMA ConsumeOrderly ==
  ASSUME TypeOK, Orderly, consumeQueuedMessage
  PROVE  Orderly'
<1>1. /\ claim.pc = "starting" /\ Gone("start", 0)
      /\ UNCHANGED <<status, latest, journaled, queue, handler, taken, overtaken>>
  BY OwnWrites DEF consumeQueuedMessage, store, Orderly
<1>2. CASE claim' = Idle /\ chain' = chain
  <2>1. PICK w : NextChain(0, FALSE, w)
    BY <1>2, SameChain
  <2>2. claim'.pc # "accepting"
    BY <1>2 DEF Idle
  <2> QED BY <1>1, <1>2, <2>1, <2>2, ClaimOrderly
<1>3. CASE /\ claim' = [claim EXCEPT !.pc = "removing"]
           /\ chain' = Append(chain, Removal(claim.sub, "start"))
  <2>1. PICK w : w = Removal(claim.sub, "start")
    OBVIOUS
  <2>2. NextChain(0, TRUE, w)
    BY <1>3, <2>1, AppendChain
  <2>3. claim'.pc = "removing" /\ claim'.sub = claim.sub
    BY <1>3 DEF TypeOK, Idle
  <2>4. w.by = "start" /\ OfUser(w) /\ OfStart(w)'
    BY <2>1, <2>3 DEF Removal, OfUser, OfStart
  <2> QED BY <1>1, <2>2, <2>3, <2>4, ClaimOrderly
<1> QED BY <1>2, <1>3 DEF consumeQueuedMessage

LEMMA ConsumedOrderly ==
  ASSUME TypeOK, Orderly, Consumed
  PROVE  Orderly'
<1>1. /\ claim.pc = "removing" /\ chain # <<>> /\ claim.sub \in Subs
      /\ Head(chain).op = "remove" /\ Head(chain).by = "start"
      /\ UNCHANGED <<handler, taken, overtaken>>
  BY HandlerSub DEF Consumed, Writing, history
<1>2. Head(chain).sub = claim.sub /\ Gone("start", 1)
  BY <1>1, HeadWrite, OwnWrites DEF Orderly, OfStart
<1>3. UNCHANGED <<status, latest, journaled>> /\ queue' = queue \ {claim.sub}
  <2>1. PICK next : Apply(next)
    BY DEF Consumed
  <2> QED BY <1>1, <1>2, <2>1 DEF Apply, StatusAfter, LatestAfter, JournalAfter, QueueAfter
<1>4. CASE claim' = Idle /\ Apply(<<>>)
  <2>1. PICK w : NextChain(1, FALSE, w)
    BY <1>1, <1>4, ApplyChain
  <2>2. claim'.pc # "accepting"
    BY <1>4 DEF Idle
  <2> QED BY <1>1, <1>2, <1>3, <1>4, <2>1, <2>2, ClaimOrderly
<1>5. CASE /\ status[claim.sub] \in {"queued", "submitting"}
           /\ claim' = [claim EXCEPT !.pc = "accepting"]
           /\ Apply(<<Record(claim.sub, "accepted", "start")>>)
  <2>1. PICK w : w = Record(claim.sub, "accepted", "start")
    OBVIOUS
  <2>2. w \in Writes
    BY <1>1, <2>1, WriteType DEF Statuses
  <2>3. NextChain(1, TRUE, w)
    BY <1>1, <1>5, <2>1, <2>2, ApplyChain
  <2>4. claim'.pc = "accepting" /\ claim'.sub = claim.sub
    BY <1>5 DEF TypeOK, Idle
  <2>5. w.by = "start" /\ OfUser(w) /\ OfStart(w)'
    BY <2>1, <2>4 DEF Record, OfUser, OfStart
  <2>6. /\ status[claim'.sub] \in {"submitting", "queued", "delivery_unknown"}
        /\ claim'.sub \notin queue' /\ queue' \subseteq queue
    BY <1>3, <1>5, <2>4
  <2> QED BY <1>1, <1>2, <1>3, <2>3, <2>4, <2>5, <2>6, ClaimOrderly
<1> QED BY <1>4, <1>5 DEF Consumed

\* The record that the follow-up was sent, as it is applied.
LEMMA AcceptedRecord ==
  ASSUME TypeOK, Orderly, Accepted
  PROVE  /\ chain # <<>> /\ claim.pc = "accepting" /\ claim.sub = latest /\ latest \in Subs
         /\ Head(chain).by = "start" /\ Head(chain).op = "record"
         /\ status[latest] \in {"submitting", "queued", "delivery_unknown"}
         /\ status' = [status EXCEPT ![latest] = "accepted"]
         /\ latest' = latest /\ journaled' = journaled \cup {latest} /\ queue' = queue
         /\ latest \notin queue /\ handler.pc \notin Fresh
<1>1. chain # <<>> /\ Head(chain).op = "record" /\ Head(chain).by = "start" /\ Apply(<<>>)
  BY DEF Accepted, Writing
<1>2. /\ claim.pc = "accepting" /\ claim.sub = latest /\ latest \in Subs /\ latest \notin queue
      /\ Head(chain).sub = latest /\ Head(chain).to = "accepted" /\ handler.pc \notin Fresh
  BY <1>1, ApplyChain, StartRecord DEF Record
<1>3. status[latest] \in {"submitting", "queued", "delivery_unknown"}
  BY <1>2 DEF Orderly, Handled
<1>4. /\ status' = [status EXCEPT ![latest] = "accepted"]
      /\ latest' = latest /\ journaled' = journaled \cup {latest} /\ queue' = queue
  BY <1>1, <1>2 DEF Apply, StatusAfter, LatestAfter, JournalAfter, QueueAfter
<1> QED BY <1>1, <1>2, <1>3, <1>4

LEMMA AcceptedOrderly ==
  ASSUME TypeOK, Orderly, Accepted
  PROVE  Orderly'
<1>1. claim' = Idle /\ UNCHANGED <<handler, taken, overtaken>> /\ Apply(<<>>)
  BY DEF Accepted, history
<1>2. /\ chain # <<>> /\ Head(chain).by = "start" /\ Head(chain).op = "record"
      /\ latest \in Subs /\ claim.sub = latest /\ latest \notin queue
      /\ \A s \in Subs : status'[s] = IF s = latest THEN "accepted" ELSE status[s]
      /\ latest' = latest /\ journaled' = journaled \cup {latest} /\ queue' = queue
      /\ latest \in taken /\ handler.pc \notin Fresh
  BY AcceptedRecord DEF TypeOK, Orderly, Recorded
<1>3. PICK w : NextChain(1, FALSE, w)
  BY <1>1, <1>2, ApplyChain
<1>4. Awaited'
  BY <1>1, <1>2, <1>3, OwnWrites, AwaitedStep DEF Orderly
<1>5. Recorded'
  BY <1>1, <1>2 DEF Orderly, Recorded, Live, Idle
<1>6. Handled'
  BY <1>1, <1>2 DEF Handled, Fresh, Idle
<1>7. ASSUME NEW i \in DOMAIN chain', handler.pc = "settling", chain'[i].by = "handler"
      PROVE  Settling(i)'
  <2>1. i \in Nat \ {0} /\ i + 1 \in DOMAIN chain /\ chain'[i] = chain[i + 1]
    BY <1>3 DEF NextChain
  <2>2. Settling(i + 1)
    BY <2>1 DEF Orderly
  <2>3. 1 \in DOMAIN chain /\ chain[1].by = "start" /\ chain[1].op = "record" /\ 1 < i + 1
    BY <1>2, <2>1, ApplyChain
  <2>4. chain'[i].to = "delivery_unknown" /\ overtaken
    BY <1>7, <2>1, <2>2, <2>3 DEF Settling
  <2>5. Live(handler.sub) /\ handler.sub \in Subs
    BY <1>7, <2>1, <2>2, HandlerSub DEF Settling, Live
  <2>6. handler.sub = latest
    BY <2>5 DEF Orderly, Recorded
  <2>7. status'[handler.sub] = "accepted"
    BY <1>2, <2>6
  <2> QED BY <1>1, <1>7, <2>4, <2>7 DEF Settling
<1>8. \A i \in DOMAIN chain' : Settling(i)'
  BY <1>1, <1>7 DEF Settling
<1> QED BY <1>4, <1>5, <1>6, <1>8 DEF Orderly

LEMMA RestartOrderly ==
  ASSUME TypeOK, Orderly, Restart
  PROVE  Orderly'
<1>1. /\ \A s \in Subs : status'[s] = IF s \in journaled THEN status[s] ELSE "none"
      /\ latest' = IF latest \in journaled THEN latest ELSE None
      /\ chain' = <<>> /\ handler' = Idle /\ claim' = Idle
      /\ UNCHANGED <<journaled, queue, taken, overtaken>>
  BY DEF Restart
<1>2. Recorded'
  <2>1. /\ \A s \in Subs : Live(s) => s = latest
        /\ \A s \in Subs : status[s] # "none" => s \in taken
        /\ queue \subseteq taken
        /\ latest # None => status[latest] # "none"
        /\ latest \in journaled \/ journaled = {}
    BY DEF Orderly, Recorded
  <2>2. journaled \subseteq Subs
    BY DEF TypeOK
  <2>3. \A s \in Subs : Live(s)' => s = latest'
    BY <1>1, <2>1 DEF Live
  <2>4. latest' # None => status'[latest'] # "none"
    BY <1>1, <2>1, <2>2
  <2> QED BY <1>1, <2>1, <2>3, <2>4 DEF Recorded, Idle
<1>3. Awaited' /\ Handled' /\ \A i \in DOMAIN chain' : Settling(i)'
  BY <1>1 DEF Awaited, Handled, Settling, Fresh, Idle
<1> QED BY <1>2, <1>3 DEF Orderly

LEMMA OrderlyInit == Init => Orderly
BY DEF Init, Orderly, Awaited, Recorded, Handled, Settling, Live, Fresh, Idle

LEMMA OrderlyStep ==
  ASSUME TypeOK, Orderly, [Next]_vars
  PROVE  Orderly'
<1>1. CASE TurnEnds \/ OtherTurnStarts \/ UNCHANGED vars
  BY <1>1 DEF TurnEnds, OtherTurnStarts, vars, store, history, Orderly, Awaited, Recorded,
              Handled, Settling, Live, OfHandler, OfStart, OfUser
<1>2. CASE Compact
  BY <1>2 DEF Compact, history, Orderly, Awaited, Recorded,
              Handled, Settling, Live, OfHandler, OfStart, OfUser
<1>3. CASE LaunchFails \/ Dequeued
  <2>1. PICK s : s \in Subs
    BY <1>3, HandlerSub, HeadWrite DEF LaunchFails, Dequeued, Writing, Writes, Orderly
  <2> QED BY <1>3, <2>1, QueueOrderly
<1> QED
  BY <1>1, <1>2, <1>3, AnswerOrderly, SubmittingOrderly, SteerArrivesOrderly, SteerOrderly,
     FollowUpOrderly, SettledOrderly, QueueOrderly, ConsumeOrderly, ConsumedOrderly,
     AcceptedOrderly, RestartOrderly DEF Next

-----------------------------------------------------------------------------
(* What was sent, as long as no restart forgot a record: nothing of a      *)
(* submission that is not live, and no failure is recorded of one that was. *)

Unsent ==
  /\ \A s \in Subs : ~Live(s) => sent[s] = 0 /\ s \notin queue /\ claim.sub # s
  /\ handler.pc \in {"steering", "enqueueing"} => sent[handler.sub] = 0
  /\ \A i \in DOMAIN chain : chain[i].to = "failed" => sent[chain[i].sub] = 0

\* A follow-up that has not been started was not sent.
Once ==
  resent \/ /\ \A s \in queue \ started : sent[s] = 0
            /\ claim.pc = "starting" => sent[claim.sub] = 0
            /\ \A s \in Subs : sent[s] <= 1

Told == forgot \/ (Unsent /\ Once)

\* The writes of a step in which nothing is sent.
LEMMA FailedUnsent ==
  ASSUME Unsent, NEW k, NEW more \in BOOLEAN, NEW w, NextChain(k, more, w), sent' = sent,
         more /\ w.to = "failed" => sent[w.sub] = 0
  PROVE  \A i \in DOMAIN chain' : chain'[i].to = "failed" => sent'[chain'[i].sub] = 0
BY DEF Unsent, NextChain

LEMMA HandlerTold ==
  ASSUME TypeOK, Orderly, Told,
         \/ \E s \in Subs : answerAsyncQuestion(s)
         \/ SubmittingRecorded \/ SteerReplied \/ SteerUncertain \/ SteerRefused
         \/ FollowUpQueued \/ Settled
  PROVE  Told'
<1>0. UNCHANGED <<sent, started, claim, forgot, resent>>
  BY DEF answerAsyncQuestion, SubmittingRecorded, SteerReplied, SteerUncertain, SteerRefused,
         FollowUpQueued, Settled, history
<1> SUFFICES ASSUME ~forgot PROVE Unsent' /\ Once'
  BY <1>0 DEF Told
<1>1. Unsent /\ Once
  BY DEF Told
<1>2. ASSUME NEW k, NEW more \in BOOLEAN, NEW w, NextChain(k, more, w),
             more /\ w.to = "failed" => sent[w.sub] = 0,
             UNCHANGED <<status, queue>>,
             handler'.pc \in {"steering", "enqueueing"} => sent[handler'.sub] = 0
      PROVE  Unsent' /\ Once'
  BY <1>0, <1>1, <1>2, FailedUnsent DEF Unsent, Once, Live
<1>3. ASSUME NEW s \in Subs, answerAsyncQuestion(s) PROVE Unsent' /\ Once'
  <2>1. UNCHANGED <<status, queue>> /\ handler'.pc \in {"settling", "recording"}
    BY <1>3 DEF answerAsyncQuestion, reconcileSubmitting, store
  <2>2. PICK w : chain' = Append(chain, w) /\ w.to # "failed"
    BY <1>3 DEF answerAsyncQuestion, reconcileSubmitting, Record
  <2> QED BY <1>2, <2>1, <2>2, AppendChain
<1>4. CASE SteerReplied \/ SteerUncertain \/ SteerRefused
  <2>1. UNCHANGED <<status, queue>> /\ handler'.pc \in {"settling", "enqueueing"}
        /\ handler'.sub = handler.sub
    BY <1>4 DEF SteerReplied, SteerUncertain, SteerRefused, SettleAs, store, TypeOK, Idle
  <2>2. CASE handler.pc = "steering"
    <3>1. sent[handler.sub] = 0
      BY <1>1, <2>2 DEF Unsent
    <3>2. PICK w : chain' = Append(chain, w) /\ w.sub = handler.sub
      BY <1>4 DEF SteerReplied, SteerUncertain, SteerRefused, SettleAs, Record, Enqueue
    <3> QED BY <1>2, <2>1, <3>1, <3>2, AppendChain
  <2>3. CASE handler.pc # "steering"
    <3>1. handler'.pc = "settling"
      BY <1>4, <2>3 DEF SteerReplied, SteerUncertain, SteerRefused, SettleAs, TypeOK, Idle
    <3>2. PICK w : chain' = Append(chain, w) /\ w.to # "failed"
      BY <1>4, <2>3 DEF SteerReplied, SteerUncertain, SteerRefused, SettleAs, Record
    <3> QED BY <1>2, <2>1, <3>1, <3>2, AppendChain
  <2> QED BY <2>2, <2>3
<1>5. CASE SubmittingRecorded
  <2>1. /\ handler.pc = "recording" /\ chain # <<>> /\ handler.sub \in Subs
        /\ Head(chain).op = "record" /\ Head(chain).by = "handler"
    BY <1>5, HandlerSub DEF SubmittingRecorded, Writing
  <2>2. Head(chain).sub = handler.sub /\ Head(chain).to = "submitting"
    BY <2>1, HeadWrite DEF Orderly, OfHandler
  <2>3. PICK next : Apply(next) /\ (next = <<>> \/ next = <<Enqueue(handler.sub)>>)
    BY <1>5 DEF SubmittingRecorded
  <2>4. status' = [status EXCEPT ![handler.sub] = "submitting"] /\ queue' = queue
    BY <2>1, <2>2, <2>3 DEF Apply, StatusAfter, QueueAfter
  <2>5. \A s \in Subs : Live(s) => Live(s)'
    BY <2>4 DEF TypeOK, Live
  <2>6. sent[handler.sub] = 0 /\ handler'.sub = handler.sub
    BY <1>1, <1>5, <2>1 DEF Unsent, Orderly, Handled, Live, SubmittingRecorded, TypeOK, Idle
  <2>7. \A i \in DOMAIN chain' : chain'[i].to = "failed" => sent'[chain'[i].sub] = 0
    <3>1. PICK w \in Writes : w = Enqueue(handler.sub)
      BY <2>1, WriteType
    <3>2. w.to # "failed"
      BY <3>1 DEF Enqueue
    <3>3. NextChain(1, FALSE, w) \/ NextChain(1, TRUE, w)
      BY <2>1, <2>3, <3>1, ApplyChain
    <3> QED BY <1>0, <1>1, <3>2, <3>3, FailedUnsent
  <2> QED BY <1>0, <1>1, <2>4, <2>5, <2>6, <2>7 DEF Unsent, Once
<1>6. CASE FollowUpQueued
  <2>1. /\ handler.pc = "enqueueing" /\ chain # <<>> /\ handler.sub \in Subs
        /\ Head(chain).op = "enqueue" /\ Head(chain).by = "handler"
    BY <1>6, HandlerSub DEF FollowUpQueued, Writing
  <2>2. PICK w \in Writes : w = Record(handler.sub, "queued", "handler")
    BY <2>1, WriteType DEF Statuses
  <2>3. Apply(<<w>>) /\ w.to # "failed"
    BY <1>6, <2>2 DEF FollowUpQueued, Record
  <2>4. status' = status /\ queue' = queue \cup {handler.sub}
    <3>1. Head(chain).sub = handler.sub
      BY <2>1, HeadWrite DEF Orderly, OfHandler
    <3> QED BY <2>1, <2>3, <3>1 DEF Apply, StatusAfter, QueueAfter
  <2>5. handler'.pc = "settling"
    BY <1>6 DEF FollowUpQueued, TypeOK, Idle
  <2>6. Live(handler.sub) /\ sent[handler.sub] = 0
    BY <1>1, <2>1 DEF Unsent, Orderly, Handled, Live, Fresh
  <2>7. \A i \in DOMAIN chain' : chain'[i].to = "failed" => sent'[chain'[i].sub] = 0
    BY <1>0, <1>1, <2>1, <2>3, ApplyChain, FailedUnsent
  <2> QED BY <1>0, <1>1, <2>4, <2>5, <2>6, <2>7 DEF Unsent, Once, Live
<1>7. CASE Settled
  <2>1. handler' = Idle /\ Apply(<<>>)
    BY <1>7 DEF Settled
  <2>2. PICK w : w = Head(chain)
    OBVIOUS
  <2>3. /\ chain # <<>> /\ latest \in Subs /\ queue' = queue
        /\ \A s \in Subs : status'[s] = IF s = latest THEN w.to ELSE status[s]
        /\ w.to \in {"queued", "accepted", "failed", "delivery_unknown"}
        /\ w.to = "failed" => latest \notin queue /\ claim.sub # latest /\ sent[latest] = 0
    BY <1>1, <1>7, <2>2, SettledRecord DEF TypeOK, Settling, Unsent
  <2>4. \A i \in DOMAIN chain' : chain'[i].to = "failed" => sent'[chain'[i].sub] = 0
    BY <1>0, <1>1, <2>1, <2>3, ApplyChain, FailedUnsent
  <2> QED BY <1>0, <1>1, <2>1, <2>3, <2>4 DEF Unsent, Once, Live, Idle
<1> QED BY <1>3, <1>4, <1>5, <1>6, <1>7

\* The provider is given the answer.
LEMMA SendsTold ==
  ASSUME TypeOK, Orderly, Told, SteerArrives \/ consumeQueuedMessage
  PROVE  Told'
<1>0. UNCHANGED <<status, queue, forgot, resent>>
  BY DEF SteerArrives, consumeQueuedMessage, store
<1> SUFFICES ASSUME ~forgot PROVE Unsent' /\ Once'
  BY <1>0 DEF Told
<1>1. Unsent /\ Once
  BY DEF Told
<1>2. ASSUME NEW i \in DOMAIN chain, chain[i].to = "failed"
      PROVE  handler.pc = "settling" /\ chain[i].sub = handler.sub /\ claim.sub # handler.sub
  <2>1. OfHandler(chain[i]) /\ OfStart(chain[i]) /\ OfUser(chain[i]) /\ chain[i] \in Writes
    BY DEF Orderly, Awaited, TypeOK
  <2>2. chain[i].by = "handler"
    BY <1>2, <2>1 DEF OfStart, OfUser, Writes
  <2>3. handler.pc = "settling" /\ chain[i].sub = handler.sub
    BY <1>2, <2>1, <2>2 DEF OfHandler
  <2> QED BY <1>2, <2>2, <2>3 DEF Orderly, Settling
<1>3. CASE SteerArrives
  <2>1. /\ handler.pc = "steering" /\ handler.sub \in Subs /\ UNCHANGED <<chain, claim, started>>
        /\ handler'.pc = "steered"
        /\ \A s \in Subs : sent'[s] = IF s = handler.sub THEN sent[s] + 1 ELSE sent[s]
    BY <1>3, HandlerSub DEF SteerArrives, TypeOK, Idle
  <2>2. Live(handler.sub) /\ handler.sub \notin queue /\ claim.sub # handler.sub /\ sent[handler.sub] = 0
    BY <1>1, <2>1 DEF Orderly, Handled, Fresh, Live, Unsent
  <2>3. \A i \in DOMAIN chain : chain[i].to # "failed"
    BY <1>2, <2>1
  <2>4. Unsent'
    BY <1>0, <1>1, <2>1, <2>2, <2>3 DEF Unsent, Live
  <2>5. Once'
    <3>1. \A s \in queue : s \in Subs
      BY DEF TypeOK
    <3>2. claim.pc # "idle" => claim.sub \in Subs
      BY HandlerSub
    <3> QED BY <1>0, <1>1, <2>1, <2>2, <3>1, <3>2 DEF Once
  <2> QED BY <2>4, <2>5
<1>4. CASE consumeQueuedMessage
  <2>1. /\ claim.pc = "starting" /\ claim.sub \in Subs /\ UNCHANGED handler
        /\ claim'.pc # "starting" /\ claim'.sub \in {claim.sub, None}
        /\ started' = started \cup {claim.sub}
        /\ \A s \in Subs : sent'[s] = IF s = claim.sub THEN sent[s] + 1 ELSE sent[s]
        /\ chain' = chain \/ chain' = Append(chain, Removal(claim.sub, "start"))
    BY <1>4, HandlerSub DEF consumeQueuedMessage, TypeOK, Idle
  <2>2. Live(claim.sub) /\ handler.pc \in Fresh => claim.sub # handler.sub
    BY DEF Orderly, Handled
  <2>3. Live(claim.sub)
    BY <1>1, <2>1 DEF Unsent
  <2>4. PICK w : w = Removal(claim.sub, "start")
    OBVIOUS
  <2>5. NextChain(0, FALSE, w) \/ NextChain(0, TRUE, w)
    BY <2>1, <2>4, SameChain, AppendChain
  <2>6. w.to # "failed"
    BY <2>4 DEF Removal
  <2>7. ASSUME NEW i \in DOMAIN chain', chain'[i].to = "failed" PROVE sent'[chain'[i].sub] = 0
    <3>1. i + 0 \in DOMAIN chain /\ chain'[i] = chain[i + 0]
      BY <2>5, <2>6, <2>7 DEF NextChain
    <3>2. chain'[i].sub # claim.sub /\ sent[chain'[i].sub] = 0
      BY <1>1, <1>2, <2>7, <3>1 DEF Unsent
    <3>3. chain'[i].sub \in Subs
      BY <3>1, ChainSub
    <3> QED BY <2>1, <3>2, <3>3
  <2>8. Unsent'
    <3>1. handler.pc # "idle" => handler.sub \in Subs
      BY HandlerSub
    <3> QED BY <1>0, <1>1, <2>1, <2>2, <2>3, <2>7, <3>1, AnswerServerAssumption
            DEF Unsent, Live, Fresh
  <2>9. Once'
    <3>1. \A s \in queue : s \in Subs
      BY DEF TypeOK
    <3> QED BY <1>0, <1>1, <2>1, <3>1 DEF Once
  <2> QED BY <2>8, <2>9
<1> QED BY <1>3, <1>4

\* Claims come and go, and the queue shrinks.
LEMMA QueueTold ==
  ASSUME TypeOK, Orderly, Told,
         \/ \E s \in Subs : ClaimFollowUp(s) \/ dequeue(s)
         \/ LaunchFails \/ Consumed \/ Accepted \/ Dequeued
         \/ TurnEnds \/ OtherTurnStarts \/ Compact \/ UNCHANGED vars
  PROVE  Told'
<1>0. UNCHANGED <<sent, started, handler, forgot, resent>>
  BY DEF ClaimFollowUp, dequeue, LaunchFails, Consumed, Accepted, Dequeued, TurnEnds,
         OtherTurnStarts, Compact, store, history, vars
<1> SUFFICES ASSUME ~forgot PROVE Unsent' /\ Once'
  BY <1>0 DEF Told
<1>1. Unsent /\ Once
  BY DEF Told
<1>2. ASSUME NEW k, NEW more \in BOOLEAN, NEW w, NextChain(k, more, w),
             more => w.to # "failed", queue' \subseteq queue,
             \A s \in Subs : Live(s) => Live(s)',
             \/ claim' \in {claim, Idle}
             \/ claim'.pc # "starting" /\ claim'.sub = claim.sub
             \/ claim'.sub \in queue \ started
      PROVE  Unsent' /\ Once'
  <2>1. \A i \in DOMAIN chain' : chain'[i].to = "failed" => sent'[chain'[i].sub] = 0
    BY <1>0, <1>1, <1>2, FailedUnsent
  <2>2. Unsent'
    BY <1>0, <1>1, <1>2, <2>1, AnswerServerAssumption DEF Unsent, Idle
  <2>3. Once'
    BY <1>0, <1>1, <1>2 DEF Once, Idle
  <2> QED BY <2>2, <2>3
<1>3. ASSUME NEW s \in Subs, ClaimFollowUp(s) PROVE Unsent' /\ Once'
  <2>1. UNCHANGED <<status, queue, chain>> /\ claim'.sub \in queue \ started
    BY <1>3 DEF ClaimFollowUp, store
  <2> QED BY <1>2, <2>1, SameChain DEF Live
<1>4. ASSUME NEW s \in Subs, dequeue(s) PROVE Unsent' /\ Once'
  <2>1. UNCHANGED <<status, queue, claim>>
    BY <1>4 DEF dequeue, store
  <2>2. PICK w : chain' = Append(chain, w) /\ w.to # "failed"
    BY <1>4 DEF dequeue, Removal
  <2> QED BY <1>2, <2>1, <2>2, AppendChain DEF Live
<1>5. CASE LaunchFails \/ TurnEnds \/ OtherTurnStarts \/ Compact \/ UNCHANGED vars
  <2>1. UNCHANGED <<status, queue, chain>> /\ claim' \in {claim, Idle}
    BY <1>5 DEF LaunchFails, TurnEnds, OtherTurnStarts, Compact, store, vars
  <2> QED BY <1>2, <2>1, SameChain DEF Live
<1>6. CASE Dequeued
  <2>1. chain # <<>> /\ Apply(<<>>) /\ Head(chain).op = "remove" /\ claim' = claim
    BY <1>6 DEF Dequeued, Writing
  <2>2. status' = status /\ queue' \subseteq queue
    BY <2>1 DEF Apply, StatusAfter, QueueAfter
  <2> QED BY <1>2, <2>1, <2>2, ApplyChain DEF Live
<1>7. CASE Accepted
  <2>1. Apply(<<>>) /\ claim' = Idle
    BY <1>7 DEF Accepted
  <2>2. chain # <<>> /\ queue' = queue /\ \A s \in Subs : Live(s) => Live(s)'
    BY <1>7, AcceptedRecord DEF TypeOK, Live
  <2> QED BY <1>2, <2>1, <2>2, ApplyChain
<1>8. CASE Consumed
  <2>1. /\ chain # <<>> /\ Head(chain).op = "remove" /\ claim.sub \in Subs
        /\ \/ claim' = Idle /\ Apply(<<>>)
           \/ /\ claim'.pc = "accepting" /\ claim'.sub = claim.sub
              /\ Apply(<<Record(claim.sub, "accepted", "start")>>)
    BY <1>8, HandlerSub DEF Consumed, Writing, TypeOK, Idle
  <2>2. status' = status /\ queue' \subseteq queue
    BY <2>1 DEF Apply, StatusAfter, QueueAfter
  <2>3. PICK w \in Writes : w = Record(claim.sub, "accepted", "start")
    BY <2>1, WriteType DEF Statuses
  <2>4. w.to # "failed"
    BY <2>3 DEF Record
  <2>5. NextChain(1, FALSE, w) \/ NextChain(1, TRUE, w)
    BY <2>1, <2>3, ApplyChain
  <2>6. claim' = Idle \/ (claim'.pc # "starting" /\ claim'.sub = claim.sub)
    BY <2>1
  <2> QED BY <1>2, <2>2, <2>4, <2>5, <2>6 DEF Live
<1> QED BY <1>3, <1>4, <1>5, <1>6, <1>7, <1>8

\* A restart that forgets no record finds every status as it was.
LEMMA RestartTold ==
  ASSUME TypeOK, Told, Restart
  PROVE  Told'
<1> SUFFICES ASSUME ~forgot' PROVE Unsent' /\ Once'
  BY DEF Told
<1>1. ~forgot /\ \A s \in Subs : s \notin journaled => status[s] = "none"
  BY DEF Restart
<1>2. /\ \A s \in Subs : status'[s] = status[s]
      /\ chain' = <<>> /\ handler' = Idle /\ claim' = Idle /\ started' = {}
      /\ UNCHANGED <<queue, sent>>
      /\ ~resent' => ~resent /\ queue \cap started = {}
  BY <1>1 DEF Restart
<1>3. Unsent /\ Once
  BY <1>1 DEF Told
<1> QED BY <1>2, <1>3, AnswerServerAssumption DEF Unsent, Once, Live, Idle

LEMMA ToldInit == Init => Told
BY AnswerServerAssumption DEF Init, Told, Unsent, Once, Live, Idle

LEMMA ToldStep ==
  ASSUME TypeOK, Orderly, Told, [Next]_vars
  PROVE  Told'
BY HandlerTold, SendsTold, QueueTold, RestartTold DEF Next

\* The question is answered once, and a failure that is reported leaves nothing
\* under way, however requests, starts of follow-ups, removals and restarts
\* interleave: until a restart finds the journal truncated (`forgot`,
\* event-store.ts:1874) or meets a follow-up that was sent and not removed
\* (`resent`, agent.ts:1278).
THEOREM QuestionAnsweredOnce == Spec => []OneAnswer
<1>1. Init => TypeOK /\ Orderly /\ Told
  BY TypeCorrectInit, OrderlyInit, ToldInit
<1>2. TypeOK /\ Orderly /\ Told /\ [Next]_vars => TypeOK' /\ Orderly' /\ Told'
  BY TypeCorrectStep, OrderlyStep, ToldStep
<1>3. TypeOK /\ Orderly /\ Told => OneAnswer
  <2> SUFFICES ASSUME TypeOK, Orderly, Told PROVE OneAnswer
    OBVIOUS
  <2>1. \A s \in Subs : Live(s) => s = latest
    BY DEF Orderly, Recorded
  <2>2. FailedIsSafe
    BY DEF Told, Unsent, Live, FailedIsSafe
  <2>3. AnsweredOnce
    <3> SUFFICES ASSUME ~forgot, ~resent, NEW s \in Subs, NEW z \in Subs
                 PROVE  sent[s] <= 1 /\ (sent[s] > 0 /\ sent[z] > 0 => s = z)
      BY DEF AnsweredOnce
    <3>1. sent[s] <= 1
      BY DEF Told, Once
    <3>2. sent[s] > 0 => Live(s)
      BY DEF Told, Unsent
    <3>3. sent[z] > 0 => Live(z)
      BY DEF Told, Unsent
    <3> QED BY <2>1, <3>1, <3>2, <3>3
  <2> QED BY <2>2, <2>3 DEF OneAnswer
<1> QED BY <1>1, <1>2, <1>3, PTL DEF Spec

-----------------------------------------------------------------------------
(* The journal implements AnswerRecord. *)

LEMMA RecordStep ==
  ASSUME TypeOK, Orderly, [Next]_vars
  PROVE  /\ [AnswerRecords!Next]_<<status, latest>>
         /\ \A s \in Subs : status[s] = "accepted" => status'[s] \in {"accepted", "none"} \/ overtaken
<1>1. CASE UNCHANGED <<status, latest>>
  BY <1>1
<1>2. CASE SubmittingRecorded
  <2>1. /\ handler.pc = "recording" /\ chain # <<>> /\ handler.sub \in Subs
        /\ Head(chain).op = "record" /\ Head(chain).by = "handler"
    BY <1>2, HandlerSub DEF SubmittingRecorded, Writing
  <2>2. Head(chain).sub = handler.sub /\ Head(chain).to = "submitting"
    BY <2>1, HeadWrite DEF Orderly, OfHandler
  <2>3. PICK next : Apply(next)
    BY <1>2 DEF SubmittingRecorded
  <2>4. status' = [status EXCEPT ![handler.sub] = "submitting"] /\ latest' = handler.sub
    BY <2>1, <2>2, <2>3 DEF Apply, StatusAfter, LatestAfter
  <2>5. status[handler.sub] = "none" /\ (latest # None => status[latest] = "failed")
    BY <2>1 DEF Orderly, Handled, Recorded, Live, TypeOK
  <2>6. AnswerRecords!Submit(handler.sub)
    BY <2>4, <2>5 DEF AnswerRecords!Submit, AnswerRecords!Set
  <2>7. \A s \in Subs : status[s] = "accepted" => status'[s] = "accepted"
    BY <2>4, <2>5 DEF TypeOK
  <2> QED BY <2>1, <2>6, <2>7 DEF AnswerRecords!Next
<1>3. CASE Settled
  <2>1. PICK to : to = Head(chain).to
    OBVIOUS
  <2>2. /\ latest \in Subs /\ status' = [status EXCEPT ![latest] = to] /\ latest' = latest
        /\ to \in {"queued", "accepted", "failed", "delivery_unknown"}
        /\ \/ status[latest] = "submitting"
           \/ status[latest] = "accepted" /\ to = "delivery_unknown" /\ overtaken
    BY <1>3, <2>1, SettledRecord DEF Settling
  <2>3. CASE status[latest] = "submitting"
    <3>1. to \in AnswerRecords!Statuses
      BY <2>2 DEF AnswerRecords!Statuses
    <3>2. AnswerRecords!Settle(latest, to)
      BY <2>2, <2>3 DEF AnswerRecords!Settle, AnswerRecords!Set
    <3>3. \A s \in Subs : status[s] = "accepted" => status'[s] = "accepted"
      BY <2>2, <2>3 DEF TypeOK
    <3> QED BY <2>2, <3>1, <3>2, <3>3 DEF AnswerRecords!Next
  <2>4. CASE status[latest] = "accepted" /\ to = "delivery_unknown" /\ overtaken
    <3>1. AnswerRecords!Doubt(latest)
      BY <2>2, <2>4 DEF AnswerRecords!Doubt, AnswerRecords!Set
    <3> QED BY <2>2, <2>4, <3>1 DEF AnswerRecords!Next
  <2> QED BY <2>2, <2>3, <2>4
<1>4. CASE Accepted
  <2>1. /\ latest \in Subs /\ status' = [status EXCEPT ![latest] = "accepted"] /\ latest' = latest
        /\ status[latest] \in {"submitting", "queued", "delivery_unknown"}
    BY <1>4, AcceptedRecord
  <2>2. AnswerRecords!Settle(latest, "accepted")
    BY <2>1 DEF AnswerRecords!Settle, AnswerRecords!Set
  <2>3. "accepted" \in AnswerRecords!Statuses
    BY DEF AnswerRecords!Statuses
  <2>4. \A s \in Subs : status[s] = "accepted" => status'[s] = "accepted"
    BY <2>1 DEF TypeOK
  <2> QED BY <2>1, <2>2, <2>3, <2>4 DEF AnswerRecords!Next
<1>5. CASE Restart
  <2>1. latest \in journaled \/ journaled = {}
    BY DEF Orderly, Recorded
  <2>2. journaled \in SUBSET Subs
    BY DEF TypeOK
  <2>3. AnswerRecords!Forget(journaled)
    BY <1>5, <2>1 DEF Restart, AnswerRecords!Forget
  <2>4. \A s \in Subs : status[s] = "accepted" => status'[s] \in {"accepted", "none"}
    BY <1>5 DEF Restart
  <2> QED BY <2>2, <2>3, <2>4 DEF AnswerRecords!Next
<1>6. CASE FollowUpQueued \/ Consumed \/ Dequeued
  <2>1. PICK next : Apply(next)
    BY <1>6 DEF FollowUpQueued, Consumed, Dequeued
  <2>2. Head(chain).op # "record"
    BY <1>6 DEF FollowUpQueued, Consumed, Dequeued, Writing
  <2> QED BY <1>1, <2>1, <2>2 DEF Apply, StatusAfter, LatestAfter
<1>7. CASE \/ \E s \in Subs : answerAsyncQuestion(s) \/ ClaimFollowUp(s) \/ dequeue(s)
           \/ SteerArrives \/ SteerReplied \/ SteerUncertain \/ SteerRefused
           \/ LaunchFails \/ consumeQueuedMessage \/ TurnEnds \/ OtherTurnStarts \/ Compact
           \/ UNCHANGED vars
  <2>1. UNCHANGED <<status, latest>>
    BY <1>7 DEF answerAsyncQuestion, ClaimFollowUp, dequeue, SteerArrives, SteerReplied,
       SteerUncertain, SteerRefused, LaunchFails, consumeQueuedMessage, TurnEnds,
       OtherTurnStarts, Compact, vars, store
  <2> QED BY <1>1, <2>1
<1> QED BY <1>2, <1>3, <1>4, <1>5, <1>6, <1>7 DEF Next

\* What clients are told of an answer follows AnswerRecord through every
\* interleaving, compaction and restart, and an accepted answer is doubted only
\* where a reconciliation overtook its record.
THEOREM ImplementsRecord == Spec => ImplementsAnswerRecord
<1>1. Init => TypeOK /\ Orderly
  BY TypeCorrectInit, OrderlyInit
<1>2. TypeOK /\ Orderly /\ [Next]_vars => TypeOK' /\ Orderly'
  BY TypeCorrectStep, OrderlyStep
<1>3. Init => AnswerRecords!Init
  BY DEF Init, AnswerRecords!Init
<1>4. TypeOK /\ Orderly /\ [Next]_vars => [AnswerRecords!Next]_<<status, latest>>
  BY RecordStep
<1>5. TypeOK /\ Orderly /\ [Next]_vars =>
        [\A s \in Subs : status[s] = "accepted" => status'[s] \in {"accepted", "none"} \/ overtaken]_vars
  BY RecordStep
<1>6. Spec => AnswerRecords!Spec
  BY <1>1, <1>2, <1>3, <1>4, PTL DEF Spec, AnswerRecords!Spec
<1>7. Spec => AcceptedStays
  BY <1>1, <1>2, <1>5, PTL DEF Spec, AcceptedStays
<1> QED BY <1>6, <1>7 DEF ImplementsAnswerRecord

=============================================================================
