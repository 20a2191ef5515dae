--------------------------- MODULE AnswerDelivery ---------------------------
(***************************************************************************)
(* The browser's side of answering ONE asynchronous question: the card of  *)
(* one client (AsyncQuestionDelivery), the socket that carries its         *)
(* commands (StillOnSocket), and a server that keeps the question's record *)
(* as AnswerRecord says.  Other clients answer the same question: all that *)
(* this one can see of them is the record they leave.                      *)
(*                                                                         *)
(* The server's messages arrive in order, and those nobody waits for any   *)
(* more are left out.  What the client sends counts as known to the server *)
(* at once: when a connection breaks, a request that has left no trace may *)
(* turn out never to have arrived.                                         *)
(***************************************************************************)
EXTENDS Naturals, Sequences, SequencesExt

CONSTANTS
  Subs, None,
  MaxFaults    \* bound: lost connections, reloads and server restarts

AnswerDeliveryAssumption == None \notin Subs /\ MaxFaults \in Nat

VARIABLES
  status, latest,  \* the server's record
  requests,        \* the client's submissions that the server works on
  dirty,           \* is the client owed a snapshot?
  toClient,        \* messages of the server under way
  client,          \* the state of the client
  used, sent,      \* history: submissionIds generated by any client, sent by this one
  facts,           \* history: what settled records of submissions ever said
  faults           \* history: number of faults

record == <<status, latest, facts>>
net    == <<requests, dirty, toClient>>
vars   == <<record, net, client, used, sent, faults>>

Answers == INSTANCE AnswerRecord

Statuses   == Answers!Statuses
Settled    == {"queued", "accepted", "failed"}
Unresolved == {"submitting", "delivery_unknown"}

NoCard == [sub |-> None, to |-> "none", checking |-> FALSE, overdue |-> FALSE]

\* A fresh client, of the Connect browser (remote: it keeps neither an outbound queue
\* nor a storage) or of the machine itself: its card, its timer (the submission it was
\* set for), the pending waiters of a command and of a query, the unsent command, and
\* the record of a snapshot that was received and not rendered.
NewClient(remote) ==
  [remote |-> remote, up |-> FALSE, card |-> NoCard, timer |-> None, waiter |-> None,
   asking |-> FALSE, outbox |-> None, shown |-> NoCard]

Init ==
  /\ Answers!Init /\ facts = {}
  /\ requests = {} /\ dirty = FALSE /\ toClient = <<>>
  /\ client \in {NewClient(remote) : remote \in BOOLEAN}
  /\ used = {} /\ sent = {} /\ faults = 0

-----------------------------------------------------------------------------
(* AsyncQuestionDelivery.  Each operator gives the client's next state. *)

\* A settled card aborts its command, in the socket's outbound queue too.
put(k, card) ==
  LET settled == card.to \in Settled
  IN [k EXCEPT !.card   = card,
               !.waiter = IF settled THEN None ELSE @,
               !.outbox = IF settled THEN None ELSE @,
               !.timer  = IF card.to # "submitting" THEN None
                          ELSE IF @ = None /\ ~card.overdue THEN card.sub ELSE @]

\* Mutant: only the submission matters, its progress does not.
OutdatedBySubmission(card, r) == card # NoCard /\ card.sub # r.sub /\ r.to = "failed"

\* Mutant: what other clients answer is ignored.
OutdatedIfForeign(card, r) ==
  \/ card.to = "accepted" /\ r.to # "accepted"
  \/ card # NoCard /\ card.sub # r.sub

\* A delayed answer or snapshot must not undo durable progress.
Outdated(card, r) ==
  \/ card.to = "failed" /\ card.sub = r.sub /\ r.to = "submitting"
  \/ card.to = "accepted" /\ r.to # "accepted"
  \/ card.to = "queued" /\ r.to \in Unresolved
  \/ card # NoCard /\ card.sub # r.sub /\ r.to = "failed"

observe(k, r) ==
  IF Outdated(k.card, r) THEN k
  ELSE put(k, [k.card EXCEPT !.sub = r.sub, !.to = r.to,
                             !.checking = @ /\ r.to \in Unresolved])

CanCheck(k) ==
  /\ k.card # NoCard /\ ~k.card.checking /\ k.card.to \notin {"accepted", "failed"}
  /\ k.up

\* check() up to its query.
check(k) == [put(k, [k.card EXCEPT !.checking = TRUE]) EXCEPT !.asking = TRUE]

\* check() from its query's end on: the record, none, or a lost query.
Checked(k, found, r) ==
  LET seen == IF found /\ r # NoCard THEN observe(k, r)
              ELSE IF found /\ k.card.to \notin {"accepted", "queued"}
              THEN put(k, [k.card EXCEPT !.to = "delivery_unknown"])
              ELSE k
  IN [put(seen, [seen.card EXCEPT !.checking = FALSE]) EXCEPT !.asking = FALSE]

\* What a closed connection rejects: the command's waiter, which leaves the card as
\* it is since the socket is down, and the query.
Disconnected(k) ==
  [(IF k.asking THEN Checked(k, FALSE, NoCard) ELSE k)
     EXCEPT !.up = FALSE, !.waiter = None, !.outbox = IF k.remote THEN None ELSE @]

-----------------------------------------------------------------------------
Send(subs) == requests' = requests \cup subs /\ sent' = sent \cup subs

\* The user answers, on a card that shows no answer or a failed one.  A command
\* of a remote client that is not connected is rejected at once.
submit(s) ==
  LET opened == put(client, [NoCard EXCEPT !.sub = s, !.to = "submitting"])
      keeps == IF client.up \/ ~client.remote THEN s ELSE None
  IN /\ client.card.to \in {"none", "failed"} /\ client.shown = NoCard
     /\ s \notin used /\ used' = used \cup {s}
     /\ client' = [opened EXCEPT !.waiter = keeps,
                                 !.outbox = IF client.up THEN @ ELSE keeps]
     /\ Send(IF client.up THEN {s} ELSE {})
     /\ UNCHANGED <<record, dirty, toClient, faults>>

\* Ten seconds after the click (a query ends within them); a timer of another
\* submission does nothing.
Overdue ==
  LET k == [client EXCEPT !.timer = None]
      late == put(k, [k.card EXCEPT !.overdue = TRUE])
  IN /\ client.timer # None /\ ~k.asking
     /\ client' = IF k.card.sub # client.timer THEN k
                  ELSE IF CanCheck(late) THEN check(late) ELSE late
     /\ UNCHANGED <<record, net, used, sent, faults>>

\* The user asks for the delivery status.  (Bound: one query at a time.)
CheckAgain ==
  /\ \/ client.card.to = "delivery_unknown"
     \/ client.card.to = "submitting" /\ client.card.overdue
  /\ CanCheck(client) /\ ~client.asking
  /\ client' = check(client)
  /\ UNCHANGED <<record, net, used, sent, faults>>

\* The query is aborted; at most one answer to it is on its way.
QueryTimeout ==
  /\ client.asking
  /\ client' = Checked(client, FALSE, NoCard)
  /\ \/ /\ \A i \in DOMAIN toClient : toClient[i].kind # "state"
        /\ UNCHANGED toClient
     \/ \E i \in DOMAIN toClient : toClient[i].kind = "state" /\ toClient' = RemoveAt(toClient, i)
  /\ UNCHANGED <<record, requests, dirty, used, sent, faults>>

\* The effect of the card that hands the server's snapshot to the store.
Render ==
  /\ client.shown # NoCard
  /\ client' = [observe(client, client.shown) EXCEPT !.shown = NoCard]
  /\ UNCHANGED <<record, net, used, sent, faults>>

\* Mutant: an error is taken for a failed answer.
RepliedFailed(m) ==
  LET k == [client EXCEPT !.waiter = None]
  IN IF client.waiter # m.req THEN client
     ELSE IF m.kind = "ack" THEN observe(k, m.record)
     ELSE IF k.card.sub = m.req /\ k.card.to = "submitting"
     THEN put(k, [k.card EXCEPT !.to = "failed"])
     ELSE k

\* The reply to a command: the record of its submission or of the one that was
\* answered before it, or an error.  An aborted command has no waiter.
Replied(m) ==
  LET k == [client EXCEPT !.waiter = None]
  IN IF client.waiter # m.req THEN client
     ELSE IF m.kind = "ack" THEN observe(k, m.record)
     ELSE IF k.card.sub = m.req /\ k.card.to = "submitting"
     THEN put(k, [k.card EXCEPT !.to = "delivery_unknown"])
     ELSE k

\* A message of the server.
Receive ==
  LET m == Head(toClient)
  IN /\ toClient # <<>>
     /\ toClient' = Tail(toClient)
     /\ \/ m.kind = "snapshot" /\ client' = [client EXCEPT !.shown = m.record]
        \/ m.kind \in {"ack", "error"} /\ client' = Replied(m)
        \/ m.kind = "state" /\ client' = Checked(client, TRUE, m.record)
     /\ UNCHANGED <<record, requests, dirty, used, sent, faults>>

-----------------------------------------------------------------------------
(* The connection. *)

\* The store hears of the connection and asks for an unresolved answer; the socket
\* sends the answer that waits in its outbound queue.
Connect ==
  LET k == [client EXCEPT !.up = TRUE, !.outbox = None]
  IN /\ ~client.up
     /\ client' = IF CanCheck(k) THEN check(k) ELSE k
     /\ Send({client.outbox} \ {None})
     /\ dirty' = TRUE
     /\ UNCHANGED <<record, toClient, used, faults>>

\* An attempt to connect fails, which rejects a waiter as a lost connection does.
ConnectFails ==
  /\ ~client.up /\ client.waiter # None
  /\ client' = Disconnected(client)
  /\ UNCHANGED <<record, net, used, sent, faults>>

Fault == faults < MaxFaults /\ faults' = faults + 1

\* The connection breaks.  The server goes on with the requests, but for those in
\* "lost", and can reply to none.
Break(lost) ==
  /\ \A s \in lost : status[s] = "none"
  /\ requests' = requests \ lost
  /\ toClient' = <<>> /\ dirty' = FALSE

Lose ==
  /\ client.up /\ Fault
  /\ \E lost \in SUBSET requests : Break(lost)
  /\ client' = Disconnected(client)
  /\ UNCHANGED <<record, used, sent>>

\* The tab is reloaded: the session storage keeps its card, an unresolved one as
\* unknown; a remote client keeps nothing.
Reload ==
  LET card == [client.card EXCEPT !.checking = FALSE,
                                  !.to = IF @ = "submitting" THEN "delivery_unknown" ELSE @]
  IN /\ Fault
     /\ \E lost \in SUBSET requests : Break(lost)
     /\ client' = [NewClient(client.remote) EXCEPT
                     !.card = IF client.remote THEN NoCard ELSE card]
     /\ UNCHANGED <<record, used, sent>>

-----------------------------------------------------------------------------
(* The server. *)

RecordOf(s) == IF s = None THEN NoCard ELSE [NoCard EXCEPT !.sub = s, !.to = status[s]]

Deliver(kind, req, r) ==
  toClient' = Append(toClient, [kind |-> kind, req |-> req, record |-> r])

AnswerQuery ==
  /\ client.asking /\ \A i \in DOMAIN toClient : toClient[i].kind # "state"
  /\ Deliver("state", None, RecordOf(latest))
  /\ UNCHANGED <<record, requests, dirty, client, used, sent, faults>>

\* The record changes, and a connected client is owed a snapshot.
Recorded ==
  /\ facts' = facts \cup {<<s, status'[s]>> : s \in {z \in Subs : status'[z] \in Settled}}
  /\ dirty' = client.up
  /\ UNCHANGED <<requests, toClient, client, sent, faults>>

RecordAnswer(s) == s \in requests /\ Answers!Submit(s) /\ Recorded /\ UNCHANGED used

\* The answer of another client is recorded.
OtherClientAnswers(s) ==
  /\ s \notin used /\ used' = used \cup {s}
  /\ Answers!Submit(s) /\ Recorded

RecordDelivery(s, to) ==
  /\ \/ Answers!Settle(s, to)
     \/ to = "delivery_unknown" /\ Answers!Doubt(s)
  /\ Recorded /\ UNCHANGED used

Finish(s, kind, reply) ==
  /\ s \in requests /\ requests' = requests \ {s}
  /\ IF client.waiter = s THEN Deliver(kind, s, reply) ELSE UNCHANGED toClient
  /\ UNCHANGED <<record, dirty, client, used, sent, faults>>

\* The submission's own record, or the one that speaks for the question.
Return(s) ==
  LET found == IF status[s] # "none" THEN s ELSE latest
  IN /\ found # None /\ status[found] # "submitting"
     /\ found = s \/ status[found] # "failed"
     /\ Finish(s, "ack", RecordOf(found))

\* answerAsyncQuestion throws before it records anything.
Refuse(s) == status[s] = "none" /\ Finish(s, "error", NoCard)

\* A chat snapshot, which shows the question's latest record.  (Bound: a connection
\* holds one at a time.)
Snapshot ==
  /\ dirty /\ dirty' = FALSE
  /\ \A i \in DOMAIN toClient : toClient[i].kind # "snapshot"
  /\ Deliver("snapshot", None, RecordOf(latest))
  /\ UNCHANGED <<record, requests, client, used, sent, faults>>

\* The server restarts, and forgets what a compaction has truncated.
Restart ==
  /\ Fault
  /\ \E kept \in SUBSET Subs : Answers!Forget(kept)
  /\ requests' = {} /\ dirty' = FALSE /\ toClient' = <<>>
  /\ client' = Disconnected(client)
  /\ UNCHANGED <<facts, used, sent>>

-----------------------------------------------------------------------------
Next ==
  \/ Connect \/ ConnectFails \/ Lose \/ Reload \/ AnswerQuery \/ Receive \/ Snapshot \/ Restart
  \/ Overdue \/ CheckAgain \/ QueryTimeout \/ Render
  \/ \E s \in Subs : \/ submit(s) \/ OtherClientAnswers(s)
                    \/ RecordAnswer(s) \/ Return(s) \/ Refuse(s)
  \/ \E s \in Subs, to \in Statuses : RecordDelivery(s, to)

Spec == Init /\ [][Next]_vars

\* The socket reconnects for as long as the tab is open, the network and the server
\* deliver, timers fire and React runs its effects.
Fairness == /\ WF_vars(Connect) /\ WF_vars(AnswerQuery) /\ WF_vars(Receive)
            /\ WF_vars(Snapshot) /\ WF_vars(Render) /\ WF_vars(Overdue)

-----------------------------------------------------------------------------
(* Properties. *)

\* A card says queued, accepted or failed only of a submission of which the
\* server's record once said so.
Truthful == client.card.to \in Settled => <<client.card.sub, client.card.to>> \in facts

\* Accepted cannot regress; queued cannot regress to submitting or unknown.
NoRegress ==
  [][LET old == client.card  new == client'.card
     IN new = NoCard \/
          /\ old.to = "accepted" => new.to = "accepted"
          /\ old.to = "queued" => new.to \notin Unresolved]_vars

\* A sent command is never replayed.
NeverReplayed == [][(requests' \ requests) \cap sent = {}]_vars

\* Both: neither a reconnect nor a late reply takes back what was shown or sends again.
CardKeepsItsWord == NoRegress /\ NeverReplayed

\* Once the record stays accepted or queued and the connection stays up, the card
\* of the question comes to say so.
FactsReachTheCard ==
  \A s \in Subs, to \in {"queued", "accepted"} :
    (<>[](latest = s /\ status[s] = to /\ client.up)) => <>[](client.card.to \in {to, "accepted"})
=============================================================================
