------------------------------ MODULE MCAnswers ------------------------------
(***************************************************************************)
(* Both ends of an asynchronous answer: the server (AnswerServer) and one  *)
(* client's card on a network without faults (AnswerDelivery).  They meet  *)
(* in the record of AnswerRecord; a behaviour is of the one or the other.  *)
(***************************************************************************)
EXTENDS AnswerServer

CONSTANTS CardSubs, MaxFaults

VARIABLES end,        \* what the behaviour is about: "server" or "card"
          recorded, last, requests, dirty, toClient, client, used, issued, facts, faults

card == <<recorded, last, requests, dirty, toClient, client, used, issued, facts, faults>>

Delivery ==
  INSTANCE AnswerDelivery WITH Subs <- CardSubs, status <- recorded, latest <- last, sent <- issued

\* A card that is not looked at is connected: nothing is left to do for it.  (Bound: the
\* card is one of the machine itself, which keeps a command until it can be sent.)
MCInit ==
  /\ end \in {"server", "card"} /\ Init
  /\ IF end = "card" THEN Delivery!Init /\ ~client.remote
     ELSE /\ recorded = [s \in CardSubs |-> "none"] /\ last = None /\ facts = {}
          /\ requests = {} /\ dirty = FALSE /\ toClient = <<>> /\ used = {} /\ issued = {} /\ faults = 0
          /\ client = [Delivery!NewClient(FALSE) EXCEPT !.up = TRUE]
  /\ end = "card" => turn = "none"

MCNext ==
  \/ end = "server" /\ Next /\ UNCHANGED <<end, card>>
  \/ end = "card" /\ Delivery!Next /\ UNCHANGED <<end, vars>>

MCSpec == MCInit /\ [][MCNext]_<<end, vars, card>> /\ Delivery!Fairness

\* The property of AnswerDelivery, stated there.
FactsReachTheCard == Delivery!FactsReachTheCard
=============================================================================
