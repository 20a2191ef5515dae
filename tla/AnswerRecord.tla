---------------------------- MODULE AnswerRecord ----------------------------
(***************************************************************************)
(* What the server promises about the answers to one asynchronous question *)
(* of the agent: each submission has a delivery status, the latest one     *)
(* speaks for the question, and a new submission is taken only when there  *)
(* is none or the latest one has failed.                                   *)
(***************************************************************************)
CONSTANTS Subs,  \* submissionIds
          None

Statuses == {"none", "submitting", "queued", "accepted", "failed", "delivery_unknown"}

VARIABLES status,  \* per submission, "none" for one the server has no record of
          latest   \* the submission of the question's record

Init == status = [s \in Subs |-> "none"] /\ latest = None

Set(s, to) == status' = [status EXCEPT ![s] = to] /\ latest' = s

Submit(s) ==
  /\ status[s] = "none"
  /\ latest # None => status[latest] = "failed"
  /\ Set(s, "submitting")

\* The delivery is settled, or one in the queue or in doubt turns out as sent.
Settle(s, to) ==
  /\ s = latest
  /\ \/ status[s] = "submitting" /\ to \in {"queued", "accepted", "failed", "delivery_unknown"}
     \/ status[s] \in {"queued", "delivery_unknown"} /\ to = "accepted"
  /\ Set(s, to)

\* After a restart, a reconciliation may overtake the record of a delivery.
Doubt(s) == s = latest /\ status[s] = "accepted" /\ Set(s, "delivery_unknown")

\* A restart after the journal was truncated keeps what was recorded since.
Forget(kept) ==
  /\ latest \in kept \/ kept = {}
  /\ status' = [s \in Subs |-> IF s \in kept THEN status[s] ELSE "none"]
  /\ latest' = IF latest \in kept THEN latest ELSE None

Next == \/ \E s \in Subs : Submit(s) \/ Doubt(s) \/ \E to \in Statuses : Settle(s, to)
        \/ \E kept \in SUBSET Subs : Forget(kept)

Spec == Init /\ [][Next]_<<status, latest>>
=============================================================================
