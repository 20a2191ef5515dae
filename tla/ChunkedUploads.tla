--------------------------- MODULE ChunkedUploads ---------------------------
(***************************************************************************)
(* Attachments that travel in chunks: the composer's uploads               *)
(* (ChatInput.tsx, lib/attachmentUpload.ts) and the computer's staging     *)
(* (src/src/server/chunked-uploads.ts), which takes the chunks of one      *)
(* upload in turn, saves the complete file into the workspace and keeps a  *)
(* receipt for a lost last answer.                                         *)
(*                                                                         *)
(* A chunk is its index.  Left out: names and checksums, the limits of     *)
(* three uploads at a time and of 256 receipts, staging files a killed     *)
(* server leaves to the sweep, empty files and old servers.                *)
(***************************************************************************)
EXTENDS Naturals, Sequences, FiniteSets

CONSTANTS Keys,         \* attachments: each has its upload id
          Chunks,       \* chunks of a file
          ATTEMPTS,     \* tries of one chunk (four in the code)
          UNFINISHED,   \* unfinished uploads the server takes (16 in the code)
          MaxFaults,    \* bound on lost answers, failed writes, restarts and user retries
          None

Upload == [offset : 0..Chunks, file : Seq(0..Chunks), idle : BOOLEAN, attachment : Nat \cup {None}]

UploadsAssumption ==
  /\ {Chunks, ATTEMPTS, UNFINISHED, MaxFaults} \subseteq Nat
  /\ Chunks > 0 /\ ATTEMPTS > 0 /\ UNFINISHED > 0
  /\ None \notin Nat \cup Upload

VARIABLES
  item,       \* key -> the attachment in the composer
  net,        \* key -> chunk requests under way
  locks,      \* key -> the server's requests of that upload, the first one being served
  uploads,    \* key -> what the server knows of the upload, or None
  saved,      \* complete attachments in the workspace
  faults,
  copies      \* history: key -> files saved since the server last forgot the upload

vars == <<item, net, locks, uploads, saved, faults, copies>>

Whole == [c \in 1..Chunks |-> c]
Fault == faults < MaxFaults /\ faults' = faults + 1

Init ==
  /\ item = [k \in Keys |-> [status |-> "none", removed |-> FALSE, offset |-> 0,
                             attempt |-> 1, sent |-> FALSE, attachment |-> None]]
  /\ net = [k \in Keys |-> {}]
  /\ locks = [k \in Keys |-> <<>>]
  /\ uploads = [k \in Keys |-> None]
  /\ saved = {} /\ faults = 0
  /\ copies = [k \in Keys |-> 0]

(***************************************************************************)
(* The composer                                                            *)
(***************************************************************************)
Begun(i) == [i EXCEPT !.status = "uploading", !.offset = 0, !.attempt = 1, !.sent = FALSE]

Pick(k) ==
  /\ item[k].status = "none"
  /\ item' = [item EXCEPT ![k] = Begun(@)]
  /\ UNCHANGED <<net, locks, uploads, saved, faults, copies>>

\* sendChunk
SendChunk(k) ==
  /\ item[k].status = "uploading" /\ ~item[k].sent
  /\ item' = [item EXCEPT ![k].sent = TRUE]
  /\ net' = [net EXCEPT ![k] = @ \cup {[offset |-> item[k].offset, live |-> TRUE, step |-> "start"]}]
  /\ UNCHANGED <<locks, uploads, saved, faults, copies>>

Failed(i) == IF i.removed THEN [i EXCEPT !.status = "gone", !.sent = FALSE]
             ELSE [i EXCEPT !.status = "failed", !.sent = FALSE]
TriedAgain(i) == IF i.attempt = ATTEMPTS THEN Failed(i) ELSE [i EXCEPT !.attempt = @ + 1, !.sent = FALSE]

Abandoned(r) == [r EXCEPT !.live = FALSE]
Abandon(k, lost) ==
  /\ net' = [net EXCEPT ![k] = {Abandoned(r) : r \in {q \in @ : q.live => ~lost}}]
  /\ locks' = [locks EXCEPT ![k] = [n \in DOMAIN @ |-> Abandoned(@[n])]]

\* The connection broke or made no progress for a minute: the request is lost, or the
\* server still handles it and only its answer is.
Interrupted(k) ==
  /\ item[k].sent /\ Fault
  /\ \E lost \in BOOLEAN : Abandon(k, lost)
  /\ item' = [item EXCEPT ![k] = TriedAgain(@)]
  /\ UNCHANGED <<uploads, saved, copies>>

retryFailedAttachments(k) ==
  /\ item[k].status = "failed" /\ Fault
  /\ item' = [item EXCEPT ![k] = Begun(@)]
  /\ UNCHANGED <<net, locks, uploads, saved, copies>>

Of(attachment) == {f \in saved : f.name = attachment}

\* removeAttachment, or another chat in the composer: an upload under way goes on and
\* what it brings is deleted (deleteUploadedAttachment).
removeAttachment(k) ==
  /\ item[k].status \in {"uploading", "uploaded", "failed"} /\ ~item[k].removed
  /\ item' = [item EXCEPT ![k].removed = TRUE,
                          ![k].status = IF @ = "uploading" THEN @ ELSE "gone"]
  /\ saved' = IF item[k].status = "uploaded" THEN saved \ Of(item[k].attachment) ELSE saved
  /\ UNCHANGED <<net, locks, uploads, faults, copies>>

\* Answers to a request nobody waits for are dropped.
Answered(k, after) == IF Head(locks[k]).live THEN [item EXCEPT ![k] = after] ELSE item

(***************************************************************************)
(* The server                                                              *)
(***************************************************************************)
\* Requests of one upload wait for each other.
Arrive(k) == \E r \in net[k] :
  /\ net' = [net EXCEPT ![k] = @ \ {r}]
  /\ locks' = [locks EXCEPT ![k] = Append(@, r)]
  /\ UNCHANGED <<item, uploads, saved, faults, copies>>

Serving(k, step) == locks[k] # <<>> /\ Head(locks[k]).step = step
Goes(k, step) == locks' = [locks EXCEPT ![k] = <<[Head(@) EXCEPT !.step = step]>> \o Tail(@)]
Done(k) == locks' = [locks EXCEPT ![k] = Tail(@)]

Refuse(k, retryable) ==
  /\ Done(k)
  /\ item' = Answered(k, IF retryable THEN TriedAgain(item[k]) ELSE Failed(item[k]))
  /\ UNCHANGED <<net, saved>>

Unfinished == {k \in Keys : uploads[k] # None /\ uploads[k].attachment = None}

\* Thirty minutes without a request.
Idle(k) ==
  /\ uploads[k] # None /\ ~uploads[k].idle
  /\ item[k].status # "uploading" /\ net[k] = {} /\ locks[k] = <<>>
  /\ uploads' = [uploads EXCEPT ![k].idle = TRUE]
  /\ UNCHANGED <<item, net, locks, saved, faults, copies>>

\* expire: a request clears away its own upload when idle, and the others nobody uses.
Expired(current) == {k \in Keys : uploads[k] # None /\ uploads[k].idle /\ (k = current \/ locks[k] = <<>>)}
expire(k) ==
  /\ Serving(k, "start")
  /\ Goes(k, "check")
  /\ uploads' = [o \in Keys |-> IF o \in Expired(k) THEN None ELSE uploads[o]]
  /\ copies' = [o \in Keys |-> IF o \in Expired(k) THEN 0 ELSE copies[o]]
  /\ UNCHANGED <<item, net, saved, faults>>

\* A new upload: between the count and the entry the staging directory is made.
Check(k) ==
  /\ Serving(k, "check") /\ uploads[k] = None
  /\ IF Head(locks[k]).offset > 0 THEN Refuse(k, FALSE)
     ELSE IF Cardinality(Unfinished) >= UNFINISHED THEN Refuse(k, TRUE)
     ELSE Goes(k, "make") /\ UNCHANGED <<item, net, saved>>
  /\ UNCHANGED <<uploads, faults, copies>>

Make(k) ==
  /\ Serving(k, "make")
  /\ Goes(k, "check")
  /\ uploads' = [uploads EXCEPT ![k] = [offset |-> 0, file |-> <<>>, idle |-> FALSE, attachment |-> None]]
  /\ UNCHANGED <<item, net, saved, faults, copies>>

\* Mutant of Staged: the retry appends to what a failed write left.
StagedBehind(u, chunk) == [u EXCEPT !.file = Append(@, chunk), !.offset = @ + 1]

\* The chunk replaces whatever lies behind the confirmed offset.
Staged(u, chunk) == [u EXCEPT !.file = Append(SubSeq(@, 1, u.offset), chunk), !.offset = @ + 1]

\* A chunk accepted before is confirmed again; one out of order is refused.
Accept(k) ==
  LET u == uploads[k] offset == Head(locks[k]).offset IN
  /\ Serving(k, "check") /\ u # None
  /\ IF offset > u.offset
     THEN Refuse(k, FALSE) /\ uploads' = [uploads EXCEPT ![k].idle = FALSE]
     ELSE /\ uploads' = [uploads EXCEPT ![k] =
               [IF offset = u.offset THEN Staged(u, offset + 1) ELSE u EXCEPT !.idle = FALSE]]
          /\ Goes(k, "written") /\ UNCHANGED <<item, net, saved>>
  /\ UNCHANGED <<faults, copies>>

\* The write failed and left part of the chunk.
WriteFails(k) ==
  LET u == uploads[k] offset == Head(locks[k]).offset IN
  /\ Serving(k, "check") /\ u # None /\ offset = u.offset /\ Fault
  /\ uploads' = [uploads EXCEPT ![k].file = Append(SubSeq(@, 1, u.offset), 0), ![k].idle = FALSE]
  /\ Refuse(k, FALSE)
  /\ UNCHANGED copies

Unsaved(u) == u.offset = Chunks /\ u.attachment = None

\* The first name that is free; all files here want the same one.
StoredName == CHOOSE n \in 1..Cardinality(saved) + 1 :
  /\ \A f \in saved : f.name # n
  /\ \A m \in 1..n - 1 : \E f \in saved : f.name = m

\* persistProjectUpload
persist(k) ==
  /\ Serving(k, "written") /\ Unsaved(uploads[k])
  /\ saved' = saved \cup {[name |-> StoredName, key |-> k, file |-> uploads[k].file]}
  /\ uploads' = [uploads EXCEPT ![k].attachment = StoredName]
  /\ copies' = [copies EXCEPT ![k] = @ + 1]
  /\ Goes(k, "reply")
  /\ UNCHANGED <<item, net, faults>>

PersistFails(k) ==
  /\ Serving(k, "written") /\ Unsaved(uploads[k]) /\ Fault
  /\ Refuse(k, FALSE)
  /\ UNCHANGED <<uploads, copies>>

\* The last answer carries the attachment; an attachment removed meanwhile is deleted.
Arrived(i, u) ==
  IF u.offset < Chunks THEN [i EXCEPT !.offset = u.offset, !.attempt = 1, !.sent = FALSE]
  ELSE IF i.removed THEN [i EXCEPT !.status = "gone", !.sent = FALSE]
  ELSE [i EXCEPT !.status = "uploaded", !.sent = FALSE, !.attachment = u.attachment]

reply(k) ==
  LET u == uploads[k] IN
  /\ \/ Serving(k, "reply")
     \/ Serving(k, "written") /\ ~Unsaved(u)
  /\ Done(k)
  /\ item' = Answered(k, Arrived(item[k], u))
  /\ saved' = IF Head(locks[k]).live /\ item[k].removed /\ u.attachment # None
              THEN saved \ Of(u.attachment) ELSE saved
  /\ UNCHANGED <<net, uploads, faults, copies>>

\* The server is gone and back, without its uploads and receipts.
Restart ==
  /\ Fault
  /\ uploads' = [k \in Keys |-> None] /\ locks' = [k \in Keys |-> <<>>]
  /\ copies' = [k \in Keys |-> 0]
  /\ item' = [k \in Keys |-> IF \E n \in DOMAIN locks[k] : locks[k][n].live
                              THEN TriedAgain(item[k]) ELSE item[k]]
  /\ UNCHANGED <<net, saved>>

Serve(k) == expire(k) \/ Check(k) \/ Make(k) \/ Accept(k) \/ persist(k) \/ reply(k)

Next ==
  \/ \E k \in Keys :
       \/ Pick(k) \/ SendChunk(k) \/ Interrupted(k) \/ retryFailedAttachments(k) \/ removeAttachment(k)
       \/ Arrive(k) \/ Idle(k) \/ Serve(k) \/ WriteFails(k) \/ PersistFails(k)
  \/ Restart

Spec == Init /\ [][Next]_vars

(***************************************************************************)
(* Properties                                                              *)
(***************************************************************************)
\* What the composer shows as uploaded is in the workspace, complete and in order,
\* whatever was lost, repeated, cut off or restarted on the way.
UploadedIsWhole == \A k \in Keys : item[k].status = "uploaded" =>
  [name |-> item[k].attachment, key |-> k, file |-> Whole] \in saved

\* As long as the server knows an upload it saves its file once, however often the
\* last chunk comes.
SavedOnce == \A k \in Keys : copies[k] <= 1

\* A file is saved as it was sent.
SavedAsSent == UploadedIsWhole /\ SavedOnce
=============================================================================
