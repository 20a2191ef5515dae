------------------------- MODULE ConnectionsProofs -------------------------
(***************************************************************************)
(* Proofs about the three components that MCConnections puts side by side. *)
(* Each has its inductive invariant and a theorem about its own            *)
(* specification; the last part carries them over to MCSpec.               *)
(*                                                                         *)
(*   UploadsInv    the composer waits for one request at most (InTurn),    *)
(*                 what the server confirmed is as sent (Confirmed), and a *)
(*                 file is saved once and stays while it is shown (Kept)   *)
(*   TransportInv  frames under way, transfer and queue of a side bring,   *)
(*                 in order, just what its peer has not received (Line)    *)
(*   ConnectorInv  a computer that is closed has its transport off, or the *)
(*                 operation that closed it stops it next (ShutMeansOff,   *)
(*                 Underway)                                               *)
(***************************************************************************)
EXTENDS MCConnections, FiniteSetTheorems, SequenceTheorems, WellFoundedInduction, TLAPS

-----------------------------------------------------------------------------
(***************************************************************************)
(* Attachments that travel in chunks (ChunkedUploads).                     *)
(***************************************************************************)
(* The inductive invariant. *)

Item == [status : {"none", "uploading", "failed", "uploaded", "gone"}, removed : BOOLEAN,
         offset : 0..Chunks - 1, attempt : Nat, sent : BOOLEAN, attachment : Nat \cup {None}]
Request == [offset : 0..Chunks - 1, live : BOOLEAN, step : {"start", "check", "make", "written", "reply"}]
File == [name : Nat, key : Keys, file : Seq(0..Chunks)]

UploadsTypeOK ==
  /\ item \in [Keys -> Item] /\ net \in [Keys -> SUBSET Request] /\ locks \in [Keys -> Seq(Request)]
  /\ uploads \in [Keys -> Upload \cup {None}] /\ saved \in SUBSET File /\ IsFiniteSet(saved)
  /\ faults \in Nat /\ copies \in [Keys -> Nat]

\* One request at most is the one that the composer waits for, and requests are served in turn.
InTurn(i, requests, lock) ==
  /\ i.sent => i.status = "uploading"
  /\ \A r \in requests : r.step = "start" /\ (r.live => i.sent)
  /\ \A q, r \in requests : q.live /\ r.live => q = r
  /\ \A n \in DOMAIN lock :
       /\ lock[n].live => i.sent /\ \A r \in requests : ~r.live
       /\ n > 1 => lock[n].step = "start"
  /\ \A m, n \in DOMAIN lock : lock[m].live /\ lock[n].live => m = n

\* The server knows the upload whose chunk it has written, and none that it is to make.
Known(lock, u) ==
  lock # <<>> =>
    /\ lock[1].step = "written" => u # None
    /\ lock[1].step = "reply" => u # None /\ u.attachment # None
    /\ lock[1].step = "make" => u = None

\* What is confirmed is as it was sent.
Confirmed(u) ==
  /\ Len(u.file) >= u.offset /\ \A c \in 1..u.offset : u.file[c] = c
  /\ u.offset = Chunks => u.file = Whole
  /\ u.attachment # None => u.offset = Chunks

\* A file is saved once, and stays as long as the composer may show it.
Stored(k, attachment, files) == [name |-> attachment, key |-> k, file |-> Whole] \in files
Kept(k, i, u, n, files) ==
  /\ n \in {0, 1}
  /\ n = 1 => u # None /\ u.attachment # None
  /\ u # None => Confirmed(u) /\ (u.attachment # None /\ i.status # "gone" => Stored(k, u.attachment, files))
  /\ i.status = "uploaded" => Stored(k, i.attachment, files)

Row(k) ==
  /\ InTurn(item[k], net[k], locks[k]) /\ Known(locks[k], uploads[k])
  /\ Kept(k, item[k], uploads[k], copies[k], saved)

Named(files) == \A f, g \in files : f.name = g.name => f = g

UploadsInv == UploadsTypeOK /\ Named(saved) /\ \A k \in Keys : Row(k)

(* Values. *)

LEMMA ItemFields ==
  ASSUME NEW i \in Item
  PROVE  /\ i.status \in {"none", "uploading", "failed", "uploaded", "gone"} /\ i.removed \in BOOLEAN
         /\ i.offset \in 0..Chunks - 1 /\ i.attempt \in Nat /\ i.sent \in BOOLEAN
         /\ i.attachment \in Nat \cup {None}
BY DEF Item

LEMMA RequestFields ==
  ASSUME NEW r \in Request
  PROVE  r.offset \in 0..Chunks - 1 /\ r.live \in BOOLEAN
         /\ r.step \in {"start", "check", "make", "written", "reply"}
BY DEF Request

LEMMA UploadFields ==
  ASSUME NEW u \in Upload
  PROVE  u.offset \in 0..Chunks /\ u.file \in Seq(0..Chunks) /\ u.idle \in BOOLEAN
         /\ u.attachment \in Nat \cup {None}
BY DEF Upload

LEMMA Begins ==
  ASSUME UploadsAssumption, NEW i \in Item
  PROVE  /\ Begun(i) \in Item /\ Begun(i).status = "uploading" /\ ~Begun(i).sent
<1>1. 0 \in 0..Chunks - 1 /\ 1 \in Nat
  BY DEF UploadsAssumption
<1> QED BY <1>1 DEF Begun, Item

\* A failure or a new try leaves no request that is waited for.
LEMMA Fails ==
  ASSUME UploadsAssumption, NEW i \in Item
  PROVE  /\ Failed(i) \in Item /\ ~Failed(i).sent /\ Failed(i).status # "uploaded"
         /\ TriedAgain(i) \in Item /\ ~TriedAgain(i).sent
         /\ i.status # "uploaded" => TriedAgain(i).status # "uploaded"
<1>1. Failed(i) \in Item /\ ~Failed(i).sent /\ Failed(i).status # "uploaded"
  BY DEF Failed, Item
<1>2. i.attempt + 1 \in Nat
  BY DEF Item
<1>3. LET j == [i EXCEPT !.attempt = @ + 1, !.sent = FALSE] IN j \in Item /\ ~j.sent /\ j.status = i.status
  BY <1>2 DEF Item
<1> QED BY <1>1, <1>3 DEF TriedAgain

\* The chunk that is staged comes next; a failed write leaves what was confirmed.
LEMMA Stages ==
  ASSUME UploadsAssumption, NEW u \in Upload, Confirmed(u), u.offset < Chunks,
         NEW chunk \in 0..Chunks
  PROVE  LET file == Append(SubSeq(u.file, 1, u.offset), chunk) IN
         /\ file \in Seq(0..Chunks) /\ Len(file) = u.offset + 1
         /\ \A c \in 1..u.offset : file[c] = c
         /\ file[u.offset + 1] = chunk
<1>1. u.offset \in Nat /\ u.file \in Seq(0..Chunks) /\ u.offset <= Len(u.file)
  BY UploadFields DEF Confirmed, UploadsAssumption
<1>2. SubSeq(u.file, 1, u.offset) \in Seq(0..Chunks) /\ Len(SubSeq(u.file, 1, u.offset)) = u.offset
      /\ \A c \in 1..u.offset : SubSeq(u.file, 1, u.offset)[c] = u.file[c]
  <2>1. \A c \in 1..u.offset : u.file[c] \in 0..Chunks
    <3>1. u.offset \in 0..Chunks /\ Chunks \in Nat
      BY UploadFields DEF UploadsAssumption
    <3> QED BY <3>1 DEF Confirmed
  <2>2. /\ SubSeq(u.file, 1, u.offset) \in Seq(0..Chunks)
        /\ Len(SubSeq(u.file, 1, u.offset)) = IF 1 <= u.offset THEN u.offset - 1 + 1 ELSE 0
        /\ \A c \in 1..u.offset - 1 + 1 : SubSeq(u.file, 1, u.offset)[c] = u.file[1 + c - 1]
    BY <1>1, <2>1, SubSeqProperties
  <2>3. \A c \in 1..u.offset : c \in 1..u.offset - 1 + 1 /\ 1 + c - 1 = c
    BY <1>1
  <2> QED BY <1>1, <2>2, <2>3
<1>3. \A c \in 1..u.offset : u.file[c] = c
  BY DEF Confirmed
<1> QED BY <1>1, <1>2, <1>3

(* Requests in turn. *)

LEMMA LockHead ==
  ASSUME NEW lock \in Seq(Request), lock # <<>>
  PROVE  /\ Head(lock) = lock[1] /\ lock[1] \in Request /\ 1 \in DOMAIN lock /\ DOMAIN lock = 1..Len(lock)
         /\ Len(lock) \in Nat /\ Len(lock) > 0
         /\ Tail(lock) \in Seq(Request) /\ Len(Tail(lock)) = Len(lock) - 1
         /\ DOMAIN Tail(lock) = 1..Len(lock) - 1
         /\ \A n \in DOMAIN Tail(lock) : n + 1 \in DOMAIN lock /\ n + 1 > 1 /\ Tail(lock)[n] = lock[n + 1]
<1>1. Len(lock) \in Nat /\ Len(lock) > 0 /\ DOMAIN lock = 1..Len(lock) /\ Head(lock) = lock[1]
  OBVIOUS
<1>2. 1 \in DOMAIN lock /\ lock[1] \in Request
  BY <1>1
<1>3. Tail(lock) \in Seq(Request) /\ Len(Tail(lock)) = Len(lock) - 1 /\ DOMAIN Tail(lock) = 1..Len(lock) - 1
      /\ \A n \in DOMAIN Tail(lock) : Tail(lock)[n] = lock[n + 1]
  BY <1>1
<1>4. \A n \in 1..Len(lock) - 1 : n + 1 \in 1..Len(lock) /\ n + 1 > 1
  BY <1>1
<1> QED BY <1>1, <1>2, <1>3, <1>4

\* The first request is done; if the composer waited for it, it waits for none any more.
LEMMA InTurnDone ==
  ASSUME NEW i, NEW requests, NEW lock \in Seq(Request), lock # <<>>, InTurn(i, requests, lock),
         NEW j, j = i \/ lock[1].live, j.sent => j.status = "uploading"
  PROVE  InTurn(j, requests, Tail(lock)) /\ \A u : Known(Tail(lock), u)
<1>1. /\ 1 \in DOMAIN lock
      /\ \A n \in DOMAIN Tail(lock) : n + 1 \in DOMAIN lock /\ n + 1 > 1 /\ Tail(lock)[n] = lock[n + 1]
      /\ DOMAIN Tail(lock) \subseteq Nat
      /\ Tail(lock) # <<>> => 1 \in DOMAIN Tail(lock)
  BY LockHead
<1>2. \A n \in DOMAIN Tail(lock) : Tail(lock)[n].step = "start" /\ (lock[1].live => ~Tail(lock)[n].live)
  BY <1>1 DEF InTurn
<1>3. InTurn(j, requests, Tail(lock))
  BY <1>1, <1>2 DEF InTurn
<1> QED BY <1>1, <1>2, <1>3 DEF Known

\* The first request goes on.
Onward(lock, step) == <<[Head(lock) EXCEPT !.step = step]>> \o Tail(lock)

LEMMA InTurnGoes ==
  ASSUME NEW i, NEW requests, NEW lock \in Seq(Request), lock # <<>>, InTurn(i, requests, lock),
         NEW step \in {"start", "check", "make", "written", "reply"}
  PROVE  /\ Onward(lock, step) \in Seq(Request) /\ Onward(lock, step) # <<>>
            /\ Onward(lock, step)[1].step = step
         /\ InTurn(i, requests, Onward(lock, step))
<1> DEFINE r == [Head(lock) EXCEPT !.step = step]
           next == <<r>> \o Tail(lock)
<1>1. r \in Request /\ r.step = step /\ r.live = lock[1].live
  <2>1. Head(lock) \in Request /\ Head(lock) = lock[1]
    BY LockHead
  <2> QED BY <2>1 DEF Request
<1>2. /\ next \in Seq(Request) /\ DOMAIN next = DOMAIN lock /\ next # <<>> /\ next[1] = r
      /\ \A n \in DOMAIN next : n > 1 => next[n] = lock[n]
  BY <1>1, LockHead
<1>3. \A n \in DOMAIN next : next[n].live = lock[n].live /\ (n > 1 => next[n].step = lock[n].step)
  <2> TAKE n \in DOMAIN next
  <2>1. n \in Nat /\ n >= 1
    BY <1>2, LockHead
  <2>2. CASE n = 1
    BY <1>1, <1>2, <2>2
  <2>3. CASE n > 1
    BY <1>2, <2>3
  <2> QED BY <2>1, <2>2, <2>3
<1>4. InTurn(i, requests, next)
  BY <1>2, <1>3 DEF InTurn
<1> QED BY <1>1, <1>2, <1>4 DEF Onward

\* A request gets its place behind the others.
LEMMA InTurnArrives ==
  ASSUME NEW i, NEW requests \in SUBSET Request, NEW lock \in Seq(Request), InTurn(i, requests, lock),
         NEW r \in requests, NEW u, Known(lock, u)
  PROVE  /\ Append(lock, r) \in Seq(Request) /\ InTurn(i, requests \ {r}, Append(lock, r))
         /\ Known(Append(lock, r), u)
<1>1. /\ Append(lock, r) \in Seq(Request) /\ Len(lock) \in Nat
      /\ DOMAIN lock = 1..Len(lock) /\ DOMAIN Append(lock, r) = 1..Len(lock) + 1
      /\ \A n \in 1..Len(lock) : Append(lock, r)[n] = lock[n]
      /\ Append(lock, r)[Len(lock) + 1] = r
  OBVIOUS
<1>2. r.step = "start" /\ (r.live => i.sent)
  BY DEF InTurn
<1>3. \A n \in DOMAIN Append(lock, r) :
        \/ n \in DOMAIN lock /\ Append(lock, r)[n] = lock[n]
        \/ n = Len(lock) + 1 /\ n \notin DOMAIN lock /\ Append(lock, r)[n] = r
  BY <1>1
<1>4. InTurn(i, requests \ {r}, Append(lock, r))
  BY <1>1, <1>2, <1>3 DEF InTurn
<1>5. Known(Append(lock, r), u)
  <2>1. CASE lock = <<>>
    BY <1>1, <1>2, <2>1 DEF Known
  <2>2. CASE lock # <<>>
    BY <1>1, <2>2, LockHead DEF Known
  <2> QED BY <2>1, <2>2
<1> QED BY <1>1, <1>4, <1>5

-----------------------------------------------------------------------------
(* A step of one attachment. *)

LEMMA OthersStay ==
  ASSUME UploadsInv, UploadsTypeOK', NEW k \in Keys,
         \A o \in Keys \ {k} : item'[o] = item[o] /\ net'[o] = net[o] /\ locks'[o] = locks[o]
                               /\ uploads'[o] = uploads[o] /\ copies'[o] = copies[o],
         \A f \in saved : f.key # k => f \in saved',
         Row(k)', Named(saved)'
  PROVE  UploadsInv'
<1> SUFFICES ASSUME NEW o \in Keys, o # k PROVE Row(o)'
  BY DEF UploadsInv
<1>1. /\ item'[o] = item[o] /\ net'[o] = net[o] /\ locks'[o] = locks[o] /\ uploads'[o] = uploads[o]
      /\ copies'[o] = copies[o]
  OBVIOUS
<1>2. Row(o)
  BY DEF UploadsInv
<1>3. \A attachment : Stored(o, attachment, saved) => Stored(o, attachment, saved')
  <2> SUFFICES ASSUME NEW attachment, Stored(o, attachment, saved) PROVE Stored(o, attachment, saved')
    OBVIOUS
  <2>1. [name |-> attachment, key |-> o, file |-> Whole].key = o
    OBVIOUS
  <2> QED BY <2>1 DEF Stored
<1>4. Kept(o, item[o], uploads[o], copies[o], saved')
  BY <1>2, <1>3 DEF Row, Kept
<1> QED BY <1>1, <1>2, <1>4 DEF Row

\* No file is touched.
LEMMA SavedStays ==
  ASSUME UploadsInv, UploadsTypeOK', NEW k \in Keys, UNCHANGED saved,
         \A o \in Keys \ {k} : item'[o] = item[o] /\ net'[o] = net[o] /\ locks'[o] = locks[o]
                               /\ uploads'[o] = uploads[o] /\ copies'[o] = copies[o],
         Row(k)'
  PROVE  UploadsInv'
<1>1. Named(saved)'
  BY DEF UploadsInv, Named
<1> QED BY <1>1, OthersStay

\* The files of the attachment that an item shows, or an upload brought, are this one.
LEMMA OwnFile ==
  ASSUME UploadsInv, NEW k \in Keys, NEW attachment, Stored(k, attachment, saved)
  PROVE  \A f \in saved : f.key # k => f \in saved \ Of(attachment)
BY DEF UploadsInv, Named, Stored, Of

LEMMA Deletes ==
  ASSUME UploadsInv, NEW attachment
  PROVE  /\ saved \ Of(attachment) \in SUBSET File /\ IsFiniteSet(saved \ Of(attachment))
         /\ Named(saved \ Of(attachment))
<1>1. saved \in SUBSET File /\ IsFiniteSet(saved) /\ Named(saved)
  BY DEF UploadsInv, UploadsTypeOK
<1>2. saved \ Of(attachment) \in SUBSET saved
  OBVIOUS
<1>3. IsFiniteSet(saved \ Of(attachment))
  BY <1>1, <1>2, FS_Subset
<1> QED BY <1>1, <1>3 DEF Named

\* There is a free name, and a first one.
LEMMA StoredNameIsFree ==
  ASSUME UploadsInv
  PROVE  StoredName \in Nat /\ \A f \in saved : f.name # StoredName
<1> DEFINE Names == {f.name : f \in saved}
           N == Cardinality(saved) + 1
           Free == {n \in 1..N : n \notin Names}
<1>1. IsFiniteSet(saved) /\ Cardinality(saved) \in Nat /\ N \in Nat /\ N > 0
  BY FS_CardinalityType DEF UploadsInv, UploadsTypeOK
<1>2. Free # {}
  <2> SUFFICES ASSUME Free = {} PROVE FALSE
    OBVIOUS
  <2> DEFINE g == [n \in 1..N |-> CHOOSE f \in saved : f.name = n]
  <2>1. \A n \in 1..N : g[n] \in saved /\ g[n].name = n
    <3> TAKE n \in 1..N
    <3>1. \E f \in saved : f.name = n
      OBVIOUS
    <3> QED BY <3>1
  <2>2. g \in [1..N -> saved]
    BY <2>1
  <2>3. IsFiniteSet(1..N) /\ Cardinality(1..N) = N
    BY <1>1, FS_Interval
  <2>4. Cardinality(saved) < Cardinality(1..N)
    BY <1>1, <2>3
  <2>5. \E x, y \in 1..N : x # y /\ g[x] = g[y]
    <3> HIDE DEF g
    <3> QED BY <1>1, <2>2, <2>3, <2>4, FS_PigeonHole
  <2> QED BY <2>1, <2>5
<1>3. \E n \in Free : \A m \in Free : ~(m < n)
  <2>1. Free \subseteq Nat
    BY <1>1
  <2>2. IsWellFoundedOn(OpToRel(<, Nat), Nat)
    BY NatLessThanWellFounded, Zenon
  <2>3. \E n \in Free : \A m \in Free : <<m, n>> \notin OpToRel(<, Nat)
    <3> HIDE DEF Free
    <3> QED BY <1>2, <2>1, <2>2, WFMin, Zenon
  <2> QED BY <2>1, <2>3 DEF OpToRel
<1>4. \E n \in 1..N : /\ \A f \in saved : f.name # n
                      /\ \A m \in 1..n - 1 : \E f \in saved : f.name = m
  <2>1. PICK n \in Free : \A m \in Free : ~(m < n)
    BY <1>3
  <2>2. \A m \in 1..n - 1 : m \in 1..N /\ m < n
    BY <1>1
  <2>3. \A m \in 1..n - 1 : \E f \in saved : f.name = m
    BY <2>1, <2>2
  <2> QED BY <2>3
<1>5. StoredName \in 1..N /\ \A f \in saved : f.name # StoredName
  <2> HIDE DEF Names, N, Free
  <2> QED BY <1>4 DEF StoredName, N
<1> QED BY <1>1, <1>5

\* What an invariant says of one attachment, before and after.
LEMMA RowOf ==
  ASSUME UploadsInv, NEW k \in Keys
  PROVE  /\ item[k] \in Item /\ net[k] \in SUBSET Request /\ locks[k] \in Seq(Request)
         /\ uploads[k] \in Upload \cup {None} /\ copies[k] \in Nat /\ faults \in Nat
         /\ InTurn(item[k], net[k], locks[k]) /\ Known(locks[k], uploads[k])
         /\ Kept(k, item[k], uploads[k], copies[k], saved)
BY DEF UploadsInv, UploadsTypeOK, Row

LEMMA FaultsCount ==
  ASSUME UploadsInv, Fault
  PROVE  faults' \in Nat
BY DEF UploadsInv, UploadsTypeOK, Fault

-----------------------------------------------------------------------------
(* The composer's steps. *)

LEMMA PickInv ==
  ASSUME UploadsAssumption, UploadsInv, NEW k \in Keys, Pick(k) \/ retryFailedAttachments(k)
  PROVE  UploadsInv'
<1>1. /\ item[k].status \in {"none", "failed"} /\ item' = [item EXCEPT ![k] = Begun(item[k])]
      /\ UNCHANGED <<net, locks, uploads, saved, copies>> /\ faults' \in Nat
  BY RowOf, FaultsCount DEF Pick, retryFailedAttachments
<1>2. Begun(item[k]) \in Item /\ Begun(item[k]).status = "uploading" /\ ~Begun(item[k]).sent
  BY RowOf, Begins
<1>3. UploadsTypeOK'
  BY <1>1, <1>2 DEF UploadsInv, UploadsTypeOK
<1>4. item'[k] = Begun(item[k]) /\ \A o \in Keys \ {k} : item'[o] = item[o]
  BY <1>1 DEF UploadsInv, UploadsTypeOK
<1>5. InTurn(Begun(item[k]), net[k], locks[k])
  BY <1>1, <1>2, RowOf DEF InTurn
<1>6. Kept(k, Begun(item[k]), uploads[k], copies[k], saved)
  BY <1>1, <1>2, RowOf DEF Kept
<1>7. Row(k)'
  BY <1>1, <1>4, <1>5, <1>6, RowOf DEF Row
<1> QED BY <1>1, <1>3, <1>4, <1>7, SavedStays

LEMMA SendInv ==
  ASSUME UploadsAssumption, UploadsInv, NEW k \in Keys, SendChunk(k)
  PROVE  UploadsInv'
<1> DEFINE i == [item[k] EXCEPT !.sent = TRUE]
           r == [offset |-> item[k].offset, live |-> TRUE, step |-> "start"]
<1>1. i \in Item /\ i.sent /\ i.status = "uploading" /\ item[k].status = "uploading" /\ ~item[k].sent
  BY RowOf DEF SendChunk, Item
<1>2. r \in Request /\ r.live /\ r.step = "start"
  BY RowOf, ItemFields DEF Request
<1>3. /\ item' = [item EXCEPT ![k] = i] /\ net' = [net EXCEPT ![k] = net[k] \cup {r}]
      /\ UNCHANGED <<locks, uploads, saved, faults, copies>>
  BY DEF SendChunk
<1> HIDE DEF i, r
<1>4. UploadsTypeOK'
  BY <1>1, <1>2, <1>3 DEF UploadsInv, UploadsTypeOK
<1>5. /\ item'[k] = i /\ net'[k] = net[k] \cup {r}
      /\ \A o \in Keys \ {k} : item'[o] = item[o] /\ net'[o] = net[o]
  BY <1>3 DEF UploadsInv, UploadsTypeOK
<1>6. (\A q \in net[k] : ~q.live) /\ \A n \in DOMAIN locks[k] : ~locks[k][n].live
  BY <1>1, RowOf DEF InTurn
<1>7. InTurn(i, net[k] \cup {r}, locks[k])
  BY <1>1, <1>2, <1>6, RowOf DEF InTurn
<1>8. Kept(k, i, uploads[k], copies[k], saved)
  BY <1>1, RowOf DEF Kept
<1>9. Row(k)'
  BY <1>3, <1>5, <1>7, <1>8, RowOf DEF Row
<1> QED BY <1>3, <1>4, <1>5, <1>9, SavedStays

LEMMA InterruptedInv ==
  ASSUME UploadsAssumption, UploadsInv, NEW k \in Keys, Interrupted(k)
  PROVE  UploadsInv'
<1>1. PICK lost \in BOOLEAN :
        /\ net' = [net EXCEPT ![k] = {Abandoned(r) : r \in {q \in net[k] : q.live => ~lost}}]
        /\ locks' = [locks EXCEPT ![k] = [n \in DOMAIN locks[k] |-> Abandoned(locks[k][n])]]
  BY DEF Interrupted, Abandon
<1> DEFINE requests == {Abandoned(r) : r \in {q \in net[k] : q.live => ~lost}}
           lock == [n \in DOMAIN locks[k] |-> Abandoned(locks[k][n])]
           i == TriedAgain(item[k])
<1>2. item[k].sent /\ item' = [item EXCEPT ![k] = i] /\ UNCHANGED <<uploads, saved, copies>> /\ faults' \in Nat
  BY FaultsCount DEF Interrupted
<1>3. i \in Item /\ ~i.sent /\ i.status # "uploaded" /\ item[k].status = "uploading"
  BY <1>2, RowOf, Fails DEF InTurn
<1>4. \A r \in Request : Abandoned(r) \in Request /\ ~Abandoned(r).live /\ Abandoned(r).step = r.step
  BY DEF Abandoned, Request
<1>5. requests \in SUBSET Request /\ \A r \in requests : ~r.live /\ r.step = "start"
  BY <1>4, RowOf DEF InTurn
<1>6. /\ lock \in Seq(Request) /\ DOMAIN lock = DOMAIN locks[k] /\ (lock = <<>> <=> locks[k] = <<>>)
      /\ \A n \in DOMAIN lock : ~lock[n].live /\ lock[n].step = locks[k][n].step
  <2>1. locks[k] \in Seq(Request) /\ Len(locks[k]) \in Nat /\ DOMAIN locks[k] = 1..Len(locks[k])
        /\ \A n \in DOMAIN locks[k] : locks[k][n] \in Request
    BY RowOf
  <2>2. lock \in [1..Len(locks[k]) -> Request]
    BY <1>4, <2>1
  <2>3. lock \in Seq(Request) /\ Len(lock) = Len(locks[k])
    BY <2>1, <2>2, SeqDef
  <2> QED BY <1>4, <2>1, <2>3
<1> HIDE DEF requests, lock, i
<1>7. UploadsTypeOK'
  BY <1>1, <1>2, <1>3, <1>5, <1>6 DEF UploadsInv, UploadsTypeOK, requests, lock
<1>8. /\ item'[k] = i /\ net'[k] = requests /\ locks'[k] = lock
      /\ \A o \in Keys \ {k} : item'[o] = item[o] /\ net'[o] = net[o] /\ locks'[o] = locks[o]
  BY <1>1, <1>2 DEF UploadsInv, UploadsTypeOK, requests, lock
<1>9. InTurn(i, requests, lock)
  BY <1>3, <1>5, <1>6, RowOf DEF InTurn
<1>10. Known(lock, uploads[k])
  <2>1. CASE locks[k] = <<>>
    BY <1>6, <2>1 DEF Known
  <2>2. CASE locks[k] # <<>>
    BY <1>6, <2>2, RowOf, LockHead DEF Known
  <2> QED BY <2>1, <2>2
<1>11. Kept(k, i, uploads[k], copies[k], saved)
  BY <1>3, RowOf DEF Kept
<1>12. Row(k)'
  BY <1>2, <1>8, <1>9, <1>10, <1>11 DEF Row
<1> QED BY <1>2, <1>7, <1>8, <1>12, SavedStays

LEMMA RemoveInv ==
  ASSUME UploadsAssumption, UploadsInv, NEW k \in Keys, removeAttachment(k)
  PROVE  UploadsInv'
<1> DEFINE i == [item[k] EXCEPT !.removed = TRUE, !.status = IF @ = "uploading" THEN @ ELSE "gone"]
<1>1. /\ i \in Item /\ i.sent = item[k].sent /\ i.status \in {"uploading", "gone"}
      /\ (i.status = "uploading" <=> item[k].status = "uploading") /\ i.attachment = item[k].attachment
  BY RowOf DEF Item
<1>2. /\ item' = [item EXCEPT ![k] = i] /\ item[k].status \in {"uploading", "uploaded", "failed"}
      /\ saved' = IF item[k].status = "uploaded" THEN saved \ Of(item[k].attachment) ELSE saved
      /\ UNCHANGED <<net, locks, uploads, faults, copies>>
  BY DEF removeAttachment
<1> HIDE DEF i
<1>3. saved' \in SUBSET File /\ IsFiniteSet(saved') /\ Named(saved')
  BY <1>2, Deletes DEF UploadsInv, UploadsTypeOK
<1>4. UploadsTypeOK'
  BY <1>1, <1>2, <1>3 DEF UploadsInv, UploadsTypeOK
<1>5. item'[k] = i /\ \A o \in Keys \ {k} : item'[o] = item[o]
  BY <1>2 DEF UploadsInv, UploadsTypeOK
<1>6. \A f \in saved : f.key # k => f \in saved'
  <2>1. CASE item[k].status = "uploaded"
    BY <1>2, <2>1, OwnFile, RowOf DEF Kept
  <2>2. CASE item[k].status # "uploaded"
    BY <1>2, <2>2
  <2> QED BY <2>1, <2>2
<1>7. InTurn(i, net[k], locks[k])
  BY <1>1, RowOf DEF InTurn
<1>8. Kept(k, i, uploads[k], copies[k], saved')
  BY <1>1, <1>2, RowOf DEF Kept
<1>9. Row(k)'
  BY <1>2, <1>5, <1>7, <1>8, RowOf DEF Row
<1>10. Named(saved)'
  BY <1>3 DEF Named
<1> QED BY <1>2, <1>4, <1>5, <1>6, <1>9, <1>10, OthersStay

-----------------------------------------------------------------------------
(* The server's steps. *)

LEMMA ArriveInv ==
  ASSUME UploadsInv, NEW k \in Keys, Arrive(k)
  PROVE  UploadsInv'
<1>1. PICK r \in net[k] : /\ net' = [net EXCEPT ![k] = net[k] \ {r}]
                          /\ locks' = [locks EXCEPT ![k] = Append(locks[k], r)]
  BY DEF Arrive
<1>2. UNCHANGED <<item, uploads, saved, faults, copies>>
  BY DEF Arrive
<1>3. /\ Append(locks[k], r) \in Seq(Request) /\ InTurn(item[k], net[k] \ {r}, Append(locks[k], r))
      /\ Known(Append(locks[k], r), uploads[k])
  BY RowOf, InTurnArrives
<1>4. UploadsTypeOK'
  BY <1>1, <1>2, <1>3 DEF UploadsInv, UploadsTypeOK
<1>5. /\ net'[k] = net[k] \ {r} /\ locks'[k] = Append(locks[k], r)
      /\ \A o \in Keys \ {k} : net'[o] = net[o] /\ locks'[o] = locks[o]
  BY <1>1 DEF UploadsInv, UploadsTypeOK
<1>6. Row(k)'
  BY <1>2, <1>3, <1>5, RowOf DEF Row
<1> QED BY <1>2, <1>4, <1>5, <1>6, SavedStays

LEMMA IdleInv ==
  ASSUME UploadsAssumption, UploadsInv, NEW k \in Keys, Idle(k)
  PROVE  UploadsInv'
<1> DEFINE u == [uploads[k] EXCEPT !.idle = TRUE]
<1>1. /\ uploads[k] \in Upload /\ uploads' = [uploads EXCEPT ![k] = u] /\ locks[k] = <<>>
      /\ UNCHANGED <<item, net, locks, saved, faults, copies>>
  BY RowOf DEF Idle
<1>2. u \in Upload /\ u.offset = uploads[k].offset /\ u.file = uploads[k].file
      /\ u.attachment = uploads[k].attachment
  BY <1>1 DEF Upload
<1> HIDE DEF u
<1>3. UploadsTypeOK'
  BY <1>1, <1>2 DEF UploadsInv, UploadsTypeOK
<1>4. uploads'[k] = u /\ \A o \in Keys \ {k} : uploads'[o] = uploads[o]
  BY <1>1 DEF UploadsInv, UploadsTypeOK
<1>5. Kept(k, item[k], u, copies[k], saved)
  <2>1. uploads[k] # None
    BY DEF Idle
  <2>2. u # None
    BY <1>2 DEF UploadsAssumption
  <2> QED BY <1>2, <2>1, <2>2, RowOf DEF Kept, Confirmed
<1>6. Row(k)'
  BY <1>1, <1>4, <1>5, RowOf DEF Row, Known
<1> QED BY <1>1, <1>3, <1>4, <1>6, SavedStays

LEMMA ServingOne ==
  ASSUME UploadsInv, NEW k \in Keys, NEW step, Serving(k, step)
  PROVE  locks[k] # <<>> /\ locks[k] \in Seq(Request) /\ locks[k][1] = Head(locks[k]) /\ locks[k][1].step = step
         /\ locks[k][1] \in Request
BY RowOf, LockHead DEF Serving

\* The request that is served goes on to a step.
LEMMA GoesOn ==
  ASSUME UploadsInv, NEW k \in Keys, locks[k] # <<>>,
         NEW step \in {"start", "check", "make", "written", "reply"}, Goes(k, step)
  PROVE  /\ locks' \in [Keys -> Seq(Request)] /\ \A o \in Keys \ {k} : locks'[o] = locks[o]
         /\ locks'[k] # <<>> /\ locks'[k][1].step = step /\ InTurn(item[k], net[k], locks'[k])
<1> DEFINE next == Onward(locks[k], step)
<1>1. locks' = [locks EXCEPT ![k] = next]
  BY DEF Goes, Onward
<1>2. locks[k] \in Seq(Request) /\ InTurn(item[k], net[k], locks[k])
  BY RowOf
<1>3. next \in Seq(Request) /\ next # <<>> /\ next[1].step = step /\ InTurn(item[k], net[k], next)
  BY <1>2, InTurnGoes
<1> HIDE DEF next
<1> QED BY <1>1, <1>3 DEF UploadsInv, UploadsTypeOK

\* The request that is served is done, and the composer may have heard of it.
LEMMA DoneWith ==
  ASSUME UploadsInv, NEW k \in Keys, locks[k] # <<>>, Done(k), NEW i \in Item, i.sent => i.status = "uploading",
         item' = Answered(k, i)
  PROVE  /\ locks' \in [Keys -> Seq(Request)] /\ \A o \in Keys \ {k} : locks'[o] = locks[o]
         /\ item' \in [Keys -> Item] /\ \A o \in Keys \ {k} : item'[o] = item[o]
         /\ IF locks[k][1].live THEN item'[k] = i ELSE item'[k] = item[k]
         /\ InTurn(item'[k], net[k], locks'[k]) /\ \A u : Known(locks'[k], u)
<1>1. Tail(locks[k]) \in Seq(Request) /\ Head(locks[k]) = locks[k][1]
  BY RowOf, LockHead
<1>2. locks' = [locks EXCEPT ![k] = Tail(locks[k])]
  BY DEF Done
<1>3. /\ locks' \in [Keys -> Seq(Request)] /\ \A o \in Keys \ {k} : locks'[o] = locks[o]
      /\ locks'[k] = Tail(locks[k])
  BY <1>1, <1>2 DEF UploadsInv, UploadsTypeOK
<1>4. item' = IF locks[k][1].live THEN [item EXCEPT ![k] = i] ELSE item
  BY <1>1 DEF Answered
<1>5. /\ item' \in [Keys -> Item] /\ \A o \in Keys \ {k} : item'[o] = item[o]
      /\ IF locks[k][1].live THEN item'[k] = i ELSE item'[k] = item[k]
  BY <1>4 DEF UploadsInv, UploadsTypeOK
<1>6. item'[k] = item[k] \/ locks[k][1].live
  BY <1>5
<1>7. item'[k].sent => item'[k].status = "uploading"
  BY <1>5, RowOf DEF InTurn
<1>8. InTurn(item'[k], net[k], Tail(locks[k])) /\ \A u : Known(Tail(locks[k]), u)
  BY <1>6, <1>7, RowOf, InTurnDone
<1> QED BY <1>3, <1>5, <1>8

\* A refusal leaves what is known and kept.
LEMMA Refuses ==
  ASSUME UploadsAssumption, UploadsInv, NEW k \in Keys, locks[k] # <<>>, NEW retryable \in BOOLEAN,
         Refuse(k, retryable)
  PROVE  /\ locks' \in [Keys -> Seq(Request)] /\ \A o \in Keys \ {k} : locks'[o] = locks[o]
         /\ item' \in [Keys -> Item] /\ \A o \in Keys \ {k} : item'[o] = item[o]
         /\ item'[k] = item[k] \/ (item'[k].status # "uploaded" /\ item[k].status = "uploading")
         /\ InTurn(item'[k], net[k], locks'[k]) /\ \A u : Known(locks'[k], u)
         /\ UNCHANGED <<net, saved>>
<1> DEFINE i == IF retryable THEN TriedAgain(item[k]) ELSE Failed(item[k])
<1>1. Done(k) /\ item' = Answered(k, i) /\ UNCHANGED <<net, saved>>
  BY DEF Refuse
<1>2. i \in Item /\ ~i.sent /\ (item[k].status = "uploading" => i.status # "uploaded")
  BY RowOf, Fails
<1> HIDE DEF i
<1>3. /\ locks' \in [Keys -> Seq(Request)] /\ \A o \in Keys \ {k} : locks'[o] = locks[o]
      /\ item' \in [Keys -> Item] /\ \A o \in Keys \ {k} : item'[o] = item[o]
      /\ IF locks[k][1].live THEN item'[k] = i ELSE item'[k] = item[k]
      /\ InTurn(item'[k], net[k], locks'[k]) /\ \A u : Known(locks'[k], u)
  BY <1>1, <1>2, DoneWith
<1>4. locks[k][1].live => item[k].status = "uploading"
  BY RowOf, LockHead DEF InTurn
<1> QED BY <1>1, <1>2, <1>3, <1>4

\* What the upload was stays kept when the item only fails or tries again.
LEMMA KeptStays ==
  ASSUME NEW k, NEW i, NEW u, NEW n, NEW files, Kept(k, i, u, n, files),
         NEW j, j = i \/ (j.status # "uploaded" /\ i.status = "uploading")
  PROVE  Kept(k, j, u, n, files)
BY DEF Kept

LEMMA CheckInv ==
  ASSUME UploadsAssumption, UploadsInv, NEW k \in Keys, Check(k)
  PROVE  UploadsInv'
<1>1. locks[k] # <<>> /\ uploads[k] = None /\ UNCHANGED <<net, saved, uploads, faults, copies>>
  BY ServingOne DEF Check, Refuse
<1>2. CASE \E retryable \in BOOLEAN : Refuse(k, retryable)
  <2>1. /\ locks' \in [Keys -> Seq(Request)] /\ \A o \in Keys \ {k} : locks'[o] = locks[o]
        /\ item' \in [Keys -> Item] /\ \A o \in Keys \ {k} : item'[o] = item[o]
        /\ item'[k] = item[k] \/ (item'[k].status # "uploaded" /\ item[k].status = "uploading")
        /\ InTurn(item'[k], net[k], locks'[k]) /\ \A u : Known(locks'[k], u)
    BY <1>1, <1>2, Refuses
  <2>2. UploadsTypeOK'
    BY <1>1, <2>1 DEF UploadsInv, UploadsTypeOK
  <2>3. Kept(k, item'[k], uploads[k], copies[k], saved)
    BY <2>1, RowOf, KeptStays
  <2>4. Row(k)'
    BY <1>1, <2>1, <2>3 DEF Row
  <2> QED BY <1>1, <2>1, <2>2, <2>4, SavedStays
<1>3. CASE Goes(k, "make") /\ UNCHANGED item
  <2>1. /\ locks' \in [Keys -> Seq(Request)] /\ \A o \in Keys \ {k} : locks'[o] = locks[o]
        /\ locks'[k] # <<>> /\ locks'[k][1].step = "make" /\ InTurn(item[k], net[k], locks'[k])
    BY <1>1, <1>3, GoesOn
  <2>2. UploadsTypeOK'
    BY <1>1, <1>3, <2>1 DEF UploadsInv, UploadsTypeOK
  <2>3. Row(k)'
    BY <1>1, <1>3, <2>1, RowOf DEF Row, Known
  <2> QED BY <1>1, <1>3, <2>1, <2>2, <2>3, SavedStays
<1> QED BY <1>2, <1>3 DEF Check

LEMMA MakeInv ==
  ASSUME UploadsAssumption, UploadsInv, NEW k \in Keys, Make(k)
  PROVE  UploadsInv'
<1> DEFINE u == [offset |-> 0, file |-> <<>>, idle |-> FALSE, attachment |-> None]
<1>1. /\ locks[k] # <<>> /\ uploads[k] = None /\ Goes(k, "check") /\ uploads' = [uploads EXCEPT ![k] = u]
      /\ UNCHANGED <<item, net, saved, faults, copies>>
  BY ServingOne, RowOf DEF Make, Known
<1>2. u \in Upload /\ Confirmed(u) /\ u.attachment = None
  <2>1. 0 \in 0..Chunks /\ 0 # Chunks /\ <<>> \in Seq(0..Chunks) /\ Len(<<>>) = 0 /\ 1..0 = {}
    BY DEF UploadsAssumption
  <2> QED BY <2>1 DEF Upload, Confirmed
<1> HIDE DEF u
<1>3. /\ locks' \in [Keys -> Seq(Request)] /\ \A o \in Keys \ {k} : locks'[o] = locks[o]
      /\ locks'[k] # <<>> /\ locks'[k][1].step = "check" /\ InTurn(item[k], net[k], locks'[k])
  BY <1>1, GoesOn
<1>4. UploadsTypeOK'
  BY <1>1, <1>2, <1>3 DEF UploadsInv, UploadsTypeOK
<1>5. uploads'[k] = u /\ \A o \in Keys \ {k} : uploads'[o] = uploads[o]
  BY <1>1 DEF UploadsInv, UploadsTypeOK
<1>6. Kept(k, item[k], u, copies[k], saved)
  BY <1>1, <1>2, RowOf DEF Kept
<1>7. Row(k)'
  BY <1>1, <1>3, <1>5, <1>6 DEF Row, Known
<1> QED BY <1>1, <1>3, <1>4, <1>5, <1>7, SavedStays

\* Uploads nobody has used for long are forgotten, with what was saved of them.
LEMMA ExpireInv ==
  ASSUME UploadsAssumption, UploadsInv, NEW k \in Keys, expire(k)
  PROVE  UploadsInv'
<1>1. /\ locks[k] # <<>> /\ Goes(k, "check") /\ UNCHANGED <<item, net, saved, faults>>
      /\ uploads' = [o \in Keys |-> IF o \in Expired(k) THEN None ELSE uploads[o]]
      /\ copies' = [o \in Keys |-> IF o \in Expired(k) THEN 0 ELSE copies[o]]
  BY ServingOne DEF expire
<1>2. /\ locks' \in [Keys -> Seq(Request)] /\ \A o \in Keys \ {k} : locks'[o] = locks[o]
      /\ locks'[k] # <<>> /\ locks'[k][1].step = "check" /\ InTurn(item[k], net[k], locks'[k])
  BY <1>1, GoesOn
<1>3. UploadsTypeOK'
  BY <1>1, <1>2 DEF UploadsInv, UploadsTypeOK
<1>4. Named(saved)'
  BY <1>1 DEF UploadsInv, Named
<1>5. ASSUME NEW o \in Keys PROVE Row(o)'
  <2>1. \/ uploads'[o] = uploads[o] /\ copies'[o] = copies[o]
        \/ uploads'[o] = None /\ copies'[o] = 0 /\ (o = k \/ locks[o] = <<>>)
    BY <1>1 DEF Expired
  <2>2. InTurn(item[o], net[o], locks'[o])
    BY <1>2, RowOf
  <2>3. Known(locks'[o], uploads'[o])
    <3>1. CASE o = k
      BY <1>2, <3>1 DEF Known
    <3>2. CASE o # k
      BY <1>2, <2>1, <3>2, RowOf DEF Known
    <3> QED BY <3>1, <3>2
  <2>4. Kept(o, item[o], uploads'[o], copies'[o], saved)
    BY <2>1, RowOf DEF Kept
  <2> QED BY <1>1, <2>2, <2>3, <2>4 DEF Row
<1> QED BY <1>3, <1>4, <1>5 DEF UploadsInv

\* A known upload changes: what it confirms is as sent, and what it brought stays.
LEMMA KeptAs ==
  ASSUME NEW k, NEW i, NEW u, u # None, NEW n, NEW files, Kept(k, i, u, n, files),
         NEW v, v # None, Confirmed(v), v.attachment = u.attachment
  PROVE  Kept(k, i, v, n, files)
BY DEF Kept

LEMMA AcceptInv ==
  ASSUME UploadsAssumption, UploadsInv, NEW k \in Keys, Accept(k)
  PROVE  UploadsInv'
<1> DEFINE u == uploads[k]
           offset == Head(locks[k]).offset
<1>1. /\ locks[k] # <<>> /\ u # None /\ u \in Upload /\ UNCHANGED <<faults, copies>>
      /\ locks[k][1] \in Request /\ offset = locks[k][1].offset
  BY ServingOne, RowOf DEF Accept
<1>2. /\ Confirmed(u) /\ Kept(k, item[k], u, copies[k], saved) /\ None \notin Upload
  BY <1>1, RowOf DEF Kept, UploadsAssumption
<1>3. CASE offset > u.offset
  <2> DEFINE v == [u EXCEPT !.idle = FALSE]
  <2>1. Refuse(k, FALSE) /\ uploads' = [uploads EXCEPT ![k] = v]
    BY <1>3 DEF Accept
  <2>2. v \in Upload /\ v.offset = u.offset /\ v.file = u.file /\ v.attachment = u.attachment
    BY <1>1 DEF Upload
  <2>3. /\ locks' \in [Keys -> Seq(Request)] /\ \A o \in Keys \ {k} : locks'[o] = locks[o]
        /\ item' \in [Keys -> Item] /\ \A o \in Keys \ {k} : item'[o] = item[o]
        /\ item'[k] = item[k] \/ (item'[k].status # "uploaded" /\ item[k].status = "uploading")
        /\ InTurn(item'[k], net[k], locks'[k]) /\ \A w : Known(locks'[k], w)
        /\ UNCHANGED <<net, saved>>
    BY <1>1, <2>1, Refuses
  <2> HIDE DEF v, u, offset
  <2>4. UploadsTypeOK'
    BY <1>1, <2>1, <2>2, <2>3 DEF UploadsInv, UploadsTypeOK
  <2>5. uploads'[k] = v /\ \A o \in Keys \ {k} : uploads'[o] = uploads[o]
    BY <2>1 DEF UploadsInv, UploadsTypeOK
  <2>6. Confirmed(v) /\ v # None
    BY <1>2, <2>2 DEF Confirmed
  <2>7. Kept(k, item'[k], v, copies[k], saved)
    BY <1>1, <1>2, <2>2, <2>3, <2>6, KeptAs, KeptStays
  <2>8. Row(k)'
    BY <1>1, <2>3, <2>5, <2>7 DEF Row
  <2> QED BY <1>1, <2>3, <2>4, <2>5, <2>8, SavedStays
<1>4. CASE ~(offset > u.offset)
  <2> DEFINE w == IF offset = u.offset THEN Staged(u, offset + 1) ELSE u
             v == [w EXCEPT !.idle = FALSE]
  <2>1. uploads' = [uploads EXCEPT ![k] = v] /\ Goes(k, "written") /\ UNCHANGED <<item, net, saved>>
    BY <1>4 DEF Accept
  <2>2. w \in Upload /\ Confirmed(w) /\ w.attachment = u.attachment
    <3>1. CASE offset = u.offset
      <4> DEFINE file == Append(SubSeq(u.file, 1, u.offset), offset + 1)
      <4>1. u.offset < Chunks /\ u.offset \in Nat /\ offset + 1 \in 0..Chunks /\ u.offset + 1 \in 0..Chunks
        BY <1>1, <3>1, RequestFields, UploadFields DEF UploadsAssumption
      <4>2. /\ file \in Seq(0..Chunks) /\ Len(file) = u.offset + 1
            /\ \A c \in 1..u.offset : file[c] = c
            /\ file[u.offset + 1] = offset + 1
        <5> HIDE DEF u, offset
        <5> QED BY <1>1, <1>2, <4>1, Stages
      <4>3. /\ w = [u EXCEPT !.file = file, !.offset = u.offset + 1]
        BY <3>1 DEF Staged
      <4>4. u.attachment = None
        BY <1>2, <4>1 DEF Confirmed
      <4> HIDE DEF file, w, u, offset
      <4>5. w \in Upload /\ w.file = file /\ w.offset = u.offset + 1 /\ w.attachment = u.attachment
        BY <1>1, <4>1, <4>2, <4>3 DEF Upload
      <4>6. \A c \in 1..w.offset : w.file[c] = c
        BY <3>1, <4>1, <4>2, <4>5
      <4>7. w.offset = Chunks => w.file = Whole
        <5> SUFFICES ASSUME w.offset = Chunks PROVE w.file = Whole
          OBVIOUS
        <5>1. DOMAIN file = 1..Len(file)
          BY <4>2
        <5>2. file = [c \in 1..Len(file) |-> file[c]]
          BY <4>2, <5>1
        <5> QED BY <4>2, <4>5, <4>6, <5>2 DEF Whole
      <4> QED BY <4>1, <4>2, <4>4, <4>5, <4>6, <4>7 DEF Confirmed
    <3>2. CASE offset # u.offset
      BY <1>1, <1>2, <3>2
    <3> QED BY <3>1, <3>2
  <2>3. v \in Upload /\ v.offset = w.offset /\ v.file = w.file /\ v.attachment = w.attachment
    <3> HIDE DEF w
    <3> QED BY <2>2 DEF Upload
  <2>4. /\ locks' \in [Keys -> Seq(Request)] /\ \A o \in Keys \ {k} : locks'[o] = locks[o]
        /\ locks'[k] # <<>> /\ locks'[k][1].step = "written" /\ InTurn(item[k], net[k], locks'[k])
    BY <1>1, <2>1, GoesOn
  <2> HIDE DEF v, w, u, offset
  <2>5. UploadsTypeOK'
    BY <1>1, <2>1, <2>3, <2>4 DEF UploadsInv, UploadsTypeOK
  <2>6. uploads'[k] = v /\ \A o \in Keys \ {k} : uploads'[o] = uploads[o]
    BY <2>1 DEF UploadsInv, UploadsTypeOK
  <2>7. Confirmed(v) /\ v # None
    BY <1>2, <2>2, <2>3 DEF Confirmed
  <2>8. Kept(k, item[k], v, copies[k], saved)
    BY <1>1, <1>2, <2>2, <2>3, <2>7, KeptAs
  <2>9. Row(k)'
    BY <1>1, <2>1, <2>4, <2>6, <2>7, <2>8 DEF Row, Known
  <2> QED BY <1>1, <2>1, <2>4, <2>5, <2>6, <2>9, SavedStays
<1> QED BY <1>3, <1>4

LEMMA WriteFailsInv ==
  ASSUME UploadsAssumption, UploadsInv, NEW k \in Keys, WriteFails(k)
  PROVE  UploadsInv'
<1> DEFINE u == uploads[k]
           file == Append(SubSeq(u.file, 1, u.offset), 0)
           v == [u EXCEPT !.file = file, !.idle = FALSE]
<1>1. /\ locks[k] # <<>> /\ u # None /\ u \in Upload /\ UNCHANGED copies /\ Refuse(k, FALSE)
      /\ locks[k][1] \in Request /\ u.offset = locks[k][1].offset /\ faults' \in Nat
  BY ServingOne, RowOf, FaultsCount DEF WriteFails
<1>2. uploads' = [uploads EXCEPT ![k] = v]
  BY DEF WriteFails
<1>3. Confirmed(u) /\ Kept(k, item[k], u, copies[k], saved) /\ None \notin Upload
  BY <1>1, RowOf DEF Kept, UploadsAssumption
<1>4. u.offset < Chunks /\ u.offset \in Nat /\ 0 \in 0..Chunks
  BY <1>1, RequestFields DEF UploadsAssumption
<1>5. file \in Seq(0..Chunks) /\ Len(file) = u.offset + 1 /\ \A c \in 1..u.offset : file[c] = c
  <2> HIDE DEF u
  <2> QED BY <1>1, <1>3, <1>4, Stages
<1> HIDE DEF file, u
<1>6. v \in Upload /\ v.offset = u.offset /\ v.file = file /\ v.attachment = u.attachment
  BY <1>1, <1>5 DEF Upload
<1> HIDE DEF v
<1>7. Confirmed(v) /\ v # None
  BY <1>3, <1>4, <1>5, <1>6 DEF Confirmed
<1>8. /\ locks' \in [Keys -> Seq(Request)] /\ \A o \in Keys \ {k} : locks'[o] = locks[o]
      /\ item' \in [Keys -> Item] /\ \A o \in Keys \ {k} : item'[o] = item[o]
      /\ item'[k] = item[k] \/ (item'[k].status # "uploaded" /\ item[k].status = "uploading")
      /\ InTurn(item'[k], net[k], locks'[k]) /\ \A w : Known(locks'[k], w)
      /\ UNCHANGED <<net, saved>>
  BY <1>1, Refuses
<1>9. UploadsTypeOK'
  BY <1>1, <1>2, <1>6, <1>8 DEF UploadsInv, UploadsTypeOK
<1>10. uploads'[k] = v /\ \A o \in Keys \ {k} : uploads'[o] = uploads[o]
  BY <1>2 DEF UploadsInv, UploadsTypeOK
<1>11. Kept(k, item'[k], v, copies[k], saved)
  BY <1>1, <1>3, <1>6, <1>7, <1>8, KeptAs, KeptStays
<1>12. Row(k)'
  BY <1>1, <1>8, <1>10, <1>11 DEF Row
<1> QED BY <1>1, <1>8, <1>9, <1>10, <1>12, SavedStays

\* The complete file is saved under a name of its own.
LEMMA PersistInv ==
  ASSUME UploadsAssumption, UploadsInv, NEW k \in Keys, persist(k)
  PROVE  UploadsInv'
<1> DEFINE u == uploads[k]
           name == StoredName
           f == [name |-> name, key |-> k, file |-> u.file]
           v == [u EXCEPT !.attachment = name]
<1>1. /\ locks[k] # <<>> /\ u # None /\ u \in Upload /\ u.offset = Chunks /\ u.attachment = None
      /\ Goes(k, "reply") /\ UNCHANGED <<item, net, faults>>
  <2>1. locks[k] # <<>> /\ locks[k][1].step = "written" /\ u.offset = Chunks /\ u.attachment = None
        /\ Goes(k, "reply") /\ UNCHANGED <<item, net, faults>>
    BY ServingOne DEF persist, Unsaved
  <2> QED BY <2>1, RowOf DEF Known
<1>2. /\ saved' = saved \cup {f} /\ uploads' = [uploads EXCEPT ![k] = v]
      /\ copies' = [copies EXCEPT ![k] = copies[k] + 1]
  BY DEF persist
<1>3. Confirmed(u) /\ Kept(k, item[k], u, copies[k], saved) /\ None \notin Upload /\ None \notin Nat
  BY <1>1, RowOf DEF Kept, UploadsAssumption
<1>4. name \in Nat /\ name # None /\ \A g \in saved : g.name # name
  BY <1>3, StoredNameIsFree
<1> HIDE DEF name, u
<1>5. /\ v \in Upload /\ v.offset = u.offset /\ v.file = u.file /\ v.attachment = name
      /\ f \in File /\ f.name = name /\ f.key = k /\ f.file = Whole
  BY <1>1, <1>3, <1>4, UploadFields DEF Upload, File, Confirmed
<1>6. f = [name |-> name, key |-> k, file |-> Whole]
  BY <1>5
<1> HIDE DEF v, f
<1>7. copies[k] = 0
  BY <1>1, <1>3 DEF Kept
<1>8. /\ locks' \in [Keys -> Seq(Request)] /\ \A o \in Keys \ {k} : locks'[o] = locks[o]
      /\ locks'[k] # <<>> /\ locks'[k][1].step = "reply" /\ InTurn(item[k], net[k], locks'[k])
  BY <1>1, GoesOn
<1>9. saved' \in SUBSET File /\ IsFiniteSet(saved')
  BY <1>2, <1>5, FS_AddElement DEF UploadsInv, UploadsTypeOK
<1>10. UploadsTypeOK'
  <2>1. uploads' \in [Keys -> Upload \cup {None}]
    BY <1>2, <1>5 DEF UploadsInv, UploadsTypeOK
  <2>2. copies' \in [Keys -> Nat]
    BY <1>2, <1>7 DEF UploadsInv, UploadsTypeOK
  <2> QED BY <1>1, <1>8, <1>9, <2>1, <2>2 DEF UploadsInv, UploadsTypeOK
<1>11. /\ uploads'[k] = v /\ copies'[k] = 1
       /\ \A o \in Keys \ {k} : uploads'[o] = uploads[o] /\ copies'[o] = copies[o]
  BY <1>2, <1>7 DEF UploadsInv, UploadsTypeOK
<1>12. Named(saved)'
  BY <1>2, <1>4, <1>5 DEF UploadsInv, Named
<1>13. Confirmed(v) /\ v # None
  BY <1>1, <1>3, <1>5 DEF Confirmed
<1>14. Stored(k, name, saved') /\ (item[k].status = "uploaded" => Stored(k, item[k].attachment, saved'))
  BY <1>2, <1>3, <1>6 DEF Stored, Kept
<1>15. Kept(k, item[k], v, 1, saved')
  BY <1>4, <1>5, <1>13, <1>14 DEF Kept
<1>16. Known(locks'[k], v)
  BY <1>4, <1>5, <1>8, <1>13 DEF Known
<1>17. Row(k)'
  BY <1>1, <1>8, <1>11, <1>15, <1>16 DEF Row
<1> QED BY <1>1, <1>2, <1>8, <1>10, <1>11, <1>12, <1>17, OthersStay

LEMMA PersistFailsInv ==
  ASSUME UploadsAssumption, UploadsInv, NEW k \in Keys, PersistFails(k)
  PROVE  UploadsInv'
<1>1. locks[k] # <<>> /\ Refuse(k, FALSE) /\ UNCHANGED <<uploads, copies>> /\ faults' \in Nat
  BY ServingOne, FaultsCount DEF PersistFails
<1>2. /\ locks' \in [Keys -> Seq(Request)] /\ \A o \in Keys \ {k} : locks'[o] = locks[o]
      /\ item' \in [Keys -> Item] /\ \A o \in Keys \ {k} : item'[o] = item[o]
      /\ item'[k] = item[k] \/ (item'[k].status # "uploaded" /\ item[k].status = "uploading")
      /\ InTurn(item'[k], net[k], locks'[k]) /\ \A w : Known(locks'[k], w)
      /\ UNCHANGED <<net, saved>>
  BY <1>1, Refuses
<1>3. UploadsTypeOK'
  BY <1>1, <1>2 DEF UploadsInv, UploadsTypeOK
<1>4. Kept(k, item'[k], uploads[k], copies[k], saved)
  BY <1>2, RowOf, KeptStays
<1>5. Row(k)'
  BY <1>1, <1>2, <1>4 DEF Row
<1> QED BY <1>1, <1>2, <1>3, <1>5, SavedStays

\* An answer brings an attachment only of a file that is saved.
LEMMA ReplyInv ==
  ASSUME UploadsAssumption, UploadsInv, NEW k \in Keys, reply(k)
  PROVE  UploadsInv'
<1> DEFINE u == uploads[k]
           i == Arrived(item[k], u)
<1>1. /\ locks[k] # <<>> /\ Done(k) /\ item' = Answered(k, i) /\ Head(locks[k]) = locks[k][1]
      /\ UNCHANGED <<net, uploads, faults, copies>>
      /\ locks[k][1].step \in {"written", "reply"}
      /\ locks[k][1].step = "written" => ~Unsaved(u)
      /\ saved' = IF locks[k][1].live /\ item[k].removed /\ u.attachment # None
                  THEN saved \ Of(u.attachment) ELSE saved
  <2>1. \/ Serving(k, "reply")
        \/ Serving(k, "written") /\ ~Unsaved(u)
    BY DEF reply
  <2>2. locks[k] # <<>> /\ Head(locks[k]) = locks[k][1]
    BY <2>1, ServingOne
  <2>3. \/ locks[k][1].step = "reply"
        \/ locks[k][1].step = "written" /\ ~Unsaved(u)
    BY <2>1, ServingOne
  <2> QED BY <2>2, <2>3 DEF reply
<1>2. u # None /\ u \in Upload /\ Confirmed(u) /\ (u.offset = Chunks => u.attachment # None)
  <2>1. u # None
    BY <1>1, RowOf DEF Known
  <2>2. u \in Upload /\ Confirmed(u)
    BY <2>1, RowOf DEF Kept
  <2>3. u.offset = Chunks => u.attachment # None
    BY <1>1, RowOf DEF Known, Unsaved
  <2> QED BY <2>1, <2>2, <2>3
<1>3. u.offset \in 0..Chunks /\ (u.offset < Chunks => u.offset \in 0..Chunks - 1)
      /\ u.attachment \in Nat \cup {None} /\ Chunks \in Nat /\ 1 \in Nat
  BY <1>2, UploadFields DEF UploadsAssumption
<1> HIDE DEF u
<1>4. /\ i \in Item /\ ~i.sent
      /\ \/ u.offset < Chunks /\ i.status = item[k].status
         \/ u.offset = Chunks /\ item[k].removed /\ i.status = "gone"
         \/ u.offset = Chunks /\ ~item[k].removed /\ i.status = "uploaded" /\ i.attachment = u.attachment
  <2>1. item[k] \in Item
    BY RowOf
  <2>2. CASE u.offset < Chunks
    BY <1>3, <2>1, <2>2 DEF Arrived, Item
  <2>3. CASE u.offset = Chunks /\ item[k].removed
    BY <1>3, <2>1, <2>3 DEF Arrived, Item
  <2>4. CASE u.offset = Chunks /\ ~item[k].removed
    BY <1>3, <2>1, <2>4 DEF Arrived, Item
  <2>5. u.offset < Chunks \/ u.offset = Chunks
    BY <1>3
  <2> QED BY <2>1, <2>2, <2>3, <2>4, <2>5, ItemFields
<1> HIDE DEF i
<1>5. /\ locks' \in [Keys -> Seq(Request)] /\ \A o \in Keys \ {k} : locks'[o] = locks[o]
      /\ item' \in [Keys -> Item] /\ \A o \in Keys \ {k} : item'[o] = item[o]
      /\ IF locks[k][1].live THEN item'[k] = i ELSE item'[k] = item[k]
      /\ InTurn(item'[k], net[k], locks'[k]) /\ \A w : Known(locks'[k], w)
  BY <1>1, <1>4, DoneWith
<1>6. locks[k][1].live => item[k].status = "uploading"
  BY <1>1, RowOf, LockHead DEF InTurn
<1>7. saved' \in SUBSET File /\ IsFiniteSet(saved') /\ Named(saved')
  BY <1>1, Deletes DEF UploadsInv, UploadsTypeOK
<1>8. UploadsTypeOK'
  BY <1>1, <1>5, <1>7 DEF UploadsInv, UploadsTypeOK
<1>9. Kept(k, item[k], u, copies[k], saved)
  BY RowOf DEF u
<1>10. \A f \in saved : f.key # k => f \in saved'
  <2>1. CASE locks[k][1].live /\ item[k].removed /\ u.attachment # None
    <3>1. Stored(k, u.attachment, saved)
      BY <1>2, <1>6, <1>9, <2>1 DEF Kept
    <3> QED BY <1>1, <2>1, <3>1, OwnFile
  <2>2. CASE ~(locks[k][1].live /\ item[k].removed /\ u.attachment # None)
    BY <1>1, <2>2
  <2> QED BY <2>1, <2>2
<1>11. Kept(k, item'[k], u, copies[k], saved')
  <2>1. CASE ~locks[k][1].live
    BY <1>1, <1>5, <1>9, <2>1
  <2>2. CASE locks[k][1].live /\ u.offset < Chunks
    <3>1. saved' = saved /\ item'[k].status = item[k].status /\ item[k].status = "uploading"
      BY <1>1, <1>2, <1>3, <1>4, <1>5, <1>6, <2>2 DEF Confirmed
    <3> QED BY <1>9, <3>1 DEF Kept
  <2>3. CASE locks[k][1].live /\ u.offset = Chunks /\ item[k].removed
    <3>1. item'[k].status = "gone"
      BY <1>3, <1>4, <1>5, <2>3
    <3> QED BY <1>9, <3>1 DEF Kept
  <2>4. CASE locks[k][1].live /\ u.offset = Chunks /\ ~item[k].removed
    <3>1. item'[k].status = "uploaded" /\ item'[k].attachment = u.attachment /\ saved' = saved
          /\ u.attachment # None /\ item[k].status = "uploading"
      BY <1>1, <1>2, <1>3, <1>4, <1>5, <1>6, <2>4
    <3> QED BY <1>2, <1>9, <3>1 DEF Kept
  <2> QED BY <1>3, <2>1, <2>2, <2>3, <2>4
<1>12. Row(k)'
  BY <1>1, <1>5, <1>11 DEF Row, u
<1>13. Named(saved)'
  BY <1>7 DEF Named
<1> QED BY <1>1, <1>5, <1>8, <1>10, <1>12, <1>13, OthersStay

\* A server that comes back knows no upload; what was saved stays.
LEMMA RestartInv ==
  ASSUME UploadsAssumption, UploadsInv, Restart
  PROVE  UploadsInv'
<1>1. /\ uploads' = [k \in Keys |-> None] /\ locks' = [k \in Keys |-> <<>>] /\ copies' = [k \in Keys |-> 0]
      /\ item' = [k \in Keys |-> IF \E n \in DOMAIN locks[k] : locks[k][n].live
                                  THEN TriedAgain(item[k]) ELSE item[k]]
      /\ UNCHANGED <<net, saved>> /\ faults' \in Nat
  BY FaultsCount DEF Restart
<1>2. ASSUME NEW k \in Keys
      PROVE  /\ item'[k] \in Item /\ InTurn(item'[k], net[k], <<>>)
             /\ item'[k] = item[k] \/ (item'[k].status # "uploaded" /\ item[k].status = "uploading")
  <2>1. item'[k] = item[k] \/ (item'[k] = TriedAgain(item[k]) /\ \E n \in DOMAIN locks[k] : locks[k][n].live)
    BY <1>1
  <2>2. CASE item'[k] = item[k]
    BY <2>2, RowOf DEF InTurn
  <2>3. CASE item'[k] = TriedAgain(item[k]) /\ \E n \in DOMAIN locks[k] : locks[k][n].live
    <3>1. item[k].status = "uploading" /\ \A r \in net[k] : ~r.live /\ r.step = "start"
      BY <2>3, RowOf DEF InTurn
    <3>2. item'[k] \in Item /\ ~item'[k].sent /\ item'[k].status # "uploaded"
      BY <2>3, <3>1, RowOf, Fails
    <3> QED BY <3>1, <3>2 DEF InTurn
  <2> QED BY <2>1, <2>2, <2>3
<1>3. UploadsTypeOK'
  <2>1. item' \in [Keys -> Item]
    BY <1>1, <1>2
  <2>2. <<>> \in Seq(Request)
    OBVIOUS
  <2> QED BY <1>1, <2>1, <2>2 DEF UploadsInv, UploadsTypeOK
<1>4. Named(saved)'
  BY <1>1 DEF UploadsInv, Named
<1>5. ASSUME NEW k \in Keys PROVE Row(k)'
  <2>1. uploads'[k] = None /\ locks'[k] = <<>> /\ copies'[k] = 0 /\ net'[k] = net[k] /\ saved' = saved
    BY <1>1
  <2>2. Kept(k, item'[k], None, 0, saved)
    BY <1>2, RowOf DEF Kept
  <2> QED BY <1>2, <2>1, <2>2 DEF Row, Known
<1> QED BY <1>3, <1>4, <1>5 DEF UploadsInv

-----------------------------------------------------------------------------
(* The invariant. *)

LEMMA UploadsInvInit ==
  ASSUME UploadsAssumption, Init
  PROVE  UploadsInv
<1>1. [status |-> "none", removed |-> FALSE, offset |-> 0, attempt |-> 1, sent |-> FALSE, attachment |-> None] \in Item
  <2>1. 0 \in 0..Chunks - 1 /\ 1 \in Nat
    BY DEF UploadsAssumption
  <2> QED BY <2>1 DEF Item
<1>2. <<>> \in Seq(Request) /\ DOMAIN <<>> = {}
  OBVIOUS
<1>3. UploadsTypeOK
  BY <1>1, <1>2, FS_EmptySet DEF Init, UploadsTypeOK
<1>4. ASSUME NEW k \in Keys PROVE Row(k)
  <2>1. /\ ~item[k].sent /\ item[k].status = "none" /\ net[k] = {} /\ locks[k] = <<>>
        /\ uploads[k] = None /\ copies[k] = 0
    BY DEF Init
  <2> QED BY <1>2, <2>1 DEF Row, InTurn, Known, Kept
<1>5. Named(saved)
  BY DEF Init, Named
<1> QED BY <1>3, <1>4, <1>5 DEF UploadsInv

LEMMA UploadsInvNext ==
  ASSUME UploadsAssumption, UploadsInv, [Next]_vars
  PROVE  UploadsInv'
<1>1. CASE UNCHANGED vars
  BY <1>1 DEF vars, UploadsInv, UploadsTypeOK, Row, InTurn, Known, Kept, Named
<1>2. CASE Next
  BY <1>2, PickInv, SendInv, InterruptedInv, RemoveInv, ArriveInv, IdleInv, ExpireInv, CheckInv, MakeInv,
     AcceptInv, WriteFailsInv, PersistInv, PersistFailsInv, ReplyInv, RestartInv DEF Next, Serve
<1> QED BY <1>1, <1>2

LEMMA UploadsInvSaves ==
  ASSUME UploadsInv
  PROVE  SavedAsSent
<1>1. UploadedIsWhole
  BY RowOf DEF UploadedIsWhole, Kept, Stored
<1>2. SavedOnce
  <2> SUFFICES ASSUME NEW k \in Keys PROVE copies[k] <= 1
    BY DEF SavedOnce
  <2>1. copies[k] \in {0, 1}
    BY RowOf DEF Kept
  <2> QED BY <2>1
<1> QED BY <1>1, <1>2 DEF SavedAsSent

\* Attachments are saved as they were sent (chunked-uploads.ts, attachmentUpload.ts).
THEOREM UploadsAreSavedAsSent ==
  ASSUME UploadsAssumption
  PROVE  Spec => []SavedAsSent
BY UploadsInvInit, UploadsInvNext, UploadsInvSaves, PTL DEF Spec

-----------------------------------------------------------------------------
(***************************************************************************)
(* The transport below a socket (SocketTransport).                         *)
(***************************************************************************)
(* The inductive invariant. *)

Ack == [kind : {"ack"}, id : Nat, part : Nat]
Chunk == [kind : {"chunk"}, id : Nat, part : Nat, last : BOOLEAN, message : Transport!Message]
WholeMessage == [kind : {"whole"}, message : Transport!Message]
Frame == Ack \cup Chunk \cup WholeMessage \cup [kind : {"ready", "probe"}]
Incoming == [id : Nat, next : Nat]
Side == [enabled : BOOLEAN, decided : BOOLEAN, probing : BOOLEAN, failed : BOOLEAN,
         queue : Seq(Transport!Message), controls : Seq(Ack), outgoing : Transport!Transfer \cup {None},
         incoming : Incoming \cup {None}, nextId : Nat, lastIncomingId : Nat]

TransportTypeOK ==
  /\ legacy \in BOOLEAN /\ side \in [Transport!Sides -> Side] /\ frames \in [Transport!Sides -> Seq(Frame)]
  /\ given \in [Transport!Sides -> Seq(Transport!Message)]
     /\ got \in [Transport!Sides -> Seq(Transport!Message)]

\* The message that a frame completes, and the one that a transfer has yet to complete: its
\* number, or 0.
Completes(f) == f.kind = "whole" \/ (f.kind = "chunk" /\ f.last)
Carried(f) == IF Completes(f) THEN f.message.number ELSE 0
Moving(transfer) == IF transfer # None /\ transfer.next < Parts THEN transfer.message.number ELSE 0

\* What travels was sent.  Only a small message, the answer to a probe, has no number.
Genuine(flight, transfer, queue, all) ==
  /\ \A i \in DOMAIN flight : Completes(flight[i]) =>
       /\ flight[i].message.number # 0 =>
            flight[i].message.number \in DOMAIN all /\ flight[i].message = all[flight[i].message.number]
       /\ flight[i].kind = "chunk" => flight[i].message.number # 0
  /\ transfer # None =>
       transfer.message.number \in DOMAIN all /\ transfer.message = all[transfer.message.number]
  /\ \A i \in DOMAIN queue :
       /\ queue[i].number # 0 => queue[i].number \in DOMAIN all /\ queue[i] = all[queue[i].number]
       /\ queue[i].number = 0 => ~queue[i].large

\* Frames under way, then the transfer, then the queue: they bring what is missing, in order.
Line(flight, moving, queue, m, n) ==
  /\ \A i \in DOMAIN flight : Carried(flight[i]) # 0 =>
       /\ m < Carried(flight[i]) /\ (moving # 0 => Carried(flight[i]) < moving)
       /\ \A j \in DOMAIN flight : i < j /\ Carried(flight[j]) # 0 => Carried(flight[i]) < Carried(flight[j])
       /\ \A j \in DOMAIN queue : queue[j].number # 0 => Carried(flight[i]) < queue[j].number
  /\ moving # 0 => m < moving /\ \A j \in DOMAIN queue : queue[j].number # 0 => moving < queue[j].number
  /\ \A i \in DOMAIN queue : queue[i].number # 0 =>
       /\ m < queue[i].number
       /\ \A j \in DOMAIN queue : i < j /\ queue[j].number # 0 => queue[i].number < queue[j].number
  /\ \A k \in m + 1..n : \/ moving = k \/ (\E i \in DOMAIN flight : Carried(flight[i]) = k)
                         \/ (\E i \in DOMAIN queue : queue[i].number = k)

Flow(flight, transfer, queue, had, all, shut) ==
  /\ Len(had) <= Len(all) /\ \A n \in 1..Len(had) : had[n] = all[n]
  /\ Genuine(flight, transfer, queue, all)
  /\ shut \/ Line(flight, Moving(transfer), queue, Len(had), Len(all))

FlowOf(p) ==
  Flow(frames[p], side[p].outgoing, side[p].queue, got[Transport!Other(p)], given[p],
       side[Transport!Other(p)].failed)

TransportInv == TransportTypeOK /\ \A p \in Transport!Sides : FlowOf(p)

-----------------------------------------------------------------------------
(* Sequences and frames. *)

LEMMA Appended ==
  ASSUME NEW S, NEW s \in Seq(S), NEW x \in S
  PROVE  /\ Append(s, x) \in Seq(S) /\ Len(Append(s, x)) = Len(s) + 1 /\ Len(s) \in Nat
         /\ DOMAIN s = 1..Len(s) /\ DOMAIN Append(s, x) = 1..Len(s) + 1
         /\ Len(s) + 1 \in DOMAIN Append(s, x) /\ Append(s, x)[Len(s) + 1] = x
         /\ \A i \in DOMAIN s : i \in DOMAIN Append(s, x) /\ Append(s, x)[i] = s[i] /\ i < Len(s) + 1
            /\ s[i] \in S
         /\ \A i \in DOMAIN Append(s, x) : \/ i \in DOMAIN s /\ Append(s, x)[i] = s[i]
                                           \/ i = Len(s) + 1 /\ Append(s, x)[i] = x
<1>1. Append(s, x) \in Seq(S) /\ Len(Append(s, x)) = Len(s) + 1 /\ Len(s) \in Nat /\ DOMAIN s = 1..Len(s)
      /\ DOMAIN Append(s, x) = 1..Len(s) + 1 /\ Append(s, x)[Len(s) + 1] = x
      /\ \A i \in 1..Len(s) : Append(s, x)[i] = s[i] /\ s[i] \in S
  OBVIOUS
<1>2. Len(s) + 1 \in 1..Len(s) + 1 /\ \A i \in 1..Len(s) : i \in 1..Len(s) + 1 /\ i < Len(s) + 1
  BY <1>1
<1>3. \A i \in 1..Len(s) + 1 : i \in 1..Len(s) \/ i = Len(s) + 1
  BY <1>1
<1> QED BY <1>1, <1>2, <1>3

LEMMA Shifted ==
  ASSUME NEW S, NEW s \in Seq(S), s # <<>>
  PROVE  /\ Tail(s) \in Seq(S) /\ Head(s) = s[1] /\ Head(s) \in S /\ 1 \in DOMAIN s
         /\ \A i \in DOMAIN Tail(s) : i + 1 \in DOMAIN s /\ Tail(s)[i] = s[i + 1] /\ 1 < i + 1 /\ i \in Nat
         /\ \A i \in DOMAIN s : i = 1 \/ (i - 1 \in DOMAIN Tail(s) /\ Tail(s)[i - 1] = s[i] /\ 1 < i)
         /\ \A i \in DOMAIN s : s[i] \in S
<1>1. Len(s) \in Nat /\ Len(s) > 0 /\ DOMAIN s = 1..Len(s) /\ Head(s) = s[1] /\ \A i \in 1..Len(s) : s[i] \in S
  OBVIOUS
<1>2. Tail(s) \in Seq(S) /\ Len(Tail(s)) = Len(s) - 1 /\ DOMAIN Tail(s) = 1..Len(s) - 1
      /\ \A n \in 1..Len(s) - 1 : Tail(s)[n] = s[n + 1]
  BY <1>1
<1>3. \A i \in 1..Len(s) : i = 1 \/ (i - 1 \in 1..Len(s) - 1 /\ (i - 1) + 1 = i /\ 1 < i)
  BY <1>1
<1>4. \A i \in 1..Len(s) - 1 : i + 1 \in 1..Len(s) /\ 1 < i + 1 /\ i \in Nat
  BY <1>1
<1> QED BY <1>1, <1>2, <1>3, <1>4

LEMMA FrameFields ==
  ASSUME NEW f \in Frame
  PROVE  /\ f.kind \in {"ack", "chunk", "whole", "ready", "probe"}
         /\ f.kind = "ack" => f.id \in Nat /\ f.part \in Nat
         /\ f.kind = "chunk" => f.id \in Nat /\ f.part \in Nat /\ f.last \in BOOLEAN
            /\ f.message \in Transport!Message
         /\ f.kind = "whole" => f.message \in Transport!Message
         /\ Carried(f) \in Nat
<1>1. \A m \in Transport!Message : m.number \in Nat
  BY DEF Transport!Message
<1> QED BY <1>1 DEF Frame, Ack, Chunk, WholeMessage, Carried, Completes

LEMMA MessageFields ==
  ASSUME NEW m \in Transport!Message
  PROVE  m.number \in Nat /\ m.large \in BOOLEAN
BY DEF Transport!Message

LEMMA TransferFields ==
  ASSUME NEW t \in Transport!Transfer
  PROVE  t.id \in Nat /\ t.message \in Transport!Message /\ t.next \in 0..Parts /\ t.acknowledged \in 0..Parts
BY DEF Transport!Transfer

LEMMA MovingIs ==
  ASSUME NEW t \in Transport!Transfer \cup {None}
  PROVE  Moving(t) \in Nat
BY TransferFields, MessageFields DEF Moving

-----------------------------------------------------------------------------
(* What a step does to the flow of one side. *)

\* A frame that completes nothing is put behind the others.
LEMMA FrameAdded ==
  ASSUME NEW flight \in Seq(Frame), NEW transfer, NEW queue, NEW had, NEW all, NEW shut,
         Flow(flight, transfer, queue, had, all, shut), NEW f \in Frame, ~Completes(f)
  PROVE  Flow(Append(flight, f), transfer, queue, had, all, shut)
<1> DEFINE longer == Append(flight, f)
<1>1. /\ \A i \in DOMAIN flight : i \in DOMAIN longer /\ longer[i] = flight[i]
      /\ \A i \in DOMAIN longer : (i \in DOMAIN flight /\ longer[i] = flight[i]) \/ longer[i] = f
  BY Appended
<1>2. Carried(f) = 0
  BY DEF Carried
<1> HIDE DEF longer
<1>3. Genuine(longer, transfer, queue, all)
  BY <1>1 DEF Flow, Genuine
<1>4. ASSUME Line(flight, Moving(transfer), queue, Len(had), Len(all))
      PROVE  Line(longer, Moving(transfer), queue, Len(had), Len(all))
  BY <1>1, <1>2, <1>4 DEF Line
<1> QED BY <1>3, <1>4 DEF Flow, longer

\* A message is queued behind all that travel.
LEMMA MessageSent ==
  ASSUME NEW flight \in Seq(Frame), NEW transfer \in Transport!Transfer \cup {None},
         NEW queue \in Seq(Transport!Message),
         NEW had \in Seq(Transport!Message), NEW all \in Seq(Transport!Message), NEW shut,
         Flow(flight, transfer, queue, had, all, shut),
         NEW x \in Transport!Message, x.number = Len(all) + 1
  PROVE  Flow(flight, transfer, Append(queue, x), had, Append(all, x), shut)
<1> DEFINE longer == Append(queue, x)
           more == Append(all, x)
           n == Len(all)
<1>1. /\ \A i \in DOMAIN queue : i \in DOMAIN longer /\ longer[i] = queue[i] /\ i < Len(queue) + 1
                                 /\ queue[i] \in Transport!Message
      /\ \A i \in DOMAIN longer : (i \in DOMAIN queue /\ longer[i] = queue[i])
         \/ (i = Len(queue) + 1 /\ longer[i] = x)
      /\ Len(queue) + 1 \in DOMAIN longer /\ longer[Len(queue) + 1] = x /\ Len(queue) \in Nat
      /\ DOMAIN queue = 1..Len(queue)
  BY Appended
<1>2. /\ \A i \in DOMAIN all : i \in DOMAIN more /\ more[i] = all[i]
      /\ n + 1 \in DOMAIN more /\ more[n + 1] = x /\ n \in Nat /\ Len(more) = n + 1 /\ DOMAIN all = 1..n
  BY Appended
<1> HIDE DEF longer, more, n
<1>3. Len(had) <= Len(more) /\ \A i \in 1..Len(had) : had[i] = more[i]
  <2>1. Len(had) \in Nat /\ Len(had) <= n
    BY DEF Flow, n
  <2> QED BY <1>2, <2>1 DEF Flow, n
<1>4. Genuine(flight, transfer, longer, more)
  <2>1. x.number # 0 /\ x.number = n + 1
    BY <1>2 DEF n
  <2>2. \A m : (m.number \in DOMAIN all /\ m = all[m.number]) => m.number \in DOMAIN more /\ m = more[m.number]
    BY <1>2
  <2>3. \A i \in DOMAIN longer : /\ longer[i].number # 0 => longer[i].number \in DOMAIN more
                                  /\ longer[i] = more[longer[i].number]
                                 /\ longer[i].number = 0 => ~longer[i].large
    <3> TAKE i \in DOMAIN longer
    <3>1. CASE i \in DOMAIN queue /\ longer[i] = queue[i]
      BY <2>2, <3>1 DEF Flow, Genuine
    <3>2. CASE longer[i] = x
      BY <1>2, <2>1, <3>2
    <3> QED BY <1>1, <3>1, <3>2
  <2> QED BY <2>2, <2>3 DEF Flow, Genuine
<1>5. ASSUME Line(flight, Moving(transfer), queue, Len(had), n)
      PROVE  Line(flight, Moving(transfer), longer, Len(had), n + 1)
  <2>1. /\ \A i \in DOMAIN flight : Carried(flight[i]) # 0 => Carried(flight[i]) < n + 1
        /\ Moving(transfer) # 0 => Moving(transfer) < n + 1
        /\ \A i \in DOMAIN queue : queue[i].number # 0 => queue[i].number < n + 1
    BY <1>2 DEF Flow, Genuine, Carried, Moving
  <2>2. x.number = n + 1 /\ Len(had) \in Nat /\ Len(had) < n + 1
    BY <1>2 DEF Flow, n
  <2>3. \A k \in Len(had) + 1..n + 1 : k = n + 1 \/ k \in Len(had) + 1..n
    BY <1>2, <2>2
  <2>4. \A i, j \in DOMAIN longer : i < j => i \in DOMAIN queue /\ longer[i] = queue[i]
    BY <1>1
  <2>5. \A i \in DOMAIN flight : Carried(flight[i]) # 0 => \A j \in DOMAIN longer :
          longer[j].number # 0 => Carried(flight[i]) < longer[j].number
    BY <1>1, <1>5, <2>1, <2>2 DEF Line
  <2>6. Moving(transfer) # 0 => \A j \in DOMAIN longer : longer[j].number # 0
        => Moving(transfer) < longer[j].number
    BY <1>1, <1>5, <2>1, <2>2 DEF Line
  <2>7. \A i \in DOMAIN longer : longer[i].number # 0 =>
          /\ Len(had) < longer[i].number
          /\ \A j \in DOMAIN longer : i < j /\ longer[j].number # 0 => longer[i].number < longer[j].number
    <3> TAKE i \in DOMAIN longer
    <3>1. longer[i].number # 0 => Len(had) < longer[i].number
      BY <1>1, <1>5, <2>2 DEF Line
    <3>2. ASSUME NEW j \in DOMAIN longer, i < j, longer[i].number # 0, longer[j].number # 0
          PROVE  longer[i].number < longer[j].number
      BY <1>1, <1>5, <2>1, <2>2, <2>4, <3>2 DEF Line
    <3> QED BY <3>1, <3>2
  <2>8. \A k \in Len(had) + 1..n + 1 : \/ Moving(transfer) = k \/ (\E i \in DOMAIN flight : Carried(flight[i]) = k)
                                       \/ (\E i \in DOMAIN longer : longer[i].number = k)
    <3> TAKE k \in Len(had) + 1..n + 1
    <3>1. CASE k = n + 1
      BY <1>1, <2>2, <3>1
    <3>2. CASE k \in Len(had) + 1..n
      BY <1>1, <1>5, <3>2 DEF Line
    <3> QED BY <2>3, <3>1, <3>2
  <2> QED BY <1>5, <2>5, <2>6, <2>7, <2>8 DEF Line
<1> QED BY <1>2, <1>3, <1>4, <1>5 DEF Flow, longer, more, n

\* The answer to a probe is queued: it has no number.
LEMMA AnswerAdded ==
  ASSUME NEW flight, NEW transfer, NEW queue \in Seq(Transport!Message), NEW had, NEW all, NEW shut,
         Flow(flight, transfer, queue, had, all, shut),
         NEW x \in Transport!Message, x.number = 0, ~x.large
  PROVE  Flow(flight, transfer, Append(queue, x), had, all, shut)
<1> DEFINE longer == Append(queue, x)
<1>1. /\ \A i \in DOMAIN queue : i \in DOMAIN longer /\ longer[i] = queue[i]
      /\ \A i \in DOMAIN longer : (i \in DOMAIN queue /\ longer[i] = queue[i]) \/ longer[i] = x
  BY Appended
<1> HIDE DEF longer
<1>2. Genuine(flight, transfer, longer, all)
  BY <1>1 DEF Flow, Genuine
<1>3. ASSUME Line(flight, Moving(transfer), queue, Len(had), Len(all))
      PROVE  Line(flight, Moving(transfer), longer, Len(had), Len(all))
  BY <1>1, <1>3 DEF Line
<1> QED BY <1>2, <1>3 DEF Flow, longer

\* The first message of the queue goes out whole.
LEMMA WholeWritten ==
  ASSUME NEW flight \in Seq(Frame), NEW queue \in Seq(Transport!Message), queue # <<>>,
         NEW had \in Seq(Transport!Message), NEW all \in Seq(Transport!Message), NEW shut,
         Flow(flight, None, queue, had, all, shut),
         NEW f \in Frame, f.kind = "whole", f.message = Head(queue)
  PROVE  Flow(Append(flight, f), None, Tail(queue), had, all, shut)
<1> DEFINE longer == Append(flight, f)
           rest == Tail(queue)
<1>1. /\ \A i \in DOMAIN flight : i \in DOMAIN longer /\ longer[i] = flight[i] /\ i < Len(flight) + 1
      /\ \A i \in DOMAIN longer : (i \in DOMAIN flight /\ longer[i] = flight[i])
         \/ (i = Len(flight) + 1 /\ longer[i] = f)
      /\ Len(flight) + 1 \in DOMAIN longer /\ longer[Len(flight) + 1] = f /\ Len(flight) \in Nat
      /\ DOMAIN flight = 1..Len(flight)
  BY Appended
<1>2. /\ 1 \in DOMAIN queue /\ f.message = queue[1]
      /\ \A i \in DOMAIN rest : i + 1 \in DOMAIN queue /\ rest[i] = queue[i + 1] /\ 1 < i + 1 /\ i \in Nat
      /\ \A i \in DOMAIN queue : i = 1 \/ (i - 1 \in DOMAIN rest /\ rest[i - 1] = queue[i])
  BY Shifted
<1>3. Completes(f) /\ Carried(f) = queue[1].number
  BY <1>2 DEF Completes, Carried
<1> HIDE DEF longer, rest
<1>4. Genuine(longer, None, rest, all)
  <2>1. ASSUME NEW i \in DOMAIN longer, Completes(longer[i])
        PROVE  /\ longer[i].message.number # 0 => longer[i].message.number \in DOMAIN all
                                                 /\ longer[i].message = all[longer[i].message.number]
               /\ longer[i].kind = "chunk" => longer[i].message.number # 0
    <3>1. CASE i \in DOMAIN flight /\ longer[i] = flight[i]
      BY <2>1, <3>1 DEF Flow, Genuine
    <3>2. CASE longer[i] = f
      BY <1>2, <3>2 DEF Flow, Genuine
    <3> QED BY <1>1, <3>1, <3>2
  <2>2. \A i \in DOMAIN rest : /\ rest[i].number # 0 => rest[i].number \in DOMAIN all /\ rest[i] = all[rest[i].number]
                               /\ rest[i].number = 0 => ~rest[i].large
    BY <1>2 DEF Flow, Genuine
  <2> QED BY <2>1, <2>2 DEF Genuine
<1>5. ASSUME NEW m \in Nat, NEW n \in Nat, Line(flight, 0, queue, m, n)
      PROVE  Line(longer, 0, rest, m, n)
  <2>1. \A i, j \in DOMAIN longer : i < j => i \in DOMAIN flight /\ longer[i] = flight[i]
    BY <1>1
  <2>2. \A i, j \in DOMAIN rest : i < j => i + 1 < j + 1
    BY <1>2
  <2>3. \A i \in DOMAIN longer : Carried(longer[i]) # 0 =>
          /\ m < Carried(longer[i])
          /\ \A j \in DOMAIN longer : i < j /\ Carried(longer[j]) # 0 => Carried(longer[i]) < Carried(longer[j])
          /\ \A j \in DOMAIN rest : rest[j].number # 0 => Carried(longer[i]) < rest[j].number
    <3> SUFFICES ASSUME NEW i \in DOMAIN longer, Carried(longer[i]) # 0
                 PROVE  /\ m < Carried(longer[i])
                        /\ \A j \in DOMAIN longer : i < j /\ Carried(longer[j]) # 0
                           => Carried(longer[i]) < Carried(longer[j])
                        /\ \A j \in DOMAIN rest : rest[j].number # 0 => Carried(longer[i]) < rest[j].number
      OBVIOUS
    <3>1. CASE i \in DOMAIN flight /\ longer[i] = flight[i]
      <4>1. m < Carried(longer[i]) /\ \A j \in DOMAIN rest : rest[j].number # 0
            => Carried(longer[i]) < rest[j].number
        BY <1>2, <1>5, <3>1 DEF Line
      <4>2. ASSUME NEW j \in DOMAIN longer, i < j, Carried(longer[j]) # 0
            PROVE  Carried(longer[i]) < Carried(longer[j])
        <5>1. CASE j \in DOMAIN flight /\ longer[j] = flight[j]
          BY <1>5, <3>1, <4>2, <5>1 DEF Line
        <5>2. CASE longer[j] = f
          BY <1>2, <1>3, <1>5, <3>1, <4>2, <5>2 DEF Line
        <5> QED BY <1>1, <5>1, <5>2
      <4> QED BY <4>1, <4>2
    <3>2. CASE i = Len(flight) + 1 /\ longer[i] = f
      <4>1. m < Carried(longer[i]) /\ \A j \in DOMAIN rest : rest[j].number # 0
            => Carried(longer[i]) < rest[j].number
        BY <1>2, <1>3, <1>5, <3>2 DEF Line
      <4>2. \A j \in DOMAIN longer : ~(i < j)
        BY <1>1, <3>2
      <4> QED BY <4>1, <4>2
    <3> QED BY <1>1, <3>1, <3>2
  <2>4. \A i \in DOMAIN rest : rest[i].number # 0 =>
          /\ m < rest[i].number
          /\ \A j \in DOMAIN rest : i < j /\ rest[j].number # 0 => rest[i].number < rest[j].number
    BY <1>2, <1>5, <2>2 DEF Line
  <2>5. \A k \in m + 1..n : (\E i \in DOMAIN longer : Carried(longer[i]) = k)
        \/ (\E i \in DOMAIN rest : rest[i].number = k)
    <3> TAKE k \in m + 1..n
    <3>1. k # 0
      OBVIOUS
    <3>2. CASE \E i \in DOMAIN flight : Carried(flight[i]) = k
      BY <1>1, <3>2
    <3>3. CASE \E i \in DOMAIN queue : queue[i].number = k
      BY <1>1, <1>2, <1>3, <3>3
    <3> QED BY <1>5, <3>1, <3>2, <3>3 DEF Line
  <2> QED BY <2>3, <2>4, <2>5 DEF Line
<1>6. Moving(None) = 0
  BY DEF Moving
<1>7. Len(had) \in Nat /\ Len(all) \in Nat
  OBVIOUS
<1> QED BY <1>4, <1>5, <1>6, <1>7 DEF Flow, longer, rest

\* The first message of the queue becomes the transfer.
LEMMA TransferStarted ==
  ASSUME NEW flight, NEW queue \in Seq(Transport!Message), queue # <<>>, NEW had \in Seq(Transport!Message),
         NEW all \in Seq(Transport!Message), NEW shut,
         Flow(flight, None, queue, had, all, shut), Head(queue).large,
         NEW t, t # None, t.message = Head(queue), t.next = 0, 0 < Parts
  PROVE  Flow(flight, t, Tail(queue), had, all, shut)
<1> DEFINE rest == Tail(queue)
<1>1. /\ 1 \in DOMAIN queue /\ t.message = queue[1]
      /\ \A i \in DOMAIN rest : i + 1 \in DOMAIN queue /\ rest[i] = queue[i + 1] /\ 1 < i + 1 /\ i \in Nat
      /\ \A i \in DOMAIN queue : i = 1 \/ (i - 1 \in DOMAIN rest /\ rest[i - 1] = queue[i])
  BY Shifted
<1> HIDE DEF rest
<1>2. t.message.number # 0 /\ Moving(t) = queue[1].number
  BY <1>1 DEF Flow, Genuine, Moving
<1>3. Genuine(flight, t, rest, all)
  BY <1>1, <1>2 DEF Flow, Genuine
<1>4. ASSUME NEW m \in Nat, NEW n \in Nat, Line(flight, 0, queue, m, n)
      PROVE  Line(flight, Moving(t), rest, m, n)
  <2>1. \A i, j \in DOMAIN rest : i < j => i + 1 < j + 1
    BY <1>1
  <2>2. \A i \in DOMAIN rest : rest[i].number # 0 =>
          /\ m < rest[i].number /\ Moving(t) < rest[i].number
          /\ \A j \in DOMAIN rest : i < j /\ rest[j].number # 0 => rest[i].number < rest[j].number
    BY <1>1, <1>2, <1>4, <2>1 DEF Line
  <2>3. \A k \in m + 1..n : \/ Moving(t) = k \/ (\E i \in DOMAIN flight : Carried(flight[i]) = k)
                            \/ (\E i \in DOMAIN rest : rest[i].number = k)
    <3> TAKE k \in m + 1..n
    <3>1. k # 0
      OBVIOUS
    <3>2. CASE \E i \in DOMAIN queue : queue[i].number = k
      <4>1. PICK i \in DOMAIN queue : queue[i].number = k
        BY <3>2
      <4>2. CASE i = 1
        BY <1>2, <4>1, <4>2
      <4>3. CASE i - 1 \in DOMAIN rest /\ rest[i - 1] = queue[i]
        BY <4>1, <4>3
      <4> QED BY <1>1, <4>2, <4>3
    <3> QED BY <1>4, <3>1, <3>2 DEF Line
  <2> QED BY <1>1, <1>2, <1>4, <2>2, <2>3 DEF Line
<1>5. Moving(None) = 0
  BY DEF Moving
<1>6. Len(had) \in Nat /\ Len(all) \in Nat
  OBVIOUS
<1> QED BY <1>3, <1>4, <1>5, <1>6 DEF Flow, rest

\* A chunk goes out; the last one completes the message.
LEMMA ChunkWritten ==
  ASSUME NEW flight \in Seq(Frame), NEW t \in Transport!Transfer, t # None, t.next < Parts, Parts \in Nat,
         NEW queue, NEW had \in Seq(Transport!Message), NEW all \in Seq(Transport!Message), NEW shut,
         Flow(flight, t, queue, had, all, shut),
         NEW f \in Frame, f.kind = "chunk", f.last <=> t.next = Parts - 1, f.message = t.message,
         NEW u, u # None, u.message = t.message, u.next = t.next + 1
  PROVE  Flow(Append(flight, f), u, queue, had, all, shut)
<1> DEFINE longer == Append(flight, f)
           n == t.message.number
<1>1. /\ \A i \in DOMAIN flight : i \in DOMAIN longer /\ longer[i] = flight[i] /\ i < Len(flight) + 1
      /\ \A i \in DOMAIN longer : (i \in DOMAIN flight /\ longer[i] = flight[i])
         \/ (i = Len(flight) + 1 /\ longer[i] = f)
      /\ Len(flight) + 1 \in DOMAIN longer /\ longer[Len(flight) + 1] = f /\ Len(flight) \in Nat
      /\ DOMAIN flight = 1..Len(flight)
  BY Appended
<1>2. t.next \in Nat
  BY TransferFields
<1>3. n \in DOMAIN all /\ t.message = all[n] /\ n # 0
  <2>1. DOMAIN all = 1..Len(all) /\ Len(all) \in Nat
    OBVIOUS
  <2> QED BY <2>1 DEF Flow, Genuine
<1>4. Moving(t) = n
  BY DEF Moving
<1>5. \/ f.last /\ Carried(f) = n /\ Moving(u) = 0
      \/ ~f.last /\ Carried(f) = 0 /\ Moving(u) = n
  <2>1. CASE t.next = Parts - 1
    BY <1>2, <2>1 DEF Carried, Completes, Moving
  <2>2. CASE t.next # Parts - 1
    BY <1>2, <2>2 DEF Carried, Completes, Moving
  <2> QED BY <2>1, <2>2
<1> HIDE DEF longer, n
<1>6. Genuine(longer, u, queue, all)
  <2>1. ASSUME NEW i \in DOMAIN longer, Completes(longer[i])
        PROVE  /\ longer[i].message.number # 0 => longer[i].message.number \in DOMAIN all
                                                 /\ longer[i].message = all[longer[i].message.number]
               /\ longer[i].kind = "chunk" => longer[i].message.number # 0
    <3>1. CASE i \in DOMAIN flight /\ longer[i] = flight[i]
      BY <2>1, <3>1 DEF Flow, Genuine
    <3>2. CASE longer[i] = f
      BY <1>3, <3>2 DEF n
    <3> QED BY <1>1, <3>1, <3>2
  <2> QED BY <2>1 DEF Flow, Genuine
<1>7. Len(had) \in Nat /\ Len(all) \in Nat
  OBVIOUS
<1>8. ASSUME NEW m \in Nat, NEW k \in Nat, Line(flight, n, queue, m, k), f.last, Carried(f) = n
      PROVE  Line(longer, 0, queue, m, k)
  <2>1. \A i, j \in DOMAIN longer : i < j => i \in DOMAIN flight /\ longer[i] = flight[i]
    BY <1>1
  <2>2. ASSUME NEW i \in DOMAIN longer, Carried(longer[i]) # 0
        PROVE  /\ m < Carried(longer[i])
               /\ \A j \in DOMAIN longer : i < j /\ Carried(longer[j]) # 0
                  => Carried(longer[i]) < Carried(longer[j])
               /\ \A j \in DOMAIN queue : queue[j].number # 0 => Carried(longer[i]) < queue[j].number
    <3>1. CASE i \in DOMAIN flight /\ longer[i] = flight[i]
      <4>1. m < Carried(longer[i]) /\ Carried(longer[i]) < n
            /\ \A j \in DOMAIN queue : queue[j].number # 0 => Carried(longer[i]) < queue[j].number
        BY <1>3, <1>8, <2>2, <3>1 DEF Line
      <4>2. ASSUME NEW j \in DOMAIN longer, i < j, Carried(longer[j]) # 0
            PROVE  Carried(longer[i]) < Carried(longer[j])
        <5>1. CASE j \in DOMAIN flight /\ longer[j] = flight[j]
          BY <1>8, <2>2, <3>1, <4>2, <5>1 DEF Line
        <5>2. CASE longer[j] = f
          BY <1>8, <4>1, <5>2
        <5> QED BY <1>1, <5>1, <5>2
      <4> QED BY <4>1, <4>2
    <3>2. CASE i = Len(flight) + 1 /\ longer[i] = f
      <4>1. m < Carried(longer[i]) /\ \A j \in DOMAIN queue : queue[j].number # 0
            => Carried(longer[i]) < queue[j].number
        BY <1>3, <1>8, <3>2 DEF Line
      <4>2. \A j \in DOMAIN longer : ~(i < j)
        BY <1>1, <3>2
      <4> QED BY <4>1, <4>2
    <3> QED BY <1>1, <3>1, <3>2
  <2>3. \A j \in m + 1..k : (\E i \in DOMAIN longer : Carried(longer[i]) = j)
        \/ (\E i \in DOMAIN queue : queue[i].number = j)
    BY <1>1, <1>8 DEF Line
  <2> QED BY <1>8, <2>2, <2>3 DEF Line
<1>9. ASSUME NEW m \in Nat, NEW k \in Nat, Line(flight, n, queue, m, k), Carried(f) = 0
      PROVE  Line(longer, n, queue, m, k)
  BY <1>1, <1>9 DEF Line
<1> QED BY <1>4, <1>5, <1>6, <1>7, <1>8, <1>9 DEF Flow, longer

\* An acknowledgement leaves what moves as it is.
LEMMA Acknowledged ==
  ASSUME NEW flight, NEW t, t # None, NEW queue, NEW had, NEW all, NEW shut, Flow(flight, t, queue, had, all, shut),
         NEW u, \/ u = None /\ t.next = Parts
                \/ u # None /\ u.message = t.message /\ u.next = t.next,
         Parts \in Nat
  PROVE  Flow(flight, u, queue, had, all, shut)
<1>1. Moving(u) = Moving(t)
  BY DEF Moving
<1> QED BY <1>1 DEF Flow, Genuine

\* The first frame arrives at a side that is open, or ends its connection.
LEMMA FrameTaken ==
  ASSUME NEW flight \in Seq(Frame), flight # <<>>, NEW transfer \in Transport!Transfer \cup {None},
         NEW queue \in Seq(Transport!Message),
         NEW had \in Seq(Transport!Message), NEW all \in Seq(Transport!Message), NEW shut,
         Flow(flight, transfer, queue, had, all, shut)
  PROVE  /\ Flow(Tail(flight), transfer, queue, had, all, TRUE)
         /\ Carried(Head(flight)) = 0 => Flow(Tail(flight), transfer, queue, had, all, shut)
         /\ Carried(Head(flight)) # 0 /\ ~shut =>
              Flow(Tail(flight), transfer, queue, Append(had, Head(flight).message), all, shut)
<1> DEFINE f == flight[1]
           rest == Tail(flight)
           n == Len(all)
           m == Len(had)
<1>1. /\ 1 \in DOMAIN flight /\ Head(flight) = f /\ f \in Frame
      /\ \A i \in DOMAIN rest : i + 1 \in DOMAIN flight /\ rest[i] = flight[i + 1] /\ 1 < i + 1 /\ i \in Nat
      /\ \A i \in DOMAIN flight : i = 1 \/ (i - 1 \in DOMAIN rest /\ rest[i - 1] = flight[i] /\ 1 < i)
      /\ \A i \in DOMAIN flight : flight[i] \in Frame
  BY Shifted
<1>2. m \in Nat /\ n \in Nat /\ DOMAIN all = 1..n
  OBVIOUS
<1>3. Genuine(rest, transfer, queue, all)
  BY <1>1 DEF Flow, Genuine
<1>4. \A i, j \in DOMAIN rest : i < j => i + 1 < j + 1
  BY <1>1
<1> HIDE DEF f, rest, n, m
<1>5. ASSUME Line(flight, Moving(transfer), queue, m, n), Carried(f) = 0
      PROVE  Line(rest, Moving(transfer), queue, m, n)
  <2>1. \A k \in m + 1..n : \/ Moving(transfer) = k \/ (\E i \in DOMAIN rest : Carried(rest[i]) = k)
                            \/ (\E i \in DOMAIN queue : queue[i].number = k)
    <3> TAKE k \in m + 1..n
    <3>1. k # 0
      BY <1>2
    <3>2. CASE \E i \in DOMAIN flight : Carried(flight[i]) = k
      BY <1>1, <1>5, <3>1, <3>2 DEF f
    <3> QED BY <1>5, <3>2 DEF Line
  <2> QED BY <1>1, <1>4, <1>5, <2>1 DEF Line
<1>6. ASSUME Line(flight, Moving(transfer), queue, m, n), Carried(f) # 0
      PROVE  /\ Carried(f) = m + 1 /\ m + 1 <= n /\ f.message = all[m + 1]
             /\ Line(rest, Moving(transfer), queue, m + 1, n)
  <2>1. m < Carried(f) /\ Carried(f) \in Nat /\ Carried(f) <= n /\ f.message = all[Carried(f)]
    <3>1. Completes(f) /\ Carried(f) = f.message.number
      BY <1>6 DEF Carried
    <3>2. f.message.number \in DOMAIN all /\ f.message = all[f.message.number]
      BY <1>1, <1>6, <3>1 DEF Flow, Genuine, f
    <3>3. m < Carried(f)
      BY <1>1, <1>6 DEF Line, f
    <3> QED BY <1>2, <3>1, <3>2, <3>3
  <2>2. m + 1 \in m + 1..n
    BY <1>2, <2>1
  <2>3. \A i \in DOMAIN rest : Carried(rest[i]) # 0 => Carried(f) < Carried(rest[i])
    BY <1>1, <1>6 DEF Line, f
  <2>4. /\ Moving(transfer) # 0 => Carried(f) < Moving(transfer)
        /\ \A i \in DOMAIN queue : queue[i].number # 0 => Carried(f) < queue[i].number
    BY <1>1, <1>6 DEF Line, f
  <2>5. Carried(f) = m + 1
    <3>1. CASE Moving(transfer) = m + 1
      BY <1>2, <2>1, <2>4, <3>1
    <3>2. CASE \E i \in DOMAIN flight : Carried(flight[i]) = m + 1
      <4>1. PICK i \in DOMAIN flight : Carried(flight[i]) = m + 1
        BY <3>2
      <4>2. CASE i = 1
        BY <4>1, <4>2 DEF f
      <4>3. CASE i - 1 \in DOMAIN rest /\ rest[i - 1] = flight[i]
        <5>1. Carried(f) < m + 1
          BY <1>2, <2>3, <4>1, <4>3
        <5> QED BY <1>2, <2>1, <5>1
      <4> QED BY <1>1, <4>2, <4>3
    <3>3. CASE \E i \in DOMAIN queue : queue[i].number = m + 1
      BY <1>2, <2>1, <2>4, <3>3
    <3> QED BY <1>6, <2>2, <3>1, <3>2, <3>3 DEF Line
  <2>6. \A k \in m + 1 + 1..n : k \in m + 1..n /\ k # m + 1
    BY <1>2
  <2>7. \A k \in m + 1 + 1..n : \/ Moving(transfer) = k \/ (\E i \in DOMAIN rest : Carried(rest[i]) = k)
                                \/ (\E i \in DOMAIN queue : queue[i].number = k)
    <3> TAKE k \in m + 1 + 1..n
    <3>1. CASE \E i \in DOMAIN flight : Carried(flight[i]) = k
      BY <1>1, <2>5, <2>6, <3>1 DEF f
    <3> QED BY <1>6, <2>6, <3>1 DEF Line
  <2>8. ASSUME NEW i \in DOMAIN rest, Carried(rest[i]) # 0
        PROVE  /\ m + 1 < Carried(rest[i]) /\ (Moving(transfer) # 0 => Carried(rest[i]) < Moving(transfer))
               /\ \A j \in DOMAIN rest : i < j /\ Carried(rest[j]) # 0 => Carried(rest[i]) < Carried(rest[j])
               /\ \A j \in DOMAIN queue : queue[j].number # 0 => Carried(rest[i]) < queue[j].number
    BY <1>1, <1>4, <1>6, <2>3, <2>5, <2>8 DEF Line
  <2> QED BY <1>2, <1>6, <2>1, <2>2, <2>4, <2>5, <2>7, <2>8 DEF Line
<1>7. ASSUME Line(flight, Moving(transfer), queue, m, n), Carried(f) # 0
      PROVE  Flow(rest, transfer, queue, Append(had, f.message), all, shut)
  <2> DEFINE more == Append(had, f.message)
  <2>1. f.message \in Transport!Message
    BY <1>1, <1>7, FrameFields DEF Carried, Completes
  <2>2. Len(more) = m + 1 /\ \A i \in 1..m + 1 : (i \in 1..m /\ more[i] = had[i])
        \/ (i = m + 1 /\ more[i] = f.message)
    BY <1>2, <2>1 DEF m
  <2> HIDE DEF more
  <2>3. Len(more) <= n /\ \A i \in 1..Len(more) : more[i] = all[i]
    BY <1>6, <1>7, <2>2 DEF Flow, m
  <2> QED BY <1>3, <1>6, <1>7, <2>2, <2>3 DEF Flow, n, more
<1> QED BY <1>1, <1>3, <1>5, <1>7 DEF Flow, rest, n, m

-----------------------------------------------------------------------------
(* The steps. *)

LEMMA SideFields ==
  ASSUME NEW s \in Side
  PROVE  /\ s.enabled \in BOOLEAN /\ s.decided \in BOOLEAN /\ s.probing \in BOOLEAN /\ s.failed \in BOOLEAN
         /\ s.queue \in Seq(Transport!Message) /\ s.controls \in Seq(Ack)
            /\ s.outgoing \in Transport!Transfer \cup {None}
         /\ s.incoming \in Incoming \cup {None} /\ s.nextId \in Nat /\ s.lastIncomingId \in Nat
BY DEF Side

LEMMA Others ==
  ASSUME NEW p \in Transport!Sides
  PROVE  Transport!Other(p) \in Transport!Sides /\ Transport!Other(p) # p
         /\ Transport!Other(Transport!Other(p)) = p /\ \A o \in Transport!Sides : o = p
            \/ o = Transport!Other(p)
BY DEF Transport!Sides, Transport!Other

LEMMA SideOf ==
  ASSUME TransportInv, NEW p \in Transport!Sides
  PROVE  /\ side[p] \in Side /\ frames[p] \in Seq(Frame) /\ given[p] \in Seq(Transport!Message)
            /\ got[p] \in Seq(Transport!Message)
         /\ got[Transport!Other(p)] \in Seq(Transport!Message) /\ side[Transport!Other(p)] \in Side
            /\ frames[Transport!Other(p)] \in Seq(Frame)
         /\ given[Transport!Other(p)] \in Seq(Transport!Message)
         /\ FlowOf(p) /\ FlowOf(Transport!Other(p))
BY Others DEF TransportInv, TransportTypeOK

\* A step of one side that takes no frame changes what it sends only.
LEMMA Sends ==
  ASSUME TransportInv, NEW p \in Transport!Sides, NEW s \in Side, NEW flight \in Seq(Frame),
         NEW all \in Seq(Transport!Message),
         side' = [side EXCEPT ![p] = s], frames' = [frames EXCEPT ![p] = flight], given' = [given EXCEPT ![p] = all],
         UNCHANGED <<legacy, got>>, s.failed = side[p].failed,
         Flow(flight, s.outgoing, s.queue, got[Transport!Other(p)], all, side[Transport!Other(p)].failed)
  PROVE  TransportInv'
<1>1. TransportTypeOK'
  BY DEF TransportInv, TransportTypeOK
<1>2. /\ side'[p] = s /\ frames'[p] = flight /\ given'[p] = all
      /\ \A o \in Transport!Sides \ {p} : side'[o] = side[o] /\ frames'[o] = frames[o] /\ given'[o] = given[o]
  BY DEF TransportInv, TransportTypeOK
<1>3. Transport!Other(p) \in Transport!Sides \ {p} /\ Transport!Other(Transport!Other(p)) = p
      /\ \A o \in Transport!Sides : o = p \/ o = Transport!Other(p)
  BY Others
<1>4. FlowOf(p)'
  BY <1>2, <1>3 DEF FlowOf
<1>5. FlowOf(Transport!Other(p))'
  <2>1. Flow(frames[Transport!Other(p)], side[Transport!Other(p)].outgoing, side[Transport!Other(p)].queue,
             got[p], given[Transport!Other(p)], side[p].failed)
    BY <1>3, SideOf DEF FlowOf
  <2> QED BY <1>2, <1>3, <2>1 DEF FlowOf
<1> QED BY <1>1, <1>3, <1>4, <1>5 DEF TransportInv

LEMMA TransportSendInv ==
  ASSUME Transport!TransportAssumption, TransportInv, NEW p \in Transport!Sides, NEW large \in BOOLEAN,
         Transport!Send(p, large)
  PROVE  TransportInv'
<1> DEFINE message == [number |-> Len(given[p]) + 1, large |-> large]
           mayProbe == ~side[p].decided /\ ~side[p].probing /\ large
           s == [side[p] EXCEPT !.queue = Append(side[p].queue, message),
                                !.probing = side[p].probing \/ (mayProbe /\ ~Transport!Old(p))]
           flight == IF mayProbe /\ ~Transport!Old(p) THEN Append(frames[p], [kind |-> "probe"]) ELSE frames[p]
           all == Append(given[p], message)
<1>1. /\ side' = [side EXCEPT ![p] = s] /\ given' = [given EXCEPT ![p] = all] /\ UNCHANGED <<legacy, got>>
  BY SideOf DEF Transport!Send
<1>2. frames' = [frames EXCEPT ![p] = flight]
  BY DEF Transport!Send, Transport!Put, TransportInv, TransportTypeOK
<1>3. message \in Transport!Message /\ message.number = Len(given[p]) + 1
  <2>1. Len(given[p]) + 1 \in Nat
    BY SideOf
  <2> QED BY <2>1 DEF Transport!Message
<1> HIDE DEF message
<1>4. Append(side[p].queue, message) \in Seq(Transport!Message) /\ all \in Seq(Transport!Message)
  BY <1>3, SideOf, SideFields
<1>5. s \in Side /\ s.failed = side[p].failed /\ s.outgoing = side[p].outgoing
      /\ s.queue = Append(side[p].queue, message)
  <2>1. (side[p].probing \/ (mayProbe /\ ~Transport!Old(p))) \in BOOLEAN
    BY SideOf, SideFields
  <2> QED BY <1>4, <2>1, SideOf DEF Side
<1>6. [kind |-> "probe"] \in Frame /\ ~Completes([kind |-> "probe"])
  BY DEF Frame, Completes
<1>7. flight \in Seq(Frame)
  BY <1>6, SideOf
<1> HIDE DEF s, all
<1>8. Flow(frames[p], s.outgoing, s.queue, got[Transport!Other(p)], all, side[Transport!Other(p)].failed)
  <2>1. Flow(frames[p], side[p].outgoing, side[p].queue, got[Transport!Other(p)], given[p], side[Transport!Other(p)].failed)
    BY SideOf DEF FlowOf
  <2>2. /\ frames[p] \in Seq(Frame) /\ side[p].outgoing \in Transport!Transfer \cup {None}
           /\ side[p].queue \in Seq(Transport!Message)
        /\ got[Transport!Other(p)] \in Seq(Transport!Message) /\ given[p] \in Seq(Transport!Message)
    BY SideOf, SideFields
  <2>3. Flow(frames[p], side[p].outgoing, Append(side[p].queue, message), got[Transport!Other(p)], Append(given[p], message),
             side[Transport!Other(p)].failed)
    BY <1>3, <2>1, <2>2, MessageSent
  <2> QED BY <1>5, <2>3 DEF all
<1>9. Flow(flight, s.outgoing, s.queue, got[Transport!Other(p)], all, side[Transport!Other(p)].failed)
  BY <1>6, <1>8, SideOf, FrameAdded
<1> QED BY <1>1, <1>2, <1>4, <1>5, <1>7, <1>9, Sends

LEMMA ControlInv ==
  ASSUME Transport!TransportAssumption, TransportInv, NEW p \in Transport!Sides, Transport!WriteControl(p)
  PROVE  TransportInv'
<1> DEFINE f == Head(side[p].controls)
           s == [side[p] EXCEPT !.controls = Tail(side[p].controls)]
           flight == Append(frames[p], f)
<1>1. /\ side' = [side EXCEPT ![p] = s] /\ frames' = [frames EXCEPT ![p] = flight]
         /\ UNCHANGED <<legacy, given, got>>
      /\ side[p].controls # <<>>
  BY DEF Transport!WriteControl, Transport!Put
<1>2. f \in Ack /\ Tail(side[p].controls) \in Seq(Ack)
  BY <1>1, SideOf, SideFields, Shifted
<1>3. f \in Frame /\ ~Completes(f)
  BY <1>2 DEF Frame, Ack, Completes
<1>4. s \in Side /\ s.failed = side[p].failed /\ s.outgoing = side[p].outgoing /\ s.queue = side[p].queue
  BY <1>2, SideOf DEF Side
<1> HIDE DEF s, f
<1>5. flight \in Seq(Frame) /\ given' = [given EXCEPT ![p] = given[p]]
  BY <1>1, <1>3, SideOf DEF TransportInv, TransportTypeOK
<1>6. Flow(flight, s.outgoing, s.queue, got[Transport!Other(p)], given[p], side[Transport!Other(p)].failed)
  BY <1>3, <1>4, SideOf, FrameAdded DEF FlowOf
<1> QED BY <1>1, <1>4, <1>5, <1>6, SideOf, Sends

LEMMA WholeInv ==
  ASSUME Transport!TransportAssumption, TransportInv, NEW p \in Transport!Sides, Transport!WriteWhole(p)
  PROVE  TransportInv'
<1> DEFINE f == [kind |-> "whole", message |-> Head(side[p].queue)]
           s == [side[p] EXCEPT !.queue = Tail(side[p].queue)]
           flight == Append(frames[p], f)
<1>1. /\ side' = [side EXCEPT ![p] = s] /\ frames' = [frames EXCEPT ![p] = flight]
         /\ UNCHANGED <<legacy, given, got>>
      /\ side[p].queue # <<>> /\ side[p].outgoing = None
  BY DEF Transport!WriteWhole, Transport!MayStart, Transport!Put
<1>2. side[p].queue \in Seq(Transport!Message) /\ Head(side[p].queue) \in Transport!Message
      /\ Tail(side[p].queue) \in Seq(Transport!Message)
  BY <1>1, SideOf, SideFields, Shifted
<1>3. f \in Frame /\ f.kind = "whole" /\ f.message = Head(side[p].queue)
  BY <1>2 DEF Frame, WholeMessage
<1>4. s \in Side /\ s.failed = side[p].failed /\ s.outgoing = None /\ s.queue = Tail(side[p].queue)
  BY <1>1, <1>2, SideOf DEF Side
<1> HIDE DEF s, f
<1>5. flight \in Seq(Frame) /\ given' = [given EXCEPT ![p] = given[p]]
  BY <1>1, <1>3, SideOf DEF TransportInv, TransportTypeOK
<1>6. Flow(frames[p], None, side[p].queue, got[Transport!Other(p)], given[p], side[Transport!Other(p)].failed)
  BY <1>1, SideOf DEF FlowOf
<1>7. Flow(flight, s.outgoing, s.queue, got[Transport!Other(p)], given[p], side[Transport!Other(p)].failed)
  BY <1>1, <1>2, <1>3, <1>4, <1>6, SideOf, WholeWritten
<1> QED BY <1>1, <1>4, <1>5, <1>7, SideOf, Sends

LEMMA TransferInv ==
  ASSUME Transport!TransportAssumption, TransportInv, NEW p \in Transport!Sides, Transport!StartTransfer(p)
  PROVE  TransportInv'
<1> DEFINE t == [id |-> side[p].nextId, message |-> Head(side[p].queue), next |-> 0, acknowledged |-> 0]
           s == [side[p] EXCEPT !.queue = Tail(side[p].queue), !.outgoing = t, !.nextId = side[p].nextId + 1]
<1>1. /\ side' = [side EXCEPT ![p] = s] /\ UNCHANGED <<legacy, frames, given, got>>
      /\ side[p].queue # <<>> /\ side[p].outgoing = None /\ Head(side[p].queue).large
  BY DEF Transport!StartTransfer, Transport!MayStart, Transport!Large
<1>2. /\ side[p].queue \in Seq(Transport!Message) /\ Head(side[p].queue) \in Transport!Message
         /\ Tail(side[p].queue) \in Seq(Transport!Message)
      /\ side[p].nextId \in Nat /\ side[p].nextId + 1 \in Nat
  BY <1>1, SideOf, SideFields, Shifted
<1>3. t \in Transport!Transfer /\ t # None /\ t.message = Head(side[p].queue) /\ t.next = 0 /\ 0 < Parts
  <2>1. 0 < Parts /\ 0 \in 0..Parts /\ None \notin Transport!Transfer
    BY DEF Transport!TransportAssumption
  <2> QED BY <1>2, <2>1 DEF Transport!Transfer
<1> HIDE DEF t
<1>4. s \in Side /\ s.failed = side[p].failed /\ s.outgoing = t /\ s.queue = Tail(side[p].queue)
  BY <1>2, <1>3, SideOf DEF Side
<1> HIDE DEF s
<1>5. frames' = [frames EXCEPT ![p] = frames[p]] /\ given' = [given EXCEPT ![p] = given[p]]
  BY <1>1 DEF TransportInv, TransportTypeOK
<1>6. Flow(frames[p], None, side[p].queue, got[Transport!Other(p)], given[p], side[Transport!Other(p)].failed)
  BY <1>1, SideOf DEF FlowOf
<1>7. Flow(frames[p], s.outgoing, s.queue, got[Transport!Other(p)], given[p], side[Transport!Other(p)].failed)
  BY <1>1, <1>2, <1>3, <1>4, <1>6, SideOf, TransferStarted
<1> QED BY <1>1, <1>4, <1>5, <1>7, SideOf, Sends

LEMMA ChunkInv ==
  ASSUME Transport!TransportAssumption, TransportInv, NEW p \in Transport!Sides, Transport!WriteChunk(p)
  PROVE  TransportInv'
<1> DEFINE t == side[p].outgoing
           u == [t EXCEPT !.next = t.next + 1]
           f == [kind |-> "chunk", id |-> t.id, part |-> t.next, last |-> t.next = Parts - 1, message |-> t.message]
           s == [side[p] EXCEPT !.outgoing = u]
           flight == Append(frames[p], f)
<1>1. /\ side' = [side EXCEPT ![p] = s] /\ frames' = [frames EXCEPT ![p] = flight]
         /\ UNCHANGED <<legacy, given, got>>
      /\ t # None /\ t.next < Parts
  BY DEF Transport!WriteChunk, Transport!Put
<1>2. t \in Transport!Transfer /\ Parts \in Nat /\ None \notin Transport!Transfer
  BY <1>1, SideOf, SideFields DEF Transport!TransportAssumption
<1>3. t.next \in Nat /\ t.next + 1 \in 0..Parts /\ (t.next = Parts - 1) \in BOOLEAN
  BY <1>1, <1>2, TransferFields
<1>4. f \in Frame /\ f.kind = "chunk" /\ (f.last <=> t.next = Parts - 1) /\ f.message = t.message
  BY <1>2, <1>3, TransferFields DEF Frame, Chunk
<1> HIDE DEF t
<1>5. u \in Transport!Transfer /\ u # None /\ u.message = t.message /\ u.next = t.next + 1
  BY <1>2, <1>3 DEF Transport!Transfer
<1> HIDE DEF u, f
<1>6. s \in Side /\ s.failed = side[p].failed /\ s.outgoing = u /\ s.queue = side[p].queue
  BY <1>5, SideOf DEF Side
<1> HIDE DEF s
<1>7. flight \in Seq(Frame) /\ given' = [given EXCEPT ![p] = given[p]]
  BY <1>1, <1>4, SideOf DEF TransportInv, TransportTypeOK
<1>8. Flow(frames[p], t, side[p].queue, got[Transport!Other(p)], given[p], side[Transport!Other(p)].failed)
  BY SideOf DEF FlowOf, t
<1>9. Flow(flight, s.outgoing, s.queue, got[Transport!Other(p)], given[p], side[Transport!Other(p)].failed)
  BY <1>1, <1>2, <1>4, <1>5, <1>6, <1>8, SideOf, ChunkWritten
<1> QED BY <1>1, <1>6, <1>7, <1>9, SideOf, Sends

-----------------------------------------------------------------------------
(* A side takes a frame. *)

\* What the receiving side becomes: it fails, or its own messages go on as they were.
LEMMA Receives ==
  ASSUME TransportInv, NEW p \in Transport!Sides, frames[Transport!Other(p)] # <<>>, ~side[p].failed,
         NEW s \in Side, NEW had \in Seq(Transport!Message),
         side' = [side EXCEPT ![p] = s], frames' = [frames EXCEPT ![Transport!Other(p)] = Tail(frames[Transport!Other(p)])],
         got' = [got EXCEPT ![p] = had], UNCHANGED <<legacy, given>>,
         Flow(frames[p], s.outgoing, s.queue, got[Transport!Other(p)], given[p], side[Transport!Other(p)].failed),
         \/ s.failed /\ had = got[p]
         \/ Carried(Head(frames[Transport!Other(p)])) = 0 /\ had = got[p] /\ ~s.failed
         \/ Carried(Head(frames[Transport!Other(p)])) # 0
            /\ had = Append(got[p], Head(frames[Transport!Other(p)]).message) /\ ~s.failed
  PROVE  TransportInv'
<1> DEFINE o == Transport!Other(p)
<1>1. o \in Transport!Sides /\ o # p /\ Transport!Other(o) = p /\ \A q \in Transport!Sides : q = p \/ q = o
  BY Others
<1>2. Tail(frames[o]) \in Seq(Frame) /\ frames[o] \in Seq(Frame)
  BY <1>1, SideOf
<1>3. TransportTypeOK'
  BY <1>1, <1>2 DEF TransportInv, TransportTypeOK
<1>4. /\ side'[p] = s /\ side'[o] = side[o] /\ frames'[o] = Tail(frames[o]) /\ frames'[p] = frames[p]
      /\ got'[p] = had /\ got'[o] = got[o] /\ given' = given
  BY <1>1 DEF TransportInv, TransportTypeOK
<1>5. FlowOf(p)'
  BY <1>4 DEF FlowOf
<1>6. Flow(frames[o], side[o].outgoing, side[o].queue, got[p], given[o], FALSE)
  BY <1>1, SideOf, SideFields DEF FlowOf, Flow
<1>7. Flow(Tail(frames[o]), side[o].outgoing, side[o].queue, had, given[o], s.failed)
  <2>0. /\ side[o].outgoing \in Transport!Transfer \cup {None} /\ side[o].queue \in Seq(Transport!Message)
        /\ got[p] \in Seq(Transport!Message) /\ given[o] \in Seq(Transport!Message)
    BY <1>1, SideOf, SideFields
  <2>1. /\ Flow(Tail(frames[o]), side[o].outgoing, side[o].queue, got[p], given[o], TRUE)
        /\ Carried(Head(frames[o])) = 0
           => Flow(Tail(frames[o]), side[o].outgoing, side[o].queue, got[p], given[o], FALSE)
        /\ Carried(Head(frames[o])) # 0 =>
             Flow(Tail(frames[o]), side[o].outgoing, side[o].queue, Append(got[p], Head(frames[o]).message), given[o], FALSE)
    BY <1>2, <1>6, <2>0, FrameTaken
  <2>2. s.failed \in BOOLEAN
    BY SideFields
  <2> QED BY <2>1, <2>2
<1>8. FlowOf(o)'
  BY <1>1, <1>4, <1>7 DEF FlowOf
<1> QED BY <1>1, <1>3, <1>5, <1>8 DEF TransportInv

LEMMA FailsInv ==
  ASSUME TransportInv, NEW p \in Transport!Sides, frames[Transport!Other(p)] # <<>>, ~side[p].failed,
         Transport!Fail(p),
         frames' = [frames EXCEPT ![Transport!Other(p)] = Tail(frames[Transport!Other(p)])], UNCHANGED <<legacy, given>>
  PROVE  TransportInv'
<1> DEFINE s == [side[p] EXCEPT !.failed = TRUE]
<1>1. s \in Side /\ s.failed /\ s.outgoing = side[p].outgoing /\ s.queue = side[p].queue
  BY SideOf DEF Side
<1>2. side' = [side EXCEPT ![p] = s] /\ got' = [got EXCEPT ![p] = got[p]]
  BY DEF Transport!Fail, TransportInv, TransportTypeOK
<1> HIDE DEF s
<1>3. Flow(frames[p], s.outgoing, s.queue, got[Transport!Other(p)], given[p], side[Transport!Other(p)].failed)
  BY <1>1, SideOf DEF FlowOf
<1> QED BY <1>1, <1>2, <1>3, SideOf, Receives

LEMMA ReceiveInv ==
  ASSUME Transport!TransportAssumption, TransportInv, NEW p \in Transport!Sides, Transport!Receive(p)
  PROVE  TransportInv'
<1> DEFINE f == Head(frames[Transport!Other(p)])
           mine == side[p]
<1>1. /\ frames[Transport!Other(p)] # <<>> /\ ~mine.failed
         /\ frames' = [frames EXCEPT ![Transport!Other(p)] = Tail(frames[Transport!Other(p)])]
      /\ UNCHANGED <<legacy, given>>
  BY DEF Transport!Receive
<1>2. f \in Frame
  BY <1>1, SideOf, Shifted
<1>3. f.kind \in {"ack", "chunk", "whole", "ready", "probe"}
  BY <1>2, FrameFields
<1>4. \/ f.kind = "ready" /\ Transport!ReceiveReady(p)
      \/ f.kind = "probe" /\ Transport!ReceiveProbe(p)
      \/ f.kind = "whole" /\ Transport!ReceiveWhole(p, f.message)
      \/ f.kind = "ack" /\ Transport!ReceiveAck(p, f)
      \/ f.kind = "chunk" /\ Transport!ReceiveChunk(p, f)
  BY <1>3 DEF Transport!Receive
<1>5. /\ mine \in Side /\ side \in [Transport!Sides -> Side]
         /\ got \in [Transport!Sides -> Seq(Transport!Message)]
      /\ got[p] \in Seq(Transport!Message)
      /\ Flow(frames[p], mine.outgoing, mine.queue, got[Transport!Other(p)], given[p], side[Transport!Other(p)].failed)
  BY SideOf DEF TransportInv, TransportTypeOK, FlowOf
<1>6. UNCHANGED got => got' = [got EXCEPT ![p] = got[p]]
  BY <1>5
<1>7. Parts \in Nat /\ None \notin Transport!Transfer
  BY DEF Transport!TransportAssumption
<1> HIDE DEF f, mine
<1>8. CASE f.kind = "ready" /\ Transport!ReceiveReady(p)
  <2> DEFINE s == [mine EXCEPT !.enabled = TRUE, !.decided = TRUE]
  <2>1. s \in Side /\ s.failed = mine.failed /\ s.outgoing = mine.outgoing /\ s.queue = mine.queue
    BY <1>5 DEF Side
  <2>2. side' = [side EXCEPT ![p] = s] /\ UNCHANGED got
    BY <1>8 DEF Transport!ReceiveReady, mine
  <2>3. Carried(f) = 0
    BY <1>8 DEF Carried, Completes
  <2> HIDE DEF s
  <2> QED BY <1>1, <1>5, <1>6, <2>1, <2>2, <2>3, Receives DEF f, mine
<1>9. CASE f.kind = "probe" /\ Transport!ReceiveProbe(p)
  <2> DEFINE x == [number |-> 0, large |-> FALSE]
             s == [mine EXCEPT !.queue = Append(mine.queue, x)]
  <2>1. x \in Transport!Message /\ x.number = 0 /\ ~x.large
    BY DEF Transport!Message
  <2> HIDE DEF x
  <2>2. mine.queue \in Seq(Transport!Message) /\ Append(mine.queue, x) \in Seq(Transport!Message)
    BY <1>5, <2>1, SideFields
  <2>3. s \in Side /\ s.failed = mine.failed /\ s.outgoing = mine.outgoing /\ s.queue = Append(mine.queue, x)
    BY <1>5, <2>2 DEF Side
  <2>4. side' = [side EXCEPT ![p] = s] /\ UNCHANGED got
    BY <1>9 DEF Transport!ReceiveProbe, mine, x
  <2>5. Carried(f) = 0
    BY <1>9 DEF Carried, Completes
  <2> HIDE DEF s
  <2>6. Flow(frames[p], s.outgoing, s.queue, got[Transport!Other(p)], given[p], side[Transport!Other(p)].failed)
    BY <1>5, <2>1, <2>2, <2>3, AnswerAdded
  <2> QED BY <1>1, <1>5, <1>6, <2>3, <2>4, <2>5, <2>6, Receives DEF f, mine
<1>10. CASE f.kind = "whole" /\ Transport!ReceiveWhole(p, f.message)
  <2>1. CASE Transport!Fail(p)
    BY <1>1, <2>1, FailsInv DEF mine
  <2>2. CASE ~Transport!Fail(p)
    <3> DEFINE s == [mine EXCEPT !.decided = TRUE]
               had == IF f.message.number = 0 THEN got[p] ELSE Append(got[p], f.message)
    <3>1. s \in Side /\ s.failed = mine.failed /\ s.outgoing = mine.outgoing /\ s.queue = mine.queue
      BY <1>5 DEF Side
    <3>2. side' = [side EXCEPT ![p] = s]
      BY <1>10, <2>2 DEF Transport!ReceiveWhole, Transport!Decided, mine
    <3>3. got' = [got EXCEPT ![p] = had]
      BY <1>5, <1>10, <2>2 DEF Transport!ReceiveWhole
    <3>4. Carried(f) = f.message.number
      BY <1>10 DEF Carried, Completes
    <3>5. had \in Seq(Transport!Message)
      BY <1>2, <1>5, <1>10, FrameFields
    <3>6. \/ Carried(f) = 0 /\ had = got[p]
          \/ Carried(f) # 0 /\ had = Append(got[p], f.message)
      BY <3>4
    <3> HIDE DEF s, had
    <3> QED BY <1>1, <1>5, <3>1, <3>2, <3>3, <3>5, <3>6, Receives DEF f, mine
  <2> QED BY <2>1, <2>2
<1>11. CASE f.kind = "ack" /\ Transport!ReceiveAck(p, f)
  <2>1. CASE Transport!Fail(p)
    BY <1>1, <2>1, FailsInv DEF mine
  <2>2. CASE ~Transport!Fail(p)
    <3> DEFINE t == mine.outgoing
               done == t.next = Parts /\ t.acknowledged + 1 = Parts
               u == IF done THEN None ELSE [t EXCEPT !.acknowledged = t.acknowledged + 1]
               s == [mine EXCEPT !.outgoing = u]
    <3>1. t # None /\ f.part = t.acknowledged /\ ~(f.part >= t.next) /\ side' = [side EXCEPT ![p] = s]
          /\ UNCHANGED got
      <4>1. t # None /\ f.part = t.acknowledged /\ ~(f.part >= t.next)
        BY <1>11, <2>2 DEF Transport!ReceiveAck, mine
      <4>2. side' = [side EXCEPT ![p] = s] /\ UNCHANGED got
        BY <1>11, <2>2 DEF Transport!ReceiveAck, mine
      <4> QED BY <4>1, <4>2
    <3>2. t \in Transport!Transfer
      BY <1>5, <3>1, SideFields
    <3>3. t.acknowledged + 1 \in 0..Parts
      BY <1>7, <3>1, <3>2, TransferFields
    <3> HIDE DEF t
    <3>4. u \in Transport!Transfer \cup {None} /\ \/ u = None /\ t.next = Parts
                                                  \/ u # None /\ u.message = t.message /\ u.next = t.next
      BY <1>7, <3>2, <3>3 DEF Transport!Transfer
    <3> HIDE DEF u
    <3>5. s \in Side /\ s.failed = mine.failed /\ s.outgoing = u /\ s.queue = mine.queue
      BY <1>5, <3>4 DEF Side
    <3>6. Carried(f) = 0
      BY <1>11 DEF Carried, Completes
    <3> HIDE DEF s
    <3>7. Flow(frames[p], s.outgoing, s.queue, got[Transport!Other(p)], given[p], side[Transport!Other(p)].failed)
      BY <1>5, <1>7, <3>1, <3>4, <3>5, Acknowledged DEF t
    <3> QED BY <1>1, <1>5, <1>6, <3>1, <3>5, <3>6, <3>7, Receives DEF f, mine
  <2> QED BY <2>1, <2>2
<1>12. CASE f.kind = "chunk" /\ Transport!ReceiveChunk(p, f)
  <2>1. CASE Transport!Fail(p)
    BY <1>1, <2>1, FailsInv DEF mine
  <2>2. CASE ~Transport!Fail(p)
    <3> DEFINE current == IF mine.incoming = None THEN [id |-> mine.lastIncomingId + 1, next |-> 0] ELSE mine.incoming
               ack == [kind |-> "ack", id |-> f.id, part |-> f.part]
               after == IF f.last THEN None ELSE [current EXCEPT !.next = current.next + 1]
               s == [mine EXCEPT !.controls = Append(mine.controls, ack), !.incoming = after,
                                 !.lastIncomingId = IF f.last THEN f.id ELSE mine.lastIncomingId]
               had == IF f.last THEN Append(got[p], f.message) ELSE got[p]
    <3>1. side' = [side EXCEPT ![p] = s]
          /\ got' = IF f.last THEN [got EXCEPT ![p] = Append(got[p], f.message)] ELSE got
      BY <1>12, <2>2 DEF Transport!ReceiveChunk, mine
    <3>2. f.id \in Nat /\ f.part \in Nat /\ f.last \in BOOLEAN /\ f.message \in Transport!Message
      BY <1>2, <1>12, FrameFields
    <3>3. current \in Incoming
      <4>1. mine.lastIncomingId + 1 \in Nat /\ mine.incoming \in Incoming \cup {None}
        BY <1>5, SideFields
      <4> QED BY <4>1 DEF Incoming
    <3> HIDE DEF current
    <3>4. after \in Incoming \cup {None}
      <4>1. current.next + 1 \in Nat
        BY <3>3 DEF Incoming
      <4> QED BY <3>3, <4>1 DEF Incoming
    <3>5. Append(mine.controls, ack) \in Seq(Ack)
      <4>1. ack \in Ack
        BY <3>2 DEF Ack
      <4> QED BY <1>5, <4>1, SideFields
    <3> HIDE DEF after, ack
    <3>6. s \in Side /\ s.failed = mine.failed /\ s.outgoing = mine.outgoing /\ s.queue = mine.queue
      BY <1>5, <3>2, <3>4, <3>5, SideFields DEF Side
    <3>7. got' = [got EXCEPT ![p] = had] /\ had \in Seq(Transport!Message)
      <4>1. CASE f.last
        BY <1>5, <3>1, <3>2, <4>1
      <4>2. CASE ~f.last
        BY <1>5, <3>1, <4>2
      <4> QED BY <4>1, <4>2
    <3>8. \/ Carried(f) = 0 /\ had = got[p]
          \/ Carried(f) # 0 /\ had = Append(got[p], f.message)
      <4>1. CASE f.last
        <5>1. Completes(f) /\ Carried(f) = f.message.number
          BY <1>12, <4>1 DEF Carried, Completes
        <5>2. f.message.number # 0
          <6>1. Genuine(frames[Transport!Other(p)], side[Transport!Other(p)].outgoing, side[Transport!Other(p)].queue,
                        given[Transport!Other(p)])
            BY SideOf DEF FlowOf, Flow
          <6>2. 1 \in DOMAIN frames[Transport!Other(p)] /\ frames[Transport!Other(p)][1] = f
            BY <1>1, SideOf, Shifted DEF f
          <6> QED BY <1>12, <5>1, <6>1, <6>2 DEF Genuine
        <5> QED BY <4>1, <5>1, <5>2
      <4>2. CASE ~f.last
        BY <1>12, <4>2 DEF Carried, Completes
      <4> QED BY <4>1, <4>2
    <3> HIDE DEF s, had
    <3> QED BY <1>1, <1>5, <3>1, <3>6, <3>7, <3>8, Receives DEF f, mine
  <2> QED BY <2>1, <2>2
<1> QED BY <1>4, <1>8, <1>9, <1>10, <1>11, <1>12

-----------------------------------------------------------------------------
(* The invariant. *)

LEMMA TransportInvInit ==
  ASSUME Transport!TransportAssumption, Transport!Init
  PROVE  TransportInv
<1>1. \A known \in BOOLEAN : Transport!Fresh(known) \in Side /\ Transport!Fresh(known).outgoing = None
      /\ Transport!Fresh(known).queue = <<>>
  <2>1. <<>> \in Seq(Transport!Message) /\ <<>> \in Seq(Ack) /\ 0 \in Nat /\ 1 \in Nat
    OBVIOUS
  <2> QED BY <2>1 DEF Transport!Fresh, Side
<1>2. [kind |-> "ready"] \in Frame /\ Carried([kind |-> "ready"]) = 0 /\ ~Completes([kind |-> "ready"])
  BY DEF Frame, Carried, Completes
<1>3. <<[kind |-> "ready"]>> \in Seq(Frame) /\ <<>> \in Seq(Frame)
  BY <1>2
<1>4. /\ \A p \in Transport!Sides : side[p] \in Side /\ side[p].outgoing = None /\ side[p].queue = <<>>
      /\ side \in [Transport!Sides -> Side]
  BY <1>1 DEF Transport!Init
<1>5. /\ frames \in [Transport!Sides -> Seq(Frame)]
      /\ \A p \in Transport!Sides : frames[p] \in {<<>>, <<[kind |-> "ready"]>>}
  <2> DEFINE first == IF legacy THEN <<>> ELSE <<[kind |-> "ready"]>>
  <2>1. frames = [client |-> <<>>, server |-> first] /\ first \in {<<>>, <<[kind |-> "ready"]>>}
    BY DEF Transport!Init
  <2> HIDE DEF first
  <2>2. DOMAIN frames = Transport!Sides /\ frames["client"] = <<>> /\ frames["server"] = first
    BY <2>1 DEF Transport!Sides
  <2>3. \A p \in Transport!Sides : frames[p] \in {<<>>, <<[kind |-> "ready"]>>}
    BY <2>1, <2>2 DEF Transport!Sides
  <2>4. frames = [p \in Transport!Sides |-> frames[p]]
    BY <2>1, <2>2
  <2> QED BY <1>3, <2>3, <2>4
<1>6. /\ legacy \in BOOLEAN /\ given \in [Transport!Sides -> Seq(Transport!Message)]
         /\ got \in [Transport!Sides -> Seq(Transport!Message)]
      /\ \A p \in Transport!Sides : given[p] = <<>> /\ got[p] = <<>>
  <2>1. <<>> \in Seq(Transport!Message)
    OBVIOUS
  <2> QED BY <2>1 DEF Transport!Init
<1>7. Len(<<>>) = 0 /\ DOMAIN <<>> = {} /\ 1..0 = {} /\ 0 + 1..0 = {}
  OBVIOUS
<1>8. \A flight \in {<<>>, <<[kind |-> "ready"]>>} : Flow(flight, None, <<>>, <<>>, <<>>, FALSE)
  <2> SUFFICES ASSUME NEW flight \in {<<>>, <<[kind |-> "ready"]>>} PROVE Flow(flight, None, <<>>, <<>>, <<>>, FALSE)
    OBVIOUS
  <2>1. \A i \in DOMAIN flight : ~Completes(flight[i]) /\ Carried(flight[i]) = 0
    BY <1>2
  <2>2. Moving(None) = 0
    BY DEF Moving
  <2> QED BY <1>7, <2>1, <2>2 DEF Flow, Genuine, Line
<1>9. \A p \in Transport!Sides : FlowOf(p)
  <2> TAKE p \in Transport!Sides
  <2>1. Flow(frames[p], None, <<>>, <<>>, <<>>, FALSE)
    BY <1>5, <1>8
  <2>2. Flow(frames[p], side[p].outgoing, side[p].queue, got[Transport!Other(p)], given[p], FALSE)
    BY <1>4, <1>6, <2>1, Others
  <2> QED BY <2>2 DEF FlowOf, Flow
<1> QED BY <1>4, <1>5, <1>6, <1>9 DEF TransportInv, TransportTypeOK

LEMMA TransportInvNext ==
  ASSUME Transport!TransportAssumption, TransportInv, [Transport!Next]_Transport!vars
  PROVE  TransportInv'
<1>1. CASE UNCHANGED Transport!vars
  BY <1>1 DEF Transport!vars, TransportInv, TransportTypeOK, FlowOf
<1>2. CASE Transport!Next
  BY <1>2, TransportSendInv, ControlInv, WholeInv, TransferInv, ChunkInv, ReceiveInv DEF Transport!Next,
     Transport!Flush
<1> QED BY <1>1, <1>2

\* What arrived is what was sent first.
LEMMA TransportKeepsOrder ==
  ASSUME TransportInv
  PROVE  Transport!InOrder
<1> SUFFICES ASSUME NEW p \in Transport!Sides PROVE Transport!IsPrefix(got[Transport!Other(p)], given[p])
  BY DEF Transport!InOrder
<1> DEFINE had == got[Transport!Other(p)]
           all == given[p]
<1>1. had \in Seq(Transport!Message) /\ all \in Seq(Transport!Message) /\ Len(had) <= Len(all)
      /\ \A n \in 1..Len(had) : had[n] = all[n]
  BY SideOf DEF FlowOf, Flow
<1> HIDE DEF had, all
<1>2. SubSeq(had, 1, Len(had)) = SubSeq(all, 1, Len(had))
  BY <1>1
<1> QED BY <1>1, <1>2 DEF Transport!IsPrefix, had, all

\* Messages arrive whole, once and in their order (socket-transport.ts).
THEOREM MessagesInOrder ==
  ASSUME Transport!TransportAssumption
  PROVE  Transport!Spec => []Transport!InOrder
BY TransportInvInit, TransportInvNext, TransportKeepsOrder, PTL DEF Transport!Spec

-----------------------------------------------------------------------------
(***************************************************************************)
(* The tunnel of this computer (Connector).                                *)
(***************************************************************************)
(* The inductive invariant. *)

Stop == [adapter : BOOLEAN, frpc : BOOLEAN]

ConnectorTypeOK ==
  /\ state \in Link!DeviceStates \cup {None} /\ disk \in Link!DeviceStates \cup {None}
  /\ op \in Link!Operations \cup {None}
  /\ adapter \in BOOLEAN /\ frpc \in BOOLEAN /\ stops \in Seq(Stop)
  /\ blocked \in BOOLEAN /\ stopped \in BOOLEAN /\ unsaved \in BOOLEAN
  /\ deviceKeys \in 0..MaxKeys /\ linkFaults \in Nat

Off == ~adapter /\ ~frpc

\* Nothing of the computer is to be reached.
Shut == state = None \/ state.paused \/ ~state.bound

\* An operation that has closed the computer in memory stops the transport next.
Closing == op # None /\ op.step \in {"intent", "refused"}
ShutMeansOff == Shut /\ ~unsaved /\ ~Closing => Off

\* What the operation under way is for.
About(what) ==
  \/ op.step = "asking" /\ op.ask \in what
  \/ op.step = "answered" /\ op.ask[1] \in what
Serves == op.step \in {"serve", "start", "prepare", "generation", "configure"}
          \/ About({"heartbeat", "connect"})
Revokes == op.step = "revoke" \/ About({"revoke"})

Underway ==
  op # None =>
    /\ op.step \notin {"over", "last save", "repair"} => state # None
    /\ op.step = "asking" => op.ask \in Link!Asks
    /\ op.step = "bound" => state.bound
    /\ op.step = "intent" => state.paused
    /\ Serves => state.bound /\ ~state.paused
    /\ Revokes => state.paused
    /\ About({"resume"}) => ~state.pendingUnbind
    /\ op.step = "configure" /\ ~op.moved => adapter

\* A removal pauses, in memory and in the file.
RemovedMeansPaused ==
  /\ state # None /\ state.pendingUnbind => state.paused
  /\ disk # None /\ disk.pendingUnbind => disk.paused

ConnectorInv ==
  ConnectorTypeOK /\ ShutMeansOff /\ Link!TunnelHasItsAdapter /\ Underway /\ RemovedMeansPaused

-----------------------------------------------------------------------------
(* Operations and devices. *)

Asked == {None} \cup Link!Asks \cup Link!Asks \X Link!Replies

\* What becomes of an operation that does not end.
Becomes(o, step, ask, wait, moved) ==
  o \in Link!Operations /\ o.step = step /\ o.ask = ask /\ o.wait = wait /\ o.moved = moved

LEMMA OperationFields ==
  ASSUME NEW o \in Link!Operations
  PROVE  Becomes(o, o.step, o.ask, o.wait, o.moved) /\ o.step \in Link!Steps /\ o.ask \in Asked
         /\ o.wait \in Nat
BY DEF Link!Operations, Asked, Becomes

LEMMA NewOperation ==
  ASSUME NEW kind \in {"tick", "enroll", "pause", "unbind", "resume", "repair"}, NEW step \in Link!Steps
  PROVE  Becomes(Link!Operation(kind, step), step, None, 0, FALSE)
BY DEF Link!Operation, Link!Operations, Becomes

LEMMA Waiting ==
  ASSUME NEW o \in Link!Operations, NEW wait \in Nat
  PROVE  Becomes([o EXCEPT !.wait = wait], o.step, o.ask, wait, o.moved)
BY DEF Link!Operations, Becomes

LEMMA Lets ==
  ASSUME NEW o \in Link!Operations \cup {None}
  PROVE  Link!Letting(o) = None \/ (o # None /\ Becomes(Link!Letting(o), o.step, o.ask, o.wait, TRUE))
BY DEF Link!Letting, Link!Operations, Becomes

LEMMA LinkGoes ==
  ASSUME op \in Link!Operations, NEW step \in Link!Steps
  PROVE  Becomes(Link!Going(step), step, op.ask, op.wait, op.moved)
BY DEF Link!Going, Link!Operations, Becomes

LEMMA AsksNext ==
  ASSUME op \in Link!Operations, NEW what \in Link!Asks
  PROVE  Becomes(Link!Asking(what), "asking", what, op.wait, op.moved)
BY DEF Link!Asking, Link!Operations, Link!Steps, Becomes

LEMMA IsAnswered ==
  ASSUME op \in Link!Operations, op.ask \in Link!Asks, NEW answer \in Link!Replies
  PROVE  LET o == [op EXCEPT !.step = "answered", !.ask = <<op.ask, answer>>] IN
         /\ o \in Link!Operations
         /\ \E ask \in Asked : ask[1] = op.ask /\ Becomes(o, "answered", ask, op.wait, op.moved)
<1>1. <<op.ask, answer>> \in Asked /\ <<op.ask, answer>>[1] = op.ask
  BY DEF Asked
<1> QED BY <1>1 DEF Link!Operations, Asked, Link!Steps, Becomes

LEMMA StopsThen ==
  ASSUME NEW o \in Link!Operations, NEW wait \in Nat
  PROVE  Becomes([o EXCEPT !.wait = wait, !.moved = TRUE], o.step, o.ask, wait, TRUE)
BY DEF Link!Operations, Becomes

LEMMA DevicePauses ==
  ASSUME NEW s \in Link!DeviceStates, NEW p \in BOOLEAN
  PROVE  LET t == [s EXCEPT !.paused = p] IN
           t \in Link!DeviceStates /\ t.paused = p /\ t.bound = s.bound /\ t.pendingUnbind = s.pendingUnbind
BY DEF Link!DeviceStates

-----------------------------------------------------------------------------
(* Writes and the transport. *)

LEMMA Writes ==
  ASSUME ConnectorTypeOK, Link!Saves \/ Link!SaveFails
  PROVE  disk' \in {disk, state} /\ linkFaults' \in Nat
BY DEF ConnectorTypeOK, Link!Saves, Link!SaveFails, Link!Fault

LEMMA Faults ==
  ASSUME ConnectorTypeOK, Link!Fault
  PROVE  linkFaults' \in Nat
BY DEF ConnectorTypeOK, Link!Fault

LEMMA WhenOff ==
  ASSUME Off'
  PROVE  ShutMeansOff' /\ Link!TunnelHasItsAdapter'
BY DEF Off, ShutMeansOff, Link!TunnelHasItsAdapter

LEMMA WhenAsBefore ==
  ASSUME ShutMeansOff, Link!TunnelHasItsAdapter, UNCHANGED <<adapter, frpc>>,
         Shut' /\ ~unsaved' /\ ~Closing' => Off \/ (Shut /\ ~unsaved /\ ~Closing)
  PROVE  ShutMeansOff' /\ Link!TunnelHasItsAdapter'
BY DEF Off, ShutMeansOff, Link!TunnelHasItsAdapter

LEMMA Stops ==
  ASSUME ConnectorTypeOK, Link!stopTransport
  PROVE  stops' \in Seq(Stop) /\ Off' /\ adapter' = FALSE /\ frpc' = FALSE /\ Len(stops) + 1 \in Nat
BY DEF ConnectorTypeOK, Link!stopTransport, Stop, Off

LEMMA StopsAndGoes ==
  ASSUME ConnectorTypeOK, op \in Link!Operations, NEW step \in Link!Steps, Link!StopAndGo(step)
  PROVE  /\ stops' \in Seq(Stop) /\ Off' /\ adapter' = FALSE /\ frpc' = FALSE
         /\ Becomes(op', step, op.ask, Len(stops) + 1, TRUE)
<1>1. stops' \in Seq(Stop) /\ Off' /\ adapter' = FALSE /\ frpc' = FALSE /\ Len(stops) + 1 \in Nat
  BY Stops DEF Link!StopAndGo
<1>2. Becomes(op', step, op.ask, Len(stops) + 1, TRUE)
  BY <1>1 DEF Link!StopAndGo, Link!Operations, Becomes
<1> QED BY <1>1, <1>2

LEMMA RemovedStays ==
  ASSUME RemovedMeansPaused, disk' \in {disk, state},
         state' # None /\ state'.pendingUnbind => state'.paused
  PROVE  RemovedMeansPaused'
BY DEF RemovedMeansPaused

LEMMA TickInv ==
  ASSUME Link!ConnectorAssumption, ConnectorInv, Link!tick
  PROVE  ConnectorInv'
<1>1. ConnectorTypeOK /\ ShutMeansOff /\ Link!TunnelHasItsAdapter /\ Underway /\ RemovedMeansPaused
  BY DEF ConnectorInv
<1>0. LET o == Link!Operation("tick", "serve") IN
        /\ Becomes(o, "serve", None, 0, FALSE)
        /\ Becomes([o EXCEPT !.step = "revoke"], "revoke", None, 0, FALSE)
        /\ Becomes([o EXCEPT !.step = "last save"], "last save", None, 0, FALSE)
        /\ \A ask \in Link!Asks : Becomes([o EXCEPT !.step = "asking", !.ask = ask], "asking", ask, 0, FALSE)
        /\ {"claim", "pause"} \subseteq Link!Asks
  BY DEF Link!Operation, Link!Operations, Link!Steps, Link!Asks, Becomes
<1>2. /\ UNCHANGED <<adapter, frpc, stops, blocked, stopped, deviceKeys, disk, linkFaults, unsaved>>
      /\ state # None /\ ~Closing
      /\ \/ Becomes(op', "revoke", None, 0, FALSE) /\ UNCHANGED state /\ state.pendingUnbind
         \/ Becomes(op', "asking", "claim", 0, FALSE) /\ UNCHANGED state
         \/ Becomes(op', "asking", "pause", 0, FALSE) /\ UNCHANGED state
         \/ Becomes(op', "last save", None, 0, FALSE) /\ state' = None /\ ~state.bound
         \/ Becomes(op', "serve", None, 0, FALSE) /\ UNCHANGED state /\ state.bound /\ ~state.paused
  BY <1>0 DEF Link!tick, Link!Same, Link!NoWrite, Link!transport, Closing
<1>3. ConnectorTypeOK'
  <2>1. op' \in Link!Operations \cup {None}
    BY <1>0, <1>1, <1>2 DEF ConnectorTypeOK, Becomes
  <2>2. /\ state' \in Link!DeviceStates \cup {None} /\ disk' \in Link!DeviceStates \cup {None}
        /\ stops' \in Seq(Stop) /\ adapter' \in BOOLEAN /\ frpc' \in BOOLEAN
    BY <1>0, <1>1, <1>2 DEF ConnectorTypeOK
  <2> QED BY <1>1, <1>2, <2>1, <2>2 DEF ConnectorTypeOK
<1>4. ShutMeansOff' /\ Link!TunnelHasItsAdapter'
  BY <1>0, <1>1, <1>2, WhenAsBefore, WhenOff DEF Shut, Closing, Becomes, Link!ConnectorAssumption
<1>5. Underway'
  BY <1>0, <1>1, <1>2 DEF Underway, Serves, Revokes, About, Becomes, Link!Asks, Link!ConnectorAssumption,
     RemovedMeansPaused
<1>6. RemovedMeansPaused'
  BY <1>0, <1>1, <1>2, RemovedStays DEF RemovedMeansPaused
<1> QED BY <1>3, <1>4, <1>5, <1>6 DEF ConnectorInv

LEMMA StoppedInv ==
  ASSUME Link!ConnectorAssumption, ConnectorInv, Link!Stopped
  PROVE  ConnectorInv'
<1>1. ConnectorTypeOK /\ ShutMeansOff /\ Link!TunnelHasItsAdapter /\ Underway /\ RemovedMeansPaused
  BY DEF ConnectorInv
<1>0. Link!Stopped => stops' \in Seq(Stop)
  BY <1>1 DEF Link!Stopped, ConnectorTypeOK
<1>a. op # None /\ op.wait # 0 => op.wait - 1 \in Nat
      /\ Becomes([op EXCEPT !.wait = @ - 1], op.step, op.ask, op.wait - 1, op.moved)
  <2> SUFFICES ASSUME op # None, op.wait # 0
               PROVE  op.wait - 1 \in Nat
                      /\ Becomes([op EXCEPT !.wait = @ - 1], op.step, op.ask, op.wait - 1, op.moved)
    OBVIOUS
  <2>1. op \in Link!Operations /\ op.wait \in Nat
    BY <1>1, OperationFields DEF ConnectorTypeOK
  <2>2. op.wait - 1 \in Nat
    BY <2>1
  <2> QED BY <2>1, <2>2, Waiting
<1>2. /\ UNCHANGED <<adapter, frpc, blocked, stopped, deviceKeys, disk, linkFaults, unsaved, state>>
      /\ stops' \in Seq(Stop)
      /\ op' = op \/ (op # None /\ op.wait - 1 \in Nat /\ Becomes(op', op.step, op.ask, op.wait - 1, op.moved))
  BY <1>0, <1>a DEF Link!Stopped
<1>3. ConnectorTypeOK'
  <2>1. op' \in Link!Operations \cup {None}
    BY <1>0, <1>1, <1>2 DEF ConnectorTypeOK, Becomes
  <2>2. /\ state' \in Link!DeviceStates \cup {None} /\ disk' \in Link!DeviceStates \cup {None}
        /\ stops' \in Seq(Stop) /\ adapter' \in BOOLEAN /\ frpc' \in BOOLEAN
    BY <1>0, <1>1, <1>2 DEF ConnectorTypeOK
  <2> QED BY <1>1, <1>2, <2>1, <2>2 DEF ConnectorTypeOK
<1>4. ShutMeansOff' /\ Link!TunnelHasItsAdapter'
  BY <1>0, <1>1, <1>2, WhenAsBefore, WhenOff DEF Shut, Closing, Becomes, Link!ConnectorAssumption
<1>5. Underway'
  BY <1>0, <1>1, <1>2 DEF Underway, Serves, Revokes, About, Becomes, Link!Asks, Link!ConnectorAssumption
<1>6. RemovedMeansPaused'
  BY <1>0, <1>1, <1>2, RemovedStays DEF RemovedMeansPaused
<1> QED BY <1>3, <1>4, <1>5, <1>6 DEF ConnectorInv

LEMMA OverInv ==
  ASSUME Link!ConnectorAssumption, ConnectorInv, Link!Over \/ Link!LastSave \/ Link!Repaired
  PROVE  ConnectorInv'
<1>1. ConnectorTypeOK /\ ShutMeansOff /\ Link!TunnelHasItsAdapter /\ Underway /\ RemovedMeansPaused
  BY DEF ConnectorInv
<1>2. /\ UNCHANGED <<adapter, frpc, stops, stopped, deviceKeys, unsaved, state>>
      /\ disk' \in {disk, state} /\ linkFaults' \in Nat /\ blocked' \in BOOLEAN
      /\ op' = None /\ ~Closing
  BY <1>1, Writes DEF Link!Over, Link!LastSave, Link!Repaired, Link!At, Link!Same, Link!NoWrite, Closing,
     Link!transport, ConnectorTypeOK
<1>3. ConnectorTypeOK'
  <2>1. op' \in Link!Operations \cup {None}
    BY <1>1, <1>2 DEF ConnectorTypeOK, Becomes
  <2>2. /\ state' \in Link!DeviceStates \cup {None} /\ disk' \in Link!DeviceStates \cup {None}
        /\ stops' \in Seq(Stop) /\ adapter' \in BOOLEAN /\ frpc' \in BOOLEAN
    BY <1>1, <1>2 DEF ConnectorTypeOK
  <2> QED BY <1>1, <1>2, <2>1, <2>2 DEF ConnectorTypeOK
<1>4. ShutMeansOff' /\ Link!TunnelHasItsAdapter'
  BY <1>1, <1>2, WhenAsBefore, WhenOff DEF Shut, Closing, Becomes, Link!ConnectorAssumption
<1>5. Underway'
  BY <1>1, <1>2 DEF Underway, Serves, Revokes, About, Becomes, Link!Asks, Link!ConnectorAssumption
<1>6. RemovedMeansPaused'
  BY <1>1, <1>2, RemovedStays DEF RemovedMeansPaused
<1> QED BY <1>3, <1>4, <1>5, <1>6 DEF ConnectorInv

LEMMA ThrowInv ==
  ASSUME Link!ConnectorAssumption, ConnectorInv, Link!At("answered"), NEW answer, Link!Throw(answer), Link!Same,
         Link!NoWrite
  PROVE  ConnectorInv'
<1>1. ConnectorTypeOK /\ ShutMeansOff /\ Link!TunnelHasItsAdapter /\ Underway /\ RemovedMeansPaused
  BY DEF ConnectorInv
<1>2. /\ op \in Link!Operations /\ op.step = "answered" /\ state \in Link!DeviceStates
      /\ UNCHANGED <<blocked, stopped, deviceKeys, disk, linkFaults, unsaved>>
  BY <1>1 DEF Link!At, ConnectorTypeOK, Underway, Link!Same, Link!NoWrite
<1>3. \/ op' = None /\ UNCHANGED <<state, adapter, frpc, stops>>
      \/ /\ Becomes(op', "refused", op.ask, op.wait, op.moved) /\ UNCHANGED <<adapter, frpc, stops>>
         /\ state' \in Link!DeviceStates /\ state'.paused
      \/ /\ Becomes(op', "over", op.ask, Len(stops) + 1, TRUE) /\ UNCHANGED state
         /\ Off' /\ adapter' = FALSE /\ frpc' = FALSE /\ stops' \in Seq(Stop)
  BY <1>1, <1>2, LinkGoes, StopsAndGoes, DevicePauses DEF Link!Throw, Link!Steps, Link!transport
<1>4. ConnectorTypeOK'
  <2>1. op' \in Link!Operations \cup {None} /\ state' \in Link!DeviceStates \cup {None} /\ stops' \in Seq(Stop)
        /\ adapter' \in BOOLEAN /\ frpc' \in BOOLEAN
    BY <1>1, <1>2, <1>3 DEF ConnectorTypeOK, Becomes
  <2> QED BY <1>1, <1>2, <2>1 DEF ConnectorTypeOK
<1>5. ShutMeansOff' /\ Link!TunnelHasItsAdapter'
  BY <1>1, <1>2, <1>3, WhenAsBefore, WhenOff DEF Shut, Closing, Becomes, Link!ConnectorAssumption
<1>6. Underway'
  BY <1>1, <1>2, <1>3 DEF Underway, Serves, Revokes, About, Becomes, Link!ConnectorAssumption
<1>7. RemovedMeansPaused'
  BY <1>1, <1>2, <1>3, RemovedStays DEF RemovedMeansPaused
<1> QED BY <1>4, <1>5, <1>6, <1>7 DEF ConnectorInv

LEMMA ClosingInv ==
  ASSUME Link!ConnectorAssumption, ConnectorInv, Link!RefusedSaved \/ Link!IntentSaved
  PROVE  ConnectorInv'
<1>1. ConnectorTypeOK /\ ShutMeansOff /\ Link!TunnelHasItsAdapter /\ Underway /\ RemovedMeansPaused
  BY DEF ConnectorInv
<1>0. /\ op \in Link!Operations /\ op # None /\ op.step \in {"refused", "intent"}
         /\ state \in Link!DeviceStates /\ state # None /\ (op.step = "intent" => state.paused)
  BY <1>1 DEF Link!RefusedSaved, Link!IntentSaved, Link!At, Link!Answered, ConnectorTypeOK, Underway
<1>2. /\ UNCHANGED <<state, blocked, stopped, deviceKeys>>
      /\ disk' \in {disk, state} /\ linkFaults' \in Nat /\ unsaved' \in BOOLEAN
      /\ \/ /\ \E step \in {"over", "pause", "revoke"} : Becomes(op', step, op.ask, Len(stops) + 1, TRUE)
            /\ op'.step = "revoke" => state.paused
            /\ Off' /\ adapter' = FALSE /\ frpc' = FALSE /\ stops' \in Seq(Stop)
         \/ op' = None /\ unsaved' = TRUE /\ UNCHANGED <<adapter, frpc, stops>>
  BY <1>0, <1>1, Writes, StopsAndGoes DEF Link!RefusedSaved, Link!IntentSaved, Link!Then, Link!At, Link!Same,
     Link!Steps, Becomes, Link!transport, ConnectorTypeOK
<1>3. ConnectorTypeOK'
  <2>1. op' \in Link!Operations \cup {None}
    BY <1>0, <1>1, <1>2 DEF ConnectorTypeOK, Becomes
  <2>2. /\ state' \in Link!DeviceStates \cup {None} /\ disk' \in Link!DeviceStates \cup {None}
        /\ stops' \in Seq(Stop) /\ adapter' \in BOOLEAN /\ frpc' \in BOOLEAN
    BY <1>0, <1>1, <1>2 DEF ConnectorTypeOK
  <2> QED BY <1>1, <1>2, <2>1, <2>2 DEF ConnectorTypeOK
<1>4. ShutMeansOff' /\ Link!TunnelHasItsAdapter'
  BY <1>0, <1>1, <1>2, WhenAsBefore, WhenOff DEF Shut, Closing, Becomes, Link!ConnectorAssumption
<1>5. Underway'
  BY <1>0, <1>1, <1>2 DEF Underway, Serves, Revokes, About, Becomes, Link!Asks, Link!ConnectorAssumption
<1>6. RemovedMeansPaused'
  BY <1>0, <1>1, <1>2, RemovedStays DEF RemovedMeansPaused
<1> QED BY <1>3, <1>4, <1>5, <1>6 DEF ConnectorInv

LEMMA ClaimInv ==
  ASSUME Link!ConnectorAssumption, ConnectorInv, Link!Claimed, ~Link!Throw(Link!Reply)
  PROVE  ConnectorInv'
<1>1. ConnectorTypeOK /\ ShutMeansOff /\ Link!TunnelHasItsAdapter /\ Underway /\ RemovedMeansPaused
  BY DEF ConnectorInv
<1>0. /\ op \in Link!Operations /\ op # None /\ op.step = "answered" /\ state \in Link!DeviceStates
         /\ state # None /\ op.ask[1] = "claim"
  BY <1>1 DEF Link!Claimed, Link!At, Link!Answered, ConnectorTypeOK, Underway
<1>2. /\ UNCHANGED <<blocked, stopped, deviceKeys, disk, linkFaults, unsaved>>
         /\ UNCHANGED <<adapter, frpc, stops>>
      /\ Becomes(op', "bound", op.ask, op.wait, op.moved) /\ ~Closing
      /\ state' \in Link!DeviceStates /\ state'.bound /\ state'.paused = state.paused
         /\ state'.pendingUnbind = state.pendingUnbind
  BY <1>0, LinkGoes DEF Link!Claimed, Link!DeviceStates, Link!Steps, Link!Same, Link!NoWrite, Closing,
     Link!transport
<1>3. ConnectorTypeOK'
  <2>1. op' \in Link!Operations \cup {None}
    BY <1>0, <1>1, <1>2 DEF ConnectorTypeOK, Becomes
  <2>2. /\ state' \in Link!DeviceStates \cup {None} /\ disk' \in Link!DeviceStates \cup {None}
        /\ stops' \in Seq(Stop) /\ adapter' \in BOOLEAN /\ frpc' \in BOOLEAN
    BY <1>0, <1>1, <1>2 DEF ConnectorTypeOK
  <2> QED BY <1>1, <1>2, <2>1, <2>2 DEF ConnectorTypeOK
<1>4. ShutMeansOff' /\ Link!TunnelHasItsAdapter'
  BY <1>0, <1>1, <1>2, WhenAsBefore, WhenOff DEF Shut, Closing, Becomes, Link!ConnectorAssumption
<1>5. Underway'
  BY <1>0, <1>1, <1>2 DEF Underway, Serves, Revokes, About, Becomes, Link!Asks, Link!ConnectorAssumption
<1>6. RemovedMeansPaused'
  BY <1>0, <1>1, <1>2, RemovedStays DEF RemovedMeansPaused
<1> QED BY <1>3, <1>4, <1>5, <1>6 DEF ConnectorInv

LEMMA BoundInv ==
  ASSUME Link!ConnectorAssumption, ConnectorInv, Link!BoundSaved
  PROVE  ConnectorInv'
<1>1. ConnectorTypeOK /\ ShutMeansOff /\ Link!TunnelHasItsAdapter /\ Underway /\ RemovedMeansPaused
  BY DEF ConnectorInv
<1>0. /\ op \in Link!Operations /\ op # None /\ op.step = "bound" /\ state \in Link!DeviceStates
         /\ state # None /\ state.bound
  BY <1>1 DEF Link!BoundSaved, Link!At, Link!Answered, ConnectorTypeOK, Underway
<1>2. /\ UNCHANGED <<state, blocked, stopped, deviceKeys, unsaved>> /\ UNCHANGED <<adapter, frpc, stops>>
      /\ disk' \in {disk, state} /\ linkFaults' \in Nat /\ ~Closing
      /\ op' = None \/ (Becomes(op', "serve", op.ask, op.wait, op.moved) /\ state.bound /\ ~state.paused)
  BY <1>0, <1>1, Writes, LinkGoes DEF Link!BoundSaved, Link!Same, Link!Steps, Closing, Link!transport
<1>3. ConnectorTypeOK'
  <2>1. op' \in Link!Operations \cup {None}
    BY <1>0, <1>1, <1>2 DEF ConnectorTypeOK, Becomes
  <2>2. /\ state' \in Link!DeviceStates \cup {None} /\ disk' \in Link!DeviceStates \cup {None}
        /\ stops' \in Seq(Stop) /\ adapter' \in BOOLEAN /\ frpc' \in BOOLEAN
    BY <1>0, <1>1, <1>2 DEF ConnectorTypeOK
  <2> QED BY <1>1, <1>2, <2>1, <2>2 DEF ConnectorTypeOK
<1>4. ShutMeansOff' /\ Link!TunnelHasItsAdapter'
  BY <1>0, <1>1, <1>2, WhenAsBefore, WhenOff DEF Shut, Closing, Becomes, Link!ConnectorAssumption
<1>5. Underway'
  BY <1>0, <1>1, <1>2 DEF Underway, Serves, Revokes, About, Becomes, Link!Asks, Link!ConnectorAssumption
<1>6. RemovedMeansPaused'
  BY <1>0, <1>1, <1>2, RemovedStays DEF RemovedMeansPaused
<1> QED BY <1>3, <1>4, <1>5, <1>6 DEF ConnectorInv

LEMMA ServeInv ==
  ASSUME Link!ConnectorAssumption, ConnectorInv, Link!serve
  PROVE  ConnectorInv'
<1>1. ConnectorTypeOK /\ ShutMeansOff /\ Link!TunnelHasItsAdapter /\ Underway /\ RemovedMeansPaused
  BY DEF ConnectorInv
<1>0. /\ op \in Link!Operations /\ op # None /\ op.step = "serve" /\ state \in Link!DeviceStates
         /\ state # None /\ state.bound /\ ~state.paused
  BY <1>1 DEF Link!serve, Link!At, Link!Answered, ConnectorTypeOK, Underway, Serves
<1>2. /\ UNCHANGED <<blocked, stopped, deviceKeys, disk, linkFaults, unsaved>> /\ UNCHANGED state /\ ~Closing
      /\ \/ op' = None /\ UNCHANGED <<adapter, frpc, stops>>
         \/ Becomes(op', "asking", "heartbeat", op.wait, op.moved) /\ UNCHANGED <<adapter, frpc, stops>>
         \/ /\ \E step \in {"serve", "start"} : Becomes(op', step, op.ask, Len(stops) + 1, TRUE)
            /\ Off' /\ adapter' = FALSE /\ frpc' = FALSE /\ stops' \in Seq(Stop)
  BY <1>0, <1>1, AsksNext, StopsAndGoes DEF Link!serve, Link!Same, Link!NoWrite, Link!Steps, Link!Asks, Closing,
     Link!transport
<1>3. ConnectorTypeOK'
  <2>1. op' \in Link!Operations \cup {None}
    BY <1>0, <1>1, <1>2 DEF ConnectorTypeOK, Becomes
  <2>2. /\ state' \in Link!DeviceStates \cup {None} /\ disk' \in Link!DeviceStates \cup {None}
        /\ stops' \in Seq(Stop) /\ adapter' \in BOOLEAN /\ frpc' \in BOOLEAN
    BY <1>0, <1>1, <1>2 DEF ConnectorTypeOK
  <2> QED BY <1>1, <1>2, <2>1, <2>2 DEF ConnectorTypeOK
<1>4. ShutMeansOff' /\ Link!TunnelHasItsAdapter'
  BY <1>0, <1>1, <1>2, WhenAsBefore, WhenOff DEF Shut, Closing, Becomes, Link!ConnectorAssumption
<1>5. Underway'
  BY <1>0, <1>1, <1>2 DEF Underway, Serves, Revokes, About, Becomes, Link!Asks, Link!ConnectorAssumption
<1>6. RemovedMeansPaused'
  BY <1>0, <1>1, <1>2, RemovedStays DEF RemovedMeansPaused
<1> QED BY <1>3, <1>4, <1>5, <1>6 DEF ConnectorInv

LEMMA BeatInv ==
  ASSUME Link!ConnectorAssumption, ConnectorInv, Link!Beaten, ~Link!Throw(Link!Reply)
  PROVE  ConnectorInv'
<1>1. ConnectorTypeOK /\ ShutMeansOff /\ Link!TunnelHasItsAdapter /\ Underway /\ RemovedMeansPaused
  BY DEF ConnectorInv
<1>0. /\ op \in Link!Operations /\ op # None /\ op.step = "answered" /\ state \in Link!DeviceStates
         /\ state # None /\ op.ask[1] = "heartbeat"
  BY <1>1 DEF Link!Beaten, Link!At, Link!Answered, ConnectorTypeOK, Underway
<1>2. /\ UNCHANGED <<blocked, stopped, deviceKeys, disk, linkFaults, unsaved>> /\ UNCHANGED state /\ ~Closing
      /\ \/ op' = None /\ UNCHANGED <<adapter, frpc, stops>>
         \/ /\ Becomes(op', "over", op.ask, Len(stops) + 1, TRUE)
            /\ Off' /\ adapter' = FALSE /\ frpc' = FALSE /\ stops' \in Seq(Stop)
  BY <1>0, <1>1, StopsAndGoes DEF Link!Beaten, Link!Same, Link!NoWrite, Link!Steps, Closing, Link!transport
<1>3. ConnectorTypeOK'
  <2>1. op' \in Link!Operations \cup {None}
    BY <1>0, <1>1, <1>2 DEF ConnectorTypeOK, Becomes
  <2>2. /\ state' \in Link!DeviceStates \cup {None} /\ disk' \in Link!DeviceStates \cup {None}
        /\ stops' \in Seq(Stop) /\ adapter' \in BOOLEAN /\ frpc' \in BOOLEAN
    BY <1>0, <1>1, <1>2 DEF ConnectorTypeOK
  <2> QED BY <1>1, <1>2, <2>1, <2>2 DEF ConnectorTypeOK
<1>4. ShutMeansOff' /\ Link!TunnelHasItsAdapter'
  BY <1>0, <1>1, <1>2, WhenAsBefore, WhenOff DEF Shut, Closing, Becomes, Link!ConnectorAssumption
<1>5. Underway'
  BY <1>0, <1>1, <1>2 DEF Underway, Serves, Revokes, About, Becomes, Link!Asks, Link!ConnectorAssumption
<1>6. RemovedMeansPaused'
  BY <1>0, <1>1, <1>2, RemovedStays DEF RemovedMeansPaused
<1> QED BY <1>3, <1>4, <1>5, <1>6 DEF ConnectorInv

LEMMA StartInv ==
  ASSUME Link!ConnectorAssumption, ConnectorInv, Link!Start \/ Link!Prepare
  PROVE  ConnectorInv'
<1>1. ConnectorTypeOK /\ ShutMeansOff /\ Link!TunnelHasItsAdapter /\ Underway /\ RemovedMeansPaused
  BY DEF ConnectorInv
<1>0. /\ op \in Link!Operations /\ op # None /\ op.step \in {"start", "prepare"} /\ state \in Link!DeviceStates
         /\ state # None /\ state.bound /\ ~state.paused
  BY <1>1 DEF Link!Start, Link!Prepare, Link!At, Link!Answered, ConnectorTypeOK, Underway, Serves
<1>b. Becomes([op EXCEPT !.step = "generation", !.moved = FALSE], "generation", op.ask, op.wait, FALSE)
  BY <1>0 DEF Link!Operations, Link!Steps, Becomes
<1>2. /\ UNCHANGED <<state, disk, stopped, deviceKeys, linkFaults, unsaved>> /\ blocked' \in BOOLEAN
         /\ UNCHANGED <<adapter, frpc, stops>> /\ ~Closing
      /\ \/ op' = None
         \/ Becomes(op', "asking", "connect", op.wait, op.moved)
         \/ Becomes(op', "generation", op.ask, op.wait, FALSE)
  BY <1>0, <1>1, <1>b, AsksNext DEF Link!Start, Link!Prepare, Link!Same, Link!NoWrite, Link!Asks, Closing,
     Link!transport, ConnectorTypeOK
<1>3. ConnectorTypeOK'
  <2>1. op' \in Link!Operations \cup {None}
    BY <1>0, <1>1, <1>2 DEF ConnectorTypeOK, Becomes
  <2>2. /\ state' \in Link!DeviceStates \cup {None} /\ disk' \in Link!DeviceStates \cup {None}
        /\ stops' \in Seq(Stop) /\ adapter' \in BOOLEAN /\ frpc' \in BOOLEAN
    BY <1>0, <1>1, <1>2 DEF ConnectorTypeOK
  <2> QED BY <1>1, <1>2, <2>1, <2>2 DEF ConnectorTypeOK
<1>4. ShutMeansOff' /\ Link!TunnelHasItsAdapter'
  BY <1>0, <1>1, <1>2, WhenAsBefore, WhenOff DEF Shut, Closing, Becomes, Link!ConnectorAssumption
<1>5. Underway'
  BY <1>0, <1>1, <1>2 DEF Underway, Serves, Revokes, About, Becomes, Link!Asks, Link!ConnectorAssumption
<1>6. RemovedMeansPaused'
  BY <1>0, <1>1, <1>2, RemovedStays DEF RemovedMeansPaused
<1> QED BY <1>3, <1>4, <1>5, <1>6 DEF ConnectorInv

LEMMA ConnectInv ==
  ASSUME Link!ConnectorAssumption, ConnectorInv, Link!Connected, ~Link!Throw(Link!Reply)
  PROVE  ConnectorInv'
<1>1. ConnectorTypeOK /\ ShutMeansOff /\ Link!TunnelHasItsAdapter /\ Underway /\ RemovedMeansPaused
  BY DEF ConnectorInv
<1>0. /\ op \in Link!Operations /\ op # None /\ op.step = "answered" /\ state \in Link!DeviceStates
         /\ state # None /\ op.ask[1] = "connect" /\ state.bound /\ ~state.paused
  BY <1>1 DEF Link!Connected, Link!At, Link!Answered, ConnectorTypeOK, Underway, Serves, About
<1>b. Len(stops) \in Nat
      /\ Becomes([op EXCEPT !.step = "prepare", !.wait = Len(stops)], "prepare", op.ask, Len(stops), op.moved)
  <2>1. Len(stops) \in Nat
    BY <1>1 DEF ConnectorTypeOK
  <2> QED BY <1>0, <2>1 DEF Link!Operations, Link!Steps, Becomes
<1>2. /\ UNCHANGED <<blocked, stopped, deviceKeys, disk, linkFaults, unsaved>>
         /\ UNCHANGED <<adapter, frpc, stops>> /\ UNCHANGED state /\ ~Closing
      /\ op' = None \/ (Len(stops) \in Nat /\ Becomes(op', "prepare", op.ask, Len(stops), op.moved))
  BY <1>0, <1>1, <1>b DEF Link!Connected, Link!Same, Link!NoWrite, Closing, Link!transport
<1>3. ConnectorTypeOK'
  <2>1. op' \in Link!Operations \cup {None}
    BY <1>0, <1>1, <1>2 DEF ConnectorTypeOK, Becomes
  <2>2. /\ state' \in Link!DeviceStates \cup {None} /\ disk' \in Link!DeviceStates \cup {None}
        /\ stops' \in Seq(Stop) /\ adapter' \in BOOLEAN /\ frpc' \in BOOLEAN
    BY <1>0, <1>1, <1>2 DEF ConnectorTypeOK
  <2> QED BY <1>1, <1>2, <2>1, <2>2 DEF ConnectorTypeOK
<1>4. ShutMeansOff' /\ Link!TunnelHasItsAdapter'
  BY <1>0, <1>1, <1>2, WhenAsBefore, WhenOff DEF Shut, Closing, Becomes, Link!ConnectorAssumption
<1>5. Underway'
  BY <1>0, <1>1, <1>2 DEF Underway, Serves, Revokes, About, Becomes, Link!Asks, Link!ConnectorAssumption
<1>6. RemovedMeansPaused'
  BY <1>0, <1>1, <1>2, RemovedStays DEF RemovedMeansPaused
<1> QED BY <1>3, <1>4, <1>5, <1>6 DEF ConnectorInv

LEMMA AdapterInv ==
  ASSUME Link!ConnectorAssumption, ConnectorInv, Link!StartAdapter
  PROVE  ConnectorInv'
<1>1. ConnectorTypeOK /\ ShutMeansOff /\ Link!TunnelHasItsAdapter /\ Underway /\ RemovedMeansPaused
  BY DEF ConnectorInv
<1>0. /\ op \in Link!Operations /\ op # None /\ op.step = "generation" /\ state \in Link!DeviceStates
         /\ state # None /\ state.bound /\ ~state.paused
  BY <1>1 DEF Link!StartAdapter, Link!At, Link!Answered, ConnectorTypeOK, Underway, Serves
<1>2. /\ UNCHANGED <<state, blocked, stopped, deviceKeys, unsaved, frpc, stops>>
      /\ disk' \in {disk, state} /\ linkFaults' \in Nat /\ ~Closing
      /\ \/ op' = None /\ UNCHANGED adapter
         \/ Becomes(op', "configure", op.ask, op.wait, op.moved) /\ adapter' = TRUE
  BY <1>0, <1>1, Writes, LinkGoes DEF Link!StartAdapter, Link!Same, Link!Steps, Closing
<1>3. ConnectorTypeOK'
  <2>1. op' \in Link!Operations \cup {None}
    BY <1>0, <1>1, <1>2 DEF ConnectorTypeOK, Becomes
  <2>2. /\ state' \in Link!DeviceStates \cup {None} /\ disk' \in Link!DeviceStates \cup {None}
        /\ stops' \in Seq(Stop) /\ adapter' \in BOOLEAN /\ frpc' \in BOOLEAN
    BY <1>0, <1>1, <1>2 DEF ConnectorTypeOK
  <2> QED BY <1>1, <1>2, <2>1, <2>2 DEF ConnectorTypeOK
<1>4. ShutMeansOff' /\ Link!TunnelHasItsAdapter'
  BY <1>0, <1>1, <1>2, WhenAsBefore, WhenOff DEF Shut, Closing, Becomes, Link!ConnectorAssumption,
     Link!TunnelHasItsAdapter, ShutMeansOff
<1>5. Underway'
  BY <1>0, <1>1, <1>2 DEF Underway, Serves, Revokes, About, Becomes, Link!Asks, Link!ConnectorAssumption
<1>6. RemovedMeansPaused'
  BY <1>0, <1>1, <1>2, RemovedStays DEF RemovedMeansPaused
<1> QED BY <1>3, <1>4, <1>5, <1>6 DEF ConnectorInv

LEMMA SpawnInv ==
  ASSUME Link!ConnectorAssumption, ConnectorInv, Link!Spawn
  PROVE  ConnectorInv'
<1>1. ConnectorTypeOK /\ ShutMeansOff /\ Link!TunnelHasItsAdapter /\ Underway /\ RemovedMeansPaused
  BY DEF ConnectorInv
<1>0. /\ op \in Link!Operations /\ op # None /\ op.step = "configure" /\ state \in Link!DeviceStates
         /\ state # None /\ state.bound /\ ~state.paused /\ (~op.moved => adapter)
  BY <1>1 DEF Link!Spawn, Link!At, Link!Answered, ConnectorTypeOK, Underway, Serves
<1>2. /\ UNCHANGED <<state, disk, stopped, deviceKeys, unsaved>> /\ ~Closing
      /\ blocked' \in BOOLEAN /\ linkFaults' \in Nat
      /\ \/ op' = None /\ UNCHANGED <<adapter, frpc, stops>>
         \/ op' = None /\ adapter /\ frpc' = TRUE /\ UNCHANGED <<adapter, stops>>
         \/ /\ Becomes(op', "over", op.ask, Len(stops) + 1, TRUE)
            /\ Off' /\ adapter' = FALSE /\ frpc' = FALSE /\ stops' \in Seq(Stop)
  BY <1>0, <1>1, Faults, StopsAndGoes DEF Link!Spawn, Link!MaySpawn, Link!At, Link!Steps, Closing, Link!transport,
     ConnectorTypeOK
<1>3. ConnectorTypeOK'
  <2>1. op' \in Link!Operations \cup {None}
    BY <1>0, <1>1, <1>2 DEF ConnectorTypeOK, Becomes
  <2>2. /\ state' \in Link!DeviceStates \cup {None} /\ disk' \in Link!DeviceStates \cup {None}
        /\ stops' \in Seq(Stop) /\ adapter' \in BOOLEAN /\ frpc' \in BOOLEAN
    BY <1>0, <1>1, <1>2 DEF ConnectorTypeOK
  <2> QED BY <1>1, <1>2, <2>1, <2>2 DEF ConnectorTypeOK
<1>4. ShutMeansOff' /\ Link!TunnelHasItsAdapter'
  BY <1>0, <1>1, <1>2, WhenAsBefore, WhenOff DEF Shut, Closing, Becomes, Link!ConnectorAssumption,
     Link!TunnelHasItsAdapter, ShutMeansOff
<1>5. Underway'
  BY <1>0, <1>1, <1>2 DEF Underway, Serves, Revokes, About, Becomes, Link!Asks, Link!ConnectorAssumption
<1>6. RemovedMeansPaused'
  BY <1>0, <1>1, <1>2, RemovedStays DEF RemovedMeansPaused
<1> QED BY <1>3, <1>4, <1>5, <1>6 DEF ConnectorInv

LEMMA DeviceInv ==
  ASSUME Link!ConnectorAssumption, ConnectorInv, Link!DeviceSaved \/ Link!TellPause
  PROVE  ConnectorInv'
<1>1. ConnectorTypeOK /\ ShutMeansOff /\ Link!TunnelHasItsAdapter /\ Underway /\ RemovedMeansPaused
  BY DEF ConnectorInv
<1>0. /\ op \in Link!Operations /\ op # None /\ op.step \in {"new device", "pause"}
         /\ state \in Link!DeviceStates /\ state # None
  BY <1>1 DEF Link!DeviceSaved, Link!TellPause, Link!At, Link!Answered, ConnectorTypeOK, Underway
<1>2. /\ UNCHANGED <<state, blocked, stopped, deviceKeys, unsaved>> /\ UNCHANGED <<adapter, frpc, stops>>
      /\ disk' \in {disk, state} /\ linkFaults' \in Nat /\ ~Closing
      /\ \/ op' = None
         \/ Becomes(op', "asking", "enroll", op.wait, op.moved)
         \/ Becomes(op', "asking", "pause", op.wait, op.moved)
  BY <1>0, <1>1, Writes, AsksNext DEF Link!DeviceSaved, Link!TellPause, Link!Same, Link!NoWrite, Link!Asks,
     Closing, Link!transport, ConnectorTypeOK
<1>3. ConnectorTypeOK'
  <2>1. op' \in Link!Operations \cup {None}
    BY <1>0, <1>1, <1>2 DEF ConnectorTypeOK, Becomes
  <2>2. /\ state' \in Link!DeviceStates \cup {None} /\ disk' \in Link!DeviceStates \cup {None}
        /\ stops' \in Seq(Stop) /\ adapter' \in BOOLEAN /\ frpc' \in BOOLEAN
    BY <1>0, <1>1, <1>2 DEF ConnectorTypeOK
  <2> QED BY <1>1, <1>2, <2>1, <2>2 DEF ConnectorTypeOK
<1>4. ShutMeansOff' /\ Link!TunnelHasItsAdapter'
  BY <1>0, <1>1, <1>2, WhenAsBefore, WhenOff DEF Shut, Closing, Becomes, Link!ConnectorAssumption
<1>5. Underway'
  BY <1>0, <1>1, <1>2 DEF Underway, Serves, Revokes, About, Becomes, Link!Asks, Link!ConnectorAssumption
<1>6. RemovedMeansPaused'
  BY <1>0, <1>1, <1>2, RemovedStays DEF RemovedMeansPaused
<1> QED BY <1>3, <1>4, <1>5, <1>6 DEF ConnectorInv

LEMMA EnrolledInv ==
  ASSUME Link!ConnectorAssumption, ConnectorInv, Link!Enrolled
  PROVE  ConnectorInv'
<1>1. ConnectorTypeOK /\ ShutMeansOff /\ Link!TunnelHasItsAdapter /\ Underway /\ RemovedMeansPaused
  BY DEF ConnectorInv
<1>0. /\ op \in Link!Operations /\ op # None /\ op.step = "answered" /\ state \in Link!DeviceStates
         /\ state # None /\ op.ask[1] = "enroll"
  BY <1>1 DEF Link!Enrolled, Link!At, Link!Answered, ConnectorTypeOK, Underway
<1>2. /\ UNCHANGED <<blocked, stopped, deviceKeys, disk, linkFaults, unsaved>>
         /\ UNCHANGED <<adapter, frpc, stops>> /\ ~Closing
      /\ op' = None \/ Becomes(op', "last save", op.ask, op.wait, op.moved)
      /\ state' = state
         \/ (state' \in Link!DeviceStates /\ state'.paused = state.paused /\ state'.bound = state.bound
             /\ state'.pendingUnbind = state.pendingUnbind)
  BY <1>0, LinkGoes DEF Link!Enrolled, Link!DeviceStates, Link!Steps, Link!Same, Link!NoWrite, Closing,
     Link!transport
<1>3. ConnectorTypeOK'
  <2>1. op' \in Link!Operations \cup {None}
    BY <1>0, <1>1, <1>2 DEF ConnectorTypeOK, Becomes
  <2>2. /\ state' \in Link!DeviceStates \cup {None} /\ disk' \in Link!DeviceStates \cup {None}
        /\ stops' \in Seq(Stop) /\ adapter' \in BOOLEAN /\ frpc' \in BOOLEAN
    BY <1>0, <1>1, <1>2 DEF ConnectorTypeOK
  <2> QED BY <1>1, <1>2, <2>1, <2>2 DEF ConnectorTypeOK
<1>4. ShutMeansOff' /\ Link!TunnelHasItsAdapter'
  BY <1>0, <1>1, <1>2, WhenAsBefore, WhenOff DEF Shut, Closing, Becomes, Link!ConnectorAssumption
<1>5. Underway'
  BY <1>0, <1>1, <1>2 DEF Underway, Serves, Revokes, About, Becomes, Link!Asks, Link!ConnectorAssumption
<1>6. RemovedMeansPaused'
  BY <1>0, <1>1, <1>2, RemovedStays DEF RemovedMeansPaused
<1> QED BY <1>3, <1>4, <1>5, <1>6 DEF ConnectorInv

LEMMA PauseToldInv ==
  ASSUME Link!ConnectorAssumption, ConnectorInv, Link!PauseTold, ~Link!Throw(Link!Reply)
  PROVE  ConnectorInv'
<1>1. ConnectorTypeOK /\ ShutMeansOff /\ Link!TunnelHasItsAdapter /\ Underway /\ RemovedMeansPaused
  BY DEF ConnectorInv
<1>0. /\ op \in Link!Operations /\ op # None /\ op.step = "answered" /\ state \in Link!DeviceStates
         /\ state # None /\ op.ask[1] = "pause"
  BY <1>1 DEF Link!PauseTold, Link!At, Link!Answered, ConnectorTypeOK, Underway
<1>2. /\ UNCHANGED <<blocked, stopped, deviceKeys, disk, linkFaults, unsaved>>
         /\ UNCHANGED <<adapter, frpc, stops>> /\ ~Closing
      /\ op' = None \/ Becomes(op', "last save", op.ask, op.wait, op.moved)
      /\ state' = state
         \/ (state' \in Link!DeviceStates /\ state'.paused = state.paused /\ state'.bound = state.bound
             /\ state'.pendingUnbind = state.pendingUnbind)
  BY <1>0, LinkGoes DEF Link!PauseTold, Link!DeviceStates, Link!Steps, Link!Same, Link!NoWrite, Closing,
     Link!transport
<1>3. ConnectorTypeOK'
  <2>1. op' \in Link!Operations \cup {None}
    BY <1>0, <1>1, <1>2 DEF ConnectorTypeOK, Becomes
  <2>2. /\ state' \in Link!DeviceStates \cup {None} /\ disk' \in Link!DeviceStates \cup {None}
        /\ stops' \in Seq(Stop) /\ adapter' \in BOOLEAN /\ frpc' \in BOOLEAN
    BY <1>0, <1>1, <1>2 DEF ConnectorTypeOK
  <2> QED BY <1>1, <1>2, <2>1, <2>2 DEF ConnectorTypeOK
<1>4. ShutMeansOff' /\ Link!TunnelHasItsAdapter'
  BY <1>0, <1>1, <1>2, WhenAsBefore, WhenOff DEF Shut, Closing, Becomes, Link!ConnectorAssumption
<1>5. Underway'
  BY <1>0, <1>1, <1>2 DEF Underway, Serves, Revokes, About, Becomes, Link!Asks, Link!ConnectorAssumption
<1>6. RemovedMeansPaused'
  BY <1>0, <1>1, <1>2, RemovedStays DEF RemovedMeansPaused
<1> QED BY <1>3, <1>4, <1>5, <1>6 DEF ConnectorInv

LEMMA ResumedInv ==
  ASSUME Link!ConnectorAssumption, ConnectorInv, Link!Resumed
  PROVE  ConnectorInv'
<1>1. ConnectorTypeOK /\ ShutMeansOff /\ Link!TunnelHasItsAdapter /\ Underway /\ RemovedMeansPaused
  BY DEF ConnectorInv
<1>0. /\ op \in Link!Operations /\ op # None /\ op.step = "answered" /\ state \in Link!DeviceStates
         /\ state # None /\ ~state.pendingUnbind
  BY <1>1 DEF Link!Resumed, Link!At, Link!Answered, ConnectorTypeOK, Underway, About
<1>2. /\ UNCHANGED <<blocked, stopped, deviceKeys, disk, linkFaults, unsaved>>
         /\ UNCHANGED <<adapter, frpc, stops>> /\ ~Closing
      /\ op' = None \/ Becomes(op', "last save", op.ask, op.wait, op.moved)
      /\ state' = state
         \/ (state' \in Link!DeviceStates /\ ~state'.paused /\ state'.bound = state.bound /\ ~state'.pendingUnbind)
  BY <1>0, LinkGoes DEF Link!Resumed, Link!DeviceStates, Link!Steps, Link!Same, Link!NoWrite, Closing,
     Link!transport
<1>3. ConnectorTypeOK'
  <2>1. op' \in Link!Operations \cup {None}
    BY <1>0, <1>1, <1>2 DEF ConnectorTypeOK, Becomes
  <2>2. /\ state' \in Link!DeviceStates \cup {None} /\ disk' \in Link!DeviceStates \cup {None}
        /\ stops' \in Seq(Stop) /\ adapter' \in BOOLEAN /\ frpc' \in BOOLEAN
    BY <1>0, <1>1, <1>2 DEF ConnectorTypeOK
  <2> QED BY <1>1, <1>2, <2>1, <2>2 DEF ConnectorTypeOK
<1>4. ShutMeansOff' /\ Link!TunnelHasItsAdapter'
  BY <1>0, <1>1, <1>2, WhenAsBefore, WhenOff DEF Shut, Closing, Becomes, Link!ConnectorAssumption
<1>5. Underway'
  BY <1>0, <1>1, <1>2 DEF Underway, Serves, Revokes, About, Becomes, Link!Asks, Link!ConnectorAssumption
<1>6. RemovedMeansPaused'
  BY <1>0, <1>1, <1>2, RemovedStays DEF RemovedMeansPaused
<1> QED BY <1>3, <1>4, <1>5, <1>6 DEF ConnectorInv

LEMMA RevokeInv ==
  ASSUME Link!ConnectorAssumption, ConnectorInv, Link!revoke
  PROVE  ConnectorInv'
<1>1. ConnectorTypeOK /\ ShutMeansOff /\ Link!TunnelHasItsAdapter /\ Underway /\ RemovedMeansPaused
  BY DEF ConnectorInv
<1>0. /\ op \in Link!Operations /\ op # None /\ op.step = "revoke" /\ state \in Link!DeviceStates
         /\ state # None /\ state.paused
  BY <1>1 DEF Link!revoke, Link!At, Link!Answered, ConnectorTypeOK, Underway, Revokes
<1>2. /\ UNCHANGED <<blocked, stopped, deviceKeys, disk, linkFaults, unsaved>>
         /\ UNCHANGED <<adapter, frpc, stops>> /\ ~Closing
      /\ \/ Becomes(op', "asking", "revoke", op.wait, op.moved) /\ UNCHANGED state
         \/ Becomes(op', "last save", op.ask, op.wait, op.moved) /\ state' = None
  BY <1>0, LinkGoes, AsksNext DEF Link!revoke, Link!Asks, Link!Steps, Link!Same, Link!NoWrite, Closing,
     Link!transport
<1>3. ConnectorTypeOK'
  <2>1. op' \in Link!Operations \cup {None}
    BY <1>0, <1>1, <1>2 DEF ConnectorTypeOK, Becomes
  <2>2. /\ state' \in Link!DeviceStates \cup {None} /\ disk' \in Link!DeviceStates \cup {None}
        /\ stops' \in Seq(Stop) /\ adapter' \in BOOLEAN /\ frpc' \in BOOLEAN
    BY <1>0, <1>1, <1>2 DEF ConnectorTypeOK
  <2> QED BY <1>1, <1>2, <2>1, <2>2 DEF ConnectorTypeOK
<1>4. ShutMeansOff' /\ Link!TunnelHasItsAdapter'
  BY <1>0, <1>1, <1>2, WhenAsBefore, WhenOff DEF Shut, Closing, Becomes, Link!ConnectorAssumption
<1>5. Underway'
  BY <1>0, <1>1, <1>2 DEF Underway, Serves, Revokes, About, Becomes, Link!Asks, Link!ConnectorAssumption
<1>6. RemovedMeansPaused'
  BY <1>0, <1>1, <1>2, RemovedStays DEF RemovedMeansPaused
<1> QED BY <1>3, <1>4, <1>5, <1>6 DEF ConnectorInv

LEMMA RevokedInv ==
  ASSUME Link!ConnectorAssumption, ConnectorInv, Link!Revoked, ~Link!Throw(Link!Reply)
  PROVE  ConnectorInv'
<1>1. ConnectorTypeOK /\ ShutMeansOff /\ Link!TunnelHasItsAdapter /\ Underway /\ RemovedMeansPaused
  BY DEF ConnectorInv
<1>0. /\ op \in Link!Operations /\ op # None /\ op.step = "answered" /\ state \in Link!DeviceStates
         /\ state # None /\ state.paused
  BY <1>1 DEF Link!Revoked, Link!At, Link!Answered, ConnectorTypeOK, Underway, Revokes, About
<1>2. /\ UNCHANGED <<blocked, stopped, deviceKeys, disk, linkFaults, unsaved>>
         /\ UNCHANGED <<adapter, frpc, stops>> /\ ~Closing
      /\ Becomes(op', "last save", op.ask, op.wait, op.moved) /\ state' = None
  BY <1>0, LinkGoes DEF Link!Revoked, Link!Steps, Link!Same, Link!NoWrite, Closing, Link!transport
<1>3. ConnectorTypeOK'
  <2>1. op' \in Link!Operations \cup {None}
    BY <1>0, <1>1, <1>2 DEF ConnectorTypeOK, Becomes
  <2>2. /\ state' \in Link!DeviceStates \cup {None} /\ disk' \in Link!DeviceStates \cup {None}
        /\ stops' \in Seq(Stop) /\ adapter' \in BOOLEAN /\ frpc' \in BOOLEAN
    BY <1>0, <1>1, <1>2 DEF ConnectorTypeOK
  <2> QED BY <1>1, <1>2, <2>1, <2>2 DEF ConnectorTypeOK
<1>4. ShutMeansOff' /\ Link!TunnelHasItsAdapter'
  BY <1>0, <1>1, <1>2, WhenAsBefore, WhenOff DEF Shut, Closing, Becomes, Link!ConnectorAssumption
<1>5. Underway'
  BY <1>0, <1>1, <1>2 DEF Underway, Serves, Revokes, About, Becomes, Link!Asks, Link!ConnectorAssumption
<1>6. RemovedMeansPaused'
  BY <1>0, <1>1, <1>2, RemovedStays DEF RemovedMeansPaused
<1> QED BY <1>3, <1>4, <1>5, <1>6 DEF ConnectorInv

LEMMA HandledInv ==
  ASSUME Link!ConnectorAssumption, ConnectorInv, Link!CloudHandles \/ Link!Aborted
  PROVE  ConnectorInv'
<1>1. ConnectorTypeOK /\ ShutMeansOff /\ Link!TunnelHasItsAdapter /\ Underway /\ RemovedMeansPaused
  BY DEF ConnectorInv
<1>0. /\ op \in Link!Operations /\ op # None /\ op.step = "asking" /\ state \in Link!DeviceStates
         /\ state # None /\ op.ask \in Link!Asks
  BY <1>1 DEF Link!CloudHandles, Link!Aborted, Link!At, Link!Answered, ConnectorTypeOK, Underway
<1>b. Link!Answer(op.ask, state.key) \in Link!Replies /\ {"CONNECTION_EXPIRED", "lost"} \subseteq Link!Replies
      /\ 0 \in Nat
  BY DEF Link!Answer, Link!Replies
<1>c. \A answer \in Link!Replies : LET o == [op EXCEPT !.step = "answered", !.ask = <<op.ask, answer>>] IN
        \E ask \in Asked : ask[1] = op.ask /\ Becomes(o, "answered", ask, op.wait, op.moved)
  BY <1>0, IsAnswered
<1>2. /\ UNCHANGED <<blocked, stopped, deviceKeys, disk, linkFaults, unsaved>>
         /\ UNCHANGED <<adapter, frpc, stops>> /\ UNCHANGED state /\ ~Closing
      /\ \E ask \in Asked : ask[1] = op.ask /\ Becomes(op', "answered", ask, op.wait, op.moved)
  BY <1>0, <1>b, <1>c DEF Link!CloudHandles, Link!Aborted, Closing, Link!transport
<1>3. ConnectorTypeOK'
  <2>1. op' \in Link!Operations \cup {None}
    BY <1>0, <1>1, <1>2 DEF ConnectorTypeOK, Becomes
  <2>2. /\ state' \in Link!DeviceStates \cup {None} /\ disk' \in Link!DeviceStates \cup {None}
        /\ stops' \in Seq(Stop) /\ adapter' \in BOOLEAN /\ frpc' \in BOOLEAN
    BY <1>0, <1>1, <1>2 DEF ConnectorTypeOK
  <2> QED BY <1>1, <1>2, <2>1, <2>2 DEF ConnectorTypeOK
<1>4. ShutMeansOff' /\ Link!TunnelHasItsAdapter'
  BY <1>0, <1>1, <1>2, WhenAsBefore, WhenOff DEF Shut, Closing, Becomes, Link!ConnectorAssumption
<1>5. Underway'
  BY <1>0, <1>1, <1>2 DEF Underway, Serves, Revokes, About, Becomes, Link!Asks, Link!ConnectorAssumption
<1>6. RemovedMeansPaused'
  BY <1>0, <1>1, <1>2, RemovedStays DEF RemovedMeansPaused
<1> QED BY <1>3, <1>4, <1>5, <1>6 DEF ConnectorInv

LEMMA LostInv ==
  ASSUME Link!ConnectorAssumption, ConnectorInv, Link!Lost
  PROVE  ConnectorInv'
<1>1. ConnectorTypeOK /\ ShutMeansOff /\ Link!TunnelHasItsAdapter /\ Underway /\ RemovedMeansPaused
  BY DEF ConnectorInv
<1>0. /\ op \in Link!Operations /\ op # None /\ op.step = "asking" /\ state \in Link!DeviceStates
         /\ state # None /\ op.ask \in Link!Asks
  BY <1>1 DEF Link!Lost, Link!At, Link!Answered, ConnectorTypeOK, Underway
<1>b. "lost" \in Link!Replies
  BY DEF Link!Replies
<1>c. LET o == [op EXCEPT !.step = "answered", !.ask = <<op.ask, "lost">>] IN
        o \in Link!Operations /\ \E ask \in Asked : ask[1] = op.ask
        /\ Becomes(o, "answered", ask, op.wait, op.moved)
  BY <1>0, <1>b, IsAnswered
<1>d. ASSUME Link!stopTransport
      PROVE  LET o == [op EXCEPT !.step = "answered", !.ask = <<op.ask, "lost">>] IN
               \E ask \in Asked :
                 /\ ask[1] = op.ask
                 /\ Becomes([o EXCEPT !.wait = Len(stops) + 1, !.moved = TRUE], "answered", ask, Len(stops) + 1, TRUE)
  BY <1>1, <1>c, <1>d, Stops, StopsThen DEF Becomes
<1>2. /\ UNCHANGED <<state, disk, blocked, stopped, deviceKeys, unsaved>> /\ linkFaults' \in Nat /\ ~Closing
      /\ \/ (\E ask \in Asked : ask[1] = op.ask /\ Becomes(op', "answered", ask, op.wait, op.moved))
            /\ UNCHANGED <<adapter, frpc, stops>>
         \/ /\ \E ask \in Asked : ask[1] = op.ask /\ Becomes(op', "answered", ask, Len(stops) + 1, TRUE)
            /\ Off' /\ adapter' = FALSE /\ frpc' = FALSE /\ stops' \in Seq(Stop)
         \/ /\ Becomes(op', "asking", op.ask, Len(stops) + 1, TRUE)
            /\ Off' /\ adapter' = FALSE /\ frpc' = FALSE /\ stops' \in Seq(Stop)
  BY <1>0, <1>1, <1>c, <1>d, Faults, Stops, StopsAndGoes DEF Link!Lost, Closing, Link!Steps, Link!transport
<1>3. ConnectorTypeOK'
  <2>1. op' \in Link!Operations \cup {None}
    BY <1>0, <1>1, <1>2 DEF ConnectorTypeOK, Becomes
  <2>2. /\ state' \in Link!DeviceStates \cup {None} /\ disk' \in Link!DeviceStates \cup {None}
        /\ stops' \in Seq(Stop) /\ adapter' \in BOOLEAN /\ frpc' \in BOOLEAN
    BY <1>0, <1>1, <1>2 DEF ConnectorTypeOK
  <2> QED BY <1>1, <1>2, <2>1, <2>2 DEF ConnectorTypeOK
<1>4. ShutMeansOff' /\ Link!TunnelHasItsAdapter'
  BY <1>0, <1>1, <1>2, WhenAsBefore, WhenOff DEF Shut, Closing, Becomes, Link!ConnectorAssumption
<1>5. Underway'
  BY <1>0, <1>1, <1>2 DEF Underway, Serves, Revokes, About, Becomes, Link!Asks, Link!ConnectorAssumption
<1>6. RemovedMeansPaused'
  BY <1>0, <1>1, <1>2, RemovedStays DEF RemovedMeansPaused
<1> QED BY <1>3, <1>4, <1>5, <1>6 DEF ConnectorInv

LEMMA EnrollInv ==
  ASSUME Link!ConnectorAssumption, ConnectorInv, Link!enroll
  PROVE  ConnectorInv'
<1>1. ConnectorTypeOK /\ ShutMeansOff /\ Link!TunnelHasItsAdapter /\ Underway /\ RemovedMeansPaused
  BY DEF ConnectorInv
<1>0. Link!enroll => deviceKeys + 1 \in 0..MaxKeys /\ deviceKeys + 1 \in 1..MaxKeys
  <2> SUFFICES ASSUME Link!enroll PROVE deviceKeys + 1 \in 0..MaxKeys /\ deviceKeys + 1 \in 1..MaxKeys
    OBVIOUS
  <2>1. deviceKeys \in 0..MaxKeys /\ deviceKeys < MaxKeys /\ MaxKeys \in Nat
    BY <1>1 DEF Link!enroll, ConnectorTypeOK, Link!ConnectorAssumption
  <2> QED BY <2>1
<1>2. /\ UNCHANGED <<blocked, stopped, disk, linkFaults, unsaved>> /\ UNCHANGED <<adapter, frpc, stops>>
         /\ deviceKeys' \in 0..MaxKeys /\ ~Closing
      /\ state = None \/ ~state.bound
      /\ state' \in Link!DeviceStates /\ ~state'.bound /\ ~state'.pendingUnbind
      /\ Becomes(op', "new device", None, 0, FALSE)
  BY <1>0, <1>1, NewOperation DEF Link!enroll, Link!change, Link!NoWrite, Link!Steps, Closing, Link!DeviceStates,
     Link!DeviceKeys, Link!transport
<1>3. ConnectorTypeOK'
  <2>1. op' \in Link!Operations \cup {None}
    BY <1>0, <1>1, <1>2 DEF ConnectorTypeOK, Becomes
  <2>2. /\ state' \in Link!DeviceStates \cup {None} /\ disk' \in Link!DeviceStates \cup {None}
        /\ stops' \in Seq(Stop) /\ adapter' \in BOOLEAN /\ frpc' \in BOOLEAN
    BY <1>0, <1>1, <1>2 DEF ConnectorTypeOK
  <2> QED BY <1>1, <1>2, <2>1, <2>2 DEF ConnectorTypeOK
<1>4. ShutMeansOff' /\ Link!TunnelHasItsAdapter'
  BY <1>0, <1>1, <1>2, WhenAsBefore, WhenOff DEF Shut, Closing, Becomes, Link!ConnectorAssumption
<1>5. Underway'
  BY <1>0, <1>1, <1>2 DEF Underway, Serves, Revokes, About, Becomes, Link!Asks, Link!ConnectorAssumption
<1>6. RemovedMeansPaused'
  BY <1>0, <1>1, <1>2, RemovedStays DEF RemovedMeansPaused
<1> QED BY <1>3, <1>4, <1>5, <1>6 DEF ConnectorInv

LEMMA IntendInv ==
  ASSUME Link!ConnectorAssumption, ConnectorInv, Link!pause \/ Link!unbind
  PROVE  ConnectorInv'
<1>1. ConnectorTypeOK /\ ShutMeansOff /\ Link!TunnelHasItsAdapter /\ Underway /\ RemovedMeansPaused
  BY DEF ConnectorInv
<1>0. state \in Link!DeviceStates
  BY <1>1 DEF Link!pause, Link!unbind, Link!Bound, ConnectorTypeOK
<1>2. /\ UNCHANGED <<blocked, stopped, deviceKeys, disk, linkFaults, unsaved>>
         /\ UNCHANGED <<adapter, frpc, stops>>
      /\ state' \in Link!DeviceStates /\ state'.paused
      /\ Becomes(op', "intent", None, 0, FALSE)
  BY <1>0, NewOperation DEF Link!pause, Link!unbind, Link!Intend, Link!DeviceStates, Link!Steps, Link!Same,
     Link!NoWrite, Link!transport
<1>3. ConnectorTypeOK'
  <2>1. op' \in Link!Operations \cup {None}
    BY <1>0, <1>1, <1>2 DEF ConnectorTypeOK, Becomes
  <2>2. /\ state' \in Link!DeviceStates \cup {None} /\ disk' \in Link!DeviceStates \cup {None}
        /\ stops' \in Seq(Stop) /\ adapter' \in BOOLEAN /\ frpc' \in BOOLEAN
    BY <1>0, <1>1, <1>2 DEF ConnectorTypeOK
  <2> QED BY <1>1, <1>2, <2>1, <2>2 DEF ConnectorTypeOK
<1>4. ShutMeansOff' /\ Link!TunnelHasItsAdapter'
  BY <1>0, <1>1, <1>2, WhenAsBefore, WhenOff DEF Shut, Closing, Becomes, Link!ConnectorAssumption
<1>5. Underway'
  BY <1>0, <1>1, <1>2 DEF Underway, Serves, Revokes, About, Becomes, Link!Asks, Link!ConnectorAssumption
<1>6. RemovedMeansPaused'
  BY <1>0, <1>1, <1>2, RemovedStays DEF RemovedMeansPaused
<1> QED BY <1>3, <1>4, <1>5, <1>6 DEF ConnectorInv

LEMMA ResumeInv ==
  ASSUME Link!ConnectorAssumption, ConnectorInv, Link!resume
  PROVE  ConnectorInv'
<1>1. ConnectorTypeOK /\ ShutMeansOff /\ Link!TunnelHasItsAdapter /\ Underway /\ RemovedMeansPaused
  BY DEF ConnectorInv
<1>0. Becomes([Link!Operation("resume", "asking") EXCEPT !.ask = "resume"], "asking", "resume", 0, FALSE)
  BY DEF Link!Operation, Link!Operations, Link!Steps, Link!Asks, Becomes
<1>2. /\ UNCHANGED <<blocked, stopped, deviceKeys, disk, linkFaults, unsaved>>
         /\ UNCHANGED <<adapter, frpc, stops>> /\ UNCHANGED state /\ ~Closing
      /\ state # None /\ ~state.pendingUnbind
      /\ Becomes(op', "asking", "resume", 0, FALSE)
  BY <1>0 DEF Link!resume, Link!change, Link!Bound, Link!Same, Link!NoWrite, Closing, Link!transport
<1>3. ConnectorTypeOK'
  <2>1. op' \in Link!Operations \cup {None}
    BY <1>0, <1>1, <1>2 DEF ConnectorTypeOK, Becomes
  <2>2. /\ state' \in Link!DeviceStates \cup {None} /\ disk' \in Link!DeviceStates \cup {None}
        /\ stops' \in Seq(Stop) /\ adapter' \in BOOLEAN /\ frpc' \in BOOLEAN
    BY <1>0, <1>1, <1>2 DEF ConnectorTypeOK
  <2> QED BY <1>1, <1>2, <2>1, <2>2 DEF ConnectorTypeOK
<1>4. ShutMeansOff' /\ Link!TunnelHasItsAdapter'
  BY <1>0, <1>1, <1>2, WhenAsBefore, WhenOff DEF Shut, Closing, Becomes, Link!ConnectorAssumption
<1>5. Underway'
  BY <1>0, <1>1, <1>2 DEF Underway, Serves, Revokes, About, Becomes, Link!Asks, Link!ConnectorAssumption
<1>6. RemovedMeansPaused'
  BY <1>0, <1>1, <1>2, RemovedStays DEF RemovedMeansPaused
<1> QED BY <1>3, <1>4, <1>5, <1>6 DEF ConnectorInv

LEMMA RepairInv ==
  ASSUME Link!ConnectorAssumption, ConnectorInv, Link!repairTransport
  PROVE  ConnectorInv'
<1>1. ConnectorTypeOK /\ ShutMeansOff /\ Link!TunnelHasItsAdapter /\ Underway /\ RemovedMeansPaused
  BY DEF ConnectorInv
<1>0. Becomes([Link!Operation("repair", "repair") EXCEPT !.wait = Len(stops) + 1], "repair", None, Len(stops) + 1, FALSE)
  BY <1>1, Stops DEF Link!repairTransport, Link!Operation, Link!Operations, Link!Steps, Becomes
<1>2. /\ UNCHANGED <<blocked, stopped, deviceKeys, disk, linkFaults, unsaved>> /\ UNCHANGED state
      /\ Becomes(op', "repair", None, Len(stops) + 1, FALSE)
      /\ Off' /\ adapter' = FALSE /\ frpc' = FALSE /\ stops' \in Seq(Stop)
  BY <1>0, <1>1, Stops DEF Link!repairTransport, Link!Same, Link!NoWrite
<1>3. ConnectorTypeOK'
  <2>1. op' \in Link!Operations \cup {None}
    BY <1>0, <1>1, <1>2 DEF ConnectorTypeOK, Becomes
  <2>2. /\ state' \in Link!DeviceStates \cup {None} /\ disk' \in Link!DeviceStates \cup {None}
        /\ stops' \in Seq(Stop) /\ adapter' \in BOOLEAN /\ frpc' \in BOOLEAN
    BY <1>0, <1>1, <1>2 DEF ConnectorTypeOK
  <2> QED BY <1>1, <1>2, <2>1, <2>2 DEF ConnectorTypeOK
<1>4. ShutMeansOff' /\ Link!TunnelHasItsAdapter'
  BY <1>0, <1>1, <1>2, WhenAsBefore, WhenOff DEF Shut, Closing, Becomes, Link!ConnectorAssumption
<1>5. Underway'
  BY <1>0, <1>1, <1>2 DEF Underway, Serves, Revokes, About, Becomes, Link!Asks, Link!ConnectorAssumption
<1>6. RemovedMeansPaused'
  BY <1>0, <1>1, <1>2, RemovedStays DEF RemovedMeansPaused
<1> QED BY <1>3, <1>4, <1>5, <1>6 DEF ConnectorInv

LEMMA BreakInv ==
  ASSUME Link!ConnectorAssumption, ConnectorInv, Link!RouteFails \/ Link!stop
  PROVE  ConnectorInv'
<1>1. ConnectorTypeOK /\ ShutMeansOff /\ Link!TunnelHasItsAdapter /\ Underway /\ RemovedMeansPaused
  BY DEF ConnectorInv
<1>2. /\ UNCHANGED <<state, disk, deviceKeys, unsaved>> /\ linkFaults' \in Nat /\ blocked' \in BOOLEAN
         /\ stopped' \in BOOLEAN
      /\ op' = None \/ (op # None /\ Becomes(op', op.step, op.ask, op.wait, TRUE))
      /\ Off' /\ adapter' = FALSE /\ frpc' = FALSE /\ stops' \in Seq(Stop)
  BY <1>1, Faults, Lets, Stops DEF Link!RouteFails, Link!stop, ConnectorTypeOK
<1>3. ConnectorTypeOK'
  <2>1. op' \in Link!Operations \cup {None}
    BY <1>1, <1>2 DEF ConnectorTypeOK, Becomes
  <2>2. /\ state' \in Link!DeviceStates \cup {None} /\ disk' \in Link!DeviceStates \cup {None}
        /\ stops' \in Seq(Stop) /\ adapter' \in BOOLEAN /\ frpc' \in BOOLEAN
    BY <1>1, <1>2 DEF ConnectorTypeOK
  <2> QED BY <1>1, <1>2, <2>1, <2>2 DEF ConnectorTypeOK
<1>4. ShutMeansOff' /\ Link!TunnelHasItsAdapter'
  BY <1>1, <1>2, WhenAsBefore, WhenOff DEF Shut, Closing, Becomes, Link!ConnectorAssumption
<1>5. Underway'
  BY <1>1, <1>2 DEF Underway, Serves, Revokes, About, Becomes, Link!Asks, Link!ConnectorAssumption
<1>6. RemovedMeansPaused'
  BY <1>1, <1>2, RemovedStays DEF RemovedMeansPaused
<1> QED BY <1>3, <1>4, <1>5, <1>6 DEF ConnectorInv

LEMMA ExitInv ==
  ASSUME Link!ConnectorAssumption, ConnectorInv, Link!TunnelExits
  PROVE  ConnectorInv'
<1>1. ConnectorTypeOK /\ ShutMeansOff /\ Link!TunnelHasItsAdapter /\ Underway /\ RemovedMeansPaused
  BY DEF ConnectorInv
<1>b. stops \in Seq(Stop) => Append(stops, [adapter |-> adapter, frpc |-> FALSE]) \in Seq(Stop)
  BY <1>1 DEF ConnectorTypeOK, Stop
<1>2. /\ UNCHANGED <<state, disk, stopped, deviceKeys, unsaved>> /\ linkFaults' \in Nat /\ blocked' \in BOOLEAN
      /\ op' = None \/ (op # None /\ Becomes(op', op.step, op.ask, op.wait, TRUE))
      /\ Off' /\ adapter' = FALSE /\ frpc' = FALSE /\ stops' \in Seq(Stop)
  BY <1>1, <1>b, Faults, Lets DEF Link!TunnelExits, Off, ConnectorTypeOK
<1>3. ConnectorTypeOK'
  <2>1. op' \in Link!Operations \cup {None}
    BY <1>1, <1>2 DEF ConnectorTypeOK, Becomes
  <2>2. /\ state' \in Link!DeviceStates \cup {None} /\ disk' \in Link!DeviceStates \cup {None}
        /\ stops' \in Seq(Stop) /\ adapter' \in BOOLEAN /\ frpc' \in BOOLEAN
    BY <1>1, <1>2 DEF ConnectorTypeOK
  <2> QED BY <1>1, <1>2, <2>1, <2>2 DEF ConnectorTypeOK
<1>4. ShutMeansOff' /\ Link!TunnelHasItsAdapter'
  BY <1>1, <1>2, WhenAsBefore, WhenOff DEF Shut, Closing, Becomes, Link!ConnectorAssumption
<1>5. Underway'
  BY <1>1, <1>2 DEF Underway, Serves, Revokes, About, Becomes, Link!Asks, Link!ConnectorAssumption
<1>6. RemovedMeansPaused'
  BY <1>1, <1>2, RemovedStays DEF RemovedMeansPaused
<1> QED BY <1>3, <1>4, <1>5, <1>6 DEF ConnectorInv

LEMMA LinkRestartInv ==
  ASSUME Link!ConnectorAssumption, ConnectorInv, Link!Restart
  PROVE  ConnectorInv'
<1>1. ConnectorTypeOK /\ ShutMeansOff /\ Link!TunnelHasItsAdapter /\ Underway /\ RemovedMeansPaused
  BY DEF ConnectorInv
<1>2. /\ UNCHANGED <<disk, deviceKeys>> /\ linkFaults' \in Nat /\ blocked' = FALSE /\ stopped' = FALSE
         /\ unsaved' = FALSE
      /\ state' = disk /\ op' = None
      /\ Off' /\ adapter' = FALSE /\ frpc' = FALSE /\ stops' \in Seq(Stop)
  BY <1>1 DEF Link!Restart, Link!Fault, Off, ConnectorTypeOK
<1>3. ConnectorTypeOK'
  <2>1. op' \in Link!Operations \cup {None}
    BY <1>1, <1>2 DEF ConnectorTypeOK, Becomes
  <2>2. /\ state' \in Link!DeviceStates \cup {None} /\ disk' \in Link!DeviceStates \cup {None}
        /\ stops' \in Seq(Stop) /\ adapter' \in BOOLEAN /\ frpc' \in BOOLEAN
    BY <1>1, <1>2 DEF ConnectorTypeOK
  <2> QED BY <1>1, <1>2, <2>1, <2>2 DEF ConnectorTypeOK
<1>4. ShutMeansOff' /\ Link!TunnelHasItsAdapter'
  BY <1>1, <1>2, WhenAsBefore, WhenOff DEF Shut, Closing, Becomes, Link!ConnectorAssumption
<1>5. Underway'
  BY <1>1, <1>2 DEF Underway, Serves, Revokes, About, Becomes, Link!Asks, Link!ConnectorAssumption
<1>6. RemovedMeansPaused'
  BY <1>1, <1>2, RemovedStays DEF RemovedMeansPaused
<1> QED BY <1>3, <1>4, <1>5, <1>6 DEF ConnectorInv

-----------------------------------------------------------------------------
(* Any step. *)

LEMMA ConnectorInvInit ==
  ASSUME Link!ConnectorAssumption, Link!Init
  PROVE  ConnectorInv
<1>1. 0 \in 0..MaxKeys /\ 0 \in Nat /\ <<>> \in Seq(Stop)
  BY DEF Link!ConnectorAssumption
<1>2. ConnectorTypeOK
  BY <1>1 DEF Link!Init, ConnectorTypeOK
<1> QED BY <1>2 DEF Link!Init, ConnectorInv, ShutMeansOff, Link!TunnelHasItsAdapter, Underway, RemovedMeansPaused,
           Off

LEMMA UnmovedInv ==
  ASSUME ConnectorInv,
         UNCHANGED <<state, disk, op, adapter, frpc, stops, blocked, stopped, deviceKeys, linkFaults, unsaved>>
  PROVE  ConnectorInv'
<1>1. ConnectorTypeOK'
  BY DEF ConnectorInv, ConnectorTypeOK
<1>2. ShutMeansOff' /\ Link!TunnelHasItsAdapter' /\ RemovedMeansPaused'
  BY DEF ConnectorInv, ShutMeansOff, Link!TunnelHasItsAdapter, RemovedMeansPaused, Off, Shut, Closing
<1>3. Underway'
  BY DEF ConnectorInv, Underway, Serves, Revokes, About
<1> QED BY <1>1, <1>2, <1>3 DEF ConnectorInv

LEMMA AnsweredInv ==
  ASSUME Link!ConnectorAssumption, ConnectorInv,
         Link!Claimed \/ Link!Beaten \/ Link!Connected \/ Link!PauseTold \/ Link!Revoked
  PROVE  ConnectorInv'
<1>1. Link!At("answered") /\ Link!Same /\ Link!NoWrite
  BY DEF Link!Claimed, Link!Beaten, Link!Connected, Link!PauseTold, Link!Revoked, Link!Answered
<1>2. CASE Link!Throw(Link!Reply)
  BY <1>1, <1>2, ThrowInv
<1>3. CASE ~Link!Throw(Link!Reply)
  BY <1>3, ClaimInv, BeatInv, ConnectInv, PauseToldInv, RevokedInv
<1> QED BY <1>2, <1>3

LEMMA ContinueInv ==
  ASSUME Link!ConnectorAssumption, ConnectorInv, Link!Continue
  PROVE  ConnectorInv'
BY StoppedInv, OverInv, ClosingInv, AnsweredInv, BoundInv, ServeInv, StartInv, AdapterInv, SpawnInv, DeviceInv,
   EnrolledInv, ResumedInv, RevokeInv, HandledInv DEF Link!Continue

LEMMA ConnectorInvStep ==
  ASSUME Link!ConnectorAssumption, ConnectorInv, [Link!Next]_Link!vars
  PROVE  ConnectorInv'
<1>1. CASE \E k \in Link!DeviceKeys : Link!Owner(k)
  BY <1>1, UnmovedInv DEF Link!Owner, Link!transport
<1>2. CASE UNCHANGED Link!vars
  BY <1>2, UnmovedInv DEF Link!vars, Link!transport
<1>3. CASE Link!Next /\ ~\E k \in Link!DeviceKeys : Link!Owner(k)
  BY <1>3, TickInv, ContinueInv, HandledInv, LostInv, EnrollInv, IntendInv, ResumeInv, RepairInv, BreakInv,
     ExitInv, LinkRestartInv DEF Link!Next
<1> QED BY <1>1, <1>2, <1>3

\* What is reachable from outside is what the user left open, and works (connector.ts:252, 452).
THEOREM TunnelsAreAsTold ==
  ASSUME Link!ConnectorAssumption
  PROVE  Link!Spec => []Link!ReachableAsTold
<1>1. Link!Init => ConnectorInv
  BY ConnectorInvInit
<1>2. ConnectorInv /\ [Link!Next]_Link!vars => ConnectorInv'
  BY ConnectorInvStep
<1>3. ConnectorInv => Link!ReachableAsTold
  BY DEF ConnectorInv, ShutMeansOff, Link!TunnelHasItsAdapter, Link!ReachableAsTold, Link!ClosedWhenTold, Off,
     Shut, Closing
<1> QED BY <1>1, <1>2, <1>3, PTL DEF Link!Spec

-----------------------------------------------------------------------------
(***************************************************************************)
(* The components side by side (MCConnections).                            *)
(***************************************************************************)

\* A behaviour of MCConnections is one of each component.
LEMMA Components ==
  /\ MCInit => Init /\ Transport!Init /\ Link!Init
  /\ [MCNext]_<<way, vars, socket, tunnel>> =>
       [Next]_vars /\ [Transport!Next]_Transport!vars /\ [Link!Next]_Link!vars
<1>1. MCInit => Init /\ Transport!Init /\ Link!Init
  BY DEF MCInit
<1>2. (UNCHANGED socket => UNCHANGED Transport!vars) /\ (UNCHANGED tunnel => UNCHANGED Link!vars)
  BY DEF socket, tunnel, Transport!vars, Link!vars, Link!transport
<1>3. [MCNext]_<<way, vars, socket, tunnel>> =>
        /\ Next \/ UNCHANGED vars
        /\ Transport!Next \/ UNCHANGED socket
        /\ Link!Next \/ UNCHANGED tunnel
  BY DEF MCNext
<1> QED BY <1>1, <1>2, <1>3

\* The same where they share a computer: an attachment that the composer shows is in the
\* workspace, complete and in order (chunked-uploads.ts upload, attachmentUpload.ts),
\* whatever was lost, repeated, cut off or restarted; and as long as the server knows an
\* upload (its memory goes with a restart or an expiry) it saves the file once.
THEOREM AttachmentsSavedAsSent == MCSpec => []SavedAsSent
<1>1. MCSpec => Spec
  BY Components, PTL DEF MCSpec, Spec
<1>2. UploadsAssumption
  BY MCConnectionsAssumption
<1>3. Spec => []SavedAsSent
  BY <1>2, UploadsAreSavedAsSent
<1> QED BY <1>1, <1>3, PTL

\* Messages of both sides arrive whole, once and in their order (socket-transport.ts), large
\* and small ones, also those sent before the client knew its peer.
THEOREM MessagesArriveInOrder == MCSpec => []InOrder
<1>1. MCSpec => Transport!Spec
  BY Components, PTL DEF MCSpec, Transport!Spec
<1>2. Transport!TransportAssumption
  BY MCConnectionsAssumption
<1>3. Transport!Spec => []Transport!InOrder
  BY <1>2, MessagesInOrder
<1> QED BY <1>1, <1>3, PTL DEF InOrder

\* A tunnel process never runs without its adapter, and between operations nothing of a
\* computer that is paused or removed is reachable, unless that could not be saved
\* (connector.ts:252, 452), whatever failed, exited or was stopped on the way.
THEOREM ReachableIsAsTold == MCSpec => []ReachableAsTold
<1>1. MCSpec => Link!Spec
  BY Components, PTL DEF MCSpec, Link!Spec
<1>2. Link!ConnectorAssumption
  BY MCConnectionsAssumption
<1>3. Link!Spec => []Link!ReachableAsTold
  BY <1>2, TunnelsAreAsTold
<1> QED BY <1>1, <1>3, PTL DEF ReachableAsTold
=============================================================================
