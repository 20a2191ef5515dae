--------------------------- MODULE RecordsProofs ---------------------------
(***************************************************************************)
(* Proofs about MCRecords.  First, what EventStoreProofs proves of any     *)
(* store, for the worn one, which stands beside the sound one, the catalog *)
(* and the card.  Then, the card of an answer (AnswerDelivery): what it    *)
(* says is true and stays said.  Last, the catalog (ChatCatalog): a chat   *)
(* that claims to be empty is.                                             *)
(***************************************************************************)
EXTENDS MCRecords, FiniteSetTheorems, SequenceTheorems, WellFoundedInduction, TLAPS

WornStore ==
  INSTANCE EventStoreProofs WITH
    Logs <- WornLogs, Journal <- {}, MaxEvents <- WornEvents,
    MaxCorruptions <- WornCorruptions, Faults <- WornFaults,
    pc <- wpc, after <- wafter, todo <- wtodo, mem <- wmem, log <- wlog, archive <- warchive,
    snapshot <- wsnapshot, backup <- wbackup, poisoned <- wpoisoned, written <- wwritten,
    acked <- wacked, corruptions <- wcorruptions, mixed <- wmixed

\* Worn and WornStore are the same store under two names.
LEMMA SameInit == Worn!Init => WornStore!Init
BY DEF Worn!Init, WornStore!Init, Worn!Empty, WornStore!Empty

LEMMA SameStart == Worn!Start => WornStore!Start
BY DEF Worn!Start, Worn!Restored, Worn!Repeated, Worn!Hidden, Worn!Replayed,
       Worn!shouldReplayCurrentLog, Worn!Content, Worn!Again, Worn!Events,
       WornStore!Start, WornStore!Restored, WornStore!Repeated, WornStore!Hidden,
       WornStore!Replayed, WornStore!shouldReplayCurrentLog, WornStore!Content,
       WornStore!Again, WornStore!Events

LEMMA SameReady == Worn!Ready => WornStore!Ready
<1>1. Worn!shouldCompact <=> WornStore!shouldCompact
  BY DEF Worn!shouldCompact, WornStore!shouldCompact, Worn!Cardinality, WornStore!Cardinality
<1> QED
  BY <1>1 DEF Worn!Ready, Worn!BeginCompact, Worn!files,
              WornStore!Ready, WornStore!BeginCompact, WornStore!files

LEMMA SameAppend ==
  ASSUME NEW l \in WornLogs
  PROVE  /\ Worn!append(l) => WornStore!append(l)
         /\ Worn!TornAppend(l) => WornStore!TornAppend(l)
BY DEF Worn!append, Worn!AppendLine, Worn!TornAppend, Worn!LeftBehind, Worn!Content,
       WornStore!append, WornStore!AppendLine, WornStore!TornAppend, WornStore!LeftBehind,
       WornStore!Content

LEMMA SameCompaction ==
  /\ Worn!Shutdown => WornStore!Shutdown
  /\ \A l \in WornLogs : /\ Worn!ArchiveLog(l) => WornStore!ArchiveLog(l)
                         /\ Worn!TruncateLog(l) => WornStore!TruncateLog(l)
  /\ Worn!BackupSnapshot => WornStore!BackupSnapshot
  /\ Worn!PublishSnapshot => WornStore!PublishSnapshot
  /\ Worn!EndCompact => WornStore!EndCompact
BY DEF Worn!Shutdown, Worn!BeginCompact, Worn!ArchiveLog, Worn!LeftBehind, Worn!Content,
       Worn!TruncateLog, Worn!Empty,
       Worn!BackupSnapshot, Worn!PublishSnapshot, Worn!createSnapshot, Worn!EndCompact, Worn!files,
       WornStore!Shutdown, WornStore!BeginCompact, WornStore!ArchiveLog, WornStore!LeftBehind,
       WornStore!Content, WornStore!TruncateLog, WornStore!Empty, WornStore!BackupSnapshot, WornStore!PublishSnapshot,
       WornStore!createSnapshot, WornStore!EndCompact, WornStore!files

LEMMA SameFaults ==
  /\ Worn!AppendFails => WornStore!AppendFails
  /\ Worn!Crash => WornStore!Crash
  /\ Worn!CorruptSnapshot => WornStore!CorruptSnapshot
BY DEF Worn!AppendFails, Worn!Crash, Worn!CorruptSnapshot, Worn!files,
       WornStore!AppendFails, WornStore!Crash, WornStore!CorruptSnapshot, WornStore!files

LEMMA WornBehaves == MCSpec => WornStore!Spec
<1>1. MCInit => WornStore!Init
  BY SameInit DEF MCInit
<1>2. Worn!Next => WornStore!Next
  BY SameStart, SameReady, SameAppend, SameCompaction, SameFaults DEF Worn!Next, WornStore!Next
<1>3. UNCHANGED worn => UNCHANGED WornStore!vars
  BY DEF worn, WornStore!vars, WornStore!files
<1>4. [MCNext]_<<record, vars, worn, catalog, card>> => Worn!Next \/ UNCHANGED worn
  BY DEF MCNext
<1>5. [MCNext]_<<record, vars, worn, catalog, card>> => [WornStore!Next]_WornStore!vars
  BY <1>2, <1>3, <1>4
<1> QED BY <1>1, <1>5, PTL DEF MCSpec, WornStore!Spec

LEMMA SameAssumption == WornStore!EventStoreAssumption
BY MCRecordsAssumption
   DEF Worn!EventStoreAssumption, Worn!Events, Worn!Shown, Worn!Again, Worn!File,
       Worn!Phases, WornStore!EventStoreAssumption, WornStore!Events, WornStore!Shown,
       WornStore!Again, WornStore!File, WornStore!Phases

LEMMA SameMisses ==
  /\ Worn!MissesOnlyBehindTorn(wmem) <=> WornStore!MissesOnlyBehindTorn(wmem)
  /\ Worn!MissesOnlyBehindTorn(wmem') <=> WornStore!MissesOnlyBehindTorn(wmem')
BY DEF Worn!MissesOnlyBehindTorn, Worn!Kept, WornStore!MissesOnlyBehindTorn, WornStore!Kept

\* However many appends die half way: each costs at most itself and the append that follows
\* it in the same log (event-store.ts append, compact, replayLogs), unless a kill falls
\* between archiving and publishing, or something was appended to a log that a kill kept
\* from being truncated.
THEOREM TornCostsAtMostNext ==
  ASSUME WornStore!NoKillBeforePublishing
  PROVE  MCSpec => []TornCostsNextWorn
<1>1. WornStore!Spec => []WornStore!TornCostsNext
  BY SameAssumption, WornStore!TornCostsAtMostNext
<1>2. WornStore!TornCostsNext => TornCostsNextWorn
  BY SameMisses DEF TornCostsNextWorn, Worn!TornCostsNext, WornStore!TornCostsNext
<1> QED BY <1>1, <1>2, WornBehaves, PTL

\* The first start that finds its snapshot unreadable sees, in the backup and the archives
\* with the logs since then, whatever the lost snapshot held (event-store.ts loadSnapshot,
\* replayLogs), unless a kill falls between archiving and publishing, or a log that a kill
\* kept from being truncated was appended to or archived.
THEOREM BackupRecovers ==
  ASSUME WornStore!NoKillBeforePublishing
  PROVE  MCSpec => RecoversFromBackupWorn
<1>1. WornStore!Spec => WornStore!RecoversFromBackup
  BY SameAssumption, WornStore!BackupRecovers
<1>2. [wsnapshot = Corrupt /\ wcorruptions = 1 /\ wmixed = {} /\ wpc' = "starting"
         => WornStore!MissesOnlyBehindTorn(wmem')]_WornStore!vars
      => [wsnapshot = Corrupt /\ wcorruptions = 1 /\ wmixed = {} /\ wpc' = "starting"
            => Worn!MissesOnlyBehindTorn(wmem')]_Worn!vars
  BY SameMisses DEF Worn!vars, Worn!files, WornStore!vars, WornStore!files
<1> QED BY <1>1, <1>2, WornBehaves, PTL
        DEF RecoversFromBackupWorn, Worn!RecoversFromBackup, WornStore!RecoversFromBackup

-----------------------------------------------------------------------------
(***************************************************************************)
(* The card of an answer (AnswerDelivery).                                 *)
(***************************************************************************)
(* The inductive invariant. *)

Outcome == {"none", "submitting", "queued", "accepted", "failed", "delivery_unknown"}
Final == {"queued", "accepted", "failed"}
CardView == [sub : CardSubs \cup {None}, to : Outcome, checking : BOOLEAN, overdue : BOOLEAN]
Reply == [kind : {"snapshot", "state", "ack", "error"}, req : CardSubs \cup {None}, record : CardView]
Tab == [remote : BOOLEAN, up : BOOLEAN, card : CardView, timer : CardSubs \cup {None}, waiter : CardSubs \cup {None},
        asking : BOOLEAN, outbox : CardSubs \cup {None}, shown : CardView]

CardTypeOK ==
  /\ client \in Tab /\ toClient \in Seq(Reply)
  /\ status \in [CardSubs -> Outcome] /\ latest \in CardSubs \cup {None}

\* What a record says of its submission, the server's record said before.
Honest(r) == r.to \in Final => <<r.sub, r.to>> \in facts

\* Whatever may reach the card is honest.
Told ==
  /\ Honest(client.card) /\ Honest(client.shown)
  /\ \A i \in DOMAIN toClient : Honest(toClient[i].record)
  /\ \A s \in CardSubs : status[s] \in Final => <<s, status[s]>> \in facts

\* An answer that waits in the outbound queue was never sent.
Unsent ==
  /\ sent \subseteq used
  /\ client.outbox # None => client.outbox \in used \ sent

CardInv == CardTypeOK /\ Told /\ Unsent

-----------------------------------------------------------------------------
(* The client's operators. *)

\* What the card said stays said.
Keeps(old, new) ==
  /\ old.to = "accepted" => new.to = "accepted"
  /\ old.to = "queued" => new.to \notin {"submitting", "delivery_unknown"}

\* The client comes to n from k with nothing new but what the record r says.
Comes(k, n, r) ==
  /\ n \in Tab /\ n.remote = k.remote /\ n.up = k.up /\ n.shown = k.shown /\ n.outbox \in {k.outbox, None}
  /\ Keeps(k.card, n.card)
  /\ Honest(k.card) /\ Honest(r) => Honest(n.card)

LEMMA NoCardIs ==
  ASSUME Delivery!AnswerDeliveryAssumption
  PROVE  /\ Delivery!NoCard \in CardView /\ Delivery!NoCard.sub = None /\ Delivery!NoCard.to = "none"
         /\ Honest(Delivery!NoCard)
         /\ Delivery!Settled = Final /\ Delivery!Unresolved = {"submitting", "delivery_unknown"}
BY DEF Delivery!NoCard, CardView, Outcome, Honest, Final, Delivery!Settled, Delivery!Unresolved

LEMMA PutIs ==
  ASSUME Delivery!AnswerDeliveryAssumption, NEW k \in Tab, NEW c \in CardView
  PROVE  LET n == Delivery!put(k, c) IN
         /\ n \in Tab /\ n.card = c /\ n.remote = k.remote /\ n.up = k.up /\ n.shown = k.shown
            /\ n.asking = k.asking
         /\ n.outbox \in {k.outbox, None}
BY DEF Delivery!put, Tab, CardView

LEMMA ObserveIs ==
  ASSUME Delivery!AnswerDeliveryAssumption, NEW k \in Tab, NEW r \in CardView
  PROVE  Comes(k, Delivery!observe(k, r), r)
<1>1. CASE Delivery!Outdated(k.card, r)
  BY <1>1 DEF Delivery!observe, Comes, Keeps, Honest
<1>2. CASE ~Delivery!Outdated(k.card, r)
  <2> DEFINE c == [k.card EXCEPT !.sub = r.sub, !.to = r.to, !.checking = @ /\ r.to \in Delivery!Unresolved]
  <2>1. k.card \in CardView
    BY DEF Tab
  <2>2. c \in CardView /\ c.sub = r.sub /\ c.to = r.to
    BY <2>1, NoCardIs DEF CardView
  <2>3. Delivery!observe(k, r) = Delivery!put(k, c)
    BY <1>2 DEF Delivery!observe
  <2>4. Keeps(k.card, c)
    BY <1>2, <2>2, NoCardIs DEF Keeps, Delivery!Outdated
  <2> HIDE DEF c
  <2> QED BY <2>2, <2>3, <2>4, PutIs DEF Comes, Honest
<1> QED BY <1>1, <1>2

\* A card whose submission and outcome stay.
LEMMA PutComes ==
  ASSUME Delivery!AnswerDeliveryAssumption, NEW k \in Tab, NEW c \in CardView, NEW r,
         Keeps(k.card, c), Honest(k.card) /\ Honest(r) => Honest(c)
  PROVE  Comes(k, Delivery!put(k, c), r)
BY PutIs DEF Comes

LEMMA CheckIs ==
  ASSUME Delivery!AnswerDeliveryAssumption, NEW k \in Tab, NEW r
  PROVE  Comes(k, Delivery!check(k), r)
<1> DEFINE c == [k.card EXCEPT !.checking = TRUE]
           n == Delivery!put(k, c)
<1>1. c \in CardView /\ c.to = k.card.to /\ c.sub = k.card.sub
  BY DEF Tab, CardView
<1>2. Comes(k, n, r)
  BY <1>1, PutComes DEF Keeps, Honest
<1>3. Delivery!check(k) = [n EXCEPT !.asking = TRUE]
  BY DEF Delivery!check
<1> HIDE DEF n
<1> QED BY <1>2, <1>3 DEF Comes, Tab

LEMMA CheckedIs ==
  ASSUME Delivery!AnswerDeliveryAssumption, NEW k \in Tab, NEW r \in CardView, NEW found \in BOOLEAN
  PROVE  Comes(k, Delivery!Checked(k, found, r), r)
<1> DEFINE seen == IF found /\ r # Delivery!NoCard THEN Delivery!observe(k, r)
                   ELSE IF found /\ k.card.to \notin {"accepted", "queued"}
                   THEN Delivery!put(k, [k.card EXCEPT !.to = "delivery_unknown"])
                   ELSE k
           c == [seen.card EXCEPT !.checking = FALSE]
           n == Delivery!put(seen, c)
<1>1. Comes(k, seen, r)
  <2>1. CASE found /\ r # Delivery!NoCard
    BY <2>1, ObserveIs
  <2>2. CASE ~(found /\ r # Delivery!NoCard) /\ found /\ k.card.to \notin {"accepted", "queued"}
    <3> DEFINE d == [k.card EXCEPT !.to = "delivery_unknown"]
    <3>1. d \in CardView /\ d.to = "delivery_unknown"
      BY DEF Tab, CardView, Outcome
    <3>2. seen = Delivery!put(k, d)
      BY <2>2
    <3>3. Keeps(k.card, d) /\ Honest(d)
      BY <2>2, <3>1 DEF Keeps, Honest, Final
    <3> QED BY <3>1, <3>2, <3>3, PutComes
  <2>3. CASE seen = k
    BY <2>3 DEF Comes, Keeps
  <2> QED BY <2>1, <2>2, <2>3
<1>2. Delivery!Checked(k, found, r) = [n EXCEPT !.asking = FALSE]
  BY DEF Delivery!Checked
<1> HIDE DEF seen
<1>3. c \in CardView /\ c.to = seen.card.to /\ c.sub = seen.card.sub /\ seen \in Tab
  BY <1>1 DEF Comes, Tab, CardView
<1> HIDE DEF c
<1>4. /\ n \in Tab /\ n.card = c /\ n.remote = seen.remote /\ n.up = seen.up /\ n.shown = seen.shown
      /\ n.outbox \in {seen.outbox, None}
  BY <1>3, PutIs
<1> HIDE DEF n
<1>5. Comes(k, n, r)
  BY <1>1, <1>3, <1>4 DEF Comes, Keeps, Honest
<1> QED BY <1>2, <1>5 DEF Comes, Tab

LEMMA DisconnectedIs ==
  ASSUME Delivery!AnswerDeliveryAssumption, NEW k \in Tab
  PROVE  LET n == Delivery!Disconnected(k) IN
         /\ n \in Tab /\ n.shown = k.shown /\ n.outbox \in {k.outbox, None} /\ Keeps(k.card, n.card)
         /\ Honest(k.card) => Honest(n.card)
<1> DEFINE m == IF k.asking THEN Delivery!Checked(k, FALSE, Delivery!NoCard) ELSE k
<1>1. Comes(k, m, Delivery!NoCard)
  <2>1. Comes(k, Delivery!Checked(k, FALSE, Delivery!NoCard), Delivery!NoCard)
    BY CheckedIs, NoCardIs
  <2>2. Comes(k, k, Delivery!NoCard)
    BY DEF Comes, Keeps
  <2> QED BY <2>1, <2>2
<1>2. Delivery!Disconnected(k) = [m EXCEPT !.up = FALSE, !.waiter = None, !.outbox = IF k.remote THEN None ELSE @]
  BY DEF Delivery!Disconnected
<1> HIDE DEF m
<1> QED BY <1>1, <1>2, NoCardIs DEF Comes, Tab

LEMMA RepliedIs ==
  ASSUME Delivery!AnswerDeliveryAssumption, client \in Tab, NEW m \in Reply
  PROVE  Comes(client, Delivery!Replied(m), m.record)
<1> DEFINE k == [client EXCEPT !.waiter = None]
           c == [k.card EXCEPT !.to = "delivery_unknown"]
<1>1. /\ k \in Tab /\ k.card = client.card /\ k.remote = client.remote /\ k.up = client.up
      /\ k.shown = client.shown /\ k.outbox = client.outbox /\ m.record \in CardView
  BY DEF Tab, Reply
<1>2. \/ Delivery!Replied(m) = client
      \/ Delivery!Replied(m) = Delivery!observe(k, m.record)
      \/ k.card.to = "submitting" /\ Delivery!Replied(m) = Delivery!put(k, c)
      \/ Delivery!Replied(m) = k
  BY DEF Delivery!Replied
<1>3. c \in CardView /\ c.to = "delivery_unknown" /\ Honest(c)
  BY <1>1 DEF Tab, CardView, Outcome, Honest, Final
<1> HIDE DEF k, c
<1>4. \A n : Comes(k, n, m.record) => Comes(client, n, m.record)
  BY <1>1 DEF Comes
<1>5. Comes(k, k, m.record) /\ Comes(client, client, m.record)
  BY <1>1 DEF Comes, Keeps
<1>6. Comes(k, Delivery!observe(k, m.record), m.record)
  BY <1>1, ObserveIs
<1>7. k.card.to = "submitting" => Comes(k, Delivery!put(k, c), m.record)
  BY <1>1, <1>3, PutComes DEF Keeps
<1> QED BY <1>2, <1>4, <1>5, <1>6, <1>7

-----------------------------------------------------------------------------
(* The steps. *)

\* What a step may do to the card and to the requests.
Word ==
  /\ client'.card = Delivery!NoCard \/ Keeps(client.card, client'.card)
  /\ (requests' \ requests) \cap sent = {}

LEMMA CardInit ==
  ASSUME Delivery!AnswerDeliveryAssumption, Delivery!Init
  PROVE  CardInv
<1>1. /\ status = [s \in CardSubs |-> "none"] /\ latest = None /\ facts = {} /\ toClient = <<>>
      /\ used = {} /\ sent = {}
      /\ \E r \in BOOLEAN : client = Delivery!NewClient(r)
  BY DEF Delivery!Init, Delivery!Answers!Init
<1>2. /\ client \in Tab /\ client.card = Delivery!NoCard /\ client.shown = Delivery!NoCard
         /\ client.outbox = None
  BY <1>1, NoCardIs DEF Tab, Delivery!NewClient
<1>3. CardTypeOK
  BY <1>1, <1>2 DEF CardTypeOK, Outcome
<1>4. Told
  BY <1>1, <1>2, NoCardIs DEF Told, Final
<1> QED BY <1>1, <1>2, <1>3, <1>4 DEF CardInv, Unsent

LEMMA RepliesAre ==
  ASSUME CardInv
  PROVE  /\ \A r \in Reply : Honest(r.record) =>
              /\ Append(toClient, r) \in Seq(Reply)
              /\ \A i \in DOMAIN Append(toClient, r) : Honest(Append(toClient, r)[i].record)
         /\ toClient # <<>> => /\ Head(toClient) \in Reply /\ Honest(Head(toClient).record)
                               /\ Tail(toClient) \in Seq(Reply)
                               /\ \A i \in DOMAIN Tail(toClient) : Honest(Tail(toClient)[i].record)
         /\ \A i \in DOMAIN toClient :
              /\ Delivery!RemoveAt(toClient, i) \in Seq(Reply)
              /\ \A j \in DOMAIN Delivery!RemoveAt(toClient, i) : Honest(Delivery!RemoveAt(toClient, i)[j].record)
<1>0. toClient \in Seq(Reply) /\ \A i \in DOMAIN toClient : Honest(toClient[i].record)
  BY DEF CardInv, CardTypeOK, Told
<1> DEFINE t == toClient
<1>1. t \in Seq(Reply) /\ Len(t) \in Nat /\ DOMAIN t = 1..Len(t) /\ \A i \in 1..Len(t) : Honest(t[i].record)
  BY <1>0
<1> HIDE DEF t
<1>2. ASSUME NEW r \in Reply, Honest(r.record)
      PROVE  Append(t, r) \in Seq(Reply) /\ \A i \in DOMAIN Append(t, r) : Honest(Append(t, r)[i].record)
  <2>1. /\ Append(t, r) \in Seq(Reply) /\ DOMAIN Append(t, r) = 1..Len(t) + 1
        /\ \A i \in 1..Len(t) + 1 : Append(t, r)[i] = IF i = Len(t) + 1 THEN r ELSE t[i]
    BY <1>1
  <2> QED BY <1>1, <1>2, <2>1
<1>3. ASSUME t # <<>>
      PROVE  /\ Head(t) \in Reply /\ Honest(Head(t).record) /\ Tail(t) \in Seq(Reply)
             /\ \A i \in DOMAIN Tail(t) : Honest(Tail(t)[i].record)
  <2>1. /\ Head(t) = t[1] /\ Len(t) >= 1 /\ Head(t) \in Reply /\ Tail(t) \in Seq(Reply)
        /\ DOMAIN Tail(t) = 1..Len(t) - 1 /\ \A i \in 1..Len(t) - 1 : Tail(t)[i] = t[i + 1]
           /\ i + 1 \in 1..Len(t)
    BY <1>1, <1>3
  <2> QED BY <1>1, <2>1
<1>4. ASSUME NEW n \in DOMAIN t
      PROVE  /\ Delivery!RemoveAt(t, n) \in Seq(Reply)
             /\ \A i \in DOMAIN Delivery!RemoveAt(t, n) : Honest(Delivery!RemoveAt(t, n)[i].record)
  <2> DEFINE a == SubSeq(t, 1, n - 1)
             b == SubSeq(t, n + 1, Len(t))
  <2>0. n \in 1..Len(t) /\ n \in Int
    BY <1>1
  <2>1. /\ a \in Seq(Reply) /\ Len(a) = n - 1 /\ \A i \in 1..n - 1 : a[i] = t[i]
    <3>1. /\ a \in Seq(Reply) /\ Len(a) = (IF 1 <= n - 1 THEN n - 1 - 1 + 1 ELSE 0)
          /\ \A i \in 1..n - 1 - 1 + 1 : a[i] = t[1 + i - 1]
      <4>1. \A i \in 1..n - 1 : t[i] \in Reply
        BY <1>1, <2>0
      <4>2. 1 \in Int /\ n - 1 \in Int
        BY <2>0
      <4> QED BY <4>1, <4>2, SubSeqProperties
    <3> QED BY <1>1, <2>0, <3>1
  <2>2. /\ b \in Seq(Reply) /\ Len(b) = Len(t) - n /\ \A i \in 1..Len(t) - n : b[i] = t[n + 1 + i - 1]
    <3>1. /\ b \in Seq(Reply) /\ Len(b) = (IF n + 1 <= Len(t) THEN Len(t) - (n + 1) + 1 ELSE 0)
          /\ \A i \in 1..Len(t) - (n + 1) + 1 : b[i] = t[n + 1 + i - 1]
      <4>1. \A i \in n + 1..Len(t) : t[i] \in Reply
        BY <1>1, <2>0
      <4>2. n + 1 \in Int /\ Len(t) \in Int
        BY <1>1, <2>0
      <4> QED BY <4>1, <4>2, SubSeqProperties
    <3> QED BY <1>1, <2>0, <3>1
  <2>3. Delivery!RemoveAt(t, n) = a \o b
    BY DEF Delivery!RemoveAt
  <2> HIDE DEF a, b
  <2>4. /\ a \o b \in Seq(Reply) /\ DOMAIN (a \o b) = 1..Len(t) - 1
        /\ \A i \in 1..Len(t) - 1 : (a \o b)[i] = IF i <= n - 1 THEN a[i] ELSE b[i - (n - 1)]
    <3>1. /\ a \o b \in Seq(Reply) /\ Len(a \o b) = Len(a) + Len(b)
          /\ \A i \in 1..Len(a) + Len(b) : (a \o b)[i] = IF i <= Len(a) THEN a[i] ELSE b[i - Len(a)]
      BY <2>1, <2>2, ConcatProperties
    <3>2. Len(a) + Len(b) = Len(t) - 1 /\ Len(a) = n - 1
      BY <1>1, <2>0, <2>1, <2>2
    <3>3. DOMAIN (a \o b) = 1..Len(a \o b)
      BY <3>1
    <3> QED BY <3>1, <3>2, <3>3
  <2>5. ASSUME NEW i \in 1..Len(t) - 1
        PROVE  \E j \in 1..Len(t) : (a \o b)[i] = t[j]
    <3>1. CASE i <= n - 1
      <4>1. i \in 1..n - 1 /\ i \in 1..Len(t)
        BY <1>1, <2>0, <3>1
      <4> QED BY <2>1, <2>4, <3>1, <4>1
    <3>2. CASE ~(i <= n - 1)
      <4>1. i - (n - 1) \in 1..Len(t) - n /\ n + 1 + (i - (n - 1)) - 1 \in 1..Len(t)
        BY <1>1, <2>0, <3>2
      <4> QED BY <2>2, <2>4, <3>2, <4>1
    <3> QED BY <3>1, <3>2
  <2> QED BY <1>1, <2>3, <2>4, <2>5
<1> QED BY <1>2, <1>3, <1>4 DEF t

\* A step of the client: its record and what is on its way are honest.
LEMMA ClientSteps ==
  ASSUME CardInv, UNCHANGED <<status, latest, facts>>,
         client' \in Tab, Honest(client'.card), Honest(client'.shown),
         client'.card = Delivery!NoCard \/ Keeps(client.card, client'.card),
         toClient' \in Seq(Reply), \A i \in DOMAIN toClient' : Honest(toClient'[i].record),
         (requests' \ requests) \cap sent = {}, sent' \subseteq used',
         client'.outbox # None => client'.outbox \in used' \ sent'
  PROVE  CardInv' /\ Word
<1>1. CardTypeOK'
  BY DEF CardInv, CardTypeOK
<1>2. Told'
  BY DEF CardInv, Told, Honest
<1>3. Unsent'
  BY DEF Unsent
<1> QED BY <1>1, <1>2, <1>3 DEF CardInv, Word

\* A step of the client alone.
LEMMA ComesTo ==
  ASSUME Delivery!AnswerDeliveryAssumption, CardInv, NEW r \in CardView, Honest(r), Comes(client, client', r),
         UNCHANGED <<status, latest, facts, requests, used, sent>>,
         toClient' \in Seq(Reply), \A i \in DOMAIN toClient' : Honest(toClient'[i].record)
  PROVE  CardInv' /\ Word
<1>1. /\ client' \in Tab /\ Keeps(client.card, client'.card) /\ Honest(client'.card) /\ Honest(client'.shown)
      /\ sent' \subseteq used' /\ (client'.outbox # None => client'.outbox \in used' \ sent')
      /\ (requests' \ requests) \cap sent = {}
  BY DEF CardInv, CardTypeOK, Told, Unsent, Comes
<1> QED BY <1>1, ClientSteps

LEMMA SubmitStep ==
  ASSUME Delivery!AnswerDeliveryAssumption, CardInv, NEW s \in CardSubs, Delivery!submit(s)
  PROVE  CardInv' /\ Word
<1> DEFINE c == [Delivery!NoCard EXCEPT !.sub = s, !.to = "submitting"]
           opened == Delivery!put(client, c)
           keeps == IF client.up \/ ~client.remote THEN s ELSE None
           subs == IF client.up THEN {s} ELSE {}
<1>0. client \in Tab
  BY DEF CardInv, CardTypeOK
<1>1. c \in CardView /\ c.to = "submitting" /\ Honest(c)
  BY NoCardIs DEF CardView, Outcome, Honest, Final
<1>2. /\ client.card.to \in {"none", "failed"} /\ s \notin used /\ used' = used \cup {s}
      /\ client' = [opened EXCEPT !.waiter = keeps, !.outbox = IF client.up THEN @ ELSE keeps]
      /\ requests' = requests \cup subs /\ sent' = sent \cup subs
      /\ UNCHANGED <<status, latest, facts, toClient>>
  BY DEF Delivery!submit, Delivery!Send, Delivery!record
<1> HIDE DEF c
<1>3. /\ opened \in Tab /\ opened.card = c /\ opened.shown = client.shown
         /\ opened.outbox \in {client.outbox, None}
  BY <1>0, <1>1, PutIs
<1> HIDE DEF opened
<1>4. /\ client' \in Tab /\ client'.card = c /\ client'.shown = client.shown
      /\ client'.outbox = IF client.up THEN opened.outbox ELSE keeps
  BY <1>2, <1>3 DEF Tab
<1>5. sent' \subseteq used' /\ (client'.outbox # None => client'.outbox \in used' \ sent')
  BY <1>2, <1>3, <1>4 DEF CardInv, Unsent
<1>6. (requests' \ requests) \cap sent = {}
  BY <1>2 DEF CardInv, Unsent
<1>7. Keeps(client.card, client'.card)
  BY <1>1, <1>2, <1>4 DEF Keeps
<1>8. toClient' \in Seq(Reply) /\ \A i \in DOMAIN toClient' : Honest(toClient'[i].record)
  BY <1>2 DEF CardInv, CardTypeOK, Told
<1>9. Honest(client'.card) /\ Honest(client'.shown)
  BY <1>1, <1>4 DEF CardInv, Told
<1> QED BY <1>2, <1>4, <1>5, <1>6, <1>7, <1>8, <1>9, ClientSteps

\* The client as it is, with another timer.
LEMMA OverdueStep ==
  ASSUME Delivery!AnswerDeliveryAssumption, CardInv, Delivery!Overdue \/ Delivery!CheckAgain
  PROVE  CardInv' /\ Word
<1> DEFINE k == [client EXCEPT !.timer = None]
           c == [k.card EXCEPT !.overdue = TRUE]
           late == Delivery!put(k, c)
<1>0. client \in Tab /\ toClient \in Seq(Reply) /\ \A i \in DOMAIN toClient : Honest(toClient[i].record)
  BY DEF CardInv, CardTypeOK, Told
<1>1. k \in Tab /\ \A n, r : Comes(k, n, r) <=> Comes(client, n, r)
  BY <1>0 DEF Tab, Comes
<1>2. c \in CardView /\ c.to = k.card.to /\ c.sub = k.card.sub
  BY <1>1 DEF Tab, CardView
<1>3. /\ \/ client' = k
         \/ client' = Delivery!check(late)
         \/ client' = late
         \/ client' = Delivery!check(client)
      /\ UNCHANGED <<status, latest, facts, requests, toClient, used, sent>>
  BY DEF Delivery!Overdue, Delivery!CheckAgain, Delivery!record, Delivery!net
<1> HIDE DEF k, c
<1>4. Comes(k, late, Delivery!NoCard)
  BY <1>1, <1>2, PutComes DEF Keeps, Honest
<1>5. late.card = c
  BY <1>1, <1>2, PutIs
<1> HIDE DEF late
<1>6. Comes(late, Delivery!check(late), Delivery!NoCard)
  BY <1>4, CheckIs DEF Comes
<1>7. Comes(k, Delivery!check(late), Delivery!NoCard)
  BY <1>2, <1>4, <1>5, <1>6 DEF Comes, Keeps, Honest
<1>8. Comes(client, Delivery!check(client), Delivery!NoCard)
  BY <1>0, CheckIs
<1>9. Comes(k, k, Delivery!NoCard)
  BY <1>1 DEF Comes, Keeps
<1>10. Comes(client, client', Delivery!NoCard)
  BY <1>1, <1>3, <1>4, <1>7, <1>8, <1>9
<1> QED BY <1>0, <1>3, <1>10, NoCardIs, ComesTo

LEMMA QueryTimeoutStep ==
  ASSUME Delivery!AnswerDeliveryAssumption, CardInv, Delivery!QueryTimeout
  PROVE  CardInv' /\ Word
<1>0. client \in Tab /\ toClient \in Seq(Reply) /\ \A i \in DOMAIN toClient : Honest(toClient[i].record)
  BY DEF CardInv, CardTypeOK, Told
<1>1. /\ client' = Delivery!Checked(client, FALSE, Delivery!NoCard)
      /\ toClient' = toClient \/ \E i \in DOMAIN toClient : toClient' = Delivery!RemoveAt(toClient, i)
      /\ UNCHANGED <<status, latest, facts, requests, used, sent>>
  BY DEF Delivery!QueryTimeout, Delivery!record
<1>2. toClient' \in Seq(Reply) /\ \A i \in DOMAIN toClient' : Honest(toClient'[i].record)
  BY <1>0, <1>1, RepliesAre
<1>3. Comes(client, client', Delivery!NoCard)
  BY <1>0, <1>1, CheckedIs, NoCardIs
<1> QED BY <1>1, <1>2, <1>3, NoCardIs, ComesTo

LEMMA RenderStep ==
  ASSUME Delivery!AnswerDeliveryAssumption, CardInv, Delivery!Render
  PROVE  CardInv' /\ Word
<1> DEFINE r == client.shown
           n == Delivery!observe(client, r)
<1>0. /\ client \in Tab /\ toClient \in Seq(Reply) /\ \A i \in DOMAIN toClient : Honest(toClient[i].record)
      /\ r \in CardView /\ Honest(r) /\ Honest(client.card)
  BY DEF CardInv, CardTypeOK, Told, Tab
<1>1. /\ client' = [n EXCEPT !.shown = Delivery!NoCard]
      /\ UNCHANGED <<status, latest, facts, requests, toClient, used, sent>>
  BY DEF Delivery!Render, Delivery!record, Delivery!net
<1>2. Comes(client, n, r)
  BY <1>0, ObserveIs
<1> HIDE DEF n, r
<1>3. /\ client' \in Tab /\ client'.card = n.card /\ client'.outbox = n.outbox
         /\ client'.shown = Delivery!NoCard
  BY <1>1, <1>2, NoCardIs DEF Comes, Tab
<1>4. Keeps(client.card, client'.card) /\ Honest(client'.card) /\ Honest(client'.shown)
  BY <1>0, <1>2, <1>3, NoCardIs DEF Comes
<1>5. /\ sent' \subseteq used' /\ (client'.outbox # None => client'.outbox \in used' \ sent')
      /\ (requests' \ requests) \cap sent = {}
  BY <1>1, <1>2, <1>3 DEF CardInv, Unsent, Comes
<1> QED BY <1>0, <1>1, <1>3, <1>4, <1>5, ClientSteps

LEMMA ReceiveStep ==
  ASSUME Delivery!AnswerDeliveryAssumption, CardInv, Delivery!Receive
  PROVE  CardInv' /\ Word
<1> DEFINE m == Head(toClient)
<1>0. client \in Tab
  BY DEF CardInv, CardTypeOK
<1>1. /\ toClient # <<>> /\ toClient' = Tail(toClient)
      /\ \/ client' = [client EXCEPT !.shown = m.record]
         \/ client' = Delivery!Replied(m)
         \/ client' = Delivery!Checked(client, TRUE, m.record)
      /\ UNCHANGED <<status, latest, facts, requests, used, sent>>
  BY DEF Delivery!Receive, Delivery!record
<1>2. /\ m \in Reply /\ m.record \in CardView /\ Honest(m.record)
      /\ toClient' \in Seq(Reply) /\ \A i \in DOMAIN toClient' : Honest(toClient'[i].record)
  BY <1>1, RepliesAre DEF Reply
<1> HIDE DEF m
<1>3. CASE client' = [client EXCEPT !.shown = m.record]
  <2>1. /\ client' \in Tab /\ client'.card = client.card /\ client'.shown = m.record
           /\ client'.outbox = client.outbox
    BY <1>0, <1>2, <1>3 DEF Tab
  <2>2. Keeps(client.card, client'.card) /\ Honest(client'.card) /\ Honest(client'.shown)
    BY <1>2, <2>1 DEF CardInv, Told, Keeps
  <2>3. /\ sent' \subseteq used' /\ (client'.outbox # None => client'.outbox \in used' \ sent')
        /\ (requests' \ requests) \cap sent = {}
    BY <1>1, <2>1 DEF CardInv, Unsent
  <2> QED BY <1>1, <1>2, <2>1, <2>2, <2>3, ClientSteps
<1>4. CASE client' = Delivery!Replied(m)
  <2>1. Comes(client, client', m.record)
    BY <1>0, <1>2, <1>4, RepliedIs
  <2> QED BY <1>1, <1>2, <2>1, ComesTo
<1>5. CASE client' = Delivery!Checked(client, TRUE, m.record)
  <2>1. Comes(client, client', m.record)
    BY <1>0, <1>2, <1>5, CheckedIs
  <2> QED BY <1>1, <1>2, <2>1, ComesTo
<1> QED BY <1>1, <1>3, <1>4, <1>5

\* A connection that opens sends the answer that waited, which was never sent.
LEMMA ConnectStep ==
  ASSUME Delivery!AnswerDeliveryAssumption, CardInv, Delivery!Connect
  PROVE  CardInv' /\ Word
<1> DEFINE k == [client EXCEPT !.up = TRUE, !.outbox = None]
           n == Delivery!check(k)
           subs == {client.outbox} \ {None}
<1>0. client \in Tab
  BY DEF CardInv, CardTypeOK
<1>1. /\ client' = k \/ client' = n
      /\ requests' = requests \cup subs /\ sent' = sent \cup subs
      /\ UNCHANGED <<status, latest, facts, toClient, used>>
  BY DEF Delivery!Connect, Delivery!Send, Delivery!record
<1>2. k \in Tab /\ k.card = client.card /\ k.shown = client.shown /\ k.outbox = None
  BY <1>0 DEF Tab
<1> HIDE DEF k
<1>3. Comes(k, n, client.card) /\ Comes(k, k, client.card)
  BY <1>2, CheckIs DEF Comes, Keeps
<1> HIDE DEF n
<1>4. /\ client' \in Tab /\ Keeps(client.card, client'.card) /\ Honest(client'.card) /\ Honest(client'.shown)
      /\ client'.outbox = None
  BY <1>1, <1>2, <1>3 DEF CardInv, Told, Comes
<1>5. /\ sent' \subseteq used' /\ (requests' \ requests) \cap sent = {}
      /\ toClient' \in Seq(Reply) /\ \A i \in DOMAIN toClient' : Honest(toClient'[i].record)
  BY <1>1 DEF CardInv, CardTypeOK, Told, Unsent
<1> QED BY <1>1, <1>4, <1>5, ClientSteps

\* A connection that is lost, and with it what was on its way.
LEMMA DisconnectStep ==
  ASSUME Delivery!AnswerDeliveryAssumption, CardInv, Delivery!ConnectFails \/ Delivery!Lose
  PROVE  CardInv' /\ Word
<1>0. client \in Tab /\ toClient \in Seq(Reply) /\ \A i \in DOMAIN toClient : Honest(toClient[i].record)
  BY DEF CardInv, CardTypeOK, Told
<1>1. /\ client' = Delivery!Disconnected(client) /\ requests' \subseteq requests
         /\ toClient' \in {toClient, <<>>}
      /\ UNCHANGED <<status, latest, facts, used, sent>>
  BY DEF Delivery!ConnectFails, Delivery!Lose, Delivery!Break, Delivery!record, Delivery!net
<1>2. /\ client' \in Tab /\ client'.shown = client.shown /\ client'.outbox \in {client.outbox, None}
      /\ Keeps(client.card, client'.card) /\ Honest(client'.card)
  BY <1>0, <1>1, DisconnectedIs DEF CardInv, Told
<1>3. toClient' \in Seq(Reply) /\ \A i \in DOMAIN toClient' : Honest(toClient'[i].record)
  <2>1. CASE toClient' = toClient
    BY <1>0, <2>1
  <2>2. CASE toClient' = <<>>
    BY <2>2
  <2> QED BY <1>1, <2>1, <2>2
<1>4. /\ sent' \subseteq used' /\ (client'.outbox # None => client'.outbox \in used' \ sent')
      /\ (requests' \ requests) \cap sent = {} /\ Honest(client'.shown)
  BY <1>1, <1>2 DEF CardInv, Told, Unsent
<1> QED BY <1>1, <1>2, <1>3, <1>4, ClientSteps

LEMMA ReloadStep ==
  ASSUME Delivery!AnswerDeliveryAssumption, CardInv, Delivery!Reload
  PROVE  CardInv' /\ Word
<1> DEFINE c == [client.card EXCEPT !.checking = FALSE,
                                    !.to = IF @ = "submitting" THEN "delivery_unknown" ELSE @]
           d == IF client.remote THEN Delivery!NoCard ELSE c
           n == Delivery!NewClient(client.remote)
<1>0. client \in Tab
  BY DEF CardInv, CardTypeOK
<1>1. /\ client' = [n EXCEPT !.card = d] /\ requests' \subseteq requests /\ toClient' = <<>>
      /\ UNCHANGED <<status, latest, facts, used, sent>>
  BY DEF Delivery!Reload, Delivery!Break, Delivery!record
<1>2. client.card \in CardView
  BY <1>0 DEF Tab
<1>3. c \in CardView /\ Keeps(client.card, c) /\ (Honest(client.card) => Honest(c))
  BY <1>2 DEF CardView, Outcome, Keeps, Honest, Final
<1>4. d \in CardView /\ Honest(d) /\ (d = Delivery!NoCard \/ Keeps(client.card, d))
  BY <1>3, NoCardIs DEF CardInv, Told
<1> HIDE DEF d
<1>5. client' \in Tab /\ client'.card = d /\ client'.shown = Delivery!NoCard /\ client'.outbox = None
  BY <1>0, <1>1, <1>4, NoCardIs DEF Delivery!NewClient, Tab
<1>6. /\ sent' \subseteq used' /\ (requests' \ requests) \cap sent = {}
      /\ toClient' \in Seq(Reply) /\ \A i \in DOMAIN toClient' : Honest(toClient'[i].record)
  BY <1>1 DEF CardInv, Unsent
<1> QED BY <1>1, <1>4, <1>5, <1>6, NoCardIs, ClientSteps

\* A step of the server: its record and its replies are honest.
LEMMA ServerSteps ==
  ASSUME CardInv, facts \subseteq facts', UNCHANGED <<client, sent>>, used \subseteq used',
         requests' \subseteq requests,
         status' \in [CardSubs -> Outcome], latest' \in CardSubs \cup {None},
         \A s \in CardSubs : status'[s] \in Final => <<s, status'[s]>> \in facts',
         toClient' \in Seq(Reply), \A i \in DOMAIN toClient' : Honest(toClient'[i].record)
  PROVE  CardInv' /\ Word
<1>1. CardTypeOK'
  BY DEF CardInv, CardTypeOK
<1>2. Told'
  BY DEF CardInv, Told, Honest
<1>3. Unsent'
  BY DEF CardInv, Unsent
<1>4. Word
  BY DEF Word, Keeps
<1> QED BY <1>1, <1>2, <1>3, <1>4 DEF CardInv

LEMMA RecordOfIs ==
  ASSUME Delivery!AnswerDeliveryAssumption, CardInv, NEW s \in CardSubs \cup {None}
  PROVE  Delivery!RecordOf(s) \in CardView /\ Honest(Delivery!RecordOf(s))
<1>1. CASE s = None
  BY <1>1, NoCardIs DEF Delivery!RecordOf
<1>2. CASE s # None
  <2>1. /\ s \in CardSubs /\ status[s] \in Outcome /\ (status[s] \in Final => <<s, status[s]>> \in facts)
        /\ Delivery!RecordOf(s) = [Delivery!NoCard EXCEPT !.sub = s, !.to = status[s]]
    BY <1>2 DEF Delivery!RecordOf, CardInv, CardTypeOK, Told
  <2>2. Delivery!RecordOf(s) \in CardView /\ Delivery!RecordOf(s).sub = s /\ Delivery!RecordOf(s).to = status[s]
    BY <2>1, NoCardIs DEF CardView
  <2> QED BY <2>1, <2>2 DEF Honest
<1> QED BY <1>1, <1>2

\* A reply of the server, whose record is of some submission or none.
Replying ==
  /\ UNCHANGED <<status, latest, facts, client, used, sent>> /\ requests' \subseteq requests
  /\ \/ UNCHANGED toClient
     \/ \E kind \in {"snapshot", "state", "ack", "error"}, req \in CardSubs \cup {None}, s \in CardSubs \cup {None} :
          toClient' = Append(toClient, [kind |-> kind, req |-> req, record |-> Delivery!RecordOf(s)])

LEMMA ReplyStep ==
  ASSUME Delivery!AnswerDeliveryAssumption, CardInv,
         Delivery!AnswerQuery \/ Delivery!Snapshot
           \/ \E s \in CardSubs : Delivery!Return(s) \/ Delivery!Refuse(s)
  PROVE  CardInv' /\ Word
<1>1. Replying
  <2>0. None \in CardSubs \cup {None} /\ latest \in CardSubs \cup {None}
    BY DEF CardInv, CardTypeOK
  <2>1. CASE Delivery!AnswerQuery \/ Delivery!Snapshot
    BY <2>0, <2>1 DEF Delivery!AnswerQuery, Delivery!Snapshot, Delivery!Deliver, Delivery!record,
       Replying
  <2>2. ASSUME NEW s \in CardSubs, Delivery!Return(s)
        PROVE  Replying
    <3> DEFINE found == IF status[s] # "none" THEN s ELSE latest
    <3>1. found \in CardSubs \cup {None} /\ Delivery!Finish(s, "ack", Delivery!RecordOf(found))
      BY <2>0, <2>2 DEF Delivery!Return
    <3> HIDE DEF found
    <3> QED BY <3>1 DEF Delivery!Finish, Delivery!Deliver, Delivery!record, Replying
  <2>3. ASSUME NEW s \in CardSubs, Delivery!Refuse(s)
        PROVE  Replying
    <3>1. Delivery!Finish(s, "error", Delivery!RecordOf(None))
      BY <2>3 DEF Delivery!Refuse, Delivery!RecordOf
    <3> QED BY <2>0, <3>1 DEF Delivery!Finish, Delivery!Deliver, Delivery!record, Replying
  <2> QED BY <2>1, <2>2, <2>3
<1>2. toClient' \in Seq(Reply) /\ \A i \in DOMAIN toClient' : Honest(toClient'[i].record)
  <2>1. CASE UNCHANGED toClient
    BY <1>1, <2>1 DEF CardInv, CardTypeOK, Told, Replying, Honest
  <2>2. ASSUME NEW kind \in {"snapshot", "state", "ack", "error"}, NEW req \in CardSubs \cup {None},
               NEW s \in CardSubs \cup {None},
               toClient' = Append(toClient, [kind |-> kind, req |-> req, record |-> Delivery!RecordOf(s)])
        PROVE  toClient' \in Seq(Reply) /\ \A i \in DOMAIN toClient' : Honest(toClient'[i].record)
    <3> DEFINE r == [kind |-> kind, req |-> req, record |-> Delivery!RecordOf(s)]
    <3>1. r \in Reply /\ Honest(r.record)
      BY RecordOfIs DEF Reply
    <3>2. UNCHANGED facts
      BY <1>1 DEF Replying
    <3> QED BY <2>2, <3>1, <3>2, RepliesAre
  <2> QED BY <1>1, <2>1, <2>2 DEF Replying
<1>3. /\ status' \in [CardSubs -> Outcome] /\ latest' \in CardSubs \cup {None}
      /\ \A s \in CardSubs : status'[s] \in Final => <<s, status'[s]>> \in facts'
  BY <1>1 DEF CardInv, CardTypeOK, Told, Replying
<1> QED BY <1>1, <1>2, <1>3, ServerSteps DEF Replying

\* The record of a submission changes, and the facts with it.
LEMMA RecordStep ==
  ASSUME Delivery!AnswerDeliveryAssumption, CardInv,
         \E s \in CardSubs : \/ Delivery!RecordAnswer(s) \/ Delivery!OtherClientAnswers(s)
                             \/ \E to \in Delivery!Statuses : Delivery!RecordDelivery(s, to)
  PROVE  CardInv' /\ Word
<1>1. PICK s \in CardSubs, to \in Outcome :
        status' = [status EXCEPT ![s] = to] /\ latest' = s /\ Delivery!Recorded /\ used \subseteq used'
  BY DEF Delivery!RecordAnswer, Delivery!OtherClientAnswers, Delivery!RecordDelivery, Delivery!Statuses,
         Delivery!Answers!Statuses, Delivery!Answers!Submit, Delivery!Answers!Settle, Delivery!Answers!Doubt,
         Delivery!Answers!Set, Outcome
<1>2. /\ facts' = facts \cup {<<z, status'[z]>> : z \in {y \in CardSubs : status'[y] \in Final}}
      /\ UNCHANGED <<requests, toClient, client, sent>>
  BY <1>1, NoCardIs DEF Delivery!Recorded
<1>3. status' \in [CardSubs -> Outcome] /\ latest' \in CardSubs \cup {None}
  BY <1>1 DEF CardInv, CardTypeOK
<1>4. \A z \in CardSubs : status'[z] \in Final => <<z, status'[z]>> \in facts'
  BY <1>2
<1>5. /\ facts \subseteq facts' /\ toClient' \in Seq(Reply)
      /\ \A i \in DOMAIN toClient' : Honest(toClient'[i].record)
  BY <1>2 DEF CardInv, CardTypeOK, Told
<1> QED BY <1>1, <1>2, <1>3, <1>4, <1>5, ServerSteps

\* What a restart forgets, and what it leaves.
LEMMA CardRestartStep ==
  ASSUME Delivery!AnswerDeliveryAssumption, CardInv, Delivery!Restart
  PROVE  CardInv' /\ Word
<1>0. client \in Tab /\ status \in [CardSubs -> Outcome] /\ latest \in CardSubs \cup {None}
  BY DEF CardInv, CardTypeOK
<1>1. PICK kept \in SUBSET CardSubs :
        /\ status' = [s \in CardSubs |-> IF s \in kept THEN status[s] ELSE "none"]
        /\ latest' = IF latest \in kept THEN latest ELSE None
  BY DEF Delivery!Restart, Delivery!Answers!Forget
<1>2. /\ requests' = {} /\ toClient' = <<>> /\ client' = Delivery!Disconnected(client)
      /\ UNCHANGED <<facts, used, sent>>
  BY DEF Delivery!Restart
<1>3. /\ client' \in Tab /\ client'.shown = client.shown /\ client'.outbox \in {client.outbox, None}
      /\ Keeps(client.card, client'.card) /\ Honest(client'.card)
  BY <1>0, <1>2, DisconnectedIs DEF CardInv, Told
<1>4. \A s \in CardSubs : status'[s] \in Outcome /\ (status'[s] = status[s] \/ status'[s] = "none")
  BY <1>0, <1>1 DEF Outcome
<1>5. CardTypeOK'
  <2>1. status' \in [CardSubs -> Outcome]
    BY <1>1, <1>4
  <2> QED BY <1>0, <1>1, <1>2, <1>3, <2>1 DEF CardTypeOK
<1>6. Told'
  <2>1. \A s \in CardSubs : status'[s] \in Final => <<s, status'[s]>> \in facts'
    BY <1>2, <1>4 DEF CardInv, Told, Final
  <2>2. Honest(client.card)' /\ Honest(client.shown)'
    BY <1>2, <1>3 DEF CardInv, Told, Honest
  <2> QED BY <1>2, <2>1, <2>2 DEF Told
<1>7. Unsent' /\ Word
  BY <1>2, <1>3 DEF CardInv, Unsent, Word
<1> QED BY <1>5, <1>6, <1>7 DEF CardInv

-----------------------------------------------------------------------------
(* The theorems. *)

LEMMA CardStep ==
  ASSUME Delivery!AnswerDeliveryAssumption, CardInv, Delivery!Next
  PROVE  CardInv' /\ Word
<1>1. CASE Delivery!Connect
  BY <1>1, ConnectStep
<1>2. CASE Delivery!ConnectFails \/ Delivery!Lose
  BY <1>2, DisconnectStep
<1>3. CASE Delivery!Reload
  BY <1>3, ReloadStep
<1>4. CASE Delivery!AnswerQuery \/ Delivery!Snapshot
  BY <1>4, ReplyStep
<1>5. CASE Delivery!Receive
  BY <1>5, ReceiveStep
<1>6. CASE Delivery!Restart
  BY <1>6, CardRestartStep
<1>7. CASE Delivery!Overdue \/ Delivery!CheckAgain
  BY <1>7, OverdueStep
<1>8. CASE Delivery!QueryTimeout
  BY <1>8, QueryTimeoutStep
<1>9. CASE Delivery!Render
  BY <1>9, RenderStep
<1>10. ASSUME NEW s \in CardSubs,
              \/ Delivery!submit(s) \/ Delivery!OtherClientAnswers(s)
              \/ Delivery!RecordAnswer(s) \/ Delivery!Return(s) \/ Delivery!Refuse(s)
       PROVE  CardInv' /\ Word
  <2>1. CASE Delivery!submit(s)
    BY <2>1, SubmitStep
  <2>2. CASE Delivery!OtherClientAnswers(s) \/ Delivery!RecordAnswer(s)
    BY <2>2, RecordStep
  <2>3. CASE Delivery!Return(s) \/ Delivery!Refuse(s)
    BY <2>3, ReplyStep
  <2> QED BY <1>10, <2>1, <2>2, <2>3
<1>11. ASSUME NEW s \in CardSubs, NEW to \in Delivery!Statuses, Delivery!RecordDelivery(s, to)
       PROVE  CardInv' /\ Word
  BY <1>11, RecordStep
<1> QED BY <1>1, <1>2, <1>3, <1>4, <1>5, <1>6, <1>7, <1>8, <1>9, <1>10, <1>11 DEF Delivery!Next

LEMMA CardStutter == CardInv /\ UNCHANGED card => CardInv'
BY DEF card, CardInv, CardTypeOK, Told, Unsent, Honest

\* Of every component but its own, a step changes nothing.
LEMMA CardSteps ==
  [MCNext]_<<record, vars, worn, catalog, card>> => Delivery!Next \/ UNCHANGED card
BY DEF MCNext

LEMMA CardSafe == Delivery!AnswerDeliveryAssumption => (MCSpec => []CardInv)
<1> SUFFICES ASSUME Delivery!AnswerDeliveryAssumption PROVE MCSpec => []CardInv
  OBVIOUS
<1>1. MCInit => CardInv
  BY CardInit DEF MCInit
<1>2. CardInv /\ [MCNext]_<<record, vars, worn, catalog, card>> => CardInv'
  BY CardStep, CardStutter, CardSteps
<1> QED BY <1>1, <1>2, PTL DEF MCSpec

\* Whatever answers are given by whatever clients, and however connections, reloads and
\* restarts of the server interleave: a card says queued, accepted or failed only of a
\* submission of which the server's record once said so (asyncQuestionDelivery.ts observe,
\* check; ws-router.ts chat.answerAsyncQuestion).
THEOREM CardIsTruthful ==
  ASSUME MCRecordsAssumption
  PROVE  MCSpec => []Truthful
<1>1. CardInv => Truthful
  BY DEF CardInv, Told, Honest, Final, Truthful, Delivery!Truthful, Delivery!Settled
<1> QED BY <1>1, CardSafe, MCRecordsAssumption, PTL

\* Accepted does not regress, queued not to submitting or unknown, and an answer that was
\* sent is not sent again (asyncQuestionDelivery.ts isOutdated, socket.ts open, abort).
THEOREM CardKeepsWord ==
  ASSUME MCRecordsAssumption
  PROVE  MCSpec => CardKeepsItsWord
<1>1. CardInv /\ [MCNext]_<<record, vars, worn, catalog, card>> =>
        /\ [client'.card = Delivery!NoCard \/ Keeps(client.card, client'.card)]_Delivery!vars
        /\ [(requests' \ requests) \cap sent = {}]_Delivery!vars
  BY CardStep, CardSteps, MCRecordsAssumption DEF Word, card, Delivery!vars, Delivery!record, Delivery!net
<1>2. [client'.card = Delivery!NoCard \/ Keeps(client.card, client'.card)]_Delivery!vars =>
        [LET old == client.card  new == client'.card
         IN new = Delivery!NoCard \/
              /\ old.to = "accepted" => new.to = "accepted"
              /\ old.to = "queued" => new.to \notin Delivery!Unresolved]_Delivery!vars
  BY DEF Keeps, Delivery!Unresolved
<1> QED BY <1>1, <1>2, CardSafe, MCRecordsAssumption, PTL
        DEF MCSpec, CardKeepsItsWord, Delivery!CardKeepsItsWord, Delivery!NoRegress, Delivery!NeverReplayed

-----------------------------------------------------------------------------
(***************************************************************************)
(* The catalog (ChatCatalog).                                              *)
(***************************************************************************)
(* The replay.  Induction over data is by a least counterexample. *)

CatalogStands == Catalog!CatalogAssumption

\* What is known of an event, whatever wrote it.
EventOK(e, ids) ==
  /\ e.at \in Nat
  /\ e.type \notin Catalog!ProjectEvents => e.id \in Chats
  /\ e.type = "chat_created" => e.arg \in Projects /\ e.id \in ids
  /\ e.type = "chat_read_state_set" => e.arg \in BOOLEAN
  /\ e.type = "chat_transcript_metadata_set" => e.has = TRUE /\ e.arg \in Nat
Logged(es, ids) == \E n \in Nat : DOMAIN es = 1..n /\ \A i \in 1..n : EventOK(es[i], ids)

\* A state whose offsets stand for messages, of chats among ids.
Sound(m, ids) ==
  /\ DOMAIN m = {"projects", "path", "chats", "queued"}
  /\ m.chats \in [Chats -> Catalog!ChatRecord \cup {None}]
  /\ \A c \in Chats : m.chats[c] # None => c \in ids /\ (m.chats[c].offset = 0 \/ m.chats[c].has)

\* What an event leaves of a chat that it does not create.
Follows(old, new) ==
  /\ old = None <=> new = None
  /\ old # None => (old.has => new.has) /\ (old.deleted => new.deleted)

LEMMA ApplyChatIs ==
  ASSUME CatalogStands, NEW chat \in Catalog!ChatRecord, NEW e, NEW ids, EventOK(e, ids), e.type # "chat_created",
         chat.offset = 0 \/ chat.has
  PROVE  LET new == Catalog!applyChat(chat, e) IN
         /\ new \in Catalog!ChatRecord
         /\ new.offset = 0 \/ new.has
         /\ (chat.has => new.has) /\ (chat.deleted => new.deleted)
BY DEF Catalog!applyChat, Catalog!ChatRecord, EventOK

LEMMA NewChatIs ==
  ASSUME CatalogStands, NEW e, NEW ids, EventOK(e, ids), e.type = "chat_created"
  PROVE  /\ Catalog!NewChat(e) \in Catalog!ChatRecord /\ Catalog!NewChat(e).offset = 0
         /\ Catalog!NewChat(e) # None
<1>1. Catalog!NewChat(e) \in Catalog!ChatRecord /\ Catalog!NewChat(e).offset = 0
  BY DEF Catalog!NewChat, Catalog!ChatRecord, EventOK
<1>2. None \notin Catalog!ChatRecord
  BY DEF CatalogStands, Catalog!CatalogAssumption
<1>3. Catalog!NewChat(e) # None
  BY <1>1, <1>2, Zenon
<1> QED BY <1>1, <1>3

LEMMA ApplyIs ==
  ASSUME CatalogStands, NEW m, NEW e, NEW ids, Sound(m, ids), EventOK(e, ids)
  PROVE  LET n == Catalog!applyEvent(m, e) IN
         /\ Sound(n, ids)
         /\ \A c \in Chats : IF e.type = "chat_created" /\ c = e.id THEN n.chats[c] = Catalog!NewChat(e)
                             ELSE Follows(m.chats[c], n.chats[c])
<1> DEFINE n == Catalog!applyEvent(m, e)
<1>0. None \notin Catalog!ChatRecord
  BY DEF CatalogStands, Catalog!CatalogAssumption
<1>1. CASE e.type \in Catalog!ProjectEvents
  <2>1. e.type # "chat_created"
    BY <1>1 DEF Catalog!ProjectEvents
  <2>2. n.chats = m.chats /\ DOMAIN n = DOMAIN m
    BY <1>1 DEF Catalog!applyEvent, Catalog!applyProject, Sound
  <2> HIDE DEF n
  <2>3. Sound(n, ids)
    BY <2>2 DEF Sound
  <2>4. \A c \in Chats : Follows(m.chats[c], n.chats[c])
    BY <2>2 DEF Follows
  <2> QED BY <2>1, <2>3, <2>4 DEF n
<1>2. CASE e.type \notin Catalog!ProjectEvents /\ e.type = "chat_created"
  <2>1. n = [m EXCEPT !.chats[e.id] = Catalog!NewChat(e)] /\ e.id \in Chats /\ e.id \in ids
    BY <1>2 DEF Catalog!applyEvent, EventOK
  <2>2. DOMAIN n = DOMAIN m /\ n.chats = [m.chats EXCEPT ![e.id] = Catalog!NewChat(e)]
    BY <2>1 DEF Sound
  <2>3. \A c \in Chats : n.chats[c] = IF c = e.id THEN Catalog!NewChat(e) ELSE m.chats[c]
    BY <2>1, <2>2 DEF Sound
  <2> HIDE DEF n
  <2>4. /\ Catalog!NewChat(e) \in Catalog!ChatRecord /\ Catalog!NewChat(e) # None
        /\ Catalog!NewChat(e).offset = 0
    BY <1>2, NewChatIs
  <2>5. Sound(n, ids)
    BY <2>1, <2>2, <2>3, <2>4 DEF Sound
  <2>6. \A c \in Chats : c # e.id => Follows(m.chats[c], n.chats[c])
    BY <2>3 DEF Follows
  <2> QED BY <1>2, <2>3, <2>5, <2>6 DEF n
<1>3. CASE e.type \notin Catalog!ProjectEvents /\ e.type # "chat_created" /\ m.chats[e.id] = None
  <2>1. n.chats = m.chats /\ DOMAIN n = DOMAIN m
    BY <1>3 DEF Catalog!applyEvent, Sound
  <2> HIDE DEF n
  <2>2. Sound(n, ids)
    BY <2>1 DEF Sound
  <2>3. \A c \in Chats : Follows(m.chats[c], n.chats[c])
    BY <2>1 DEF Follows
  <2> QED BY <1>3, <2>2, <2>3 DEF n
<1>4. CASE e.type \notin Catalog!ProjectEvents /\ e.type # "chat_created" /\ m.chats[e.id] # None
  <2> DEFINE new == Catalog!applyChat(m.chats[e.id], e)
  <2>1. e.id \in Chats /\ m.chats[e.id] \in Catalog!ChatRecord
    BY <1>4 DEF EventOK, Sound
  <2>2. DOMAIN n = DOMAIN m /\ n.chats = [m.chats EXCEPT ![e.id] = new]
    BY <1>4 DEF Catalog!applyEvent, Sound
  <2>3. \A c \in Chats : n.chats[c] = IF c = e.id THEN new ELSE m.chats[c]
    BY <2>1, <2>2 DEF Sound
  <2>4. /\ new \in Catalog!ChatRecord /\ new # None /\ (new.offset = 0 \/ new.has)
        /\ (m.chats[e.id].has => new.has) /\ (m.chats[e.id].deleted => new.deleted)
    BY <1>0, <1>4, <2>1, ApplyChatIs DEF Sound
  <2> HIDE DEF n, new
  <2>5. Sound(n, ids)
    BY <1>4, <2>1, <2>2, <2>3, <2>4 DEF Sound
  <2>6. \A c \in Chats : Follows(m.chats[c], n.chats[c])
    BY <1>4, <2>1, <2>2, <2>3, <2>4 DEF Follows
  <2> QED BY <1>4, <2>5, <2>6 DEF n
<1> QED BY <1>1, <1>2, <1>3, <1>4

LEMMA PriorityIs == ASSUME NEW e PROVE Catalog!getReplayEventPriority(e) \in Nat
BY DEF Catalog!getReplayEventPriority

\* The order of the replay is total and transitive.
LEMMA PrecedesIs ==
  ASSUME NEW es, NEW ids, Logged(es, ids), NEW i \in DOMAIN es, NEW j \in DOMAIN es
  PROVE  /\ i # j => Catalog!Precedes(es, i, j) \/ Catalog!Precedes(es, j, i)
         /\ \A k \in DOMAIN es : Catalog!Precedes(es, i, j) /\ Catalog!Precedes(es, j, k) => Catalog!Precedes(es, i, k)
<1>1. PICK n \in Nat : DOMAIN es = 1..n /\ \A k \in 1..n : EventOK(es[k], ids)
  BY DEF Logged
<1>2. \A k \in DOMAIN es : k \in Nat /\ es[k].at \in Nat /\ Catalog!getReplayEventPriority(es[k]) \in Nat
  BY <1>1, PriorityIs DEF EventOK
<1> QED BY <1>2 DEF Catalog!Precedes

Last(es, i, S) == i \in S /\ \A j \in S \ {i} : Catalog!Precedes(es, j, i)

\* Among events there is a latest one.
LEMMA HasLast ==
  ASSUME NEW es, NEW ids, Logged(es, ids)
  PROVE  \A n \in Nat : \A S \in SUBSET DOMAIN es : S \subseteq 1..n /\ S # {} => \E i \in S : Last(es, i, S)
<1> DEFINE Bad == {n \in Nat : ~ \A S \in SUBSET DOMAIN es : S \subseteq 1..n /\ S # {} => \E i \in S : Last(es, i, S)}
<1> SUFFICES ASSUME Bad # {}
             PROVE  FALSE
  OBVIOUS
<1>1. PICK n \in Bad : \A m \in Bad : ~(m < n)
  <2>1. IsWellFoundedOn(OpToRel(<, Nat), Nat) /\ Bad \subseteq Nat
    BY NatLessThanWellFounded, Zenon
  <2>2. \E n \in Bad : \A m \in Bad : <<m, n>> \notin OpToRel(<, Nat)
    <3> HIDE DEF Bad
    <3> QED BY <2>1, WFMin, Zenon
  <2> QED BY <2>1, <2>2 DEF OpToRel
<1>2. PICK S \in SUBSET DOMAIN es : S \subseteq 1..n /\ S # {} /\ ~ \E i \in S : Last(es, i, S)
  OBVIOUS
<1>3. n \in Nat /\ n # 0
  <2>1. n \in Nat
    OBVIOUS
  <2>2. 1..0 = {}
    OBVIOUS
  <2> QED BY <1>2, <2>1, <2>2
<1>4. n - 1 \in Nat /\ n - 1 \notin Bad
  BY <1>1, <1>3
<1>5. ASSUME NEW T \in SUBSET S, T \subseteq 1..n - 1, T # {}
      PROVE  \E i \in T : Last(es, i, T)
  BY <1>2, <1>4, <1>5
<1>6. n \in S
  <2>1. n \notin S => S \subseteq 1..n - 1
    BY <1>2, <1>3
  <2> QED BY <1>2, <1>5, <2>1
<1> DEFINE T == S \ {n}
<1>7. T \subseteq 1..n - 1 /\ T \in SUBSET S
  BY <1>2, <1>3
<1>8. CASE T = {}
  BY <1>2, <1>6, <1>8 DEF Last
<1>9. CASE T # {}
  <2>1. PICK i \in T : Last(es, i, T)
    <3> HIDE DEF T
    <3> QED BY <1>5, <1>7, <1>9
  <2>2. i \in DOMAIN es /\ n \in DOMAIN es /\ i # n
    BY <1>2, <1>6
  <2>3. CASE Catalog!Precedes(es, i, n)
    <3>1. ASSUME NEW j \in S, j # n
          PROVE  Catalog!Precedes(es, j, n)
      <4>1. j = i \/ Catalog!Precedes(es, j, i)
        BY <2>1, <3>1 DEF Last
      <4>2. j \in DOMAIN es
        BY <1>2, <3>1
      <4> QED BY <2>2, <2>3, <4>1, <4>2, PrecedesIs
    <3> QED BY <1>2, <1>6, <3>1 DEF Last
  <2>4. CASE ~Catalog!Precedes(es, i, n)
    <3>1. Catalog!Precedes(es, n, i)
      BY <2>2, <2>4, PrecedesIs
    <3> QED BY <1>2, <2>1, <3>1 DEF Last
  <2> QED BY <2>3, <2>4
<1> QED BY <1>8, <1>9

LEMMA LatestIs ==
  ASSUME NEW es, NEW ids, Logged(es, ids), NEW S \in SUBSET DOMAIN es, S # {}
  PROVE  Catalog!Latest(es, S) \in S
<1>1. PICK n \in Nat : DOMAIN es = 1..n
  BY DEF Logged
<1>2. \E i \in S : Last(es, i, S)
  BY <1>1, HasLast
<1> QED BY <1>2 DEF Last, Catalog!Latest

Replays(m, es, f, S) ==
  f[S] = IF S = {} THEN m
         ELSE Catalog!applyEvent(f[S \ {Catalog!Latest(es, S)}], es[Catalog!Latest(es, S)])

\* A set of events is finite, and smaller without its latest one.
LEMMA Smaller ==
  ASSUME NEW es, NEW ids, Logged(es, ids), NEW S \in SUBSET DOMAIN es
  PROVE  /\ Cardinality(S) \in Nat
         /\ Cardinality(S) = 0 <=> S = {}
         /\ S # {} => LET T == S \ {Catalog!Latest(es, S)} IN
                      T \in SUBSET DOMAIN es /\ Cardinality(T) = Cardinality(S) - 1
<1>1. PICK n \in Nat : DOMAIN es = 1..n
  BY DEF Logged
<1>2. IsFiniteSet(1..n)
  BY FS_Interval
<1>3. IsFiniteSet(S)
  BY <1>1, <1>2, FS_Subset
<1>4. Cardinality(S) \in Nat
  BY <1>3, FS_CardinalityType
<1>5. Cardinality(S) = 0 <=> S = {}
  BY <1>3, FS_EmptySet
<1>6. ASSUME S # {}
      PROVE  Cardinality(S \ {Catalog!Latest(es, S)}) = Cardinality(S) - 1
  BY <1>3, <1>6, LatestIs, FS_RemoveElement
<1> QED BY <1>4, <1>5, <1>6

\* The replay is defined for every subset of the events, up to any size.
LEMMA ReplaysUpTo ==
  ASSUME NEW m, NEW es, NEW ids, Logged(es, ids)
  PROVE  \A k \in Nat : \E f : /\ f = [S \in SUBSET DOMAIN es |-> f[S]]
                               /\ \A S \in SUBSET DOMAIN es : Cardinality(S) <= k => Replays(m, es, f, S)
<1> DEFINE D == SUBSET DOMAIN es
           To(k, f) == f = [S \in D |-> f[S]] /\ \A S \in D : Cardinality(S) <= k => Replays(m, es, f, S)
           Bad == {k \in Nat : ~ \E f : To(k, f)}
<1> SUFFICES ASSUME Bad # {}
             PROVE  FALSE
  OBVIOUS
<1>1. PICK k \in Bad : \A l \in Bad : ~(l < k)
  <2>1. IsWellFoundedOn(OpToRel(<, Nat), Nat) /\ Bad \subseteq Nat
    BY NatLessThanWellFounded, Zenon
  <2>2. \E n \in Bad : \A l \in Bad : <<l, n>> \notin OpToRel(<, Nat)
    <3> HIDE DEF Bad
    <3> QED BY <2>1, WFMin, Zenon
  <2> QED BY <2>1, <2>2 DEF OpToRel
<1>2. k \in Nat /\ \A f : ~To(k, f)
  BY <1>1
<1>3. \A S \in D : Cardinality(S) \in Nat /\ (Cardinality(S) = 0 <=> S = {})
  BY Smaller
<1>4. CASE k = 0
  <2> DEFINE f == [S \in D |-> m]
  <2>1. f = [S \in D |-> f[S]]
    OBVIOUS
  <2>2. ASSUME NEW S \in D, Cardinality(S) <= 0
        PROVE  Replays(m, es, f, S)
    <3>1. S = {} /\ f[S] = m
      BY <1>3, <2>2
    <3> QED BY <3>1 DEF Replays
  <2> HIDE DEF f
  <2>3. To(k, f)
    BY <1>4, <2>1, <2>2
  <2> QED BY <1>2, <2>3
<1>5. CASE k # 0
  <2>1. k - 1 \in Nat /\ k - 1 \notin Bad
    <3> HIDE DEF Bad
    <3> QED BY <1>1, <1>2, <1>5
  <2>2. PICK g : To(k - 1, g)
    BY <2>1
  <2> DEFINE Step(S) == Catalog!applyEvent(g[S \ {Catalog!Latest(es, S)}], es[Catalog!Latest(es, S)])
             f == [S \in D |-> IF Cardinality(S) < k THEN g[S] ELSE Step(S)]
  <2>3. f = [S \in D |-> f[S]]
    OBVIOUS
  <2>4. \A S \in D : Cardinality(S) < k => f[S] = g[S]
    OBVIOUS
  <2>5. \A S \in D : ~(Cardinality(S) < k) => f[S] = Step(S)
    OBVIOUS
  <2> HIDE DEF f
  <2>6. ASSUME NEW S \in D, Cardinality(S) <= k
        PROVE  Replays(m, es, f, S)
    <3> DEFINE T == S \ {Catalog!Latest(es, S)}
    <3>1. CASE S = {}
      <4>1. Cardinality(S) = 0
        BY <1>3, <3>1
      <4>2. f[S] = g[S] /\ Cardinality(S) <= k - 1
        BY <1>2, <1>5, <2>4, <4>1
      <4>3. Replays(m, es, g, S)
        BY <2>2, <4>2
      <4> QED BY <3>1, <4>2, <4>3 DEF Replays
    <3>2. CASE S # {}
      <4>1. T \in D /\ Cardinality(T) = Cardinality(S) - 1 /\ Cardinality(S) \in Nat
        BY <3>2, Smaller
      <4>2. f[T] = g[T]
        BY <1>2, <2>4, <2>6, <4>1
      <4>3. f[S] = Step(S)
        <5>1. CASE Cardinality(S) < k
          <6>1. Cardinality(S) <= k - 1
            BY <1>2, <4>1, <5>1
          <6>2. Replays(m, es, g, S)
            BY <2>2, <6>1
          <6> QED BY <2>4, <3>2, <5>1, <6>2 DEF Replays
        <5>2. CASE ~(Cardinality(S) < k)
          BY <2>5, <5>2
        <5> QED BY <5>1, <5>2
      <4> QED BY <3>2, <4>2, <4>3 DEF Replays
    <3> QED BY <3>1, <3>2
  <2>7. To(k, f)
    BY <2>3, <2>6
  <2> QED BY <1>2, <2>7
<1> QED BY <1>4, <1>5

\* Every log can be replayed.
LEMMA HasReplay ==
  ASSUME NEW m, NEW es, NEW ids, Logged(es, ids)
  PROVE  \E f : /\ Catalog!replayLogs(m, es) = f[DOMAIN es]
                /\ \A S \in SUBSET DOMAIN es : Replays(m, es, f, S)
<1> DEFINE Fixed(f) == f = [S \in SUBSET DOMAIN es |->
                              IF S = {} THEN m
                              ELSE Catalog!applyEvent(f[S \ {Catalog!Latest(es, S)}], es[Catalog!Latest(es, S)])]
           replayed == CHOOSE f : Fixed(f)
<1>1. PICK n \in Nat : DOMAIN es = 1..n
  BY DEF Logged
<1>2. PICK f : /\ f = [S \in SUBSET DOMAIN es |-> f[S]]
               /\ \A S \in SUBSET DOMAIN es : Cardinality(S) <= n => Replays(m, es, f, S)
  BY <1>1, ReplaysUpTo
<1>3. ASSUME NEW S \in SUBSET DOMAIN es
      PROVE  Cardinality(S) <= n
  <2>1. IsFiniteSet(1..n) /\ Cardinality(1..n) = n
    BY <1>1, FS_Interval
  <2> QED BY <1>1, <2>1, FS_Subset
<1>4. \A S \in SUBSET DOMAIN es :
        f[S] = IF S = {} THEN m
               ELSE Catalog!applyEvent(f[S \ {Catalog!Latest(es, S)}], es[Catalog!Latest(es, S)])
  BY <1>2, <1>3 DEF Replays
<1>5. Fixed(f)
  BY <1>2, <1>4
<1>6. Fixed(replayed)
  <2> HIDE DEF Fixed
  <2> QED BY <1>5
<1>7. Catalog!replayLogs(m, es) = replayed[DOMAIN es]
  BY DEF Catalog!replayLogs
<1>8. \A S \in SUBSET DOMAIN es : Replays(m, es, replayed, S)
  <2> HIDE DEF replayed
  <2> QED BY <1>6 DEF Replays
<1> QED BY <1>7, <1>8

\* A replay from a sound state comes to a sound state.
LEMMA ReplayIsSound ==
  ASSUME CatalogStands, NEW m, NEW es, NEW ids, Logged(es, ids), Sound(m, ids)
  PROVE  Sound(Catalog!replayLogs(m, es), ids)
<1>1. PICK f : /\ Catalog!replayLogs(m, es) = f[DOMAIN es]
               /\ \A S \in SUBSET DOMAIN es : Replays(m, es, f, S)
  BY HasReplay
<1> DEFINE Bad == {k \in Nat : \E S \in SUBSET DOMAIN es : Cardinality(S) = k /\ ~Sound(f[S], ids)}
<1>2. Bad = {}
  <2> SUFFICES ASSUME Bad # {}
               PROVE  FALSE
    OBVIOUS
  <2>1. PICK k \in Bad : \A l \in Bad : ~(l < k)
    <3>1. IsWellFoundedOn(OpToRel(<, Nat), Nat) /\ Bad \subseteq Nat
      BY NatLessThanWellFounded, Zenon
    <3>2. \E n \in Bad : \A l \in Bad : <<l, n>> \notin OpToRel(<, Nat)
      <4> HIDE DEF Bad
      <4> QED BY <3>1, WFMin, Zenon
    <3> QED BY <3>1, <3>2 DEF OpToRel
  <2>2. PICK S \in SUBSET DOMAIN es : Cardinality(S) = k /\ ~Sound(f[S], ids)
    OBVIOUS
  <2>3. S # {}
    BY <1>1, <2>2 DEF Replays
  <2> DEFINE i == Catalog!Latest(es, S)
             T == S \ {i}
  <2>4. T \in SUBSET DOMAIN es /\ Cardinality(T) = k - 1 /\ Cardinality(T) \in Nat /\ k \in Nat
    BY <2>2, <2>3, Smaller
  <2>5. Sound(f[T], ids)
    <3>1. Cardinality(T) \notin Bad
      <4> HIDE DEF T, Bad
      <4> QED BY <2>1, <2>4
    <3> QED BY <2>4, <3>1
  <2>6. EventOK(es[i], ids)
    <3>1. i \in DOMAIN es
      BY <2>3, LatestIs
    <3> QED BY <3>1 DEF Logged
  <2>7. f[S] = Catalog!applyEvent(f[T], es[i])
    BY <1>1, <2>3 DEF Replays
  <2>8. Sound(Catalog!applyEvent(f[T], es[i]), ids)
    <3> HIDE DEF i, T
    <3> QED BY <2>5, <2>6, ApplyIs
  <2> QED BY <2>2, <2>7, <2>8
<1>3. Cardinality(DOMAIN es) \in Nat
  BY Smaller
<1>4. Sound(f[DOMAIN es], ids)
  BY <1>2, <1>3
<1> QED BY <1>1, <1>4
-----------------------------------------------------------------------------
(* The inductive invariant. *)

Types == {"project_opened", "project_removed", "chat_created", "chat_deleted", "chat_archived", "chat_unarchived",
          "turn_cancelled", "turn_finished", "chat_read_state_set", "queued_message_enqueued",
          "queued_message_removed", "pending_fork_session_token_set"}
Plain == [kind : {"event"}, type : Types, id : Nat, arg : Nat \cup BOOLEAN \cup {None}, at : Nat]
Stored == [kind : {"event"}, type : {"chat_transcript_metadata_set"}, id : Chats, has : {TRUE}, arg : Nat, at : Nat]
Message == [kind : {"message"}, id : Chats, prompt : BOOLEAN]
Copy == [kind : {"copy"}, id : Chats, source : Chats]
Look == [kind : {"look"}, id : Chats, at : Nat]
Saving == [kind : {"metadata"}, id : Chats]
Event == Plain \cup Stored
Write == Event \cup Message \cup Copy \cup Look \cup Saving

\* A pending write is of a chat that exists, or creates one; metadata are saved of a
\* chat with messages.
WriteOK(w, m, ids) ==
  /\ w.kind = "event" => EventOK(w, ids)
  /\ w.kind # "event" => m.chats[w.id] # None
  /\ w.kind = "metadata" => m.chats[w.id].has
Creates(w) == w.kind = "event" /\ w.type = "chat_created"

\* A chat whose creation is pending has nothing yet, and is created once.
Fresh(m, tr, c) == m.chats[c] = None /\ tr[c] = 0
ChainOK(ch, m, tr, ids) ==
  /\ ch \in Seq(Write)
  /\ \A i \in DOMAIN ch : WriteOK(ch[i], m, ids)
  /\ \A i \in DOMAIN ch : Creates(ch[i]) => Fresh(m, tr, ch[i].id)
  /\ \A i, j \in DOMAIN ch : Creates(ch[i]) /\ Creates(ch[j]) /\ ch[i].id = ch[j].id => i = j

EventsOK(es, ids) == es \in Seq(Event) /\ \A i \in DOMAIN es : EventOK(es[i], ids)

\* A transcript with entries is of a chat whose id is taken, and who knows of them.
HasOK(m, tr, ids) ==
  /\ tr \in [Chats -> Nat]
  /\ \A c \in Chats : tr[c] > 0 =>
       c \in ids /\ (m.chats[c] # None /\ ~m.chats[c].deleted => m.chats[c].has)

ForkOK(f, m) ==
  f = None \/ /\ f \in [source : Chats, id : Chats, step : {"created", "token"}]
              /\ f.step = "token" => m.chats[f.id] # None

CatalogInv ==
  /\ Sound(state, taken) /\ Sound(saved, taken)
  /\ EventsOK(events, taken) /\ ChainOK(chain, state, transcripts, taken)
  /\ HasOK(state, transcripts, taken) /\ ForkOK(fork, state)
  /\ clock \in Nat

-----------------------------------------------------------------------------
(* The chain. *)

\* ch becomes n: d writes leave it at its head, w is at k.
Moves(ch, n, d, k, w) ==
  /\ n \in Seq(Write)
  /\ \A i \in DOMAIN n : IF i = k THEN n[i] = w ELSE i + d \in DOMAIN ch /\ n[i] = ch[i + d]

\* What is known of a chat stays known.
Remembers(m, p) ==
  \A c \in Chats : m.chats[c] # None => p.chats[c] # None /\ (m.chats[c].has => p.chats[c].has)

LEMMA WriteIs ==
  ASSUME NEW w \in Write
  PROVE  /\ w.kind = "event" => w \in Event
         /\ w.kind = "message" => w \in Message
         /\ w.kind = "copy" => w \in Copy
         /\ w.kind = "look" => w \in Look
         /\ w.kind = "metadata" => w \in Saving
         /\ w.kind # "event" => w.id \in Chats
BY DEF Write, Event, Plain, Stored, Message, Copy, Look, Saving

LEMMA ChainMoves ==
  ASSUME NEW ch, NEW n, NEW d \in Nat, NEW k \in Nat, NEW w, NEW m, NEW p, NEW tr, NEW ts, NEW ids, NEW more,
         ChainOK(ch, m, tr, ids), Moves(ch, n, d, k, w), Remembers(m, p), ids \subseteq more,
         k # 0 => WriteOK(w, p, more) /\ (Creates(w) => Fresh(p, ts, w.id) /\ w.id \notin ids),
         \A i \in DOMAIN ch : i > d /\ Creates(ch[i]) => Fresh(p, ts, ch[i].id)
  PROVE  ChainOK(n, p, ts, more)
<1>1. \A i \in DOMAIN ch : i \in Nat \ {0} /\ ch[i] \in Write
  BY DEF ChainOK
<1>2. \A i \in DOMAIN n : i \in Nat \ {0}
  BY DEF Moves
<1>3. ASSUME NEW i \in DOMAIN n
      PROVE  WriteOK(n[i], p, more) /\ (Creates(n[i]) => Fresh(p, ts, n[i].id))
  <2>1. CASE i = k
    <3>1. k # 0 /\ n[i] = w
      BY <1>2, <2>1 DEF Moves
    <3> QED BY <3>1
  <2>2. CASE i # k
    <3>1. i + d \in DOMAIN ch /\ n[i] = ch[i + d] /\ i + d > d
      BY <1>2, <2>2 DEF Moves
    <3> DEFINE x == ch[i + d]
    <3>2. x \in Write /\ WriteOK(x, m, ids)
      BY <1>1, <3>1 DEF ChainOK
    <3>3. x.kind # "event" => x.id \in Chats
      BY <3>2, WriteIs
    <3> HIDE DEF x
    <3>4. WriteOK(x, p, more)
      BY <3>2, <3>3 DEF WriteOK, EventOK, Remembers
    <3> USE DEF x
    <3>5. Creates(x) => Fresh(p, ts, x.id)
      BY <3>1
    <3> QED BY <3>1, <3>4, <3>5
  <2> QED BY <2>1, <2>2
<1>4. ASSUME NEW i \in DOMAIN ch, Creates(ch[i])
      PROVE  ch[i].id \in ids
  BY <1>4 DEF ChainOK, WriteOK, EventOK, Creates
<1>5. ASSUME NEW i \in DOMAIN n, NEW j \in DOMAIN n, Creates(n[i]), Creates(n[j]), n[i].id = n[j].id
      PROVE  i = j
  <2>1. CASE i # k /\ j # k
    <3>1. i + d \in DOMAIN ch /\ n[i] = ch[i + d] /\ j + d \in DOMAIN ch /\ n[j] = ch[j + d]
      BY <2>1 DEF Moves
    <3>2. i + d = j + d
      BY <1>5, <3>1 DEF ChainOK
    <3> QED BY <1>2, <3>2
  <2>2. CASE i = k /\ j # k
    <3>1. k # 0 /\ n[i] = w /\ j + d \in DOMAIN ch /\ n[j] = ch[j + d]
      BY <1>2, <2>2 DEF Moves
    <3> QED BY <1>4, <1>5, <3>1
  <2>3. CASE i # k /\ j = k
    <3>1. k # 0 /\ n[j] = w /\ i + d \in DOMAIN ch /\ n[i] = ch[i + d]
      BY <1>2, <2>3 DEF Moves
    <3> QED BY <1>4, <1>5, <3>1
  <2> QED BY <2>1, <2>2, <2>3
<1> QED BY <1>3, <1>5 DEF ChainOK, Moves

LEMMA AppendMoves ==
  ASSUME NEW ch \in Seq(Write), NEW w \in Write
  PROVE  /\ Moves(ch, Append(ch, w), 0, Len(ch) + 1, w) /\ Len(ch) + 1 \in Nat /\ Len(ch) + 1 # 0
         /\ ch # <<>> => /\ Moves(ch, Tail(ch), 1, 0, w)
                         /\ Moves(ch, Append(Tail(ch), w), 1, Len(ch), w) /\ Len(ch) \in Nat
                         /\ Moves(ch, <<w>> \o Tail(ch), 0, 1, w)
<1>1. Append(ch, w) \in Seq(Write) /\ Len(ch) \in Nat /\ DOMAIN ch = 1..Len(ch)
  OBVIOUS
<1>2. \A i \in DOMAIN Append(ch, w) : IF i = Len(ch) + 1 THEN Append(ch, w)[i] = w
                                       ELSE i + 0 \in DOMAIN ch /\ Append(ch, w)[i] = ch[i + 0]
  OBVIOUS
<1>3. ASSUME ch # <<>>
      PROVE  /\ Tail(ch) \in Seq(Write) /\ Len(Tail(ch)) = Len(ch) - 1 /\ Len(ch) # 0
             /\ \A i \in 1..Len(ch) - 1 : Tail(ch)[i] = ch[i + 1]
  BY <1>3
<1>4. ASSUME ch # <<>>
      PROVE  Moves(ch, Tail(ch), 1, 0, w)
  BY <1>1, <1>3, <1>4 DEF Moves
<1>5. ASSUME ch # <<>>
      PROVE  Moves(ch, Append(Tail(ch), w), 1, Len(ch), w)
  <2> DEFINE t == Tail(ch)
  <2>1. t \in Seq(Write) /\ Len(t) = Len(ch) - 1 /\ \A i \in 1..Len(ch) - 1 : t[i] = ch[i + 1]
    BY <1>3, <1>5
  <2> HIDE DEF t
  <2> DEFINE n == Append(t, w)
  <2>2. n \in Seq(Write) /\ Len(n) = Len(t) + 1 /\ n[Len(t) + 1] = w /\ \A i \in 1..Len(t) : n[i] = t[i]
    BY <2>1, AppendProperties
  <2> HIDE DEF n
  <2>3. DOMAIN n = 1..Len(ch)
    BY <1>1, <2>1, <2>2
  <2>4. \A i \in 1..Len(ch) : IF i = Len(ch) THEN n[i] = w ELSE i + 1 \in DOMAIN ch /\ n[i] = ch[i + 1]
    <3> SUFFICES ASSUME NEW i \in 1..Len(ch)
                 PROVE  IF i = Len(ch) THEN n[i] = w ELSE i + 1 \in DOMAIN ch /\ n[i] = ch[i + 1]
      OBVIOUS
    <3>1. CASE i = Len(ch)
      BY <1>1, <2>1, <2>2, <3>1
    <3>2. CASE i # Len(ch)
      <4>1. i \in 1..Len(ch) - 1 /\ i + 1 \in 1..Len(ch)
        <5> PICK l \in Nat : l = Len(ch)
          BY <1>1
        <5> QED BY <3>2
      <4>2. t[i] = ch[i + 1]
        BY <2>1, <4>1
      <4>3. i \in 1..Len(t)
        BY <2>1, <4>1
      <4>4. n[i] = t[i]
        BY <2>2, <4>3
      <4>5. i + 1 \in DOMAIN ch
        BY <1>1, <4>1
      <4> QED BY <3>2, <4>2, <4>4, <4>5
    <3> QED BY <3>1, <3>2
  <2> QED BY <2>2, <2>3, <2>4 DEF Moves, t, n
<1>6. ASSUME ch # <<>>
      PROVE  Moves(ch, <<w>> \o Tail(ch), 0, 1, w)
  <2> DEFINE t == Tail(ch)
  <2>1. t \in Seq(Write) /\ Len(t) = Len(ch) - 1 /\ \A i \in 1..Len(ch) - 1 : t[i] = ch[i + 1]
    BY <1>3, <1>6
  <2> HIDE DEF t
  <2> DEFINE o == <<w>>
             n == o \o t
  <2>2. o \in Seq(Write) /\ Len(o) = 1 /\ o[1] = w
    OBVIOUS
  <2> HIDE DEF o
  <2>3. /\ n \in Seq(Write) /\ Len(n) = Len(o) + Len(t)
        /\ \A i \in 1..Len(o) + Len(t) : n[i] = IF i <= Len(o) THEN o[i] ELSE t[i - Len(o)]
    BY <2>1, <2>2, ConcatProperties
  <2> HIDE DEF n
  <2>4. DOMAIN n = 1..Len(ch)
    BY <1>1, <2>1, <2>2, <2>3
  <2>5. \A i \in 1..Len(ch) : IF i = 1 THEN n[i] = w ELSE i + 0 \in DOMAIN ch /\ n[i] = ch[i + 0]
    <3> SUFFICES ASSUME NEW i \in 1..Len(ch)
                 PROVE  IF i = 1 THEN n[i] = w ELSE i + 0 \in DOMAIN ch /\ n[i] = ch[i + 0]
      OBVIOUS
    <3>1. n[i] = IF i <= 1 THEN o[i] ELSE t[i - 1]
      BY <1>1, <2>1, <2>2, <2>3
    <3>2. i # 1 => i - 1 \in 1..Len(ch) - 1 /\ i - 1 + 1 = i
      BY <1>1
    <3> QED BY <1>1, <2>1, <2>2, <3>1, <3>2
  <2> QED BY <2>3, <2>4, <2>5 DEF Moves, t, n, o
<1> QED BY <1>1, <1>2, <1>4, <1>5, <1>6 DEF Moves
LEMMA StayMoves == ASSUME NEW ch \in Seq(Write), NEW w PROVE Moves(ch, ch, 0, 0, w)
BY DEF Moves

LEMMA HeadIs ==
  ASSUME NEW ch, NEW m, NEW tr, NEW ids, ChainOK(ch, m, tr, ids), ch # <<>>
  PROVE  ch \in Seq(Write) /\ 1 \in DOMAIN ch /\ Head(ch) = ch[1] /\ Head(ch) \in Write /\ WriteOK(Head(ch), m, ids)
<1>1. ch \in Seq(Write)
  BY DEF ChainOK
<1>2. 1 \in DOMAIN ch /\ Head(ch) = ch[1] /\ Head(ch) \in Write
  BY <1>1
<1> QED BY <1>1, <1>2 DEF ChainOK

-----------------------------------------------------------------------------
(* The operations. *)

LEMMA LeastIs ==
  ASSUME NEW S, S \subseteq Nat, S # {}
  PROVE  Catalog!Least(S) \in S
<1>1. IsWellFoundedOn(OpToRel(<, Nat), Nat)
  BY NatLessThanWellFounded, Zenon
<1>2. \E x \in S : \A y \in S : <<y, x>> \notin OpToRel(<, Nat)
  BY <1>1, WFMin, Zenon
<1>3. PICK x \in S : \A y \in S : ~(y < x)
  BY <1>2 DEF OpToRel
<1>4. \A y \in S : x <= y
  BY <1>3
<1> QED BY <1>4 DEF Catalog!Least

LEMMA MoreIds ==
  ASSUME NEW ids, NEW more, ids \subseteq more
  PROVE  /\ \A m : Sound(m, ids) => Sound(m, more)
         /\ \A es : EventsOK(es, ids) => EventsOK(es, more)
         /\ \A m, tr : HasOK(m, tr, ids) => HasOK(m, tr, more)
BY DEF Sound, EventsOK, EventOK, HasOK

\* A call that puts a write on the chain.
LEMMA Puts ==
  ASSUME CatalogInv, NEW w \in Write, chain' = Append(chain, w), taken \subseteq taken',
         state' = state, transcripts' = transcripts, events' = events, saved' = saved, clock' = clock,
         WriteOK(w, state, taken'), Creates(w) => w.id \in Chats \ taken, ForkOK(fork', state)
  PROVE  CatalogInv'
<1>1. Moves(chain, chain', 0, Len(chain) + 1, w) /\ Len(chain) + 1 \in Nat
  BY AppendMoves DEF CatalogInv, ChainOK
<1>2. Remembers(state, state)
  BY DEF Remembers
<1>3. Creates(w) => Fresh(state, transcripts, w.id) /\ w.id \notin taken
  BY DEF CatalogInv, Sound, HasOK, Fresh
<1>4. \A i \in DOMAIN chain : Creates(chain[i]) => Fresh(state, transcripts, chain[i].id)
  BY DEF CatalogInv, ChainOK
<1>5. ChainOK(chain, state, transcripts, taken)
  BY DEF CatalogInv
<1>6. ChainOK(chain', state, transcripts, taken')
  BY <1>1, <1>2, <1>3, <1>4, <1>5, ChainMoves
<1>7. /\ Sound(state, taken') /\ Sound(saved, taken') /\ EventsOK(events, taken')
      /\ HasOK(state, transcripts, taken')
  BY MoreIds DEF CatalogInv
<1> QED BY <1>6, <1>7 DEF CatalogInv

\* A call that puts an event on the chain.
LEMMA Calls ==
  ASSUME CatalogInv, NEW type \in Types, NEW id \in Nat, NEW arg \in Nat \cup BOOLEAN \cup {None},
         chain' = Append(chain, Catalog!Event(type, id, arg)), taken \subseteq taken',
         state' = state, transcripts' = transcripts, events' = events, saved' = saved, clock' = clock,
         type \notin Catalog!ProjectEvents => id \in Chats,
         type = "chat_created" => arg \in Projects /\ id \in Chats \ taken /\ id \in taken',
         type = "chat_read_state_set" => arg \in BOOLEAN,
         type # "chat_transcript_metadata_set", ForkOK(fork', state)
  PROVE  CatalogInv'
<1> DEFINE w == Catalog!Event(type, id, arg)
<1>1. w \in Plain /\ w.kind = "event" /\ w.type = type /\ w.id = id /\ w.arg = arg /\ w.at = clock
  BY DEF Catalog!Event, Plain, CatalogInv
<1> HIDE DEF w
<1>2. w \in Write
  BY <1>1 DEF Write, Event
<1>3. EventOK(w, taken')
  BY <1>1 DEF EventOK, CatalogInv
<1>4. WriteOK(w, state, taken')
  BY <1>1, <1>3 DEF WriteOK
<1>5. Creates(w) => w.id \in Chats \ taken
  BY <1>1 DEF Creates
<1>6. chain' = Append(chain, w)
  BY DEF w
<1> QED BY <1>2, <1>4, <1>5, <1>6, Puts

LEMMA IdsAreNumbers == ASSUME CatalogStands PROVE Chats \subseteq Nat /\ Projects \subseteq Nat
BY DEF CatalogStands, Catalog!CatalogAssumption

LEMMA ProjectStep ==
  ASSUME CatalogStands, CatalogInv,
         Catalog!openProject \/ \E p \in Projects : Catalog!removeProject(p) \/ Catalog!createChat(p)
  PROVE  CatalogInv'
<1>1. CASE Catalog!openProject
  <2> DEFINE hidden == {p \in Projects : state.projects[p] # None /\ state.projects[p].deleted}
             ids == IF hidden # {} THEN hidden ELSE Catalog!FreshProjects
             id == Catalog!Least(ids)
  <2>1. ids # {} /\ Catalog!Create(Catalog!Event("project_opened", id, None))
    BY <1>1 DEF Catalog!openProject
  <2>2. ids \subseteq Nat
    BY IdsAreNumbers DEF Catalog!FreshProjects
  <2>3. id \in Nat
    <3> HIDE DEF ids
    <3> QED BY <2>1, <2>2, LeastIs
  <2> HIDE DEF id
  <2>4. /\ chain' = Append(chain, Catalog!Event("project_opened", id, None)) /\ taken \subseteq taken'
        /\ state' = state /\ transcripts' = transcripts /\ events' = events /\ saved' = saved
        /\ clock' = clock /\ fork' = fork
    BY <2>1 DEF Catalog!Create, Catalog!append, Catalog!Only, Catalog!files
  <2>5. ForkOK(fork', state)
    BY <2>4 DEF CatalogInv
  <2>6. PICK type \in Types : type = "project_opened"
    BY DEF Types
  <2>7. /\ type \in Catalog!ProjectEvents /\ type # "chat_created" /\ type # "chat_read_state_set"
        /\ type # "chat_transcript_metadata_set" /\ chain' = Append(chain, Catalog!Event(type, id, None))
    BY <2>4, <2>6 DEF Catalog!ProjectEvents
  <2> QED BY <2>3, <2>4, <2>5, <2>7, Calls
<1>2. ASSUME NEW p \in Projects, Catalog!removeProject(p)
      PROVE  CatalogInv'
  <2>1. /\ chain' = Append(chain, Catalog!Event("project_removed", p, None)) /\ taken' = taken
        /\ state' = state /\ transcripts' = transcripts /\ events' = events /\ saved' = saved
        /\ clock' = clock /\ fork' = fork
    BY <1>2 DEF Catalog!removeProject, Catalog!Call, Catalog!append, Catalog!Only, Catalog!files
  <2>2. ForkOK(fork', state) /\ p \in Nat
    BY <2>1, IdsAreNumbers DEF CatalogInv
  <2>3. PICK type \in Types : type = "project_removed"
    BY DEF Types
  <2>4. /\ type \in Catalog!ProjectEvents /\ type # "chat_created" /\ type # "chat_read_state_set"
        /\ type # "chat_transcript_metadata_set" /\ chain' = Append(chain, Catalog!Event(type, p, None))
    BY <2>1, <2>3 DEF Catalog!ProjectEvents
  <2> QED BY <2>1, <2>2, <2>4, Calls
<1>3. ASSUME NEW p \in Projects, Catalog!createChat(p)
      PROVE  CatalogInv'
  <2> DEFINE id == Catalog!Least(Catalog!FreshChats)
  <2>1. id \in Chats \ taken /\ id \in Nat /\ p \in Nat
    BY <1>3, LeastIs, IdsAreNumbers DEF Catalog!createChat, Catalog!FreshChats
  <2>2. Catalog!Event("chat_created", id, p).id = id
    BY DEF Catalog!Event
  <2>3. Catalog!Create(Catalog!Event("chat_created", id, p))
    BY <1>3 DEF Catalog!createChat
  <2> HIDE DEF id
  <2>4. /\ chain' = Append(chain, Catalog!Event("chat_created", id, p)) /\ taken' = taken \cup {id}
        /\ state' = state /\ transcripts' = transcripts /\ events' = events /\ saved' = saved
        /\ clock' = clock /\ fork' = fork
    BY <2>2, <2>3 DEF Catalog!Create, Catalog!append, Catalog!Only, Catalog!files
  <2>5. ForkOK(fork', state) /\ taken \subseteq taken' /\ id \in taken'
    BY <2>4 DEF CatalogInv
  <2>6. PICK type \in Types : type = "chat_created"
    BY DEF Types
  <2>7. /\ type = "chat_created" /\ type # "chat_read_state_set"
        /\ type # "chat_transcript_metadata_set" /\ chain' = Append(chain, Catalog!Event(type, id, p))
    BY <2>4, <2>6
  <2> QED BY <2>1, <2>4, <2>5, <2>7, Calls
<1> QED BY <1>1, <1>2, <1>3

LEMMA CallStep ==
  ASSUME CatalogStands, CatalogInv, NEW c \in Chats, NEW type \in Types, NEW arg \in BOOLEAN \cup {None},
         Catalog!Call(Catalog!Event(type, c, arg)), type # "chat_created", type # "chat_transcript_metadata_set",
         type = "chat_read_state_set" => arg \in BOOLEAN
  PROVE  CatalogInv'
<1>1. /\ chain' = Append(chain, Catalog!Event(type, c, arg)) /\ taken' = taken
      /\ state' = state /\ transcripts' = transcripts /\ events' = events /\ saved' = saved
      /\ clock' = clock /\ fork' = fork
  BY DEF Catalog!Call, Catalog!append, Catalog!Only, Catalog!files
<1>2. ForkOK(fork', state) /\ c \in Nat /\ arg \in Nat \cup BOOLEAN \cup {None}
  BY <1>1, IdsAreNumbers DEF CatalogInv
<1> QED BY <1>1, <1>2, Calls

LEMMA ChatStep ==
  ASSUME CatalogStands, CatalogInv, NEW c \in Chats,
         \/ Catalog!ChatCall(c) \/ Catalog!recordTurn(c) \/ Catalog!setChatReadState(c)
         \/ Catalog!enqueueMessage(c) \/ Catalog!removeQueuedMessage(c)
  PROVE  CatalogInv'
<1> DEFINE Named(type, arg) ==
             /\ Catalog!Call(Catalog!Event(type, c, arg))
             /\ type # "chat_created" /\ type # "chat_transcript_metadata_set"
             /\ type = "chat_read_state_set" => arg \in BOOLEAN
<1> SUFFICES \E type \in Types, arg \in BOOLEAN \cup {None} : Named(type, arg)
  BY CallStep
<1>1. CASE Catalog!ChatCall(c)
  <2>1. PICK type \in {"chat_deleted", "chat_archived", "chat_unarchived"} : Catalog!Call(Catalog!Event(type, c, None))
    BY <1>1 DEF Catalog!ChatCall
  <2>2. type \in Types /\ Named(type, None)
    BY <2>1 DEF Types
  <2> QED BY <2>2
<1>2. CASE Catalog!recordTurn(c)
  <2>1. PICK type \in {"turn_cancelled", "turn_finished"} : Catalog!Call(Catalog!Event(type, c, None))
    BY <1>2 DEF Catalog!recordTurn
  <2>2. type \in Types /\ Named(type, None)
    BY <2>1 DEF Types
  <2> QED BY <2>2
<1>3. CASE Catalog!setChatReadState(c)
  <2>1. Catalog!Call(Catalog!Event("chat_read_state_set", c, FALSE))
    BY <1>3 DEF Catalog!setChatReadState
  <2>2. "chat_read_state_set" \in Types /\ Named("chat_read_state_set", FALSE)
    BY <2>1 DEF Types
  <2> QED BY <2>2
<1>4. CASE Catalog!enqueueMessage(c)
  <2>1. Catalog!Call(Catalog!Event("queued_message_enqueued", c, None))
    BY <1>4 DEF Catalog!enqueueMessage
  <2>2. "queued_message_enqueued" \in Types /\ Named("queued_message_enqueued", None)
    BY <2>1 DEF Types
  <2> QED BY <2>2
<1>5. CASE Catalog!removeQueuedMessage(c)
  <2>1. Catalog!Call(Catalog!Event("queued_message_removed", c, None))
    BY <1>5 DEF Catalog!removeQueuedMessage
  <2>2. "queued_message_removed" \in Types /\ Named("queued_message_removed", None)
    BY <2>1 DEF Types
  <2> QED BY <2>2
<1> QED BY <1>1, <1>2, <1>3, <1>4, <1>5

LEMMA MessageStep ==
  ASSUME CatalogStands, CatalogInv, NEW c \in Chats, Catalog!appendMessage(c) \/ Catalog!PruneLooks(c)
  PROVE  CatalogInv'
<1>1. ASSUME NEW w \in Message \cup Look, w.id = c, state.chats[c] # None, chain' = Append(chain, w), taken' = taken,
             state' = state, transcripts' = transcripts, events' = events, saved' = saved, clock' = clock,
             fork' = fork
      PROVE  CatalogInv'
  <2>1. w \in Write /\ w.kind # "event" /\ w.kind # "metadata"
    BY <1>1 DEF Write, Message, Look
  <2>2. WriteOK(w, state, taken')
    BY <1>1, <2>1 DEF WriteOK
  <2>3. ~Creates(w)
    BY <2>1 DEF Creates
  <2>4. ForkOK(fork', state)
    BY <1>1 DEF CatalogInv
  <2> QED BY <1>1, <2>1, <2>2, <2>3, <2>4, Puts
<1>2. CASE Catalog!appendMessage(c)
  <2>1. PICK prompt \in BOOLEAN : Catalog!Call([kind |-> "message", id |-> c, prompt |-> prompt])
    BY <1>2 DEF Catalog!appendMessage
  <2> DEFINE w == [kind |-> "message", id |-> c, prompt |-> prompt]
  <2>2. w \in Message /\ w.id = c
    BY DEF Message
  <2>3. state.chats[c] # None
    BY <1>2 DEF Catalog!appendMessage, Catalog!getChat
  <2>4. Catalog!Call(w)
    BY <2>1
  <2> HIDE DEF w
  <2>5. /\ chain' = Append(chain, w) /\ taken' = taken
        /\ state' = state /\ transcripts' = transcripts /\ events' = events /\ saved' = saved
        /\ clock' = clock /\ fork' = fork
    BY <2>4 DEF Catalog!Call, Catalog!append, Catalog!Only, Catalog!files
  <2> QED BY <1>1, <2>2, <2>3, <2>5
<1>3. CASE Catalog!PruneLooks(c)
  <2> DEFINE w == [kind |-> "look", id |-> c, at |-> clock]
  <2>1. w \in Look /\ w.id = c
    BY DEF Look, CatalogInv
  <2>2. state.chats[c] # None
    BY <1>3 DEF Catalog!PruneLooks, Catalog!Stale, Catalog!getChat
  <2>3. /\ chain' = Append(chain, w) /\ taken' = taken
        /\ state' = state /\ transcripts' = transcripts /\ events' = events /\ saved' = saved
        /\ clock' = clock /\ fork' = fork
    BY <1>3 DEF Catalog!PruneLooks, Catalog!append, Catalog!files
  <2> HIDE DEF w
  <2> QED BY <1>1, <2>1, <2>2, <2>3
<1> QED BY <1>2, <1>3

LEMMA ForkStep ==
  ASSUME CatalogStands, CatalogInv, NEW c \in Chats, Catalog!forkChat(c)
  PROVE  CatalogInv'
<1> DEFINE id == Catalog!Least(Catalog!FreshChats)
           p == state.chats[c].project
<1>1. id \in Chats \ taken /\ id \in Nat
  BY LeastIs, IdsAreNumbers DEF Catalog!forkChat, Catalog!FreshChats
<1>2. p \in Projects /\ p \in Nat
  <2>1. state.chats[c] \in Catalog!ChatRecord
    BY DEF Catalog!forkChat, Catalog!getChat, CatalogInv, Sound
  <2> QED BY <2>1, IdsAreNumbers DEF Catalog!ChatRecord
<1>3. /\ chain' = Append(chain, Catalog!Event("chat_created", id, p)) /\ taken' = taken \cup {id}
      /\ state' = state /\ transcripts' = transcripts /\ events' = events /\ saved' = saved
      /\ clock' = clock /\ fork' = [source |-> c, id |-> id, step |-> "created"]
  BY DEF Catalog!forkChat, Catalog!append, Catalog!files
<1> HIDE DEF id, p
<1>4. ForkOK(fork', state) /\ taken \subseteq taken' /\ id \in taken'
  BY <1>1, <1>3 DEF ForkOK
<1>5. PICK type \in Types : type = "chat_created"
  BY DEF Types
<1>6. /\ type # "chat_read_state_set" /\ type # "chat_transcript_metadata_set"
      /\ chain' = Append(chain, Catalog!Event(type, id, p))
  BY <1>3, <1>5
<1> QED BY <1>1, <1>2, <1>3, <1>4, <1>6, Calls

LEMMA ForkGoesOn ==
  ASSUME CatalogStands, CatalogInv, Catalog!ForkToken \/ Catalog!ForkCopy
  PROVE  CatalogInv'
<1>1. /\ fork \in [source : Chats, id : Chats, step : {"created", "token"}]
      /\ fork.step = "token" => state.chats[fork.id] # None
  BY DEF Catalog!ForkToken, Catalog!ForkCopy, Catalog!ForkAt, CatalogInv, ForkOK
<1>2. /\ taken' = taken /\ state' = state /\ transcripts' = transcripts /\ events' = events /\ saved' = saved
      /\ clock' = clock
  BY DEF Catalog!ForkToken, Catalog!ForkCopy, Catalog!ForkKeeps, Catalog!files
<1>3. CASE chain' = chain /\ fork' = None
  BY <1>2, <1>3 DEF CatalogInv, ForkOK
<1>4. CASE Catalog!ForkToken /\ Catalog!getChat(fork.id)
  <2>1. /\ chain' = Append(chain, Catalog!Event("pending_fork_session_token_set", fork.id, None))
        /\ fork' = [fork EXCEPT !.step = "token"] /\ state.chats[fork.id] # None
    BY <1>4 DEF Catalog!ForkToken, Catalog!append
  <2>2. fork' \in [source : Chats, id : Chats, step : {"created", "token"}] /\ fork'.id = fork.id
    BY <1>1, <2>1
  <2>3. ForkOK(fork', state) /\ fork.id \in Nat /\ fork.id \in Chats
    BY <1>1, <2>1, <2>2, IdsAreNumbers DEF ForkOK
  <2>4. PICK type \in Types : type = "pending_fork_session_token_set"
    BY DEF Types
  <2>5. /\ type # "chat_created" /\ type # "chat_read_state_set" /\ type # "chat_transcript_metadata_set"
        /\ chain' = Append(chain, Catalog!Event(type, fork.id, None))
    BY <2>1, <2>4
  <2> QED BY <1>2, <2>1, <2>3, <2>5, Calls
<1>5. CASE Catalog!ForkCopy /\ chain' # chain
  <2> DEFINE w == [kind |-> "copy", id |-> fork.id, source |-> fork.source]
  <2>1. chain' = Append(chain, w) /\ fork' = None /\ state.chats[fork.id] # None
    BY <1>1, <1>5 DEF Catalog!ForkCopy, Catalog!ForkAt, Catalog!append
  <2>2. w \in Copy /\ w.id = fork.id
    BY <1>1 DEF Copy
  <2> HIDE DEF w
  <2>3. w \in Write /\ w.kind # "event" /\ w.kind # "metadata"
    BY <2>2 DEF Write, Copy
  <2>4. WriteOK(w, state, taken') /\ ForkOK(fork', state) /\ taken \subseteq taken'
    BY <1>2, <2>1, <2>2, <2>3 DEF WriteOK, ForkOK
  <2>5. Creates(w) => w.id \in Chats \ taken
    BY <2>3 DEF Creates
  <2>6. w \in Write /\ chain' = Append(chain, w)
    BY <2>1, <2>3
  <2>7. PICK x : x = w
    OBVIOUS
  <2>8. /\ x \in Write /\ chain' = Append(chain, x) /\ WriteOK(x, state, taken')
        /\ Creates(x) => x.id \in Chats \ taken
    BY <2>4, <2>5, <2>6, <2>7
  <2> QED BY <1>2, <2>4, <2>8, Puts
<1>6. ASSUME Catalog!ForkToken, ~Catalog!getChat(fork.id)
      PROVE  chain' = chain /\ fork' = None
  BY <1>6 DEF Catalog!ForkToken
<1>7. ASSUME Catalog!ForkCopy, chain' = chain
      PROVE  fork' = None
  BY <1>7 DEF Catalog!ForkCopy
<1> QED BY <1>3, <1>4, <1>5, <1>6, <1>7
-----------------------------------------------------------------------------
(* The writes. *)

LEMMA EventsGrow ==
  ASSUME NEW es, NEW ids, EventsOK(es, ids), NEW e \in Event, EventOK(e, ids)
  PROVE  EventsOK(Append(es, e), ids)
<1>1. es \in Seq(Event) /\ \A i \in DOMAIN es : EventOK(es[i], ids)
  BY DEF EventsOK
<1>2. /\ Append(es, e) \in Seq(Event) /\ DOMAIN Append(es, e) = 1..Len(es) + 1 /\ DOMAIN es = 1..Len(es)
      /\ Append(es, e)[Len(es) + 1] = e /\ \A i \in 1..Len(es) : Append(es, e)[i] = es[i]
      /\ Len(es) \in Nat
  BY <1>1
<1>3. \A i \in 1..Len(es) + 1 : i \in 1..Len(es) \/ i = Len(es) + 1
  BY <1>2
<1> QED BY <1>1, <1>2, <1>3 DEF EventsOK

\* Whatever is remembered of the chats keeps a fork.
LEMMA ForkStays ==
  ASSUME NEW m, NEW p, NEW f, ForkOK(f, m), Remembers(m, p)
  PROVE  ForkOK(f, p)
BY DEF ForkOK, Remembers

\* An event at the head of the chain, or one that its write makes, is applied and logged.
LEMMA EventRuns ==
  ASSUME CatalogStands, CatalogInv, chain # <<>>, NEW e \in Event, EventOK(e, taken),
         e.type = "chat_created" => e = Head(chain),
         state' = Catalog!applyEvent(state, e), events' = Append(events, e), chain' = Tail(chain),
         transcripts' = transcripts, saved' = saved, fork' = fork, clock' = clock, taken' = taken
  PROVE  CatalogInv'
<1> DEFINE new(c) == e.type = "chat_created" /\ c = e.id
<1>0. Sound(state, taken) /\ ChainOK(chain, state, transcripts, taken) /\ HasOK(state, transcripts, taken)
  BY DEF CatalogInv
<1>1. /\ Sound(state', taken)
      /\ \A c \in Chats : IF new(c) THEN state'.chats[c] = Catalog!NewChat(e) ELSE Follows(state.chats[c], state'.chats[c])
  BY <1>0, ApplyIs
<1>2. e.kind = "event"
  BY DEF Event, Plain, Stored
<1>3. ASSUME NEW c \in Chats, new(c)
      PROVE  Fresh(state, transcripts, c) /\ \A i \in DOMAIN chain : i > 1 /\ Creates(chain[i]) => chain[i].id # c
  <2>1. 1 \in DOMAIN chain /\ chain[1] = e /\ \A i \in DOMAIN chain : i \in Nat
    BY <1>0, <1>3, HeadIs DEF ChainOK
  <2>2. Creates(chain[1]) /\ chain[1].id = c
    BY <1>2, <1>3, <2>1 DEF Creates
  <2> QED BY <1>0, <2>1, <2>2 DEF ChainOK
<1>4. Remembers(state, state')
  BY <1>1, <1>3 DEF Remembers, Follows, Fresh
<1>5. \A i \in DOMAIN chain : i > 1 /\ Creates(chain[i]) => Fresh(state', transcripts, chain[i].id)
  <2> SUFFICES ASSUME NEW i \in DOMAIN chain, i > 1, Creates(chain[i])
               PROVE  Fresh(state', transcripts, chain[i].id)
    OBVIOUS
  <2>1. chain[i].id \in Chats /\ Fresh(state, transcripts, chain[i].id)
    BY <1>0 DEF ChainOK, Creates, WriteOK, EventOK, Catalog!ProjectEvents
  <2>2. ~new(chain[i].id)
    BY <1>3, <2>1
  <2> QED BY <1>1, <2>1, <2>2 DEF Fresh, Follows
<1>6. Moves(chain, chain', 1, 0, e)
  <2>1. e \in Write /\ chain \in Seq(Write)
    BY <1>0 DEF Write, ChainOK
  <2> QED BY <2>1, AppendMoves
<1>7. ChainOK(chain', state', transcripts, taken)
  BY <1>0, <1>4, <1>5, <1>6, ChainMoves
<1>8. HasOK(state', transcripts, taken)
  <2> SUFFICES ASSUME NEW c \in Chats, transcripts[c] > 0
               PROVE  c \in taken /\ (state'.chats[c] # None /\ ~state'.chats[c].deleted => state'.chats[c].has)
    BY <1>0 DEF HasOK
  <2>1. c \in taken /\ (state.chats[c] # None /\ ~state.chats[c].deleted => state.chats[c].has)
    BY <1>0 DEF HasOK
  <2>2. ~new(c)
    BY <1>3 DEF Fresh
  <2> QED BY <1>1, <2>1, <2>2 DEF Follows
<1>9. EventsOK(events', taken)
  BY EventsGrow DEF CatalogInv
<1>10. ForkOK(fork', state')
  BY <1>4, ForkStays DEF CatalogInv
<1> QED BY <1>1, <1>7, <1>8, <1>9, <1>10 DEF CatalogInv

LEMMA RunEventStep ==
  ASSUME CatalogStands, CatalogInv, Catalog!RunEvent
  PROVE  CatalogInv'
<1> DEFINE e == Head(chain)
<1>1. chain # <<>> /\ e.kind = "event"
  BY DEF Catalog!RunEvent, Catalog!Runs
<1>2. e \in Write /\ WriteOK(e, state, taken)
  BY <1>1, HeadIs DEF CatalogInv
<1>3. e \in Event /\ EventOK(e, taken)
  BY <1>1, <1>2, WriteIs DEF WriteOK
<1>4. /\ state' = Catalog!applyEvent(state, e) /\ events' = Append(events, e) /\ chain' = Tail(chain)
      /\ transcripts' = transcripts /\ saved' = saved /\ fork' = fork /\ clock' = clock /\ taken' = taken
  BY DEF Catalog!RunEvent, Catalog!Rest
<1>5. e.type = "chat_created" => e = Head(chain)
  OBVIOUS
<1> HIDE DEF e
<1> QED BY <1>1, <1>3, <1>4, <1>5, EventRuns

LEMMA RunMetadataStep ==
  ASSUME CatalogStands, CatalogInv, Catalog!RunMetadata
  PROVE  CatalogInv'
<1> DEFINE c == Head(chain).id
           e == Catalog!Metadata(c)
<1>1. chain # <<>> /\ Head(chain).kind = "metadata"
  BY DEF Catalog!RunMetadata, Catalog!Runs
<1>2. Head(chain) \in Write /\ WriteOK(Head(chain), state, taken)
  BY <1>1, HeadIs DEF CatalogInv
<1>3. c \in Chats /\ state.chats[c] # None /\ state.chats[c].has
  BY <1>1, <1>2, WriteIs DEF WriteOK
<1>4. state.chats[c].has = TRUE /\ transcripts[c] \in Nat /\ clock \in Nat
  <2>1. state.chats[c] \in Catalog!ChatRecord
    BY <1>3 DEF CatalogInv, Sound
  <2>2. state.chats[c].has \in BOOLEAN
    BY <2>1 DEF Catalog!ChatRecord
  <2> QED BY <1>3, <2>2 DEF CatalogInv, HasOK
<1>5. e \in Stored /\ EventOK(e, taken) /\ e.type # "chat_created"
  BY <1>3, <1>4 DEF Catalog!Metadata, Stored, EventOK, Catalog!ProjectEvents
<1>6. /\ state' = Catalog!applyEvent(state, e) /\ events' = Append(events, e) /\ chain' = Tail(chain)
      /\ transcripts' = transcripts /\ saved' = saved /\ fork' = fork /\ clock' = clock /\ taken' = taken
  BY DEF Catalog!RunMetadata, Catalog!Rest
<1> HIDE DEF e
<1>7. e \in Event
  BY <1>5 DEF Event
<1> QED BY <1>1, <1>5, <1>6, <1>7, EventRuns

\* A chat is marked as one with messages.
LEMMA MarkIs ==
  ASSUME CatalogStands, NEW m, NEW ids, Sound(m, ids), NEW c \in Chats, m.chats[c] # None
  PROVE  LET n == [m EXCEPT !.chats[c].has = TRUE] IN
         /\ Sound(n, ids) /\ Remembers(m, n) /\ n.chats[c] # None /\ n.chats[c].has
         /\ \A d \in Chats : d # c => n.chats[d] = m.chats[d]
<1> DEFINE n == [m EXCEPT !.chats[c].has = TRUE]
           x == [m.chats[c] EXCEPT !.has = TRUE]
<1>1. m.chats[c] \in Catalog!ChatRecord /\ c \in ids
  BY DEF Sound
<1>2. x \in Catalog!ChatRecord /\ x.has /\ x.offset = m.chats[c].offset
  BY <1>1 DEF Catalog!ChatRecord
<1>3. x # None
  <2>1. None \notin Catalog!ChatRecord
    BY DEF CatalogStands, Catalog!CatalogAssumption
  <2> HIDE DEF x
  <2> QED BY <1>2, <2>1
<1>4. DOMAIN n = DOMAIN m /\ n.chats = [m.chats EXCEPT ![c] = x]
  BY DEF Sound
<1>5. n.chats \in [Chats -> Catalog!ChatRecord \cup {None}] /\ \A d \in Chats : n.chats[d] = IF d = c THEN x ELSE m.chats[d]
  <2> HIDE DEF x, n
  <2> QED BY <1>2, <1>4 DEF Sound
<1> HIDE DEF x, n
<1>6. Sound(n, ids)
  BY <1>1, <1>2, <1>4, <1>5 DEF Sound
<1>7. Remembers(m, n)
  BY <1>2, <1>3, <1>5 DEF Remembers
<1> QED BY <1>2, <1>3, <1>5, <1>6, <1>7 DEF n

\* A write that finds messages marks its chat, and may have that saved next.
LEMMA Marks ==
  ASSUME CatalogStands, CatalogInv, chain # <<>>, NEW c \in Chats, state.chats[c] # None,
         NEW w, w = [kind |-> "metadata", id |-> c],
         state' = [state EXCEPT !.chats[c].has = TRUE],
         chain' = Tail(chain) \/ chain' = <<w>> \o Tail(chain),
         transcripts' \in [Chats -> Nat], \A d \in Chats : d # c => transcripts'[d] = transcripts[d],
         events' = events, saved' = saved, fork' = fork, clock' = clock, taken' = taken
  PROVE  CatalogInv'
<1>0. Sound(state, taken) /\ ChainOK(chain, state, transcripts, taken) /\ HasOK(state, transcripts, taken)
  BY DEF CatalogInv
<1>1. /\ Sound(state', taken) /\ Remembers(state, state') /\ state'.chats[c] # None /\ state'.chats[c].has
      /\ \A d \in Chats : d # c => state'.chats[d] = state.chats[d]
  BY <1>0, MarkIs
<1>2. c \in taken
  BY <1>0 DEF Sound
<1>3. w \in Write /\ w.kind = "metadata" /\ w.id = c
  BY DEF Write, Saving
<1>4. WriteOK(w, state', taken) /\ ~Creates(w)
  BY <1>1, <1>3 DEF WriteOK, Creates
<1>5. \E d, k \in Nat : Moves(chain, chain', d, k, w)
  <2>1. chain \in Seq(Write)
    BY <1>0 DEF ChainOK
  <2>2. Moves(chain, Tail(chain), 1, 0, w) /\ Moves(chain, <<w>> \o Tail(chain), 0, 1, w)
    BY <1>3, <2>1, AppendMoves
  <2> QED BY <2>2
<1>6. PICK d \in Nat, k \in Nat : Moves(chain, chain', d, k, w)
  BY <1>5
<1>7. \A i \in DOMAIN chain : Creates(chain[i]) => Fresh(state', transcripts', chain[i].id)
  <2> SUFFICES ASSUME NEW i \in DOMAIN chain, Creates(chain[i])
               PROVE  Fresh(state', transcripts', chain[i].id)
    OBVIOUS
  <2>1. chain[i].id \in Chats /\ Fresh(state, transcripts, chain[i].id)
    BY <1>0 DEF ChainOK, Creates, WriteOK, EventOK, Catalog!ProjectEvents
  <2> QED BY <1>1, <2>1 DEF Fresh
<1>8. ChainOK(chain', state', transcripts', taken)
  BY <1>0, <1>1, <1>4, <1>6, <1>7, ChainMoves
<1>9. HasOK(state', transcripts', taken)
  BY <1>0, <1>1, <1>2 DEF HasOK
<1>10. ForkOK(fork', state')
  BY <1>1, ForkStays DEF CatalogInv
<1> QED BY <1>1, <1>8, <1>9, <1>10 DEF CatalogInv

LEMMA RunMessageStep ==
  ASSUME CatalogStands, CatalogInv, Catalog!RunMessage \/ Catalog!RunCopy
  PROVE  CatalogInv'
<1> DEFINE h == Head(chain)
           c == h.id
<1>1. chain # <<>> /\ h.kind \in {"message", "copy"}
  BY DEF Catalog!RunMessage, Catalog!RunCopy, Catalog!Runs
<1>2. h \in Write /\ WriteOK(h, state, taken)
  BY <1>1, HeadIs DEF CatalogInv
<1>3. c \in Chats /\ state.chats[c] # None /\ (h.kind = "copy" => h.source \in Chats)
  BY <1>1, <1>2, WriteIs DEF WriteOK, Copy
<1>4. state' = [state EXCEPT !.chats[c].has = TRUE]
  BY <1>3 DEF Catalog!RunMessage, Catalog!RunCopy, Catalog!Written
<1> DEFINE w == [kind |-> "metadata", id |-> c]
<1>5. /\ chain' = Tail(chain) \/ chain' = <<w>> \o Tail(chain)
      /\ events' = events /\ saved' = saved /\ fork' = fork /\ clock' = clock /\ taken' = taken
  BY DEF Catalog!RunMessage, Catalog!RunCopy, Catalog!Rest
<1>6. transcripts' \in [Chats -> Nat] /\ \A d \in Chats : d # c => transcripts'[d] = transcripts[d]
  <2>1. transcripts \in [Chats -> Nat]
    BY DEF CatalogInv, HasOK
  <2>2. CASE Catalog!RunMessage
    BY <1>3, <2>1, <2>2 DEF Catalog!RunMessage
  <2>3. CASE Catalog!RunCopy
    BY <1>3, <2>1, <2>3 DEF Catalog!RunCopy, Catalog!Runs
  <2> QED BY <2>2, <2>3
<1>7. PICK x : x = w
  OBVIOUS
<1> HIDE DEF c
<1> QED BY <1>1, <1>3, <1>4, <1>5, <1>6, <1>7, Marks

LEMMA RunLookStep ==
  ASSUME CatalogStands, CatalogInv, Catalog!RunLook
  PROVE  CatalogInv'
<1> DEFINE h == Head(chain)
           c == h.id
<1>0. Sound(state, taken) /\ ChainOK(chain, state, transcripts, taken) /\ HasOK(state, transcripts, taken)
  BY DEF CatalogInv
<1>1. chain # <<>> /\ h.kind = "look"
  BY DEF Catalog!RunLook, Catalog!Runs
<1>2. h \in Write /\ WriteOK(h, state, taken)
  BY <1>0, <1>1, HeadIs
<1>3. c \in Chats /\ state.chats[c] # None /\ h.at \in Nat
  BY <1>1, <1>2, WriteIs DEF WriteOK, Look
<1>4. /\ transcripts' = transcripts /\ events' = events /\ saved' = saved
      /\ fork' = fork /\ clock' = clock /\ taken' = taken
  BY DEF Catalog!RunLook, Catalog!files
<1>5. CASE transcripts[c] > 0
  <2>1. state' = [state EXCEPT !.chats[c].has = TRUE] /\ chain' = Tail(chain)
    BY <1>5 DEF Catalog!RunLook, Catalog!Rest
  <2>2. transcripts' \in [Chats -> Nat]
    BY <1>0, <1>4 DEF HasOK
  <2>3. PICK x : x = [kind |-> "metadata", id |-> c]
    OBVIOUS
  <2> HIDE DEF c
  <2> QED BY <1>1, <1>3, <1>4, <2>1, <2>2, <2>3, Marks
<1>6. CASE ~(transcripts[c] > 0)
  <2> DEFINE e == [Catalog!Event("chat_deleted", c, None) EXCEPT !.at = h.at]
  <2>1. state' = state /\ chain' = Append(Tail(chain), e)
    BY <1>6 DEF Catalog!RunLook, Catalog!Rest
  <2>2. e \in Plain /\ EventOK(e, taken) /\ e.type = "chat_deleted"
    BY <1>3, IdsAreNumbers DEF Plain, Types, EventOK, Catalog!Event
  <2> HIDE DEF e
  <2>3. e \in Write /\ e.kind = "event"
    BY <2>2 DEF Write, Event, Plain
  <2>4. WriteOK(e, state, taken) /\ ~Creates(e)
    BY <2>2, <2>3 DEF WriteOK, Creates
  <2>5. Moves(chain, chain', 1, Len(chain), e) /\ Len(chain) \in Nat
    <3>1. chain \in Seq(Write)
      BY <1>0 DEF ChainOK
    <3> QED BY <1>1, <2>1, <2>3, <3>1, AppendMoves
  <2>6. Remembers(state, state)
    BY DEF Remembers
  <2>7. \A i \in DOMAIN chain : Creates(chain[i]) => Fresh(state, transcripts, chain[i].id)
    BY <1>0 DEF ChainOK
  <2>8. ChainOK(chain', state, transcripts, taken)
    BY <1>0, <2>4, <2>5, <2>6, <2>7, ChainMoves
  <2> QED BY <1>4, <2>1, <2>8 DEF CatalogInv
<1> QED BY <1>5, <1>6

LEMMA EmptyChain == ASSUME NEW m, NEW tr, NEW ids PROVE ChainOK(<<>>, m, tr, ids)
BY DEF ChainOK

LEMMA OtherStep ==
  ASSUME CatalogStands, CatalogInv, Catalog!MetadataFails \/ Catalog!PruneRemoves \/ Catalog!Tick
  PROVE  CatalogInv'
<1>1. CASE Catalog!MetadataFails
  <2>1. /\ chain' = <<>> /\ fork' = None /\ state' = state /\ transcripts' = transcripts /\ events' = events
        /\ saved' = saved /\ clock' = clock /\ taken' = taken
    BY <1>1 DEF Catalog!MetadataFails, Catalog!Reject, Catalog!files
  <2> QED BY <2>1, EmptyChain DEF CatalogInv, ForkOK
<1>2. CASE Catalog!Tick
  BY <1>2 DEF Catalog!Tick, Catalog!files, CatalogInv
<1>3. CASE Catalog!PruneRemoves
  <2>1. /\ transcripts' = [transcripts EXCEPT ![prune] = 0] /\ chain' = chain /\ fork' = fork /\ state' = state
        /\ events' = events /\ saved' = saved /\ clock' = clock /\ taken' = taken
    BY <1>3 DEF Catalog!PruneRemoves
  <2>2. transcripts' \in [Chats -> Nat] /\ \A c \in Chats : transcripts'[c] \in {0, transcripts[c]}
    BY <2>1 DEF CatalogInv, HasOK
  <2>3. HasOK(state, transcripts', taken)
    BY <2>2 DEF CatalogInv, HasOK
  <2>4. ASSUME NEW i \in DOMAIN chain, Creates(chain[i])
        PROVE  Fresh(state, transcripts', chain[i].id)
    <3>1. chain[i].id \in Chats /\ Fresh(state, transcripts, chain[i].id)
      BY <2>4 DEF CatalogInv, ChainOK, Creates, WriteOK, EventOK, Catalog!ProjectEvents
    <3> QED BY <2>2, <3>1 DEF Fresh
  <2>5. ChainOK(chain, state, transcripts', taken)
    BY <2>4 DEF CatalogInv, ChainOK
  <2> QED BY <2>1, <2>3, <2>5 DEF CatalogInv
<1> QED BY <1>1, <1>2, <1>3
-----------------------------------------------------------------------------
(* The start. *)

LEMMA SnapshotIsSound ==
  ASSUME NEW m, NEW ids, Sound(m, ids)
  PROVE  Sound(Catalog!createSnapshot(m), ids) /\ Sound(Catalog!loadSnapshot(m), ids)
<1> DEFINE n == Catalog!createSnapshot(m)
           l == Catalog!loadSnapshot(m)
<1>1. /\ DOMAIN n = DOMAIN m
      /\ n.chats = [c \in Chats |-> IF m.chats[c] # None /\ m.chats[c].deleted THEN None ELSE m.chats[c]]
  BY DEF Catalog!createSnapshot, Sound
<1>2. DOMAIN l = DOMAIN m /\ l.chats = m.chats
  BY DEF Catalog!loadSnapshot, Sound
<1> HIDE DEF n, l
<1>3. Sound(n, ids)
  <2>1. \A c \in Chats : n.chats[c] = None \/ n.chats[c] = m.chats[c]
    BY <1>1
  <2>2. n.chats \in [Chats -> Catalog!ChatRecord \cup {None}]
    BY <1>1, <2>1 DEF Sound
  <2> QED BY <1>1, <2>1, <2>2 DEF Sound
<1>4. Sound(l, ids)
  BY <1>2 DEF Sound
<1> QED BY <1>3, <1>4 DEF n, l

\* Behind a restart a chat's offset is its transcript's.
LEMMA RestoreIs ==
  ASSUME CatalogStands, NEW m, NEW ids, Sound(m, ids), HasOK(state, transcripts, ids)
  PROVE  LET n == Catalog!restoreTranscriptMetadata(m) IN Sound(n, ids) /\ HasOK(n, transcripts, ids)
<1> DEFINE n == Catalog!restoreTranscriptMetadata(m)
           Stays(c) == m.chats[c] = None \/ m.chats[c].deleted \/ m.chats[c].offset = transcripts[c]
           told(c) == [m.chats[c] EXCEPT !.has = TRUE, !.offset = transcripts[c]]
<1>1. DOMAIN n = DOMAIN m /\ n.chats = [c \in Chats |-> IF Stays(c) THEN m.chats[c] ELSE told(c)]
  BY DEF Catalog!restoreTranscriptMetadata, Sound
<1>2. ASSUME NEW c \in Chats, ~Stays(c)
      PROVE  told(c) \in Catalog!ChatRecord /\ told(c) # None /\ told(c).has /\ c \in ids
  <2>1. m.chats[c] \in Catalog!ChatRecord /\ c \in ids /\ transcripts[c] \in Nat
    BY <1>2 DEF Sound, HasOK
  <2>2. told(c) \in Catalog!ChatRecord /\ told(c).has
    BY <2>1 DEF Catalog!ChatRecord
  <2>3. None \notin Catalog!ChatRecord
    BY DEF CatalogStands, Catalog!CatalogAssumption
  <2> HIDE DEF told
  <2> QED BY <2>1, <2>2, <2>3
<1> HIDE DEF n, told
<1>3. n.chats \in [Chats -> Catalog!ChatRecord \cup {None}]
  <2>1. \A c \in Chats : m.chats[c] \in Catalog!ChatRecord \cup {None}
    BY DEF Sound
  <2> HIDE DEF Stays
  <2> QED BY <1>1, <1>2, <2>1
<1>4. ASSUME NEW c \in Chats
      PROVE  /\ n.chats[c] # None => c \in ids /\ (n.chats[c].offset = 0 \/ n.chats[c].has)
             /\ transcripts[c] > 0 => (n.chats[c] # None /\ ~n.chats[c].deleted => n.chats[c].has)
  <2>1. CASE Stays(c)
    <3>1. n.chats[c] = m.chats[c]
      BY <1>1, <2>1
    <3>2. m.chats[c] # None => c \in ids /\ (m.chats[c].offset = 0 \/ m.chats[c].has)
      BY DEF Sound
    <3>3. transcripts[c] \in Nat
      BY DEF HasOK
    <3> QED BY <2>1, <3>1, <3>2, <3>3
  <2>2. CASE ~Stays(c)
    <3>1. n.chats[c] = told(c)
      BY <1>1, <2>2
    <3> QED BY <1>2, <2>2, <3>1
  <2> QED BY <2>1, <2>2
<1>5. Sound(n, ids)
  BY <1>1, <1>3, <1>4 DEF Sound
<1>6. HasOK(n, transcripts, ids)
  BY <1>4 DEF HasOK
<1> QED BY <1>5, <1>6 DEF n

\* The events of a set, in any order, are a log.
LEMMA SetLogged ==
  ASSUME NEW T, IsFiniteSet(T), NEW ids, \A e \in T : e \in Event /\ EventOK(e, ids)
  PROVE  EventsOK(Catalog!SetToSeq(T), ids)
<1> DEFINE size == Cardinality(T)
           s == Catalog!SetToSeq(T)
<1>1. size \in Nat /\ ExistsBijection(1..size, T)
  BY FS_CardinalityType
<1>2. \E f \in [1..size -> T] : \A i, j \in DOMAIN f : f[i] = f[j] => i = j
  BY <1>1 DEF ExistsBijection, Bijection, Injection, IsInjective
<1>3. size = Catalog!Cardinality(T)
  BY DEF Cardinality, Catalog!Cardinality
<1>4. s \in [1..size -> T]
  BY <1>2, <1>3 DEF Catalog!SetToSeq, Catalog!IsInjective
<1> HIDE DEF size, s
<1>5. \A i \in 1..size : s[i] \in Event /\ EventOK(s[i], ids)
  BY <1>4
<1>6. s \in Seq(Event) /\ DOMAIN s = 1..size
  BY <1>1, <1>4, <1>5
<1> QED BY <1>5, <1>6 DEF EventsOK, s

LEMMA EventsJoin ==
  ASSUME NEW es, NEW more, NEW ids, EventsOK(es, ids), EventsOK(more, ids)
  PROVE  EventsOK(es \o more, ids)
<1> DEFINE s == es \o more
<1>1. es \in Seq(Event) /\ more \in Seq(Event)
  BY DEF EventsOK
<1>2. /\ s \in Seq(Event) /\ Len(s) = Len(es) + Len(more)
      /\ \A i \in 1..Len(es) + Len(more) : s[i] = IF i <= Len(es) THEN es[i] ELSE more[i - Len(es)]
  BY <1>1, ConcatProperties
<1>3. DOMAIN s = 1..Len(es) + Len(more) /\ DOMAIN es = 1..Len(es) /\ DOMAIN more = 1..Len(more)
      /\ Len(es) \in Nat /\ Len(more) \in Nat
  BY <1>1, <1>2
<1> HIDE DEF s
<1>4. ASSUME NEW i \in DOMAIN s
      PROVE  EventOK(s[i], ids)
  <2>1. CASE i <= Len(es)
    <3>1. i \in DOMAIN es /\ s[i] = es[i]
      BY <1>2, <1>3, <2>1
    <3> QED BY <3>1 DEF EventsOK
  <2>2. CASE ~(i <= Len(es))
    <3>1. i - Len(es) \in DOMAIN more /\ s[i] = more[i - Len(es)]
      BY <1>2, <1>3, <2>2
    <3> QED BY <3>1 DEF EventsOK
  <2> QED BY <2>1, <2>2
<1> QED BY <1>2, <1>4 DEF EventsOK, s

LEMMA NoEvents == ASSUME NEW ids PROVE EventsOK(<<>>, ids)
BY DEF EventsOK

LEMMA LogIs ==
  ASSUME NEW es, NEW ids, EventsOK(es, ids)
  PROVE  Logged(es, ids)
<1>1. es \in Seq(Event)
  BY DEF EventsOK
<1>2. DOMAIN es = 1..Len(es) /\ Len(es) \in Nat
  BY <1>1
<1> QED BY <1>2 DEF EventsOK, Logged

LEMMA RestartStep ==
  ASSUME CatalogStands, CatalogInv, Catalog!Restart
  PROVE  CatalogInv'
<1>0. /\ Sound(state, taken) /\ Sound(saved, taken) /\ EventsOK(events, taken)
      /\ HasOK(state, transcripts, taken) /\ clock \in Nat
  BY DEF CatalogInv
<1> DEFINE from(shutdown) == IF shutdown THEN Catalog!createSnapshot(state) ELSE saved
           left(shutdown) == IF shutdown THEN <<>> ELSE events
           replayed(shutdown) == Catalog!replayLogs(Catalog!loadSnapshot(from(shutdown)), left(shutdown))
           restoredState(shutdown) == Catalog!restoreTranscriptMetadata(replayed(shutdown))
           restored(shutdown) == {c \in Chats : restoredState(shutdown).chats[c] # replayed(shutdown).chats[c]}
           SetMetadata(c) == [kind |-> "event", type |-> "chat_transcript_metadata_set", id |-> c, has |-> TRUE,
                              arg |-> transcripts[c], at |-> clock]
           told(shutdown) == {SetMetadata(c) : c \in restored(shutdown)}
<1>1. PICK shutdown \in BOOLEAN, startup \in BOOLEAN :
        /\ state' = restoredState(shutdown)
        /\ saved' = IF startup THEN Catalog!createSnapshot(restoredState(shutdown)) ELSE from(shutdown)
        /\ events' = IF startup THEN <<>> ELSE left(shutdown) \o Catalog!SetToSeq(told(shutdown))
  BY DEF Catalog!Restart
<1>2. chain' = <<>> /\ fork' = None /\ transcripts' = transcripts /\ clock' = clock /\ taken' = taken
  BY DEF Catalog!Restart
<1> DEFINE r == replayed(shutdown)
           n == restoredState(shutdown)
           es == left(shutdown)
           T == told(shutdown)
<1>3. Sound(from(shutdown), taken) /\ EventsOK(es, taken)
  BY <1>0, SnapshotIsSound, NoEvents
<1>4. Sound(r, taken)
  <2>1. Logged(es, taken)
    <3> HIDE DEF es
    <3> QED BY <1>3, LogIs
  <2>2. Sound(Catalog!loadSnapshot(from(shutdown)), taken)
    <3> HIDE DEF from
    <3> QED BY <1>3, SnapshotIsSound
  <2> HIDE DEF from, left
  <2> QED BY <2>1, <2>2, ReplayIsSound
<1>5. Sound(n, taken) /\ HasOK(n, transcripts, taken)
  <2> HIDE DEF replayed
  <2> QED BY <1>0, <1>4, RestoreIs
<1>6. IsFiniteSet(T)
  <2> DEFINE C == restored(shutdown)
             f == [c \in C |-> SetMetadata(c)]
  <2>1. IsFiniteSet(Chats)
    BY DEF CatalogStands, Catalog!CatalogAssumption, Catalog!IsFiniteSet, IsFiniteSet
  <2>2. C \in SUBSET Chats
    OBVIOUS
  <2>3. IsFiniteSet(C)
    <3> HIDE DEF C
    <3> QED BY <2>1, <2>2, FS_Subset
  <2>4. f \in Surjection(C, T)
    <3> HIDE DEF restored
    <3> QED BY DEF Surjection
  <2> HIDE DEF C, f, T
  <2> QED BY <2>3, <2>4, FS_Surjection
<1>7. \A e \in T : e \in Event /\ EventOK(e, taken)
  <2> SUFFICES ASSUME NEW c \in Chats
               PROVE  SetMetadata(c) \in Stored /\ EventOK(SetMetadata(c), taken)
    BY DEF Event
  <2>1. transcripts[c] \in Nat
    BY <1>0 DEF HasOK
  <2> QED BY <1>0, <2>1 DEF Stored, EventOK, Catalog!ProjectEvents
<1>8. EventsOK(es \o Catalog!SetToSeq(T), taken)
  <2> HIDE DEF es, T
  <2> QED BY <1>3, <1>6, <1>7, SetLogged, EventsJoin
<1>9. EventsOK(events', taken)
  <2> HIDE DEF left, told
  <2> QED BY <1>1, <1>8, NoEvents
<1>10. Sound(saved', taken)
  <2>1. Sound(Catalog!createSnapshot(n), taken)
    <3> HIDE DEF restoredState
    <3> QED BY <1>5, SnapshotIsSound
  <2> HIDE DEF from, restoredState
  <2> QED BY <1>1, <1>3, <2>1
<1>11. Sound(state', taken) /\ HasOK(state', transcripts, taken)
  <2> HIDE DEF restoredState
  <2> QED BY <1>1, <1>5
<1>12. ChainOK(chain', state', transcripts, taken) /\ ForkOK(fork', state')
  BY <1>2, EmptyChain DEF ForkOK
<1> HIDE DEF from, left, told, restoredState
<1> QED BY <1>0, <1>2, <1>9, <1>10, <1>11, <1>12 DEF CatalogInv

LEMMA NothingIsSound == ASSUME NEW ids PROVE Sound(Catalog!Nothing, ids)
BY DEF Sound, Catalog!Nothing

LEMMA CompactedIsSound == ASSUME CatalogStands PROVE Sound(Catalog!Compacted, Chats)
<1> DEFINE p == CHOOSE p \in Projects : TRUE
           c == CHOOSE c \in Chats : TRUE
           Was(type, id, arg) == [type |-> type, id |-> id, arg |-> arg, has |-> TRUE, at |-> 0]
           es == <<Was("project_opened", p, None), Was("chat_created", c, p),
                   Was("chat_transcript_metadata_set", c, 1), Was("turn_finished", c, None)>>
<1>1. p \in Projects /\ c \in Chats
  BY DEF CatalogStands, Catalog!CatalogAssumption
<1>2. Catalog!Compacted = Catalog!replayLogs(Catalog!Nothing, es)
  BY DEF Catalog!Compacted
<1> HIDE DEF p, c
<1>3. DOMAIN es = 1..4
  OBVIOUS
<1>4. /\ es[1] = Was("project_opened", p, None) /\ es[2] = Was("chat_created", c, p)
      /\ es[3] = Was("chat_transcript_metadata_set", c, 1) /\ es[4] = Was("turn_finished", c, None)
  OBVIOUS
<1>5. /\ EventOK(Was("project_opened", p, None), Chats) /\ EventOK(Was("chat_created", c, p), Chats)
      /\ EventOK(Was("chat_transcript_metadata_set", c, 1), Chats) /\ EventOK(Was("turn_finished", c, None), Chats)
  BY <1>1 DEF EventOK, Catalog!ProjectEvents
<1> HIDE DEF es, Was
<1>6. \A i \in 1..4 : i = 1 \/ i = 2 \/ i = 3 \/ i = 4
  OBVIOUS
<1>7. Logged(es, Chats)
  BY <1>3, <1>4, <1>5, <1>6 DEF Logged
<1> QED BY <1>2, <1>7, NothingIsSound, ReplayIsSound

LEMMA CatalogStarts == ASSUME CatalogStands, Catalog!Init PROVE CatalogInv
<1>1. Sound(state, Chats) /\ saved = state
  BY NothingIsSound, CompactedIsSound DEF Catalog!Init
<1>2. \A c \in Chats : state.chats[c] # None => c \in taken
  BY DEF Catalog!Init
<1>3. Sound(state, taken)
  BY <1>1, <1>2 DEF Sound
<1>4. transcripts = [c \in Chats |-> IF state.chats[c] = None THEN 0 ELSE state.chats[c].offset]
  BY DEF Catalog!Init
<1>5. HasOK(state, transcripts, taken)
  <2>1. \A c \in Chats : state.chats[c] # None => state.chats[c].offset \in Nat
    BY <1>1 DEF Sound, Catalog!ChatRecord
  <2> QED BY <1>1, <1>2, <1>4, <2>1 DEF HasOK, Sound
<1>6. events = <<>> /\ chain = <<>> /\ fork = None /\ clock = 1
  BY DEF Catalog!Init
<1> QED BY <1>1, <1>3, <1>5, <1>6, EmptyChain, NoEvents DEF CatalogInv, ForkOK

LEMMA CatalogSteps == ASSUME CatalogStands, CatalogInv, Catalog!Next PROVE CatalogInv'
BY ProjectStep, ChatStep, MessageStep, ForkStep, ForkGoesOn, RunEventStep, RunMessageStep, RunMetadataStep,
   RunLookStep, OtherStep, RestartStep DEF Catalog!Next

LEMMA CatalogSafe == MCSpec => []CatalogInv
<1>1. CatalogStands
  BY MCRecordsAssumption DEF CatalogStands
<1>2. MCInit => CatalogInv
  BY <1>1, CatalogStarts DEF MCInit
<1>3. CatalogInv /\ [MCNext]_<<record, vars, worn, catalog, card>> => CatalogInv'
  <2> SUFFICES ASSUME CatalogInv, [MCNext]_<<record, vars, worn, catalog, card>>
               PROVE  CatalogInv'
    OBVIOUS
  <2>1. CASE Catalog!Next
    BY <1>1, <2>1, CatalogSteps
  <2>2. CASE UNCHANGED catalog
    BY <2>2 DEF catalog, CatalogInv
  <2> QED BY <2>1, <2>2 DEF MCNext
<1> QED BY <1>2, <1>3, PTL DEF MCSpec

\* Whatever mixes calls, deletions, forks, prunings, failed writes and restarts: a chat that
\* claims to have no messages has an empty transcript once nothing is pending, so that pruning
\* it deletes nothing (event-store.ts appendMessage, forkChat, restoreTranscriptMetadata).
THEOREM EmptyChatsAreEmpty == MCSpec => []EmptyIsEmpty
<1>1. CatalogInv => EmptyIsEmpty
  BY DEF CatalogInv, HasOK, EmptyIsEmpty, Catalog!EmptyIsEmpty, Catalog!getChat
<1> QED BY <1>1, CatalogSafe, PTL
=============================================================================
