--------------------------- MODULE Subscriptions ---------------------------
(***************************************************************************)
(* How a chat on the server reaches the screens that watch it: the         *)
(* subscriptions of the WebSocket router (src/src/server/ws-router.ts), the *)
(* delta encoder and decoder (src/src/shared/chat-stream.ts) and the client *)
(* socket with its reconnects (src/src/client/app/socket.ts).              *)
(*                                                                         *)
(* One chat: a transcript that only grows (a tool call is shown open until *)
(* its result is recorded, then as a summary) and its metadata.  A push    *)
(* reads the transcript asynchronously, then takes the metadata, then      *)
(* encodes and sends; a broadcast shares one read among the connections.   *)
(* Each connection is a pair of ordered channels that are lost with it.    *)
(***************************************************************************)
EXTENDS Naturals, FiniteSets, Sequences, SequencesExt

CONSTANTS Clients,      \* browser tabs
          Subs,         \* ids of the subscriptions a tab may make to the chat
          MaxLog,       \* bound on transcript records
          MaxMeta,      \* bound on metadata changes
          MaxInFlight,  \* bound on frames on their way to a tab
          MaxFaults,    \* bound on failed reads, lost connections and pushes of other topics
          Window,       \* entries of the recent window
          Slots,        \* encoders a connection may hold (four in the code)
          None,         \* nothing yet
          Gone          \* the null snapshot of a deleted chat

\* A broadcast has a cache of its own; one is always free.
Caches == 1..Cardinality(Clients) + 1

\* What there is to tell apart: entries, snapshots, encoders, decoders, pushes, connections.
Entry == [id : Nat, body : {"call", "summary"}]
Messages == {m \in Seq(Entry) : \A i, j \in DOMAIN m : m[i].id = m[j].id => i = j}
Snapshots == [messages : Messages, older : BOOLEAN, meta : Nat]
Values == Snapshots \union {Gone}
Encoders == [previous : Values, revision : Nat]
NewEncoder == [previous |-> None, revision |-> 0]
Decoders == [stream : Nat, revision : Nat, snapshot : Values \union {None}, waiting : BOOLEAN]
Pushes == [todo : SUBSET (Subs \X Nat), slot : Clients \union Caches]
Connections == [subs : [Subs -> Nat], encoders : [Subs -> Encoders \union {None}],
                signatures : [Subs -> Values \union {None}], push : Pushes \union {None}, refresh : BOOLEAN]

ASSUME SubscriptionsAssumption ==
  /\ IsFiniteSet(Clients) /\ Clients \intersect Caches = {}
  /\ Window \in Nat \ {0}
  /\ {MaxLog, MaxMeta, MaxInFlight, MaxFaults, Slots} \subseteq Nat
  /\ Gone \notin Snapshots
  /\ None \notin Values \union Encoders \union {NewEncoder} \union Decoders \union Pushes \union Connections

VARIABLES
  log, meta, gone,      \* the chat: its records, its metadata's version, deleted
  timer,                \* a chat broadcast is scheduled
  reads, prepared,      \* per broadcast cache or connection: the transcript read, what it prepared
  conn,                 \* the server's side of a connection
  tab,                  \* the client's side
  down,                 \* frames on their way to a tab
  faults,
  owed                  \* history: connections whose last push was abandoned by a failed read

vars == <<log, meta, gone, timer, reads, prepared, conn, tab, down, faults, owed>>

(***************************************************************************)
(* What a snapshot of the chat shows                                       *)
(***************************************************************************)
Shown(n) == {i \in 1..n : log[i] # "result"}

Recent(n) == {i \in Shown(n) : Cardinality({j \in Shown(n) : j > i}) < Window}

Ordered(ids) ==
  CHOOSE order \in [1..Cardinality(ids) -> ids] : \A i, j \in DOMAIN order : i < j => order[i] < order[j]

\* The last Window entries of the first n records.
Entries(n) ==
  LET recent == Ordered(Recent(n))
      completed(i) == \E j \in i + 1..n : log[j] = "result"
  IN [k \in DOMAIN recent |->
        [id |-> recent[k], body |-> IF completed(recent[k]) THEN "summary" ELSE log[recent[k]]]]

History(n) == [messages |-> Entries(n), older |-> Cardinality(Shown(n)) > Window]

deriveChatSnapshot(history) == [messages |-> history.messages, older |-> history.older, meta |-> meta]

Now == IF gone THEN Gone ELSE deriveChatSnapshot(History(Len(log)))

(***************************************************************************)
(* chat-stream.ts                                                          *)
(***************************************************************************)
Ids(messages) == [k \in 1..Len(messages) |-> messages[k].id]

orderChanged(previous, next) == Ids(previous.messages) # Ids(next.messages)

\* The difference between two snapshots: "set" names the parts that changed.
Delta(previous, next) ==
  [set |-> (IF previous.older # next.older THEN {"older"} ELSE {})
           \union (IF previous.meta # next.meta THEN {"meta"} ELSE {})
           \union (IF orderChanged(previous, next) THEN {"order"} ELSE {}),
   meta |-> next.meta, older |-> next.older, order |-> Ids(next.messages),
   upsert |-> ToSet(next.messages) \ ToSet(previous.messages)]

applyChatDelta(current, delta) ==
  LET order == IF "order" \in delta.set THEN delta.order ELSE Ids(current.messages)
      newest(id) == IF \E entry \in delta.upsert : entry.id = id
                    THEN CHOOSE entry \in delta.upsert : entry.id = id
                    ELSE CHOOSE entry \in ToSet(current.messages) : entry.id = id
  IN [messages |-> [k \in 1..Len(order) |-> newest(order[k])],
      older |-> IF "older" \in delta.set THEN delta.older ELSE current.older,
      meta  |-> IF "meta" \in delta.set THEN delta.meta ELSE current.meta]

\* What the decoder's merge refuses: an entry it cannot place or is sent twice, an id it
\* does not have or is sent twice.
Applies(current, delta) ==
  LET known == ToSet(Ids(current.messages))
      sent == {entry.id : entry \in delta.upsert}
  IN /\ \A e, f \in delta.upsert : e.id = f.id => e = f
     /\ IF "order" \in delta.set
        THEN /\ \A i, j \in DOMAIN delta.order : delta.order[i] = delta.order[j] => i = j
             /\ ToSet(delta.order) \subseteq known \union sent
             /\ sent \subseteq ToSet(delta.order)
        ELSE sent \subseteq known

\* The frame that takes an encoder from what it sent last to next.
encode(encoder, stream, next) ==
  LET stamp == [stream |-> stream, revision |-> encoder.revision + 1] IN
  IF Gone \in {encoder.previous, next} \/ encoder.previous = None
  THEN [type |-> "snapshot", data |-> next, stamp |-> stamp]
  ELSE [type |-> "delta", delta |-> Delta(encoder.previous, next), stamp |-> stamp,
        base |-> encoder.revision]

NewDecoder(stream) == [stream |-> stream, revision |-> 0, snapshot |-> None, waiting |-> FALSE]

\* A decoder that lost its place asks for the stream again, once.
decoderResync(decoder) ==
  [kind |-> IF decoder.waiting THEN "ignore" ELSE "resync",
   decoder |-> [decoder EXCEPT !.waiting = TRUE]]

decoderReceive(decoder, frame) ==
  LET revision == frame.stamp.revision
      ignored == [kind |-> "ignore", decoder |-> decoder]
      applied(snapshot) ==
        [kind |-> "apply",
         decoder |-> [stream |-> decoder.stream, revision |-> revision, snapshot |-> snapshot, waiting |-> FALSE]]
  IN CASE frame.stamp.stream # decoder.stream \/ revision <= decoder.revision -> ignored
       [] OTHER ->
            IF frame.type = "snapshot" THEN applied(frame.data)
            ELSE IF decoder.waiting THEN ignored
            ELSE IF \/ decoder.snapshot \in {None, Gone}
                    \/ frame.base # decoder.revision
                    \/ revision # decoder.revision + 1
                 THEN decoderResync(decoder)
                 ELSE IF Applies(decoder.snapshot, frame.delta)
                      THEN applied(applyChatDelta(decoder.snapshot, frame.delta))
                      ELSE decoderResync(decoder)

(***************************************************************************)
(* The server: one push in flight and one coalesced refresh per connection *)
(***************************************************************************)
NoRead == [done |-> FALSE, upTo |-> 0]

Connection(c) ==
  [subs |-> [s \in Subs |-> 0], encoders |-> [s \in Subs |-> None],
   signatures |-> [s \in Subs |-> None], push |-> None, refresh |-> FALSE]

Init ==
  /\ log = <<>> /\ meta = 0 /\ gone = FALSE /\ timer = FALSE
  /\ reads = [k \in Clients \union Caches |-> NoRead]
  /\ prepared = [k \in Caches |-> None]
  /\ conn = [c \in Clients |-> Connection(c)]
  \* a tab may have used some of its subscriptions before
  /\ tab \in [Clients -> {[generation |-> 1, closed |-> closed, decoders |-> [s \in Subs |-> None],
                          view |-> [s \in Subs |-> None]] : closed \in SUBSET Subs}]
  /\ down = [c \in Clients |-> <<>>]
  /\ faults = 0 /\ owed = {}

Connected(c) == conn[c] # None

Topics(k) == {<<s, k.subs[s]>> : s \in {t \in Subs : k.subs[t] # 0}}

Pushing(k, todo, slot) == [k EXCEPT !.push = [todo |-> todo, slot |-> slot], !.refresh = FALSE]
Idle(k) == [k EXCEPT !.push = None, !.refresh = FALSE]
Current(k, todo) == {topic \in todo : k.subs[topic[1]] = topic[2]}

\* Mutant of Advance: the refresh goes on with the cache of the push before it.
AdvanceWithCache(k, c, todo) ==
  IF Current(k, todo) # {} THEN [k EXCEPT !.push.todo = Current(k, todo)]
  ELSE IF k.refresh /\ Topics(k) # {} THEN Pushing(k, Topics(k), k.push.slot)
  ELSE Idle(k)

(* What is left of a push after a topic: subscriptions dropped or replaced  *)
(* since it began are skipped.  With nothing left it ends; a refresh asked   *)
(* for meanwhile then runs over every topic, with reads of its own.         *)
Advance(k, c, todo) ==
  IF Current(k, todo) # {} THEN [k EXCEPT !.push.todo = Current(k, todo)]
  ELSE IF k.refresh /\ Topics(k) # {} THEN Pushing(k, Topics(k), c)
  ELSE Idle(k)

\* A push takes the subscriptions as they are; the one under way is asked to refresh.
pushSnapshots(k, chat, slot) ==
  IF k.push # None THEN [k EXCEPT !.refresh = TRUE]
  ELSE IF ~chat THEN Pushing(k, {}, slot)
  ELSE IF Topics(k) = {} THEN k
  ELSE Pushing(k, Topics(k), slot)

UsersOf(connections, slot) ==
  {c \in Clients : connections[c] # None /\ connections[c].push # None /\ connections[c].push.slot = slot}

\* Mutant of Unused: a cache that outlives its broadcast.
NeverUnused(connections, slot) == slot \notin Caches

Unused(connections, slot) == UsersOf(connections, slot) = {}

\* Reads nobody waits for any more are forgotten with the cache that held them.
Forget(connections) ==
  /\ reads' = [k \in DOMAIN reads |-> IF Unused(connections, k) THEN NoRead ELSE reads[k]]
  /\ prepared' = [k \in Caches |-> IF Unused(connections, k) THEN None ELSE prepared[k]]

(* A broadcast enqueues a push on every connection, over one shared cache;  *)
(* one that is about other topics leaves the chat out.                      *)
Broadcast(chat) ==
  LET slot == CHOOSE k \in Caches : UsersOf(conn, k) = {}
  IN /\ conn' = [c \in Clients |-> IF Connected(c) THEN pushSnapshots(conn[c], chat, slot) ELSE None]
     /\ owed' = {c \in owed : chat => Connected(c) /\ conn[c].push # None}

(* A change in the background schedules the broadcast; a command's change  *)
(* broadcasts after its acknowledgement, which is the timer without delay.  *)
scheduleChatStateBroadcast == timer' = TRUE

TimerFires ==
  /\ timer /\ timer' = FALSE
  /\ Broadcast(TRUE)
  /\ UNCHANGED <<log, meta, gone, reads, prepared, tab, down, faults>>

\* A record of the running turn; a result belongs to the call before it.
Record(record) ==
  /\ ~gone /\ Len(log) < MaxLog
  /\ record = "result" => log # <<>> /\ Last(log) = "call"
  /\ log' = Append(log, record)
  /\ scheduleChatStateBroadcast
  /\ UNCHANGED <<meta, gone, conn, owed, reads, prepared, tab, down, faults>>

ChangeMeta ==
  /\ ~gone /\ meta < MaxMeta
  /\ meta' = meta + 1
  /\ scheduleChatStateBroadcast
  /\ UNCHANGED <<log, gone, conn, owed, reads, prepared, tab, down, faults>>

\* chat.delete tells the sidebars only.
Delete ==
  /\ ~gone /\ gone' = TRUE
  /\ Broadcast(FALSE)
  /\ UNCHANGED <<log, meta, timer, reads, prepared, tab, down, faults>>

\* A change of something else, whose push leaves the chat out but takes its time.
OtherChange ==
  /\ \E c \in Clients : Connected(c) /\ conn[c].push = None /\ Topics(conn[c]) # {}
  /\ faults < MaxFaults /\ faults' = faults + 1
  /\ Broadcast(FALSE)
  /\ UNCHANGED <<log, meta, gone, timer, reads, prepared, tab, down>>

OtherPushed(c) ==
  /\ Connected(c) /\ conn[c].push # None /\ conn[c].push.todo = {}
  /\ conn' = [conn EXCEPT ![c] = Advance(@, c, {})]
  /\ owed' = IF conn[c].refresh THEN owed \ {c} ELSE owed
  /\ Forget(conn')
  /\ UNCHANGED <<log, meta, gone, timer, tab, down, faults>>

\* The read of the push sees the records written when it takes its turn.
ReadDone(k) ==
  /\ ~reads[k].done /\ UsersOf(conn, k) # {}
  /\ reads' = [reads EXCEPT ![k] = [done |-> TRUE, upTo |-> Len(log)]]
  /\ UNCHANGED <<log, meta, gone, timer, prepared, conn, tab, down, faults, owed>>

(* A read that fails ends every push that waits for it, and with each the   *)
(* refresh that waited behind it.                                           *)
ReadFails(k) ==
  /\ ~reads[k].done /\ UsersOf(conn, k) # {} /\ faults < MaxFaults
  /\ faults' = faults + 1
  /\ conn' = [c \in Clients |-> IF c \in UsersOf(conn, k) THEN Idle(conn[c])
                                ELSE conn[c]]
  /\ owed' = owed \union UsersOf(conn, k)
  /\ Forget(conn')
  /\ UNCHANGED <<log, meta, gone, timer, tab, down>>

\* The encoder of a subscription, a new one while the connection has a slot for it.
EncoderFor(k, s) ==
  IF k.encoders[s] # None THEN k.encoders[s]
  ELSE IF Cardinality({t \in Subs : k.encoders[t] # None}) < Slots
       THEN NewEncoder
       ELSE None

Pending(c) == IF Connected(c) /\ conn[c].push # None THEN conn[c].push.todo ELSE {}

(* The read is there: the snapshot takes the metadata of this moment and is *)
(* sent as a frame of the stream, or whole where no encoder is left, unless *)
(* nothing changed since the last one.                                      *)
Compose(c, s, stream) ==
  LET k == conn[c]
      slot == k.push.slot
      snapshot == IF gone THEN Gone ELSE deriveChatSnapshot(History(reads[slot].upTo))
      encoder == EncoderFor(k, s)
      next == IF slot \in Caches /\ prepared[slot] # None THEN prepared[slot] ELSE snapshot
      unchanged == IF encoder # None THEN encoder.previous = next ELSE k.signatures[s] = snapshot
      frame == IF encoder # None THEN encode(encoder, stream, next) ELSE [type |-> "plain", data |-> snapshot]
      sent == IF unchanged THEN k
              ELSE IF encoder = None THEN [k EXCEPT !.signatures[s] = snapshot]
              ELSE [k EXCEPT !.encoders[s] = [previous |-> next, revision |-> encoder.revision + 1]]
      current == k.subs[s] = stream
      left == k.push.todo \ {<<s, stream>>}
  IN /\ Len(down[c]) < MaxInFlight
     /\ gone \/ reads[slot].done
     /\ conn' = [conn EXCEPT ![c] = Advance(IF current THEN sent ELSE k, c, left)]
     /\ down' = IF unchanged \/ ~current THEN down
                ELSE [down EXCEPT ![c] = Append(@, [sub |-> s, frame |-> frame])]
     /\ prepared' = [d \in Caches |->
          IF Unused(conn', d) THEN None
          ELSE IF d = slot /\ encoder # None /\ current THEN next ELSE prepared[d]]
     \* without a shared cache every topic reads for itself
     /\ reads' = [d \in DOMAIN reads |-> IF d = c \/ Unused(conn', d) THEN NoRead ELSE reads[d]]
     /\ owed' = IF left = {} /\ k.refresh THEN owed \ {c} ELSE owed
     /\ UNCHANGED <<log, meta, gone, timer, tab, faults>>

\* handleMessage: a subscription starts over; an unsubscription drops it.
Restarted(k, s, stream) ==
  [k EXCEPT !.subs[s] = stream, !.encoders[s] = None, !.signatures[s] = None]

HandleSubscribe(k, c, s, stream) == pushSnapshots(Restarted(k, s, stream), TRUE, c)
HandleUnsubscribe(k, s) == Restarted(k, s, 0)

(***************************************************************************)
(* The client socket.  What it sends is handled at once: the frames the    *)
(* server sends before it hears of a change are those still in down.       *)
(***************************************************************************)
PaidBy(c) == IF conn[c].push = None THEN owed \ {c} ELSE owed

\* A subscription has an id of its own.  While disconnected only the entry is
\* kept: opening subscribes it again.
Subscribe(c, s) ==
  /\ tab[c].decoders[s] = None /\ s \notin tab[c].closed
  /\ tab' = [tab EXCEPT ![c].decoders[s] = NewDecoder(tab[c].generation)]
  /\ IF Connected(c)
     THEN conn' = [conn EXCEPT ![c] = HandleSubscribe(@, c, s, tab[c].generation)] /\ owed' = PaidBy(c)
     ELSE UNCHANGED <<conn, owed>>
  /\ UNCHANGED <<log, meta, gone, timer, reads, prepared, down, faults>>

Unsubscribe(c, s) ==
  /\ tab[c].decoders[s] # None
  /\ tab' = [tab EXCEPT ![c].decoders[s] = None, ![c].view[s] = None, ![c].closed = @ \union {s}]
  /\ conn' = [conn EXCEPT ![c] = IF @ = None THEN None ELSE HandleUnsubscribe(@, s)]
  /\ UNCHANGED <<log, meta, gone, timer, reads, prepared, down, faults, owed>>

Wanted(c) == {s \in Subs : tab[c].decoders[s] # None}

\* A chat stream under a new id, with a decoder of its own.
resetChatStream(decoder, stream) == NewDecoder(stream)

\* What becomes of a new connection when the subscriptions arrive again: the first one is
\* pushed, those behind it find that push under way.
Resent(c, stream) ==
  LET subscribed == [Connection(c) EXCEPT !.subs = [s \in Subs |-> IF s \in Wanted(c) THEN stream ELSE 0]]
  IN IF Wanted(c) = {} THEN {subscribed}
     ELSE {[subscribed EXCEPT !.push = [todo |-> {<<first, stream>>}, slot |-> c],
                              !.refresh = Wanted(c) # {first}] : first \in Wanted(c)}

\* open: every subscription is sent again, each as a new stream.
Connect(c) ==
  /\ ~Connected(c)
  /\ LET stream == tab[c].generation + 1
     IN /\ tab' = [tab EXCEPT ![c].generation = stream, ![c].decoders =
                    [s \in Subs |-> IF s \in Wanted(c) THEN resetChatStream(tab[c].decoders[s], stream) ELSE None]]
        /\ \E resent \in Resent(c, stream) : conn' = [conn EXCEPT ![c] = resent]
  /\ UNCHANGED <<log, meta, gone, timer, reads, prepared, down, faults, owed>>

\* The connection is lost with all that was under way on it.
Disconnect(c) ==
  /\ Connected(c) /\ faults < MaxFaults
  /\ faults' = faults + 1
  /\ conn' = [conn EXCEPT ![c] = None]
  /\ down' = [down EXCEPT ![c] = <<>>]
  /\ owed' = owed \ {c}
  /\ Forget(conn')
  /\ UNCHANGED <<log, meta, gone, timer, tab>>

(* A frame of a stream goes through its decoder, which may ask for the     *)
(* stream anew; a whole snapshot goes to the listener as it is.            *)
Receive(c) ==
  /\ Connected(c) /\ down[c] # <<>>
  /\ LET s == Head(down[c]).sub
         frame == Head(down[c]).frame
         decoder == tab[c].decoders[s]
         result == decoderReceive(decoder, frame)
         again == decoder # None /\ frame.type # "plain" /\ result.kind = "resync"
     IN /\ tab' = IF decoder = None THEN tab
                  ELSE IF frame.type = "plain" THEN [tab EXCEPT ![c].view[s] = frame.data]
                  ELSE CASE result.kind = "apply" -> [tab EXCEPT ![c].decoders[s] = result.decoder,
                                                                ![c].view[s] = result.decoder.snapshot]
                         [] result.kind = "resync" ->
                              [tab EXCEPT ![c].decoders[s] = resetChatStream(decoder, decoder.stream + 1)]
                         [] OTHER -> tab
        /\ conn' = IF again THEN [conn EXCEPT ![c] = HandleSubscribe(@, c, s, decoder.stream + 1)] ELSE conn
        /\ owed' = IF again THEN PaidBy(c) ELSE owed
  /\ down' = [down EXCEPT ![c] = Tail(@)]
  /\ UNCHANGED <<log, meta, gone, timer, reads, prepared, faults>>

Push(c) == OtherPushed(c) \/ \E topic \in Pending(c) : Compose(c, topic[1], topic[2])

Next ==
  \/ TimerFires \/ ChangeMeta \/ Delete \/ OtherChange
  \/ \E record \in {"call", "result"} : Record(record)
  \/ \E k \in DOMAIN reads : ReadDone(k) \/ ReadFails(k)
  \/ \E c \in Clients : Push(c) \/ Connect(c) \/ Disconnect(c) \/ Receive(c)
  \/ \E c \in Clients : \E s \in Subs : Subscribe(c, s) \/ Unsubscribe(c, s)

Spec == Init /\ [][Next]_vars

(***************************************************************************)
(* Properties                                                              *)
(***************************************************************************)
Views == Clients \X Subs

Showing(c, s) == tab[c].view[s] \notin {None, Gone}

\* Every transcript on a screen is one the chat had: a merge of deltas never
\* drops, doubles or misplaces an entry, or keeps one open that was completed.
Whole ==
  \A v \in Views : Showing(v[1], v[2]) =>
    LET view == tab[v[1]].view[v[2]] IN
    \E n \in 0..Len(log) : view.messages = Entries(n) /\ view.older = History(n).older

\* A screen never goes back to an earlier state of the chat, also not across a
\* reconnect or through a read that a broadcast shared with other connections.
LastId(view) == IF view.messages = <<>> THEN 0 ELSE Last(view.messages).id

NeverBack ==
  [][\A v \in Views : LET old == tab[v[1]].view[v[2]] new == tab'[v[1]].view[v[2]] IN
       old # None /\ new # None =>
         /\ old = Gone => new = Gone
         /\ {old, new} \intersect {None, Gone} = {} => LastId(old) <= LastId(new) /\ old.meta <= new.meta]_vars

\* When nothing is under way any more, every screen that watches the chat shows
\* it as it is, whatever was coalesced, shared, filtered or lost on the way.  Two
\* cases are left out: a failed read that ended a push leaves a screen behind until
\* the next push, and the deletion of the chat is told to sidebars only
\* (ws-router.ts:1487).
CaughtUp ==
  \A c \in Clients : \A s \in Wanted(c) :
    (Connected(c) /\ conn[c].push = None /\ down[c] = <<>> /\ ~timer /\ c \notin owed /\ ~gone)
      => tab[c].view[s] = Now

\* Both: what a screen shows is true on the way and current in the end.
ScreenIsTrue == Whole /\ CaughtUp
=============================================================================
