-------------------------- MODULE SocketTransport --------------------------
(***************************************************************************)
(* The opt-in transport below the WebSocket protocol                       *)
(* (src/src/shared/socket-transport.ts): a large message travels as chunks *)
(* under a window of acknowledgements, a small one as it is.  The server   *)
(* announces the transport when the connection opens; a client holds its   *)
(* large messages until it knows, and asks with a probe.  An old server    *)
(* knows nothing of it.                                                    *)
(*                                                                         *)
(* A frame the socket refuses is tried again after 25 ms, so a flush may   *)
(* stop before any frame: every write is a step of its own.                *)
(***************************************************************************)
EXTENDS Naturals, Sequences, SequencesExt

CONSTANTS Messages,     \* bound on the messages of each side
          Chunks,       \* frames of a large message
          WINDOW,       \* unacknowledged chunks allowed (four in the code)
          Capacity,     \* frames the socket buffers before it refuses one
          None

\* A message is its position among its side's messages and whether it is large.
Message == [number : Nat, large : BOOLEAN]
Transfer == [id : Nat, message : Message, next : 0..Chunks, acknowledged : 0..Chunks]

TransportAssumption ==
  /\ {Messages, Chunks, WINDOW, Capacity} \subseteq Nat
  /\ Chunks > 1 /\ WINDOW > 0 /\ Capacity > 0
  /\ None \notin Transfer

Sides == {"client", "server"}
Other(p) == IF p = "client" THEN "server" ELSE "client"

VARIABLES
  legacy,     \* the server is an old one
  side,       \* the transport of each side
  net,        \* net[p]: frames from p under way
  sent, got   \* history: the messages given to p, and those it received whole

vars == <<legacy, side, net, sent, got>>

Large(message) == message.large

Fresh(known) ==
  [enabled |-> known, decided |-> known, probing |-> FALSE, failed |-> FALSE,
   queue |-> <<>>, controls |-> <<>>, outgoing |-> None, incoming |-> None,
   nextId |-> 1, lastIncomingId |-> 0]

\* The client opened its connection; a new server announces itself at once.
Init ==
  /\ legacy \in BOOLEAN
  /\ side = [p \in Sides |-> Fresh(p = "server" /\ ~legacy)]
  /\ net = [client |-> <<>>, server |-> IF legacy THEN <<>> ELSE <<[kind |-> "ready"]>>]
  /\ sent = [p \in Sides |-> <<>>]
  /\ got = [p \in Sides |-> <<>>]

Old(p) == legacy /\ p = "server"
Put(p, frame) == net' = [net EXCEPT ![p] = Append(@, frame)]
Accepts(p) == Len(net[p]) < Capacity

\* An old server writes what it has; the transport queues, and probes once when
\* the first large message comes before it knows the peer.
Send(p, large) ==
  LET message == [number |-> Len(sent[p]) + 1, large |-> large]
      mayProbe == ~side[p].decided /\ ~side[p].probing /\ large
  IN /\ Len(sent[p]) < Messages /\ ~side[p].failed
     /\ sent' = [sent EXCEPT ![p] = Append(@, message)]
     /\ side' = [side EXCEPT ![p].queue = Append(@, message),
                             ![p].probing = @ \/ (mayProbe /\ ~Old(p))]
     /\ IF mayProbe /\ ~Old(p) THEN Put(p, [kind |-> "probe"]) ELSE UNCHANGED net
     /\ UNCHANGED <<legacy, got>>

\* Mutant of WriteControl: acknowledgements take their turn behind the messages.
WriteControlLast(p) ==
  /\ side[p].controls # <<>> /\ ~side[p].failed /\ Accepts(p)
  /\ side[p].outgoing = None /\ side[p].queue = <<>>
  /\ Put(p, Head(side[p].controls))
  /\ side' = [side EXCEPT ![p].controls = Tail(@)]
  /\ UNCHANGED <<legacy, sent, got>>

WriteControl(p) ==
  /\ side[p].controls # <<>> /\ ~side[p].failed /\ Accepts(p)
  /\ Put(p, Head(side[p].controls))
  /\ side' = [side EXCEPT ![p].controls = Tail(@)]
  /\ UNCHANGED <<legacy, sent, got>>

\* flush: the next message may start once the controls and the transfer are out.
MayStart(p) ==
  ~side[p].failed /\ side[p].controls = <<>> /\ side[p].outgoing = None /\ side[p].queue # <<>>

\* Mutant of WriteWhole: while it does not know the peer a client sends the small ones first.
WriteSmallFirst(p) ==
  /\ MayStart(p) /\ Accepts(p)
  /\ LET small == SelectSeq(side[p].queue, LAMBDA m : ~Large(m))
         message == IF ~side[p].decided /\ small # <<>> THEN Head(small) ELSE Head(side[p].queue) IN
     /\ Old(p) \/ ~Large(message) \/ (side[p].decided /\ ~side[p].enabled)
     /\ Put(p, [kind |-> "whole", message |-> message])
     /\ side' = [side EXCEPT ![p].queue = Remove(@, message)]
  /\ UNCHANGED <<legacy, sent, got>>

\* A small message, or any message to a peer without the transport, goes out whole.
WriteWhole(p) ==
  /\ MayStart(p) /\ Accepts(p)
  /\ LET message == Head(side[p].queue) IN
     /\ Old(p) \/ ~Large(message) \/ (side[p].decided /\ ~side[p].enabled)
     /\ Put(p, [kind |-> "whole", message |-> message])
  /\ side' = [side EXCEPT ![p].queue = Tail(@)]
  /\ UNCHANGED <<legacy, sent, got>>

\* A large message to a peer that has the transport becomes the transfer.
StartTransfer(p) ==
  /\ MayStart(p) /\ side[p].decided /\ side[p].enabled /\ Large(Head(side[p].queue))
  /\ side' = [side EXCEPT ![p].queue = Tail(@),
                          ![p].outgoing = [id |-> side[p].nextId, message |-> Head(side[p].queue),
                                           next |-> 0, acknowledged |-> 0],
                          ![p].nextId = @ + 1]
  /\ UNCHANGED <<legacy, net, sent, got>>

\* acknowledged counts the acknowledged chunks.
WriteChunk(p) ==
  LET current == side[p].outgoing IN
  /\ current # None /\ ~side[p].failed /\ side[p].controls = <<>> /\ Accepts(p)
  /\ current.next < Chunks /\ current.next - current.acknowledged < WINDOW
  /\ Put(p, [kind |-> "chunk", id |-> current.id, part |-> current.next,
             last |-> current.next = Chunks - 1, message |-> current.message])
  /\ side' = [side EXCEPT ![p].outgoing.next = @ + 1]
  /\ UNCHANGED <<legacy, sent, got>>

\* An invalid frame ends the connection.
Fail(p) == side' = [side EXCEPT ![p].failed = TRUE] /\ UNCHANGED got

\* Any frame tells an undecided client what its peer is.
Decided(s) == [s EXCEPT !.decided = TRUE]

ReceiveReady(p) ==
  side' = [side EXCEPT ![p].enabled = TRUE, ![p].decided = TRUE] /\ UNCHANGED got

\* The probe is an ordinary ping, answered like any small command.
ReceiveProbe(p) ==
  /\ side' = [side EXCEPT ![p].queue = Append(@, [number |-> 0, large |-> FALSE])]
  /\ UNCHANGED got

ReceiveWhole(p, message) ==
  IF side[p].incoming # None /\ ~Old(p) THEN Fail(p)
  ELSE /\ side' = [side EXCEPT ![p] = Decided(@)]
       /\ got' = IF message.number = 0 THEN got ELSE [got EXCEPT ![p] = Append(@, message)]

ReceiveAck(p, frame) ==
  LET current == side[p].outgoing
      done == current.next = Chunks /\ current.acknowledged + 1 = Chunks
  IN IF \/ ~side[p].enabled \/ current = None
        \/ frame.id # current.id \/ frame.part # current.acknowledged \/ frame.part >= current.next
     THEN Fail(p)
     ELSE /\ side' = [side EXCEPT ![p].outgoing =
                        IF done THEN None ELSE [current EXCEPT !.acknowledged = @ + 1]]
          /\ UNCHANGED got

\* A chunk continues the message under way or starts the next one, and is
\* acknowledged before anything else goes out; only the whole message counts.
ReceiveChunk(p, frame) ==
  LET current == IF side[p].incoming = None THEN [id |-> side[p].lastIncomingId + 1, next |-> 0]
                 ELSE side[p].incoming
  IN IF ~side[p].enabled \/ frame.id # current.id \/ frame.part # current.next THEN Fail(p)
     ELSE /\ side' = [side EXCEPT
               ![p].controls = Append(@, [kind |-> "ack", id |-> frame.id, part |-> frame.part]),
               ![p].incoming = IF frame.last THEN None ELSE [current EXCEPT !.next = @ + 1],
               ![p].lastIncomingId = IF frame.last THEN frame.id ELSE @]
          /\ got' = IF frame.last THEN [got EXCEPT ![p] = Append(@, frame.message)] ELSE got

Receive(p) ==
  LET from == Other(p) frame == Head(net[from]) IN
  /\ net[from] # <<>> /\ ~side[p].failed
  /\ net' = [net EXCEPT ![from] = Tail(@)]
  /\ CASE frame.kind = "ready" -> ReceiveReady(p)
       [] frame.kind = "probe" -> ReceiveProbe(p)
       [] frame.kind = "whole" -> ReceiveWhole(p, frame.message)
       [] frame.kind = "ack"   -> ReceiveAck(p, frame)
       [] frame.kind = "chunk" -> ReceiveChunk(p, frame)
  /\ UNCHANGED <<legacy, sent>>

Flush(p) == WriteControl(p) \/ WriteWhole(p) \/ StartTransfer(p) \/ WriteChunk(p)

Next == \E p \in Sides : \/ \E large \in BOOLEAN : Send(p, large)
                         \/ Flush(p) \/ Receive(p)

Spec == Init /\ [][Next]_vars

\* Refused writes are retried and frames arrive.
Fairness == \A p \in Sides : WF_vars(Flush(p)) /\ WF_vars(Receive(p))

(***************************************************************************)
(* Properties                                                              *)
(***************************************************************************)
\* Messages arrive whole, once and in the order they were sent, large ones
\* and small ones, also those sent before the client knew its peer.
InOrder == \A p \in Sides : IsPrefix(got[Other(p)], sent[p])

\* Every message arrives, also when both sides send large ones at once and
\* the sockets are full: the deadline is for peers that are gone.
Arrives == []<>(\A p \in Sides : Len(got[Other(p)]) = Len(sent[p]))
=============================================================================
