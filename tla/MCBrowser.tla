------------------------------ MODULE MCBrowser ------------------------------
(***************************************************************************)
(* A browser and a router that it may lose at any time: the chats it is    *)
(* shown (Subscriptions) and the quick commands it starts (QuickCommand).  *)
(* A behaviour is of the one or of the other.                              *)
(***************************************************************************)
EXTENDS Subscriptions

CONSTANTS MaxLaunches, MaxCommandFaults

VARIABLES topic,    \* what the behaviour is about: "chat" or "command"
          remote, open, launched, pending, promise, waiters, outboundQueue, up, answers, late, running,
          receipts, commandFaults, executed, told

command == <<remote, open, launched, pending, promise, waiters, outboundQueue, up, answers, late, running,
             receipts, commandFaults, executed, told>>

Command == INSTANCE QuickCommand WITH down <- answers, faults <- commandFaults, MaxFaults <- MaxCommandFaults

ASSUME MCBrowserAssumption == Command!QuickCommandAssumption

\* Either two tabs that watch the chat once, or one that watches it twice.
MCInit ==
  /\ Init /\ Command!Init
  /\ \/ topic = "chat" /\ remote /\ \E y \in Subs : \A c \in Clients : tab[c].closed = {y}
     \/ topic = "chat" /\ remote /\ \E a \in Clients : tab = [c \in Clients |-> [tab[c] EXCEPT !.closed = IF c = a THEN {} ELSE Subs]]
     \/ topic = "command" /\ \A c \in Clients : tab[c].closed = Subs

MCNext ==
  \/ topic = "chat" /\ Next /\ UNCHANGED <<topic, command>>
  \/ topic = "command" /\ Command!Next /\ UNCHANGED <<topic, vars>>

MCSpec == MCInit /\ [][MCNext]_<<topic, vars, command>>

Symmetry == Permutations(Clients) \union Permutations(Subs)

\* The property of QuickCommand, stated there.
LaunchedOnce == Command!LaunchedOnce
=============================================================================
