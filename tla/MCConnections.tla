---------------------------- MODULE MCConnections ----------------------------
(***************************************************************************)
(* The ways to this computer: the tunnel of its binding (Connector), the   *)
(* transport below a browser's socket (SocketTransport) and the chunks of  *)
(* its attachments (ChunkedUploads).  A behaviour is of one of them.       *)
(***************************************************************************)
EXTENDS ChunkedUploads

CONSTANTS Messages, Parts, WINDOW, Capacity, MaxKeys, MaxLinkFaults

VARIABLES way,      \* what the behaviour is about: "upload", "socket" or "tunnel"
          legacy, side, frames, given, got,
          state, disk, cloud, op, adapter, frpc, stops, blocked, stopped, deviceKeys, linkFaults, unsaved

socket == <<legacy, side, frames, given, got>>
tunnel == <<state, disk, cloud, op, adapter, frpc, stops, blocked, stopped, deviceKeys, linkFaults, unsaved>>

Transport == INSTANCE SocketTransport WITH Chunks <- Parts, net <- frames, sent <- given
Link == INSTANCE Connector WITH MaxFaults <- MaxLinkFaults, keys <- deviceKeys, faults <- linkFaults

ASSUME MCConnectionsAssumption ==
  UploadsAssumption /\ Transport!TransportAssumption /\ Link!ConnectorAssumption

MCInit ==
  /\ way \in {"upload", "socket", "tunnel"}
  /\ Init /\ Transport!Init /\ Link!Init
  /\ way # "socket" => legacy

MCNext ==
  \/ way = "upload" /\ Next /\ UNCHANGED <<way, socket, tunnel>>
  \/ way = "socket" /\ Transport!Next /\ UNCHANGED <<way, vars, tunnel>>
  \/ way = "tunnel" /\ Link!Next /\ UNCHANGED <<way, vars, socket>>

\* Whatever a behaviour is not about stays idle, where none of its fair actions is enabled.
MCSpec ==
  /\ MCInit /\ [][MCNext]_<<way, vars, socket, tunnel>>
  /\ Transport!Fairness /\ Link!Fairness

\* The properties of SocketTransport and Connector, stated there.
InOrder == Transport!InOrder
Arrives == Transport!Arrives
ReachableAsTold == Link!ReachableAsTold
ServiceIsTold == Link!ServiceIsTold
=============================================================================
