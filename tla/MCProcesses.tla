----------------------------- MODULE MCProcesses -----------------------------
(***************************************************************************)
(* The processes of the chats: which run may hold a Codex thread           *)
(* (CodexExec), and how the processes of one run are found and ended       *)
(* (ProcessOwnership).  A behaviour is of the one or of the other.         *)
(***************************************************************************)
EXTENDS CodexExec, TLC

CONSTANTS Pids, Root, MaxStarts

VARIABLES level,    \* what the behaviour is about: "chats" or "process"
          windows, table, starts, exited, owned, rows, recording, pc, known, struck, mistaken, crossed

process == <<windows, table, starts, exited, owned, rows, recording, pc, known, struck, mistaken, crossed>>

Ownership == INSTANCE ProcessOwnership

ASSUME MCProcessesAssumption == Ownership!OwnershipAssumption

MCInit ==
  /\ level \in {"chats", "process"} /\ Init /\ Ownership!Init
  /\ level = "chats" => ~windows

MCNext ==
  \/ level = "chats" /\ Next /\ UNCHANGED <<level, process>>
  \/ level = "process" /\ Ownership!Next /\ UNCHANGED <<level, vars>>

MCSpec == MCInit /\ [][MCNext]_<<level, vars, process>>

Symmetry == Permutations(Chats) \union Permutations(Threads) \union Permutations(Pids \ {Root})

\* The property of ProcessOwnership, stated there.
StopsTheTree == Ownership!StopsTheTree
=============================================================================
