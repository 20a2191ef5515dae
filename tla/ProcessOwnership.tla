--------------------------- MODULE ProcessOwnership ---------------------------
(***************************************************************************)
(* ProcessOwnership (src/server/process-tree.ts): stopping everything that *)
(* one spawned child has started.  The system's process table changes all  *)
(* the time: processes fork, exit, lose their parent, and their pids are   *)
(* used again.  The code sees it only in the tables that ps (or CIM on     *)
(* Windows) prints, each of which is old when it is read; and the child's  *)
(* first output has record() read one beside terminate().                  *)
(***************************************************************************)
EXTENDS Naturals

CONSTANTS
  Pids, Root,   \* pids; the one of the spawned child
  MaxStarts,    \* bound: processes started in all
  None

\* A process of the system, and what is recorded of one.
Process ==
  [start : Nat \ {0}, ppid : Pids \cup {None}, up : Nat, ours : BOOLEAN, codex : BOOLEAN, zombie : BOOLEAN]
Identities == [start : Nat \ {0}, codex : BOOLEAN]

OwnershipAssumption ==
  Root \in Pids /\ MaxStarts \in Nat \ {0} /\ None \notin Pids \cup Process \cup Identities

VARIABLES
  windows,      \* the platform: children keep the pid of a parent that is gone
  table,        \* pid -> process, the truth
  starts,       \* processes started so far: start times
  exited,       \* the exit of the child was reported, its pid is free
  owned,        \* pid -> identity that was recorded for it
  rows,         \* of record() and of terminate(): the table that was printed and is not read yet
  recording,    \* [step, alive] of record(), with the rootAlive it was given
  pc,           \* [step, round, scope] of terminate()
  known,        \* history: starts of own processes seen linked to the child before the
                \* stop was confirmed
  struck,       \* history: pids of strangers that were signalled although they
                \* were in the table that the decision was made on
  mistaken,     \* history: a stranger with the child's pid was taken for the child
  crossed       \* history: a table was read after a younger one, by which a pid in it
                \* had been used again

world == <<windows, table, starts, exited>>
code  == <<owned, rows, recording, pc>>
history == <<known, struck, mistaken, crossed>>
Readers == {"record", "terminate"}
vars  == <<world, code, history>>

NoRows == [p \in Pids |-> None]
rootAlive == ~exited

Init ==
  /\ windows \in BOOLEAN
  /\ table = [NoRows EXCEPT ![Root] = [start |-> 1, ppid |-> None, up |-> 0,
                                       ours |-> TRUE, codex |-> TRUE, zombie |-> FALSE]]
  /\ starts = 1 /\ exited = FALSE
  /\ owned = NoRows /\ rows = [reader \in Readers |-> NoRows]
  /\ recording = [step |-> "none", alive |-> FALSE]
  /\ pc = [step |-> "idle", round |-> 1, scope |-> "writer"]
  /\ known = {} /\ struck = {} /\ mistaken = FALSE /\ crossed = FALSE

-----------------------------------------------------------------------------
(* The system.  A process is named by its start; "up" is its parent's.     *)

Started(q, ppid, up, ours, codex) ==
  /\ table[q] = None /\ starts < MaxStarts
  /\ starts' = starts + 1
  /\ table' = [table EXCEPT ![q] = [start |-> starts + 1, ppid |-> ppid, up |-> up,
                                    ours |-> ours, codex |-> codex, zombie |-> FALSE]]
  /\ UNCHANGED <<windows, exited, code, history>>

Stranger(q) == Started(q, None, 0, FALSE, FALSE)

\* Tools start tools; the launcher and the native binary may start both.
Fork(p, q) ==
  /\ table[p] # None /\ ~table[p].zombie
  /\ \E codex \in {FALSE, table[p].codex} : Started(q, p, table[p].start, table[p].ours, codex)

\* The direct child keeps its pid until its exit is reported (Reap).
Exit(p) ==
  /\ table[p] # None /\ ~table[p].zombie
  /\ table' = [q \in Pids |->
       IF q = p THEN IF p = Root /\ table[p].ours THEN [table[p] EXCEPT !.zombie = TRUE] ELSE None
       ELSE IF table[q] # None /\ table[q].up = table[p].start /\ ~windows
       THEN [table[q] EXCEPT !.ppid = None, !.up = 0] ELSE table[q]]
  /\ UNCHANGED <<windows, starts, exited, code, history>>

Reap ==
  /\ table[Root] # None /\ table[Root].zombie
  /\ table' = [table EXCEPT ![Root] = None] /\ exited' = TRUE
  /\ UNCHANGED <<windows, starts, code, history>>

-----------------------------------------------------------------------------
(* What the code makes of a table. *)

Children(t, p) ==
  {q \in Pids : /\ t[q] # None /\ t[q].ppid = p
                /\ t[p] # None /\ windows => t[q].start >= t[p].start}

Closed(t, set, kids(_, _)) == \A p \in set : kids(t, p) \subseteq set

descendantsOf(t, p) ==
  {q \in Pids : \A set \in SUBSET Pids :
     Children(t, p) \subseteq set /\ Closed(t, set, Children) => q \in set}

Identity(process) == [start |-> process.start, codex |-> process.codex]

sameProcess(info, own) ==
  own # None /\ info # None /\ info.start = own.start /\ ~info.zombie

\* Mutant: only the children of the spawned child are looked for.
AbsorbedFromRoot(t, isAlive) ==
  LET withRoot == IF t[Root] # None /\ isAlive /\ owned[Root] = None
                  THEN [owned EXCEPT ![Root] = Identity(t[Root])] ELSE owned
      found == IF isAlive THEN descendantsOf(t, Root) ELSE {}
  IN [p \in Pids |-> IF p \in found THEN Identity(t[p]) ELSE withRoot[p]]

\* The child while its pid is certainly its own, and what descends from living
\* owned processes.
Absorbed(t, isAlive) ==
  LET withRoot == IF t[Root] # None /\ isAlive /\ owned[Root] = None
                  THEN [owned EXCEPT ![Root] = Identity(t[Root])] ELSE owned
      found == UNION {descendantsOf(t, p) : p \in {q \in Pids : sameProcess(t[q], withRoot[q])}}
  IN [p \in Pids |-> IF p \in found THEN Identity(t[p]) ELSE withRoot[p]]

InScope(own, p) == pc.scope = "tree" \/ p = Root \/ own[p].codex

live(t, own) == {p \in Pids : sameProcess(t[p], own[p]) /\ InScope(own, p)}

-----------------------------------------------------------------------------
(* record() and terminate(). *)

At(step) == pc.step = step
Goto(step) == pc' = [pc EXCEPT !.step = step]
GotoRound(step, round) == pc' = [pc EXCEPT !.step = step, !.round = round]

\* Once, at the child's first output: it may come while terminate() is under way.
record ==
  /\ recording.step = "none" /\ recording' = [step |-> "list", alive |-> rootAlive]
  /\ UNCHANGED <<world, owned, rows, pc, history>>

Recording == recording.step \in {"list", "listed"}

RecordIsOver == recording' = [recording EXCEPT !.step = "over"]

\* A recording that is under way is awaited.
terminate ==
  /\ pc.step \in {"idle", "failed"} /\ ~Recording
  /\ \E scope \in {"tree", "writer"} : pc' = [step |-> "list", round |-> 1, scope |-> scope]
  /\ UNCHANGED <<world, owned, rows, recording, history>>

\* On Windows a process that has exited is not listed.
Printed == [p \in Pids |-> IF windows /\ table[p] # None /\ table[p].zombie THEN None ELSE table[p]]

listProcesses ==
  /\ \/ /\ recording.step = "list" /\ recording' = [recording EXCEPT !.step = "listed"]
        /\ rows' = [rows EXCEPT !["record"] = Printed] /\ UNCHANGED pc
     \/ /\ At("list") /\ Goto("listed")
        /\ rows' = [rows EXCEPT !["terminate"] = Printed] /\ UNCHANGED recording
  /\ UNCHANGED <<world, owned, history>>

\* Only the first table of an attempt can be done without.
ProcessDiscoveryError ==
  /\ \/ recording.step = "list" /\ RecordIsOver /\ UNCHANGED pc
     \/ At("list") /\ (IF pc.round = 1 THEN Goto("fallback") ELSE Goto("failed")) /\ UNCHANGED recording
  /\ UNCHANGED <<world, owned, rows, history>>

Kin(t, p) == {q \in Pids : t[q] # None /\ t[p] # None /\ t[q].up = t[p].start}

\* The own processes that this table shows linked to the child or to known ones.
Linked(t, isAlive) ==
  LET first == {p \in Pids : t[p] # None /\ t[p].ours /\ (t[p].start \in known \/ (t[p].start = 1 /\ isAlive))}
  IN {q \in Pids : \A set \in SUBSET Pids : first \subseteq set /\ Closed(t, set, Kin) => q \in set}

\* A table is read.
Read(reader, isAlive) ==
  LET t == rows[reader]
  IN /\ owned' = Absorbed(t, isAlive)
     /\ known' = IF At("done") THEN known ELSE known \cup {t[p].start : p \in Linked(t, isAlive)}
     /\ crossed' = (crossed \/ \E p \in Pids : /\ t[p] # None /\ owned[p] # None
                                              /\ t[p].start < owned[p].start)
     /\ rows' = [rows EXCEPT ![reader] = NoRows]

Recorded ==
  /\ recording.step = "listed" /\ Read("record", recording.alive) /\ RecordIsOver
  /\ mistaken' = (mistaken \/ /\ recording.alive /\ owned[Root] = None
                              /\ rows["record"][Root] # None /\ ~rows["record"][Root].ours)
  /\ UNCHANGED <<world, pc, struck>>

\* refreshTargets, and the signals to what it returns.
Signal ==
  /\ At("listed") /\ Read("terminate", rootAlive)
  /\ LET t == rows["terminate"]
         targets == live(t, owned')
     IN IF targets = {} THEN Goto("done") /\ UNCHANGED struck
        ELSE IF pc.round = 3 THEN Goto("failed") /\ UNCHANGED struck
        ELSE /\ Goto("wait")
             /\ struck' = struck \cup {p \in targets : table[p] # None /\ ~table[p].ours
                                                       /\ table[p] = t[p]}
  /\ UNCHANGED <<world, recording, mistaken>>

\* waitUntilGone returns when no target's pid is left, or at the deadline.
waitUntilGone ==
  /\ At("wait") /\ GotoRound("list", pc.round + 1)
  /\ UNCHANGED <<world, owned, rows, recording, history>>

\* Without a table only the child itself can be signalled, ...
terminateWithoutDiscovery ==
  /\ At("fallback")
  /\ IF rootAlive THEN Goto("fallback wait") ELSE Goto("fallback end")
  /\ UNCHANGED <<world, owned, rows, recording, history>>

FallbackWait ==
  /\ At("fallback wait")
  /\ IF table[Root] = None \/ pc.round = 2
     THEN GotoRound("fallback end", 1) /\ UNCHANGED mistaken
     ELSE GotoRound("fallback wait", 2) /\ mistaken' = (mistaken \/ ~table[Root].ours)
  /\ UNCHANGED <<world, owned, rows, recording, known, struck, crossed>>

Remaining == {p \in Pids : owned[p] # None /\ InScope(owned, p) /\ table[p] # None}

\* ... and only a finished turn's writers can be seen to have vanished.
FallbackEnd ==
  /\ At("fallback end")
  /\ IF pc.scope = "writer" /\ Remaining = {} /\ ~rootAlive THEN Goto("done") ELSE Goto("failed")
  /\ UNCHANGED <<world, owned, rows, recording, history>>

World == Reap \/ \E p \in Pids : Exit(p) \/ Stranger(p) \/ \E q \in Pids : Fork(p, q)

Code ==
  \/ record \/ terminate \/ listProcesses \/ ProcessDiscoveryError \/ Recorded \/ Signal
  \/ waitUntilGone \/ terminateWithoutDiscovery \/ FallbackWait \/ FallbackEnd

Next == World \/ Code

Spec == Init /\ [][Next]_vars

-----------------------------------------------------------------------------
(* Properties. *)

Living(p) == table[p] # None /\ ~table[p].zombie

\* A stop that is confirmed has left nothing in its scope: what lives on was in no table
\* read until then while a parent linked it to the child.
Confirmed ==
  At("done") /\ ~crossed =>
    \A p \in Pids : Living(p) /\ table[p].ours /\ (pc.scope = "tree" \/ table[p].codex)
                    => table[p].start \notin known

\* Nothing is signalled that the table showed to be somebody else's: a pid that was used
\* again, or a child whose parent's pid was.
OnlyOurs == ~mistaken => struck = {}

\* Both: discovery in rounds, over pids that are used again, ends all of the tree and no
\* process besides.
StopsTheTree == Confirmed /\ OnlyOurs
=============================================================================
