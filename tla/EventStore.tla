----------------------------- MODULE EventStore -----------------------------
(***************************************************************************)
(* Durability of src/server/event-store.ts: the append-only logs, the      *)
(* snapshot with its backup, the archives of the logs, compaction (on a    *)
(* start with large logs and on every clean shutdown), and recovery.       *)
(*                                                                         *)
(* Events are abstract: the effect of a log or snapshot on the in-memory   *)
(* state is the set of events it makes visible, and a replay over a state  *)
(* that holds an event already may show it twice or hide what came after.  *)
(* Reading, writing and renaming one file is atomic, except for a torn     *)
(* append.                                                                 *)
(***************************************************************************)
EXTENDS Naturals, FiniteSets

CONSTANTS
  Logs,        \* getEventLogPaths()
  Journal,     \* the logs whose content createSnapshot() does not hold: the answer journal
  Lists,       \* the logs whose events add to a list: queued messages
  Creating,    \* the logs whose events make a record anew: chats
  Inner,       \* the logs whose events change such a record: turns
  MaxEvents,   \* bound: appends per log
  Threshold,   \* COMPACTION_THRESHOLD_BYTES, in events
  MaxCorruptions,  \* bound: how often a snapshot becomes unreadable
  CrashAt,     \* where the process may be killed
  Faults,      \* which other faults happen: "torn", "corrupt"
  NoFile, Corrupt

Phases == {"down", "starting", "running", "archiving", "publishing", "truncating"}

Events == Logs \X (1..MaxEvents)

\* What an event shows that was applied over a state holding it already.
Again == [e \in Events |-> <<e[1], e[2], "again">>]

Shown == Events \cup {Again[e] : e \in Events}

File == [ok   : SUBSET Events,   \* readable lines
         bad  : SUBSET Events,   \* events whose line cannot be parsed
         torn : BOOLEAN]         \* the last line lacks its newline

Empty == [ok |-> {}, bad |-> {}, torn |-> FALSE]

EventStoreAssumption ==
  /\ Journal \subseteq Logs
  /\ MaxEvents \in Nat /\ Threshold \in Nat /\ MaxCorruptions \in Nat
  /\ NoFile # Corrupt
  /\ \A events \in SUBSET Shown : events # NoFile /\ events # Corrupt
  /\ \A file \in File : file # NoFile
  /\ CrashAt \subseteq Phases \ {"down"}
  /\ Faults \subseteq {"torn", "corrupt"}

VARIABLES
  pc,        \* "down", "starting", "running", or the phase of compact()
  after,     \* what follows the compaction: "running" or "down"
  todo,      \* logs the current phase has not copied or truncated yet
  mem,       \* events visible in this.state and the answer journal maps
  log, archive, snapshot, backup,       \* the files
  poisoned,  \* a write failed: every later step of writeChain is rejected
  written,   \* history: number of appends per log
  acked,     \* history: events whose append resolved
  corruptions, \* history: number of unreadable snapshots
  mixed        \* history: a log that a compaction left behind was appended to ("log") or
               \* archived ("archive"), though the snapshot holds its lines already

files == <<log, archive, snapshot, backup>>
vars == <<pc, after, todo, mem, files, poisoned, written, acked, corruptions, mixed>>

Init ==
  /\ pc = "down" /\ after = "down" /\ todo = {} /\ mem = {}
  /\ log = [l \in Logs |-> Empty] /\ archive = [l \in Logs |-> NoFile]
  /\ snapshot = NoFile /\ backup = NoFile
  /\ poisoned = FALSE
  /\ written = [l \in Logs |-> 0] /\ acked = {} /\ corruptions = 0 /\ mixed = {}

-----------------------------------------------------------------------------
(* Recovery: initialize(). *)

Content(file) == IF file \in {NoFile, Corrupt} THEN {} ELSE file

\* Mutant: a log that has an archive counts as compacted.
ReplayOnlyUnarchived(l) == archive[l] = NoFile

shouldReplayCurrentLog(l) == archive[l] = NoFile \/ log[l] # archive[l]

\* Mutants: the archives are not replayed; nothing is replayed.
ReplayedLogsOnly(archives) ==
  UNION {IF shouldReplayCurrentLog(l) THEN log[l].ok ELSE {} : l \in Logs}
ReplayedNothing(archives) == {}

\* replayLogs(), with or without the archives.
Replayed(archives) ==
  UNION {(IF archives /\ archive[l] # NoFile THEN archive[l].ok ELSE {})
         \cup (IF shouldReplayCurrentLog(l) THEN log[l].ok ELSE {}) : l \in Logs}

\* applyEvent() on a state that holds the event already (base), or held it a moment
\* ago (archive and log): a queued message is pushed once more, without a look at its
\* id, and chat_created makes the chat anew, without what other logs said of it.
Repeated(base, archives) ==
  {e \in Replayed(archives) :
     /\ e[1] \in Lists
     /\ \/ e \in base
        \/ /\ archives /\ archive[e[1]] # NoFile /\ shouldReplayCurrentLog(e[1])
           /\ e \in archive[e[1]].ok \cap log[e[1]].ok}

Hidden(base, archives) ==
  IF \E e \in base \cap Replayed(archives) : e[1] \in Creating
  THEN {e \in base : e[1] \in Inner} \ Replayed(archives) ELSE {}

Restored(base, archives) ==
  {(base \ hidden) \cup Replayed(archives) \cup {Again[e] : e \in Repeated(base, archives)} :
     hidden \in SUBSET Hidden(base, archives)}

\* A snapshot that does not load is quarantined, and its backup with the
\* archives is used instead; a missing one is taken for a new store.
Start ==
  /\ pc = "down"
  /\ pc' = "starting" /\ poisoned' = FALSE
  /\ IF snapshot = Corrupt
     THEN /\ snapshot' = NoFile
          /\ backup' = IF backup = Corrupt THEN NoFile ELSE backup
          /\ mem' \in Restored(Content(backup), TRUE)
     ELSE /\ mem' \in Restored(Content(snapshot), FALSE)
          /\ UNCHANGED <<snapshot, backup>>
  /\ UNCHANGED <<after, todo, log, archive, written, acked, corruptions, mixed>>

shouldCompact ==
  Cardinality(UNION {log[l].ok \cup log[l].bad : l \in Logs \ Journal}) >= Threshold

BeginCompact(next) ==
  /\ pc' = "archiving" /\ after' = next /\ todo' = Logs

Ready ==
  /\ pc = "starting"
  /\ IF shouldCompact THEN BeginCompact("running")
                      ELSE pc' = "running" /\ UNCHANGED <<after, todo>>
  /\ UNCHANGED <<mem, files, poisoned, written, acked, corruptions, mixed>>

-----------------------------------------------------------------------------
(* append() *)

\* Mutant: a torn line swallows every line behind it.
AppendBehindTorn(file, e) ==
  IF file.torn THEN [file EXCEPT !.bad = @ \cup {e}] ELSE [file EXCEPT !.ok = @ \cup {e}]

\* One line is appended.  Behind a torn line it completes that line, and
\* neither of the two can be parsed.
AppendLine(file, e) ==
  IF file.torn THEN [file EXCEPT !.bad = @ \cup {e}, !.torn = FALSE]
               ELSE [file EXCEPT !.ok = @ \cup {e}]

\* The snapshot holds lines of this log: a kill kept it from being truncated.
LeftBehind(l) == log[l].ok \cap Content(snapshot) # {}

append(l) ==
  /\ pc = "running" /\ ~poisoned /\ written[l] < MaxEvents
  /\ LET e == <<l, written[l] + 1>>
     IN /\ log' = [log EXCEPT ![l] = AppendLine(@, e)]
        /\ mem' = mem \cup {e}
        /\ acked' = acked \cup {e}
  /\ written' = [written EXCEPT ![l] = @ + 1]
  /\ mixed' = IF LeftBehind(l) THEN mixed \cup {"log"} ELSE mixed
  /\ UNCHANGED <<pc, after, todo, archive, snapshot, backup, poisoned, corruptions>>

\* appendFile fails with nothing written: this and all later writes reject.
AppendFails ==
  /\ pc = "running" /\ ~poisoned
  /\ poisoned' = TRUE
  /\ UNCHANGED <<pc, after, todo, mem, files, written, acked, corruptions, mixed>>

\* The process dies with part of a line written.
TornAppend(l) ==
  /\ "torn" \in Faults
  /\ pc = "running" /\ ~poisoned /\ written[l] < MaxEvents
  /\ log' = [log EXCEPT ![l].bad = @ \cup {<<l, written[l] + 1>>}, ![l].torn = TRUE]
  /\ written' = [written EXCEPT ![l] = @ + 1]
  /\ pc' = "down" /\ mem' = {} /\ todo' = {}
  /\ mixed' = IF LeftBehind(l) THEN mixed \cup {"log"} ELSE mixed
  /\ UNCHANGED <<after, archive, snapshot, backup, poisoned, acked, corruptions>>

-----------------------------------------------------------------------------
(* compact(), file by file. *)

\* shutdown() ends with a compaction; with a poisoned chain it is rejected.
Shutdown ==
  /\ pc = "running"
  /\ IF poisoned THEN pc' = "down" /\ mem' = {} /\ UNCHANGED <<after, todo>>
                 ELSE BeginCompact("down") /\ UNCHANGED mem
  /\ UNCHANGED <<files, poisoned, written, acked, corruptions, mixed>>

ArchiveLog(l) ==
  /\ pc = "archiving" /\ l \in todo
  /\ archive' = [archive EXCEPT ![l] = log[l]]
  /\ todo' = todo \ {l}
  /\ mixed' = IF LeftBehind(l) THEN mixed \cup {"archive"} ELSE mixed
  /\ UNCHANGED <<pc, after, mem, log, snapshot, backup, poisoned, written, acked, corruptions>>

BackupSnapshot ==
  /\ pc = "archiving" /\ todo = {}
  /\ backup' = IF snapshot = NoFile THEN backup ELSE snapshot
  /\ pc' = "publishing"
  /\ UNCHANGED <<after, todo, mem, log, archive, snapshot, poisoned, written, acked, corruptions, mixed>>

createSnapshot == {e \in mem : e[1] \notin Journal}

PublishSnapshot ==
  /\ pc = "publishing"
  /\ snapshot' = createSnapshot
  /\ pc' = "truncating" /\ todo' = Logs
  /\ UNCHANGED <<after, mem, log, archive, backup, poisoned, written, acked, corruptions, mixed>>

TruncateLog(l) ==
  /\ pc = "truncating" /\ l \in todo
  /\ log' = [log EXCEPT ![l] = Empty]
  /\ todo' = todo \ {l}
  /\ UNCHANGED <<pc, after, mem, archive, snapshot, backup, poisoned, written, acked, corruptions, mixed>>

EndCompact ==
  /\ pc = "truncating" /\ todo = {}
  /\ pc' = after
  /\ mem' = IF after = "down" THEN {} ELSE mem
  /\ UNCHANGED <<after, todo, files, poisoned, written, acked, corruptions, mixed>>

-----------------------------------------------------------------------------
(* Faults between two steps of the process. *)

Crash ==
  /\ pc \in CrashAt
  /\ pc' = "down" /\ mem' = {} /\ todo' = {}
  /\ UNCHANGED <<after, files, poisoned, written, acked, corruptions, mixed>>

\* The snapshot on disk becomes unreadable, or is of another store version.
CorruptSnapshot ==
  /\ "corrupt" \in Faults /\ pc = "down"
  /\ snapshot \notin {NoFile, Corrupt}
  /\ corruptions < MaxCorruptions /\ corruptions' = corruptions + 1
  /\ snapshot' = Corrupt
  /\ UNCHANGED <<pc, after, todo, mem, log, archive, backup, poisoned, written, acked, mixed>>

Next ==
  \/ Start \/ Ready \/ AppendFails \/ Shutdown
  \/ \E l \in Logs : append(l) \/ TornAppend(l) \/ ArchiveLog(l) \/ TruncateLog(l)
  \/ BackupSnapshot \/ PublishSnapshot \/ EndCompact
  \/ Crash \/ CorruptSnapshot

Spec == Init /\ [][Next]_vars

-----------------------------------------------------------------------------
(* Properties. *)

TypeOK ==
  /\ pc \in Phases
  /\ after \in {"running", "down"} /\ todo \in SUBSET Logs /\ mem \in SUBSET Shown
  /\ log \in [Logs -> File] /\ archive \in [Logs -> File \cup {NoFile}]
  /\ snapshot \in (SUBSET Shown) \cup {NoFile, Corrupt}
  /\ backup \in (SUBSET Shown) \cup {NoFile, Corrupt}
  /\ poisoned \in BOOLEAN /\ written \in [Logs -> 0..MaxEvents] /\ acked \in SUBSET Events
  /\ corruptions \in Nat /\ mixed \in SUBSET {"log", "archive"}

Kept    == {e \in acked : e[1] \notin Journal}
Answers == {e \in acked : e[1] \in Journal}

\* Whatever was acknowledged is visible again after every restart, until something is
\* appended to a log that a kill kept from being truncated.
AckedSurvives == pc = "running" /\ "log" \notin mixed => Kept \subseteq mem

\* All that may be missing are events appended right behind a torn line.
MissesOnlyBehindTorn(events) ==
  \A e \in Kept \ events : e[2] > 1 /\ <<e[1], e[2] - 1>> \notin acked

\* An append that dies half way costs at most itself and the one append that
\* follows it in the same log.
TornCostsNext ==
  pc = "running" /\ corruptions = 0 /\ "log" \notin mixed => MissesOnlyBehindTorn(mem)

\* So are the recorded answers (event-store.ts: "a restart replays it").
AnswersSurvive == pc = "running" => Answers \subseteq mem

\* The first start that finds its snapshot unreadable recovers from the backup
\* and the archives whatever the snapshot held, if none of them repeats another.
RecoversFromBackup ==
  [][snapshot = Corrupt /\ corruptions = 1 /\ mixed = {} /\ pc' = "starting"
       => MissesOnlyBehindTorn(mem')]_vars

\* While it runs, compactions and restarts included, the store shows exactly the
\* acknowledged events, none of them twice, until something is appended to a log
\* that a kill kept from being truncated: it implements the abstract store.
Abstract ==
  INSTANCE DurableLog WITH
    Items   <- {e \in Events : e[1] \notin Journal},
    Closed  <- NoFile,
    store   <- Kept,
    view    <- IF pc = "running" THEN createSnapshot ELSE NoFile,
    blurred <- "log" \in mixed

ImplementsDurableLog == Abstract!Spec
=============================================================================
