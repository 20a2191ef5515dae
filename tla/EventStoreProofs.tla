-------------------------- MODULE EventStoreProofs --------------------------
(***************************************************************************)
(* Proofs about EventStore: for any logs, any number of appends, restarts  *)
(* and compactions.                                                        *)
(***************************************************************************)
EXTENDS EventStore, TLAPS

-----------------------------------------------------------------------------
(* Types. *)

LEMMA EmptyIsFile == Empty \in File
BY DEF Empty, File

LEMMA AppendLineType ==
  ASSUME NEW file \in File, NEW e \in Events
  PROVE  AppendLine(file, e) \in File
BY DEF AppendLine, File

LEMMA ContentType ==
  ASSUME NEW file \in (SUBSET Shown) \cup {NoFile, Corrupt}
  PROVE  Content(file) \in SUBSET Shown
BY DEF Content

LEMMA ReplayedType ==
  ASSUME TypeOK, NEW archives \in BOOLEAN
  PROVE  Replayed(archives) \in SUBSET Events
<1> SUFFICES ASSUME NEW e \in Replayed(archives) PROVE e \in Events
  OBVIOUS
<1>1. PICK l \in Logs : \/ archive[l] # NoFile /\ e \in archive[l].ok
                        \/ e \in log[l].ok
  BY DEF Replayed
<1>2. /\ log[l] \in File
      /\ archive[l] # NoFile => archive[l] \in File
  BY DEF TypeOK
<1> QED BY <1>1, <1>2 DEF File

\* A replay shows all that it replays, and hides or repeats nothing unless the state it
\* starts from, or the archive beside the log, holds some of that already.
LEMMA RestoredIs ==
  ASSUME NEW archives \in BOOLEAN, NEW base, NEW result \in Restored(base, archives)
  PROVE  /\ Replayed(archives) \subseteq result
         /\ result \subseteq base \cup Replayed(archives) \cup {Again[e] : e \in Replayed(archives)}
         /\ base \cap Replayed(archives) = {} => base \subseteq result
         /\ base \cap Replayed(archives) = {} /\ ~archives => result = base \cup Replayed(archives)
<1>1. PICK hidden \in SUBSET Hidden(base, archives) :
        result = (base \ hidden) \cup Replayed(archives) \cup {Again[e] : e \in Repeated(base, archives)}
  BY DEF Restored
<1>2. Repeated(base, archives) \subseteq Replayed(archives)
  BY DEF Repeated
<1>3. base \cap Replayed(archives) = {} => hidden = {}
  BY DEF Hidden
<1>4. base \cap Replayed(archives) = {} /\ ~archives => Repeated(base, archives) = {}
  BY DEF Repeated
<1> QED BY <1>1, <1>2, <1>3, <1>4

LEMMA RestoredType ==
  ASSUME TypeOK, NEW archives \in BOOLEAN, NEW base \in SUBSET Shown,
         NEW result \in Restored(base, archives)
  PROVE  result \in SUBSET Shown
<1>1. Replayed(archives) \subseteq Events
  BY ReplayedType
<1> QED BY <1>1, RestoredIs DEF Shown

LEMMA SnapshotType == ASSUME TypeOK PROVE createSnapshot \in SUBSET Shown
BY DEF TypeOK, createSnapshot

LEMMA EventType ==
  ASSUME EventStoreAssumption, TypeOK, NEW l \in Logs, written[l] < MaxEvents
  PROVE  /\ <<l, written[l] + 1>> \in Events
         /\ written[l] + 1 \in 0..MaxEvents
BY DEF EventStoreAssumption, TypeOK, Events

LEMMA TypeCorrectInit ==
  ASSUME EventStoreAssumption
  PROVE  Init => TypeOK
<1> SUFFICES ASSUME Init PROVE TypeOK
  OBVIOUS
<1>1. MaxEvents \in Nat
  BY DEF EventStoreAssumption
<1>2. log \in [Logs -> File] /\ archive \in [Logs -> File \cup {NoFile}]
  BY EmptyIsFile DEF Init
<1>3. written \in [Logs -> 0..MaxEvents]
  BY <1>1 DEF Init
<1> QED BY <1>2, <1>3 DEF Init, TypeOK, Phases

LEMMA TypeCorrectStep ==
  ASSUME EventStoreAssumption, TypeOK, [Next]_vars
  PROVE  TypeOK'
<1> USE DEF TypeOK, Phases
<1>1. CASE Start
  <2>1. Content(backup) \in SUBSET Shown /\ Content(snapshot) \in SUBSET Shown
    BY ContentType
  <2>2. mem' \in Restored(Content(backup), TRUE) \/ mem' \in Restored(Content(snapshot), FALSE)
    BY <1>1 DEF Start
  <2>3. mem' \in SUBSET Shown
    BY <2>1, <2>2, RestoredType
  <2> QED BY <1>1, <2>3 DEF Start
<1>2. CASE Ready
  BY <1>2 DEF Ready, BeginCompact, files
<1>3. CASE AppendFails
  BY <1>3 DEF AppendFails, files
<1>4. CASE Shutdown
  BY <1>4 DEF Shutdown, BeginCompact, files
<1>5. ASSUME NEW l \in Logs, append(l) PROVE TypeOK'
  <2>1. <<l, written[l] + 1>> \in Events /\ written[l] + 1 \in 0..MaxEvents
    BY <1>5, EventType DEF append
  <2>2. AppendLine(log[l], <<l, written[l] + 1>>) \in File
    BY <2>1, AppendLineType
  <2>3. mem' \in SUBSET Shown /\ mixed' \in SUBSET {"log", "archive"}
    BY <1>5, <2>1 DEF append, Shown
  <2> QED BY <1>5, <2>1, <2>2, <2>3 DEF append
<1>6. ASSUME NEW l \in Logs, TornAppend(l) PROVE TypeOK'
  <2>1. <<l, written[l] + 1>> \in Events /\ written[l] + 1 \in 0..MaxEvents
    BY <1>6, EventType DEF TornAppend
  <2>2. log' \in [Logs -> File]
    BY <1>6, <2>1 DEF TornAppend, File
  <2> QED BY <1>6, <2>1, <2>2 DEF TornAppend
<1>7. ASSUME NEW l \in Logs, ArchiveLog(l) PROVE TypeOK'
  BY <1>7 DEF ArchiveLog
<1>8. ASSUME NEW l \in Logs, TruncateLog(l) PROVE TypeOK'
  BY <1>8, EmptyIsFile DEF TruncateLog
<1>9. CASE BackupSnapshot
  BY <1>9 DEF BackupSnapshot
<1>10. CASE PublishSnapshot
  BY <1>10, SnapshotType DEF PublishSnapshot
<1>11. CASE EndCompact
  BY <1>11 DEF EndCompact, files
<1>12. CASE Crash
  BY <1>12 DEF Crash, files
<1>13. CASE CorruptSnapshot
  BY <1>13 DEF EventStoreAssumption, CorruptSnapshot
<1>14. CASE UNCHANGED vars
  BY <1>14 DEF vars, files
<1> QED
  BY <1>1, <1>2, <1>3, <1>4, <1>5, <1>6, <1>7, <1>8, <1>9, <1>10, <1>11, <1>12, <1>13, <1>14
  DEF Next

\* Every state of the store is a state of its files, its memory and the
\* compaction under way, whatever faults happen (event-store.ts as a whole).
THEOREM TypeCorrect ==
  ASSUME EventStoreAssumption
  PROVE  Spec => []TypeOK
BY TypeCorrectInit, TypeCorrectStep, PTL DEF Spec

-----------------------------------------------------------------------------
(* Lines, events and copies, whatever faults happen. *)

LEMMA EventLog == ASSUME EventStoreAssumption, NEW e \in Events PROVE e[1] \in Logs /\ e[2] \in Nat
BY DEF EventStoreAssumption, Events

LEMMA KeptEvents == ASSUME TypeOK PROVE Kept \subseteq Events
BY DEF TypeOK, Kept

LEMMA SetContent ==
  ASSUME EventStoreAssumption, NEW file \in SUBSET Shown
  PROVE  Content(file) = file
BY DEF EventStoreAssumption, Content

\* Only what was acknowledged is on a readable line.
OnlyAcked ==
  /\ \A l \in Logs : /\ log[l].ok \subseteq acked
                     /\ archive[l] # NoFile => archive[l].ok \subseteq acked
  /\ \A e \in acked : e[2] <= written[e[1]]

\* What a whole append and one that dies half way add to their log.
LEMMA AppendIs ==
  ASSUME EventStoreAssumption, TypeOK, NEW l \in Logs, append(l) \/ TornAppend(l)
  PROVE  /\ <<l, written[l] + 1>> \in Events /\ written[l] \in Nat
         /\ \A k \in Logs \ {l} : log'[k] = log[k] /\ written'[k] = written[k]
         /\ written'[l] = written[l] + 1
         /\ append(l) => /\ log'[l].ok = (IF log[l].torn THEN log[l].ok ELSE log[l].ok \cup {<<l, written[l] + 1>>})
                         /\ log'[l].bad = (IF log[l].torn THEN log[l].bad \cup {<<l, written[l] + 1>>} ELSE log[l].bad)
                         /\ ~log'[l].torn
         /\ TornAppend(l) => /\ log'[l].ok = log[l].ok
                             /\ log'[l].bad = log[l].bad \cup {<<l, written[l] + 1>>}
                             /\ log'[l].torn
<1> DEFINE e == <<l, written[l] + 1>>
<1>1. /\ written[l] < MaxEvents
      /\ written' = [written EXCEPT ![l] = @ + 1]
      /\ append(l) => log' = [log EXCEPT ![l] = AppendLine(@, e)]
      /\ TornAppend(l) => log' = [log EXCEPT ![l].bad = @ \cup {e}, ![l].torn = TRUE]
  BY DEF append, TornAppend
<1>2. /\ log \in [Logs -> File] /\ written \in [Logs -> Nat]
      /\ log[l] \in File /\ written[l] \in Nat /\ e \in Events
  <2>1. log \in [Logs -> File] /\ written \in [Logs -> 0..MaxEvents] /\ MaxEvents \in Nat
    BY DEF EventStoreAssumption, TypeOK
  <2>2. e \in Events
    BY <1>1, EventType
  <2> QED BY <2>1, <2>2
<1>3. PICK o \in SUBSET Events, b \in SUBSET Events, t \in BOOLEAN : log[l] = [ok |-> o, bad |-> b, torn |-> t]
  BY <1>2 DEF File
<1>4. append(l) => log'[l] = AppendLine(log[l], e)
  BY <1>1, <1>2
<1>5. TornAppend(l) => log'[l] = [log[l] EXCEPT !.bad = @ \cup {e}, !.torn = TRUE]
  BY <1>1, <1>2
<1>6. \A k \in Logs \ {l} : log'[k] = log[k] /\ written'[k] = written[k]
  BY <1>1, <1>2
<1>7. written'[l] = written[l] + 1
  BY <1>1, <1>2
<1>8. append(l) => /\ log'[l].ok = (IF log[l].torn THEN log[l].ok ELSE log[l].ok \cup {e})
                   /\ log'[l].bad = (IF log[l].torn THEN log[l].bad \cup {e} ELSE log[l].bad)
                   /\ ~log'[l].torn
  BY <1>3, <1>4 DEF AppendLine
<1>9. TornAppend(l) => /\ log'[l].ok = log[l].ok /\ log'[l].bad = log[l].bad \cup {e} /\ log'[l].torn
  BY <1>3, <1>5
<1> QED BY <1>2, <1>6, <1>7, <1>8, <1>9

\* What is appended is new.
LEMMA AppendIsUnknown ==
  ASSUME EventStoreAssumption, TypeOK, OnlyAcked, NEW l \in Logs
  PROVE  <<l, written[l] + 1>> \notin acked
<1> DEFINE e == <<l, written[l] + 1>>
<1> SUFFICES ASSUME e \in acked PROVE FALSE
  OBVIOUS
<1>1. e[2] <= written[e[1]] /\ written[l] \in Nat
  BY DEF OnlyAcked, EventStoreAssumption, TypeOK
<1> QED BY <1>1

LEMMA OnlyAckedStep ==
  ASSUME EventStoreAssumption, TypeOK, OnlyAcked, [Next]_vars
  PROVE  OnlyAcked'
<1>1. log \in [Logs -> File] /\ archive \in [Logs -> File \cup {NoFile}] /\ acked \subseteq Events
  BY DEF TypeOK
<1>2. ASSUME NEW l \in Logs, append(l) \/ TornAppend(l) PROVE OnlyAcked'
  <2> DEFINE e == <<l, written[l] + 1>>
  <2>1. archive' = archive /\ acked' = (IF append(l) THEN acked \cup {e} ELSE acked)
    BY <1>2 DEF append, TornAppend
  <2>2. /\ e \in Events /\ written[l] \in Nat
        /\ \A k \in Logs \ {l} : log'[k] = log[k] /\ written'[k] = written[k]
        /\ written'[l] = written[l] + 1
    BY <1>2, AppendIs
  <2>3. \A k \in Logs : log'[k].ok \subseteq acked'
    BY <1>2, <2>1, <2>2, AppendIs DEF OnlyAcked
  <2>4. ASSUME NEW x \in acked' PROVE x[2] <= written'[x[1]]
    <3>1. CASE x = e
      BY <2>2, <3>1
    <3>2. CASE x \in acked
      <4>1. x[1] \in Logs /\ x[2] \in Nat /\ x[2] <= written[x[1]]
        BY <1>1, <3>2, EventLog DEF OnlyAcked
      <4>2. written'[x[1]] = written[x[1]] \/ written'[x[1]] = written[x[1]] + 1
        BY <2>2, <4>1
      <4>3. written[x[1]] \in Nat
        BY <4>1 DEF TypeOK
      <4> QED BY <4>1, <4>2, <4>3
    <3> QED BY <2>1, <3>1, <3>2
  <2> QED BY <2>1, <2>3, <2>4 DEF OnlyAcked
<1>3. ASSUME NEW l \in Logs, ArchiveLog(l) PROVE OnlyAcked'
  <2>1. /\ archive' = [archive EXCEPT ![l] = log[l]] /\ UNCHANGED <<log, written, acked>>
    BY <1>3 DEF ArchiveLog
  <2>2. \A k \in Logs : archive'[k] = archive[k] \/ archive'[k] = log[k]
    BY <1>1, <2>1
  <2> QED BY <2>1, <2>2 DEF OnlyAcked
<1>4. ASSUME NEW l \in Logs, TruncateLog(l) PROVE OnlyAcked'
  <2>1. /\ log' = [log EXCEPT ![l] = Empty] /\ UNCHANGED <<archive, written, acked>>
    BY <1>4 DEF TruncateLog
  <2>2. \A k \in Logs : log'[k] = log[k] \/ log'[k].ok = {}
    BY <1>1, <2>1 DEF Empty
  <2> QED BY <2>1, <2>2 DEF OnlyAcked
<1>5. CASE UNCHANGED <<log, archive, written, acked>>
  BY <1>5 DEF OnlyAcked
<1> QED
  BY <1>2, <1>3, <1>4, <1>5 DEF Next, Start, Ready, AppendFails, Shutdown, BackupSnapshot, PublishSnapshot,
     EndCompact, Crash, CorruptSnapshot, vars, files

-----------------------------------------------------------------------------
(* A log repeats what the snapshot holds only once something was appended  *)
(* to it after a kill had kept it from being truncated, if the process is  *)
(* not killed between archiving the logs and publishing the snapshot.      *)

NoKillBeforePublishing == CrashAt \cap {"archiving", "publishing"} = {}

Plain == "log" \notin mixed

\* During a compaction an archived log equals its archive until it is truncated.
Agree ==
  /\ pc \in {"archiving", "publishing"} =>
       \A l \in Logs : pc = "publishing" \/ l \notin todo => archive[l] = log[l]
  /\ pc = "truncating" => \A l \in Logs : log[l] = Empty \/ (l \in todo /\ log[l] = archive[l])

\* Everything shows once, and what a restart replays is not in the snapshot.
Fresh ==
  /\ Agree
  /\ Plain => /\ mem \subseteq acked /\ Content(snapshot) \subseteq acked
              /\ pc \in {"down", "starting", "running"} =>
                   \A l \in Logs : shouldReplayCurrentLog(l) => log[l].ok \cap Content(snapshot) = {}

LEMMA MixedStays == ASSUME [Next]_vars PROVE mixed \subseteq mixed' /\ (Plain' => Plain)
BY DEF Next, Start, Ready, AppendFails, Shutdown, append, TornAppend, ArchiveLog, TruncateLog, BackupSnapshot,
   PublishSnapshot, EndCompact, Crash, CorruptSnapshot, vars, Plain

\* What a restart replays over a plain snapshot is not in it.
LEMMA ReplaysNew ==
  ASSUME Fresh, Plain, pc = "down"
  PROVE  Content(snapshot) \cap Replayed(FALSE) = {}
BY DEF Fresh, Replayed

LEMMA FreshInit ==
  ASSUME EventStoreAssumption, Init
  PROVE  Fresh
BY DEF EventStoreAssumption, Init, Fresh, Agree, Content

LEMMA AgreeStep ==
  ASSUME EventStoreAssumption, NoKillBeforePublishing, TypeOK, TypeOK', Agree, [Next]_vars
  PROVE  Agree'
<1>1. log \in [Logs -> File] /\ archive \in [Logs -> File \cup {NoFile}] /\ todo \subseteq Logs
  BY DEF TypeOK
<1>2. ASSUME NEW l \in Logs, append(l) \/ TornAppend(l) PROVE Agree'
  BY <1>2 DEF append, TornAppend, Agree
<1>3. ASSUME NEW l \in Logs, ArchiveLog(l) PROVE Agree'
  <2>1. /\ pc = "archiving" /\ pc' = "archiving" /\ archive' = [archive EXCEPT ![l] = log[l]]
        /\ todo' = todo \ {l} /\ log' = log
    BY <1>3 DEF ArchiveLog
  <2>2. \A k \in Logs : k \notin todo' => archive'[k] = log[k]
    BY <1>1, <2>1 DEF Agree
  <2> QED BY <2>1, <2>2 DEF Agree
<1>4. ASSUME NEW l \in Logs, TruncateLog(l) PROVE Agree'
  <2>1. /\ pc = "truncating" /\ pc' = "truncating" /\ log' = [log EXCEPT ![l] = Empty]
        /\ todo' = todo \ {l} /\ archive' = archive
    BY <1>4 DEF TruncateLog
  <2>2. \A k \in Logs : log'[k] = Empty \/ (k \in todo' /\ log'[k] = archive[k])
    BY <1>1, <2>1 DEF Agree
  <2> QED BY <2>1, <2>2 DEF Agree
<1>5. CASE BackupSnapshot \/ PublishSnapshot
  BY <1>5 DEF BackupSnapshot, PublishSnapshot, Agree
<1>6. CASE Ready \/ Shutdown
  BY <1>6 DEF Ready, Shutdown, BeginCompact, Agree, files
<1>7. CASE Start \/ AppendFails \/ EndCompact \/ Crash \/ CorruptSnapshot \/ UNCHANGED vars
  BY <1>7 DEF Start, AppendFails, EndCompact, Crash, CorruptSnapshot, vars, Agree, files, TypeOK
<1> QED BY <1>2, <1>3, <1>4, <1>5, <1>6, <1>7 DEF Next

LEMMA FreshStep ==
  ASSUME EventStoreAssumption, NoKillBeforePublishing, TypeOK, TypeOK', OnlyAcked, Fresh,
         snapshot # Corrupt, [Next]_vars, ~CorruptSnapshot
  PROVE  Fresh'
<1>1. Agree'
  BY AgreeStep DEF Fresh
<1> SUFFICES ASSUME Plain'
             PROVE  /\ mem' \subseteq acked' /\ Content(snapshot)' \subseteq acked'
                    /\ pc' \in {"down", "starting", "running"} =>
                         \A l \in Logs : shouldReplayCurrentLog(l)' => log'[l].ok \cap Content(snapshot)' = {}
  BY <1>1 DEF Fresh
<1>2. /\ Plain /\ mem \subseteq acked /\ Content(snapshot) \subseteq acked
      /\ pc \in {"down", "starting", "running"} =>
           \A l \in Logs : shouldReplayCurrentLog(l) => log[l].ok \cap Content(snapshot) = {}
  BY MixedStays DEF Fresh
<1>3. CASE Start
  <2>1. /\ pc = "down" /\ pc' = "starting" /\ mem' \in Restored(Content(snapshot), FALSE)
        /\ UNCHANGED <<snapshot, log, archive, acked>>
    BY <1>3 DEF Start
  <2>2. mem' = Content(snapshot) \cup Replayed(FALSE)
    BY <1>2, <2>1, ReplaysNew, RestoredIs
  <2>3. Replayed(FALSE) \subseteq acked
    BY DEF Replayed, OnlyAcked
  <2> QED BY <1>2, <2>1, <2>2, <2>3 DEF Content, shouldReplayCurrentLog
<1>4. ASSUME NEW l \in Logs, append(l) \/ TornAppend(l)
      PROVE  /\ mem' \subseteq acked' /\ Content(snapshot)' \subseteq acked'
             /\ \A k \in Logs : shouldReplayCurrentLog(k)' => log'[k].ok \cap Content(snapshot)' = {}
  <2> DEFINE e == <<l, written[l] + 1>>
  <2>1. /\ pc = "running" /\ UNCHANGED <<archive, snapshot>>
        /\ mem' \subseteq mem \cup {e} /\ (mem' = {} \/ acked' = acked \cup {e}) /\ acked \subseteq acked'
        /\ ~LeftBehind(l)
    BY <1>4 DEF append, TornAppend, Plain
  <2>2. e \notin Content(snapshot) /\ log'[l].ok \subseteq log[l].ok \cup {e}
        /\ \A k \in Logs \ {l} : log'[k] = log[k]
    BY <1>2, <1>4, AppendIsUnknown, AppendIs
  <2>3. log'[l].ok \cap Content(snapshot) = {}
    BY <2>1, <2>2 DEF LeftBehind
  <2>4. Content(snapshot)' = Content(snapshot)
    BY <2>1 DEF Content
  <2> QED BY <1>2, <2>1, <2>2, <2>3, <2>4 DEF shouldReplayCurrentLog
<1>5. CASE PublishSnapshot
  <2>1. pc' = "truncating" /\ snapshot' = createSnapshot /\ UNCHANGED <<mem, acked>>
    BY <1>5 DEF PublishSnapshot
  <2>2. createSnapshot \subseteq mem /\ createSnapshot \in SUBSET Shown
    BY SnapshotType DEF createSnapshot
  <2>3. Content(snapshot)' = createSnapshot
    BY <2>1, <2>2, SetContent DEF Content
  <2> QED BY <1>2, <2>1, <2>2, <2>3
<1>6. CASE EndCompact
  <2>1. /\ pc = "truncating" /\ todo = {} /\ mem' \subseteq mem
        /\ UNCHANGED <<snapshot, log, archive, acked>>
    BY <1>6 DEF EndCompact, files
  <2>2. \A l \in Logs : log[l].ok = {}
    BY <2>1 DEF Fresh, Agree, Empty
  <2> QED BY <1>2, <2>1, <2>2 DEF Content
<1>7. CASE Crash
  <2>1. /\ mem' = {} /\ UNCHANGED <<snapshot, log, archive, acked>>
        /\ pc \in {"starting", "running", "truncating"}
    BY <1>7 DEF EventStoreAssumption, Crash, NoKillBeforePublishing, TypeOK, Phases, files
  <2>2. ASSUME pc = "truncating", NEW l \in Logs, shouldReplayCurrentLog(l) PROVE log[l].ok = {}
    <3>1. log[l] = Empty \/ log[l] = archive[l]
      BY <2>2 DEF Fresh, Agree
    <3>2. log[l] = Empty \/ archive[l] = NoFile
      BY <2>2, <3>1 DEF shouldReplayCurrentLog
    <3>3. log[l] \in File /\ log[l] # NoFile
      BY <2>2 DEF TypeOK, EventStoreAssumption
    <3>4. log[l] = Empty
      BY <3>1, <3>2, <3>3
    <3> QED BY <3>4 DEF Empty
  <2> QED BY <1>2, <2>1, <2>2 DEF Content, shouldReplayCurrentLog
<1>8. CASE Ready \/ AppendFails \/ Shutdown \/ BackupSnapshot \/ UNCHANGED vars
  <2>1. /\ mem' \subseteq mem /\ UNCHANGED <<snapshot, log, acked>>
        /\ \/ pc' \in {"archiving", "publishing"}
           \/ pc' = pc /\ archive' = archive
           \/ pc \in {"starting", "running"} /\ archive' = archive
    BY <1>8 DEF Ready, BeginCompact, AppendFails, Shutdown, BackupSnapshot, vars, files
  <2> QED BY <1>2, <2>1 DEF Content, shouldReplayCurrentLog
<1>9. ASSUME NEW l \in Logs, ArchiveLog(l) \/ TruncateLog(l)
      PROVE  /\ mem' \subseteq acked' /\ Content(snapshot)' \subseteq acked'
             /\ pc' \notin {"down", "starting", "running"}
  BY <1>2, <1>9 DEF ArchiveLog, TruncateLog, Content
<1> QED BY <1>3, <1>4, <1>5, <1>6, <1>7, <1>8, <1>9 DEF Next

-----------------------------------------------------------------------------
(* Durability, when every file stays readable and the process is not killed *)
(* between archiving the logs and publishing the snapshot.                  *)

OnDisk(e) == \/ e \in Content(snapshot)
             \/ shouldReplayCurrentLog(e[1]) /\ e \in log[e[1]].ok

Readable == snapshot # Corrupt /\ \A l \in Logs : ~log[l].torn

\* What shows is made of acknowledged events, even when logs are mixed.
Sober(events) == events \subseteq acked \cup {Again[e] : e \in acked}

\* Outside a compaction a restart would see every acknowledged event.
Recoverable == pc \in {"down", "starting", "running"} => \A e \in Kept : OnDisk(e)

Held == pc # "down" => Kept \subseteq mem

Published == pc = "truncating" => Kept \subseteq Content(snapshot)

Whole == Recoverable /\ Held /\ Published

Durable ==
  /\ TypeOK /\ OnlyAcked /\ Fresh /\ Readable
  /\ Sober(mem) /\ Sober(Content(snapshot))
  /\ Plain => Whole

NoLossyFault == Faults = {} /\ NoKillBeforePublishing

LEMMA DurableInit ==
  ASSUME EventStoreAssumption
  PROVE  Init => Durable
<1> SUFFICES ASSUME Init PROVE Durable
  OBVIOUS
<1>1. TypeOK /\ Fresh
  BY TypeCorrectInit, FreshInit
<1>2. Kept = {} /\ Content(snapshot) = {} /\ snapshot # Corrupt
  BY DEF EventStoreAssumption, Init, Kept, Content
<1>3. OnlyAcked /\ Readable /\ Sober(mem) /\ Sober(Content(snapshot))
  BY <1>2 DEF Init, OnlyAcked, Readable, Empty, Sober
<1> QED BY <1>1, <1>2, <1>3 DEF Init, Durable, Whole, Recoverable, Held, Published

\* No file of the store becomes unreadable.
LEMMA ReadableStep ==
  ASSUME EventStoreAssumption, NoLossyFault, Durable, [Next]_vars
  PROVE  Readable'
<1>1. TypeOK /\ log \in [Logs -> File]
  BY DEF Durable, TypeOK
<1>2. ~CorruptSnapshot /\ \A l \in Logs : ~TornAppend(l)
  BY DEF NoLossyFault, CorruptSnapshot, TornAppend
<1>3. ASSUME NEW l \in Logs, append(l) PROVE Readable'
  <2>1. snapshot' = snapshot
    BY <1>3 DEF append
  <2> QED BY <1>1, <1>3, <2>1, AppendIs DEF Durable, Readable
<1>4. ASSUME NEW l \in Logs, TruncateLog(l) PROVE Readable'
  <2>1. log' = [log EXCEPT ![l] = Empty] /\ snapshot' = snapshot
    BY <1>4 DEF TruncateLog
  <2>2. \A k \in Logs : log'[k] = log[k] \/ ~log'[k].torn
    BY <1>1, <2>1 DEF Empty
  <2> QED BY <2>1, <2>2 DEF Durable, Readable
<1>5. CASE PublishSnapshot
  <2>1. snapshot' = createSnapshot /\ log' = log /\ createSnapshot \in SUBSET Shown
    BY <1>1, <1>5, SnapshotType DEF PublishSnapshot
  <2> QED BY <2>1 DEF EventStoreAssumption, Durable, Readable
<1>6. CASE Start
  BY <1>6 DEF Start, Durable, Readable
<1>7. CASE UNCHANGED <<snapshot, log>>
  BY <1>7 DEF Durable, Readable
<1> QED
  BY <1>2, <1>3, <1>4, <1>5, <1>6, <1>7 DEF Next, Ready, AppendFails, Shutdown, ArchiveLog, BackupSnapshot,
     EndCompact, Crash, vars, files

LEMMA SoberStep ==
  ASSUME EventStoreAssumption, NoLossyFault, Durable, [Next]_vars
  PROVE  Sober(mem)' /\ Sober(Content(snapshot))'
<1>1. acked \subseteq acked' /\ TypeOK /\ ~CorruptSnapshot
  BY DEF Durable, NoLossyFault, Next, Start, Ready, AppendFails, Shutdown, append, TornAppend, ArchiveLog, TruncateLog,
     BackupSnapshot, PublishSnapshot, EndCompact, Crash, CorruptSnapshot, vars
<1>2. CASE Start
  <2>1. mem' \in Restored(Content(snapshot), FALSE) /\ UNCHANGED <<snapshot, acked>>
    BY <1>2 DEF Start, Durable, Readable
  <2>2. Replayed(FALSE) \subseteq acked
    BY DEF Replayed, Durable, OnlyAcked
  <2>3. mem' \subseteq Content(snapshot) \cup Replayed(FALSE) \cup {Again[e] : e \in Replayed(FALSE)}
    BY <2>1, RestoredIs
  <2> QED BY <2>1, <2>2, <2>3 DEF Durable, Sober, Content
<1>3. CASE PublishSnapshot
  <2>1. snapshot' = createSnapshot /\ UNCHANGED <<mem, acked>> /\ createSnapshot \in SUBSET Shown
    BY <1>1, <1>3, SnapshotType DEF PublishSnapshot
  <2>2. Content(snapshot)' = createSnapshot /\ createSnapshot \subseteq mem
    BY <2>1, SetContent DEF Content, createSnapshot
  <2> QED BY <2>1, <2>2 DEF Durable, Sober
<1>4. ASSUME NEW l \in Logs, append(l) PROVE Sober(mem)' /\ Sober(Content(snapshot))'
  <2>1. mem' = mem \cup {<<l, written[l] + 1>>} /\ acked' = acked \cup {<<l, written[l] + 1>>} /\ snapshot' = snapshot
    BY <1>4 DEF append
  <2> QED BY <2>1 DEF Durable, Sober, Content
<1>5. CASE mem' \subseteq mem /\ snapshot' = snapshot
  BY <1>1, <1>5 DEF Durable, Sober, Content
<1> QED
  BY <1>1, <1>2, <1>3, <1>4, <1>5 DEF Next, Ready, AppendFails, Shutdown, TornAppend, ArchiveLog, TruncateLog,
     BackupSnapshot, EndCompact, Crash, vars, files

LEMMA WholeStep ==
  ASSUME EventStoreAssumption, NoLossyFault, Durable, [Next]_vars, Plain'
  PROVE  Whole'
<1>1. TypeOK /\ Plain /\ Whole /\ Fresh /\ OnlyAcked /\ Readable
  BY MixedStays DEF Durable
<1> USE DEF Kept
<1>2. CASE Start
  <2>1. /\ pc = "down" /\ pc' = "starting" /\ mem' \in Restored(Content(snapshot), FALSE)
        /\ UNCHANGED <<snapshot, log, archive, acked>>
    BY <1>1, <1>2 DEF Start, Readable
  <2>2. mem' = Content(snapshot) \cup Replayed(FALSE)
    BY <1>1, <2>1, ReplaysNew, RestoredIs
  <2>3. \A e \in Kept : e[1] \in Logs /\ OnDisk(e)
    BY <1>1, <2>1, KeptEvents, EventLog DEF Whole, Recoverable
  <2>4. Kept \subseteq mem'
    <3> SUFFICES ASSUME NEW e \in Kept PROVE e \in mem'
      OBVIOUS
    <3> QED BY <2>2, <2>3 DEF OnDisk, Replayed
  <2>5. \A e \in Kept : OnDisk(e)'
    BY <2>1, <2>3 DEF OnDisk, Content, shouldReplayCurrentLog
  <2> QED BY <2>1, <2>4, <2>5 DEF Whole, Recoverable, Held, Published
<1>3. ASSUME NEW l \in Logs, append(l) PROVE Whole'
  <2> DEFINE e == <<l, written[l] + 1>>
  <2>1. /\ pc = "running" /\ pc' = "running"
        /\ mem' = mem \cup {e} /\ acked' = acked \cup {e}
        /\ UNCHANGED <<archive, snapshot>>
    BY <1>3 DEF append
  <2>2. /\ log'[l].ok = log[l].ok \cup {e} /\ e \notin acked
        /\ \A k \in Logs \ {l} : log'[k] = log[k]
    BY <1>1, <1>3, AppendIs, AppendIsUnknown DEF Readable
  <2>3. shouldReplayCurrentLog(l)'
    <3>1. archive[l] = NoFile \/ e \notin archive[l].ok
      BY <1>1, <2>2 DEF OnlyAcked
    <3> QED BY <2>1, <2>2, <3>1 DEF shouldReplayCurrentLog
  <2>4. ASSUME NEW x \in Kept' PROVE OnDisk(x)'
    <3>1. CASE x = e
      BY <2>2, <2>3, <3>1 DEF OnDisk
    <3>2. CASE x \in Kept
      <4>1. x[1] \in Logs /\ OnDisk(x)
        BY <1>1, <2>1, <3>2, KeptEvents, EventLog DEF Whole, Recoverable
      <4>2. CASE x[1] = l
        BY <2>1, <2>2, <2>3, <4>1, <4>2 DEF OnDisk, Content
      <4>3. CASE x[1] # l
        BY <2>1, <2>2, <4>1, <4>3 DEF OnDisk, Content, shouldReplayCurrentLog
      <4> QED BY <4>2, <4>3
    <3> QED BY <2>1, <2>4, <3>1, <3>2
  <2>5. Kept' \subseteq mem'
    BY <1>1, <2>1 DEF Whole, Held
  <2> QED BY <2>1, <2>4, <2>5 DEF Whole, Recoverable, Held, Published
<1>4. ASSUME NEW l \in Logs, ArchiveLog(l) PROVE Whole'
  <2>1. pc = "archiving" /\ UNCHANGED <<pc, mem, log, snapshot, acked>>
    BY <1>4 DEF ArchiveLog
  <2> QED BY <1>1, <2>1 DEF Whole, Recoverable, Held, Published
<1>5. ASSUME NEW l \in Logs, TruncateLog(l) PROVE Whole'
  <2>1. pc = "truncating" /\ UNCHANGED <<pc, mem, snapshot, acked>>
    BY <1>5 DEF TruncateLog
  <2> QED BY <1>1, <2>1 DEF Whole, Recoverable, Held, Published, Content
<1>6. CASE PublishSnapshot
  <2>1. /\ pc = "publishing" /\ pc' = "truncating" /\ snapshot' = createSnapshot
        /\ UNCHANGED <<mem, acked>> /\ createSnapshot \in SUBSET Shown
    BY <1>1, <1>6, SnapshotType DEF PublishSnapshot
  <2>2. Content(snapshot)' = createSnapshot
    BY <2>1, SetContent DEF Content
  <2>3. Kept \subseteq createSnapshot
    BY <1>1, <2>1 DEF Whole, Held, createSnapshot
  <2> QED BY <1>1, <2>1, <2>2, <2>3 DEF Whole, Recoverable, Held, Published
<1>7. CASE Crash
  <2>1. /\ pc \in {"starting", "running", "truncating"} /\ pc' = "down"
        /\ UNCHANGED <<log, archive, snapshot, acked>>
    BY <1>1, <1>7 DEF EventStoreAssumption, Crash, NoLossyFault, NoKillBeforePublishing, TypeOK, Phases, files
  <2>2. \A e \in Kept : OnDisk(e)
    BY <1>1, <2>1 DEF Whole, Recoverable, Published, OnDisk
  <2>3. \A e \in Kept : OnDisk(e)'
    BY <2>1, <2>2 DEF OnDisk, Content, shouldReplayCurrentLog
  <2> QED BY <2>1, <2>3 DEF Whole, Recoverable, Held, Published
<1>8. CASE EndCompact
  <2>1. /\ pc = "truncating" /\ pc' \in {"running", "down"}
        /\ mem' = IF pc' = "down" THEN {} ELSE mem
        /\ UNCHANGED <<log, archive, snapshot, acked>>
    BY <1>1, <1>8 DEF EndCompact, TypeOK, files
  <2>2. Recoverable'
    BY <1>1, <2>1 DEF Whole, Recoverable, Published, OnDisk, Content, shouldReplayCurrentLog
  <2> QED BY <1>1, <2>1, <2>2 DEF Whole, Held, Published
<1>9. CASE Shutdown
  <2>1. /\ pc = "running" /\ UNCHANGED <<log, archive, snapshot, acked>>
        /\ \/ pc' = "down" /\ mem' = {}
           \/ pc' = "archiving" /\ mem' = mem
    BY <1>9 DEF Shutdown, BeginCompact, files
  <2>2. Recoverable'
    BY <1>1, <2>1 DEF Whole, Recoverable, OnDisk, Content, shouldReplayCurrentLog
  <2> QED BY <1>1, <2>1, <2>2 DEF Whole, Held, Published
<1>10. CASE Ready \/ AppendFails \/ BackupSnapshot \/ UNCHANGED vars
  <2>1. /\ UNCHANGED <<mem, log, archive, snapshot, acked>>
        /\ \/ pc' = pc
           \/ pc = "starting" /\ pc' \in {"running", "archiving"}
           \/ pc = "archiving" /\ pc' = "publishing"
    BY <1>10 DEF Ready, BeginCompact, AppendFails, BackupSnapshot, vars, files
  <2>2. Recoverable'
    BY <1>1, <2>1 DEF Whole, Recoverable, OnDisk, Content, shouldReplayCurrentLog
  <2> QED BY <1>1, <2>1, <2>2 DEF Whole, Held, Published, Content
<1>11. ~CorruptSnapshot /\ \A l \in Logs : ~TornAppend(l)
  BY DEF NoLossyFault, CorruptSnapshot, TornAppend
<1> QED
  BY <1>2, <1>3, <1>4, <1>5, <1>6, <1>7, <1>8, <1>9, <1>10, <1>11 DEF Next

LEMMA DurableStep ==
  ASSUME EventStoreAssumption, NoLossyFault, Durable, [Next]_vars
  PROVE  Durable'
<1>1. TypeOK' /\ OnlyAcked'
  BY TypeCorrectStep, OnlyAckedStep DEF Durable
<1>2. Fresh'
  <2>1. snapshot # Corrupt /\ ~CorruptSnapshot
    BY DEF Durable, Readable, NoLossyFault, CorruptSnapshot
  <2> QED BY <1>1, <2>1, FreshStep DEF Durable, NoLossyFault
<1>3. Readable' /\ Sober(mem)' /\ Sober(Content(snapshot))' /\ (Plain' => Whole')
  BY ReadableStep, SoberStep, WholeStep
<1> QED BY <1>1, <1>2, <1>3 DEF Durable

\* However often the process stops, restarts or compacts, a running store shows
\* every acknowledged event that a snapshot holds (event-store.ts append, compact,
\* loadSnapshot, replayLogs), unless a kill falls between compact()'s archiving and
\* its publishing, or something was appended to a log that a kill kept from being
\* truncated.
THEOREM AckedSurvivesRestarts ==
  ASSUME EventStoreAssumption, NoLossyFault
  PROVE  Spec => []AckedSurvives
<1>1. Durable => AckedSurvives
  BY DEF Durable, Plain, Whole, Held, AckedSurvives
<1> QED BY <1>1, DurableInit, DurableStep, PTL DEF Spec

-----------------------------------------------------------------------------
(* Refinement: under the same assumption the store is a DurableLog. *)

\* What the running store shows is exactly what it acknowledged, each event once, while
\* no log is mixed; and nothing else ever.
ShownKept ==
  pc # "down" => /\ Plain => createSnapshot = Kept
                 /\ createSnapshot \subseteq Kept \cup {Again[e] : e \in Kept}

LEMMA ShownIsKept ==
  ASSUME Durable
  PROVE  ShownKept
<1> SUFFICES ASSUME pc # "down"
             PROVE  /\ Plain => createSnapshot = Kept
                    /\ createSnapshot \subseteq Kept \cup {Again[e] : e \in Kept}
  BY DEF ShownKept
<1>1. Plain => createSnapshot = Kept
  BY DEF Durable, Whole, Held, Fresh, createSnapshot, Kept
<1>2. ASSUME NEW x \in createSnapshot PROVE x \in Kept \cup {Again[e] : e \in Kept}
  <2>1. x \in mem /\ x[1] \notin Journal
    BY DEF createSnapshot
  <2>2. CASE x \in acked
    BY <2>1, <2>2 DEF Kept
  <2>3. CASE x \notin acked
    <3>1. PICK e \in acked : x = Again[e]
      BY <2>1, <2>3 DEF Durable, Sober
    <3>2. x[1] = e[1]
      BY <3>1 DEF Durable, TypeOK, Again
    <3> QED BY <2>1, <3>1, <3>2 DEF Kept
  <2> QED BY <2>2, <2>3
<1> QED BY <1>1, <1>2

LEMMA AbstractInit == Init => Abstract!Init
BY DEF Init, Abstract!Init, Kept

LEMMA AbstractStep ==
  ASSUME EventStoreAssumption, NoLossyFault, Durable, [Next]_vars, ShownKept'
  PROVE  [Abstract!Next]_<<Kept, IF pc = "running" THEN createSnapshot ELSE NoFile, "log" \in mixed>>
<1> DEFINE view == IF pc = "running" THEN createSnapshot ELSE NoFile
<1>1. Durable'
  BY DurableStep
<1>2. pc' = "running" => /\ Plain' => createSnapshot' = Kept'
                         /\ createSnapshot' \subseteq Kept' \cup {Again[e] : e \in Kept'}
  BY DEF ShownKept
<1>3. createSnapshot # NoFile /\ createSnapshot' # NoFile
  <2>1. createSnapshot \in SUBSET Shown /\ createSnapshot' \in SUBSET Shown
    BY <1>1 DEF Durable, TypeOK, createSnapshot
  <2> QED BY <2>1 DEF EventStoreAssumption
<1>4. (Plain' => Plain) /\ (Plain <=> ~("log" \in mixed)) /\ (Plain' <=> ~("log" \in mixed'))
  BY MixedStays DEF Plain
<1>5. ASSUME NEW l \in Logs, append(l)
      PROVE  [Abstract!Next]_<<Kept, view, "log" \in mixed>>
  <2> DEFINE e == <<l, written[l] + 1>>
  <2>1. pc = "running" /\ pc' = "running" /\ acked' = acked \cup {e} /\ mem' = mem \cup {e}
    BY <1>5 DEF append
  <2>2. e \in Events /\ e[1] = l
    BY <1>5, EventType DEF append, Durable
  <2>3. CASE l \in Journal
    <3>1. Kept' = Kept /\ createSnapshot' = createSnapshot
      BY <2>1, <2>3 DEF Kept, createSnapshot
    <3>2. CASE Plain <=> Plain'
      BY <1>4, <2>1, <3>1, <3>2
    <3>3. CASE Plain /\ ~Plain'
      <4>1. Abstract!Blur
        BY <1>4, <2>1, <3>1, <3>3 DEF Abstract!Blur
      <4> QED BY <4>1 DEF Abstract!Next
    <3> QED BY <1>4, <3>2, <3>3
  <2>4. CASE l \notin Journal
    <3>1. Kept' = Kept \cup {e} /\ createSnapshot' = createSnapshot \cup {e}
      BY <2>1, <2>4 DEF Kept, createSnapshot
    <3>2. Abstract!Add
      BY <1>3, <1>4, <2>1, <2>2, <2>4, <3>1 DEF Abstract!Add
    <3> QED BY <3>2 DEF Abstract!Next
  <2> QED BY <2>3, <2>4
<1>6. ASSUME NEW l \in Logs, TornAppend(l) PROVE FALSE
  BY <1>6 DEF NoLossyFault, TornAppend
<1>7. CASE acked' = acked /\ ("log" \in mixed <=> "log" \in mixed') /\ (pc = "running" /\ pc' = "running" => mem' = mem)
  <2>1. Kept' = Kept
    BY <1>7 DEF Kept
  <2>2. CASE pc = "running" <=> pc' = "running"
    BY <1>7, <2>1, <2>2 DEF createSnapshot
  <2>3. CASE pc = "running" /\ pc' # "running"
    <3>1. Abstract!Close
      BY <1>3, <1>7, <2>1, <2>3 DEF Abstract!Close
    <3> QED BY <3>1 DEF Abstract!Next
  <2>4. CASE pc # "running" /\ pc' = "running"
    <3>1. createSnapshot' \in Abstract!Views
      BY <1>2, <1>4, <1>7, <2>1, <2>4 DEF Abstract!Views
    <3>2. Abstract!Open
      BY <1>3, <1>7, <2>1, <2>4, <3>1 DEF Abstract!Open
    <3> QED BY <3>2 DEF Abstract!Next
  <2> QED BY <2>2, <2>3, <2>4
<1>8. \/ acked' = acked /\ ("log" \in mixed <=> "log" \in mixed') /\ (pc = "running" /\ pc' = "running" => mem' = mem)
      \/ \E l \in Logs : append(l) \/ TornAppend(l)
  BY DEF Next, Start, Ready, BeginCompact, AppendFails, Shutdown, ArchiveLog, TruncateLog,
         BackupSnapshot, PublishSnapshot, EndCompact, Crash, CorruptSnapshot, vars
<1> QED BY <1>5, <1>6, <1>7, <1>8

\* The store with its logs, snapshot, archives and compactions implements the store that
\* shows exactly what it acknowledged, each event once, until something is appended to a
\* log that a kill kept from being truncated (event-store.ts as a whole, minus the answer
\* journal).
THEOREM ImplementsAbstractStore ==
  ASSUME EventStoreAssumption, NoLossyFault
  PROVE  Spec => ImplementsDurableLog
<1>1. Init => Abstract!Init
  BY AbstractInit
<1>2. Durable /\ ShownKept' /\ [Next]_vars
      => [Abstract!Next]_<<Kept, IF pc = "running" THEN createSnapshot ELSE NoFile, "log" \in mixed>>
  BY AbstractStep
<1>3. Durable => ShownKept
  BY ShownIsKept
<1> QED
  BY <1>1, <1>2, <1>3, DurableInit, DurableStep, PTL DEF Spec, ImplementsDurableLog, Abstract!Spec

-----------------------------------------------------------------------------
(* Worn files: appends die half way, and the snapshot may become           *)
(* unreadable.                                                             *)

\* Appended right behind a torn line; every other acknowledged event must be kept.
Excused(e) == e[2] > 1 /\ <<e[1], e[2] - 1>> \notin acked
Needed == {e \in Kept : ~Excused(e)}

\* The lines of a log are of its events, and a torn one is the last.
OnlyWritten ==
  \A l \in Logs : /\ \A e \in log[l].bad : e[2] <= written[e[1]]
                  /\ archive[l] # NoFile => \A e \in archive[l].bad : e[2] <= written[e[1]]
                  /\ log[l].torn => written[l] >= 1 /\ <<l, written[l]>> \notin acked

\* What the backup holds with the archives, and with the logs since then.
Archived(e) == e \in Content(backup) \/ (archive[e[1]] # NoFile /\ e \in archive[e[1]].ok)
Restorable(e) == Archived(e) \/ (shouldReplayCurrentLog(e[1]) /\ e \in log[e[1]].ok)

\* While a compaction copies the files, the logs and the old snapshot hold everything.
Copying ==
  pc \in {"archiving", "publishing"} =>
    /\ \A e \in Needed : e \in Content(snapshot) \/ e \in log[e[1]].ok
    /\ pc = "publishing" => snapshot = NoFile \/ backup = snapshot

\* The snapshot with the logs, and its backup with the archives, hold what must be kept.
Outside ==
  pc \in {"down", "starting", "running"} =>
    \A e \in Needed : OnDisk(e) /\ (snapshot # NoFile => Restorable(e))
Truncating ==
  pc = "truncating" => \A e \in Needed : e \in Content(snapshot) /\ Archived(e)

Holding == (pc # "down" => Needed \subseteq mem) /\ Copying /\ Outside /\ Truncating

\* The backup holds nothing of the archives, nor of the logs since then.
Pair ==
  mixed = {} =>
    /\ Content(backup) \subseteq acked
    /\ snapshot = NoFile => Content(backup) = {}
    /\ pc \in {"down", "starting", "running", "truncating"} =>
         \A l \in Logs : /\ archive[l] # NoFile => archive[l].ok \cap Content(backup) = {}
                         /\ shouldReplayCurrentLog(l) => log[l].ok \cap Content(backup) = {}
    /\ pc = "archiving" => \A l \in Logs \ todo : log[l].ok \cap Content(snapshot) = {}
    /\ pc = "publishing" => \A l \in Logs : log[l].ok \cap Content(backup) = {}

Intact == OnlyWritten /\ snapshot # Corrupt /\ Fresh /\ Pair /\ (Plain => Holding)

\* The backup, the archives and the logs since then hold what must be kept, once each.
Restores == (\A e \in Needed : Restorable(e)) /\ Content(backup) \cap Replayed(TRUE) = {}

\* So it is until a snapshot becomes unreadable; the first time the backup takes its place.
WornInv ==
  /\ TypeOK /\ OnlyAcked
  /\ snapshot = Corrupt => pc = "down"
  /\ corruptions = 0 => Intact
  /\ corruptions = 1 /\ snapshot = Corrupt /\ mixed = {} => Restores

\* Only a kept event is needed.
LEMMA NeededEvents ==
  ASSUME EventStoreAssumption, TypeOK, NEW e \in Needed
  PROVE  e \in Kept /\ e \in acked /\ e \in Events /\ e[1] \in Logs /\ e[1] \notin Journal
BY KeptEvents, EventLog DEF Needed, Kept

\* What an append adds is new to every file, and it is excused behind a torn line.
LEMMA AppendIsNew ==
  ASSUME EventStoreAssumption, TypeOK, OnlyAcked, OnlyWritten, NEW l \in Logs, written[l] < MaxEvents,
         acked' \in {acked, acked \cup {<<l, written[l] + 1>>}}
  PROVE  /\ \A x \in Needed' : x \in Needed \/ (x = <<l, written[l] + 1>> /\ ~log[l].torn)
         /\ <<l, written[l] + 1>> \notin acked
         /\ <<l, written[l] + 1>> \notin log[l].bad
         /\ archive[l] # NoFile => <<l, written[l] + 1>> \notin archive[l].ok \cup archive[l].bad
<1> DEFINE e == <<l, written[l] + 1>>
<1>1. written[l] \in Nat /\ acked \subseteq Events /\ e \in Events
  BY EventType DEF EventStoreAssumption, TypeOK
<1>2. \A x \in Events : x[2] <= written[x[1]] => x # e
  BY <1>1
<1>3. e \notin acked
  BY <1>1, <1>2 DEF OnlyAcked
<1>4. e \notin log[l].bad /\ (archive[l] # NoFile => e \notin archive[l].ok \cup archive[l].bad)
  BY <1>1, <1>2, <1>3 DEF OnlyAcked, OnlyWritten
<1>5. ASSUME NEW x \in Needed', x # e PROVE x \in Needed
  <2>1. x \in acked /\ x[1] \notin Journal /\ ~Excused(x)'
    BY <1>5 DEF Needed, Kept
  <2>2. x \in Events /\ x[2] <= written[x[1]] /\ x[1] \in Logs /\ x[2] \in Nat
    BY <1>1, <2>1, EventLog DEF OnlyAcked
  <2>3. <<x[1], x[2] - 1>> # e
    BY <1>1, <2>2 DEF TypeOK
  <2>4. ~Excused(x)
    BY <2>1, <2>3 DEF Excused
  <2> QED BY <2>1, <2>4 DEF Needed, Kept
<1>6. ASSUME NEW x \in Needed', x = e, log[l].torn PROVE FALSE
  <2>1. written[l] >= 1 /\ <<l, written[l]>> \notin acked
    BY <1>6 DEF OnlyWritten
  <2>2. x[2] > 1 /\ <<x[1], x[2] - 1>> = <<l, written[l]>> /\ <<l, written[l]>> # e
    BY <1>1, <1>6, <2>1
  <2>3. <<x[1], x[2] - 1>> \notin acked'
    BY <2>1, <2>2
  <2> QED BY <1>6, <2>2, <2>3 DEF Needed, Excused
<1> QED BY <1>3, <1>4, <1>5, <1>6

LEMMA OnlyWrittenStep ==
  ASSUME EventStoreAssumption, TypeOK, OnlyAcked, OnlyWritten, [Next]_vars
  PROVE  OnlyWritten'
<1>0. /\ log \in [Logs -> File] /\ archive \in [Logs -> File \cup {NoFile}] /\ acked \subseteq Events
      /\ \A k \in Logs : /\ log[k].bad \subseteq Events
                         /\ archive[k] # NoFile => archive[k].bad \subseteq Events
  BY DEF TypeOK, File
<1>1. ASSUME NEW l \in Logs, append(l) \/ TornAppend(l) PROVE OnlyWritten'
  <2> DEFINE e == <<l, written[l] + 1>>
  <2>1. archive' = archive /\ acked' = (IF append(l) THEN acked \cup {e} ELSE acked) /\ ~(append(l) /\ TornAppend(l))
    BY <1>1 DEF append, TornAppend
  <2>2. /\ e \in Events /\ written[l] \in Nat /\ e \notin acked
        /\ \A k \in Logs \ {l} : log'[k] = log[k] /\ written'[k] = written[k]
        /\ written'[l] = written[l] + 1
        /\ log'[l].bad \subseteq log[l].bad \cup {e} /\ (append(l) => ~log'[l].torn)
    BY <1>1, AppendIs, AppendIsUnknown
  <2>3. ASSUME NEW x \in Events, x[2] <= written[x[1]] PROVE x[2] <= written'[x[1]]
    <3>1. x[1] \in Logs /\ x[2] \in Nat
      BY EventLog
    <3>2. written'[x[1]] = written[x[1]] \/ written'[x[1]] = written[x[1]] + 1
      BY <2>2, <3>1
    <3>3. written[x[1]] \in Nat
      BY <3>1 DEF TypeOK
    <3> QED BY <2>3, <3>1, <3>2, <3>3
  <2>4. e[2] <= written'[e[1]]
    BY <2>2
  <2>5. ASSUME NEW k \in Logs PROVE \A x \in log'[k].bad : x[2] <= written'[x[1]]
    <3>1. \A x \in log[k].bad : x \in Events /\ x[2] <= written[x[1]]
      BY <1>0 DEF OnlyWritten
    <3>2. log'[k].bad \subseteq log[k].bad \cup {e}
      BY <2>2
    <3> QED BY <2>3, <2>4, <3>1, <3>2
  <2>6. ASSUME NEW k \in Logs, archive[k] # NoFile PROVE \A x \in archive[k].bad : x[2] <= written'[x[1]]
    BY <1>0, <2>3, <2>6 DEF OnlyWritten
  <2>7. ASSUME NEW k \in Logs, log'[k].torn PROVE written'[k] >= 1 /\ <<k, written'[k]>> \notin acked'
    <3>1. CASE k = l
      BY <2>1, <2>2, <2>7, <3>1
    <3>2. CASE k # l
      <4>1. written'[k] >= 1 /\ <<k, written'[k]>> \notin acked
        BY <2>2, <2>7, <3>2 DEF OnlyWritten
      <4>2. <<k, written'[k]>> # e
        BY <3>2
      <4> QED BY <2>1, <4>1, <4>2
    <3> QED BY <3>1, <3>2
  <2> QED BY <2>1, <2>5, <2>6, <2>7 DEF OnlyWritten
<1>2. ASSUME NEW l \in Logs, ArchiveLog(l) PROVE OnlyWritten'
  <2>1. /\ archive' = [archive EXCEPT ![l] = log[l]] /\ UNCHANGED <<log, written, acked>>
    BY <1>2 DEF ArchiveLog
  <2>2. \A k \in Logs : archive'[k] = archive[k] \/ archive'[k] = log[k]
    BY <1>0, <2>1
  <2> QED BY <2>1, <2>2 DEF OnlyWritten
<1>3. ASSUME NEW l \in Logs, TruncateLog(l) PROVE OnlyWritten'
  <2>1. /\ log' = [log EXCEPT ![l] = Empty] /\ UNCHANGED <<archive, written, acked>>
    BY <1>3 DEF TruncateLog
  <2>2. \A k \in Logs : log'[k] = log[k] \/ (log'[k].bad = {} /\ ~log'[k].torn)
    BY <1>0, <2>1 DEF Empty
  <2> QED BY <2>1, <2>2 DEF OnlyWritten
<1>4. CASE UNCHANGED <<log, archive, written, acked>>
  BY <1>4 DEF OnlyWritten
<1> QED
  BY <1>1, <1>2, <1>3, <1>4 DEF Next, Start, Ready, AppendFails, Shutdown, BackupSnapshot, PublishSnapshot,
     EndCompact, Crash, CorruptSnapshot, vars, files

LEMMA PairStep ==
  ASSUME EventStoreAssumption, NoKillBeforePublishing, TypeOK, TypeOK', OnlyAcked, Fresh, Pair,
         snapshot # Corrupt, [Next]_vars, ~CorruptSnapshot
  PROVE  Pair'
<1> SUFFICES ASSUME mixed' = {} PROVE Pair'
  BY DEF Pair
<1>1. mixed = {} /\ Plain /\ acked \subseteq acked' /\ log \in [Logs -> File]
  BY MixedStays DEF Plain, TypeOK, Next, Start, Ready, AppendFails, Shutdown, append, TornAppend, ArchiveLog,
     TruncateLog, BackupSnapshot, PublishSnapshot, EndCompact, Crash, CorruptSnapshot, vars
<1>2. CASE Start
  BY <1>1, <1>2 DEF Start, Pair, Content, shouldReplayCurrentLog
<1>3. ASSUME NEW l \in Logs, append(l) \/ TornAppend(l) PROVE Pair'
  <2> DEFINE e == <<l, written[l] + 1>>
  <2>1. /\ pc = "running" /\ pc' \in {"running", "down"} /\ UNCHANGED <<archive, snapshot, backup>>
    BY <1>3 DEF append, TornAppend
  <2>2. /\ e \notin Content(backup) /\ log'[l].ok \subseteq log[l].ok \cup {e}
        /\ \A k \in Logs \ {l} : log'[k] = log[k]
    BY <1>1, <1>3, AppendIs, AppendIsUnknown DEF Pair
  <2>3. log[l].ok \cap Content(backup) = {}
    BY <1>1, <2>1 DEF Pair, shouldReplayCurrentLog
  <2> QED BY <1>1, <2>1, <2>2, <2>3 DEF Pair, Content, shouldReplayCurrentLog
<1>4. ASSUME NEW l \in Logs, ArchiveLog(l) PROVE Pair'
  <2>1. /\ pc = "archiving" /\ pc' = "archiving" /\ todo' = todo \ {l} /\ ~LeftBehind(l)
        /\ UNCHANGED <<log, snapshot, backup, acked>>
    BY <1>4 DEF ArchiveLog
  <2> QED BY <1>1, <2>1 DEF Pair, Content, LeftBehind
<1>5. ASSUME NEW l \in Logs, TruncateLog(l) PROVE Pair'
  <2>1. /\ pc = "truncating" /\ pc' = "truncating" /\ log' = [log EXCEPT ![l] = Empty]
        /\ UNCHANGED <<archive, snapshot, backup, acked>>
    BY <1>5 DEF TruncateLog
  <2>2. \A k \in Logs : log'[k] = log[k] \/ log'[k].ok = {}
    BY <1>1, <2>1 DEF Empty
  <2> QED BY <1>1, <2>1, <2>2 DEF Pair, Content, shouldReplayCurrentLog
<1>6. CASE BackupSnapshot
  <2>1. /\ pc = "archiving" /\ todo = {} /\ pc' = "publishing" /\ UNCHANGED <<log, snapshot, acked>>
        /\ backup' = IF snapshot = NoFile THEN backup ELSE snapshot
    BY <1>6 DEF BackupSnapshot
  <2>2. \A l \in Logs : log[l].ok \cap Content(snapshot) = {}
    BY <1>1, <2>1 DEF Pair
  <2>3. snapshot # NoFile => Content(backup)' = Content(snapshot)
    BY <2>1 DEF Content
  <2>4. snapshot = NoFile => Content(backup)' = {}
    BY <1>1, <2>1 DEF Pair, Content
  <2>5. Content(snapshot) \subseteq acked
    BY <1>1 DEF Fresh
  <2>6. Content(backup)' \subseteq acked' /\ (snapshot' = NoFile => Content(backup)' = {})
        /\ \A l \in Logs : log'[l].ok \cap Content(backup)' = {}
    BY <2>1, <2>2, <2>3, <2>4, <2>5
  <2> QED BY <2>1, <2>6 DEF Pair
<1>7. CASE PublishSnapshot
  <2>1. /\ pc = "publishing" /\ pc' = "truncating" /\ snapshot' = createSnapshot
        /\ UNCHANGED <<log, archive, backup, acked>>
    BY <1>7 DEF PublishSnapshot
  <2>2. snapshot' # NoFile
    BY <2>1, SnapshotType DEF EventStoreAssumption
  <2>3. \A l \in Logs : archive[l] = log[l] /\ log[l].ok \cap Content(backup) = {}
    BY <1>1, <2>1 DEF Fresh, Agree, Pair
  <2>4. Content(backup) \subseteq acked
    BY <1>1 DEF Pair
  <2>5. Content(backup)' = Content(backup)
    BY <2>1 DEF Content
  <2> QED BY <2>1, <2>2, <2>3, <2>4, <2>5 DEF Pair
<1>8. CASE EndCompact \/ Crash
  <2>1. /\ pc \in {"starting", "running", "truncating"} /\ pc' \in {"running", "down"}
        /\ UNCHANGED <<snapshot, backup, log, archive, acked>>
    BY <1>8 DEF EventStoreAssumption, EndCompact, Crash, NoKillBeforePublishing, TypeOK, Phases, files
  <2> QED BY <1>1, <2>1 DEF Pair, Content, shouldReplayCurrentLog
<1>9. CASE Ready \/ AppendFails \/ Shutdown \/ UNCHANGED vars
  <2>1. /\ UNCHANGED <<snapshot, backup, log, archive, acked>>
        /\ \/ pc' = pc /\ todo' = todo
           \/ pc \in {"starting", "running"} /\ pc' \in {"running", "down"}
           \/ pc' = "archiving" /\ todo' = Logs
    BY <1>9 DEF Ready, BeginCompact, AppendFails, Shutdown, vars, files
  <2> QED BY <1>1, <2>1 DEF Pair, Content, shouldReplayCurrentLog
<1> QED BY <1>2, <1>3, <1>4, <1>5, <1>6, <1>7, <1>8, <1>9 DEF Next

LEMMA HoldingAppend ==
  ASSUME EventStoreAssumption, TypeOK, OnlyAcked, OnlyWritten, Holding, NEW l \in Logs, append(l)
  PROVE  Holding'
<1> DEFINE e == <<l, written[l] + 1>>
<1>1. /\ pc = "running" /\ pc' = "running" /\ written[l] < MaxEvents
      /\ mem' = mem \cup {e} /\ acked' = acked \cup {e}
      /\ UNCHANGED <<archive, snapshot, backup, todo>>
  BY DEF append
<1>2. /\ \A x \in Needed' : x \in Needed \/ (x = e /\ ~log[l].torn)
      /\ e \notin acked /\ e \notin log[l].bad
      /\ archive[l] # NoFile => e \notin archive[l].ok \cup archive[l].bad
  BY <1>1, AppendIsNew
<1>3. /\ \A k \in Logs \ {l} : log'[k] = log[k]
      /\ log'[l].ok = (IF log[l].torn THEN log[l].ok ELSE log[l].ok \cup {e})
      /\ log'[l].bad = (IF log[l].torn THEN log[l].bad \cup {e} ELSE log[l].bad)
  BY AppendIs
<1>4. shouldReplayCurrentLog(l)'
  BY <1>1, <1>2, <1>3 DEF shouldReplayCurrentLog
<1>5. Needed' \subseteq mem'
  BY <1>1, <1>2 DEF Holding
<1>6. Outside'
  <2>1. ASSUME NEW x \in Needed' PROVE OnDisk(x)' /\ (snapshot # NoFile => Restorable(x)')
    <3>1. CASE x = e /\ ~log[l].torn
      BY <1>3, <1>4, <3>1 DEF OnDisk, Restorable
    <3>2. CASE x \in Needed
      <4>1. x[1] \in Logs /\ OnDisk(x) /\ (snapshot # NoFile => Restorable(x))
        BY <1>1, <3>2, NeededEvents DEF Holding, Outside
      <4>2. CASE x[1] = l
        BY <1>1, <1>3, <1>4, <4>1, <4>2 DEF OnDisk, Restorable, Archived, Content
      <4>3. CASE x[1] # l
        BY <1>1, <1>3, <4>1, <4>3 DEF OnDisk, Restorable, Archived, Content, shouldReplayCurrentLog
      <4> QED BY <4>2, <4>3
    <3> QED BY <1>2, <3>1, <3>2
  <2> QED BY <1>1, <2>1 DEF Outside
<1> QED BY <1>1, <1>5, <1>6 DEF Holding, Copying, Truncating

LEMMA HoldingTorn ==
  ASSUME EventStoreAssumption, TypeOK, OnlyAcked, OnlyWritten, Holding, NEW l \in Logs, TornAppend(l)
  PROVE  Holding'
<1> DEFINE e == <<l, written[l] + 1>>
<1>1. /\ pc = "running" /\ pc' = "down" /\ written[l] < MaxEvents
      /\ UNCHANGED <<archive, snapshot, backup, acked>>
  BY DEF TornAppend
<1>2. /\ e \notin log[l].bad /\ Needed' = Needed
      /\ archive[l] # NoFile => e \notin archive[l].ok \cup archive[l].bad
  BY <1>1, AppendIsNew DEF Needed, Kept, Excused
<1>3. /\ \A k \in Logs \ {l} : log'[k] = log[k]
      /\ log'[l].ok = log[l].ok /\ log'[l].bad = log[l].bad \cup {e}
  BY AppendIs
<1>4. shouldReplayCurrentLog(l)'
  BY <1>1, <1>2, <1>3 DEF shouldReplayCurrentLog
<1>5. Outside'
  <2>1. ASSUME NEW x \in Needed PROVE OnDisk(x)' /\ (snapshot # NoFile => Restorable(x)')
    <3>1. x[1] \in Logs /\ OnDisk(x) /\ (snapshot # NoFile => Restorable(x))
      BY <1>1, NeededEvents DEF Holding, Outside
    <3>2. CASE x[1] = l
      BY <1>1, <1>3, <1>4, <3>1, <3>2 DEF OnDisk, Restorable, Archived, Content
    <3>3. CASE x[1] # l
      BY <1>1, <1>3, <3>1, <3>3 DEF OnDisk, Restorable, Archived, Content, shouldReplayCurrentLog
    <3> QED BY <3>2, <3>3
  <2> QED BY <1>1, <1>2, <2>1 DEF Outside
<1> QED BY <1>1, <1>5 DEF Holding, Copying, Truncating

\* The steps of a compaction.
LEMMA HoldingCopy ==
  ASSUME TypeOK, Holding, (\E l \in Logs : ArchiveLog(l)) \/ BackupSnapshot
  PROVE  Holding'
<1>1. /\ pc = "archiving" /\ pc' \in {"archiving", "publishing"}
      /\ UNCHANGED <<mem, log, snapshot, acked>>
      /\ pc' = "publishing" => snapshot' = NoFile \/ backup' = snapshot'
  BY DEF ArchiveLog, BackupSnapshot
<1>2. Needed' = Needed
  BY <1>1 DEF Needed, Kept, Excused
<1> QED BY <1>1, <1>2 DEF Holding, Copying, Outside, Truncating, Content

LEMMA HoldingPublish ==
  ASSUME EventStoreAssumption, TypeOK, Fresh, Holding, PublishSnapshot
  PROVE  Holding'
<1>1. /\ pc = "publishing" /\ pc' = "truncating" /\ snapshot' = createSnapshot
      /\ UNCHANGED <<mem, log, archive, backup, acked>>
  BY DEF PublishSnapshot
<1>2. Content(snapshot)' = createSnapshot
  BY <1>1, SnapshotType, SetContent DEF Content
<1>3. Needed' = Needed /\ Needed \subseteq mem
  BY <1>1 DEF Holding, Needed, Kept, Excused
<1>4. Needed \subseteq createSnapshot
  BY <1>3, NeededEvents DEF createSnapshot
<1>5. ASSUME NEW e \in Needed PROVE Archived(e)'
  <2>1. e[1] \in Logs /\ (e \in Content(snapshot) \/ e \in log[e[1]].ok)
        /\ archive[e[1]] = log[e[1]] /\ (snapshot = NoFile \/ backup = snapshot)
    BY <1>1, NeededEvents DEF Holding, Copying, Fresh, Agree
  <2>2. archive[e[1]] # NoFile
    BY <2>1 DEF EventStoreAssumption, TypeOK
  <2>3. CASE e \in log[e[1]].ok
    BY <1>1, <2>1, <2>2, <2>3 DEF Archived
  <2>4. CASE e \in Content(snapshot)
    BY <1>1, <2>1, <2>4 DEF Archived, Content
  <2> QED BY <2>1, <2>3, <2>4
<1> QED BY <1>1, <1>2, <1>3, <1>4, <1>5 DEF Holding, Copying, Outside, Truncating

LEMMA HoldingTruncate ==
  ASSUME TypeOK, Holding, (\E l \in Logs : TruncateLog(l)) \/ EndCompact
  PROVE  Holding'
<1>1. /\ pc = "truncating" /\ pc' \in {"truncating", "running", "down"}
      /\ mem' = IF pc' = "down" THEN {} ELSE mem
      /\ UNCHANGED <<archive, snapshot, backup, acked>>
  BY DEF TruncateLog, EndCompact, TypeOK, files
<1>2. Needed' = Needed /\ (pc' # "down" => Needed' \subseteq mem')
  BY <1>1 DEF Holding, Needed, Kept, Excused
<1>3. \A e \in Needed : e \in Content(snapshot)' /\ Archived(e)'
  BY <1>1 DEF Holding, Truncating, Content, Archived
<1> QED BY <1>1, <1>2, <1>3 DEF Holding, Copying, Outside, Truncating, OnDisk, Restorable

LEMMA HoldingStart ==
  ASSUME EventStoreAssumption, TypeOK, Fresh, Plain, Holding, snapshot # Corrupt, Start
  PROVE  Holding'
<1>1. /\ pc = "down" /\ pc' = "starting" /\ mem' \in Restored(Content(snapshot), FALSE)
      /\ UNCHANGED <<log, archive, snapshot, backup, acked>>
  BY DEF Start
<1>2. mem' = Content(snapshot) \cup Replayed(FALSE)
  BY <1>1, ReplaysNew, RestoredIs
<1>3. Needed' = Needed
  BY <1>1 DEF Needed, Kept, Excused
<1>4. Needed \subseteq mem'
  <2>1. ASSUME NEW e \in Needed PROVE e \in Content(snapshot) \cup Replayed(FALSE)
    <3>1. e[1] \in Logs /\ OnDisk(e)
      BY <1>1, NeededEvents DEF Holding, Outside
    <3>2. CASE shouldReplayCurrentLog(e[1]) /\ e \in log[e[1]].ok
      BY <3>1, <3>2 DEF Replayed
    <3> QED BY <3>1, <3>2 DEF OnDisk
  <2> QED BY <1>2, <2>1
<1>5. \A e \in Needed : (OnDisk(e) <=> OnDisk(e)') /\ (Restorable(e) <=> Restorable(e)')
  BY <1>1 DEF OnDisk, Restorable, Archived, Content, shouldReplayCurrentLog
<1> QED BY <1>1, <1>3, <1>4, <1>5 DEF Holding, Copying, Outside, Truncating

\* Steps that leave the files alone.
LEMMA HoldingMove ==
  ASSUME EventStoreAssumption, NoKillBeforePublishing, TypeOK, Holding,
         Ready \/ AppendFails \/ Shutdown \/ Crash \/ UNCHANGED vars
  PROVE  Holding'
<1>1. /\ UNCHANGED <<log, archive, snapshot, backup, acked>>
      /\ pc' # "down" => pc # "down" /\ mem' = mem
  BY DEF EventStoreAssumption, Ready, BeginCompact, AppendFails, Shutdown, Crash, vars, files
<1>2. Needed' = Needed
  BY <1>1 DEF Needed, Kept, Excused
<1>3. \/ pc' = pc
      \/ pc \in {"starting", "running"} /\ pc' = "archiving"
      \/ pc = "starting" /\ pc' = "running"
      \/ pc \in {"starting", "running", "truncating"} /\ pc' = "down"
  BY DEF EventStoreAssumption, Ready, BeginCompact, AppendFails, Shutdown, Crash, vars, TypeOK, Phases,
     NoKillBeforePublishing
<1>4. \A e \in Needed : /\ (OnDisk(e) <=> OnDisk(e)') /\ (Restorable(e) <=> Restorable(e)')
                        /\ (Archived(e) <=> Archived(e)') /\ Content(snapshot)' = Content(snapshot)
  BY <1>1 DEF OnDisk, Restorable, Archived, Content, shouldReplayCurrentLog
<1>5. pc' # "down" => Needed' \subseteq mem'
  BY <1>1, <1>2 DEF Holding
<1>6. Copying'
  <2>1. CASE pc' = pc
    BY <1>1, <1>2, <2>1 DEF Holding, Copying, Content
  <2>2. CASE pc \in {"starting", "running"} /\ pc' = "archiving"
    <3>1. \A e \in Needed : e \in Content(snapshot) \/ e \in log[e[1]].ok
      BY <2>2 DEF Holding, Outside, OnDisk
    <3> QED BY <1>1, <1>2, <2>2, <3>1 DEF Copying, Content
  <2> QED BY <1>3, <2>1, <2>2 DEF Copying
<1>7. Outside'
  <2>1. CASE pc \in {"down", "starting", "running"}
    BY <1>1, <1>2, <1>4, <2>1 DEF Holding, Outside
  <2>2. CASE pc = "truncating" /\ pc' = "down"
    BY <1>1, <1>2, <1>4, <2>2 DEF Holding, Truncating, OnDisk, Restorable, Outside
  <2>3. CASE pc' \notin {"down", "starting", "running"}
    BY <2>3 DEF Outside
  <2> QED BY <1>3, <2>1, <2>2, <2>3
<1>8. Truncating'
  BY <1>2, <1>3, <1>4 DEF Holding, Truncating
<1> QED BY <1>5, <1>6, <1>7, <1>8 DEF Holding

LEMMA IntactStep ==
  ASSUME EventStoreAssumption, NoKillBeforePublishing, TypeOK, TypeOK', OnlyAcked, Intact,
         [Next]_vars, ~CorruptSnapshot
  PROVE  Intact'
<1>1. OnlyWritten' /\ Fresh' /\ Pair'
  BY OnlyWrittenStep, FreshStep, PairStep DEF Intact
<1>2. snapshot' # Corrupt
  <2>1. CASE Start
    BY <2>1 DEF Start, Intact
  <2>2. CASE PublishSnapshot
    BY <2>2, SnapshotType DEF EventStoreAssumption, PublishSnapshot
  <2>3. CASE ~Start /\ ~PublishSnapshot
    BY <2>3 DEF Intact, Next, Ready, AppendFails, Shutdown, append, TornAppend, ArchiveLog, TruncateLog,
       BackupSnapshot, EndCompact, Crash, vars, files
  <2> QED BY <2>1, <2>2, <2>3
<1>3. ASSUME Plain' PROVE Holding'
  <2>0. Plain /\ Holding /\ OnlyWritten /\ Fresh /\ snapshot # Corrupt
    BY <1>3, MixedStays DEF Intact
  <2>1. CASE \E l \in Logs : append(l)
    BY <2>0, <2>1, HoldingAppend
  <2>2. CASE \E l \in Logs : TornAppend(l)
    BY <2>0, <2>2, HoldingTorn
  <2>3. CASE (\E l \in Logs : ArchiveLog(l)) \/ BackupSnapshot
    BY <2>0, <2>3, HoldingCopy
  <2>4. CASE PublishSnapshot
    BY <2>0, <2>4, HoldingPublish
  <2>5. CASE (\E l \in Logs : TruncateLog(l)) \/ EndCompact
    BY <2>0, <2>5, HoldingTruncate
  <2>6. CASE Start
    BY <2>0, <2>6, HoldingStart
  <2>7. CASE Ready \/ AppendFails \/ Shutdown \/ Crash \/ UNCHANGED vars
    BY <2>0, <2>7, HoldingMove
  <2> QED BY <2>1, <2>2, <2>3, <2>4, <2>5, <2>6, <2>7 DEF Next
<1> QED BY <1>1, <1>2, <1>3 DEF Intact

LEMMA WornInit ==
  ASSUME EventStoreAssumption
  PROVE  Init => WornInv
<1> SUFFICES ASSUME Init PROVE WornInv
  OBVIOUS
<1>1. TypeOK /\ Fresh /\ Needed = {} /\ snapshot # Corrupt
  BY TypeCorrectInit, FreshInit DEF EventStoreAssumption, Init, Needed, Kept
<1>2. OnlyAcked /\ OnlyWritten
  BY DEF EventStoreAssumption, Init, OnlyAcked, OnlyWritten, Empty
<1>3. Pair
  BY DEF EventStoreAssumption, Init, Pair, Content, Empty
<1> QED BY <1>1, <1>2, <1>3 DEF Init, WornInv, Intact, Holding, Copying, Outside, Truncating

LEMMA WornStep ==
  ASSUME EventStoreAssumption, NoKillBeforePublishing, WornInv, [Next]_vars
  PROVE  WornInv'
<1>1. TypeOK /\ TypeOK' /\ OnlyAcked /\ OnlyAcked'
  BY TypeCorrectStep, OnlyAckedStep DEF WornInv
<1>2. CASE CorruptSnapshot
  <2>1. /\ pc = "down" /\ snapshot \notin {NoFile, Corrupt} /\ corruptions' = corruptions + 1
        /\ UNCHANGED <<pc, log, archive, backup, acked, mixed>>
    BY <1>2 DEF CorruptSnapshot
  <2>2. corruptions \in Nat /\ corruptions' # 0 /\ (corruptions' = 1 => corruptions = 0)
    BY <1>1, <2>1 DEF TypeOK
  <2>3. Needed' = Needed /\ Replayed(TRUE)' = Replayed(TRUE) /\ Content(backup)' = Content(backup)
    BY <2>1 DEF Needed, Kept, Excused, Replayed, shouldReplayCurrentLog, Content
  <2>4. ASSUME corruptions = 0, mixed = {} PROVE Restores'
    <3>1. \A e \in Needed : Restorable(e)'
      BY <2>1, <2>4 DEF WornInv, Intact, Plain, Holding, Outside, Restorable, Archived, Content, shouldReplayCurrentLog
    <3>2. Content(backup) \cap Replayed(TRUE) = {}
      BY <2>1, <2>4 DEF WornInv, Intact, Pair, Replayed
    <3> QED BY <2>3, <3>1, <3>2 DEF Restores
  <2> QED BY <1>1, <2>1, <2>2, <2>4 DEF WornInv
<1>3. CASE ~CorruptSnapshot
  <2>1. corruptions' = corruptions
    BY <1>3 DEF Next, Start, Ready, AppendFails, Shutdown, append, TornAppend, ArchiveLog, TruncateLog,
         BackupSnapshot, PublishSnapshot, EndCompact, Crash, vars
  <2>2. snapshot' = Corrupt => UNCHANGED vars
    <3>1. CASE Start
      BY <3>1 DEF EventStoreAssumption, Start
    <3>2. CASE PublishSnapshot
      BY <1>1, <3>2, SnapshotType DEF EventStoreAssumption, PublishSnapshot
    <3>3. CASE ~Start /\ ~PublishSnapshot /\ ~UNCHANGED vars
      <4>1. pc # "down" /\ snapshot' = snapshot
        BY <1>3, <3>3 DEF EventStoreAssumption, Next, Ready, AppendFails, Shutdown, append, TornAppend, ArchiveLog,
           TruncateLog, BackupSnapshot, EndCompact, Crash, files
      <4> QED BY <4>1 DEF WornInv
    <3> QED BY <3>1, <3>2, <3>3
  <2>3. ASSUME UNCHANGED vars PROVE WornInv'
    BY <1>1, <2>3 DEF vars, files, WornInv, Intact, OnlyWritten, Fresh, Agree, Pair, Plain, Holding, Copying, Outside,
       Truncating, Needed, Kept, Excused, Archived, Restorable, Restores, OnDisk, Content, Replayed,
       shouldReplayCurrentLog
  <2>4. corruptions = 0 => Intact'
    BY <1>1, <1>3, IntactStep DEF WornInv
  <2> QED BY <1>1, <2>1, <2>2, <2>3, <2>4 DEF WornInv
<1> QED BY <1>2, <1>3

\* What is not needed was appended right behind a torn line.
LEMMA NeededIsAll ==
  ASSUME NEW events, Needed \subseteq events
  PROVE  MissesOnlyBehindTorn(events)
BY DEF Needed, Excused, MissesOnlyBehindTorn

\* However many appends die half way, and however often the store stops, restarts or
\* compacts: each costs at most itself and the append that follows it in the same log
\* (event-store.ts append, compact, replayLogs), unless a kill falls between archiving
\* and publishing, or something was appended to a log that a kill kept from being
\* truncated.
THEOREM TornCostsAtMostNext ==
  ASSUME EventStoreAssumption, NoKillBeforePublishing
  PROVE  Spec => []TornCostsNext
<1>1. WornInv => TornCostsNext
  <2> SUFFICES ASSUME WornInv, pc = "running", corruptions = 0, Plain PROVE MissesOnlyBehindTorn(mem)
    BY DEF TornCostsNext, Plain
  <2>1. Needed \subseteq mem
    BY DEF WornInv, Intact, Holding
  <2> QED BY <2>1, NeededIsAll
<1>2. Init => WornInv
  BY WornInit
<1>3. WornInv /\ [Next]_vars => WornInv'
  BY WornStep
<1> QED BY <1>1, <1>2, <1>3, PTL DEF Spec

\* The first start that finds its snapshot unreadable sees, in the backup and the archives
\* with the logs since then, whatever the lost snapshot held (event-store.ts loadSnapshot,
\* replayLogs), unless a kill falls between archiving and publishing, or a log that a kill
\* kept from being truncated was appended to or archived.
THEOREM BackupRecovers ==
  ASSUME EventStoreAssumption, NoKillBeforePublishing
  PROVE  Spec => RecoversFromBackup
<1>1. ASSUME WornInv, [Next]_vars, snapshot = Corrupt, corruptions = 1, mixed = {}, pc' = "starting"
      PROVE  MissesOnlyBehindTorn(mem')
  <2>1. pc = "down" /\ Restores
    BY <1>1 DEF WornInv
  <2>2. Start
    BY <1>1, <2>1 DEF EventStoreAssumption, Next, Ready, AppendFails, Shutdown, append, TornAppend, ArchiveLog,
       TruncateLog, BackupSnapshot, PublishSnapshot, EndCompact, Crash, CorruptSnapshot, vars
  <2>3. mem' \in Restored(Content(backup), TRUE) /\ acked' = acked
    BY <1>1, <2>2 DEF Start
  <2>4. Content(backup) \cup Replayed(TRUE) \subseteq mem'
    BY <2>1, <2>3, RestoredIs DEF Restores
  <2>5. ASSUME NEW e \in Needed PROVE e \in mem'
    <3>1. e[1] \in Logs /\ Restorable(e)
      BY <1>1, <2>1, NeededEvents DEF WornInv, Restores
    <3>2. e \in Content(backup) \/ e \in Replayed(TRUE)
      BY <3>1 DEF Restorable, Archived, Replayed
    <3> QED BY <2>4, <3>2
  <2>6. ASSUME NEW events, events = mem' PROVE MissesOnlyBehindTorn(events)
    BY <2>5, <2>6, NeededIsAll
  <2> QED BY <2>3, <2>6 DEF MissesOnlyBehindTorn, Kept
<1>2. WornInv /\ [Next]_vars
      => [snapshot = Corrupt /\ corruptions = 1 /\ mixed = {} /\ pc' = "starting" => MissesOnlyBehindTorn(mem')]_vars
  BY <1>1
<1>3. Init => WornInv
  BY WornInit
<1>4. WornInv /\ [Next]_vars => WornInv'
  BY WornStep
<1> QED BY <1>2, <1>3, <1>4, PTL DEF Spec, RecoversFromBackup
=============================================================================
