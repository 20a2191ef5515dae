----------------------------- MODULE ChatCatalog -----------------------------
(***************************************************************************)
(* The workspaces and chats of the store (src/src/server/event-store.ts):  *)
(* the operations that append their events through one chain of writes,    *)
(* what each event does to the state, the transcript files with the byte   *)
(* offset their metadata covers, forks, the pruning of stale empty chats,  *)
(* and the restart that replays the events in the order of their times.    *)
(* EventStore models how the files survive; here they always do.           *)
(*                                                                         *)
(* One directory is opened as workspace, under one or more ids.  The       *)
(* outcome of the last turn stands for every field that an event just sets *)
(* (title, pin, provider, preferences, plan mode, tokens, transport); a    *)
(* chat has at most one queued message.  Entry times, statistics, legacy   *)
(* transcripts and the sidebar order are left out.                         *)
(***************************************************************************)
EXTENDS Naturals, Sequences, SequencesExt, FiniteSets, TLC

CONSTANTS Chats, Projects,   \* ids, in the order in which they are taken (numbers of their own each)
          MaxCalls,          \* bound on operations
          MaxTime,           \* bound on the clock
          MaxAge,            \* ticks after which an empty chat is stale (30 minutes)
          MaxStops,          \* bound on restarts
          None

\* What the state knows of a chat.
ChatRecord == [project : Projects, created : Nat, unread : BOOLEAN, outcome : {None, "cancelled", "success"},
               archived : BOOLEAN, deleted : BOOLEAN, token : BOOLEAN, has : BOOLEAN, offset : Nat]

CatalogAssumption ==
  /\ Chats \subseteq Nat /\ Projects \subseteq Nat /\ Chats \cap Projects = {}
  /\ IsFiniteSet(Chats) /\ Chats # {} /\ Projects # {} /\ None \notin ChatRecord
  /\ {MaxCalls, MaxTime, MaxAge, MaxStops} \subseteq Nat

VARIABLES
  mem,          \* the state in memory
  transcripts,  \* chat -> entries in its transcript file
  log,          \* the events on disk since the snapshot, in the order of their appends
  snapshot,     \* the state of the last compaction
  chain,        \* writeChain: the writes that have not run
  poisoned,     \* a write was rejected: every later one is
  prune,        \* the chat that a pruning looks at, or None
  fork,         \* the fork under way, or None
  clock,
  taken,        \* the ids given so far
  counts,       \* calls and restarts so far
  pruned        \* chats that a pruning deleted: it removes their files next

vars == <<mem, transcripts, log, snapshot, chain, poisoned, prune, fork, clock, taken, counts, pruned>>
files == <<transcripts, log, snapshot>>

(***************************************************************************)
(* What the events do                                                      *)
(***************************************************************************)
Nothing == [projects |-> [p \in Projects |-> None], path |-> None,
            chats |-> [c \in Chats |-> None], queued |-> {}]

\* Project events; a reopened workspace loses its deletion mark.
applyProject(m, e) ==
  IF e.type = "project_opened"
  THEN [m EXCEPT !.projects[e.id] = [deleted |-> FALSE], !.path = e.id]
  ELSE [m EXCEPT !.projects[e.id].deleted = TRUE, !.path = None]

NewChat(e) == [project |-> e.arg, created |-> e.at, unread |-> FALSE, outcome |-> None, archived |-> FALSE,
               deleted |-> FALSE, token |-> FALSE, has |-> FALSE, offset |-> 0]

applyChat(chat, e) ==
  CASE e.type = "chat_deleted"    -> [chat EXCEPT !.deleted = TRUE]
    [] e.type = "chat_archived"   -> [chat EXCEPT !.archived = TRUE]
    [] e.type = "chat_unarchived" -> [chat EXCEPT !.archived = FALSE]
    [] e.type = "chat_read_state_set" -> [chat EXCEPT !.unread = e.arg]
    [] e.type = "pending_fork_session_token_set" -> [chat EXCEPT !.token = TRUE]
    [] e.type = "chat_transcript_metadata_set" -> [chat EXCEPT !.has = e.has, !.offset = e.arg]
    [] e.type = "turn_cancelled"  -> [chat EXCEPT !.outcome = "cancelled"]
    [] e.type = "turn_finished"   -> [chat EXCEPT !.outcome = "success", !.unread = TRUE]
    [] OTHER -> chat

\* A deleted chat forgets its queue, whatever is queued later stays.
applyQueue(queued, e) ==
  CASE e.type = "queued_message_enqueued" -> queued \cup {e.id}
    [] e.type \in {"queued_message_removed", "chat_deleted"} -> queued \ {e.id}
    [] OTHER -> queued

ProjectEvents == {"project_opened", "project_removed"}

\* Events of workspaces and chats the state does not know are passed over.
applyEvent(m, e) ==
  IF e.type \in ProjectEvents
  THEN IF e.type = "project_removed" /\ m.projects[e.id] = None THEN m ELSE applyProject(m, e)
  ELSE IF e.type = "chat_created" THEN [m EXCEPT !.chats[e.id] = NewChat(e)]
  ELSE IF m.chats[e.id] = None
  THEN IF e.type = "chat_deleted" THEN m ELSE [m EXCEPT !.queued = applyQueue(@, e)]
  ELSE [m EXCEPT !.chats[e.id] = applyChat(@, e), !.queued = applyQueue(@, e)]

getReplayEventPriority(e) ==
  CASE e.type \in ProjectEvents -> 0
    [] e.type = "chat_created" -> 1
    [] e.type = "chat_transcript_metadata_set" -> 3
    [] e.type \in {"queued_message_enqueued", "queued_message_removed"} -> 4
    [] e.type = "pending_fork_session_token_set" -> 6
    [] e.type = "turn_cancelled" -> 7
    [] e.type = "turn_finished" -> 8
    [] e.type = "chat_read_state_set" -> 9
    [] OTHER -> 10

\* Events of the same time are replayed in the order of their kinds.
Precedes(events, i, j) ==
  LET e == events[i]  f == events[j]
      p == getReplayEventPriority(e)  q == getReplayEventPriority(f) IN
  \/ e.at < f.at
  \/ e.at = f.at /\ p < q
  \/ e.at = f.at /\ p = q /\ i < j

\* Mutant of replayLogs: the log of the chats, then the log of the turns.
replayLogByLog(state, events) ==
  LET turn(e) == e.type \in {"turn_cancelled", "turn_finished", "pending_fork_session_token_set"} IN
  FoldLeft(applyEvent, state, SelectSeq(events, LAMBDA e : ~turn(e)) \o SelectSeq(events, turn))

Latest(events, S) == CHOOSE i \in S : \A j \in S \ {i} : Precedes(events, j, i)

\* Every event is applied behind those that precede it.
replayLogs(state, events) ==
  LET replayed[S \in SUBSET DOMAIN events] ==
        IF S = {} THEN state ELSE applyEvent(replayed[S \ {Latest(events, S)}], events[Latest(events, S)])
  IN replayed[DOMAIN events]

-----------------------------------------------------------------------------
\* A start behind a compaction, with one workspace and one chat that has run a turn.
Compacted ==
  LET p == CHOOSE p \in Projects : TRUE
      c == CHOOSE c \in Chats : TRUE
      Was(type, id, arg) == [type |-> type, id |-> id, arg |-> arg, has |-> TRUE, at |-> 0] IN
  replayLogs(Nothing, <<Was("project_opened", p, None), Was("chat_created", c, p),
                        Was("chat_transcript_metadata_set", c, 1), Was("turn_finished", c, None)>>)

Init ==
  /\ mem \in {Nothing, Compacted} /\ snapshot = mem
  /\ transcripts = [c \in Chats |-> IF mem.chats[c] = None THEN 0 ELSE mem.chats[c].offset]
  /\ log = <<>> /\ chain = <<>> /\ poisoned = FALSE
  /\ prune = None /\ fork = None
  /\ clock = 1 /\ taken = {i \in Projects : mem.projects[i] # None} \cup {i \in Chats : mem.chats[i] # None}
  /\ counts = [calls |-> 0, stops |-> 0]
  /\ pruned = {}

Live(p) == mem.projects[p] # None /\ ~mem.projects[p].deleted
getChat(c) == mem.chats[c] # None /\ ~mem.chats[c].deleted

Event(type, id, arg) == [kind |-> "event", type |-> type, id |-> id, arg |-> arg, at |-> clock]

\* Ids are random; here they are taken in order.
FreshChats == Chats \ taken
FreshProjects == Projects \ taken
Least(S) == CHOOSE x \in S : \A y \in S : x <= y

(***************************************************************************)
(* The operations, up to the write they put on the chain                   *)
(***************************************************************************)
Called ==
  /\ ~poisoned /\ counts.calls < MaxCalls
  /\ counts' = [counts EXCEPT !.calls = @ + 1]
append(e) == chain' = Append(chain, e)
Only == UNCHANGED <<mem, files, poisoned, prune, fork, clock, pruned>>
Call(e) == Called /\ append(e) /\ Only /\ UNCHANGED taken
Create(e) == Called /\ append(e) /\ Only /\ taken' = taken \cup {e.id}

\* The directory is open, or hidden and opened again, or new.
openProject ==
  /\ ~(mem.path # None /\ Live(mem.path))
  /\ LET hidden == {p \in Projects : mem.projects[p] # None /\ mem.projects[p].deleted}
         ids == IF hidden # {} THEN hidden ELSE FreshProjects IN
     ids # {} /\ Create(Event("project_opened", Least(ids), None))

removeProject(p) == Live(p) /\ Call(Event("project_removed", p, None))

createChat(p) ==
  /\ Live(p) /\ FreshChats # {}
  /\ Create(Event("chat_created", Least(FreshChats), p))

ChatCall(c) ==
  getChat(c) /\ \E type \in {"chat_deleted", "chat_archived", "chat_unarchived"} : Call(Event(type, c, None))

\* A turn ends behind its prompt.
recordTurn(c) ==
  getChat(c) /\ mem.chats[c].has /\ \E type \in {"turn_cancelled", "turn_finished"} : Call(Event(type, c, None))

setChatReadState(c) ==
  getChat(c) /\ mem.chats[c].unread /\ Call(Event("chat_read_state_set", c, FALSE))

enqueueMessage(c) ==
  getChat(c) /\ c \notin mem.queued /\ Call(Event("queued_message_enqueued", c, None))
removeQueuedMessage(c) ==
  getChat(c) /\ c \in mem.queued /\ Call(Event("queued_message_removed", c, None))

appendMessage(c) ==
  getChat(c) /\ \E prompt \in BOOLEAN : Call([kind |-> "message", id |-> c, prompt |-> prompt])

-----------------------------------------------------------------------------
(* forkChat: the chat is created, takes over its source's session, and gets a *)
(* copy of its transcript, which only goes with a chat that never ran.        *)

forkChat(c) ==
  /\ getChat(c) /\ (mem.chats[c].outcome # None \/ mem.chats[c].token)
  /\ fork = None /\ FreshChats # {} /\ Called /\ taken' = taken \cup {Least(FreshChats)}
  /\ append(Event("chat_created", Least(FreshChats), mem.chats[c].project))
  /\ fork' = [source |-> c, id |-> Least(FreshChats), step |-> "created"]
  /\ UNCHANGED <<mem, files, poisoned, prune, clock, pruned>>

ForkAt(step) == fork # None /\ fork.step = step
ForkKeeps == UNCHANGED <<mem, files, poisoned, prune, clock, taken, counts, pruned>>

\* setPendingForkSessionToken, after the preferences, mode and transport; a fork
\* deleted meanwhile ends with an error.
ForkToken ==
  /\ ForkAt("created") /\ mem.chats[fork.id] # None
  /\ IF getChat(fork.id)
     THEN append(Event("pending_fork_session_token_set", fork.id, None)) /\ fork' = [fork EXCEPT !.step = "token"]
     ELSE fork' = None /\ UNCHANGED chain
  /\ ForkKeeps

\* waitForPendingWrites, then the size of the source's transcript.
ForkCopy ==
  /\ ForkAt("token") /\ chain = <<>>
  /\ IF transcripts[fork.source] = 0 THEN fork' = None /\ UNCHANGED chain
     ELSE /\ append([kind |-> "copy", id |-> fork.id, source |-> fork.source])
          /\ fork' = None
  /\ ForkKeeps

-----------------------------------------------------------------------------
(* pruneStaleEmptyChats *)

\* A chat without messages, older than the limit; chats with active turns or drafts
\* are spared.
Stale(c) ==
  /\ getChat(c) /\ ~mem.chats[c].archived /\ ~mem.chats[c].has
  /\ clock - mem.chats[c].created >= MaxAge

\* The file is looked at behind the writes under way ...
PruneLooks(c) ==
  /\ prune = None /\ Stale(c) /\ ~poisoned
  /\ prune' = c
  /\ append([kind |-> "look", id |-> c, at |-> clock])
  /\ UNCHANGED <<mem, files, poisoned, fork, clock, taken, counts, pruned>>

\* ... the transcript goes once the deletion is written.
PruneRemoves ==
  /\ prune # None /\ mem.chats[prune].deleted /\ prune \in pruned
  /\ transcripts' = [transcripts EXCEPT ![prune] = 0]
  /\ prune' = None
  /\ UNCHANGED <<mem, log, snapshot, chain, poisoned, fork, clock, taken, counts, pruned>>

(***************************************************************************)
(* The chain of writes                                                     *)
(***************************************************************************)
Metadata(c) == [kind |-> "event", type |-> "chat_transcript_metadata_set", id |-> c, has |-> mem.chats[c].has,
                arg |-> transcripts[c], at |-> clock]

Runs(kind) == ~poisoned /\ chain # <<>> /\ Head(chain).kind = kind
Rest == Tail(chain)

RunEvent ==
  /\ Runs("event")
  /\ log' = Append(log, Head(chain))
  /\ mem' = applyEvent(mem, Head(chain))
  /\ chain' = Rest
  /\ UNCHANGED <<transcripts, snapshot, poisoned, prune, fork, clock, taken, counts, pruned>>

\* applyMessageMetadata
Written(c) == IF mem.chats[c] = None THEN mem ELSE [mem EXCEPT !.chats[c].has = TRUE]

\* The entry is in the transcript; a prompt has its metadata saved as well.
RunMessage ==
  LET w == Head(chain) IN
  /\ Runs("message")
  /\ transcripts' = [transcripts EXCEPT ![w.id] = @ + 1]
  /\ mem' = Written(w.id)
  /\ chain' = IF w.prompt THEN <<[kind |-> "metadata", id |-> w.id]>> \o Rest ELSE Rest
  /\ UNCHANGED <<log, snapshot, poisoned, prune, fork, clock, taken, counts, pruned>>

RunCopy ==
  LET w == Head(chain) IN
  /\ Runs("copy")
  /\ transcripts' = [transcripts EXCEPT ![w.id] = transcripts[w.source]]
  /\ mem' = Written(w.id)
  /\ chain' = <<[kind |-> "metadata", id |-> w.id]>> \o Rest
  /\ UNCHANGED <<log, snapshot, poisoned, prune, fork, clock, taken, counts, pruned>>

\* A write is rejected, and with it everything behind: writeChain stays rejected.
Reject ==
  /\ poisoned' = TRUE /\ chain' = <<>> /\ prune' = None /\ fork' = None
  /\ UNCHANGED <<mem, files, clock, taken, counts, pruned>>

\* persistTranscriptMetadata requires the chat: it was deleted while the prompt waited.
MetadataFails == Runs("metadata") /\ ~getChat(Head(chain).id) /\ Reject

RunMetadata ==
  LET c == Head(chain).id IN
  /\ Runs("metadata") /\ getChat(c)
  /\ log' = Append(log, Metadata(c)) /\ mem' = applyEvent(mem, Metadata(c))
  /\ chain' = Rest
  /\ UNCHANGED <<transcripts, snapshot, poisoned, prune, fork, clock, taken, counts, pruned>>

\* captureTranscriptEnd of the pruning: an empty chat's deletion goes to the end of
\* the chain.
RunLook ==
  LET c == Head(chain).id IN
  /\ Runs("look")
  /\ IF transcripts[c] > 0
     THEN /\ mem' = [mem EXCEPT !.chats[c].has = TRUE]
          /\ chain' = Rest /\ prune' = None /\ UNCHANGED pruned
     ELSE /\ chain' = Append(Rest, [Event("chat_deleted", c, None) EXCEPT !.at = Head(chain).at])
          /\ pruned' = pruned \cup {c} /\ UNCHANGED <<mem, prune>>
  /\ UNCHANGED <<files, poisoned, fork, clock, taken, counts>>

Tick == clock < MaxTime /\ clock' = clock + 1
        /\ UNCHANGED <<mem, files, chain, poisoned, prune, fork, taken, counts, pruned>>

(***************************************************************************)
(* Restarts                                                                *)
(***************************************************************************)
\* Mutant of restoreTranscriptMetadata: the saved metadata is taken for the truth.
trustMetadata(state) == state

\* What the transcripts say beyond the saved offsets.
restoreTranscriptMetadata(state) ==
  [state EXCEPT !.chats = [c \in Chats |->
     LET chat == state.chats[c] IN
     IF chat = None \/ chat.deleted \/ chat.offset = transcripts[c] THEN chat
     ELSE [chat EXCEPT !.has = TRUE, !.offset = transcripts[c]]]]

\* What was deleted is not in a snapshot.
createSnapshot(state) ==
  LET Kept(x) == IF x # None /\ x.deleted THEN None ELSE x IN
  [state EXCEPT !.projects = [p \in Projects |-> Kept(@[p])], !.chats = [c \in Chats |-> Kept(@[c])]]

\* The paths of a snapshot are those of its workspaces, the last one of a path wins.
loadSnapshot(state) ==
  LET live == {p \in Projects : state.projects[p] # None} IN
  [state EXCEPT !.path = IF live = {} THEN None ELSE CHOOSE p \in live : \A q \in live : q <= p]

\* The process ends, killed or after the compaction of a shutdown, and starts again;
\* a start compacts long logs.
Restart ==
  /\ counts.stops < MaxStops /\ counts' = [counts EXCEPT !.stops = @ + 1]
  /\ \E shutdown, startup \in BOOLEAN :
       LET saved == IF shutdown THEN createSnapshot(mem) ELSE snapshot
           events == IF shutdown THEN <<>> ELSE log
           replayed == replayLogs(loadSnapshot(saved), events)
           state == restoreTranscriptMetadata(replayed)
           restored == {c \in Chats : state.chats[c] # replayed.chats[c]}
           SetMetadata(c) == [kind |-> "event", type |-> "chat_transcript_metadata_set", id |-> c, has |-> TRUE,
                              arg |-> transcripts[c], at |-> clock] IN
       /\ shutdown => chain = <<>> /\ ~poisoned
       /\ mem' = state
       /\ snapshot' = IF startup THEN createSnapshot(state) ELSE saved
       /\ log' = IF startup THEN <<>>
                 ELSE events \o SetToSeq({SetMetadata(c) : c \in restored})
  /\ chain' = <<>> /\ poisoned' = FALSE /\ prune' = None /\ fork' = None
  /\ UNCHANGED <<transcripts, clock, taken, pruned>>

Next ==
  \/ openProject \/ \E p \in Projects : removeProject(p) \/ createChat(p)
  \/ \E c \in Chats : \/ ChatCall(c) \/ recordTurn(c) \/ setChatReadState(c) \/ enqueueMessage(c) \/ removeQueuedMessage(c)
                       \/ appendMessage(c) \/ forkChat(c) \/ PruneLooks(c)
  \/ ForkToken \/ ForkCopy \/ PruneRemoves
  \/ RunEvent \/ RunMessage \/ RunCopy \/ RunMetadata \/ MetadataFails \/ RunLook
  \/ Tick \/ Restart

Spec == Init /\ [][Next]_vars

(***************************************************************************)
(* Properties                                                              *)
(***************************************************************************)
\* Whatever mixes calls, deletions, forks and prunings: once nothing is pending, a chat
\* that claims to have no messages has an empty transcript, so that pruning it deletes
\* nothing (hasMessages, restoreTranscriptMetadata).
EmptyIsEmpty ==
  chain = <<>> => \A c \in Chats : getChat(c) /\ transcripts[c] > 0 => mem.chats[c].has

\* Two marks of one chat at the same time, of which the replay prefers the reader's
\* (getReplayEventPriority; event-store.test.ts, "read state").
Marks == {"turn_cancelled", "turn_finished", "chat_read_state_set"}
Tied(c) ==
  \E i, j \in DOMAIN log : /\ i < j /\ log[i].at = log[j].at /\ log[i].id = c /\ log[j].id = c
                          /\ {log[i].type, log[j].type} \subseteq Marks

\* What a user sees: the open workspace, the chats with their marks, the queue.
Shown(state, c) ==
  IF state.chats[c] = None \/ state.chats[c].deleted THEN None
  ELSE [project |-> state.chats[c].project, archived |-> state.chats[c].archived, token |-> state.chats[c].token,
        has |-> state.chats[c].has, queued |-> c \in state.queued]
Read(state, c) == <<state.chats[c].unread, state.chats[c].outcome>>

\* A restart, after a kill or a shutdown, shows the workspaces and chats that were shown
\* before: the replay in the order of times, over several logs and a snapshot, comes
\* to the state that the appends in the order of the chain had reached.
RestartKeepsTheCatalog ==
  [][Restart =>
       /\ \A p \in Projects : Live(p) <=> (mem'.projects[p] # None /\ ~mem'.projects[p].deleted)
       /\ \A c \in Chats : /\ Shown(mem', c) = Shown(mem, c)
                           /\ getChat(c) /\ ~Tied(c) => Read(mem', c) = Read(mem, c)]_vars
=============================================================================
