------------------------------ MODULE MCRecords ------------------------------
(***************************************************************************)
(* What has been recorded stays, whatever dies or is lost: the files of    *)
(* the store (EventStore), under kills, shutdowns and rejected writes,     *)
(* where nothing may be lost, and under torn lines and an unreadable       *)
(* snapshot, where little may be; the catalog that is read from them       *)
(* (ChatCatalog); and what a browser's card has been told of an answer     *)
(* (AnswerDelivery).  A behaviour is of one of them.                       *)
(***************************************************************************)
EXTENDS EventStore, TLC

CONSTANTS WornLogs, WornEvents, WornCorruptions, WornFaults,
          Chats, Projects, MaxCalls, MaxTime, MaxAge, MaxStops, None,
          CardSubs, MaxCardFaults

VARIABLES record,   \* what the behaviour is about: "sound" or "worn" files, "catalog" or "card"
          wpc, wafter, wtodo, wmem, wlog, warchive, wsnapshot, wbackup, wpoisoned, wwritten, wacked, wcorruptions,
          wmixed, state, transcripts, events, saved, chain, rejected, prune, fork, clock, taken, counts, pruned,
          status, latest, requests, dirty, toClient, client, used, sent, facts, faults

worn == <<wpc, wafter, wtodo, wmem, wlog, warchive, wsnapshot, wbackup, wpoisoned, wwritten, wacked, wcorruptions,
          wmixed>>
catalog == <<state, transcripts, events, saved, chain, rejected, prune, fork, clock, taken, counts, pruned>>
card == <<status, latest, requests, dirty, toClient, client, used, sent, facts, faults>>

Worn ==
  INSTANCE EventStore WITH
    Logs <- WornLogs, Journal <- {}, MaxEvents <- WornEvents,
    MaxCorruptions <- WornCorruptions, Faults <- WornFaults,
    pc <- wpc, after <- wafter, todo <- wtodo, mem <- wmem, log <- wlog, archive <- warchive,
    snapshot <- wsnapshot, backup <- wbackup, poisoned <- wpoisoned, written <- wwritten,
    acked <- wacked, corruptions <- wcorruptions, mixed <- wmixed

Catalog == INSTANCE ChatCatalog WITH mem <- state, log <- events, snapshot <- saved, poisoned <- rejected

Delivery == INSTANCE AnswerDelivery WITH Subs <- CardSubs, MaxFaults <- MaxCardFaults

ASSUME MCRecordsAssumption ==
  /\ EventStoreAssumption /\ Worn!EventStoreAssumption
  /\ Catalog!CatalogAssumption /\ Delivery!AnswerDeliveryAssumption

\* Whatever a behaviour is not about stays in one initial state.
MCInit ==
  /\ record \in {"sound", "worn", "catalog", "card"} /\ Init /\ Worn!Init /\ Catalog!Init /\ Delivery!Init
  /\ record # "catalog" => state = Catalog!Nothing
  /\ record # "card" => client.remote

MCNext ==
  \/ record = "sound" /\ Next /\ UNCHANGED <<record, worn, catalog, card>>
  \/ record = "worn" /\ Worn!Next /\ UNCHANGED <<record, vars, catalog, card>>
  \/ record = "catalog" /\ Catalog!Next /\ UNCHANGED <<record, vars, worn, card>>
  \/ record = "card" /\ Delivery!Next /\ UNCHANGED <<record, vars, worn, catalog>>

MCSpec == MCInit /\ [][MCNext]_<<record, vars, worn, catalog, card>>

Symmetry == Permutations(CardSubs)

\* The properties of a worn disk, of the catalog and of the card, stated in their modules.
TornCostsNextWorn == Worn!TornCostsNext
RecoversFromBackupWorn == Worn!RecoversFromBackup
EmptyIsEmpty == Catalog!EmptyIsEmpty
RestartKeepsTheCatalog == Catalog!RestartKeepsTheCatalog
Truthful == Delivery!Truthful
CardKeepsItsWord == Delivery!CardKeepsItsWord
=============================================================================
