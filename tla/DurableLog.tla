----------------------------- MODULE DurableLog -----------------------------
(***************************************************************************)
(* What a store of events promises its callers, with no files in sight: an *)
(* acknowledged event is part of the store for good, and while the store   *)
(* is open it shows exactly the acknowledged events, each of them once.    *)
(* The promise ends for good with the first event that the store adds      *)
(* where it can no longer tell old lines from new ones; what it shows      *)
(* after that is still made of acknowledged events, but some may be        *)
(* hidden, and some shown again.                                           *)
(***************************************************************************)
CONSTANTS Items, Closed,
          Again   \* of an item: what it shows when it is applied once more

VARIABLES store,   \* the acknowledged events
          view,    \* what the open store shows, or Closed
          blurred  \* whether the promise has ended

Init == store = {} /\ view = Closed /\ ~blurred

Views == IF blurred THEN SUBSET (store \cup {Again[e] : e \in store}) ELSE {store}

Open == view = Closed /\ view' # Closed /\ view' \in Views /\ UNCHANGED <<store, blurred>>

Close == view # Closed /\ view' = Closed /\ UNCHANGED <<store, blurred>>

Add == /\ view # Closed
       /\ \E e \in Items : store' = store \cup {e} /\ view' = view \cup {e}
       /\ blurred => blurred'

\* A write that leaves the store as it is may end the promise too.
Blur == ~blurred /\ blurred' /\ view' \in {view, Closed} /\ UNCHANGED store

Next == Open \/ Close \/ Add \/ Blur

Spec == Init /\ [][Next]_<<store, view, blurred>>
=============================================================================
