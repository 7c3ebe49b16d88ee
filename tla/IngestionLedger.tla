-------------------------- MODULE IngestionLedger --------------------------
(***************************************************************************)
(* What the gateway promises of ingestion, with no worker, file or retry:  *)
(* a message enters the ledger once, in one step, together with every      *)
(* attachment it should deliver, and what has been delivered can be read   *)
(* back for ever.                                                          *)
(***************************************************************************)
CONSTANTS
    Messages,    \* message identifiers
    Expected     \* [Messages -> set of [slot, data] records it must deliver]

VARIABLES
    ingested,    \* messages the ledger says are done
    available    \* [msg, slot, data] records whose bytes can be read back

Delivery(m) == {[msg |-> m, slot |-> e.slot, data |-> e.data] : e \in Expected[m]}

Init == ingested = {} /\ available = {}

Ingest(m) ==
    /\ m \notin ingested
    /\ ingested' = ingested \cup {m}
    /\ available' = available \cup Delivery(m)

Next == \E m \in Messages : Ingest(m)

Spec == Init /\ [][Next]_<<ingested, available>>

=============================================================================
