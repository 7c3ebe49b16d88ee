----------------------------- MODULE MasterIndex -----------------------------
(***************************************************************************)
(* _refresh_master_index and update_master_index: every cycle of every     *)
(* process reads the Attachment rows, writes the catalogue to the one name *)
(* .tmp_INDEX.md and renames it to INDEX.md.  The files are inodes here: a *)
(* process that still has one open goes on writing to it under its new     *)
(* name.                                                                   *)
(***************************************************************************)
EXTENDS Integers, FiniteSets

CONSTANTS
    Processes,
    Rows,        \* Attachment rows that get committed
    Inodes,      \* bound: files that exist at a time; two per name are enough
    None,
    MaxCrashes

ASSUME IndexAssumption ==
    /\ None \notin Inodes /\ MaxCrashes \in Nat
    /\ IsFiniteSet(Inodes) /\ IsFiniteSet(Processes)
    /\ Cardinality(Inodes) >= Cardinality(Processes) + 2

VARIABLES
    rows,        \* committed to the ledger
    content,     \* [Inodes -> [rows, whole]]
    tempName, indexName, \* the inode each name stands for, or None
    pc,          \* of each process: idle, open, fill, replace
    entries,     \* what get_all_attachments_for_index returned to it
    handle,      \* the inode it has open, or None
    raced,       \* history: two refreshes have overlapped
    crashes

vars == <<rows, content, tempName, indexName, pc, entries, handle, raced, crashes>>

Init ==
    /\ rows = {} /\ raced = FALSE /\ crashes = 0
    /\ content = [i \in Inodes |-> [rows |-> {}, whole |-> FALSE]]
    /\ tempName = None /\ indexName = None
    /\ pc = [p \in Processes |-> "idle"]
    /\ entries = [p \in Processes |-> {}]
    /\ handle = [p \in Processes |-> None]

Goto(p, l) == pc' = [pc EXCEPT ![p] = l]
Refreshing == {p \in Processes : pc[p] # "idle"}
Used == {tempName, indexName} \cup {handle[p] : p \in Processes}

Fresh == CHOOSE i \in Inodes : i \notin Used

(* The rest of the cycle commits attachments. *)
CommitRow(r) ==
    /\ r \notin rows
    /\ rows' = rows \cup {r}
    /\ UNCHANGED <<content, tempName, indexName, pc, entries, handle, crashes, raced>>

(* Mutant: the rows are queried once and kept. *)
QueryCached(p) ==
    /\ pc[p] = "idle" /\ rows # {}
    /\ entries' = [entries EXCEPT ![p] = IF @ = {} THEN rows ELSE @]
    /\ raced' = (raced \/ Refreshing # {})
    /\ Goto(p, "open")
    /\ UNCHANGED <<rows, content, tempName, indexName, handle, crashes>>

(* Mutant: only the rows that are not listed yet are queried. *)
QueryNew(p) ==
    /\ pc[p] = "idle" /\ rows # {}
    /\ entries' = [entries EXCEPT ![p] =
                     rows \ (IF indexName = None THEN {} ELSE content[indexName].rows)]
    /\ raced' = (raced \/ Refreshing # {})
    /\ Goto(p, "open")
    /\ UNCHANGED <<rows, content, tempName, indexName, handle, crashes>>

(* The query; with no rows there is nothing to refresh. *)
Query(p) ==
    /\ pc[p] = "idle" /\ rows # {}
    /\ entries' = [entries EXCEPT ![p] = rows]
    /\ raced' = (raced \/ Refreshing # {})
    /\ Goto(p, "open")
    /\ UNCHANGED <<rows, content, tempName, indexName, handle, crashes>>

(* Mutant: an existing INDEX.md is rewritten in place. *)
OpenInPlace(p) ==
    /\ pc[p] = "open"
    /\ \E i \in IF indexName # None THEN {indexName} ELSE {Fresh} :
         /\ tempName' = IF indexName # None THEN tempName ELSE i
         /\ handle' = [handle EXCEPT ![p] = i]
         /\ content' = [content EXCEPT ![i] = [rows |-> {}, whole |-> FALSE]]
    /\ Goto(p, "fill")
    /\ UNCHANGED <<rows, indexName, entries, crashes, raced>>

(* write_text opens .tmp_INDEX.md and truncates it, or creates it. *)
OpenTemp(p) ==
    /\ pc[p] = "open"
    /\ \E i \in IF tempName # None THEN {tempName} ELSE {Fresh} :
         /\ tempName' = i
         /\ handle' = [handle EXCEPT ![p] = i]
         /\ content' = [content EXCEPT ![i] = [rows |-> {}, whole |-> FALSE]]
    /\ Goto(p, "fill")
    /\ UNCHANGED <<rows, indexName, entries, crashes, raced>>

(* ... and its lines are there once it is closed; behind them the end of   *)
(* what another process has written to the same inode meanwhile, if that   *)
(* is longer, having more rows.                                            *)
Fill(p) ==
    /\ pc[p] = "fill"
    /\ content' = [content EXCEPT ![handle[p]] =
                     [rows |-> entries[p], whole |-> @.rows \subseteq entries[p]]]
    /\ handle' = [handle EXCEPT ![p] = None]
    /\ Goto(p, "replace")
    /\ UNCHANGED <<rows, tempName, indexName, entries, crashes, raced>>

(* os.replace(temp_index, index_file) *)
ReplaceIndex(p) ==
    /\ pc[p] = "replace" /\ tempName # None
    /\ indexName' = tempName /\ tempName' = None
    /\ Goto(p, "idle")
    /\ UNCHANGED <<rows, content, entries, handle, crashes, raced>>

(* Another process has renamed the file: the warning is all that happens.  *)
ReplaceMissing(p) ==
    /\ pc[p] = "replace" /\ tempName = None
    /\ Goto(p, "idle")
    /\ UNCHANGED <<rows, content, tempName, indexName, entries, handle, crashes, raced>>

(* Mutant: a process that died is never replaced. *)
CrashForGood(p) ==
    /\ pc[p] # "idle"
    /\ crashes < MaxCrashes
    /\ crashes' = crashes + 1
    /\ Goto(p, "dead")
    /\ handle' = [handle EXCEPT ![p] = None]
    /\ UNCHANGED <<rows, content, tempName, indexName, entries, raced>>

Crash(p) ==
    /\ pc[p] # "idle"
    /\ crashes < MaxCrashes
    /\ crashes' = crashes + 1
    /\ Goto(p, "idle")
    /\ handle' = [handle EXCEPT ![p] = None]
    /\ UNCHANGED <<rows, content, tempName, indexName, entries, raced>>

Step(p) == Query(p) \/ OpenTemp(p) \/ Fill(p) \/ ReplaceIndex(p) \/ ReplaceMissing(p)

Next == (\E p \in Processes : Step(p) \/ Crash(p)) \/ \E r \in Rows : CommitRow(r)

Spec == Init /\ [][Next]_vars

(* Every cycle of the watcher ends with a refresh. *)
FairSpec == Spec /\ \A p \in Processes : WF_vars(Step(p))

-----------------------------------------------------------------------------
(* Every variable keeps its type.                                         *)
TypeOK ==
    /\ rows \subseteq Rows
    /\ content \in [Inodes -> [rows : SUBSET Rows, whole : BOOLEAN]]
    /\ {tempName, indexName} \subseteq Inodes \cup {None}
    /\ pc \in [Processes -> {"idle", "open", "fill", "replace"}]
    /\ entries \in [Processes -> SUBSET Rows]
    /\ handle \in [Processes -> Inodes \cup {None}]
    /\ raced \in BOOLEAN /\ crashes \in 0..MaxCrashes

Listed == IF indexName = None THEN {} ELSE content[indexName].rows

(* A reader of INDEX.md never gets a truncated catalogue, whoever crashed  *)
(* while writing it, as long as no two processes refresh it at one time    *)
(* (layout_manager.py 191-198).                                            *)
IndexWhole == (indexName # None /\ ~raced) => content[indexName].whole

(* Under the same condition the catalogue never forgets a row that it has  *)
(* listed, whichever process refreshes it: every refresh queries the       *)
(* ledger anew (engine.py 253, 373-375).                                   *)
IndexMonotonic == [][~raced' => Listed \subseteq Listed']_vars

(* However the refreshes of several processes get in each other's way, a   *)
(* committed row is listed in the end (engine.py 251-253).                 *)
RowsGetListed ==
    \A r \in Rows : r \in rows ~> (r \in Listed /\ content[indexName].whole)

(* layout_manager.py 191, "Atomic file write for index to prevent corrupt  *)
(* partial writes", with any number of processes.                          *)
NeverPartial == indexName # None => content[indexName].whole
==============================================================================
