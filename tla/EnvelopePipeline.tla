-------------------------- MODULE EnvelopePipeline --------------------------
(***************************************************************************)
(* EmailIngestionEngine._process_envelope: what one envelope goes through  *)
(* between the ledger's "not seen" and its commit, for any number of       *)
(* engine processes (Workers) that share the download tree, the quarantine *)
(* vault and the ledger database.                                          *)
(*                                                                         *)
(* Each worker stages the attachments one by one into the envelope's       *)
(* delivery folder, inspects them, moves threats to the vault, writes two  *)
(* context sidecars and commits one ledger transaction.  An exception      *)
(* unlinks the files the worker remembers having created; a crash forgets  *)
(* them.                                                                   *)
(***************************************************************************)
EXTENDS Integers, FiniteSets, Sequences, FileStore

CONSTANTS
    Workers,             \* engine processes: a watcher, a manual sync, ...
    Messages,            \* envelope ids the mailbox keeps offering
    Payloads,            \* attachment contents; equal payloads, equal SHA-256
    Bases,               \* stems of sanitised filenames
    Exts,                \* their extensions
    Attachments,         \* [Messages -> Seq(stub)], see StubType
    Senders, SenderOf,   \* [Messages -> Senders]
    Threads, ThreadOf,   \* [Messages -> Threads \cup {NoThread}]
    NoThread,            \* a thread_id that is empty or None
    Threats,             \* payloads the magic or archive inspection refuses
    Similar,             \* pairs of distinct payloads that are revisions
    QuarantineOnMismatch, \* settings.security.quarantine_on_mismatch
    MaxSuffix,           \* bound: the counter that disambiguates a filename
    MaxFaults,           \* bound: transient exceptions in a behaviour
    MaxCrashes,          \* bound: workers killed in a behaviour
    Vault, NoSha,        \* the quarantine directory; "no hash in the name"
    Sidecar, Report, Diff \* contents the pipeline writes itself

(* A filename: "invoice_2.pdf" is [base |-> invoice, tags |-> <<2>>, ...]. *)
NameType == [base : Bases, tags : Seq(Nat), ext : Exts]

(* An attachment stub: the name the sender gave it and what the sanitiser  *)
(* makes of that, what a download yields, whether the signature filter     *)
(* drops it, whether it fits the ceiling.                                  *)
StubType == [original : NameType, name : NameType, data : Payloads,
             signature : BOOLEAN, fits : BOOLEAN]

SidecarNames == {[base |-> "context", tags |-> <<>>, ext |-> "json"],
                 [base |-> "email_context", tags |-> <<>>, ext |-> "md"]}

ASSUME AttachmentsAssumption ==
    /\ Messages # {}
    /\ Attachments \in [Messages -> Seq(StubType)]
    /\ SenderOf \in [Messages -> Senders]
    /\ ThreadOf \in [Messages -> Threads \cup {NoThread}]
    /\ Threats \subseteq Payloads
    /\ {"context", "email_context"} \subseteq Bases
    /\ {"json", "md", "quarantine", "report.md", "diff"} \subseteq Exts
    /\ QuarantineOnMismatch \in BOOLEAN

ASSUME DistinctAssumption ==
    /\ Vault \notin Messages
    /\ {Sidecar, Report, Diff} \cap Payloads = {}
    /\ NoSha \notin Payloads
    /\ NoThread \notin Threads

ASSUME BoundsAssumption == {MaxSuffix, MaxFaults, MaxCrashes} \subseteq Nat

Slots(m) == DOMAIN Attachments[m]
Stub(m, i) == Attachments[m][i]

(* Where an attachment of m called n is delivered. *)
InFolder(m, n) == [dir |-> m, sha |-> NoSha, name |-> n]

(* The vault's names carry the hash and the stem, and not the message. *)
InVault(d, n, ext) == [dir |-> Vault, sha |-> d,
                       name |-> [base |-> n.base, tags |-> n.tags, ext |-> ext]]

DiffPath(m, n) == InFolder(m, [base |-> n.base, tags |-> n.tags, ext |-> "diff"])

PathType == [dir : Messages \cup {Vault}, sha : Payloads \cup {NoSha, Sidecar, Report, Diff},
             name : NameType]
FileType == [path : PathType, data : Payloads \cup {Sidecar, Report, Diff}]
RowType == [msg : Messages, slot : Nat, original : NameType, path : PathType,
            data : Payloads, status : {"CLEAN", "QUARANTINED"}, version : Nat]

VARIABLES
    disk,      \* the download tree and the vault
    ledger,    \* messages with a PROCESSED row
    rows,      \* committed Attachment rows
    alerts,    \* messages with a DUPLICATE_ANOMALY audit event
    pc,        \* where each worker is in _process_envelope
    msg,       \* the envelope it works on
    pending,   \* slots its current loop has not reached
    named,     \* staged_items and seen_filenames: [slot, name] records
    created,   \* created_disk_files
    recs,      \* downloaded_attachment_records
    orphans,   \* history: paths a crashed worker had created
    faults, crashes

shared == <<disk, ledger, rows, alerts>>
local == <<pc, msg, pending, named, created, recs>>
history == <<orphans, faults, crashes>>
vars == <<disk, ledger, rows, alerts, pc, msg, pending, named, created, recs,
          orphans, faults, crashes>>

Init ==
    /\ disk = {} /\ ledger = {} /\ rows = {} /\ alerts = {}
    /\ pc = [w \in Workers |-> "idle"]
    /\ msg = [w \in Workers |-> CHOOSE m \in Messages : TRUE]
    /\ pending = [w \in Workers |-> {}]
    /\ named = [w \in Workers |-> {}]
    /\ created = [w \in Workers |-> {}]
    /\ recs = [w \in Workers |-> {}]
    /\ orphans = {} /\ faults = 0 /\ crashes = 0

-----------------------------------------------------------------------------
(* Mutant: the ledger is not asked whether the message was processed.      *)
BeginUnchecked(w, m) ==
    /\ pc[w] = "idle"
    /\ pc' = [pc EXCEPT ![w] = "stage"]
    /\ msg' = [msg EXCEPT ![w] = m]
    /\ pending' = [pending EXCEPT ![w] = Slots(m)]
    /\ named' = [named EXCEPT ![w] = {}]
    /\ created' = [created EXCEPT ![w] = {}]
    /\ recs' = [recs EXCEPT ![w] = {}]
    /\ UNCHANGED <<shared, history>>

(* message_exists said no: the envelope enters the pipeline. *)
Begin(w, m) ==
    /\ pc[w] = "idle"
    /\ m \notin ledger
    /\ pc' = [pc EXCEPT ![w] = "stage"]
    /\ msg' = [msg EXCEPT ![w] = m]
    /\ pending' = [pending EXCEPT ![w] = Slots(m)]
    /\ named' = [named EXCEPT ![w] = {}]
    /\ created' = [created EXCEPT ![w] = {}]
    /\ recs' = [recs EXCEPT ![w] = {}]
    /\ UNCHANGED <<shared, history>>

(* The slot the current loop of w is at. *)
Current(w, i) == i \in pending[w] /\ \A j \in pending[w] : i <= j

Seen(w) == {r.name : r \in named[w]}

(* The decorative image of a signature is never downloaded. *)
FilterSignature(w) ==
    /\ pc[w] = "stage"
    /\ \E i \in pending[w] :
         /\ Current(w, i)
         /\ Stub(msg[w], i).signature
         /\ pending' = [pending EXCEPT ![w] = @ \ {i}]
    /\ UNCHANGED <<shared, history, pc, msg, named, created, recs>>

Suffixed(n, k) == [n EXCEPT !.tags = Append(@, k)]

(* A suffix the name loop of w would stop at: not used in this envelope,   *)
(* and no such file in its folder.                                         *)
FreeSuffix(w, n, k) ==
    /\ Suffixed(n, k) \notin Seen(w)
    /\ ~Exists(disk, InFolder(msg[w], Suffixed(n, k)))

(* Mutant: twins of one email keep one name. *)
NeverDisambiguated(w, n) == {n}

(* The first name is taken as it is even if the folder has such a file.    *)
Disambiguated(w, n) ==
    IF n \notin Seen(w) THEN {n}
    ELSE {Suffixed(n, k) : k \in {k \in 1..MaxSuffix :
             FreeSuffix(w, n, k) /\ \A j \in 1..(k - 1) : ~FreeSuffix(w, n, j)}}

ChooseName(w) ==
    /\ pc[w] = "stage"
    /\ \E i \in pending[w] :
         /\ Current(w, i)
         /\ ~Stub(msg[w], i).signature
         /\ \E n \in Disambiguated(w, Stub(msg[w], i).name) :
              named' = [named EXCEPT ![w] = @ \cup {[slot |-> i, name |-> n]}]
    /\ pc' = [pc EXCEPT ![w] = "download"]
    /\ UNCHANGED <<shared, history, msg, pending, created, recs>>

(* write_stream_atomically publishes the whole attachment, then the path   *)
(* is remembered for the rollback.                                         *)
Download(w) ==
    /\ pc[w] = "download"
    /\ \E r \in named[w] :
         LET p == InFolder(msg[w], r.name)
         IN /\ Current(w, r.slot)
            /\ Stub(msg[w], r.slot).fits
            /\ disk' = Put(disk, p, Stub(msg[w], r.slot).data)
            /\ created' = [created EXCEPT ![w] = @ \cup {p}]
            /\ pending' = [pending EXCEPT ![w] = @ \ {r.slot}]
            /\ orphans' = orphans \ {p}
    /\ pc' = [pc EXCEPT ![w] = "stage"]
    /\ UNCHANGED <<ledger, rows, alerts, msg, named, recs, faults, crashes>>

(* An attachment above the ceiling raises every time it is tried. *)
DownloadTooLarge(w) ==
    /\ pc[w] = "download"
    /\ \E r \in named[w] : Current(w, r.slot) /\ ~Stub(msg[w], r.slot).fits
    /\ pc' = [pc EXCEPT ![w] = "rollback"]
    /\ UNCHANGED <<shared, history, msg, pending, named, created, recs>>

(* detect_intra_message_duplicates over the staged items. *)
HasTwins(w) == \E r, s \in named[w] :
    r.slot # s.slot /\ Stub(msg[w], r.slot).data = Stub(msg[w], s.slot).data

EndStaging(w) ==
    /\ pc[w] = "stage"
    /\ pending[w] = {}
    /\ alerts' = IF HasTwins(w) THEN alerts \cup {msg[w]} ELSE alerts
    /\ pending' = [pending EXCEPT ![w] = {r.slot : r \in named[w]}]
    /\ pc' = [pc EXCEPT ![w] = "inspect"]
    /\ UNCHANGED <<disk, ledger, rows, history, msg, named, created, recs>>

-----------------------------------------------------------------------------
(* Mutant: local_storage_path gets the filename and not the path. *)
RowOfName(w, r, path, status, version) ==
    [msg |-> msg[w], slot |-> r.slot, original |-> Stub(msg[w], r.slot).original,
     path |-> r.name, data |-> Stub(msg[w], r.slot).data,
     status |-> status, version |-> version]

Row(w, r, path, status, version) ==
    [msg |-> msg[w], slot |-> r.slot, original |-> Stub(msg[w], r.slot).original,
     path |-> path, data |-> Stub(msg[w], r.slot).data,
     status |-> status, version |-> version]

(* find_latest_attachment_by_name: rows of m's sender that call the file   *)
(* n, of m's thread if it has one and of any thread if it has none.        *)
Prior(m, n) == {r \in rows : /\ r.status = "CLEAN"
                             /\ SenderOf[r.msg] = SenderOf[m]
                             /\ r.original = n
                             /\ ThreadOf[m] # NoThread => ThreadOf[r.msg] = ThreadOf[m]}

(* Mutant: the order of the versions is ascending. *)
Earliest(m, n) == {r \in Prior(m, n) : \A s \in Prior(m, n) : r.version <= s.version}

Latest(m, n) == {r \in Prior(m, n) : \A s \in Prior(m, n) : s.version <= r.version}

(* compare_files: the prior file is still there and close to the new one. *)
Revises(d, r) == \E f \in At(disk, r.path) : f.data = d \/ <<f.data, d>> \in Similar

(* What the visual diff of a revision adds to the folder. *)
WithDiff(d, r) == \E f \in At(disk, r.path) : f.data # d /\ <<f.data, d>> \in Similar

(* The item of the inspection loop at hand. *)
Inspecting(w, r) == pc[w] = "inspect" /\ r \in named[w] /\ Current(w, r.slot)

Threatening(p) == \E f \in At(disk, p) : f.data \in Threats

(* Mutant: every file that is there passes. *)
PassesUninspected(p) == Exists(disk, p)

(* Passed, or quarantine is switched off: the record says CLEAN. *)
Passes(p) == IF QuarantineOnMismatch THEN Exists(disk, p) /\ ~Threatening(p) ELSE TRUE

InspectNew(w) ==
    /\ \E r \in named[w] :
         LET p == InFolder(msg[w], r.name)
             d == Stub(msg[w], r.slot).data
         IN /\ Inspecting(w, r)
            /\ Passes(p)
            /\ \/ Latest(msg[w], r.name) = {}
               \/ \E q \in Latest(msg[w], r.name) : ~Exists(disk, p) \/ ~Revises(d, q)
            /\ recs' = [recs EXCEPT ![w] = @ \cup {Row(w, r, p, "CLEAN", 1)}]
            /\ pending' = [pending EXCEPT ![w] = @ \ {r.slot}]
    /\ UNCHANGED <<shared, history, pc, msg, named, created>>

InspectRevision(w) ==
    /\ \E r \in named[w] :
         LET p == InFolder(msg[w], r.name)
             d == Stub(msg[w], r.slot).data
         IN /\ Inspecting(w, r)
            /\ Passes(p) /\ Exists(disk, p)
            /\ \E q \in Latest(msg[w], r.name) :
                 /\ Revises(d, q)
                 /\ recs' = [recs EXCEPT ![w] =
                               @ \cup {Row(w, r, p, "CLEAN", q.version + 1)}]
                 /\ IF WithDiff(d, q)
                    THEN /\ disk' = Put(disk, DiffPath(msg[w], r.name), Diff)
                         /\ created' = [created EXCEPT ![w] =
                                          @ \cup {DiffPath(msg[w], r.name)}]
                    ELSE UNCHANGED <<disk, created>>
            /\ pending' = [pending EXCEPT ![w] = @ \ {r.slot}]
    /\ UNCHANGED <<ledger, rows, alerts, history, pc, msg, named>>

(* Mutant: the vault path is not remembered for the rollback. *)
QuarantineForgotten(w) ==
    /\ QuarantineOnMismatch
    /\ \E r \in named[w] :
         LET p == InFolder(msg[w], r.name)
             q == InVault(Stub(msg[w], r.slot).data, r.name, "quarantine")
         IN /\ Inspecting(w, r)
            /\ Threatening(p)
            /\ disk' = Rename(disk, p, q)
            /\ created' = [created EXCEPT ![w] = @ \ {p}]
            /\ orphans' = orphans \ {q}
    /\ pc' = [pc EXCEPT ![w] = "report"]
    /\ UNCHANGED <<ledger, rows, alerts, msg, pending, named, recs, faults, crashes>>

(* shutil.move to the vault; whatever has that vault name is replaced. *)
Quarantine(w) ==
    /\ QuarantineOnMismatch
    /\ \E r \in named[w] :
         LET p == InFolder(msg[w], r.name)
             q == InVault(Stub(msg[w], r.slot).data, r.name, "quarantine")
         IN /\ Inspecting(w, r)
            /\ Threatening(p)
            /\ disk' = Rename(disk, p, q)
            /\ created' = [created EXCEPT ![w] = (@ \ {p}) \cup {q}]
            /\ orphans' = orphans \ {q}
    /\ pc' = [pc EXCEPT ![w] = "report"]
    /\ UNCHANGED <<ledger, rows, alerts, msg, pending, named, recs, faults, crashes>>

(* The companion threat report, and the row of the quarantined file. *)
WriteReport(w) ==
    /\ pc[w] = "report"
    /\ \E r \in named[w] :
         LET d == Stub(msg[w], r.slot).data
             q == InVault(d, r.name, "report.md")
         IN /\ Current(w, r.slot)
            /\ disk' = Put(disk, q, Report)
            /\ created' = [created EXCEPT ![w] = @ \cup {q}]
            /\ recs' = [recs EXCEPT ![w] = @ \cup
                 {Row(w, r, InVault(d, r.name, "quarantine"), "QUARANTINED", 1)}]
            /\ pending' = [pending EXCEPT ![w] = @ \ {r.slot}]
    /\ pc' = [pc EXCEPT ![w] = "inspect"]
    /\ UNCHANGED <<ledger, rows, alerts, history, msg, named>>

(* inspect_file fails closed on a file that is gone, and the move raises. *)
InspectMissing(w) ==
    /\ QuarantineOnMismatch
    /\ \E r \in named[w] :
         Inspecting(w, r) /\ ~Exists(disk, InFolder(msg[w], r.name))
    /\ pc' = [pc EXCEPT ![w] = "rollback"]
    /\ UNCHANGED <<shared, history, msg, pending, named, created, recs>>

-----------------------------------------------------------------------------
(* generate_sidecars writes context.json, then email_context.md; neither   *)
(* is added to created_disk_files.                                         *)
SidecarStep(w, from, base, ext, to) ==
    /\ pc[w] = from
    /\ disk' = Put(disk, InFolder(msg[w], [base |-> base, tags |-> <<>>, ext |-> ext]),
                   Sidecar)
    /\ pc' = [pc EXCEPT ![w] = to]
    /\ UNCHANGED <<ledger, rows, alerts, history, msg, pending, named, created, recs>>

WriteContextJson(w) ==
    pending[w] = {} /\ SidecarStep(w, "inspect", "context", "json", "sidecar")

WriteContextMd(w) == SidecarStep(w, "sidecar", "email_context", "md", "commit")

(* Mutant: only the delivered attachments are written to the ledger. *)
CommitCleanOnly(w) ==
    /\ pc[w] = "commit"
    /\ msg[w] \notin ledger
    /\ ledger' = ledger \cup {msg[w]}
    /\ rows' = rows \cup {r \in recs[w] : r.status = "CLEAN"}
    /\ pc' = [pc EXCEPT ![w] = "idle"]
    /\ created' = [created EXCEPT ![w] = {}]
    /\ recs' = [recs EXCEPT ![w] = {}]
    /\ named' = [named EXCEPT ![w] = {}]
    /\ UNCHANGED <<disk, alerts, history, msg, pending>>

(* Mutant: the message row is merged, so a second commit goes through. *)
CommitMerged(w) ==
    /\ pc[w] = "commit"
    /\ ledger' = ledger \cup {msg[w]}
    /\ rows' = rows \cup recs[w]
    /\ pc' = [pc EXCEPT ![w] = "idle"]
    /\ created' = [created EXCEPT ![w] = {}]
    /\ recs' = [recs EXCEPT ![w] = {}]
    /\ named' = [named EXCEPT ![w] = {}]
    /\ UNCHANGED <<disk, alerts, history, msg, pending>>

(* One transaction: the Message row and its Attachment rows. *)
Commit(w) ==
    /\ pc[w] = "commit"
    /\ msg[w] \notin ledger
    /\ ledger' = ledger \cup {msg[w]}
    /\ rows' = rows \cup recs[w]
    /\ pc' = [pc EXCEPT ![w] = "idle"]
    /\ created' = [created EXCEPT ![w] = {}]
    /\ recs' = [recs EXCEPT ![w] = {}]
    /\ named' = [named EXCEPT ![w] = {}]
    /\ UNCHANGED <<disk, alerts, history, msg, pending>>

(* The primary key of messages is taken: IntegrityError. *)
CommitConflict(w) ==
    /\ pc[w] = "commit"
    /\ msg[w] \in ledger
    /\ pc' = [pc EXCEPT ![w] = "rollback"]
    /\ UNCHANGED <<shared, history, msg, pending, named, created, recs>>

(* The handler of Exception unlinks created_disk_files one by one. *)
Sweep(w) ==
    /\ pc[w] = "rollback"
    /\ \E p \in created[w] :
         /\ disk' = Drop(disk, p)
         /\ created' = [created EXCEPT ![w] = @ \ {p}]
    /\ UNCHANGED <<ledger, rows, alerts, history, pc, msg, pending, named, recs>>

(* Mutant: the exception ends the process's loop over the envelopes. *)
EndRollbackHalts(w) ==
    /\ pc[w] = "rollback"
    /\ created[w] = {}
    /\ pc' = [pc EXCEPT ![w] = "halted"]
    /\ UNCHANGED <<shared, history, msg, pending, named, created, recs>>

EndRollback(w) ==
    /\ pc[w] = "rollback"
    /\ created[w] = {}
    /\ pc' = [pc EXCEPT ![w] = "idle"]
    /\ pending' = [pending EXCEPT ![w] = {}]
    /\ named' = [named EXCEPT ![w] = {}]
    /\ recs' = [recs EXCEPT ![w] = {}]
    /\ UNCHANGED <<shared, history, msg, created>>

(* A step of the pipeline raises: a dropped connection, a full disk, a     *)
(* locked database.                                                        *)
Raise(w) ==
    /\ pc[w] \notin {"idle", "rollback"}
    /\ faults < MaxFaults
    /\ faults' = faults + 1
    /\ pc' = [pc EXCEPT ![w] = "rollback"]
    /\ UNCHANGED <<shared, orphans, crashes, msg, pending, named, created, recs>>

(* The process dies, or Ctrl-C: KeyboardInterrupt is no Exception, so      *)
(* nothing is swept.  A new process takes the worker's place.              *)
Crash(w) ==
    /\ pc[w] # "idle"
    /\ crashes < MaxCrashes
    /\ crashes' = crashes + 1
    /\ orphans' = orphans \cup created[w]
    /\ pc' = [pc EXCEPT ![w] = "idle"]
    /\ pending' = [pending EXCEPT ![w] = {}]
    /\ named' = [named EXCEPT ![w] = {}]
    /\ created' = [created EXCEPT ![w] = {}]
    /\ recs' = [recs EXCEPT ![w] = {}]
    /\ UNCHANGED <<shared, msg, faults>>

Step(w) ==
    \/ FilterSignature(w) \/ ChooseName(w) \/ Download(w) \/ DownloadTooLarge(w)
    \/ EndStaging(w)
    \/ InspectNew(w) \/ InspectRevision(w) \/ Quarantine(w) \/ WriteReport(w)
    \/ InspectMissing(w)
    \/ WriteContextJson(w) \/ WriteContextMd(w) \/ Commit(w) \/ CommitConflict(w)
    \/ Sweep(w) \/ EndRollback(w)

Next == \E w \in Workers :
    (\E m \in Messages : Begin(w, m)) \/ Step(w) \/ Raise(w) \/ Crash(w)

(* run_sync is sequential code that is called again every interval and     *)
(* goes through every offered message that the ledger does not have.       *)
Fairness == \A w \in Workers :
    WF_vars(Step(w)) /\ \A m \in Messages : SF_vars(Begin(w, m))

Spec == Init /\ [][Next]_vars
FairSpec == Spec /\ Fairness

-----------------------------------------------------------------------------
(* Every variable keeps its type: in particular a name never needs more    *)
(* than the hash, stem and counter that the code builds it from.           *)
TypeOK ==
    /\ disk \subseteq FileType
    /\ ledger \subseteq Messages
    /\ rows \subseteq RowType
    /\ alerts \subseteq Messages
    /\ pc \in [Workers -> {"idle", "stage", "download", "inspect", "report",
                           "sidecar", "commit", "rollback"}]
    /\ msg \in [Workers -> Messages]
    /\ pending \in [Workers -> SUBSET Nat]
    /\ named \in [Workers -> SUBSET [slot : Nat, name : NameType]]
    /\ created \in [Workers -> SUBSET PathType]
    /\ recs \in [Workers -> SUBSET RowType]
    /\ orphans \subseteq PathType
    /\ faults \in 0..MaxFaults
    /\ crashes \in 0..MaxCrashes

(* The slots a worker still has to visit, and those it has named, are      *)
(* slots of its envelope: what makes TypeOK inductive.                     *)
SlotsOfEnvelope ==
    \A w \in Workers : /\ pending[w] \subseteq Slots(msg[w])
                       /\ {r.slot : r \in named[w]} \subseteq Slots(msg[w])

TypeInv == TypeOK /\ SlotsOfEnvelope

(* Every committed Attachment row names a file that still holds the bytes  *)
(* whose hash the row records: neither a later rollback, a sidecar, a diff *)
(* nor another download has removed or replaced it (engine.py 447, 507,    *)
(* 645, 700-707 against the commit at 661-689).                            *)
CommittedFilesIntact == \A r \in rows : Holds(disk, r.path, r.data)

(* Downloaded bytes on disk belong to a committed row, to an envelope that *)
(* is being processed, or to a process that died: the exception handler    *)
(* forgets none of them (created_disk_files, engine.py 447, 514-516,       *)
(* 700-707).                                                               *)
UncommittedPayloadsSwept ==
    \A f \in disk : f.data \in Payloads =>
        \/ f.path \in orphans
        \/ \E r \in rows : r.path = f.path
        \/ \E w \in Workers : f.path \in created[w]

(* With quarantine on, a threat lies in a delivery folder only until its   *)
(* worker has inspected or swept it (or died), whatever the workers do to  *)
(* each other's files (engine.py 478-569, 700-707).                        *)
AwaitingInspection(w, p) ==
    \/ pc[w] \in {"stage", "download", "rollback"} /\ p \in created[w]
    \/ \E r \in named[w] : /\ pc[w] \in {"inspect", "report"}
                           /\ r.slot \in pending[w]
                           /\ p = InFolder(msg[w], r.name)

ThreatsContained == QuarantineOnMismatch =>
    \A f \in disk : (f.data \in Threats /\ f.path.dir # Vault) =>
        \/ f.path \in orphans
        \/ \E w \in Workers : AwaitingInspection(w, f.path)

(* With quarantine on, no row calls CLEAN what the hash it records says is *)
(* a threat: the file that is inspected is the one that was downloaded     *)
(* (engine.py 440-455 against 478-492).  A second worker on the same email *)
(* can put another file in its place in between.                           *)
NoThreatRecordedClean == QuarantineOnMismatch =>
    \A r \in rows : r.status = "CLEAN" => r.data \notin Threats

(* The slots of m that must be delivered, with the data they must have. *)
Deliverable(m) == {[slot |-> i, data |-> Stub(m, i).data] :
                  i \in {i \in Slots(m) : ~Stub(m, i).signature}}

RowsOf(m) == {r \in rows : r.msg = m}

(* The ledger transaction is all or nothing: a message has one row per     *)
(* deliverable attachment once it is in the ledger and none before, and no *)
(* two delivered attachments were given one filename (engine.py 422-432,   *)
(* 611-634, 661-689).                                                      *)
LedgerAllOrNothing ==
    \A m \in Messages :
        /\ {[slot |-> r.slot, data |-> r.data] : r \in RowsOf(m)}
             = (IF m \in ledger THEN Deliverable(m) ELSE {})
        /\ \A r, s \in RowsOf(m) :
             (r.slot = s.slot \/ (r.path = s.path /\ r.status = "CLEAN")) => r = s

Healthy(m) == \A i \in Slots(m) : Stub(m, i).signature \/ Stub(m, i).fits

(* A message whose attachments can be downloaded is ingested in the end,   *)
(* however many transient errors, crashes and always-failing neighbours    *)
(* there are before (the per-envelope try of engine.py 225-250, and the    *)
(* rollback that lets the next cycle start again).                         *)
HealthyMessagesIngested == \A m \in Messages : Healthy(m) => <>(m \in ledger)

(* The clean rows of r's file from r's sender: in r's thread, and anywhere. *)
OfSender(r) == {s \in rows : /\ s.status = "CLEAN" /\ s.original = r.original
                             /\ SenderOf[s.msg] = SenderOf[r.msg]}
OfThread(r) == {s \in OfSender(r) : ThreadOf[s.msg] = ThreadOf[r.msg]}

(* The revisions of a file from one sender form chains: no version above 1 *)
(* is given twice in a thread, and each follows the version before it, in  *)
(* the same thread, or in any of the sender's if the email names no thread *)
(* (engine.py 571-609 with session.py 83-107).                             *)
VersionChain ==
    \A r \in rows : (r.status = "CLEAN" /\ r.version > 1) =>
        /\ \E s \in (IF ThreadOf[r.msg] = NoThread THEN OfSender(r) ELSE OfThread(r)) :
              s.version = r.version - 1
        /\ \A s \in OfThread(r) : s.version = r.version => s = r

Readable == {[msg |-> r.msg, slot |-> r.slot, data |-> r.data] :
               r \in {r \in rows : Holds(disk, r.path, r.data)}}

Abstract == INSTANCE IngestionLedger WITH
    Expected <- [m \in Messages |-> Deliverable(m)],
    ingested <- ledger,
    available <- Readable

(* The pipeline implements the ledger that ingests a message with all its  *)
(* readable attachments in one step and never loses one afterwards.        *)
ImplementsLedger == Abstract!Spec

(* architecture_guide.md:80, "sweeps and deletes any uncommitted files     *)
(* written during that envelope cycle": a delivery folder of a message     *)
(* that is not in the ledger and that no worker works on has no file,      *)
(* except those of a process that died.                                    *)
RollbackLeavesNothing ==
    \A f \in disk : f.path.dir \in Messages \ ledger =>
        \/ f.path \in orphans
        \/ \E w \in Workers : pc[w] # "idle" /\ msg[w] = f.path.dir

(* engine.py:579, "Thread-scoped!": a revision follows a version that its  *)
(* own thread has.                                                         *)
VersionsStayInThread ==
    \A r \in rows : (r.status = "CLEAN" /\ r.version > 1) =>
        \E s \in OfThread(r) : s.version = r.version - 1

(* session_handover_summary.md:31, "zero duplicate downloads": the folder  *)
(* of an ingested message holds no downloaded file that no row names.      *)
NoDuplicateDownloads ==
    \A f \in disk : (f.data \in Payloads /\ f.path.dir \in ledger) =>
        \E r \in rows : r.path = f.path

=============================================================================
