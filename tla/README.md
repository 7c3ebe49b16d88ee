# Verification of the email ingestion gateway

This directory holds a TLA+ development of `email_ingestion`, the service that
polls mailboxes, downloads attachments into `Auto_download_email/`, quarantines
what it does not trust and keeps a ledger of what it did. Modules model the
code under `src/email_ingestion`; `PROJECT.json` maps every definition to the
lines it stands for, lists the runs, the mutants, the theorems, the hazards and
the disagreements between code and documentation.

Check a configuration with `tlc -config <Run>.cfg <Module>`; check the proofs
with `tlapm <Module>.tla`.

## 1. The system

| Component | State | Operations | Talks to |
|---|---|---|---|
| `EmailIngestionEngine.run_sync` (engine.py 128-256) | position in the cycle, list of fetched envelopes | one cycle: control folders, inbox, index | connector, sender filter, ledger, pipeline |
| `_process_folder_control` (258-368) | - | blocked, approved, one-time pass | the same |
| `_process_envelope` (380-708) | `created_disk_files`, staged items, records | stage, inspect, quarantine, version, sidecars, commit, roll back | writer, inspectors, ledger, disk |
| `AtomicFileWriter` | `.staging/tmp_*.part`, destinations | write a stream, commit with an `EXDEV` fallback, purge stale parts | disk |
| `DatabaseManager` | `messages`, `attachments`, `audit_logs`, `accounts` | one transaction per call | SQLite or Postgres |
| `SenderFilter` | two lists in memory, two files | load, add, remove, save, match | disk, the CLI's `exclude` and `approve` commands |
| `StorageLayoutManager` | `INDEX.md`, folders | delivery folder, master index | disk |
| `IMAPConnector` | connection, `_cached_payloads`, `_msg_id_to_mid` | connect once, search, fetch and parse, download from the cache, flag `\Seen` | IMAP server |
| `GmailConnector` | the service object | connect, list by pages, get, download with retries, remove `UNREAD` | Gmail API |
| `MockEmailConnector`, base class, Graph stub | folders of the mock | fetch, download, move, acknowledge | - |
| `MagicVerifier`, `ArchiveGuard`, `SignatureFilter`, similarity, `PathSanitizer` | - | pure decisions and conversions | - |
| `PluginManager` and plugins | list of plugins | hooks, each call in a `try` | engine |
| CLI | - | `sync`, `watch` (a loop around `run_sync`), rule editing | everything |

Nothing in the code locks anything across processes. The ledger's primary key
on `messages.id` is the only arbiter, and it is asked at the end of the
pipeline, after the disk has been written. So the hard behaviour is:

* **order of disk and ledger**: files are written first, then committed; an
  exception in between is compensated by unlinking, a crash by nothing;
* **several processes**: a watcher next to a manual `sync`, or the "concurrent
  workers" of session.py, share folders, vault, rule files, the index and its
  temporary name;
* **a conversation with a person**: the employee drags emails between folders
  while a cycle works on lists it fetched earlier;
* **steps that are not one step**: rule in memory, rule in file, ledger row,
  audit row, move, acknowledgement; each call may raise or be the last one of
  the process;
* **a mailbox that others use**: emails are opened and deleted in other clients,
  connections drop, calls fail, and the windows of the listings (50 unseen for
  IMAP, 100 for Gmail) are smaller than a mailbox;
* **repetition**: each cycle retries what is still there, so everything must be
  idempotent, including what failed half-way, and one email that fails for ever
  must not hold up the others.

What makes each component correct is stated by its properties, section 4; the
list `hazards` of `PROJECT.json` says at which line each of them could fail.

## 2. The modules

| Module | Models | Notes |
|---|---|---|
| `FileStore` | paths and contents of a file system: put, drop, rename | operators only |
| `EnvelopePipeline` | `_process_envelope`, the sidecar generator, the version lookup | any number of `Workers` |
| `IngestionLedger` | what the pipeline promises: a message is ingested with all its readable attachments in one step, for good | abstract specification |
| `EnvelopePipelineProofs`, `FolderControlProofs`, `AtomicWriterProofs`, `RuleStoreProofs`, `MasterIndexProofs`, `ImapConnectorProofs`, `GmailConnectorProofs` | theorems about the module each is named after | proofs; the first begins with those about `FileStore`'s operators |
| `DecisionProofs` | theorems about `SenderMatching`, `ContentInspection`, `PluginDispatch` and the properties of `MCDecisions` | proofs; begins with induction over `Nat` and what it says of loops |
| `FolderControl` | `run_sync` and `_process_folder_control` over one mailbox | `_process_envelope` is one step here |
| `AtomicWriter` | `write_stream_atomically`, `_commit_staged_file`, `cleanup_stale_staging` | refines `AtomicPublish` |
| `AtomicPublish` | publication of whole streams | abstract specification |
| `RuleStore` | the rule files and their editors | |
| `MasterIndex` | `INDEX.md` and its refresh, over inodes | |
| `ImapConnector` | `IMAPConnector`, the server, and the inbox loop over what it lists | refines `MailIntake` |
| `GmailConnector` | `GmailConnector`, `retry_with_backoff` on its download, and the inbox loop | refines `MailIntake` |
| `MailIntake` | what a connector and the loop promise together: an email is recorded with its own contents, once unless it has no id that outlasts a session (`Nameless`), and put away only when recorded | abstract specification |
| `SenderMatching` | `_match_patterns` over texts, what the documents name for a rule (`Named`), and what one form selects besides (`AlsoSelected`) | pure operators |
| `ContentInspection` | `inspect_file`, `inspect_archive` and how the engine combines them, and the policy they add up to | pure operators |
| `PluginDispatch` | the hooks with an answer | pure operators |
| `DeliveredNames` | lengths of sanitised names and of the names made of them | pure operators |
| `MCPipeline`, `MCFolders`, `MCWriter`, `MCImap`, `MCGmail`, `MCDecisions` | the instances TLC checks | |

Some definitions are kept next to the one they replace as its *mutant* (their
comments say so). They are what a plausible slip of the code would be, and each
must make a property of the passing runs fail.

### EnvelopePipeline

A worker is a process inside `_process_envelope`; `pc` says where. `pending` is
the part of the current `for` loop that is left, `named` stands for
`staged_items` and `seen_filenames`, `created` for `created_disk_files`, `recs`
for `downloaded_attachment_records`. `disk` is the set of files under the
download root and the vault, `ledger` and `rows` the committed tables.

* `Begin` is the check of `message_exists`, which is not repeated at commit.
* `FilterSignature`, `ChooseName`, `Download`, `DownloadTooLarge`, `EndStaging`
  are the first loop and the twin detection; naming and downloading are
  separate steps because the free suffix is looked for on a disk that others
  write to.
* `InspectNew`, `InspectRevision`, `Quarantine` then `WriteReport`, and
  `InspectMissing` are the second loop. A quarantined file is moved first and
  reported in a second step.
* `WriteContextJson`, `WriteContextMd`, `Commit`, `CommitConflict` follow.
* `Raise` is an exception of any step, `Sweep` one `unlink` of the handler,
  `EndRollback` its `raise`, caught in `run_sync`. `Crash` is a process that is
  killed (also Ctrl-C: `KeyboardInterrupt` is no `Exception`, so nothing is
  swept), replaced by a new one.

A stub carries the sender's name for the file and what the sanitiser makes of
it, since the ledger stores the one and the version lookup uses the other. The
lookup (`Prior`) goes through the sender's clean rows of that name, in the email's
thread, or in all threads if the email has none (`NoThread`: a blank thread id
drops the condition, session.py 104).
Abstracted: contents are model values (equal values, equal SHA-256); the
verdicts of the inspectors, the signature filter and the similarity measure are
given per payload (`Threats`, `signature`, `Similar`); `unlink` in the handler
succeeds; sidecars are switched on; the account row, whose insertion may also
conflict, is one more cause of `Raise`; plugin hooks are guarded and change
nothing; `get_envelope_directory` is a function of the message; a diff file is
named after the new file's stem (the code adds the old version's number).

### FolderControl

`phase` and `step` say which call of which loop comes next, `batch` holds the
envelopes fetched and not reached yet, `cur` the one at hand; `place` and
`seen` are the mailbox, `status` and `audit` the ledger; rules are in memory
and in files. Each call of a loop body is an action. Exceptions lead where the
code's `try` blocks lead (`Abort`): past the folder, to the next inbox email,
or out of the process. `MovesFrom` is what the connector can move from: nothing
for IMAP, Gmail and Graph, which inherit `move_message` returning `False`; every
place but the inbox for `MockEmailConnector` (`MockMoves`), which the passing runs
use. A move that returns `False` is ignored, as the engine ignores it.

Saving a rule is two steps, as in the code: `Truncate` opens the file with "w",
`WriteRules` writes all rules in memory. What raises or dies between the two takes
the file's rules with it; `lost` is the history of the rules that were (`CutShort`).

In a dry run the process goes through all phases, adds and saves rules, and
decides what it would process, but skips the rest.

Abstracted: one connector; emails are numbered in the order the provider lists
them; fewer emails than the fetch window (the windows are the connectors'
modules); a rule is a sender (`SenderMatching` shows that an address as a rule selects
exactly that sender); rules of the configuration are `RuleStore`'s; `exclude_file`
and `approved_file` are configured; the veto of a plugin takes the same path as
an exclusion. Creating the folders is guarded and has no effect here. The
INDEX refresh after the last phase is `MasterIndex`.

### AtomicWriter

`staging` holds temporary files with what was written to them, `disk` the
destinations. `Open`, `WriteChunk`, `RefuseChunk`, `EndOfStream`, `Replace` and
`CleanUp` follow the code; `OpenCopy`, `CopyChunk`, `EndCopy` are what
`shutil.move` does for a destination of the set `Remote`, which is on another
file system than the staging directory. `Age` lets the modification time of a
temporary file pass the limit of an hour, for a live writer at most
`MaxStalls` times; `PurgeStaging` is the sweep at the beginning of a cycle, of
any process. The `unlink` of the handler may itself fail, which the code swallows
(`UnlinkFails`, atomic_writer.py 137-140): the file stays, as after a crash. A temporary
file is named by its writer and by how many files had been left behind before it
(`leaks`), which stands for the code's unique name. `fsync` and the loss of power are not modelled: a crash is the end
of a process, not of the machine.

### RuleStore and MasterIndex

In `RuleStore` each process loads the rules of the configuration (`Configured`) and
the file when it starts, and saves its whole list, both kinds, by truncating and
writing. What is configured comes back with every start, so the properties speak of
the other rules (`Edits`). Two overlapping writes through separate handles
are taken as one after the other, and the file is empty at first (a file of
rules is a state it reaches). In `MasterIndex` names refer to inodes, so
that a process can go on writing to a file that another has renamed; what it writes
over a longer text leaves the end of that text behind it (`Fill`). Both keep
a history variable (`met`, `raced`) that says whether two processes have been at
work at one time: the properties that need one process at a time say so by it,
and are checked and proved for behaviours in which several take turns.

### ImapConnector, GmailConnector and MailIntake

Each connector is modelled together with `run_sync`'s loop over the envelopes
it returns, because what could go wrong lies between the two: a payload that the
first attempt took out of the cache, an id that stood for another email, a
window that never moves on.

In `ImapConnector` an email goes by its sequence number: `view` is what the
numbers of the session stand for, `box` the mailbox, `away` and `read` the
emails flagged `\Seen` by this program and by others. `Search` is the first
half of `fetch_new_messages`; then for each number, the newest first,
`FetchMail` caches and collects, `SkipMail` is the inner `except`,
`StopAtMalformed` the outer one, which parsing outside the inner `try` reaches.
`Begin`, `Download` (the cache's `pop`), `DownloadRaises`, `Commit`,
`Acknowledge` are the loop; an email without a `Message-ID` has its present number as
ledger id, so that after a crash before its acknowledgement it may be recorded a second time
under another number; a failed envelope is listed and cached again in the
next cycle. `Connect` happens once per process. The server's removals are
announced between commands the client never sends, so numbers keep their meaning
in a session and start from 1 in the next.

In `GmailConnector` the list is paged (`List`, `NextPage`) with a page size
that shrinks as envelopes are collected, emails without a part that has an
`attachmentId` are passed over (`Get`), a failing call returns what there is
(`FetchRaises`), and a download has `Retries + 1` attempts. `Raise` is any other exception of
`_process_envelope` (the ceiling, the disk, the database): it gives the envelope up
until the next cycle, without a retry (engine.py 240-250). `failed` is a history of
the failed calls for each attachment of the envelope at hand. The query does not
mention read or processed emails. An email that arrives while a list is being
read does not shift the pages: a token stands for a place.

Both implement `MailIntake` with the ledger and the flags as its variables. It asks
that the email is new (`Entered`), not only its id; the exception are the `Nameless`
emails, those without a `Message-ID` behind IMAP and none behind Gmail.
Abstracted: payloads are the email and the part they come from; bodies and
header texts are left out but for the `Message-ID`; triage and the control
folders are `FolderControl`'s.

### The decisions

`SenderMatching`, `ContentInspection`, `PluginDispatch` and `DeliveredNames`
are operators without state, translated with their order of rules, early returns
and `except` branches; `MCDecisions` asks one question at a time and compares
the answer with a definition that has none of these: for a rule of one of six forms
(address, `@domain`, `*@domain`, bare domain, `*@*.domain`, `user*@*`) the user and the
domain labels that the documents name for it, for a file the conjunction of what the policy refuses, for
plugins the list without those that raise, for names the 255 bytes that the
sanitiser enforces. Files are classes (of extension, first bytes, types found,
parser failures, entries); in texts only the star and the question mark of the
glob syntax are translated, not its brackets and braces. One form selects more than is
said of it: `@domain` also takes what is below the domain (sender_filter.py 85-88).
`RulesSelect` counts that in (`AlsoSelected`), `RulesSelectAsDocumented` does not. A loop over a list is a recursive function of the
number of turns (`Counted`, `Enriched`, `Dotted`, `Matched`), so that it can be
reasoned about; `Letters` are the characters without a meaning of their own in
rules and addresses.

## 3. The plan

Done: the modules above. Next, in this order:

1. Theorems: every invariant, step property and refinement of the passing runs
   has one (section 5). What is left is liveness, which the prover cannot state.
2. `Gateway`: `FolderControl` with the pipeline's commit and rollback instead
   of its one step, sharing ledger and disk between a watcher and a manual
   sync.
3. The signature filter's rules, delivery folders (`get_envelope_directory`),
   and the characters the sanitiser converts.
4. The configuration wizard, which reads a file it cannot parse as empty and
   writes it back (cli.py 107-152).

## 4. What is checked

Passing runs:

| Run | Question | Bounds and why they suffice |
|---|---|---|
| `PipelineOneWorker` | Is the ledger true, are clean records harmless, do revisions form a chain, and does everything get in, with one process? | five emails cover twins, logo, a file three times in one thread and once in an email without a thread, threat, oversize, in any order of arrival; one exception and one crash, each at any step, since a second one starts from a state the first already leads to |
| `PipelineTwoWorkers` | What survives a race? | two symmetric processes, three emails; a third adds no new kind of conflict on a path |
| `FolderSafety` | Can anything be delivered without authority, a rule appear unasked or vanish but by a save cut short, an email be dropped, a dry run touch ledger or mailbox? | triage on and the mock connector's moves, so that moves out of the inbox return `False`; three emails of two senders, two drags at any time, one exception, one crash, dry and real runs; proved for any number of all of them |
| `FolderRequests` | Is every request honoured in the end, does the inbox drain? | as above without triage, drags between cycles, one email of the inbox that fails for ever |
| `Writer` | Are destinations whole, temporary files released, and are the bytes of what fits published? | sizes around chunk (2) and ceiling (4): 0, 3, 4 and 5 bytes, one to another file system; an exception or a failing `unlink`, a crash, a stall; one writer, next to sweeps of any process; safety is proved for any number |
| `Rules` | Are edits kept by processes that take turns? | three rules, one of them configured, two processes that stop, restart and crash |
| `Index` | Does the index tell the truth? | two rows, two processes, a crash in a refresh |
| `Imap` | Does each email that can be ingested get in, as itself, once if it has a `Message-ID`, and what exactly keeps one out? | three of eight kinds of email (several files, a shared and a missing `Message-ID`, none to download, excluded, an attached email, a malformed header) arrive in any order in front of a window of two, so that the window is full and the third is left out; one of a failing call, a lost or refused connection, a crash; a reader and deletions at any time |
| `Gmail` | The same, through pages and retries | four of five emails, pages of two, a window of three, so that a fetch takes up to two pages, a page is cut short by the window, and one email is beyond it; two troubles, one more than the retries, each a failed call, another exception of the pipeline or a crash, so that one attachment's retries run out or two attachments fail once each |
| `Decisions` | Do the rules, applied in the code's order, decide what they are meant to? | six rule forms over addresses of three users, one of which begins like another, and up to three labels, among them one that ends like another; every class of file; archives of up to three entries with limits of two entries and one nested archive; up to three plugins |

Deadlock is checked in all of them but `FolderSafety` and `PipelineTwoWorkers`,
where a finished behaviour has no step left when drags, crashes and processes
are used up.

The properties, by hazard:

* *disk against ledger*: `CommittedFilesIntact` (every row's file has the bytes
  whose hash it records), `UncommittedPayloadsSwept` (nothing else is there but
  what a dead process left), `LedgerAllOrNothing`, and the refinement
  `ImplementsLedger`;
* *threats*: `ThreatsContained` (where the bytes may be), `NoThreatRecordedClean`
  (what the ledger may say of them);
* *progress*: `HealthyMessagesIngested`, `RequestsHonoured`, `InboxDrained`,
  `RowsGetListed`, `FittingPublished`, `OrphansPurged`;
* *authority*: `DeliveredOnlyIfAuthorised`, `RulesFollowRequests`, `EditsKept`;
* *loss*: `NothingDropped`, `IndexMonotonic`;
* *intake*: `ImplementsIntake` (for either connector: no email recorded twice but
  one without a `Message-ID`, none with another's bytes or with an empty stream for a
  file, none flagged that is not recorded), `OnlyFiveCausesStarve` and `NewestGetIn` (every email gets in
  but for causes that are named), `OutagesAbsorbed`;
* *dry runs*: `DryRunTouchesRulesOnly`;
* *decisions*: `RulesSelect` (a rule selects the senders it names, and only those but
  for what is below an `@domain`), `InspectionKeepsPolicy`,
  `PluginFailuresContained`;
* *whole files*: `TargetsWhole`, `TempsReleased`, `IndexWhole`,
  `ImplementsPublication`;
* *versions*: `VersionChain`.

### Disagreements

Two of the runs that `PROJECT.json` lists are expected to find a violation of
what a document, a comment or the code's own claim says; `findings` quotes the
sentence:

| Run | Violated | Cause |
|---|---|---|
| `PipelineRaceLosesFiles` | `CommittedFilesIntact` | two processes ingest one email; the commit of the second fails on the primary key (`CommitConflict`), and its rollback unlinks the files that the first has committed under the same paths |
| `ImapReadElsewhere` | `NoMailSkipped` | an email opened in another client before the next cycle is no longer unseen and is never listed |

### Further configurations

These configurations, which `PROJECT.json` does not list, end in a violation as
well. They differ from the passing ones in what triggers them: a second worker,
a shared threat, a drag during a cycle, a second editor.

| Configuration | Module | Violated | What happens |
|---|---|---|---|
| `PipelineVaultCollision` | `MCPipeline` | `CommittedFilesIntact` | one threat in two emails has one vault path; the second email's rollback removes the first one's file (engine.py 504) |
| `PipelineSidecarClash` | `MCPipeline` | `CommittedFilesIntact` | `context.json` overwrites an attachment of that name (engine.py 645) |
| `PipelineThreatPasses` | `MCPipeline` | `NoThreatRecordedClean` | two processes ingest one email whose threat is called `context.json`: one moves it to the vault and puts its own sidecar in its place, the other inspects that and records the threat's hash as `CLEAN` (engine.py 478, 645) |
| `PipelineCrashDuplicates` | `MCPipeline` | `NoDuplicateDownloads` | after a crash the next attempt finds its own leftover and stores the attachment under another suffix; session_handover_summary.md 31: "zero duplicate downloads" |
| `FolderTriageLosesMail` | `MCFolders` | `TriagedMailWaits` | with a connector that cannot move out of the inbox (all shipped ones) triage acknowledges an email that stayed there (engine.py 221) |
| `FolderExcludedPass` | `MCFolders` | `OneTimePassDelivers` | an `EXCLUDED` row counts as processed: the pass is audited, nothing is downloaded (engine.py 347) |
| `FolderBlockStuck` | `MCFolders` | `BlockRequestsHonoured` | recording an exclusion of a known email raises in every cycle; the report, line 36: "Moved to `[Completed]`" |
| `FolderHeadOfLine` | `MCFolders` | `RequestsHonoured` | one email that fails for ever holds up those listed after it in its folder (engine.py 340) |
| `FolderDragRace` | `MCFolders` | `RequestsHonoured` | an email dragged to [To Download] while the inbox loop works on its list is moved on to [Needs Review] (engine.py 215) |
| `FolderDryRun` | `MCFolders` | `DryRunWritesNothing` | rules are saved in a dry run; cli.py 26: "without writing files or modifying database" |
| `FolderWatcherDies` | `MCFolders` | `FailuresIsolated` | a failing call outside the inner `try` ends the watcher; engine.py 241: "does not crash the entire sync run" |
| `WriterPartialCopy` | `MCWriter` | `NeverPartiallyWritten` | the `EXDEV` fallback copies in place; atomic_writer.py 3: "never partially written" |
| `RulesTwoEditors` | `RuleStore` | `RulesPermanent` | a stale list overwrites the file; the report, line 36: "permanently added" |
| `IndexRace` | `MasterIndex` | `NeverPartial` | two refreshes share `.tmp_INDEX.md`; layout_manager.py 191: "to prevent corrupt partial writes" |
| `ImapSequenceIds` | `MCImap` | `NumbersNameOne` | after a restart an email without `Message-ID` has the number, hence the ledger id, of a recorded one, and is skipped as known (imap_connector.py 111) |
| `NamesTooLong` | `MCDecisions` | `DerivedNamesFit` | a sanitised name may have 255 bytes; the twin's suffix, the vault's prefix and the diff's suffix exceed what a file system takes, so that the email fails in every cycle (engine.py 427, 504, 594) |

One more, `PipelineVersions`, passes: `VersionChain` for six emails with a file of one
name, from two senders, in two threads and in none, which with the liveness of
`PipelineOneWorker` would take too long.

Eight more violations come from these configurations or from the passing ones by a
change of a line or two. What is named as an invariant or a property stands in place of
the configuration's own:

| Change | Violated | What happens |
|---|---|---|
| `PipelineCrashDuplicates` with `INVARIANT RollbackLeavesNothing`, `MaxFaults = 1`, `MaxCrashes = 0` | `RollbackLeavesNothing` | the rollback forgets the sidecars; architecture_guide.md 80: it "sweeps and deletes any uncommitted files" |
| `FolderExcludedPass` with `PROPERTY ApprovalLasts`, `Handled = {1}`, `DragFrom = {"inbox", "completed"}` | `ApprovalLasts` | an approval does not lift an earlier block; the report, line 83: future emails "will never require manual intervention" |
| `FolderBlockStuck` with `PROPERTY ProcessedMailFiled`, `MovesFrom = {"inbox", "blocked", "approved", "download", "review", "completed"}` (a connector as the interface asks for; none is shipped), `MaxDrags = 0`, `MaxCrashes = 1` | `ProcessedMailFiled` | a failed move after the commit is not retried: the email is known from then on |
| `NamesTooLong` with `Users <- MCOddUsers`, `INVARIANT RulesSelect` | `RulesSelect` | the folders make a rule of the sender's address: a `*` in it selects others, a `#` at its head makes it a comment (sender_filter.py 80-95) |
| `NamesTooLong` with `INVARIANT RulesSelectAsDocumented` | `RulesSelectAsDocumented` | `@domain` also selects what is below the domain; sender_filter.py 85: "Exact domain match", and excluded_senders.txt 9-10 has a form of its own for subdomains |
| `PipelineVersions` with `Messages = {m1, m2, m8}` | `VersionChain` | one process: parents are looked up by the name a file was given, and rows keep the sender's: after `invoice` and `invoice_1` of other emails, twins called `invoice` revise one each, and `invoice` has two versions 2 (engine.py 576) |
| `PipelineVersions` with `Messages = {m1, m7}`, `INVARIANT VersionsStayInThread` | `VersionsStayInThread` | an email without a thread takes its parent from any thread; engine.py 579: "Thread-scoped!" |
| `FolderSafety` with `INVARIANT AuditedRulesPermanent` | `AuditedRulesPermanent` | an exception or a crash between the truncation and the write of a later save takes earlier rules out of the file, which the audit log calls permanent (engine.py 303, 330) |
| `ImapSequenceIds` with `INVARIANT RecordedOnce` | `RecordedOnce` | an email without `Message-ID` is recorded, the process dies before the acknowledgement, an older email is deleted, and it is recorded again under its new number; session_handover_summary.md 31: "zero duplicate downloads" |

`OnlyFiveCausesStarve` names what starves an email behind IMAP: read elsewhere,
more unseen emails than the window, a malformed one listed before it, a lost
connection, a number taken for its id. Emails without attachments or with an
attached email are never flagged, so they fill the window for good. Behind
Gmail it is a window's worth of newer emails, processed ones included
(`NewestGetIn`). Two more things the models show without a configuration of
their own: the payloads of excluded emails and logos stay in the IMAP cache for
the life of the process (imap_connector.py 162), and parts that Gmail delivers
inline are not taken for attachments (gmail_connector.py 120), so that
`Contents` is without them.

### Fairness

* A process that is running makes progress (`WF` of its steps): `run_sync` is
  sequential code without waits, and `watch` calls it in an endless loop.
* `Begin` is strongly fair per message: each cycle goes through every offered
  message that the ledger does not have.
* A process that died is started again: `WF` of `Start` in `FolderControl`, of
  `Connect`, which is a step of `Engine`, in the connectors' modules, an
  implicit restart of the worker in the other modules. The deployment the
  documentation describes (systemd or a container) does this; without it
  nothing could be said after a crash.
* The environment owes nothing: arrivals, drags, exceptions, crashes and stalls
  are never fair, and are bounded (`MaxDrags`, `MaxFaults`, `MaxCrashes`,
  `MaxStalls`, `MaxTroubles`), so liveness is claimed for behaviours with finitely many of
  them. Permanent failures are not bounded: they are `Poison` emails and
  attachments that never fit.

## 5. What is proved

`EnvelopePipelineProofs`, for every value of the constants that satisfies the
assumptions of `EnvelopePipeline`:

* What `Put`, `Drop` and `Rename` do to a path and leave to the others
  (`PutHolds`, `DropHolds`, `RenameHolds`), and that a path keeps at most one
  content (`StaysFunctional`, `HoldsUnique`).
* `TypeCorrect`: `Spec => []TypeOK`. `TypeOK` is not inductive: a row's slot is
  a slot only if `pending` and `named` refer to slots of the worker's envelope,
  which `SlotsOfEnvelope` adds.
* `CommittedFilesStayIntact`:
  `OrderlyMail => (Spec /\ []OneWorkerPerEmail => []CommittedFilesIntact)`, for any
  number of workers. The hypotheses are what the code relies on without enforcing
  it. `OneWorkerPerEmail` is about the behaviour: no two workers have one email in
  hand at once. One process satisfies it, and so do processes with a mailbox
  each, if the mailboxes have no email in common. `OrderlyMail` is about the mail:
  no threat in two emails (with the quarantine on), no attachment named like a sidecar or a
  diff. The three runs `PipelineRaceLosesFiles`, `PipelineVaultCollision` and
  `PipelineSidecarClash` show that none of the three can be dropped.

  The argument: every path the pipeline writes or unlinks for a message is
  *owned* by it (`OwnedBy`): in its folder, or in the vault under the hash of
  one of its threats. Owners are unique (`OwnersAgree`), the message at work is
  not in the ledger (`Fresh`), and rows are owned by messages of the ledger
  (`RowsIntact`), so no step of the pipeline touches a committed row's file
  (`RowsElsewhere`, `RowsSurvive`). For the commit itself the records must be
  true of the disk: staged files stay in place until they are inspected
  (`StagedInPlace`), names are kept apart (`NamesApart`), a record's file has
  its data (`RecordPlaced`). `IntactInv` is the conjunction; one lemma per
  action shows that it is kept.

Three more have no hypothesis: they hold whatever several processes do to each
other's files.

* `LedgerIsAllOrNothing`: `Spec => []LedgerAllOrNothing`. What a commit writes is
  right because of what the worker has done in its own memory: no two slots have
  one name (`OneNamePerSlot`), every slot the staging loop has passed is a
  signature image or has one (`Accounted`), and every named slot the inspection
  loop has passed has a record with its data (`RecordedInOrder`). The disk, which
  others write to, is not asked.
* `NoPayloadLeftBehind` (`UncommittedPayloadsSwept`) and `ThreatsAreContained`
  (`ThreatsContained`), from one invariant, `SweptInv`: some worker *answers for*
  each file on disk that no row names and no dead process left: it remembers
  the path and will inspect, commit or sweep it. The difficulty is that two workers
  may hold one path; whoever writes to it remembers it, so a file that one of
  them gives up without removing it has another to answer for it.

Three more are, like the first, about processes that keep out of each other's way:

* `CleanRowsAreHarmless`:
  `NoDiffNames => (Spec /\ []OneWorkerPerEmail => []NoThreatRecordedClean)`. The file that
  is inspected is the one that was downloaded (`StagedUnchanged`). With a second
  worker in the same email it need not be (`PipelineThreatPasses`): containment
  survives a race, the ledger's verdict does not. A diff is written during the
  inspection and could replace an attachment called like it, hence `NoDiffNames`;
  sidecars come later.
* `VersionsFormChains`:
  `NamesTheirOwn => (Spec /\ []OneWorkerPerThread => []VersionChain)`. The versions of a
  name from a sender are counted in the email's thread, or over all the sender's threads
  when it has none. No version is given twice in a thread, so no two workers may be in
  one thread at once, nor in two emails of one sender that have none
  (`OneWorkerPerThread`). A parent is looked up by the name the file was given and
  a row keeps the sender's name, so the two must not be mixed up: `NamesTheirOwn`
  says that a name given to one file is the sender's name of no other.
  `PipelineVersions` with a file called `invoice_1` shows what happens otherwise; the
  mail of `PipelineOneWorker` satisfies it, twins included. The invariant `ChainInv` adds
  that a record's version follows one that a row has (`Follows`): no row of the
  thread is added between the lookup and the commit.
* `PipelineImplementsLedger`:
  `OrderlyMail => (Spec /\ []OneWorkerPerEmail => ImplementsLedger)`. The step that
  matters is `Commit`: by `LedgerAllOrNothing` and `RecordPlaced` the new rows are
  all readable attachments of the message; by `CommittedFilesIntact` the others'
  stay readable.

`OneProcessKeepsItsPromises` is what follows for one process, such as a single
service that runs `watch`: `SingleWorker` makes both hypotheses about the behaviour
true, so with `OrderlyMail` and `NamesTheirOwn` the four results hold together for
`Spec` alone.

`DecisionProofs`, for inputs of any length and every limit. A loop of the code is a
recursive function over the number of its turns; that such a function exists and
does what its definition says (`LoopExists`, and `CountedLoop`, `SizesLoop`,
`KeptLoop`, `EnrichedLoop`, `DottedLoop`, `MatchedLoop` for each) is proved by
induction, and the induction itself from the least element of a set of naturals
(`Least`, `NatSetInduction`), because the library's theorems with an operator as a parameter
are out of the provers' reach.

* `FilesDeliveredByPolicy`: every file in `Files` that is not empty is delivered
  exactly if it is harmless and of its declared type. The guard stops at the first bad entry and
  counts as it goes; after `i` entries it knows the sum of their sizes, how many
  are nested, and whether one was refused (`Known`). `InspectionFollowsPolicy`:
  `Spec => []InspectionKeepsPolicy`.
* `RaisingPluginsDoNotCount`: for every list of plugins the veto and the duplicate
  action are those of the plugins that do not raise, and each of these leaves its
  note; after each plugin both lists agree (`Agree`). `PluginFailuresStayContained`:
  `Spec => []PluginFailuresContained`.
* `RuleLinesSelect`: for every rule in one of the six forms and every address in
  `PlainAddresses`, the line matches exactly if the documents name the sender for the
  rule (`Named`) or the sender is below an `@domain` (`AlsoSelected`).
  It rests on texts: labels can be read back from a domain because they have no
  dots (`DottedEnds`, `DomainsCompare`), so a domain ends with a dot and another
  one exactly if its labels end with the other's; an address can be split at its at-sign
  (`AddressesCompare`); a pattern without a wildcard matches itself (`GlobLiteral`),
  one with a star at its head what ends with the rest (`GlobStar`), `*@*` and a text what
  ends with it behind the at-sign (`GlobDomain`), and a name with `*@*` what begins with
  the name (`GlobUser`), because the address has one at-sign (`AddressIsSole`).
  `RulesSelectSenders`: `PlainUsers => (Spec => []RulesSelect)`. A plain user name has
  no star, question mark or at-sign, and no hash mark or dot at its head. The row of
  section 4 with `MCOddUsers` shows what a star or a hash mark does; a star of the
  library does not match a dot in front, which the model's star would.

`FolderControlProofs`, for every value of the constants:

* `FoldersTypeCorrect`. `TypeOK` needs `PhaseSteps`, the calls each phase makes.
* `RulesComeFromRequests`: `Spec => []RulesFollowRequests`. What lies in a folder
  was dragged there (`PlaceAsked`), what a loop handles came from its folder even
  if it has been dragged on since (`InHand`), and a rule is in memory, then in
  its file, before the steps that rely on it (`RulesOrder`). An audited rule is in the
  file but while a later save rewrites it or after one that was cut short (`Unsaved`):
  a rule still in memory is written again by the next save that ends.
* `NothingDeliveredUnasked`: `Spec => []DeliveredOnlyIfAuthorised`, from the same
  facts and `Welcome`, what the inbox loop knows when it processes.
* `DryRunsTouchRulesOnly`: `Spec => DryRunTouchesRulesOnly`, from `DryStep`: a dry
  run never gets to the calls that record, move, audit or acknowledge.
* `NoMailDropped`: `Spec => []NothingDropped`, for any connector, by the order of
  row, move and acknowledgement (`PutAwayLast`). An email without a row is never filed
  as completed and leaves the new messages only after its triage was audited. Where it
  then lies depends on `MovesFrom`: with a connector that cannot move out of the inbox it
  stays there, acknowledged, which is what `FolderTriageLosesMail` shows of all shipped ones.

`AtomicWriterProofs`, for any number of writers, streams and failures:

* `WriterTypeCorrect`, `DestinationsWhole` (`TargetsWhole`) and `WriterPublishes`
  (`ImplementsPublication`, the refinement). The invariant: names of temporary
  files are a writer's own, unique, and older than its present one unless they
  are its present one (`Named`), so that a stream is never mixed with another;
  and what is staged is what was read so far, all of it at the commit
  (`StagedSoFar`).
* `OnlyCrashesLeak` (`TempsReleased`): the same names make each crash and each failed
  `unlink` add at most one file without a writer, and every other step none (`Counted`).

`RuleStoreProofs`: `RulesTypeCorrect`, and `OneEditorKeepsEdits` (`EditsKept`): an
editor that is alone is ahead of the file by exactly the edit it is saving, apart
from the configured rules, which it always has (`EditsInv`).

`MasterIndexProofs`: `ReadersSeeWholeIndex` (`IndexWhole`) and
`IndexForgetsNothing` (`IndexMonotonic`): while refreshes have not met, the
temporary file is never the index, and holds at the rename at least what the
index lists (`Orderly`). `IndexTypeCorrect` (`TypeOK`) holds also when refreshes
overlap; it counts the inodes in use, so the bound on them hides no behaviour.

`ImapConnectorProofs`, for any mailbox, window and number of failures:

* `ImapTypeCorrect`. `TypeOK` is not inductive: an acknowledgement looks up the
  number of its id and must find one (`Targeted`), which stands for an email of
  the mailbox (`ViewOfBox`), also in the first step of a new process
  (`NothingRemembered`).
* `ImapKeepsIntake`: `Spec => ImplementsIntake`, the refinement of `MailIntake`. The
  cache holds nothing but what was fetched under its key (`CacheTrue`), every
  payload of the batch is still there when its turn comes (`Ready`), although
  reading takes it out, because each cycle fetches again what it lists; what was
  read and what is left make up the email at hand (`InHand`), and what is
  acknowledged has a row (`Done`). `Kin` is needed as it is: where two emails share
  a `Message-ID` the acknowledgement may go to the other one. That no email with a
  `Message-ID` enters twice rests on rows that bear its id (`RowsNamed`) and on the
  check before the envelope is begun (`InHand`), which also turns the excluded away
  (`Admitted`); one without may enter again, and `RecordedOnce` shows that it does.

`GmailConnectorProofs`, for any mailbox, window, page size and number of retries:

* `GmailTypeCorrect`: also that no fetch collects more than the window, however
  the pages fall (`RoomForPage`).
* `GmailKeepsIntake`: `Spec => ImplementsIntake`, by `InHand` and `Done` as above.
* `RetriesAbsorbOutages`: `Spec => OutagesAbsorbed`: a download that fails gives an
  envelope up only when more calls than the retries have failed for that attachment,
  because the attempts used so far are its own (`Tried`). What else raises in the
  pipeline gives the envelope up at once and is not claimed to be absorbed.

The assumptions are the modules' own (`ASSUME`), among them that the sets which
must offer a first element are not empty, and that `MasterIndex` has two inodes
more than processes. The bounds on drags, faults, crashes and stalls are natural
numbers, of any size.

Only model-checked: liveness under fairness, which is out of the prover's reach
(`HealthyMessagesIngested`, `RequestsHonoured`, `InboxDrained`, `FittingPublished`,
`OrphansPurged`, `RowsGetListed`, `OnlyFiveCausesStarve`, `NewestGetIn`). No module
uses a recursive operator. The inductive invariants were checked by TLC before they
were proved, as invariants of the passing configurations' instances, those about
workers in different emails and threads with two workers (for `ChainInv` with
`Nat` cut to the suffixes in use); the definitions that were rewritten as recursive functions were compared
by TLC with the ones they replaced.

## 6. What is not modelled

* The Graph connector, a stub that returns no emails.
* The characters that the sanitiser converts, the choice of the delivery folder
  and the signature filter's heuristics: conversions and scores over text whose
  outcome is a parameter of the pipeline's model.
* The similarity measure, rendering of sidecars, reports and the index, and what
  the built-in plugins write: data that no property tells apart.
* Configuration, wizard and installer: parsing and prompting; the settings that
  matter are constants of the models.
* Foreign keys, which SQLite does not enforce here and Postgres would: audit rows
  that precede their message row would be refused there. WAL checkpoints.
* Loss of power: a crash is the end of a process.
