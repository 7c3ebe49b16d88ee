---------------------------- MODULE FolderControl ----------------------------
(***************************************************************************)
(* run_sync and _process_folder_control over one mailbox: a cycle handles  *)
(* the folders [Blocked Senders], [Approved Senders] and [To Download],    *)
(* then the inbox.  The employee's only interface is to drag an email into *)
(* a folder; the engine answers by moving it to [Completed].               *)
(*                                                                         *)
(* A step is one call of the loop bodies: a rule added, a rule file opened *)
(* for writing, its text written, a ledger transaction, an audit           *)
(* transaction, a provider call.  Between two of them the process may die, *)
(* a call may raise, and the user may drag.  _process_envelope is one step *)
(* here (EnvelopePipeline opens it).                                       *)
(***************************************************************************)
EXTENDS Integers, FiniteSets

CONSTANTS
    Messages,     \* numbers: the one order in which the provider lists emails
    Senders, SenderOf,
    Poison,       \* emails whose processing raises every time
    Handled,      \* emails the user drags
    DragFrom,     \* places the user drags them from
    DragsAnytime, \* also while a cycle runs
    MovesFrom,    \* places fetch_messages_from_folder and move_message know:
                  \* none for IMAP, Gmail and Graph (BaseEmailConnector), the
                  \* folders for MockEmailConnector
    AutoTriage,   \* folder_control.auto_triage_unknown_to_review
    DryRuns,      \* values of --dry-run that processes are started with
    MaxDrags, MaxFaults, MaxCrashes \* bounds on what the environment does

Folders == {"blocked", "approved", "download"}
Places == Folders \cup {"unsent", "inbox", "review", "completed"}
Phases == Folders \cup {"inbox", "rest", "off"}
Steps == {"fetch", "next", "rule", "save", "write", "record", "process", "review",
          "audit", "move", "ack"}

ASSUME MailboxAssumption ==
    /\ Messages \subseteq Nat /\ Messages # {}
    /\ SenderOf \in [Messages -> Senders]
    /\ Poison \subseteq Messages /\ Handled \subseteq Messages
    /\ DragFrom \subseteq {"inbox", "review", "completed"}
    /\ MovesFrom \subseteq Places \ {"unsent"}
    /\ DragsAnytime \in BOOLEAN /\ AutoTriage \in BOOLEAN
    /\ DryRuns \subseteq BOOLEAN

ASSUME BoundsAssumption == {MaxDrags, MaxFaults, MaxCrashes} \subseteq Nat

VARIABLES
    place,        \* where each email is
    seen,         \* acknowledged: no longer offered as a new message
    status,       \* its row of messages: "none", "PROCESSED" or "EXCLUDED"
    audit,        \* audit_logs rows, as <<event, message>>
    blocked, approved,         \* SenderFilter's lists in memory
    blockedFile, approvedFile, \* and the files they are saved to
    phase, step,  \* where run_sync is; "off": no process
    dry,          \* the process was started with --dry-run
    batch, cur,   \* envelopes fetched and not reached; the one at hand
    asked,        \* history: <<folder, message>> the user dragged
    verdict,      \* history: the rule folder that last handled a sender
    lost,         \* history: rules that a save cut short took out of a file
    drags, faults, crashes

mailbox == <<place, seen>>
database == <<status, audit>>
rules == <<blocked, approved, blockedFile, approvedFile>>
control == <<phase, step, dry, batch, cur>>
history == <<asked, verdict, lost, drags, faults, crashes>>
vars == <<place, seen, status, audit, blocked, approved, blockedFile, approvedFile,
          phase, step, dry, batch, cur, asked, verdict, lost, drags, faults, crashes>>

Init ==
    /\ place = [m \in Messages |-> "unsent"] /\ seen = {}
    /\ status = [m \in Messages |-> "none"] /\ audit = {}
    /\ blocked = {} /\ approved = {} /\ blockedFile = {} /\ approvedFile = {}
    /\ phase = "off" /\ step = "fetch" /\ dry = FALSE
    /\ batch = {} /\ cur = CHOOSE m \in Messages : TRUE
    /\ asked = {} /\ verdict = [s \in Senders |-> "none"] /\ lost = {}
    /\ drags = 0 /\ faults = 0 /\ crashes = 0

-----------------------------------------------------------------------------
(* The mailbox and its user. *)

Arrive(m) ==
    /\ place[m] = "unsent"
    /\ place' = [place EXCEPT ![m] = "inbox"]
    /\ UNCHANGED <<seen, database, rules, control, history>>

Drag(m, f) ==
    /\ m \in Handled /\ place[m] \in DragFrom
    /\ DragsAnytime \/ phase \in {"rest", "off"}
    /\ drags < MaxDrags
    /\ drags' = drags + 1
    /\ place' = [place EXCEPT ![m] = f]
    /\ asked' = asked \cup {<<f, m>>}
    /\ UNCHANGED <<seen, database, rules, control, verdict, lost, faults, crashes>>

(* move_message: an email that is not where the connector looks stays. *)
Moved(m, sources, target) ==
    IF place[m] \in sources \cap MovesFrom
    THEN [place EXCEPT ![m] = target] ELSE place

-----------------------------------------------------------------------------
(* The process: a new one reads both rule files. *)
Start(d) ==
    /\ phase = "off"
    /\ dry' = d
    /\ blocked' = blockedFile /\ approved' = approvedFile
    /\ phase' = "blocked" /\ step' = "fetch"
    /\ UNCHANGED <<mailbox, database, blockedFile, approvedFile, batch, cur, history>>

(* The watcher's next cycle, or the end of a single sync. *)
Cycle ==
    /\ phase = "rest"
    /\ phase' = "blocked" /\ step' = "fetch"
    /\ UNCHANGED <<mailbox, database, rules, dry, batch, cur, history>>

Exit ==
    /\ phase = "rest"
    /\ phase' = "off"
    /\ UNCHANGED <<mailbox, database, rules, step, dry, batch, cur, history>>

(* Mutant: the index refresh counts as a phase, and the cycle never rests. *)
FollowingIndex(p) == CASE p = "blocked" -> "approved"
                       [] p = "approved" -> "download"
                       [] p = "download" -> "inbox"
                       [] p = "inbox" -> "index"

Following(p) == CASE p = "blocked" -> "approved"
                  [] p = "approved" -> "download"
                  [] p = "download" -> "inbox"
                  [] p = "inbox" -> "rest"

Active == phase \in Folders \cup {"inbox"}

(* Mutant: emails once acknowledged are not listed in a folder either.     *)
FetchUnseen ==
    /\ Active /\ step = "fetch"
    /\ batch' = IF phase = "inbox"
                THEN {m \in Messages : place[m] = "inbox" /\ m \notin seen}
                ELSE {m \in Messages : place[m] = phase /\ phase \in MovesFrom /\ m \notin seen}
    /\ step' = "next"
    /\ UNCHANGED <<mailbox, database, rules, phase, dry, cur, history>>

(* fetch_messages_from_folder, or fetch_new_messages for the inbox. *)
Fetch ==
    /\ Active /\ step = "fetch"
    /\ batch' = IF phase = "inbox"
                THEN {m \in Messages : place[m] = "inbox" /\ m \notin seen}
                ELSE {m \in Messages : place[m] = phase /\ phase \in MovesFrom}
    /\ step' = "next"
    /\ UNCHANGED <<mailbox, database, rules, phase, dry, cur, history>>

EndPhase ==
    /\ Active /\ step = "next" /\ batch = {}
    /\ phase' = Following(phase) /\ step' = "fetch"
    /\ UNCHANGED <<mailbox, database, rules, dry, batch, cur, history>>

(* Mutant: the pass is audited and filed without a download.               *)
PassStepEmpty(m) == IF dry THEN "next" ELSE "audit"

(* Where the loop body of the one-time pass starts. *)
PassStep(m) == IF status[m] = "none" THEN "process" ELSE IF dry THEN "next" ELSE "audit"

(* Mutant: the triage of unknown senders is skipped. *)
UntriagedStep(m) ==
    CASE status[m] # "none" -> "next"
      [] dry -> "next"
      [] SenderOf[m] \in blocked -> "record"
      [] OTHER -> "process"

(* Where the loop body of the inbox starts: known, excluded, unknown, or   *)
(* welcome.                                                                *)
InboxStep(m) ==
    CASE status[m] # "none" -> "next"
      [] SenderOf[m] \in blocked -> IF dry THEN "next" ELSE "record"
      [] AutoTriage /\ SenderOf[m] \notin approved -> IF dry THEN "next" ELSE "review"
      [] OTHER -> "process"

Take ==
    /\ Active /\ step = "next"
    /\ \E m \in batch :
         /\ \A n \in batch : m <= n
         /\ batch' = batch \ {m}
         /\ cur' = m
         /\ step' = CASE phase \in {"blocked", "approved"} -> "rule"
                      [] phase = "download" -> PassStep(m)
                      [] phase = "inbox" -> InboxStep(m)
    /\ UNCHANGED <<mailbox, database, rules, phase, dry, history>>

-----------------------------------------------------------------------------
(* The calls of the loop bodies, in their order. *)

AddRule ==
    /\ step = "rule" /\ Active
    /\ IF phase = "blocked"
       THEN blocked' = blocked \cup {SenderOf[cur]} /\ UNCHANGED approved
       ELSE approved' = approved \cup {SenderOf[cur]} /\ UNCHANGED blocked
    /\ verdict' = [verdict EXCEPT ![SenderOf[cur]] = phase]
    /\ step' = "save"
    /\ UNCHANGED <<mailbox, database, blockedFile, approvedFile, phase, dry, batch, cur,
                   asked, lost, drags, faults, crashes>>

Rewrite(rs, nextStep) ==
    /\ IF phase = "blocked"
       THEN blockedFile' = rs /\ UNCHANGED approvedFile
       ELSE approvedFile' = rs /\ UNCHANGED blockedFile
    /\ step' = nextStep
    /\ UNCHANGED <<mailbox, database, blocked, approved, phase, dry, batch, cur, asked,
                   verdict, drags, faults, crashes>>

(* Where the loop body goes on when the rule is saved: --dry-run skips     *)
(* what follows, not the rule.                                             *)
AfterRule == IF phase = "blocked" THEN IF dry THEN "next" ELSE "record" ELSE PassStep(cur)

(* Mutant: a new rule is kept in memory only. *)
SaveForgotten ==
    /\ step = "save" /\ Active
    /\ step' = AfterRule
    /\ UNCHANGED <<mailbox, database, rules, phase, dry, batch, cur, history>>

(* open(file_path, "w") empties the file. *)
Truncate ==
    /\ step = "save" /\ Active
    /\ Rewrite({}, "write")
    /\ UNCHANGED lost

InMemory == {phase} \X (IF phase = "blocked" THEN blocked ELSE approved)

(* Mutant: what follows the rule is not skipped either. *)
WriteThenRecord ==
    /\ step = "write" /\ Active
    /\ Rewrite(IF phase = "blocked" THEN blocked ELSE approved,
               IF phase = "blocked" THEN "record" ELSE PassStep(cur))
    /\ lost' = lost \ InMemory

(* The whole list is written into the empty file. *)
WriteRules ==
    /\ step = "write" /\ Active
    /\ Rewrite(IF phase = "blocked" THEN blocked ELSE approved, AfterRule)
    /\ lost' = lost \ InMemory

(* record_excluded_message inserts the row: the primary key must be free. *)
RecordExcluded ==
    /\ step = "record" /\ Active
    /\ status[cur] = "none"
    /\ status' = [status EXCEPT ![cur] = "EXCLUDED"]
    /\ audit' = audit \cup {<<"SENDER_EXCLUDED", cur>>}
    /\ step' = IF phase = "inbox" THEN "move" ELSE "audit"
    /\ UNCHANGED <<mailbox, rules, phase, dry, batch, cur, history>>

(* A dry run looks at the attachments' names only.  It may still raise.    *)
Process ==
    /\ step = "process" /\ Active
    /\ cur \notin Poison \/ dry
    /\ status' = IF dry THEN status ELSE [status EXCEPT ![cur] = "PROCESSED"]
    /\ step' = IF dry THEN "next" ELSE IF phase = "inbox" THEN "move" ELSE "audit"
    /\ UNCHANGED <<mailbox, audit, rules, phase, dry, batch, cur, history>>

(* The triage moves first and audits afterwards. *)
Triage ==
    /\ step = "review" /\ Active
    /\ place' = Moved(cur, Places, "review")
    /\ step' = "audit"
    /\ UNCHANGED <<seen, database, rules, phase, dry, batch, cur, history>>

Audit ==
    /\ step = "audit" /\ Active
    /\ audit' = audit \cup {<<phase, cur>>}
    /\ step' = IF phase = "inbox" THEN "ack" ELSE "move"
    /\ UNCHANGED <<mailbox, status, rules, phase, dry, batch, cur, history>>

(* A folder's email is moved out of that folder; an inbox email from       *)
(* wherever it is by now.                                                  *)
Complete ==
    /\ step = "move" /\ Active
    /\ place' = Moved(cur, IF phase = "inbox" THEN Places ELSE {phase}, "completed")
    /\ step' = "ack"
    /\ UNCHANGED <<seen, database, rules, phase, dry, batch, cur, history>>

Acknowledge ==
    /\ step = "ack" /\ Active
    /\ seen' = seen \cup {cur}
    /\ step' = "next"
    /\ UNCHANGED <<place, database, rules, phase, dry, batch, cur, history>>

-----------------------------------------------------------------------------
(* Failures. *)

(* Only the processing of an inbox email, and what follows its commit, is  *)
(* inside the per-envelope try.                                            *)
Isolated == step = "process" \/ (step \in {"move", "ack"} /\ status[cur] = "PROCESSED")

(* Mutant: a failed email takes the inbox loop down with it. *)
AbortUnisolated ==
    /\ IF step = "fetch" \/ phase \in Folders
       THEN phase' = Following(phase) /\ step' = "fetch"
       ELSE phase' = "off" /\ UNCHANGED step
    /\ batch' = {}
    /\ UNCHANGED audit

(* Where an exception leads: past the folder, to the next inbox email, or  *)
(* out of run_sync and of the watcher.                                     *)
Abort ==
    \/ /\ step = "fetch" \/ phase \in Folders
       /\ phase' = Following(phase) /\ step' = "fetch" /\ batch' = {}
       /\ UNCHANGED audit
    \/ /\ step # "fetch" /\ phase = "inbox" /\ Isolated
       /\ step' = "next"
       /\ audit' = audit \cup {<<"ENVELOPE_PROCESSING_ERROR", cur>>}
       /\ UNCHANGED <<phase, batch>>
    \/ /\ step # "fetch" /\ phase = "inbox" /\ ~Isolated
       /\ phase' = "off" /\ batch' = {}
       /\ UNCHANGED <<step, audit>>

(* The email cannot be processed, ever. *)
FailPoison ==
    /\ step = "process" /\ Active /\ cur \in Poison
    /\ Abort
    /\ UNCHANGED <<mailbox, status, rules, dry, cur, history>>

(* The ledger already has a row for the email: IntegrityError. *)
FailRecord ==
    /\ step = "record" /\ Active /\ status[cur] # "none"
    /\ Abort
    /\ UNCHANGED <<mailbox, status, rules, dry, cur, history>>

(* A file that was emptied and not written stays empty. *)
CutShort == lost' = IF step = "write" THEN lost \cup InMemory ELSE lost

(* The provider, the database or the disk fails once. *)
Raise ==
    /\ Active /\ (step = "next" => batch # {})
    /\ faults < MaxFaults
    /\ faults' = faults + 1
    /\ Abort /\ CutShort
    /\ UNCHANGED <<mailbox, status, rules, dry, cur, asked, verdict, drags, crashes>>

Crash ==
    /\ Active
    /\ crashes < MaxCrashes
    /\ crashes' = crashes + 1
    /\ phase' = "off" /\ batch' = {} /\ CutShort
    /\ UNCHANGED <<mailbox, database, rules, step, dry, cur, asked, verdict, drags, faults>>

-----------------------------------------------------------------------------
Engine ==
    \/ Cycle \/ Fetch \/ EndPhase \/ Take
    \/ AddRule \/ Truncate \/ WriteRules \/ RecordExcluded \/ Process \/ Triage
    \/ Audit \/ Complete \/ Acknowledge
    \/ FailPoison \/ FailRecord

Next ==
    \/ Engine \/ Exit \/ Raise \/ Crash
    \/ \E d \in DryRuns : Start(d)
    \/ \E m \in Messages : Arrive(m) \/ \E f \in Folders : Drag(m, f)

Spec == Init /\ [][Next]_vars

(* A running process goes on, the watcher's loop has no end, and an        *)
(* operator starts a process that has died.                                *)
FairSpec == Spec /\ WF_vars(Engine) /\ WF_vars(\E d \in DryRuns : Start(d))

-----------------------------------------------------------------------------
(* Every variable keeps its type.                                         *)
TypeOK ==
    /\ place \in [Messages -> Places] /\ seen \subseteq Messages
    /\ status \in [Messages -> {"none", "PROCESSED", "EXCLUDED"}]
    /\ audit \subseteq (Folders \cup {"inbox", "SENDER_EXCLUDED",
                          "ENVELOPE_PROCESSING_ERROR"}) \X Messages
    /\ {blocked, approved, blockedFile, approvedFile} \subseteq SUBSET Senders
    /\ phase \in Phases /\ step \in Steps /\ dry \in BOOLEAN
    /\ batch \subseteq Messages /\ cur \in Messages
    /\ asked \subseteq Folders \X Messages
    /\ verdict \in [Senders -> {"none", "blocked", "approved"}]
    /\ lost \subseteq {"blocked", "approved"} \X Senders
    /\ drags \in 0..MaxDrags /\ faults \in 0..MaxFaults /\ crashes \in 0..MaxCrashes

Requested(f, s) == \E m \in Messages : SenderOf[m] = s /\ <<f, m>> \in asked

(* With triage on, "no unauthorized files enter the system uninspected"    *)
(* (specification report, line 85): an email is processed only if the user *)
(* gave it a one-time pass or put an email of its sender in                *)
(* [Approved Senders], whatever died or failed in between (engine.py       *)
(* 208-223, 317-336, 344-363).                                             *)
DeliveredOnlyIfAuthorised == AutoTriage =>
    \A m \in Messages : status[m] = "PROCESSED" =>
        <<"download", m>> \in asked \/ Requested("approved", SenderOf[m])

(* The rules of f are not all in its file: a save is rewriting it, or one  *)
(* that died or raised in between took this one out of it.                 *)
Unsaved(f, s) == (phase = f /\ step = "write") \/ <<f, s>> \in lost

(* A rule is there only if the user asked for it, and is in the file by    *)
(* the time the audit log says so.  It then stays there, but for the       *)
(* moment in which a later save rewrites the file, and is gone only if     *)
(* such a save is cut short: nothing else that dies or fails loses a rule  *)
(* (engine.py 292-305, 317-332; sender_filter.py 184-191).                 *)
RulesFollowRequests ==
    /\ \A s \in blocked \cup blockedFile : Requested("blocked", s)
    /\ \A s \in approved \cup approvedFile : Requested("approved", s)
    /\ \A m \in Messages :
         /\ <<"blocked", m>> \in audit =>
              SenderOf[m] \in blockedFile \/ Unsaved("blocked", SenderOf[m])
         /\ <<"approved", m>> \in audit =>
              SenderOf[m] \in approvedFile \/ Unsaved("approved", SenderOf[m])

(* An email without a row in the ledger is never filed in [Completed], and *)
(* is out of the new messages only after the audit log says that it was    *)
(* triaged: it then waits in [Needs Review], where the user dragged it, or *)
(* in the inbox if the connector cannot move it from there and returns the *)
(* False that the engine ignores (engine.py 184-223, 235-238, 296-308,     *)
(* 327-336, 353-363).                                                      *)
NothingDropped ==
    \A m \in Messages : status[m] = "none" =>
        /\ place[m] # "completed"
        /\ m \in seen => /\ <<"inbox", m>> \in audit
                         /\ place[m] \in {"review"} \cup Folders \cup ({"inbox"} \ MovesFrom)

(* A dry run leaves the ledger and the mailbox alone in all four phases:   *)
(* an email is moved by its user only, and nothing is audited but a        *)
(* failure (engine.py 186-250, 292-363).  The rule files are another       *)
(* matter, see DryRunWritesNothing.                                        *)
DryRunTouchesRulesOnly ==
    [][(dry /\ Active) =>
          /\ UNCHANGED <<status, seen>>
          /\ audit' \subseteq audit \cup {<<"ENVELOPE_PROCESSING_ERROR", cur>>}
          /\ \A m \in Messages : place'[m] # place[m] =>
                place[m] = "unsent" \/ drags' > drags]_vars

(* [Approved Senders] and [To Download] do what the specification report   *)
(* says (lines 34-35): the attachments of an email that can be processed   *)
(* are downloaded and it ends up in [Completed], after any number of       *)
(* crashes and transient failures (engine.py 313-366).                     *)
RequestsHonoured ==
    \A m \in Messages \ Poison :
        (place[m] \in {"approved", "download"} /\ status[m] # "EXCLUDED")
            ~> (status[m] = "PROCESSED" /\ place[m] = "completed")

(* A new email is processed, excluded, or taken out of the inbox by its    *)
(* user, even next to one that fails every time (engine.py 225-250).       *)
InboxDrained ==
    \A m \in Messages \ Poison :
        (place[m] = "inbox" /\ ~AutoTriage) ~> (status[m] # "none" \/ place[m] # "inbox")

-----------------------------------------------------------------------------
(* Statements of the documentation that the code does not live up to.      *)

(* Specification report, line 85: the automation "cleanly moves it to      *)
(* [Needs Review]": a new email of an unknown sender that is not offered   *)
(* again waits where somebody looks.                                       *)
TriagedMailWaits ==
    \A m \in seen : status[m] = "none" => place[m] \in {"review"} \cup Folders

(* engine.py 303 and 330, "Permanently blacklisted sender", "Permanently   *)
(* approved sender": what the audit log says of a sender is in a file.     *)
AuditedRulesPermanent ==
    phase = "off" => \A m \in Messages :
        /\ <<"blocked", m>> \in audit => SenderOf[m] \in blockedFile
        /\ <<"approved", m>> \in audit => SenderOf[m] \in approvedFile

(* Specification report, line 36: an email in [Blocked Senders] is "Moved  *)
(* to [Completed]".                                                        *)
BlockRequestsHonoured ==
    \A m \in Messages : place[m] = "blocked" ~> place[m] = "completed"

(* Line 34, and the audit text "One-time pass processed": the pass has     *)
(* downloaded the attachments of the email.                                *)
OneTimePassDelivers ==
    \A m \in Messages : <<"download", m>> \in audit => status[m] = "PROCESSED"

(* Line 83: after [Approved Senders], "Future emails from this sender will *)
(* never require manual intervention".                                     *)
ApprovalLasts ==
    [][\A m \in Messages :
          (phase = "inbox" /\ status[m] = "none" /\ status'[m] = "EXCLUDED")
              => verdict[SenderOf[m]] # "approved"]_vars

(* cli.py 26 and 76: --dry-run simulates "without writing files or         *)
(* modifying database".                                                    *)
DryRunWritesNothing ==
    [][(dry /\ Active) => UNCHANGED <<status, audit, blockedFile, approvedFile>>]_vars

(* engine.py 241: "Isolated per-envelope failure: does not crash the       *)
(* entire sync run": no failing call about one envelope ends the process.  *)
FailuresIsolated ==
    [][(Active /\ step \notin {"fetch", "next"} /\ phase' = "off") => crashes' > crashes]_vars

(* The flowchart of the specification report, line 69: a processed email   *)
(* is moved to [Completed].                                                *)
ProcessedMailFiled ==
    \A m \in Messages : status[m] = "PROCESSED" ~> place[m] = "completed"
==============================================================================
