------------------------ MODULE FolderControlProofs ------------------------
(***************************************************************************)
(* Theorems about FolderControl, for any emails, senders, drags, failures  *)
(* and crashes.                                                            *)
(***************************************************************************)
EXTENDS FolderControl, TLAPS

Events == Folders \cup {"inbox", "SENDER_EXCLUDED", "ENVELOPE_PROCESSING_ERROR"}

(* The calls that each phase makes. *)
PhaseSteps ==
    /\ phase = "blocked" => step \in Steps \ {"process", "review"}
    /\ phase = "approved" => step \in Steps \ {"record", "review"}
    /\ phase = "download" => step \in Steps \ {"rule", "save", "write", "record", "review"}
    /\ phase = "inbox" => step \in Steps \ {"rule", "save", "write"}

LEMMA NextPhaseSteps == TypeOK /\ PhaseSteps /\ [Next]_vars => PhaseSteps'
<1> SUFFICES ASSUME TypeOK, PhaseSteps, [Next]_vars PROVE PhaseSteps'
  OBVIOUS
<1> USE DEF mailbox, database, rules, control, history, Active, Steps, PhaseSteps, Folders
<1>0. phase \in Folders \cup {"inbox", "rest", "off"} /\ step \in Steps
  BY DEF TypeOK, Phases
<1>1. ASSUME NEW m \in Messages, Arrive(m) \/ \E f \in Folders : Drag(m, f)
      PROVE  PhaseSteps'
  BY <1>1 DEF Arrive, Drag
<1>2. CASE (\E d \in DryRuns : Start(d)) \/ Cycle \/ Exit \/ Fetch \/ EndPhase \/ Crash
  BY <1>0, <1>2 DEF Start, Cycle, Exit, Fetch, EndPhase, Following, Crash
<1>3. CASE Take
  BY <1>3 DEF Take, PassStep, InboxStep
<1>4. CASE AddRule \/ RecordExcluded \/ Process \/ Triage \/ Audit \/ Complete \/ Acknowledge
  BY <1>0, <1>4 DEF AddRule, RecordExcluded, Process, Triage, Audit, Complete, Acknowledge
<1>5. CASE Truncate \/ WriteRules
  BY <1>0, <1>5 DEF Truncate, WriteRules, Rewrite, AfterRule, PassStep
<1>6. CASE FailPoison \/ FailRecord \/ Raise
  BY <1>0, <1>6 DEF FailPoison, FailRecord, Raise, Abort, Following
<1>7. CASE UNCHANGED vars
  BY <1>7 DEF vars
<1>8. QED
  BY <1>1, <1>2, <1>3, <1>4, <1>5, <1>6, <1>7 DEF Next, Engine

(* No engine, no mail, no rules: all typed. *)
LEMMA InitTyped == Init => TypeOK
<1> SUFFICES ASSUME Init PROVE TypeOK
  OBVIOUS
<1>1. (CHOOSE m \in Messages : TRUE) \in Messages
  BY MailboxAssumption
<1>2. /\ place \in [Messages -> Places] /\ status \in [Messages -> {"none", "PROCESSED", "EXCLUDED"}]
      /\ verdict \in [Senders -> {"none", "blocked", "approved"}]
  BY DEF Init, Places
<1>3. phase \in Phases /\ step \in Steps /\ cur \in Messages /\ batch \subseteq Messages
  BY <1>1 DEF Init, Phases, Steps
<1>4. /\ drags \in 0..MaxDrags /\ faults \in 0..MaxFaults /\ crashes \in 0..MaxCrashes
  BY BoundsAssumption DEF Init
<1>5. dry \in BOOLEAN
  BY DEF Init
<1>6. /\ seen \subseteq Messages /\ asked \subseteq Folders \X Messages /\ audit \subseteq Events \X Messages
      /\ {blocked, approved, blockedFile, approvedFile} \subseteq SUBSET Senders
      /\ lost = {}
  BY DEF Init
<1>7. QED
  BY <1>2, <1>3, <1>4, <1>5, <1>6 DEF TypeOK, Events

(* The phases of a cycle follow one another. *)
LEMMA FollowingTyped ==
    Active => Following(phase) \in Phases
BY DEF Active, Following, Phases, Folders

(* A message that is moved has a place, and the others stay. *)
LEMMA MovedTyped ==
    ASSUME place \in [Messages -> Places], NEW m \in Messages, NEW S,
           NEW t \in Places
    PROVE  /\ Moved(m, S, t) \in [Messages -> Places]
           /\ \A n \in Messages \ {m} : Moved(m, S, t)[n] = place[n]
           /\ Moved(m, S, t)[m] = IF place[m] \in S \cap MovesFrom THEN t ELSE place[m]
BY DEF Moved

(* An exception leads to a typed step. *)
LEMMA AbortTyped ==
    ASSUME TypeOK, Active, Abort
    PROVE  /\ phase' \in Phases /\ step' \in Steps /\ batch' \subseteq Messages
           /\ audit' \subseteq Events \X Messages
<1>1. audit \subseteq Events \X Messages /\ <<"ENVELOPE_PROCESSING_ERROR", cur>> \in Events \X Messages
  BY DEF TypeOK, Events
<1>2. QED
  BY <1>1, FollowingTyped DEF Abort, TypeOK, Phases, Steps

(* A save that is cut short loses rules of its own file. *)
LEMMA CutShortTyped ==
    ASSUME TypeOK, PhaseSteps, Active, CutShort
    PROVE  lost' \subseteq {"blocked", "approved"} \X Senders
<1>1. step = "write" => phase \in {"blocked", "approved"}
  BY DEF Active, PhaseSteps, Folders
<1>2. step = "write" => InMemory \subseteq {"blocked", "approved"} \X Senders
  BY <1>1 DEF InMemory, TypeOK
<1>3. QED
  BY <1>2 DEF CutShort, TypeOK

(* Each action keeps the types. *)
LEMMA NextTyped == TypeOK /\ PhaseSteps /\ [Next]_vars => TypeOK'
<1> SUFFICES ASSUME TypeOK, PhaseSteps, [Next]_vars PROVE TypeOK'
  OBVIOUS
<1> USE DEF mailbox, database, rules, control, history
<1>0. \A m \in Messages : SenderOf[m] \in Senders
  BY MailboxAssumption
<1>1. ASSUME NEW m \in Messages, Arrive(m) PROVE TypeOK'
  BY <1>1 DEF Arrive, TypeOK, Places
<1>2. ASSUME NEW m \in Messages, NEW f \in Folders, Drag(m, f) PROVE TypeOK'
  <2>1. place' \in [Messages -> Places] /\ asked' \subseteq Folders \X Messages
    BY <1>2 DEF Drag, TypeOK, Places
  <2>2. drags' \in 0..MaxDrags
    BY <1>2, BoundsAssumption DEF Drag, TypeOK
  <2>3. QED
    BY <1>2, <2>1, <2>2 DEF Drag, TypeOK
<1>3. ASSUME NEW d \in DryRuns, Start(d) PROVE TypeOK'
  <2>1. dry' \in BOOLEAN
    BY <1>3, MailboxAssumption DEF Start
  <2>2. phase' \in Phases /\ step' \in Steps
    BY <1>3 DEF Start, Phases, Steps, Folders
  <2>3. QED
    BY <1>3, <2>1, <2>2 DEF Start, TypeOK
<1>4. CASE Cycle \/ Exit
  <2>1. phase' \in Phases /\ step' \in Steps
    BY <1>4 DEF Cycle, Exit, TypeOK, Phases, Steps, Folders
  <2>2. QED
    BY <1>4, <2>1 DEF Cycle, Exit, TypeOK
<1>5. CASE Fetch \/ EndPhase
  <2>1. phase' \in Phases /\ step' \in Steps
    BY <1>5, FollowingTyped DEF Fetch, EndPhase, TypeOK, Steps
  <2>2. QED
    BY <1>5, <2>1 DEF Fetch, EndPhase, TypeOK
<1>6. CASE Take
  <2>1. PICK m \in batch : batch' = batch \ {m} /\ cur' = m
    BY <1>6 DEF Take
  <2>2. step' \in Steps
    BY <1>6 DEF Take, PassStep, InboxStep, Steps, Active, Folders
  <2>3. QED
    BY <1>6, <2>1, <2>2 DEF Take, TypeOK
<1>7. CASE AddRule
  <2>1. /\ blocked' \in SUBSET Senders /\ approved' \in SUBSET Senders
    BY <1>0, <1>7 DEF AddRule, TypeOK
  <2>2. phase \in {"blocked", "approved"}
    BY <1>7 DEF AddRule, Active, PhaseSteps, Folders
  <2>3. verdict' \in [Senders -> {"none", "blocked", "approved"}]
    BY <1>0, <1>7, <2>2 DEF AddRule, TypeOK
  <2>4. step' \in Steps
    BY <1>7 DEF AddRule, Steps
  <2>5. QED
    BY <1>7, <2>1, <2>3, <2>4 DEF AddRule, TypeOK
<1>8. CASE Truncate \/ WriteRules
  <2>1. step' \in Steps
    BY <1>8 DEF Truncate, WriteRules, Rewrite, AfterRule, PassStep, Steps
  <2>a. InMemory \subseteq {"blocked", "approved"} \X Senders
    BY <1>8 DEF Truncate, WriteRules, Active, PhaseSteps, Folders, InMemory, TypeOK
  <2>b. lost' \subseteq {"blocked", "approved"} \X Senders
    BY <1>8, <2>a DEF Truncate, WriteRules, TypeOK
  <2>2. blockedFile' \in SUBSET Senders /\ approvedFile' \in SUBSET Senders
    BY <1>8 DEF Truncate, WriteRules, Rewrite, TypeOK
  <2>3. QED
    BY <1>8, <2>1, <2>2, <2>b DEF Truncate, WriteRules, Rewrite, TypeOK
<1>9. CASE RecordExcluded \/ Process \/ Audit
  <2>1. step' \in Steps
    BY <1>9 DEF RecordExcluded, Process, Audit, Steps
  <2>2. status' \in [Messages -> {"none", "PROCESSED", "EXCLUDED"}]
    BY <1>9 DEF RecordExcluded, Process, Audit, TypeOK
  <2>3. \A e \in Events : <<e, cur>> \in Events \X Messages
    BY DEF TypeOK
  <2>4. phase \in Events \/ ~Active
    BY DEF Active, Events
  <2>5. audit' \subseteq Events \X Messages
    BY <1>9, <2>3, <2>4 DEF RecordExcluded, Process, Audit, TypeOK, Events
  <2>6. QED
    BY <1>9, <2>1, <2>2, <2>5 DEF RecordExcluded, Process, Audit, TypeOK, Events
<1>10. CASE Triage \/ Complete \/ Acknowledge
  <2>1. step' \in Steps
    BY <1>10 DEF Triage, Complete, Acknowledge, Steps
  <2>2. \A S : /\ Moved(cur, S, "review") \in [Messages -> Places]
               /\ Moved(cur, S, "completed") \in [Messages -> Places]
    BY MovedTyped DEF TypeOK, Places
  <2>3. place' \in [Messages -> Places] /\ seen' \subseteq Messages
    BY <1>10, <2>2 DEF Triage, Complete, Acknowledge, TypeOK
  <2>4. QED
    BY <1>10, <2>1, <2>3 DEF Triage, Complete, Acknowledge, TypeOK
<1>11. CASE FailPoison \/ FailRecord
  BY <1>11, AbortTyped DEF FailPoison, FailRecord, TypeOK, Events
<1>12. CASE Raise
  <2>1. faults' \in 0..MaxFaults
    BY <1>12, BoundsAssumption DEF Raise, TypeOK
  <2>2. QED
    BY <1>12, <2>1, AbortTyped, CutShortTyped DEF Raise, TypeOK, Events
<1>13. CASE Crash
  <2>1. crashes' \in 0..MaxCrashes /\ phase' \in Phases
    BY <1>13, BoundsAssumption DEF Crash, TypeOK, Phases
  <2>2. QED
    BY <1>13, <2>1, CutShortTyped DEF Crash, TypeOK
<1>14. CASE UNCHANGED vars
  BY <1>14 DEF vars, TypeOK
<1>15. QED
  BY <1>1, <1>2, <1>3, <1>4, <1>5, <1>6, <1>7, <1>8, <1>9, <1>10, <1>11, <1>12, <1>13, <1>14
     DEF Next, Engine

(* Every variable keeps its type.  TypeOK needs PhaseSteps: only the rule  *)
(* folders pronounce a verdict.                                            *)
THEOREM FoldersTypeCorrect == Spec => []TypeOK
<1>1. Init => PhaseSteps
  BY DEF Init, PhaseSteps
<1>2. QED
  BY <1>1, InitTyped, NextTyped, NextPhaseSteps, PTL DEF Spec

-----------------------------------------------------------------------------
(* What lies in a folder was dragged there, ...                            *)
PlaceAsked == \A m \in Messages : place[m] \in Folders => <<place[m], m>> \in asked

(* ... and what a loop handles came from where its phase looks.            *)
Offered(m) == place[m] # "unsent" /\ (phase \in Folders => <<phase, m>> \in asked)
OfferedNext(m) == place'[m] # "unsent" /\ (phase' \in Folders => <<phase', m>> \in asked')
InHand ==
    Active /\ step # "fetch" =>
        /\ \A m \in batch : Offered(m)
        /\ step # "next" => Offered(cur)

(* Emails only go to folders on request, to review or to completed. *)
LEMMA NextPlaces ==
    ASSUME TypeOK, [Next]_vars
    PROVE  /\ asked \subseteq asked'
           /\ \A m \in Messages :
                 /\ place[m] # "unsent" => place'[m] # "unsent"
                 /\ \/ place'[m] = place[m]
                    \/ place[m] = "unsent" /\ place'[m] = "inbox"
                    \/ place'[m] \in Folders /\ <<place'[m], m>> \in asked'
                    \/ place'[m] \in {"review", "completed"}
<1> USE DEF mailbox, database, rules, control, history
<1>1. ASSUME NEW n \in Messages, Arrive(n)
      PROVE  /\ asked' = asked
             /\ \A m \in Messages : \/ place'[m] = place[m]
                                    \/ place[m] = "unsent" /\ place'[m] = "inbox"
  BY <1>1 DEF Arrive, TypeOK
<1>2. ASSUME NEW n \in Messages, NEW f \in Folders, Drag(n, f)
      PROVE  /\ asked \subseteq asked'
             /\ \A m \in Messages : \/ place'[m] = place[m]
                                    \/ place'[m] \in Folders /\ <<place'[m], m>> \in asked'
  BY <1>2 DEF Drag, TypeOK
<1>3. CASE Triage \/ Complete
  <2>1. asked' = asked /\ cur \in Messages
    BY <1>3 DEF Triage, Complete, TypeOK
  <2>2. \E S : \E t \in {"review", "completed"} : place' = Moved(cur, S, t)
    BY <1>3 DEF Triage, Complete
  <2>3. PICK S : \E t \in {"review", "completed"} : place' = Moved(cur, S, t)
    BY <2>2
  <2>4. \A m \in Messages : place'[m] = place[m] \/ place'[m] \in {"review", "completed"}
    BY <2>1, <2>3, MovedTyped DEF TypeOK, Places
  <2>5. QED
    BY <2>1, <2>4
<1>4. CASE place' = place /\ asked' = asked
  BY <1>4
<1>5. ASSUME NEW d \in DryRuns, Start(d) PROVE place' = place /\ asked' = asked
  BY <1>5 DEF Start
<1>6. Cycle \/ Exit \/ Fetch \/ EndPhase \/ Take \/ AddRule \/ Truncate \/ WriteRules \/ RecordExcluded
      \/ Process \/ Audit \/ Acknowledge \/ FailPoison \/ FailRecord \/ Raise \/ Crash
        => place' = place /\ asked' = asked
  BY DEF Cycle, Exit, Fetch, EndPhase, Take, AddRule, Truncate, WriteRules, Rewrite, RecordExcluded,
         Process, Audit, Acknowledge, FailPoison, FailRecord, Raise, Crash
<1>7. UNCHANGED vars => place' = place /\ asked' = asked
  BY DEF vars
<1>8. QED
  BY <1>1, <1>2, <1>3, <1>4, <1>5, <1>6, <1>7 DEF Next, Engine, Folders

LEMMA NextPlaceAsked == TypeOK /\ PlaceAsked /\ [Next]_vars => PlaceAsked'
BY NextPlaces DEF PlaceAsked, Folders

(* An email that was offered stays so for the phase. *)
LEMMA OfferedKept ==
    ASSUME TypeOK, [Next]_vars, NEW m \in Messages, Offered(m), phase' = phase
    PROVE  OfferedNext(m)
BY NextPlaces DEF Offered, OfferedNext

LEMMA NextInHand == TypeOK /\ PlaceAsked /\ InHand /\ [Next]_vars => InHand'
<1> SUFFICES ASSUME TypeOK, PlaceAsked, InHand, [Next]_vars, Active', step' # "fetch"
             PROVE  /\ \A m \in batch' : OfferedNext(m)
                    /\ step' # "next" => OfferedNext(cur')
  BY DEF InHand, Offered, OfferedNext
<1> USE DEF mailbox, database, rules, control, history
<1>0. batch \subseteq Messages /\ cur \in Messages
  BY DEF TypeOK
<1>1. CASE Fetch
  <2>1. \A m \in batch' : /\ m \in Messages
                          /\ place[m] = IF phase = "inbox" THEN "inbox" ELSE phase
    BY <1>1 DEF Fetch
  <2>2. step' = "next" /\ phase' = phase /\ place' = place /\ asked' = asked
    BY <1>1 DEF Fetch
  <2>3. QED
    BY <2>1, <2>2 DEF OfferedNext, PlaceAsked, Active, Folders
<1>2. CASE Take
  <2>1. /\ cur' \in batch /\ batch' \subseteq batch /\ phase' = phase
        /\ \A m \in batch : Offered(m)
    BY <1>2 DEF Take, InHand
  <2>3. \A m \in batch : OfferedNext(m)
    BY <1>0, <2>1, OfferedKept
  <2>4. QED
    BY <2>1, <2>3
<1>3. CASE phase' = phase /\ batch' = batch /\ cur' = cur /\ step # "fetch"
           /\ (step # "next" \/ step' = "next")
  <2>1. /\ Active /\ \A m \in batch : Offered(m)
        /\ step' # "next" => Offered(cur)
    BY <1>3 DEF InHand, Active
  <2>2. \A m \in batch : OfferedNext(m)
    BY <1>0, <1>3, <2>1, OfferedKept
  <2>3. step' # "next" => OfferedNext(cur)
    BY <1>0, <1>3, <2>1, OfferedKept
  <2>4. QED
    BY <1>3, <2>2, <2>3
<1>4. AddRule \/ Truncate \/ WriteRules \/ RecordExcluded \/ Process \/ Triage \/ Audit \/ Complete \/ Acknowledge
        => /\ phase' = phase /\ batch' = batch /\ cur' = cur /\ step \notin {"fetch", "next"}
  BY DEF AddRule, Truncate, WriteRules, Rewrite, RecordExcluded, Process, Triage, Audit, Complete, Acknowledge
<1>5. ASSUME (\E m \in Messages : Arrive(m) \/ \E f \in Folders : Drag(m, f)) \/ UNCHANGED vars
      PROVE  phase' = phase /\ batch' = batch /\ cur' = cur /\ step' = step
  BY <1>5 DEF Arrive, Drag, vars
<1>6. ASSUME Abort, cur' = cur
      PROVE  /\ phase' = phase /\ batch' = batch /\ cur' = cur /\ step # "fetch" /\ step' = "next"
  <2>1. phase' # "off"
    BY DEF Active, Folders
  <2>2. QED
    BY <1>6, <2>1 DEF Abort
<1>7. FailPoison \/ FailRecord \/ Raise => Abort /\ cur' = cur
  BY DEF FailPoison, FailRecord, Raise
<1>8. ~Crash /\ ~Exit /\ ~Cycle /\ ~EndPhase /\ \A d \in DryRuns : ~Start(d)
  BY DEF Crash, Exit, Cycle, EndPhase, Start, Active, Folders
<1>10. CASE \/ \E m \in Messages : Arrive(m) \/ \E f \in Folders : Drag(m, f)
            \/ UNCHANGED vars
  <2>1. phase' = phase /\ batch' = batch /\ cur' = cur /\ step' = step
    BY <1>5, <1>10
  <2>2. QED
    BY <1>3, <2>1
<1>11. CASE AddRule \/ Truncate \/ WriteRules \/ RecordExcluded \/ Process \/ Triage \/ Audit \/ Complete
            \/ Acknowledge
  BY <1>3, <1>4, <1>11
<1>12. CASE FailPoison \/ FailRecord \/ Raise
  BY <1>3, <1>6, <1>7, <1>12
<1>13. QED
  BY <1>1, <1>2, <1>8, <1>10, <1>11, <1>12 DEF Next, Engine

-----------------------------------------------------------------------------
(* A process knows the rules of the files and, but for those a save cut    *)
(* short has lost, the audited ones, which is what lets it write the whole *)
(* list into a file it has emptied.  A rule is in memory, then in its      *)
(* file, before the steps that rely on it.                                 *)
AuditedKnown ==
    \A m \in Messages :
        /\ <<"blocked", m>> \in audit =>
             SenderOf[m] \in blocked \/ <<"blocked", SenderOf[m]>> \in lost
        /\ <<"approved", m>> \in audit =>
             SenderOf[m] \in approved \/ <<"approved", SenderOf[m]>> \in lost

RulesOrder ==
    /\ phase # "off" => /\ blockedFile \subseteq blocked /\ approvedFile \subseteq approved
                        /\ AuditedKnown
    /\ phase = "blocked" =>
         /\ step \in {"save", "write"} => SenderOf[cur] \in blocked
         /\ step \in {"record", "audit", "move", "ack"} => SenderOf[cur] \in blockedFile
    /\ phase = "approved" =>
         /\ step \in {"save", "write"} => SenderOf[cur] \in approved
         /\ step \in {"process", "audit", "move", "ack"} => SenderOf[cur] \in approvedFile
AtHand == PlaceAsked /\ InHand

(* An exception ends the phase, or the work on the email. *)
LEMMA AbortEnds ==
    ASSUME Active, Abort
    PROVE  /\ step' \in {"fetch", "next"} \/ phase' = "off"
           /\ phase' \in Phases
           /\ audit' \subseteq audit \cup {<<"ENVELOPE_PROCESSING_ERROR", cur>>}
BY DEF Abort, Active, Following, Phases, Folders

(* Requests are not forgotten. *)
LEMMA RequestedKept ==
    ASSUME asked \subseteq asked', NEW f, NEW s, Requested(f, s)
    PROVE  Requested(f, s)'
BY DEF Requested

(* Rules come from requests, and get into the file before the audit log.   *)
LEMMA NextRules ==
    TypeOK /\ PhaseSteps /\ AtHand /\ RulesOrder /\ RulesFollowRequests /\ [Next]_vars
        => RulesOrder' /\ RulesFollowRequests'
<1> SUFFICES ASSUME TypeOK, PhaseSteps, AtHand, RulesOrder, RulesFollowRequests, [Next]_vars
             PROVE  RulesOrder' /\ RulesFollowRequests'
  OBVIOUS
<1> USE DEF mailbox, database, rules, control, history
<1>0. asked \subseteq asked' /\ \A f, s : Requested(f, s) => Requested(f, s)'
  BY NextPlaces, RequestedKept
<1>1. ASSUME NEW m \in Messages, Arrive(m) \/ \E f \in Folders : Drag(m, f)
      PROVE  RulesOrder' /\ RulesFollowRequests'
  <2>1. UNCHANGED <<database, rules, control>>
    BY <1>1 DEF Arrive, Drag
  <2>2. UNCHANGED lost
    BY <1>1 DEF Arrive, Drag
  <2>3. QED
    BY <1>0, <2>1, <2>2 DEF RulesOrder, RulesFollowRequests, AuditedKnown, Unsaved
<1>2. ASSUME NEW d \in DryRuns, Start(d) PROVE RulesOrder' /\ RulesFollowRequests'
  <2>1. /\ blocked' = blockedFile /\ approved' = approvedFile /\ step' = "fetch"
        /\ UNCHANGED <<blockedFile, approvedFile, audit, asked, lost>> /\ phase = "off"
    BY <1>2 DEF Start
  <2>2. AuditedKnown'
    BY <2>1 DEF AuditedKnown, RulesFollowRequests, Unsaved
  <2>3. QED
    BY <1>0, <2>1, <2>2 DEF RulesOrder, RulesFollowRequests, Unsaved
<1>3. CASE Cycle \/ Exit \/ Fetch \/ EndPhase
  <2>1. /\ UNCHANGED <<audit, rules, asked, lost>>
        /\ step' \in {"fetch", "next"} \/ phase' = "off"
        /\ phase # "off"
    BY <1>3 DEF Cycle, Exit, Fetch, EndPhase, Active, Folders
  <2>2. phase = "rest" \/ step # "write"
    BY <1>3 DEF Cycle, Exit, Fetch, EndPhase
  <2>3. QED
    BY <1>0, <2>1, <2>2 DEF RulesOrder, RulesFollowRequests, AuditedKnown, Unsaved
<1>4. CASE Take
  <2>1. /\ UNCHANGED <<audit, rules, asked, lost, phase>> /\ phase # "off" /\ step # "write"
        /\ phase \in {"blocked", "approved"} => step' = "rule"
    BY <1>4 DEF Take, Active, Folders
  <2>2. QED
    BY <1>0, <2>1 DEF RulesOrder, RulesFollowRequests, AuditedKnown, Unsaved
<1>5. CASE AddRule
  <2>1. phase \in {"blocked", "approved"} /\ step = "rule" /\ step' = "save" /\ phase' = phase
        /\ cur' = cur /\ UNCHANGED <<audit, blockedFile, approvedFile, asked, lost>>
    BY <1>5 DEF AddRule, Active, PhaseSteps, Folders
  <2>2. Requested(phase, SenderOf[cur])
    BY <2>1 DEF AtHand, InHand, Offered, Requested, Active, Folders, TypeOK
  <2>3. CASE phase = "blocked"
    <3>1. blocked' = blocked \cup {SenderOf[cur]} /\ approved' = approved
      BY <1>5, <2>3 DEF AddRule
    <3>2. QED
      BY <1>0, <2>1, <2>2, <2>3, <3>1
         DEF RulesOrder, RulesFollowRequests, AuditedKnown, Unsaved
  <2>4. CASE phase = "approved"
    <3>1. approved' = approved \cup {SenderOf[cur]} /\ blocked' = blocked
      BY <1>5, <2>4 DEF AddRule
    <3>2. QED
      BY <1>0, <2>1, <2>2, <2>4, <3>1
         DEF RulesOrder, RulesFollowRequests, AuditedKnown, Unsaved
  <2>5. QED
    BY <2>1, <2>3, <2>4
<1>6. CASE Truncate \/ WriteRules
  <2> DEFINE Whole == step = "write" /\ step' \notin {"save", "write"} /\ lost' = lost \ InMemory
             Empty == step = "save" /\ step' = "write" /\ lost' = lost
  <2>1. /\ phase \in {"blocked", "approved"} /\ phase' = phase
        /\ cur' = cur /\ UNCHANGED <<audit, blocked, approved, asked>>
    BY <1>6 DEF Truncate, WriteRules, Rewrite, Active, PhaseSteps, Folders
  <2>2. /\ phase = "blocked" => approvedFile' = approvedFile
        /\ phase = "approved" => blockedFile' = blockedFile
    BY <1>6 DEF Truncate, WriteRules, Rewrite
  <2>3. \/ /\ Empty
           /\ phase = "blocked" => blockedFile' = {}
           /\ phase = "approved" => approvedFile' = {}
        \/ /\ Whole
           /\ phase = "blocked" => blockedFile' = blocked
           /\ phase = "approved" => approvedFile' = approved
    BY <1>6, <2>1 DEF Truncate, WriteRules, Rewrite, AfterRule, PassStep
  <2>4. AuditedKnown /\ AuditedKnown'
    BY <2>1, <2>3 DEF RulesOrder, AuditedKnown, InMemory
  <2>5. RulesOrder'
    BY <2>1, <2>2, <2>3, <2>4 DEF RulesOrder
  <2>6. \A m \in Messages :
          /\ <<"blocked", m>> \in audit =>
               SenderOf[m] \in blockedFile' \/ Unsaved("blocked", SenderOf[m])'
          /\ <<"approved", m>> \in audit =>
               SenderOf[m] \in approvedFile' \/ Unsaved("approved", SenderOf[m])'
    <3>1. CASE Empty
      BY <2>1, <2>2, <2>3, <3>1 DEF RulesFollowRequests, Unsaved
    <3>2. CASE Whole /\ phase = "blocked"
      BY <2>1, <2>2, <2>3, <2>4, <3>2 DEF RulesFollowRequests, AuditedKnown, Unsaved, InMemory
    <3>3. CASE Whole /\ phase = "approved"
      BY <2>1, <2>2, <2>3, <2>4, <3>3 DEF RulesFollowRequests, AuditedKnown, Unsaved, InMemory
    <3>4. QED
      BY <2>1, <2>3, <3>1, <3>2, <3>3
  <2>7. RulesFollowRequests'
    BY <1>0, <2>1, <2>2, <2>3, <2>6 DEF RulesFollowRequests
  <2>8. QED
    BY <2>5, <2>7
<1>7. CASE RecordExcluded \/ Process \/ Triage \/ Complete \/ Acknowledge
  <2>1. /\ UNCHANGED <<rules, asked, lost, phase, cur>>
        /\ step' \in {"move", "audit", "ack", "next"}
        /\ audit' \subseteq audit \cup {<<"SENDER_EXCLUDED", cur>>} /\ Active
        /\ step \in {"record", "process", "review", "move", "ack"}
    BY <1>7 DEF RecordExcluded, Process, Triage, Complete, Acknowledge
  <2>2. RulesOrder'
    BY <2>1 DEF RulesOrder, AuditedKnown, PhaseSteps, Active, Folders
  <2>3. RulesFollowRequests'
    BY <1>0, <2>1 DEF RulesFollowRequests, Unsaved
  <2>4. QED
    BY <2>2, <2>3
<1>8. CASE Audit
  <2>1. /\ UNCHANGED <<rules, asked, lost, phase, cur>> /\ step = "audit"
        /\ step' \in {"ack", "move"}
        /\ audit' = audit \cup {<<phase, cur>>} /\ Active
    BY <1>8 DEF Audit
  <2>2. RulesOrder'
    BY <2>1 DEF RulesOrder, AuditedKnown, Active, Folders
  <2>3. /\ phase = "blocked" => SenderOf[cur] \in blockedFile
        /\ phase = "approved" => SenderOf[cur] \in approvedFile
    BY <2>1 DEF RulesOrder
  <2>4. RulesFollowRequests'
    BY <1>0, <2>1, <2>3 DEF RulesFollowRequests, Unsaved
  <2>5. QED
    BY <2>2, <2>4
<1>9. CASE FailPoison \/ FailRecord \/ Raise \/ Crash
  <2>1. /\ Active /\ UNCHANGED <<rules, asked, cur>>
        /\ step' \in {"fetch", "next"} \/ phase' = "off"
        /\ audit' \subseteq audit \cup {<<"ENVELOPE_PROCESSING_ERROR", cur>>}
        /\ lost' = IF step = "write" THEN lost \cup InMemory ELSE lost
    BY <1>9, AbortEnds DEF FailPoison, FailRecord, Raise, Crash, CutShort
  <2>2. phase # "off"
    BY <2>1 DEF Active, Folders
  <2>3. RulesOrder'
    BY <2>1, <2>2 DEF RulesOrder, AuditedKnown
  <2>4. ASSUME NEW m \in Messages
        PROVE  /\ <<"blocked", m>> \in audit' =>
                    SenderOf[m] \in blockedFile' \/ Unsaved("blocked", SenderOf[m])'
               /\ <<"approved", m>> \in audit' =>
                    SenderOf[m] \in approvedFile' \/ Unsaved("approved", SenderOf[m])'
    <3>1. AuditedKnown
      BY <2>2 DEF RulesOrder
    <3>2. CASE <<"blocked", m>> \in audit'
      <4>1. SenderOf[m] \in blockedFile \/ Unsaved("blocked", SenderOf[m])
        BY <2>1, <3>2 DEF RulesFollowRequests
      <4>2. phase = "blocked" /\ step = "write" => <<"blocked", SenderOf[m]>> \in lost'
        BY <2>1, <3>1, <3>2 DEF AuditedKnown, InMemory
      <4>3. SenderOf[m] \in blockedFile' \/ Unsaved("blocked", SenderOf[m])'
        BY <2>1, <4>1, <4>2 DEF Unsaved
      <4>4. <<"approved", m>> \in audit' =>
              SenderOf[m] \in approvedFile' \/ Unsaved("approved", SenderOf[m])'
        <5>1. ASSUME <<"approved", m>> \in audit'
              PROVE  SenderOf[m] \in approvedFile \/ Unsaved("approved", SenderOf[m])
          BY <2>1, <5>1 DEF RulesFollowRequests
        <5>2. ASSUME <<"approved", m>> \in audit', phase = "approved", step = "write"
              PROVE  <<"approved", SenderOf[m]>> \in lost'
          BY <2>1, <3>1, <5>2 DEF AuditedKnown, InMemory
        <5>3. QED
          BY <2>1, <5>1, <5>2 DEF Unsaved
      <4>5. QED
        BY <4>3, <4>4
    <3>3. CASE <<"blocked", m>> \notin audit'
      <4>1. ASSUME <<"approved", m>> \in audit'
            PROVE  SenderOf[m] \in approvedFile \/ Unsaved("approved", SenderOf[m])
        BY <2>1, <4>1 DEF RulesFollowRequests
      <4>2. ASSUME <<"approved", m>> \in audit', phase = "approved", step = "write"
            PROVE  <<"approved", SenderOf[m]>> \in lost'
        BY <2>1, <3>1, <4>2 DEF AuditedKnown, InMemory
      <4>3. QED
        BY <2>1, <3>3, <4>1, <4>2 DEF Unsaved
    <3>4. QED
      BY <3>2, <3>3
  <2>5. RulesFollowRequests'
    BY <1>0, <2>1, <2>4 DEF RulesFollowRequests
  <2>6. QED
    BY <2>3, <2>5
<1>10. CASE UNCHANGED vars
  BY <1>0, <1>10 DEF vars, RulesOrder, RulesFollowRequests, AuditedKnown, Unsaved
<1>11. QED
  BY <1>1, <1>2, <1>3, <1>4, <1>5, <1>6, <1>7, <1>8, <1>9, <1>10 DEF Next, Engine

(* The part of the invariant that all theorems rest on. *)
CoreInv == TypeOK /\ PhaseSteps /\ AtHand /\ RulesOrder /\ RulesFollowRequests

LEMMA CoreHolds == Spec => []CoreInv
<1>1. Init => CoreInv
  BY InitTyped DEF Init, CoreInv, PhaseSteps, AtHand, PlaceAsked, InHand, Active, RulesOrder,
                   RulesFollowRequests, Folders
<1>2. CoreInv /\ [Next]_vars => CoreInv'
  BY NextTyped, NextPhaseSteps, NextPlaceAsked, NextInHand, NextRules DEF CoreInv, AtHand
<1>3. QED
  BY <1>1, <1>2, PTL DEF Spec

(* A rule is there only if the user asked for it, and is in the file by    *)
(* the time the audit log says so, and afterwards unless a save of that    *)
(* file is at work or was cut short: for any user, emails and failures.    *)
THEOREM RulesComeFromRequests == Spec => []RulesFollowRequests
<1>1. CoreInv => RulesFollowRequests
  BY DEF CoreInv
<1>2. QED
  BY <1>1, CoreHolds, PTL

-----------------------------------------------------------------------------
(* An inbox email gets as far as its processing only if it is welcome.     *)
Welcome ==
    (AutoTriage /\ phase = "inbox" /\ step = "process") => SenderOf[cur] \in approved

LEMMA NextWelcome == TypeOK /\ PhaseSteps /\ Welcome /\ [Next]_vars => Welcome'
<1> SUFFICES ASSUME TypeOK, PhaseSteps, Welcome, [Next]_vars,
                    AutoTriage, phase' = "inbox", step' = "process"
             PROVE  SenderOf[cur'] \in approved'
  BY DEF Welcome
<1> USE DEF mailbox, database, rules, control, history
<1>1. CASE Take
  BY <1>1 DEF Take, InboxStep, Folders
<1>2. ASSUME (\E m \in Messages : Arrive(m) \/ \E f \in Folders : Drag(m, f)) \/ UNCHANGED vars
      PROVE  UNCHANGED <<phase, step, cur, approved>>
  BY <1>2 DEF Arrive, Drag, vars
<1>3. ~(Cycle \/ Fetch \/ EndPhase \/ AddRule \/ RecordExcluded \/ Process \/ Triage \/ Audit
        \/ Complete \/ Acknowledge \/ Crash \/ Exit \/ \E d \in DryRuns : Start(d))
  BY DEF Cycle, Fetch, EndPhase, AddRule, RecordExcluded, Process, Triage, Audit, Complete,
         Acknowledge, Crash, Exit, Start
<1>4. ~Truncate /\ ~WriteRules
  BY DEF Truncate, WriteRules, Rewrite, AfterRule, PhaseSteps
<1>5. ~(FailPoison \/ FailRecord \/ Raise)
  BY AbortEnds DEF FailPoison, FailRecord, Raise
<1>6. QED
  BY <1>1, <1>2, <1>3, <1>4, <1>5 DEF Next, Engine, Welcome

(* Only Process delivers, and it was asked to.                             *)
LEMMA NextDelivered ==
    CoreInv /\ Welcome /\ DeliveredOnlyIfAuthorised /\ [Next]_vars
        => DeliveredOnlyIfAuthorised'
<1> SUFFICES ASSUME CoreInv, Welcome, DeliveredOnlyIfAuthorised, [Next]_vars, AutoTriage,
                    NEW m \in Messages, status'[m] = "PROCESSED"
             PROVE  <<"download", m>> \in asked' \/ Requested("approved", SenderOf[m])'
  BY DEF DeliveredOnlyIfAuthorised
<1> USE DEF mailbox, database, rules, control, history
<1>0. /\ TypeOK /\ asked \subseteq asked'
      /\ \A f, s : Requested(f, s) => Requested(f, s)'
  BY NextPlaces, RequestedKept DEF CoreInv
<1>1. CASE status[m] = "PROCESSED"
  BY <1>0, <1>1 DEF DeliveredOnlyIfAuthorised
<1>2. CASE Process /\ m = cur
  <2>1. Active /\ step = "process" /\ phase \in {"approved", "download", "inbox"}
    BY <1>2 DEF Process, Active, CoreInv, PhaseSteps, Folders
  <2>2. phase # "inbox" => <<phase, m>> \in asked
    BY <1>2, <2>1 DEF CoreInv, AtHand, InHand, Offered, Folders
  <2>3. phase = "inbox" => Requested("approved", SenderOf[m])
    BY <1>2, <2>1 DEF Welcome, CoreInv, RulesFollowRequests
  <2>4. phase = "approved" => Requested("approved", SenderOf[m])
    BY <2>2 DEF Requested
  <2>5. QED
    BY <1>0, <2>1, <2>2, <2>3, <2>4
<1>3. ASSUME ~Process \/ m # cur PROVE status'[m] # "PROCESSED" \/ status'[m] = status[m]
  <2>1. CASE Process \/ RecordExcluded
    BY <1>0, <1>3, <2>1 DEF Process, RecordExcluded, TypeOK
  <2>2. CASE ~Process /\ ~RecordExcluded
    <3>1. status' = status
      BY <2>2 DEF Next, Engine, vars, Arrive, Drag, Start, Cycle, Exit, Fetch, EndPhase, Take,
           AddRule, Truncate, WriteRules, Rewrite, Triage, Audit, Complete, Acknowledge, FailPoison,
           FailRecord, Raise, Crash
    <3>2. QED
      BY <3>1
  <2>3. QED
    BY <2>1, <2>2
<1>4. QED
  BY <1>1, <1>2, <1>3

(* With triage on, an email is processed only if the user gave it a        *)
(* one-time pass or put an email of its sender in [Approved Senders], for  *)
(* any mailbox, whatever died or failed in between.                        *)
THEOREM NothingDeliveredUnasked == Spec => []DeliveredOnlyIfAuthorised
<1>1. Init => Welcome /\ DeliveredOnlyIfAuthorised
  BY DEF Init, Welcome, DeliveredOnlyIfAuthorised
<1>2. CoreInv /\ Welcome /\ [Next]_vars => Welcome'
  BY NextWelcome DEF CoreInv
<1>3. QED
  BY <1>1, <1>2, NextDelivered, CoreHolds, PTL DEF Spec

-----------------------------------------------------------------------------

(* The steps that put an email away come after its row or its triage.      *)
Waits(m) == place[m] \in {"review"} \cup Folders \cup ({"inbox"} \ MovesFrom)
PutAwayLast ==
    /\ phase \in Folders /\ step \in {"audit", "move", "ack"} => status[cur] # "none"
    /\ phase = "inbox" =>
         /\ step = "move" => status[cur] # "none"
         /\ step \in {"audit", "ack"} => status[cur] # "none" \/ Waits(cur)
         /\ step = "ack" => status[cur] # "none" \/ <<"inbox", cur>> \in audit

(* Emails wait where they are until they are moved to completed.           *)
LEMMA WaitsKept ==
    ASSUME TypeOK, [Next]_vars, ~Complete, NEW m \in Messages, Waits(m)
    PROVE  place'[m] \in {"review"} \cup Folders \cup ({"inbox"} \ MovesFrom)
<1> USE DEF mailbox, database, rules, control, history
<1>1. CASE Triage
  <2>1. cur \in Messages
    BY DEF TypeOK
  <2>2. place' = Moved(cur, Places, "review")
    BY <1>1 DEF Triage
  <2>3. QED
    BY <2>1, <2>2, MovedTyped DEF TypeOK, Places, Waits
<1>2. ASSUME NEW n \in Messages, NEW f \in Folders, Drag(n, f)
      PROVE  place'[m] = place[m] \/ place'[m] \in Folders
  BY <1>2 DEF Drag, Waits, TypeOK
<1>3. ASSUME NEW n \in Messages, Arrive(n) PROVE place'[m] = place[m]
  <2>1. place[m] # "unsent"
    BY DEF Waits, Folders
  <2>2. QED
    BY <1>3, <2>1 DEF Arrive, TypeOK
<1>4. ASSUME ~Triage, ~\E n \in Messages : Arrive(n) \/ \E f \in Folders : Drag(n, f)
      PROVE  place' = place
  BY <1>4 DEF Next, Engine, vars, Start, Cycle, Exit, Fetch, EndPhase, Take, AddRule, Truncate,
       WriteRules, Rewrite, RecordExcluded, Process, Audit, Acknowledge, FailPoison, FailRecord, Raise, Crash
<1>5. QED
  BY <1>1, <1>2, <1>3, <1>4 DEF Waits

(* A row of the ledger is never taken back. *)
LEMMA RowsKept ==
    ASSUME TypeOK, [Next]_vars
    PROVE  \A m \in Messages : status[m] # "none" => status'[m] # "none"
<1> USE DEF mailbox, database, rules, control, history
<1>1. CASE Process \/ RecordExcluded
  BY <1>1 DEF Process, RecordExcluded, TypeOK
<1>2. ASSUME ~Process, ~RecordExcluded PROVE status' = status
  BY <1>2 DEF Next, Engine, vars, Arrive, Drag, Start, Cycle, Exit, Fetch, EndPhase, Take,
       AddRule, Truncate, WriteRules, Rewrite, Triage, Audit, Complete, Acknowledge, FailPoison,
       FailRecord, Raise, Crash
<1>3. QED
  BY <1>1, <1>2

(* Nothing is erased from the audit log. *)
LEMMA AuditKept == [Next]_vars => audit \subseteq audit'
BY DEF Next, Engine, vars, Arrive, Drag, Start, Cycle, Exit, Fetch, EndPhase, Take, AddRule,
   Truncate, WriteRules, Rewrite, RecordExcluded, Process, Triage, Audit, Complete, Acknowledge,
   FailPoison, FailRecord, Raise, Crash, Abort, mailbox, database, rules, control, history

(* The steps come in an order that drops nothing.                          *)
LEMMA NextPutAway ==
    ASSUME CoreInv, PutAwayLast, NothingDropped, [Next]_vars
    PROVE  PutAwayLast'
<1> USE DEF mailbox, database, rules, control, history
<1>0. /\ TypeOK /\ PhaseSteps /\ InHand /\ cur \in Messages
      /\ \A m \in Messages : status[m] # "none" => status'[m] # "none"
  BY RowsKept DEF CoreInv, AtHand, TypeOK
<1>1. ASSUME step' \in {"fetch", "next", "rule", "save", "write", "record", "process", "review"}
             \/ ~Active'
      PROVE  PutAwayLast'
  BY <1>1 DEF PutAwayLast, Active, Folders
<1>2. ASSUME UNCHANGED <<phase, step, cur, audit>>, ~Complete PROVE PutAwayLast'
  BY <1>0, <1>2, WaitsKept DEF PutAwayLast, Waits
<1>3. CASE Take
  <2>1. phase' = phase /\ status' = status /\ Active
    BY <1>3 DEF Take
  <2>3. phase = "inbox" => step' \in {"next", "record", "review", "process"}
    BY <1>3 DEF Take, InboxStep, Folders
  <2>4. phase \in Folders => step' \in {"rule", "next", "process"} \/ status[cur'] # "none"
    BY <1>3 DEF Take, PassStep, Folders
  <2>5. QED
    BY <2>1, <2>3, <2>4 DEF PutAwayLast, Folders
<1>4. CASE Truncate \/ WriteRules
  <2>1. phase' = phase /\ status' = status /\ Active /\ cur' = cur /\ phase # "inbox"
    BY <1>0, <1>4 DEF Truncate, WriteRules, Rewrite, PhaseSteps
  <2>2. step' \in {"write", "next", "record", "process"} \/ status[cur] # "none"
    BY <1>4 DEF Truncate, WriteRules, Rewrite, AfterRule, PassStep
  <2>3. QED
    BY <2>1, <2>2 DEF PutAwayLast, Folders
<1>5. CASE RecordExcluded \/ Process
  <2>1. \/ dry /\ step' = "next"
        \/ phase' = phase /\ cur' = cur /\ status'[cur] # "none" /\ step' \in {"move", "audit"}
    BY <1>0, <1>5 DEF RecordExcluded, Process, TypeOK
  <2>2. QED
    BY <2>1 DEF PutAwayLast
<1>6. CASE Triage
  <2>1. phase' = phase /\ cur' = cur /\ status' = status /\ step' = "audit" /\ phase = "inbox"
        /\ step = "review" /\ Active
    BY <1>0, <1>6 DEF Triage, PhaseSteps, Active, Folders
  <2>3. status[cur] # "none" \/ place[cur] \in {"inbox", "review"} \cup Folders
    BY <1>0, <2>1 DEF NothingDropped, InHand, Offered, TypeOK, Places
  <2>4. place' = Moved(cur, Places, "review")
    BY <1>6 DEF Triage
  <2>5. status[cur] # "none"
          \/ place'[cur] \in {"review"} \cup Folders \cup ({"inbox"} \ MovesFrom)
    BY <1>0, <2>3, <2>4, MovedTyped DEF TypeOK, Places
  <2>6. QED
    BY <2>1, <2>5 DEF PutAwayLast, Waits, Folders
<1>7. CASE Audit
  <2>1. phase' = phase /\ cur' = cur /\ status' = status /\ place' = place /\ step = "audit"
        /\ step' = (IF phase = "inbox" THEN "ack" ELSE "move")
        /\ audit' = audit \cup {<<phase, cur>>}
    BY <1>7 DEF Audit
  <2>2. QED
    BY <2>1 DEF PutAwayLast, Waits, Folders
<1>8. CASE Complete
  <2>1. phase' = phase /\ cur' = cur /\ status' = status /\ step = "move" /\ step' = "ack" /\ Active
    BY <1>8 DEF Complete
  <2>2. status[cur] # "none"
    BY <2>1 DEF PutAwayLast, Active
  <2>3. QED
    BY <2>1, <2>2 DEF PutAwayLast
<1>9. AddRule \/ Acknowledge \/ Fetch \/ EndPhase \/ Cycle \/ Exit \/ Crash
      \/ (\E d \in DryRuns : Start(d))
        => step' \in {"fetch", "next", "save"} \/ ~Active'
  BY DEF AddRule, Acknowledge, Fetch, EndPhase, Cycle, Exit, Crash, Start, Active, Folders
<1>10. FailPoison \/ FailRecord \/ Raise => step' \in {"fetch", "next"} \/ ~Active'
  BY AbortEnds DEF FailPoison, FailRecord, Raise, Active, Folders
<1>11. ASSUME (\E m \in Messages : Arrive(m) \/ \E f \in Folders : Drag(m, f)) \/ UNCHANGED vars
       PROVE  UNCHANGED <<phase, step, cur, audit>> /\ ~Complete
  <2>1. UNCHANGED <<phase, step, cur, audit>>
    BY <1>11 DEF Arrive, Drag, vars
  <2>2. ~Complete
    BY <2>1 DEF Complete
  <2>3. QED
    BY <2>1, <2>2
<1>12. QED
  BY <1>1, <1>2, <1>3, <1>4, <1>5, <1>6, <1>7, <1>8, <1>9, <1>10, <1>11 DEF Next, Engine

(* Nothing without a row is completed, or acknowledged where nobody looks. *)
LEMMA NextDropped ==
    ASSUME CoreInv, PutAwayLast, NothingDropped, [Next]_vars
    PROVE  NothingDropped'
<1> SUFFICES ASSUME NEW m \in Messages, status'[m] = "none"
             PROVE  /\ place'[m] # "completed"
                    /\ m \in seen' =>
                         /\ <<"inbox", m>> \in audit'
                         /\ place'[m] \in {"review"} \cup Folders \cup ({"inbox"} \ MovesFrom)
  BY DEF NothingDropped
<1> USE DEF mailbox, database, rules, control, history
<1>0. /\ TypeOK /\ cur \in Messages /\ status[m] = "none" /\ place[m] # "completed"
      /\ m \in seen => Waits(m) /\ <<"inbox", m>> \in audit
      /\ audit \subseteq audit'
  BY RowsKept, AuditKept DEF CoreInv, TypeOK, NothingDropped, Waits
<1>1. CASE Complete
  <2>1. Active /\ step = "move" /\ seen' = seen
    BY <1>1 DEF Complete
  <2>2. m # cur
    BY <1>0, <2>1 DEF PutAwayLast, Active
  <2>3. \E S : place' = Moved(cur, S, "completed")
    BY <1>1 DEF Complete
  <2>4. place'[m] = place[m]
    BY <1>0, <2>2, <2>3, MovedTyped DEF TypeOK, Places
  <2>5. QED
    BY <1>0, <2>1, <2>4 DEF Waits
<1>2. CASE Acknowledge
  <2>1. Active /\ step = "ack" /\ seen' = seen \cup {cur} /\ place' = place
    BY <1>2 DEF Acknowledge
  <2>2. m = cur => Waits(m) /\ <<"inbox", m>> \in audit
    BY <1>0, <2>1 DEF PutAwayLast, Active
  <2>3. QED
    BY <1>0, <2>1, <2>2 DEF Waits
<1>3. CASE ~Complete /\ ~Acknowledge
  <2>1. seen' = seen
    BY <1>3 DEF Next, Engine, vars, Arrive, Drag, Start, Cycle, Exit, Fetch, EndPhase, Take,
       AddRule, Truncate, WriteRules, Rewrite, RecordExcluded, Process, Triage, Audit, FailPoison,
       FailRecord, Raise, Crash
  <2>2. place'[m] # "completed"
    <3>1. CASE Triage
      <4>1. place' = Moved(cur, Places, "review")
        BY <3>1 DEF Triage
      <4>2. QED
        BY <1>0, <4>1, MovedTyped DEF TypeOK, Places
    <3>2. ASSUME NEW n \in Messages, Arrive(n) \/ \E f \in Folders : Drag(n, f)
          PROVE  place'[m] # "completed"
      BY <1>0, <3>2 DEF Arrive, Drag, TypeOK, Folders
    <3>3. ASSUME ~Triage, ~\E n \in Messages : Arrive(n) \/ \E f \in Folders : Drag(n, f)
          PROVE  place' = place
      BY <1>3, <3>3 DEF Next, Engine, vars, Start, Cycle, Exit, Fetch, EndPhase, Take, AddRule,
         Truncate, WriteRules, Rewrite, RecordExcluded, Process, Audit, FailPoison, FailRecord, Raise, Crash
    <3>4. QED
      BY <1>0, <3>1, <3>2, <3>3
  <2>3. m \in seen => place'[m] \in {"review"} \cup Folders \cup ({"inbox"} \ MovesFrom)
    BY <1>0, <1>3, WaitsKept
  <2>4. QED
    BY <1>0, <2>1, <2>2, <2>3
<1>4. QED
  BY <1>1, <1>2, <1>3

(* An email without a row is not put away, except that the triage audits   *)
(* and acknowledges it: for any mailbox, any connector, whichever places   *)
(* it can move emails from, and any drags, failures and crashes.  The run  *)
(* FolderTriageLosesMail shows what becomes of it in the inbox.            *)
THEOREM NoMailDropped == Spec => []NothingDropped
<1>1. Init => PutAwayLast /\ NothingDropped
  BY DEF Init, PutAwayLast, NothingDropped, Folders
<1>2. CoreInv /\ PutAwayLast /\ NothingDropped /\ [Next]_vars => PutAwayLast' /\ NothingDropped'
  BY NextPutAway, NextDropped
<1>3. QED
  BY <1>1, <1>2, CoreHolds, PTL DEF Spec
-----------------------------------------------------------------------------
(* The calls of a dry run. *)
DryStep == dry /\ Active => step \in {"fetch", "next", "rule", "save", "write", "process"}

LEMMA NextDryStep == DryStep /\ [Next]_vars => DryStep'
<1> SUFFICES ASSUME DryStep, [Next]_vars PROVE DryStep'
  OBVIOUS
<1> USE DEF mailbox, database, rules, control, history, Active, DryStep, Folders
<1>1. CASE (\E d \in DryRuns : Start(d)) \/ Cycle \/ Exit \/ Fetch \/ EndPhase \/ Crash
  BY <1>1 DEF Start, Cycle, Exit, Fetch, EndPhase, Following, Crash
<1>2. CASE Take
  BY <1>2 DEF Take, PassStep, InboxStep
<1>3. CASE AddRule \/ RecordExcluded \/ Process \/ Triage \/ Audit \/ Complete \/ Acknowledge
  BY <1>3 DEF AddRule, RecordExcluded, Process, Triage, Audit, Complete, Acknowledge
<1>4. CASE Truncate \/ WriteRules
  BY <1>4 DEF Truncate, WriteRules, Rewrite, AfterRule, PassStep
<1>5. CASE FailPoison \/ FailRecord \/ Raise
  BY <1>5 DEF FailPoison, FailRecord, Raise, Abort
<1>6. CASE UNCHANGED vars \/ \E m \in Messages : Arrive(m) \/ \E f \in Folders : Drag(m, f)
  BY <1>6 DEF vars, Arrive, Drag
<1>7. QED
  BY <1>1, <1>2, <1>3, <1>4, <1>5, <1>6 DEF Next, Engine

(* What a step may do to the mailbox and the ledger in a dry run. *)
Untouched ==
    /\ UNCHANGED <<status, seen>>
    /\ audit' \subseteq audit \cup {<<"ENVELOPE_PROCESSING_ERROR", cur>>}
    /\ \A m \in Messages : place'[m] # place[m] => place[m] = "unsent" \/ drags' > drags

LEMMA DryStepsTouchNothing ==
    ASSUME TypeOK, DryStep, dry, Active, [Next]_vars
    PROVE  Untouched
<1> USE DEF mailbox, database, rules, control, history, Untouched
<1>0. step \in {"fetch", "next", "rule", "save", "write", "process"}
  BY DEF DryStep
<1>1. ASSUME NEW m \in Messages, Arrive(m) PROVE Untouched
  BY <1>1 DEF Arrive, TypeOK
<1>2. ASSUME NEW m \in Messages, NEW f \in Folders, Drag(m, f) PROVE Untouched
  <2>1. drags' > drags
    BY <1>2 DEF Drag, TypeOK
  <2>2. QED
    BY <1>2, <2>1 DEF Drag
<1>3. CASE (\E d \in DryRuns : Start(d)) \/ Cycle \/ Exit \/ Fetch \/ EndPhase \/ Take
           \/ AddRule \/ Truncate \/ WriteRules \/ Process \/ Crash
  BY <1>3 DEF Start, Cycle, Exit, Fetch, EndPhase, Take, AddRule, Truncate, WriteRules, Rewrite, Process,
     Crash
<1>4. CASE RecordExcluded \/ Triage \/ Audit \/ Complete \/ Acknowledge
  BY <1>0, <1>4 DEF RecordExcluded, Triage, Audit, Complete, Acknowledge
<1>5. CASE FailPoison \/ FailRecord \/ Raise
  BY <1>5 DEF FailPoison, FailRecord, Raise, Abort
<1>6. CASE UNCHANGED vars
  BY <1>6 DEF vars
<1>7. QED
  BY <1>1, <1>2, <1>3, <1>4, <1>5, <1>6 DEF Next, Engine

(* A dry run leaves the ledger and the mailbox alone, and audits nothing   *)
(* but failures: for any mailbox, rules, drags, failures and crashes.      *)
THEOREM DryRunsTouchRulesOnly == Spec => DryRunTouchesRulesOnly
<1>1. Init => DryStep
  BY DEF Init, DryStep, Active, Folders
<1>2. DryStep /\ TypeOK /\ [Next]_vars => ((dry /\ Active) => Untouched)
  BY DryStepsTouchNothing
<1>3. QED
  BY <1>1, <1>2, NextDryStep, FoldersTypeCorrect, PTL
  DEF Spec, DryRunTouchesRulesOnly, Untouched
=============================================================================
