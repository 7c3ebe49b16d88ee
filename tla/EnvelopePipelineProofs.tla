----------------------- MODULE EnvelopePipelineProofs -----------------------
(***************************************************************************)
(* Theorems about EnvelopePipeline, for every number of workers, messages, *)
(* attachments, faults and crashes.                                        *)
(***************************************************************************)
EXTENDS EnvelopePipeline, TLAPS

-----------------------------------------------------------------------------
(* What the operations of FileStore do to a file system that maps a path   *)
(* to at most one file.                                                    *)

(* A write is read back, and touches no other path. *)
LEMMA PutHolds ==
    ASSUME NEW fs, NEW p, NEW d
    PROVE  /\ Holds(Put(fs, p, d), p, d)
           /\ \A q, e : q # p => (Holds(Put(fs, p, d), q, e) <=> Holds(fs, q, e))
BY DEF Put, Holds

(* An unlink touches no other path. *)
LEMMA DropHolds ==
    ASSUME NEW fs, NEW p
    PROVE  \A q, e : q # p => (Holds(Drop(fs, p), q, e) <=> Holds(fs, q, e))
BY DEF Drop, Holds

(* A move carries the data over, and touches no third path. *)
LEMMA RenameHolds ==
    ASSUME NEW fs, NEW p, NEW q, NEW d, Holds(fs, p, d)
    PROVE  /\ Holds(Rename(fs, p, q), q, d)
           /\ \A x, e : x \notin {p, q} =>
                (Holds(Rename(fs, p, q), x, e) <=> Holds(fs, x, e))
<1>1. [path |-> p, data |-> d] \in At(fs, p)
  BY DEF Holds, At
<1>2. Holds(Rename(fs, p, q), q, d)
  BY <1>1 DEF Rename, Holds
<1>3. ASSUME NEW x, NEW e, x \notin {p, q}
      PROVE  Holds(Rename(fs, p, q), x, e) <=> Holds(fs, x, e)
  <2>1. [path |-> x, data |-> e]
           \notin {[path |-> q, data |-> f.data] : f \in At(fs, p)}
    BY <1>3
  <2>2. QED
    BY <1>3, <2>1 DEF Rename, Holds
<1>4. QED
  BY <1>2, <1>3

(* The three operations keep one file per path. *)
LEMMA StaysFunctional ==
    ASSUME NEW fs, NEW p, NEW q, NEW d, Functional(fs)
    PROVE  /\ Functional(Put(fs, p, d))
           /\ Functional(Drop(fs, p))
           /\ Functional(Rename(fs, p, q))
<1>1. Functional(Put(fs, p, d)) /\ Functional(Drop(fs, p))
  BY DEF Put, Drop, Functional
<1>2. ASSUME NEW f \in Rename(fs, p, q), NEW g \in Rename(fs, p, q), f.path = g.path
      PROVE  f = g
  <2>1. CASE f.path = q
    <3>1. PICK a \in At(fs, p) : f = [path |-> q, data |-> a.data]
      BY <2>1 DEF Rename
    <3>2. PICK b \in At(fs, p) : g = [path |-> q, data |-> b.data]
      BY <1>2, <2>1 DEF Rename
    <3>3. a = b
      BY DEF At, Functional
    <3>4. QED
      BY <3>1, <3>2, <3>3
  <2>2. CASE f.path # q
    BY <1>2, <2>2 DEF Rename, Functional
  <2>3. QED
    BY <2>1, <2>2
<1>3. QED
  BY <1>1, <1>2 DEF Functional

(* A reader of a path that holds d sees d and nothing else. *)
LEMMA HoldsUnique ==
    ASSUME NEW fs, NEW p, NEW d, Functional(fs), Holds(fs, p, d),
           NEW f \in At(fs, p)
    PROVE  f.data = d
<1>1. f \in fs /\ f.path = p
  BY DEF At
<1>2. f = [path |-> p, data |-> d]
  BY <1>1 DEF Holds, Functional
<1>3. QED
  BY <1>2

-----------------------------------------------------------------------------
(* A stub's fields have their types. *)
LEMMA StubTyped ==
    ASSUME NEW m \in Messages, NEW i \in Slots(m)
    PROVE  /\ Stub(m, i).name \in NameType /\ Stub(m, i).original \in NameType
           /\ Stub(m, i).data \in Payloads
           /\ Stub(m, i) \in StubType
           /\ i \in Nat
<1>1. Attachments[m] \in Seq(StubType)
  BY AttachmentsAssumption
<1>2. i \in 1..Len(Attachments[m]) /\ Attachments[m][i] \in StubType
  BY <1>1 DEF Slots
<1>3. QED
  BY <1>2 DEF Stub, StubType

(* The names and paths that the pipeline derives are names and paths. *)
LEMMA SuffixTyped ==
    ASSUME NEW n \in NameType, NEW k \in Nat
    PROVE  Suffixed(n, k) \in NameType
<1>1. Append(n.tags, k) \in Seq(Nat)
  BY DEF NameType
<1>2. QED
  BY <1>1 DEF Suffixed, NameType

(* Vault and diff paths built from a typed name are typed.                 *)
LEMMA PathsTyped ==
    ASSUME NEW m \in Messages, NEW n \in NameType, NEW d \in Payloads
    PROVE  /\ InFolder(m, n) \in PathType
           /\ DiffPath(m, n) \in PathType
           /\ InVault(d, n, "quarantine") \in PathType
           /\ InVault(d, n, "report.md") \in PathType
<1>1. {"json", "md", "quarantine", "report.md", "diff"} \subseteq Exts
      /\ {"context", "email_context"} \subseteq Bases
  BY AttachmentsAssumption
<1>2. \A x \in NameType : InFolder(m, x) \in PathType
  BY DEF InFolder, PathType
<1>3. [base |-> n.base, tags |-> n.tags, ext |-> "diff"] \in NameType
  BY <1>1 DEF NameType
<1>4. \A e \in {"quarantine", "report.md"} :
         [base |-> n.base, tags |-> n.tags, ext |-> e] \in NameType
  BY <1>1 DEF NameType
<1>5. QED
  BY <1>2, <1>3, <1>4 DEF DiffPath, InVault, PathType

(* The paths of context.json and email_context.md are typed.               *)
LEMMA SidecarPathTyped ==
    ASSUME NEW m \in Messages, NEW s \in SidecarNames
    PROVE  InFolder(m, s) \in PathType
<1>1. <<>> \in Seq(Nat)
  OBVIOUS
<1>a. /\ {"context", "email_context"} \subseteq Bases
      /\ {"json", "md"} \subseteq Exts
  BY AttachmentsAssumption
<1>b. \A b \in Bases, e \in Exts : [base |-> b, tags |-> <<>>, ext |-> e] \in NameType
  BY <1>1 DEF NameType
<1>2. s \in NameType
  BY <1>a, <1>b DEF SidecarNames
<1>3. QED
  BY <1>2 DEF InFolder, PathType

(* Put, Drop and Rename keep a set of files a set of files. *)
LEMMA FilesTyped ==
    ASSUME NEW fs \in SUBSET FileType, NEW p \in PathType, NEW q \in PathType,
           NEW d \in Payloads \cup {Sidecar, Report, Diff}
    PROVE  /\ Put(fs, p, d) \subseteq FileType
           /\ Drop(fs, p) \subseteq FileType
           /\ Rename(fs, p, q) \subseteq FileType
BY DEF Put, Drop, Rename, At, FileType

(* The empty gateway is typed.                                             *)
LEMMA InitTyped == Init => TypeOK
<1> SUFFICES ASSUME Init PROVE TypeOK
  OBVIOUS
<1>1. (CHOOSE m \in Messages : TRUE) \in Messages
  BY AttachmentsAssumption
<1>2. faults \in 0..MaxFaults /\ crashes \in 0..MaxCrashes
  BY BoundsAssumption DEF Init
<1>3. QED
  BY <1>1, <1>2 DEF Init, TypeOK

(* What the actions put into the rows and the vault has its type. *)
LEMMA RowTyped ==
    ASSUME TypeInv, NEW w \in Workers, NEW r \in named[w],
           NEW p \in PathType, NEW v \in Nat, NEW s \in {"CLEAN", "QUARANTINED"}
    PROVE  Row(w, r, p, s, v) \in RowType
<1>1. msg[w] \in Messages /\ r.slot \in Slots(msg[w])
  BY DEF TypeInv, TypeOK, SlotsOfEnvelope
<1>2. QED
  BY <1>1, StubTyped DEF Row, RowType

(* A named slot has a typed name (staged_items, engine.py 449-455).        *)
LEMMA NamedTyped ==
    ASSUME TypeInv, NEW w \in Workers, NEW r \in named[w]
    PROVE  /\ msg[w] \in Messages
           /\ r.slot \in Slots(msg[w]) /\ r.slot \in Nat
           /\ r.name \in NameType
           /\ Stub(msg[w], r.slot).data \in Payloads
<1>1. msg[w] \in Messages /\ r.slot \in Slots(msg[w]) /\ r \in [slot : Nat, name : NameType]
  BY DEF TypeInv, TypeOK, SlotsOfEnvelope
<1>2. QED
  BY <1>1, StubTyped

(* The name loop of engine.py 422-431 yields typed names.                  *)
LEMMA DisambiguatedTyped ==
    ASSUME NEW w \in Workers, NEW n \in NameType, NEW x \in Disambiguated(w, n)
    PROVE  x \in NameType
<1>1. CASE n \notin Seen(w)
  BY <1>1 DEF Disambiguated
<1>2. CASE n \in Seen(w)
  <2>1. PICK k \in 1..MaxSuffix : x = Suffixed(n, k)
    BY <1>2 DEF Disambiguated
  <2>2. k \in Nat
    BY BoundsAssumption
  <2>3. QED
    BY <2>1, <2>2, SuffixTyped
<1>3. QED
  BY <1>1, <1>2

(* The types of the variables that are local to one worker, and of the     *)
(* shared ones, after any step.                                            *)
LEMMA StepTyped == TypeInv /\ [Next]_vars => TypeInv'
<1> SUFFICES ASSUME TypeInv, [Next]_vars PROVE TypeInv'
  OBVIOUS
<1>a. MaxFaults \in Nat /\ MaxCrashes \in Nat
  BY BoundsAssumption
<1>b. TypeOK /\ SlotsOfEnvelope
  BY DEF TypeInv
<1>1. ASSUME NEW w \in Workers, NEW m \in Messages, Begin(w, m) PROVE TypeInv'
  <2>1. Slots(m) \subseteq Nat
    BY StubTyped
  <2>2. TypeOK'
    BY <1>1, <1>b, <2>1 DEF Begin, TypeOK, shared, history
  <2>3. SlotsOfEnvelope'
    BY <1>1, <1>b DEF Begin, TypeOK, SlotsOfEnvelope, shared, history
  <2>4. QED
    BY <2>2, <2>3 DEF TypeInv
<1>2. ASSUME NEW w \in Workers, FilterSignature(w) PROVE TypeInv'
  BY <1>2, <1>b DEF FilterSignature, TypeInv, TypeOK, SlotsOfEnvelope, shared, history
<1>3. ASSUME NEW w \in Workers, ChooseName(w) PROVE TypeInv'
  <2>1. PICK i \in pending[w] : \E n \in Disambiguated(w, Stub(msg[w], i).name) :
          named' = [named EXCEPT ![w] = @ \cup {[slot |-> i, name |-> n]}]
    BY <1>3 DEF ChooseName
  <2>2. PICK n \in Disambiguated(w, Stub(msg[w], i).name) :
          named' = [named EXCEPT ![w] = @ \cup {[slot |-> i, name |-> n]}]
    BY <2>1
  <2>3. i \in Slots(msg[w]) /\ msg[w] \in Messages
    BY <1>b DEF TypeOK, SlotsOfEnvelope
  <2>4. i \in Nat /\ n \in NameType
    BY <2>2, <2>3, StubTyped, DisambiguatedTyped
  <2>5. named' \in [Workers -> SUBSET [slot : Nat, name : NameType]]
    BY <1>b, <2>2, <2>4 DEF TypeOK
  <2>6. \A v \in Workers : {r.slot : r \in named'[v]} \subseteq Slots(msg[v])
    BY <1>b, <2>2, <2>3 DEF TypeOK, SlotsOfEnvelope
  <2>7. QED
    BY <1>3, <1>b, <2>5, <2>6 DEF ChooseName, TypeInv, TypeOK, SlotsOfEnvelope, shared, history
<1>4. ASSUME NEW w \in Workers, Download(w) PROVE TypeInv'
  <2>1. PICK r \in named[w] :
          /\ disk' = Put(disk, InFolder(msg[w], r.name), Stub(msg[w], r.slot).data)
          /\ created' = [created EXCEPT ![w] = @ \cup {InFolder(msg[w], r.name)}]
          /\ pending' = [pending EXCEPT ![w] = @ \ {r.slot}]
          /\ orphans' = orphans \ {InFolder(msg[w], r.name)}
    BY <1>4 DEF Download
  <2>2. InFolder(msg[w], r.name) \in PathType
    BY NamedTyped, PathsTyped
  <2>3. disk' \subseteq FileType
    BY <1>b, <2>1, <2>2, NamedTyped, FilesTyped DEF TypeOK
  <2>4. QED
    BY <1>4, <1>b, <2>1, <2>2, <2>3
       DEF Download, TypeInv, TypeOK, SlotsOfEnvelope
<1>5. ASSUME NEW w \in Workers, DownloadTooLarge(w) PROVE TypeInv'
  BY <1>5, <1>b DEF DownloadTooLarge, TypeInv, TypeOK, SlotsOfEnvelope, shared, history
<1>6. ASSUME NEW w \in Workers, EndStaging(w) PROVE TypeInv'
  <2>1. {r.slot : r \in named[w]} \subseteq Nat
    BY NamedTyped
  <2>2. QED
    BY <1>6, <1>b, <2>1 DEF EndStaging, TypeInv, TypeOK, SlotsOfEnvelope, history
<1>7. ASSUME NEW w \in Workers, InspectNew(w) PROVE TypeInv'
  <2>1. PICK r \in named[w] :
          /\ recs' = [recs EXCEPT ![w] = @ \cup
                       {Row(w, r, InFolder(msg[w], r.name), "CLEAN", 1)}]
          /\ pending' = [pending EXCEPT ![w] = @ \ {r.slot}]
    BY <1>7 DEF InspectNew
  <2>2. InFolder(msg[w], r.name) \in PathType
    BY NamedTyped, PathsTyped
  <2>3. Row(w, r, InFolder(msg[w], r.name), "CLEAN", 1) \in RowType
    BY <2>2, RowTyped
  <2>4. QED
    BY <1>7, <1>b, <2>1, <2>3
       DEF InspectNew, TypeInv, TypeOK, SlotsOfEnvelope, shared, history
<1>8. ASSUME NEW w \in Workers, InspectRevision(w) PROVE TypeInv'
  <2>1. PICK r \in named[w], q \in rows :
          /\ recs' = [recs EXCEPT ![w] = @ \cup
                       {Row(w, r, InFolder(msg[w], r.name), "CLEAN", q.version + 1)}]
          /\ \/ /\ disk' = Put(disk, DiffPath(msg[w], r.name), Diff)
                /\ created' = [created EXCEPT ![w] = @ \cup {DiffPath(msg[w], r.name)}]
             \/ UNCHANGED <<disk, created>>
          /\ pending' = [pending EXCEPT ![w] = @ \ {r.slot}]
    BY <1>8 DEF InspectRevision, Latest, Prior
  <2>2. InFolder(msg[w], r.name) \in PathType /\ DiffPath(msg[w], r.name) \in PathType
    BY NamedTyped, PathsTyped
  <2>3. q.version + 1 \in Nat
    BY <1>b DEF TypeOK, RowType
  <2>4. Row(w, r, InFolder(msg[w], r.name), "CLEAN", q.version + 1) \in RowType
    BY <2>2, <2>3, RowTyped
  <2>5. disk' \subseteq FileType
    <3>1. disk \in SUBSET FileType
      BY <1>b DEF TypeOK
    <3>2. Put(disk, DiffPath(msg[w], r.name), Diff) \subseteq FileType
      BY <2>2, <3>1, FilesTyped
    <3>3. QED
      BY <2>1, <3>1, <3>2
  <2>6. QED
    BY <1>8, <1>b, <2>1, <2>2, <2>4, <2>5
       DEF InspectRevision, TypeInv, TypeOK, SlotsOfEnvelope, history
<1>9. ASSUME NEW w \in Workers, Quarantine(w) PROVE TypeInv'
  <2> DEFINE P(r) == InFolder(msg[w], r.name)
             Q(r) == InVault(Stub(msg[w], r.slot).data, r.name, "quarantine")
  <2>1. PICK r \in named[w] :
          /\ disk' = Rename(disk, P(r), Q(r))
          /\ created' = [created EXCEPT ![w] = (@ \ {P(r)}) \cup {Q(r)}]
          /\ orphans' = orphans \ {Q(r)}
    BY <1>9 DEF Quarantine
  <2>2. P(r) \in PathType /\ Q(r) \in PathType
    BY NamedTyped, PathsTyped
  <2>3. disk' \subseteq FileType
    BY <1>b, <2>1, <2>2, FilesTyped DEF TypeOK
  <2>4. QED
    BY <1>9, <1>b, <2>1, <2>2, <2>3 DEF Quarantine, TypeInv, TypeOK, SlotsOfEnvelope
<1>10. ASSUME NEW w \in Workers, WriteReport(w) PROVE TypeInv'
  <2> DEFINE V(r, e) == InVault(Stub(msg[w], r.slot).data, r.name, e)
  <2>1. PICK r \in named[w] :
          /\ disk' = Put(disk, V(r, "report.md"), Report)
          /\ created' = [created EXCEPT ![w] = @ \cup {V(r, "report.md")}]
          /\ recs' = [recs EXCEPT ![w] = @ \cup
                       {Row(w, r, V(r, "quarantine"), "QUARANTINED", 1)}]
          /\ pending' = [pending EXCEPT ![w] = @ \ {r.slot}]
    BY <1>10 DEF WriteReport
  <2>2. V(r, "report.md") \in PathType /\ V(r, "quarantine") \in PathType
    BY NamedTyped, PathsTyped
  <2>3. Row(w, r, V(r, "quarantine"), "QUARANTINED", 1) \in RowType
    BY <2>2, RowTyped
  <2>4. disk' \subseteq FileType
    BY <1>b, <2>1, <2>2, FilesTyped DEF TypeOK
  <2>5. QED
    BY <1>10, <1>b, <2>1, <2>2, <2>3, <2>4
       DEF WriteReport, TypeInv, TypeOK, SlotsOfEnvelope, history
<1>11. ASSUME NEW w \in Workers, InspectMissing(w) PROVE TypeInv'
  BY <1>11, <1>a, <1>b DEF InspectMissing, TypeInv, TypeOK, SlotsOfEnvelope, shared, history
<1>12. ASSUME NEW w \in Workers, WriteContextJson(w) \/ WriteContextMd(w) PROVE TypeInv'
  <2>1. PICK s \in SidecarNames : disk' = Put(disk, InFolder(msg[w], s), Sidecar)
    BY <1>12 DEF WriteContextJson, WriteContextMd, SidecarStep, SidecarNames
  <2>2. InFolder(msg[w], s) \in PathType
    BY <1>b, SidecarPathTyped DEF TypeOK
  <2>3. disk' \subseteq FileType
    BY <1>b, <2>1, <2>2, FilesTyped DEF TypeOK
  <2>4. QED
    BY <1>12, <1>b, <2>3
       DEF WriteContextJson, WriteContextMd, SidecarStep, TypeInv, TypeOK,
           SlotsOfEnvelope, history
<1>13. ASSUME NEW w \in Workers, Commit(w) PROVE TypeInv'
  BY <1>13, <1>a, <1>b DEF Commit, TypeInv, TypeOK, SlotsOfEnvelope, shared, history
<1>14. ASSUME NEW w \in Workers, CommitConflict(w) PROVE TypeInv'
  BY <1>14, <1>a, <1>b DEF CommitConflict, TypeInv, TypeOK, SlotsOfEnvelope, shared, history
<1>15. ASSUME NEW w \in Workers, Sweep(w) PROVE TypeInv'
  <2>1. PICK p \in created[w] : /\ disk' = Drop(disk, p)
                                /\ created' = [created EXCEPT ![w] = @ \ {p}]
    BY <1>15 DEF Sweep
  <2>2. disk' \subseteq FileType
    BY <1>b, <2>1 DEF Drop, TypeOK
  <2>3. QED
    BY <1>15, <1>b, <2>1, <2>2 DEF Sweep, TypeInv, TypeOK, SlotsOfEnvelope, history
<1>16. ASSUME NEW w \in Workers, EndRollback(w) PROVE TypeInv'
  BY <1>16, <1>a, <1>b DEF EndRollback, TypeInv, TypeOK, SlotsOfEnvelope, shared, history
<1>17. ASSUME NEW w \in Workers, Raise(w) PROVE TypeInv'
  BY <1>17, <1>a, <1>b DEF Raise, TypeInv, TypeOK, SlotsOfEnvelope, shared, history
<1>18. ASSUME NEW w \in Workers, Crash(w) PROVE TypeInv'
  BY <1>18, <1>a, <1>b DEF Crash, TypeInv, TypeOK, SlotsOfEnvelope, shared, history
<1>19. CASE UNCHANGED vars
  BY <1>19, <1>b DEF vars, TypeInv, TypeOK, SlotsOfEnvelope
<1>20. QED
  BY <1>1, <1>2, <1>3, <1>4, <1>5, <1>6, <1>7, <1>8, <1>9, <1>10, <1>11, <1>12,
     <1>13, <1>14, <1>15, <1>16, <1>17, <1>18, <1>19 DEF Next, Step

(* TypeInv holds before the first envelope.                                *)
LEMMA InitTypeInv == Init => TypeInv
<1>1. Init => SlotsOfEnvelope
  BY DEF Init, SlotsOfEnvelope
<1>2. QED
  BY <1>1, InitTyped DEF TypeInv

(* Type correctness, with its strengthening: the envelope pipeline never   *)
(* builds a name, path, row or slot outside its type, for any number of    *)
(* workers and any mail.                                                   *)
THEOREM TypeCorrect == Spec => []TypeOK
<1>1. Spec => []TypeInv
  BY InitTypeInv, StepTyped, PTL DEF Spec
<1>2. TypeInv => TypeOK
  BY DEF TypeInv
<1>3. QED
  BY <1>1, <1>2, PTL

-----------------------------------------------------------------------------
(* The steps of one worker, a crash of it included. *)
StepOf(w) == (\E m \in Messages : Begin(w, m)) \/ Step(w) \/ Raise(w) \/ Crash(w)

SameLocals(v) ==
    /\ pc'[v] = pc[v] /\ msg'[v] = msg[v] /\ pending'[v] = pending[v]
    /\ named'[v] = named[v] /\ created'[v] = created[v] /\ recs'[v] = recs[v]

(* No worker writes the local variables of another: all that they share is *)
(* the disk and the ledger.                                                *)
LEMMA OthersKeepTheirs ==
    ASSUME TypeInv, NEW w \in Workers, StepOf(w), NEW v \in Workers, v # w
    PROVE  SameLocals(v)
<1>a. TypeOK
  BY DEF TypeInv
<1>1. CASE \E m \in Messages : Begin(w, m)
  BY <1>1, <1>a DEF Begin, SameLocals, TypeOK
<1>2. CASE FilterSignature(w) \/ ChooseName(w) \/ DownloadTooLarge(w) \/ EndStaging(w)
  BY <1>2, <1>a DEF FilterSignature, ChooseName, DownloadTooLarge, EndStaging, SameLocals, TypeOK
<1>3. CASE Download(w)
  BY <1>3, <1>a DEF Download, SameLocals, TypeOK
<1>4. CASE InspectNew(w) \/ InspectMissing(w)
  BY <1>4, <1>a DEF InspectNew, InspectMissing, SameLocals, TypeOK
<1>5. CASE InspectRevision(w)
  BY <1>5, <1>a DEF InspectRevision, SameLocals, TypeOK
<1>6. CASE Quarantine(w)
  BY <1>6, <1>a DEF Quarantine, SameLocals, TypeOK
<1>7. CASE WriteReport(w)
  BY <1>7, <1>a DEF WriteReport, SameLocals, TypeOK
<1>8. CASE WriteContextJson(w) \/ WriteContextMd(w)
  BY <1>8, <1>a DEF WriteContextJson, WriteContextMd, SidecarStep, SameLocals, TypeOK
<1>9. CASE Commit(w) \/ CommitConflict(w)
  BY <1>9, <1>a DEF Commit, CommitConflict, SameLocals, TypeOK
<1>10. CASE Sweep(w) \/ EndRollback(w)
  BY <1>10, <1>a DEF Sweep, EndRollback, SameLocals, TypeOK
<1>11. CASE Raise(w) \/ Crash(w)
  BY <1>11, <1>a DEF Raise, Crash, SameLocals, TypeOK
<1>12. QED
  BY <1>1, <1>2, <1>3, <1>4, <1>5, <1>6, <1>7, <1>8, <1>9, <1>10, <1>11 DEF StepOf, Step

-----------------------------------------------------------------------------
(***************************************************************************)
(* Committed files stay intact when three things hold that the code does   *)
(* not enforce.  One is about the behaviour: no two engine processes have  *)
(* one email in hand at once (a process alone, or one for each mailbox,    *)
(* when the mailboxes have no email in common).                            *)
(* Two are about the mail: no threat in two messages, and no attachment    *)
(* named like a file that the pipeline writes itself.                      *)
(***************************************************************************)
OneWorkerPerEmail == \A v, w \in Workers :
    v # w /\ pc[v] # "idle" /\ pc[w] # "idle" => msg[v] # msg[w]

(* With quarantine off nothing is moved to the vault. *)
ThreatsNotShared == QuarantineOnMismatch =>
    \A m, n \in Messages : \A i \in Slots(m), j \in Slots(n) :
        Stub(m, i).data = Stub(n, j).data /\ Stub(m, i).data \in Threats => m = n

NotReserved(n) == n \notin SidecarNames /\ n.ext # "diff"

NamesNotReserved ==
    \A m \in Messages : \A i \in Slots(m) : NotReserved(Stub(m, i).name)

OrderlyMail == ThreatsNotShared /\ NamesNotReserved

(* The paths that processing m may write or unlink. *)
OwnedBy(p, m) ==
    \/ p.dir = m
    \/ /\ QuarantineOnMismatch
       /\ p.dir = Vault
       /\ \E i \in Slots(m) : p.sha = Stub(m, i).data /\ p.sha \in Threats

RowsIntact ==
    \A r \in rows : /\ r.msg \in ledger
                    /\ OwnedBy(r.path, r.msg)
                    /\ Holds(disk, r.path, r.data)

(* The part of the invariant about one worker at work. *)
Fresh(w) == msg[w] \notin ledger /\ \A p \in created[w] : OwnedBy(p, msg[w])

NamesApart(w) ==
    /\ \A r, s \in named[w] : r.name = s.name \/ r.slot = s.slot => r = s
    /\ \A r \in named[w] : NotReserved(r.name)

InPlace(w, r) == Holds(disk, InFolder(msg[w], r.name), Stub(msg[w], r.slot).data)

InTheVault(w, r) ==
    LET d == Stub(msg[w], r.slot).data
    IN /\ QuarantineOnMismatch /\ d \in Threats
       /\ Holds(disk, InVault(d, r.name, "quarantine"), d)

StagedInPlace(w) ==
    /\ pc[w] = "stage" => \A r \in named[w] : r.slot \notin pending[w]
    /\ pc[w] = "download" =>
         \A r \in named[w] : r.slot \in pending[w] => Current(w, r.slot)
    /\ pc[w] \in {"stage", "download"} =>
         /\ recs[w] = {}
         /\ \A r \in named[w] : r.slot \notin pending[w] => InPlace(w, r)
    /\ pc[w] = "inspect" =>
         \A r \in named[w] : r.slot \in pending[w] => InPlace(w, r)
    /\ pc[w] = "report" =>
         \A r \in named[w] : r.slot \in pending[w] =>
           IF Current(w, r.slot) THEN InTheVault(w, r) ELSE InPlace(w, r)

RecordPlaced(w, x) ==
    /\ x.msg = msg[w]
    /\ OwnedBy(x.path, msg[w])
    /\ \/ \E r \in named[w] : /\ r.slot \notin pending[w]
                              /\ x.path = InFolder(msg[w], r.name)
       \/ x.path.dir = Vault /\ x.path.name.ext = "quarantine" /\ x.path.sha = x.data
    /\ pc[w] # "rollback" => Holds(disk, x.path, x.data)

AtWork(w) == /\ Fresh(w) /\ NamesApart(w) /\ StagedInPlace(w)
             /\ \A x \in recs[w] : RecordPlaced(w, x)

IntactInv == /\ TypeInv
             /\ Functional(disk)
             /\ RowsIntact
             /\ \A w \in Workers : pc[w] # "idle" => AtWork(w)

(* A step of w leaves the files and the ledger entries of others alone,    *)
OnlyTouches(w) ==
    /\ ledger' \subseteq ledger \cup {msg[w]}
    /\ \A p, e : ~OwnedBy(p, msg[w]) => (Holds(disk', p, e) <=> Holds(disk, p, e))

(* and keeps what concerns w and the rows. *)
OwnStep(w) ==
    /\ (Functional(disk) /\ RowsIntact /\ (pc[w] # "idle" => AtWork(w)))'
    /\ OnlyTouches(w)

(* A path belongs to one message only. *)
LEMMA OwnersAgree ==
    ASSUME ThreatsNotShared, NEW m \in Messages, NEW n \in Messages, NEW p,
           OwnedBy(p, m), OwnedBy(p, n)
    PROVE  m = n
<1>1. Vault # m /\ Vault # n
  BY DistinctAssumption
<1>2. QED
  BY <1>1 DEF OwnedBy, ThreatsNotShared

(* What a worker owns is no committed row's file. *)
LEMMA RowsElsewhere ==
    ASSUME OrderlyMail, IntactInv, NEW w \in Workers, pc[w] # "idle",
           NEW p, OwnedBy(p, msg[w])
    PROVE  \A r \in rows : r.path # p
<1>1. SUFFICES ASSUME NEW r \in rows, r.path = p PROVE FALSE
  OBVIOUS
<1>2. r.msg \in Messages /\ msg[w] \in Messages
  BY DEF IntactInv, TypeInv, TypeOK, RowType
<1>3. r.msg \in ledger /\ OwnedBy(p, r.msg) /\ msg[w] \notin ledger
  BY <1>1 DEF IntactInv, RowsIntact, AtWork, Fresh
<1>4. QED
  BY <1>2, <1>3, OwnersAgree DEF OrderlyMail

(* Rows survive a step that writes or unlinks only what its worker owns. *)
LEMMA RowsSurvive ==
    ASSUME OrderlyMail, IntactInv, NEW w \in Workers, pc[w] # "idle",
           NEW p, OwnedBy(p, msg[w]), NEW q, OwnedBy(q, msg[w]),
           rows' = rows, ledger' = ledger,
           \A x, e : x \notin {p, q} => (Holds(disk', x, e) <=> Holds(disk, x, e))
    PROVE  RowsIntact' /\ OnlyTouches(w)
<1>1. \A r \in rows : r.path \notin {p, q}
  BY RowsElsewhere
<1>2. RowsIntact'
  BY <1>1 DEF IntactInv, RowsIntact
<1>3. QED
  BY <1>2 DEF OnlyTouches

(* A name chosen for an attachment is new to the envelope, and no name of  *)
(* the pipeline's own files.                                               *)
LEMMA DisambiguatedFresh ==
    ASSUME NEW w \in Workers, NEW n \in NameType, NotReserved(n),
           NEW x \in Disambiguated(w, n)
    PROVE  x \notin Seen(w) /\ NotReserved(x)
<1>1. CASE n \notin Seen(w)
  BY <1>1 DEF Disambiguated
<1>2. CASE n \in Seen(w)
  <2>1. PICK k \in 1..MaxSuffix : x = Suffixed(n, k) /\ FreeSuffix(w, n, k)
    BY <1>2 DEF Disambiguated
  <2>2. k \in Nat
    BY BoundsAssumption
  <2>3. x.tags = Append(n.tags, k) /\ x.ext = n.ext
    BY <2>1 DEF Suffixed, NameType
  <2>4. x.tags # <<>>
    <3>1. n.tags \in Seq(Nat)
      BY DEF NameType
    <3>2. QED
      BY <2>2, <2>3, <3>1
  <2>5. QED
    BY <2>1, <2>3, <2>4 DEF FreeSuffix, NotReserved, SidecarNames
<1>3. QED
  BY <1>1, <1>2

(* With nothing on disk and no rows the inductive invariant holds.         *)
LEMMA InitIntact == Init => IntactInv
<1> SUFFICES ASSUME Init PROVE IntactInv
  OBVIOUS
<1>1. QED
  BY InitTypeInv DEF Init, IntactInv, Functional, RowsIntact

-----------------------------------------------------------------------------
(* One lemma per action that takes part in the invariant's argument. *)
LEMMA BeginIntact ==
    ASSUME OrderlyMail, IntactInv, TypeInv', NEW w \in Workers, NEW m \in Messages,
           Begin(w, m)
    PROVE  OwnStep(w)
<1>a. /\ pc'[w] = "stage" /\ msg'[w] = m /\ m \notin ledger'
      /\ named'[w] = {} /\ created'[w] = {} /\ recs'[w] = {}
  BY DEF Begin, shared, IntactInv, TypeInv, TypeOK
<1>1. AtWork(w)'
  BY <1>a DEF AtWork, Fresh, NamesApart, StagedInPlace
<1>2. QED
  BY <1>1 DEF Begin, shared, IntactInv, Functional, RowsIntact, OwnStep, OnlyTouches

(* Skipping a signature image (engine.py 407-418) keeps it.                *)
LEMMA FilterIntact ==
    ASSUME OrderlyMail, IntactInv, TypeInv', NEW w \in Workers, FilterSignature(w)
    PROVE  OwnStep(w)
<1>a. AtWork(w)
  BY DEF FilterSignature, IntactInv
<1>b. /\ pc[w] = "stage" /\ pc' = pc
      /\ pending'[w] \subseteq pending[w]
      /\ UNCHANGED <<disk, ledger, rows, msg, named, created, recs>>
  BY DEF FilterSignature, shared, IntactInv, TypeInv, TypeOK
<1>c. StagedInPlace(w)'
  BY <1>a, <1>b DEF AtWork, StagedInPlace, InPlace
<1>1. AtWork(w)'
  BY <1>a, <1>b, <1>c DEF AtWork, Fresh, NamesApart, StagedInPlace
<1>2. QED
  BY <1>1 DEF FilterSignature, shared, IntactInv, Functional, RowsIntact, OwnStep, OnlyTouches

(* Choosing a filename (engine.py 420-434) keeps it: the name is fresh.    *)
LEMMA ChooseNameIntact ==
    ASSUME OrderlyMail, IntactInv, TypeInv', NEW w \in Workers, ChooseName(w)
    PROVE  OwnStep(w)
<1>1. PICK i \in pending[w] :
        /\ Current(w, i)
        /\ \E n \in Disambiguated(w, Stub(msg[w], i).name) :
             named' = [named EXCEPT ![w] = @ \cup {[slot |-> i, name |-> n]}]
  BY DEF ChooseName
<1>2. PICK n \in Disambiguated(w, Stub(msg[w], i).name) :
        named' = [named EXCEPT ![w] = @ \cup {[slot |-> i, name |-> n]}]
  BY <1>1
<1>3. i \in Slots(msg[w]) /\ msg[w] \in Messages
  BY DEF IntactInv, TypeInv, TypeOK, SlotsOfEnvelope
<1>4. n \notin Seen(w) /\ NotReserved(n)
  BY <1>3, StubTyped, DisambiguatedFresh DEF OrderlyMail, NamesNotReserved
<1>5. AtWork(w)
  BY DEF ChooseName, IntactInv
<1>6. named'[w] = named[w] \cup {[slot |-> i, name |-> n]}
  BY <1>2 DEF IntactInv, TypeInv, TypeOK
<1>7. pc'[w] = "download" /\ pc[w] = "stage"
  BY DEF ChooseName, IntactInv, TypeInv, TypeOK
<1>8. UNCHANGED <<shared, msg, pending, created, recs>>
  BY DEF ChooseName
<1>9. NamesApart(w)'
  BY <1>4, <1>5, <1>6, <1>7, <1>8 DEF AtWork, NamesApart, StagedInPlace, Seen
<1>10. StagedInPlace(w)'
  BY <1>1, <1>5, <1>6, <1>7, <1>8 DEF AtWork, StagedInPlace, InPlace, Current, shared
<1>11. AtWork(w)'
  BY <1>5, <1>7, <1>8, <1>9, <1>10 DEF AtWork, Fresh, StagedInPlace, shared
<1>12. QED
  BY <1>8, <1>11 DEF shared, IntactInv, Functional, RowsIntact, OwnStep, OnlyTouches

(* Publishing a download (engine.py 440-455) touches no committed path.    *)
LEMMA DownloadIntact ==
    ASSUME OrderlyMail, IntactInv, TypeInv', NEW w \in Workers, Download(w)
    PROVE  OwnStep(w)
<1>1. PICK r \in named[w] :
        /\ Current(w, r.slot)
        /\ disk' = Put(disk, InFolder(msg[w], r.name), Stub(msg[w], r.slot).data)
        /\ created' = [created EXCEPT ![w] = @ \cup {InFolder(msg[w], r.name)}]
        /\ pending' = [pending EXCEPT ![w] = @ \ {r.slot}]
  BY DEF Download
<1> DEFINE p == InFolder(msg[w], r.name)
           d == Stub(msg[w], r.slot).data
<1>2. /\ pc[w] = "download" /\ pc'[w] = "stage"
      /\ pending'[w] = pending[w] \ {r.slot}
      /\ created'[w] = created[w] \cup {p}
      /\ UNCHANGED <<ledger, rows, msg, named, recs>>
  BY <1>1 DEF Download, IntactInv, TypeInv, TypeOK
<1>3. AtWork(w)
  BY <1>2 DEF IntactInv
<1>4. OwnedBy(p, msg[w])
  BY DEF OwnedBy, InFolder
<1>5. Holds(disk', p, d) /\ \A x, e : x # p => (Holds(disk', x, e) <=> Holds(disk, x, e))
  BY <1>1, PutHolds
<1>6. Functional(disk')
  BY <1>1, StaysFunctional DEF IntactInv
<1>7. RowsIntact' /\ OnlyTouches(w)
  BY <1>2, <1>4, <1>5, RowsSurvive
<1>8. StagedInPlace(w)'
  <2>1. \A q \in named[w] : q.slot \in pending[w] => q = r
    BY <1>1, <1>2, <1>3 DEF AtWork, StagedInPlace, NamesApart, Current, IntactInv,
       TypeInv, TypeOK
  <2>2. \A q \in named[w] : q # r => InFolder(msg[w], q.name) # p
    BY <1>3 DEF AtWork, NamesApart, InFolder
  <2>3. \A q \in named[w] : Holds(disk', InFolder(msg[w], q.name), Stub(msg[w], q.slot).data)
    BY <1>2, <1>3, <1>5, <2>1, <2>2 DEF AtWork, StagedInPlace, InPlace
  <2>4. QED
    BY <1>2, <1>3, <2>1, <2>3 DEF AtWork, StagedInPlace, InPlace
<1>9. AtWork(w)'
  BY <1>2, <1>3, <1>4, <1>8 DEF AtWork, Fresh, NamesApart, StagedInPlace
<1>10. QED
  BY <1>6, <1>7, <1>9 DEF OwnStep

(* The end of the staging loop (engine.py 460-475) keeps it.               *)
LEMMA EndStagingIntact ==
    ASSUME OrderlyMail, IntactInv, TypeInv', NEW w \in Workers, EndStaging(w)
    PROVE  OwnStep(w)
<1>1. /\ pc[w] = "stage" /\ pc'[w] = "inspect" /\ pending[w] = {}
      /\ UNCHANGED <<disk, ledger, rows, msg, named, created, recs>>
  BY DEF EndStaging, IntactInv, TypeInv, TypeOK
<1>2. AtWork(w)
  BY <1>1 DEF IntactInv
<1>3. AtWork(w)'
  BY <1>1, <1>2 DEF AtWork, Fresh, NamesApart, StagedInPlace, InPlace
<1>4. QED
  BY <1>1, <1>3 DEF IntactInv, Functional, RowsIntact, OwnStep, OnlyTouches

(* A step that only turns to the rollback. *)
LEMMA ToRollbackIntact ==
    ASSUME OrderlyMail, IntactInv, TypeInv', NEW w \in Workers, pc[w] # "idle",
           pc'[w] = "rollback",
           UNCHANGED <<disk, ledger, rows, msg, pending, named, created, recs>>
    PROVE  OwnStep(w)
<1>1. AtWork(w)
  BY DEF IntactInv
<1>a. \A x \in recs[w] : RecordPlaced(w, x)'
  BY <1>1 DEF AtWork, RecordPlaced
<1>2. AtWork(w)'
  BY <1>1, <1>a DEF AtWork, Fresh, NamesApart, StagedInPlace
<1>3. QED
  BY <1>2 DEF IntactInv, Functional, RowsIntact, OwnStep, OnlyTouches

(* A step that ends the work on an envelope and leaves disk and rows alone. *)
LEMMA ToIdleIntact ==
    ASSUME OrderlyMail, IntactInv, TypeInv', NEW w \in Workers, pc'[w] = "idle",
           UNCHANGED <<disk, ledger, rows>>
    PROVE  OwnStep(w)
<1>1. QED
  BY DEF IntactInv, Functional, RowsIntact, OwnStep, OnlyTouches

(* Recording a clean attachment (engine.py 571-634) keeps it.              *)
LEMMA InspectNewIntact ==
    ASSUME OrderlyMail, IntactInv, TypeInv', NEW w \in Workers, InspectNew(w)
    PROVE  OwnStep(w)
<1>1. PICK r \in named[w] :
        /\ Inspecting(w, r)
        /\ recs' = [recs EXCEPT ![w] = @ \cup
                     {Row(w, r, InFolder(msg[w], r.name), "CLEAN", 1)}]
        /\ pending' = [pending EXCEPT ![w] = @ \ {r.slot}]
  BY DEF InspectNew
<1>2. /\ pc[w] = "inspect" /\ pc' = pc /\ r.slot \in pending[w]
      /\ pending'[w] = pending[w] \ {r.slot}
      /\ recs'[w] = recs[w] \cup {Row(w, r, InFolder(msg[w], r.name), "CLEAN", 1)}
      /\ UNCHANGED <<disk, ledger, rows, msg, named, created>>
  BY <1>1 DEF InspectNew, Inspecting, Current, shared, IntactInv, TypeInv, TypeOK
<1>3. AtWork(w)
  BY <1>2 DEF IntactInv
<1>4. ASSUME NEW x, x = Row(w, r, InFolder(msg[w], r.name), "CLEAN", 1)
      PROVE  RecordPlaced(w, x)'
  BY <1>4, <1>2, <1>3 DEF AtWork, StagedInPlace, InPlace, RecordPlaced, Row, OwnedBy, InFolder
<1>5. \A x \in recs[w] : RecordPlaced(w, x)'
  BY <1>2, <1>3 DEF AtWork, RecordPlaced
<1>6. StagedInPlace(w)'
  BY <1>2, <1>3 DEF AtWork, StagedInPlace, InPlace
<1>a. Fresh(w)' /\ NamesApart(w)'
  BY <1>2, <1>3 DEF AtWork, Fresh, NamesApart
<1>7. AtWork(w)'
  BY <1>2, <1>4, <1>5, <1>6, <1>a DEF AtWork
<1>8. QED
  BY <1>2, <1>7 DEF IntactInv, Functional, RowsIntact, OwnStep, OnlyTouches

(* A revision and its diff file (engine.py 576-634) touch no committed     *)
(* path.                                                                   *)
LEMMA InspectRevisionIntact ==
    ASSUME OrderlyMail, IntactInv, TypeInv', NEW w \in Workers, InspectRevision(w)
    PROVE  OwnStep(w)
<1>1. PICK r \in named[w], v \in Nat :
        /\ Inspecting(w, r)
        /\ recs' = [recs EXCEPT ![w] = @ \cup
                     {Row(w, r, InFolder(msg[w], r.name), "CLEAN", v)}]
        /\ \/ /\ disk' = Put(disk, DiffPath(msg[w], r.name), Diff)
              /\ created' = [created EXCEPT ![w] = @ \cup {DiffPath(msg[w], r.name)}]
           \/ UNCHANGED <<disk, created>>
        /\ pending' = [pending EXCEPT ![w] = @ \ {r.slot}]
  <2>1. \A q \in rows : q.version + 1 \in Nat
    BY DEF IntactInv, TypeInv, TypeOK, RowType
  <2>2. QED
    BY <2>1 DEF InspectRevision, Latest, Prior
<1> DEFINE p == DiffPath(msg[w], r.name)
<1>2. /\ pc[w] = "inspect" /\ pc' = pc /\ r.slot \in pending[w]
      /\ pending'[w] = pending[w] \ {r.slot}
      /\ recs'[w] = recs[w] \cup {Row(w, r, InFolder(msg[w], r.name), "CLEAN", v)}
      /\ created'[w] \subseteq created[w] \cup {p}
      /\ UNCHANGED <<ledger, rows, msg, named>>
  BY <1>1 DEF InspectRevision, Inspecting, Current, history, IntactInv, TypeInv, TypeOK
<1>3. AtWork(w)
  BY <1>2 DEF IntactInv
<1>4. OwnedBy(p, msg[w])
  BY DEF OwnedBy, DiffPath, InFolder
<1>5. \A x, e : x # p => (Holds(disk', x, e) <=> Holds(disk, x, e))
  BY <1>1, PutHolds
<1>6. Functional(disk')
  BY <1>1, StaysFunctional DEF IntactInv
<1>7. RowsIntact' /\ OnlyTouches(w)
  BY <1>2, <1>4, <1>5, RowsSurvive
<1>8. \A s \in named[w] : InFolder(msg[w], s.name) # p
  BY <1>3 DEF AtWork, NamesApart, NotReserved, InFolder, DiffPath
<1>9. \A x \in recs[w] : x.path # p
  <2>1. msg[w] # Vault
    BY DistinctAssumption DEF IntactInv, TypeInv, TypeOK
  <2>2. p.dir = msg[w]
    BY DEF DiffPath, InFolder
  <2>3. ASSUME NEW x \in recs[w]
        PROVE  x.path.dir = Vault \/ \E s \in named[w] : x.path = InFolder(msg[w], s.name)
    BY <1>3 DEF AtWork, RecordPlaced
  <2>4. QED
    BY <1>8, <2>1, <2>2, <2>3
<1>10. ASSUME NEW x, x = Row(w, r, InFolder(msg[w], r.name), "CLEAN", v)
       PROVE  RecordPlaced(w, x)'
  BY <1>2, <1>3, <1>5, <1>8, <1>10
     DEF AtWork, StagedInPlace, InPlace, RecordPlaced, Row, OwnedBy, InFolder
<1>11. \A x \in recs[w] : RecordPlaced(w, x)'
  BY <1>2, <1>3, <1>5, <1>9 DEF AtWork, RecordPlaced
<1>12. StagedInPlace(w)'
  BY <1>2, <1>3, <1>5, <1>8 DEF AtWork, StagedInPlace, InPlace
<1>13. Fresh(w)' /\ NamesApart(w)'
  BY <1>2, <1>3, <1>4 DEF AtWork, Fresh, NamesApart
<1>14. AtWork(w)'
  BY <1>2, <1>10, <1>11, <1>12, <1>13 DEF AtWork
<1>15. QED
  BY <1>6, <1>7, <1>14 DEF OwnStep

(* The move to the vault (engine.py 494-516) touches no committed path,    *)
(* since no other message has the threat.                                  *)
LEMMA QuarantineIntact ==
    ASSUME OrderlyMail, IntactInv, TypeInv', NEW w \in Workers, Quarantine(w)
    PROVE  OwnStep(w)
<1> DEFINE P(r) == InFolder(msg[w], r.name)
           D(r) == Stub(msg[w], r.slot).data
           Q(r) == InVault(D(r), r.name, "quarantine")
<1>1. PICK r \in named[w] :
        /\ Inspecting(w, r)
        /\ Threatening(P(r))
        /\ disk' = Rename(disk, P(r), Q(r))
        /\ created' = [created EXCEPT ![w] = (@ \ {P(r)}) \cup {Q(r)}]
  BY DEF Quarantine
<1> DEFINE p == P(r)  q == Q(r)  d == D(r)
<1>2. /\ QuarantineOnMismatch
      /\ pc[w] = "inspect" /\ pc'[w] = "report" /\ r.slot \in pending[w]
      /\ created'[w] \subseteq created[w] \cup {q}
      /\ UNCHANGED <<ledger, rows, msg, named, pending, recs>>
  BY <1>1 DEF Quarantine, Inspecting, Current, IntactInv, TypeInv, TypeOK
<1>3. AtWork(w)
  BY <1>2 DEF IntactInv
<1>4. Holds(disk, p, d)
  BY <1>2, <1>3 DEF AtWork, StagedInPlace, InPlace
<1>5. d \in Threats
  BY <1>1, <1>4, HoldsUnique DEF IntactInv, Threatening
<1>6. OwnedBy(p, msg[w]) /\ OwnedBy(q, msg[w])
  <2>1. r.slot \in Slots(msg[w])
    BY NamedTyped DEF IntactInv
  <2>2. QED
    BY <1>2, <1>5, <2>1 DEF OwnedBy, InFolder, InVault
<1>7. /\ Holds(disk', q, d)
      /\ \A x, e : x \notin {p, q} => (Holds(disk', x, e) <=> Holds(disk, x, e))
  BY <1>1, <1>4, RenameHolds
<1>8. Functional(disk')
  BY <1>1, StaysFunctional DEF IntactInv
<1>9. RowsIntact' /\ OnlyTouches(w)
  BY <1>2, <1>6, <1>7, RowsSurvive
<1>a. msg[w] # Vault
  BY DistinctAssumption DEF IntactInv, TypeInv, TypeOK
<1>10. \A s \in named[w] : s # r => P(s) \notin {p, q}
  BY <1>3, <1>a DEF AtWork, NamesApart, InFolder, InVault
<1>11. \A s \in named[w] : s.slot \in pending[w] /\ Current(w, s.slot) => s = r
  BY <1>1, <1>3 DEF AtWork, NamesApart, Inspecting, Current, IntactInv, TypeInv, TypeOK
<1>12. StagedInPlace(w)'
  <2>1. ASSUME NEW s \in named[w], s.slot \in pending[w], ~Current(w, s.slot)
        PROVE  InPlace(w, s)'
    <3>1. s # r
      BY <1>1, <2>1 DEF Inspecting
    <3>2. InPlace(w, s)
      BY <1>2, <1>3, <2>1 DEF AtWork, StagedInPlace
    <3>3. QED
      BY <1>2, <1>7, <1>10, <3>1, <3>2 DEF InPlace
  <2>2. ASSUME NEW s \in named[w], s.slot \in pending[w], Current(w, s.slot)
        PROVE  InTheVault(w, s)'
    BY <1>2, <1>5, <1>7, <1>11, <2>2 DEF InTheVault
  <2>3. QED
    BY <1>2, <2>1, <2>2 DEF StagedInPlace, Current
<1>13. \A x \in recs[w] : RecordPlaced(w, x)'
  <2>1. ASSUME NEW x \in recs[w] PROVE x.path # p /\ (x.path = q => x.data = d)
    <3>1. p.dir = msg[w] /\ q.dir = Vault /\ q.sha = d
      BY DEF InFolder, InVault
    <3>2. CASE x.path.dir = Vault /\ x.path.sha = x.data
      BY <1>a, <3>1, <3>2
    <3>3. CASE \E s \in named[w] : s.slot \notin pending[w] /\ x.path = P(s)
      BY <1>2, <1>10, <3>3
    <3>4. QED
      BY <1>3, <3>2, <3>3 DEF AtWork, RecordPlaced
  <2>2. QED
    BY <1>2, <1>3, <1>7, <2>1 DEF AtWork, RecordPlaced
<1>14. Fresh(w)' /\ NamesApart(w)'
  BY <1>2, <1>3, <1>6 DEF AtWork, Fresh, NamesApart
<1>15. AtWork(w)'
  BY <1>2, <1>12, <1>13, <1>14 DEF AtWork
<1>16. QED
  BY <1>8, <1>9, <1>15 DEF OwnStep

(* The threat report (engine.py 518-569) touches no committed path.        *)
LEMMA WriteReportIntact ==
    ASSUME OrderlyMail, IntactInv, TypeInv', NEW w \in Workers, WriteReport(w)
    PROVE  OwnStep(w)
<1> DEFINE V(r, e) == InVault(Stub(msg[w], r.slot).data, r.name, e)
<1>1. PICK r \in named[w] :
        /\ Current(w, r.slot)
        /\ disk' = Put(disk, V(r, "report.md"), Report)
        /\ created' = [created EXCEPT ![w] = @ \cup {V(r, "report.md")}]
        /\ recs' = [recs EXCEPT ![w] = @ \cup
                     {Row(w, r, V(r, "quarantine"), "QUARANTINED", 1)}]
        /\ pending' = [pending EXCEPT ![w] = @ \ {r.slot}]
  BY DEF WriteReport
<1> DEFINE p == V(r, "report.md")  q == V(r, "quarantine")
           d == Stub(msg[w], r.slot).data
<1>2. /\ pc[w] = "report" /\ pc'[w] = "inspect" /\ r.slot \in pending[w]
      /\ pending'[w] = pending[w] \ {r.slot}
      /\ created'[w] \subseteq created[w] \cup {p}
      /\ recs'[w] = recs[w] \cup {Row(w, r, q, "QUARANTINED", 1)}
      /\ UNCHANGED <<ledger, rows, msg, named>>
  BY <1>1 DEF WriteReport, Current, IntactInv, TypeInv, TypeOK
<1>3. AtWork(w)
  BY <1>2 DEF IntactInv
<1>4. QuarantineOnMismatch /\ d \in Threats /\ Holds(disk, q, d)
  BY <1>1, <1>2, <1>3 DEF AtWork, StagedInPlace, InTheVault
<1>5. OwnedBy(p, msg[w]) /\ OwnedBy(q, msg[w])
  <2>1. r.slot \in Slots(msg[w])
    BY NamedTyped DEF IntactInv
  <2>2. QED
    BY <1>4, <2>1 DEF OwnedBy, InVault
<1>6. \A x, e : x # p => (Holds(disk', x, e) <=> Holds(disk, x, e))
  BY <1>1, PutHolds
<1>7. Functional(disk')
  BY <1>1, StaysFunctional DEF IntactInv
<1>8. RowsIntact' /\ OnlyTouches(w)
  BY <1>2, <1>5, <1>6, RowsSurvive
<1>9. p.dir = Vault /\ p.name.ext = "report.md" /\ q.dir = Vault /\ q.sha = d
      /\ q.name.ext = "quarantine"
  BY DEF InVault
<1>10. msg[w] # Vault
  BY DistinctAssumption DEF IntactInv, TypeInv, TypeOK
<1>11. \A s \in named[w] : InFolder(msg[w], s.name) # p
  BY <1>9, <1>10 DEF InFolder
<1>12. StagedInPlace(w)'
  <2>1. ASSUME NEW s \in named[w], s.slot \in pending[w], s.slot # r.slot
        PROVE  InPlace(w, s)'
    <3>1. ~Current(w, s.slot)
      BY <1>1, <2>1 DEF Current, IntactInv, TypeInv, TypeOK
    <3>2. InPlace(w, s)
      BY <1>2, <1>3, <2>1, <3>1 DEF AtWork, StagedInPlace
    <3>3. QED
      BY <1>2, <1>6, <1>11, <3>2 DEF InPlace
  <2>2. QED
    BY <1>2, <2>1 DEF StagedInPlace
<1>13. ASSUME NEW x, x = Row(w, r, q, "QUARANTINED", 1) PROVE RecordPlaced(w, x)'
  <2>1. x.msg = msg[w] /\ x.path = q /\ x.data = d
    BY <1>13 DEF Row
  <2>2. Holds(disk', q, d)
    BY <1>4, <1>6, <1>9
  <2>3. QED
    BY <1>2, <1>5, <1>9, <2>1, <2>2 DEF RecordPlaced
<1>14. \A x \in recs[w] : RecordPlaced(w, x)'
  <2>1. ASSUME NEW x \in recs[w] PROVE x.path # p
    <3>1. CASE x.path.dir = Vault /\ x.path.name.ext = "quarantine"
      BY <1>9, <3>1
    <3>2. CASE \E s \in named[w] : x.path = InFolder(msg[w], s.name)
      BY <1>11, <3>2
    <3>3. QED
      BY <1>3, <3>1, <3>2 DEF AtWork, RecordPlaced
  <2>2. QED
    BY <1>2, <1>3, <1>6, <2>1 DEF AtWork, RecordPlaced
<1>15. Fresh(w)' /\ NamesApart(w)'
  BY <1>2, <1>3, <1>5 DEF AtWork, Fresh, NamesApart
<1>16. AtWork(w)'
  BY <1>2, <1>12, <1>13, <1>14, <1>15 DEF AtWork
<1>17. QED
  BY <1>7, <1>8, <1>16 DEF OwnStep

(* The sidecars (context_sidecar.py 110, 172) touch no committed path,     *)
(* since no attachment has one of their names.                             *)
LEMMA SidecarIntact ==
    ASSUME OrderlyMail, IntactInv, TypeInv', NEW w \in Workers,
           WriteContextJson(w) \/ WriteContextMd(w)
    PROVE  OwnStep(w)
<1>1. PICK n \in SidecarNames : disk' = Put(disk, InFolder(msg[w], n), Sidecar)
  BY DEF WriteContextJson, WriteContextMd, SidecarStep, SidecarNames
<1> DEFINE p == InFolder(msg[w], n)
<1>2. /\ pc[w] \in {"inspect", "sidecar"} /\ pc'[w] \in {"sidecar", "commit"}
      /\ UNCHANGED <<ledger, rows, msg, pending, named, created, recs>>
  BY DEF WriteContextJson, WriteContextMd, SidecarStep, IntactInv, TypeInv, TypeOK
<1>3. AtWork(w)
  BY <1>2 DEF IntactInv
<1>4. OwnedBy(p, msg[w])
  BY DEF OwnedBy, InFolder
<1>5. \A x, e : x # p => (Holds(disk', x, e) <=> Holds(disk, x, e))
  BY <1>1, PutHolds
<1>6. Functional(disk')
  BY <1>1, StaysFunctional DEF IntactInv
<1>7. RowsIntact' /\ OnlyTouches(w)
  BY <1>2, <1>4, <1>5, RowsSurvive
<1>8. \A x \in recs[w] : RecordPlaced(w, x)'
  <2>1. msg[w] # Vault /\ p.dir = msg[w]
    BY DistinctAssumption DEF IntactInv, TypeInv, TypeOK, InFolder
  <2>2. \A s \in named[w] : InFolder(msg[w], s.name) # p
    BY <1>3 DEF AtWork, NamesApart, NotReserved, InFolder
  <2>3. ASSUME NEW x \in recs[w] PROVE x.path # p
    <3>1. CASE x.path.dir = Vault
      BY <2>1, <3>1
    <3>2. CASE \E s \in named[w] : x.path = InFolder(msg[w], s.name)
      BY <2>2, <3>2
    <3>3. QED
      BY <1>3, <3>1, <3>2 DEF AtWork, RecordPlaced
  <2>4. QED
    BY <1>2, <1>3, <1>5, <2>3 DEF AtWork, RecordPlaced
<1>9. AtWork(w)'
  BY <1>2, <1>3, <1>8 DEF AtWork, Fresh, NamesApart, StagedInPlace
<1>10. QED
  BY <1>6, <1>7, <1>9 DEF OwnStep

(* The rows of a commit (engine.py 660-689) name files that are there.     *)
LEMMA CommitIntact ==
    ASSUME OrderlyMail, IntactInv, TypeInv', NEW w \in Workers, Commit(w)
    PROVE  OwnStep(w)
<1>1. /\ pc[w] = "commit" /\ pc'[w] = "idle" /\ disk' = disk
      /\ ledger' = ledger \cup {msg[w]}
      /\ rows' = rows \cup recs[w]
  BY DEF Commit, IntactInv, TypeInv, TypeOK
<1>2. \A x \in recs[w] : x.msg = msg[w] /\ OwnedBy(x.path, msg[w]) /\ Holds(disk, x.path, x.data)
  BY <1>1 DEF IntactInv, AtWork, RecordPlaced
<1>3. RowsIntact'
  BY <1>1, <1>2 DEF IntactInv, RowsIntact
<1>4. QED
  BY <1>1, <1>3 DEF IntactInv, Functional, OwnStep, OnlyTouches

(* The rollback (engine.py 700-707) unlinks no committed path.             *)
LEMMA SweepIntact ==
    ASSUME OrderlyMail, IntactInv, TypeInv', NEW w \in Workers, Sweep(w)
    PROVE  OwnStep(w)
<1>1. PICK p \in created[w] : /\ disk' = Drop(disk, p)
                              /\ created' = [created EXCEPT ![w] = @ \ {p}]
  BY DEF Sweep
<1>2. /\ pc[w] = "rollback" /\ pc' = pc
      /\ created'[w] \subseteq created[w]
      /\ UNCHANGED <<ledger, rows, msg, pending, named, recs>>
  BY <1>1 DEF Sweep, history, IntactInv, TypeInv, TypeOK
<1>3. AtWork(w)
  BY <1>2 DEF IntactInv
<1>4. OwnedBy(p, msg[w])
  BY <1>3 DEF AtWork, Fresh
<1>5. \A x, e : x # p => (Holds(disk', x, e) <=> Holds(disk, x, e))
  BY <1>1, DropHolds
<1>6. Functional(disk')
  BY <1>1, StaysFunctional DEF IntactInv
<1>7. RowsIntact' /\ OnlyTouches(w)
  BY <1>2, <1>4, <1>5, RowsSurvive
<1>8. \A x \in recs[w] : RecordPlaced(w, x)'
  BY <1>2, <1>3 DEF AtWork, RecordPlaced
<1>9. AtWork(w)'
  BY <1>2, <1>3, <1>8 DEF AtWork, Fresh, NamesApart, StagedInPlace
<1>10. QED
  BY <1>6, <1>7, <1>9 DEF OwnStep

(* What a worker has on disk and in hand outlasts the steps of others that *)
(* are not in its email: no path belongs to two messages.                  *)
LEMMA OthersAtWork ==
    ASSUME OrderlyMail, IntactInv, NEW w \in Workers, NEW v \in Workers,
           pc[v] # "idle", SameLocals(v), OnlyTouches(w),
           msg[v] # msg[w] \/ UNCHANGED <<disk, ledger>>
    PROVE  AtWork(v)'
<1>1. AtWork(v) /\ msg[v] \in Messages /\ msg[w] \in Messages
  BY DEF IntactInv, TypeInv, TypeOK
<1>2. ASSUME NEW p, NEW e, OwnedBy(p, msg[v]), Holds(disk, p, e)
      PROVE  Holds(disk', p, e)
  <2>1. CASE msg[v] # msg[w]
    <3>1. ~OwnedBy(p, msg[w])
      BY <1>1, <1>2, <2>1, OwnersAgree DEF OrderlyMail
    <3>2. QED
      BY <1>2, <3>1 DEF OnlyTouches
  <2>2. CASE UNCHANGED <<disk, ledger>>
    BY <1>2, <2>2
  <2>3. QED
    BY <2>1, <2>2
<1>3. Fresh(v)' /\ NamesApart(v)'
  BY <1>1 DEF AtWork, Fresh, NamesApart, SameLocals, OnlyTouches
<1>4. ASSUME NEW r \in named[v]
      PROVE  /\ InPlace(v, r) => InPlace(v, r)'
             /\ InTheVault(v, r) => InTheVault(v, r)'
             /\ \A i : Current(v, i)' <=> Current(v, i)
  <2>1. OwnedBy(InFolder(msg[v], r.name), msg[v])
    BY DEF OwnedBy, InFolder
  <2>2. InPlace(v, r) => InPlace(v, r)'
    BY <1>2, <2>1 DEF InPlace, SameLocals
  <2>3. r.slot \in Slots(msg[v])
    BY NamedTyped DEF IntactInv
  <2>4. InTheVault(v, r) =>
          OwnedBy(InVault(Stub(msg[v], r.slot).data, r.name, "quarantine"), msg[v])
    BY <2>3 DEF InTheVault, OwnedBy, InVault
  <2>5. InTheVault(v, r) => InTheVault(v, r)'
    BY <1>2, <2>4 DEF InTheVault, SameLocals
  <2>6. QED
    BY <2>2, <2>5 DEF Current, SameLocals
<1>5. StagedInPlace(v)'
  BY <1>1, <1>4 DEF AtWork, StagedInPlace, SameLocals
<1>6. ASSUME NEW x \in recs[v] PROVE RecordPlaced(v, x)'
  <2>1. RecordPlaced(v, x) /\ OwnedBy(x.path, msg[v])
    BY <1>1 DEF AtWork, RecordPlaced
  <2>2. Holds(disk, x.path, x.data) => Holds(disk', x.path, x.data)
    BY <1>2, <2>1
  <2>3. QED
    BY <2>1, <2>2 DEF RecordPlaced, SameLocals
<1>7. QED
  BY <1>3, <1>5, <1>6 DEF AtWork, SameLocals

(* A step keeps what concerns the worker that takes it, and the rows. *)
LEMMA StepKeepsOwn ==
    ASSUME OrderlyMail, IntactInv, TypeInv', NEW w \in Workers, StepOf(w)
    PROVE  OwnStep(w)
<1>1. CASE DownloadTooLarge(w) \/ InspectMissing(w) \/ CommitConflict(w) \/ Raise(w)
  <2>1. /\ pc[w] # "idle" /\ pc'[w] = "rollback"
        /\ UNCHANGED <<disk, ledger, rows, msg, pending, named, created, recs>>
    BY <1>1 DEF DownloadTooLarge, InspectMissing, Inspecting, CommitConflict, Raise,
       shared, IntactInv, TypeInv, TypeOK
  <2>2. QED
    BY <2>1, ToRollbackIntact
<1>2. CASE EndRollback(w) \/ Crash(w)
  <2>1. pc'[w] = "idle" /\ UNCHANGED <<disk, ledger, rows>>
    BY <1>2 DEF EndRollback, Crash, shared, IntactInv, TypeInv, TypeOK
  <2>2. QED
    BY <2>1, ToIdleIntact
<1>3. QED
  BY <1>1, <1>2, BeginIntact, FilterIntact, ChooseNameIntact, DownloadIntact,
     EndStagingIntact, InspectNewIntact, InspectRevisionIntact, QuarantineIntact,
     WriteReportIntact, SidecarIntact, CommitIntact, SweepIntact DEF StepOf, Step

(* Only an envelope that is begun is new to its worker. *)
LEMMA StepKeepsEmail ==
    ASSUME TypeInv, NEW w \in Workers, StepOf(w)
    PROVE  \/ pc[w] # "idle"
           \/ UNCHANGED <<disk, ledger>>
BY DEF StepOf, Begin, shared, Step, FilterSignature, ChooseName, Download, DownloadTooLarge,
   EndStaging, InspectNew, InspectRevision, Quarantine, WriteReport, InspectMissing,
   Inspecting, WriteContextJson, WriteContextMd, SidecarStep, Commit, CommitConflict, Sweep,
   EndRollback, Raise, Crash

(* Every step, a crash included, keeps the inductive invariant, as long as *)
(* nobody else is in the email at hand.                                    *)
LEMMA StepIntact ==
    ASSUME OrderlyMail
    PROVE  IntactInv /\ OneWorkerPerEmail /\ [Next]_vars => IntactInv'
<1> SUFFICES ASSUME IntactInv, OneWorkerPerEmail, [Next]_vars PROVE IntactInv'
  OBVIOUS
<1>1. TypeInv /\ TypeInv'
  BY StepTyped DEF IntactInv
<1>2. ASSUME NEW w \in Workers, StepOf(w) PROVE IntactInv'
  <2>1. OwnStep(w)
    BY <1>1, <1>2, StepKeepsOwn
  <2>2. ASSUME NEW v \in Workers, v # w, pc'[v] # "idle" PROVE AtWork(v)'
    <3>1. SameLocals(v)
      BY <1>1, <1>2, <2>2, OthersKeepTheirs
    <3>2. pc[v] # "idle"
      BY <2>2, <3>1 DEF SameLocals
    <3>3. msg[v] # msg[w] \/ UNCHANGED <<disk, ledger>>
      BY <1>1, <1>2, <2>2, <3>2, StepKeepsEmail DEF OneWorkerPerEmail
    <3>4. QED
      BY <2>1, <3>1, <3>2, <3>3, OthersAtWork DEF OwnStep
  <2>3. \A v \in Workers : (pc[v] # "idle" => AtWork(v))'
    BY <2>1, <2>2 DEF OwnStep
  <2>4. QED
    BY <1>1, <2>1, <2>3 DEF IntactInv, OwnStep
<1>3. CASE UNCHANGED vars
  <2>1. UNCHANGED <<disk, ledger, rows, pc, msg, pending, named, created, recs>>
    BY <1>3 DEF vars
  <2>2. ASSUME NEW w \in Workers, AtWork(w) PROVE AtWork(w)'
    BY <2>1, <2>2 DEF AtWork, Fresh, NamesApart, StagedInPlace, InPlace, InTheVault,
       Current, RecordPlaced
  <2>3. QED
    BY <1>1, <2>1, <2>2 DEF IntactInv, Functional, RowsIntact
<1>4. QED
  BY <1>2, <1>3 DEF Next, StepOf

(* However many engine processes there are, as long as no two have one     *)
(* email in hand at once, and for mail in which no threat occurs twice and *)
(* no attachment has a name of the pipeline's own: every committed row     *)
(* keeps naming a file with the bytes it recorded, through rollbacks,      *)
(* crashes, retries and everything that is ingested later or meanwhile.    *)
(* PipelineRaceLosesFiles, PipelineVaultCollision and PipelineSidecarClash *)
(* show that none of the three can be dropped (engine.py 507, 645,         *)
(* 700-707 against 661-689).                                               *)
THEOREM CommittedFilesStayIntact ==
    OrderlyMail => (Spec /\ []OneWorkerPerEmail => []CommittedFilesIntact)
<1> SUFFICES ASSUME OrderlyMail
             PROVE  Spec /\ []OneWorkerPerEmail => []CommittedFilesIntact
  OBVIOUS
<1>1. Init => IntactInv
  BY InitIntact
<1>2. IntactInv /\ OneWorkerPerEmail /\ [Next]_vars => IntactInv'
  BY StepIntact
<1>3. IntactInv => CommittedFilesIntact
  BY DEF IntactInv, RowsIntact, CommittedFilesIntact
<1>4. QED
  BY <1>1, <1>2, <1>3, PTL DEF Spec

-----------------------------------------------------------------------------
(***************************************************************************)
(* What the ledger says of an envelope, and what the disk holds besides:   *)
(* theorems that hold whatever several workers do to each other's files,   *)
(* and the refinement of IngestionLedger.                                  *)
(***************************************************************************)
(* A worker that has neither finished nor failed. *)
Working(w) == pc[w] \notin {"idle", "rollback"}

(* No slot has two names and no name two slots (seen_filenames). *)
OneNamePerSlot(w) ==
    \A r, s \in named[w] : r.name = s.name \/ r.slot = s.slot => r = s

(* What the staging loop has passed by is a signature image or has a name. *)
Accounted(w) ==
    /\ \A i \in Slots(msg[w]) :
         \/ pc[w] \in {"stage", "download"} /\ i \in pending[w]
         \/ Stub(msg[w], i).signature
         \/ \E r \in named[w] : r.slot = i
    /\ \A r \in named[w] : ~Stub(msg[w], r.slot).signature

(* It names a slot when it gets there. *)
StagedInOrder(w) ==
    /\ pc[w] \in {"stage", "download"} => recs[w] = {}
    /\ pc[w] = "stage" => \A r \in named[w] : r.slot \notin pending[w]
    /\ pc[w] = "download" =>
         \A r \in named[w] : r.slot \in pending[w] => Current(w, r.slot)

(* x is what the records should say of the named slot r. *)
RecordOf(w, r, x) ==
    /\ x.msg = msg[w] /\ x.slot = r.slot /\ x.data = Stub(msg[w], r.slot).data
    /\ x.original = Stub(msg[w], r.slot).original
    /\ x.path = IF x.status = "CLEAN" THEN InFolder(msg[w], r.name)
                ELSE InVault(x.data, r.name, "quarantine")

(* The inspection loop makes one record of each slot that it passes. *)
RecordedInOrder(w) ==
    /\ pc[w] \in {"inspect", "report", "sidecar", "commit"} =>
         \A r \in named[w] : r.slot \notin pending[w] => \E x \in recs[w] : RecordOf(w, r, x)
    /\ \A x \in recs[w] : \E r \in named[w] : r.slot \notin pending[w] /\ RecordOf(w, r, x)
    /\ \A x, y \in recs[w] : x.slot = y.slot => x = y
    /\ pc[w] \in {"sidecar", "commit"} => pending[w] = {}

Booked(w) == OneNamePerSlot(w) /\ Accounted(w) /\ StagedInOrder(w) /\ RecordedInOrder(w)

AllBooked == \A w \in Workers : Working(w) => Booked(w)

LedgerInv == TypeInv /\ LedgerAllOrNothing /\ AllBooked

-----------------------------------------------------------------------------
(* So what is booked of an envelope is its worker's business alone.        *)
LEMMA BookedIsLocal ==
    ASSUME NEW v \in Workers, SameLocals(v)
    PROVE  (Working(v) => Booked(v)) => (Working(v) => Booked(v))'
BY DEF SameLocals, Working, Booked, OneNamePerSlot, Accounted, StagedInOrder,
       RecordedInOrder, RecordOf, Current

(* The slot that a loop is at is one slot. *)
LEMMA CurrentUnique ==
    ASSUME TypeInv, NEW w \in Workers, NEW i, NEW j, Current(w, i), Current(w, j)
    PROVE  i = j
<1>1. i \in Nat /\ j \in Nat /\ i <= j /\ j <= i
  BY DEF Current, TypeInv, TypeOK
<1>2. QED
  BY <1>1

(* The name loop (engine.py 422-431) gives no name twice. *)
LEMMA NameIsNew ==
    ASSUME NEW w \in Workers, NEW n, NEW x \in Disambiguated(w, n)
    PROVE  x \notin Seen(w)
BY DEF Disambiguated, FreeSuffix

-----------------------------------------------------------------------------
(* One lemma per action that moves an envelope on. *)
LEMMA BeginBooked ==
    ASSUME TypeInv, NEW w \in Workers, NEW m \in Messages, Begin(w, m)
    PROVE  Booked(w)'
<1>1. /\ pc'[w] = "stage" /\ msg'[w] = m /\ pending'[w] = Slots(m)
      /\ named'[w] = {} /\ recs'[w] = {}
  BY DEF Begin, TypeInv, TypeOK
<1>2. QED
  BY <1>1 DEF Booked, OneNamePerSlot, Accounted, StagedInOrder, RecordedInOrder

(* A logo needs no name (engine.py 407-418). *)
LEMMA FilterBooked ==
    ASSUME TypeInv, NEW w \in Workers, Booked(w), FilterSignature(w)
    PROVE  Booked(w)'
<1>1. PICK i \in pending[w] :
        Stub(msg[w], i).signature /\ pending' = [pending EXCEPT ![w] = @ \ {i}]
  BY DEF FilterSignature
<1>2. /\ pc[w] = "stage" /\ pending'[w] = pending[w] \ {i}
      /\ UNCHANGED <<pc, msg, named, recs>>
  BY <1>1 DEF FilterSignature, TypeInv, TypeOK
<1>3. QED
  BY <1>1, <1>2 DEF Booked, OneNamePerSlot, Accounted, StagedInOrder, RecordedInOrder

(* The name chosen is new, and so is the slot (engine.py 420-434). *)
LEMMA ChooseNameBooked ==
    ASSUME TypeInv, NEW w \in Workers, Booked(w), ChooseName(w)
    PROVE  Booked(w)'
<1>1. PICK i \in pending[w] :
        /\ Current(w, i) /\ ~Stub(msg[w], i).signature
        /\ \E n \in Disambiguated(w, Stub(msg[w], i).name) :
             named' = [named EXCEPT ![w] = @ \cup {[slot |-> i, name |-> n]}]
  BY DEF ChooseName
<1>2. PICK n \in Disambiguated(w, Stub(msg[w], i).name) :
        named' = [named EXCEPT ![w] = @ \cup {[slot |-> i, name |-> n]}]
  BY <1>1
<1>3. /\ pc[w] = "stage" /\ pc'[w] = "download"
      /\ named'[w] = named[w] \cup {[slot |-> i, name |-> n]}
      /\ UNCHANGED <<msg, pending, recs>>
  BY <1>2 DEF ChooseName, TypeInv, TypeOK
<1>4. n \notin Seen(w)
  BY NameIsNew
<1>5. \A r \in named[w] : r.name # n /\ r.slot # i
  BY <1>3, <1>4 DEF Seen, Booked, StagedInOrder
<1>6. OneNamePerSlot(w)'
  BY <1>3, <1>5 DEF Booked, OneNamePerSlot
<1>7. Accounted(w)'
  BY <1>1, <1>3 DEF Booked, Accounted
<1>8. StagedInOrder(w)' /\ RecordedInOrder(w)'
  BY <1>1, <1>3 DEF Booked, StagedInOrder, RecordedInOrder, Current
<1>9. QED
  BY <1>6, <1>7, <1>8 DEF Booked

(* A download completes the slot that was named (engine.py 440-455). *)
LEMMA DownloadBooked ==
    ASSUME TypeInv, NEW w \in Workers, Booked(w), Download(w)
    PROVE  Booked(w)'
<1>1. PICK r \in named[w] :
        Current(w, r.slot) /\ pending' = [pending EXCEPT ![w] = @ \ {r.slot}]
  BY DEF Download
<1>2. /\ pc[w] = "download" /\ pc'[w] = "stage"
      /\ pending'[w] = pending[w] \ {r.slot}
      /\ UNCHANGED <<msg, named, recs>>
  BY <1>1 DEF Download, TypeInv, TypeOK
<1>3. \A s \in named[w] : s.slot \in pending[w] => s.slot = r.slot
  BY <1>1, <1>2, CurrentUnique DEF Booked, StagedInOrder
<1>4. StagedInOrder(w)' /\ RecordedInOrder(w)'
  BY <1>2, <1>3 DEF Booked, StagedInOrder, RecordedInOrder
<1>5. QED
  BY <1>2, <1>4 DEF Booked, OneNamePerSlot, Accounted

(* When the loop ends every attachment that is not a logo has a name. *)
LEMMA EndStagingBooked ==
    ASSUME TypeInv, NEW w \in Workers, Booked(w), EndStaging(w)
    PROVE  Booked(w)'
<1>1. /\ pc[w] = "stage" /\ pc'[w] = "inspect" /\ pending[w] = {}
      /\ pending'[w] = {r.slot : r \in named[w]}
      /\ UNCHANGED <<msg, named, recs>>
  BY DEF EndStaging, TypeInv, TypeOK
<1>2. QED
  BY <1>1 DEF Booked, OneNamePerSlot, Accounted, StagedInOrder, RecordedInOrder

(* One more attachment is recorded, under whichever verdict. *)
LEMMA RecordBooked ==
    ASSUME TypeInv, NEW w \in Workers, Booked(w), pc[w] \in {"inspect", "report"},
           pc'[w] = "inspect", NEW r \in named[w], r.slot \in pending[w],
           NEW x, RecordOf(w, r, x), recs'[w] = recs[w] \cup {x},
           pending'[w] = pending[w] \ {r.slot}, msg'[w] = msg[w], named'[w] = named[w]
    PROVE  Booked(w)'
<1>1. OneNamePerSlot(w)' /\ Accounted(w)' /\ StagedInOrder(w)'
  BY DEF Booked, OneNamePerSlot, Accounted, StagedInOrder
<1>2. \A s \in named[w] : \A y : RecordOf(w, s, y)' <=> RecordOf(w, s, y)
  BY DEF RecordOf
<1>3. \A s \in named[w] : s.slot = r.slot => s = r
  BY DEF Booked, OneNamePerSlot
<1>4. \A s \in named[w] : s.slot \notin pending'[w] => \E y \in recs'[w] : RecordOf(w, s, y)'
  BY <1>2, <1>3 DEF Booked, RecordedInOrder
<1>5. \A y \in recs'[w] : \E s \in named[w] : s.slot \notin pending'[w] /\ RecordOf(w, s, y)'
  BY <1>2 DEF Booked, RecordedInOrder
<1>6. \A y \in recs[w] : y.slot # x.slot
  BY DEF Booked, RecordedInOrder, RecordOf
<1>7. RecordedInOrder(w)'
  BY <1>4, <1>5, <1>6 DEF Booked, RecordedInOrder
<1>8. QED
  BY <1>1, <1>7 DEF Booked

(* The verdicts CLEAN and revision each make one record (engine.py         *)
(* 571-634).                                                               *)
LEMMA InspectBooked ==
    ASSUME TypeInv, NEW w \in Workers, Booked(w), InspectNew(w) \/ InspectRevision(w)
    PROVE  Booked(w)'
<1>1. PICK r, v :
        /\ r \in named[w]
        /\ Inspecting(w, r)
        /\ recs' = [recs EXCEPT ![w] = @ \cup
                     {Row(w, r, InFolder(msg[w], r.name), "CLEAN", v)}]
        /\ pending' = [pending EXCEPT ![w] = @ \ {r.slot}]
  BY DEF InspectNew, InspectRevision
<1> DEFINE x == Row(w, r, InFolder(msg[w], r.name), "CLEAN", v)
<1>2. /\ pc[w] = "inspect" /\ pc'[w] = "inspect" /\ r.slot \in pending[w]
      /\ recs'[w] = recs[w] \cup {x} /\ pending'[w] = pending[w] \ {r.slot}
      /\ msg' = msg /\ named' = named
  BY <1>1 DEF InspectNew, InspectRevision, Inspecting, Current, TypeInv, TypeOK
<1>3. RecordOf(w, r, x)
  BY DEF RecordOf, Row
<1>4. QED
  BY <1>1, <1>2, <1>3, RecordBooked

(* A quarantined attachment is recorded with its report (engine.py         *)
(* 518-569).                                                               *)
LEMMA WriteReportBooked ==
    ASSUME TypeInv, NEW w \in Workers, Booked(w), WriteReport(w)
    PROVE  Booked(w)'
<1> DEFINE x(r) == Row(w, r, InVault(Stub(msg[w], r.slot).data, r.name, "quarantine"),
                       "QUARANTINED", 1)
<1>1. PICK r \in named[w] :
        /\ Current(w, r.slot)
        /\ recs' = [recs EXCEPT ![w] = @ \cup {x(r)}]
        /\ pending' = [pending EXCEPT ![w] = @ \ {r.slot}]
  BY DEF WriteReport
<1>2. /\ pc[w] = "report" /\ pc'[w] = "inspect" /\ r.slot \in pending[w]
      /\ recs'[w] = recs[w] \cup {x(r)} /\ pending'[w] = pending[w] \ {r.slot}
      /\ msg' = msg /\ named' = named
  BY <1>1 DEF WriteReport, Current, TypeInv, TypeOK
<1>3. RecordOf(w, r, x(r))
  BY DEF RecordOf, Row
<1>4. QED
  BY <1>1, <1>2, <1>3, RecordBooked

(* The move to the vault and the sidecars change no record. *)
LEMMA NoRecordBooked ==
    ASSUME TypeInv, NEW w \in Workers, Booked(w),
           Quarantine(w) \/ WriteContextJson(w) \/ WriteContextMd(w)
    PROVE  Booked(w)'
<1>1. /\ UNCHANGED <<msg, pending, named, recs>>
      /\ \/ pc[w] = "inspect" /\ pc'[w] = "report"
         \/ pc[w] = "inspect" /\ pc'[w] = "sidecar" /\ pending[w] = {}
         \/ pc[w] = "sidecar" /\ pc'[w] = "commit"
  BY DEF Quarantine, Inspecting, WriteContextJson, WriteContextMd, SidecarStep, TypeInv, TypeOK
<1>2. RecordedInOrder(w)'
  BY <1>1 DEF Booked, RecordedInOrder, RecordOf
<1>3. QED
  BY <1>1, <1>2 DEF Booked, OneNamePerSlot, Accounted, StagedInOrder

(* Every step keeps the books of every worker. *)
LEMMA StepBooked ==
    ASSUME TypeInv, AllBooked, NEW w \in Workers, StepOf(w)
    PROVE  AllBooked'
<1>1. ASSUME NEW v \in Workers, v # w PROVE (Working(v) => Booked(v))'
  BY <1>1, OthersKeepTheirs, BookedIsLocal DEF AllBooked
<1>2. ASSUME Working(w)' PROVE Booked(w)'
  <2>1. CASE \E m \in Messages : Begin(w, m)
    BY <2>1, BeginBooked
  <2>2. ASSUME ~(\E m \in Messages : Begin(w, m)) PROVE Working(w) /\ Step(w)
    BY <1>2, <2>2 DEF StepOf, Step, Working, FilterSignature, ChooseName, Download,
       DownloadTooLarge, EndStaging, InspectNew, InspectRevision, Quarantine, WriteReport,
       InspectMissing, Inspecting, WriteContextJson, WriteContextMd, SidecarStep, Commit,
       CommitConflict, Sweep, EndRollback, Raise, Crash, TypeInv, TypeOK
  <2>3. CASE Working(w) /\ Step(w)
    <3>1. Booked(w)
      BY <2>3 DEF AllBooked
    <3>2. ~(DownloadTooLarge(w) \/ InspectMissing(w) \/ Commit(w) \/ CommitConflict(w)
            \/ Sweep(w) \/ EndRollback(w))
      BY <1>2, <2>3 DEF Working, DownloadTooLarge, InspectMissing, Commit, CommitConflict,
         Sweep, EndRollback, TypeInv, TypeOK
    <3>3. QED
      BY <2>3, <3>1, <3>2, FilterBooked, ChooseNameBooked, DownloadBooked, EndStagingBooked,
         InspectBooked, WriteReportBooked, NoRecordBooked DEF Step
  <2>4. QED
    BY <2>1, <2>2, <2>3
<1>3. QED
  BY <1>1, <1>2 DEF AllBooked

-----------------------------------------------------------------------------
(* When an envelope is committed its records are its attachments, one for  *)
(* each, and no two have one file.                                         *)
LEMMA RecordsComplete ==
    ASSUME TypeInv, NEW w \in Workers, Booked(w), pc[w] = "commit"
    PROVE  /\ \A x \in recs[w] : x.msg = msg[w]
           /\ {[slot |-> x.slot, data |-> x.data] : x \in recs[w]} = Deliverable(msg[w])
           /\ \A x, y \in recs[w] :
                (x.slot = y.slot \/ (x.path = y.path /\ x.status = "CLEAN")) => x = y
<1>1. ASSUME NEW x \in recs[w]
      PROVE  /\ x.msg = msg[w]
             /\ [slot |-> x.slot, data |-> x.data] \in Deliverable(msg[w])
  <2>1. PICK r \in named[w] : RecordOf(w, r, x)
    BY DEF Booked, RecordedInOrder
  <2>2. r.slot \in Slots(msg[w]) /\ ~Stub(msg[w], r.slot).signature
    BY NamedTyped DEF Booked, Accounted
  <2>3. QED
    BY <2>1, <2>2 DEF RecordOf, Deliverable
<1>2. ASSUME NEW e \in Deliverable(msg[w])
      PROVE  \E x \in recs[w] : e = [slot |-> x.slot, data |-> x.data]
  <2>1. PICK i \in Slots(msg[w]) : /\ ~Stub(msg[w], i).signature
                                   /\ e = [slot |-> i, data |-> Stub(msg[w], i).data]
    BY DEF Deliverable
  <2>2. PICK r \in named[w] : r.slot = i
    BY <2>1 DEF Booked, Accounted
  <2>3. PICK x \in recs[w] : RecordOf(w, r, x)
    BY DEF Booked, RecordedInOrder
  <2>4. QED
    BY <2>1, <2>2, <2>3 DEF RecordOf
<1>3. ASSUME NEW x \in recs[w], NEW y \in recs[w], x.path = y.path, x.status = "CLEAN"
      PROVE  x = y
  <2>1. PICK r \in named[w] : RecordOf(w, r, x)
    BY DEF Booked, RecordedInOrder
  <2>2. PICK s \in named[w] : RecordOf(w, s, y)
    BY DEF Booked, RecordedInOrder
  <2>3. msg[w] # Vault
    BY DistinctAssumption DEF TypeInv, TypeOK
  <2>4. \A n : InFolder(msg[w], n).dir = msg[w] /\ InFolder(msg[w], n).name = n
    BY DEF InFolder
  <2>a. \A d, n, e : InVault(d, n, e).dir = Vault
    BY DEF InVault
  <2>b. x.path = InFolder(msg[w], r.name)
    BY <1>3, <2>1 DEF RecordOf
  <2>c. y.path = InFolder(msg[w], s.name) \/ y.path = InVault(y.data, s.name, "quarantine")
    BY <2>2 DEF RecordOf
  <2>d. y.path.dir = msg[w]
    BY <1>3, <2>b, <2>4
  <2>e. y.path = InFolder(msg[w], s.name)
    BY <2>3, <2>a, <2>c, <2>d
  <2>5. r.name = s.name
    BY <1>3, <2>b, <2>e, <2>4
  <2>6. x.slot = y.slot
    BY <2>1, <2>2, <2>5 DEF RecordOf, Booked, OneNamePerSlot
  <2>7. QED
    BY <2>6 DEF Booked, RecordedInOrder
<1>4. \A x, y \in recs[w] : x.slot = y.slot => x = y
  BY DEF Booked, RecordedInOrder
<1>5. {[slot |-> x.slot, data |-> x.data] : x \in recs[w]} = Deliverable(msg[w])
  BY <1>1, <1>2
<1>6. QED
  BY <1>1, <1>3, <1>4, <1>5

(* The slots and data that the rows of a message record. *)
Delivered(m) == {[slot |-> r.slot, data |-> r.data] : r \in RowsOf(m)}

(* A commit enters all the records of one message, which had none.         *)
LEMMA CommitAllOrNothing ==
    ASSUME LedgerInv, NEW w \in Workers, Commit(w)
    PROVE  LedgerAllOrNothing'
<1>1. /\ pc[w] = "commit" /\ msg[w] \notin ledger /\ Booked(w)
      /\ ledger' = ledger \cup {msg[w]} /\ rows' = rows \cup recs[w] /\ msg' = msg
  BY DEF Commit, LedgerInv, AllBooked, Working
<1>2. /\ \A x \in recs[w] : x.msg = msg[w]
      /\ {[slot |-> x.slot, data |-> x.data] : x \in recs[w]} = Deliverable(msg[w])
      /\ \A x, y \in recs[w] :
           (x.slot = y.slot \/ (x.path = y.path /\ x.status = "CLEAN")) => x = y
  BY <1>1, RecordsComplete DEF LedgerInv
<1>3. msg[w] \in Messages
  BY DEF LedgerInv, TypeInv, TypeOK
<1>4. RowsOf(msg[w]) = {}
  <2>1. Delivered(msg[w]) = {}
    BY <1>1, <1>3 DEF LedgerInv, LedgerAllOrNothing, Delivered
  <2>2. \A r \in RowsOf(msg[w]) : [slot |-> r.slot, data |-> r.data] \in Delivered(msg[w])
    BY DEF Delivered
  <2>3. QED
    BY <2>1, <2>2
<1>5. RowsOf(msg[w])' = recs[w]
  BY <1>1, <1>2, <1>4 DEF RowsOf
<1>6. ASSUME NEW m \in Messages, m # msg[w]
      PROVE  RowsOf(m)' = RowsOf(m) /\ (m \in ledger' <=> m \in ledger)
  BY <1>1, <1>2, <1>6 DEF RowsOf
<1>7. ASSUME NEW m \in Messages
      PROVE  /\ Delivered(m)' = (IF m \in ledger' THEN Deliverable(m) ELSE {})
             /\ \A r, s \in RowsOf(m)' :
                  (r.slot = s.slot \/ (r.path = s.path /\ r.status = "CLEAN")) => r = s
  <2>1. CASE m = msg[w]
    BY <1>1, <1>2, <1>5, <2>1 DEF Delivered
  <2>2. CASE m # msg[w]
    BY <1>6, <2>2 DEF Delivered, LedgerInv, LedgerAllOrNothing
  <2>3. QED
    BY <2>1, <2>2
<1>8. QED
  BY <1>7 DEF LedgerAllOrNothing, Delivered, Deliverable

(* Only a commit writes the ledger and its rows.                           *)
LEMMA CommitsOnly ==
    ASSUME NEW w \in Workers, StepOf(w), ~Commit(w)
    PROVE  UNCHANGED <<ledger, rows>>
BY DEF StepOf, Step, Begin, FilterSignature, ChooseName, Download, DownloadTooLarge,
       EndStaging, InspectNew, InspectRevision, Quarantine, WriteReport, InspectMissing,
       WriteContextJson, WriteContextMd, SidecarStep, CommitConflict, Sweep, EndRollback,
       Raise, Crash, shared

(* With nothing on disk and no rows the inductive invariant holds.         *)
LEMMA InitLedger == Init => LedgerInv
<1> SUFFICES ASSUME Init PROVE LedgerInv
  OBVIOUS
<1>1. \A m \in Messages : RowsOf(m) = {} /\ m \notin ledger
  BY DEF Init, RowsOf
<1>2. LedgerAllOrNothing
  BY <1>1 DEF LedgerAllOrNothing
<1>3. AllBooked
  BY DEF Init, AllBooked, Working
<1>4. QED
  BY <1>2, <1>3, InitTypeInv DEF LedgerInv

(* Every step keeps it: books are a worker's own, and a commit enters all  *)
(* the records or none.                                                    *)
LEMMA StepLedger == LedgerInv /\ [Next]_vars => LedgerInv'
<1> SUFFICES ASSUME LedgerInv, [Next]_vars PROVE LedgerInv'
  OBVIOUS
<1>1. TypeInv /\ TypeInv'
  BY StepTyped DEF LedgerInv
<1>2. ASSUME NEW w \in Workers, StepOf(w) PROVE LedgerInv'
  <2>1. AllBooked'
    BY <1>1, <1>2, StepBooked DEF LedgerInv
  <2>2. LedgerAllOrNothing'
    <3>1. CASE Commit(w)
      BY <3>1, CommitAllOrNothing
    <3>2. CASE ~Commit(w)
      BY <1>2, <3>2, CommitsOnly DEF LedgerInv, LedgerAllOrNothing, RowsOf
    <3>3. QED
      BY <3>1, <3>2
  <2>3. QED
    BY <1>1, <2>1, <2>2 DEF LedgerInv
<1>3. CASE UNCHANGED vars
  <2>1. \A w \in Workers : SameLocals(w)
    BY <1>3 DEF vars, SameLocals
  <2>2. AllBooked'
    BY <2>1, BookedIsLocal DEF LedgerInv, AllBooked
  <2>3. LedgerAllOrNothing'
    BY <1>3 DEF vars, LedgerInv, LedgerAllOrNothing, RowsOf
  <2>4. QED
    BY <1>1, <2>2, <2>3 DEF LedgerInv
<1>4. QED
  BY <1>2, <1>3 DEF Next, StepOf

(* Whatever the workers do to each other: a message of the ledger has      *)
(* exactly one row per attachment that is not a signature image, with the  *)
(* hash of what that attachment holds, no two delivered under one name,    *)
(* and no other message has a row (engine.py 422-432, 611-634, 661-689).   *)
THEOREM LedgerIsAllOrNothing == Spec => []LedgerAllOrNothing
<1>1. Spec => []LedgerInv
  BY InitLedger, StepLedger, PTL DEF Spec
<1>2. LedgerInv => LedgerAllOrNothing
  BY DEF LedgerInv
<1>3. QED
  BY <1>1, <1>2, PTL

-----------------------------------------------------------------------------
(***************************************************************************)
(* Whose every downloaded byte is.  A file with an attachment's bytes that *)
(* no row names is answered for by a worker, which remembers to unlink it  *)
(* in a rollback and otherwise has yet to inspect it or has recorded it.   *)
(***************************************************************************)

(* p is where w has staged an attachment that it has not inspected yet. *)
Staged(w, p) ==
    \E r \in named[w] :
        /\ p = InFolder(msg[w], r.name)
        /\ \/ pc[w] \in {"stage", "download"}
           \/ pc[w] = "inspect" /\ r.slot \in pending[w]
           \/ pc[w] = "report" /\ r.slot \in pending[w] /\ ~Current(w, r.slot)

(* The attachment at p is in the records, or about to be.               *)
Recorded(w, p) ==
    \/ Working(w) /\ \E x \in recs[w] : x.path = p
    \/ \E r \in named[w] : /\ pc[w] = "report" /\ Current(w, r.slot)
                           /\ p = InVault(Stub(msg[w], r.slot).data, r.name, "quarantine")

Confines(w, p) == p \in created[w] /\ (pc[w] = "rollback" \/ Staged(w, p))

Answers(w, p) == Confines(w, p) \/ (p \in created[w] /\ Recorded(w, p))

AllAnsweredFor ==
    \A f \in disk : f.data \in Payloads =>
        \/ f.path \in orphans
        \/ \E r \in rows : r.path = f.path
        \/ \E w \in Workers : Answers(w, f.path)

(* A threat in a delivery folder has not been inspected: it is answered    *)
(* for by a worker that has not recorded it.                               *)
ThreatsConfined == QuarantineOnMismatch =>
    \A f \in disk : (f.data \in Threats /\ f.path.dir # Vault) =>
        \/ f.path \in orphans
        \/ \E w \in Workers : Confines(w, f.path)

SweptInv == LedgerInv /\ AllAnsweredFor /\ ThreatsConfined

(* The other workers go on answering for what they did.                    *)
LEMMA OthersAnswer ==
    ASSUME NEW v \in Workers, SameLocals(v), NEW p
    PROVE  (Answers(v, p)' <=> Answers(v, p)) /\ (Confines(v, p)' <=> Confines(v, p))
BY DEF SameLocals, Answers, Confines, Staged, Recorded, Working, Current

(* w answers for what it puts on the disk: in the vault it may have        *)
(* inspected it already.                                                   *)
TakesOver(w, p) == Confines(w, p) \/ (p.dir = Vault /\ Answers(w, p))

(* So it is enough that a step's worker answers for what is new, and goes  *)
(* on answering for the rest, or leaves it to the rows or the orphans.     *)
LEMMA AnswersSuffice ==
    ASSUME SweptInv, NEW w \in Workers, StepOf(w),
           \A f \in disk' : f \in disk \/ f.data \notin Payloads \/ TakesOver(w, f.path)',
           \A f \in disk' : f.path \in orphans => f.path \in orphans' \/ TakesOver(w, f.path)',
           \A f \in disk' : Answers(w, f.path) =>
               \/ Answers(w, f.path)' \/ f.path \in orphans'
               \/ \E r \in rows' : r.path = f.path,
           \A f \in disk' : Confines(w, f.path) =>
               \/ Confines(w, f.path)' \/ f.path \in orphans'
               \/ QuarantineOnMismatch => f.data \notin Threats
    PROVE  AllAnsweredFor' /\ ThreatsConfined'
<1>1. TypeInv
  BY DEF SweptInv, LedgerInv
<1>2. rows \subseteq rows'
  BY CommitsOnly DEF Commit
<1>3. \A v \in Workers : \A p : v # w =>
          (Answers(v, p)' <=> Answers(v, p)) /\ (Confines(v, p)' <=> Confines(v, p))
  BY <1>1, OthersKeepTheirs, OthersAnswer
<1>4. \A p : TakesOver(w, p)' => Answers(w, p)'
  BY DEF TakesOver, Answers
<1>5. AllAnsweredFor'
  <2>1. SUFFICES ASSUME NEW f \in disk', f.data \in Payloads,
                        ~Answers(w, f.path)', f.path \notin orphans'
                 PROVE  \/ \E r \in rows' : r.path = f.path
                        \/ \E v \in Workers : Answers(v, f.path)'
    BY DEF AllAnsweredFor
  <2>2. f \in disk /\ f.path \notin orphans
    BY <1>4, <2>1
  <2>3. CASE \E r \in rows : r.path = f.path
    BY <1>2, <2>3
  <2>4. CASE \E v \in Workers : Answers(v, f.path)
    BY <1>3, <2>1, <2>4
  <2>5. QED
    BY <2>1, <2>2, <2>3, <2>4 DEF SweptInv, AllAnsweredFor
<1>6. ThreatsConfined'
  <2>1. SUFFICES ASSUME QuarantineOnMismatch, NEW f \in disk', f.data \in Threats,
                        f.path.dir # Vault, ~Confines(w, f.path)', f.path \notin orphans'
                 PROVE  \E v \in Workers : Confines(v, f.path)'
    BY DEF ThreatsConfined
  <2>2. f.data \in Payloads
    BY <2>1, AttachmentsAssumption
  <2>3. f \in disk /\ f.path \notin orphans
    BY <2>1, <2>2 DEF TakesOver
  <2>4. PICK v \in Workers : Confines(v, f.path)
    BY <2>1, <2>3 DEF SweptInv, ThreatsConfined
  <2>5. QED
    BY <1>3, <2>1, <2>4
<1>7. QED
  BY <1>5, <1>6

(* Steps that leave the disk and what is remembered alone.                 *)
LEMMA QuietSwept ==
    ASSUME SweptInv, NEW w \in Workers,
           (\E m \in Messages : Begin(w, m)) \/ FilterSignature(w) \/ ChooseName(w)
             \/ DownloadTooLarge(w) \/ EndStaging(w) \/ InspectMissing(w)
             \/ CommitConflict(w) \/ EndRollback(w) \/ Raise(w)
    PROVE  AllAnsweredFor' /\ ThreatsConfined'
<1>1. TypeOK /\ (Working(w) => Booked(w))
  BY DEF SweptInv, LedgerInv, AllBooked, TypeInv
<1>2. disk' = disk /\ orphans' = orphans /\ rows' = rows
  BY DEF Begin, FilterSignature, ChooseName, DownloadTooLarge, EndStaging, InspectMissing,
     CommitConflict, EndRollback, Raise, shared, history
<1>3. ASSUME NEW p, Answers(w, p) PROVE Confines(w, p)' /\ Answers(w, p)'
  <2>1. CASE (\E m \in Messages : Begin(w, m)) \/ EndRollback(w)
    BY <1>3, <2>1 DEF Begin, EndRollback, Answers, Confines, Staged, Recorded, Working
  <2>2. CASE DownloadTooLarge(w) \/ InspectMissing(w) \/ CommitConflict(w) \/ Raise(w)
    BY <1>1, <1>3, <2>2 DEF DownloadTooLarge, InspectMissing, CommitConflict, Raise,
       Answers, Confines, TypeOK
  <2>3. CASE FilterSignature(w)
    BY <1>1, <1>3, <2>3 DEF FilterSignature, Answers, Confines, Staged, Recorded, Working,
       Booked, StagedInOrder, TypeOK
  <2>4. CASE ChooseName(w)
    <3>1. /\ pc[w] = "stage" /\ pc'[w] = "download" /\ named[w] \subseteq named'[w]
          /\ msg' = msg /\ created' = created
      BY <1>1, <2>4 DEF ChooseName, TypeOK
    <3>2. QED
      BY <1>1, <1>3, <3>1 DEF Answers, Confines, Staged, Recorded, Working, Booked, StagedInOrder
  <2>5. CASE EndStaging(w)
    <3>1. /\ pc[w] = "stage" /\ pc'[w] = "inspect" /\ pending'[w] = {r.slot : r \in named[w]}
          /\ msg' = msg /\ created' = created /\ named' = named
      BY <1>1, <2>5 DEF EndStaging, TypeOK
    <3>2. QED
      BY <1>1, <1>3, <3>1 DEF Answers, Confines, Staged, Recorded, Working, Booked, StagedInOrder
  <2>6. QED
    BY <2>1, <2>2, <2>3, <2>4, <2>5
<1>4. StepOf(w)
  BY DEF StepOf, Step
<1>5. \A p : Confines(w, p) => Answers(w, p)
  BY DEF Answers
<1>6. QED
  BY <1>2, <1>3, <1>4, <1>5, AnswersSuffice

(* A download is remembered as soon as it is there (engine.py 440-447).    *)
LEMMA DownloadSwept ==
    ASSUME SweptInv, NEW w \in Workers, Download(w)
    PROVE  AllAnsweredFor' /\ ThreatsConfined'
<1>1. TypeOK /\ Booked(w)
  BY DEF SweptInv, LedgerInv, AllBooked, TypeInv, Working, Download
<1>2. PICK r \in named[w] :
        /\ disk' = Put(disk, InFolder(msg[w], r.name), Stub(msg[w], r.slot).data)
        /\ created' = [created EXCEPT ![w] = @ \cup {InFolder(msg[w], r.name)}]
        /\ orphans' = orphans \ {InFolder(msg[w], r.name)}
  BY DEF Download
<1> DEFINE p == InFolder(msg[w], r.name)
<1>3. /\ pc[w] = "download" /\ pc'[w] = "stage" /\ msg' = msg /\ named' = named
      /\ created'[w] = created[w] \cup {p}
  BY <1>1, <1>2 DEF Download, TypeOK
<1>4. \A x : x = p => Confines(w, x)'
  BY <1>3 DEF Confines, Staged
<1>5. \A x : Answers(w, x) => Confines(w, x)'
  BY <1>1, <1>3 DEF Answers, Confines, Staged, Recorded, Working, Booked, StagedInOrder
<1>6. \A f \in disk' : f \in disk \/ f.path = p
  BY <1>2 DEF Put
<1>7. StepOf(w)
  BY DEF StepOf, Step
<1>8. \A x : Confines(w, x) => Answers(w, x)
  BY DEF Answers
<1>9. \A x : Confines(w, x)' => Answers(w, x)' /\ TakesOver(w, x)'
  BY DEF Answers, TakesOver
<1>10. \A f \in disk' : f \in disk \/ f.data \notin Payloads \/ TakesOver(w, f.path)'
  BY <1>4, <1>6, <1>9
<1>11. \A f \in disk' : f.path \in orphans => f.path \in orphans' \/ TakesOver(w, f.path)'
  BY <1>2, <1>4, <1>9
<1>12. QED
  BY <1>5, <1>7, <1>8, <1>9, <1>10, <1>11, AnswersSuffice

(* A file that passes is no threat, and the step records it (engine.py     *)
(* 478-634); a diff holds no attachment.                                   *)
LEMMA InspectSwept ==
    ASSUME SweptInv, NEW w \in Workers, InspectNew(w) \/ InspectRevision(w)
    PROVE  AllAnsweredFor' /\ ThreatsConfined'
<1>1. TypeOK /\ Booked(w)
  BY DEF SweptInv, LedgerInv, AllBooked, TypeInv, Working, InspectNew, InspectRevision, Inspecting
<1>2. PICK r, v :
        /\ r \in named[w]
        /\ Inspecting(w, r)
        /\ Passes(InFolder(msg[w], r.name))
        /\ recs' = [recs EXCEPT ![w] = @ \cup
                     {Row(w, r, InFolder(msg[w], r.name), "CLEAN", v)}]
        /\ pending' = [pending EXCEPT ![w] = @ \ {r.slot}]
        /\ \/ created' = created
           \/ created' = [created EXCEPT ![w] = @ \cup {DiffPath(msg[w], r.name)}]
        /\ UNCHANGED <<pc, msg, named, orphans>>
  BY DEF InspectNew, InspectRevision, history
<1> DEFINE p == InFolder(msg[w], r.name)
<1>3. /\ pc[w] = "inspect" /\ pc'[w] = "inspect" /\ msg' = msg /\ named' = named
      /\ pending'[w] = pending[w] \ {r.slot} /\ created[w] \subseteq created'[w]
      /\ recs'[w] = recs[w] \cup {Row(w, r, p, "CLEAN", v)}
      /\ orphans' = orphans
  BY <1>1, <1>2 DEF Inspecting, TypeOK
<1>4. \A s \in named[w] : s.slot = r.slot => s = r
  BY <1>1, <1>2 DEF Booked, OneNamePerSlot
<1>5. \A x : Confines(w, x) => Confines(w, x)' \/ x = p
  BY <1>3, <1>4 DEF Confines, Staged
<1>6. \A x : Recorded(w, x) => Recorded(w, x)'
  BY <1>3 DEF Recorded, Working
<1>7. \A x : x = p => Recorded(w, x)'
  <2>1. Row(w, r, p, "CLEAN", v) \in recs'[w] /\ Row(w, r, p, "CLEAN", v).path = p
    BY <1>3 DEF Row
  <2>2. QED
    BY <1>3, <2>1 DEF Recorded, Working
<1>8. \A x : Answers(w, x) => Answers(w, x)'
  BY <1>3, <1>5, <1>6, <1>7 DEF Answers, Confines
<1>9. \A f \in disk' : f \in disk \/ f.data = Diff
  BY DEF InspectNew, InspectRevision, shared, Put
<1>10. \A f \in disk' : f \in disk \/ f.data \notin Payloads
  BY <1>9, DistinctAssumption
<1>11. \A f \in disk' : f.path = p /\ QuarantineOnMismatch => f.data \notin Threats
  <2>1. SUFFICES ASSUME NEW f \in disk', f.path = p, QuarantineOnMismatch, f.data \in Threats
                 PROVE  FALSE
    OBVIOUS
  <2>2. f \in disk
    BY <1>10, <2>1, AttachmentsAssumption
  <2>3. QED
    BY <1>2, <2>1, <2>2 DEF Passes, Threatening, At
<1>12. \A f \in disk' : Confines(w, f.path) =>
         \/ Confines(w, f.path)' \/ f.path \in orphans'
         \/ QuarantineOnMismatch => f.data \notin Threats
  BY <1>5, <1>11
<1>13. StepOf(w)
  BY DEF StepOf, Step
<1>14. QED
  BY <1>3, <1>8, <1>10, <1>12, <1>13, AnswersSuffice

(* The move to the vault takes the file out of the folder, and the vault   *)
(* path is remembered instead (engine.py 494-516).                         *)
LEMMA QuarantineSwept ==
    ASSUME SweptInv, NEW w \in Workers, Quarantine(w)
    PROVE  AllAnsweredFor' /\ ThreatsConfined'
<1>1. TypeOK /\ TypeInv /\ Booked(w)
  BY DEF SweptInv, LedgerInv, AllBooked, TypeInv, Working, Quarantine, Inspecting
<1> DEFINE P(r) == InFolder(msg[w], r.name)
           Q(r) == InVault(Stub(msg[w], r.slot).data, r.name, "quarantine")
<1>2. PICK r \in named[w] :
        /\ Inspecting(w, r)
        /\ disk' = Rename(disk, P(r), Q(r))
        /\ created' = [created EXCEPT ![w] = (@ \ {P(r)}) \cup {Q(r)}]
        /\ orphans' = orphans \ {Q(r)}
  BY DEF Quarantine
<1>3. /\ pc[w] = "inspect" /\ pc'[w] = "report"
      /\ created'[w] = (created[w] \ {P(r)}) \cup {Q(r)}
      /\ UNCHANGED <<msg, named, pending, recs>>
  BY <1>1, <1>2 DEF Quarantine, Inspecting, TypeOK
<1>4. msg[w] # Vault
  BY <1>1, DistinctAssumption DEF TypeOK
<1>5. Q(r).dir = Vault /\ P(r).dir = msg[w]
  BY DEF InFolder, InVault
<1>6. \A f \in disk' : (f \in disk /\ f.path # P(r)) \/ f.path = Q(r)
  BY <1>2 DEF Rename, At
<1>7. \A s \in named[w] : s.slot \in pending[w] /\ P(s) # P(r) => ~Current(w, s.slot)
  BY <1>1, <1>2, CurrentUnique DEF Inspecting, Booked, OneNamePerSlot
<1>8. \A x : Confines(w, x) => Confines(w, x)' \/ x = P(r)
  BY <1>3, <1>7 DEF Confines, Staged, Current
<1>9. \A x : x # P(r) => (Answers(w, x) => Answers(w, x)')
  BY <1>3, <1>8 DEF Answers, Recorded, Working
<1>10. Current(w, r.slot)
  BY <1>2 DEF Inspecting
<1>11. \A x : x = Q(r) => TakesOver(w, x)'
  BY <1>3, <1>5, <1>10 DEF TakesOver, Answers, Recorded, Current
<1>12. P(r) # Q(r)
  BY <1>4, <1>5
<1>13. \A f \in disk' : f.path # P(r)
  BY <1>6, <1>12
<1>14. StepOf(w)
  BY DEF StepOf, Step
<1>15. \A f \in disk' : f \in disk \/ f.data \notin Payloads \/ TakesOver(w, f.path)'
  BY <1>6, <1>11
<1>16. \A f \in disk' : f.path \in orphans => f.path \in orphans' \/ TakesOver(w, f.path)'
  BY <1>2, <1>11
<1>17. QED
  BY <1>8, <1>9, <1>13, <1>14, <1>15, <1>16, AnswersSuffice

(* The report is no attachment, and its step records the one in the vault  *)
(* (engine.py 518-569).                                                    *)
LEMMA WriteReportSwept ==
    ASSUME SweptInv, NEW w \in Workers, WriteReport(w)
    PROVE  AllAnsweredFor' /\ ThreatsConfined'
<1>1. TypeOK /\ TypeInv /\ Booked(w)
  BY DEF SweptInv, LedgerInv, AllBooked, TypeInv, Working, WriteReport
<1> DEFINE Q(r) == InVault(Stub(msg[w], r.slot).data, r.name, "quarantine")
<1>2. PICK r \in named[w] :
        /\ Current(w, r.slot)
        /\ disk' = Put(disk, InVault(Stub(msg[w], r.slot).data, r.name, "report.md"), Report)
        /\ created' = [created EXCEPT ![w] = @ \cup
                        {InVault(Stub(msg[w], r.slot).data, r.name, "report.md")}]
        /\ recs' = [recs EXCEPT ![w] = @ \cup {Row(w, r, Q(r), "QUARANTINED", 1)}]
        /\ pending' = [pending EXCEPT ![w] = @ \ {r.slot}]
  BY DEF WriteReport
<1>3. /\ pc[w] = "report" /\ pc'[w] = "inspect" /\ msg' = msg /\ named' = named
      /\ pending'[w] = pending[w] \ {r.slot} /\ created[w] \subseteq created'[w]
      /\ recs'[w] = recs[w] \cup {Row(w, r, Q(r), "QUARANTINED", 1)}
      /\ orphans' = orphans
  BY <1>1, <1>2 DEF WriteReport, TypeOK, history
<1>4. \A s \in named[w] : Current(w, s.slot) => s = r
  BY <1>1, <1>2, CurrentUnique DEF Booked, OneNamePerSlot
<1>5. \A x : Confines(w, x) => Confines(w, x)'
  BY <1>2, <1>3 DEF Confines, Staged
<1>6. \A x : x = Q(r) => Recorded(w, x)'
  <2>1. Row(w, r, Q(r), "QUARANTINED", 1) \in recs'[w]
        /\ Row(w, r, Q(r), "QUARANTINED", 1).path = Q(r)
    BY <1>3 DEF Row
  <2>2. QED
    BY <1>3, <2>1 DEF Recorded, Working
<1>7. \A x : Recorded(w, x) => Recorded(w, x)'
  BY <1>3, <1>4, <1>6 DEF Recorded, Working
<1>8. \A x : Answers(w, x) => Answers(w, x)'
  BY <1>3, <1>5, <1>7 DEF Answers
<1>9. \A f \in disk' : f \in disk \/ f.data \notin Payloads
  BY <1>2, DistinctAssumption DEF Put
<1>10. StepOf(w)
  BY DEF StepOf, Step
<1>11. QED
  BY <1>3, <1>5, <1>8, <1>9, <1>10, AnswersSuffice

(* When the sidecars are written everything is recorded.                   *)
LEMMA SidecarSwept ==
    ASSUME SweptInv, NEW w \in Workers, WriteContextJson(w) \/ WriteContextMd(w)
    PROVE  AllAnsweredFor' /\ ThreatsConfined'
<1>1. TypeOK
  BY DEF SweptInv, LedgerInv, TypeInv
<1>2. /\ pc[w] \in {"inspect", "sidecar"} /\ pc'[w] \in {"sidecar", "commit"}
      /\ pc[w] = "inspect" => pending[w] = {}
      /\ UNCHANGED <<msg, pending, named, created, recs, orphans>>
  BY <1>1 DEF WriteContextJson, WriteContextMd, SidecarStep, history, TypeOK
<1>3. \A x : ~Confines(w, x)
  BY <1>2 DEF Confines, Staged
<1>4. \A x : Answers(w, x) => Answers(w, x)'
  BY <1>2, <1>3 DEF Answers, Recorded, Working
<1>5. \A f \in disk' : f \in disk \/ f.data \notin Payloads
  BY DistinctAssumption DEF WriteContextJson, WriteContextMd, SidecarStep, Put
<1>6. StepOf(w)
  BY DEF StepOf, Step
<1>7. QED
  BY <1>2, <1>3, <1>4, <1>5, <1>6, AnswersSuffice

(* What a worker answered for is named by its rows after the commit, gone  *)
(* after the rollback, and an orphan after a crash.                        *)
LEMMA EndSwept ==
    ASSUME SweptInv, NEW w \in Workers, Commit(w) \/ Sweep(w) \/ Crash(w)
    PROVE  AllAnsweredFor' /\ ThreatsConfined'
<1>1. TypeOK
  BY DEF SweptInv, LedgerInv, TypeInv
<1>2. disk' \subseteq disk /\ orphans \subseteq orphans'
  BY DEF Commit, Sweep, Crash, Drop, shared, history
<1>3. CASE Commit(w)
  <2>1. \A x : Answers(w, x) => ~Confines(w, x) /\ \E r \in rows' : r.path = x
    BY <1>3 DEF Commit, Answers, Confines, Staged, Recorded
  <2>2. StepOf(w)
    BY <1>3 DEF StepOf, Step
  <2>3. QED
    BY <1>2, <2>1, <2>2, AnswersSuffice DEF Answers
<1>4. CASE Sweep(w)
  <2>1. PICK p \in created[w] : /\ disk' = Drop(disk, p)
                                /\ created' = [created EXCEPT ![w] = @ \ {p}]
    BY <1>4 DEF Sweep
  <2>2. /\ pc[w] = "rollback" /\ pc' = pc /\ created'[w] = created[w] \ {p}
    BY <1>1, <1>4, <2>1 DEF Sweep, TypeOK
  <2>3. \A f \in disk' : Answers(w, f.path) => Confines(w, f.path)' /\ Answers(w, f.path)'
    BY <2>1, <2>2 DEF Answers, Confines, Drop
  <2>4. StepOf(w)
    BY <1>4 DEF StepOf, Step
  <2>5. QED
    BY <1>2, <2>3, <2>4, AnswersSuffice DEF Answers
<1>5. CASE Crash(w)
  <2>1. \A x : Answers(w, x) => x \in orphans'
    BY <1>5 DEF Crash, Answers, Confines
  <2>2. StepOf(w)
    BY <1>5 DEF StepOf
  <2>3. QED
    BY <1>2, <2>1, <2>2, AnswersSuffice DEF Answers
<1>6. QED
  BY <1>3, <1>4, <1>5

(* With nothing on disk and no rows the inductive invariant holds.         *)
LEMMA InitSwept == Init => SweptInv
BY InitLedger DEF Init, SweptInv, AllAnsweredFor, ThreatsConfined

(* Every step of every worker keeps it.                                    *)
LEMMA StepSwept == SweptInv /\ [Next]_vars => SweptInv'
<1> SUFFICES ASSUME SweptInv, [Next]_vars PROVE SweptInv'
  OBVIOUS
<1>1. LedgerInv'
  BY StepLedger DEF SweptInv
<1>2. ASSUME NEW w \in Workers, StepOf(w) PROVE AllAnsweredFor' /\ ThreatsConfined'
  BY <1>2, QuietSwept, DownloadSwept, InspectSwept, QuarantineSwept, WriteReportSwept,
     SidecarSwept, EndSwept DEF StepOf, Step
<1>3. CASE UNCHANGED vars
  <2>1. UNCHANGED <<disk, rows, orphans>> /\ \A v \in Workers : SameLocals(v)
    BY <1>3 DEF vars, SameLocals
  <2>2. \A v \in Workers : \A p :
          (Answers(v, p)' <=> Answers(v, p)) /\ (Confines(v, p)' <=> Confines(v, p))
    BY <2>1, OthersAnswer
  <2>3. AllAnsweredFor'
    BY <2>1, <2>2 DEF SweptInv, AllAnsweredFor
  <2>4. ThreatsConfined'
    BY <2>1, <2>2 DEF SweptInv, ThreatsConfined
  <2>5. QED
    BY <1>1, <2>3, <2>4 DEF SweptInv
<1>4. QED
  BY <1>1, <1>2, <1>3 DEF SweptInv, Next, StepOf

(* Whatever the workers do to each other, downloaded bytes on disk belong  *)
(* to a committed row, to an envelope at work, or to a process that died:  *)
(* no rollback, move or commit loses sight of a file (engine.py 447,       *)
(* 514-516, 700-707).                                                      *)
THEOREM NoPayloadLeftBehind == Spec => []UncommittedPayloadsSwept
<1>1. Spec => []SweptInv
  BY InitSwept, StepSwept, PTL DEF Spec
<1>2. ASSUME NEW w \in Workers, NEW p, Answers(w, p) PROVE p \in created[w]
  BY <1>2 DEF Answers, Confines
<1>3. SweptInv => UncommittedPayloadsSwept
  BY <1>2 DEF SweptInv, AllAnsweredFor, UncommittedPayloadsSwept
<1>4. QED
  BY <1>1, <1>3, PTL

(* Whatever the workers do to each other, a threat lies in a delivery      *)
(* folder only until its worker has inspected it or swept it, or has died  *)
(* (engine.py 478-569, 700-707).                                           *)
THEOREM ThreatsAreContained == Spec => []ThreatsContained
<1>1. Spec => []SweptInv
  BY InitSwept, StepSwept, PTL DEF Spec
<1>2. ASSUME NEW w \in Workers, NEW p, Confines(w, p) PROVE AwaitingInspection(w, p)
  BY <1>2 DEF Confines, Staged, AwaitingInspection
<1>3. SweptInv => ThreatsContained
  BY <1>2 DEF SweptInv, ThreatsConfined, ThreatsContained
<1>4. QED
  BY <1>1, <1>3, PTL

-----------------------------------------------------------------------------
(* The row r as the abstract ledger has it. *)
AsDelivery(r) == [msg |-> r.msg, slot |-> r.slot, data |-> r.data]

(* What a commit makes readable is what IngestionLedger delivers.          *)
LEMMA CommitDelivers ==
    ASSUME LedgerInv, NEW w \in Workers, Commit(w)
    PROVE  {AsDelivery(x) : x \in recs[w]} = Abstract!Delivery(msg[w])
<1>1. /\ \A x \in recs[w] : x.msg = msg[w]
      /\ {[slot |-> x.slot, data |-> x.data] : x \in recs[w]} = Deliverable(msg[w])
  BY RecordsComplete DEF Commit, LedgerInv, AllBooked, Working
<1>2. msg[w] \in Messages
  BY DEF LedgerInv, TypeInv, TypeOK
<1>3. Abstract!Delivery(msg[w])
        = {[msg |-> msg[w], slot |-> e.slot, data |-> e.data] : e \in Deliverable(msg[w])}
  BY <1>2 DEF Abstract!Delivery
<1>4. ASSUME NEW x \in recs[w] PROVE AsDelivery(x) \in Abstract!Delivery(msg[w])
  <2>1. [slot |-> x.slot, data |-> x.data] \in Deliverable(msg[w])
    BY <1>1
  <2>2. QED
    BY <1>1, <1>3, <2>1 DEF AsDelivery
<1>5. ASSUME NEW d \in Abstract!Delivery(msg[w]) PROVE \E x \in recs[w] : d = AsDelivery(x)
  <2>1. PICK e \in Deliverable(msg[w]) : d = [msg |-> msg[w], slot |-> e.slot, data |-> e.data]
    BY <1>3
  <2>2. PICK x \in recs[w] : e = [slot |-> x.slot, data |-> x.data]
    BY <1>1
  <2>3. QED
    BY <1>1, <2>1, <2>2 DEF AsDelivery
<1>6. QED
  BY <1>4, <1>5

(* While every row's file is intact, all the rows can be read back. *)
LEMMA IntactReadable ==
    ASSUME IntactInv
    PROVE  Readable = {AsDelivery(r) : r \in rows}
<1>1. \A r \in rows : Holds(disk, r.path, r.data)
  BY DEF IntactInv, RowsIntact
<1>2. {r \in rows : Holds(disk, r.path, r.data)} = rows
  BY <1>1
<1>3. QED
  BY <1>2 DEF Readable, AsDelivery

(* A commit is the abstract Ingest, and every other step stutters.         *)
LEMMA StepIngests ==
    ASSUME LedgerInv, IntactInv, IntactInv', [Next]_vars
    PROVE  [Abstract!Next]_<<ledger, Readable>>
<1>1. Readable = {AsDelivery(r) : r \in rows} /\ Readable' = {AsDelivery(r) : r \in rows'}
  <2>1. IntactInv' => Readable' = {AsDelivery(r) : r \in rows'}
    <3>1. SUFFICES ASSUME IntactInv' PROVE Readable' = {AsDelivery(r) : r \in rows'}
      OBVIOUS
    <3>2. \A r \in rows' : Holds(disk', r.path, r.data)
      BY DEF IntactInv, RowsIntact
    <3>3. {r \in rows' : Holds(disk', r.path, r.data)} = rows'
      BY <3>2
    <3>4. QED
      BY <3>3 DEF Readable, AsDelivery
  <2>2. QED
    BY <2>1, IntactReadable
<1>2. ASSUME NEW w \in Workers, Commit(w) PROVE Abstract!Ingest(msg[w])
  <2>1. /\ msg[w] \notin ledger /\ ledger' = ledger \cup {msg[w]}
        /\ rows' = rows \cup recs[w]
    BY <1>2 DEF Commit
  <2>2. Readable' = Readable \cup Abstract!Delivery(msg[w])
    BY <1>1, <1>2, <2>1, CommitDelivers
  <2>3. QED
    BY <2>1, <2>2 DEF Abstract!Ingest
<1>3. ASSUME NEW w \in Workers, StepOf(w), ~Commit(w) PROVE UNCHANGED <<ledger, Readable>>
  BY <1>1, <1>3, CommitsOnly
<1>4. CASE UNCHANGED vars
  BY <1>1, <1>4 DEF vars
<1>5. \A w \in Workers : msg[w] \in Messages
  BY DEF LedgerInv, TypeInv, TypeOK
<1>6. QED
  BY <1>2, <1>3, <1>4, <1>5 DEF Next, StepOf, Abstract!Next

(* However many engine processes there are, as long as no two have one     *)
(* email in hand at once, and for mail in which no threat occurs twice and *)
(* no attachment has a name of the pipeline's own: the pipeline with its   *)
(* files, faults and crashes implements the ledger that ingests a message  *)
(* with all its readable attachments in one step, once, and for good       *)
(* (engine.py 225-250, 386-707).                                           *)
THEOREM PipelineImplementsLedger ==
    OrderlyMail => (Spec /\ []OneWorkerPerEmail => ImplementsLedger)
<1> SUFFICES ASSUME OrderlyMail PROVE Spec /\ []OneWorkerPerEmail => ImplementsLedger
  OBVIOUS
<1>1. Init => Abstract!Init
  BY DEF Init, Abstract!Init, Readable
<1>2. Spec => []LedgerInv
  BY InitLedger, StepLedger, PTL DEF Spec
<1>3. Init => IntactInv
  BY InitIntact
<1>4. IntactInv /\ OneWorkerPerEmail /\ [Next]_vars => IntactInv'
  BY StepIntact
<1>5. LedgerInv /\ IntactInv /\ IntactInv' /\ [Next]_vars => [Abstract!Next]_<<ledger, Readable>>
  BY StepIngests
<1>6. QED
  BY <1>1, <1>2, <1>3, <1>4, <1>5, PTL DEF Spec, ImplementsLedger, Abstract!Spec

-----------------------------------------------------------------------------
(***************************************************************************)
(* What the rows say of the contents, when no two workers are at once in   *)
(* one email: a second one could replace a file between its download and   *)
(* its inspection.                                                         *)
(***************************************************************************)

(* No attachment is named like the diff of another. *)
NoDiffNames == \A m \in Messages : \A i \in Slots(m) : Stub(m, i).name.ext # "diff"

(* r has been downloaded and not been inspected. *)
Awaits(w, r) ==
    \/ pc[w] \in {"stage", "download"} /\ r.slot \notin pending[w]
    \/ pc[w] = "inspect" /\ r.slot \in pending[w]
    \/ pc[w] = "report" /\ r.slot \in pending[w] /\ ~Current(w, r.slot)

(* It is what will be inspected. *)
StagedUnchanged(w) ==
    \A r \in named[w] : r.name.ext # "diff" /\ (Awaits(w, r) => InPlace(w, r))

RecordsHarmless(w) == QuarantineOnMismatch =>
    \A x \in recs[w] : x.status = "CLEAN" => x.data \notin Threats

(* What the rollback of w may unlink lies where w writes. *)
CreatedNear(w) == \A p \in created[w] : p.dir \in {msg[w], Vault}

CleanInv == /\ LedgerInv
            /\ NoThreatRecordedClean
            /\ \A w \in Workers : pc[w] # "idle" => CreatedNear(w)
            /\ \A w \in Workers : Working(w) => StagedUnchanged(w) /\ RecordsHarmless(w)

(* A suffix leaves the extension. *)
LEMMA ExtKept ==
    ASSUME NEW w \in Workers, NEW n \in NameType, NEW x \in Disambiguated(w, n)
    PROVE  x.ext = n.ext
BY DEF Disambiguated, Suffixed, NameType

(* What a write or a move of p, and of q, leaves where it is. *)
LEMMA StagedKept ==
    ASSUME NEW w \in Workers, StagedUnchanged(w), NEW p, NEW q,
           \A x, e : x \notin {p, q} => (Holds(disk', x, e) <=> Holds(disk, x, e)),
           msg'[w] = msg[w], named'[w] \subseteq named[w],
           \A r \in named'[w] : Awaits(w, r)' =>
               /\ Awaits(w, r)
               /\ InFolder(msg[w], r.name) \notin {p, q}
    PROVE  StagedUnchanged(w)'
<1>1. ASSUME NEW r \in named'[w], Awaits(w, r)' PROVE InPlace(w, r)'
  <2>1. Holds(disk, InFolder(msg[w], r.name), Stub(msg[w], r.slot).data)
    BY <1>1 DEF StagedUnchanged, InPlace
  <2>2. Holds(disk', InFolder(msg[w], r.name), Stub(msg[w], r.slot).data)
    BY <1>1, <2>1
  <2>3. QED
    BY <2>2 DEF InPlace
<1>2. QED
  BY <1>1 DEF StagedUnchanged

(* One lemma per group of actions. *)
LEMMA StagingClean ==
    ASSUME NoDiffNames, CleanInv, NEW w \in Workers, Working(w),
           FilterSignature(w) \/ ChooseName(w) \/ Download(w) \/ EndStaging(w)
    PROVE  StagedUnchanged(w)' /\ RecordsHarmless(w)'
<1>1. TypeInv /\ TypeOK /\ Booked(w) /\ StagedUnchanged(w) /\ RecordsHarmless(w)
  BY DEF CleanInv, LedgerInv, AllBooked, TypeInv
<1>2. CASE FilterSignature(w)
  <2>1. /\ pc[w] = "stage" /\ pending'[w] \subseteq pending[w]
        /\ UNCHANGED <<disk, pc, msg, named, recs>>
    BY <1>1, <1>2 DEF FilterSignature, TypeOK, shared
  <2>2. \A r \in named[w] : r.slot \notin pending[w]
    BY <1>1, <2>1 DEF Booked, StagedInOrder
  <2>3. QED
    BY <1>1, <2>1, <2>2 DEF StagedUnchanged, RecordsHarmless, Awaits, InPlace
<1>3. CASE ChooseName(w)
  <2>1. PICK i \in pending[w] : \E n \in Disambiguated(w, Stub(msg[w], i).name) :
          named' = [named EXCEPT ![w] = @ \cup {[slot |-> i, name |-> n]}]
    BY <1>3 DEF ChooseName
  <2>2. PICK n \in Disambiguated(w, Stub(msg[w], i).name) :
          named' = [named EXCEPT ![w] = @ \cup {[slot |-> i, name |-> n]}]
    BY <2>1
  <2>3. i \in Slots(msg[w]) /\ msg[w] \in Messages
    BY <1>1 DEF TypeInv, TypeOK, SlotsOfEnvelope
  <2>4. n.ext # "diff"
    BY <2>3, StubTyped, ExtKept DEF NoDiffNames
  <2>5. /\ pc[w] = "stage" /\ pc'[w] = "download"
        /\ named'[w] = named[w] \cup {[slot |-> i, name |-> n]}
        /\ UNCHANGED <<disk, msg, pending, recs>>
    BY <1>1, <1>3, <2>2 DEF ChooseName, TypeOK, shared
  <2>6. \A r \in named'[w] : Awaits(w, r)' => r \in named[w] /\ Awaits(w, r)
    BY <2>5 DEF Awaits
  <2>7. \A r \in named'[w] : r.name.ext # "diff"
    BY <1>1, <2>4, <2>5 DEF StagedUnchanged
  <2>8. StagedUnchanged(w)'
    BY <1>1, <2>5, <2>6, <2>7 DEF StagedUnchanged, InPlace
  <2>9. QED
    BY <1>1, <2>5, <2>8 DEF RecordsHarmless
<1>4. CASE Download(w)
  <2>1. PICK r \in named[w] :
          /\ disk' = Put(disk, InFolder(msg[w], r.name), Stub(msg[w], r.slot).data)
          /\ pending' = [pending EXCEPT ![w] = @ \ {r.slot}]
    BY <1>4 DEF Download
  <2> DEFINE p == InFolder(msg[w], r.name)  d == Stub(msg[w], r.slot).data
  <2>2. /\ pc[w] = "download" /\ pc'[w] = "stage"
        /\ pending'[w] = pending[w] \ {r.slot}
        /\ UNCHANGED <<msg, named, recs>>
    BY <1>1, <1>4, <2>1 DEF Download, TypeOK
  <2>3. Holds(disk', p, d) /\ \A x, e : x # p => (Holds(disk', x, e) <=> Holds(disk, x, e))
    BY <2>1, PutHolds
  <2>4. ASSUME NEW s \in named[w], s # r, Awaits(w, s)'
        PROVE  Holds(disk', InFolder(msg[w], s.name), Stub(msg[w], s.slot).data)
    <3>1. s.name # r.name /\ s.slot # r.slot
      BY <1>1, <2>4 DEF Booked, OneNamePerSlot
    <3>2. InPlace(w, s)
      BY <1>1, <2>2, <2>4, <3>1 DEF StagedUnchanged, Awaits
    <3>3. InFolder(msg[w], s.name) # p
      BY <3>1 DEF InFolder
    <3>4. QED
      BY <2>3, <3>2, <3>3 DEF InPlace
  <2>5. \A s \in named[w] : Awaits(w, s)' => InPlace(w, s)'
    BY <2>2, <2>3, <2>4 DEF InPlace
  <2>6. QED
    BY <1>1, <2>2, <2>5 DEF StagedUnchanged, RecordsHarmless
<1>5. CASE EndStaging(w)
  <2>1. /\ pc[w] = "stage" /\ pc'[w] = "inspect" /\ pending[w] = {}
        /\ UNCHANGED <<disk, msg, named, recs>>
    BY <1>1, <1>5 DEF EndStaging, TypeOK
  <2>2. QED
    BY <1>1, <2>1 DEF StagedUnchanged, RecordsHarmless, Awaits, InPlace
<1>6. QED
  BY <1>2, <1>3, <1>4, <1>5

(* What passes is what was downloaded, so it is no threat; a diff is       *)
(* written next to it.                                                     *)
LEMMA InspectClean ==
    ASSUME CleanInv, NEW w \in Workers, InspectNew(w) \/ InspectRevision(w)
    PROVE  StagedUnchanged(w)' /\ RecordsHarmless(w)'
<1>1. TypeInv /\ TypeOK /\ Booked(w) /\ StagedUnchanged(w) /\ RecordsHarmless(w)
  BY DEF CleanInv, LedgerInv, AllBooked, TypeInv, Working, InspectNew, InspectRevision, Inspecting
<1>2. PICK r, v :
        /\ r \in named[w]
        /\ Inspecting(w, r)
        /\ Passes(InFolder(msg[w], r.name))
        /\ recs' = [recs EXCEPT ![w] = @ \cup
                     {Row(w, r, InFolder(msg[w], r.name), "CLEAN", v)}]
        /\ pending' = [pending EXCEPT ![w] = @ \ {r.slot}]
        /\ disk' = disk \/ disk' = Put(disk, DiffPath(msg[w], r.name), Diff)
        /\ UNCHANGED <<pc, msg, named>>
  BY DEF InspectNew, InspectRevision, shared
<1> DEFINE p == InFolder(msg[w], r.name)  q == DiffPath(msg[w], r.name)
           d == Stub(msg[w], r.slot).data
<1>3. /\ pc[w] = "inspect" /\ r.slot \in pending[w]
      /\ pending'[w] = pending[w] \ {r.slot}
      /\ recs'[w] = recs[w] \cup {Row(w, r, p, "CLEAN", v)}
  BY <1>1, <1>2 DEF Inspecting, Current, TypeOK
<1>4. Holds(disk, p, d)
  BY <1>1, <1>2, <1>3 DEF StagedUnchanged, Awaits, InPlace
<1>5. QuarantineOnMismatch => d \notin Threats
  BY <1>2, <1>4 DEF Passes, Threatening, At, Holds
<1>6. RecordsHarmless(w)'
  BY <1>1, <1>3, <1>5 DEF RecordsHarmless, Row
<1>7. \A x, e : x # q => (Holds(disk', x, e) <=> Holds(disk, x, e))
  BY <1>2, PutHolds
<1>8. \A s \in named[w] : InFolder(msg[w], s.name) # q
  BY <1>1 DEF StagedUnchanged, InFolder, DiffPath
<1>9. \A s \in named[w] : Awaits(w, s)' => Awaits(w, s)
  BY <1>2, <1>3 DEF Awaits
<1>10. StagedUnchanged(w)'
  BY <1>1, <1>2, <1>7, <1>8, <1>9, StagedKept
<1>11. QED
  BY <1>6, <1>10

(* The vault and its reports are no delivery folder. *)
LEMMA VaultClean ==
    ASSUME CleanInv, NEW w \in Workers, Quarantine(w) \/ WriteReport(w)
    PROVE  StagedUnchanged(w)' /\ RecordsHarmless(w)'
<1>1. TypeInv /\ TypeOK /\ Booked(w) /\ StagedUnchanged(w) /\ RecordsHarmless(w)
  BY DEF CleanInv, LedgerInv, AllBooked, TypeInv, Working, Quarantine, WriteReport, Inspecting
<1>2. msg[w] # Vault
  BY <1>1, DistinctAssumption DEF TypeOK
<1>3. \A n, d, e, x : InFolder(msg[w], x) # InVault(d, n, e)
  BY <1>2 DEF InFolder, InVault
<1>4. CASE Quarantine(w)
  <2> DEFINE P(r) == InFolder(msg[w], r.name)
             Q(r) == InVault(Stub(msg[w], r.slot).data, r.name, "quarantine")
  <2>1. PICK r \in named[w] : /\ Inspecting(w, r)
                              /\ disk' = Rename(disk, P(r), Q(r))
    BY <1>4 DEF Quarantine
  <2>2. /\ pc[w] = "inspect" /\ pc'[w] = "report"
        /\ UNCHANGED <<msg, named, pending, recs>>
    BY <1>1, <1>4, <2>1 DEF Quarantine, Inspecting, TypeOK
  <2>3. \A x, e : x \notin {P(r), Q(r)} => (Holds(disk', x, e) <=> Holds(disk, x, e))
    <3>1. Holds(disk, P(r), Stub(msg[w], r.slot).data)
      BY <1>1, <2>1 DEF StagedUnchanged, Awaits, InPlace, Inspecting, Current
    <3>2. \A p, q, d : Holds(disk, p, d) => \A x, e : x \notin {p, q} =>
            (Holds(Rename(disk, p, q), x, e) <=> Holds(disk, x, e))
      BY RenameHolds
    <3> HIDE DEF P, Q
    <3>3. QED
      BY <2>1, <3>1, <3>2
  <2>4. ASSUME NEW s \in named[w], Awaits(w, s)'
        PROVE  Awaits(w, s) /\ P(s) \notin {P(r), Q(r)}
    <3>1. s.slot \in pending[w] /\ ~Current(w, s.slot)
      BY <2>2, <2>4 DEF Awaits, Current
    <3>2. s # r
      BY <2>1, <3>1 DEF Inspecting
    <3>3. s.name # r.name
      BY <1>1, <3>2 DEF Booked, OneNamePerSlot
    <3>4. P(s) # P(r)
      BY <3>3 DEF InFolder
    <3>5. QED
      BY <1>3, <2>2, <3>1, <3>4 DEF Awaits
  <2>5. StagedUnchanged(w)'
    BY <1>1, <2>2, <2>3, <2>4, StagedKept
  <2>6. QED
    BY <1>1, <2>2, <2>5 DEF RecordsHarmless
<1>5. CASE WriteReport(w)
  <2> DEFINE V(r, e) == InVault(Stub(msg[w], r.slot).data, r.name, e)
  <2>1. PICK r \in named[w] :
          /\ Current(w, r.slot)
          /\ disk' = Put(disk, V(r, "report.md"), Report)
          /\ recs' = [recs EXCEPT ![w] = @ \cup
                       {Row(w, r, V(r, "quarantine"), "QUARANTINED", 1)}]
          /\ pending' = [pending EXCEPT ![w] = @ \ {r.slot}]
    BY <1>5 DEF WriteReport
  <2>2. /\ pc[w] = "report" /\ pc'[w] = "inspect"
        /\ pending'[w] = pending[w] \ {r.slot}
        /\ recs'[w] = recs[w] \cup {Row(w, r, V(r, "quarantine"), "QUARANTINED", 1)}
        /\ UNCHANGED <<msg, named>>
    BY <1>1, <1>5, <2>1 DEF WriteReport, TypeOK
  <2>3. \A x, e : x # V(r, "report.md") => (Holds(disk', x, e) <=> Holds(disk, x, e))
    BY <2>1, PutHolds
  <2>4. ASSUME NEW s \in named[w], Awaits(w, s)' PROVE Awaits(w, s)
    <3>1. s.slot \in pending[w] /\ s.slot # r.slot
      BY <2>2, <2>4 DEF Awaits
    <3>2. ~Current(w, s.slot)
      BY <1>1, <2>1, <3>1, CurrentUnique
    <3>3. QED
      BY <2>2, <3>1, <3>2 DEF Awaits
  <2>5. StagedUnchanged(w)'
    <3> DEFINE p == V(r, "report.md")
    <3>1. \A x, e : x \notin {p, p} => (Holds(disk', x, e) <=> Holds(disk, x, e))
      BY <2>3
    <3>2. \A s \in named'[w] : Awaits(w, s)' =>
            Awaits(w, s) /\ InFolder(msg[w], s.name) \notin {p, p}
      BY <1>3, <2>2, <2>4
    <3>3. msg'[w] = msg[w] /\ named'[w] \subseteq named[w]
      BY <2>2
    <3> HIDE DEF p
    <3>4. QED
      BY <1>1, <3>1, <3>2, <3>3, StagedKept
  <2>6. QED
    BY <1>1, <2>2, <2>5 DEF RecordsHarmless, Row
<1>6. QED
  BY <1>4, <1>5

(* Nothing waits for an inspection any more when a sidecar is written. *)
LEMMA SidecarClean ==
    ASSUME CleanInv, NEW w \in Workers, WriteContextJson(w) \/ WriteContextMd(w)
    PROVE  StagedUnchanged(w)' /\ RecordsHarmless(w)'
<1>1. TypeOK /\ StagedUnchanged(w) /\ RecordsHarmless(w)
  BY DEF CleanInv, LedgerInv, TypeInv, Working, WriteContextJson, WriteContextMd, SidecarStep
<1>2. pc'[w] \in {"sidecar", "commit"} /\ UNCHANGED <<msg, named, recs>>
  BY <1>1 DEF WriteContextJson, WriteContextMd, SidecarStep, TypeOK
<1>3. QED
  BY <1>1, <1>2 DEF StagedUnchanged, RecordsHarmless, Awaits

(* A move touches no third path, whatever is at the first. *)
LEMMA RenameElsewhere ==
    ASSUME NEW fs, NEW p, NEW q, NEW x, x \notin {p, q}, NEW e
    PROVE  Holds(Rename(fs, p, q), x, e) <=> Holds(fs, x, e)
<1>1. [path |-> x, data |-> e] \notin {[path |-> q, data |-> f.data] : f \in At(fs, p)}
  OBVIOUS
<1>2. QED
  BY <1>1 DEF Rename, Holds

(* A worker writes and unlinks in the folder of its email and in the vault. *)
LEMMA StepNear ==
    ASSUME TypeInv, NEW w \in Workers, StepOf(w), pc[w] # "idle" => CreatedNear(w)
    PROVE  /\ (pc[w] # "idle" => CreatedNear(w))'
           /\ \A p, e : p.dir \notin {msg[w], Vault} =>
                (Holds(disk', p, e) <=> Holds(disk, p, e))
<1>a. TypeOK
  BY DEF TypeInv
<1>b. /\ \A n : InFolder(msg[w], n).dir = msg[w] /\ DiffPath(msg[w], n).dir = msg[w]
      /\ \A d, n, x : InVault(d, n, x).dir = Vault
  BY DEF InFolder, DiffPath, InVault
<1>1. CASE \E m \in Messages : Begin(w, m)
  BY <1>1, <1>a DEF Begin, shared, CreatedNear, TypeOK
<1>2. CASE \/ FilterSignature(w) \/ ChooseName(w) \/ DownloadTooLarge(w) \/ EndStaging(w)
           \/ InspectNew(w) \/ InspectMissing(w) \/ CommitConflict(w) \/ Raise(w)
  <2>1. pc[w] # "idle" /\ UNCHANGED <<disk, msg, created>>
    BY <1>2 DEF FilterSignature, ChooseName, DownloadTooLarge, EndStaging, InspectNew,
       InspectMissing, Inspecting, CommitConflict, Raise, shared
  <2>2. QED
    BY <2>1 DEF CreatedNear
<1>3. CASE Download(w)
  <2>1. PICK n, d : /\ disk' = Put(disk, InFolder(msg[w], n), d)
                    /\ created'[w] = created[w] \cup {InFolder(msg[w], n)}
    BY <1>3, <1>a DEF Download, TypeOK
  <2>2. pc[w] # "idle" /\ msg' = msg
    BY <1>3 DEF Download
  <2>3. QED
    BY <1>b, <2>1, <2>2, PutHolds DEF CreatedNear
<1>4. CASE InspectRevision(w)
  <2>1. PICK n : /\ disk' = disk \/ disk' = Put(disk, DiffPath(msg[w], n), Diff)
                 /\ created'[w] \subseteq created[w] \cup {DiffPath(msg[w], n)}
    BY <1>4, <1>a DEF InspectRevision, TypeOK
  <2>2. pc[w] # "idle" /\ msg' = msg
    BY <1>4 DEF InspectRevision, Inspecting
  <2>3. QED
    BY <1>b, <2>1, <2>2, PutHolds DEF CreatedNear
<1>5. CASE Quarantine(w)
  <2>1. PICK n, d :
          /\ disk' = Rename(disk, InFolder(msg[w], n), InVault(d, n, "quarantine"))
          /\ created'[w] \subseteq created[w] \cup {InVault(d, n, "quarantine")}
    BY <1>5, <1>a DEF Quarantine, TypeOK
  <2>2. pc[w] # "idle" /\ msg' = msg
    BY <1>5 DEF Quarantine, Inspecting
  <2>3. QED
    BY <1>b, <2>1, <2>2, RenameElsewhere DEF CreatedNear
<1>6. CASE WriteReport(w)
  <2>1. PICK n, d : /\ disk' = Put(disk, InVault(d, n, "report.md"), Report)
                    /\ created'[w] = created[w] \cup {InVault(d, n, "report.md")}
    BY <1>6, <1>a DEF WriteReport, TypeOK
  <2>2. pc[w] # "idle" /\ msg' = msg
    BY <1>6 DEF WriteReport
  <2>3. QED
    BY <1>b, <2>1, <2>2, PutHolds DEF CreatedNear
<1>7. CASE WriteContextJson(w) \/ WriteContextMd(w)
  <2>1. PICK n : disk' = Put(disk, InFolder(msg[w], n), Sidecar)
    BY <1>7 DEF WriteContextJson, WriteContextMd, SidecarStep
  <2>2. pc[w] # "idle" /\ UNCHANGED <<msg, created>>
    BY <1>7 DEF WriteContextJson, WriteContextMd, SidecarStep
  <2>3. QED
    BY <1>b, <2>1, <2>2, PutHolds DEF CreatedNear
<1>8. CASE Commit(w) \/ EndRollback(w) \/ Crash(w)
  <2>1. pc'[w] = "idle" /\ disk' = disk
    BY <1>8, <1>a DEF Commit, EndRollback, Crash, shared, TypeOK
  <2>2. QED
    BY <2>1
<1>9. CASE Sweep(w)
  <2>1. PICK p \in created[w] : /\ disk' = Drop(disk, p)
                                /\ created'[w] = created[w] \ {p}
    BY <1>9, <1>a DEF Sweep, TypeOK
  <2>2. pc[w] # "idle" /\ msg' = msg
    BY <1>9 DEF Sweep
  <2>3. QED
    BY <2>1, <2>2, DropHolds DEF CreatedNear
<1>10. QED
  BY <1>1, <1>2, <1>3, <1>4, <1>5, <1>6, <1>7, <1>8, <1>9 DEF StepOf, Step

(* So what waits for an inspection outlasts the steps in other emails. *)
LEMMA OthersClean ==
    ASSUME CleanInv, NEW w \in Workers, StepOf(w), NEW v \in Workers, Working(v),
           SameLocals(v), msg[v] # msg[w] \/ disk' = disk
    PROVE  StagedUnchanged(v)' /\ RecordsHarmless(v)'
<1>1. StagedUnchanged(v) /\ RecordsHarmless(v)
  BY DEF CleanInv
<1>2. msg[v] # Vault
  BY DistinctAssumption DEF CleanInv, LedgerInv, TypeInv, TypeOK
<1>3. \A n : InFolder(msg[v], n).dir = msg[v]
  BY DEF InFolder
<1>4. ASSUME NEW r \in named[v], InPlace(v, r) PROVE InPlace(v, r)'
  <2>1. CASE msg[v] # msg[w]
    <3>1. \A p, e : p.dir \notin {msg[w], Vault} => (Holds(disk', p, e) <=> Holds(disk, p, e))
      BY StepNear DEF CleanInv, LedgerInv
    <3>2. QED
      BY <1>2, <1>3, <1>4, <2>1, <3>1 DEF InPlace, SameLocals
  <2>2. CASE disk' = disk
    BY <1>4, <2>2 DEF InPlace, SameLocals
  <2>3. QED
    BY <2>1, <2>2
<1>5. \A r \in named[v] : Awaits(v, r)' <=> Awaits(v, r)
  BY DEF Awaits, Current, SameLocals
<1>6. StagedUnchanged(v)'
  BY <1>1, <1>4, <1>5 DEF StagedUnchanged, SameLocals
<1>7. QED
  BY <1>1, <1>6 DEF RecordsHarmless, SameLocals

(* With no rows the inductive invariant holds. *)
LEMMA InitClean == Init => CleanInv
BY InitLedger DEF Init, CleanInv, NoThreatRecordedClean, Working

(* Workers in different emails keep it. *)
LEMMA StepClean ==
    ASSUME NoDiffNames
    PROVE  CleanInv /\ OneWorkerPerEmail /\ [Next]_vars => CleanInv'
<1> SUFFICES ASSUME CleanInv, OneWorkerPerEmail, [Next]_vars PROVE CleanInv'
  OBVIOUS
<1>1. LedgerInv' /\ TypeOK
  BY StepLedger DEF CleanInv, LedgerInv, TypeInv
<1>2. ASSUME NEW w \in Workers, StepOf(w) PROVE CleanInv'
  <2>1. /\ (pc[w] # "idle" => CreatedNear(w))'
        /\ \A v \in Workers : v # w => SameLocals(v)
    BY <1>2, StepNear, OthersKeepTheirs DEF CleanInv, LedgerInv
  <2>2. NoThreatRecordedClean'
    <3>1. CASE Commit(w)
      <4>1. rows' = rows \cup recs[w] /\ RecordsHarmless(w)
        BY <3>1 DEF Commit, CleanInv, Working
      <4>2. QED
        BY <4>1 DEF CleanInv, NoThreatRecordedClean, RecordsHarmless
    <3>2. CASE ~Commit(w)
      BY <1>2, <3>2, CommitsOnly DEF CleanInv, NoThreatRecordedClean
    <3>3. QED
      BY <3>1, <3>2
  <2>3. ASSUME Working(w)' PROVE StagedUnchanged(w)' /\ RecordsHarmless(w)'
    <3>1. CASE \E m \in Messages : Begin(w, m)
      <4>1. named'[w] = {} /\ recs'[w] = {}
        BY <1>1, <3>1 DEF Begin, TypeOK
      <4>2. QED
        BY <4>1 DEF StagedUnchanged, RecordsHarmless
    <3>2. CASE FilterSignature(w) \/ ChooseName(w) \/ Download(w) \/ EndStaging(w)
      <4>1. Working(w)
        BY <3>2 DEF FilterSignature, ChooseName, Download, EndStaging, Working
      <4>2. QED
        BY <3>2, <4>1, StagingClean
    <3>3. CASE \/ InspectNew(w) \/ InspectRevision(w) \/ Quarantine(w) \/ WriteReport(w)
               \/ WriteContextJson(w) \/ WriteContextMd(w)
      BY <3>3, InspectClean, VaultClean, SidecarClean
    <3>4. CASE \/ DownloadTooLarge(w) \/ InspectMissing(w) \/ Commit(w) \/ CommitConflict(w)
               \/ Sweep(w) \/ EndRollback(w) \/ Raise(w) \/ Crash(w)
      BY <1>1, <2>3, <3>4 DEF Working, DownloadTooLarge, InspectMissing, Commit,
         CommitConflict, Sweep, EndRollback, Raise, Crash, TypeOK
    <3>5. QED
      BY <1>2, <3>1, <3>2, <3>3, <3>4 DEF StepOf, Step
  <2>4. ASSUME NEW v \in Workers, v # w, Working(v)'
        PROVE  StagedUnchanged(v)' /\ RecordsHarmless(v)'
    <3>1. SameLocals(v) /\ Working(v)
      BY <2>1, <2>4 DEF SameLocals, Working
    <3>2. msg[v] # msg[w] \/ disk' = disk
      BY <1>2, <2>4, <3>1, StepKeepsEmail
         DEF OneWorkerPerEmail, Working, CleanInv, LedgerInv
    <3>3. QED
      BY <1>2, <3>1, <3>2, OthersClean
  <2>5. \A v \in Workers : (pc[v] # "idle" => CreatedNear(v))'
    <3>1. \A v \in Workers : v # w => ((pc[v] # "idle" => CreatedNear(v)) =>
                                      (pc[v] # "idle" => CreatedNear(v))')
      BY <2>1 DEF SameLocals, CreatedNear
    <3>2. QED
      BY <2>1, <3>1 DEF CleanInv
  <2>6. QED
    BY <1>1, <2>2, <2>3, <2>4, <2>5 DEF CleanInv
<1>3. CASE UNCHANGED vars
  <2>1. ASSUME NEW w \in Workers, (Working(w))', StagedUnchanged(w), RecordsHarmless(w)
        PROVE  StagedUnchanged(w)' /\ RecordsHarmless(w)'
    BY <1>3, <2>1 DEF vars, StagedUnchanged, RecordsHarmless, Awaits, InPlace, Current
  <2>2. \A w \in Workers : Working(w)' => Working(w)
    BY <1>3 DEF vars, Working
  <2>3. NoThreatRecordedClean'
    BY <1>3 DEF vars, CleanInv, NoThreatRecordedClean
  <2>4. \A w \in Workers : (pc[w] # "idle" => CreatedNear(w))'
    BY <1>3 DEF vars, CleanInv, CreatedNear
  <2>5. QED
    BY <1>1, <2>1, <2>2, <2>3, <2>4 DEF CleanInv
<1>4. QED
  BY <1>2, <1>3 DEF Next, StepOf

(* However many engine processes there are, as long as no two have one     *)
(* email in hand at once, and for mail in which no attachment is named     *)
(* like a diff: no row calls a threat CLEAN.  PipelineThreatPasses shows   *)
(* that the hypothesis about the workers cannot be dropped (engine.py      *)
(* 440-455 against 478-569).                                               *)
THEOREM CleanRowsAreHarmless ==
    NoDiffNames => (Spec /\ []OneWorkerPerEmail => []NoThreatRecordedClean)
<1> SUFFICES ASSUME NoDiffNames
             PROVE  Spec /\ []OneWorkerPerEmail => []NoThreatRecordedClean
  OBVIOUS
<1>1. Init => CleanInv
  BY InitClean
<1>2. CleanInv /\ OneWorkerPerEmail /\ [Next]_vars => CleanInv'
  BY StepClean
<1>3. CleanInv => NoThreatRecordedClean
  BY DEF CleanInv
<1>4. QED
  BY <1>1, <1>2, <1>3, PTL DEF Spec

-----------------------------------------------------------------------------
(***************************************************************************)
(* The versions of a file, when no two workers are at once in one thread   *)
(* of one sender: two of them would read the same latest version and give  *)
(* the same next one.  The emails of a sender that name no thread count as *)
(* one thread here.                                                        *)
(***************************************************************************)
SameThread(m, n) == SenderOf[m] = SenderOf[n] /\ ThreadOf[m] = ThreadOf[n]

OneWorkerPerThread == \A v, w \in Workers :
    v # w /\ pc[v] # "idle" /\ pc[w] # "idle" => ~SameThread(msg[v], msg[w])

(* The lookup for m considers the rows of n (session.py 98-105). *)
LookedUp(m, n) == /\ SenderOf[n] = SenderOf[m]
                  /\ ThreadOf[m] # NoThread => ThreadOf[n] = ThreadOf[m]

(* A name that a delivered attachment may be given is the sender's name of *)
(* no attachment, unless it is the sender's name of this one: the rows are *)
(* looked up by the one and record the other.                              *)
NamesTheirOwn ==
    \A m, n \in Messages : \A i \in Slots(m), j \in Slots(n) :
        /\ Stub(n, j).original = Stub(m, i).name =>
             Stub(m, i).original = Stub(m, i).name
        /\ \A k \in Nat : Stub(n, j).original # Suffixed(Stub(m, i).name, k)

(* A staged name is the sanitised one, with a counter or without. *)
NamesGiven(w) == \A r \in named[w] :
    \/ r.name = Stub(msg[w], r.slot).name
    \/ \E k \in Nat : r.name = Suffixed(Stub(msg[w], r.slot).name, k)

(* A record of a revision comes next after a version that its lookup sees, *)
(* and after every version that its thread has.                            *)
Follows(w) == \A x \in recs[w] : (x.status = "CLEAN" /\ x.version > 1) =>
    /\ x.path = InFolder(msg[w], x.original)
    /\ \E s \in Prior(msg[w], x.original) : s.version = x.version - 1
    /\ \A s \in Prior(msg[w], x.original) :
         SameThread(s.msg, msg[w]) => s.version < x.version

(* A row records the sender's name. *)
RowsNamed == \A r \in rows : r.slot \in Slots(r.msg) /\ r.original = Stub(r.msg, r.slot).original

ChainInv == /\ LedgerInv
            /\ VersionChain
            /\ RowsNamed
            /\ \A w \in Workers : Working(w) => NamesGiven(w) /\ Follows(w)

(* A prior version of r's name shows that the name is the sender's own.    *)
LEMMA PriorIsOwn ==
    ASSUME NamesTheirOwn, ChainInv, NEW w \in Workers, NamesGiven(w),
           NEW r \in named[w], NEW q, q \in Prior(msg[w], r.name)
    PROVE  Stub(msg[w], r.slot).original = r.name
<1>1. msg[w] \in Messages /\ r.slot \in Slots(msg[w])
  BY DEF ChainInv, LedgerInv, TypeInv, TypeOK, SlotsOfEnvelope
<1>2. q \in rows /\ q.msg \in Messages /\ q.original = r.name
  BY DEF ChainInv, LedgerInv, TypeInv, TypeOK, Prior, RowType
<1>3. q.slot \in Slots(q.msg) /\ Stub(q.msg, q.slot).original = r.name
  BY <1>2 DEF ChainInv, RowsNamed
<1>4. r.name = Stub(msg[w], r.slot).name
  BY <1>1, <1>2, <1>3 DEF NamesGiven, NamesTheirOwn
<1>5. QED
  BY <1>1, <1>2, <1>3, <1>4 DEF NamesTheirOwn

(* The inspection loop counts on from the latest version. *)
LEMMA InspectFollows ==
    ASSUME NamesTheirOwn, ChainInv, NEW w \in Workers, NamesGiven(w), Follows(w),
           InspectNew(w) \/ InspectRevision(w)
    PROVE  NamesGiven(w)' /\ Follows(w)'
<1>1. TypeOK /\ UNCHANGED <<rows, msg, named>>
  BY DEF ChainInv, LedgerInv, TypeInv, InspectNew, InspectRevision, shared
<1>2. NamesGiven(w)'
  BY <1>1 DEF NamesGiven
<1>3. \A n : Prior(msg[w], n)' = Prior(msg[w], n)
  BY <1>1 DEF Prior
<1>4. CASE InspectNew(w)
  <2>1. PICK r \in named[w] :
          recs' = [recs EXCEPT ![w] = @ \cup
                    {Row(w, r, InFolder(msg[w], r.name), "CLEAN", 1)}]
    BY <1>4 DEF InspectNew
  <2> DEFINE x == Row(w, r, InFolder(msg[w], r.name), "CLEAN", 1)
  <2>2. recs'[w] = recs[w] \cup {x} /\ ~(x.version > 1)
    BY <1>1, <2>1 DEF TypeOK, Row
  <2>3. QED
    BY <1>1, <1>2, <1>3, <2>2 DEF Follows
<1>5. CASE InspectRevision(w)
  <2>1. PICK r, q :
          /\ r \in named[w]
          /\ q \in Latest(msg[w], r.name)
          /\ recs' = [recs EXCEPT ![w] = @ \cup
                    {Row(w, r, InFolder(msg[w], r.name), "CLEAN", q.version + 1)}]
    BY <1>5 DEF InspectRevision
  <2> DEFINE x == Row(w, r, InFolder(msg[w], r.name), "CLEAN", q.version + 1)
  <2>2. q \in Prior(msg[w], r.name) /\ \A s \in Prior(msg[w], r.name) : s.version <= q.version
    BY <2>1 DEF Latest
  <2>3. q.version \in Nat /\ \A s \in Prior(msg[w], r.name) : s.version \in Nat
    BY <1>1, <2>2 DEF Prior, TypeOK, RowType
  <2>4. x.original = r.name /\ x.version = q.version + 1
        /\ x.path = InFolder(msg[w], x.original)
    BY <2>1, <2>2, PriorIsOwn DEF Row
  <2>5. \A s \in Prior(msg[w], x.original) :
          SameThread(s.msg, msg[w]) => s.version < x.version
    BY <2>2, <2>3, <2>4
  <2>6. q \in Prior(msg[w], x.original) /\ q.version = x.version - 1
    BY <2>2, <2>3, <2>4
  <2>7. recs'[w] = recs[w] \cup {x}
    BY <1>1, <2>1 DEF TypeOK
  <2> HIDE DEF x
  <2>8. QED
    BY <1>1, <1>2, <1>3, <2>4, <2>5, <2>6, <2>7 DEF Follows
<1>6. QED
  BY <1>4, <1>5

(* The other steps give no version. *)
LEMMA OthersFollow ==
    ASSUME TypeOK, UNCHANGED rows, NEW w \in Workers, NamesGiven(w), Follows(w),
           \/ FilterSignature(w) \/ ChooseName(w) \/ Download(w) \/ EndStaging(w)
           \/ Quarantine(w) \/ WriteReport(w) \/ WriteContextJson(w) \/ WriteContextMd(w)
    PROVE  NamesGiven(w)' /\ Follows(w)'
<1>1. CASE ChooseName(w)
  <2>1. PICK i \in pending[w] : \E n \in Disambiguated(w, Stub(msg[w], i).name) :
          named' = [named EXCEPT ![w] = @ \cup {[slot |-> i, name |-> n]}]
    BY <1>1 DEF ChooseName
  <2>2. PICK n \in Disambiguated(w, Stub(msg[w], i).name) :
          named' = [named EXCEPT ![w] = @ \cup {[slot |-> i, name |-> n]}]
    BY <2>1
  <2>3. n = Stub(msg[w], i).name \/ \E k \in Nat : n = Suffixed(Stub(msg[w], i).name, k)
    BY BoundsAssumption DEF Disambiguated
  <2>4. /\ named'[w] = named[w] \cup {[slot |-> i, name |-> n]}
        /\ UNCHANGED <<rows, msg, recs>>
    BY <1>1, <2>2 DEF ChooseName, TypeOK
  <2>5. NamesGiven(w)'
    BY <2>3, <2>4 DEF NamesGiven
  <2>6. QED
    BY <2>4, <2>5 DEF Follows, Prior
<1>2. CASE WriteReport(w)
  <2>1. PICK r \in named[w] :
          recs' = [recs EXCEPT ![w] = @ \cup
            {Row(w, r, InVault(Stub(msg[w], r.slot).data, r.name, "quarantine"),
                 "QUARANTINED", 1)}]
    BY <1>2 DEF WriteReport
  <2> DEFINE x == Row(w, r, InVault(Stub(msg[w], r.slot).data, r.name, "quarantine"),
                      "QUARANTINED", 1)
  <2>2. /\ recs'[w] = recs[w] \cup {x} /\ x.status # "CLEAN"
        /\ UNCHANGED <<rows, msg, named>>
    BY <1>2, <2>1 DEF WriteReport, TypeOK, Row
  <2>3. QED
    BY <2>2 DEF NamesGiven, Follows, Prior
<1>3. CASE \/ FilterSignature(w) \/ Download(w) \/ EndStaging(w)
           \/ Quarantine(w) \/ WriteContextJson(w) \/ WriteContextMd(w)
  <2>1. UNCHANGED <<rows, msg, named, recs>>
    BY <1>3 DEF FilterSignature, Download, EndStaging, Quarantine, WriteContextJson,
       WriteContextMd, SidecarStep, shared
  <2>2. QED
    BY <2>1 DEF NamesGiven, Follows, Prior
<1>4. QED
  BY <1>1, <1>2, <1>3

(* What is committed continues the chains. *)
LEMMA CommitChains ==
    ASSUME ChainInv, NEW w \in Workers, Commit(w)
    PROVE  VersionChain' /\ RowsNamed'
<1>1. /\ TypeOK /\ TypeInv /\ Booked(w) /\ Follows(w)
      /\ rows' = rows \cup recs[w]
  BY DEF ChainInv, LedgerInv, TypeInv, AllBooked, Working, Commit
<1>2. /\ msg[w] \in Messages
      /\ \A x \in rows \cup recs[w] : x \in RowType /\ x.version \in Nat
  BY <1>1 DEF TypeOK, RowType
<1>3. \A x \in recs[w] : \E r \in named[w] : RecordOf(w, r, x)
  BY <1>1 DEF Booked, RecordedInOrder
<1>4. RowsNamed'
  <2>1. \A x \in recs[w] : x.slot \in Slots(x.msg) /\ x.original = Stub(x.msg, x.slot).original
    BY <1>1, <1>3 DEF RecordOf, TypeInv, SlotsOfEnvelope
  <2>2. QED
    BY <1>1, <2>1 DEF ChainInv, RowsNamed
<1>5. ASSUME NEW r \in rows', r.status = "CLEAN", r.version > 1
      PROVE  /\ \E s \in rows' : /\ s.status = "CLEAN" /\ s.original = r.original
                                 /\ LookedUp(r.msg, s.msg)
                                 /\ s.version = r.version - 1
             /\ \A s \in rows' : ( /\ s.status = "CLEAN" /\ s.original = r.original
                                   /\ SameThread(s.msg, r.msg)
                                   /\ s.version = r.version) => s = r
  <2>1. \A x \in recs[w] : x.msg = msg[w]
    BY <1>3 DEF RecordOf
  <2>2. ASSUME NEW x \in recs[w], x.status = "CLEAN", x.version > 1,
               NEW s \in rows, s.status = "CLEAN", s.original = x.original,
               SameThread(s.msg, x.msg)
        PROVE  s.version # x.version
    <3>1. s \in Prior(msg[w], x.original)
      BY <2>1, <2>2 DEF Prior, SameThread
    <3>2. s.version < x.version
      BY <1>1, <2>1, <2>2, <3>1 DEF Follows
    <3>3. QED
      BY <1>2, <3>2
  <2>3. ASSUME NEW x \in recs[w], x.status = "CLEAN", x.version > 1,
               NEW y \in recs[w], y.status = "CLEAN", y.version > 1,
               x.original = y.original
        PROVE  x = y
    <3>1. x.path = InFolder(msg[w], x.original) /\ y.path = x.path
      BY <1>1, <2>3 DEF Follows
    <3>2. PICK a \in named[w] : RecordOf(w, a, x)
      BY <1>3
    <3>3. PICK b \in named[w] : RecordOf(w, b, y)
      BY <1>3
    <3>4. InFolder(msg[w], a.name) = InFolder(msg[w], b.name)
      BY <2>3, <3>1, <3>2, <3>3 DEF RecordOf
    <3>5. a.name = b.name
      BY <3>4 DEF InFolder
    <3>6. a = b
      BY <1>1, <3>5 DEF Booked, OneNamePerSlot
    <3>7. QED
      BY <1>1, <3>2, <3>3, <3>6 DEF RecordOf, Booked, RecordedInOrder
  <2>4. CASE r \in rows
    <3>1. \A s \in rows : LookedUp(r.msg, s.msg) /\ s.status = "CLEAN" /\ s.original = r.original
            <=> s \in (IF ThreadOf[r.msg] = NoThread THEN OfSender(r) ELSE OfThread(r))
      BY DEF LookedUp, OfSender, OfThread
    <3>2. \A s \in rows : SameThread(s.msg, r.msg) /\ s.status = "CLEAN" /\ s.original = r.original
            <=> s \in OfThread(r)
      BY DEF SameThread, OfSender, OfThread
    <3>3. \A s \in OfSender(r) : s \in rows
      BY DEF OfSender
    <3>4. \E s \in (IF ThreadOf[r.msg] = NoThread THEN OfSender(r) ELSE OfThread(r)) :
            s.version = r.version - 1
      BY <1>5, <2>4 DEF ChainInv, VersionChain
    <3>5. \A s \in OfThread(r) : s.version = r.version => s = r
      BY <1>5, <2>4 DEF ChainInv, VersionChain
    <3>6. \E s \in rows : /\ s.status = "CLEAN" /\ s.original = r.original
                          /\ LookedUp(r.msg, s.msg) /\ s.version = r.version - 1
      BY <3>1, <3>3, <3>4 DEF OfThread
    <3>7. ASSUME NEW s \in recs[w], s.status = "CLEAN", s.original = r.original,
                 SameThread(s.msg, r.msg), s.version = r.version
          PROVE  s = r
      <4>1. SameThread(r.msg, s.msg)
        BY <3>7 DEF SameThread
      <4>2. r.version # s.version
        BY <1>5, <2>2, <2>4, <3>7, <4>1
      <4>3. QED
        BY <3>7, <4>2
    <3>8. QED
      BY <1>1, <3>2, <3>5, <3>6, <3>7
  <2>5. CASE r \in recs[w]
    <3>1. PICK s \in Prior(msg[w], r.original) : s.version = r.version - 1
      BY <1>1, <1>5, <2>5 DEF Follows
    <3>2. /\ s \in rows' /\ s.status = "CLEAN" /\ s.original = r.original
          /\ LookedUp(r.msg, s.msg)
      BY <1>1, <2>1, <2>5 DEF Prior, LookedUp
    <3>3. QED
      BY <1>1, <1>5, <2>2, <2>3, <2>5, <3>1, <3>2
  <2>6. QED
    BY <1>1, <2>4, <2>5
<1>6. VersionChain'
  <2>1. ASSUME NEW r \in rows', r.status = "CLEAN", r.version > 1
        PROVE  /\ \E s \in (IF ThreadOf[r.msg] = NoThread THEN OfSender(r)'
                                                         ELSE OfThread(r)') :
                     s.version = r.version - 1
               /\ \A s \in OfThread(r)' : s.version = r.version => s = r
    <3>1. \A s \in rows' : LookedUp(r.msg, s.msg) /\ s.status = "CLEAN" /\ s.original = r.original
            => s \in (IF ThreadOf[r.msg] = NoThread THEN OfSender(r)' ELSE OfThread(r)')
      BY DEF LookedUp, OfSender, OfThread
    <3>2. \A s \in OfThread(r)' : /\ s \in rows' /\ SameThread(s.msg, r.msg)
                                  /\ s.status = "CLEAN" /\ s.original = r.original
      BY DEF SameThread, OfSender, OfThread
    <3>3. QED
      BY <1>5, <2>1, <3>1, <3>2
  <2>2. QED
    BY <2>1 DEF VersionChain
<1>7. QED
  BY <1>4, <1>6

(* A commit in another thread adds to the rows that this one's lookup may  *)
(* see, but none of this thread.                                           *)
LEMMA ThreadsFollow ==
    ASSUME ChainInv, NEW w \in Workers, StepOf(w), NEW v \in Workers, Working(v),
           SameLocals(v), ~SameThread(msg[v], msg[w]) \/ ~Commit(w)
    PROVE  NamesGiven(v)' /\ Follows(v)'
<1>1. NamesGiven(v) /\ Follows(v)
  BY DEF ChainInv
<1>2. ASSUME NEW n
      PROVE  /\ Prior(msg[v], n) \subseteq Prior(msg[v], n)'
             /\ \A s \in Prior(msg[v], n)' : SameThread(s.msg, msg[v]) => s \in Prior(msg[v], n)
  <2>1. CASE ~Commit(w)
    BY <2>1, CommitsOnly DEF Prior, SameLocals
  <2>2. CASE Commit(w) /\ ~SameThread(msg[v], msg[w])
    <3>1. rows' = rows \cup recs[w] /\ Booked(w)
      BY <2>2 DEF Commit, ChainInv, LedgerInv, AllBooked, Working
    <3>2. \A x \in recs[w] : x.msg = msg[w]
      BY <3>1 DEF Booked, RecordedInOrder, RecordOf
    <3>3. QED
      BY <2>2, <3>1, <3>2 DEF Prior, SameThread, SameLocals
  <2>3. QED
    BY <2>1, <2>2
<1>3. NamesGiven(v)'
  BY <1>1 DEF NamesGiven, SameLocals
<1>4. msg'[v] = msg[v] /\ recs'[v] = recs[v]
  BY DEF SameLocals
<1>5. Follows(v)'
  BY <1>1, <1>2, <1>4 DEF Follows
<1>6. QED
  BY <1>3, <1>5

(* With no rows the inductive invariant holds. *)
LEMMA InitChain == Init => ChainInv
BY InitLedger DEF Init, ChainInv, VersionChain, RowsNamed, Working

(* Workers in different threads keep it. *)
LEMMA StepChain ==
    ASSUME NamesTheirOwn
    PROVE  ChainInv /\ OneWorkerPerThread /\ [Next]_vars => ChainInv'
<1> SUFFICES ASSUME ChainInv, OneWorkerPerThread, [Next]_vars PROVE ChainInv'
  OBVIOUS
<1>1. LedgerInv' /\ TypeOK
  BY StepLedger DEF ChainInv, LedgerInv, TypeInv
<1>2. ASSUME NEW w \in Workers, StepOf(w) PROVE ChainInv'
  <2>1. ASSUME NEW v \in Workers, v # w, Working(v)'
        PROVE  NamesGiven(v)' /\ Follows(v)'
    <3>1. SameLocals(v) /\ Working(v)
      BY <1>2, <2>1, OthersKeepTheirs DEF ChainInv, LedgerInv, SameLocals, Working
    <3>2. ~SameThread(msg[v], msg[w]) \/ ~Commit(w)
      BY <2>1, <3>1 DEF OneWorkerPerThread, Working, Commit
    <3>3. QED
      BY <1>2, <3>1, <3>2, ThreadsFollow
  <2>2. VersionChain' /\ RowsNamed'
    <3>1. CASE ~Commit(w)
      <4>1. UNCHANGED rows
        BY <1>2, <3>1, CommitsOnly
      <4>2. \A r : OfSender(r)' = OfSender(r) /\ OfThread(r)' = OfThread(r)
        BY <4>1 DEF OfSender, OfThread
      <4>3. QED
        BY <4>1, <4>2 DEF ChainInv, VersionChain, RowsNamed
    <3>2. QED
      BY <3>1, CommitChains
  <2>3. ASSUME Working(w)' PROVE NamesGiven(w)' /\ Follows(w)'
    <3>1. CASE \E m \in Messages : Begin(w, m)
      <4>1. named'[w] = {} /\ recs'[w] = {}
        BY <1>1, <3>1 DEF Begin, TypeOK
      <4>2. QED
        BY <4>1 DEF NamesGiven, Follows
    <3>2. CASE \/ FilterSignature(w) \/ ChooseName(w) \/ Download(w) \/ EndStaging(w)
               \/ Quarantine(w) \/ WriteReport(w) \/ WriteContextJson(w) \/ WriteContextMd(w)
      <4>1. Working(w)
        BY <3>2 DEF FilterSignature, ChooseName, Download, EndStaging, Quarantine,
           WriteReport, WriteContextJson, WriteContextMd, SidecarStep, Inspecting, Working
      <4>2. UNCHANGED rows
        BY <3>2 DEF FilterSignature, ChooseName, Download, EndStaging, Quarantine,
           WriteReport, WriteContextJson, WriteContextMd, SidecarStep, shared
      <4>3. QED
        BY <1>1, <3>2, <4>1, <4>2, OthersFollow DEF ChainInv
    <3>3. CASE InspectNew(w) \/ InspectRevision(w)
      <4>1. Working(w)
        BY <3>3 DEF InspectNew, InspectRevision, Inspecting, Working
      <4>2. QED
        BY <3>3, <4>1, InspectFollows DEF ChainInv
    <3>4. CASE \/ DownloadTooLarge(w) \/ InspectMissing(w) \/ Commit(w) \/ CommitConflict(w)
               \/ Sweep(w) \/ EndRollback(w) \/ Raise(w) \/ Crash(w)
      BY <1>1, <2>3, <3>4 DEF Working, DownloadTooLarge, InspectMissing, Commit,
         CommitConflict, Sweep, EndRollback, Raise, Crash, TypeOK
    <3>5. QED
      BY <1>2, <3>1, <3>2, <3>3, <3>4 DEF StepOf, Step
  <2>4. QED
    BY <1>1, <2>1, <2>2, <2>3 DEF ChainInv
<1>3. CASE UNCHANGED vars
  <2>1. \A w \in Workers : Working(w)' => Working(w)
    BY <1>3 DEF vars, Working
  <2>2. ASSUME NEW w \in Workers, NamesGiven(w), Follows(w)
        PROVE  NamesGiven(w)' /\ Follows(w)'
    BY <1>3, <2>2 DEF vars, NamesGiven, Follows, Prior
  <2>3. VersionChain' /\ RowsNamed'
    <3>1. \A r : OfSender(r)' = OfSender(r) /\ OfThread(r)' = OfThread(r)
      BY <1>3 DEF vars, OfSender, OfThread
    <3>2. QED
      BY <1>3, <3>1 DEF vars, ChainInv, VersionChain, RowsNamed
  <2>4. QED
    BY <1>1, <2>1, <2>2, <2>3 DEF ChainInv
<1>4. QED
  BY <1>2, <1>3 DEF Next, StepOf

(* However many engine processes there are, as long as no two are at once  *)
(* in one thread of one sender, and for mail in which the name given to a  *)
(* file is not the sender's name of another: the versions of a file form   *)
(* chains, in its thread, or over all of its sender's threads where the    *)
(* email names none (session.py 104).  With a file called invoice_1 in the *)
(* mail, m8 of MCPipeline, twins fork them (engine.py 571-609).            *)
THEOREM VersionsFormChains ==
    NamesTheirOwn => (Spec /\ []OneWorkerPerThread => []VersionChain)
<1> SUFFICES ASSUME NamesTheirOwn PROVE Spec /\ []OneWorkerPerThread => []VersionChain
  OBVIOUS
<1>1. Init => ChainInv
  BY InitChain
<1>2. ChainInv /\ OneWorkerPerThread /\ [Next]_vars => ChainInv'
  BY StepChain
<1>3. ChainInv => VersionChain
  BY DEF ChainInv
<1>4. QED
  BY <1>1, <1>2, <1>3, PTL DEF Spec

-----------------------------------------------------------------------------
(***************************************************************************)
(* The case that the code is written for: one engine process, whose daemon *)
(* and commands run one run_sync after the other.  It needs no hypothesis  *)
(* about the behaviour.                                                    *)
(***************************************************************************)
SingleWorker == \A v, w \in Workers : v = w

(* The four results above for one engine process, over the mail that each  *)
(* of them is about.                                                       *)
THEOREM OneProcessKeepsItsPromises ==
    SingleWorker /\ OrderlyMail /\ NamesTheirOwn =>
        (Spec => /\ [](CommittedFilesIntact /\ NoThreatRecordedClean /\ VersionChain)
                 /\ ImplementsLedger)
<1> SUFFICES ASSUME SingleWorker, OrderlyMail, NamesTheirOwn
             PROVE  Spec => /\ [](CommittedFilesIntact /\ NoThreatRecordedClean /\ VersionChain)
                            /\ ImplementsLedger
  OBVIOUS
<1>1. OneWorkerPerEmail /\ OneWorkerPerThread
  BY DEF SingleWorker, OneWorkerPerEmail, OneWorkerPerThread
<1>2. NoDiffNames
  BY DEF OrderlyMail, NamesNotReserved, NotReserved, NoDiffNames
<1>3. Spec /\ []OneWorkerPerEmail => []CommittedFilesIntact
  BY CommittedFilesStayIntact
<1>4. Spec /\ []OneWorkerPerEmail => []NoThreatRecordedClean
  BY <1>2, CleanRowsAreHarmless
<1>5. Spec /\ []OneWorkerPerThread => []VersionChain
  BY VersionsFormChains
<1>6. Spec /\ []OneWorkerPerEmail => ImplementsLedger
  BY PipelineImplementsLedger
<1>7. QED
  BY <1>1, <1>3, <1>4, <1>5, <1>6, PTL

=============================================================================
