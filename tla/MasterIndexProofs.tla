------------------------- MODULE MasterIndexProofs -------------------------
(***************************************************************************)
(* Theorems about MasterIndex, for any processes, rows and crashes: what a *)
(* reader sees as long as no two refreshes overlap, and the types in any   *)
(* case.                                                                   *)
(***************************************************************************)
EXTENDS MasterIndex, FiniteSetTheorems, TLAPS

(* While refreshes have not met: types, ...                                *)
Typed ==
    /\ rows \subseteq Rows
    /\ content \in [Inodes -> [rows : SUBSET Rows, whole : BOOLEAN]]
    /\ tempName \in Inodes \cup {None} /\ indexName \in Inodes \cup {None}
    /\ pc \in [Processes -> {"idle", "open", "fill", "replace"}]
    /\ entries \in [Processes -> SUBSET Rows]
    /\ handle \in [Processes -> Inodes \cup {None}]

(* ... one refresh at a time, ... *)
Alone == \A p, q \in Refreshing : p = q

(* ... a temporary file that is not the index, ... *)
Apart == tempName # None => tempName # indexName

(* ... an index that is whole and behind the ledger, ... *)
GoodIndex == indexName # None => content[indexName].whole
Behind == Listed \subseteq rows

(* ... and a refresh that has read at least what the index lists and, in   *)
(* its last step, has written it.                                          *)
Prepared(p) ==
    /\ pc[p] # "idle" => Listed \subseteq entries[p] /\ entries[p] \subseteq rows
    /\ pc[p] = "fill" => /\ tempName # None /\ handle[p] = tempName
                         /\ content[tempName].rows = {}
    /\ pc[p] # "fill" => handle[p] = None
    /\ pc[p] = "replace" =>
         tempName # None /\ content[tempName] = [rows |-> entries[p], whole |-> TRUE]

Orderly ==
    Typed /\ Alone /\ Apart /\ GoodIndex /\ Behind /\ \A p \in Processes : Prepared(p)
IndexInv == ~raced => Orderly

(* There is an inode for the temporary file that the index does not have.  *)
LEMMA FreshInode ==
    ASSUME Orderly, tempName = None, NEW p \in Processes, pc[p] = "open"
    PROVE  Fresh \in Inodes /\ Fresh # indexName
<1>1. \A q \in Processes : handle[q] = None
  BY DEF Orderly, Alone, Refreshing, Prepared, Typed
<1>2. Used \subseteq {None, indexName}
  BY <1>1 DEF Used
<1>3. Cardinality(Inodes) >= 2 /\ IsFiniteSet(Inodes)
  BY IndexAssumption, FS_CardinalityType
<1>4. ~ (Inodes \subseteq {indexName})
  <2>1. IsFiniteSet({indexName}) /\ Cardinality({indexName}) = 1
    BY FS_Singleton
  <2>2. Inodes \subseteq {indexName} => Cardinality(Inodes) <= 1
    BY <2>1, FS_Subset
  <2>3. Cardinality(Inodes) \in Nat
    BY <1>3, FS_CardinalityType
  <2>4. QED
    BY <1>3, <2>2, <2>3
<1>5. \E i \in Inodes : i \notin Used
  BY <1>2, <1>4, IndexAssumption
<1>6. Fresh \in Inodes /\ Fresh \notin Used
  BY <1>5 DEF Fresh
<1>7. QED
  BY <1>6 DEF Used

(* What was orderly stays so, and forgets no row.                          *)
LEMMA NextOrderly ==
    ASSUME Orderly, [Next]_vars, ~raced'
    PROVE  Orderly' /\ Listed \subseteq Listed'
<1> USE DEF Goto
<1>0. /\ Typed /\ Alone /\ Apart /\ GoodIndex /\ Behind
      /\ \A p \in Processes : Prepared(p) /\ None \notin Inodes
  BY IndexAssumption DEF Orderly
<1>1. ASSUME NEW r \in Rows, CommitRow(r) PROVE Orderly' /\ Listed \subseteq Listed'
  BY <1>0, <1>1 DEF CommitRow, Orderly, Typed, Alone, Refreshing, Apart, GoodIndex, Behind,
                    Listed, Prepared
<1>2. ASSUME NEW p \in Processes, Query(p) PROVE Orderly' /\ Listed \subseteq Listed'
  <2>1. \A q \in Processes : pc[q] = "idle"
    BY <1>2 DEF Query, Refreshing
  <2>2. /\ pc' = [pc EXCEPT ![p] = "open"] /\ entries' = [entries EXCEPT ![p] = rows]
        /\ UNCHANGED <<rows, content, tempName, indexName, handle>>
    BY <1>2 DEF Query
  <2>3. Typed' /\ Alone'
    BY <1>0, <2>1, <2>2 DEF Typed, Alone, Refreshing
  <2>4. Listed' = Listed /\ Apart' /\ GoodIndex' /\ Behind'
    BY <1>0, <2>2 DEF Listed, Apart, GoodIndex, Behind
  <2>5. ASSUME NEW q \in Processes PROVE Prepared(q)'
    BY <1>0, <2>1, <2>2, <2>4 DEF Prepared, Typed, Behind
  <2>6. QED
    BY <2>3, <2>4, <2>5 DEF Orderly
<1>3. ASSUME NEW p \in Processes, OpenTemp(p) PROVE Orderly' /\ Listed \subseteq Listed'
  <2>1. PICK i \in Inodes : /\ i # indexName /\ tempName' = i
                            /\ handle' = [handle EXCEPT ![p] = i]
                            /\ content' = [content EXCEPT ![i] = [rows |-> {}, whole |-> FALSE]]
    <3>1. PICK i \in IF tempName # None THEN {tempName} ELSE {Fresh} :
             /\ tempName' = i /\ handle' = [handle EXCEPT ![p] = i]
             /\ content' = [content EXCEPT ![i] = [rows |-> {}, whole |-> FALSE]]
      BY <1>3 DEF OpenTemp
    <3>2. i \in Inodes /\ i # indexName
      BY <1>0, <1>3, <3>1, FreshInode DEF Apart, Typed, OpenTemp
    <3>3. QED
      BY <3>1, <3>2
  <2>2. pc[p] = "open" /\ pc' = [pc EXCEPT ![p] = "fill"] /\ UNCHANGED <<rows, indexName, entries>>
    BY <1>3 DEF OpenTemp
  <2>3. Typed'
    BY <1>0, <2>1, <2>2 DEF Typed
  <2>4. Alone' /\ \A q \in Processes \ {p} : pc[q] = "idle" /\ pc'[q] = "idle"
    BY <1>0, <2>2 DEF Typed, Alone, Refreshing
  <2>5. Listed' = Listed /\ Apart' /\ GoodIndex' /\ Behind'
    BY <1>0, <2>1, <2>2 DEF Listed, Apart, GoodIndex, Behind, Typed
  <2>6. ASSUME NEW q \in Processes PROVE Prepared(q)'
    BY <1>0, <2>1, <2>2, <2>4, <2>5 DEF Prepared, Typed
  <2>7. QED
    BY <2>3, <2>4, <2>5, <2>6 DEF Orderly
<1>4. ASSUME NEW p \in Processes, Fill(p) PROVE Orderly' /\ Listed \subseteq Listed'
  <2>1. /\ pc[p] = "fill" /\ pc' = [pc EXCEPT ![p] = "replace"]
        /\ UNCHANGED <<rows, tempName, indexName, entries>>
        /\ handle' = [handle EXCEPT ![p] = None]
        /\ content' = [content EXCEPT ![handle[p]] =
                         [rows |-> entries[p], whole |-> content[handle[p]].rows \subseteq entries[p]]]
    BY <1>4 DEF Fill
  <2>2. /\ handle[p] = tempName /\ tempName \in Inodes /\ tempName # indexName
        /\ content[handle[p]].rows = {}
    BY <1>0, <2>1 DEF Prepared, Apart, Typed
  <2>a. content' = [content EXCEPT ![handle[p]] = [rows |-> entries[p], whole |-> TRUE]]
    <3>1. (content[handle[p]].rows \subseteq entries[p]) = TRUE
      BY <2>2
    <3>2. QED
      BY <2>1, <3>1, Zenon
  <2>3. Typed'
    <3>1. [rows |-> entries[p], whole |-> TRUE] \in [rows : SUBSET Rows, whole : BOOLEAN]
      BY <1>0 DEF Typed
    <3>2. QED
      BY <1>0, <2>1, <2>a, <3>1 DEF Typed
  <2>4. Alone' /\ \A q \in Processes \ {p} : pc[q] = "idle" /\ pc'[q] = "idle"
    BY <1>0, <2>1 DEF Typed, Alone, Refreshing
  <2>5. Listed' = Listed /\ Apart' /\ GoodIndex' /\ Behind'
    BY <1>0, <2>1, <2>2, <2>a DEF Listed, Apart, GoodIndex, Behind, Typed
  <2>6. ASSUME NEW q \in Processes PROVE Prepared(q)'
    BY <1>0, <2>1, <2>2, <2>4, <2>5, <2>a DEF Prepared, Typed
  <2>7. QED
    BY <2>3, <2>4, <2>5, <2>6 DEF Orderly
<1>5. ASSUME NEW p \in Processes, ReplaceIndex(p) PROVE Orderly' /\ Listed \subseteq Listed'
  <2>1. /\ pc[p] = "replace" /\ pc' = [pc EXCEPT ![p] = "idle"] /\ tempName # None
        /\ indexName' = tempName /\ tempName' = None
        /\ UNCHANGED <<rows, content, entries, handle>>
    BY <1>5 DEF ReplaceIndex
  <2>2. /\ content[tempName] = [rows |-> entries[p], whole |-> TRUE]
        /\ Listed \subseteq entries[p] /\ entries[p] \subseteq rows
    BY <1>0, <2>1 DEF Prepared
  <2>3. Typed'
    BY <1>0, <2>1 DEF Typed
  <2>4. Alone' /\ \A q \in Processes : pc'[q] = "idle"
    BY <1>0, <2>1 DEF Typed, Alone, Refreshing
  <2>5. Listed' = entries[p] /\ Apart' /\ GoodIndex' /\ Behind'
    BY <2>1, <2>2 DEF Listed, Apart, GoodIndex, Behind
  <2>6. ASSUME NEW q \in Processes PROVE Prepared(q)'
    <3>a. q # p => pc[q] = "idle"
      BY <1>0, <2>1 DEF Alone, Refreshing
    <3>1. handle[q] = None
      BY <1>0, <2>1, <3>a DEF Prepared
    <3>2. QED
      BY <2>1, <2>4, <3>1 DEF Prepared
  <2>7. QED
    BY <2>2, <2>3, <2>4, <2>5, <2>6 DEF Orderly
<1>6. ASSUME NEW p \in Processes, ReplaceMissing(p) PROVE FALSE
  BY <1>0, <1>6 DEF ReplaceMissing, Prepared
<1>7. ASSUME NEW p \in Processes, Crash(p) PROVE Orderly' /\ Listed \subseteq Listed'
  <2>1. /\ pc' = [pc EXCEPT ![p] = "idle"] /\ handle' = [handle EXCEPT ![p] = None]
        /\ UNCHANGED <<rows, content, tempName, indexName, entries>>
    BY <1>7 DEF Crash
  <2>2. Typed' /\ Alone'
    BY <1>0, <2>1 DEF Typed, Alone, Refreshing
  <2>3. Listed' = Listed /\ Apart' /\ GoodIndex' /\ Behind'
    BY <1>0, <2>1 DEF Listed, Apart, GoodIndex, Behind
  <2>4. ASSUME NEW q \in Processes PROVE Prepared(q)'
    BY <1>0, <2>1, <2>3 DEF Prepared, Typed
  <2>5. QED
    BY <2>2, <2>3, <2>4 DEF Orderly
<1>8. CASE UNCHANGED vars
  BY <1>0, <1>8 DEF vars, Orderly, Typed, Alone, Refreshing, Apart, GoodIndex, Behind, Listed,
                    Prepared
<1>9. QED
  BY <1>1, <1>2, <1>3, <1>4, <1>5, <1>6, <1>7, <1>8 DEF Next, Step

(* That refreshes have met is not forgotten. *)
LEMMA RacedStays == [Next]_vars /\ ~raced' => ~raced
<1> SUFFICES ASSUME [Next]_vars, ~raced' PROVE ~raced
  OBVIOUS
<1>1. ASSUME NEW p \in Processes, Query(p) PROVE ~raced
  <2>1. raced' = (raced \/ Refreshing # {})
    BY <1>1, Zenon DEF Query
  <2>2. QED
    BY <2>1, Zenon
<1>2. ASSUME NEW p \in Processes,
             OpenTemp(p) \/ Fill(p) \/ ReplaceIndex(p) \/ ReplaceMissing(p) \/ Crash(p)
      PROVE  ~raced
  BY <1>2 DEF OpenTemp, Fill, ReplaceIndex, ReplaceMissing, Crash
<1>3. ASSUME NEW r \in Rows, CommitRow(r) PROVE ~raced
  BY <1>3 DEF CommitRow
<1>4. QED
  BY <1>1, <1>2, <1>3 DEF Next, Step, vars

LEMMA IndexHolds == Spec => []IndexInv
<1>1. Init => IndexInv
  <2> SUFFICES ASSUME Init PROVE Orderly
    BY DEF IndexInv
  <2>1. Typed
    BY DEF Init, Typed
  <2>2. Alone /\ Apart /\ GoodIndex /\ Behind
    BY DEF Init, Alone, Refreshing, Apart, GoodIndex, Behind, Listed
  <2>3. \A p \in Processes : Prepared(p)
    BY DEF Init, Prepared
  <2>4. QED
    BY <2>1, <2>2, <2>3 DEF Orderly
<1>2. IndexInv /\ [Next]_vars => IndexInv'
  BY NextOrderly, RacedStays DEF IndexInv
<1>3. QED
  BY <1>1, <1>2, PTL DEF Spec

(* A reader of INDEX.md never gets a truncated catalogue, whoever died     *)
(* while writing it, as long as no two processes refresh it at one time.   *)
THEOREM ReadersSeeWholeIndex == Spec => []IndexWhole
<1>1. IndexInv => IndexWhole
  BY DEF IndexInv, Orderly, GoodIndex, IndexWhole
<1>2. QED
  BY <1>1, IndexHolds, PTL

(* Under the same condition the catalogue never forgets a row.             *)
THEOREM IndexForgetsNothing == Spec => IndexMonotonic
<1>1. IndexInv /\ [Next]_vars => [~raced' => Listed \subseteq Listed']_vars
  BY NextOrderly, RacedStays DEF IndexInv
<1>2. QED
  BY <1>1, IndexHolds, PTL DEF Spec, IndexMonotonic
-----------------------------------------------------------------------------
(* The processes that have a file open, and the index, leave an inode over *)
(* for the temporary file, whatever the refreshes do to each other.        *)
LEMMA FreshTyped ==
    ASSUME TypeOK, tempName = None
    PROVE  Fresh \in Inodes
<1> DEFINE held == {handle[p] : p \in Processes}
           range == held \cup {indexName}
<1>1. IsFiniteSet(Processes) /\ IsFiniteSet(Inodes) /\ Cardinality(Processes) \in Nat
      /\ Cardinality(Inodes) \in Nat /\ Cardinality(Inodes) >= Cardinality(Processes) + 2
  BY IndexAssumption, FS_CardinalityType
<1>2. IsFiniteSet(held) /\ Cardinality(held) <= Cardinality(Processes)
  <2>1. handle \in Surjection(Processes, held)
    BY DEF Surjection, TypeOK
  <2>2. QED
    BY <1>1, <2>1, FS_Surjection
<1>3. IsFiniteSet(range) /\ Cardinality(range) <= Cardinality(Processes) + 1
  <2>1. /\ IsFiniteSet(held \cup {indexName})
        /\ Cardinality(held \cup {indexName}) =
             IF indexName \in held THEN Cardinality(held) ELSE Cardinality(held) + 1
    BY <1>2, FS_AddElement
  <2>2. Cardinality(held) \in Nat
    BY <1>2, FS_CardinalityType
  <2>3. QED
    BY <1>1, <1>2, <2>1, <2>2
<1> HIDE DEF range
<1>4. ~ (Inodes \subseteq range)
  BY <1>1, <1>3, FS_Subset, FS_CardinalityType
<1>5. PICK i \in Inodes : i \notin range
  BY <1>4
<1>6. i \notin Used
  BY <1>5, IndexAssumption DEF Used, range
<1>7. QED
  BY <1>6 DEF Fresh

(* TypeOK is inductive, however refreshes overlap.                         *)
LEMMA StepTyped ==
    ASSUME TypeOK, [Next]_vars
    PROVE  TypeOK'
<1> USE DEF Goto
<1>1. ASSUME NEW r \in Rows, CommitRow(r) PROVE TypeOK'
  BY <1>1 DEF CommitRow, TypeOK
<1>2. ASSUME NEW p \in Processes, Query(p) PROVE TypeOK'
  <2>1. raced' \in BOOLEAN
    <3>1. raced' = (raced \/ Refreshing # {})
      BY <1>2, Zenon DEF Query
    <3>2. QED
      BY <3>1, Zenon
  <2>2. /\ pc' = [pc EXCEPT ![p] = "open"] /\ entries' = [entries EXCEPT ![p] = rows]
        /\ UNCHANGED <<rows, content, tempName, indexName, handle, crashes>>
    BY <1>2 DEF Query
  <2>3. QED
    BY <2>1, <2>2 DEF TypeOK
<1>3. ASSUME NEW p \in Processes, OpenTemp(p) PROVE TypeOK'
  <2>1. PICK i \in IF tempName # None THEN {tempName} ELSE {Fresh} :
            /\ tempName' = i
            /\ handle' = [handle EXCEPT ![p] = i]
            /\ content' = [content EXCEPT ![i] = [rows |-> {}, whole |-> FALSE]]
    BY <1>3 DEF OpenTemp
  <2>2. i \in Inodes
    BY <2>1, FreshTyped DEF TypeOK
  <2>3. [rows |-> {}, whole |-> FALSE] \in [rows : SUBSET Rows, whole : BOOLEAN]
    OBVIOUS
  <2>4. content' \in [Inodes -> [rows : SUBSET Rows, whole : BOOLEAN]]
    BY <2>1, <2>2, <2>3 DEF TypeOK
  <2>5. pc' = [pc EXCEPT ![p] = "fill"] /\ UNCHANGED <<rows, indexName, entries, crashes, raced>>
    BY <1>3 DEF OpenTemp
  <2>6. QED
    BY <2>1, <2>2, <2>4, <2>5 DEF TypeOK
<1>4. ASSUME NEW p \in Processes, Fill(p) PROVE TypeOK'
  <2>1. PICK whole \in BOOLEAN :
          content' = [content EXCEPT ![handle[p]] = [rows |-> entries[p], whole |-> whole]]
    <3>1. content' = [content EXCEPT ![handle[p]] =
                       [rows |-> entries[p], whole |-> content[handle[p]].rows \subseteq entries[p]]]
      BY <1>4 DEF Fill
    <3>2. (content[handle[p]].rows \subseteq entries[p]) \in BOOLEAN
      OBVIOUS
    <3>3. QED
      BY <3>1, <3>2, Zenon
  <2>2. content' \in [Inodes -> [rows : SUBSET Rows, whole : BOOLEAN]]
    BY <2>1 DEF TypeOK
  <2>3. QED
    BY <1>4, <2>2 DEF Fill, TypeOK
<1>5. ASSUME NEW p \in Processes, ReplaceIndex(p) \/ ReplaceMissing(p) PROVE TypeOK'
  BY <1>5 DEF ReplaceIndex, ReplaceMissing, TypeOK
<1>6. ASSUME NEW p \in Processes, Crash(p) PROVE TypeOK'
  BY <1>6, IndexAssumption DEF Crash, TypeOK
<1>7. CASE UNCHANGED vars
  BY <1>7 DEF vars, TypeOK
<1>8. QED
  BY <1>1, <1>2, <1>3, <1>4, <1>5, <1>6, <1>7 DEF Next, Step

(* Every variable keeps its type, for any processes, rows and crashes; in  *)
(* particular the pool of inodes is never exhausted, so that the bound on  *)
(* it hides no behaviour.                                                  *)
THEOREM IndexTypeCorrect == Spec => []TypeOK
<1>1. Init => TypeOK
  <2> SUFFICES ASSUME Init PROVE TypeOK
    OBVIOUS
  <2>1. [rows |-> {}, whole |-> FALSE] \in [rows : SUBSET Rows, whole : BOOLEAN]
    OBVIOUS
  <2>2. content \in [Inodes -> [rows : SUBSET Rows, whole : BOOLEAN]]
    BY <2>1 DEF Init
  <2>3. crashes \in 0..MaxCrashes
    BY IndexAssumption DEF Init
  <2>4. QED
    BY <2>2, <2>3 DEF Init, TypeOK
<1>2. QED
  BY <1>1, StepTyped, PTL DEF Spec
=============================================================================
