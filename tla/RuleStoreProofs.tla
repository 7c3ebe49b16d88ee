--------------------------- MODULE RuleStoreProofs ---------------------------
(***************************************************************************)
(* Theorems about RuleStore, for any processes, rules and crashes.         *)
(***************************************************************************)
EXTENDS RuleStore, TLAPS

(* What one editor at a time knows at each step of a save: the edit it is  *)
(* saving is the one that its list is ahead of the file by.                *)
Alone == \A p, q \in Running : p = q
AtStep(p) ==
    /\ pc[p] = "up" => Edits(memory[p]) = Edits(wanted)
    /\ pc[p] \in {"save", "write"} => /\ command[p][1] \in {"add", "remove"}
                                      /\ Edits(memory[p]) = Edits(Edited(command[p]))
EditsInv ==
    ~torn /\ ~met =>
        /\ Alone
        /\ Quiet => Edits(file) = Edits(wanted)
        /\ \A p \in Processes : AtStep(p)

(* The rule files are empty and nobody runs.                               *)
LEMMA InitTyped == Init => TypeOK
<1> SUFFICES ASSUME Init PROVE TypeOK
  OBVIOUS
<1>1. <<"none", CHOOSE r \in Rules : TRUE>> \in {"none", "add", "remove"} \X Rules
  BY CrashesAssumption
<1>2. command \in [Processes -> {"none", "add", "remove"} \X Rules]
  BY <1>1 DEF Init
<1>3. pc \in [Processes -> {"off", "up", "save", "write"}]
      /\ memory \in [Processes -> SUBSET Rules]
  BY DEF Init
<1>4. crashes \in 0..MaxCrashes /\ file \subseteq Rules /\ wanted \subseteq Rules
  BY CrashesAssumption DEF Init
<1>5. torn \in BOOLEAN /\ met \in BOOLEAN
  BY DEF Init
<1>6. QED
  BY <1>2, <1>3, <1>4, <1>5 DEF TypeOK

(* Each action keeps the types. *)
LEMMA NextTyped == TypeOK /\ [Next]_vars => TypeOK'
<1> SUFFICES ASSUME TypeOK, [Next]_vars PROVE TypeOK'
  OBVIOUS
<1> USE DEF Goto
<1>1. ASSUME NEW p \in Processes, Start(p) \/ Stop(p) \/ Truncate(p) PROVE TypeOK'
  BY <1>1, CrashesAssumption DEF Start, Stop, Truncate, TypeOK
<1>2. ASSUME NEW p \in Processes, NEW r \in Rules, Add(p, r) \/ Remove(p, r) PROVE TypeOK'
  <2>1. /\ <<"add", r>> \in {"none", "add", "remove"} \X Rules
        /\ <<"remove", r>> \in {"none", "add", "remove"} \X Rules
    OBVIOUS
  <2>2. /\ pc' \in [Processes -> {"off", "up", "save", "write"}]
        /\ memory' \in [Processes -> SUBSET Rules]
    BY <1>2 DEF Add, Remove, TypeOK
  <2>3. command' \in [Processes -> {"none", "add", "remove"} \X Rules]
    BY <1>2, <2>1 DEF Add, Remove, TypeOK
  <2>4. QED
    BY <1>2, <2>2, <2>3 DEF Add, Remove, TypeOK
<1>3. ASSUME NEW p \in Processes, Write(p) PROVE TypeOK'
  <2>1. command[p] \in {"none", "add", "remove"} \X Rules
    BY DEF TypeOK
  <2>2. command[p][2] \in Rules
    BY <2>1
  <2>3. Edited(command[p]) \subseteq Rules
    BY <2>2 DEF Edited, TypeOK
  <2>4. QED
    BY <1>3, <2>3 DEF Write, TypeOK
<1>4. ASSUME NEW p \in Processes, Crash(p) PROVE TypeOK'
  BY <1>4, CrashesAssumption DEF Crash, TypeOK
<1>5. CASE UNCHANGED vars
  BY <1>5 DEF vars, TypeOK
<1>6. QED
  BY <1>1, <1>2, <1>3, <1>4, <1>5 DEF Next

(* Every variable keeps its type: only rules get into the lists.           *)
THEOREM RulesTypeCorrect == Spec => []TypeOK
BY InitTyped, NextTyped, PTL DEF Spec

(* A process that is alone and takes a step stays alone. *)
LEMMA StaysAlone ==
    ASSUME Alone, TypeOK, NEW p \in Processes, pc[p] # "off",
           pc' = [pc EXCEPT ![p] = pc'[p]]
    PROVE  /\ Alone'
           /\ \A q \in Processes : q # p => pc'[q] = "off" /\ pc[q] = "off"
BY DEF Alone, Running, TypeOK

(* Each step keeps the editor ahead of the file by the edit it is saving.  *)
LEMMA NextEdits == TypeOK /\ EditsInv /\ [Next]_vars => EditsInv'
<1> SUFFICES ASSUME TypeOK, EditsInv, [Next]_vars, ~torn', ~met' PROVE EditsInv'
  BY DEF EditsInv
<1>0. ~torn /\ ~met
  <2>1. ASSUME NEW p \in Processes, Start(p) PROVE ~torn /\ ~met
    <3>1. torn' = torn /\ met' = (met \/ Running # {})
      BY <2>1, Zenon DEF Start
    <3>2. QED
      BY <3>1, Zenon
  <2>2. ASSUME NEW p \in Processes, Crash(p) PROVE ~torn /\ ~met
    <3>1. met' = met /\ torn' = (torn \/ pc[p] = "write")
      BY <2>2, Zenon DEF Crash
    <3>2. QED
      BY <3>1, Zenon
  <2>3. \A p \in Processes : Stop(p) \/ Truncate(p) \/ Write(p) => ~torn /\ ~met
    BY DEF Stop, Truncate, Write
  <2>4. \A p \in Processes, r \in Rules : Add(p, r) \/ Remove(p, r) => ~torn /\ ~met
    BY DEF Add, Remove
  <2>5. QED
    BY <2>1, <2>2, <2>3, <2>4 DEF Next, vars
<1>a. Alone /\ (Quiet => Edits(file) = Edits(wanted)) /\ \A p \in Processes : AtStep(p)
  BY <1>0 DEF EditsInv
<1> USE DEF Goto
<1>1. ASSUME NEW p \in Processes, Start(p) PROVE EditsInv'
  <2>1. \A q \in Processes : pc[q] = "off"
    BY <1>1 DEF Start, Running
  <2>2. Edits(file) = Edits(wanted)
    BY <1>a, <2>1 DEF Quiet
  <2>3. /\ pc'[p] = "up" /\ memory'[p] = Configured \cup file /\ UNCHANGED <<file, command, wanted>>
        /\ \A q \in Processes \ {p} : pc'[q] = "off"
    BY <1>1, <2>1 DEF Start, TypeOK
  <2>4. QED
    BY <2>2, <2>3 DEF EditsInv, Alone, Running, Quiet, AtStep, Edits
<1>2. ASSUME NEW p \in Processes, Stop(p) \/ Crash(p) PROVE EditsInv'
  <2>1. /\ pc[p] # "off" /\ pc[p] # "write" /\ pc'[p] = "off"
        /\ pc' = [pc EXCEPT ![p] = "off"] /\ UNCHANGED <<file, memory, command, wanted>>
    BY <1>2 DEF Stop, Crash, TypeOK
  <2>2. Alone' /\ \A q \in Processes : q # p => pc'[q] = "off" /\ pc[q] = "off"
    BY <1>a, <2>1, StaysAlone
  <2>3. Edits(file)' = Edits(wanted)'
    BY <1>a, <2>1, <2>2 DEF Quiet, Edits
  <2>4. QED
    BY <2>1, <2>2, <2>3 DEF EditsInv, AtStep
<1>3. ASSUME NEW p \in Processes, NEW r \in Rules, Add(p, r) \/ Remove(p, r)
      PROVE  EditsInv'
  <2>1. /\ pc[p] = "up" /\ pc'[p] = "save" /\ pc' = [pc EXCEPT ![p] = "save"]
        /\ UNCHANGED <<file, wanted>>
    BY <1>3 DEF Add, Remove, TypeOK
  <2>2. Alone' /\ \A q \in Processes : q # p => pc'[q] = "off" /\ pc[q] = "off"
    BY <1>a, <2>1, StaysAlone
  <2>3. Edits(file)' = Edits(wanted)' /\ Edits(memory[p]) = Edits(wanted)
    BY <1>a, <2>1, <2>2 DEF Quiet, AtStep, Edits
  <2>4. /\ command'[p][1] \in {"add", "remove"}
        /\ Edits(memory'[p]) = Edits(Edited(command'[p]))
    <3>1. CASE Add(p, r)
      <4>1. command'[p] = <<"add", r>> /\ memory'[p] = memory[p] \cup {r}
        BY <3>1 DEF Add, TypeOK
      <4>2. QED
        BY <2>3, <4>1 DEF Edited, Edits
    <3>2. CASE Remove(p, r)
      <4>1. command'[p] = <<"remove", r>> /\ memory'[p] = memory[p] \ {r}
        BY <3>2 DEF Remove, TypeOK
      <4>2. QED
        BY <2>3, <4>1 DEF Edited, Edits
    <3>3. QED
      BY <1>3, <3>1, <3>2
  <2>5. Edited(command[p])' = Edited(command'[p])
    BY <2>1 DEF Edited
  <2>6. QED
    BY <2>1, <2>2, <2>3, <2>4, <2>5 DEF EditsInv, AtStep, Edits
<1>4. ASSUME NEW p \in Processes, Truncate(p) PROVE EditsInv'
  <2>1. /\ pc[p] = "save" /\ pc'[p] = "write" /\ pc' = [pc EXCEPT ![p] = "write"]
        /\ UNCHANGED <<memory, command, wanted>>
    BY <1>4 DEF Truncate, TypeOK
  <2>2. Alone' /\ \A q \in Processes : q # p => pc'[q] = "off" /\ pc[q] = "off"
    BY <1>a, <2>1, StaysAlone
  <2>3. AtStep(p)'
    BY <1>a, <2>1 DEF AtStep, Edited, Edits
  <2>4. QED
    BY <2>1, <2>2, <2>3 DEF EditsInv, AtStep, Quiet
<1>5. ASSUME NEW p \in Processes, Write(p) PROVE EditsInv'
  <2>1. /\ pc[p] = "write" /\ pc'[p] = "up" /\ pc' = [pc EXCEPT ![p] = "up"]
        /\ file' = memory[p] /\ wanted' = Edited(command[p]) /\ memory' = memory
    BY <1>5 DEF Write, TypeOK
  <2>2. Alone' /\ \A q \in Processes : q # p => pc'[q] = "off" /\ pc[q] = "off"
    BY <1>a, <2>1, StaysAlone
  <2>3. Edits(memory[p]) = Edits(Edited(command[p]))
    BY <1>a, <2>1 DEF AtStep
  <2>4. QED
    BY <2>1, <2>2, <2>3 DEF EditsInv, AtStep, Edits
<1>6. CASE UNCHANGED vars
  BY <1>a, <1>6 DEF vars, EditsInv, Alone, Running, Quiet, AtStep, Edited, Edits
<1>7. QED
  BY <1>1, <1>2, <1>3, <1>4, <1>5, <1>6 DEF Next

(* With one editor at a time, the file has between two saves the rules of  *)
(* all the edits that were saved, and so has the running process, but for  *)
(* the rules of the configuration, however many processes start, stop and  *)
(* die outside the write of a save.                                        *)
THEOREM OneEditorKeepsEdits == Spec => []EditsKept
<1>1. Init => EditsInv
  BY DEF Init, EditsInv, Alone, Running, AtStep
<1>2. EditsInv => EditsKept
  BY DEF EditsInv, EditsKept, Consistent, AtStep
<1>3. QED
  BY <1>1, <1>2, InitTyped, NextTyped, NextEdits, PTL DEF Spec
=============================================================================
