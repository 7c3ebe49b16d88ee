------------------------------ MODULE RuleStore ------------------------------
(***************************************************************************)
(* excluded_senders.txt and the processes that edit it: the watcher adds   *)
(* the senders of [Blocked Senders], the commands "exclude add" and        *)
(* "exclude remove" edit a list of their own.  Each loads the rules of the *)
(* configuration and of the file once, when it starts, and saves by        *)
(* truncating the file and writing its whole list.  approved_senders.txt   *)
(* is handled by the same code under other names.                          *)
(***************************************************************************)
EXTENDS Integers, FiniteSets

CONSTANTS
    Processes,
    Rules,
    Configured,  \* the rules of config.yaml, which all processes read
    MaxCrashes   \* bound: processes killed in a behaviour

ASSUME CrashesAssumption == MaxCrashes \in Nat /\ Rules # {} /\ Configured \subseteq Rules

VARIABLES
    file,    \* the rules that a reader of the file gets
    pc,      \* of each process: off, up, save, write
    memory,  \* its SenderFilter._rules
    command, \* the edit it is saving: <<"add" or "remove", rule>>
    wanted,  \* history: the rules after the edits that were saved, in order
    torn,    \* history: a process died between truncating and writing
    met,     \* history: two processes have had the rules at one time
    crashes

vars == <<file, pc, memory, command, wanted, torn, met, crashes>>

Init ==
    /\ file = {} /\ wanted = {} /\ torn = FALSE /\ met = FALSE /\ crashes = 0
    /\ pc = [p \in Processes |-> "off"]
    /\ memory = [p \in Processes |-> {}]
    /\ command = [p \in Processes |-> <<"none", CHOOSE r \in Rules : TRUE>>]

Running == {p \in Processes : pc[p] # "off"}
Goto(p, l) == pc' = [pc EXCEPT ![p] = l]

(* Mutant: the comment lines of the file are taken for rules. *)
StartWithHeader(p) ==
    /\ pc[p] = "off"
    /\ Goto(p, "up")
    /\ memory' = [memory EXCEPT ![p] = Configured \cup file \cup {"# Excluded Senders"}]
    /\ met' = (met \/ Running # {})
    /\ UNCHANGED <<file, command, wanted, torn, crashes>>

(* The constructor: the rules of the configuration, then load_from_file. *)
Start(p) ==
    /\ pc[p] = "off"
    /\ Goto(p, "up")
    /\ memory' = [memory EXCEPT ![p] = Configured \cup file]
    /\ met' = (met \/ Running # {})
    /\ UNCHANGED <<file, command, wanted, torn, crashes>>

Stop(p) ==
    /\ pc[p] = "up"
    /\ Goto(p, "off")
    /\ UNCHANGED <<file, memory, command, wanted, torn, met, crashes>>

(* add_rule; the caller saves whether or not the rule is new. *)
Add(p, r) ==
    /\ pc[p] = "up"
    /\ memory' = [memory EXCEPT ![p] = @ \cup {r}]
    /\ command' = [command EXCEPT ![p] = <<"add", r>>]
    /\ Goto(p, "save")
    /\ UNCHANGED <<file, wanted, torn, met, crashes>>

(* remove_rule; the command saves only if the rule was found. *)
Remove(p, r) ==
    /\ pc[p] = "up" /\ r \in memory[p]
    /\ memory' = [memory EXCEPT ![p] = @ \ {r}]
    /\ command' = [command EXCEPT ![p] = <<"remove", r>>]
    /\ Goto(p, "save")
    /\ UNCHANGED <<file, wanted, torn, met, crashes>>

(* open(file_path, "w") *)
Truncate(p) ==
    /\ pc[p] = "save"
    /\ file' = {}
    /\ Goto(p, "write")
    /\ UNCHANGED <<memory, command, wanted, torn, met, crashes>>

Edited(c) == IF c[1] = "add" THEN wanted \cup {c[2]} ELSE wanted \ {c[2]}

(* Mutant: only the new rule is written, not the list. *)
WriteLast(p) ==
    /\ pc[p] = "write"
    /\ file' = memory[p] \cap {command[p][2]}
    /\ wanted' = Edited(command[p])
    /\ Goto(p, "up")
    /\ UNCHANGED <<memory, command, torn, met, crashes>>

(* The lines reach the file when it is closed. *)
Write(p) ==
    /\ pc[p] = "write"
    /\ file' = memory[p]
    /\ wanted' = Edited(command[p])
    /\ Goto(p, "up")
    /\ UNCHANGED <<memory, command, torn, met, crashes>>

Crash(p) ==
    /\ pc[p] # "off"
    /\ crashes < MaxCrashes
    /\ crashes' = crashes + 1
    /\ torn' = (torn \/ pc[p] = "write")
    /\ Goto(p, "off")
    /\ UNCHANGED <<file, memory, command, wanted, met>>

Next == \E p \in Processes :
    \/ Start(p) \/ Stop(p) \/ Truncate(p) \/ Write(p) \/ Crash(p)
    \/ \E r \in Rules : Add(p, r) \/ Remove(p, r)

Spec == Init /\ [][Next]_vars

-----------------------------------------------------------------------------
(* Every variable keeps its type: only rules get into the lists.           *)
TypeOK ==
    /\ file \subseteq Rules /\ wanted \subseteq Rules
    /\ pc \in [Processes -> {"off", "up", "save", "write"}]
    /\ memory \in [Processes -> SUBSET Rules]
    /\ command \in [Processes -> {"none", "add", "remove"} \X Rules]
    /\ torn \in BOOLEAN /\ met \in BOOLEAN /\ crashes \in 0..MaxCrashes

Quiet == \A p \in Processes : pc[p] # "write"

(* What edits can change for good: a start brings back the configured ones. *)
Edits(rules) == rules \ Configured

Consistent ==
    /\ Edits(file) = Edits(wanted)
    /\ \A p \in Processes : pc[p] = "up" => Edits(memory[p]) = Edits(wanted)

(* With one editor at a time, whichever it is, the file has between two    *)
(* saves the rules of all the edits that were saved, and so has the        *)
(* running process, but for rules of the configuration: stops, restarts    *)
(* and crashes outside the write of a save lose nothing                    *)
(* (sender_filter.py 32-37, 105-119, 129-152).                             *)
EditsKept == (Quiet /\ ~torn /\ ~met) => Consistent

(* Specification report, line 36: a blocked sender is "permanently added   *)
(* to excluded_senders.txt".  The same, whoever else edits the file and    *)
(* whenever a process dies.                                                *)
RulesPermanent == Quiet => Consistent
==============================================================================
