----------------------------- MODULE MCDecisions -----------------------------
(***************************************************************************)
(* The pure decisions of the program, one question at a time, against what *)
(* they are meant to be: the lines of a rule file, a staged file, a list   *)
(* of plugins, a file name.                                                *)
(***************************************************************************)
EXTENDS SenderMatching, ContentInspection, PluginDispatch, DeliveredNames

CONSTANTS
    Users,      \* user names of addresses
    Stems       \* lengths of stems

ASSUME LabelsAssumption == {"a", "b"} \subseteq Letters

VARIABLE question

Labels == {<<"a">>, <<"b">>, <<"b", "a">>}
Addresses == [user : Users, labels : BoundedSeq(Labels, 3) \ {<< >>}]

Rules == [form : Forms, address : Addresses]

SomeEntries == [slip : BOOLEAN, link : BOOLEAN, nested : BOOLEAN, size : {1, 3}]

File(ext, header, guesses, fault, flags, physical, form, entries) ==
    [ext |-> ext, header |-> header, guesses |-> guesses, fault |-> fault,
     marked |-> "marked" \in flags, macros |-> "macros" \in flags,
     physical |-> physical, form |-> form, entries |-> entries]

LooseFiles ==
    {File(e, h, g, t, m, 1, d, << >>) :
        e \in Extensions, h \in Headers, g \in Guesses, t \in Faults \ {"container"},
        m \in SUBSET {"marked", "macros"}, d \in {"none", "zip"}}

EmptyFiles == {File(e, "other", {}, "none", {}, 0, "none", << >>) : e \in Extensions}

Archives ==
    {File(e, "other", {"allowed"}, t, {}, 1, d, s) :
        e \in {"safe", "office"}, t \in {"none", "container"}, d \in {"zip", "tar"},
        s \in BoundedSeq(SomeEntries, 3)}

NoQuestion == [about |-> "nothing"]

Init == question = NoQuestion

AskRule == \E r \in Rules : question' = [about |-> "rule", rule |-> r]

AskFile == \E f \in LooseFiles \cup EmptyFiles \cup Archives :
              question' = [about |-> "file", file |-> f]

AskPlugins == \E p \in BoundedSeq(Plugins, 3) : question' = [about |-> "plugins", plugins |-> p]

AskName == \E s \in Stems, e \in {0, 4, 250} :
              question' = [about |-> "name", name |-> [stem |-> s, ext |-> e]]

Ask == question = NoQuestion /\ (AskRule \/ AskFile \/ AskPlugins \/ AskName)

Answer == question # NoQuestion /\ question' = NoQuestion

Next == Ask \/ Answer

Spec == Init /\ [][Next]_question

(* A rule line, comments around it or not.                                 *)
Lines(r) == << <<"#", "a">>, RuleText(r), << >> >>

(* A rule in one of these six forms selects the senders that the documents *)
(* name for it and no others, but for "@domain", which selects what is     *)
(* below the domain as well: labels of domains are not cut, a star does    *)
(* not reach over the "@" (sender_filter.py 70-101).                       *)
RulesSelect ==
    question.about = "rule" =>
        LET r == question.rule
        IN \A a \in Addresses : Matches(Lines(r), a) <=> Named(r, a) \/ AlsoSelected(r, a)

(* The same without the exception: sender_filter.py 85, "Exact domain      *)
(* match via "@domain.com"", and excluded_senders.txt 9-10, where          *)
(* "@marketing.com" is "*@marketing.com" and what is below has a form of   *)
(* its own.  The code does otherwise.                                      *)
RulesSelectAsDocumented ==
    question.about = "rule" =>
        LET r == question.rule
        IN \A a \in Addresses : Matches(Lines(r), a) <=> Named(r, a)

(* No rule that lets an exception pass, and no early acceptance, delivers  *)
(* a file that the rules together refuse, and nothing that is harmless and *)
(* of its declared type is refused (magic_verifier.py 53-172,              *)
(* archive_guard.py 29-135, engine.py 485-495).                            *)
InspectionKeepsPolicy ==
    question.about = "file" =>
        LET f == question.file
        IN f.physical > 0 => (Delivered(f) <=> Harmless(f) /\ TypeFits(f))

(* A plugin that raises is as good as not there: it neither vetoes nor     *)
(* allows in place of others, and costs no other plugin its turn           *)
(* (plugins/manager.py 26-89).                                             *)
PluginFailuresContained ==
    question.about = "plugins" =>
        LET plugins == question.plugins
        IN /\ ShouldProcess(plugins) = ShouldProcess(Healthy(plugins))
           /\ DuplicateAction(plugins) = DuplicateAction(Healthy(plugins))
           /\ \A i \in DOMAIN plugins :
                ~Fails(plugins[i]) => Contains(EnrichContext(plugins), i)

(* path_sanitizer.py 71 enforces 255 bytes; the names made of a sanitized  *)
(* name exceed them, and the system call raises (engine.py 427-594).       *)
DerivedNamesFit ==
    question.about = "name" =>
        LET n == Sanitized(question.name)
        IN \A d \in {n, Suffixed(n), VaultName(n), ReportName(n), DiffName(n)} :
                Length(d) <= MaxName

MCUsers == {<<"a">>, <<"a", "b">>, <<"b", "a">>}

(* Characters that RFC 5322 allows in a user name. *)
MCOddUsers == {<<"a">>, <<"*">>, <<"#", "a">>}
==============================================================================
