---------------------------- MODULE SenderMatching ----------------------------
(***************************************************************************)
(* SenderFilter._match_patterns: a sender against the lines of a rule      *)
(* list.  Texts are sequences of characters in lower case, since every     *)
(* comparison of the code folds case; addresses are what normalize_address *)
(* makes of the From header.                                               *)
(*                                                                         *)
(* Of the glob syntax of wcmatch only the star and the question mark are   *)
(* translated, for texts without a slash and without a dot in front:       *)
(* brackets, braces and extended globs are not.                            *)
(***************************************************************************)
EXTENDS Integers, Sequences, SequencesExt

CONSTANT Letters        \* what the labels of domains consist of

Marks == {".", "@", "*", "?", "#"}

ASSUME LettersAssumption == Letters \cap Marks = {}

Chars == Letters \cup Marks

(* An address is a user name and the labels of its domain. The text of a   *)
(* domain is its labels, a dot before each, without the first dot.         *)
Join(text, label) == text \o <<".">> \o label

Dotted(labels) ==
    LET text[i \in 0..Len(labels)] == IF i = 0 THEN << >> ELSE Join(text[i-1], labels[i])
    IN text

DomainText(labels) == Tail(Dotted(labels)[Len(labels)])

AddressText(a) == a.user \o <<"@">> \o DomainText(a.labels)

(* A rule in one of the forms that the headers of the rule files and the   *)
(* code's comments name, made of what an address consists of; braces apart *)
(* (excluded_senders.txt 8-12, sender_filter.py 85 and 97).                *)
Forms == {"address", "@domain", "*@domain", "domain", "*@*.domain", "user*@*"}

RuleText(r) ==
    CASE r.form = "address" -> AddressText(r.address)
      [] r.form = "@domain" -> <<"@">> \o DomainText(r.address.labels)
      [] r.form = "domain" -> DomainText(r.address.labels)
      [] r.form = "*@domain" -> <<"*", "@">> \o DomainText(r.address.labels)
      [] r.form = "*@*.domain" -> <<"*", "@", "*", ".">> \o DomainText(r.address.labels)
      [] r.form = "user*@*" -> r.address.user \o <<"*", "@", "*">>

-----------------------------------------------------------------------------
IsComment(line) == line = << >> \/ Head(line) = "#"

Fits(c, p) == p = "?" \/ c = p

(* globmatch: the beginnings of the text, by their lengths, that match the *)
(* beginning of the pattern; matched[j] is about j characters of it.       *)
Read(text, c, matched) ==
    IF c = "*" THEN {k \in 0..Len(text) : \E i \in matched : i <= k}
    ELSE {k \in 1..Len(text) : k - 1 \in matched /\ Fits(text[k], c)}

Matched(text, pattern) ==
    LET matched[j \in 0..Len(pattern)] ==
          IF j = 0 THEN {0} ELSE Read(text, pattern[j], matched[j-1])
    IN matched

Glob(text, pattern) == Len(text) \in Matched(text, pattern)[Len(pattern)]

(* Mutant: "evilcorp.com" ends with "corp.com" as well. *)
BelowAnywhere(domain, d) == domain = d \/ IsSuffix(d, domain)

Below(domain, d) == domain = d \/ IsSuffix(<<".">> \o d, domain)

LineMatches(line, a) ==
    LET domain == DomainText(a.labels)
        isDomain == Head(line) = "@"
        pattern == IF isDomain THEN <<"*">> \o line ELSE line
    IN /\ ~IsComment(line)
       /\ \/ isDomain /\ Below(domain, Tail(line))
          \/ Glob(AddressText(a), pattern)
          \/ pattern = domain

(* is_excluded and is_approved: the first line that matches decides.       *)
Matches(lines, a) == \E i \in DOMAIN lines : LineMatches(lines[i], a)

-----------------------------------------------------------------------------
(* The senders of a rule, without texts. *)
EndsWith(labels, d) ==
    /\ Len(d) <= Len(labels)
    /\ SubSeq(labels, Len(labels) - Len(d) + 1, Len(labels)) = d

IsBelow(labels, d) == labels # d /\ EndsWith(labels, d)

(* Those that the documents name: an "Exact email", a "Domain wildcard:    *)
(* *@marketing.com  or  @marketing.com", a "Subdomain glob:                *)
(* *@*.marketing.com", a "Prefix glob: no-reply*@*" (excluded_senders.txt  *)
(* 8-11), a "Domain match directly" (sender_filter.py 97).                 *)
Named(r, a) ==
    CASE r.form = "address" -> a = r.address
      [] r.form \in {"@domain", "*@domain", "domain"} -> a.labels = r.address.labels
      [] r.form = "*@*.domain" -> IsBelow(a.labels, r.address.labels)
      [] r.form = "user*@*" -> IsPrefix(r.address.user, a.user)

(* Those that it selects besides: what is below the domain, by the second  *)
(* disjunct under the comment "Exact domain match via "@domain.com""       *)
(* (sender_filter.py 85-88).                                               *)
AlsoSelected(r, a) == r.form = "@domain" /\ IsBelow(a.labels, r.address.labels)
==============================================================================
