-------------------------- MODULE ContentInspection --------------------------
(***************************************************************************)
(* What decides whether a staged file is delivered: MagicVerifier, then    *)
(* ArchiveGuard, as _process_envelope asks them.  A file is what the rules *)
(* tell apart: the class of its extension, of its first bytes and of the   *)
(* types that puremagic finds, and an archive's entries.                   *)
(***************************************************************************)
EXTENDS Integers, Sequences, FiniteSets

CONSTANTS
    MaxEntries,     \* max_entries
    MaxNested,      \* archives in an archive, 10
    MaxTotal,       \* max_uncompressed_bytes
    MaxRatio        \* max_ratio

ASSUME InspectionAssumption == {MaxEntries, MaxNested, MaxTotal, MaxRatio} \subseteq Nat

(* .txt .csv; .docx .xlsx; .pptx; .pdf; .png .jpg .jpeg .zip; .svg .html    *)
(* .htm .xml; DANGEROUS_EXTENSIONS; any other.                             *)
Extensions == {"text", "office", "slides", "pdf", "safe", "markup", "dangerous", "other"}
SafeExtensions == {"text", "office", "pdf", "safe"}

(* MZ, ELF, Mach-O or a shortcut; %PDF-; an OLE compound document.          *)
Headers == {"program", "pdf", "ole", "other"}

(* The types found, against the extension's in SAFE_EXTENSION_MIMES.       *)
Guesses == SUBSET {"dangerous", "allowed", "foreign"}

(* What raises: reading, puremagic, or zipfile and tarfile. *)
Faults == {"none", "read", "magic", "container"}

Entries == [slip : BOOLEAN, link : BOOLEAN, nested : BOOLEAN, size : Nat]

(* zipfile and tarfile read archives only. *)
Files ==
    {f \in [ext : Extensions, header : Headers, guesses : Guesses, fault : Faults,
            marked : BOOLEAN, macros : BOOLEAN, physical : Nat,
            form : {"none", "zip", "tar"}, entries : Seq(Entries)] :
        f.form = "none" => f.fault # "container"}

-----------------------------------------------------------------------------
(* Rules 3 to 3c: first bytes and markers of active content. *)
Active(f) ==
    \/ f.header = "program"
    \/ f.marked /\ \/ f.ext = "markup"
                   \/ f.ext = "pdf" /\ f.header = "pdf"
                   \/ f.header = "ole"

(* Rule 4, whose exceptions are ignored. *)
Macros(f) == /\ f.ext \in {"office", "slides"} /\ f.form = "zip" /\ f.fault # "container"
             /\ f.macros

(* Rules 5 and 6. *)
TypeFits(f) ==
    \/ f.guesses = {}
    \/ /\ "dangerous" \notin f.guesses
       /\ \/ f.ext \notin SafeExtensions
          \/ "allowed" \in f.guesses
          \/ f.ext = "pdf" /\ f.header = "pdf"

(* inspect_file *)
Verified(f) ==
    /\ f.ext # "dangerous"
    /\ IF f.physical = 0
       THEN f.ext \notin SafeExtensions \ {"text"}
       ELSE f.fault \notin {"read", "magic"} /\ ~Active(f) /\ ~Macros(f) /\ TypeFits(f)

(* One turn of the loop over the entries; it returns at the first bad one. *)
Count(form, seen, e) ==
    [entries |-> seen.entries + 1,
     nested |-> seen.nested + (IF form = "zip" /\ e.nested THEN 1 ELSE 0),
     total |-> seen.total + e.size,
     refused |-> \/ seen.refused
                 \/ seen.entries + 1 > MaxEntries
                 \/ e.slip \/ e.link
                 \/ form = "zip" /\ e.nested /\ seen.nested + 1 > MaxNested]

Unseen == [entries |-> 0, nested |-> 0, total |-> 0, refused |-> FALSE]

(* The loop: seen[i] is what it knows after i entries. *)
Counted(f) ==
    LET seen[i \in 0..Len(f.entries)] ==
          IF i = 0 THEN Unseen ELSE Count(f.form, seen[i-1], f.entries[i])
    IN seen

Survey(f) == Counted(f)[Len(f.entries)]

(* Mutant: an archive that cannot be read is no archive. *)
ArchiveSafeUnread(f) ==
    \/ f.form = "none" \/ f.physical = 0 \/ f.fault = "container"
    \/ LET seen == Survey(f)
       IN ~seen.refused /\ seen.total <= MaxTotal /\ seen.total <= MaxRatio * f.physical

(* inspect_archive *)
ArchiveSafe(f) ==
    \/ f.form = "none" \/ f.physical = 0
    \/ LET seen == Survey(f)
       IN /\ f.fault # "container"
          /\ ~seen.refused /\ seen.total <= MaxTotal /\ seen.total <= MaxRatio * f.physical

(* With quarantine_on_mismatch. *)
Delivered(f) == Verified(f) /\ ArchiveSafe(f)

-----------------------------------------------------------------------------
(* The policy that the rules add up to. *)
Sizes(f) ==
    LET sum[i \in 0..Len(f.entries)] == IF i = 0 THEN 0 ELSE sum[i-1] + f.entries[i].size
    IN sum

Total(f) == Sizes(f)[Len(f.entries)]

Nested(f) == {i \in DOMAIN f.entries : f.entries[i].nested}

WithinLimits(f) ==
    /\ Len(f.entries) <= MaxEntries
    /\ \A i \in DOMAIN f.entries : ~f.entries[i].slip /\ ~f.entries[i].link
    /\ f.form = "zip" => Cardinality(Nested(f)) <= MaxNested
    /\ Total(f) <= MaxTotal /\ Total(f) <= MaxRatio * f.physical

(* No parser failed on it, it neither declares nor shows a program, and it  *)
(* does not unpack beyond the limits.                                      *)
Harmless(f) ==
    /\ f.fault = "none"
    /\ f.ext # "dangerous" /\ f.header # "program" /\ "dangerous" \notin f.guesses
    /\ ~Active(f) /\ ~Macros(f)
    /\ f.form # "none" => WithinLimits(f)
============================================================================
