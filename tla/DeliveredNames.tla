---------------------------- MODULE DeliveredNames ----------------------------
(***************************************************************************)
(* The lengths of file names, in bytes: what PathSanitizer returns, and    *)
(* the names that _process_envelope makes of it.  A name is the length of  *)
(* its stem and of its extension, the dot included.                        *)
(***************************************************************************)
EXTENDS Integers

MaxName == 255

Length(n) == n.stem + n.ext

Shorter(a, b) == IF a <= b THEN a ELSE b

(* sanitize_filename, step 7: the stem makes room for the extension unless *)
(* there is next to none.                                                  *)
Sanitized(n) ==
    LET stem == Shorter(n.stem, IF n.ext >= 245 THEN MaxName ELSE MaxName - n.ext)
    IN [stem |-> stem, ext |-> Shorter(n.ext, MaxName - stem)]

(* {stem}_{counter}{suffix}, with a counter of one digit. *)
Suffixed(n) == [n EXCEPT !.stem = @ + 2]

(* {sha256[:12]}_{stem}.quarantine and .report.md *)
VaultName(n) == [stem |-> 13 + n.stem, ext |-> 11]
ReportName(n) == [stem |-> 13 + n.stem, ext |-> 10]

(* {stem}_diff_v1_to_v2.diff *)
DiffName(n) == [stem |-> n.stem + 14, ext |-> 5]
==============================================================================
