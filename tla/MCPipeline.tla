----------------------------- MODULE MCPipeline -----------------------------
(***************************************************************************)
(* Instances of EnvelopePipeline.                                          *)
(***************************************************************************)
EXTENDS EnvelopePipeline, TLC

CONSTANTS m1, m2, m3, m4, m5, m6, m7, m8, m9, m10, m11,
          pA, pB, pX, pZ, s1, s2, t1, t2

Name(base, ext) == [base |-> base, tags |-> <<>>, ext |-> ext]
File(name, data) == [original |-> name, name |-> name, data |-> data,
                     signature |-> FALSE, fits |-> TRUE]
Logo == [File(Name("logo", "pdf"), pZ) EXCEPT !.signature = TRUE]
Huge == [File(Name("huge", "pdf"), pZ) EXCEPT !.fits = FALSE]
(* Its sender called it "set:up.exe". *)
Setup == [File(Name("setup", "exe"), pX) EXCEPT !.original = Name("set:up", "exe")]

MCBases == {"context", "email_context", "invoice", "setup", "set:up", "logo", "huge"}
MCExts == {"json", "md", "quarantine", "report.md", "diff", "pdf", "exe"}
MCSimilar == {<<pA, pB>>, <<pB, pA>>}

(* m1: twins under one name, and a logo.  m2: a revision of m1's invoice   *)
(* and a threat.  m3: an attachment that never fits after one that does.   *)
(* m4: m2's threat under the same name.  m5: a threat before an attachment *)
(* that passes.  m6: the revision, but another sender's in the thread.     *)
(* m7: the sender's revision again, in an email that names no thread.      *)
(* m8: a file whose own name is invoice_1.  m9: one named context.json.    *)
(* m10: the invoice once more in the thread.  m11: in another thread.      *)
MailOf == (m1 :> <<File(Name("invoice", "pdf"), pA), Logo, File(Name("invoice", "pdf"), pA)>>)
       @@ (m2 :> <<File(Name("invoice", "pdf"), pB), Setup>>)
       @@ (m3 :> <<File(Name("invoice", "pdf"), pA), Huge>>)
       @@ (m4 :> <<File(Name("setup", "exe"), pX)>>)
       @@ (m5 :> <<File(Name("setup", "exe"), pX), File(Name("invoice", "pdf"), pA)>>)
       @@ (m6 :> <<File(Name("invoice", "pdf"), pB)>>)
       @@ (m7 :> <<File(Name("invoice", "pdf"), pB)>>)
       @@ (m8 :> <<File([Name("invoice", "pdf") EXCEPT !.tags = <<1>>], pB)>>)
       @@ (m9 :> <<File(Name("context", "json"), pA)>>)
       @@ (m10 :> <<File(Name("invoice", "pdf"), pA)>>)
       @@ (m11 :> <<File(Name("invoice", "pdf"), pB)>>)

MCAttachments == [m \in Messages |-> MailOf[m]]
MCSenderOf == [m \in Messages |-> IF m = m6 THEN s2 ELSE s1]
MCThreadOf == [m \in Messages |-> CASE m = m7 -> NoThread
                                    [] m = m11 -> t2
                                    [] OTHER -> t1]

WorkerSymmetry == Permutations(Workers)
=============================================================================
