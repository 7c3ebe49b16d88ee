----------------------------- MODULE FileStore -----------------------------
(***************************************************************************)
(* The local file system as the ingestion code uses it: a set of files,    *)
(* each a path with the data that a reader of that path gets.  A path      *)
(* holds at most one file (Functional); directories are not state of their *)
(* own, since the code creates the parents of every path it writes.        *)
(***************************************************************************)

(* The files of fs at path p: none or one. *)
At(fs, p) == {f \in fs : f.path = p}

(* Path.exists() *)
Exists(fs, p) == \E f \in fs : f.path = p

(* A reader of p gets exactly d. *)
Holds(fs, p, d) == [path |-> p, data |-> d] \in fs

(* os.replace(temp, p), or a plain write of p: whatever was at p is gone. *)
Put(fs, p, d) == {f \in fs : f.path # p} \cup {[path |-> p, data |-> d]}

(* Path.unlink() *)
Drop(fs, p) == {f \in fs : f.path # p}

(* shutil.move of the file at p onto q, replacing what was at q. *)
Rename(fs, p, q) ==
    {f \in fs : f.path \notin {p, q}}
      \cup {[path |-> q, data |-> f.data] : f \in At(fs, p)}

(* No two files share a path. *)
Functional(fs) == \A f, g \in fs : f.path = g.path => f = g

=============================================================================
