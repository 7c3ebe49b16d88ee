------------------------------ MODULE MCFolders ------------------------------
(***************************************************************************)
(* Instances of FolderControl: senders write one email each, except that   *)
(* the first sender writes twice.                                          *)
(***************************************************************************)
EXTENDS FolderControl

CONSTANTS s1, s2

MCSenderOf == [m \in Messages |-> IF m <= 2 THEN s1 ELSE s2]

(* MockEmailConnector knows its folders, and not the inbox.                *)
MockMoves == Places \ {"unsent", "inbox"}
==============================================================================
