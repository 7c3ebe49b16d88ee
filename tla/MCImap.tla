------------------------------- MODULE MCImap -------------------------------
(***************************************************************************)
(* Instances of ImapConnector.  Emails are named for what is particular    *)
(* about them.                                                             *)
(***************************************************************************)
EXTENDS ImapConnector

MCMessageId == [m \in Mails |-> CASE m \in {"unnamed", "nameless"} -> "no id"
                                  [] m \in {"copy", "original"} -> "shared id"
                                  [] OTHER -> m]

MCParts == [m \in Mails |-> CASE m = "bare" -> << >>
                              [] m = "mixed" -> <<"logo", "file", "garbled">>
                              [] m = "forward" -> <<"file", "forwarded">>
                              [] OTHER -> <<"file">>]

MCMalformed == Mails \cap {"malformed"}
MCExcluded == Mails \cap {"newsletter"}
==============================================================================
