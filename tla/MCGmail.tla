------------------------------- MODULE MCGmail -------------------------------
(* Instances of GmailConnector. *)
EXTENDS GmailConnector

MCParts == [m \in Mails |-> CASE m = "bare" -> <<"inline">>
                              [] m = "mixed" -> <<"file", "inline", "file">>
                              [] OTHER -> <<"file">>]
==============================================================================
