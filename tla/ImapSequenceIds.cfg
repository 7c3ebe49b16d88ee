SPECIFICATION FairSpec
CONSTANTS
  Mails = {"unnamed", "nameless"}
  NoId = "no id"
  MessageId <- MCMessageId
  Parts <- MCParts
  Malformed <- MCMalformed
  Excluded <- MCExcluded
  Readers = {}
  Removable = {"unnamed"}
  Window = 2
  MaxMails = 2
  MaxTroubles = 1
INVARIANTS NumbersNameOne
