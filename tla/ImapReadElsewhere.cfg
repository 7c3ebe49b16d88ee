SPECIFICATION FairSpec
CONSTANTS
  Mails = {"one", "other"}
  NoId = "no id"
  MessageId <- MCMessageId
  Parts <- MCParts
  Malformed <- MCMalformed
  Excluded <- MCExcluded
  Readers = {"one"}
  Removable = {}
  Window = 2
  MaxMails = 2
  MaxTroubles = 0
PROPERTIES NoMailSkipped
