SPECIFICATION FairSpec
CONSTANTS
  Mails = {"mixed", "copy", "original", "bare", "newsletter", "forward", "malformed", "unnamed"}
  NoId = "no id"
  MessageId <- MCMessageId
  Parts <- MCParts
  Malformed <- MCMalformed
  Excluded <- MCExcluded
  Readers = {"original"}
  Removable = {"malformed", "unnamed"}
  Window = 2
  MaxMails = 3
  MaxTroubles = 1
INVARIANTS TypeOK
PROPERTIES ImplementsIntake OnlyFiveCausesStarve
