SPECIFICATION FairSpec
CONSTANTS
  Mails = {"mixed", "bare", "one", "other", "newsletter"}
  Parts <- MCParts
  Excluded = {"newsletter"}
  Window = 3
  PageSize = 2
  Retries = 1
  MaxMails = 4
  MaxTroubles = 2
INVARIANTS TypeOK
PROPERTIES ImplementsIntake NewestGetIn OutagesAbsorbed
