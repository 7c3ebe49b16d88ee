SPECIFICATION FairSpec
CONSTANTS
  s1 = s1
  s2 = s2
  Senders = {s1, s2}
  SenderOf <- MCSenderOf
  Messages = {1}
  Poison = {}
  Handled = {1}
  DragFrom = {"inbox", "review"}
  DragsAnytime = TRUE
  MovesFrom <- MockMoves
  AutoTriage = TRUE
  DryRuns = {FALSE}
  MaxDrags = 1
  MaxFaults = 0
  MaxCrashes = 0
PROPERTIES RequestsHonoured
