SPECIFICATION FairSpec
CONSTANTS
  s1 = s1
  s2 = s2
  Senders = {s1, s2}
  SenderOf <- MCSenderOf
  Messages = {1, 2, 3}
  Poison = {1}
  Handled = {2, 3}
  DragFrom = {"inbox", "completed"}
  DragsAnytime = FALSE
  MovesFrom <- MockMoves
  AutoTriage = FALSE
  DryRuns = {FALSE}
  MaxDrags = 2
  MaxFaults = 1
  MaxCrashes = 1
PROPERTIES RequestsHonoured InboxDrained
