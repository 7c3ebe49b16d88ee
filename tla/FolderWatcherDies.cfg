SPECIFICATION Spec
CONSTANTS
  s1 = s1
  s2 = s2
  Senders = {s1, s2}
  SenderOf <- MCSenderOf
  Messages = {1}
  Poison = {}
  Handled = {}
  DragFrom = {"inbox"}
  DragsAnytime = FALSE
  MovesFrom <- MockMoves
  AutoTriage = TRUE
  DryRuns = {FALSE}
  MaxDrags = 0
  MaxFaults = 1
  MaxCrashes = 0
PROPERTIES FailuresIsolated
