SPECIFICATION Spec
CONSTANTS
  s1 = s1
  s2 = s2
  Senders = {s1, s2}
  SenderOf <- MCSenderOf
  Messages = {1, 2}
  Poison = {}
  Handled = {1, 2}
  DragFrom = {"inbox"}
  DragsAnytime = FALSE
  MovesFrom <- MockMoves
  AutoTriage = FALSE
  DryRuns = {FALSE}
  MaxDrags = 2
  MaxFaults = 0
  MaxCrashes = 0
INVARIANTS OneTimePassDelivers
