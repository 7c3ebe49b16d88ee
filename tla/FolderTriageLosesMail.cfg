SPECIFICATION Spec
CONSTANTS
  s1 = s1
  s2 = s2
  Senders = {s1, s2}
  SenderOf <- MCSenderOf
  Messages = {1}
  Poison = {}
  Handled = {1}
  DragFrom = {"inbox"}
  DragsAnytime = FALSE
  MovesFrom = {}
  AutoTriage = TRUE
  DryRuns = {FALSE}
  MaxDrags = 0
  MaxFaults = 0
  MaxCrashes = 0
INVARIANTS TriagedMailWaits
