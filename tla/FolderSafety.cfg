SPECIFICATION Spec
CONSTANTS
  s1 = s1
  s2 = s2
  Senders = {s1, s2}
  SenderOf <- MCSenderOf
  Messages = {1, 2, 3}
  Poison = {}
  Handled = {1, 3}
  DragFrom = {"inbox", "review", "completed"}
  DragsAnytime = TRUE
  MovesFrom <- MockMoves
  AutoTriage = TRUE
  DryRuns = {TRUE, FALSE}
  MaxDrags = 2
  MaxFaults = 1
  MaxCrashes = 1
INVARIANTS TypeOK DeliveredOnlyIfAuthorised RulesFollowRequests NothingDropped
PROPERTIES DryRunTouchesRulesOnly
CHECK_DEADLOCK FALSE
