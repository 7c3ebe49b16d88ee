SPECIFICATION Spec
CONSTANTS
  MaxEntries = 2
  MaxNested = 1
  MaxTotal = 5
  MaxRatio = 4
  Letters = {"a", "b"}
  Users <- MCUsers
  Stems = {1, 200, 255}
INVARIANTS RulesSelect InspectionKeepsPolicy PluginFailuresContained
