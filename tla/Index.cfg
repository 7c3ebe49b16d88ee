SPECIFICATION FairSpec
CONSTANTS
  Processes = {p1, p2}
  Rows = {1, 2}
  Inodes = {"i1", "i2", "i3", "i4"}
  None = None
  MaxCrashes = 1
INVARIANTS TypeOK IndexWhole
PROPERTIES IndexMonotonic RowsGetListed
