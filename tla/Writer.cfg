SPECIFICATION FairSpec
CONSTANTS
  Writers = {w1}
  Streams = {"a", "c", "r", "z"}
  SizeOf <- MCSizeOf
  TargetOf <- MCTargetOf
  ChunkSize = 2
  Ceiling = 4
  Remote = {"r"}
  MaxStalls = 1
  MaxFaults = 1
  MaxCrashes = 1
INVARIANTS TypeOK TargetsWhole TempsReleased
PROPERTIES FittingPublished OrphansPurged ImplementsPublication
