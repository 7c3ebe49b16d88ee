SPECIFICATION Spec
CONSTANTS
  Writers = {w1}
  Streams = {"r"}
  SizeOf <- MCSizeOf
  TargetOf <- MCTargetOf
  ChunkSize = 2
  Ceiling = 4
  Remote = {"r"}
  MaxStalls = 0
  MaxFaults = 1
  MaxCrashes = 0
INVARIANTS NeverPartiallyWritten
