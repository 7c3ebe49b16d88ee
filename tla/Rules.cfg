SPECIFICATION Spec
CONSTANTS
  Processes = {p1, p2}
  Rules = {r1, r2, r3}
  Configured = {r3}
  MaxCrashes = 1
INVARIANTS TypeOK EditsKept
