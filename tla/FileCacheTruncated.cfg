\* The process dies between two writes, or a write fails.
SPECIFICATION Spec
CONSTANTS
  d = d
  f = f
  g = g
  f2 = f2
  Clients = {c1, c2}
  Targets <- MCTargets
  CachePath <- MCCachePath
  Paths <- MCPaths
  Above <- MCAbove
  Pieces = 2
  Versions = {v1, v2}
  MaxRetries = 2
  Faults = {"crash", "disk"}
  Missing = Missing
  Dir = Dir
  NoJob = NoJob
SYMMETRY Symmetry
INVARIANTS
  CompleteWhenServed
