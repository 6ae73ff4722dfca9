\* The upstream answers 5xx.
SPECIFICATION Spec
CONSTANTS
  d = d
  f = f
  g = g
  f2 = f2
  Clients = {c1}
  Targets <- MCTargets
  CachePath <- MCCachePath
  Paths <- MCPaths
  Above <- MCAbove
  Pieces = 2
  Versions = {v1, v2}
  MaxRetries = 3
  Faults = {"broken"}
  Missing = Missing
  Dir = Dir
  NoJob = NoJob
SYMMETRY Symmetry
INVARIANTS
  ServerErrorsRetried
