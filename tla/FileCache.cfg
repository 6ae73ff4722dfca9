\* Two clients, three targets for two of three paths, each below the one
\* before, everything that can go wrong.
SPECIFICATION Spec
CONSTANTS
  d = d
  f = f
  g = g
  f2 = f2
  Clients = {c1, c2}
  Targets <- MCTargets
  CachePath <- MCCachePath
  Paths <- MCDeepPaths
  Above <- MCDeepAbove
  Pieces = 2
  Versions = {v1, v2}
  MaxRetries = 3
  Faults = {"network", "refused", "broken", "stall", "disk", "lookup", "crash"}
  Missing = Missing
  Dir = Dir
  NoJob = NoJob
SYMMETRY Symmetry
INVARIANTS
  TypeOK
  
  

  
