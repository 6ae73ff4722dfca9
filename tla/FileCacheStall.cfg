\* The upstream accepts a connection and never answers.
SPECIFICATION FairSpec
CONSTANTS
  d = d
  f = f
  g = g
  f2 = f2
  Clients = {c1}
  Targets <- MCTargets
  CachePath <- MCCachePath
  Paths <- MCPaths
  Above <- MCAbove
  Pieces = 1
  Versions = {v1, v2}
  MaxRetries = 2
  Faults = {"stall"}
  Missing = Missing
  Dir = Dir
  NoJob = NoJob
PROPERTIES
  RequestsHandled
