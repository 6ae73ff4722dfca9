\* The upstream always answers, if with an error; writes succeed and the
\* process is not killed. Liveness, so no symmetry.
SPECIFICATION FairSpec
CONSTANTS
  d = d
  f = f
  g = g
  f2 = f2
  Clients = {c1, c2}
  Targets <- MCSpellings
  CachePath <- MCSpellingsPath
  Paths <- MCSpellingsPaths
  Above <- MCSpellingsAbove
  Pieces = 2
  Versions = {v1, v2}
  MaxRetries = 2
  Faults = {"network", "refused", "broken", "lookup"}
  Missing = Missing
  Dir = Dir
  NoJob = NoJob
INVARIANTS
  CompleteWhenServed
PROPERTIES
  LostForCause
  RequestsHandled
  
