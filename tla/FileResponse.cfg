\* Four versions of a file, every Range header, an offset of -2 and an hour of 3.
SPECIFICATION Spec
CONSTANTS
  v1 = v1
  v2 = v2
  v3 = v3
  v4 = v4
  Versions <- MCVersions
  Size <- MCSize
  W = 4
  Mtimes <- MCMtimes
  Zone <- MCZone
  Summer <- MCSummer
  Hour = 3
  SeekCounts = TRUE
  Nothing = Nothing
INVARIANTS
  TypeOK
  RangeExact
  CopiesIntact
  ConfirmedCopies
PROPERTIES
  UnchangedConfirmed
