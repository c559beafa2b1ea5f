CONSTANTS
  p1 = p1
  p2 = p2
  c1 = c1
  c2 = c2
  c3 = c3
  Procs = {p1, p2}
  Contents = {c1, c2, c3}
  Unmappable = {c3}
  LatestVersion = 2
  MaxRuns = 3
  MaxWrites = 2
  MaxTampering = 1
SYMMETRY MCSymmetry
SPECIFICATION MigrationSpec
PROPERTIES
  VerifiedIsExact
  VerifiedIsDurable
  FailureIsHonest
CHECK_DEADLOCK FALSE
