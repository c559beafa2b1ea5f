CONSTANTS
  p1 = p1
  p2 = p2
  p3 = p3
  stale = stale
  Procs = {p1, p2, p3}
  MaxEpoch = 3
  Stale = stale
SYMMETRY MCSymmetry
SPECIFICATION Spec
INVARIANTS
  ClosedMeansQuiet
PROPERTIES
  OnlyItsEpochReopens
  GateSpec
CHECK_DEADLOCK FALSE
