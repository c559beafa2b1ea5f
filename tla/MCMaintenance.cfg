CONSTANTS
  initialize = initialize
  register = register
  s1 = s1
  s2 = s2
  Servers = {s1, s2}
  PreCutover = 1
  Latest = 2
  MaxBusinessWrites = 1
  None = None
  MaxCoordinators = 2
  Packets = {initialize, register}
  Initialize = initialize
  Expects <- MCExpects
SPECIFICATION MCSpec
INVARIANTS
  ExclusiveAccess
  ReportsAreTrue
  PreparedServesBaseline
PROPERTIES
  MaintainsEmptyDatabase
  FenceReturned
CHECK_DEADLOCK FALSE
