CONSTANTS
  e1 = e1
  e2 = e2
  e3 = e3
  e4 = e4
  e5 = e5
  r1 = r1
  r2 = r2
  a = a
  b = b
  g = g
  room = room
  Events = {e1, e2, e3, e4, e5}
  Runs = {r1, r2}
  Items = {a, b, g}
  TaskItems = {a, b}
  Times = {0, 1}
  MaxRevision = 4
  MaxReviews = 0
  Resources = {room}
  ResourceOf <- MCResourceOf
SYMMETRY MCSymmetry
SPECIFICATION FieldSpec
INVARIANTS
  ReceiptsRebuild
  RunIsItsFacts
  RunsDisjoint
CHECK_DEADLOCK FALSE
