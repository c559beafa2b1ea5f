CONSTANTS
  p1 = p1
  p2 = p2
  u1 = u1
  u2 = u2
  o1 = o1
  o2 = o2
  c1 = c1
  Procs = {p1, p2}
  Ids = {u1, u2}
  Ops = {o1}
  Contents = {c1}
  MaxStaged = 2
SYMMETRY MCSymmetry
SPECIFICATION Spec
INVARIANTS
  UploadsKept
  
PROPERTIES
  ClaimsStay
  NothingDeletedWhenClosed
CHECK_DEADLOCK FALSE
