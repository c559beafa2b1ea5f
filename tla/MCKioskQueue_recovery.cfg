CONSTANTS
  e1 = e1
  e2 = e2
  e3 = e3
  f1 = f1
  r1 = r1
  r2 = r2
  t1 = t1
  t2 = t2
  item = item
  Events = {e1, e2, f1}
  Own = {e1, e2}
  Runs = {r1, r2}
  Items = {item}
  TaskItems = {item}
  Item = item
  Times = {0}
  MaxRevision = 2
  MaxReviews = 1
  Tabs = {t1}
  Faults = {"crash"}
SYMMETRY MCSymmetry
SPECIFICATION QueueSpec
INVARIANT
  PendingQueueRecovers
CHECK_DEADLOCK FALSE
