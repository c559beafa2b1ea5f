CONSTANTS
  i1 = i1
  i2 = i2
  w1 = w1
  w2 = w2
  Ids = {i1, i2}
  Workers = {w1, w2}
  Intents <- MCIntents
  MaxAttempts = 2
  BatchSize = 1
SYMMETRY MCSymmetry
SPECIFICATION Spec
INVARIANTS
  SentOnlyIfAccepted
  BudgetPerFact
  NoPrematureDeadLetter
PROPERTIES
  LeaseRespected
  GuardAdmitsEveryUpdate
  DeliverySpec
CHECK_DEADLOCK FALSE
