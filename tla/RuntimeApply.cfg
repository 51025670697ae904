CONSTANTS
  w1 = w1
  w2 = w2
  A = A
  B = B
  C = C
  None = None
  Requests <- MCRequests
  MaximumBudget = 3
  TenureNonceCapacity = 2
  RequestNonceCapacity = 4
  TemporalCapacity = 3
  MaxTime = 3
  MaxGeneration = 2
SPECIFICATION Spec
INVARIANTS
  ReplaysStayAdmissible
  RetainedTenuresSuperseded
  ControlStateConsistent
PROPERTIES
  DeadlinesNeverExtended
  ActivationIsFenced
  OperationsEndOnce
