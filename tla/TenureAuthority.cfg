SPECIFICATION Spec
CONSTANTS
  Procs = {p1, p2}
  Ops = {a, b}
  Digests = {d1, d2}
  StoreIds = {s1, s2}
  MaxRecords = 2
  MaxOrphans = 1
  PowerLoss = TRUE
  None = None
SYMMETRY Symmetry
INVARIANTS
  ReturnedIsDurable
  StoreStaysOpenable
PROPERTIES
  ImplementsLedger
