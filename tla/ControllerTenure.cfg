CONSTANTS
  c1 = c1
  c2 = c2
  o1 = o1
  o2 = o2
  None = None
  Controllers = {c1, c2}
  Ops = {o1, o2}
  MaxRecords = 2
  PowerLoss = {c2}
SPECIFICATION FairSpec
INVARIANTS
  EnsureOnce
  SentIsRecorded
  FirstReceiptDurable
PROPERTIES
  TenureEventuallyCommitted
