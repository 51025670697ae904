SPECIFICATION Spec
CONSTANTS
  None = None
  Zero = Zero
  MigrationIds = {idA, Zero}
  Migrations = {"PayloadV3ToV4", "PayloadV4ToV5", "PayloadV7ToV8"}
  MaxTemps = 1
  MaxEvidenceTemps = 1
  Kinds = {"runtime", "controller"}
  Processes = {p1, p2}
  StoreIds = {s1, Zero}
  Owner = owner
  Environments <- MCEnvironments
  MaxAttempts = 2
  MaxFaults = 3
SYMMETRY Symmetry
INVARIANTS
  StoreKeepsItsWord
  StoreStaysUsable
