SPECIFICATION FairSpec
CONSTANTS
  Contents = {1, 2, 3, 4}
  Catalogs = {{1, 2, 4}, {2, 3}, {1}}
  PageSize = 1
  Cap = 3
  Ordered = {4}
  Tasks = {t1, t2}
  None = None
  MaxChanges = 1
  MaxFaults = 1
INVARIANT TypeOK
PROPERTIES DelistedWasUnlisted CompleteScanSawAll Converges
CHECK_DEADLOCK FALSE
