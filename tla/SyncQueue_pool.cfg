\* A pool of two tasks under one worker id.
SPECIFICATION Spec
CONSTANTS
  Stores = {s1}
  SyncTypes = {"PRODUCTS"}
  PageCount <- MCPageCount
  PageCap = 3
  Workers = {w1, w2}
  PoolSize = 2
  MaxAttempts = 2
  MaxRows = 1
  NoOne = NoOne
PROPERTY CursorNeverRegresses
CHECK_DEADLOCK FALSE
