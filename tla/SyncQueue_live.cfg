\* Two rows of one slot, two single-task processes: every way a slot is taken,
\* freed and taken again, and under fairness every run finishes.
SPECIFICATION FairSpec
CONSTANTS
  Stores = {s1}
  SyncTypes = {"CLAIMS"}
  PageCount <- MCPageCount
  PageCap = 2
  Workers = {w1, w2}
  PoolSize = 1
  MaxAttempts = 2
  MaxRows = 2
  NoOne = NoOne
INVARIANT OneActivePerSlot
PROPERTIES RunsFinish
CHECK_DEADLOCK FALSE
