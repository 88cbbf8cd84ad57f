\* One run, two process incarnations with two tasks each: crashes, signals,
\* retries, page skips and watchdog sweeps in every order.
SPECIFICATION Spec
CONSTANTS
  Stores = {s1}
  SyncTypes = {"PRODUCTS"}
  PageCount <- MCPageCount
  PageCap = 2
  Workers = {w1, w2}
  PoolSize = 2
  MaxAttempts = 2
  MaxRows = 1
  NoOne = NoOne
SYMMETRY MCWorkerSymmetry
INVARIANTS
  TypeOK
  HeldWhileRunning
  CompletedCoversScan
  FenceIsTheLease
PROPERTIES
  CursorOnlyAdvances
  ImplementsRuns
  TerminalIsFinal
CHECK_DEADLOCK FALSE
