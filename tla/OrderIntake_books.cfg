SPECIFICATION FairSpec
CONSTANTS
  created = created
  shipped = shipped
  delivered = delivered
  cancelled = cancelled
  unpacked = unpacked
  l1 = l1
  l2 = l2
  w1 = w1
  w2 = w2
  t1 = t1
  t2 = t2
  Kind <- MCKind
  Stamp <- MCStamp
  Events = {created, shipped, cancelled, unpacked}
  Lines = {l1}
  Intakers = {w1, w2}
  Graduators = {t1, t2}
  CostMoves = {"attach", "detach", "archive"}
  MaxAttempts = 1
  MaxDeliveries = 2
  MaxFailures = 2
INVARIANTS TypeOK NothingLost FlushedIsUnpromised
PROPERTIES ExcludedIsFrozen OrderNeverRegresses BufferDrains
CHECK_DEADLOCK FALSE
