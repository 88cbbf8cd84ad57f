SPECIFICATION Spec
CONSTANTS
  created = created
  shipped = shipped
  delivered = delivered
  cancelled = cancelled
  unpacked = unpacked
  l1 = l1
  l2 = l2
  w1 = w1
  w2 = w2
  t1 = t1
  t2 = t2
  Kind <- MCKind
  Stamp <- MCStamp
  Events = {created, shipped}
  Lines = {l1}
  Intakers = {w1}
  Graduators = {t1}
  CostMoves = {"attach"}
  MaxAttempts = 1
  MaxDeliveries = 2
  MaxFailures = 0
INVARIANTS UnitsDropOnce
CHECK_DEADLOCK FALSE
