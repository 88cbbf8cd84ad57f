SPECIFICATION FairSpec
CONSTANTS
  d1 = d1
  d2 = d2
  d3 = d3
  w1 = w1
  w2 = w2
  h1 = h1
  Deliveries = {d1, d2, d3}
  Drops = {d3}
  UnknownStatuses = {d2}
  DeadEnds = {d1}
  Returns = {d1}
  Ticks = {w1}
  Handlers = {h1}
  Inline = TRUE
  ScanLimit = 1
  MaxAttempts = 2
  Timely = TRUE
  MaxInterrupts = 1
INVARIANTS TypeOK SoleProcessor
PROPERTIES IntakeUnderLease AckedIsDurable ClosedIsFinal ImplementsDelivery QueueDrains
CHECK_DEADLOCK FALSE
