SPECIFICATION FairSpec
CONSTANTS
  Stores = {a, b}
  a = a
  b = b
  Ticks = {t1}
  Requests = {q1, q2}
  None = None
  Leftovers <- MCLeftovers
  Cap = 3
  Fickle = {a}
  MaxRotations = 1
  MaxFaults = 1
INVARIANTS TypeOK
PROPERTIES ForeignHooksStay Heals OrphansReclaimed
CHECK_DEADLOCK FALSE
