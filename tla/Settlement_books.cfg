SPECIFICATION FairSpec
CONSTANTS
  Returns = {r1, r2}
  SparseReturns = {r2}
  Units = {u1, u2}
  Parcels = {c1}
  ReturnParcels = {c2}
  None = None
INVARIANTS TypeOK FullyHasNumber SettledIsCurrent UnitsBelongToOneReturn
PROPERTIES SettlementIsFinal SettlesUnlessReturned NumberCatchesUp
CHECK_DEADLOCK FALSE
