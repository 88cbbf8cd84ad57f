SPECIFICATION FairSpec
CONSTANTS
  Returns = {r1, r2}
  SparseReturns = {r2}
  Units = {u1, u2}
  Parcels = {c1}
  ReturnParcels = {c2}
  None = None
PROPERTIES Settles
CHECK_DEADLOCK FALSE
