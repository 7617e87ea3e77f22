SPECIFICATION AccountsSpec
CONSTANTS
  NULL = NULL
  h1 = h1
  h2 = h2
  h3 = h3
  p0 = p0
  cA = cA
  cB = cB
  cG = cG
  l1 = l1
  l2 = l2
  Handlers = {h1, h2, h3}
  PriorAccts = {p0}
  Customers = {cA, cB, cG}
  Governments = {cG}
  Lots = {l1, l2}
  MaxInFlight = 2
  AccountOps <- Asked
SYMMETRY Symmetry
INVARIANT AccountsTypeOK
 
INVARIANT RemovedStaysRemoved
INVARIANT CreatedNameIsFree
INVARIANT LastTextOpens
\* Every request is answered.
CHECK_DEADLOCK FALSE
