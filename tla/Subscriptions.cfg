SPECIFICATION SubscriptionsSpec
CONSTANTS
  NULL = NULL
  h1 = h1
  h2 = h2
  h3 = h3
  p0 = p0
  m0 = m0
  arrived = arrived
  theft = theft
  visit = visit
  Handlers = {h1, h2, h3}
  PriorContacts = {p0}
  Monitors = {m0}
  Types = {arrived, theft}
  ArrivedWell = arrived
  Categories = {visit}
  MaxInFlight = 2
  SubscriptionOps <- Asked
SYMMETRY Symmetry
INVARIANT SubscriptionsTypeOK
INVARIANT FollowersAgree
INVARIANT ListsKeepNoDoubles
\* Every request is answered.
CHECK_DEADLOCK FALSE
