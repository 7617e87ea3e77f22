SPECIFICATION Spec
CONSTANTS
  NULL = NULL
  Day = 4
  Visits <- SomeVisits
  Slots <- SomeSlots
INVARIANT RowsTileVisit
INVARIANT OneRowPerDay
INVARIANT LockedAsOnTheSpot
\* Every question is answered once.
CHECK_DEADLOCK FALSE
