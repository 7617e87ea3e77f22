SPECIFICATION Spec
CONSTANTS
  q1 = q1
  q2 = q2
  q3 = q3
  ana = ana
  bruno = bruno
  carla = carla
  NULL = NULL
  Persons <- MCPersons
  Accounts <- MCAccounts
  Listed <- MCListed
  Modes <- MCModes
  Types <- MCTypes
  Spaces <- MCSpaces
  EventSpaces <- MCEventSpaces
  LockedSlots <- MCLocked
  LotOf <- MCLotOf
  ExtraLots <- MCExtraLots
  Requests = {q1, q2, q3}
  Bodies <- SlotBodies
  ModeRule <- NoQuota
  TypeRule <- Generous
  MaxInFlight = 1
  MaxNow = 0
  MaxAnticipation = 9
  MonthLength = 4
PROPERTY ImplementsBoard
\* Every request is answered, every row cancelled and the clock at its bound.
CHECK_DEADLOCK FALSE
