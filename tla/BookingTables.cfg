SPECIFICATION Spec
CONSTANTS
  q1 = q1
  q2 = q2
  q3 = q3
  ana = ana
  bruno = bruno
  carla = carla
  NULL = NULL
  Persons <- MCPersons
  Accounts <- MCAccounts
  Listed <- MCListed
  Modes <- MCModes
  Types <- MCTypes
  Spaces <- MCSpaces
  EventSpaces <- MCEventSpaces
  LockedSlots <- MCLocked
  LotOf <- MCLotOf
  ExtraLots <- MCExtraLots
  Requests = {q1, q2, q3}
  Bodies <- TableBodies
  ModeRule <- MCModeRule
  TypeRule <- MCTypeRule
  MaxInFlight = 2
  MaxNow = 2
  MaxAnticipation = 1
  MonthLength = 2
SYMMETRY Symmetry3
INVARIANT SlotClashOnlyByRace
INVARIANT QuotasHold
INVARIANT RecordsComplete
INVARIANT FoundRowsRespected
\* Every request is answered, every row cancelled and the clock at its bound.
CHECK_DEADLOCK FALSE
