SPECIFICATION FairSpec
CONSTANTS
  h1 = h1
  h2 = h2
  ana = ana
  bruno = bruno
  NULL = NULL
  Handlers = {h1, h2}
  Ops <- AllOps
  Participants = {ana}
  Owner = ana
  Creator = bruno
  HasEvent = TRUE
  Notify = TRUE
  MaxInFlight = 2
INVARIANT PairAgrees
INVARIANT CancelledFreesSlot
INVARIANT LostEntryOnlyByRace
PROPERTY CancelEventuallyFrees
\* Every request is answered, the account deleted and fromDate past.
CHECK_DEADLOCK FALSE
