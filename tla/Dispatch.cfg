SPECIFICATION Spec
CONSTANTS
  c1 = c1
  c2 = c2
  h1 = h1
  h2 = h2
  NULL = NULL
  Handlers = {h1, h2}
  Today = 1
  Days = 2
  Creates = {c1, c2}
  Setups <- Either
  Ops <- RowOps
SYMMETRY Symmetry
INVARIANT GuestCancelWithdraws
INVARIANT WithdrawnStaysWithdrawn
INVARIANT DeliveryCancelWithdraws
INVARIANT DuplicateOnlyByRace
INVARIANT MirrorAgrees
\* Every request is answered and every job over.
CHECK_DEADLOCK FALSE
