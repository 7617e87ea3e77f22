SPECIFICATION Spec
CONSTANTS
  NULL = NULL
  h1 = h1
  h2 = h2
  h3 = h3
  a = a
  b = b
  Handlers = {h1, h2, h3}
  Lists = {a, b}
  Names = {"x", "X", "y"}
  Letters <- ListLetters
  Present <- FromTheStart
  MaxInFlight = 2
  Ops <- ListOps
SYMMETRY Symmetry
INVARIANT DuplicateOnlyByRace
PROPERTY CollisionOnlyByRace
\* Every request is answered.
CHECK_DEADLOCK FALSE
