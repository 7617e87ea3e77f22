SPECIFICATION Spec
CONSTANTS
  v1 = v1
  v2 = v2
  r1 = r1
  r2 = r2
  h1 = h1
  h2 = h2
  h3 = h3
  h4 = h4
  NULL = NULL
  Visits = {v1}
  Residents = {r1, r2}
  Handlers = {h1, h2, h3, h4}
  Demanding = {}
  MaxInFlight = 2
SYMMETRY Symmetry
INVARIANT EventsBounded
INVARIANT UnflaggedEventOnlyByFailure
