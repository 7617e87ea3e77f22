SPECIFICATION CredentialsSpec
CONSTANTS
  NULL = NULL
  h1 = h1
  h2 = h2
  h3 = h3
  h4 = h4
  Handlers = {h1, h2, h3, h4}
  MaxInFlight = 2
  PasswordOps <- PasswordOp
SYMMETRY Symmetry
INVARIANT TokenWorksOnce
INVARIANT NewestTokenStands
INVARIANT LateErrorOnlyByRace
INVARIANT ProvenPasswordReplaced
\* Every request is answered.
CHECK_DEADLOCK FALSE
