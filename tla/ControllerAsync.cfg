CONSTANTS
  h1 = h1
  unset = unset
  local = local
  NumPatchers = 1
  NumEmulators = 1
  Hosts <- MCHosts
  Unset <- unset
  Local <- local
  MaxDepth = 2
  MaxEpoch = 2
  MayFail <- NoFailure
  StrayCalls = FALSE
  AsyncBodies = TRUE
SPECIFICATION Spec
INVARIANT AsyncBodyMocked
