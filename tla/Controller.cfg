CONSTANTS
  h1 = h1
  unset = unset
  local = local
  NumPatchers = 2
  NumEmulators = 2
  Hosts <- MCHosts
  Unset <- unset
  Local <- local
  MaxDepth = 3
  MaxEpoch = 2
  MayFail <- AllFailures
  StrayCalls = TRUE
  AsyncBodies = TRUE
SPECIFICATION Spec
INVARIANTS TypeOK ScopeMocked Isolated Restored
PROPERTIES OpenScopesUndisturbed ImplementsScope
