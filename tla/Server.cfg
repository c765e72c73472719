CONSTANTS
  p = p
  q = q
  c = c
  u = u
  r1 = r1
  r2 = r2
  h = h
  noone = noone
  NoOne <- noone
  Api <- WithNested
  Resets <- TwoResets
  Healths <- OneHealth
  Unmatched <- OneUnmatched
  Nested <- NestedC
  parent <- ParentC
  Stalling <- StallingP
SPECIFICATION Spec
INVARIANTS TypeOK LockGuardsStore
PROPERTIES ImplementsSerial FinishesUnlessHolderWaits HealthAlwaysAnswers
CHECK_DEADLOCK FALSE
