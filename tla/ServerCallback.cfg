CONSTANTS
  p = p
  q = q
  c = c
  u = u
  r1 = r1
  r2 = r2
  h = h
  noone = noone
  NoOne <- noone
  Api <- WithNested
  Resets <- OneReset
  Healths <- OneHealth
  Unmatched <- OneUnmatched
  Nested <- NestedC
  parent <- ParentC
  Stalling <- None
SPECIFICATION Spec
PROPERTY EveryRequestFinishes
CHECK_DEADLOCK FALSE
