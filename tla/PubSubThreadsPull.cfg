CONSTANTS
  w1 = w1
  w2 = w2
  n1 = n1
  n2 = n2
  Workers <- TwoWorkers
  Names <- OneName
  Handled <- NoHandler
  MaxObject = 1
  MaxCounter = 5
  MaxBatch = 2
  MaxPull = 2
  Slots = 5
SPECIFICATION Spec
INVARIANT TakenIsReported
