CONSTANTS
  w1 = w1
  w2 = w2
  n1 = n1
  n2 = n2
  Workers <- TwoWorkers
  Names <- TwoNames
  Handled <- NoHandler
  MaxObject = 6
  MaxCounter = 1
  MaxBatch = 1
  MaxPull = 0
  Slots = 5
SPECIFICATION Spec
INVARIANT SuccessMeansFannedOut
