CONSTANTS
  w1 = w1
  w2 = w2
  n1 = n1
  n2 = n2
  Workers <- TwoWorkers
  Names <- TwoNames
  Handled <- OneHandled
  MaxObject = 2
  MaxCounter = 3
  MaxBatch = 2
  MaxPull = 2
  Slots = 1
SPECIFICATION Spec
INVARIANTS TypeOK CopiesConserved NoLeaseTwice
SYMMETRY Symmetry
