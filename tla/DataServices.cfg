CONSTANTS
  FsWorkers = {w1, w2}
  FsDocs = {n1, n2}
  FsUpdates <- Updates
  FsGone = FsGone
  FsObjects = {1, 2, 3, 4, 5, 6, 7, 8, 9}
  FsMaxWrites = 2
  FsMaxCalls = 3
  DsWorkers = {w1, w2}
  DsNames = {k}
  DsVals = {1}
  DsNoKey = DsNoKey
  DsMaxId = 1
  DsMaxMutations = 2
  DsMaxCalls = 3
  BtWorkers = {w1, w2}
  BtRows = {n1, n2}
  BtColumns <- Columns
  BtTimes = {1, 2}
  BtVals = {1}
  BtMaxMutations = 2
  BtMaxCalls = 4
  QyEntries <- Entries
  QyFilters <- Filters
  QyLength = 3
  QyMaxOrders = 2
  QyMaxOffset = 1
  QyLimits = {1}
SYMMETRY Symmetry
SPECIFICATION DataSpec
INVARIANTS TypeOK FirestoreIsolated DatastoreIsolated BigtableIsolated QueryAnswers
CHECK_DEADLOCK FALSE
