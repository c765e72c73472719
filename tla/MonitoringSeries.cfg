CONSTANTS
  MnWorkers = {w1, w2}
  MnIdentities = {i1, i2}
  MnCollections = {"alertPolicies", "snoozes"}
  MnTypes = {1}
  MnMaxCalls = 3
  MnMaxSeries = 2
SPECIFICATION MonitoringSpec
INVARIANT OneSeriesPerIdentity
CHECK_DEADLOCK FALSE
