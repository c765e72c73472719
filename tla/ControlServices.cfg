CONSTANTS
  CtQueues = {n1, n2}
  CtNames = {1, 2}
  CtMaxDepth = 2
  CtMaxCalls = 6
  CsJobs = {n1, n2}
  CsSpecs = {1, 2}
  CsMaxDepth = 2
  CsMaxCalls = 6
  CrJobs = {n1, n2}
  CrMaxDepth = 2
  CrMaxCalls = 6
  RsServices <- Services
  RsIds = {1, 2}
  RsMaxCalls = 4
  SmSecrets = {n1, n2}
  SmData = {"a", "b"}
  SmDestroyed = "none"
  KmKeys <- Keys
  KmAads = {1, 2}
  SmMaxVersions = 2
  SmMaxCalls = 6
  SaWorkers = {w1, w2}
  SaEmails = {n1, n2}
  SaMaxCalls = 5
  LgWorkers = {w1, w2}
  LgLogs = {n1, n2}
  LgMaxCalls = 4
  LgMaxBatch = 2
  MnWorkers = {w1, w2}
  MnIdentities = {n1, n2}
  MnCollections = {"alertPolicies", "snoozes"}
  MnTypes = {1}
  MnMaxCalls = 4
  MnMaxSeries = 2
  AgInputs <- Requests
  AgBounds <- Bounds
  AgSecond = 4
  AgMilli = 2
SYMMETRY Symmetry
SPECIFICATION ControlSpec
INVARIANTS TypeOK HandlersSettled RunsRecorded OperationsReplay SecretsKept AccountsAgree LogsKept SeriesKept AggregationLaws
CHECK_DEADLOCK FALSE
