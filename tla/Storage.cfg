CONSTANTS
  b = b
  o1 = o1
  o2 = o2
  c1 = c1
  c2 = c2
  Buckets <- MCBuckets
  Names <- MCNames
  Metas = {0, 1}
  NoMeta = 0
  Clients <- MCClients
  FileLen = 2
  ChunkLen = 1
  MaxClock = 3
  MaxMeta = 2
  MaxReceived = 2
SPECIFICATION Spec
INVARIANTS TypeOK WholeObjects VersionNamesContent NoSharedNumbers
PROPERTIES ImplementsStore
SYMMETRY Symmetry
