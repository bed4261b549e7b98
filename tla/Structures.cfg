SPECIFICATION Spec
CONSTANTS
  Parts = {"cache", "pool", "segment", "files", "mapping", "copies", "pipeline"}
  Keys = {k1, k2, k3}
  Values = {host, hbm}
  Resident = {host}
  Absent = absent
  Capacity = 2
  MaxPins = 2
  TotalBlocks = 3
  Entities = {e1, e2}
  None = none
  MaxAccess = 3
  MaxIds = 2
  Nothing = nothing
  NumBlocks = 2
  Hashes = {a, b, z}
  Torn = Torn
  TooLong = {z}
  MaxSeq = 3
  MaxCrashes = 2
  Sites <- SmallSites
  BadHashes = {""}
  SliceSizes <- TwoSlices
  MaxIov = 1
  MaxEntries = 2
  NoKey = NoKey
  PoolSites <- SmallPools
  CopySites <- SmallDevices
  PipeJobs <- SmallJobs
INVARIANTS
  EvictableExact
  NumFreeExact
  FilesWhole
  LookupsSound
  MappingSafe
  CopiesTrue
  PromiseTrue
PROPERTIES
  PinProtects
  LockedKeepsOwner
  ImplementsTable
  RecoversNewest
  CallsEnd
CHECK_DEADLOCK FALSE
