SPECIFICATION Spec
CONSTANTS
  Hashes = {a, b, c}
  HBM = HBM
  Absent = Absent
  Garbage = Garbage
  NumBlocks = 2
  Kinds = {"landing"}
  MaxBatch = 2
  MaxOps = 2
  MaxAppPins = 1
  MaxCrashes = 1
  MaxWriteThrough = 1
  HasRegistry = FALSE
  Secondary = FALSE
  EarlyPeers = TRUE
SYMMETRY Symmetry
INVARIANTS
  IndexSound
