SPECIFICATION Spec
CONSTANTS
  Hashes = {a, b, c}
  HBM = HBM
  Absent = Absent
  Garbage = Garbage
  NumBlocks = 2
  Kinds = {"insert", "save", "load", "sweep", "landing"}
  MaxBatch = 1
  MaxOps = 2
  MaxAppPins = 1
  MaxCrashes = 0
  MaxWriteThrough = 1
  HasRegistry = TRUE
  Secondary = FALSE
  EarlyPeers = FALSE
SYMMETRY Symmetry
INVARIANTS
  BlocksOwnedOnce
  PinsBalanced
  ReadersSeeData
  TableSound
