SPECIFICATION Spec
CONSTANTS
  Hashes = {a, b, c}
  HBM = HBM
  Absent = Absent
  Garbage = Garbage
  NumBlocks = 2
  Kinds = {"insert", "save"}
  MaxBatch = 2
  MaxOps = 2
  MaxAppPins = 1
  MaxCrashes = 0
  MaxWriteThrough = 1
  HasRegistry = FALSE
  Secondary = FALSE
  EarlyPeers = FALSE
SYMMETRY Symmetry
INVARIANTS
  NoBlockStranded
