SPECIFICATION FairSpec
CONSTANT
  Sites <- MCSites
INVARIANTS
  PinCoversPull
  VerdictsTrue
  HoldsBalanced
PROPERTIES
  OffersSettle
CHECK_DEADLOCK FALSE
