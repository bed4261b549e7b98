SPECIFICATION Spec
CONSTANT
  Sites <- MCLostAck
INVARIANT
  PullsPinned
CHECK_DEADLOCK FALSE
