SPECIFICATION AllSpec
CONSTANTS
  Sites <- AllSites
  MaxNow = 3
  Ttl = 2
  ArmAttempts = 2
  Requests <- AllRequests
  Plans <- AllPlans
  Tries <- AllTries
  Timeout = 1
  None = none
INVARIANTS
  AttemptsSound
  PlanSound
  SessionsSound
  ReactorSafe
PROPERTIES
  AllEnds
CHECK_DEADLOCK FALSE
