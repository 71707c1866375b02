SPECIFICATION Spec
CONSTANTS
  none = none  acct = acct  other = other
INVARIANTS SubPoolsSound IteratorSound SidecarsTracked
PROPERTIES LimitsEnforced PoolCatchesUp
CHECK_DEADLOCK FALSE
