SPECIFICATION Spec
CONSTANTS
  Users = {ann, bob}
  MaxConns = 2
  MaxWeb = 1
  MaxFaults = 0
  Limit = 1
INVARIANT
  NothingMissed
CHECK_DEADLOCK FALSE
