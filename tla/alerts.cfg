SPECIFICATION FairSpec
CONSTANTS
  Users = {ann, bob}
  MaxConns = 2
  MaxWeb = 1
  MaxFaults = 1
  Limit = 1
INVARIANTS
  TypeOK
  OnceAndInOrder
  MissedOnlyIfReused
  OnlineAreListed
PROPERTY
  AlertsArrive
CHECK_DEADLOCK FALSE
