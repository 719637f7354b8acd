SPECIFICATION FairSpec
CONSTANTS
  Users = {ann, bob}
  MaxNodes = 2
  MaxConns = 3
  MaxKicks = 1
  MaxBans = 0
  MaxFaults = 1

PROPERTIES
  KickDisconnects
CHECK_DEADLOCK FALSE
