SPECIFICATION FairSpec
CONSTANTS
  Users = {ann, bob}
  MaxNodes = 2
  MaxConns = 3
  MaxKicks = 1
  MaxBans = 2
  MaxFaults = 1
INVARIANTS
  TypeOK
  NodesOfTheLiving
  LivingAreListed
PROPERTIES
  BannedAreOusted
  FlaggedAreOusted
CHECK_DEADLOCK FALSE
