SPECIFICATION FairSpec
CONSTANTS
  Web = Web  Terminal = Terminal
  Procs <- TwoProcs
  Watchers = {"wait"}
  MaxNodes = 1
  MaxLaunches = 2
  MaxFaults = 1
  MaxEdits = 2
  OverlappingLaunches = FALSE
INVARIANTS
  TypeOK
  SharedOnlyIfDisowned
  InPlayIsListed
PROPERTY
  NodesComeFree
CHECK_DEADLOCK FALSE
