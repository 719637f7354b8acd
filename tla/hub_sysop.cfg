\* Two sessions at once, the sysop and a failure; two messages within InScope
SPECIFICATION ConfiguredSpec
CONSTANTS
  a = a  b = b  hub = hub  local = local
  addrA = addrA  addrB = addrB  addrHub = addrHub
  Nodes <- MCNodes
  Hub <- hub
  Local <- local
  Dialable = {b}
  Addrs <- MCAddrs
  BareAddr <- MCBareAddr
  Areas = {e1}
  SeenBys <- SomeSeenBys
  Workers = {w1, w2}
  MaxMsg = 2
  MaxImport = 2
  MaxEdits = 2
  MaxFaults = 1
  ReuseIds = FALSE
INVARIANTS
  TypeOK
  SentImpliesReceived
  LoopFree
  FanOutComplete
  
PROPERTIES
  ForwardingSpec
SYMMETRY SameWorkers
CONSTRAINT InScope
