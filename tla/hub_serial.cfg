\* One session at a time, both nodes dialable, the sysop at work, no failure;
\* no node puts itself into SEEN-BY
SPECIFICATION ConfiguredFairSpec
CONSTANTS
  a = a  b = b  hub = hub  local = local
  addrA = addrA  addrB = addrB  addrHub = addrHub
  Nodes <- MCNodes
  Hub <- hub
  Local <- local
  Dialable = {a, b}
  Addrs <- MCAddrs
  BareAddr <- MCBareAddr
  Areas = {e1}
  SeenBys <- NoSeenBy
  Workers = {w1}
  MaxMsg = 1
  MaxImport = 1
  MaxEdits = 2
  MaxFaults = 0
  ReuseIds = FALSE
PROPERTIES
  PendingSettled
