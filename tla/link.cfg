\* Polls and calls of the hub that overlap, a process that dies, and a poller
\* that keeps polling past it
SPECIFICATION FairSpec
CONSTANTS
  MaxMsg = 1
  Workers = {w1, w2}
  Callers = {w2}
  Nobody = nobody
  MaxSecond = 2
  MaxFaults = 1
INVARIANTS
  TypeOK
  StampedImpliesReceived
  RetriesRecognised
PROPERTIES
  ForwardingSpec
  QueuedMailGoesOut
