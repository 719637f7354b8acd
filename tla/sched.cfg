\* Two events, the sysop, one failure
SPECIFICATION FairSpec
CONSTANTS
  Events = {1, 2}
  Period = 2
  Schedules <- MCSchedules
  MaxTime = 4
  MaxEdits = 2
  MaxFaults = 1
INVARIANTS
  TypeOK
PROPERTIES
  RunsOncePerOccurrence
  MissedRunsHappen
