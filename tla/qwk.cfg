SPECIFICATION FairSpec
CONSTANTS
  n1 = n1  a1 = a1  a2 = a2  k1 = k1  r1 = r1
  Nodes = {n1}
  Areas = {a1, a2}
  TagNumber <- Tagged
  Keys = {k1}
  StartRows <- Both
  Reps <- OneMessage
  Composed = Composed
  Requests = {r1}
  Ftp = Ftp
  Batch = 1
  MaxMessages = 2
  MaxRows = 2
  MaxEdits = 2
  MaxFaults = 1
  EditsDuringDownload = FALSE
  OverlappingUploads = FALSE
INVARIANTS
  TypeOK
  MarkedIsDelivered
  MarkIsStored
  StoredOnce
PROPERTY
  MailIsPacked
CHECK_DEADLOCK FALSE
