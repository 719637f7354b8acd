SPECIFICATION FairSpec
CONSTANTS
  Kind <- PacketHatch
  PeerFiles = {mail, note}
  Mail = {mail}
  Refused = {}
  Unsized = {note}
  NoFile = none
  RetryMax = 2
  MaxWire = 1
  MaxFaults = 1
INVARIANTS TypeOK SentKept InboundKept OfferedTaken
PROPERTY SessionEnds
CONSTRAINT InScope
