SPECIFICATION Spec
CONSTANTS
  NameCap = 4
  ExtCap = 2
  HostTexts <- Hosts
  RawNames = {}
  Requested <- RequestsOfToday
  PeerLists = {}
INVARIANT FreshIsAccepted
CHECK_DEADLOCK FALSE
