SPECIFICATION Spec
CONSTANTS
  NameCap = 4
  ExtCap = 2
  HostTexts <- Hosts
  RawNames <- SomeNames
  Requested <- SomeRequests
  PeerLists <- SomeLists
INVARIANTS
  StaysInside
  KeepsExtension
  ReadsBack
  AcceptedExactly
  AliasReaches
CHECK_DEADLOCK FALSE
