SPECIFICATION FairSpec
CONSTANTS
  a = a
  f1 = f1
  f2 = f2
  Uploads = {u1, u2}
  Others = {p}
  Addresses = {a1}
  FileIds = {f1, f2}
  Offers <- OneOrTwo
  MaxPinAttempts = 1
  PinRequired = FALSE
  Stems = {a}
  Names <- OneName
  OldPaths = {}
  Sizes = {1}
  MaxChunks = 1
  MaxSuffix = 2
  Rough = {a}
  Old = Old
  None = None
INVARIANTS
  TypeOK
  RecordedOnDisk
  ReceivedIsWhole
  NoStrayPart
PROPERTIES
  CallReturns
  UploadsSettle
CHECK_DEADLOCK FALSE
