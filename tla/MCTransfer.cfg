SPECIFICATION Spec
CONSTANTS
  s1 = s1
  s2 = s2
  f1 = f1
  f2 = f2
  a1 = a1
  a2 = a2
  Senders = {s1, s2}
  FileIds = {f1, f2}
  Offers <- MCOffers
  Home <- MCHome
  Abroad <- MCAbroad
  MaxLost = 1
  MaxPinAttempts = 1
  PinRequired = FALSE
  None = None
INVARIANTS
  TypeOK
  ReportedIsRecorded
  WholeMeansCompleted
  CancelSettles
  CompletedRefusedNothing
SYMMETRY Swap
CHECK_DEADLOCK FALSE
