SPECIFICATION Spec
CONSTANTS
  Requests = {r1, r2}
  Addresses = {a1}
  FileIds = {f1}
  MaxPinAttempts = 1
  PinRequired = FALSE
  None = None
INVARIANT TimeoutMeansNobodySent
SYMMETRY Symmetry
CHECK_DEADLOCK FALSE
