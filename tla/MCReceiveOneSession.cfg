SPECIFICATION Spec
CONSTANTS
  Requests = {r1, r2}
  Addresses = {a1}
  FileIds = {f1}
  MaxPinAttempts = 1
  PinRequired = FALSE
  None = None
PROPERTY OneSession
SYMMETRY Symmetry
CHECK_DEADLOCK FALSE
