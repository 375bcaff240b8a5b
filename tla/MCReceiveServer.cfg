SPECIFICATION Spec
CONSTANTS
  Requests = {r1, r2, r3}
  Addresses = {a1, None}
  FileIds = {f1, f2}
  MaxPinAttempts = 1
  PinRequired = TRUE
  None = None
INVARIANTS
  TypeOK
  CompletedMeansAll
  RecordedBelongs
  AnswerMatchesRecord
  LastAnswerFirst
  GuessesBounded
  CancelNeedsSession
PROPERTIES
  OutcomeStable
  SettledTakesNothingNew
SYMMETRY Symmetry
CHECK_DEADLOCK FALSE
