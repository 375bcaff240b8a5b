SPECIFICATION FairSpec
CONSTANTS
  Devices = {d1, d2}
  Self = self
  Prints = {conf, cert, other}
  ConfigPrint = conf
  CertPrint = cert
  Bursts = 2
  None = None
INVARIANTS
  TypeOK
  NothingLeftOpen
  AnsweredIsListed
  NeverOurselves
PROPERTY ScanEnds
CHECK_DEADLOCK FALSE
