SPECIFICATION Spec
CONSTANTS
  a = a
  b = b
  Uploads = {u1, u2}
  Stems = {a}
  Names <- OneName
  OldPaths = {}
  Sizes = {1}
  MaxChunks = 1
  MaxSuffix = 2
  Rough = {a}
  Old = Old
  None = None
PROPERTY FinishedFilesKept
CHECK_DEADLOCK FALSE
