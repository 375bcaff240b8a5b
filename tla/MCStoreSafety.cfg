SPECIFICATION Spec
CONSTANTS
  a = a
  b = b
  Uploads = {u1, u2, u3}
  Stems = {a, b}
  Names <- ManyNames
  OldPaths <- OldFiles
  Sizes = {1}
  MaxChunks = 2
  MaxSuffix = 2
  Rough = {b}
  Old = Old
  None = None
INVARIANTS
  TypeOK
  NoStrayPart
  PositiveSizeKept
PROPERTY InboxSpec
SYMMETRY Symmetry
CHECK_DEADLOCK FALSE
