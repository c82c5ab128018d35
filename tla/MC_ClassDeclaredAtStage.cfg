CONSTANTS
  A = A
  B = B
  C = C
  NoHeader = NoHeader
  None = None
  Start = 1
  Stop = 3
  Hashes = {A, B, C}
  DBs <- MCDBs
  MaxItems = 4
  ChanCap = 1

SPECIFICATION Spec

INVARIANT TypeOK
INVARIANT MatchesStageReference
 
PROPERTY SourceReleased
