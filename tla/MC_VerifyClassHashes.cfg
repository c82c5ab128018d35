CONSTANTS
  A = A
  B = B
  C = C
  X = X
  Y = Y
  Hashes = {A, B, C}
  CasmHashes = {X, Y}
  DeclStreams <- MCDeclStreams
  MaxBatch = 2

SPECIFICATION Spec

INVARIANT TypeOK
INVARIANT AcceptsExactlyDeclared
