CONSTANTS
  A = A
  B = B
  C = C
  NoHeader = NoHeader
  None = None
  Start = 1
  Stop = 2
  Hashes = {A, B, C}
  Declared <- MCDeclared
  SierraHashes = {B, C}
  CasmTables <- MCCasmTables
  CompileFails = {C}
  MaxBatch = 2
  MaxCrashes = 1
  MaxOutages = 1

SPECIFICATION Spec

INVARIANT NoPanicOnPeerData
