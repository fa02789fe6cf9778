CONSTANTS
  AppendLens = {0, 1, 7, 15, 16, 17, 33, 195, 220}
  MaxPlain = 260
SPECIFICATION Spec
INVARIANTS TypeOK CipherTextConserved ChunkingIrrelevant HostLengthAgrees
CHECK_DEADLOCK FALSE
