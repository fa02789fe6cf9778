CONSTANTS
  MAX_NESTED = 1
  v0 = v0
  name = name
  actor = actor
  other = other
  Values <- MCValues
  Empty = v0
  Size <- MCSize
  NameOf <- MCNames
  ConstLens = {}
  Sections = {}
  Checks = {"NO", "R1", "R3", "R1_DECODE_NAME"}
  Policies = {"ALLOW", "SHOW_IF_NONEMPTY", "OTHER"}
  Allowed <- MCAllowed
  IntegrityCheck = TRUE
  MaxBytes = 120
SPECIFICATION FairSpec
INVARIANTS RegistersTie ReleaseJustified
PROPERTIES ConfirmationNeeded Answered
