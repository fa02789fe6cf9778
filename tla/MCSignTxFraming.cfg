CONSTANTS
  MAX_NESTED = 2
  v0 = v0
  name = name
  actor = actor
  other = other
  Values <- NoValues
  Empty = v0
  Size <- NoSize
  NameOf <- NoNames
  ConstLens = {17}
  Sections <- FramingSections
  Checks = {}
  Policies = {}
  Allowed = {}
  IntegrityCheck = FALSE
  MaxBytes = 142
SPECIFICATION Spec
INVARIANTS TypeOK SectionsExact ProperNesting
PROPERTY FramingKept
