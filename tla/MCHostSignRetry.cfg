CONSTANTS
  Invalid = Invalid
  Requests <- MCFewRequests
  Shipped = {1, 2}
  Again = {1}
  MAX_NESTED = 5
  Values <- MCValues
  Empty <- EmptyText
  Size <- MCSize
  NameOf <- MCNameOf
  ConstLens <- AllConstLens
  Sections <- MCSections
  Checks <- AllChecks
  Policies <- AllPolicies
  Allowed <- MCAllowed
  IntegrityCheck = TRUE
  MaxBytes = 60000
SPECIFICATION HostSpec
INVARIANT RetriedTransparently
