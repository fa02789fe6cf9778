CONSTANTS
  Invalid = Invalid
  Requests <- MCObtRequests
  Shipped = {1}
  Again = {}
  MAX_NESTED = 5
  Values <- MCValues
  Empty <- EmptyText
  Size <- MCSize
  NameOf <- MCNameOf
  ConstLens <- AllConstLens
  Sections <- MCSections
  Checks <- AllChecks
  Policies <- AllPolicies
  Allowed <- MCAllowed
  IntegrityCheck = TRUE
  MaxBytes = 60000
SPECIFICATION FairHostSpec
PROPERTY AcceptedValuesSign
