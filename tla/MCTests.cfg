\* The repository's tests as the oracle; no test may get stuck, so CHECK_DEADLOCK is on.
CONSTANTS
  Invalid = Invalid
  Numbers <- MCNumbers
  Given <- MCGiven
  Requests <- MCRequests
  Shipped <- MCShipped
  Again <- MCAgain
  MAX_NESTED = 5
  Values <- MCValues
  Empty <- EmptyText
  Size <- MCSize
  NameOf <- MCNameOf
  ConstLens <- AllConstLens
  Sections <- MCSections
  Checks <- AllChecks
  Policies <- AllPolicies
  Allowed <- MCAllowed
  IntegrityCheck = TRUE
  MaxBytes = 60000
SPECIFICATION TestsSpec
INVARIANTS EndsAsTested ScriptsPass FinishedBlocksReturned HostNumbersArrive LoopParses
