\* One host program making three calls in a row; it may give any of them up.
CONSTANTS
  Instructions <- AllInstructions
  INS_NONE = "NONE"
  Messages <- HostMessages
  Unruly = FALSE
  Callers <- OneCaller
  Jobs <- OneCallerJobs
  MaxCalls = 3
  MayAbandon = TRUE
SPECIFICATION FairHostSpec
INVARIANTS
  DecodesItsOwnMessage
  RefusedForAReason
  CallFreesDevice
PROPERTIES
  CallsEnd
