\* Two callers of the methods that lock the transport and one of decodeMessage.
CONSTANTS
  Instructions <- AllInstructions
  INS_NONE = "NONE"
  Messages <- SharedMessages
  Unruly = FALSE
  Callers <- ThreeCallers
  Jobs <- Locking
  MaxCalls = 2
  MayAbandon = FALSE
SPECIFICATION HostSpec
INVARIANTS
  LockedCallsComplete
