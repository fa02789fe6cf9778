\* Three callers on one transport; decodeMessage is not one of the methods that lock it.
CONSTANTS
  Instructions <- AllInstructions
  INS_NONE = "NONE"
  Messages <- SharedMessages
  Unruly = FALSE
  Callers <- ThreeCallers
  Jobs <- Sharing
  MaxCalls = 1
  MayAbandon = FALSE
SPECIFICATION HostSpec
INVARIANT DecodesItsOwnMessage
