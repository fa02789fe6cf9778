\* One caller, an undisturbed device, and a message whose memo cannot be displayed.
CONSTANTS
  Instructions <- AllInstructions
  INS_NONE = "NONE"
  Messages <- DroppedMessages
  Unruly = FALSE
  Callers <- OneCaller
  Jobs <- Decoder
  MaxCalls = 1
  MayAbandon = FALSE
SPECIFICATION HostSpec
INVARIANT CallsAreAnswered
