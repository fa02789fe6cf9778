\* The device with any host and user; CHECK_DEADLOCK is on: it never stops.
CONSTANTS
  Instructions <- AllInstructions
  INS_NONE = "NONE"
  Messages <- AllMessages
  Unruly = TRUE
SPECIFICATION FairSpec
INVARIANTS
  TypeOK
  OneAnswerEach
  StateTold
  ButtonsExpected
  ShownBeforeSent
  KeyShownAsAsked
  DecodedWithinMessage
  OpenCallContinues
PROPERTIES
  FrameSpec
  Answered
