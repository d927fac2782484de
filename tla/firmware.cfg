CONSTANTS
  IR_SAMPLE_DURATION = 3
  IR_TRESHOLD = 2
  PB_TRESHOLD = 2
  ByteBits = 1
  NUM_REPEAT_SIGNAL = 2
  RF_TIME_SHORT = 1
  RF_TIME_LONG = 3
  RF_TIME_SNYC = 5
  Code <- OneCode
  OkChars <- AllOk
  SensorChars <- Nothing
  RawChar = ">"
  OtherChars <- Nothing
  Byte <- Values
  NoChar = "none"
  ButtonLevels <- Free
  MovementLevels <- Free
  MaxChars = 5
  MaxLag = 20
SPECIFICATION FairSpec
CONSTRAINT OneAtATime
INVARIANTS
  NoAckLost
  WindowsAreSeparate
PROPERTIES
  PanicReports
  FramesAreSentWhole
  CodesAreAcknowledged
