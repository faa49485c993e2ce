SPECIFICATION BoardSpec
CONSTANTS
  MailDepth = 1
  MaxForeign = 2
  TxDepth = 1
  RxDepth = 1
  Digits = 2
  SerialLow = 154
  SerialHigh = 240
  Keys <- LetterAndEnter
  MaxTyped = 3
  LoSize = 4
  MaxHi = 2
  Delays = {0, 3, 5}
  Pins = {9, 14, 29, 33}
  Modes = {{}, {0}, {2}}
  Led = 29
  Blinks = 2
  Period = 2
  BusBit = 4096
  FontWidth = 8
  FontHeight = 2
  Grants <- FrameBuffers
  Glyphs <- Font
  Chars = {1, 2, 9, 10, 13}
  MaxText = 5
CHECK_DEADLOCK FALSE
INVARIANTS
  PrintsItsSerial
  TextInOrder
  ReadIsCurrent
  BlinksSlowly
  TextOnScreen
PROPERTIES
  BufferIsFree
  OtherPinsKept
  ConsoleArrives
