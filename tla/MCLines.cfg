SPECIFICATION LinesSpec
CONSTANTS
  Blocks <- MCBlocks
  Vals <- MCVals
  SD_READ_TRIES = 3
  SD_WRITE_TRIES = 3
  SD_SWITCH_TRIES = 2
  CMD8_TRIES = 2
  CHUNK = 2
  MaxFaults = 2
  BITS = 3
  Code <- MCCode
  ACK <- MCAck
  RESEND <- MCResend
  MOVE <- MCMove
  InitCommands <- MCInit_
  MaxPolls = 2
  MaxMoves = 2
  MaxPadFaults = 1
INVARIANTS SuccessIsTrue NothingIsLeft ClockFits CaptureIsTrue
PROPERTIES OneFaultIsCovered AckMeansTaken WaitsEnd
