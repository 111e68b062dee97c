SPECIFICATION WireSpec
CONSTANTS
  MAXP = 2
  MaxReply = 2
  URB_SIZE = 3
  EP0_MAXP = 2
  LINE_CODING = 2
  InLengths <- MCInLengths
  OutLengths <- MCOutLengths
  PACKET_SIZE = 144
  MD32_MAX = 2
  XmlSize = 170
  TRACE_SIZE = 80
  TRACE_CMD_LIMIT = 3
  Lengths = {0, 1, 72, 73, 1000}
  MaxTries = 2
  MaxCommands = 4
  MaxNoise = 1
  MaxReboots = 1
  W = 6
  RegValues = {0, 13, 38, 63}
  Bytes = {"$", "#", "0", "1"}
  CMD_SIZE = 2
  Base = 2
  MaxWire = 9
  MaxFeed = 3
INVARIANTS EventsAreMeaning HostHasReply HostDataIsOwn PacketIsServed RepliesAreRight NextIsExecuted
PROPERTIES ControlIsServed
