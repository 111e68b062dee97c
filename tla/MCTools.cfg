SPECIFICATION ToolsSpec
CONSTANTS
  WRAP = 4
  MaxReal = 14
  Keys = {4, 5}
  Modifiers = {224, 228}
  SLOTS = 1
  QUEUE_SIZE = 4
  KEY_QUEUE_SIZE = 3
  MAX_REPORTS_PER_POLL = 2
  DoomKey <- MCDoomKey
  MenuKey <- MCMenuKey
  MaxPlugs = 2
  MaxErrors = 1
  MaxMoves = 3
  PACKET = 8
  MaxTokenFaults = 2
  TOOL_CHUNKS = 2
  TOOL_PAGES = 3
  NF_PROBES = 2
  PROBE_ITERS = 2
  UNITS = 4
  CHUNK = 3
  SEGMENT = 2
  STRIDE = 3
  MaxPrograms = 4
  MaxSdFaults = 1
INVARIANTS Exact KeysFollow OutIsTrue NandReportIsTrue SdReportIsTrue
PROPERTIES KeyboardReturns
CHECK_DEADLOCK FALSE
