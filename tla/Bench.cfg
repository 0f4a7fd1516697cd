CONSTANTS
  N = 2
  Offset <- Layout
  EEPROM_ENDING_ADDRESS = 6
  Bytes = {0, 1}
  NULL = NULL
  EMPTY = EMPTY
  Conns = {"c1", "c2"}
  MAX_SOCKET = 2
  SESSIONS <- SlotReused
  CELLS = 2
  LogSizes = {1, 2}
  BYTE = 4
  EPOCH = 230
  CONNECT_ATTEMPTS = 2
  BOOT_TIME = 20
  Clocks = {0, 20, 200}
  LAST_SECOND = 30
  Instants <- Moments
  RtcBoots <- ChipBoots
  RamCells = {7, 9, 10}
  RamSizes = {0, 2, 3}
  LAST = 9
  NewChips <- OneChip
  StmBoots <- BoardBoots
  AGE = 2
  SYSTEM_CLEANUP_DELAY = 10
  Addresses = {"a"}
  UNSET = UNSET
  PageNames = {"p1", "p2"}
  PageSizes = {3}
  BLOCKS = 3
  ADDED = 2
  Cards = {"c1"}
  Files = {"f1", "f2"}
  TRIES = 1
  NONE = "none"
  Pieces = {"GET", "Host", "Connection: ?", "Accept"}
  Chars <- PieceChars
  MaxPieces = 5
  LARGE_BUFFER_SIZE = 24
  RequestLines = {"GET"}
  Refused = {"Connection: ?"}
  Letters = {"b", "d", "s"}
  Bases <- NameBases
  Exts <- NameExts
  Dirs <- NameDirs
  Headers <- HeaderLines
  Stale <- StaleText
  Words = {0, 7, 10, 909, 4095, 4096, 10000, 32767, 32768, 32769, 65535}
  Strings <- PrintStrings
  Widths = {0, 4, 6, 255, 260}
  Chunks <- TwoChunks
  CUT = TRUE
  WRAP = 64
  MAX_TASKS = 2
  Tasks = {"t1"}
  NULL_TASK = NULL_TASK
  Clock = 1000
  Periods = {10, 2000}
  WordAtomic = FALSE
  Byte = 2
  Ops <- ChurnOps
  Scenes = {"settings", "device", "rtc", "stmrtc", "ntp", "telnet", "lines", "chunks", "pages",
            "request", "header", "printf", "tasks"}
SPECIFICATION BenchSpec
INVARIANTS
  BenchTypeOK Saved LastParsed ClockTells DateHeaderTrue AskedOnce ClockWithinAge
  AnswersOwnCommand NameCut InOrder CatalogKept ServesOnlyRequests RefusedInTime HeaderWhole
  PrintsArgument NoNullCall
PROPERTIES
  StoreImplemented LocalSettles ScratchApart SessionGreeted
CHECK_DEADLOCK FALSE
