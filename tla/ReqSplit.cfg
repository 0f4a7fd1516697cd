CONSTANTS
  Pieces <- Lines
  Chars <- LineChars
  MaxPieces = 5
  LARGE_BUFFER_SIZE = 24
  RequestLines = {"GET"}
  Refused = {"Connection: ?"}
SPECIFICATION RequestSpec
INVARIANTS ProcessesFullRequest
CHECK_DEADLOCK FALSE
