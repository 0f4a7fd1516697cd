CONSTANTS
  Conns = {"c1", "c2"}
  MAX_SOCKET = 2
  Pages <- Catalog
  Kind <- KindOf
  Size <- File3
  DynSizes = {1, 3}
  Handles = {0, 1}
  LARGE_BUFFER_SIZE = 2
  MAX_POST_SIZE = 4
  MAX_ALIVE_TIME = 0
  TX = 2
  Traffic <- Visitors
  Faults = {}
  NULL = NULL
SPECIFICATION Spec
INVARIANTS TypeOK OwnBodyIntact PostIntact PositionInPage FilesClosed
