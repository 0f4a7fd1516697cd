CONSTANTS
  Conns = {"c1", "c2"}
  MAX_SOCKET = 2
  Pages <- Catalog
  Kind <- KindOf
  Size <- File1
  DynSizes = {2}
  Handles = {0, 1}
  LARGE_BUFFER_SIZE = 2
  MAX_POST_SIZE = 4
  MAX_ALIVE_TIME = 1
  TX = 2
  Traffic <- SamePage
  Faults = {}
  NULL = NULL
SPECIFICATION Spec
INVARIANTS BodyIntact
