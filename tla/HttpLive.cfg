CONSTANTS
  Conns = {"c1"}
  MAX_SOCKET = 1
  Pages <- Catalog
  Kind <- KindOf
  Size <- File1
  DynSizes = {2}
  Handles = {0, 1}
  LARGE_BUFFER_SIZE = 2
  MAX_POST_SIZE = 4
  MAX_ALIVE_TIME = 1
  TX = 2
  Traffic <- OneClient
  Faults = {"slot_reused"}
  NULL = NULL
SPECIFICATION FairSpec
PROPERTIES IdleReleased BodyEnds
