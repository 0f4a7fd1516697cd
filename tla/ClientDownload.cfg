CONSTANTS
  Conns = {"c1", "c2"}
  MAX_SOCKET = 2
  Handles = {0, 1}
  Responses <- Answers
  MAX_ALIVE_TIME = 1
  Faults = {"dns_fails", "no_room", "connect_fails", "card_fails", "open_fails",
            "write_fails", "end_cut"}
  NULL = NULL
SPECIFICATION FairSpec
INVARIANTS TypeOK RequestHasSocket FilesClosed ReportedInOrder CompleteIsWhole
PROPERTIES ReportEndsRequest SilentEnds
