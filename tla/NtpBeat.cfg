CONSTANTS
  BYTE = 4
  EPOCH = 230
  CONNECT_ATTEMPTS = 1
  BOOT_TIME = 20
  Clocks = {0}
  LAST_SECOND = 30
  AGE = 2
  SYSTEM_CLEANUP_DELAY = 10
  Addresses = {"a"}
  UNSET = UNSET
SPECIFICATION NtpSpec
INVARIANTS FatTimeKept
CHECK_DEADLOCK FALSE
