CONSTANTS
  MAX_TASKS = 1
  Tasks = {t1}
  NULL_TASK = NULL_TASK
  Clock = 1000
  Periods = {10, 2000}
  WordAtomic = FALSE
  Byte = 2
  Ops <- FirmwareOps
SPECIFICATION Spec
PROPERTIES Punctual
