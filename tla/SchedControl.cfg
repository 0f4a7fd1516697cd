CONSTANTS
  MAX_TASKS = 3
  Tasks = {t1}
  NULL_TASK = NULL_TASK
  Clock = 1000
  Periods = {10, 2000}
  WordAtomic = TRUE
  Byte = 2
  Ops <- ControlOps
SPECIFICATION FairSpec
INVARIANTS TypeOK RunningIsCurrent
PROPERTIES Punctual OnlyResumeRevives RunnableRuns
