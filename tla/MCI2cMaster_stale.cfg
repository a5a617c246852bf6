SPECIFICATION Spec
CONSTANTS
  Threads = {t1, t2}
  NoThread = NoThread
  Plans <- RacyPlans
  MaxChunk = 2
  SemLimit = 2
  Faults = {}
  LateIrq = TRUE
PROPERTIES SuccessMeansDone
