SPECIFICATION Spec
CONSTANTS
  Threads = {t1, t2}
  NoThread = NoThread
  Plans <- PlainPlans
  MaxChunk = 2
  SemLimit = 3
  Faults = {"nack", "arlo", "buserr"}
  LateIrq = FALSE
INVARIANTS TypeOK IsrOwnsCurrent
PROPERTIES RestartHonoured SuccessMeansDone ImplementsService
