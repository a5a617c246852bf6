SPECIFICATION FairSpec
CONSTANTS
  Threads = {t1, t2}
  NoThread = NoThread
  Plans <- RacyPlans
  MaxChunk = 2
  SemLimit = 2
  Faults = {"nack", "buserr"}
  LateIrq = TRUE
INVARIANTS BusExclusive PmBalanced DrainNeverBlocks
PROPERTIES CallReturns
