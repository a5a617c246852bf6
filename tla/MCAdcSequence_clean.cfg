SPECIFICATION Spec
CONSTANTS
  Buffers <- Slots
  BufferSize = 6
  ItemLimit = 6
  Callers = {c1, c2}
  Reads <- SmallReads
  Ranks = 2
  ResTable = {8, 12}
  MaxRepeats = 1
  MaxRequested = 2
  LockBound = 1
  Hazards = {"dterr"}
INVARIANTS TypeOK SamplesInOrder PowerLock
PROPERTY ReadReturns
CHECK_DEADLOCK FALSE
