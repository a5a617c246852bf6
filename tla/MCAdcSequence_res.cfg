SPECIFICATION Spec
CONSTANTS
  Buffers <- Slots
  BufferSize = 6
  ItemLimit = 6
  Callers = {c1}
  Reads <- TwoResolutions
  Ranks = 2
  ResTable = {8, 12}
  MaxRepeats = 1
  MaxRequested = 2
  LockBound = 1
  Hazards = {}
INVARIANT ResolutionSet
CHECK_DEADLOCK FALSE
