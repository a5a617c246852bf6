SPECIFICATION FairSpec
CONSTANTS
  Buffers = {"none", "own", "dummy", "old"}
  ItemLimit = 8
  Requests <- SmallRequests
  Hazards = {"dterr", "sperr"}
INVARIANTS TypeOK QuietWhenIdle ChunksMatch
PROPERTIES SuccessMeansMoved NoStrayAccess CallReturns
