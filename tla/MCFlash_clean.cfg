SPECIFICATION Spec
CONSTANTS
  Threads = {t1, t2}
  Size = 8
  Wrap = 16
  PageBlocks = 2
  Values = {"data"}
  Calls <- SmallCalls
  Split = 4
  Protected = {3}
  MaxLosses = 1
  Hazards = {}
INVARIANTS TypeOK QuietBetweenCalls
PROPERTIES ImplementsService CallReturns
CHECK_DEADLOCK FALSE
