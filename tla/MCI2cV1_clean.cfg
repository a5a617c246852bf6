SPECIFICATION Spec
CONSTANTS
  Transfers <- SoundTransfers
  Builds = {"interrupt", "polling"}
  Addressing = {TRUE, FALSE}
  Hazards = {}
INVARIANTS TypeOK LastByteNacked
PROPERTIES SuccessMeansDone StopsAsAsked TransferReturns
