SPECIFICATION FairSpec
CONSTANTS
  Ports = {A, B}
  PortA = A
  NoPort = NoPort
  LastLine = 1
  Modes <- FewModes
  Ranges <- OneLineEach
  Exclusive = TRUE
INVARIANTS TypeOK ArmedLinesWork
PROPERTIES EdgeDelivered
