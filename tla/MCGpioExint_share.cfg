SPECIFICATION Spec
CONSTANTS
  Ports = {A, B}
  PortA = A
  NoPort = NoPort
  LastLine = 1
  Modes <- FewModes
  Ranges <- OneLineEach
  Exclusive = FALSE
INVARIANT ArmedLinesWork
