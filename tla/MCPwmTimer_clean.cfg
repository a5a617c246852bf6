SPECIFICATION Spec
CONSTANTS
  MaxCount = 3
  Wrap = 8
  Periods = {2, 3}
  Pulses = {1, 5}
  CountModes <- AllModes
  Latency = 1
  MinGap = 2
  MaxAge = 5
  Hazards = {}
INVARIANTS TypeOK OutputAsAsked
PROPERTIES ReportTrue ReportOnlyArmed CaptureReports
CHECK_DEADLOCK FALSE
