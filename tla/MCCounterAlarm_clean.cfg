SPECIFICATION FairSpec
CONSTANTS
  NumChannels = 1
  Tops = {7, 15}
  AlarmTicks = {0, 2, 7}
  Guards = {2}
  Wrap = 16
  Latency = 2
INVARIANTS TypeOK AlarmsKept
PROPERTIES NeverEarly AlarmFires
