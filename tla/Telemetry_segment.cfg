SPECIFICATION TelemetrySpec
CONSTANTS
  Circle = 7
  Turn = 3
  StampMod = 3
  ClockMod = 4
  GapLimit = 2
  Discontinuity = 3
  Window = 2
  Moves = {0, 1}
  Homes = {0}
  BootTime = 4
  MaxDelay = 1
  WireCapacity = 2
  MaxTime = 12
  MaxInits = 2
  MaxSessions = 0
  MaxBoots = 0
  None = None
INVARIANTS
  SegmentTellsGap
