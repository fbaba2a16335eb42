\* Heartbeat frames, Boot-Up frames included, may be lost; the fairness of the
\* tasks decides what happens to an automatic identification.
SPECIFICATION FairSpec
CONSTANTS
  a = a
  b = b
  None = None
  Devices <- OneDevice
  Supported <- OnlyA
  MeowDevices <- NoDevice
  NmtStates <- TwoStates
  MaxAttempts = 1
  MaxEpoch = 2
  HbCapacity = 1
  Lossy = TRUE
INVARIANTS
  InitializedIsLive
PROPERTIES
  AutoIdentifyHappens
