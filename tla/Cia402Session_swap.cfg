\* A supported and an unsupported device in turn under one node id, and any
\* Boot-Up may be lost; two fault-clear attempts and two device sessions, so
\* that the device is swapped while a call waits for its recovery reset.
SPECIFICATION Spec
CONSTANTS
  a = a
  b = b
  None = None
  Devices <- TwoDevices
  Supported <- OnlyA
  MeowDevices <- NoDevice
  NmtStates <- TwoStates
  MaxAttempts = 2
  MaxEpoch = 2
  HbCapacity = 1
  Lossy = TRUE
INVARIANTS
  TypeOK
  InitializedIsConfigured
  ConstantsBelongToDevice
  IdentityIsCurrent
  GateRespected
PROPERTIES
  ImplementsLifecycle
  IdentifiedIsSettled
  ResetJustified
