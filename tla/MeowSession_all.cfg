\* A motor and a foreign device in turn under one node id; Boot-Up frames may
\* be lost; neither optional part of the setup is configured.
SPECIFICATION FairSpec
CONSTANTS
  Devices = {a, x}
  Supported = {a}
  None = None
  NmtStates = {"PreOperational", "Operational"}
  Options = {}
  MaxEpoch = 2
  HbCapacity = 1
INVARIANTS TypeOK ReadyIsLive ReadyIsConfigured ConstantsOfReady
PROPERTIES ImplementsLifecycle AutoIdentified
CHECK_DEADLOCK FALSE
