\* Two motors or boxes of either dialect under one node id, power cuts anywhere.
SPECIFICATION Spec
CONSTANTS
  Motors = {m}
  FdBoxes = {f}
  ClassicBoxes = {c}
  None = None
  Own = own
  Other = other
  Factory <- MCFactory
  Updates <- MCUpdates
  NmtStates = {"PreOperational", "Operational"}
  HbCapacity = 1
INVARIANTS TypeOK AppliedMeansStored NoDuplicateId PresetOnDisabledDrive
CHECK_DEADLOCK FALSE
