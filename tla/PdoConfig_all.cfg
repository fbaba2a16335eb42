SPECIFICATION Spec
CONSTANTS
  Profiles <- TwoTimers
  Requests <- MixedRequests
  Mappings = {1, 2}
  MotorId = 5
  HostId = 16
  MaxInits = 2
  MaxCalls = 3
  MaxBoots = 2
  MaxEntries = 6
  None = None
INVARIANTS
  EnabledIsWhole InitializedAsAsked
