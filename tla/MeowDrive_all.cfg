SPECIFICATION Spec
CONSTANTS
  Mit = Mit
  Torque = Torque
  Modes <- TwoModes
  Width <- TwoWidths
  LimitCount = 1
  MaxAttempts = 2
  MaxBoots = 2
  TpdoCapacity = 1
  Off = Off
  Clear = Clear
  Error = Error
  Unknown = Unknown
INVARIANTS
  TypeOK NoMixedTargetEnabled FailedModeIsOff EveryRetryIsAnEdge
