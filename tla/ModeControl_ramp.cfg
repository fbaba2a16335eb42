\* Two modes; two device sessions and one TPDO2 under way.
SPECIFICATION Spec
CONSTANTS
  pp = pp
  pv = pv
  None = None
  Modes <- TwoModes
  PositionMode <- pp
  MaxSessions = 1
  TpdoCapacity = 1
INVARIANTS
  TypeOK
  ModeAgreement
PROPERTIES
  OkInOneSession
  RejectedStaysDisabled
