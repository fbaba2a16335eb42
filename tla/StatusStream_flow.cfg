\* Two publishers and a slow user; a queue of two slots overflows and drains.
SPECIFICATION Spec
CONSTANTS
  discovery = discovery
  tpdo = tpdo
  Publishers <- Tasks
  Capacity = 2
  MaxVersion = 8
  MaxPushes = 8
SYMMETRY TaskSymmetry
INVARIANTS
  TypeOK
  LossAccounted
PROPERTIES
  DrainedStreamResumes
CHECK_DEADLOCK FALSE
