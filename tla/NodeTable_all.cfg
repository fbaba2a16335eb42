SYMMETRY CallerSymmetry
SPECIFICATION Spec
CONSTANTS
  n1 = n1
  c1 = c1
  c2 = c2
  slow = slow
  fast = fast
  None = None
  Nodes <- OneNode
  Callers <- TwoCallers
  Rates <- TwoRates
  DefaultRate = slow
  MaxEntries = 3
INVARIANTS
  OneRatePerBus OneOperationPerNode NoCommitOnOrphan
