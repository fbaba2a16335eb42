\* Two motors of one model in turn; a's area in every state the decoder tells apart.
SPECIFICATION CalibrationSpec
CONSTANTS
  a = a
  b = b
  Devices = {a, b}
  IdentityOf <- MCIdentity
  Areas <- MCAreas
  Nothing = Nothing
  MaxEpoch = 2
INVARIANTS ValidIsIssued
PROPERTIES VerdictIsTrue
