SPECIFICATION Spec
CONSTANTS
  None = None
  d1 = d1
  d2 = d2
  c1 = c1
  c2 = c2
  Connections = {c1, c2}
  Descriptors = {d1, d2}
  UploadEpochs = {4}
  MinEpoch = 3
  MaxEpoch = 4
  MaxCrashes = 1
  CanFail = FALSE
SYMMETRY Alike
INVARIANT
  NoReneging
CHECK_DEADLOCK FALSE
