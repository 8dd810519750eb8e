SPECIFICATION Spec
CONSTANTS
  None = None
  d1 = d1
  d2 = d2
  c1 = c1
  c2 = c2
  Connections = {c1, c2}
  Descriptors = {d1, d2}
  UploadEpochs = {4}
  MinEpoch = 3
  MaxEpoch = 9
  MaxCrashes = 1
  CanFail = TRUE
SYMMETRY Alike
INVARIANTS
  TypeOK
  NoRenegingInOneLife
  MixTableBounded
CHECK_DEADLOCK FALSE
