SPECIFICATION Spec
CONSTANTS
  Period = 16
  MaxDelay = 1
  MaxLate = 1
  MinEpoch = 3
  MaxEpoch = 4
  UploadEpochs = {}
  SettleEpochs = {3, 4, 5}
  Requested = {4}
INVARIANT
  GoneIsForever
