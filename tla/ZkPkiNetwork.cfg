\* Two epochs; every step of an authority fits in a tick.
SPECIFICATION Spec
CONSTANTS
  a1 = a1
  a2 = a2
  a3 = a3
  Authorities = {a1, a2, a3}
  Faulty = {a3}
  Period = 16
  MaxDelay = 0
  MaxLate = 0
  MinEpoch = 3
  MaxEpoch = 4
  UploadTimes = {0, 4}
  MinDescriptors = 2
SYMMETRY Alike
INVARIANTS
  TypeOK
  CorrectDecide
  GenesisKept
  CorrectLearn
PROPERTIES
  DescriptorsStable
  ImplementsFsm
  ImplementsConsensus
