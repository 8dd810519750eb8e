SPECIFICATION Spec
CONSTANTS
  a1 = a1
  a2 = a2
  Authorities = {a1}
  MaxRuns <- OneRun
PROPERTIES
  SignalHalts
CHECK_DEADLOCK FALSE
