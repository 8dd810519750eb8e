\* Two authorities with one node identifier, run up to three times and once.
SPECIFICATION Spec
CONSTANTS
  a1 = a1
  a2 = a2
  Authorities = {a1, a2}
  MaxRuns <- ThreeRuns
INVARIANTS
  TypeOK
  KeyPairMatches
  ServesOnlyRegistered
  NodeKeyKept
PROPERTIES
  StartEnds
CHECK_DEADLOCK FALSE
