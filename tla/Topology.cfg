\* Five nodes for three layers, two of which may come or go between two epochs, and a
\* configuration that lists four of them, or none.
SPECIFICATION Spec
CONSTANTS
  a1 = a1
  a2 = a2
  Authorities = {a1, a2}
  Nodes = {1, 2, 3, 4, 5}
  Layers = 3
  Seeds <- SomeSeeds
  Perm <- Rotation
  MaxChanges = 2
  Configured <- SomeConfigured
SYMMETRY Alike
INVARIANTS
  TypeOK
  VotesAlike
  EveryNodePlacedOnce
  LayersEven
  FewestMoves
