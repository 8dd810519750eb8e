------------------------- MODULE MCDescriptorStore -------------------------
(* Model values for DescriptorStore: descriptors, and connections, are     *)
(* alike.                                                                  *)
EXTENDS DescriptorStore, TLC

Alike == Permutations(Descriptors) \cup Permutations(Connections)
=============================================================================
