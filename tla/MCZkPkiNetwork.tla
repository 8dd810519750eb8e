--------------------------- MODULE MCZkPkiNetwork ---------------------------
(* Model values for ZkPkiNetwork: the correct authorities are alike. *)
EXTENDS ZkPkiNetwork, TLC

Alike == Permutations(Correct)
=============================================================================
