------------------------------ MODULE MCTopology ------------------------------
(* Model values for Topology: authorities are alike. *)
EXTENDS Topology, TLC

SomeConfigured == {None, <<<<4>>, <<1, 2>>, <<3>>>>}

(* A draw keeps the order or rotates it by one, as a bit of the seed and   *)
(* the first length drawn for tell.                                        *)
Rotation(seed, lengths) ==
  LET draws == Len(lengths)
      n == lengths[draws]
      shift == (seed \div 2 ^ (draws - 1) + lengths[1]) % 2
  IN [i \in 1 .. n |-> 1 + ((i - 1 + shift) % n)]

SomeSeeds == 0 .. 2 ^ (Layers + 1) - 1

Alike == Permutations(Authorities)
=============================================================================
