----------------------------- MODULE MCZkPkiFsm -----------------------------
(* Instances of ZkPkiFsm for TLC. *)
EXTENDS ZkPkiFsm
=============================================================================
