------------------------- MODULE MCServerLifecycle -------------------------
(* Model values for ServerLifecycle. *)
EXTENDS ServerLifecycle
=============================================================================
