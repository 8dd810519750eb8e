--------------------------- MODULE MCWalletProxy ---------------------------
(* Model values for WalletProxy. *)
EXTENDS WalletProxy
=============================================================================
