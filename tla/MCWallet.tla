----------------------------- MODULE MCWallet -----------------------------
(***************************************************************************)
(* Two commands, a gap of two and addresses up to number four.             *)
(***************************************************************************)
EXTENDS WalletFile
=============================================================================
