------------------------------ MODULE MCMining ------------------------------
(***************************************************************************)
(* Two workers and nonces of two bits.                                     *)
(***************************************************************************)
EXTENDS Mining

MiningStarts == {1}
=============================================================================
