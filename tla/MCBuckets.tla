------------------------------ MODULE MCBuckets ------------------------------
(***************************************************************************)
(* Three addresses and a table of two: the third pushes one out.           *)
(***************************************************************************)
EXTENDS HostBuckets
=============================================================================
