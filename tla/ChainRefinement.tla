-------------------------- MODULE ChainRefinement --------------------------
(***************************************************************************)
(* ChainManager implements ActiveChain: main_chain is the active chain,    *)
(* and the blocks whose rows point into a chunk file are the settled ones. *)
(***************************************************************************)
EXTENDS ChainManager

Promise == INSTANCE ActiveChain WITH Lineage <- Ancestors, active <- main, settled <- chunked

\* Every step of a node, crashes and failed switches included, leaves the active
\* chain alone or moves it as ActiveChain allows: to a branch of more work, with
\* no sealed block and none at or below the finality depth undone, and nothing
\* sealed ever unsealed (submit_block, apply_chunk, _seal_ready_chunks).
KeepsPromise == Promise!Chain
=============================================================================
