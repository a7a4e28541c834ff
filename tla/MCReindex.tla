----------------------------- MODULE MCReindex -----------------------------
(***************************************************************************)
(* The block trees of MCChain for Reindex.                                 *)
(***************************************************************************)
EXTENDS Reindex, MCChain

\* Two branches that overtake each other (b2 weighs two), the first long enough
\* for two chunks, and a block x3 that cannot be applied with a heavy child.
RebuildParent == [g |-> "g", a1 |-> "g", a2 |-> "a1", a3 |-> "a2", a4 |-> "a3", a5 |-> "a4",
                  b1 |-> "g", b2 |-> "b1", x3 |-> "a2", y4 |-> "x3"]
RebuildBlock == DOMAIN RebuildParent
RebuildHeight == Heights(RebuildParent)
RebuildWork == Works(RebuildParent, [b2 |-> 2, y4 |-> 2])
RebuildAccepts == RebuildBlock \ {"x3", "y4"}
=============================================================================
