------------------------------ MODULE MCChain ------------------------------
(***************************************************************************)
(* Small block trees for model checking ChainManager.  A tree is a record  *)
(* that gives every block its parent; a record of weights gives block_work *)
(* where it is not 1.                                                      *)
(***************************************************************************)
EXTENDS ChainRefinement

\* Heights and total work along the branches of a tree.
Heights(parent) ==
    LET h[b \in DOMAIN parent] == IF parent[b] = b THEN 0 ELSE h[parent[b]] + 1 IN h

Works(parent, weight) ==
    LET one(b) == IF b \in DOMAIN weight THEN weight[b] ELSE 1
        w[b \in DOMAIN parent] == IF parent[b] = b THEN one(b) ELSE w[parent[b]] + one(b)
    IN  w

\* Two branches that overtake each other (b2 weighs two), a third that forks
\* higher up, and an invalid block x2 with a heavy child.
ForkParent == [g |-> "g", a1 |-> "g", a2 |-> "a1", a3 |-> "a2", b1 |-> "g", b2 |-> "b1",
               b3 |-> "b2", c3 |-> "a2", c4 |-> "c3", x2 |-> "a1", y3 |-> "x2"]
ForkBlock == DOMAIN ForkParent
ForkHeight == Heights(ForkParent)
ForkWork == Works(ForkParent, [b2 |-> 2, y3 |-> 3])
ForkAccepts == ForkBlock \ {"x2", "y3"}

\* Two rival first chunks (a1 and b1 end them), the next chunk of the first
\* (a3), and a rival of that one (x3) that breaks a rule in its last block and
\* has a heavy child.
ChunkParent == [g |-> "g", a1 |-> "g", a2 |-> "a1", a3 |-> "a2", a4 |-> "a3", a5 |-> "a4",
                b1 |-> "g", b2 |-> "b1", x3 |-> "a2", y4 |-> "x3"]
ChunkBlock == DOMAIN ChunkParent
ChunkHeight == Heights(ChunkParent)
ChunkWork == Works(ChunkParent, [b2 |-> 2, y4 |-> 3])
ChunkAccepts == ChunkBlock \ {"x3", "y4"}
=============================================================================
