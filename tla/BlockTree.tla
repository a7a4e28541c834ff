------------------------------ MODULE BlockTree ------------------------------
(***************************************************************************)
(* The blocks a TalCash node can ever be offered, as a finite tree.  The   *)
(* hash links of real headers (`prev_id`, core/block.py) make the parent   *)
(* of a block a constant of the block, so the whole tree is a parameter.   *)
(* What a block's bytes decide once and for all is a constant too: which   *)
(* of the checks of core/state.py and core/block.py it passes.             *)
(***************************************************************************)
EXTENDS Integers

CONSTANTS
    Block,       \* every block that can reach the node
    Genesis,     \* genesis_block(params)
    Parent,      \* [Block -> Block], header.prev_id; the genesis block points at itself
    Height,      \* [Block -> Nat], header.height
    ChainWork,   \* [Block -> Nat], the sum of block_work(target) down to the genesis block
    Mined,       \* blocks whose header meets its own target (meets_target)
    Standalone,  \* ... and that pass every check needing no parent (pow_limit, check_block)
    Wellformed,  \* ... and check_header_against_parent on their parent
    Accepts,     \* ... and that apply_block accepts on top of their own ancestors
    Early        \* blocks stamped so late that the node's clock may or may not refuse them

\* Links and heights of the tree.  Work grows strictly along a branch because
\* block_work of any target is at least 1.
ASSUME TreeAssumption ==
    /\ Genesis \in Block
    /\ Parent \in [Block -> Block]
    /\ Height \in [Block -> Nat]
    /\ ChainWork \in [Block -> Nat]
    /\ Height[Genesis] = 0 /\ Parent[Genesis] = Genesis
    /\ \A b \in Block \ {Genesis} : /\ Height[b] = Height[Parent[b]] + 1
                                    /\ ChainWork[b] > ChainWork[Parent[b]]

\* The checks are run in this order, so each set contains the next; a block
\* is applied only on top of applied blocks.
ASSUME ChecksAssumption ==
    /\ Mined \subseteq Block
    /\ Standalone \subseteq Mined
    /\ Wellformed \subseteq Standalone
    /\ Accepts \subseteq Wellformed
    /\ Genesis \in Accepts
    /\ \A b \in Accepts : Parent[b] \in Accepts
    /\ Early \subseteq Block \ {Genesis}

-----------------------------------------------------------------------------
\* A set that holds the parent of each of its blocks.
ParentClosed(S) == \A x \in S \ {Genesis} : Parent[x] \in S

\* Ancestors[b]: b and every block below it, the least parent-closed set with b.
Ancestors ==
    [b \in Block |->
        {a \in Block : \A S \in SUBSET Block : b \in S /\ ParentClosed(S) => a \in S}]
=============================================================================
