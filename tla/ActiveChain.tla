---------------------------- MODULE ActiveChain ----------------------------
(***************************************************************************)
(* What a node promises of its active chain, without files, rows, orphans  *)
(* or calls: it is always the branch of one acceptable block; it changes   *)
(* only to a branch of more work, undoing fewer than FinalityDepth blocks  *)
(* below the tip and none that is settled; and settled blocks stay so.     *)
(* docs/PROTOCOL.md section 11 is the contract, core/params.py and         *)
(* node/chain.py implement it.                                             *)
(***************************************************************************)
EXTENDS Integers

CONSTANTS
    Genesis,        \* the first block
    Accepts,        \* the blocks whose whole branch is valid
    Height,         \* height of a block
    ChainWork,      \* total work of a block's branch
    Lineage,        \* Lineage[b]: the blocks from the genesis block to b
    FinalityDepth   \* how far below the tip a block is final

VARIABLES
    active,         \* the blocks of the active chain
    settled         \* those that no branch can ever undo

chainVars == <<active, settled>>

\* The highest block of the active chain.
Top == CHOOSE t \in active : \A b \in active : Height[b] <= Height[t]

Start == active = {Genesis} /\ settled = {}

\* More of the active chain is settled.
SettleMore == settled \subseteq settled' /\ settled' \subseteq active'

\* The active chain becomes the branch of t.
MoveTo(t) ==
    /\ ChainWork[t] > ChainWork[Top]
    /\ \A b \in active \ Lineage[t] : /\ b \notin settled
                                     /\ Height[b] > Height[Top] - FinalityDepth
    /\ active' = Lineage[t]
    /\ SettleMore

Step ==
    \/ \E t \in Accepts : MoveTo(t)
    \/ active' = active /\ SettleMore

Chain == Start /\ [][Step]_chainVars
=============================================================================
