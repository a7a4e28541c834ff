------------------------------- MODULE MCSync -------------------------------
(***************************************************************************)
(* Small networks for model checking PeerSync.                             *)
(***************************************************************************)
EXTENDS PeerSync, MCChain

\* Two branches from the genesis block, and two bad ones: x1 cannot be applied,
\* x3 has no proof of work, z1 has none and a bad version.
SyncParent == [g |-> "g", a1 |-> "g", a2 |-> "a1", a3 |-> "a2", a4 |-> "a3",
               b1 |-> "g", b2 |-> "b1", x1 |-> "g", x2 |-> "x1", x3 |-> "x2", z1 |-> "g"]
SyncBlock == DOMAIN SyncParent
SyncHeight == Heights(SyncParent)
SyncWork == Works(SyncParent, [b2 |-> 2, x3 |-> 2])
SyncMined == SyncBlock \ {"x3", "z1"}
SyncHeaderOk == SyncBlock \ {"z1"}
SyncAccepts == SyncBlock \ {"x1", "x2", "x3", "z1"}

\* Two honest peers, one of which grows, and one that moves through the bad branches.
SyncPeers == {"h", "k", "f"}
SyncTips == [h |-> <<"a3">>, k |-> <<"b1", "b2">>, f |-> <<"x3", "z1">>]
SyncChunks == [h |-> 1, k |-> 0, f |-> 1]

\* One honest peer, without chunks, that grows by a block.
GrowingPeer == {"h"}
GrowingTips == [h |-> <<"a3", "a4">>]
GrowingChunks == [h |-> 0]
=============================================================================
