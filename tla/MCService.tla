----------------------------- MODULE MCService -----------------------------
(***************************************************************************)
(* A small chain and a handful of transfers for model checking             *)
(* NodeService.  On a2, A and B own one reward each; a3 and the heavier b3 *)
(* confirm different transfers, and a4 wins back.                          *)
(***************************************************************************)
EXTENDS NodeService

ServiceParent == [g |-> "g", a1 |-> "g", a2 |-> "a1", a3 |-> "a2", a4 |-> "a3", b3 |-> "a2"]
ServiceBlock == DOMAIN ServiceParent
ServiceHeight == [g |-> 0, a1 |-> 1, a2 |-> 2, a3 |-> 3, a4 |-> 4, b3 |-> 3]
ServiceWork == [g |-> 1, a1 |-> 2, a2 |-> 3, a3 |-> 4, a4 |-> 6, b3 |-> 5]

Pays(a, n) == <<[address |-> a, amount |-> n]>>

\* p0 and p0r compete for one nonce; A cannot afford p0r and p1 together.
ServiceTransfer ==
    [p0  |-> [sender |-> "A", nonce |-> 0, fee |-> 1, outputs |-> Pays("B", 1)],
     p0r |-> [sender |-> "A", nonce |-> 0, fee |-> 2, outputs |-> Pays("B", 2)],
     p1  |-> [sender |-> "A", nonce |-> 1, fee |-> 2, outputs |-> Pays("B", 1)],
     q0  |-> [sender |-> "B", nonce |-> 0, fee |-> 2, outputs |-> Pays("A", 1)],
     q1  |-> [sender |-> "B", nonce |-> 1, fee |-> 2, outputs |-> Pays("A", 1)]]
ServiceSize == [p0 |-> 1, p0r |-> 1, p1 |-> 1, q0 |-> 2, q1 |-> 1]

ServiceTxs == [b \in ServiceBlock |->
    CASE b = "a3" -> <<"p0">> [] b = "a4" -> <<"q0">> [] b = "b3" -> <<"q0", "q1">> [] OTHER -> <<>>]
ServiceCoinbase == [b \in ServiceBlock |->
    [address |-> IF b = "a1" THEN "B" ELSE "A",
     amount |-> CASE b = "a3" -> 7 [] b = "a4" -> 8 [] b = "b3" -> 10 [] OTHER -> 6]]
ServiceRoot == [b \in ServiceBlock |-> NoSnapshot]
=============================================================================
