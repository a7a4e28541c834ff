------------------------------ MODULE MCLedger ------------------------------
(***************************************************************************)
(* A small block tree with transfers for model checking ChainLedger.  The  *)
(* roots in the headers, and which blocks are acceptable, are worked out   *)
(* by hand, not by the operators that are checked.                         *)
(***************************************************************************)
EXTENDS ChainLedger

Money(a, n, b, m, z) == [A |-> [balance |-> a, nonce |-> n], B |-> [balance |-> b, nonce |-> m],
                         Z |-> [balance |-> z, nonce |-> 0]]

\* Two branches that overtake each other, with rivals that break one rule each:
\* r3 repeats a transfer, v3 carries the snapshot of the other branch, m3 claims
\* a fee that nobody paid, o4 pays an account beyond the limit.
LedgerParent == [g |-> "g", a1 |-> "g", a2 |-> "a1", a3 |-> "a2", a4 |-> "a3",
                 b1 |-> "g", b2 |-> "b1", b3 |-> "b2", b4 |-> "b3", c3 |-> "a2",
                 r3 |-> "a2", v3 |-> "b2", m3 |-> "a2", o4 |-> "a3"]
LedgerBlock == DOMAIN LedgerParent
LedgerHeight == [g |-> 0, a1 |-> 1, a2 |-> 2, a3 |-> 3, a4 |-> 4, b1 |-> 1, b2 |-> 2, b3 |-> 3,
                 b4 |-> 4, c3 |-> 3, r3 |-> 3, v3 |-> 3, m3 |-> 3, o4 |-> 4]
LedgerWork == [g |-> 1, a1 |-> 2, a2 |-> 4, a3 |-> 6, a4 |-> 9, b1 |-> 3, b2 |-> 5, b3 |-> 8,
               b4 |-> 10, c3 |-> 7, r3 |-> 9, v3 |-> 9, m3 |-> 9, o4 |-> 11]
LedgerAccepts == LedgerBlock \ {"r3", "v3", "m3", "o4"}

Pays(a, n) == <<[address |-> a, amount |-> n]>>

\* t1 and t4 compete for one nonce, t2 pays its own sender, t3 spends what t1
\* or t4 has just paid, t5 pays more than one account may hold.
LedgerTransfer ==
    [t1 |-> [sender |-> "A", nonce |-> 0, fee |-> 1, outputs |-> Pays("B", 2)],
     t2 |-> [sender |-> "A", nonce |-> 1, fee |-> 0, outputs |-> Pays("A", 1)],
     t3 |-> [sender |-> "B", nonce |-> 0, fee |-> 1, outputs |-> Pays("A", 1)],
     t4 |-> [sender |-> "A", nonce |-> 0, fee |-> 0, outputs |-> Pays("B", 2) \o Pays("B", 1)],
     t5 |-> [sender |-> "B", nonce |-> 1, fee |-> 0, outputs |-> Pays("A", 3)]]

LedgerTxs == [b \in LedgerBlock |->
    CASE b = "a2" -> <<"t1", "t3">>
      [] b = "a3" -> <<"t2">>
      [] b = "b3" -> <<"t4", "t3">>
      [] b = "r3" -> <<"t1">>
      [] b = "o4" -> <<"t5">>
      [] OTHER -> <<>>]

LedgerCoinbase == [b \in LedgerBlock |->
    [address |-> IF b = "g" THEN "Z" ELSE IF b \in {"a3", "b1"} THEN "B" ELSE "A",
     amount |-> CASE b = "a2" -> 7 [] b \in {"b3", "r3", "m3"} -> 6 [] OTHER -> 5]]

\* The snapshot is taken at height 2 and carried from height 3 on.
LedgerRoot == [b \in LedgerBlock |->
    CASE b \in {"a3", "a4", "c3", "r3", "m3", "o4", "v3"} -> Money(3, 1, 0, 1, 5)
      [] b \in {"b3", "b4"} -> Money(0, 0, 5, 0, 5)
      [] OTHER -> NoSnapshot]
=============================================================================
