------------------------------- MODULE Ledger -------------------------------
(***************************************************************************)
(* How a block changes balances: apply_block of core/state.py, with the    *)
(* tables of node/store.py that ChainManager._connect writes and           *)
(* _disconnect_tip takes back.  Everything here is a function of one value *)
(* L, a record of those tables; ChainLedger makes them part of the state.  *)
(*                                                                         *)
(* The root of a snapshot stands for the balances it fingerprints (a hash  *)
(* without collisions), and a row that write_accounts deletes because it   *)
(* is EMPTY_ACCOUNT for an entry equal to EmptyAccount.                    *)
(***************************************************************************)
EXTENDS ChainStore, Sequences, SequencesExt

CONSTANTS
    Address,        \* addresses
    Transfer,       \* [txid -> [sender, nonce, fee, outputs]], outputs a sequence of
                    \*    [address, amount] with amount >= 1
    BlockTxs,       \* [Block -> Seq(txid)], block.transactions[1:]
    Coinbase,       \* [Block -> [address, amount]], block.coinbase
    HeaderRoot,     \* [Block -> balances or NoSnapshot], header.snapshot_root
    NoSnapshot,     \* NO_SNAPSHOT
    BlockReward,    \* params.block_reward
    SnapshotDelay,  \* params.snapshot_delay
    MaxAmount       \* MAX_AMOUNT, 2^63 - 1 in the code

\* __post_init__ again, what check_block and check_transaction have checked, and
\* the block of build_genesis.
ASSUME LedgerAssumption ==
    /\ SnapshotDelay \in 0..(ChunkSize - 1)
    /\ BlockReward \in Nat /\ MaxAmount \in Nat
    /\ IsFiniteSet(Address)
    /\ \A t \in DOMAIN Transfer :
          /\ Transfer[t].sender \in Address
          /\ Transfer[t].nonce \in Nat
          /\ Transfer[t].fee \in 0..MaxAmount
          /\ Transfer[t].outputs \in Seq([address : Address, amount : 1..MaxAmount])
    /\ \A b \in Block : /\ Coinbase[b] \in [address : Address, amount : 0..MaxAmount]
                        /\ BlockTxs[b] \in Seq(DOMAIN Transfer)
                        /\ IsInjective(BlockTxs[b])
                        /\ b \notin DOMAIN Transfer
    /\ BlockTxs[Genesis] = <<>> /\ Coinbase[Genesis].amount = BlockReward

VARIABLES
    accounts,   \* table accounts: [Address -> [balance, nonce]]
    undo,       \* table undo: block -> the account values before it
    snapshots,  \* table snapshots: height -> balances
    txIndex,    \* table tx_index: rows [txid, block, height, position]
    addressIndex \* table address_index: rows [address, height, position, txid]

ledgerVars == <<accounts, undo, snapshots, txIndex, addressIndex>>

EmptyAccount == [balance |-> 0, nonce |-> 0]

\* The table with v in the row of k.
Put(table, k, v) == [x \in DOMAIN table \cup {k} |-> IF x = k THEN v ELSE table[x]]

\* INSERT of a new row.  It fails where k has one already, which stays.
Inserted(table, k, v) == IF k \in DOMAIN table THEN table ELSE Put(table, k, v)

\* The table with some rows written over it.
Written(table, rows) ==
    [x \in DOMAIN table \cup DOMAIN rows |-> IF x \in DOMAIN rows THEN rows[x] ELSE table[x]]

\* op applied to base and the elements of s, first to last: FoldLeft, written
\* as a recursive function over the indexes, which a proof can unfold.
Fold(op(_, _), base, s) ==
    LET f[i \in 0..Len(s)] == IF i = 0 THEN base ELSE op(f[i - 1], s[i])
    IN  f[Len(s)]

\* The sum of f[x] over the x in S, counted one by one.
SumOver(S, f) == Cardinality(UNION {{x} \X (1..f[x]) : x \in S})

-----------------------------------------------------------------------------
(* The overlay of apply_block: reads fall through to the state below,      *)
(* writes are collected with the value each account had before.            *)

Overlay(base) ==
    [base |-> base, accounts |-> <<>>, previous |-> <<>>, fees |-> 0, ok |-> TRUE]

Get(o, a) == IF a \in DOMAIN o.accounts THEN o.accounts[a] ELSE o.base[a]

\* Mutant: the previous value is taken again at every write.
SetForgets(o, a, account) ==
    [o EXCEPT !.accounts = Put(@, a, account), !.previous = Put(@, a, Get(o, a))]

\* The first write to an account records its previous value.
Set(o, a, account) ==
    [o EXCEPT !.accounts = Put(@, a, account),
              !.previous = IF a \in DOMAIN @ THEN @ ELSE Put(@, a, o.base[a])]

Credit(o, output) ==
    LET old == Get(o, output.address)
        balance == old.balance + output.amount
    IN  IF o.ok /\ balance <= MaxAmount
        THEN Set(o, output.address, [old EXCEPT !.balance = balance])
        ELSE [o EXCEPT !.ok = FALSE]

TotalSpent(t) ==
    Fold(LAMBDA sum, output : sum + output.amount, Transfer[t].fee, Transfer[t].outputs)

\* What the outputs of t pay to a.
Paid(t, a) ==
    LET outputs == Transfer[t].outputs
    IN  SumOver({i \in DOMAIN outputs : outputs[i].address = a},
                [i \in DOMAIN outputs |-> outputs[i].amount])

\* Mutant: an old nonce is as good as the next.
Spendable(t, account) ==
    Transfer[t].nonce <= account.nonce /\ TotalSpent(t) <= account.balance

\* The transfer carries the sender's nonce and the sender can pay for it.
CanSpend(t, account) ==
    Transfer[t].nonce = account.nonce /\ TotalSpent(t) <= account.balance

\* One transfer of the block; the first that fails fails the block.
ApplyTransfer(o, t) ==
    LET sender == Transfer[t].sender
        account == Get(o, sender)
        paid == Set(o, sender, [balance |-> account.balance - TotalSpent(t),
                                nonce |-> account.nonce + 1])
    IN  IF o.ok /\ CanSpend(t, account)
        THEN Fold(Credit, [paid EXCEPT !.fees = @ + Transfer[t].fee], Transfer[t].outputs)
        ELSE [o EXCEPT !.ok = FALSE]

-----------------------------------------------------------------------------
(* Snapshots *)

IsSnapshotPoint(h) == (h + 1) % ChunkSize = 0

\* The root a header at height h must carry: that of snapshot_height(h).
ExpectedRoot(L, h) ==
    LET finished == (h - SnapshotDelay) \div ChunkSize
    IN  IF finished < 1 THEN NoSnapshot ELSE L.snapshots[finished * ChunkSize - 1]

-----------------------------------------------------------------------------
(* _connect and _disconnect_tip *)

\* main_block(h) while the tables are L: the block itself, where the code reads its
\* bytes with block_bytes (what those are is ChainManager's StoredReadable).
MainBlock(L, h) == CHOOSE b \in L.main : Height[b] = h

\* Mutant: the reward of the genesis block is left out.
MaturedButGenesis(L, h) ==
    LET due == h - CoinbaseMaturity
    IN  IF due > 0
        THEN Credit(Overlay(L.accounts), Coinbase[MainBlock(L, due)])
        ELSE Overlay(L.accounts)

\* The reward mined coinbase_maturity blocks below height h becomes spendable.
Matured(L, h) ==
    LET due == h - CoinbaseMaturity
    IN  IF due >= 0
        THEN Credit(Overlay(L.accounts), Coinbase[MainBlock(L, due)])
        ELSE Overlay(L.accounts)

\* block.transactions: the coinbase, whose id the block stands for, and the transfers.
Transactions(b) == <<b>> \o BlockTxs[b]

\* _addresses_of: who sends or receives in the transaction t.
AddressesOf(t) ==
    IF t \in Block THEN {Coinbase[t].address}
    ELSE {Transfer[t].sender} \cup {output.address : output \in ToSet(Transfer[t].outputs)}

\* The rows index_block adds to tx_index and to address_index for b.
TxRows(b) ==
    {[txid |-> Transactions(b)[i], block |-> b, height |-> Height[b], position |-> i - 1] :
        i \in DOMAIN Transactions(b)}

AddressRows(b) ==
    UNION {{[address |-> a, height |-> r.height, position |-> r.position, txid |-> r.txid] :
                a \in AddressesOf(r.txid)} : r \in TxRows(b)}

\* apply_block and _connect; L.ok turns false at the first rule that is broken.
Connect(L, b) ==
    LET o == Fold(ApplyTransfer, Matured(L, Height[b]), BlockTxs[b])
        balances == Written(L.accounts, o.accounts)
        accepted == /\ b \in Wellformed
                    /\ HeaderRoot[b] = ExpectedRoot(L, Height[b])
                    /\ o.ok
                    /\ Coinbase[b].amount = BlockReward + o.fees
    IN  IF L.ok /\ accepted
        THEN [main |-> L.main \cup {b},
              accounts |-> balances,
              undo |-> Inserted(L.undo, b, o.previous),
              snapshots |-> IF IsSnapshotPoint(Height[b])
                            THEN Inserted(L.snapshots, Height[b], balances) ELSE L.snapshots,
              txIndex |-> L.txIndex \cup TxRows(b),
              addressIndex |-> L.addressIndex \cup AddressRows(b),
              ok |-> TRUE]
        ELSE [L EXCEPT !.ok = FALSE]

\* The highest block of main_chain while the tables are L (tip_height).
Top(L) == CHOOSE t \in L.main : \A b \in L.main : Height[b] <= Height[t]

\* Mutant: the snapshot of an undone block stays.
DisconnectKeepsSnapshot(L) ==
    LET b == Top(L)
    IN  [main |-> L.main \ {b},
         accounts |-> Written(L.accounts, L.undo[b]),
         undo |-> [x \in DOMAIN L.undo \ {b} |-> L.undo[x]],
         snapshots |-> L.snapshots,
         txIndex |-> {r \in L.txIndex : r.height # Height[b]},
         addressIndex |-> {r \in L.addressIndex : r.height # Height[b]},
         ok |-> L.ok]

\* _disconnect_tip
Disconnect(L) ==
    LET b == Top(L)
    IN  [main |-> L.main \ {b},
         accounts |-> Written(L.accounts, L.undo[b]),
         undo |-> [x \in DOMAIN L.undo \ {b} |-> L.undo[x]],
         snapshots |-> [h \in DOMAIN L.snapshots \ {Height[b]} |-> L.snapshots[h]],
         txIndex |-> {r \in L.txIndex : r.height # Height[b]},
         addressIndex |-> {r \in L.addressIndex : r.height # Height[b]},
         ok |-> L.ok]

\* The tip is undone until it is at height `fork`.
RolledBack(L, fork) ==
    LET f[h \in fork..Height[Top(L)]] ==
            IF h = Height[Top(L)] THEN L ELSE Disconnect(f[h + 1])
    IN  f[fork]

\* The blocks of b's branch above height `fork` are applied, lowest first.
Extended(L, fork, b) ==
    LET f[h \in fork..Height[b]] ==
            IF h = fork THEN L
            ELSE Connect(f[h - 1], CHOOSE x \in Ancestors[b] : Height[x] = h)
    IN  f[Height[b]]

\* The tables _init_genesis fills: no balance, no undo row for the genesis block.
GenesisLedger ==
    [main |-> {Genesis}, accounts |-> [a \in Address |-> EmptyAccount], undo |-> <<>>,
     snapshots |-> <<>>, txIndex |-> TxRows(Genesis), addressIndex |-> AddressRows(Genesis),
     ok |-> TRUE]

\* What a node that applies the blocks of b's branch, in order, has in its tables.
Replayed[b \in Block] ==
    IF b = Genesis THEN GenesisLedger ELSE Connect(Replayed[Parent[b]], b)

-----------------------------------------------------------------------------
(* What the API reads from the indexes *)

\* Mutant: the reward that the tip's block has just made spendable counts.
CoinbaseHeightsFrom(a, above) ==
    {r.height : r \in {r \in addressIndex : r.address = a /\ r.position = 0 /\ r.height >= above}}

\* coinbase_heights: where a coinbase above some height pays a.
CoinbaseHeights(a, above) ==
    {r.height : r \in {r \in addressIndex : r.address = a /\ r.position = 0 /\ r.height > above}}

Newer(r, s) == r.height > s.height \/ (r.height = s.height /\ r.position > s.position)

\* Mutant: the cursor looks at heights only.
AddressHistoryByHeight(a, limit, cursor) ==
    LET rows == {r \in addressIndex : r.address = a /\ \A c \in cursor : r.height < c.height}
    IN  {r \in rows : Cardinality({s \in rows : Newer(s, r)}) < limit}

\* address_history: the newest rows of a, of those before the cursor (a set of
\* at most one row).
AddressHistory(a, limit, cursor) ==
    LET rows == {r \in addressIndex : r.address = a /\ \A c \in cursor : Newer(c, r)}
    IN  {r \in rows : Cardinality({s \in rows : Newer(s, r)}) < limit}
=============================================================================
