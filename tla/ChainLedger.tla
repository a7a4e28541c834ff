---------------------------- MODULE ChainLedger ----------------------------
(***************************************************************************)
(* ChainManager with the tables of Ledger: a switch and an import change   *)
(* the balances in the same transaction as the active chain.  Whether a    *)
(* block is accepted is now computed from the balances, where ChainManager *)
(* alone takes it from the constant Accepts.                               *)
(***************************************************************************)
EXTENDS ChainManager, Ledger

lvars == <<vars, ledgerVars>>

\* The tables as one value.
Tables == [main |-> main, accounts |-> accounts, undo |-> undo, snapshots |-> snapshots,
           txIndex |-> txIndex, addressIndex |-> addressIndex, ok |-> TRUE]

\* fork_height: where the chain of b leaves the active chain.
ForkHeight(b) ==
    Height[CHOOSE a \in Ancestors[b] \cap main :
               \A x \in Ancestors[b] \cap main : Height[x] <= Height[a]]

\* What the transaction of _switch_to makes of the tables, and that of
\* apply_chunk, where the chunk continues the active chain.
Switched == Extended(RolledBack(Tables, ForkHeight(cur)), ForkHeight(cur), cur)
Imported == IF Chunk(cur) \subseteq main THEN Tables ELSE Extended(Tables, TipHeight, cur)

\* Commit the tables L.
Commit(L) ==
    /\ accounts' = L.accounts
    /\ undo' = L.undo
    /\ snapshots' = L.snapshots
    /\ txIndex' = L.txIndex
    /\ addressIndex' = L.addressIndex

-----------------------------------------------------------------------------
SwitchLedger ==
    \/ pc = "switch" /\ Switched.ok /\ SwitchApplies /\ Commit(Switched)
    \/ pc = "switch" /\ ~Switched.ok /\ SwitchFails /\ UNCHANGED ledgerVars

ImportLedger ==
    \/ pc = "importTx" /\ Continues(cur) /\ Imported.ok /\ ImportApplies /\ Commit(Imported)
    \/ ImportFails /\ (Continues(cur) => ~Imported.ok) /\ UNCHANGED ledgerVars

\* The beginning of a call, and the steps of it that leave the tables alone.
BeginCall ==
    /\ \/ \E b \in Block : SubmitBlock(b)
       \/ \E c \in Offered : ImportChunk(c)
    /\ UNCHANGED ledgerVars

QuietStep ==
    /\ \/ StoreBlock \/ MarkInvalid \/ AdoptChild \/ PopWaiting
       \/ SealFile \/ SealCommit \/ SealDone \/ TidyFiles
    /\ UNCHANGED ledgerVars

ContinueCall == SwitchLedger \/ ImportLedger \/ QuietStep

CrashLedger == Crash /\ UNCHANGED ledgerVars

LInit ==
    /\ Init
    /\ accounts = GenesisLedger.accounts
    /\ undo = GenesisLedger.undo
    /\ snapshots = GenesisLedger.snapshots
    /\ txIndex = GenesisLedger.txIndex
    /\ addressIndex = GenesisLedger.addressIndex

LNext == BeginCall \/ ContinueCall \/ CrashLedger

LSpec == LInit /\ [][LNext]_lvars

-----------------------------------------------------------------------------
(* What the node tells a wallet.  The handlers run between the calls that  *)
(* change the chain, on one thread with them.                              *)

\* account.immature: the rewards of a that cannot be spent yet.
Immature(a) ==
    LET heights == CoinbaseHeights(a, TipHeight - CoinbaseMaturity)
    IN  SumOver(heights, [h \in heights |-> Coinbase[MainBlock(Tables, h)].amount])

\* get_history: what the transaction of a row did for a.
Delta(a, r) ==
    LET t == Transactions(MainBlock(Tables, r.height))[r.position + 1]
        spent == IF Transfer[t].sender = a THEN TotalSpent(t) ELSE 0
    IN  IF t \in Block THEN Coinbase[t].amount ELSE Paid(t, a) - spent

\* A client asks for page after page, each before the last item it has seen,
\* and adds the amounts up; the number of its rows is enough pages.
PagedSum(a, limit) ==
    LET ask(seen, i) ==
            LET page == AddressHistory(a, limit, seen.cursor)
            IN  [sum |-> FoldSet(LAMBDA r, sum : sum + Delta(a, r), seen.sum, page),
                 cursor |-> IF page = {} THEN seen.cursor
                            ELSE {r \in page : \A s \in page : ~Newer(r, s)}]
        rows == {r \in addressIndex : r.address = a}
    IN  FoldLeft(ask, [sum |-> 0, cursor |-> {}], [i \in 1..Cardinality(rows) |-> i]).sum

-----------------------------------------------------------------------------
(* Properties *)

\* "Balances are the result of applying every block in order" (core/state.py):
\* whatever was switched, rolled back, imported or interrupted on the way, the
\* balances, undo rows, snapshots and both indexes are those of a node
\* that has only ever applied the blocks of the active chain.
LedgerIsReplay == Tables = Replayed[Tip]

\* What the constant Accepts means: apply_block accepts the block on top of its
\* own branch, and that branch's balances.
AcceptsIsReplay == \A b \in Block : b \in Accepts <=> Replayed[b].ok

\* Whether a switch or an import succeeds depends on the blocks of the branch
\* alone, not on the chain the node comes from and what it had to undo;
\* ChainManager's constant Accepts rests on it.
AcceptanceIsLocal ==
    /\ AcceptsIsReplay
    /\ pc = "switch" => (Switched.ok <=> Branch(cur) \subseteq Accepts)
    /\ pc = "importTx" /\ Continues(cur) => (Imported.ok <=> Chunk(cur) \subseteq Accepts)

\* What belongs to a: its balance and its rewards that have not matured.
Owned(a) == accounts[a].balance + Immature(a)

\* Coins are neither made nor lost: over all addresses there is one reward for
\* every block of the active chain (fees go to the miner).
SupplyConserved ==
    SumOver(Address, [a \in Address |-> Owned(a)]) = BlockReward * (TipHeight + 1)

\* ... and between calls, what the node shows of every address adds up: the
\* history, read page by page, sums to what belongs to it.
CoinsAccounted ==
    /\ SupplyConserved
    /\ pc = "idle" => \A a \in Address : PagedSum(a, 2) = Owned(a)

\* No transfer is in the active chain twice, and no balance is beyond the limit
\* that the database can store: the nonce rule alone prevents replay (index_block
\* would fail on a repeated txid).
NoReplay ==
    /\ \A r, s \in txIndex : r.txid = s.txid => r = s
    /\ \A a \in Address : accounts[a].balance \in 0..MaxAmount
=============================================================================
