---------------------------- MODULE NodeService ----------------------------
(***************************************************************************)
(* node/service.py: the chain, its balances and the mempool of one node.   *)
(* submit_block and import_chunk first change the chain and then, with the *)
(* lists of connected and disconnected blocks, the mempool; a call that    *)
(* ends with an exception or changes nothing leaves both lists empty.      *)
(***************************************************************************)
EXTENDS ChainLedger, Mempool

CONSTANTS
    Offers,    \* transfers that wallets and peers may submit
    Room       \* bytes for transfers in a block template

ASSUME ServiceAssumption == Offers \subseteq Txs /\ Room \in Nat

svars == <<lvars, poolVars>>

\* Nobody is waiting for the service: no call is under way.
Idle == pc = "idle" /\ mp = "idle"

-----------------------------------------------------------------------------
\* submit_block and import_chunk: the chain's part ...
ServiceCall ==
    /\ Idle
    /\ BeginCall
    /\ mp' = "due"
    /\ UNCHANGED <<pool, evictable, todo, returning>>

ServiceStep == mp = "due" /\ ContinueCall /\ UNCHANGED poolVars

\* ... and the mempool's.
ServiceUpdate ==
    /\ pc = "idle"
    /\ Update(connected, disconnected)
    /\ UNCHANGED lvars

\* submit_transaction, from a wallet or a peer.
SubmitTransaction(t) == Idle /\ Add(t) /\ UNCHANGED lvars

MempoolStep == (TrimStep \/ TrimDone \/ PutBack) /\ UNCHANGED lvars

\* Called now and then by the node's own timer.
ExpireOld == Idle /\ (\E t \in pool : Expire(t)) /\ UNCHANGED lvars

\* build_template: the transfers and the coinbase amount of a block on the tip.
Template ==
    LET chosen == Select(pool, Room)
    IN  [transfers |-> chosen,
         coinbase |-> Fold(LAMBDA sum, t : sum + Transfer[t].fee, BlockReward, chosen)]

\* account: what a wallet is told of the address a.
AccountInfo(a) ==
    LET incoming == IncomingFor(a, pool)
    IN  [balance    |-> accounts[a].balance,
         nonce      |-> accounts[a].nonce,
         nextNonce  |-> accounts[a].nonce + Cardinality(PendingFor(a, pool)),
         pendingOut |-> SpentBy(PendingFor(a, pool)),
         pendingIn  |-> SumOver(incoming, [t \in incoming |-> Paid(t, a)]),
         immature   |-> Immature(a)]

Available(info) == info.balance - info.pendingOut

\* find_transaction: the index first, then the mempool.
FindTransaction(t) ==
    IF \E r \in txIndex : r.txid = t THEN "confirmed"
    ELSE IF t \in pool THEN "pending" ELSE "unknown"

\* The mempool is only in memory.
ServiceCrash ==
    /\ CrashLedger
    /\ pool' = {} /\ evictable' = {} /\ todo' = {} /\ returning' = {}
    /\ mp' = "due"

SInit == LInit /\ PoolInit

SNext ==
    \/ ServiceCall \/ ServiceStep \/ ServiceUpdate \/ MempoolStep
    \/ \E t \in Offers : SubmitTransaction(t)
    \/ ExpireOld
    \/ ServiceCrash

SSpec == SInit /\ [][SNext]_svars

-----------------------------------------------------------------------------
(* Properties *)

\* Between calls all waiting transfers could be mined next, whatever was undone,
\* confirmed, replaced, evicted or expired (update, _insert), and every account
\* would then be what the node already tells its wallet: the available balance,
\* which is never negative, with the incoming amounts, and the next nonce.  No
\* waiting transfer is shown as confirmed.
PoolFollowsChain ==
    Idle =>
        LET mined == Fold(ApplyTransfer, Overlay(accounts), Select(pool, SizeOf(pool)))
        IN  /\ mined.ok
            /\ \A a \in Address :
                  LET info == AccountInfo(a)
                  IN  /\ Available(info) >= 0
                      /\ Get(mined, a) = [balance |-> Available(info) + info.pendingIn,
                                          nonce |-> info.nextNonce]
            /\ \A t \in pool : FindTransaction(t) = "pending"

\* The heap always holds every sender's last transfer, so _trim_to_size never
\* finds it empty while there is something to evict (heappop would raise), and
\* between calls the pool is within its limit.
EvictionWorks ==
    /\ Lasts(pool) \subseteq evictable
    /\ Idle => SizeOf(pool) <= MaxBytes

\* Between calls the block template a miner asks for is a valid block on the
\* tip: applying the transfers select picks never fails, they fit, and the
\* coinbase claims what apply_block wants.
TemplateAccepted ==
    Idle => LET applied == Fold(ApplyTransfer, Matured(Tables, TipHeight + 1), Template.transfers)
            IN  /\ applied.ok
                /\ Template.coinbase = BlockReward + applied.fees
                /\ SizeOf(ToSet(Template.transfers)) <= Room
=============================================================================
