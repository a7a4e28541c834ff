------------------------------ MODULE Mempool ------------------------------
(***************************************************************************)
(* node/mempool.py: the transfers a node has accepted that are in no block *)
(* yet.  They must stay valid on top of the tip, whose balances (accounts) *)
(* others change.  The loops of _trim_to_size and update are one action    *)
(* for each turn; `mp` says where the mempool is:                          *)
(*                                                                         *)
(*   idle    waiting for a call                                            *)
(*   due     the chain is changing, update comes when it is done           *)
(*   update  putting transfers back that update has taken out              *)
(*   trim    _trim_to_size, after an insertion                             *)
(*                                                                         *)
(* The heap of eviction candidates is the set of the transfers in it;      *)
(* a further copy of one transfer would only be skipped when popped.  When *)
(* it has grown too long the code rebuilds it, here at any push.  The      *)
(* order in which _trim_to_size takes equal fee rates, and update          *)
(* different senders, is left open; select takes equal rates in one order. *)
(***************************************************************************)
EXTENDS Ledger

CONSTANTS
    TxSize,          \* [txid -> Nat], tx.size
    MinFeePerByte,   \* min_fee_per_byte
    MaxBytes,        \* max_bytes
    MaxPerSender     \* max_per_sender

ASSUME MempoolAssumption ==
    /\ \A t \in DOMAIN Transfer : TxSize[t] \in Nat /\ TxSize[t] >= 1
    /\ MinFeePerByte \in Nat /\ MaxBytes \in Nat /\ MaxPerSender \in Nat

VARIABLES
    pool,       \* _by_id (and _by_sender): the waiting transfers
    evictable,  \* _evictable
    mp,         \* see above
    todo,       \* candidates that update has still to put back
    returning   \* those of them that come from undone blocks

poolVars == <<pool, evictable, mp, todo, returning>>

Txs == DOMAIN Transfer

-----------------------------------------------------------------------------
(* Reading *)

Sender(t) == Transfer[t].sender
Nonce(t) == Transfer[t].nonce

\* pending_for (_by_sender): the transfers of P that a sends.
PendingFor(a, P) == {u \in P : Sender(u) = a}
Pending(t, P) == PendingFor(Sender(t), P)

\* incoming_for (_by_receiver): the transfers of P that pay a.
IncomingFor(a, P) == {u \in P : \E o \in ToSet(Transfer[u].outputs) : o.address = a}

\* The transfer of each sender with the highest nonce.
Lasts(P) == {t \in P : \A u \in Pending(t, P) : Nonce(u) <= Nonce(t)}

\* The bytes of the transfers in P, and what their senders pay.
SizeOf(P) == SumOver(P, TxSize)
SpentBy(P) == SumOver(P, [t \in P |-> TotalSpent(t)])

\* fee_rate: t pays no more, or k/4 as much or more, per byte than u.
CheaperOrEqual(t, u) == Transfer[t].fee * TxSize[u] <= Transfer[u].fee * TxSize[t]
PaysQuarters(t, k, u) == 4 * Transfer[t].fee * TxSize[u] >= k * Transfer[u].fee * TxSize[t]

-----------------------------------------------------------------------------
(* _insert and _remove *)

\* The waiting transfer t would replace.
Replaced(t, P) == {u \in Pending(t, P) : Nonce(u) = Nonce(t)}

\* The confirmed balance covers t and the sender's other waiting transfers.
CanAfford(t, P) ==
    TotalSpent(t) + SpentBy(Pending(t, P) \ Replaced(t, P)) <= accounts[Sender(t)].balance

\* _insert accepts t on top of the transfers P.
Insertable(t, P) ==
    LET account == accounts[Sender(t)]
        pending == Pending(t, P)
    IN  /\ Transfer[t].fee >= MinFeePerByte * TxSize[t]
        /\ Nonce(t) >= account.nonce
        /\ IF Replaced(t, P) = {}
           THEN /\ Nonce(t) = account.nonce + Cardinality(pending)
                /\ Cardinality(pending) < MaxPerSender
           ELSE \A r \in Replaced(t, P) : /\ Transfer[t].fee > Transfer[r].fee
                                          /\ PaysQuarters(t, 5, r)
        /\ CanAfford(t, P)

\* _push_evictable(t) when the waiting transfers are P: t is added, or the
\* heap is rebuilt.
Pushed(heap, P, t) == {heap \cup {t}, Lasts(P)}

\* Mutant: the transfer before the removed one is not pushed.
HeapsAfterNothing(heap, P, t) == {heap}

\* The heap after t has left P: the transfer before the sender's last is pushed.
HeapsAfterRemove(heap, P, t) ==
    LET rest == Pending(t, P) \ {t}
        before == {u \in Lasts(rest) : Nonce(u) < Nonce(t)}
    IN  IF before = {} THEN {heap} ELSE UNION {Pushed(heap, P \ {t}, u) : u \in before}

\* t enters, possibly for another one; what does not fit is trimmed next.
Insert(t) ==
    LET replaced == Replaced(t, pool)
        heaps == IF replaced = {} THEN {evictable}
                 ELSE UNION {HeapsAfterRemove(evictable, pool, r) : r \in replaced}
    IN  /\ pool' = (pool \ replaced) \cup {t}
        /\ \E heap \in heaps :
              evictable' \in IF t \in Lasts(pool') THEN Pushed(heap, pool', t) ELSE {heap}
        /\ mp' = "trim"

\* The cheapest candidate leaves the heap, and the pool if it is a sender's last.
TrimStep ==
    /\ mp = "trim" /\ SizeOf(pool) > MaxBytes
    /\ \E t \in evictable :
          /\ \A u \in evictable : CheaperOrEqual(t, u)
          /\ IF t \in Lasts(pool)
             THEN /\ pool' = pool \ {t}
                  /\ evictable' \in HeapsAfterRemove(evictable \ {t}, pool, t)
             ELSE /\ evictable' = evictable \ {t}
                  /\ UNCHANGED pool
    /\ UNCHANGED <<mp, todo, returning>>

TrimDone ==
    /\ mp = "trim" /\ SizeOf(pool) <= MaxBytes
    /\ mp' = IF todo = {} THEN "idle" ELSE "update"
    /\ UNCHANGED <<pool, evictable, todo, returning>>

-----------------------------------------------------------------------------
(* add, update and expire *)

\* add(t): the signature and the other rules of check_transaction hold.
Add(t) ==
    /\ mp = "idle" /\ t \notin pool
    /\ Insertable(t, pool)
    /\ Insert(t)
    /\ UNCHANGED <<todo, returning>>

TxsOf(bs) == UNION {ToSet(BlockTxs[b]) : b \in bs}

\* Mutant: only the senders in the new blocks are looked at again.
RecheckConfirmed(connected, disconnected) == {Sender(t) : t \in TxsOf(connected)}

\* The senders update looks at again: everyone when blocks were undone.
Rechecked(connected, disconnected) ==
    IF disconnected # {}
    THEN {Sender(t) : t \in pool \cup (TxsOf(disconnected) \ TxsOf(connected))}
    ELSE {Sender(t) : t \in TxsOf(connected)}

\* update: the transfers of undone blocks, and the waiting ones of the senders
\* to look at again, are taken out and put back one by one.
Update(connected, disconnected) ==
    LET confirmed == TxsOf(connected)
        senders == Rechecked(connected, disconnected)
        taken == {t \in pool : Sender(t) \in senders}
    IN  /\ mp = "due"
        /\ returning' = TxsOf(disconnected) \ confirmed
        /\ pool' = pool \ taken
        /\ todo' = (returning' \cup taken) \ confirmed
        /\ mp' = IF todo' = {} THEN "idle" ELSE "update"
        /\ UNCHANGED evictable

\* The next candidate of a sender: the lowest nonce, from undone blocks first.
IsNext(t) ==
    \A u \in Pending(t, todo) : \/ Nonce(t) < Nonce(u)
                                \/ Nonce(t) = Nonce(u) /\ (t \in returning \/ u \notin returning)

\* One turn of update's loop: t is inserted, or is no longer valid.
PutBack ==
    /\ mp = "update"
    /\ \E t \in todo :
          /\ IsNext(t)
          /\ todo' = todo \ {t}
          /\ IF t \notin pool /\ Insertable(t, pool)
             THEN Insert(t)
             ELSE /\ mp' = IF todo' = {} THEN "idle" ELSE "update"
                  /\ UNCHANGED <<pool, evictable>>
    /\ UNCHANGED returning

\* One turn of expire's loop over the senders: t, the first of its sender's that
\* is too old, and the sender's later ones go.  That several senders have old
\* transfers is several such turns.
Expire(t) ==
    LET gone == {u \in Pending(t, pool) : Nonce(u) >= Nonce(t)}
        rest == pool \ gone
    IN  /\ mp = "idle"
        /\ pool' = rest
        /\ evictable' \in HeapsAfterRemove(evictable, rest \cup {t}, t)
        /\ UNCHANGED <<mp, todo, returning>>

-----------------------------------------------------------------------------
(* select *)

\* The transfers of P that come next after t, and each sender's first.
Following(t, P) == {u \in Pending(t, P) : Nonce(u) = Nonce(t) + 1}
Firsts(P) == {t \in P : \A u \in Pending(t, P) : Nonce(t) <= Nonce(u)}

\* Mutant: a transfer that does not fit makes way for the sender's next one.
PopBestAndSkip(s, P, room) ==
    LET t == CHOOSE t \in s.heap : \A u \in s.heap : CheaperOrEqual(u, t)
        fits == s.used + TxSize[t] <= room
    IN  [heap |-> (s.heap \ {t}) \cup Following(t, P),
         chosen |-> IF fits THEN Append(s.chosen, t) ELSE s.chosen,
         used |-> IF fits THEN s.used + TxSize[t] ELSE s.used]

\* One turn: the best-paying candidate is chosen if it fits; only then does its
\* sender's next one become a candidate.
PopBest(s, P, room) ==
    LET t == CHOOSE t \in s.heap : \A u \in s.heap : CheaperOrEqual(u, t)
    IN  IF s.used + TxSize[t] > room
        THEN [s EXCEPT !.heap = @ \ {t}]
        ELSE [heap |-> (s.heap \ {t}) \cup Following(t, P),
              chosen |-> Append(s.chosen, t),
              used |-> s.used + TxSize[t]]

Select(P, room) ==
    LET turn[n \in 0..Cardinality(P)] ==
            IF n = 0 THEN [heap |-> Firsts(P), chosen |-> <<>>, used |-> 0]
            ELSE IF turn[n - 1].heap = {} THEN turn[n - 1]
            ELSE PopBest(turn[n - 1], P, room)
    IN  turn[Cardinality(P)].chosen

PoolInit ==
    /\ pool = {} /\ evictable = {}
    /\ mp = "due"
    /\ todo = {} /\ returning = {}
=============================================================================
