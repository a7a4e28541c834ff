--------------------------- MODULE ServiceProofs ---------------------------
(***************************************************************************)
(* The node with its mempool and its balances, for every block tree, every *)
(* set of transfers and every limit.                                       *)
(*                                                                         *)
(* The mempool can always evict and is within its limit between calls:     *)
(* EvictionWorks.                                                          *)
(*                                                                         *)
(* The tables of the ledger are always the replay of the active chain:     *)
(* LedgerIsReplay.  One block that is applied leaves tables whose undoing  *)
(* gives back the ones before (ConnectFacts); so undoing down to the fork  *)
(* and applying up to the new tip (RollsBack, Extends) is the replay of    *)
(* the new branch.  That no transfer is confirmed twice (NoReplay) is part *)
(* of what a replay satisfies: Sound.                                      *)
(*                                                                         *)
(* Coins are neither made nor lost: SupplyConserved.  A transfer and a     *)
(* reward that matures move coins, and a block adds its reward             *)
(* (SupplyStep); so the supply of a branch is one reward for each of its   *)
(* blocks.                                                                 *)
(*                                                                         *)
(* What waits in the mempool can be mined: TemplateAccepted and            *)
(* PoolFollowsChain.  While a call runs, the transfers of every sender     *)
(* that sends nothing in the new blocks stay valid (ValidInv): blocks can  *)
(* only add to what such an account has (BranchKeeps).  So between calls   *)
(* the waiting transfers of each sender have the nonces that come next,    *)
(* without a gap, and its balance covers them.  select keeps that order    *)
(* (SelectFacts), and applied in it every transfer succeeds (NextReached): *)
(* no balance grows beyond the supply.                                     *)
(***************************************************************************)
EXTENDS NodeService, ChainManagerProofs, FiniteSetTheorems

-----------------------------------------------------------------------------
(* The inductive invariant *)

\* A sender has at most one waiting transfer for a nonce: _by_sender is keyed
\* by it.  Without this, the transfer pushed when one leaves could be another
\* than the one that has become the sender's last.
OneForEachNonce ==
    \A t, u \in pool : Sender(t) = Sender(u) /\ Nonce(t) = Nonce(u) => t = u

Waiting == pool \in SUBSET Txs /\ todo \in SUBSET Txs /\ IsFiniteSet(pool)

\* What enters the pool again comes from blocks the chain has undone.
UndoneAreBlocks ==
    /\ main \in SUBSET Block /\ disconnected \in SUBSET Block
    /\ pc \in {"store", "switch", "importTx"} => cur \in Block

WithinLimit == mp # "trim" => SizeOf(pool) <= MaxBytes

EvictInv ==
    /\ UndoneAreBlocks
    /\ Waiting
    /\ OneForEachNonce
    /\ Lasts(pool) \subseteq evictable
    /\ WithinLimit

-----------------------------------------------------------------------------
(* Sums *)

\* A sum over finitely many is a number, and the units it counts are finitely many.
LEMMA SumType ==
    ASSUME NEW S, IsFiniteSet(S), NEW f, \A x \in S : f[x] \in Nat
    PROVE  IsFiniteSet(UNION {{x} \X (1..f[x]) : x \in S}) /\ SumOver(S, f) \in Nat
  <1> DEFINE T == {{x} \X (1..f[x]) : x \in S}
             g == [x \in S |-> {x} \X (1..f[x])]
  <1>1. g \in [S -> T] /\ \A y \in T : \E x \in S : g[x] = y
    OBVIOUS
  <1>2. g \in Surjection(S, T)
    BY <1>1, Zenon DEF Surjection
  <1>3. IsFiniteSet(T)
    <2> HIDE DEF g, T
    <2> QED
      BY <1>2, FS_Surjection
  <1>4. ASSUME NEW y \in T PROVE IsFiniteSet(y)
    <2>1. PICK x \in S : y = {x} \X (1..f[x])
      OBVIOUS
    <2>2. f[x] \in Int /\ 1 \in Int
      OBVIOUS
    <2>3. IsFiniteSet({x})
      BY FS_Singleton
    <2>4. IsFiniteSet(1..f[x])
      BY <2>2, FS_Interval, Zenon
    <2> QED
      BY <2>1, <2>3, <2>4, FS_Product
  <1>5. IsFiniteSet(UNION T)
    <2> HIDE DEF T
    <2> QED
      BY <1>3, <1>4, FS_UNION
  <1>6. Cardinality(UNION T) \in Nat
    BY <1>5, FS_CardinalityType
  <1> QED
    BY <1>5, <1>6 DEF SumOver

LEMMA SumEmpty ==
    ASSUME NEW f
    PROVE  SumOver({}, f) = 0
  <1>1. UNION {{x} \X (1..f[x]) : x \in {}} = {}
    OBVIOUS
  <1> QED
    BY <1>1, FS_EmptySet DEF SumOver

LEMMA SumSame ==
    ASSUME NEW S, NEW f, NEW g, \A x \in S : f[x] = g[x]
    PROVE  SumOver(S, f) = SumOver(S, g)
  <1>1. {{x} \X (1..f[x]) : x \in S} = {{x} \X (1..g[x]) : x \in S}
    OBVIOUS
  <1> QED
    BY <1>1 DEF SumOver

\* One more summand.
LEMMA SumMore ==
    ASSUME NEW S, IsFiniteSet(S), NEW a, a \notin S, NEW f, \A x \in S \cup {a} : f[x] \in Nat
    PROVE  SumOver(S \cup {a}, f) = SumOver(S, f) + f[a]
  <1> DEFINE U == UNION {{x} \X (1..f[x]) : x \in S}
             V == {a} \X (1..f[a])
  <1>1. IsFiniteSet(U) /\ SumOver(S, f) = Cardinality(U)
    BY SumType DEF SumOver
  <1>2. IsFiniteSet(V) /\ Cardinality(V) = f[a]
    <2>1. 1 \in Int /\ f[a] \in Int /\ f[a] \in Nat
      OBVIOUS
    <2>2. IsFiniteSet(1..f[a]) /\ Cardinality(1..f[a]) = IF 1 > f[a] THEN 0 ELSE f[a] - 1 + 1
      BY <2>1, FS_Interval
    <2>3. IsFiniteSet({a}) /\ Cardinality({a}) = 1
      BY FS_Singleton
    <2>4. IsFiniteSet(V) /\ Cardinality(V) = Cardinality({a}) * Cardinality(1..f[a])
      BY <2>2, <2>3, FS_Product
    <2>5. Cardinality(1..f[a]) = f[a]
      BY <2>1, <2>2
    <2> QED
      BY <2>1, <2>3, <2>4, <2>5
  <1>3. UNION {{x} \X (1..f[x]) : x \in S \cup {a}} = U \cup V
    OBVIOUS
  <1>4. U \cap V = {}
    OBVIOUS
  <1>5. Cardinality(U \cap V) = 0
    BY <1>4, FS_EmptySet
  <1>6. SumOver(S \cup {a}, f) = Cardinality(U \cup V)
    BY <1>3 DEF SumOver
  <1>7. Cardinality(U) \in Nat
    BY <1>1, FS_CardinalityType
  <1> HIDE DEF U, V
  <1>8. Cardinality(U \cup V) = Cardinality(U) + Cardinality(V) - Cardinality(U \cap V)
    BY <1>1, <1>2, FS_Union
  <1> QED
    BY <1>1, <1>2, <1>5, <1>6, <1>7, <1>8

\* One summand changes.
LEMMA SumChange ==
    ASSUME NEW S, IsFiniteSet(S), NEW a \in S, NEW f, NEW g,
           \A x \in S : f[x] \in Nat /\ g[x] \in Nat,
           \A x \in S : x # a => f[x] = g[x]
    PROVE  SumOver(S, g) + f[a] = SumOver(S, f) + g[a]
  <1> DEFINE R == S \ {a}
  <1>1. IsFiniteSet(R) /\ a \notin R /\ R \cup {a} = S /\ \A x \in R : f[x] = g[x]
    BY FS_RemoveElement
  <1>2. SumOver(R, f) \in Nat /\ SumOver(R, f) = SumOver(R, g)
    BY <1>1, SumType, SumSame
  <1> HIDE DEF R
  <1>3. SumOver(S, f) = SumOver(R, f) + f[a] /\ SumOver(S, g) = SumOver(R, g) + g[a]
    BY <1>1, SumMore
  <1> QED
    BY <1>2, <1>3

-----------------------------------------------------------------------------
(* The size of a set of transfers *)

\* Fewer transfers are no bigger.
LEMMA SizeMonotone ==
    ASSUME NEW P \in SUBSET Txs, IsFiniteSet(P), NEW Q \in SUBSET P
    PROVE  /\ IsFiniteSet(Q)
           /\ SizeOf(Q) \in Nat /\ SizeOf(P) \in Nat /\ SizeOf(Q) <= SizeOf(P)
  <1> DEFINE bytes(X) == UNION {{t} \X (1..TxSize[t]) : t \in X}
  <1>0. \A t \in P : TxSize[t] \in Nat
    BY MempoolAssumption DEF Txs
  <1>1. IsFiniteSet(bytes(P))
    BY <1>0, SumType
  <1>2. bytes(Q) \in SUBSET bytes(P)
    OBVIOUS
  <1>3. SizeOf(P) = Cardinality(bytes(P)) /\ SizeOf(Q) = Cardinality(bytes(Q))
    BY DEF SizeOf, SumOver
  <1> HIDE DEF bytes
  <1>4. IsFiniteSet(bytes(Q)) /\ Cardinality(bytes(Q)) <= Cardinality(bytes(P))
    BY <1>1, <1>2, FS_Subset
  <1>5. IsFiniteSet(Q)
    BY FS_Subset
  <1> QED
    BY <1>1, <1>3, <1>4, <1>5, FS_CardinalityType

LEMMA SizeEmpty == IsFiniteSet({}) /\ SizeOf({}) = 0
  BY FS_EmptySet, SumEmpty DEF SizeOf

-----------------------------------------------------------------------------
(* The heap *)

\* Nonces are numbers.
LEMMA NonceType ==
    ASSUME NEW t \in Txs
    PROVE  Nonce(t) \in Nat
  BY LedgerAssumption DEF Txs, Nonce

\* When t leaves P, the heap gets the transfer that is now its sender's last.
LEMMA HeapAfterRemove ==
    ASSUME NEW P \in SUBSET Txs, NEW t \in P, NEW heap,
           \A x, y \in P : Sender(x) = Sender(y) /\ Nonce(x) = Nonce(y) => x = y,
           Lasts(P) \subseteq heap \cup {t},
           NEW H \in HeapsAfterRemove(heap, P, t)
    PROVE  Lasts(P \ {t}) \subseteq H
  <1> SUFFICES ASSUME NEW u \in Lasts(P \ {t}), u \notin H
               PROVE  FALSE
    OBVIOUS
  <1> DEFINE rest == Pending(t, P) \ {t}
             before == {x \in Lasts(rest) : Nonce(x) < Nonce(t)}
  <1>1. u \in P /\ u # t /\ \A x \in P \ {t} : Sender(x) = Sender(u) => Nonce(x) <= Nonce(u)
    BY DEF Lasts, Pending, PendingFor
  <1>2. Nonce(u) \in Nat /\ Nonce(t) \in Nat
    BY <1>1, NonceType
  <1>3. IF before = {} THEN H = heap
        ELSE \E w \in before : H = heap \cup {w} \/ H = Lasts(P \ {t})
    BY DEF HeapsAfterRemove, Pushed
  <1>4. u \notin Lasts(P)
    BY <1>1, <1>3
  <1>5. Sender(t) = Sender(u) /\ ~(Nonce(t) <= Nonce(u))
    BY <1>1, <1>4 DEF Lasts, Pending, PendingFor
  <1>6. u \in rest /\ Nonce(u) < Nonce(t)
    BY <1>1, <1>2, <1>5 DEF Pending, PendingFor
  <1>7. u \in before
    BY <1>1, <1>6 DEF Lasts, Pending, PendingFor
  <1>8. PICK w \in before : H = heap \cup {w} \/ H = Lasts(P \ {t})
    BY <1>3, <1>7
  <1>9. w \in P /\ w # t /\ Sender(w) = Sender(t)
    BY DEF Lasts, Pending, PendingFor
  <1>10. Nonce(u) <= Nonce(w) /\ Nonce(w) <= Nonce(u)
    BY <1>1, <1>5, <1>6, <1>9 DEF Lasts, Pending, PendingFor
  <1>11. Nonce(w) \in Nat
    BY <1>9, NonceType
  <1>12. w = u
    BY <1>1, <1>2, <1>5, <1>9, <1>10, <1>11
  <1> QED
    BY <1>8, <1>12

\* An insertion, with or without a replacement.
LEMMA InsertStep ==
    ASSUME EvictInv, NEW t \in Txs, t \notin pool, Insert(t)
    PROVE  /\ pool' \in SUBSET Txs /\ IsFiniteSet(pool') /\ mp' = "trim"
           /\ OneForEachNonce'
           /\ (Lasts(pool) \subseteq evictable)'
  <1> DEFINE replaced == Replaced(t, pool)
  <1>1. pool' = (pool \ replaced) \cup {t} /\ mp' = "trim"
    BY DEF Insert
  <1>2. /\ pool \in SUBSET Txs /\ IsFiniteSet(pool) /\ OneForEachNonce
        /\ Lasts(pool) \subseteq evictable
    BY DEF EvictInv, Waiting
  <1>3. IsFiniteSet(pool')
    <2>1. pool \ replaced \in SUBSET pool
      OBVIOUS
    <2> HIDE DEF replaced
    <2> QED
      BY <1>1, <1>2, <2>1, FS_Subset, FS_AddElement
  <1>4. replaced = {u \in pool : Sender(u) = Sender(t) /\ Nonce(u) = Nonce(t)}
    BY DEF Replaced, Pending, PendingFor
  <1>5. OneForEachNonce'
    BY <1>1, <1>2, <1>4 DEF OneForEachNonce
  <1>6. ASSUME NEW u \in Lasts(pool'), u # t
        PROVE  u \in Lasts(pool) /\ \A r \in replaced : u \in Lasts(pool \ {r})
    <2>1. /\ u \in pool /\ u \notin replaced
          /\ \A x \in pool' : Sender(x) = Sender(u) => Nonce(x) <= Nonce(u)
      BY <1>1, <1>6 DEF Lasts, Pending, PendingFor
    <2>2. \A x \in pool : Sender(x) = Sender(u) => Nonce(x) <= Nonce(u)
      BY <1>1, <1>4, <2>1
    <2> QED
      BY <2>1, <2>2 DEF Lasts, Pending, PendingFor
  <1>7. PICK heap \in IF replaced = {} THEN {evictable}
                      ELSE UNION {HeapsAfterRemove(evictable, pool, r) : r \in replaced} :
            evictable' \in IF t \in Lasts(pool') THEN Pushed(heap, pool', t) ELSE {heap}
    BY DEF Insert
  <1>8. heap = evictable \/ \E r \in replaced : \/ \E w \in Txs : heap = evictable \cup {w}
                                                \/ heap = Lasts(pool \ {r})
    <2>1. CASE replaced = {}
      BY <1>7, <2>1
    <2>2. CASE replaced # {}
      <3>1. PICK r \in replaced : heap \in HeapsAfterRemove(evictable, pool, r)
        BY <1>7, <2>2
      <3>2. \/ heap = evictable
            \/ \E w \in pool : heap = evictable \cup {w} \/ heap = Lasts(pool \ {r})
        BY <3>1 DEF HeapsAfterRemove, Pushed, Lasts, Pending, PendingFor
      <3> QED
        BY <1>2, <3>1, <3>2
    <2> QED
      BY <2>1, <2>2
  <1>9. \A u \in Lasts(pool') : u # t => u \in heap
    BY <1>2, <1>6, <1>8
  <1>10. Lasts(pool') \subseteq evictable'
    BY <1>7, <1>9 DEF Pushed
  <1> QED
    BY <1>1, <1>2, <1>3, <1>5, <1>10

\* Senders whose transfers all stay keep their last one.
LEMMA LastsOfOthers ==
    ASSUME NEW P, NEW Q \in SUBSET P,
           \A x \in P, y \in Q : Sender(x) = Sender(y) => x \in Q
    PROVE  Lasts(Q) \subseteq Lasts(P)
  BY DEF Lasts, Pending, PendingFor

-----------------------------------------------------------------------------
(* The mempool's steps *)

\* The parts of the invariant that only concern the mempool.
PoolInv ==
    /\ Waiting
    /\ OneForEachNonce
    /\ Lasts(pool) \subseteq evictable
    /\ WithinLimit

LEMMA TrimStepInv ==
    ASSUME EvictInv, TrimStep
    PROVE  PoolInv'
  <1>1. /\ pool \in SUBSET Txs /\ todo \in SUBSET Txs /\ IsFiniteSet(pool) /\ OneForEachNonce
        /\ Lasts(pool) \subseteq evictable
    BY DEF EvictInv, Waiting
  <1>2. mp' = "trim" /\ todo' = todo
    BY DEF TrimStep
  <1>3. PICK t \in evictable :
            IF t \in Lasts(pool)
            THEN /\ pool' = pool \ {t}
                 /\ evictable' \in HeapsAfterRemove(evictable \ {t}, pool, t)
            ELSE evictable' = evictable \ {t} /\ pool' = pool
    BY DEF TrimStep
  <1>4. CASE t \in Lasts(pool)
    <2>1. t \in pool /\ pool' = pool \ {t}
          /\ evictable' \in HeapsAfterRemove(evictable \ {t}, pool, t)
      BY <1>3, <1>4 DEF Lasts
    <2>2. Lasts(pool \ {t}) \subseteq evictable'
      <3>1. Lasts(pool) \subseteq (evictable \ {t}) \cup {t}
        BY <1>1
      <3>2. \A x, y \in pool : Sender(x) = Sender(y) /\ Nonce(x) = Nonce(y) => x = y
        BY <1>1 DEF OneForEachNonce
      <3> QED
        BY <1>1, <2>1, <3>1, <3>2, HeapAfterRemove
    <2>3. IsFiniteSet(pool')
      BY <1>1, <2>1, FS_Subset
    <2> QED
      BY <1>1, <1>2, <2>1, <2>2, <2>3 DEF PoolInv, Waiting, OneForEachNonce, WithinLimit
  <1>5. CASE t \notin Lasts(pool)
    BY <1>1, <1>2, <1>3, <1>5 DEF PoolInv, Waiting, OneForEachNonce, WithinLimit
  <1> QED
    BY <1>4, <1>5

LEMMA TrimDoneInv ==
    ASSUME EvictInv, TrimDone
    PROVE  PoolInv'
  <1>1. pool' = pool /\ evictable' = evictable /\ todo' = todo
    BY DEF TrimDone
  <1>2. SizeOf(pool) <= MaxBytes
    BY DEF TrimDone
  <1> QED
    BY <1>1, <1>2 DEF EvictInv, PoolInv, Waiting, OneForEachNonce, WithinLimit

LEMMA AddInv ==
    ASSUME EvictInv, NEW t \in Offers, Add(t)
    PROVE  PoolInv'
  <1>1. t \in Txs
    BY ServiceAssumption
  <1>2. t \notin pool /\ Insert(t) /\ todo' = todo
    BY DEF Add
  <1>3. todo \in SUBSET Txs
    BY DEF EvictInv, Waiting
  <1> QED
    BY <1>1, <1>2, <1>3, InsertStep DEF PoolInv, Waiting, WithinLimit

\* The transfers of blocks are transfers.
LEMMA TxsOfBlocks ==
    ASSUME NEW bs \in SUBSET Block
    PROVE  TxsOf(bs) \in SUBSET Txs
  <1> SUFFICES ASSUME NEW b \in bs PROVE ToSet(BlockTxs[b]) \subseteq Txs
    BY DEF TxsOf
  <1>1. BlockTxs[b] \in Seq(Txs)
    BY LedgerAssumption DEF Txs
  <1> QED
    BY <1>1 DEF ToSet

LEMMA UpdateInv ==
    ASSUME EvictInv, Update(connected, disconnected)
    PROVE  PoolInv'
  <1> DEFINE taken == {t \in pool : Sender(t) \in Rechecked(connected, disconnected)}
  <1>1. /\ pool' = pool \ taken /\ evictable' = evictable
        /\ todo' = ((TxsOf(disconnected) \ TxsOf(connected)) \cup taken) \ TxsOf(connected)
        /\ mp = "due"
    BY DEF Update
  <1>2. /\ pool \in SUBSET Txs /\ IsFiniteSet(pool) /\ OneForEachNonce
        /\ Lasts(pool) \subseteq evictable /\ disconnected \in SUBSET Block
        /\ SizeOf(pool) <= MaxBytes
    BY <1>1 DEF EvictInv, Waiting, UndoneAreBlocks, WithinLimit
  <1>3. TxsOf(disconnected) \in SUBSET Txs
    BY <1>2, TxsOfBlocks
  <1>4. pool' \in SUBSET pool
    BY <1>1
  <1>5. todo' \in SUBSET Txs
    BY <1>1, <1>2, <1>3
  <1>6. \A x \in pool, y \in pool' : Sender(x) = Sender(y) => x \in pool'
    BY <1>1
  <1>7. Lasts(pool') \subseteq evictable'
    BY <1>1, <1>2, <1>4, <1>6, LastsOfOthers
  <1> HIDE DEF taken
  <1>8. IsFiniteSet(pool') /\ SizeOf(pool') <= MaxBytes
    <2>1. /\ IsFiniteSet(pool') /\ SizeOf(pool') \in Nat /\ SizeOf(pool) \in Nat
          /\ SizeOf(pool') <= SizeOf(pool)
      BY <1>2, <1>4, SizeMonotone
    <2> QED
      BY <1>2, <2>1, MempoolAssumption
  <1>9. OneForEachNonce'
    BY <1>2, <1>4 DEF OneForEachNonce
  <1> QED
    BY <1>2, <1>4, <1>5, <1>7, <1>8, <1>9 DEF PoolInv, Waiting, WithinLimit

LEMMA PutBackInv ==
    ASSUME EvictInv, PutBack
    PROVE  PoolInv'
  <1>1. mp = "update" /\ SizeOf(pool) <= MaxBytes /\ todo \in SUBSET Txs
    BY DEF PutBack, EvictInv, WithinLimit, Waiting
  <1>2. PICK t \in todo : /\ todo' = todo \ {t}
                          /\ IF t \notin pool /\ Insertable(t, pool)
                             THEN Insert(t)
                             ELSE /\ mp' = IF todo' = {} THEN "idle" ELSE "update"
                                  /\ UNCHANGED <<pool, evictable>>
    BY DEF PutBack
  <1>3. CASE t \notin pool /\ Insertable(t, pool)
    BY <1>1, <1>2, <1>3, InsertStep DEF PoolInv, Waiting, WithinLimit
  <1>4. CASE ~(t \notin pool /\ Insertable(t, pool))
    <2>1. pool' = pool /\ evictable' = evictable /\ todo' \in SUBSET Txs
      BY <1>1, <1>2, <1>4
    <2> QED
      BY <1>1, <2>1 DEF EvictInv, PoolInv, Waiting, OneForEachNonce, WithinLimit
  <1> QED
    BY <1>3, <1>4

\* The old transfer and the sender's later ones leave; what is pushed is the
\* one before them.
LEMMA ExpireInv ==
    ASSUME EvictInv, NEW t \in pool, Expire(t)
    PROVE  PoolInv'
  <1> DEFINE gone == {u \in Pending(t, pool) : Nonce(u) >= Nonce(t)}
             P == (pool \ gone) \cup {t}
  <1>1. /\ pool' = pool \ gone /\ mp = "idle" /\ todo' = todo
        /\ evictable' \in HeapsAfterRemove(evictable, P, t)
    BY DEF Expire
  <1>2. /\ pool \in SUBSET Txs /\ IsFiniteSet(pool) /\ OneForEachNonce /\ todo \in SUBSET Txs
        /\ Lasts(pool) \subseteq evictable /\ SizeOf(pool) <= MaxBytes
    BY <1>1 DEF EvictInv, Waiting, WithinLimit
  <1>3. \A x \in pool : x \in gone <=> Sender(x) = Sender(t) /\ Nonce(x) >= Nonce(t)
    BY DEF Pending, PendingFor
  <1>4. \A x \in pool : Nonce(x) \in Nat
    BY <1>2, NonceType
  <1>5. t \in gone /\ P \in SUBSET pool /\ pool' = P \ {t} /\ pool' \in SUBSET pool
    BY <1>1, <1>3, <1>4
  <1>6. \A x \in pool \ gone : Sender(x) = Sender(t) => Nonce(x) < Nonce(t)
    BY <1>3, <1>4
  <1>7. Lasts(P) \subseteq evictable \cup {t}
    <2> SUFFICES ASSUME NEW u \in Lasts(P), u # t PROVE u \in Lasts(pool)
      BY <1>2
    <2>1. u \in pool \ gone /\ \A x \in P : Sender(x) = Sender(u) => Nonce(x) <= Nonce(u)
      BY DEF Lasts, Pending, PendingFor
    <2>2. t \in P
      OBVIOUS
    <2>3. Sender(u) # Sender(t)
      <3> SUFFICES ASSUME Sender(u) = Sender(t) PROVE FALSE
        OBVIOUS
      <3>1. Nonce(t) <= Nonce(u) /\ Nonce(u) < Nonce(t)
        BY <1>6, <2>1, <2>2
      <3>2. Nonce(t) \in Nat /\ Nonce(u) \in Nat
        BY <1>4, <2>1
      <3> QED
        BY <3>1, <3>2
    <2>4. \A x \in pool : Sender(x) = Sender(u) => x \in P
      BY <1>3, <2>3
    <2> QED
      BY <2>1, <2>4 DEF Lasts, Pending, PendingFor
  <1> HIDE DEF P, gone
  <1>8. Lasts(pool') \subseteq evictable'
    <2>1. \A x, y \in P : Sender(x) = Sender(y) /\ Nonce(x) = Nonce(y) => x = y
      BY <1>2, <1>5 DEF OneForEachNonce
    <2>2. P \in SUBSET Txs /\ t \in P
      BY <1>2, <1>5 DEF P
    <2> QED
      BY <1>1, <1>5, <1>7, <2>1, <2>2, HeapAfterRemove
  <1>9. IsFiniteSet(pool') /\ SizeOf(pool') <= MaxBytes
    <2>1. /\ IsFiniteSet(pool') /\ SizeOf(pool') \in Nat /\ SizeOf(pool) \in Nat
          /\ SizeOf(pool') <= SizeOf(pool)
      BY <1>2, <1>5, SizeMonotone
    <2> QED
      BY <1>2, <2>1, MempoolAssumption
  <1>10. OneForEachNonce'
    BY <1>2, <1>5 DEF OneForEachNonce
  <1> QED
    BY <1>1, <1>2, <1>5, <1>8, <1>9, <1>10 DEF PoolInv, Waiting, WithinLimit

-----------------------------------------------------------------------------
(* The chain's steps *)

\* Every step of the chain works on blocks.
LEMMA CallBlocks ==
    ASSUME UndoneAreBlocks, BeginCall
    PROVE  UndoneAreBlocks'
  <1>1. main' = main /\ disconnected' = {}
    BY DEF BeginCall, SubmitBlock, SubmitOneWithoutStoring, SubmitOneRaises,
           SubmitOneStores, ImportChunk, storeVars
  <1>2. CASE \E c \in Offered : ImportChunk(c)
    BY <1>1, <1>2, ManagerAssumption DEF UndoneAreBlocks, ImportChunk
  <1>3. ASSUME NEW b \in Block, SubmitBlock(b)
        PROVE  pc' \in {"store", "switch", "importTx"} => cur' \in Block
    BY <1>3 DEF SubmitBlock, SubmitOneWithoutStoring, SubmitOneRaises, SubmitOneStores,
                Answer, NextStep
  <1> QED
    BY <1>1, <1>2, <1>3 DEF BeginCall, UndoneAreBlocks

LEMMA StepBlocks ==
    ASSUME UndoneAreBlocks, ContinueCall
    PROVE  UndoneAreBlocks'
  <1>1. \A b \in Block : Ancestors[b] \subseteq Block
    BY DEF Ancestors
  <1>2. CASE pc = "switch" /\ SwitchApplies
    <2>1. cur \in Block /\ main \in SUBSET Block /\ disconnected \in SUBSET Block
      BY <1>2 DEF UndoneAreBlocks
    <2>2. main' \in SUBSET Block /\ disconnected' \in SUBSET Block /\ pc' = "seal"
      BY <1>1, <1>2, <2>1 DEF SwitchApplies, Undone, Branch
    <2> QED
      BY <2>2 DEF UndoneAreBlocks
  <1>3. CASE SwitchFails
    BY <1>3 DEF SwitchFails, UndoneAreBlocks, callVars
  <1>4. CASE pc = "importTx" /\ ImportApplies
    <2>1. cur \in Block /\ main \in SUBSET Block /\ disconnected \in SUBSET Block
      BY <1>4 DEF UndoneAreBlocks
    <2>2. main' \in SUBSET Block /\ disconnected' \in SUBSET Block /\ pc' = "tidy"
      BY <1>1, <1>4, <2>1 DEF ImportApplies, Chunk
    <2> QED
      BY <2>2 DEF UndoneAreBlocks
  <1>5. CASE ImportFails
    BY <1>5 DEF ImportFails, UndoneAreBlocks
  <1>6. CASE StoreBlock
    BY <1>6 DEF StoreBlock, Answer, NextStep, UndoneAreBlocks
  <1>7. CASE MarkInvalid
    BY <1>7 DEF MarkInvalid, Answer, NextStep, UndoneAreBlocks
  <1>8. CASE AdoptChild
    <2>1. main' = main /\ (disconnected' = disconnected \/ disconnected' = {})
      BY <1>8 DEF AdoptChild, SubmitOneWithoutStoring, SubmitOneRaises, SubmitOneStores, storeVars
    <2>2. pc' \in {"store", "switch", "importTx"} => cur' \in Block
      BY <1>8 DEF AdoptChild, SubmitOneWithoutStoring, SubmitOneRaises, SubmitOneStores,
                  Answer, NextStep
    <2> QED
      BY <2>1, <2>2 DEF UndoneAreBlocks
  <1>9. CASE PopWaiting
    BY <1>9 DEF PopWaiting, Answer, NextStep, UndoneAreBlocks, storeVars
  <1>10. CASE SealFile \/ SealCommit
    BY <1>10 DEF SealFile, SealCommit, UndoneAreBlocks, callVars
  <1>11. CASE SealDone
    BY <1>11 DEF SealDone, Answer, NextStep, UndoneAreBlocks, storeVars
  <1>12. CASE TidyFiles
    BY <1>12 DEF TidyFiles, UndoneAreBlocks
  <1> QED
    BY <1>2, <1>3, <1>4, <1>5, <1>6, <1>7, <1>8, <1>9, <1>10, <1>11, <1>12
    DEF ContinueCall, SwitchLedger, ImportLedger, QuietStep

\* A step of the chain leaves the mempool alone.
LEMMA PoolUntouched ==
    ASSUME EvictInv, UNCHANGED <<pool, evictable, todo>>, mp' = mp \/ mp = "idle"
    PROVE  PoolInv'
  BY DEF EvictInv, PoolInv, Waiting, OneForEachNonce, WithinLimit

LEMMA ChainUntouched ==
    ASSUME UndoneAreBlocks, UNCHANGED lvars
    PROVE  UndoneAreBlocks'
  BY DEF UndoneAreBlocks, lvars, vars, storeVars, callVars

\* An empty mempool.
LEMMA EmptyPool ==
    ASSUME pool = {}, todo = {}
    PROVE  PoolInv
  <1>1. SizeOf(pool) <= MaxBytes /\ IsFiniteSet(pool)
    BY SizeEmpty, MempoolAssumption
  <1>2. Lasts(pool) = {}
    BY DEF Lasts
  <1> QED
    BY <1>1, <1>2 DEF PoolInv, Waiting, OneForEachNonce, WithinLimit

LEMMA EmptyPoolNext ==
    ASSUME pool' = {}, todo' = {}
    PROVE  PoolInv'
  <1>1. (pool = {} /\ todo = {})'
    OBVIOUS
  <1> QED
    BY <1>1, EmptyPool, PTL

LEMMA EvictInit == SInit => EvictInv
  <1> SUFFICES ASSUME SInit PROVE EvictInv
    OBVIOUS
  <1>1. PoolInv
    BY EmptyPool DEF SInit, PoolInit
  <1>2. UndoneAreBlocks
    BY TreeAssumption DEF SInit, LInit, Init, StoreInit, UndoneAreBlocks
  <1> QED
    BY <1>1, <1>2 DEF EvictInv, PoolInv

LEMMA EvictNext ==
    ASSUME EvictInv, [SNext]_svars
    PROVE  EvictInv'
  <1>0. UndoneAreBlocks
    BY DEF EvictInv
  <1>1. CASE ServiceCall
    <2>1. UndoneAreBlocks'
      BY <1>0, <1>1, CallBlocks DEF ServiceCall
    <2>2. PoolInv'
      BY <1>1, PoolUntouched DEF ServiceCall, Idle
    <2> QED
      BY <2>1, <2>2 DEF EvictInv, PoolInv
  <1>2. CASE ServiceStep
    <2>1. UndoneAreBlocks'
      BY <1>0, <1>2, StepBlocks DEF ServiceStep
    <2>2. PoolInv'
      BY <1>2, PoolUntouched DEF ServiceStep, poolVars
    <2> QED
      BY <2>1, <2>2 DEF EvictInv, PoolInv
  <1>3. CASE ServiceUpdate \/ MempoolStep \/ (\E t \in Offers : SubmitTransaction(t)) \/ ExpireOld
    <2>1. UndoneAreBlocks'
      BY <1>0, <1>3, ChainUntouched DEF ServiceUpdate, MempoolStep, SubmitTransaction, ExpireOld
    <2>2. PoolInv'
      BY <1>3, UpdateInv, TrimStepInv, TrimDoneInv, PutBackInv, AddInv, ExpireInv
      DEF ServiceUpdate, MempoolStep, SubmitTransaction, ExpireOld
    <2> QED
      BY <2>1, <2>2 DEF EvictInv, PoolInv
  <1>4. CASE ServiceCrash
    <2>1. UndoneAreBlocks'
      BY <1>0, <1>4 DEF ServiceCrash, CrashLedger, Crash, UndoneAreBlocks
    <2>2. PoolInv'
      BY <1>4, EmptyPoolNext DEF ServiceCrash
    <2> QED
      BY <2>1, <2>2 DEF EvictInv, PoolInv
  <1>5. CASE UNCHANGED svars
    <2>1. UndoneAreBlocks'
      BY <1>0, <1>5, ChainUntouched DEF svars
    <2>2. PoolInv'
      BY <1>5, PoolUntouched DEF svars, poolVars
    <2> QED
      BY <2>1, <2>2 DEF EvictInv, PoolInv
  <1> QED
    BY <1>1, <1>2, <1>3, <1>4, <1>5 DEF SNext

\* Whatever the chain, the transfers and the limits: the heap of _evictable
\* holds every sender's last transfer at every step of add, update, expire and
\* _trim_to_size, so an eviction that is needed always finds its victim, and
\* between calls the waiting transfers are within max_bytes.
THEOREM EvictionIsSound == SSpec => []EvictionWorks
  <1>1. EvictInv => EvictionWorks
    BY DEF EvictInv, EvictionWorks, WithinLimit, Idle
  <1> QED
    BY <1>1, EvictInit, EvictNext, PTL DEF SSpec

-----------------------------------------------------------------------------
(* The layers *)

\* A node with a mempool does to its chain and balances only what ChainLedger
\* does: submit_transaction, expire and the mempool's part of submit_block
\* leave them alone, also in the middle of an update.  Every property of LSpec
\* is one of the whole service.
THEOREM ServiceIsLedger == SSpec => LSpec
  <1>1. SInit => LInit
    BY DEF SInit
  <1>2. ASSUME [SNext]_svars PROVE [LNext]_lvars
    <2>1. CASE ServiceCall
      BY <2>1 DEF ServiceCall, LNext
    <2>2. CASE ServiceStep
      BY <2>2 DEF ServiceStep, LNext
    <2>3. CASE ServiceUpdate \/ MempoolStep \/ (\E t \in Offers : SubmitTransaction(t)) \/ ExpireOld
      BY <2>3 DEF ServiceUpdate, MempoolStep, SubmitTransaction, ExpireOld
    <2>4. CASE ServiceCrash
      BY <2>4 DEF ServiceCrash, LNext
    <2>5. CASE UNCHANGED svars
      BY <2>5 DEF svars
    <2> QED
      BY <1>2, <2>1, <2>2, <2>3, <2>4, <2>5 DEF SNext
  <1> QED
    BY <1>1, <1>2, PTL DEF SSpec, LSpec

\* A step of the chain with its balances is one of the chain alone, as long as
\* the balances refuse exactly the blocks outside Accepts.
LEMMA LedgerStep ==
    ASSUME AcceptanceIsLocal, [LNext]_lvars
    PROVE  [Next]_vars
  <1>1. CASE BeginCall
    BY <1>1 DEF BeginCall, Next
  <1>2. CASE SwitchLedger
    BY <1>2 DEF SwitchLedger, AcceptanceIsLocal, Switch, HandlerStep, Next
  <1>3. CASE pc = "importTx" /\ Imported.ok /\ ImportApplies
    BY <1>3 DEF AcceptanceIsLocal, ImportCommit, ImportApplies, HandlerStep, Next
  <1>4. CASE ImportFails
    BY <1>4 DEF HandlerStep, Next
  <1>5. CASE QuietStep
    BY <1>5 DEF QuietStep, HandlerStep, Next
  <1>6. CASE CrashLedger
    BY <1>6 DEF CrashLedger, Next
  <1>7. CASE UNCHANGED lvars
    BY <1>7 DEF lvars
  <1> QED
    BY <1>1, <1>2, <1>3, <1>4, <1>5, <1>6, <1>7 DEF LNext, ContinueCall, ImportLedger

-----------------------------------------------------------------------------
(* One block's changes *)

\* What the database can hold for an account, and rows for some accounts.
Account == [balance : 0..MaxAmount, nonce : Nat]
Rows == UNION {[D -> Account] : D \in SUBSET Address}
Output == [address : Address, amount : 0..MaxAmount]

\* The overlays over B: the value an account had is recorded for exactly the
\* accounts that were written, and it is the value in B.
Overlays(B) ==
    {o \in [base : {B}, accounts : Rows, previous : Rows, fees : Nat, ok : BOOLEAN] :
        /\ DOMAIN o.previous = DOMAIN o.accounts
        /\ \A a \in DOMAIN o.previous : o.previous[a] = B[a]}

\* The settings of the ledger.
LEMMA LedgerTypes ==
    /\ BlockReward \in Nat /\ MaxAmount \in Nat
    /\ SnapshotDelay \in 0..(ChunkSize - 1)
    /\ \A t \in DOMAIN Transfer :
          /\ Transfer[t].sender \in Address /\ Transfer[t].nonce \in Nat
          /\ Transfer[t].fee \in Nat
          /\ Transfer[t].outputs \in Seq(Output)
          /\ \A b \in Block : b # t
    /\ \A b \in Block : Coinbase[b] \in Output /\ BlockTxs[b] \in Seq(DOMAIN Transfer)
                        /\ IsInjective(BlockTxs[b])
    /\ BlockTxs[Genesis] = <<>> /\ Coinbase[Genesis].amount = BlockReward
  <1>1. /\ BlockReward \in Nat /\ MaxAmount \in Nat
        /\ SnapshotDelay \in 0..(ChunkSize - 1)
    BY LedgerAssumption
  <1>2. ASSUME NEW t \in DOMAIN Transfer
        PROVE  /\ Transfer[t].sender \in Address /\ Transfer[t].nonce \in Nat
               /\ Transfer[t].fee \in Nat
               /\ Transfer[t].outputs \in Seq(Output)
               /\ \A b \in Block : b # t
    <2>1. /\ Transfer[t].sender \in Address /\ Transfer[t].nonce \in Nat
          /\ Transfer[t].fee \in 0..MaxAmount
          /\ Transfer[t].outputs \in Seq([address : Address, amount : 1..MaxAmount])
      BY LedgerAssumption
    <2>2. [address : Address, amount : 1..MaxAmount] \subseteq Output
      BY <1>1 DEF Output
    <2>3. \A S, T : S \subseteq T => Seq(S) \subseteq Seq(T)
      OBVIOUS
    <2>4. Transfer[t].outputs \in Seq(Output)
      BY <2>1, <2>2, <2>3
    <2>5. \A b \in Block : b # t
      BY LedgerAssumption
    <2> QED
      BY <1>1, <2>1, <2>4, <2>5
  <1>3. ASSUME NEW b \in Block
        PROVE  Coinbase[b] \in Output /\ BlockTxs[b] \in Seq(DOMAIN Transfer)
               /\ IsInjective(BlockTxs[b])
    BY LedgerAssumption DEF Output
  <1>4. BlockTxs[Genesis] = <<>> /\ Coinbase[Genesis].amount = BlockReward
    BY LedgerAssumption
  <1> QED
    BY <1>1, <1>2, <1>3, <1>4

LEMMA RowsOver ==
    ASSUME NEW r
    PROVE  r \in Rows <=> DOMAIN r \subseteq Address /\ r \in [DOMAIN r -> Account]
  BY DEF Rows

LEMMA PutRow ==
    ASSUME NEW r \in Rows, NEW a \in Address, NEW v \in Account
    PROVE  /\ Put(r, a, v) \in Rows
           /\ DOMAIN Put(r, a, v) = DOMAIN r \cup {a}
           /\ Put(r, a, v)[a] = v
           /\ \A x \in DOMAIN r : x # a => Put(r, a, v)[x] = r[x]
  <1>1. DOMAIN r \subseteq Address /\ r \in [DOMAIN r -> Account]
    BY RowsOver
  <1> DEFINE p == Put(r, a, v)
  <1>2. /\ DOMAIN p = DOMAIN r \cup {a} /\ p[a] = v
        /\ \A x \in DOMAIN r : x # a => p[x] = r[x]
        /\ p \in [DOMAIN r \cup {a} -> Account]
    BY <1>1 DEF Put
  <1> HIDE DEF p
  <1>3. p \in Rows
    BY <1>1, <1>2, RowsOver
  <1> QED
    BY <1>2, <1>3 DEF p

LEMMA OverlayFacts ==
    ASSUME NEW B \in [Address -> Account], NEW o \in Overlays(B)
    PROVE  /\ o = [base |-> B, accounts |-> o.accounts, previous |-> o.previous,
                   fees |-> o.fees, ok |-> o.ok]
           /\ o.accounts \in Rows /\ o.previous \in Rows /\ o.fees \in Nat /\ o.ok \in BOOLEAN
           /\ DOMAIN o.previous = DOMAIN o.accounts
           /\ \A a \in DOMAIN o.previous : o.previous[a] = B[a]
  BY DEF Overlays

LEMMA NewOverlay ==
    ASSUME NEW B \in [Address -> Account]
    PROVE  /\ Overlay(B) \in Overlays(B) /\ Overlay(B).ok = TRUE /\ Overlay(B).fees = 0
           /\ \A a \in Address : Get(Overlay(B), a) = B[a]
  <1>1. <<>> \in Rows
    <2>1. DOMAIN <<>> = {} /\ <<>> \in [{} -> Account]
      OBVIOUS
    <2> QED
      BY <2>1, RowsOver
  <1> QED
    BY <1>1 DEF Overlay, Overlays, Get

LEMMA GetFacts ==
    ASSUME NEW B \in [Address -> Account], NEW o \in Overlays(B), NEW a \in Address
    PROVE  Get(o, a) \in Account
  <1>1. o.accounts \in [DOMAIN o.accounts -> Account] /\ o.base = B
    BY OverlayFacts, RowsOver
  <1> QED
    BY <1>1 DEF Get

LEMMA SetFacts ==
    ASSUME NEW B \in [Address -> Account], NEW o \in Overlays(B), NEW a \in Address,
           NEW v \in Account
    PROVE  /\ Set(o, a, v) \in Overlays(B)
           /\ Set(o, a, v).ok = o.ok /\ Set(o, a, v).fees = o.fees
           /\ \A x \in Address : Get(Set(o, a, v), x) = IF x = a THEN v ELSE Get(o, x)
  <1> DEFINE A == Put(o.accounts, a, v)
             P == IF a \in DOMAIN o.previous THEN o.previous ELSE Put(o.previous, a, o.base[a])
             n == [base |-> B, accounts |-> A, previous |-> P, fees |-> o.fees, ok |-> o.ok]
  <1>1. /\ o = [base |-> B, accounts |-> o.accounts, previous |-> o.previous,
                fees |-> o.fees, ok |-> o.ok]
        /\ o.accounts \in Rows /\ o.previous \in Rows /\ o.fees \in Nat /\ o.ok \in BOOLEAN
        /\ DOMAIN o.previous = DOMAIN o.accounts
        /\ \A x \in DOMAIN o.previous : o.previous[x] = B[x]
    BY OverlayFacts
  <1>2. o.base = B /\ B[a] \in Account
    BY <1>1
  <1>3. /\ A \in Rows /\ DOMAIN A = DOMAIN o.accounts \cup {a} /\ A[a] = v
        /\ \A x \in DOMAIN o.accounts : x # a => A[x] = o.accounts[x]
    <2>1. o.accounts \in Rows
      BY <1>1
    <2> QED
      BY <2>1, PutRow
  <1>4. /\ P \in Rows /\ DOMAIN P = DOMAIN o.previous \cup {a}
        /\ \A x \in DOMAIN P : P[x] = B[x]
    <2>1. CASE a \in DOMAIN o.previous
      BY <1>1, <2>1
    <2>2. CASE a \notin DOMAIN o.previous
      <3>1. P = Put(o.previous, a, B[a])
        BY <1>2, <2>2
      <3>2. o.previous \in Rows
        BY <1>1
      <3>3. /\ Put(o.previous, a, B[a]) \in Rows
            /\ DOMAIN Put(o.previous, a, B[a]) = DOMAIN o.previous \cup {a}
            /\ Put(o.previous, a, B[a])[a] = B[a]
            /\ \A x \in DOMAIN o.previous :
                  x # a => Put(o.previous, a, B[a])[x] = o.previous[x]
        BY <1>2, <3>2, PutRow
      <3> HIDE DEF P
      <3> QED
        BY <1>1, <3>1, <3>3
    <2> QED
      BY <2>1, <2>2
  <1>5. Set(o, a, v) = n
    <2>1. Set(o, a, v) = [o EXCEPT !.accounts = A, !.previous = P]
      BY Zenon DEF Set
    <2> HIDE DEF A, P
    <2>2. PICK acc, pre, fees, ok :
              o = [base |-> B, accounts |-> acc, previous |-> pre, fees |-> fees, ok |-> ok]
      BY <1>1, Zenon
    <2>3. [o EXCEPT !.accounts = A, !.previous = P]
             = [base |-> B, accounts |-> A, previous |-> P, fees |-> fees, ok |-> ok]
      <3> DEFINE half == [o EXCEPT !.accounts = A]
      <3>1. half = [base |-> B, accounts |-> A, previous |-> pre, fees |-> fees, ok |-> ok]
        BY <2>2
      <3>2. [o EXCEPT !.accounts = A, !.previous = P] = [half EXCEPT !.previous = P]
        BY Zenon
      <3> HIDE DEF half
      <3> QED
        BY <3>1, <3>2
    <2> QED
      BY <2>1, <2>2, <2>3
  <1> HIDE DEF A, P
  <1>6. n \in Overlays(B)
    BY <1>1, <1>3, <1>4 DEF Overlays
  <1>7. ASSUME NEW x \in Address PROVE Get(n, x) = IF x = a THEN v ELSE Get(o, x)
    BY <1>1, <1>3 DEF Get
  <1> QED
    BY <1>5, <1>6, <1>7

\* The overlay of a block that has failed.
LEMMA FailedOverlay ==
    ASSUME NEW B \in [Address -> Account], NEW o \in Overlays(B)
    PROVE  /\ [o EXCEPT !.ok = FALSE] \in Overlays(B)
           /\ ~[o EXCEPT !.ok = FALSE].ok
           /\ [o EXCEPT !.ok = FALSE].fees = o.fees
           /\ \A a \in Address : Get([o EXCEPT !.ok = FALSE], a) = Get(o, a)
  BY OverlayFacts DEF Overlays, Get

\* A credit moves no nonce, and does not mend a block that has failed.
LEMMA CreditFacts ==
    ASSUME NEW B \in [Address -> Account], NEW o \in Overlays(B), NEW out \in Output
    PROVE  /\ Credit(o, out) \in Overlays(B)
           /\ Credit(o, out).ok => o.ok
           /\ Credit(o, out).fees = o.fees
           /\ \A a \in Address : Get(Credit(o, out), a).nonce = Get(o, a).nonce
  <1>1. out.address \in Address /\ out.amount \in Nat
    BY LedgerTypes DEF Output
  <1> DEFINE old == Get(o, out.address)
             v == [old EXCEPT !.balance = old.balance + out.amount]
  <1>2. old \in Account
    BY <1>1, GetFacts
  <1>3. CASE o.ok /\ old.balance + out.amount <= MaxAmount
    <2>1. v \in Account /\ v.nonce = old.nonce
      BY <1>1, <1>2, <1>3, LedgerTypes DEF Account
    <2>2. Credit(o, out) = Set(o, out.address, v)
      BY <1>3 DEF Credit
    <2> HIDE DEF v
    <2>3. /\ Set(o, out.address, v) \in Overlays(B)
          /\ Set(o, out.address, v).ok = o.ok /\ Set(o, out.address, v).fees = o.fees
          /\ \A x \in Address : Get(Set(o, out.address, v), x)
                                = IF x = out.address THEN v ELSE Get(o, x)
      BY <1>1, <2>1, SetFacts
    <2> QED
      BY <1>3, <2>1, <2>2, <2>3
  <1>4. CASE ~(o.ok /\ old.balance + out.amount <= MaxAmount)
    <2>1. Credit(o, out) = [o EXCEPT !.ok = FALSE]
      BY <1>4 DEF Credit
    <2> QED
      BY <2>1, FailedOverlay
  <1> QED
    BY <1>3, <1>4

\* What a transfer takes from its sender, output by output.
LEMMA SpentTrace ==
    ASSUME NEW t \in DOMAIN Transfer
    PROVE  \E f \in [0..Len(Transfer[t].outputs) -> Nat] :
              /\ f[0] = Transfer[t].fee
              /\ \A i \in 1..Len(Transfer[t].outputs) :
                    f[i] = f[i - 1] + Transfer[t].outputs[i].amount
              /\ TotalSpent(t) = f[Len(Transfer[t].outputs)]
  <1> DEFINE fee == Transfer[t].fee
             s == Transfer[t].outputs
             n == Len(s)
             add == [x \in Nat \X Output |-> x[1] + x[2].amount]
             Sum(f) == f = [i \in 0..n |-> IF i = 0 THEN fee ELSE f[i - 1] + s[i].amount]
  <1>1. fee \in Nat /\ s \in Seq(Output) /\ n \in Nat /\ s \in [1..n -> Output]
    BY LedgerTypes
  <1>2. add \in [Nat \X Output -> Nat]
    BY DEF Output
  <1>3. \A y \in Nat, out \in Output : add[<<y, out>>] = y + out.amount
    OBVIOUS
  <1>4. TotalSpent(t) = (CHOOSE f : Sum(f))[n]
    BY DEF TotalSpent, Fold
  <1> HIDE DEF add, n, fee, s
  <1>5. \E f : Sum(f)
    <2>1. PICK f \in [0..n -> Nat] : Follows(f, n, fee, s, add)
      BY <1>1, <1>2, Stepwise
    <2>2. \A i \in 1..n : add[<<f[i - 1], s[i]>>] = f[i - 1] + s[i].amount
      BY <1>1, <1>3
    <2>3. \A i \in 0..n : f[i] = IF i = 0 THEN fee ELSE f[i - 1] + s[i].amount
      <3> TAKE i \in 0..n
      <3>1. i = 0 \/ i \in 1..n
        BY <1>1
      <3>2. f[i] = IF i = 0 THEN fee ELSE add[<<f[i - 1], s[i]>>]
        BY <2>1, <3>1 DEF Follows
      <3> QED
        BY <2>2, <3>1, <3>2
    <2>4. Sum(f)
      BY <2>3
    <2> QED
      BY <2>4
  <1>6. PICK f : f = (CHOOSE g : Sum(g)) /\ Sum(f)
    <2> HIDE DEF Sum
    <2> QED
      BY <1>5
  <1>7. f[0] = fee /\ \A i \in 1..n : f[i] = f[i - 1] + s[i].amount
    <2>1. 0 \in 0..n /\ \A i \in 1..n : i \in 0..n /\ i # 0
      BY <1>1
    <2>2. \A i \in 0..n : f[i] = IF i = 0 THEN fee ELSE f[i - 1] + s[i].amount
      BY <1>6, Zenon
    <2> QED
      BY <2>1, <2>2
  <1>8. f = [i \in 0..n |-> f[i]]
    BY <1>6
  <1> DEFINE T == {i \in Nat : i <= n => f[i] \in Nat}
  <1>9. 0 \in T
    BY <1>1, <1>7
  <1>10. \A i \in 0..(n - 1) : i \in T => i + 1 \in T
    <2> TAKE i \in 0..(n - 1)
    <2> HAVE i \in T
    <2>1. i + 1 \in 1..n /\ (i + 1) - 1 = i /\ i + 1 \in Nat /\ f[i] \in Nat
      BY <1>1
    <2>2. f[i + 1] = f[i] + s[i + 1].amount
      BY <1>7, <2>1
    <2>3. s[i + 1] \in Output
      BY <1>1, <2>1
    <2> QED
      BY <2>1, <2>2, <2>3 DEF Output
  <1> HIDE DEF T
  <1>11. 0..n \subseteq T
    <2>1. 0 \in Int /\ n \in Int
      BY <1>1
    <2> QED
      BY <1>9, <1>10, <2>1, UpTo
  <1>12. \A i \in 0..n : f[i] \in Nat
    BY <1>1, <1>11 DEF T
  <1>13. f \in [0..n -> Nat]
    BY <1>8, <1>12
  <1> QED
    BY <1>4, <1>6, <1>7, <1>13 DEF n, s, fee

LEMMA TotalSpentType ==
    ASSUME NEW t \in DOMAIN Transfer
    PROVE  TotalSpent(t) \in Nat
  <1>1. PICK f \in [0..Len(Transfer[t].outputs) -> Nat] :
            TotalSpent(t) = f[Len(Transfer[t].outputs)]
    BY SpentTrace
  <1>2. Len(Transfer[t].outputs) \in 0..Len(Transfer[t].outputs)
    BY LedgerTypes
  <1> QED
    BY <1>1, <1>2

\* Credits, one after the other: the outputs of a transfer.
LEMMA CreditsTrace ==
    ASSUME NEW B \in [Address -> Account], NEW o \in Overlays(B), NEW s \in Seq(Output)
    PROVE  \E f \in [0..Len(s) -> Overlays(B)] :
              /\ f[0] = o
              /\ \A i \in 1..Len(s) : f[i] = Credit(f[i - 1], s[i])
              /\ Fold(Credit, o, s) = f[Len(s)]
  <1> DEFINE n == Len(s)
             credit == [x \in Overlays(B) \X Output |-> Credit(x[1], x[2])]
             Trace(f) == f = [i \in 0..n |-> IF i = 0 THEN o ELSE Credit(f[i - 1], s[i])]
  <1>1. n \in Nat /\ s \in [1..n -> Output]
    OBVIOUS
  <1>2. credit \in [Overlays(B) \X Output -> Overlays(B)]
    BY CreditFacts
  <1>3. \A p \in Overlays(B), out \in Output : credit[<<p, out>>] = Credit(p, out)
    OBVIOUS
  <1>4. Fold(Credit, o, s) = (CHOOSE f : Trace(f))[n]
    BY DEF Fold
  <1> HIDE DEF credit, n
  <1>5. \E f : Trace(f)
    <2>1. PICK f \in [0..n -> Overlays(B)] : Follows(f, n, o, s, credit)
      BY <1>1, <1>2, Stepwise
    <2>2. \A i \in 1..n : credit[<<f[i - 1], s[i]>>] = Credit(f[i - 1], s[i])
      BY <1>1, <1>3
    <2>3. \A i \in 0..n : f[i] = IF i = 0 THEN o ELSE Credit(f[i - 1], s[i])
      <3> TAKE i \in 0..n
      <3>1. i = 0 \/ i \in 1..n
        BY <1>1
      <3>2. f[i] = IF i = 0 THEN o ELSE credit[<<f[i - 1], s[i]>>]
        BY <2>1, <3>1 DEF Follows
      <3> QED
        BY <2>2, <3>1, <3>2
    <2>4. Trace(f)
      BY <2>3
    <2> QED
      BY <2>4
  <1>6. PICK f : f = (CHOOSE g : Trace(g)) /\ Trace(f)
    <2> HIDE DEF Trace
    <2> QED
      BY <1>5
  <1>7. f[0] = o /\ \A i \in 1..n : f[i] = Credit(f[i - 1], s[i])
    <2>1. 0 \in 0..n /\ \A i \in 1..n : i \in 0..n /\ i # 0
      BY <1>1
    <2>2. \A i \in 0..n : f[i] = IF i = 0 THEN o ELSE Credit(f[i - 1], s[i])
      BY <1>6, Zenon
    <2> QED
      BY <2>1, <2>2
  <1>8. f = [i \in 0..n |-> f[i]]
    BY <1>6
  <1> DEFINE T == {i \in Nat : i <= n => f[i] \in Overlays(B)}
  <1>9. 0 \in T
    BY <1>7
  <1>10. \A i \in 0..(n - 1) : i \in T => i + 1 \in T
    <2> TAKE i \in 0..(n - 1)
    <2> HAVE i \in T
    <2>1. /\ i + 1 \in 1..n /\ (i + 1) - 1 = i /\ i + 1 \in Nat
          /\ f[i] \in Overlays(B)
      BY <1>1
    <2>2. f[i + 1] = Credit(f[i], s[i + 1])
      BY <1>7, <2>1
    <2>3. s[i + 1] \in Output
      BY <1>1, <2>1
    <2>4. Credit(f[i], s[i + 1]) \in Overlays(B)
      BY <2>1, <2>3, CreditFacts
    <2> QED
      BY <2>1, <2>2, <2>4
  <1> HIDE DEF T
  <1>11. 0..n \subseteq T
    <2>1. 0 \in Int /\ n \in Int
      BY <1>1
    <2> QED
      BY <1>9, <1>10, <2>1, UpTo
  <1>12. \A i \in 0..n : f[i] \in Overlays(B)
    BY <1>1, <1>11 DEF T
  <1>13. f \in [0..n -> Overlays(B)]
    BY <1>8, <1>12
  <1> QED
    BY <1>4, <1>6, <1>7, <1>13 DEF n

LEMMA CreditsFacts ==
    ASSUME NEW B \in [Address -> Account], NEW o \in Overlays(B), NEW s \in Seq(Output)
    PROVE  /\ Fold(Credit, o, s) \in Overlays(B)
           /\ Fold(Credit, o, s).ok => o.ok
           /\ Fold(Credit, o, s).fees = o.fees
           /\ \A a \in Address : Get(Fold(Credit, o, s), a).nonce = Get(o, a).nonce
  <1> DEFINE n == Len(s)
             Keeps(p) == /\ p \in Overlays(B)
                         /\ p.ok => o.ok
                         /\ p.fees = o.fees
                         /\ \A a \in Address : Get(p, a).nonce = Get(o, a).nonce
  <1>1. n \in Nat /\ s \in [1..n -> Output]
    OBVIOUS
  <1>2. PICK f \in [0..n -> Overlays(B)] :
            /\ f[0] = o
            /\ \A i \in 1..n : f[i] = Credit(f[i - 1], s[i])
            /\ Fold(Credit, o, s) = f[n]
    BY CreditsTrace
  <1> HIDE DEF n
  <1> DEFINE T == {i \in Nat : i <= n => Keeps(f[i])}
  <1>3. 0 \in T
    <2>1. Keeps(o)
      OBVIOUS
    <2> HIDE DEF Keeps
    <2> QED
      BY <1>2, <2>1
  <1>4. \A i \in 0..(n - 1) : i \in T => i + 1 \in T
    <2> TAKE i \in 0..(n - 1)
    <2> HAVE i \in T
    <2>1. i + 1 \in 1..n /\ (i + 1) - 1 = i /\ i + 1 \in Nat
      BY <1>1
    <2>2. Keeps(f[i])
      BY <2>1, <1>1
    <2>3. f[i + 1] = Credit(f[i], s[i + 1])
      BY <1>2, <2>1
    <2>4. s[i + 1] \in Output
      BY <1>1, <2>1
    <2>5. f[i] \in Overlays(B)
      BY <2>2
    <2>6. Keeps(Credit(f[i], s[i + 1]))
      BY <2>2, <2>4, <2>5, CreditFacts
    <2> HIDE DEF Keeps
    <2> QED
      BY <2>1, <2>3, <2>6
  <1> HIDE DEF T, Keeps
  <1>5. 0..n \subseteq T
    <2>1. 0 \in Int /\ n \in Int
      BY <1>1
    <2> QED
      BY <1>3, <1>4, <2>1, UpTo
  <1>6. Keeps(f[n])
    BY <1>1, <1>5 DEF T
  <1> QED
    BY <1>2, <1>6 DEF Keeps

LEMMA ChargedFacts ==
    ASSUME NEW B \in [Address -> Account], NEW o \in Overlays(B), NEW n \in Nat
    PROVE  /\ [o EXCEPT !.fees = @ + n] \in Overlays(B)
           /\ [o EXCEPT !.fees = @ + n].ok = o.ok
           /\ [o EXCEPT !.fees = @ + n].fees = o.fees + n
           /\ \A a \in Address : Get([o EXCEPT !.fees = @ + n], a) = Get(o, a)
  BY OverlayFacts DEF Overlays, Get

\* One transfer: it must carry the sender's nonce, and moves it on by one.
LEMMA TransferFacts ==
    ASSUME NEW B \in [Address -> Account], NEW o \in Overlays(B), NEW t \in DOMAIN Transfer
    PROVE  /\ ApplyTransfer(o, t) \in Overlays(B)
           /\ ApplyTransfer(o, t).ok =>
                 /\ o.ok
                 /\ Get(o, Transfer[t].sender).nonce = Transfer[t].nonce
                 /\ ApplyTransfer(o, t).fees = o.fees + Transfer[t].fee
                 /\ \A a \in Address :
                       Get(ApplyTransfer(o, t), a).nonce
                          = Get(o, a).nonce + IF a = Transfer[t].sender THEN 1 ELSE 0
  <1> DEFINE sender == Transfer[t].sender
             account == Get(o, sender)
             v == [balance |-> account.balance - TotalSpent(t), nonce |-> account.nonce + 1]
             paid == Set(o, sender, v)
             charged == [paid EXCEPT !.fees = @ + Transfer[t].fee]
  <1>1. /\ sender \in Address /\ Transfer[t].fee \in Nat /\ Transfer[t].outputs \in Seq(Output)
        /\ TotalSpent(t) \in Nat
    BY LedgerTypes, TotalSpentType
  <1>2. account \in Account
    BY <1>1, GetFacts
  <1>3. CASE o.ok /\ CanSpend(t, account)
    <2>1. Transfer[t].nonce = account.nonce /\ TotalSpent(t) <= account.balance
      BY <1>3 DEF CanSpend
    <2>2. v \in Account /\ v.nonce = account.nonce + 1
      BY <1>1, <1>2, <2>1, LedgerTypes DEF Account
    <2>3. ApplyTransfer(o, t) = Fold(Credit, charged, Transfer[t].outputs)
      BY <1>3 DEF ApplyTransfer
    <2> HIDE DEF v, account, sender
    <2>4. /\ paid \in Overlays(B) /\ paid.ok = o.ok /\ paid.fees = o.fees
          /\ \A a \in Address : Get(paid, a) = IF a = sender THEN v ELSE Get(o, a)
      BY <1>1, <2>2, SetFacts
    <2> HIDE DEF paid
    <2>5. /\ charged \in Overlays(B) /\ charged.ok = paid.ok
          /\ charged.fees = paid.fees + Transfer[t].fee
          /\ \A a \in Address : Get(charged, a) = Get(paid, a)
      BY <1>1, <2>4, ChargedFacts
    <2> HIDE DEF charged
    <2> DEFINE r == Fold(Credit, charged, Transfer[t].outputs)
    <2>6. /\ r \in Overlays(B) /\ (r.ok => charged.ok) /\ r.fees = charged.fees
          /\ \A a \in Address : Get(r, a).nonce = Get(charged, a).nonce
      BY <1>1, <2>5, CreditsFacts
    <2> HIDE DEF r
    <2>7. \A a \in Address : Get(r, a).nonce = Get(o, a).nonce + IF a = sender THEN 1 ELSE 0
      <3> TAKE a \in Address
      <3>1. Get(r, a).nonce = Get(paid, a).nonce /\ Get(o, a) \in Account
        BY <2>5, <2>6, GetFacts
      <3>2. CASE a = sender
        BY <2>2, <2>4, <3>1, <3>2 DEF account
      <3>3. CASE a # sender
        BY <2>4, <3>1, <3>3 DEF Account
      <3> QED
        BY <3>2, <3>3
    <2> QED
      BY <1>3, <2>1, <2>3, <2>4, <2>5, <2>6, <2>7 DEF r, sender, account
  <1>4. CASE ~(o.ok /\ CanSpend(t, account))
    <2>1. ApplyTransfer(o, t) = [o EXCEPT !.ok = FALSE]
      BY <1>4 DEF ApplyTransfer
    <2> QED
      BY <2>1, FailedOverlay
  <1> QED
    BY <1>3, <1>4

\* The overlay after each transfer of a block.
LEMMA TransfersTrace ==
    ASSUME NEW B \in [Address -> Account], NEW o \in Overlays(B),
           NEW s \in Seq(DOMAIN Transfer)
    PROVE  \E f \in [0..Len(s) -> Overlays(B)] :
              /\ f[0] = o
              /\ \A i \in 1..Len(s) : f[i] = ApplyTransfer(f[i - 1], s[i])
              /\ Fold(ApplyTransfer, o, s) = f[Len(s)]
  <1> DEFINE n == Len(s)
             E == DOMAIN Transfer
             apply == [x \in Overlays(B) \X E |-> ApplyTransfer(x[1], x[2])]
             Trace(f) == f = [i \in 0..n |-> IF i = 0 THEN o ELSE ApplyTransfer(f[i - 1], s[i])]
  <1>1. n \in Nat /\ s \in [1..n -> E]
    OBVIOUS
  <1>2. apply \in [Overlays(B) \X E -> Overlays(B)]
    BY TransferFacts
  <1>3. \A p \in Overlays(B), t \in E : apply[<<p, t>>] = ApplyTransfer(p, t)
    OBVIOUS
  <1>4. Fold(ApplyTransfer, o, s) = (CHOOSE f : Trace(f))[n]
    BY DEF Fold
  <1> HIDE DEF apply, n, E
  <1>5. \E f : Trace(f)
    <2>1. PICK f \in [0..n -> Overlays(B)] : Follows(f, n, o, s, apply)
      BY <1>1, <1>2, Stepwise
    <2>2. \A i \in 1..n : apply[<<f[i - 1], s[i]>>] = ApplyTransfer(f[i - 1], s[i])
      BY <1>1, <1>3
    <2>3. \A i \in 0..n : f[i] = IF i = 0 THEN o ELSE ApplyTransfer(f[i - 1], s[i])
      <3> TAKE i \in 0..n
      <3>1. i = 0 \/ i \in 1..n
        BY <1>1
      <3>2. f[i] = IF i = 0 THEN o ELSE apply[<<f[i - 1], s[i]>>]
        BY <2>1, <3>1 DEF Follows
      <3> QED
        BY <2>2, <3>1, <3>2
    <2>4. Trace(f)
      BY <2>3
    <2> QED
      BY <2>4
  <1>6. PICK f : f = (CHOOSE g : Trace(g)) /\ Trace(f)
    <2> HIDE DEF Trace
    <2> QED
      BY <1>5
  <1>7. f[0] = o /\ \A i \in 1..n : f[i] = ApplyTransfer(f[i - 1], s[i])
    <2>1. 0 \in 0..n /\ \A i \in 1..n : i \in 0..n /\ i # 0
      BY <1>1
    <2>2. \A i \in 0..n : f[i] = IF i = 0 THEN o ELSE ApplyTransfer(f[i - 1], s[i])
      BY <1>6, Zenon
    <2> QED
      BY <2>1, <2>2
  <1>8. f = [i \in 0..n |-> f[i]]
    BY <1>6
  <1> DEFINE T == {i \in Nat : i <= n => f[i] \in Overlays(B)}
  <1>9. 0 \in T
    BY <1>7
  <1>10. \A i \in 0..(n - 1) : i \in T => i + 1 \in T
    <2> TAKE i \in 0..(n - 1)
    <2> HAVE i \in T
    <2>1. /\ i + 1 \in 1..n /\ (i + 1) - 1 = i /\ i + 1 \in Nat
          /\ f[i] \in Overlays(B)
      BY <1>1
    <2>2. f[i + 1] = ApplyTransfer(f[i], s[i + 1])
      BY <1>7, <2>1
    <2>3. s[i + 1] \in E
      BY <1>1, <2>1
    <2>4. ApplyTransfer(f[i], s[i + 1]) \in Overlays(B)
      BY <2>1, <2>3, TransferFacts DEF E
    <2> QED
      BY <2>1, <2>2, <2>4
  <1> HIDE DEF T
  <1>11. 0..n \subseteq T
    <2>1. 0 \in Int /\ n \in Int
      BY <1>1
    <2> QED
      BY <1>9, <1>10, <2>1, UpTo
  <1>12. \A i \in 0..n : f[i] \in Overlays(B)
    BY <1>1, <1>11 DEF T
  <1>13. f \in [0..n -> Overlays(B)]
    BY <1>8, <1>12
  <1> QED
    BY <1>4, <1>6, <1>7, <1>13 DEF n

\* Transfers that are applied without failing have the nonces between the ones
\* their senders had before and have afterwards.
LEMMA TransfersFacts ==
    ASSUME NEW B \in [Address -> Account], NEW o \in Overlays(B),
           NEW s \in Seq(DOMAIN Transfer), NEW r, r = Fold(ApplyTransfer, o, s)
    PROVE  /\ r \in Overlays(B)
           /\ r.ok =>
                /\ o.ok
                /\ \A a \in Address : Get(o, a).nonce <= Get(r, a).nonce
                /\ \A i \in DOMAIN s :
                      /\ Get(o, Transfer[s[i]].sender).nonce <= Transfer[s[i]].nonce
                      /\ Transfer[s[i]].nonce < Get(r, Transfer[s[i]].sender).nonce
  <1> DEFINE n == Len(s)
             Nonce2(p, a) == Get(p, a).nonce
  <1>1. n \in Nat /\ DOMAIN s = 1..n /\ s \in [1..n -> DOMAIN Transfer]
    OBVIOUS
  <1>2. PICK f \in [0..n -> Overlays(B)] :
              /\ f[0] = o
              /\ \A i \in 1..n : f[i] = ApplyTransfer(f[i - 1], s[i])
              /\ r = f[n]
    BY TransfersTrace
  <1> HIDE DEF n
  <1>3. r \in Overlays(B)
    BY <1>1, <1>2
  <1>4. \A i \in 0..n, a \in Address : Nonce2(f[i], a) \in Nat
    BY <1>2, GetFacts DEF Account
  <1> HIDE DEF Nonce2
  <1>5. ASSUME NEW i \in 1..n, f[i].ok
        PROVE  /\ f[i - 1].ok
               /\ Nonce2(f[i - 1], Transfer[s[i]].sender) = Transfer[s[i]].nonce
               /\ \A a \in Address :
                     Nonce2(f[i], a)
                        = Nonce2(f[i - 1], a) + IF a = Transfer[s[i]].sender THEN 1 ELSE 0
    <2>1. f[i - 1] \in Overlays(B) /\ s[i] \in DOMAIN Transfer
          /\ f[i] = ApplyTransfer(f[i - 1], s[i])
      BY <1>1, <1>2
    <2> QED
      BY <1>5, <2>1, TransferFacts DEF Nonce2
  <1>6. SUFFICES ASSUME r.ok
                 PROVE  /\ o.ok
                        /\ \A a \in Address : Nonce2(o, a) <= Nonce2(r, a)
                        /\ \A i \in 1..n :
                              /\ Nonce2(o, Transfer[s[i]].sender) <= Transfer[s[i]].nonce
                              /\ Transfer[s[i]].nonce < Nonce2(r, Transfer[s[i]].sender)
    BY <1>1, <1>3 DEF Nonce2
  <1> DEFINE T == {i \in Int : i \in 0..n => f[i].ok}
  <1>7. 0..n \subseteq T
    <2>1. n \in T
      BY <1>1, <1>2, <1>6
    <2>2. \A i \in (0 + 1)..n : i \in T => i - 1 \in T
      BY <1>1, <1>5
    <2> HIDE DEF T
    <2>3. 0 \in Int /\ n \in Int
      BY <1>1
    <2> QED
      BY <2>1, <2>2, <2>3, DownTo
  <1>8. \A i \in 0..n : f[i].ok
    BY <1>1, <1>7
  <1> HIDE DEF T
  <1> DEFINE Grown(i) ==
                /\ \A a \in Address : Nonce2(o, a) <= Nonce2(f[i], a)
                /\ \A j \in 1..i :
                      /\ Nonce2(o, Transfer[s[j]].sender) <= Transfer[s[j]].nonce
                      /\ Transfer[s[j]].nonce < Nonce2(f[i], Transfer[s[j]].sender)
             U == {i \in Nat : i <= n => Grown(i)}
  <1>9. 0 \in U
    BY <1>1, <1>2, <1>4
  <1>10. \A i \in 0..(n - 1) : i \in U => i + 1 \in U
    <2> TAKE i \in 0..(n - 1)
    <2> HAVE i \in U
    <2>1. i \in 0..n /\ i + 1 \in 1..n /\ (i + 1) - 1 = i /\ i + 1 \in Nat /\ i + 1 \in 0..n
          /\ i \in Nat
      BY <1>1
    <2>2. Grown(i)
      BY <1>1, <2>1
    <2>3. /\ Nonce2(f[i], Transfer[s[i + 1]].sender) = Transfer[s[i + 1]].nonce
          /\ \A a \in Address :
                Nonce2(f[i + 1], a)
                   = Nonce2(f[i], a) + IF a = Transfer[s[i + 1]].sender THEN 1 ELSE 0
      BY <1>5, <1>8, <2>1
    <2>4. \A j \in 1..n : Transfer[s[j]].sender \in Address /\ Transfer[s[j]].nonce \in Nat
      BY <1>1, LedgerTypes
    <2>5. \A a \in Address : /\ Nonce2(f[i], a) \in Nat /\ Nonce2(o, a) \in Nat
                             /\ Nonce2(f[i], a) <= Nonce2(f[i + 1], a)
                             /\ Nonce2(f[i + 1], a) \in Nat
      <3> TAKE a \in Address
      <3>1. Nonce2(f[i], a) \in Nat /\ Nonce2(f[i + 1], a) \in Nat /\ Nonce2(o, a) \in Nat
        BY <1>1, <1>2, <1>4, <2>1
      <3> QED
        BY <2>3, <3>1
    <2>6. \A a \in Address : Nonce2(o, a) <= Nonce2(f[i + 1], a)
      <3> TAKE a \in Address
      <3>1. Nonce2(o, a) <= Nonce2(f[i], a)
        BY <2>2
      <3> QED
        BY <2>5, <3>1
    <2>7. ASSUME NEW j \in 1..(i + 1)
          PROVE  /\ Nonce2(o, Transfer[s[j]].sender) <= Transfer[s[j]].nonce
                 /\ Transfer[s[j]].nonce < Nonce2(f[i + 1], Transfer[s[j]].sender)
      <3>1. j \in 1..n /\ (j = i + 1 \/ j \in 1..i)
        BY <1>1, <2>1
      <3>2. CASE j = i + 1
        <4>1. /\ Transfer[s[j]].sender \in Address /\ Transfer[s[j]].nonce \in Nat
              /\ Nonce2(f[i], Transfer[s[j]].sender) = Transfer[s[j]].nonce
              /\ Nonce2(f[i + 1], Transfer[s[j]].sender)
                    = Nonce2(f[i], Transfer[s[j]].sender) + 1
          BY <2>3, <2>4, <3>1, <3>2
        <4>2. Nonce2(o, Transfer[s[j]].sender) <= Nonce2(f[i], Transfer[s[j]].sender)
          BY <2>2, <4>1
        <4> QED
          BY <4>1, <4>2
      <3>3. CASE j \in 1..i
        <4>1. /\ Transfer[s[j]].sender \in Address /\ Transfer[s[j]].nonce \in Nat
              /\ Nonce2(o, Transfer[s[j]].sender) <= Transfer[s[j]].nonce
              /\ Transfer[s[j]].nonce < Nonce2(f[i], Transfer[s[j]].sender)
          BY <2>2, <2>4, <3>1, <3>3
        <4> QED
          BY <2>5, <4>1
      <3> QED
        BY <3>1, <3>2, <3>3
    <2>8. Grown(i + 1)
      BY <2>6, <2>7
    <2> HIDE DEF Grown
    <2> QED
      BY <2>1, <2>8
  <1> HIDE DEF U, Grown
  <1>11. 0..n \subseteq U
    <2>1. 0 \in Int /\ n \in Int
      BY <1>1
    <2> QED
      BY <1>9, <1>10, <2>1, UpTo
  <1>12. Grown(n)
    BY <1>1, <1>11 DEF U
  <1> QED
    BY <1>1, <1>2, <1>8, <1>12 DEF Grown

-----------------------------------------------------------------------------
(* A branch, block by block *)

\* The block of b's branch at height h.
At(b, h) == CHOOSE x \in Ancestors[b] : Height[x] = h

LEMMA AtHeight ==
    ASSUME NEW b \in Block, NEW h \in 0..Height[b]
    PROVE  /\ At(b, h) \in Ancestors[b] /\ At(b, h) \in Block /\ Height[At(b, h)] = h
           /\ \A x \in Ancestors[b] : Height[x] = h => x = At(b, h)
  <1>1. Height[b] \in Nat /\ h \in Nat /\ b \in Ancestors[b] /\ Ancestors[b] \subseteq Block
    BY BlockFacts, AncestorsSelf
  <1> DEFINE T == {k \in Nat : \E x \in Ancestors[b] : Height[x] = k}
             n == Height[b]
  <1>2. n \in T
    BY <1>1
  <1>3. \A i \in (0 + 1)..n : i \in T => i - 1 \in T
    <2> TAKE i \in (0 + 1)..n
    <2> HAVE i \in T
    <2>1. PICK x \in Ancestors[b] : Height[x] = i
      OBVIOUS
    <2>2. x \in Block /\ i \in Nat /\ i - 1 \in Nat /\ x # Genesis
      BY <1>1, <2>1, TreeAssumption
    <2>3. Parent[x] \in Ancestors[b] /\ Height[x] = Height[Parent[x]] + 1
          /\ Height[Parent[x]] \in Nat
      BY <1>1, <2>2, AncestorsClosed, TreeAssumption, BlockFacts DEF ParentClosed
    <2> QED
      BY <2>1, <2>2, <2>3
  <1>4. 0 \in Int /\ n \in Int
    BY <1>1
  <1> HIDE DEF T, n
  <1>5. 0..n \subseteq T
    BY <1>2, <1>3, <1>4, DownTo
  <1>6. \E x \in Ancestors[b] : Height[x] = h
    BY <1>5 DEF T, n
  <1>7. At(b, h) \in Ancestors[b] /\ Height[At(b, h)] = h
    BY <1>6 DEF At
  <1>8. ASSUME NEW x \in Ancestors[b], Height[x] = h PROVE x = At(b, h)
    <2>1. x \in Block /\ At(b, h) \in Block
      BY <1>1, <1>7
    <2>2. x \in Ancestors[At(b, h)]
      <3>1. Height[x] <= Height[At(b, h)]
        BY <1>1, <1>7, <1>8
      <3> QED
        BY <1>7, <3>1, AncestorsByHeight
    <2>3. x # At(b, h) => Height[x] < Height[At(b, h)]
      BY <2>1, <2>2, AncestorsBelow
    <2> QED
      BY <1>1, <1>7, <1>8, <2>3
  <1> QED
    BY <1>1, <1>7, <1>8

\* A block's place in the branches above it.
LEMMA AtOf ==
    ASSUME NEW b \in Block, NEW x \in Ancestors[b]
    PROVE  x \in Block /\ Height[x] \in 0..Height[b] /\ At(b, Height[x]) = x
  <1>1. x \in Block /\ Height[x] \in Nat /\ Height[b] \in Nat
    BY AncestorsSelf, BlockFacts
  <1>2. Height[x] <= Height[b]
    BY <1>1, AncestorsBelow
  <1>3. Height[x] \in 0..Height[b]
    BY <1>1, <1>2
  <1> QED
    BY <1>1, <1>3, AtHeight

LEMMA AtParent ==
    ASSUME NEW b \in Block, NEW h \in 1..Height[b]
    PROVE  At(b, h) # Genesis /\ Parent[At(b, h)] = At(b, h - 1)
  <1>1. Height[b] \in Nat /\ h \in Nat /\ h \in 0..Height[b] /\ h - 1 \in 0..Height[b]
    BY BlockFacts
  <1>2. At(b, h) \in Ancestors[b] /\ At(b, h) \in Block /\ Height[At(b, h)] = h
    BY <1>1, AtHeight
  <1>3. At(b, h) # Genesis
    BY <1>2, TreeAssumption
  <1>4. /\ Parent[At(b, h)] \in Ancestors[b] /\ Height[At(b, h)] = Height[Parent[At(b, h)]] + 1
        /\ Height[Parent[At(b, h)]] \in Nat
    BY <1>2, <1>3, AncestorsClosed, TreeAssumption, BlockFacts DEF ParentClosed
  <1>5. Height[Parent[At(b, h)]] = h - 1
    BY <1>1, <1>2, <1>4
  <1> QED
    BY <1>1, <1>3, <1>4, <1>5, AtHeight

\* Below a block of it, a branch is the branch of that block.
LEMMA AtShared ==
    ASSUME NEW b \in Block, NEW x \in Ancestors[b], NEW h \in 0..Height[x]
    PROVE  At(x, h) = At(b, h)
  <1>1. x \in Block /\ Height[x] \in 0..Height[b] /\ Height[x] \in Nat /\ Height[b] \in Nat
    BY AtOf, BlockFacts
  <1>2. At(x, h) \in Ancestors[x] /\ Height[At(x, h)] = h
    BY <1>1, AtHeight
  <1>3. At(x, h) \in Ancestors[b] /\ h \in 0..Height[b]
    BY <1>1, <1>2, AncestorsTransitive
  <1> QED
    BY <1>2, <1>3, AtHeight

-----------------------------------------------------------------------------
(* Replayed *)

\* The recursive definition has a value for every block: one block's tables
\* are the parent's, with the block applied.
LEMMA ReplayedStep ==
    /\ Replayed[Genesis] = GenesisLedger
    /\ \A b \in Block \ {Genesis} : Replayed[b] = Connect(Replayed[Parent[b]], b)
  <1> DEFINE R(f, b) ==
                /\ b \in Block
                /\ Genesis \in Ancestors[b] => f[Genesis] = GenesisLedger
                /\ \A x \in Ancestors[b] \ {Genesis} : f[x] = Connect(f[Parent[x]], x)
  <1>1. ASSUME NEW b, NEW c, NEW f, NEW g, R(f, b), R(g, c),
               NEW x, x \in Ancestors[b], x \in Ancestors[c]
        PROVE  f[x] = g[x]
    <2> SUFFICES ASSUME f[x] # g[x] PROVE FALSE
      OBVIOUS
    <2>0. /\ b \in Block /\ c \in Block
          /\ Ancestors[b] \subseteq Block /\ Ancestors[c] \subseteq Block
      BY <1>1, AncestorsSelf
    <2> DEFINE D == {y \in Ancestors[b] : y \in Ancestors[c] /\ f[y] # g[y]}
               Hs == {Height[y] : y \in D}
    <2>1. Hs \in SUBSET Nat /\ Hs # {}
      BY <1>1, <2>0, BlockFacts
    <2>2. PICK m \in Hs : \A k \in Hs : m <= k
      <3> HIDE DEF Hs
      <3> QED
        BY <2>1, LeastNumber
    <2>3. PICK y \in D : \A z \in D : Height[y] <= Height[z]
      BY <2>2
    <2>4. /\ y \in Ancestors[b] /\ y \in Ancestors[c] /\ f[y] # g[y] /\ y \in Block
      BY <2>0
    <2>5. y # Genesis
      BY <1>1, <2>4
    <2>6. /\ Parent[y] \in Ancestors[b] /\ Parent[y] \in Ancestors[c]
          /\ Height[y] = Height[Parent[y]] + 1 /\ Height[Parent[y]] \in Nat
      BY <2>0, <2>4, <2>5, AncestorsClosed, TreeAssumption, BlockFacts DEF ParentClosed
    <2>7. f[Parent[y]] = g[Parent[y]]
      BY <2>3, <2>6
    <2>8. f[y] = Connect(f[Parent[y]], y) /\ g[y] = Connect(g[Parent[y]], y)
      BY <1>1, <2>4, <2>5
    <2> QED
      BY <2>4, <2>7, <2>8
  <1>2. ASSUME NEW b \in Block PROVE \E f : R(f, b)
    <2> SUFFICES ASSUME ~\E f : R(f, b) PROVE FALSE
      OBVIOUS
    <2> DEFINE D == {c \in Block : ~\E f : R(f, c)}
               Hs == {Height[y] : y \in D}
    <2>1. Hs \in SUBSET Nat /\ Hs # {}
      <3>1. b \in D
        OBVIOUS
      <3>2. \A c \in D : Height[c] \in Nat
        BY BlockFacts
      <3> HIDE DEF D
      <3> QED
        BY <3>1, <3>2
    <2>2. PICK m \in Hs : \A k \in Hs : m <= k
      <3> HIDE DEF Hs
      <3> QED
        BY <2>1, LeastNumber
    <2>3. PICK c \in D : \A z \in D : Height[c] <= Height[z]
      <3> HIDE DEF D
      <3> QED
        BY <2>2
    <2>4. c \in Block /\ ~\E f : R(f, c)
      OBVIOUS
    <2> HIDE DEF R
    <2>5. c # Genesis
      <3>1. R([x \in {Genesis} |-> GenesisLedger], Genesis)
        BY AncestorsGenesis, TreeAssumption DEF R
      <3> QED
        BY <2>4, <3>1
    <2>6. Parent[c] \in Block /\ Height[c] = Height[Parent[c]] + 1 /\ Height[Parent[c]] \in Nat
      BY <2>4, <2>5, TreeAssumption, BlockFacts
    <2>7. PICK f : R(f, Parent[c])
      <3>1. Parent[c] \notin D
        <4> HIDE DEF D
        <4> QED
          BY <2>3, <2>6
      <3> QED
        BY <2>6, <3>1
    <2> DEFINE g == [x \in Ancestors[c] |-> IF x = c THEN Connect(f[Parent[c]], c) ELSE f[x]]
    <2>8. Ancestors[c] = {c} \cup Ancestors[Parent[c]] /\ Parent[c] \in Ancestors[Parent[c]]
      BY <2>4, <2>5, <2>6, AncestorsStep, AncestorsSelf
    <2>9. c \notin Ancestors[Parent[c]]
      BY <2>6, AncestorsBelow, BlockFacts
    <2>10. /\ \A x \in Ancestors[Parent[c]] : g[x] = f[x]
           /\ g[c] = Connect(f[Parent[c]], c)
      BY <2>8, <2>9
    <2> HIDE DEF g
    <2>11. ParentClosed(Ancestors[Parent[c]])
      BY <2>6, AncestorsClosed
    <2>12. Genesis \in Ancestors[c] => g[Genesis] = GenesisLedger
      BY <2>5, <2>7, <2>8, <2>10 DEF R
    <2>13. ASSUME NEW x \in Ancestors[c] \ {Genesis} PROVE g[x] = Connect(g[Parent[x]], x)
      <3>1. CASE x = c
        BY <2>8, <2>10, <3>1
      <3>2. CASE x \in Ancestors[Parent[c]]
        BY <2>7, <2>10, <2>11, <3>2 DEF R, ParentClosed
      <3> QED
        BY <2>8, <3>1, <3>2
    <2>14. R(g, c)
      BY <2>4, <2>12, <2>13 DEF R
    <2> QED
      BY <2>4, <2>14
  <1> DEFINE chosen(b) == CHOOSE f : R(f, b)
             G == [b \in Block |-> chosen(b)[b]]
  <1>3. \A b \in Block : R(chosen(b), b)
    <2> HIDE DEF R
    <2> QED
      BY <1>2
  <1> HIDE DEF chosen
  <1>4. G[Genesis] = GenesisLedger
    <2>1. R(chosen(Genesis), Genesis) /\ Genesis \in Ancestors[Genesis] /\ Genesis \in Block
      BY <1>3, AncestorsGenesis, TreeAssumption
    <2> QED
      BY <2>1
  <1>5. ASSUME NEW b \in Block \ {Genesis} PROVE G[b] = Connect(G[Parent[b]], b)
    <2>1. Parent[b] \in Block /\ b \in Ancestors[b] /\ Parent[b] \in Ancestors[b]
          /\ Parent[b] \in Ancestors[Parent[b]]
      BY BlockFacts, AncestorsSelf, AncestorsStep
    <2>2. R(chosen(b), b) /\ R(chosen(Parent[b]), Parent[b])
      BY <1>3, <2>1
    <2>3. chosen(b)[b] = Connect(chosen(b)[Parent[b]], b)
      BY <2>1, <2>2
    <2> HIDE DEF R
    <2>4. chosen(b)[Parent[b]] = chosen(Parent[b])[Parent[b]]
      BY <1>1, <2>1, <2>2
    <2> QED
      BY <2>1, <2>3, <2>4
  <1> HIDE DEF R
  <1> DEFINE W(f) ==
                f = [b \in Block |-> IF b = Genesis THEN GenesisLedger ELSE Connect(f[Parent[b]], b)]
  <1>6. W(G)
    <2>1. \A b \in Block : G[b] = IF b = Genesis THEN GenesisLedger ELSE Connect(G[Parent[b]], b)
      BY <1>4, <1>5
    <2>2. G = [b \in Block |-> G[b]]
      OBVIOUS
    <2> HIDE DEF G
    <2> QED
      BY <2>1, <2>2
  <1>7. Replayed = CHOOSE f : W(f)
    BY DEF Replayed
  <1>8. W(Replayed)
    <2> HIDE DEF W, G
    <2> QED
      BY <1>6, <1>7
  <1> HIDE DEF G
  <1> QED
    BY <1>8, TreeAssumption

-----------------------------------------------------------------------------
(* One block *)

\* The tables of a node whose active chain is the branch of b.
Sound(L, b) ==
    /\ L = [main |-> Ancestors[b], accounts |-> L.accounts, undo |-> L.undo,
            snapshots |-> L.snapshots, txIndex |-> L.txIndex,
            addressIndex |-> L.addressIndex, ok |-> TRUE]
    /\ L.accounts \in [Address -> Account]
    /\ L.undo = [x \in Ancestors[b] \ {Genesis} |-> L.undo[x]]
    /\ DOMAIN L.snapshots \subseteq 0..Height[b]
    /\ L.snapshots = [h \in DOMAIN L.snapshots |-> L.snapshots[h]]
    /\ \A r \in L.txIndex \cup L.addressIndex : r.height \in 0..Height[b]
    /\ \A r, s \in L.txIndex : r.txid = s.txid => r = s
    /\ \A r \in L.txIndex :
          \/ r.txid \in Ancestors[b]
          \/ /\ r.txid \in DOMAIN Transfer
             /\ Transfer[r.txid].nonce < L.accounts[Transfer[r.txid].sender].nonce

\* What is written is what was read, and writing the previous values undoes it.
LEMMA WrittenFacts ==
    ASSUME NEW B \in [Address -> Account], NEW o \in Overlays(B)
    PROVE  /\ Written(B, o.accounts) \in [Address -> Account]
           /\ \A a \in Address : Written(B, o.accounts)[a] = Get(o, a)
           /\ Written(Written(B, o.accounts), o.previous) = B
  <1>1. /\ DOMAIN o.accounts \subseteq Address /\ o.accounts \in [DOMAIN o.accounts -> Account]
        /\ DOMAIN o.previous = DOMAIN o.accounts /\ o.base = B
        /\ \A a \in DOMAIN o.previous : o.previous[a] = B[a]
    <2>1. /\ o.accounts \in Rows /\ o.base = B /\ DOMAIN o.previous = DOMAIN o.accounts
          /\ \A a \in DOMAIN o.previous : o.previous[a] = B[a]
      BY OverlayFacts
    <2> QED
      BY <2>1, RowsOver
  <1> DEFINE W == Written(B, o.accounts)
             V == Written(W, o.previous)
  <1>2. /\ DOMAIN W = Address
        /\ \A a \in Address : W[a] = IF a \in DOMAIN o.accounts THEN o.accounts[a] ELSE B[a]
        /\ W = [a \in Address |-> W[a]]
    BY <1>1 DEF Written
  <1>3. /\ W \in [Address -> Account]
        /\ \A a \in Address : W[a] = Get(o, a)
    BY <1>1, <1>2 DEF Get
  <1> HIDE DEF W
  <1>4. /\ DOMAIN V = Address /\ V = [a \in Address |-> V[a]]
        /\ \A a \in Address : V[a] = B[a]
    BY <1>1, <1>2 DEF Written
  <1> HIDE DEF V
  <1>5. V = B
    BY <1>4
  <1> QED
    BY <1>3, <1>5 DEF W, V

\* The rows of a block's transactions.
LEMMA RowsOfBlock ==
    ASSUME NEW b \in Block
    PROVE  /\ \A r \in TxRows(b) \cup AddressRows(b) : r.height = Height[b]
           /\ \A r \in TxRows(b) : \/ r.txid = b
                                   \/ \E i \in DOMAIN BlockTxs[b] : r.txid = BlockTxs[b][i]
           /\ \A r, s \in TxRows(b) : r.txid = s.txid => r = s
  <1> DEFINE s == BlockTxs[b]
             n == Len(s)
             T == Transactions(b)
  <1>1. /\ s \in Seq(DOMAIN Transfer) /\ n \in Nat /\ DOMAIN s = 1..n
        /\ \A i, j \in 1..n : s[i] = s[j] => i = j
        /\ \A i \in 1..n : s[i] \in DOMAIN Transfer /\ s[i] # b
    BY LedgerTypes DEF IsInjective
  <1>2. DOMAIN T = 1..(n + 1) /\ T[1] = b /\ \A i \in 2..(n + 1) : T[i] = s[i - 1]
    <2>1. T = <<b>> \o s
      BY DEF Transactions
    <2> HIDE DEF s
    <2>2. s \in Seq(DOMAIN Transfer \cup {b}) /\ <<b>> \in Seq(DOMAIN Transfer \cup {b})
      BY <1>1
    <2>3. Len(<<b>>) = 1 /\ <<b>>[1] = b
      OBVIOUS
    <2> QED
      BY <1>1, <2>1, <2>2, <2>3
  <1>3. \A r \in TxRows(b) : \E i \in 1..(n + 1) :
            r = [txid |-> T[i], block |-> b, height |-> Height[b], position |-> i - 1]
    BY <1>2 DEF TxRows
  <1> HIDE DEF s, n, T
  <1>4. \A i \in 1..(n + 1) : i = 1 \/ (i \in 2..(n + 1) /\ i - 1 \in 1..n)
    BY <1>1
  <1>5. \A i, j \in 1..(n + 1) : T[i] = T[j] => i = j
    <2> TAKE i, j \in 1..(n + 1)
    <2> HAVE T[i] = T[j]
    <2>1. CASE i = 1 /\ j = 1
      BY <2>1
    <2>2. CASE i = 1 /\ j \in 2..(n + 1) /\ j - 1 \in 1..n
      BY <1>1, <1>2, <2>2
    <2>3. CASE j = 1 /\ i \in 2..(n + 1) /\ i - 1 \in 1..n
      BY <1>1, <1>2, <2>3
    <2>4. CASE i \in 2..(n + 1) /\ i - 1 \in 1..n /\ j \in 2..(n + 1) /\ j - 1 \in 1..n
      <3>1. i - 1 = j - 1
        BY <1>1, <1>2, <2>4
      <3> QED
        BY <1>1, <3>1
    <2> QED
      BY <1>4, <2>1, <2>2, <2>3, <2>4
  <1>6. \A r, q \in TxRows(b) : r.txid = q.txid => r = q
    <2> TAKE r, q \in TxRows(b)
    <2> HAVE r.txid = q.txid
    <2>1. PICK i \in 1..(n + 1) :
              r = [txid |-> T[i], block |-> b, height |-> Height[b], position |-> i - 1]
      BY <1>3
    <2>2. PICK j \in 1..(n + 1) :
              q = [txid |-> T[j], block |-> b, height |-> Height[b], position |-> j - 1]
      BY <1>3
    <2>3. i = j
      BY <1>5, <2>1, <2>2
    <2> QED
      BY <2>1, <2>2, <2>3
  <1>7. \A r \in TxRows(b) : r.txid = b \/ \E i \in DOMAIN s : r.txid = s[i]
    <2> TAKE r \in TxRows(b)
    <2>1. PICK i \in 1..(n + 1) :
              r = [txid |-> T[i], block |-> b, height |-> Height[b], position |-> i - 1]
      BY <1>3
    <2> QED
      BY <1>1, <1>2, <1>4, <2>1
  <1>8. \A r \in TxRows(b) : r.height = Height[b]
    BY <1>3
  <1>9. \A r \in AddressRows(b) : r.height = Height[b]
    BY <1>8 DEF AddressRows
  <1> QED
    BY <1>6, <1>7, <1>8, <1>9 DEF s

\* The matured reward moves no nonce.
LEMMA MaturedFacts ==
    ASSUME NEW b \in Block, b # Genesis, NEW L, Sound(L, Parent[b])
    PROVE  /\ Matured(L, Height[b]) \in Overlays(L.accounts)
           /\ \A a \in Address : Get(Matured(L, Height[b]), a).nonce = L.accounts[a].nonce
  <1> DEFINE p == Parent[b]
             due == Height[b] - CoinbaseMaturity
             start == Overlay(L.accounts)
  <1>1. /\ p \in Block /\ Height[b] = Height[p] + 1 /\ Height[p] \in Nat /\ Height[b] \in Nat
        /\ CoinbaseMaturity \in Nat /\ CoinbaseMaturity >= 1
    BY TreeAssumption, BlockFacts, ParamsAssumption
  <1>2. L.main = Ancestors[p] /\ L.accounts \in [Address -> Account]
    BY DEF Sound
  <1>3. start \in Overlays(L.accounts) /\ \A a \in Address : Get(start, a) = L.accounts[a]
    BY <1>2, NewOverlay
  <1>4. CASE due >= 0
    <2>1. due \in 0..Height[p]
      BY <1>1, <1>4
    <2>2. MainBlock(L, due) = At(p, due)
      BY <1>2 DEF MainBlock, At
    <2>3. MainBlock(L, due) \in Block
      BY <1>1, <2>1, <2>2, AtHeight
    <2>4. Coinbase[MainBlock(L, due)] \in Output
      BY <2>3, LedgerTypes
    <2>5. Matured(L, Height[b]) = Credit(start, Coinbase[MainBlock(L, due)])
      BY <1>4 DEF Matured
    <2> HIDE DEF start, due
    <2> QED
      BY <1>2, <1>3, <2>4, <2>5, CreditFacts
  <1>5. CASE ~(due >= 0)
    <2>1. Matured(L, Height[b]) = start
      BY <1>5 DEF Matured
    <2> QED
      BY <1>3, <2>1
  <1> QED
    BY <1>4, <1>5

\* A block that is applied leaves sound tables, and undoing it takes back
\* everything: balances, undo row, snapshot and the rows of both indexes.
LEMMA ConnectFacts ==
    ASSUME NEW b \in Block, b # Genesis, NEW L, Sound(L, Parent[b]), Connect(L, b).ok
    PROVE  Sound(Connect(L, b), b) /\ Disconnect(Connect(L, b)) = L
  <1> DEFINE p == Parent[b]
             B == L.accounts
             m == Matured(L, Height[b])
             o == Fold(ApplyTransfer, m, BlockTxs[b])
             balances == Written(B, o.accounts)
             snaps == IF IsSnapshotPoint(Height[b])
                      THEN Inserted(L.snapshots, Height[b], balances) ELSE L.snapshots
             undone == Inserted(L.undo, b, o.previous)
             C == Connect(L, b)
  <1>1. /\ p \in Block /\ Height[b] = Height[p] + 1 /\ Height[p] \in Nat /\ Height[b] \in Nat
        /\ Ancestors[b] = {b} \cup Ancestors[p] /\ b \notin Ancestors[p]
        /\ Ancestors[p] \subseteq Block
    BY TreeAssumption, BlockFacts, AncestorsStep, AncestorsBelow, AncestorsSelf
  <1>2. /\ B \in [Address -> Account]
        /\ L = [main |-> Ancestors[p], accounts |-> B, undo |-> L.undo,
                snapshots |-> L.snapshots, txIndex |-> L.txIndex,
                addressIndex |-> L.addressIndex, ok |-> TRUE]
        /\ L.undo = [x \in Ancestors[p] \ {Genesis} |-> L.undo[x]]
        /\ DOMAIN L.snapshots \subseteq 0..Height[p]
        /\ L.snapshots = [h \in DOMAIN L.snapshots |-> L.snapshots[h]]
        /\ \A r \in L.txIndex \cup L.addressIndex : r.height \in 0..Height[p]
        /\ \A r, s \in L.txIndex : r.txid = s.txid => r = s
        /\ \A r \in L.txIndex :
              \/ r.txid \in Ancestors[p]
              \/ /\ r.txid \in DOMAIN Transfer
                 /\ Transfer[r.txid].nonce < B[Transfer[r.txid].sender].nonce
    BY DEF Sound
  <1>3. /\ o.ok
        /\ C = [main |-> L.main \cup {b}, accounts |-> balances, undo |-> undone,
                snapshots |-> snaps, txIndex |-> L.txIndex \cup TxRows(b),
                addressIndex |-> L.addressIndex \cup AddressRows(b), ok |-> TRUE]
    <2>1. ~[L EXCEPT !.ok = FALSE].ok
      BY <1>2
    <2> QED
      BY <2>1 DEF Connect
  <1>4. BlockTxs[b] \in Seq(DOMAIN Transfer)
    BY LedgerTypes
  <1>5. /\ m \in Overlays(B) /\ \A a \in Address : Get(m, a).nonce = B[a].nonce
    BY MaturedFacts
  <1> HIDE DEF m, B
  <1>6. /\ o \in Overlays(B)
        /\ \A a \in Address : B[a].nonce <= Get(o, a).nonce
        /\ \A i \in DOMAIN BlockTxs[b] :
              LET t == BlockTxs[b][i]
              IN  /\ B[Transfer[t].sender].nonce <= Transfer[t].nonce
                  /\ Transfer[t].nonce < Get(o, Transfer[t].sender).nonce
    <2>1. /\ o \in Overlays(B)
          /\ \A a \in Address : Get(m, a).nonce <= Get(o, a).nonce
          /\ \A i \in DOMAIN BlockTxs[b] :
                LET t == BlockTxs[b][i]
                IN  /\ Get(m, Transfer[t].sender).nonce <= Transfer[t].nonce
                    /\ Transfer[t].nonce < Get(o, Transfer[t].sender).nonce
      BY <1>2, <1>3, <1>4, <1>5, TransfersFacts
    <2>2. \A i \in DOMAIN BlockTxs[b] : Transfer[BlockTxs[b][i]].sender \in Address
      <3>1. \A i \in DOMAIN BlockTxs[b] : BlockTxs[b][i] \in DOMAIN Transfer
        BY <1>4
      <3> QED
        BY <3>1, LedgerTypes
    <2> QED
      BY <1>5, <2>1, <2>2
  <1> HIDE DEF o
  <1>7. /\ balances \in [Address -> Account]
        /\ \A a \in Address : balances[a] = Get(o, a)
        /\ Written(balances, o.previous) = B
    BY <1>2, <1>6, WrittenFacts
  <1> HIDE DEF balances
  <1>20. /\ b \notin DOMAIN L.undo /\ undone = Put(L.undo, b, o.previous)
        /\ Height[b] \notin DOMAIN L.snapshots
        /\ snaps = IF IsSnapshotPoint(Height[b])
                   THEN Put(L.snapshots, Height[b], balances) ELSE L.snapshots
    <2>1. DOMAIN L.undo = Ancestors[p] \ {Genesis}
      BY <1>2
    <2>2. b \notin DOMAIN L.undo /\ Height[b] \notin DOMAIN L.snapshots
      BY <1>1, <1>2, <2>1
    <2> QED
      BY <2>2 DEF Inserted
  <1>8. /\ DOMAIN undone = Ancestors[b] \ {Genesis} /\ undone[b] = o.previous
        /\ undone = [x \in Ancestors[b] \ {Genesis} |-> undone[x]]
        /\ [x \in DOMAIN undone \ {b} |-> undone[x]] = L.undo
    <2>1. DOMAIN L.undo = Ancestors[p] \ {Genesis}
      BY <1>2
    <2>2. /\ DOMAIN undone = Ancestors[b] \ {Genesis} /\ undone[b] = o.previous
          /\ \A x \in DOMAIN L.undo : undone[x] = L.undo[x]
          /\ undone = [x \in DOMAIN undone |-> undone[x]]
      BY <1>20, <1>1, <2>1 DEF Put
    <2> HIDE DEF undone
    <2>3. DOMAIN undone \ {b} = Ancestors[p] \ {Genesis}
      BY <1>1, <2>2
    <2> QED
      BY <1>2, <2>1, <2>2, <2>3
  <1>9. /\ DOMAIN snaps \subseteq 0..Height[b]
        /\ snaps = [h \in DOMAIN snaps |-> snaps[h]]
        /\ [h \in DOMAIN snaps \ {Height[b]} |-> snaps[h]] = L.snapshots
    <2>1. /\ Height[b] \notin DOMAIN L.snapshots /\ DOMAIN L.snapshots \subseteq 0..Height[b]
          /\ Height[b] \in 0..Height[b]
      BY <1>1, <1>2
    <2>2. CASE IsSnapshotPoint(Height[b])
      <3>1. snaps = Put(L.snapshots, Height[b], balances)
        BY <1>20, <2>2
      <3>2. /\ DOMAIN snaps = DOMAIN L.snapshots \cup {Height[b]}
            /\ \A h \in DOMAIN L.snapshots : snaps[h] = L.snapshots[h]
            /\ snaps = [h \in DOMAIN snaps |-> snaps[h]]
        BY <2>1, <3>1 DEF Put
      <3> HIDE DEF snaps
      <3>3. DOMAIN snaps \ {Height[b]} = DOMAIN L.snapshots
        BY <2>1, <3>2
      <3> QED
        BY <1>2, <2>1, <3>2, <3>3
    <2>3. CASE ~IsSnapshotPoint(Height[b])
      <3>1. snaps = L.snapshots
        BY <1>20, <2>3
      <3>2. DOMAIN snaps \ {Height[b]} = DOMAIN snaps
        BY <2>1, <3>1
      <3> HIDE DEF snaps
      <3> QED
        BY <1>2, <2>1, <3>1, <3>2
    <2> QED
      BY <2>2, <2>3
  <1> HIDE DEF undone, snaps, C
  <1>10. C.main = Ancestors[b]
    BY <1>1, <1>2, <1>3
  <1>11. /\ \A r \in TxRows(b) \cup AddressRows(b) : r.height = Height[b]
         /\ \A r \in TxRows(b) : \/ r.txid = b
                                 \/ \E i \in DOMAIN BlockTxs[b] : r.txid = BlockTxs[b][i]
         /\ \A r, s \in TxRows(b) : r.txid = s.txid => r = s
    BY RowsOfBlock
  <1>12. \A r \in C.txIndex \cup C.addressIndex : r.height \in 0..Height[b]
    BY <1>1, <1>2, <1>3, <1>11
  <1>13. \A t \in DOMAIN Transfer :
            /\ Transfer[t].sender \in Address /\ Transfer[t].nonce \in Nat
            /\ t \notin Block
            /\ B[Transfer[t].sender].nonce \in Nat /\ balances[Transfer[t].sender].nonce \in Nat
    BY <1>2, <1>7, LedgerTypes DEF Account
  <1>14. ASSUME NEW i \in DOMAIN BlockTxs[b]
         PROVE  /\ BlockTxs[b][i] \in DOMAIN Transfer
                /\ B[Transfer[BlockTxs[b][i]].sender].nonce <= Transfer[BlockTxs[b][i]].nonce
                /\ Transfer[BlockTxs[b][i]].nonce
                      < balances[Transfer[BlockTxs[b][i]].sender].nonce
    <2>1. BlockTxs[b][i] \in DOMAIN Transfer
      BY <1>4
    <2> QED
      BY <1>6, <1>7, <1>13, <2>1
  <1>15. ASSUME NEW r \in L.txIndex, NEW s \in TxRows(b) PROVE r.txid # s.txid
    <2>1. CASE s.txid = b
      BY <1>1, <1>2, <1>13, <2>1
    <2>2. ASSUME NEW i \in DOMAIN BlockTxs[b], s.txid = BlockTxs[b][i] PROVE r.txid # s.txid
      <3>1. s.txid \in DOMAIN Transfer /\ s.txid \notin Block
            /\ B[Transfer[s.txid].sender].nonce <= Transfer[s.txid].nonce
        BY <1>13, <1>14, <2>2
      <3>2. CASE r.txid \in Ancestors[p]
        BY <1>1, <3>1, <3>2
      <3>3. CASE /\ r.txid \in DOMAIN Transfer
                 /\ Transfer[r.txid].nonce < B[Transfer[r.txid].sender].nonce
        <4> SUFFICES ASSUME r.txid = s.txid PROVE FALSE
          OBVIOUS
        <4>1. /\ Transfer[s.txid].nonce < B[Transfer[s.txid].sender].nonce
              /\ Transfer[s.txid].nonce \in Nat /\ B[Transfer[s.txid].sender].nonce \in Nat
          BY <1>13, <3>1, <3>3
        <4> QED
          BY <3>1, <4>1
      <3> QED
        BY <1>2, <3>2, <3>3
    <2> QED
      BY <1>11, <2>1, <2>2
  <1>16. \A r, s \in C.txIndex : r.txid = s.txid => r = s
    <2>1. C.txIndex = L.txIndex \cup TxRows(b)
      BY <1>3
    <2> QED
      BY <1>2, <1>11, <1>15, <2>1
  <1>17. ASSUME NEW r \in C.txIndex
         PROVE  \/ r.txid \in Ancestors[b]
                \/ /\ r.txid \in DOMAIN Transfer
                   /\ Transfer[r.txid].nonce < balances[Transfer[r.txid].sender].nonce
    <2>1. C.txIndex = L.txIndex \cup TxRows(b)
      BY <1>3
    <2>2. CASE r \in TxRows(b)
      BY <1>1, <1>11, <1>14, <2>2
    <2>3. CASE r \in L.txIndex /\ r.txid \in Ancestors[p]
      BY <1>1, <2>3
    <2>4. CASE /\ r \in L.txIndex /\ r.txid \in DOMAIN Transfer
               /\ Transfer[r.txid].nonce < B[Transfer[r.txid].sender].nonce
      <3> DEFINE a == Transfer[r.txid].sender
      <3>1. a \in Address /\ Transfer[r.txid].nonce \in Nat /\ B[a].nonce \in Nat
            /\ balances[a].nonce \in Nat
        BY <1>13, <2>4
      <3>2. B[a].nonce <= balances[a].nonce
        BY <1>6, <1>7, <3>1
      <3> QED
        BY <2>4, <3>1, <3>2
    <2> QED
      BY <1>2, <2>1, <2>2, <2>3, <2>4
  <1>18. Sound(C, b)
    <2>1. /\ C.accounts = balances /\ C.undo = undone /\ C.snapshots = snaps
          /\ C = [main |-> Ancestors[b], accounts |-> C.accounts, undo |-> C.undo,
                  snapshots |-> C.snapshots, txIndex |-> C.txIndex,
                  addressIndex |-> C.addressIndex, ok |-> TRUE]
      BY <1>3, <1>10
    <2> QED
      BY <1>7, <1>8, <1>9, <1>12, <1>16, <1>17, <2>1, Zenon DEF Sound
  <1>19. Disconnect(C) = L
    <2>1. Top(C) = b
      BY <1>10, HighestAncestor DEF Top
    <2>2. C.main \ {b} = L.main
      BY <1>1, <1>2, <1>10
    <2>3. Written(C.accounts, C.undo[b]) = B
      BY <1>3, <1>7, <1>8
    <2>4. [x \in DOMAIN C.undo \ {b} |-> C.undo[x]] = L.undo
      BY <1>3, <1>8
    <2>5. [h \in DOMAIN C.snapshots \ {Height[b]} |-> C.snapshots[h]] = L.snapshots
      BY <1>3, <1>9
    <2>6. {r \in C.txIndex : r.height # Height[b]} = L.txIndex
      BY <1>1, <1>2, <1>3, <1>11
    <2>7. {r \in C.addressIndex : r.height # Height[b]} = L.addressIndex
      BY <1>1, <1>2, <1>3, <1>11
    <2>8. C.ok = TRUE
      BY <1>3
    <2>9. Disconnect(C)
             = [main |-> C.main \ {b},
                accounts |-> Written(C.accounts, C.undo[b]),
                undo |-> [x \in DOMAIN C.undo \ {b} |-> C.undo[x]],
                snapshots |-> [h \in DOMAIN C.snapshots \ {Height[b]} |-> C.snapshots[h]],
                txIndex |-> {r \in C.txIndex : r.height # Height[b]},
                addressIndex |-> {r \in C.addressIndex : r.height # Height[b]},
                ok |-> C.ok]
      BY <2>1, Zenon DEF Disconnect
    <2>10. Disconnect(C)
             = [main |-> L.main, accounts |-> B, undo |-> L.undo,
                snapshots |-> L.snapshots, txIndex |-> L.txIndex,
                addressIndex |-> L.addressIndex, ok |-> TRUE]
      BY <2>2, <2>3, <2>4, <2>5, <2>6, <2>7, <2>8, <2>9, Zenon
    <2> QED
      BY <1>2, <2>10
  <1> QED
    BY <1>18, <1>19 DEF C

\* Induction up the tree, over a set of blocks.
LEMMA UpTheTree ==
    ASSUME NEW S, Genesis \in S,
           \A b \in Block \ {Genesis} : Parent[b] \in S => b \in S
    PROVE  Block \subseteq S
  <1> DEFINE Hs == {Height[b] : b \in Block \ S}
  <1> SUFFICES ASSUME Block \ S # {} PROVE FALSE
    OBVIOUS
  <1>1. Hs \in SUBSET Nat /\ Hs # {}
    BY BlockFacts
  <1>2. PICK m \in Hs : \A k \in Hs : m <= k
    <2> HIDE DEF Hs
    <2> QED
      BY <1>1, LeastNumber
  <1>3. PICK b \in Block \ S : \A c \in Block \ S : Height[b] <= Height[c]
    BY <1>2
  <1>4. Parent[b] \in Block /\ Height[b] = Height[Parent[b]] + 1 /\ Height[Parent[b]] \in Nat
    BY TreeAssumption, BlockFacts
  <1>5. Parent[b] \in S
    BY <1>3, <1>4
  <1> QED
    BY <1>5

\* The tables of a new node.
LEMMA GenesisSound == Sound(GenesisLedger, Genesis)
  <1> DEFINE L == GenesisLedger
  <1>1. /\ L.main = {Genesis} /\ L.accounts = [a \in Address |-> EmptyAccount]
        /\ L.undo = <<>> /\ L.snapshots = <<>> /\ L.ok = TRUE
        /\ L.txIndex = TxRows(Genesis) /\ L.addressIndex = AddressRows(Genesis)
        /\ L = [main |-> L.main, accounts |-> L.accounts, undo |-> L.undo,
                snapshots |-> L.snapshots, txIndex |-> L.txIndex,
                addressIndex |-> L.addressIndex, ok |-> TRUE]
    BY DEF GenesisLedger
  <1>2. Genesis \in Block /\ Height[Genesis] = 0 /\ Ancestors[Genesis] = {Genesis}
    BY TreeAssumption, AncestorsGenesis
  <1>3. L.accounts \in [Address -> Account]
    BY <1>1, LedgerTypes DEF EmptyAccount, Account
  <1>4. Ancestors[Genesis] \ {Genesis} = {}
    BY <1>2
  <1>5. \A S : S = {} => <<>> = [x \in S |-> <<>>[x]]
    OBVIOUS
  <1>6. L.undo = [x \in Ancestors[Genesis] \ {Genesis} |-> L.undo[x]]
    <2>1. \A x : x \in {} => FALSE
      OBVIOUS
    <2> QED
      BY <1>1, <1>4, <1>5, <2>1
  <1>7. DOMAIN L.snapshots = {} /\ L.snapshots = [h \in DOMAIN L.snapshots |-> L.snapshots[h]]
    BY <1>1
  <1>8. /\ \A r \in L.txIndex \cup L.addressIndex : r.height \in 0..Height[Genesis]
        /\ \A r, s \in L.txIndex : r.txid = s.txid => r = s
    BY <1>1, <1>2, RowsOfBlock
  <1>9. \A r \in L.txIndex : r.txid = Genesis
    BY <1>1, <1>2, RowsOfBlock, LedgerTypes
  <1> QED
    BY <1>1, <1>2, <1>3, <1>6, <1>7, <1>8, <1>9 DEF Sound

\* Every block that is accepted has sound tables, and undoing it leads to its
\* parent's; no block is accepted on top of one that is not.
LEMMA ReplayedFacts ==
    ASSUME NEW b \in Block, Replayed[b].ok
    PROVE  /\ Sound(Replayed[b], b)
           /\ b # Genesis => /\ Replayed[Parent[b]].ok
                             /\ Disconnect(Replayed[b]) = Replayed[Parent[b]]
  <1> DEFINE S == {x \in Block : /\ "ok" \in DOMAIN Replayed[x]
                                 /\ Replayed[x].ok => Sound(Replayed[x], x)}
  <1>1. ASSUME NEW x \in Block \ {Genesis}, "ok" \in DOMAIN Replayed[Parent[x]],
               Replayed[x].ok
        PROVE  Replayed[Parent[x]].ok
    <2> SUFFICES ASSUME ~Replayed[Parent[x]].ok PROVE FALSE
      OBVIOUS
    <2>1. Replayed[x] = Connect(Replayed[Parent[x]], x)
      BY ReplayedStep
    <2>2. Connect(Replayed[Parent[x]], x) = [Replayed[Parent[x]] EXCEPT !.ok = FALSE]
      BY Zenon DEF Connect
    <2>3. [Replayed[Parent[x]] EXCEPT !.ok = FALSE].ok = FALSE
      BY <1>1
    <2> QED
      BY <1>1, <2>1, <2>2, <2>3
  <1>2. Genesis \in S
    <2>1. Replayed[Genesis] = GenesisLedger
      BY ReplayedStep
    <2>2. "ok" \in DOMAIN GenesisLedger
      BY DEF GenesisLedger
    <2> QED
      BY <2>1, <2>2, GenesisSound, TreeAssumption
  <1>3. ASSUME NEW x \in Block \ {Genesis}, Parent[x] \in S PROVE x \in S
    <2> DEFINE L == Replayed[Parent[x]]
    <2>1. Replayed[x] = Connect(L, x)
      BY ReplayedStep
    <2>2. "ok" \in DOMAIN Connect(L, x)
      <3>1. "ok" \in DOMAIN [L EXCEPT !.ok = FALSE]
        BY <1>3
      <3> HIDE DEF L
      <3> QED
        BY <3>1 DEF Connect
    <2>3. Replayed[x].ok => Sound(Replayed[x], x)
      BY <1>1, <1>3, <2>1, ConnectFacts
    <2> QED
      BY <2>1, <2>2, <2>3
  <1> HIDE DEF S
  <1>4. Block \subseteq S
    BY <1>2, <1>3, UpTheTree
  <1> USE DEF S
  <1>5. b # Genesis => /\ Replayed[Parent[b]].ok
                       /\ Disconnect(Replayed[b]) = Replayed[Parent[b]]
    <2> SUFFICES ASSUME b # Genesis
                 PROVE  /\ Replayed[Parent[b]].ok
                        /\ Disconnect(Replayed[b]) = Replayed[Parent[b]]
      OBVIOUS
    <2>1. Parent[b] \in Block /\ Replayed[b] = Connect(Replayed[Parent[b]], b)
      BY ReplayedStep, BlockFacts
    <2>2. Replayed[Parent[b]].ok
      BY <1>1, <1>4, <2>1
    <2>3. Sound(Replayed[Parent[b]], Parent[b])
      BY <1>4, <2>1, <2>2
    <2> QED
      BY <2>1, <2>2, <2>3, ConnectFacts
  <1> QED
    BY <1>4, <1>5

-----------------------------------------------------------------------------
(* Going from one branch to another *)

\* The tables whose active chain is the branch of t have t at the top.
LEMMA TopOfSound ==
    ASSUME NEW t \in Block, NEW L, Sound(L, t)
    PROVE  Top(L) = t
  <1>1. L.main = Ancestors[t]
    BY DEF Sound
  <1> QED
    BY <1>1, HighestAncestor DEF Top

\* Undoing blocks of a branch leads to the tables of the block at that height.
LEMMA RollsBack ==
    ASSUME NEW t \in Block, Replayed[t].ok, NEW h \in 0..Height[t]
    PROVE  RolledBack(Replayed[t], h) = Replayed[At(t, h)]
  <1> DEFINE n == Height[t]
             L == Replayed[t]
             W(f) == f = [k \in h..n |-> IF k = n THEN L ELSE Disconnect(f[k + 1])]
             g == [k \in h..n |-> Replayed[At(t, k)]]
  <1>1. n \in Nat /\ h \in Nat /\ h <= n /\ n \in h..n /\ h \in h..n
    BY BlockFacts
  <1>2. Top(L) = t
    BY ReplayedFacts, TopOfSound
  <1>3. RolledBack(L, h) = (CHOOSE f : W(f))[h]
    BY <1>2 DEF RolledBack
  <1>4. At(t, n) = t
    BY AncestorsSelf, AtOf
  <1> DEFINE T == {k \in Nat : k \in h..n => Replayed[At(t, k)].ok}
  <1>5. h..n \subseteq T
    <2>1. n \in T
      BY <1>1, <1>4
    <2>2. \A i \in (h + 1)..n : i \in T => i - 1 \in T
      <3> TAKE i \in (h + 1)..n
      <3> HAVE i \in T
      <3>1. i \in 1..n /\ i \in 0..n /\ i - 1 \in Nat /\ Replayed[At(t, i)].ok
        BY <1>1
      <3>2. At(t, i) \in Block /\ At(t, i) # Genesis /\ Parent[At(t, i)] = At(t, i - 1)
        BY <3>1, AtHeight, AtParent
      <3>3. Replayed[At(t, i - 1)].ok
        BY <3>1, <3>2, ReplayedFacts
      <3> QED
        BY <3>1, <3>3
    <2>3. h \in Int /\ n \in Int
      BY <1>1
    <2> HIDE DEF T, n
    <2> QED
      BY <2>1, <2>2, <2>3, DownTo
  <1>6. \A k \in h..n : Replayed[At(t, k)].ok
    BY <1>1, <1>5
  <1> HIDE DEF T
  <1>7. ASSUME NEW k \in h..n, k # n
        PROVE  k + 1 \in h..n /\ Disconnect(Replayed[At(t, k + 1)]) = Replayed[At(t, k)]
    <2>1. k + 1 \in 1..n /\ k + 1 \in 0..n /\ k + 1 \in h..n /\ (k + 1) - 1 = k
      BY <1>1, <1>7
    <2>2. At(t, k + 1) \in Block /\ At(t, k + 1) # Genesis
          /\ Parent[At(t, k + 1)] = At(t, k)
      BY <2>1, AtHeight, AtParent
    <2> QED
      BY <1>6, <2>1, <2>2, ReplayedFacts
  <1>8. W(g)
    <2>1. \A k \in h..n : g[k] = IF k = n THEN L ELSE Disconnect(g[k + 1])
      <3> TAKE k \in h..n
      <3>1. CASE k = n
        BY <1>4, <3>1
      <3>2. CASE k # n
        <4>1. g[k + 1] = Replayed[At(t, k + 1)] /\ g[k] = Replayed[At(t, k)]
          BY <1>7, <3>2
        <4> QED
          BY <1>7, <3>2, <4>1
      <3> QED
        BY <3>1, <3>2
    <2>2. g = [k \in h..n |-> g[k]]
      OBVIOUS
    <2> HIDE DEF g, n, L
    <2> QED
      BY <2>1, <2>2
  <1>9. PICK f : f = (CHOOSE x : W(x)) /\ W(f)
    <2> HIDE DEF W, g
    <2> QED
      BY <1>8
  <1> DEFINE U == {k \in Nat : k \in h..n => f[k] = Replayed[At(t, k)]}
  <1>10. h..n \subseteq U
    <2>1. n \in U
      BY <1>1, <1>4, <1>9
    <2>2. \A i \in (h + 1)..n : i \in U => i - 1 \in U
      <3> TAKE i \in (h + 1)..n
      <3> HAVE i \in U
      <3>1. i \in h..n /\ i - 1 \in h..n /\ i - 1 # n /\ i - 1 \in Nat /\ (i - 1) + 1 = i
            /\ f[i] = Replayed[At(t, i)]
        BY <1>1
      <3>2. f[i - 1] = Disconnect(f[i])
        BY <1>9, <3>1
      <3>3. Disconnect(Replayed[At(t, i)]) = Replayed[At(t, i - 1)]
        BY <1>7, <3>1
      <3> QED
        BY <3>1, <3>2, <3>3
    <2>3. h \in Int /\ n \in Int
      BY <1>1
    <2> HIDE DEF U, n
    <2> QED
      BY <2>1, <2>2, <2>3, DownTo
  <1> QED
    BY <1>1, <1>3, <1>9, <1>10

\* Applying the blocks of a branch above one of its blocks leads from that
\* block's tables to those of the branch.
LEMMA Extends ==
    ASSUME NEW b \in Block, NEW a \in Ancestors[b]
    PROVE  Extended(Replayed[a], Height[a], b) = Replayed[b]
  <1> DEFINE n == Height[b]
             h == Height[a]
             L == Replayed[a]
             W(f) == f = [k \in h..n |-> IF k = h THEN L ELSE Connect(f[k - 1], At(b, k))]
             g == [k \in h..n |-> Replayed[At(b, k)]]
  <1>1. n \in Nat /\ h \in Nat /\ h <= n /\ n \in h..n /\ h \in h..n
    BY BlockFacts, AtOf
  <1>2. Extended(L, h, b) = (CHOOSE f : W(f))[n]
    BY DEF Extended, At
  <1>3. At(b, h) = a /\ At(b, n) = b
    BY AncestorsSelf, AtOf
  <1>4. ASSUME NEW k \in h..n, k # h
        PROVE  k - 1 \in h..n /\ Connect(Replayed[At(b, k - 1)], At(b, k)) = Replayed[At(b, k)]
    <2>1. k \in 1..n /\ k \in 0..n /\ k - 1 \in h..n
      BY <1>1, <1>4
    <2>2. At(b, k) \in Block /\ At(b, k) # Genesis /\ Parent[At(b, k)] = At(b, k - 1)
      BY <2>1, AtHeight, AtParent
    <2> QED
      BY <2>1, <2>2, ReplayedStep
  <1>5. W(g)
    <2>1. \A k \in h..n : g[k] = IF k = h THEN L ELSE Connect(g[k - 1], At(b, k))
      <3> TAKE k \in h..n
      <3>1. CASE k = h
        BY <1>3, <3>1
      <3>2. CASE k # h
        <4>1. g[k - 1] = Replayed[At(b, k - 1)] /\ g[k] = Replayed[At(b, k)]
          BY <1>4, <3>2
        <4> QED
          BY <1>4, <3>2, <4>1
      <3> QED
        BY <3>1, <3>2
    <2>2. g = [k \in h..n |-> g[k]]
      OBVIOUS
    <2> HIDE DEF g, n, L, h
    <2> QED
      BY <2>1, <2>2
  <1>6. PICK f : f = (CHOOSE x : W(x)) /\ W(f)
    <2> HIDE DEF W, g
    <2> QED
      BY <1>5
  <1> DEFINE U == {k \in Nat : k \in h..n => f[k] = Replayed[At(b, k)]}
  <1>7. h..n \subseteq U
    <2>1. h \in U
      BY <1>1, <1>3, <1>6
    <2>2. \A i \in h..(n - 1) : i \in U => i + 1 \in U
      <3> TAKE i \in h..(n - 1)
      <3> HAVE i \in U
      <3>1. i \in h..n /\ i + 1 \in h..n /\ i + 1 # h /\ i + 1 \in Nat /\ (i + 1) - 1 = i
            /\ f[i] = Replayed[At(b, i)]
        BY <1>1
      <3>2. f[i + 1] = Connect(f[i], At(b, i + 1))
        BY <1>6, <3>1
      <3>3. Connect(Replayed[At(b, i)], At(b, i + 1)) = Replayed[At(b, i + 1)]
        BY <1>4, <3>1
      <3> QED
        BY <3>1, <3>2, <3>3
    <2>3. h \in Int /\ n \in Int
      BY <1>1
    <2> HIDE DEF U, n, h
    <2> QED
      BY <2>1, <2>2, <2>3, UpTo
  <1>8. f[n] = Replayed[At(b, n)]
    BY <1>1, <1>7
  <1> QED
    BY <1>2, <1>3, <1>6, <1>8

-----------------------------------------------------------------------------
(* The ledger of the active chain *)

\* The chain is as ChainManager's invariant says, and the tables are its replay.
LedgerInv == IInv /\ LedgerIsReplay

LEMMA GenesisBelow ==
    ASSUME NEW b \in Block
    PROVE  Genesis \in Ancestors[b]
  <1>1. Height[b] \in Nat /\ 0 \in 0..Height[b]
    BY BlockFacts
  <1>2. At(b, 0) \in Ancestors[b] /\ At(b, 0) \in Block /\ Height[At(b, 0)] = 0
    BY <1>1, AtHeight
  <1>3. At(b, 0) = Genesis
    <2> SUFFICES ASSUME At(b, 0) # Genesis PROVE FALSE
      OBVIOUS
    <2>1. Height[At(b, 0)] = Height[Parent[At(b, 0)]] + 1 /\ Height[Parent[At(b, 0)]] \in Nat
      BY <1>2, TreeAssumption, BlockFacts
    <2> QED
      BY <1>2, <2>1
  <1> QED
    BY <1>2, <1>3

\* What the invariant says of the tables.
LEMMA TablesFacts ==
    ASSUME AcceptsIsReplay, LedgerInv
    PROVE  /\ Tip \in Block /\ main = Ancestors[Tip] /\ main \subseteq Accepts
           /\ Tip \in Accepts /\ TipHeight = Height[Tip]
           /\ Tables = Replayed[Tip] /\ Replayed[Tip].ok /\ Sound(Tables, Tip)
  <1>1. Tip \in Block /\ main = Ancestors[Tip] /\ main \subseteq Accepts /\ Tip \in main
    BY MainFacts DEF LedgerInv, IInv, ChainInv
  <1>2. Tables = Replayed[Tip]
    BY DEF LedgerInv, LedgerIsReplay
  <1>3. Replayed[Tip].ok
    BY <1>1 DEF AcceptsIsReplay
  <1> QED
    BY <1>1, <1>2, <1>3, ReplayedFacts DEF TipHeight

\* Where the branch of a block leaves the active chain.
LEMMA ForkFacts ==
    ASSUME IInv, NEW b \in Block
    PROVE  \E c \in Ancestors[b] \cap main : ForkHeight(b) = Height[c]
  <1> DEFINE Shared == Ancestors[b] \cap main
             P(a) == \A x \in Shared : Height[x] <= Height[a]
             Hs == {Height[x] : x \in Shared}
  <1>1. Genesis \in Shared
    BY GenesisBelow DEF IInv, ChainInv
  <1>2. \A x \in Shared : Height[x] \in 0..Height[b] /\ Height[x] \in Nat
    BY AtOf, AncestorsSelf, BlockFacts
  <1>3. Height[b] \in Int
    BY BlockFacts
  <1> HIDE DEF Shared
  <1>4. Hs \in SUBSET Int /\ Hs # {} /\ \A h \in Hs : h <= Height[b]
    BY <1>1, <1>2, <1>3
  <1>5. PICK m \in Hs : \A h \in Hs : h <= m
    <2> HIDE DEF Hs
    <2> QED
      BY <1>3, <1>4, GreatestNumber
  <1>6. \E a \in Shared : P(a)
    BY <1>5
  <1>7. ForkHeight(b) = Height[CHOOSE a \in Shared : P(a)]
    BY DEF ForkHeight, Shared
  <1> HIDE DEF P
  <1>8. (CHOOSE a \in Shared : P(a)) \in Shared
    BY <1>6
  <1> QED
    BY <1>7, <1>8 DEF Shared

\* A switch, whatever it has to undo, makes the tables those of the new branch.
LEMMA SwitchIsReplay ==
    ASSUME AcceptsIsReplay, LedgerInv, cur \in Block
    PROVE  Switched = Replayed[cur]
  <1>1. /\ Tip \in Block /\ main = Ancestors[Tip]
        /\ Tables = Replayed[Tip] /\ Replayed[Tip].ok
    BY TablesFacts
  <1>2. PICK c \in Ancestors[cur] \cap main : ForkHeight(cur) = Height[c]
    BY ForkFacts DEF LedgerInv
  <1>3. Height[c] \in 0..Height[Tip] /\ At(Tip, Height[c]) = c
    BY <1>1, AtOf
  <1>4. RolledBack(Replayed[Tip], Height[c]) = Replayed[c]
    BY <1>1, <1>3, RollsBack
  <1>5. Extended(Replayed[c], Height[c], cur) = Replayed[cur]
    BY Extends
  <1> QED
    BY <1>1, <1>2, <1>4, <1>5 DEF Switched

\* So does an import, whose chunk is on the active chain or continues it.
LEMMA ImportIsReplay ==
    ASSUME AcceptsIsReplay, LedgerInv, cur \in Block, Continues(cur)
    PROVE  \/ Chunk(cur) \subseteq main /\ Imported = Tables
           \/ /\ ~(Chunk(cur) \subseteq main)
              /\ main \cup Chunk(cur) = Ancestors[cur] /\ Imported = Replayed[cur]
  <1>1. Tip \in Block /\ main = Ancestors[Tip] /\ Tables = Replayed[Tip] /\ TipHeight = Height[Tip]
    BY TablesFacts
  <1>2. CASE Chunk(cur) \subseteq main
    BY <1>2 DEF Imported
  <1>3. CASE ~(Chunk(cur) \subseteq main)
    <2>1. main \cup Chunk(cur) = Ancestors[cur] /\ Tip \in Ancestors[cur]
      BY <1>3, ContinuedChain DEF LedgerInv
    <2>2. Extended(Replayed[Tip], Height[Tip], cur) = Replayed[cur]
      BY <2>1, Extends
    <2> QED
      BY <1>1, <1>3, <2>1, <2>2 DEF Imported
  <1> QED
    BY <1>2, <1>3

\* What apply_block decides is what the constant Accepts says.
LEMMA LocalAcceptance ==
    ASSUME AcceptsIsReplay, LedgerInv
    PROVE  AcceptanceIsLocal
  <1>1. /\ Tip \in Block /\ main = Ancestors[Tip] /\ main \subseteq Accepts
        /\ Tables.ok = TRUE
    BY TablesFacts DEF Tables
  <1>2. \A b \in Block : Replayed[b].ok <=> b \in Accepts
    BY DEF AcceptsIsReplay
  <1>3. \A b \in Accepts : b \in Block /\ Ancestors[b] \subseteq Accepts
    BY AncestorsAccepted, ChecksAssumption
  <1>4. ASSUME pc = "switch"
        PROVE  Switched.ok <=> Branch(cur) \subseteq Accepts
    <2>1. cur \in Block
      BY <1>4 DEF LedgerInv, IInv, CallInv
    <2>2. Switched = Replayed[cur] /\ cur \in Ancestors[cur]
      BY <2>1, SwitchIsReplay, AncestorsSelf
    <2>3. Branch(cur) \subseteq Accepts <=> cur \in Accepts
      BY <1>1, <1>3, <2>2 DEF Branch
    <2> QED
      BY <1>2, <2>1, <2>2, <2>3
  <1>5. ASSUME pc = "importTx", Continues(cur)
        PROVE  Imported.ok <=> Chunk(cur) \subseteq Accepts
    <2>1. cur \in Block
      BY <1>5 DEF LedgerInv, IInv, CallInv
    <2>2. CASE Chunk(cur) \subseteq main /\ Imported = Tables
      BY <1>1, <2>2
    <2>3. CASE Imported = Replayed[cur]
      <3>1. cur \in Chunk(cur) /\ Chunk(cur) \subseteq Ancestors[cur]
        BY <2>1, AncestorsSelf, BlockFacts, ParamsAssumption DEF Chunk
      <3> QED
        BY <1>2, <1>3, <2>1, <2>3, <3>1
    <2> QED
      BY <1>5, <2>1, <2>2, <2>3, ImportIsReplay
  <1> QED
    BY <1>4, <1>5 DEF AcceptanceIsLocal

\* The active chain changes in the two steps that change the tables.
LEMMA SameMain ==
    ASSUME \/ BeginCall \/ QuietStep \/ CrashLedger \/ UNCHANGED lvars
           \/ (SwitchFails /\ UNCHANGED ledgerVars)
           \/ (ImportFails /\ UNCHANGED ledgerVars)
    PROVE  main' = main /\ UNCHANGED ledgerVars
  <1>1. CASE BeginCall
    BY <1>1 DEF BeginCall, SubmitBlock, SubmitOneWithoutStoring, SubmitOneRaises,
                SubmitOneStores, ImportChunk, storeVars
  <1>2. CASE QuietStep
    <2>1. UNCHANGED ledgerVars
      BY <1>2 DEF QuietStep
    <2>2. CASE StoreBlock
      BY <2>1, <2>2 DEF StoreBlock
    <2>3. CASE MarkInvalid
      BY <2>1, <2>3 DEF MarkInvalid
    <2>4. CASE AdoptChild
      BY <2>1, <2>4 DEF AdoptChild, SubmitOneWithoutStoring, SubmitOneRaises, SubmitOneStores,
                        storeVars
    <2>5. CASE PopWaiting
      BY <2>1, <2>5 DEF PopWaiting, storeVars
    <2>6. CASE SealFile \/ SealCommit \/ TidyFiles
      BY <2>1, <2>6 DEF SealFile, SealCommit, TidyFiles
    <2>7. CASE SealDone
      BY <2>1, <2>7 DEF SealDone, storeVars
    <2> QED
      BY <1>2, <2>1, <2>2, <2>3, <2>4, <2>5, <2>6, <2>7 DEF QuietStep
  <1>3. CASE CrashLedger
    BY <1>3 DEF CrashLedger, Crash
  <1>4. CASE UNCHANGED lvars
    BY <1>4 DEF lvars, vars, storeVars
  <1>5. CASE SwitchFails /\ UNCHANGED ledgerVars
    BY <1>5 DEF SwitchFails
  <1>6. CASE ImportFails /\ UNCHANGED ledgerVars
    BY <1>6 DEF ImportFails
  <1> QED
    BY <1>1, <1>2, <1>3, <1>4, <1>5, <1>6

\* Committing sound tables, with their active chain.
LEMMA CommitReplay ==
    ASSUME NEW t \in Block, Replayed[t].ok, main' = Ancestors[t], Commit(Replayed[t])
    PROVE  LedgerIsReplay'
  <1>1. Tip' = t
    BY TipOfNextBranch
  <1> DEFINE L == Replayed[t]
  <1>2. L = [main |-> Ancestors[t], accounts |-> L.accounts, undo |-> L.undo,
             snapshots |-> L.snapshots, txIndex |-> L.txIndex,
             addressIndex |-> L.addressIndex, ok |-> TRUE]
    BY ReplayedFacts DEF Sound
  <1>3. Tables' = [main |-> Ancestors[t], accounts |-> L.accounts, undo |-> L.undo,
                   snapshots |-> L.snapshots, txIndex |-> L.txIndex,
                   addressIndex |-> L.addressIndex, ok |-> TRUE]
    BY DEF Tables, Commit
  <1> QED
    BY <1>1, <1>2, <1>3, Zenon DEF LedgerIsReplay

LEMMA LedgerInit ==
    ASSUME LInit
    PROVE  LedgerInv
  <1>1. IInv /\ main = {Genesis} /\ Genesis \in Block
    BY InitInv, TreeAssumption DEF LInit, Init, StoreInit
  <1>2. Tip = Genesis
    BY <1>1, AncestorsGenesis, TipOfBranch
  <1>3. Tables = GenesisLedger
    BY <1>1 DEF LInit, Tables, GenesisLedger
  <1> QED
    BY <1>1, <1>2, <1>3, ReplayedStep DEF LedgerInv, LedgerIsReplay

LEMMA LedgerNext ==
    ASSUME AcceptsIsReplay, LedgerInv, [LNext]_lvars
    PROVE  LedgerInv'
  <1>0. IInv'
    <2>1. [Next]_vars
      BY LocalAcceptance, LedgerStep
    <2> QED
      BY <2>1, NextInv DEF LedgerInv
  <1>1. CASE \/ BeginCall \/ QuietStep \/ CrashLedger \/ UNCHANGED lvars
             \/ (SwitchFails /\ UNCHANGED ledgerVars)
             \/ (ImportFails /\ UNCHANGED ledgerVars)
    <2>1. main' = main /\ UNCHANGED ledgerVars
      BY <1>1, SameMain
    <2>2. Tip' = Tip /\ Tables' = Tables
      BY <2>1 DEF Tip, Tables, ledgerVars
    <2> QED
      BY <1>0, <2>2 DEF LedgerInv, LedgerIsReplay
  <1>2. CASE pc = "switch" /\ Switched.ok /\ SwitchApplies /\ Commit(Switched)
    <2>1. IInv /\ cur \in Block /\ FinalityOk(cur)
      BY <1>2 DEF LedgerInv, IInv, CallInv
    <2>2. Switched = Replayed[cur]
      BY <2>1, SwitchIsReplay
    <2>3. main' = Ancestors[cur]
      BY <1>2, <2>1, SwitchedChain DEF SwitchApplies
    <2> QED
      BY <1>0, <1>2, <2>1, <2>2, <2>3, CommitReplay DEF LedgerInv
  <1>3. CASE pc = "importTx" /\ Continues(cur) /\ Imported.ok /\ ImportApplies /\ Commit(Imported)
    <2>1. cur \in Block
      BY <1>3 DEF LedgerInv, IInv, CallInv
    <2>2. main' = main \cup Chunk(cur)
      BY <1>3 DEF ImportApplies
    <2>3. /\ Tip \in Block /\ main = Ancestors[Tip]
          /\ Tables = Replayed[Tip] /\ Replayed[Tip].ok
      BY TablesFacts
    <2>4. CASE Chunk(cur) \subseteq main /\ Imported = Tables
      <3>1. main' = Ancestors[Tip] /\ Commit(Replayed[Tip])
        BY <1>3, <2>2, <2>3, <2>4
      <3>2. PICK t \in Block : t = Tip
        BY <2>3
      <3> QED
        BY <1>0, <2>3, <3>1, <3>2, CommitReplay DEF LedgerInv
    <2>5. CASE main \cup Chunk(cur) = Ancestors[cur] /\ Imported = Replayed[cur]
      <3>1. PICK t \in Block : t = cur
        BY <2>1
      <3> QED
        BY <1>0, <1>3, <2>2, <2>5, <3>1, CommitReplay DEF LedgerInv
    <2> QED
      BY <1>3, <2>1, <2>4, <2>5, ImportIsReplay
  <1> QED
    BY <1>1, <1>2, <1>3 DEF LNext, ContinueCall, SwitchLedger, ImportLedger

\* For every block tree, all transfers, addresses, rewards and settings: the
\* invariant of the chain holds with real balances, and the tables are always
\* those of a node that has only applied the blocks of the active chain.
LEMMA LedgerInvariant == AcceptsIsReplay => (LSpec => []LedgerInv)
  <1> SUFFICES ASSUME AcceptsIsReplay PROVE LSpec => []LedgerInv
    OBVIOUS
  <1>1. LInit => LedgerInv
    BY LedgerInit
  <1>2. LedgerInv /\ [LNext]_lvars => LedgerInv'
    BY LedgerNext
  <1> QED
    BY <1>1, <1>2, PTL DEF LSpec

\* "Balances are the result of applying every block in order" ...
THEOREM BalancesAreReplay == AcceptsIsReplay => (LSpec => []LedgerIsReplay)
  <1>1. LedgerInv => LedgerIsReplay
    BY DEF LedgerInv
  <1> QED
    BY <1>1, LedgerInvariant, PTL

\* Whether a switch or an import succeeds depends on the branch alone, not on
\* the chain the node comes from or on what it has to undo; so ChainManager may
\* take the outcome from the constant Accepts.
THEOREM AcceptanceOfBranches == AcceptsIsReplay => (LSpec => []AcceptanceIsLocal)
  <1>1. AcceptsIsReplay /\ LedgerInv => AcceptanceIsLocal
    BY LocalAcceptance
  <1> SUFFICES ASSUME AcceptsIsReplay PROVE LSpec => []AcceptanceIsLocal
    OBVIOUS
  <1>2. LedgerInv => AcceptanceIsLocal
    BY <1>1
  <1> QED
    BY <1>2, LedgerInvariant, PTL

\* No transfer is confirmed twice and no balance leaves the range the database
\* can store: every confirmed transfer has a nonce below its sender's, and one
\* that is applied has a nonce that is not.
THEOREM NoDoubleSpend == AcceptsIsReplay => (LSpec => []NoReplay)
  <1> SUFFICES ASSUME AcceptsIsReplay PROVE LSpec => []NoReplay
    OBVIOUS
  <1>1. ASSUME LedgerInv PROVE NoReplay
    <2>1. Sound(Tables, Tip) /\ Tables.txIndex = txIndex /\ Tables.accounts = accounts
      BY <1>1, TablesFacts DEF Tables
    <2>2. \A r, s \in txIndex : r.txid = s.txid => r = s
      BY <2>1 DEF Sound
    <2>3. accounts \in [Address -> Account]
      BY <2>1 DEF Sound
    <2>4. \A a \in Address : accounts[a].balance \in 0..MaxAmount
      BY <2>3 DEF Account
    <2> QED
      BY <2>2, <2>4 DEF NoReplay
  <1> QED
    BY <1>1, LedgerInvariant, PTL

\* ChainManager's decisions are those of apply_block: the chain manager with
\* balances behaves as ChainManager, where the constant Accepts decides, says.
THEOREM LedgerIsChain == AcceptsIsReplay => (LSpec => Init /\ [][Next]_vars)
  <1> SUFFICES ASSUME AcceptsIsReplay PROVE LSpec => Init /\ [][Next]_vars
    OBVIOUS
  <1>1. LInit => Init
    BY DEF LInit
  <1>2. AcceptanceIsLocal /\ [LNext]_lvars => [Next]_vars
    BY LedgerStep
  <1> QED
    BY <1>1, <1>2, AcceptanceOfBranches, PTL DEF LSpec

-----------------------------------------------------------------------------
(* Coins *)

\* What the addresses own, where held[a] is what a owns besides its balance in o.
Coins(o, held) == SumOver(Address, [a \in Address |-> Get(o, a).balance + held[a]])

LEMMA CoinsType ==
    ASSUME NEW B \in [Address -> Account], NEW o \in Overlays(B), NEW held \in [Address -> Nat]
    PROVE  Coins(o, held) \in Nat
  <1>1. \A a \in Address : Get(o, a).balance \in Nat
    BY GetFacts DEF Account
  <1> DEFINE f == [a \in Address |-> Get(o, a).balance + held[a]]
  <1>2. IsFiniteSet(Address) /\ \A a \in Address : f[a] \in Nat
    BY <1>1, LedgerAssumption
  <1> HIDE DEF f
  <1>3. SumOver(Address, f) \in Nat
    BY <1>2, SumType
  <1> QED
    BY <1>3 DEF Coins, f

\* A credit adds its amount.
LEMMA CreditBalances ==
    ASSUME NEW B \in [Address -> Account], NEW o \in Overlays(B), NEW out \in Output,
           Credit(o, out).ok, NEW a \in Address
    PROVE  Get(Credit(o, out), a).balance
              = IF a = out.address THEN Get(o, a).balance + out.amount ELSE Get(o, a).balance
  <1>1. out.address \in Address /\ out.amount \in Nat
    BY LedgerTypes DEF Output
  <1> DEFINE old == Get(o, out.address)
             v == [old EXCEPT !.balance = old.balance + out.amount]
             r == Credit(o, out)
  <1>2. old \in Account
    BY <1>1, GetFacts
  <1>3. o.ok /\ old.balance + out.amount <= MaxAmount
    <2> SUFFICES ASSUME ~(o.ok /\ old.balance + out.amount <= MaxAmount) PROVE FALSE
      OBVIOUS
    <2>1. r = [o EXCEPT !.ok = FALSE]
      BY DEF Credit
    <2> QED
      BY <2>1, FailedOverlay
  <1>4. v \in Account /\ v.balance = old.balance + out.amount
    BY <1>1, <1>2, <1>3, LedgerTypes DEF Account
  <1>5. r = Set(o, out.address, v)
    BY <1>3 DEF Credit
  <1> HIDE DEF v
  <1>6. \A x \in Address : Get(r, x) = IF x = out.address THEN v ELSE Get(o, x)
    BY <1>1, <1>4, <1>5, SetFacts
  <1> QED
    BY <1>4, <1>6

LEMMA CreditCoins ==
    ASSUME NEW B \in [Address -> Account], NEW o \in Overlays(B), NEW out \in Output,
           Credit(o, out).ok, NEW held \in [Address -> Nat]
    PROVE  Coins(Credit(o, out), held) = Coins(o, held) + out.amount
  <1> DEFINE r == Credit(o, out)
             f == [a \in Address |-> Get(o, a).balance + held[a]]
             g == [a \in Address |-> Get(r, a).balance + held[a]]
             c == out.address
  <1>1. IsFiniteSet(Address) /\ c \in Address /\ out.amount \in Nat
    BY LedgerAssumption, LedgerTypes DEF Output
  <1>2. \A a \in Address : Get(o, a).balance \in Nat /\ held[a] \in Nat
    BY GetFacts DEF Account
  <1>3. \A a \in Address : Get(r, a).balance
                           = IF a = c THEN Get(o, a).balance + out.amount ELSE Get(o, a).balance
    BY CreditBalances
  <1>4. SumOver(Address, f) = Coins(o, held) /\ SumOver(Address, g) = Coins(r, held)
    BY DEF Coins
  <1> HIDE DEF r
  <1>5. /\ \A a \in Address : f[a] \in Nat /\ g[a] \in Nat
        /\ \A a \in Address : a # c => f[a] = g[a]
    BY <1>1, <1>2, <1>3
  <1>6. g[c] = f[c] + out.amount
    BY <1>1, <1>2, <1>3
  <1> HIDE DEF f, g, c
  <1>7. SumOver(Address, g) + f[c] = SumOver(Address, f) + g[c]
    BY <1>1, <1>5, SumChange
  <1>8. SumOver(Address, g) \in Nat /\ SumOver(Address, f) \in Nat /\ f[c] \in Nat
    BY <1>1, <1>5, SumType
  <1>9. SumOver(Address, g) = SumOver(Address, f) + out.amount
    BY <1>1, <1>6, <1>7, <1>8
  <1> QED
    BY <1>4, <1>9 DEF r

\* Credits add what g counts.
LEMMA CreditsCoins ==
    ASSUME NEW B \in [Address -> Account], NEW o \in Overlays(B), NEW s \in Seq(Output),
           NEW g \in [0..Len(s) -> Nat], \A i \in 1..Len(s) : g[i] = g[i - 1] + s[i].amount,
           NEW held \in [Address -> Nat], Fold(Credit, o, s).ok
    PROVE  Coins(Fold(Credit, o, s), held) + g[0] = Coins(o, held) + g[Len(s)]
  <1> DEFINE n == Len(s)
  <1>1. n \in Nat /\ s \in [1..n -> Output] /\ 0 \in 0..n /\ n \in 0..n
    OBVIOUS
  <1>2. PICK f \in [0..n -> Overlays(B)] :
            /\ f[0] = o
            /\ \A i \in 1..n : f[i] = Credit(f[i - 1], s[i])
            /\ Fold(Credit, o, s) = f[n]
    BY CreditsTrace
  <1>3. g \in [0..n -> Nat] /\ \A i \in 1..n : g[i] = g[i - 1] + s[i].amount
    OBVIOUS
  <1> HIDE DEF n
  <1> DEFINE T == {i \in Nat : i <= n /\ f[i].ok =>
                                  Coins(f[i], held) + g[0] = Coins(o, held) + g[i]}
  <1>4. 0 \in T
    BY <1>2
  <1>5. \A i \in 0..(n - 1) : i \in T => i + 1 \in T
    <2> TAKE i \in 0..(n - 1)
    <2> HAVE i \in T
    <2>1. i + 1 \in 1..n /\ (i + 1) - 1 = i /\ i + 1 \in Nat /\ i \in 0..n /\ i + 1 \in 0..n
      BY <1>1
    <2> SUFFICES ASSUME f[i + 1].ok
                 PROVE  Coins(f[i + 1], held) + g[0] = Coins(o, held) + g[i + 1]
      BY <2>1
    <2>2. f[i + 1] = Credit(f[i], s[i + 1]) /\ g[i + 1] = g[i] + s[i + 1].amount
      BY <1>2, <1>3, <2>1
    <2>3. s[i + 1] \in Output /\ f[i] \in Overlays(B)
      BY <1>1, <1>2, <2>1
    <2> DEFINE p == f[i]
               out == s[i + 1]
    <2>8. p \in Overlays(B) /\ out \in Output /\ Credit(p, out).ok /\ f[i + 1] = Credit(p, out)
      BY <2>2, <2>3
    <2> HIDE DEF p, out
    <2>9. p.ok /\ Coins(Credit(p, out), held) = Coins(p, held) + out.amount
      BY <2>8, CreditCoins, CreditFacts
    <2>4. Coins(f[i + 1], held) = Coins(f[i], held) + s[i + 1].amount /\ f[i].ok
      BY <2>8, <2>9 DEF p, out
    <2>5. Coins(f[i], held) + g[0] = Coins(o, held) + g[i]
      BY <1>1, <2>1, <2>4
    <2>6. Coins(f[i], held) \in Nat /\ Coins(o, held) \in Nat
      BY <2>3, CoinsType
    <2>7. g[0] \in Nat /\ g[i] \in Nat /\ s[i + 1].amount \in Nat
      <3>1. g[0] \in Nat /\ g[i] \in Nat
        BY <1>1, <1>3, <2>1
      <3>2. s[i + 1].amount \in 0..MaxAmount
        BY <2>3 DEF Output
      <3> QED
        BY <3>1, <3>2
    <2> DEFINE x == Coins(f[i + 1], held)
               y == Coins(f[i], held)
               z == Coins(o, held)
               d == s[i + 1].amount
               u == g[0]
               v == g[i]
               w == g[i + 1]
    <2>10. x = y + d /\ y + u = z + v /\ w = v + d
      BY <2>2, <2>4, <2>5
    <2>11. y \in Nat /\ z \in Nat /\ d \in Nat /\ u \in Nat /\ v \in Nat
      BY <2>6, <2>7
    <2> HIDE DEF x, y, z, d, u, v, w
    <2>12. x + u = z + w
      BY <2>10, <2>11
    <2> QED
      BY <2>12 DEF x, z, u, w
  <1> HIDE DEF T
  <1>6. 0..n \subseteq T
    <2>1. 0 \in Int /\ n \in Int
      BY <1>1
    <2> QED
      BY <1>4, <1>5, <2>1, UpTo
  <1>7. n \in T /\ n <= n
    BY <1>1, <1>6
  <1> QED
    BY <1>2, <1>7 DEF n, T

\* A transfer moves coins from its sender to its receivers and to the fees.
LEMMA TransferCoins ==
    ASSUME NEW B \in [Address -> Account], NEW o \in Overlays(B), NEW t \in DOMAIN Transfer,
           NEW held \in [Address -> Nat], ApplyTransfer(o, t).ok
    PROVE  Coins(ApplyTransfer(o, t), held) + ApplyTransfer(o, t).fees = Coins(o, held) + o.fees
  <1> DEFINE sender == Transfer[t].sender
             account == Get(o, sender)
             v == [balance |-> account.balance - TotalSpent(t), nonce |-> account.nonce + 1]
             paid == Set(o, sender, v)
             charged == [paid EXCEPT !.fees = @ + Transfer[t].fee]
             s == Transfer[t].outputs
             r == Fold(Credit, charged, s)
  <1>1. /\ sender \in Address /\ Transfer[t].fee \in Nat /\ s \in Seq(Output)
        /\ TotalSpent(t) \in Nat
    BY LedgerTypes, TotalSpentType
  <1>2. account \in Account
    BY <1>1, GetFacts
  <1>3. o.ok /\ CanSpend(t, account)
    <2> SUFFICES ASSUME ~(o.ok /\ CanSpend(t, account)) PROVE FALSE
      OBVIOUS
    <2>1. ApplyTransfer(o, t) = [o EXCEPT !.ok = FALSE]
      BY DEF ApplyTransfer
    <2> QED
      BY <2>1, FailedOverlay
  <1>4. TotalSpent(t) <= account.balance
    BY <1>3 DEF CanSpend
  <1>5. v \in Account /\ v.balance = account.balance - TotalSpent(t)
    BY <1>1, <1>2, <1>4, LedgerTypes DEF Account
  <1>6. ApplyTransfer(o, t) = r
    BY <1>3 DEF ApplyTransfer
  <1>7. PICK g \in [0..Len(s) -> Nat] : /\ g[0] = Transfer[t].fee
                                        /\ \A i \in 1..Len(s) : g[i] = g[i - 1] + s[i].amount
                                        /\ TotalSpent(t) = g[Len(s)]
    BY SpentTrace
  <1> HIDE DEF v, s
  <1>8. /\ paid \in Overlays(B) /\ paid.ok = o.ok /\ paid.fees = o.fees
        /\ \A a \in Address : Get(paid, a) = IF a = sender THEN v ELSE Get(o, a)
    BY <1>1, <1>5, SetFacts
  <1> HIDE DEF paid
  <1>9. /\ charged \in Overlays(B) /\ charged.fees = paid.fees + Transfer[t].fee
        /\ \A a \in Address : Get(charged, a) = Get(paid, a)
    <2> DEFINE fee == Transfer[t].fee
    <2>1. fee \in Nat /\ charged = [paid EXCEPT !.fees = @ + fee]
      BY <1>1
    <2> HIDE DEF fee, charged
    <2>2. /\ charged \in Overlays(B) /\ charged.fees = paid.fees + fee
          /\ \A a \in Address : Get(charged, a) = Get(paid, a)
      BY <1>8, <2>1, ChargedFacts
    <2> QED
      BY <2>2 DEF fee
  <1> HIDE DEF charged
  <1>10. Coins(charged, held) + TotalSpent(t) = Coins(o, held)
    <2> DEFINE f == [a \in Address |-> Get(o, a).balance + held[a]]
               h == [a \in Address |-> Get(charged, a).balance + held[a]]
    <2>1. IsFiniteSet(Address) /\ \A a \in Address : Get(o, a).balance \in Nat
      <3>1. \A a \in Address : Get(o, a) \in Account
        BY GetFacts
      <3> QED
        BY <3>1, LedgerAssumption DEF Account
    <2>2. \A a \in Address : f[a] \in Nat /\ h[a] \in Nat /\ (a # sender => f[a] = h[a])
      BY <1>5, <1>8, <1>9, <2>1 DEF Account
    <2>3. h[sender] + TotalSpent(t) = f[sender]
      BY <1>1, <1>2, <1>4, <1>5, <1>8, <1>9 DEF Account
    <2>4. SumOver(Address, f) = Coins(o, held) /\ SumOver(Address, h) = Coins(charged, held)
      BY DEF Coins
    <2> HIDE DEF f, h, sender
    <2>5. SumOver(Address, h) + f[sender] = SumOver(Address, f) + h[sender]
      BY <1>1, <2>1, <2>2, SumChange
    <2>6. SumOver(Address, h) \in Nat /\ SumOver(Address, f) \in Nat
      BY <2>1, <2>2, SumType
    <2>7. f[sender] \in Nat /\ h[sender] \in Nat
      BY <1>1, <2>2
    <2> DEFINE x == SumOver(Address, h)
               y == SumOver(Address, f)
               u == f[sender]
               w == h[sender]
               n == TotalSpent(t)
    <2>8. x + u = y + w /\ w + n = u /\ x \in Nat /\ y \in Nat /\ u \in Nat /\ w \in Nat
          /\ n \in Nat
      BY <1>1, <2>3, <2>5, <2>6, <2>7
    <2> HIDE DEF x, y, u, w, n
    <2>9. x + n = y
      BY <2>8
    <2> QED
      BY <2>4, <2>9 DEF x, y, n
  <1>11. r.ok
    BY <1>6
  <1>12. r \in Overlays(B) /\ r.fees = charged.fees
    BY <1>1, <1>9, CreditsFacts
  <1>13. Coins(r, held) + g[0] = Coins(charged, held) + g[Len(s)]
    BY <1>1, <1>7, <1>9, <1>11, CreditsCoins
  <1>14. /\ Coins(r, held) \in Nat /\ Coins(charged, held) \in Nat /\ Coins(o, held) \in Nat
         /\ o.fees \in Nat
    BY <1>9, <1>12, CoinsType, OverlayFacts
  <1> HIDE DEF r
  <1> QED
    BY <1>1, <1>6, <1>7, <1>8, <1>9, <1>10, <1>12, <1>13, <1>14

LEMMA TransfersCoins ==
    ASSUME NEW B \in [Address -> Account], NEW o \in Overlays(B),
           NEW s \in Seq(DOMAIN Transfer), NEW held \in [Address -> Nat],
           NEW r, r = Fold(ApplyTransfer, o, s), r.ok
    PROVE  Coins(r, held) + r.fees = Coins(o, held) + o.fees
  <1> DEFINE n == Len(s)
  <1>1. n \in Nat /\ s \in [1..n -> DOMAIN Transfer] /\ 0 \in 0..n /\ n \in 0..n
    OBVIOUS
  <1>2. PICK f \in [0..n -> Overlays(B)] :
            /\ f[0] = o
            /\ \A i \in 1..n : f[i] = ApplyTransfer(f[i - 1], s[i])
            /\ Fold(ApplyTransfer, o, s) = f[n]
    BY TransfersTrace
  <1> HIDE DEF n
  <1> DEFINE T == {i \in Nat : i <= n /\ f[i].ok =>
                                  Coins(f[i], held) + f[i].fees = Coins(o, held) + o.fees}
  <1>3. 0 \in T
    BY <1>2
  <1>4. \A i \in 0..(n - 1) : i \in T => i + 1 \in T
    <2> TAKE i \in 0..(n - 1)
    <2> HAVE i \in T
    <2>1. i + 1 \in 1..n /\ (i + 1) - 1 = i /\ i + 1 \in Nat /\ i \in 0..n /\ i <= n
      BY <1>1
    <2> SUFFICES ASSUME f[i + 1].ok
                 PROVE  Coins(f[i + 1], held) + f[i + 1].fees = Coins(o, held) + o.fees
      BY <2>1
    <2>2. f[i + 1] = ApplyTransfer(f[i], s[i + 1]) /\ s[i + 1] \in DOMAIN Transfer
          /\ f[i] \in Overlays(B)
      BY <1>1, <1>2, <2>1
    <2> DEFINE p == f[i]
               t == s[i + 1]
    <2>4. p \in Overlays(B) /\ t \in DOMAIN Transfer /\ ApplyTransfer(p, t).ok
          /\ f[i + 1] = ApplyTransfer(p, t)
      BY <2>2
    <2> HIDE DEF p, t
    <2>5. p.ok /\ Coins(ApplyTransfer(p, t), held) + ApplyTransfer(p, t).fees
                  = Coins(p, held) + p.fees
      BY <2>4, TransferFacts, TransferCoins
    <2>3. f[i].ok /\ Coins(f[i + 1], held) + f[i + 1].fees = Coins(f[i], held) + f[i].fees
      BY <2>4, <2>5 DEF p
    <2> QED
      BY <2>1, <2>3
  <1> HIDE DEF T
  <1>5. 0..n \subseteq T
    <2>1. 0 \in Int /\ n \in Int
      BY <1>1
    <2> QED
      BY <1>3, <1>4, <2>1, UpTo
  <1>6. n \in T /\ n <= n
    BY <1>1, <1>5
  <1> QED
    BY <1>2, <1>6 DEF T

\* Owning more besides the balance.
LEMMA HeldCoins ==
    ASSUME NEW B \in [Address -> Account], NEW o \in Overlays(B), NEW c \in Address, NEW n \in Nat,
           NEW k \in [Address -> Nat], NEW l \in [Address -> Nat],
           l[c] = k[c] + n, \A a \in Address : a # c => l[a] = k[a]
    PROVE  Coins(o, l) = Coins(o, k) + n
  <1> DEFINE f == [a \in Address |-> Get(o, a).balance + k[a]]
             g == [a \in Address |-> Get(o, a).balance + l[a]]
  <1>1. IsFiniteSet(Address) /\ \A a \in Address : Get(o, a).balance \in Nat
    BY LedgerAssumption, GetFacts DEF Account
  <1>2. /\ \A a \in Address : f[a] \in Nat /\ g[a] \in Nat
        /\ \A a \in Address : a # c => f[a] = g[a]
    BY <1>1
  <1>3. g[c] = f[c] + n
    BY <1>1
  <1>4. SumOver(Address, f) = Coins(o, k) /\ SumOver(Address, g) = Coins(o, l)
    BY DEF Coins
  <1> HIDE DEF f, g
  <1>5. SumOver(Address, g) + f[c] = SumOver(Address, f) + g[c]
    BY <1>1, <1>2, SumChange
  <1>6. SumOver(Address, g) \in Nat /\ SumOver(Address, f) \in Nat /\ f[c] \in Nat
    BY <1>1, <1>2, SumType
  <1>7. SumOver(Address, g) = SumOver(Address, f) + n
    BY <1>3, <1>5, <1>6
  <1> QED
    BY <1>4, <1>7

-----------------------------------------------------------------------------
(* Rewards that have not matured *)

\* The heights whose coinbase pays a and has not matured on b, and the amounts.
Unripe(b, a) ==
    {h \in 0..Height[b] : Coinbase[At(b, h)].address = a /\ h > Height[b] - CoinbaseMaturity}
Rewards(b) == [h \in 0..Height[b] |-> Coinbase[At(b, h)].amount]
Held(b) == [a \in Address |-> SumOver(Unripe(b, a), Rewards(b))]

LEMMA UnripeFacts ==
    ASSUME NEW b \in Block, NEW a
    PROVE  /\ IsFiniteSet(Unripe(b, a))
           /\ \A h \in 0..Height[b] : /\ Rewards(b)[h] \in Nat
                                      /\ Coinbase[At(b, h)] \in Output
  <1>1. Height[b] \in Nat /\ 0 \in Int /\ Height[b] \in Int
    BY BlockFacts
  <1>2. IsFiniteSet(0..Height[b])
    BY <1>1, FS_Interval, Zenon
  <1>3. Unripe(b, a) \in SUBSET (0..Height[b])
    BY DEF Unripe
  <1>4. IsFiniteSet(Unripe(b, a))
    BY <1>2, <1>3, FS_Subset
  <1>5. \A h \in 0..Height[b] : Coinbase[At(b, h)] \in Output
    BY AtHeight, LedgerTypes
  <1>6. \A h \in 0..Height[b] : Coinbase[At(b, h)].amount \in Nat
    BY <1>5, LedgerTypes DEF Output
  <1> QED
    BY <1>4, <1>5, <1>6 DEF Rewards

LEMMA HeldType ==
    ASSUME NEW b \in Block
    PROVE  Held(b) \in [Address -> Nat]
  <1>1. ASSUME NEW a \in Address PROVE SumOver(Unripe(b, a), Rewards(b)) \in Nat
    <2>1. \A h \in Unripe(b, a) : Rewards(b)[h] \in Nat
      BY UnripeFacts DEF Unripe
    <2> QED
      BY <2>1, UnripeFacts, SumType
  <1> QED
    BY <1>1 DEF Held

\* The height whose reward matures with b, and the heights whose rewards last.
Due(b) == Height[b] - CoinbaseMaturity
Lasting(b, a) == Unripe(Parent[b], a) \ {Due(b)}

LEMMA LastingFacts ==
    ASSUME NEW b \in Block, b # Genesis, NEW a
    PROVE  /\ IsFiniteSet(Lasting(b, a)) /\ Due(b) \notin Lasting(b, a)
           /\ Height[b] \notin Lasting(b, a)
           /\ \A h \in Lasting(b, a) : /\ Rewards(Parent[b])[h] \in Nat
                                       /\ Rewards(b)[h] = Rewards(Parent[b])[h]
           /\ Unripe(b, a) = IF a = Coinbase[b].address
                             THEN Lasting(b, a) \cup {Height[b]} ELSE Lasting(b, a)
           /\ Unripe(Parent[b], a)
                 = IF Due(b) >= 0 /\ a = Coinbase[At(Parent[b], Due(b))].address
                   THEN Lasting(b, a) \cup {Due(b)} ELSE Lasting(b, a)
  <1>0. PICK due, p, n, rest : /\ due = Due(b) /\ p = Parent[b] /\ n = Height[b]
                               /\ rest = Lasting(b, a)
    OBVIOUS
  <1>1. /\ p \in Block /\ n = Height[p] + 1 /\ Height[p] \in Nat /\ n \in Nat
        /\ CoinbaseMaturity \in Nat /\ CoinbaseMaturity >= 1 /\ due \in Int /\ due <= Height[p]
        /\ p \in Ancestors[b] /\ due = Height[p] + 1 - CoinbaseMaturity
        /\ due = n - CoinbaseMaturity
    BY <1>0, TreeAssumption, BlockFacts, ParamsAssumption, AncestorsStep, AncestorsSelf DEF Due
  <1>2. \A h \in 0..Height[p] : At(p, h) = At(b, h) /\ h \in 0..n /\ h # n
    BY <1>1, AtShared
  <1>3. At(b, n) = b /\ n \in 0..n
    BY <1>0, <1>1, AtOf, AncestorsSelf
  <1>4. \A h \in 0..n : h = n \/ h \in 0..Height[p]
    BY <1>1
  <1>5. rest = Unripe(p, a) \ {due}
    BY <1>0 DEF Lasting
  <1>6. Unripe(p, a) \subseteq 0..Height[p]
    BY DEF Unripe
  <1>7. IsFiniteSet(rest)
    BY <1>1, <1>5, UnripeFacts, FS_RemoveElement
  <1>8. due \notin rest /\ n \notin rest /\ rest \subseteq 0..Height[p]
    BY <1>2, <1>5, <1>6
  <1>9. \A h \in 0..Height[p] : Rewards(p)[h] \in Nat /\ Rewards(b)[h] = Rewards(p)[h]
    BY <1>0, <1>1, <1>2, UnripeFacts DEF Rewards
  <1>10. \A h \in 0..Height[p] :
            h \in Unripe(p, a) <=> Coinbase[At(b, h)].address = a /\ h >= due
    BY <1>1, <1>2 DEF Unripe
  <1>11. \A h \in 0..n :
            h \in Unripe(b, a) <=> Coinbase[At(b, h)].address = a /\ h > due
    BY <1>0, <1>1 DEF Unripe
  <1>12. Unripe(b, a) \subseteq 0..n /\ n > due
    BY <1>0, <1>1 DEF Unripe
  <1>13. Unripe(b, a) = IF a = Coinbase[b].address THEN rest \cup {n} ELSE rest
    <2>1. ASSUME NEW h \in 0..Height[p] PROVE h \in Unripe(b, a) <=> h \in rest
      <3>1. h \in rest <=> Coinbase[At(b, h)].address = a /\ h >= due /\ h # due
        BY <1>5, <1>10
      <3>2. h >= due /\ h # due <=> h > due
        BY <1>1
      <3>3. h \in 0..n
        BY <1>2
      <3> QED
        BY <1>11, <3>1, <3>2, <3>3
    <2>2. n \in Unripe(b, a) <=> Coinbase[b].address = a
      BY <1>3, <1>11, <1>12
    <2>3. PICK U : U = Unripe(b, a)
      OBVIOUS
    <2>4. \A h : h \in U => h = n \/ h \in 0..Height[p]
      BY <1>4, <1>12, <2>3
    <2>5. \A h : h \in U <=> (h = n /\ n \in U) \/ h \in rest
      BY <1>8, <2>1, <2>3, <2>4
    <2> QED
      BY <2>2, <2>3, <2>5
  <1>14. Unripe(p, a) = IF due >= 0 /\ a = Coinbase[At(p, due)].address
                        THEN rest \cup {due} ELSE rest
    <2>1. CASE due >= 0
      <3>1. due \in 0..Height[p]
        BY <1>1, <2>1
      <3>2. due \in Unripe(p, a) <=> a = Coinbase[At(p, due)].address
        BY <1>1, <1>2, <1>10, <3>1
      <3> QED
        BY <1>5, <2>1, <3>2
    <2>2. CASE ~(due >= 0)
      <3>1. due \notin Unripe(p, a)
        BY <1>1, <1>6, <2>2
      <3> QED
        BY <1>5, <2>2, <3>1
    <2> QED
      BY <2>1, <2>2
  <1> QED
    BY <1>0, <1>7, <1>8, <1>9, <1>13, <1>14

\* The rewards that last, by address.
Kept(b) == [a \in Address |-> SumOver(Lasting(b, a), Rewards(b))]

LEMMA KeptFacts ==
    ASSUME NEW b \in Block, b # Genesis, NEW a \in Address
    PROVE  /\ Kept(b)[a] \in Nat
           /\ Kept(b)[a] = SumOver(Lasting(b, a), Rewards(Parent[b]))
           /\ Kept(b)[a] = SumOver(Lasting(b, a), Rewards(b))
  <1>1. PICK rest, f, g : rest = Lasting(b, a) /\ f = Rewards(Parent[b]) /\ g = Rewards(b)
    OBVIOUS
  <1>2. IsFiniteSet(rest) /\ \A h \in rest : f[h] \in Nat /\ g[h] = f[h]
    BY <1>1, LastingFacts
  <1>3. SumOver(rest, f) \in Nat
    BY <1>2, SumType
  <1>4. SumOver(rest, g) = SumOver(rest, f)
    BY <1>2, SumSame
  <1> QED
    BY <1>1, <1>3, <1>4 DEF Kept

\* A block takes the reward that matures with it from what is held ...
LEMMA HeldMatures ==
    ASSUME NEW b \in Block, b # Genesis, NEW a \in Address
    PROVE  Held(Parent[b])[a]
              = IF Due(b) >= 0 /\ a = Coinbase[At(Parent[b], Due(b))].address
                THEN Kept(b)[a] + Coinbase[At(Parent[b], Due(b))].amount ELSE Kept(b)[a]
  <1>1. PICK due, p, rest, f : /\ due = Due(b) /\ p = Parent[b] /\ rest = Lasting(b, a)
                               /\ f = Rewards(p)
    OBVIOUS
  <1>2. p \in Block /\ due \in Int /\ due <= Height[p] /\ Height[p] \in Nat
    BY <1>1, TreeAssumption, BlockFacts, ParamsAssumption DEF Due
  <1>3. IsFiniteSet(rest) /\ due \notin rest /\ \A h \in rest : f[h] \in Nat
    BY <1>1, LastingFacts
  <1>4. Unripe(p, a) = IF due >= 0 /\ a = Coinbase[At(p, due)].address
                       THEN rest \cup {due} ELSE rest
    BY <1>1, LastingFacts
  <1>5. Kept(b)[a] = SumOver(rest, f) /\ Held(p)[a] = SumOver(Unripe(p, a), f)
    BY <1>1, KeptFacts DEF Held
  <1>6. CASE due >= 0 /\ a = Coinbase[At(p, due)].address
    <2>1. due \in 0..Height[p]
      BY <1>2, <1>6
    <2>2. f[due] = Coinbase[At(p, due)].amount /\ f[due] \in Nat
      BY <1>1, <1>2, <2>1, UnripeFacts DEF Rewards
    <2>3. \A h \in rest \cup {due} : f[h] \in Nat
      BY <1>3, <2>2
    <2>4. SumOver(rest \cup {due}, f) = SumOver(rest, f) + f[due]
      BY <1>3, <2>3, SumMore
    <2> QED
      BY <1>1, <1>4, <1>5, <1>6, <2>2, <2>4
  <1>7. CASE ~(due >= 0 /\ a = Coinbase[At(p, due)].address)
    BY <1>1, <1>4, <1>5, <1>7
  <1> QED
    BY <1>6, <1>7

\* ... and adds its own.
LEMMA HeldGrows ==
    ASSUME NEW b \in Block, b # Genesis, NEW a \in Address
    PROVE  Held(b)[a] = IF a = Coinbase[b].address
                        THEN Kept(b)[a] + Coinbase[b].amount ELSE Kept(b)[a]
  <1>1. PICK n, rest, f : n = Height[b] /\ rest = Lasting(b, a) /\ f = Rewards(b)
    OBVIOUS
  <1>2. n \in Nat /\ n \in 0..n /\ At(b, n) = b
    BY <1>1, BlockFacts, AtOf, AncestorsSelf
  <1>3. IsFiniteSet(rest) /\ n \notin rest /\ \A h \in rest : f[h] \in Nat
    BY <1>1, LastingFacts
  <1>4. Unripe(b, a) = IF a = Coinbase[b].address THEN rest \cup {n} ELSE rest
    BY <1>1, LastingFacts
  <1>5. Kept(b)[a] = SumOver(rest, f) /\ Held(b)[a] = SumOver(Unripe(b, a), f)
    BY <1>1, KeptFacts DEF Held
  <1>6. f[n] = Coinbase[b].amount /\ f[n] \in Nat
    BY <1>1, <1>2, UnripeFacts DEF Rewards
  <1>7. CASE a = Coinbase[b].address
    <2>1. \A h \in rest \cup {n} : f[h] \in Nat
      BY <1>3, <1>6
    <2>2. SumOver(rest \cup {n}, f) = SumOver(rest, f) + f[n]
      BY <1>3, <2>1, SumMore
    <2> QED
      BY <1>4, <1>5, <1>6, <1>7, <2>2
  <1>8. CASE a # Coinbase[b].address
    BY <1>4, <1>5, <1>8
  <1> QED
    BY <1>7, <1>8

-----------------------------------------------------------------------------
(* The supply *)

\* Balances and what is held besides, over all addresses.
Wealth(B, held) == SumOver(Address, [a \in Address |-> B[a].balance + held[a]])

LEMMA WealthOfOverlay ==
    ASSUME NEW B \in [Address -> Account], NEW held \in [Address -> Nat]
    PROVE  /\ Coins(Overlay(B), held) = Wealth(B, held)
           /\ \A o \in Overlays(B) : Coins(o, held) = Wealth(Written(B, o.accounts), held)
  <1>1. [a \in Address |-> Get(Overlay(B), a).balance + held[a]]
           = [a \in Address |-> B[a].balance + held[a]]
    <2>1. \A a \in Address : Get(Overlay(B), a) = B[a]
      BY NewOverlay
    <2> QED
      BY <2>1
  <1>2. ASSUME NEW o \in Overlays(B)
        PROVE  Coins(o, held) = Wealth(Written(B, o.accounts), held)
    <2> DEFINE W == Written(B, o.accounts)
    <2>1. \A a \in Address : W[a] = Get(o, a)
      BY WrittenFacts
    <2> HIDE DEF W
    <2>2. [a \in Address |-> Get(o, a).balance + held[a]]
             = [a \in Address |-> W[a].balance + held[a]]
      BY <2>1
    <2> QED
      BY <2>2, Zenon DEF Coins, Wealth, W
  <1> QED
    BY <1>1, <1>2 DEF Coins, Wealth

\* What a block that is applied writes.
LEMMA ConnectWrites ==
    ASSUME NEW b \in Block, b # Genesis, NEW L, Sound(L, Parent[b]), Connect(L, b).ok,
           NEW o, o = Fold(ApplyTransfer, Matured(L, Height[b]), BlockTxs[b])
    PROVE  /\ o.ok /\ Coinbase[b].amount = BlockReward + o.fees
           /\ Connect(L, b).accounts = Written(L.accounts, o.accounts)
           /\ Connect(L, b).addressIndex = L.addressIndex \cup AddressRows(b)
  <1>1. L = [main |-> Ancestors[Parent[b]], accounts |-> L.accounts, undo |-> L.undo,
             snapshots |-> L.snapshots, txIndex |-> L.txIndex,
             addressIndex |-> L.addressIndex, ok |-> TRUE]
    BY DEF Sound
  <1>2. ~[L EXCEPT !.ok = FALSE].ok
    BY <1>1
  <1> QED
    BY <1>2 DEF Connect

LEMMA FunctionsOfAddress ==
    ASSUME NEW b \in Block, b # Genesis
    PROVE  /\ Held(b) \in [Address -> Nat] /\ Held(Parent[b]) \in [Address -> Nat]
           /\ Kept(b) \in [Address -> Nat]
  <1>1. Parent[b] \in Block
    BY BlockFacts
  <1>2. \A a \in Address : Kept(b)[a] \in Nat
    BY KeptFacts
  <1>3. Kept(b) = [a \in Address |-> Kept(b)[a]]
    BY DEF Kept
  <1> QED
    BY <1>1, <1>2, <1>3, HeldType

\* The matured reward moves from what is held to a balance.
LEMMA MaturedCoins ==
    ASSUME NEW b \in Block, b # Genesis, NEW L, Sound(L, Parent[b]),
           NEW m, m = Matured(L, Height[b]), m.ok
    PROVE  m.fees = 0 /\ Coins(m, Kept(b)) = Coins(Overlay(L.accounts), Held(Parent[b]))
  <1>1. PICK p, B, start, kept, held, due :
            /\ p = Parent[b] /\ B = L.accounts /\ start = Overlay(B) /\ kept = Kept(b)
            /\ held = Held(p) /\ due = Due(b)
    OBVIOUS
  <1>2. /\ p \in Block /\ Height[p] \in Nat /\ due = Height[b] - CoinbaseMaturity
        /\ due \in Int /\ due <= Height[p]
    BY <1>1, TreeAssumption, BlockFacts, ParamsAssumption DEF Due
  <1>3. L.main = Ancestors[p] /\ B \in [Address -> Account]
    BY <1>1 DEF Sound
  <1>4. start \in Overlays(B) /\ start.fees = 0
    BY <1>1, <1>3, NewOverlay
  <1>5. kept \in [Address -> Nat] /\ held \in [Address -> Nat]
    BY <1>1, FunctionsOfAddress
  <1>6. \A a \in Address : held[a] = IF due >= 0 /\ a = Coinbase[At(p, due)].address
                                     THEN kept[a] + Coinbase[At(p, due)].amount ELSE kept[a]
    BY <1>1, HeldMatures
  <1>7. CASE due >= 0
    <2>1. PICK out : out = Coinbase[At(p, due)]
      OBVIOUS
    <2>2. due \in 0..Height[p]
      BY <1>2, <1>7
    <2>3. MainBlock(L, due) = At(p, due)
      BY <1>3 DEF MainBlock, At
    <2>4. out \in Output /\ out.address \in Address /\ out.amount \in Nat
      BY <1>2, <2>1, <2>2, AtHeight, LedgerTypes DEF Output
    <2>5. m = Credit(start, out)
      BY <1>1, <1>2, <1>7, <2>1, <2>3 DEF Matured
    <2>6. \A a \in Address : held[a] = IF a = out.address THEN kept[a] + out.amount ELSE kept[a]
      BY <1>6, <1>7, <2>1
    <2>7. m.fees = start.fees
      BY <1>3, <1>4, <2>4, <2>5, CreditFacts
    <2>8. Coins(m, kept) = Coins(start, kept) + out.amount
      BY <1>3, <1>4, <1>5, <2>4, <2>5, CreditCoins
    <2>9. Coins(start, held) = Coins(start, kept) + out.amount
      <3>1. PICK c, n : c = out.address /\ n = out.amount
        OBVIOUS
      <3>2. /\ c \in Address /\ n \in Nat
            /\ held[c] = kept[c] + n /\ \A a \in Address : a # c => held[a] = kept[a]
        BY <2>4, <2>6, <3>1
      <3>3. Coins(start, held) = Coins(start, kept) + n
        BY <1>3, <1>4, <1>5, <3>2, HeldCoins
      <3> QED
        BY <3>1, <3>3
    <2> QED
      BY <1>1, <1>4, <2>7, <2>8, <2>9
  <1>8. CASE ~(due >= 0)
    <2>1. m = start
      BY <1>1, <1>2, <1>8 DEF Matured
    <2>2. \A a \in Address : held[a] = kept[a]
      BY <1>6, <1>8
    <2>3. held = kept
      BY <1>5, <2>2
    <2> QED
      BY <1>1, <1>4, <2>1, <2>3
  <1> QED
    BY <1>7, <1>8

\* A block that is applied adds one reward to the supply: what it takes from
\* the senders it gives to the receivers and, as fees, to the miner.
LEMMA SupplyStep ==
    ASSUME NEW b \in Block, b # Genesis, NEW L, Sound(L, Parent[b]), Connect(L, b).ok
    PROVE  Wealth(Connect(L, b).accounts, Held(b))
              = Wealth(L.accounts, Held(Parent[b])) + BlockReward
  <1>1. PICK B, m, o, kept, grown, out :
            /\ B = L.accounts /\ m = Matured(L, Height[b])
            /\ o = Fold(ApplyTransfer, m, BlockTxs[b])
            /\ kept = Kept(b) /\ grown = Held(b) /\ out = Coinbase[b]
    OBVIOUS
  <1>2. B \in [Address -> Account]
    BY <1>1 DEF Sound
  <1>3. /\ o.ok /\ out.amount = BlockReward + o.fees
        /\ Connect(L, b).accounts = Written(B, o.accounts)
    BY <1>1, ConnectWrites
  <1>4. m \in Overlays(B)
    BY <1>1, MaturedFacts
  <1>5. BlockTxs[b] \in Seq(DOMAIN Transfer) /\ out \in Output /\ out.address \in Address
        /\ out.amount \in Nat /\ BlockReward \in Nat
    BY <1>1, LedgerTypes DEF Output
  <1>6. o \in Overlays(B) /\ m.ok
    BY <1>1, <1>2, <1>3, <1>4, <1>5, TransfersFacts
  <1>7. o.fees \in Nat
    BY <1>2, <1>6, OverlayFacts
  <1>8. /\ kept \in [Address -> Nat] /\ grown \in [Address -> Nat]
        /\ Held(Parent[b]) \in [Address -> Nat]
    BY <1>1, FunctionsOfAddress
  <1>9. m.fees = 0 /\ Coins(m, kept) = Coins(Overlay(B), Held(Parent[b]))
    BY <1>1, <1>6, MaturedCoins
  <1>10. Coins(o, kept) + o.fees = Coins(m, kept) + m.fees
    <2>1. PICK s : s = BlockTxs[b]
      OBVIOUS
    <2>2. s \in Seq(DOMAIN Transfer) /\ o = Fold(ApplyTransfer, m, s)
      BY <1>1, <1>5, <2>1
    <2>3. o.ok /\ o = Fold(ApplyTransfer, m, s) /\ s \in Seq(DOMAIN Transfer)
      BY <1>3, <2>2
    <2>4. Coins(o, kept) + o.fees = Coins(m, kept) + m.fees
      BY <1>2, <1>4, <1>8, <2>3, TransfersCoins
    <2> QED
      BY <2>4
  <1>11. \A a \in Address : grown[a] = IF a = out.address THEN kept[a] + out.amount ELSE kept[a]
    BY <1>1, HeldGrows
  <1>12. Coins(o, grown) = Coins(o, kept) + out.amount
    <2>1. PICK c, n : c = out.address /\ n = out.amount
      OBVIOUS
    <2>2. /\ c \in Address /\ n \in Nat
          /\ grown[c] = kept[c] + n /\ \A a \in Address : a # c => grown[a] = kept[a]
      BY <1>5, <1>11, <2>1
    <2>3. Coins(o, grown) = Coins(o, kept) + n
      BY <1>2, <1>6, <1>8, <2>2, HeldCoins
    <2> QED
      BY <2>1, <2>3
  <1>13. /\ Coins(o, grown) = Wealth(Written(B, o.accounts), grown)
         /\ Coins(Overlay(B), Held(Parent[b])) = Wealth(B, Held(Parent[b]))
    BY <1>2, <1>6, <1>8, WealthOfOverlay
  <1>14. Coins(o, kept) \in Nat /\ Coins(m, kept) \in Nat
    BY <1>2, <1>4, <1>6, <1>8, CoinsType
  <1>15. Coins(o, grown) = Coins(m, kept) + BlockReward
    BY <1>3, <1>5, <1>7, <1>9, <1>10, <1>12, <1>14
  <1> QED
    BY <1>1, <1>3, <1>9, <1>13, <1>15

\* The genesis block's reward is the whole supply of a new node.
LEMMA SupplyOfGenesis == Wealth(GenesisLedger.accounts, Held(Genesis)) = BlockReward
  <1>1. PICK B, none, held, out :
            /\ B = GenesisLedger.accounts /\ none = [a \in Address |-> 0]
            /\ held = Held(Genesis) /\ out = Coinbase[Genesis]
    OBVIOUS
  <1>2. Genesis \in Block /\ Height[Genesis] = 0 /\ CoinbaseMaturity \in Nat
        /\ CoinbaseMaturity >= 1
    BY TreeAssumption, ParamsAssumption
  <1>3. B = [a \in Address |-> EmptyAccount] /\ B \in [Address -> Account]
    BY <1>1, GenesisSound DEF Sound, GenesisLedger
  <1>4. /\ held \in [Address -> Nat] /\ none \in [Address -> Nat]
        /\ out.address \in Address /\ out.amount = BlockReward /\ BlockReward \in Nat
    BY <1>1, <1>2, HeldType, LedgerTypes DEF Output
  <1>5. At(Genesis, 0) = Genesis
    BY <1>2, AtOf, AncestorsSelf
  <1>6. ASSUME NEW a \in Address
        PROVE  held[a] = IF a = out.address THEN none[a] + out.amount ELSE none[a]
    <2>1. \A h \in 0..0 : h = 0 /\ h > 0 - CoinbaseMaturity
      BY <1>2
    <2>2. 0 \in 0..0
      OBVIOUS
    <2>3. Unripe(Genesis, a) = IF a = out.address THEN {0} ELSE {}
      <3>1. PICK U : U = Unripe(Genesis, a)
        OBVIOUS
      <3>2. \A h : h \in U <=> h = 0 /\ a = out.address
        BY <1>1, <1>2, <1>5, <2>1, <2>2, <3>1 DEF Unripe
      <3> QED
        BY <3>1, <3>2
    <2>4. held[a] = SumOver(Unripe(Genesis, a), Rewards(Genesis)) /\ none[a] = 0
      BY <1>1 DEF Held
    <2>5. Rewards(Genesis)[0] = out.amount
      BY <1>1, <1>2, <1>5, <2>2 DEF Rewards
    <2>6. SumOver({}, Rewards(Genesis)) = 0
      BY SumEmpty
    <2>7. SumOver({} \cup {0}, Rewards(Genesis)) = SumOver({}, Rewards(Genesis)) + out.amount
      <3>1. IsFiniteSet({}) /\ 0 \notin {}
        BY FS_EmptySet
      <3>2. \A x \in {} \cup {0} : Rewards(Genesis)[x] \in Nat
        BY <1>4, <2>5
      <3> QED
        BY <2>5, <3>1, <3>2, SumMore
    <2>8. {} \cup {0} = {0}
      OBVIOUS
    <2> QED
      BY <1>4, <2>3, <2>4, <2>6, <2>7, <2>8
  <1>7. Coins(Overlay(B), held) = Coins(Overlay(B), none) + out.amount
    <2>1. PICK c, n, start : c = out.address /\ n = out.amount /\ start = Overlay(B)
      OBVIOUS
    <2>2. /\ c \in Address /\ n \in Nat /\ start \in Overlays(B)
          /\ held[c] = none[c] + n /\ \A a \in Address : a # c => held[a] = none[a]
      BY <1>3, <1>4, <1>6, <2>1, NewOverlay
    <2>3. Coins(start, held) = Coins(start, none) + n
      BY <1>3, <1>4, <2>2, HeldCoins
    <2> QED
      BY <2>1, <2>3
  <1>8. Coins(Overlay(B), none) = 0
    <2> DEFINE f == [a \in Address |-> B[a].balance + none[a]]
    <2>1. \A a \in Address : f[a] = 0
      BY <1>1, <1>3 DEF EmptyAccount
    <2> HIDE DEF f
    <2>2. {{a} \X (1..f[a]) : a \in Address} \subseteq {{}}
      BY <2>1
    <2>3. UNION {{a} \X (1..f[a]) : a \in Address} = {}
      BY <2>2
    <2>4. SumOver(Address, f) = 0
      BY <2>3, FS_EmptySet DEF SumOver
    <2>5. Coins(Overlay(B), none) = Wealth(B, none)
      BY <1>3, <1>4, WealthOfOverlay
    <2> QED
      BY <2>4, <2>5 DEF Wealth, f
  <1>9. Coins(Overlay(B), held) = Wealth(B, held)
    BY <1>3, <1>4, WealthOfOverlay
  <1> QED
    BY <1>1, <1>4, <1>7, <1>8, <1>9

LEMMA RewardsAddUp ==
    ASSUME NEW r \in Nat, NEW h \in Nat
    PROVE  r * (h + 1) + r = r * ((h + 1) + 1) /\ r * (0 + 1) = r
  OBVIOUS

\* One reward for every block of the branch, however it was spent.
LEMMA SupplyOfBranch ==
    ASSUME NEW b \in Block, Replayed[b].ok
    PROVE  Wealth(Replayed[b].accounts, Held(b)) = BlockReward * (Height[b] + 1)
  <1> DEFINE Right(x) == Wealth(Replayed[x].accounts, Held(x)) = BlockReward * (Height[x] + 1)
             S == {x \in Block : Replayed[x].ok => Right(x)}
  <1>1. Genesis \in S
    <2>1. Genesis \in Block /\ Height[Genesis] = 0 /\ BlockReward \in Nat
      BY TreeAssumption, LedgerTypes
    <2>2. Wealth(Replayed[Genesis].accounts, Held(Genesis)) = BlockReward
      BY ReplayedStep, SupplyOfGenesis
    <2>3. BlockReward * (0 + 1) = BlockReward
      BY <2>1, RewardsAddUp
    <2> QED
      BY <2>1, <2>2, <2>3
  <1>2. ASSUME NEW x \in Block \ {Genesis}, Parent[x] \in S PROVE x \in S
    <2> SUFFICES ASSUME Replayed[x].ok PROVE Right(x)
      OBVIOUS
    <2>1. PICK p, L, k : p = Parent[x] /\ L = Replayed[p] /\ k = Height[p]
      OBVIOUS
    <2>2. p \in Block /\ Height[x] = k + 1 /\ k \in Nat /\ BlockReward \in Nat
      BY <2>1, TreeAssumption, BlockFacts, LedgerTypes
    <2>3. Replayed[p].ok /\ Replayed[x] = Connect(L, x)
      BY <2>1, ReplayedFacts, ReplayedStep
    <2>4. Sound(L, p)
      BY <2>1, <2>2, <2>3, ReplayedFacts
    <2>5. Wealth(Connect(L, x).accounts, Held(x)) = Wealth(L.accounts, Held(p)) + BlockReward
      BY <2>1, <2>3, <2>4, SupplyStep
    <2>6. Wealth(L.accounts, Held(p)) = BlockReward * (k + 1)
      BY <1>2, <2>1, <2>3
    <2>7. BlockReward * (k + 1) + BlockReward = BlockReward * ((k + 1) + 1)
      BY <2>2, RewardsAddUp
    <2> QED
      BY <2>2, <2>3, <2>5, <2>6, <2>7
  <1> HIDE DEF S
  <1>3. Block \subseteq S
    BY <1>1, <1>2, UpTheTree
  <1> QED
    BY <1>3 DEF S

-----------------------------------------------------------------------------
(* What the address index knows of the rewards *)

\* The index I has a row of a coinbase that pays a at height h.
Pays(I, a, h) == \E r \in I : r.address = a /\ r.position = 0 /\ r.height = h

LEMMA CoinbaseRow ==
    ASSUME NEW b \in Block, NEW a, NEW h
    PROVE  Pays(AddressRows(b), a, h) <=> h = Height[b] /\ a = Coinbase[b].address
  <1> DEFINE T == Transactions(b)
             row(i) == [txid |-> T[i], block |-> b, height |-> Height[b], position |-> i - 1]
             entry(x, i) == [address |-> x, height |-> Height[b], position |-> i - 1,
                             txid |-> T[i]]
  <1>1. PICK n \in Nat : DOMAIN T = 1..(n + 1) /\ T[1] = b
    <2>1. PICK s : s = BlockTxs[b]
      OBVIOUS
    <2>2. s \in Seq(DOMAIN Transfer) /\ T = <<b>> \o s
      BY <2>1, LedgerTypes DEF Transactions
    <2>3. s \in Seq(DOMAIN Transfer \cup {b}) /\ <<b>> \in Seq(DOMAIN Transfer \cup {b})
      BY <2>2
    <2>4. Len(<<b>>) = 1 /\ <<b>>[1] = b /\ Len(s) \in Nat
      BY <2>2
    <2> HIDE DEF T
    <2>5. DOMAIN T = 1..(Len(s) + 1) /\ T[1] = b
      BY <2>2, <2>3, <2>4
    <2> QED
      BY <2>4, <2>5
  <1>2. 1 \in DOMAIN T /\ \A i \in DOMAIN T : i - 1 = 0 => i = 1
    BY <1>1
  <1>3. AddressesOf(b) = {Coinbase[b].address}
    BY DEF AddressesOf
  <1>4. TxRows(b) = {row(i) : i \in DOMAIN T}
    BY DEF TxRows
  <1>5. AddressRows(b) = UNION {{entry(x, i) : x \in AddressesOf(T[i])} : i \in DOMAIN T}
    <2> DEFINE of(r) == {[address |-> x, height |-> r.height, position |-> r.position,
                          txid |-> r.txid] : x \in AddressesOf(r.txid)}
    <2>1. \A i \in DOMAIN T : of(row(i)) = {entry(x, i) : x \in AddressesOf(T[i])}
      OBVIOUS
    <2>2. AddressRows(b) = UNION {of(r) : r \in TxRows(b)}
      BY DEF AddressRows
    <2> HIDE DEF of, row, entry, T
    <2> QED
      BY <1>4, <2>1, <2>2
  <1>6. ASSUME Pays(AddressRows(b), a, h) PROVE h = Height[b] /\ a = Coinbase[b].address
    <2>1. PICK r \in AddressRows(b) : r.address = a /\ r.position = 0 /\ r.height = h
      BY <1>6 DEF Pays
    <2>2. PICK i \in DOMAIN T : \E x \in AddressesOf(T[i]) : r = entry(x, i)
      BY <1>5, <2>1
    <2>3. PICK x \in AddressesOf(T[i]) : r = entry(x, i)
      BY <2>2
    <2>4. a = x /\ h = Height[b] /\ i - 1 = 0
      BY <2>1, <2>3
    <2> QED
      BY <1>1, <1>2, <1>3, <2>3, <2>4
  <1>7. ASSUME h = Height[b], a = Coinbase[b].address PROVE Pays(AddressRows(b), a, h)
    <2>1. a \in AddressesOf(T[1])
      BY <1>1, <1>3, <1>7
    <2>2. entry(a, 1) \in AddressRows(b)
      BY <1>2, <1>5, <2>1
    <2>3. entry(a, 1).address = a /\ entry(a, 1).position = 0 /\ entry(a, 1).height = h
      BY <1>7
    <2> HIDE DEF entry
    <2> QED
      BY <2>2, <2>3 DEF Pays
  <1> QED
    BY <1>6, <1>7

\* The index of an accepted branch has the coinbases of the branch, no more.
LEMMA IndexedRewards ==
    ASSUME NEW b \in Block, Replayed[b].ok, NEW a, NEW h
    PROVE  Pays(Replayed[b].addressIndex, a, h)
              <=> h \in 0..Height[b] /\ a = Coinbase[At(b, h)].address
  <1> DEFINE Right(x) == Pays(Replayed[x].addressIndex, a, h)
                            <=> h \in 0..Height[x] /\ a = Coinbase[At(x, h)].address
             S == {x \in Block : Replayed[x].ok => Right(x)}
  <1>1. Genesis \in S
    <2>1. Genesis \in Block /\ Height[Genesis] = 0 /\ At(Genesis, 0) = Genesis
      BY TreeAssumption, AtOf, AncestorsSelf
    <2>2. Replayed[Genesis].addressIndex = AddressRows(Genesis)
      BY ReplayedStep DEF GenesisLedger
    <2>3. h \in 0..0 <=> h = 0
      OBVIOUS
    <2> QED
      BY <2>1, <2>2, <2>3, CoinbaseRow
  <1>2. ASSUME NEW x \in Block \ {Genesis}, Parent[x] \in S PROVE x \in S
    <2> SUFFICES ASSUME Replayed[x].ok PROVE Right(x)
      OBVIOUS
    <2>1. PICK p, L, k : p = Parent[x] /\ L = Replayed[p] /\ k = Height[p]
      OBVIOUS
    <2>2. p \in Block /\ Height[x] = k + 1 /\ k \in Nat
      BY <2>1, TreeAssumption, BlockFacts
    <2>3. Replayed[p].ok /\ Replayed[x] = Connect(L, x)
      BY <2>1, ReplayedFacts, ReplayedStep
    <2>4. Sound(L, p)
      BY <2>1, <2>2, <2>3, ReplayedFacts
    <2>5. Connect(L, x).addressIndex = L.addressIndex \cup AddressRows(x)
      BY <2>1, <2>3, <2>4, ConnectWrites
    <2>6. Pays(Replayed[x].addressIndex, a, h)
             <=> Pays(L.addressIndex, a, h) \/ Pays(AddressRows(x), a, h)
      BY <2>3, <2>5 DEF Pays
    <2>7. Pays(L.addressIndex, a, h) <=> h \in 0..k /\ a = Coinbase[At(p, h)].address
      BY <1>2, <2>1, <2>3
    <2>8. Pays(AddressRows(x), a, h) <=> h = k + 1 /\ a = Coinbase[x].address
      BY <2>2, CoinbaseRow
    <2>9. At(x, k + 1) = x
      BY <2>2, AtOf, AncestorsSelf
    <2>10. \A i \in 0..k : At(p, i) = At(x, i)
      BY <2>1, <2>2, AtShared, AncestorsStep, AncestorsSelf
    <2>11. h \in 0..(k + 1) <=> h \in 0..k \/ h = k + 1
      BY <2>2
    <2> QED
      BY <2>2, <2>6, <2>7, <2>8, <2>9, <2>10, <2>11
  <1> HIDE DEF S
  <1>3. Block \subseteq S
    BY <1>1, <1>2, UpTheTree
  <1> QED
    BY <1>3 DEF S

\* What the node tells a wallet is immature is what its branch holds for it.
LEMMA ImmatureIsHeld ==
    ASSUME AcceptsIsReplay, LedgerInv, NEW a \in Address
    PROVE  Immature(a) = Held(Tip)[a]
  <1>1. PICK t, heights, f :
            /\ t = Tip /\ heights = CoinbaseHeights(a, TipHeight - CoinbaseMaturity)
            /\ f = [h \in heights |-> Coinbase[MainBlock(Tables, h)].amount]
    OBVIOUS
  <1>2. /\ t \in Block /\ main = Ancestors[t] /\ TipHeight = Height[t]
        /\ Tables = Replayed[t] /\ Replayed[t].ok
    BY <1>1, TablesFacts
  <1>3. Tables.main = main /\ Tables.addressIndex = addressIndex
    BY DEF Tables
  <1>4. \A h : h \in heights <=> Pays(addressIndex, a, h) /\ h > Height[t] - CoinbaseMaturity
    BY <1>1, <1>2 DEF CoinbaseHeights, Pays
  <1>5. \A h : Pays(addressIndex, a, h) <=> h \in 0..Height[t] /\ a = Coinbase[At(t, h)].address
    BY <1>2, <1>3, IndexedRewards
  <1>6. heights = Unripe(t, a)
    <2>1. \A h : h \in heights <=> h \in Unripe(t, a)
      BY <1>4, <1>5 DEF Unripe
    <2> QED
      BY <2>1
  <1>7. \A h \in heights : f[h] = Rewards(t)[h]
    <2> TAKE h \in heights
    <2>1. MainBlock(Tables, h) = At(t, h)
      BY <1>2, <1>3 DEF MainBlock, At
    <2>2. h \in 0..Height[t]
      BY <1>4, <1>5
    <2> QED
      BY <1>1, <2>1, <2>2 DEF Rewards
  <1>8. SumOver(heights, f) = SumOver(heights, Rewards(t))
    BY <1>7, SumSame
  <1>9. Immature(a) = SumOver(heights, f)
    BY <1>1 DEF Immature
  <1>10. Held(t)[a] = SumOver(Unripe(t, a), Rewards(t))
    BY DEF Held
  <1> QED
    BY <1>1, <1>6, <1>8, <1>9, <1>10

\* Coins are neither made nor lost: whatever was switched, rolled back, imported
\* or interrupted, the balances and the rewards still to mature add up to one
\* block reward for every block of the active chain.
THEOREM SupplyIsConserved == AcceptsIsReplay => (LSpec => []SupplyConserved)
  <1> SUFFICES ASSUME AcceptsIsReplay PROVE LSpec => []SupplyConserved
    OBVIOUS
  <1>1. ASSUME LedgerInv PROVE SupplyConserved
    <2>1. /\ Tip \in Block /\ TipHeight = Height[Tip] /\ Replayed[Tip].ok
          /\ Tables = Replayed[Tip] /\ Tables.accounts = accounts
      BY <1>1, TablesFacts DEF Tables
    <2>2. \A a \in Address : Owned(a) = accounts[a].balance + Held(Tip)[a]
      BY <1>1, ImmatureIsHeld DEF Owned
    <2>3. [a \in Address |-> Owned(a)] = [a \in Address |-> accounts[a].balance + Held(Tip)[a]]
      BY <2>2
    <2>4. SumOver(Address, [a \in Address |-> Owned(a)]) = Wealth(accounts, Held(Tip))
      BY <2>3 DEF Wealth
    <2>5. Wealth(accounts, Held(Tip)) = BlockReward * (Height[Tip] + 1)
      BY <2>1, SupplyOfBranch
    <2> QED
      BY <2>1, <2>4, <2>5 DEF SupplyConserved
  <1> QED
    BY <1>1, LedgerInvariant, PTL

-----------------------------------------------------------------------------
(* More about sums *)

\* Fewer summands, or smaller ones, add up to no more.
LEMMA SumSmaller ==
    ASSUME NEW S, IsFiniteSet(S), NEW R \in SUBSET S, NEW f, NEW g,
           \A x \in S : g[x] \in Nat, \A x \in R : f[x] \in Nat /\ f[x] <= g[x]
    PROVE  SumOver(R, f) \in Nat /\ SumOver(S, g) \in Nat /\ SumOver(R, f) <= SumOver(S, g)
  <1> DEFINE U == UNION {{x} \X (1..f[x]) : x \in R}
             V == UNION {{x} \X (1..g[x]) : x \in S}
  <1>1. IsFiniteSet(V) /\ SumOver(S, g) \in Nat
    BY SumType
  <1>2. IsFiniteSet(R)
    BY FS_Subset
  <1>3. SumOver(R, f) \in Nat
    BY <1>2, SumType
  <1>4. ASSUME NEW p \in U PROVE p \in V
    <2>1. PICK x \in R : p \in {x} \X (1..f[x])
      OBVIOUS
    <2>2. f[x] \in Nat /\ g[x] \in Nat /\ f[x] <= g[x] /\ x \in S
      OBVIOUS
    <2>3. 1..f[x] \subseteq 1..g[x]
      BY <2>2
    <2>4. p \in {x} \X (1..g[x])
      BY <2>1, <2>3
    <2> QED
      BY <2>2, <2>4
  <1>5. SumOver(R, f) = Cardinality(U) /\ SumOver(S, g) = Cardinality(V)
    BY DEF SumOver
  <1> HIDE DEF U, V
  <1>6. Cardinality(U) <= Cardinality(V)
    BY <1>1, <1>4, FS_Subset
  <1> QED
    BY <1>1, <1>3, <1>5, <1>6

LEMMA SumOne ==
    ASSUME NEW a, NEW f, f[a] \in Nat
    PROVE  SumOver({a}, f) = f[a]
  <1>1. IsFiniteSet({}) /\ SumOver({}, f) = 0
    BY FS_EmptySet, SumEmpty
  <1>2. SumOver({} \cup {a}, f) = SumOver({}, f) + f[a]
    BY <1>1, SumMore
  <1>3. {} \cup {a} = {a}
    OBVIOUS
  <1> QED
    BY <1>1, <1>2, <1>3

\* Each summand is no more than the sum.
LEMMA SumPart ==
    ASSUME NEW S, IsFiniteSet(S), NEW a \in S, NEW f, \A x \in S : f[x] \in Nat
    PROVE  f[a] <= SumOver(S, f)
  <1>1. SumOver({a}, f) = f[a]
    BY SumOne
  <1>2. {a} \in SUBSET S /\ \A x \in {a} : f[x] \in Nat /\ f[x] <= f[x]
    OBVIOUS
  <1>3. SumOver({a}, f) <= SumOver(S, f)
    BY <1>2, SumSmaller
  <1> QED
    BY <1>1, <1>3

\* Summands that are zero can be left out.
LEMMA SumNonzero ==
    ASSUME NEW S, NEW R \in SUBSET S, NEW f, NEW g,
           \A x \in R : f[x] = g[x], \A x \in S \ R : f[x] = 0
    PROVE  SumOver(S, f) = SumOver(R, g)
  <1>1. UNION {{x} \X (1..f[x]) : x \in S} = UNION {{x} \X (1..g[x]) : x \in R}
    <2>1. ASSUME NEW p \in UNION {{x} \X (1..f[x]) : x \in S}
          PROVE  p \in UNION {{x} \X (1..g[x]) : x \in R}
      <3>1. PICK x \in S : p \in {x} \X (1..f[x])
        OBVIOUS
      <3>2. x \in R
        <4> SUFFICES ASSUME x \notin R PROVE FALSE
          OBVIOUS
        <4>1. 1..f[x] = {}
          OBVIOUS
        <4> QED
          BY <3>1, <4>1
      <3> QED
        BY <3>1, <3>2
    <2>2. ASSUME NEW p \in UNION {{x} \X (1..g[x]) : x \in R}
          PROVE  p \in UNION {{x} \X (1..f[x]) : x \in S}
      <3>1. PICK x \in R : p \in {x} \X (1..g[x])
        OBVIOUS
      <3>2. x \in S /\ p \in {x} \X (1..f[x])
        BY <3>1
      <3> QED
        BY <3>2
    <2> QED
      BY <2>1, <2>2
  <1> QED
    BY <1>1 DEF SumOver

-----------------------------------------------------------------------------
(* Waiting transfers that could be mined *)

\* Of the transfers P, those a sends have the nonces from a's account on, without
\* a gap, and a's balance covers them.
ValidFor(a, P, acc) ==
    /\ \A t \in PendingFor(a, P) : acc[a].nonce <= Nonce(t)
    /\ \A t \in PendingFor(a, P) : \A n \in acc[a].nonce..(Nonce(t) - 1) :
          \E u \in PendingFor(a, P) : Nonce(u) = n
    /\ SpentBy(PendingFor(a, P)) <= acc[a].balance

AllSpent == [t \in Txs |-> TotalSpent(t)]

LEMMA SpentFacts ==
    ASSUME NEW P \in SUBSET Txs
    PROVE  /\ SpentBy(P) = SumOver(P, AllSpent)
           /\ \A t \in Txs : AllSpent[t] \in Nat /\ AllSpent[t] = TotalSpent(t)
           /\ IsFiniteSet(P) => SpentBy(P) \in Nat
  <1>1. \A t \in Txs : AllSpent[t] \in Nat /\ AllSpent[t] = TotalSpent(t)
    BY TotalSpentType DEF AllSpent, Txs
  <1>2. \A t \in P : [u \in P |-> TotalSpent(u)][t] = AllSpent[t]
    BY <1>1
  <1> DEFINE f == [u \in P |-> TotalSpent(u)]
  <1>3. \A t \in P : f[t] = AllSpent[t]
    BY <1>2
  <1>4. SpentBy(P) = SumOver(P, f)
    BY DEF SpentBy
  <1> HIDE DEF f
  <1>5. SpentBy(P) = SumOver(P, AllSpent)
    BY <1>3, <1>4, SumSame
  <1>6. IsFiniteSet(P) => SumOver(P, AllSpent) \in Nat
    BY <1>1, SumType
  <1> QED
    BY <1>1, <1>5, <1>6

LEMMA SpentMonotone ==
    ASSUME NEW P \in SUBSET Txs, IsFiniteSet(P), NEW Q \in SUBSET P
    PROVE  SpentBy(Q) \in Nat /\ SpentBy(P) \in Nat /\ SpentBy(Q) <= SpentBy(P)
  <1>1. /\ SpentBy(P) = SumOver(P, AllSpent) /\ SpentBy(Q) = SumOver(Q, AllSpent)
        /\ \A t \in Txs : AllSpent[t] \in Nat
    BY SpentFacts
  <1>2. \A x \in Q : AllSpent[x] \in Nat /\ AllSpent[x] <= AllSpent[x]
    BY <1>1
  <1> QED
    BY <1>1, <1>2, SumSmaller

LEMMA SpentMore ==
    ASSUME NEW P \in SUBSET Txs, IsFiniteSet(P), NEW t \in Txs, t \notin P
    PROVE  SpentBy(P \cup {t}) = SpentBy(P) + TotalSpent(t)
  <1>1. \A x \in Txs : AllSpent[x] \in Nat /\ AllSpent[x] = TotalSpent(x)
    BY SpentFacts
  <1>2. P \cup {t} \in SUBSET Txs
    OBVIOUS
  <1>3. SpentBy(P \cup {t}) = SumOver(P \cup {t}, AllSpent) /\ SpentBy(P) = SumOver(P, AllSpent)
    BY <1>2, SpentFacts
  <1>4. SumOver(P \cup {t}, AllSpent) = SumOver(P, AllSpent) + AllSpent[t]
    BY <1>1, SumMore
  <1> QED
    BY <1>1, <1>3, <1>4

\* Nothing waits.
LEMMA NoneValid ==
    ASSUME NEW a \in Address, NEW P, PendingFor(a, P) = {}, NEW acc \in [Address -> Account]
    PROVE  ValidFor(a, P, acc)
  <1>1. SpentBy({}) = 0
    BY SumEmpty DEF SpentBy
  <1>2. acc[a].balance \in Nat
    BY DEF Account
  <1> QED
    BY <1>1, <1>2 DEF ValidFor

\* Dropping a sender's last transfers, or none.
LEMMA FewerValid ==
    ASSUME NEW a \in Address, NEW P \in SUBSET Txs, IsFiniteSet(P), NEW Q \in SUBSET P,
           NEW acc \in [Address -> Account], ValidFor(a, P, acc),
           \A u \in Q, v \in P : Sender(u) = a /\ Sender(v) = a /\ Nonce(v) < Nonce(u) => v \in Q
    PROVE  ValidFor(a, Q, acc)
  <1>1. PICK R, S : R = PendingFor(a, Q) /\ S = PendingFor(a, P)
    OBVIOUS
  <1>2. /\ R \in SUBSET S /\ S \in SUBSET Txs /\ S \in SUBSET P
        /\ \A u \in R, v \in S : Nonce(v) < Nonce(u) => v \in R
    BY <1>1 DEF PendingFor
  <1>3. IsFiniteSet(S)
    BY <1>2, FS_Subset
  <1>4. SpentBy(R) <= SpentBy(S) /\ SpentBy(R) \in Nat /\ SpentBy(S) \in Nat
    BY <1>2, <1>3, SpentMonotone
  <1>5. acc[a].balance \in Nat /\ acc[a].nonce \in Nat
    BY DEF Account
  <1>6. /\ \A t \in S : acc[a].nonce <= Nonce(t)
        /\ \A t \in S : \A n \in acc[a].nonce..(Nonce(t) - 1) : \E u \in S : Nonce(u) = n
        /\ SpentBy(S) <= acc[a].balance
    BY <1>1 DEF ValidFor
  <1>7. SpentBy(R) <= acc[a].balance
    BY <1>4, <1>5, <1>6
  <1>8. \A t \in S : Nonce(t) \in Nat
    BY <1>2, NonceType
  <1>9. ASSUME NEW t \in R, NEW n \in acc[a].nonce..(Nonce(t) - 1)
        PROVE  \E u \in R : Nonce(u) = n
    <2>1. PICK u \in S : Nonce(u) = n
      BY <1>2, <1>6
    <2>2. t \in S /\ Nonce(t) \in Nat /\ n < Nonce(t)
      BY <1>2, <1>5, <1>8
    <2>3. u \in R
      BY <1>2, <2>1, <2>2
    <2> QED
      BY <2>1, <2>3
  <1> QED
    BY <1>1, <1>2, <1>6, <1>7, <1>9 DEF ValidFor

\* Other senders.
LEMMA OthersValid ==
    ASSUME NEW a, NEW P, NEW Q, PendingFor(a, Q) = PendingFor(a, P),
           NEW acc, ValidFor(a, P, acc)
    PROVE  ValidFor(a, Q, acc)
  BY DEF ValidFor

\* A balance that has grown.
LEMMA RicherValid ==
    ASSUME NEW a \in Address, NEW P \in SUBSET Txs, IsFiniteSet(P),
           NEW acc \in [Address -> Account], NEW new \in [Address -> Account],
           ValidFor(a, P, acc), new[a].nonce = acc[a].nonce, acc[a].balance <= new[a].balance
    PROVE  ValidFor(a, P, new)
  <1>1. PICK S : S = PendingFor(a, P)
    OBVIOUS
  <1>2. S \in SUBSET P
    BY <1>1 DEF PendingFor
  <1>3. SpentBy(S) \in Nat
    BY <1>2, SpentMonotone
  <1>4. acc[a].balance \in Nat /\ new[a].balance \in Nat
    BY DEF Account
  <1>5. SpentBy(S) <= acc[a].balance
    BY <1>1 DEF ValidFor
  <1>6. SpentBy(S) <= new[a].balance
    BY <1>3, <1>4, <1>5
  <1> QED
    BY <1>1, <1>6 DEF ValidFor

\* A sender's transfers are as many as the nonces they fill.
LEMMA NoGap ==
    ASSUME NEW a \in Address, NEW P \in SUBSET Txs, IsFiniteSet(P),
           \A x, y \in P : Sender(x) = Sender(y) /\ Nonce(x) = Nonce(y) => x = y,
           NEW acc \in [Address -> Account], ValidFor(a, P, acc),
           NEW n \in Nat, acc[a].nonce <= n,
           n < acc[a].nonce + Cardinality(PendingFor(a, P))
    PROVE  \E u \in PendingFor(a, P) : Nonce(u) = n
  <1> SUFFICES ASSUME \A u \in PendingFor(a, P) : Nonce(u) # n PROVE FALSE
    OBVIOUS
  <1>1. PICK S, k : S = PendingFor(a, P) /\ k = acc[a].nonce
    OBVIOUS
  <1>2. k \in Nat /\ k <= n /\ n < k + Cardinality(S)
    BY <1>1 DEF Account
  <1>3. /\ S \in SUBSET P /\ S \in SUBSET Txs
        /\ \A x, y \in S : Nonce(x) = Nonce(y) => x = y
    BY <1>1 DEF PendingFor
  <1>4. IsFiniteSet(S)
    BY <1>3, FS_Subset
  <1>5. ASSUME NEW t \in S PROVE Nonce(t) \in k..(n - 1)
    <2>1. Nonce(t) \in Nat
      BY <1>3, NonceType
    <2>2. k <= Nonce(t)
      BY <1>1 DEF ValidFor
    <2>3. ~(Nonce(t) > n)
      <3> SUFFICES ASSUME Nonce(t) > n PROVE FALSE
        OBVIOUS
      <3>1. n \in k..(Nonce(t) - 1)
        BY <1>2, <2>1
      <3>2. \E u \in S : Nonce(u) = n
        BY <1>1, <3>1 DEF ValidFor
      <3> QED
        BY <1>1, <3>2
    <2>4. Nonce(t) # n
      BY <1>1
    <2> QED
      BY <1>2, <2>1, <2>2, <2>3, <2>4
  <1> DEFINE T == k..(n - 1)
             f == [t \in S |-> Nonce(t)]
  <1>6. f \in Injection(S, T)
    <2>1. f \in [S -> T]
      BY <1>5
    <2>2. \A x, y \in S : f[x] = f[y] => x = y
      BY <1>3
    <2> QED
      BY <2>1, <2>2, Zenon DEF Injection, IsInjective
  <1>7. IsFiniteSet(T) /\ Cardinality(T) = n - k
    <2>1. k \in Int /\ n - 1 \in Int
      BY <1>2
    <2> DEFINE m == n - 1
    <2>2. m \in Int /\ m = n - 1
      BY <2>1
    <2> HIDE DEF m
    <2>3. IsFiniteSet(k..m) /\ Cardinality(k..m) = IF k > m THEN 0 ELSE m - k + 1
      BY <2>1, <2>2, FS_Interval
    <2> QED
      BY <1>2, <2>2, <2>3
  <1> HIDE DEF f, T
  <1>8. Cardinality(S) <= Cardinality(T)
    BY <1>6, <1>7, FS_Injection
  <1>9. Cardinality(S) \in Nat
    BY <1>4, FS_CardinalityType
  <1> QED
    BY <1>2, <1>7, <1>8, <1>9

\* A transfer that _insert accepts: it continues its sender's nonces or takes
\* the place of one, and the sender can pay for all.
LEMMA InsertedValid ==
    ASSUME NEW P \in SUBSET Txs, IsFiniteSet(P),
           \A x, y \in P : Sender(x) = Sender(y) /\ Nonce(x) = Nonce(y) => x = y,
           accounts \in [Address -> Account],
           NEW t \in Txs, t \notin P, Insertable(t, P), NEW a \in Address,
           ValidFor(a, P, accounts), NEW Q, Q = (P \ Replaced(t, P)) \cup {t}
    PROVE  ValidFor(a, Q, accounts)
  <1>1. CASE a # Sender(t)
    <2>1. PendingFor(a, Q) = PendingFor(a, P)
      BY <1>1 DEF PendingFor, Replaced, Pending
    <2> QED
      BY <2>1, OthersValid
  <1>2. CASE a = Sender(t)
    <2>1. PICK S, R, k : S = PendingFor(a, P) /\ R = Replaced(t, P) /\ k = accounts[a].nonce
      OBVIOUS
    <2>2. /\ S \in SUBSET P /\ S \in SUBSET Txs /\ R = {u \in S : Nonce(u) = Nonce(t)}
          /\ S = Pending(t, P) /\ t \notin S /\ PendingFor(a, Q) = (S \ R) \cup {t}
          /\ \A x, y \in S : Nonce(x) = Nonce(y) => x = y
      BY <1>2, <2>1 DEF PendingFor, Replaced, Pending
    <2>3. IsFiniteSet(S)
      BY <2>2, FS_Subset
    <2>4. S \ R \in SUBSET Txs /\ IsFiniteSet(S \ R) /\ t \notin S \ R
      BY <2>2, <2>3, FS_Subset
    <2>5. k \in Nat /\ Nonce(t) \in Nat /\ \A u \in S : Nonce(u) \in Nat
      BY <2>1, <2>2, NonceType DEF Account
    <2>6. SpentBy((S \ R) \cup {t}) <= accounts[a].balance
      <3>1. TotalSpent(t) + SpentBy(S \ R) <= accounts[a].balance
        BY <1>2, <2>1, <2>2 DEF Insertable, CanAfford
      <3>2. SpentBy((S \ R) \cup {t}) = SpentBy(S \ R) + TotalSpent(t)
        BY <2>4, SpentMore
      <3>3. SpentBy(S \ R) \in Nat /\ TotalSpent(t) \in Nat
        BY <2>4, SpentFacts, TotalSpentType DEF Txs
      <3> QED
        BY <3>1, <3>2, <3>3
    <2>7. k <= Nonce(t)
      BY <1>2, <2>1, <2>5 DEF Insertable
    <2>8. \A u \in S : k <= Nonce(u)
      BY <2>1 DEF ValidFor
    <2>9. \A u \in S : \A n \in k..(Nonce(u) - 1) : \E w \in S : Nonce(w) = n
      BY <2>1 DEF ValidFor
    <2>10. ASSUME NEW n \in k..(Nonce(t) - 1) PROVE \E w \in S : Nonce(w) = n
      <3>1. CASE R = {}
        <4>1. Nonce(t) = k + Cardinality(S)
          BY <1>2, <2>1, <2>2, <3>1 DEF Insertable
        <4>2. n \in Nat /\ k <= n /\ n < k + Cardinality(S)
          BY <2>5, <4>1
        <4> QED
          BY <2>1, <4>2, NoGap
      <3>2. CASE R # {}
        <4>1. PICK r \in S : Nonce(r) = Nonce(t)
          BY <2>2, <3>2
        <4> QED
          BY <2>9, <4>1
      <3> QED
        BY <3>1, <3>2
    <2>11. ASSUME NEW u \in (S \ R) \cup {t}, NEW n \in k..(Nonce(u) - 1)
           PROVE  \E w \in (S \ R) \cup {t} : Nonce(w) = n
      <3>1. PICK w \in S : Nonce(w) = n
        BY <2>9, <2>10
      <3>2. CASE w \in R
        BY <2>2, <3>1, <3>2
      <3>3. CASE w \notin R
        BY <3>1, <3>3
      <3> QED
        BY <3>2, <3>3
    <2> QED
      BY <2>1, <2>2, <2>6, <2>7, <2>8, <2>11 DEF ValidFor
  <1> QED
    BY <1>1, <1>2

-----------------------------------------------------------------------------
(* The waiting transfers follow the chain *)

\* As long as no call has ended with an exception: whenever the mempool is not
\* waiting for update, every sender's waiting transfers are valid on the tip;
\* and while it is, those of everyone who sends nothing in the new blocks,
\* unless blocks were undone, after which update looks at everyone again.
Sending(bs) == {Sender(t) : t \in TxsOf(bs)}

ValidInv ==
    /\ pc = "importTx" => connected = {}
    /\ raised = "never" =>
          /\ mp # "due" => \A a \in Address : ValidFor(a, pool, accounts)
          /\ mp = "due" /\ disconnected = {} =>
                \A a \in Address \ Sending(connected) : ValidFor(a, pool, accounts)

Ready == EvictInv /\ ValidInv /\ accounts \in [Address -> Account]

LEMMA SenderIsAddress ==
    ASSUME NEW t \in Txs
    PROVE  Sender(t) \in Address
  BY LedgerAssumption DEF Txs, Sender

\* The mempool's steps; the chain and the balances stay.
LEMMA PoolStepValid ==
    ASSUME Ready, UNCHANGED lvars, raised = "never", mp # "due", mp' # "due",
           \A a \in Address : ValidFor(a, pool, accounts) => ValidFor(a, pool', accounts)
    PROVE  ValidInv'
  <1>1. /\ accounts' = accounts /\ connected' = connected /\ pc' = pc /\ raised' = raised
    BY DEF lvars, vars, callVars, ledgerVars
  <1>2. \A a \in Address : ValidFor(a, pool, accounts)
    BY DEF Ready, ValidInv
  <1>3. \A a \in Address : ValidFor(a, pool', accounts')
    BY <1>1, <1>2
  <1>4. \A a \in Address : ValidFor(a, pool, accounts)'
    BY <1>3 DEF ValidFor
  <1>5. (pc = "importTx" => connected = {})'
    BY <1>1 DEF Ready, ValidInv
  <1> QED
    BY <1>4, <1>5 DEF ValidInv

LEMMA AfterException ==
    ASSUME Ready, UNCHANGED lvars, raised # "never"
    PROVE  ValidInv'
  BY DEF Ready, ValidInv, lvars, vars, callVars

LEMMA InsertValid ==
    ASSUME Ready, UNCHANGED lvars, raised = "never", mp # "due",
           NEW t \in Txs, t \notin pool, Insertable(t, pool), Insert(t)
    PROVE  ValidInv'
  <1>1. pool' = (pool \ Replaced(t, pool)) \cup {t} /\ mp' = "trim"
    BY DEF Insert
  <1>2. /\ pool \in SUBSET Txs /\ IsFiniteSet(pool) /\ accounts \in [Address -> Account]
        /\ \A x, y \in pool : Sender(x) = Sender(y) /\ Nonce(x) = Nonce(y) => x = y
    BY DEF Ready, EvictInv, Waiting, OneForEachNonce
  <1>3. PICK Q : Q = (pool \ Replaced(t, pool)) \cup {t}
    OBVIOUS
  <1>4. \A a \in Address : ValidFor(a, pool, accounts) => ValidFor(a, Q, accounts)
    BY <1>2, <1>3, InsertedValid
  <1>5. \A a \in Address : ValidFor(a, pool, accounts) => ValidFor(a, pool', accounts)
    BY <1>1, <1>3, <1>4
  <1> QED
    BY <1>1, <1>5, PoolStepValid

LEMMA DropValid ==
    ASSUME Ready, UNCHANGED lvars, raised = "never", mp # "due", mp' # "due",
           pool' \in SUBSET pool,
           \A u \in pool', v \in pool : Sender(u) = Sender(v) /\ Nonce(v) < Nonce(u) => v \in pool'
    PROVE  ValidInv'
  <1>1. PICK Q : Q = pool'
    OBVIOUS
  <1>2. /\ pool \in SUBSET Txs /\ IsFiniteSet(pool) /\ accounts \in [Address -> Account]
        /\ Q \in SUBSET pool
    BY <1>1 DEF Ready, EvictInv, Waiting
  <1>3. ASSUME NEW a \in Address, ValidFor(a, pool, accounts) PROVE ValidFor(a, Q, accounts)
    <2>1. \A u \in Q, v \in pool :
             Sender(u) = a /\ Sender(v) = a /\ Nonce(v) < Nonce(u) => v \in Q
      BY <1>1
    <2> QED
      BY <1>2, <1>3, <2>1, FewerValid
  <1> QED
    BY <1>1, <1>3, PoolStepValid

LEMMA MempoolStepValid ==
    ASSUME Ready, MempoolStep
    PROVE  ValidInv'
  <1>0. UNCHANGED lvars /\ pool \in SUBSET Txs /\ todo \in SUBSET Txs
    BY DEF MempoolStep, Ready, EvictInv, Waiting
  <1> SUFFICES ASSUME raised = "never" PROVE ValidInv'
    BY <1>0, AfterException
  <1>1. CASE TrimStep
    <2>1. mp = "trim" /\ mp' = "trim"
      BY <1>1 DEF TrimStep
    <2>2. PICK t \in evictable : \/ t \in Lasts(pool) /\ pool' = pool \ {t}
                                 \/ pool' = pool
      BY <1>1 DEF TrimStep
    <2>3. \A u \in pool', v \in pool : Sender(u) = Sender(v) /\ Nonce(v) < Nonce(u) => v \in pool'
      <3>1. CASE pool' = pool
        BY <3>1
      <3>2. CASE t \in Lasts(pool) /\ pool' = pool \ {t}
        <4> SUFFICES ASSUME NEW u \in pool', Sender(u) = Sender(t), Nonce(t) < Nonce(u)
                     PROVE  FALSE
          BY <3>2
        <4>1. Nonce(u) <= Nonce(t) /\ t \in pool /\ u \in pool
          BY <3>2 DEF Lasts, Pending, PendingFor
        <4>2. Nonce(u) \in Nat /\ Nonce(t) \in Nat
          BY <1>0, <4>1, NonceType
        <4> QED
          BY <4>1, <4>2
      <3> QED
        BY <2>2, <3>1, <3>2
    <2>4. pool' \in SUBSET pool
      BY <2>2
    <2> QED
      BY <1>0, <2>1, <2>3, <2>4, DropValid
  <1>2. CASE TrimDone
    BY <1>0, <1>2, PoolStepValid DEF TrimDone
  <1>3. CASE PutBack
    <2>1. mp = "update"
      BY <1>3 DEF PutBack
    <2>2. PICK t \in todo : IF t \notin pool /\ Insertable(t, pool)
                            THEN Insert(t)
                            ELSE /\ mp' \in {"idle", "update"}
                                 /\ pool' = pool
      BY <1>3 DEF PutBack
    <2>3. CASE t \notin pool /\ Insertable(t, pool)
      BY <1>0, <2>1, <2>2, <2>3, InsertValid
    <2>4. CASE ~(t \notin pool /\ Insertable(t, pool))
      BY <1>0, <2>1, <2>2, <2>4, PoolStepValid
    <2> QED
      BY <2>3, <2>4
  <1> QED
    BY <1>1, <1>2, <1>3 DEF MempoolStep

LEMMA AddValid ==
    ASSUME Ready, NEW t \in Offers, SubmitTransaction(t)
    PROVE  ValidInv'
  <1>1. /\ UNCHANGED lvars /\ t \in Txs /\ mp = "idle" /\ t \notin pool
        /\ Insertable(t, pool) /\ Insert(t)
    BY ServiceAssumption DEF SubmitTransaction, Add
  <1> QED
    BY <1>1, InsertValid, AfterException

LEMMA ExpireValid ==
    ASSUME Ready, ExpireOld
    PROVE  ValidInv'
  <1>1. PICK t \in pool : Expire(t)
    BY DEF ExpireOld
  <1> DEFINE gone == {u \in Pending(t, pool) : Nonce(u) >= Nonce(t)}
  <1>2. pool' = pool \ gone /\ mp = "idle" /\ mp' = mp /\ UNCHANGED lvars
    BY <1>1 DEF Expire, ExpireOld
  <1>3. \A u \in pool : Nonce(u) \in Nat
    BY NonceType DEF Ready, EvictInv, Waiting
  <1>4. \A u \in pool : u \in gone <=> Sender(u) = Sender(t) /\ Nonce(u) >= Nonce(t)
    BY DEF Pending, PendingFor
  <1>5. \A u \in pool', v \in pool : Sender(u) = Sender(v) /\ Nonce(v) < Nonce(u) => v \in pool'
    BY <1>2, <1>3, <1>4
  <1> HIDE DEF gone
  <1> QED
    BY <1>2, <1>5, DropValid, AfterException

\* update takes out whatever the chain may have made invalid.
LEMMA UpdateValid ==
    ASSUME Ready, ServiceUpdate
    PROVE  ValidInv'
  <1>0. /\ pc = "idle" /\ UNCHANGED lvars /\ mp = "due" /\ mp' \in {"idle", "update"}
        /\ pool' = pool \ {t \in pool : Sender(t) \in Rechecked(connected, disconnected)}
    BY DEF ServiceUpdate, Update
  <1>1. /\ accounts' = accounts /\ pc' = pc /\ raised' = raised
        /\ pool \in SUBSET Txs /\ accounts \in [Address -> Account]
    BY <1>0 DEF lvars, vars, callVars, ledgerVars, Ready, EvictInv, Waiting
  <1> SUFFICES ASSUME raised = "never" PROVE ValidInv'
    BY <1>0, AfterException
  <1>2. ASSUME NEW a \in Address PROVE ValidFor(a, pool', accounts)
    <2>1. CASE disconnected # {}
      <3>1. pool' = {}
        BY <1>0, <2>1 DEF Rechecked
      <3>2. PendingFor(a, pool') = {}
        BY <3>1 DEF PendingFor
      <3>3. PICK Q : Q = pool'
        OBVIOUS
      <3> QED
        BY <1>1, <3>2, <3>3, NoneValid
    <2>2. CASE disconnected = {} /\ a \in Sending(connected)
      <3>1. PendingFor(a, pool') = {}
        BY <1>0, <2>2 DEF PendingFor, Rechecked, Sending
      <3>2. PICK Q : Q = pool'
        OBVIOUS
      <3> QED
        BY <1>1, <3>1, <3>2, NoneValid
    <2>3. CASE disconnected = {} /\ a \notin Sending(connected)
      <3>1. PendingFor(a, pool') = PendingFor(a, pool)
        BY <1>0, <2>3 DEF PendingFor, Rechecked, Sending
      <3>2. ValidFor(a, pool, accounts)
        BY <1>0, <2>3 DEF Ready, ValidInv
      <3>3. PICK Q : Q = pool'
        OBVIOUS
      <3> QED
        BY <3>1, <3>2, <3>3, OthersValid
    <2> QED
      BY <2>1, <2>2, <2>3
  <1>3. \A a \in Address : ValidFor(a, pool, accounts)'
    BY <1>1, <1>2 DEF ValidFor
  <1> QED
    BY <1>0, <1>1, <1>3 DEF ValidInv

-----------------------------------------------------------------------------
(* What one transfer does to every balance *)

\* The sender has paid for t, and nobody has got anything yet.
Charge(o, t) ==
    LET account == Get(o, Transfer[t].sender)
        paid == Set(o, Transfer[t].sender, [balance |-> account.balance - TotalSpent(t),
                                            nonce |-> account.nonce + 1])
    IN  [paid EXCEPT !.fees = @ + Transfer[t].fee]

CanPay(o, t) == o.ok /\ CanSpend(t, Get(o, Transfer[t].sender))

LEMMA ChargeFacts ==
    ASSUME NEW B \in [Address -> Account], NEW o \in Overlays(B), NEW t \in DOMAIN Transfer,
           CanPay(o, t)
    PROVE  /\ Charge(o, t) \in Overlays(B) /\ Charge(o, t).ok
           /\ Charge(o, t).fees = o.fees + Transfer[t].fee
           /\ ApplyTransfer(o, t) = Fold(Credit, Charge(o, t), Transfer[t].outputs)
           /\ \A a \in Address : a # Transfer[t].sender => Get(Charge(o, t), a) = Get(o, a)
           /\ Get(Charge(o, t), Transfer[t].sender).balance + TotalSpent(t)
                 = Get(o, Transfer[t].sender).balance
  <1>1. PICK sender, fee, n, account : /\ sender = Transfer[t].sender /\ fee = Transfer[t].fee
                                       /\ n = TotalSpent(t) /\ account = Get(o, sender)
    OBVIOUS
  <1>2. sender \in Address /\ fee \in Nat /\ n \in Nat /\ account \in Account
    BY <1>1, LedgerTypes, TotalSpentType, GetFacts
  <1>3. n <= account.balance /\ o.ok
    BY <1>1 DEF CanPay, CanSpend
  <1>4. PICK v : v = [balance |-> account.balance - n, nonce |-> account.nonce + 1]
    OBVIOUS
  <1>5. v \in Account /\ v.balance + n = account.balance
    BY <1>2, <1>3, <1>4, LedgerTypes DEF Account
  <1>6. PICK paid : paid = Set(o, sender, v)
    OBVIOUS
  <1>7. /\ paid \in Overlays(B) /\ paid.ok = o.ok /\ paid.fees = o.fees
        /\ \A a \in Address : Get(paid, a) = IF a = sender THEN v ELSE Get(o, a)
    BY <1>2, <1>5, <1>6, SetFacts
  <1>8. PICK charged : charged = [paid EXCEPT !.fees = @ + fee]
    OBVIOUS
  <1>9. /\ charged \in Overlays(B) /\ charged.ok = paid.ok /\ charged.fees = paid.fees + fee
        /\ \A a \in Address : Get(charged, a) = Get(paid, a)
    BY <1>2, <1>7, <1>8, ChargedFacts
  <1>10. Charge(o, t) = charged
    BY <1>1, <1>4, <1>6, <1>8, Zenon DEF Charge
  <1>11. ApplyTransfer(o, t) = Fold(Credit, charged, Transfer[t].outputs)
    <2>1. ApplyTransfer(o, t) = Fold(Credit, Charge(o, t), Transfer[t].outputs)
      BY Zenon DEF ApplyTransfer, Charge, CanPay
    <2> QED
      BY <1>10, <2>1
  <1>12. Get(charged, sender) = v /\ \A a \in Address : a # sender => Get(charged, a) = Get(o, a)
    BY <1>2, <1>7, <1>9
  <1> QED
    BY <1>1, <1>3, <1>5, <1>7, <1>9, <1>10, <1>11, <1>12

\* A transfer that is applied could be paid for.
LEMMA AppliedSpends ==
    ASSUME NEW B \in [Address -> Account], NEW o \in Overlays(B), NEW t,
           ApplyTransfer(o, t).ok
    PROVE  CanPay(o, t)
  <1> SUFFICES ASSUME ~(o.ok /\ CanSpend(t, Get(o, Transfer[t].sender))) PROVE FALSE
    BY DEF CanPay
  <1>1. ApplyTransfer(o, t) = [o EXCEPT !.ok = FALSE]
    BY DEF ApplyTransfer
  <1> QED
    BY <1>1, FailedOverlay

LEMMA ChargeCoins ==
    ASSUME NEW B \in [Address -> Account], NEW o \in Overlays(B), NEW t \in DOMAIN Transfer,
           CanPay(o, t), NEW held \in [Address -> Nat]
    PROVE  Coins(Charge(o, t), held) + TotalSpent(t) = Coins(o, held)
  <1>1. PICK c, sender, n : c = Charge(o, t) /\ sender = Transfer[t].sender /\ n = TotalSpent(t)
    OBVIOUS
  <1>2. /\ c \in Overlays(B) /\ \A a \in Address : a # sender => Get(c, a) = Get(o, a)
        /\ Get(c, sender).balance + n = Get(o, sender).balance
    BY <1>1, ChargeFacts
  <1>3. sender \in Address /\ n \in Nat /\ IsFiniteSet(Address)
    BY <1>1, LedgerTypes, TotalSpentType, LedgerAssumption
  <1> DEFINE f == [a \in Address |-> Get(o, a).balance + held[a]]
             h == [a \in Address |-> Get(c, a).balance + held[a]]
  <1>4. \A a \in Address : Get(o, a).balance \in Nat /\ Get(c, a).balance \in Nat
    BY <1>2, GetFacts DEF Account
  <1>5. \A a \in Address : f[a] \in Nat /\ h[a] \in Nat /\ (a # sender => f[a] = h[a])
    BY <1>2, <1>4
  <1>6. h[sender] + n = f[sender]
    BY <1>2, <1>3, <1>4
  <1>7. SumOver(Address, f) = Coins(o, held) /\ SumOver(Address, h) = Coins(c, held)
    BY DEF Coins
  <1> HIDE DEF f, h
  <1>8. SumOver(Address, h) + f[sender] = SumOver(Address, f) + h[sender]
    BY <1>3, <1>5, SumChange
  <1>9. SumOver(Address, h) \in Nat /\ SumOver(Address, f) \in Nat
    BY <1>3, <1>5, SumType
  <1>10. f[sender] \in Nat /\ h[sender] \in Nat
    BY <1>3, <1>5
  <1> DEFINE x == SumOver(Address, h)
             y == SumOver(Address, f)
             u == f[sender]
             w == h[sender]
  <1>11. x + u = y + w /\ w + n = u /\ x \in Nat /\ y \in Nat /\ u \in Nat /\ w \in Nat
         /\ n \in Nat
    BY <1>3, <1>6, <1>8, <1>9, <1>10
  <1> HIDE DEF x, y, u, w
  <1>12. x + n = y
    BY <1>11
  <1> QED
    BY <1>1, <1>7, <1>12 DEF x, y

\* What the first n outputs of s pay to a.
PaidBy(s, a, n) ==
    SumOver({i \in 1..n : s[i].address = a}, [i \in DOMAIN s |-> s[i].amount])

LEMMA PaidByFacts ==
    ASSUME NEW s \in Seq(Output), NEW a, NEW n \in 0..Len(s)
    PROVE  /\ PaidBy(s, a, n) \in Nat
           /\ n = 0 => PaidBy(s, a, n) = 0
           /\ n > 0 => PaidBy(s, a, n) = PaidBy(s, a, n - 1)
                                         + IF s[n].address = a THEN s[n].amount ELSE 0
  <1>1. PICK f, S : /\ f = [i \in DOMAIN s |-> s[i].amount]
                    /\ S = {i \in 1..n : s[i].address = a}
    OBVIOUS
  <1>2. /\ n \in Nat /\ Len(s) \in Nat /\ DOMAIN s = 1..Len(s)
        /\ \A i \in 1..Len(s) : s[i] \in Output /\ s[i].amount \in Nat
    <2>1. n \in Nat /\ Len(s) \in Nat /\ DOMAIN s = 1..Len(s) /\ \A i \in 1..Len(s) : s[i] \in Output
      OBVIOUS
    <2>2. \A out \in Output : out.amount \in Nat
      BY LedgerTypes DEF Output
    <2> QED
      BY <2>1, <2>2
  <1>3. \A i \in 1..n : f[i] \in Nat /\ f[i] = s[i].amount
    BY <1>1, <1>2
  <1>4. IsFiniteSet(1..n)
    <2>1. 1 \in Int /\ n \in Int
      BY <1>2
    <2> QED
      BY <2>1, FS_Interval, Zenon
  <1>5. IsFiniteSet(S) /\ \A i \in S : f[i] \in Nat
    <2>1. S \in SUBSET (1..n)
      BY <1>1
    <2> QED
      BY <1>3, <1>4, <2>1, FS_Subset
  <1>6. PaidBy(s, a, n) = SumOver(S, f)
    BY <1>1 DEF PaidBy
  <1>7. PaidBy(s, a, n) \in Nat
    BY <1>5, <1>6, SumType
  <1>8. ASSUME n = 0 PROVE PaidBy(s, a, n) = 0
    <2>1. S = {}
      BY <1>1, <1>8
    <2> QED
      BY <1>6, <2>1, SumEmpty
  <1>9. ASSUME n > 0
        PROVE  PaidBy(s, a, n) = PaidBy(s, a, n - 1) + IF s[n].address = a THEN s[n].amount ELSE 0
    <2>1. PICK R : R = {i \in 1..(n - 1) : s[i].address = a}
      OBVIOUS
    <2>2. PaidBy(s, a, n - 1) = SumOver(R, f)
      BY <1>1, <2>1 DEF PaidBy
    <2>3. n \in 1..n /\ n \notin R /\ R \in SUBSET S
      BY <1>1, <1>2, <1>9, <2>1
    <2>4. IsFiniteSet(R)
      BY <1>5, <2>3, FS_Subset
    <2>5. SumOver(R, f) \in Nat
      BY <1>5, <2>3, <2>4, SumType
    <2>6. CASE s[n].address = a
      <3>1. S = R \cup {n} /\ n \in S
        BY <1>1, <1>2, <1>9, <2>1, <2>6
      <3>2. SumOver(R \cup {n}, f) = SumOver(R, f) + f[n]
        BY <1>5, <2>3, <2>4, <3>1, SumMore
      <3>3. f[n] = s[n].amount
        BY <1>3, <2>3
      <3> QED
        BY <1>6, <2>2, <2>6, <3>1, <3>2, <3>3
    <2>7. CASE s[n].address # a
      <3>1. S = R
        BY <1>1, <1>2, <1>9, <2>1, <2>7
      <3> QED
        BY <1>6, <2>2, <2>5, <2>7, <3>1
    <2> QED
      BY <2>6, <2>7
  <1> QED
    BY <1>7, <1>8, <1>9

LEMMA CreditsBalances ==
    ASSUME NEW B \in [Address -> Account], NEW o \in Overlays(B), NEW s \in Seq(Output),
           Fold(Credit, o, s).ok, NEW a \in Address
    PROVE  Get(Fold(Credit, o, s), a).balance = Get(o, a).balance + PaidBy(s, a, Len(s))
  <1> DEFINE n == Len(s)
  <1>1. n \in Nat /\ s \in [1..n -> Output] /\ 0 \in 0..n /\ n \in 0..n
    OBVIOUS
  <1>2. PICK f \in [0..n -> Overlays(B)] :
            /\ f[0] = o
            /\ \A i \in 1..n : f[i] = Credit(f[i - 1], s[i])
            /\ Fold(Credit, o, s) = f[n]
    BY CreditsTrace
  <1>3. /\ \A i \in 0..n : PaidBy(s, a, i) \in Nat
        /\ PaidBy(s, a, 0) = 0
        /\ \A i \in 1..n : PaidBy(s, a, i) = PaidBy(s, a, i - 1)
                                             + IF s[i].address = a THEN s[i].amount ELSE 0
    <2>1. \A i \in 0..n : /\ PaidBy(s, a, i) \in Nat
                          /\ i = 0 => PaidBy(s, a, i) = 0
                          /\ i > 0 => PaidBy(s, a, i) = PaidBy(s, a, i - 1)
                                             + IF s[i].address = a THEN s[i].amount ELSE 0
      BY PaidByFacts
    <2>2. \A i \in 1..n : i \in 0..n /\ i > 0
      BY <1>1
    <2> HIDE DEF n
    <2> QED
      BY <1>1, <2>1, <2>2
  <1> HIDE DEF n
  <1> DEFINE bal(i) == Get(f[i], a).balance
             T == {i \in Nat : i <= n /\ f[i].ok => bal(i) = Get(o, a).balance + PaidBy(s, a, i)}
  <1>4. \A i \in 0..n : bal(i) \in Nat
    <2>1. \A i \in 0..n : Get(f[i], a) \in Account
      BY <1>2, GetFacts
    <2> QED
      BY <2>1 DEF Account
  <1>5. 0 \in T
    <2>1. bal(0) = Get(o, a).balance /\ bal(0) \in Nat
      BY <1>1, <1>2, <1>4
    <2> QED
      BY <1>3, <2>1
  <1>6. \A i \in 0..(n - 1) : i \in T => i + 1 \in T
    <2> TAKE i \in 0..(n - 1)
    <2> HAVE i \in T
    <2> SUFFICES ASSUME f[i + 1].ok
                 PROVE  bal(i + 1) = Get(o, a).balance + PaidBy(s, a, i + 1)
      BY <1>1
    <2>1. i + 1 \in 1..n /\ (i + 1) - 1 = i /\ i + 1 \in Nat /\ i \in 0..n /\ i <= n
      BY <1>1
    <2>2. f[i + 1] = Credit(f[i], s[i + 1]) /\ f[i] \in Overlays(B) /\ s[i + 1] \in Output
      BY <1>1, <1>2, <2>1
    <2>3. f[i].ok
      BY <2>2, CreditFacts
    <2>4. bal(i + 1) = IF a = s[i + 1].address THEN bal(i) + s[i + 1].amount ELSE bal(i)
      BY <2>2, CreditBalances
    <2>5. bal(i) = Get(o, a).balance + PaidBy(s, a, i)
      BY <2>1, <2>3
    <2>6. PaidBy(s, a, i + 1) = PaidBy(s, a, i)
                                + IF s[i + 1].address = a THEN s[i + 1].amount ELSE 0
      BY <1>3, <2>1
    <2>7. s[i + 1].amount \in Nat /\ PaidBy(s, a, i) \in Nat /\ Get(o, a).balance \in Nat
      <3>1. Get(o, a).balance = bal(0)
        BY <1>2
      <3> QED
        BY <1>1, <1>3, <1>4, <2>1, <2>2, <3>1, LedgerTypes DEF Output
    <2> HIDE DEF bal
    <2> QED
      BY <2>4, <2>5, <2>6, <2>7
  <1> HIDE DEF T
  <1>7. 0..n \subseteq T
    <2>1. 0 \in Int /\ n \in Int
      BY <1>1
    <2> QED
      BY <1>5, <1>6, <2>1, UpTo
  <1>8. n \in T /\ n <= n
    BY <1>1, <1>7
  <1>9. bal(n) = Get(o, a).balance + PaidBy(s, a, n)
    BY <1>2, <1>8 DEF T
  <1> QED
    BY <1>2, <1>9 DEF n

\* Every balance changes by what the transfer pays to it, and the sender's by
\* what the transfer spends.
LEMMA TransferBalances ==
    ASSUME NEW B \in [Address -> Account], NEW o \in Overlays(B), NEW t \in DOMAIN Transfer,
           ApplyTransfer(o, t).ok, NEW a \in Address
    PROVE  /\ Paid(t, a) \in Nat
           /\ a # Transfer[t].sender => Get(ApplyTransfer(o, t), a).balance
                                           = Get(o, a).balance + Paid(t, a)
           /\ a = Transfer[t].sender => Get(ApplyTransfer(o, t), a).balance + TotalSpent(t)
                                           = Get(o, a).balance + Paid(t, a)
  <1>1. PICK s, c, r, n : /\ s = Transfer[t].outputs /\ c = Charge(o, t)
                          /\ r = ApplyTransfer(o, t) /\ n = TotalSpent(t)
    OBVIOUS
  <1>2. s \in Seq(Output) /\ n \in Nat /\ r \in Overlays(B)
    BY <1>1, LedgerTypes, TotalSpentType, TransferFacts
  <1>3. /\ c \in Overlays(B) /\ r = Fold(Credit, c, s)
        /\ a # Transfer[t].sender => Get(c, a) = Get(o, a)
        /\ a = Transfer[t].sender => Get(c, a).balance + n = Get(o, a).balance
    BY <1>1, ChargeFacts, AppliedSpends
  <1>4. Paid(t, a) = PaidBy(s, a, Len(s)) /\ Len(s) \in 0..Len(s)
    <2>1. DOMAIN s = 1..Len(s) /\ Len(s) \in Nat
      BY <1>2
    <2> QED
      BY <1>1, <2>1 DEF Paid, PaidBy
  <1>5. Paid(t, a) \in Nat
    BY <1>2, <1>4, PaidByFacts
  <1>6. Get(r, a).balance = Get(c, a).balance + Paid(t, a)
    BY <1>1, <1>2, <1>3, <1>4, CreditsBalances
  <1>7. Get(r, a).balance \in Nat /\ Get(c, a).balance \in Nat /\ Get(o, a).balance \in Nat
    BY <1>2, <1>3, GetFacts DEF Account
  <1> DEFINE x == Get(r, a).balance
             y == Get(c, a).balance
             z == Get(o, a).balance
             p == Paid(t, a)
  <1>8. /\ x = y + p /\ x \in Nat /\ y \in Nat /\ z \in Nat /\ p \in Nat /\ n \in Nat
        /\ a # Transfer[t].sender => y = z
        /\ a = Transfer[t].sender => y + n = z
    BY <1>2, <1>3, <1>5, <1>6, <1>7
  <1> HIDE DEF x, y, z, p
  <1>9. /\ a # Transfer[t].sender => x = z + p
        /\ a = Transfer[t].sender => x + n = z + p
    BY <1>8
  <1> QED
    BY <1>1, <1>5, <1>9 DEF x, z, p

\* An account that sends nothing keeps its nonce, and its balance does not fall.
LEMMA TransfersKeep ==
    ASSUME NEW B \in [Address -> Account], NEW o \in Overlays(B),
           NEW s \in Seq(DOMAIN Transfer), NEW r, r = Fold(ApplyTransfer, o, s), r.ok,
           NEW a \in Address, \A i \in DOMAIN s : Transfer[s[i]].sender # a
    PROVE  Get(r, a).nonce = Get(o, a).nonce /\ Get(o, a).balance <= Get(r, a).balance
  <1> DEFINE n == Len(s)
  <1>1. n \in Nat /\ s \in [1..n -> DOMAIN Transfer] /\ 0 \in 0..n /\ n \in 0..n /\ DOMAIN s = 1..n
    OBVIOUS
  <1>2. PICK f \in [0..n -> Overlays(B)] :
            /\ f[0] = o
            /\ \A i \in 1..n : f[i] = ApplyTransfer(f[i - 1], s[i])
            /\ Fold(ApplyTransfer, o, s) = f[n]
    BY TransfersTrace
  <1> HIDE DEF n
  <1> DEFINE Keeps(i) == /\ Get(f[i], a).nonce = Get(o, a).nonce
                         /\ Get(o, a).balance <= Get(f[i], a).balance
             T == {i \in Nat : i <= n /\ f[i].ok => Keeps(i)}
  <1>3. \A i \in 0..n : Get(f[i], a).balance \in Nat /\ Get(f[i], a).nonce \in Nat
    <2>1. \A i \in 0..n : Get(f[i], a) \in Account
      BY <1>2, GetFacts
    <2> QED
      BY <2>1 DEF Account
  <1>4. 0 \in T
    BY <1>1, <1>2, <1>3
  <1>5. \A i \in 0..(n - 1) : i \in T => i + 1 \in T
    <2> TAKE i \in 0..(n - 1)
    <2> HAVE i \in T
    <2> SUFFICES ASSUME f[i + 1].ok PROVE Keeps(i + 1)
      BY <1>1
    <2>1. i + 1 \in 1..n /\ (i + 1) - 1 = i /\ i + 1 \in Nat /\ i \in 0..n /\ i <= n
      BY <1>1
    <2>2. PICK p, q, t : p = f[i] /\ q = f[i + 1] /\ t = s[i + 1]
      OBVIOUS
    <2>3. /\ q = ApplyTransfer(p, t) /\ p \in Overlays(B) /\ t \in DOMAIN Transfer
          /\ Transfer[t].sender # a /\ q.ok
      BY <1>1, <1>2, <2>1, <2>2
    <2>4. p.ok
      BY <2>3, AppliedSpends DEF CanPay
    <2>5. Get(q, a).nonce = Get(p, a).nonce + 0
      BY <2>3, TransferFacts
    <2>6. Get(q, a).balance = Get(p, a).balance + Paid(t, a) /\ Paid(t, a) \in Nat
      BY <2>3, TransferBalances
    <2>7. Get(p, a).nonce = Get(o, a).nonce /\ Get(o, a).balance <= Get(p, a).balance
      BY <2>1, <2>2, <2>4
    <2>8. /\ Get(p, a).balance \in Nat /\ Get(p, a).nonce \in Nat /\ Get(o, a).balance \in Nat
          /\ Get(q, a).balance \in Nat
      BY <1>1, <1>2, <1>3, <2>1, <2>2
    <2>9. Get(q, a).nonce = Get(o, a).nonce /\ Get(o, a).balance <= Get(q, a).balance
      BY <2>5, <2>6, <2>7, <2>8
    <2> QED
      BY <2>2, <2>9
  <1> HIDE DEF T
  <1>6. 0..n \subseteq T
    <2>1. 0 \in Int /\ n \in Int
      BY <1>1
    <2> QED
      BY <1>4, <1>5, <2>1, UpTo
  <1>7. n \in T /\ n <= n
    BY <1>1, <1>6
  <1> QED
    BY <1>2, <1>7 DEF T

-----------------------------------------------------------------------------
(* Accounts that send nothing *)

\* The reward that matures with a block on top of p: only balances grow; and it
\* was held by its address, so what the address owns bounds its new balance.
LEMMA MaturedOn ==
    ASSUME NEW p \in Block, NEW L, Sound(L, p), NEW h \in Nat, h = Height[p] + 1,
           NEW m, m = Matured(L, h)
    PROVE  /\ m \in Overlays(L.accounts) /\ m.fees = 0
           /\ \A a \in Address : Get(m, a).nonce = L.accounts[a].nonce
           /\ m.ok => \A a \in Address : L.accounts[a].balance <= Get(m, a).balance
           /\ (\A a \in Address : L.accounts[a].balance + Held(p)[a] <= MaxAmount) =>
                 m.ok /\ \A a \in Address : Get(m, a).balance <= L.accounts[a].balance + Held(p)[a]
  <1>1. PICK B, start, due : /\ B = L.accounts /\ start = Overlay(B)
                             /\ due = h - CoinbaseMaturity
    OBVIOUS
  <1>2. /\ Height[p] \in Nat /\ CoinbaseMaturity \in Nat /\ CoinbaseMaturity >= 1
        /\ due \in Int /\ due <= Height[p] /\ due > Height[p] - CoinbaseMaturity
    BY <1>1, BlockFacts, ParamsAssumption
  <1>3. L.main = Ancestors[p] /\ B \in [Address -> Account]
    BY <1>1 DEF Sound
  <1>4. /\ start \in Overlays(B) /\ start.fees = 0 /\ start.ok
        /\ \A a \in Address : Get(start, a) = B[a]
    BY <1>1, <1>3, NewOverlay
  <1>5. \A a \in Address : B[a].balance \in Nat /\ B[a].nonce \in Nat
    BY <1>3 DEF Account
  <1>6. Held(p) \in [Address -> Nat]
    BY HeldType
  <1>7. m = IF due >= 0 THEN Credit(start, Coinbase[MainBlock(L, due)]) ELSE start
    <2>1. Matured(L, h) = IF h - CoinbaseMaturity >= 0
                          THEN Credit(Overlay(L.accounts), Coinbase[MainBlock(L, h - CoinbaseMaturity)])
                          ELSE Overlay(L.accounts)
      BY Zenon DEF Matured
    <2> QED
      BY <1>1, <2>1
  <1>8. CASE due >= 0
    <2>1. PICK out : out = Coinbase[At(p, due)]
      OBVIOUS
    <2>2. due \in 0..Height[p]
      BY <1>2, <1>8
    <2>3. MainBlock(L, due) = At(p, due)
      BY <1>3 DEF MainBlock, At
    <2>4. out \in Output /\ out.address \in Address /\ out.amount \in Nat
      BY <2>1, <2>2, AtHeight, LedgerTypes DEF Output
    <2>5. m = Credit(start, out)
      BY <1>8, <1>7, <2>1, <2>3
    <2>6. /\ m \in Overlays(B) /\ m.fees = 0
          /\ \A a \in Address : Get(m, a).nonce = B[a].nonce
      BY <1>3, <1>4, <2>4, <2>5, CreditFacts
    <2>7. ASSUME m.ok, NEW a \in Address
          PROVE  /\ a = out.address => Get(m, a).balance = B[a].balance + out.amount
                 /\ a # out.address => Get(m, a).balance = B[a].balance
      BY <1>3, <1>4, <2>4, <2>5, <2>7, CreditBalances
    <2>8. out.amount <= Held(p)[out.address]
      <3>1. PICK U, f : U = Unripe(p, out.address) /\ f = Rewards(p)
        OBVIOUS
      <3>2. due \in U /\ U \subseteq 0..Height[p]
        BY <1>2, <2>1, <2>2, <3>1 DEF Unripe
      <3>3. IsFiniteSet(U) /\ \A x \in U : f[x] \in Nat
        BY <3>1, <3>2, UnripeFacts
      <3>4. f[due] <= SumOver(U, f)
        BY <3>2, <3>3, SumPart
      <3>5. f[due] = out.amount
        BY <2>1, <2>2, <3>1 DEF Rewards
      <3>6. SumOver(U, f) = Held(p)[out.address]
        BY <2>4, <3>1 DEF Held
      <3> QED
        BY <3>4, <3>5, <3>6
    <2>9. ASSUME \A a \in Address : B[a].balance + Held(p)[a] <= MaxAmount PROVE m.ok
      <3>1. PICK a : a = out.address
        OBVIOUS
      <3>2. /\ a \in Address /\ B[a].balance \in Nat /\ Held(p)[a] \in Nat /\ MaxAmount \in Nat
            /\ out.amount \in Nat /\ out.amount <= Held(p)[a]
            /\ B[a].balance + Held(p)[a] <= MaxAmount
        BY <1>5, <1>6, <2>4, <2>8, <2>9, <3>1, LedgerTypes
      <3>3. B[a].balance + out.amount <= MaxAmount
        BY <3>2
      <3>4. Get(start, out.address).balance + out.amount <= MaxAmount
        BY <1>4, <3>1, <3>2, <3>3
      <3> DEFINE old == Get(start, out.address)
                 v == [old EXCEPT !.balance = old.balance + out.amount]
      <3>5. m = Set(start, out.address, v)
        BY <1>4, <2>5, <3>4 DEF Credit
      <3>6. v \in Account
        <4>1. old \in Account
          BY <1>3, <1>4, <2>4, GetFacts
        <4> QED
          BY <2>4, <3>4, <4>1, LedgerTypes DEF Account
      <3> HIDE DEF v
      <3> QED
        BY <1>3, <1>4, <2>4, <3>5, <3>6, SetFacts
    <2>10. ASSUME m.ok, NEW a \in Address
           PROVE  /\ B[a].balance <= Get(m, a).balance
                  /\ Get(m, a).balance <= B[a].balance + Held(p)[a]
      <3>1. B[a].balance \in Nat /\ Held(p)[a] \in Nat
        BY <1>5, <1>6
      <3>2. CASE a = out.address
        BY <2>4, <2>7, <2>8, <2>10, <3>1, <3>2
      <3>3. CASE a # out.address
        BY <2>7, <2>10, <3>1, <3>3
      <3> QED
        BY <3>2, <3>3
    <2> QED
      BY <1>1, <2>6, <2>9, <2>10
  <1>9. CASE ~(due >= 0)
    <2>1. m = start
      BY <1>9, <1>7
    <2>2. \A a \in Address : /\ B[a].balance <= B[a].balance
                             /\ B[a].balance <= B[a].balance + Held(p)[a]
      BY <1>5, <1>6
    <2> QED
      BY <1>1, <1>4, <2>1, <2>2
  <1> QED
    BY <1>8, <1>9

Quiet(a, b) == \A t \in ToSet(BlockTxs[b]) : Sender(t) # a

LEMMA BlockKeeps ==
    ASSUME NEW b \in Block, b # Genesis, NEW L, Sound(L, Parent[b]), Connect(L, b).ok,
           NEW a \in Address, Quiet(a, b)
    PROVE  /\ Connect(L, b).accounts[a].nonce = L.accounts[a].nonce
           /\ L.accounts[a].balance <= Connect(L, b).accounts[a].balance
  <1>1. PICK B, m, s, o : /\ B = L.accounts /\ m = Matured(L, Height[b]) /\ s = BlockTxs[b]
                          /\ o = Fold(ApplyTransfer, m, s)
    OBVIOUS
  <1>2. /\ Parent[b] \in Block /\ Height[b] \in Nat /\ Height[b] = Height[Parent[b]] + 1
        /\ B \in [Address -> Account]
    BY <1>1, TreeAssumption, BlockFacts DEF Sound
  <1>3. s \in Seq(DOMAIN Transfer) /\ \A i \in DOMAIN s : Transfer[s[i]].sender # a
    BY <1>1, LedgerTypes DEF Quiet, ToSet, Sender
  <1>4. o.ok /\ Connect(L, b).accounts = Written(B, o.accounts)
    BY <1>1, ConnectWrites
  <1>5. /\ m \in Overlays(B) /\ Get(m, a).nonce = B[a].nonce
        /\ m.ok => B[a].balance <= Get(m, a).balance
    BY <1>1, <1>2, MaturedOn
  <1>6. o \in Overlays(B) /\ m.ok
    BY <1>1, <1>2, <1>3, <1>4, <1>5, TransfersFacts
  <1>7. Get(o, a).nonce = Get(m, a).nonce /\ Get(m, a).balance <= Get(o, a).balance
    BY <1>1, <1>2, <1>3, <1>4, <1>5, TransfersKeep
  <1>8. Written(B, o.accounts)[a] = Get(o, a)
    BY <1>2, <1>6, WrittenFacts
  <1>9. B[a].balance \in Nat /\ Get(m, a).balance \in Nat /\ Get(o, a).balance \in Nat
    <2>1. B[a] \in Account /\ Get(m, a) \in Account /\ Get(o, a) \in Account
      BY <1>2, <1>5, <1>6, GetFacts
    <2> QED
      BY <2>1 DEF Account
  <1>10. B[a].balance <= Get(o, a).balance
    BY <1>5, <1>6, <1>7, <1>9
  <1> QED
    BY <1>1, <1>4, <1>5, <1>7, <1>8, <1>10

\* What is below an accepted block is accepted.
LEMMA BelowAccepted ==
    ASSUME NEW b \in Block, Replayed[b].ok, NEW x \in Ancestors[b]
    PROVE  Replayed[x].ok
  <1> DEFINE S == {c \in Block : Replayed[c].ok}
  <1>1. S \in SUBSET Block /\ b \in S
    OBVIOUS
  <1>2. ParentClosed(S)
    BY ReplayedFacts, BlockFacts DEF ParentClosed
  <1> HIDE DEF S
  <1>3. x \in S
    BY <1>1, <1>2, AncestorsLeast
  <1> QED
    BY <1>3 DEF S

\* An address that sends nothing in the blocks above base keeps its nonce, and
\* its balance does not fall.
LEMMA BranchKeeps ==
    ASSUME NEW base \in Block, NEW a \in Address, NEW b \in Block, base \in Ancestors[b],
           Replayed[b].ok, \A x \in Ancestors[b] \ Ancestors[base] : Quiet(a, x)
    PROVE  /\ Replayed[b].accounts[a].nonce = Replayed[base].accounts[a].nonce
           /\ Replayed[base].accounts[a].balance <= Replayed[b].accounts[a].balance
  <1> DEFINE Keeps(x) == /\ Replayed[x].accounts[a].nonce = Replayed[base].accounts[a].nonce
                         /\ Replayed[base].accounts[a].balance <= Replayed[x].accounts[a].balance
             Above(x) == /\ base \in Ancestors[x] /\ Replayed[x].ok
                         /\ \A y \in Ancestors[x] \ Ancestors[base] : Quiet(a, y)
             S == {x \in Block : Above(x) => Keeps(x)}
  <1>1. \A x \in Block : Replayed[x].ok => Replayed[x].accounts[a].balance \in Nat
    <2> TAKE x \in Block
    <2> HAVE Replayed[x].ok
    <2>1. Replayed[x].accounts \in [Address -> Account]
      BY ReplayedFacts DEF Sound
    <2> QED
      BY <2>1 DEF Account
  <1>2. ASSUME Replayed[base].ok PROVE Keeps(base)
    BY <1>1, <1>2
  <1>3. Genesis \in S
    <2>1. Genesis \in Block /\ (base \in Ancestors[Genesis] => base = Genesis)
      BY TreeAssumption, AncestorsGenesis
    <2> HIDE DEF Keeps
    <2> QED
      BY <1>2, <2>1
  <1>4. ASSUME NEW x \in Block \ {Genesis}, Parent[x] \in S PROVE x \in S
    <2> SUFFICES ASSUME Above(x), x # base PROVE Keeps(x)
      <3> HIDE DEF Keeps
      <3> QED
        BY <1>2
    <2>1. PICK p, L : p = Parent[x] /\ L = Replayed[p]
      OBVIOUS
    <2>2. p \in Block /\ Ancestors[x] = {x} \cup Ancestors[p]
      BY <2>1, BlockFacts, AncestorsStep
    <2>3. base \in Ancestors[p]
      BY <2>2
    <2>4. L.ok /\ Sound(L, p) /\ Replayed[x] = Connect(L, x)
      BY <2>1, <2>2, ReplayedFacts, ReplayedStep
    <2>5. x \notin Ancestors[base]
      <3> SUFFICES ASSUME x \in Ancestors[base] PROVE FALSE
        OBVIOUS
      <3>1. Height[x] < Height[base] /\ Height[base] < Height[x]
        BY AncestorsBelow
      <3>2. Height[x] \in Nat /\ Height[base] \in Nat
        BY BlockFacts
      <3> QED
        BY <3>1, <3>2
    <2>6. Quiet(a, x)
      BY <2>2, <2>5
    <2>7. \A y \in Ancestors[p] \ Ancestors[base] : Quiet(a, y)
      BY <2>2
    <2>8. Above(p)
      BY <2>1, <2>3, <2>4, <2>7
    <2>9. Keeps(p)
      <3> HIDE DEF Keeps, Above
      <3> QED
        BY <1>4, <2>1, <2>8
    <2>10. Connect(L, x).ok
      BY <2>4
    <2>11. /\ Connect(L, x).accounts[a].nonce = L.accounts[a].nonce
           /\ L.accounts[a].balance <= Connect(L, x).accounts[a].balance
      BY <2>1, <2>4, <2>6, <2>10, BlockKeeps
    <2>12. /\ Replayed[base].ok /\ Replayed[base].accounts[a].balance \in Nat
           /\ L.accounts[a].balance \in Nat /\ Replayed[x].accounts[a].balance \in Nat
      <3>1. Replayed[base].ok
        <4>1. Replayed[x].ok /\ base \in Ancestors[x]
          OBVIOUS
        <4> QED
          BY <4>1, BelowAccepted
      <3> QED
        BY <1>1, <2>1, <2>2, <2>4, <3>1
    <2> DEFINE u == Replayed[base].accounts[a].balance
               v == L.accounts[a].balance
               w == Replayed[x].accounts[a].balance
    <2>13. u \in Nat /\ v \in Nat /\ w \in Nat /\ u <= v /\ v <= w
      BY <2>1, <2>4, <2>9, <2>11, <2>12
    <2> HIDE DEF u, v, w
    <2>14. u <= w
      BY <2>13
    <2> QED
      BY <2>1, <2>4, <2>9, <2>11, <2>14 DEF u, w
  <1> HIDE DEF S
  <1>5. Block \subseteq S
    BY <1>3, <1>4, UpTheTree
  <1>6. b \in S
    BY <1>5
  <1> QED
    BY <1>6 DEF S

-----------------------------------------------------------------------------
(* The chain's steps and the waiting transfers *)

LEMMA AccountsFacts ==
    ASSUME AcceptsIsReplay, LedgerInv
    PROVE  accounts \in [Address -> Account] /\ accounts = Replayed[Tip].accounts
  <1>1. Sound(Tables, Tip) /\ Tables = Replayed[Tip] /\ Tables.accounts = accounts
    BY TablesFacts DEF Tables
  <1> QED
    BY <1>1 DEF Sound

\* New blocks on top of the tip invalidate nothing of an address that sends
\* nothing in them.
LEMMA NewBlocksValid ==
    ASSUME AcceptsIsReplay, LedgerInv, Ready, NEW b \in Block, Replayed[b].ok,
           Tip \in Ancestors[b], NEW C, Ancestors[b] \ main \subseteq C,
           NEW a \in Address, a \notin Sending(C), ValidFor(a, pool, accounts)
    PROVE  ValidFor(a, pool, Replayed[b].accounts)
  <1>1. Tip \in Block /\ main = Ancestors[Tip]
    BY TablesFacts
  <1>2. \A x \in Ancestors[b] \ Ancestors[Tip] : Quiet(a, x)
    BY <1>1 DEF Sending, TxsOf, Quiet
  <1>3. PICK old, new, base : /\ old = accounts /\ new = Replayed[b].accounts /\ base = Tip
    OBVIOUS
  <1>4. base \in Block /\ base \in Ancestors[b]
        /\ \A x \in Ancestors[b] \ Ancestors[base] : Quiet(a, x)
    BY <1>1, <1>2, <1>3
  <1>5. /\ Replayed[b].accounts[a].nonce = Replayed[base].accounts[a].nonce
        /\ Replayed[base].accounts[a].balance <= Replayed[b].accounts[a].balance
    BY <1>4, BranchKeeps
  <1>6. old \in [Address -> Account] /\ old = Replayed[base].accounts
    BY <1>3, AccountsFacts
  <1>7. new \in [Address -> Account]
    BY <1>3, ReplayedFacts DEF Sound
  <1>8. pool \in SUBSET Txs /\ IsFiniteSet(pool) /\ ValidFor(a, pool, old)
    BY <1>3 DEF Ready, EvictInv, Waiting
  <1>9. new[a].nonce = old[a].nonce /\ old[a].balance <= new[a].balance
    BY <1>3, <1>5, <1>6
  <1>10. ValidFor(a, pool, new)
    BY <1>6, <1>7, <1>8, <1>9, RicherValid
  <1> QED
    BY <1>3, <1>10

LEMMA SwitchValid ==
    ASSUME AcceptsIsReplay, LedgerInv, Ready, mp = "due", UNCHANGED poolVars,
           pc = "switch", Switched.ok, SwitchApplies, Commit(Switched)
    PROVE  ValidInv'
  <1>1. /\ mp' = "due" /\ pool' = pool /\ raised' = raised /\ pc' = "seal"
        /\ connected' = connected \cup Branch(cur)
        /\ disconnected' = disconnected \cup Undone(cur)
        /\ accounts' = Switched.accounts
    BY DEF SwitchApplies, Commit, poolVars
  <1>2. cur \in Block
    BY DEF LedgerInv, IInv, CallInv
  <1>3. Switched = Replayed[cur] /\ Replayed[cur].ok
    BY <1>2, SwitchIsReplay
  <1>4. Tip \in Block /\ main = Ancestors[Tip] /\ Tip \in main
    BY TablesFacts, AncestorsSelf
  <1>5. ASSUME Undone(cur) = {} PROVE Tip \in Ancestors[cur]
    <2>1. PICK x \in Ancestors[cur] \cap main : ~(Height[Tip] > Height[x])
      BY <1>4, <1>5 DEF Undone
    <2>2. Height[Tip] \in Nat /\ Height[x] \in Nat
      BY <1>2, <1>4, <2>1, AncestorsSelf, BlockFacts
    <2>3. x = Tip
      BY <1>4, <2>1, <2>2, AncestorsBelow
    <2> QED
      BY <2>1, <2>3
  <1>6. ASSUME raised = "never", disconnected' = {}, NEW a \in Address \ Sending(connected')
        PROVE  ValidFor(a, pool', accounts')
    <2>1. PICK C : C = connected'
      OBVIOUS
    <2>2. disconnected = {} /\ Undone(cur) = {} /\ Tip \in Ancestors[cur]
      BY <1>1, <1>5, <1>6
    <2>3. a \in Address /\ a \notin Sending(C) /\ a \notin Sending(connected)
      BY <1>1, <1>6, <2>1 DEF Sending, TxsOf
    <2>4. Ancestors[cur] \ main \subseteq C
      BY <1>1, <2>1 DEF Branch
    <2>5. ValidFor(a, pool, accounts)
      BY <1>6, <2>2, <2>3 DEF Ready, ValidInv
    <2>6. PICK b : b = cur
      OBVIOUS
    <2>7. b \in Block /\ Replayed[b].ok /\ Tip \in Ancestors[b] /\ Ancestors[b] \ main \subseteq C
      BY <1>2, <1>3, <2>2, <2>4, <2>6
    <2>8. ValidFor(a, pool, Replayed[b].accounts)
      BY <2>3, <2>5, <2>7, NewBlocksValid
    <2> QED
      BY <1>1, <1>3, <2>6, <2>8
  <1>7. raised = "never" /\ disconnected' = {} =>
           \A a \in Address \ Sending(connected') : ValidFor(a, pool', accounts')
    BY <1>6
  <1>8. (raised = "never" /\ disconnected = {} =>
           \A a \in Address \ Sending(connected) : ValidFor(a, pool, accounts))'
    BY <1>1, <1>7 DEF ValidFor, Sending, TxsOf
  <1> QED
    BY <1>1, <1>8 DEF ValidInv

LEMMA ImportValid ==
    ASSUME AcceptsIsReplay, LedgerInv, Ready, mp = "due", UNCHANGED poolVars,
           pc = "importTx", Continues(cur), Imported.ok, ImportApplies, Commit(Imported)
    PROVE  ValidInv'
  <1>1. /\ mp' = "due" /\ pool' = pool /\ raised' = raised /\ pc' = "tidy"
        /\ connected' = Chunk(cur) \ main /\ disconnected' = disconnected
        /\ accounts' = Imported.accounts
    BY DEF ImportApplies, Commit, poolVars
  <1>2. cur \in Block /\ connected = {}
    BY DEF LedgerInv, IInv, CallInv, Ready, ValidInv
  <1>3. Tables.accounts = accounts
    BY DEF Tables
  <1>4. ASSUME raised = "never", disconnected = {}, NEW a \in Address \ Sending(connected')
        PROVE  ValidFor(a, pool', accounts')
    <2>1. ValidFor(a, pool, accounts)
      <3>1. a \in Address \ Sending(connected)
        BY <1>2 DEF Sending, TxsOf
      <3> QED
        BY <1>4, <3>1 DEF Ready, ValidInv
    <2>2. CASE Imported = Tables
      BY <1>1, <1>3, <2>1, <2>2
    <2>3. CASE Imported # Tables
      <3>1. PICK b, C : b = cur /\ C = connected'
        OBVIOUS
      <3>2. main \cup Chunk(b) = Ancestors[b] /\ Imported = Replayed[b]
        BY <1>2, <2>3, <3>1, ImportIsReplay
      <3>3. Tip \in Ancestors[b]
        <4>1. Tip \in main
          BY TablesFacts, AncestorsSelf
        <4> QED
          BY <3>2, <4>1
      <3>4. b \in Block /\ Replayed[b].ok /\ Ancestors[b] \ main \subseteq C
        BY <1>1, <1>2, <3>1, <3>2
      <3>5. a \in Address /\ a \notin Sending(C)
        BY <3>1
      <3>6. ValidFor(a, pool, Replayed[b].accounts)
        BY <2>1, <3>3, <3>4, <3>5, NewBlocksValid
      <3> QED
        BY <1>1, <3>2, <3>6
    <2> QED
      BY <2>2, <2>3
  <1>5. raised = "never" /\ disconnected = {} =>
           \A a \in Address \ Sending(connected') : ValidFor(a, pool', accounts')
    BY <1>4
  <1>6. (raised = "never" /\ disconnected = {} =>
           \A a \in Address \ Sending(connected) : ValidFor(a, pool, accounts))'
    BY <1>1, <1>5 DEF ValidFor, Sending, TxsOf
  <1> QED
    BY <1>1, <1>6 DEF ValidInv

\* The other steps of a call leave balances and waiting transfers alone, and
\* the lists of blocks too, unless they end the call with an exception.
LEMMA CallValid ==
    ASSUME Ready, mp = "due", UNCHANGED <<pool, mp, accounts>>, pc' # "importTx",
           \/ raised' = raised \/ raised' = Earlier \/ raised' = "now",
           \/ raised' = "now"
           \/ connected' = connected /\ disconnected' = disconnected
    PROVE  ValidInv'
  <1>1. ASSUME raised' = "never"
        PROVE  raised = "never" /\ connected' = connected /\ disconnected' = disconnected
    BY <1>1 DEF Earlier
  <1>2. (raised = "never" /\ disconnected = {} =>
           \A a \in Address \ Sending(connected) : ValidFor(a, pool, accounts))'
    BY <1>1 DEF Ready, ValidInv, ValidFor, Sending, TxsOf
  <1> QED
    BY <1>2 DEF ValidInv

LEMMA QuietValid ==
    ASSUME Ready, mp = "due", UNCHANGED poolVars,
           \/ SwitchFails /\ UNCHANGED ledgerVars
           \/ ImportFails /\ UNCHANGED ledgerVars
           \/ QuietStep
    PROVE  ValidInv'
  <1>0. UNCHANGED <<pool, mp, accounts>>
    BY DEF poolVars, ledgerVars, QuietStep
  <1>1. CASE SwitchFails
    BY <1>0, <1>1, CallValid DEF SwitchFails, callVars
  <1>2. CASE ImportFails
    BY <1>0, <1>2, CallValid DEF ImportFails
  <1>3. CASE StoreBlock
    BY <1>0, <1>3, CallValid DEF StoreBlock, Answer, NextStep
  <1>4. CASE MarkInvalid
    BY <1>0, <1>4, CallValid DEF MarkInvalid, Answer, NextStep
  <1>5. CASE AdoptChild
    <2>1. \/ raised' = "now"
          \/ raised' = Earlier /\ connected' = connected /\ disconnected' = disconnected
      BY <1>5 DEF AdoptChild, SubmitOneWithoutStoring, SubmitOneRaises, SubmitOneStores
    <2>2. pc' # "importTx"
      BY <1>5 DEF AdoptChild, SubmitOneWithoutStoring, SubmitOneRaises, SubmitOneStores,
                  Answer, NextStep
    <2> QED
      BY <1>0, <2>1, <2>2, CallValid
  <1>6. CASE PopWaiting
    BY <1>0, <1>6, CallValid DEF PopWaiting, Answer, NextStep
  <1>7. CASE SealFile \/ SealCommit
    BY <1>0, <1>7, CallValid DEF SealFile, SealCommit, callVars
  <1>8. CASE SealDone
    BY <1>0, <1>8, CallValid DEF SealDone, Answer, NextStep
  <1>9. CASE TidyFiles
    BY <1>0, <1>9, CallValid DEF TidyFiles
  <1> QED
    BY <1>1, <1>2, <1>3, <1>4, <1>5, <1>6, <1>7, <1>8, <1>9 DEF QuietStep

LEMMA BeginValid ==
    ASSUME Ready, ServiceCall
    PROVE  ValidInv'
  <1>1. /\ mp = "idle" /\ mp' = "due" /\ pool' = pool /\ accounts' = accounts
        /\ connected' = {} /\ disconnected' = {}
    BY DEF ServiceCall, BeginCall, Idle, SubmitBlock, ImportChunk, ledgerVars
  <1>2. raised' = raised \/ raised' = Earlier \/ raised' = "now"
    BY DEF ServiceCall, BeginCall, SubmitBlock, SubmitOneWithoutStoring, SubmitOneRaises,
           SubmitOneStores, ImportChunk
  <1>3. raised' = "never" => raised = "never"
    BY <1>2 DEF Earlier
  <1>4. raised' = "never" => \A a \in Address : ValidFor(a, pool', accounts')
    BY <1>1, <1>3 DEF Ready, ValidInv
  <1>5. (raised = "never" => \A a \in Address : ValidFor(a, pool, accounts))'
    BY <1>4 DEF ValidFor
  <1> QED
    BY <1>1, <1>5 DEF ValidInv

LEMMA CrashValid ==
    ASSUME Ready, ServiceCrash
    PROVE  ValidInv'
  <1>1. /\ pool' = {} /\ mp' = "due" /\ pc' = "seal"
        /\ accounts' \in [Address -> Account]
    BY DEF Ready, ServiceCrash, CrashLedger, Crash, ledgerVars
  <1>2. PICK P, acc : P = pool' /\ acc = accounts'
    OBVIOUS
  <1>3. \A a \in Address : PendingFor(a, P) = {}
    BY <1>1, <1>2 DEF PendingFor
  <1>4. \A a \in Address : ValidFor(a, P, acc)
    BY <1>1, <1>2, <1>3, NoneValid
  <1>5. \A a \in Address : ValidFor(a, pool, accounts)'
    BY <1>2, <1>4 DEF ValidFor
  <1> QED
    BY <1>1, <1>5 DEF ValidInv

LEMMA ValidNext ==
    ASSUME AcceptsIsReplay, LedgerInv, LedgerInv', EvictInv, ValidInv, [SNext]_svars
    PROVE  ValidInv'
  <1>0. Ready
    <2>1. LedgerInv => accounts \in [Address -> Account]
      BY AccountsFacts
    <2> QED
      BY <2>1 DEF Ready
  <1>1. CASE ServiceCall
    BY <1>0, <1>1, BeginValid
  <1>2. CASE ServiceStep
    <2>1. mp = "due" /\ ContinueCall /\ UNCHANGED poolVars
      BY <1>2 DEF ServiceStep
    <2>2. CASE SwitchLedger
      BY <1>0, <2>1, <2>2, SwitchValid, QuietValid DEF SwitchLedger
    <2>3. CASE ImportLedger
      BY <1>0, <2>1, <2>3, ImportValid, QuietValid DEF ImportLedger
    <2>4. CASE QuietStep
      BY <1>0, <2>1, <2>4, QuietValid
    <2> QED
      BY <2>1, <2>2, <2>3, <2>4 DEF ContinueCall
  <1>3. CASE ServiceUpdate
    BY <1>0, <1>3, UpdateValid
  <1>4. CASE MempoolStep
    BY <1>0, <1>4, MempoolStepValid
  <1>5. CASE \E t \in Offers : SubmitTransaction(t)
    BY <1>0, <1>5, AddValid
  <1>6. CASE ExpireOld
    BY <1>0, <1>6, ExpireValid
  <1>7. CASE ServiceCrash
    BY <1>0, <1>7, CrashValid
  <1>8. CASE UNCHANGED svars
    BY <1>8 DEF svars, lvars, vars, callVars, ledgerVars, poolVars, ValidInv, ValidFor,
                Sending, TxsOf
  <1> QED
    BY <1>1, <1>2, <1>3, <1>4, <1>5, <1>6, <1>7, <1>8 DEF SNext

LEMMA ValidInit ==
    ASSUME SInit
    PROVE  ValidInv
  <1>1. /\ pool = {} /\ pc = "seal" /\ accounts = GenesisLedger.accounts
    BY DEF SInit, PoolInit, LInit, Init
  <1>2. accounts \in [Address -> Account]
    BY <1>1, GenesisSound DEF Sound
  <1>3. \A a \in Address : PendingFor(a, pool) = {}
    BY <1>1 DEF PendingFor
  <1>4. \A a \in Address : ValidFor(a, pool, accounts)
    BY <1>2, <1>3, NoneValid
  <1> QED
    BY <1>1, <1>4 DEF ValidInv

\* The three invariants together, for a node whose blocks are accepted as
\* AcceptsIsReplay says.
LEMMA ServiceInvariant == AcceptsIsReplay => (SSpec => [](EvictInv /\ LedgerInv /\ ValidInv))
  <1> SUFFICES ASSUME AcceptsIsReplay PROVE SSpec => [](EvictInv /\ LedgerInv /\ ValidInv)
    OBVIOUS
  <1>1. SInit => EvictInv /\ ValidInv
    BY EvictInit, ValidInit
  <1>2. EvictInv /\ [SNext]_svars => EvictInv'
    BY EvictNext
  <1>3. LedgerInv /\ LedgerInv' /\ EvictInv /\ ValidInv /\ [SNext]_svars => ValidInv'
    BY ValidNext
  <1>4. SSpec => []LedgerInv
    BY ServiceIsLedger, LedgerInvariant, PTL
  <1> QED
    BY <1>1, <1>2, <1>3, <1>4, PTL DEF SSpec

-----------------------------------------------------------------------------
(* A transfer that its sender can pay for is applied: no balance can grow  *)
(* beyond what all balances together are.                                  *)

Zero == [a \in Address |-> 0]

\* All balances together.
LEMMA NoneHeld ==
    ASSUME NEW B \in [Address -> Account], NEW o \in Overlays(B)
    PROVE  /\ Zero \in [Address -> Nat] /\ Coins(o, Zero) \in Nat
           /\ \A a \in Address : Get(o, a).balance \in Nat /\ Get(o, a).balance <= Coins(o, Zero)
  <1>1. Zero \in [Address -> Nat]
    BY DEF Zero
  <1>2. Coins(o, Zero) \in Nat
    BY <1>1, CoinsType
  <1> DEFINE f == [a \in Address |-> Get(o, a).balance + Zero[a]]
  <1>3. \A a \in Address : Get(o, a) \in Account
    BY GetFacts
  <1>4. \A a \in Address : Get(o, a).balance \in Nat
    BY <1>3, LedgerTypes DEF Account
  <1>5. \A a \in Address : f[a] = Get(o, a).balance /\ f[a] \in Nat
    BY <1>4 DEF Zero
  <1>6. Coins(o, Zero) = SumOver(Address, f)
    BY DEF Coins
  <1>7. IsFiniteSet(Address)
    BY LedgerAssumption
  <1> HIDE DEF f
  <1>8. \A a \in Address : f[a] <= SumOver(Address, f)
    BY <1>5, <1>7, SumPart
  <1> QED
    BY <1>1, <1>2, <1>4, <1>5, <1>6, <1>8

\* The overlay o takes the output out.
Takes(o, out) == o.ok /\ Get(o, out.address).balance + out.amount <= MaxAmount

LEMMA CreditSucceeds ==
    ASSUME NEW B \in [Address -> Account], NEW o \in Overlays(B), NEW out \in Output,
           Takes(o, out)
    PROVE  Credit(o, out).ok
  <1>1. out.address \in Address /\ out.amount \in Nat
    BY LedgerTypes DEF Output
  <1> DEFINE old == Get(o, out.address)
             v == [old EXCEPT !.balance = old.balance + out.amount]
  <1>2. old \in Account
    BY <1>1, GetFacts
  <1>3. o.ok /\ old.balance + out.amount <= MaxAmount
    BY DEF Takes
  <1>4. v \in Account
    BY <1>1, <1>2, <1>3, LedgerTypes DEF Account
  <1>5. Credit(o, out) = Set(o, out.address, v)
    BY <1>3 DEF Credit
  <1> HIDE DEF v
  <1>6. Set(o, out.address, v).ok = o.ok
    BY <1>1, <1>4, SetFacts
  <1> QED
    BY <1>3, <1>5, <1>6

LEMMA TransferSucceeds ==
    ASSUME NEW B \in [Address -> Account], NEW o \in Overlays(B), NEW t \in DOMAIN Transfer,
           CanPay(o, t), Coins(o, Zero) <= MaxAmount
    PROVE  ApplyTransfer(o, t).ok
  <1>0. PICK s, n, q : s = Transfer[t].outputs /\ n = Len(s) /\ q = Charge(o, t)
    OBVIOUS
  <1>1. /\ s \in Seq(Output) /\ n \in Nat /\ s \in [1..n -> Output]
    BY <1>0, LedgerTypes
  <1>2. /\ q \in Overlays(B) /\ q.ok /\ ApplyTransfer(o, t) = Fold(Credit, q, s)
    BY <1>0, ChargeFacts
  <1>3. PICK g \in [0..n -> Nat] :
            /\ \A i \in 1..n : g[i] = g[i - 1] + s[i].amount
            /\ TotalSpent(t) = g[n]
    BY <1>0, SpentTrace
  <1>4. Zero \in [Address -> Nat]
    BY NoneHeld
  <1>5. Coins(q, Zero) + g[n] = Coins(o, Zero)
    BY <1>0, <1>3, <1>4, ChargeCoins
  <1>a. q \in Overlays(B) /\ s \in Seq(Output) /\ n = Len(s)
    BY <1>0, <1>1, <1>2
  <1>6. PICK f \in [0..n -> Overlays(B)] :
            /\ f[0] = q
            /\ \A i \in 1..n : f[i] = Credit(f[i - 1], s[i])
            /\ Fold(Credit, q, s) = f[n]
    BY <1>a, CreditsTrace
  <1>7. \A i \in 0..n : g[i] \in Nat /\ g[i] <= g[n]
    <2> DEFINE T == {i \in Int : i \in 0..n => g[i] <= g[n]}
    <2>1. n \in T
      BY <1>1, <1>3
    <2>2. \A i \in (0 + 1)..n : i \in T => i - 1 \in T
      <3> TAKE i \in (0 + 1)..n
      <3> HAVE i \in T
      <3>1. i \in 1..n /\ i - 1 \in 0..n /\ i \in 0..n /\ i - 1 \in Int
        BY <1>1
      <3>2. g[i] = g[i - 1] + s[i].amount /\ g[i] \in Nat /\ g[i - 1] \in Nat /\ g[n] \in Nat
        BY <1>1, <1>3, <3>1
      <3>3. s[i].amount \in Nat
        BY <1>1, <3>1, LedgerTypes DEF Output
      <3> QED
        BY <3>1, <3>2, <3>3
    <2>3. 0 \in Int /\ n \in Int
      BY <1>1
    <2> HIDE DEF T
    <2>4. 0..n \subseteq T
      BY <2>1, <2>2, <2>3, DownTo
    <2> QED
      BY <1>3, <2>4 DEF T
  <1> DEFINE T == {i \in Nat : i <= n => /\ f[i].ok
                                         /\ Coins(f[i], Zero) + g[0] = Coins(q, Zero) + g[i]}
  <1>8. 0 \in T
    BY <1>2, <1>6
  <1>9. \A i \in 0..(n - 1) : i \in T => i + 1 \in T
    <2> TAKE i \in 0..(n - 1)
    <2> HAVE i \in T
    <2>1. i + 1 \in 1..n /\ (i + 1) - 1 = i /\ i + 1 \in Nat /\ i \in 0..n /\ i + 1 \in 0..n
          /\ 0 \in 0..n /\ n \in 0..n
      BY <1>1
    <2>2. PICK p, out, r : p = f[i] /\ out = s[i + 1] /\ r = f[i + 1]
      OBVIOUS
    <2>3. p \in Overlays(B) /\ out \in Output /\ r = Credit(p, out)
      BY <1>1, <1>6, <2>1, <2>2
    <2>4. p.ok /\ Coins(p, Zero) + g[0] = Coins(q, Zero) + g[i]
      BY <1>1, <2>1, <2>2
    <2>5. g[i + 1] = g[i] + out.amount
      BY <1>3, <2>1, <2>2
    <2>6. out.address \in Address /\ out.amount \in Nat
      BY <2>3, LedgerTypes DEF Output
    <2>7. PICK C, D, E, bal, x, g0, gi, gj, gn :
              /\ C = Coins(p, Zero) /\ D = Coins(q, Zero) /\ E = Coins(o, Zero)
              /\ bal = Get(p, out.address).balance /\ x = out.amount
              /\ g0 = g[0] /\ gi = g[i] /\ gj = g[i + 1] /\ gn = g[n]
      OBVIOUS
    <2>8. /\ C \in Nat /\ D \in Nat /\ E \in Nat /\ bal \in Nat /\ bal <= C
      BY <1>2, <2>3, <2>6, <2>7, NoneHeld
    <2>9. /\ C + g0 = D + gi /\ D + gn = E /\ E <= MaxAmount /\ gj = gi + x
      BY <1>5, <2>4, <2>5, <2>7
    <2>a. /\ g0 \in Nat /\ gi \in Nat /\ gj \in Nat /\ gn \in Nat
          /\ gj <= gn /\ MaxAmount \in Nat /\ x \in Nat
      BY <1>3, <1>7, <2>1, <2>6, <2>7, LedgerTypes
    <2>10. bal + x <= MaxAmount
      BY <2>8, <2>9, <2>a
    <2>11. Takes(p, out)
      BY <2>4, <2>7, <2>10 DEF Takes
    <2>12. r.ok
      BY <2>3, <2>11, CreditSucceeds
    <2>13. Coins(r, Zero) = C + x
      BY <1>4, <2>3, <2>7, <2>12, CreditCoins
    <2>14. Coins(r, Zero) + g0 = D + gj
      BY <2>8, <2>9, <2>a, <2>13
    <2> QED
      BY <2>1, <2>2, <2>7, <2>12, <2>14
  <1>10. 0 \in Int /\ n \in Int
    BY <1>1
  <1> HIDE DEF T
  <1>11. 0..n \subseteq T
    BY <1>8, <1>9, <1>10, UpTo
  <1>12. n \in T
    BY <1>1, <1>11
  <1> QED
    BY <1>1, <1>2, <1>6, <1>12 DEF T

-----------------------------------------------------------------------------
(* select *)

LEMMA RateTransitive ==
    ASSUME NEW a \in Nat, NEW b \in Nat, NEW c \in Nat,
           NEW x \in Nat, NEW y \in Nat, NEW z \in Nat, y >= 1,
           a * y <= b * x, b * z <= c * y
    PROVE  a * z <= c * x
  <1>1. (a * y) * z <= (b * x) * z
    OBVIOUS
  <1>2. (b * z) * x <= (c * y) * x
    OBVIOUS
  <1>3. (b * x) * z = (b * z) * x /\ (a * y) * z = (a * z) * y /\ (c * y) * x = (c * x) * y
    OBVIOUS
  <1>4. (a * z) * y <= (c * x) * y
    BY <1>1, <1>2, <1>3
  <1>5. PICK u, v : u = a * z /\ v = c * x /\ u \in Nat /\ v \in Nat
    OBVIOUS
  <1>6. u * y <= v * y
    BY <1>4, <1>5
  <1>7. u <= v
    BY <1>5, <1>6
  <1> QED
    BY <1>5, <1>7

LEMMA RateTypes ==
    ASSUME NEW t \in Txs
    PROVE  Transfer[t].fee \in Nat /\ TxSize[t] \in Nat /\ TxSize[t] >= 1
  BY LedgerTypes, MempoolAssumption DEF Txs

LEMMA CheaperFacts ==
    /\ \A t, u \in Txs : CheaperOrEqual(t, u) \/ CheaperOrEqual(u, t)
    /\ \A t, u, v \in Txs : CheaperOrEqual(t, u) /\ CheaperOrEqual(u, v) => CheaperOrEqual(t, v)
  <1>1. ASSUME NEW t \in Txs, NEW u \in Txs PROVE CheaperOrEqual(t, u) \/ CheaperOrEqual(u, t)
    <2>1. PICK x, y : x = Transfer[t].fee * TxSize[u] /\ y = Transfer[u].fee * TxSize[t]
                      /\ x \in Nat /\ y \in Nat
      BY RateTypes
    <2>2. x <= y \/ y <= x
      BY <2>1
    <2> QED
      BY <2>1, <2>2 DEF CheaperOrEqual
  <1>2. ASSUME NEW t \in Txs, NEW u \in Txs, NEW v \in Txs,
               CheaperOrEqual(t, u), CheaperOrEqual(u, v)
        PROVE  CheaperOrEqual(t, v)
    <2>1. PICK a, b, c, x, y, z : /\ a = Transfer[t].fee /\ b = Transfer[u].fee /\ c = Transfer[v].fee
                                  /\ x = TxSize[t] /\ y = TxSize[u] /\ z = TxSize[v]
      OBVIOUS
    <2>2. /\ a \in Nat /\ b \in Nat /\ c \in Nat /\ x \in Nat /\ y \in Nat /\ z \in Nat /\ y >= 1
      BY <2>1, RateTypes
    <2>3. a * y <= b * x /\ b * z <= c * y
      BY <1>2, <2>1 DEF CheaperOrEqual
    <2>4. a * z <= c * x
      BY <2>2, <2>3, RateTransitive
    <2> QED
      BY <2>1, <2>4 DEF CheaperOrEqual
  <1> QED
    BY <1>1, <1>2

\* t pays best of the transfers in H.
Best(H, t) == t \in H /\ \A u \in H : CheaperOrEqual(u, t)

LEMMA BestPaying ==
    ASSUME NEW H \in SUBSET Txs, IsFiniteSet(H), H # {}
    PROVE  \E t : Best(H, t)
  <1> DEFINE Lacks(n) == \E G \in SUBSET Txs : /\ IsFiniteSet(G) /\ G # {} /\ Cardinality(G) = n
                                               /\ \A t : ~Best(G, t)
             T == {n \in Nat : Lacks(n)}
  <1> SUFFICES ASSUME \A t : ~Best(H, t) PROVE FALSE
    OBVIOUS
  <1>1. Cardinality(H) \in T
    BY FS_CardinalityType
  <1>2. T \in SUBSET Nat /\ T # {}
    BY <1>1
  <1> HIDE DEF T
  <1>3. PICK n \in T : \A m \in T : n <= m
    BY <1>2, LeastNumber
  <1>4. PICK G \in SUBSET Txs : /\ IsFiniteSet(G) /\ G # {} /\ Cardinality(G) = n
                                /\ \A t : ~Best(G, t)
    BY <1>3 DEF T
  <1>5. PICK x \in G : TRUE
    BY <1>4
  <1>6. PICK F : F = G \ {x}
    OBVIOUS
  <1>7. F \in SUBSET Txs /\ IsFiniteSet(F) /\ Cardinality(F) = n - 1 /\ n \in Nat
    BY <1>2, <1>3, <1>4, <1>5, <1>6, FS_RemoveElement
  <1>8. Cardinality(F) \in Nat /\ Cardinality(F) \notin T
    BY <1>3, <1>7, FS_CardinalityType
  <1>9. F # {} => \E t : Best(F, t)
    BY <1>7, <1>8 DEF T
  <1>10. G = F \cup {x} /\ x \in Txs
    BY <1>4, <1>5, <1>6
  <1>11. CASE F = {}
    BY <1>4, <1>10, <1>11, CheaperFacts DEF Best
  <1>12. CASE F # {}
    <2>1. PICK y : Best(F, y)
      BY <1>9, <1>12
    <2>2. y \in F /\ y \in Txs /\ \A u \in F : CheaperOrEqual(u, y)
      BY <1>7, <2>1 DEF Best
    <2>3. CASE CheaperOrEqual(y, x)
      <3>1. \A u \in F : CheaperOrEqual(u, x)
        BY <1>7, <1>10, <2>2, <2>3, CheaperFacts
      <3>2. Best(G, x)
        BY <1>10, <3>1, CheaperFacts DEF Best
      <3> QED
        BY <1>4, <3>2
    <2>4. CASE CheaperOrEqual(x, y)
      <3>1. Best(G, y)
        BY <1>10, <2>2, <2>4 DEF Best
      <3> QED
        BY <1>4, <3>1
    <2> QED
      BY <1>10, <2>2, <2>3, <2>4, CheaperFacts
  <1> QED
    BY <1>11, <1>12

\* What select keeps in its variables, and one turn of its loop.
Selections(P) == [heap : SUBSET P, chosen : Seq(P), used : Nat]
Turn(s, P, room) == IF s.heap = {} THEN s ELSE PopBest(s, P, room)

\* The turn from s to r passes over t, or takes it.
Passes(s, r, t, room) ==
    /\ t \in s.heap /\ s.used + TxSize[t] > room
    /\ r.heap = s.heap \ {t} /\ r.chosen = s.chosen /\ r.used = s.used
Picks(s, r, t, P, room) ==
    /\ t \in s.heap /\ s.used + TxSize[t] <= room
    /\ r.heap = (s.heap \ {t}) \cup Following(t, P)
    /\ r.chosen = Append(s.chosen, t) /\ r.used = s.used + TxSize[t]

LEMMA TurnFacts ==
    ASSUME NEW P \in SUBSET Txs, IsFiniteSet(P), NEW room \in Nat, NEW s \in Selections(P),
           NEW r, r = Turn(s, P, room)
    PROVE  /\ r \in Selections(P)
           /\ \/ s.heap = {} /\ r = s
              \/ \E t : Passes(s, r, t, room) \/ Picks(s, r, t, P, room)
  <1>1. CASE s.heap = {}
    BY <1>1 DEF Turn
  <1>2. CASE s.heap # {}
    <2> DEFINE W(t) == t \in s.heap /\ \A u \in s.heap : CheaperOrEqual(u, t)
    <2>1. s.heap \in SUBSET Txs /\ IsFiniteSet(s.heap)
      BY FS_Subset DEF Selections
    <2>2. \E t : W(t)
      BY <1>2, <2>1, BestPaying DEF Best
    <2>3. PICK t : t = (CHOOSE x \in s.heap : \A u \in s.heap : CheaperOrEqual(u, x)) /\ W(t)
      <3>1. (CHOOSE x \in s.heap : \A u \in s.heap : CheaperOrEqual(u, x)) = CHOOSE x : W(x)
        OBVIOUS
      <3> HIDE DEF W
      <3> QED
        BY <2>2, <3>1
    <2>4. t \in s.heap /\ t \in P /\ TxSize[t] \in Nat
      BY <2>1, <2>3, RateTypes DEF Selections
    <2>5. s.used \in Nat /\ s.chosen \in Seq(P) /\ s.heap \in SUBSET P
          /\ s = [heap |-> s.heap, chosen |-> s.chosen, used |-> s.used]
      BY DEF Selections
    <2>6. CASE s.used + TxSize[t] > room
      <3>1. r = [s EXCEPT !.heap = @ \ {t}]
        BY <1>2, <2>3, <2>6 DEF Turn, PopBest
      <3>2. r = [heap |-> s.heap \ {t}, chosen |-> s.chosen, used |-> s.used]
        BY <2>5, <3>1
      <3>3. r \in Selections(P)
        BY <2>5, <3>2 DEF Selections
      <3>4. Passes(s, r, t, room)
        BY <2>4, <2>6, <3>2 DEF Passes
      <3> QED
        BY <3>3, <3>4
    <2>7. CASE ~(s.used + TxSize[t] > room)
      <3>1. r = [heap |-> (s.heap \ {t}) \cup Following(t, P), chosen |-> Append(s.chosen, t),
                 used |-> s.used + TxSize[t]]
        BY <1>2, <2>3, <2>7 DEF Turn, PopBest
      <3>2. Append(s.chosen, t) \in Seq(P)
        BY <2>4, <2>5
      <3>3. s.used + TxSize[t] \in Nat /\ s.used + TxSize[t] <= room
        BY <2>4, <2>5, <2>7
      <3>4. Following(t, P) \subseteq P
        BY DEF Following, Pending, PendingFor
      <3>5. r \in Selections(P)
        BY <2>5, <3>1, <3>2, <3>3, <3>4 DEF Selections
      <3>6. Picks(s, r, t, P, room)
        BY <2>4, <3>1, <3>3 DEF Picks
      <3> QED
        BY <3>5, <3>6
    <2> QED
      BY <2>6, <2>7
  <1> QED
    BY <1>1, <1>2

LEMMA SelectTrace ==
    ASSUME NEW P \in SUBSET Txs, IsFiniteSet(P), NEW room \in Nat, NEW n, n = Cardinality(P)
    PROVE  \E f \in [0..n -> Selections(P)] :
              /\ f[0] = [heap |-> Firsts(P), chosen |-> <<>>, used |-> 0]
              /\ \A i \in 1..n : f[i] = Turn(f[i - 1], P, room)
              /\ Select(P, room) = f[n].chosen
  <1>0. PICK base : base = [heap |-> Firsts(P), chosen |-> <<>>, used |-> 0]
    OBVIOUS
  <1> DEFINE E == {0}
             S == Selections(P)
             z == [i \in 1..n |-> 0]
             op == [x \in S \X E |-> Turn(x[1], P, room)]
             Trace(f) == f = [i \in 0..n |-> IF i = 0 THEN base ELSE Turn(f[i - 1], P, room)]
  <1>1. n \in Nat /\ z \in [1..n -> E] /\ base \in S
    <2>1. Firsts(P) \subseteq P /\ <<>> \in Seq(P)
      BY DEF Firsts
    <2>2. base \in S
      BY <1>0, <2>1 DEF Selections
    <2> QED
      BY <2>2, FS_CardinalityType
  <1>2. \A s \in S : Turn(s, P, room) \in S
    BY TurnFacts
  <1>3. op \in [S \X E -> S]
    BY <1>2
  <1>4. \A s \in S, e \in E : op[<<s, e>>] = Turn(s, P, room)
    OBVIOUS
  <1>5. Select(P, room) = (CHOOSE f : Trace(f))[n].chosen
    BY <1>0, Zenon DEF Select, Turn
  <1> HIDE DEF op, E, S, z
  <1>6. \E f : Trace(f)
    <2>1. PICK f \in [0..n -> S] : Follows(f, n, base, z, op)
      BY <1>1, <1>3, Stepwise
    <2>2. \A i \in 1..n : op[<<f[i - 1], z[i]>>] = Turn(f[i - 1], P, room)
      BY <1>1, <1>4
    <2>3. \A i \in 0..n : f[i] = IF i = 0 THEN base ELSE Turn(f[i - 1], P, room)
      <3> TAKE i \in 0..n
      <3>1. i = 0 \/ i \in 1..n
        BY <1>1
      <3>2. f[i] = IF i = 0 THEN base ELSE op[<<f[i - 1], z[i]>>]
        BY <2>1, <3>1 DEF Follows
      <3> QED
        BY <2>2, <3>1, <3>2
    <2>4. Trace(f)
      BY <2>3
    <2> QED
      BY <2>4
  <1>7. PICK f : f = (CHOOSE g : Trace(g)) /\ Trace(f)
    <2> HIDE DEF Trace
    <2> QED
      BY <1>6
  <1>8. f[0] = base /\ \A i \in 1..n : f[i] = Turn(f[i - 1], P, room)
    BY <1>1, <1>7
  <1>9. f \in [0..n -> S]
    <2> DEFINE T == {i \in Nat : i <= n => f[i] \in S}
    <2>1. 0 \in T
      BY <1>1, <1>8
    <2>2. \A i \in 0..(n - 1) : i \in T => i + 1 \in T
      <3> TAKE i \in 0..(n - 1)
      <3> HAVE i \in T
      <3>1. i + 1 \in 1..n /\ (i + 1) - 1 = i /\ i + 1 \in Nat /\ i <= n
        BY <1>1
      <3>2. f[i] \in S
        BY <3>1
      <3>3. f[i + 1] = Turn(f[i], P, room)
        BY <1>8, <3>1
      <3> QED
        BY <1>2, <3>1, <3>2, <3>3
    <2>3. 0 \in Int /\ n \in Int
      BY <1>1
    <2> HIDE DEF T
    <2>4. 0..n \subseteq T
      BY <2>1, <2>2, <2>3, UpTo
    <2>5. \A i \in 0..n : f[i] \in S
      BY <1>1, <2>4 DEF T
    <2> QED
      BY <1>7, <2>5
  <1>10. Select(P, room) = f[n].chosen
    BY <1>5, <1>7
  <1> QED
    BY <1>0, <1>8, <1>9, <1>10 DEF S

-----------------------------------------------------------------------------
(* What select leaves true *)

\* The same sender sends v before u.
Before(v, u) == Sender(v) = Sender(u) /\ Nonce(v) < Nonce(u)

\* One transfer for every sender and nonce, and none missing in between.
Numbered(P) == \A x, y \in P : Sender(x) = Sender(y) /\ Nonce(x) = Nonce(y) => x = y
Contiguous(P) ==
    \A t, u \in P : Sender(t) = Sender(u) =>
        \A n \in Nonce(t)..Nonce(u) : \E v \in P : Sender(v) = Sender(t) /\ Nonce(v) = n

\* A list of transfers of P, none twice and none before one that must precede it.
InOrder(c, P) ==
    /\ IsInjective(c)
    /\ \A i \in DOMAIN c, v \in P : Before(v, c[i]) => \E j \in 1..(i - 1) : c[j] = v

\* What holds between the turns of select for its heap H, the list c and the
\* bytes w; and what holds after i turns if there is room for all of P.
SelectInv(H, c, w, P, room) ==
    /\ InOrder(c, P)
    /\ H \cap Range(c) = {}
    /\ \A u \in H, v \in P : Before(v, u) => v \in Range(c)
    /\ w = SizeOf(Range(c)) /\ w <= room
Exhausts(H, c, P, i) ==
    /\ \A u \in P \ Range(c) : \E h \in H : Sender(h) = Sender(u) /\ Nonce(h) <= Nonce(u)
    /\ H = {} \/ Cardinality(Range(c)) = i

LEMMA PrefixClosed ==
    ASSUME NEW P \in SUBSET Txs, NEW c \in Seq(P), InOrder(c, P),
           NEW u \in Range(c), NEW v \in P, Before(v, u)
    PROVE  v \in Range(c)
  <1>1. /\ Len(c) \in Nat /\ DOMAIN c = 1..Len(c)
        /\ \A i \in 1..Len(c) : c[i] \in P /\ c[i] \in Range(c)
    BY ListFacts
  <1>2. PICK i \in 1..Len(c) : c[i] = u
    BY ListFacts
  <1>3. PICK j \in 1..(i - 1) : c[j] = v
    BY <1>1, <1>2 DEF InOrder
  <1>4. j \in 1..Len(c)
    BY <1>1, <1>2, <1>3
  <1> QED
    BY <1>1, <1>3, <1>4

LEMMA AppendInOrder ==
    ASSUME NEW P \in SUBSET Txs, NEW c \in Seq(P), InOrder(c, P), NEW t \in P, t \notin Range(c),
           \A v \in P : Before(v, t) => v \in Range(c)
    PROVE  InOrder(Append(c, t), P)
  <1>1. PICK d, n : d = Append(c, t) /\ n = Len(c)
    OBVIOUS
  <1>2. /\ n \in Nat /\ DOMAIN c = 1..n /\ d \in Seq(P) /\ Len(d) = n + 1 /\ DOMAIN d = 1..(n + 1)
        /\ \A i \in 1..n : d[i] = c[i]
        /\ d[n + 1] = t
    BY <1>1
  <1>3. IsInjective(d)
    BY <1>1, Appended DEF InOrder
  <1>4. ASSUME NEW i \in DOMAIN d, NEW v \in P, Before(v, d[i])
        PROVE  \E j \in 1..(i - 1) : d[j] = v
    <2>1. CASE i \in 1..n
      <3>1. PICK j \in 1..(i - 1) : c[j] = v
        BY <1>2, <1>4, <2>1 DEF InOrder
      <3>2. j \in 1..n
        BY <1>2, <2>1, <3>1
      <3> QED
        BY <1>2, <3>1, <3>2
    <2>2. CASE i = n + 1
      <3>1. v \in Range(c)
        BY <1>2, <1>4, <2>2
      <3>2. PICK j \in 1..Len(c) : c[j] = v
        BY <3>1, ListFacts
      <3>3. j \in 1..n /\ j \in 1..(i - 1)
        BY <1>1, <1>2, <2>2, <3>2
      <3> QED
        BY <1>2, <3>2, <3>3
    <2> QED
      BY <1>2, <2>1, <2>2
  <1> QED
    BY <1>1, <1>3, <1>4 DEF InOrder

LEMMA SizeMore ==
    ASSUME NEW P \in SUBSET Txs, IsFiniteSet(P), NEW t \in Txs, t \notin P
    PROVE  SizeOf(P \cup {t}) = SizeOf(P) + TxSize[t]
  <1>1. \A x \in P \cup {t} : TxSize[x] \in Nat
    BY MempoolAssumption DEF Txs
  <1> QED
    BY <1>1, SumMore DEF SizeOf

LEMMA SelectStart ==
    ASSUME NEW P \in SUBSET Txs, IsFiniteSet(P), NEW room \in Nat
    PROVE  /\ SelectInv(Firsts(P), <<>>, 0, P, room)
           /\ Exhausts(Firsts(P), <<>>, P, 0)
  <1>1. Range(<<>>) = {} /\ IsInjective(<<>>) /\ DOMAIN <<>> = {}
    BY EmptyList
  <1>2. InOrder(<<>>, P)
    BY <1>1 DEF InOrder
  <1>3. \A u \in Firsts(P), v \in P : ~Before(v, u)
    BY NonceType DEF Before, Firsts, Pending, PendingFor
  <1>4. SizeOf({}) = 0 /\ Cardinality({}) = 0
    BY SizeEmpty, FS_EmptySet
  <1>5. ASSUME NEW u \in P
        PROVE  \E h \in Firsts(P) : Sender(h) = Sender(u) /\ Nonce(h) <= Nonce(u)
    <2> DEFINE T == {Nonce(x) : x \in Pending(u, P)}
    <2>1. T \in SUBSET Nat /\ Nonce(u) \in T
      BY NonceType DEF Pending, PendingFor
    <2> HIDE DEF T
    <2>2. PICK m \in T : \A y \in T : m <= y
      BY <2>1, LeastNumber
    <2>3. PICK h \in Pending(u, P) : Nonce(h) = m
      BY <2>2 DEF T
    <2>4. h \in P /\ Sender(h) = Sender(u)
      BY <2>3 DEF Pending, PendingFor
    <2>5. \A x \in Pending(h, P) : Nonce(h) <= Nonce(x)
      BY <2>2, <2>3, <2>4 DEF T, Pending, PendingFor
    <2>6. h \in Firsts(P) /\ Nonce(h) <= Nonce(u)
      BY <2>1, <2>2, <2>3, <2>4, <2>5 DEF Firsts
    <2> QED
      BY <2>4, <2>6
  <1>6. 0 = SizeOf(Range(<<>>)) /\ 0 <= room /\ Cardinality(Range(<<>>)) = 0
    BY <1>1, <1>4
  <1>7. SelectInv(Firsts(P), <<>>, 0, P, room)
    BY <1>1, <1>2, <1>3, <1>6 DEF SelectInv
  <1>8. Exhausts(Firsts(P), <<>>, P, 0)
    BY <1>5, <1>6 DEF Exhausts
  <1> QED
    BY <1>7, <1>8

\* A transfer that is passed over leaves the heap ...
LEMMA SelectPass ==
    ASSUME NEW P \in SUBSET Txs, NEW room \in Nat, NEW H \in SUBSET P, NEW c, NEW w,
           NEW t \in H, SelectInv(H, c, w, P, room)
    PROVE  SelectInv(H \ {t}, c, w, P, room)
  BY DEF SelectInv

\* ... and one that is taken is followed there by its sender's next one.
LEMMA SelectTake ==
    ASSUME NEW P \in SUBSET Txs, IsFiniteSet(P), Numbered(P), NEW room \in Nat,
           NEW H \in SUBSET P, NEW c \in Seq(P), NEW w \in Nat, NEW t \in H,
           SelectInv(H, c, w, P, room), w + TxSize[t] <= room,
           NEW I, I = (H \ {t}) \cup Following(t, P)
    PROVE  SelectInv(I, Append(c, t), w + TxSize[t], P, room)
  <1>1. /\ InOrder(c, P) /\ H \cap Range(c) = {} /\ w = SizeOf(Range(c))
        /\ \A u \in H, v \in P : Before(v, u) => v \in Range(c)
    BY DEF SelectInv
  <1>2. t \in P /\ t \in Txs /\ t \notin Range(c) /\ \A v \in P : Before(v, t) => v \in Range(c)
    BY <1>1
  <1>3. InOrder(Append(c, t), P)
    BY <1>1, <1>2, AppendInOrder
  <1>4. PICK R : R = Range(c)
    OBVIOUS
  <1>5. Range(Append(c, t)) = R \cup {t} /\ R \subseteq P
    BY <1>2, <1>4, Appended, ListFacts
  <1>6. \A u \in Following(t, P) : u \in P /\ Sender(u) = Sender(t) /\ Nonce(u) = Nonce(t) + 1
    BY DEF Following, Pending, PendingFor
  <1>7. Nonce(t) \in Nat /\ \A v \in P : Nonce(v) \in Nat
    BY <1>2, NonceType
  <1>8. \A u \in Following(t, P) : Before(t, u)
    BY <1>6, <1>7 DEF Before
  <1>9. \A u \in Following(t, P) : u \notin R /\ u # t
    <2> TAKE u \in Following(t, P)
    <2>1. u # t
      BY <1>6, <1>7
    <2>2. u \in R => t \in Range(c)
      BY <1>1, <1>2, <1>4, <1>8, PrefixClosed
    <2> QED
      BY <1>2, <2>1, <2>2
  <1>10. I \cap (R \cup {t}) = {}
    BY <1>1, <1>4, <1>9
  <1>11. ASSUME NEW u \in I, NEW v \in P, Before(v, u) PROVE v \in R \cup {t}
    <2>1. CASE u \in H
      BY <1>1, <1>4, <1>11, <2>1
    <2>2. CASE u \in Following(t, P)
      <3>1. Sender(v) = Sender(t) /\ Nonce(v) < Nonce(t) + 1
        BY <1>6, <1>11, <2>2 DEF Before
      <3>2. Nonce(v) < Nonce(t) \/ Nonce(v) = Nonce(t)
        BY <1>7, <3>1
      <3>3. Nonce(v) = Nonce(t) => v = t
        BY <1>2, <3>1 DEF Numbered
      <3>4. Nonce(v) < Nonce(t) => v \in R
        BY <1>2, <1>4, <3>1 DEF Before
      <3> QED
        BY <3>2, <3>3, <3>4
    <2> QED
      BY <2>1, <2>2
  <1>12. R \in SUBSET Txs /\ IsFiniteSet(R)
    BY <1>5, FS_Subset
  <1>13. SizeOf(R \cup {t}) = w + TxSize[t]
    BY <1>1, <1>2, <1>4, <1>12, SizeMore
  <1> QED
    BY <1>3, <1>5, <1>10, <1>11, <1>13 DEF SelectInv

\* With room for all of P no transfer is passed over, and every sender's next
\* one is in the heap.
LEMMA SelectAll ==
    ASSUME NEW P \in SUBSET Txs, IsFiniteSet(P), Numbered(P), Contiguous(P),
           NEW room, room = SizeOf(P),
           NEW H \in SUBSET P, NEW c \in Seq(P), NEW w \in Nat, NEW t \in H,
           SelectInv(H, c, w, P, room), NEW i \in Nat, Exhausts(H, c, P, i),
           NEW I, I = (H \ {t}) \cup Following(t, P)
    PROVE  /\ w + TxSize[t] <= room
           /\ Exhausts(I, Append(c, t), P, i + 1)
  <1>1. H \cap Range(c) = {} /\ w = SizeOf(Range(c))
    BY DEF SelectInv
  <1>2. t \in P /\ t \in Txs /\ t \notin Range(c)
    BY <1>1
  <1>3. PICK R : R = Range(c)
    OBVIOUS
  <1>4. Range(Append(c, t)) = R \cup {t} /\ R \subseteq P
    BY <1>2, <1>3, Appended, ListFacts
  <1>5. R \in SUBSET Txs /\ IsFiniteSet(R)
    BY <1>4, FS_Subset
  <1>6. SizeOf(R \cup {t}) = w + TxSize[t]
    BY <1>1, <1>2, <1>3, <1>5, SizeMore
  <1>7. SizeOf(R \cup {t}) <= SizeOf(P)
    BY <1>2, <1>4, SizeMonotone
  <1>8. Cardinality(R) = i /\ Cardinality(R \cup {t}) = i + 1
    BY <1>2, <1>3, <1>5, FS_AddElement DEF Exhausts
  <1>9. Nonce(t) \in Nat /\ \A v \in P : Nonce(v) \in Nat
    BY <1>2, NonceType
  <1>10. ASSUME NEW u \in P \ (R \cup {t})
         PROVE  \E h \in I : Sender(h) = Sender(u) /\ Nonce(h) <= Nonce(u)
    <2>1. PICK h \in H : Sender(h) = Sender(u) /\ Nonce(h) <= Nonce(u)
      BY <1>3, <1>10 DEF Exhausts
    <2>2. CASE h # t
      BY <2>1, <2>2
    <2>3. CASE h = t
      <3>1. Nonce(t) # Nonce(u)
        BY <1>2, <1>10, <2>1, <2>3 DEF Numbered
      <3>2. PICK n : n = Nonce(t) + 1
        OBVIOUS
      <3>3. n \in Nonce(t)..Nonce(u) /\ n <= Nonce(u)
        BY <1>9, <1>10, <2>1, <2>3, <3>1, <3>2
      <3>4. PICK v \in P : Sender(v) = Sender(t) /\ Nonce(v) = n
        BY <1>2, <1>10, <2>1, <2>3, <3>3 DEF Contiguous
      <3>5. v \in Following(t, P)
        BY <3>2, <3>4 DEF Following, Pending, PendingFor
      <3> QED
        BY <2>1, <2>3, <3>3, <3>4, <3>5
    <2> QED
      BY <2>2, <2>3
  <1>11. Exhausts(I, Append(c, t), P, i + 1)
    BY <1>4, <1>8, <1>10 DEF Exhausts
  <1> QED
    BY <1>6, <1>7, <1>11

\* select(room) gives a list of transfers in the order of their nonces that fits;
\* with room for all, it is all of them.
LEMMA SelectFacts ==
    ASSUME NEW P \in SUBSET Txs, IsFiniteSet(P), Numbered(P), NEW room \in Nat
    PROVE  /\ Select(P, room) \in Seq(P) /\ InOrder(Select(P, room), P)
           /\ SizeOf(Range(Select(P, room))) <= room
           /\ Contiguous(P) /\ room = SizeOf(P) => Range(Select(P, room)) = P
  <1>1. PICK n : n = Cardinality(P) /\ n \in Nat
    BY FS_CardinalityType
  <1>2. PICK f \in [0..n -> Selections(P)] :
            /\ f[0] = [heap |-> Firsts(P), chosen |-> <<>>, used |-> 0]
            /\ \A i \in 1..n : f[i] = Turn(f[i - 1], P, room)
            /\ Select(P, room) = f[n].chosen
    BY <1>1, SelectTrace
  <1> DEFINE Good(i) == SelectInv(f[i].heap, f[i].chosen, f[i].used, P, room)
             All(i) == Contiguous(P) /\ room = SizeOf(P) => Exhausts(f[i].heap, f[i].chosen, P, i)
             T == {i \in Nat : i <= n => Good(i) /\ All(i)}
  <1>3. 0 \in T
    <2>1. f[0].heap = Firsts(P) /\ f[0].chosen = <<>> /\ f[0].used = 0
      BY <1>2
    <2> QED
      BY <2>1, SelectStart
  <1>4. \A i \in 0..(n - 1) : i \in T => i + 1 \in T
    <2> TAKE i \in 0..(n - 1)
    <2> HAVE i \in T
    <2>1. i \in 0..n /\ i + 1 \in 1..n /\ (i + 1) - 1 = i /\ i + 1 \in Nat /\ i \in Nat
      BY <1>1
    <2>2. Good(i) /\ All(i)
      BY <1>1, <2>1
    <2>3. PICK s, r : s = f[i] /\ r = f[i + 1]
      OBVIOUS
    <2>4. PICK H, c, w, I, d, x : /\ H = s.heap /\ c = s.chosen /\ w = s.used
                                  /\ I = r.heap /\ d = r.chosen /\ x = r.used
      OBVIOUS
    <2>5. s \in Selections(P) /\ r = Turn(s, P, room)
      BY <1>2, <2>1, <2>3
    <2>6. \/ s.heap = {} /\ r = s
          \/ \E t : Passes(s, r, t, room) \/ Picks(s, r, t, P, room)
      BY <2>5, TurnFacts
    <2>7. H \in SUBSET P /\ c \in Seq(P) /\ w \in Nat
      BY <2>4, <2>5 DEF Selections
    <2>8. SelectInv(H, c, w, P, room)
      BY <2>2, <2>3, <2>4
    <2>9. Contiguous(P) /\ room = SizeOf(P) => Exhausts(H, c, P, i)
      BY <2>2, <2>3, <2>4
    <2>10. /\ SelectInv(I, d, x, P, room)
           /\ Contiguous(P) /\ room = SizeOf(P) => Exhausts(I, d, P, i + 1)
      <3>1. CASE s.heap = {} /\ r = s
        <4>1. I = H /\ d = c /\ x = w /\ H = {}
          BY <2>4, <3>1
        <4> QED
          BY <2>8, <2>9, <4>1 DEF Exhausts
      <3>2. ASSUME NEW t, Passes(s, r, t, room)
            PROVE  <2>10!1 /\ <2>10!2
        <4>1. t \in H /\ I = H \ {t} /\ d = c /\ x = w /\ w + TxSize[t] > room
          BY <2>4, <3>2 DEF Passes
        <4>2. SelectInv(I, d, x, P, room)
          BY <2>7, <2>8, <4>1, SelectPass
        <4>3. TxSize[t] \in Nat
          BY <2>7, <4>1, RateTypes
        <4>4. ~(w + TxSize[t] <= room)
          BY <2>7, <4>1, <4>3
        <4>5. PICK J : J = (H \ {t}) \cup Following(t, P)
          OBVIOUS
        <4>6. Contiguous(P) /\ room = SizeOf(P) => w + TxSize[t] <= room
          BY <2>1, <2>7, <2>8, <2>9, <4>1, <4>5, SelectAll
        <4> QED
          BY <4>2, <4>4, <4>6
      <3>3. ASSUME NEW t, Picks(s, r, t, P, room)
            PROVE  <2>10!1 /\ <2>10!2
        <4>1. /\ t \in H /\ I = (H \ {t}) \cup Following(t, P) /\ d = Append(c, t)
              /\ x = w + TxSize[t] /\ w + TxSize[t] <= room
          BY <2>4, <3>3 DEF Picks
        <4>2. SelectInv(I, d, x, P, room)
          BY <2>7, <2>8, <4>1, SelectTake
        <4>3. Contiguous(P) /\ room = SizeOf(P) => Exhausts(I, d, P, i + 1)
          BY <2>1, <2>7, <2>8, <2>9, <4>1, SelectAll
        <4> QED
          BY <4>2, <4>3
      <3> QED
        BY <2>6, <3>1, <3>2, <3>3
    <2> QED
      BY <2>1, <2>3, <2>4, <2>10
  <1>5. 0 \in Int /\ n \in Int /\ n \in 0..n
    BY <1>1
  <1> HIDE DEF T
  <1>6. 0..n \subseteq T
    BY <1>3, <1>4, <1>5, UpTo
  <1>7. n \in T /\ f[n] \in Selections(P)
    BY <1>2, <1>5, <1>6
  <1>8. PICK H, c, w : H = f[n].heap /\ c = f[n].chosen /\ w = f[n].used
    OBVIOUS
  <1>9. c \in Seq(P) /\ SelectInv(H, c, w, P, room) /\ Select(P, room) = c
    BY <1>1, <1>2, <1>7, <1>8 DEF T, Selections
  <1>10. Contiguous(P) /\ room = SizeOf(P) => Exhausts(H, c, P, n)
    BY <1>1, <1>7, <1>8 DEF T
  <1>11. InOrder(c, P) /\ SizeOf(Range(c)) <= room
    BY <1>9 DEF SelectInv
  <1>12. Range(c) \subseteq P
    BY <1>9, ListFacts
  <1>13. Exhausts(H, c, P, n) => Range(c) = P
    <2>1. Cardinality(Range(c)) = n => Range(c) = P
      BY <1>1, <1>12, FS_Subset
    <2>2. (\A u \in P \ Range(c) : \E h \in {} : Sender(h) = Sender(u)) => Range(c) = P
      BY <1>12
    <2> QED
      BY <2>1, <2>2 DEF Exhausts
  <1> QED
    BY <1>9, <1>10, <1>11, <1>13

-----------------------------------------------------------------------------
(* Waiting transfers applied in the order of their nonces *)

\* What each transfer pays a, and what apply_block sees of each account.
PaidTo(a) == [t \in Txs |-> Paid(t, a)]
Seen(o) == [a \in Address |-> Get(o, a)]

\* The overlay q is what the transfers R of P, applied to o, make of it.
Reached(o, P, q, R) ==
    /\ q.ok
    /\ Coins(q, Zero) <= MaxAmount
    /\ \A a \in Address :
          /\ Get(q, a).nonce = Get(o, a).nonce + Cardinality(PendingFor(a, R))
          /\ Get(q, a).balance + SpentBy(PendingFor(a, R))
                = Get(o, a).balance + SumOver(R, PaidTo(a))
          /\ \A u \in PendingFor(a, P) : u \in R <=> Nonce(u) < Get(q, a).nonce

LEMMA PaidType ==
    ASSUME NEW t \in Txs, NEW a
    PROVE  Paid(t, a) \in Nat
  <1>1. PICK s : s = Transfer[t].outputs /\ s \in Seq(Output)
    BY LedgerTypes DEF Txs
  <1>2. DOMAIN s = 1..Len(s) /\ Len(s) \in Nat
    BY <1>1
  <1>3. Paid(t, a) = PaidBy(s, a, Len(s)) /\ Len(s) \in 0..Len(s)
    BY <1>1, <1>2 DEF Paid, PaidBy
  <1> QED
    BY <1>1, <1>3, PaidByFacts

LEMMA PaidToFacts ==
    ASSUME NEW R \in SUBSET Txs, IsFiniteSet(R), NEW a
    PROVE  /\ SumOver(R, PaidTo(a)) \in Nat
           /\ \A t \in Txs \ R : SumOver(R \cup {t}, PaidTo(a)) = SumOver(R, PaidTo(a)) + Paid(t, a)
  <1>1. \A t \in Txs : PaidTo(a)[t] = Paid(t, a) /\ PaidTo(a)[t] \in Nat
    BY PaidType DEF PaidTo
  <1>2. SumOver(R, PaidTo(a)) \in Nat
    BY <1>1, SumType
  <1>3. ASSUME NEW t \in Txs \ R
        PROVE  SumOver(R \cup {t}, PaidTo(a)) = SumOver(R, PaidTo(a)) + Paid(t, a)
    <2>1. \A x \in R \cup {t} : PaidTo(a)[x] \in Nat
      BY <1>1
    <2>2. SumOver(R \cup {t}, PaidTo(a)) = SumOver(R, PaidTo(a)) + PaidTo(a)[t]
      BY <2>1, <1>3, SumMore
    <2> QED
      BY <1>1, <2>2
  <1> QED
    BY <1>2, <1>3

LEMMA SeenFacts ==
    ASSUME NEW B \in [Address -> Account], NEW o \in Overlays(B)
    PROVE  /\ Seen(o) \in [Address -> Account]
           /\ \A a \in Address : /\ Seen(o)[a] = Get(o, a)
                                 /\ Get(o, a).balance \in Nat /\ Get(o, a).nonce \in Nat
  <1>1. \A a \in Address : Get(o, a) \in Account
    BY GetFacts
  <1>2. \A a \in Address : Get(o, a).balance \in Nat /\ Get(o, a).nonce \in Nat
    BY <1>1, LedgerTypes DEF Account
  <1> QED
    BY <1>1, <1>2 DEF Seen

\* R is some of the waiting transfers P, and t another one.
Part(R, P, t) == P \subseteq Txs /\ IsFiniteSet(P) /\ R \subseteq P /\ t \in P /\ t \notin R

\* All that its sender sends before t is in R.
Ripe(R, P, t) == \A v \in P : Before(v, t) => v \in R

\* The accounts of o can pay for the transfers P.
Affords(o, P) == \A a \in Address : ValidFor(a, P, Seen(o))

LEMMA PendingSets ==
    ASSUME NEW R, NEW P, NEW t, Part(R, P, t), NEW a
    PROVE  /\ PendingFor(a, R) \subseteq Txs /\ IsFiniteSet(PendingFor(a, R))
           /\ PendingFor(a, R) \subseteq PendingFor(a, P) /\ t \notin PendingFor(a, R)
           /\ Cardinality(PendingFor(a, R)) \in Nat
  <1>0. P \subseteq Txs /\ IsFiniteSet(P) /\ R \subseteq P /\ t \in P /\ t \notin R
    BY DEF Part
  <1>1. PendingFor(a, R) \in SUBSET P /\ PendingFor(a, R) \subseteq PendingFor(a, P)
        /\ t \notin PendingFor(a, R)
    BY <1>0 DEF PendingFor
  <1>2. IsFiniteSet(PendingFor(a, R)) /\ Cardinality(PendingFor(a, R)) \in Nat
    BY <1>0, <1>1, FS_Subset, FS_CardinalityType
  <1> QED
    BY <1>0, <1>1, <1>2

LEMMA PendingMore ==
    ASSUME NEW R, NEW P, NEW t, Part(R, P, t), NEW a, a = Sender(t)
    PROVE  /\ PendingFor(a, R \cup {t}) = PendingFor(a, R) \cup {t}
           /\ Cardinality(PendingFor(a, R \cup {t})) = Cardinality(PendingFor(a, R)) + 1
  <1>1. PendingFor(a, R \cup {t}) = PendingFor(a, R) \cup {t}
    BY DEF PendingFor
  <1>2. IsFiniteSet(PendingFor(a, R)) /\ t \notin PendingFor(a, R)
    BY PendingSets
  <1>3. PICK A : A = PendingFor(a, R)
    OBVIOUS
  <1>4. Cardinality(A \cup {t}) = Cardinality(A) + 1
    BY <1>2, <1>3, FS_AddElement
  <1> QED
    BY <1>1, <1>3, <1>4

\* The next transfer of a sender carries the nonce that its account has by then,
\* and the sender can pay for it.
LEMMA NextCanPay ==
    ASSUME NEW B \in [Address -> Account], NEW o \in Overlays(B),
           NEW P, Numbered(P), Affords(o, P),
           NEW R, NEW q \in Overlays(B), Reached(o, P, q, R), NEW t, Part(R, P, t), Ripe(R, P, t)
    PROVE  Get(q, Sender(t)).nonce = Nonce(t) /\ CanPay(q, t)
  <1>0. /\ P \in SUBSET Txs /\ IsFiniteSet(P) /\ R \in SUBSET P /\ t \in P /\ t \notin R
    BY DEF Part
  <1>1. PICK a : a = Sender(t) /\ a \in Address
    BY <1>0, SenderIsAddress
  <1>2. PICK k, m, x, y, card, spent, in, all, cost :
            /\ k = Get(q, a).nonce /\ m = Get(o, a).nonce
            /\ x = Get(q, a).balance /\ y = Get(o, a).balance
            /\ card = Cardinality(PendingFor(a, R)) /\ spent = SpentBy(PendingFor(a, R))
            /\ in = SumOver(R, PaidTo(a)) /\ all = SpentBy(PendingFor(a, P))
            /\ cost = TotalSpent(t)
    OBVIOUS
  <1>3. /\ k \in Nat /\ m \in Nat /\ x \in Nat /\ y \in Nat
    BY <1>1, <1>2, SeenFacts
  <1>4. /\ PendingFor(a, R) \in SUBSET Txs /\ IsFiniteSet(PendingFor(a, R)) /\ card \in Nat
        /\ t \notin PendingFor(a, R) /\ PendingFor(a, R) \cup {t} \in SUBSET PendingFor(a, P)
    <2>2. t \in PendingFor(a, P)
      BY <1>0, <1>1 DEF PendingFor
    <2>3. /\ PendingFor(a, R) \subseteq Txs /\ IsFiniteSet(PendingFor(a, R)) /\ card \in Nat
          /\ PendingFor(a, R) \subseteq PendingFor(a, P) /\ t \notin PendingFor(a, R)
      BY <1>2, PendingSets
    <2> QED
      BY <2>2, <2>3
  <1>5. PendingFor(a, P) \in SUBSET Txs /\ IsFiniteSet(PendingFor(a, P)) /\ R \in SUBSET Txs
        /\ IsFiniteSet(R)
    BY <1>0, FS_Subset DEF PendingFor
  <1>6. /\ spent \in Nat /\ all \in Nat /\ in \in Nat /\ cost \in Nat /\ spent + cost <= all
    <2>1. SpentBy(PendingFor(a, R) \cup {t}) = spent + cost
      BY <1>0, <1>2, <1>4, SpentMore
    <2>2. SpentBy(PendingFor(a, R) \cup {t}) <= all
      BY <1>2, <1>4, <1>5, SpentMonotone
    <2>3. spent \in Nat /\ all \in Nat
      BY <1>2, <1>4, <1>5, SpentFacts
    <2>4. in \in Nat
      BY <1>2, <1>5, PaidToFacts
    <2>5. cost \in Nat
      BY <1>0, <1>2, TotalSpentType DEF Txs
    <2> QED
      BY <2>1, <2>2, <2>3, <2>4, <2>5
  <1>7. Seen(o)[a] = Get(o, a)
    BY <1>1, SeenFacts
  <1>8. /\ k = m + card /\ x + spent = y + in
        /\ \A u \in PendingFor(a, P) : u \in R <=> Nonce(u) < k
    BY <1>1, <1>2 DEF Reached
  <1>9. /\ \A u \in PendingFor(a, P) : \A n \in m..(Nonce(u) - 1) :
              \E v \in PendingFor(a, P) : Nonce(v) = n
        /\ all <= y
    BY <1>1, <1>2, <1>7 DEF ValidFor, Affords
  <1>10. cost <= x
    BY <1>3, <1>6, <1>8, <1>9
  <1>11. t \in PendingFor(a, P) /\ Nonce(t) \in Nat
    BY <1>0, <1>1, NonceType DEF PendingFor
  <1>12. k <= Nonce(t)
    BY <1>0, <1>3, <1>8, <1>11
  <1>13. k = Nonce(t)
    <2> SUFFICES ASSUME k # Nonce(t) PROVE FALSE
      OBVIOUS
    <2>1. k \in m..(Nonce(t) - 1) /\ k < Nonce(t)
      BY <1>3, <1>4, <1>8, <1>11, <1>12
    <2>2. PICK v \in PendingFor(a, P) : Nonce(v) = k
      BY <1>9, <1>11, <2>1
    <2>3. v \in P /\ Before(v, t)
      BY <1>1, <2>1, <2>2 DEF PendingFor, Before
    <2>4. v \in R
      BY <2>3 DEF Ripe
    <2> QED
      BY <1>3, <1>8, <2>2, <2>4
  <1>14. CanSpend(t, Get(q, Transfer[t].sender))
    <2>1. Transfer[t].sender = a /\ Transfer[t].nonce = k
      BY <1>1, <1>13 DEF Sender, Nonce
    <2> QED
      BY <1>2, <1>10, <2>1 DEF CanSpend
  <1>15. q.ok
    BY DEF Reached
  <1>16. CanPay(q, t)
    BY <1>14, <1>15 DEF CanPay
  <1> QED
    BY <1>1, <1>2, <1>13, <1>16

LEMMA NextReached ==
    ASSUME NEW B \in [Address -> Account], NEW o \in Overlays(B),
           NEW P, Numbered(P), Affords(o, P),
           NEW R, NEW q \in Overlays(B), Reached(o, P, q, R), NEW t, Part(R, P, t), Ripe(R, P, t),
           NEW r, r = ApplyTransfer(q, t)
    PROVE  Reached(o, P, r, R \cup {t}) /\ r.fees = q.fees + Transfer[t].fee
  <1>0. /\ Part(R, P, t) /\ P \in SUBSET Txs /\ IsFiniteSet(P) /\ R \in SUBSET P
        /\ t \in P /\ t \notin R
    BY DEF Part
  <1>1. Get(q, Sender(t)).nonce = Nonce(t) /\ CanPay(q, t)
    BY NextCanPay
  <1>2. t \in DOMAIN Transfer /\ Sender(t) = Transfer[t].sender /\ Coins(q, Zero) <= MaxAmount
    BY <1>0 DEF Txs, Sender, Reached
  <1>3. r.ok
    BY <1>1, <1>2, TransferSucceeds
  <1>4. /\ r \in Overlays(B) /\ r.fees = q.fees + Transfer[t].fee
        /\ \A a \in Address : Get(r, a).nonce = Get(q, a).nonce + IF a = Sender(t) THEN 1 ELSE 0
    BY <1>2, <1>3, TransferFacts
  <1>5. Coins(r, Zero) <= MaxAmount
    <2>1. Zero \in [Address -> Nat] /\ Coins(q, Zero) \in Nat /\ Coins(r, Zero) \in Nat
      BY <1>4, NoneHeld
    <2>2. Coins(r, Zero) + r.fees = Coins(q, Zero) + q.fees
      BY <1>2, <1>3, <2>1, TransferCoins
    <2>3. q.fees \in Nat
      BY OverlayFacts
    <2>4. Transfer[t].fee \in Nat /\ MaxAmount \in Nat
      BY <1>2, LedgerTypes
    <2>5. PICK x, y, u, v, w : /\ x = Coins(r, Zero) /\ y = Coins(q, Zero) /\ u = r.fees
                               /\ v = q.fees /\ w = Transfer[t].fee
      OBVIOUS
    <2>6. x + u = y + v /\ u = v + w /\ y <= MaxAmount
      BY <1>2, <1>4, <2>2, <2>5
    <2>7. x \in Nat /\ y \in Nat /\ v \in Nat /\ w \in Nat /\ MaxAmount \in Nat
      BY <2>1, <2>3, <2>4, <2>5
    <2>8. x <= MaxAmount
      BY <2>6, <2>7
    <2> QED
      BY <2>5, <2>8
  <1>6. ASSUME NEW a \in Address
        PROVE  /\ Get(r, a).nonce = Get(o, a).nonce + Cardinality(PendingFor(a, R \cup {t}))
               /\ Get(r, a).balance + SpentBy(PendingFor(a, R \cup {t}))
                     = Get(o, a).balance + SumOver(R \cup {t}, PaidTo(a))
               /\ \A u \in PendingFor(a, P) : u \in R \cup {t} <=> Nonce(u) < Get(r, a).nonce
    <2>1. PICK k, l, m, x, y, z, card, spent, in, pay, cost :
              /\ k = Get(q, a).nonce /\ l = Get(r, a).nonce /\ m = Get(o, a).nonce
              /\ x = Get(q, a).balance /\ y = Get(o, a).balance /\ z = Get(r, a).balance
              /\ card = Cardinality(PendingFor(a, R)) /\ spent = SpentBy(PendingFor(a, R))
              /\ in = SumOver(R, PaidTo(a)) /\ pay = Paid(t, a) /\ cost = TotalSpent(t)
      OBVIOUS
    <2>2. /\ k \in Nat /\ l \in Nat /\ m \in Nat /\ x \in Nat /\ y \in Nat /\ z \in Nat
      BY <1>4, <2>1, SeenFacts
    <2>3. /\ PendingFor(a, R) \in SUBSET Txs /\ IsFiniteSet(PendingFor(a, R)) /\ card \in Nat
          /\ t \notin PendingFor(a, R)
      BY <1>0, <2>1, PendingSets
    <2>4. R \in SUBSET Txs /\ IsFiniteSet(R) /\ t \in Txs \ R
      BY <1>0, FS_Subset
    <2>5. /\ spent \in Nat /\ in \in Nat /\ pay \in Nat /\ cost \in Nat
          /\ SumOver(R \cup {t}, PaidTo(a)) = in + pay
      BY <1>2, <2>1, <2>3, <2>4, SpentFacts, PaidToFacts, PaidType, TotalSpentType
    <2>6. /\ k = m + card /\ x + spent = y + in
          /\ \A u \in PendingFor(a, P) : u \in R <=> Nonce(u) < k
      BY <2>1 DEF Reached
    <2>7. /\ a # Sender(t) => z = x + pay
          /\ a = Sender(t) => z + cost = x + pay
      BY <1>2, <1>3, <2>1, TransferBalances
    <2>8. /\ a # Sender(t) => l = k
          /\ a = Sender(t) => l = k + 1
      BY <1>4, <2>1, <2>2
    <2>9. CASE a # Sender(t)
      <3>1. PendingFor(a, R \cup {t}) = PendingFor(a, R) /\ t \notin PendingFor(a, P)
        BY <2>9 DEF PendingFor
      <3>2. l = m + card /\ z + spent = y + (in + pay)
        BY <2>2, <2>3, <2>5, <2>6, <2>7, <2>8, <2>9
      <3>3. \A u \in PendingFor(a, P) : u \in R \cup {t} <=> Nonce(u) < l
        BY <2>6, <2>8, <2>9, <3>1
      <3> QED
        BY <2>1, <2>5, <3>1, <3>2, <3>3
    <2>10. CASE a = Sender(t)
      <3>1. /\ PendingFor(a, R \cup {t}) = PendingFor(a, R) \cup {t}
            /\ Cardinality(PendingFor(a, R \cup {t})) = card + 1
        BY <1>0, <2>1, <2>10, PendingMore
      <3>2. SpentBy(PendingFor(a, R \cup {t})) = spent + cost
        BY <2>1, <2>3, <2>4, <3>1, SpentMore
      <3>3. l = m + (card + 1) /\ z + (spent + cost) = y + (in + pay)
        BY <2>2, <2>3, <2>5, <2>6, <2>7, <2>8, <2>10
      <3>4. ASSUME NEW u \in PendingFor(a, P)
            PROVE  u \in R \cup {t} <=> Nonce(u) < l
        <4>1. u \in P /\ Sender(u) = Sender(t) /\ Nonce(u) \in Nat /\ Nonce(t) \in Nat
          BY <1>0, <2>10, <3>4, NonceType DEF PendingFor
        <4>2. k = Nonce(t) /\ l = Nonce(t) + 1
          BY <1>1, <2>1, <2>8, <2>10
        <4>3. Nonce(u) = Nonce(t) <=> u = t
          BY <1>0, <4>1 DEF Numbered
        <4>4. Nonce(u) < l <=> Nonce(u) < k \/ Nonce(u) = Nonce(t)
          BY <4>1, <4>2
        <4> QED
          BY <2>6, <3>4, <4>3, <4>4
      <3> QED
        BY <2>1, <2>5, <3>1, <3>2, <3>3, <3>4
    <2> QED
      BY <2>9, <2>10
  <1>7. Reached(o, P, r, R \cup {t})
    BY <1>3, <1>5, <1>6 DEF Reached
  <1> QED
    BY <1>4, <1>7

\* build_template: the reward and the fees of the transfers c.
WithFees(reward, c) == Fold(LAMBDA sum, t : sum + Transfer[t].fee, reward, c)

LEMMA FeesTrace ==
    ASSUME NEW c \in Seq(DOMAIN Transfer), NEW reward \in Nat
    PROVE  \E f \in [0..Len(c) -> Nat] :
              /\ f[0] = reward
              /\ \A i \in 1..Len(c) : f[i] = f[i - 1] + Transfer[c[i]].fee
              /\ WithFees(reward, c) = f[Len(c)]
  <1> DEFINE n == Len(c)
             E == DOMAIN Transfer
             add == [x \in Nat \X E |-> x[1] + Transfer[x[2]].fee]
             Sum(f) == f = [i \in 0..n |-> IF i = 0 THEN reward ELSE f[i - 1] + Transfer[c[i]].fee]
  <1>1. n \in Nat /\ c \in [1..n -> E] /\ \A t \in E : Transfer[t].fee \in Nat
    BY LedgerTypes
  <1>2. add \in [Nat \X E -> Nat]
    BY <1>1
  <1>3. \A y \in Nat, t \in E : add[<<y, t>>] = y + Transfer[t].fee
    OBVIOUS
  <1>4. WithFees(reward, c) = (CHOOSE f : Sum(f))[n]
    BY DEF WithFees, Fold
  <1> HIDE DEF add, n, E
  <1>5. PICK g \in [0..n -> Nat] : Follows(g, n, reward, c, add)
    BY <1>1, <1>2, Stepwise
  <1>6. Sum(g)
    <2>2. \A i \in 1..n : add[<<g[i - 1], c[i]>>] = g[i - 1] + Transfer[c[i]].fee
      BY <1>1, <1>3
    <2>3. \A i \in 0..n : g[i] = IF i = 0 THEN reward ELSE g[i - 1] + Transfer[c[i]].fee
      <3> TAKE i \in 0..n
      <3>1. i = 0 \/ i \in 1..n
        BY <1>1
      <3>2. g[i] = IF i = 0 THEN reward ELSE add[<<g[i - 1], c[i]>>]
        BY <1>5, <3>1 DEF Follows
      <3> QED
        BY <2>2, <3>1, <3>2
    <2> QED
      BY <2>3
  <1>7. PICK f : f = (CHOOSE h : Sum(h)) /\ Sum(f)
    <2> HIDE DEF Sum
    <2> QED
      BY <1>6
  <1>8. f[0] = reward /\ \A i \in 1..n : f[i] = f[i - 1] + Transfer[c[i]].fee
    <2>1. 0 \in 0..n /\ \A i \in 1..n : i \in 0..n /\ i # 0
      BY <1>1
    <2>2. \A i \in 0..n : f[i] = IF i = 0 THEN reward ELSE f[i - 1] + Transfer[c[i]].fee
      BY <1>7, Zenon
    <2> QED
      BY <2>1, <2>2
  <1>9. f = [i \in 0..n |-> f[i]]
    BY <1>7
  <1> DEFINE T == {i \in Nat : i <= n => f[i] \in Nat}
  <1>10. 0 \in T
    BY <1>8
  <1>11. \A i \in 0..(n - 1) : i \in T => i + 1 \in T
    <2> TAKE i \in 0..(n - 1)
    <2> HAVE i \in T
    <2>1. i + 1 \in 1..n /\ (i + 1) - 1 = i /\ i + 1 \in Nat /\ f[i] \in Nat
      BY <1>1
    <2>2. f[i + 1] = f[i] + Transfer[c[i + 1]].fee /\ Transfer[c[i + 1]].fee \in Nat
      BY <1>1, <1>8, <2>1
    <2> QED
      BY <2>1, <2>2
  <1> HIDE DEF T
  <1>12. 0..n \subseteq T
    <2>1. 0 \in Int /\ n \in Int
      BY <1>1
    <2> QED
      BY <1>10, <1>11, <2>1, UpTo
  <1>13. \A i \in 0..n : f[i] \in Nat
    BY <1>1, <1>12 DEF T
  <1>14. f \in [0..n -> Nat]
    BY <1>9, <1>13
  <1> QED
    BY <1>4, <1>7, <1>8, <1>14 DEF n

\* Nothing has been applied to o, and all balances together are in the limit.
Fresh(o) == o.ok /\ Coins(o, Zero) <= MaxAmount

LEMMA NoneReached ==
    ASSUME NEW B \in [Address -> Account], NEW o \in Overlays(B), Fresh(o), NEW P \in SUBSET Txs,
           Affords(o, P)
    PROVE  Reached(o, P, o, {})
  <1>1. o.ok /\ Coins(o, Zero) <= MaxAmount
    BY DEF Fresh
  <1>2. ASSUME NEW a \in Address
        PROVE  /\ Get(o, a).nonce = Get(o, a).nonce + Cardinality(PendingFor(a, {}))
               /\ Get(o, a).balance + SpentBy(PendingFor(a, {}))
                     = Get(o, a).balance + SumOver({}, PaidTo(a))
               /\ \A u \in PendingFor(a, P) : u \in {} <=> Nonce(u) < Get(o, a).nonce
    <2>1. PendingFor(a, {}) = {} /\ Cardinality({}) = 0
      BY FS_EmptySet DEF PendingFor
    <2>2. SpentBy({}) = 0 /\ SumOver({}, PaidTo(a)) = 0
      BY SumEmpty DEF SpentBy
    <2>3. Get(o, a).nonce \in Nat /\ Get(o, a).balance \in Nat /\ Seen(o)[a] = Get(o, a)
      BY SeenFacts
    <2>4. PICK k : k = Get(o, a).nonce
      OBVIOUS
    <2>5. \A u \in PendingFor(a, P) : k <= Nonce(u) /\ Nonce(u) \in Nat
      BY <2>3, <2>4, NonceType DEF Affords, ValidFor, PendingFor
    <2>6. \A u \in PendingFor(a, P) : ~(Nonce(u) < k)
      BY <2>3, <2>4, <2>5
    <2> QED
      BY <2>1, <2>2, <2>3, <2>4, <2>6
  <1> QED
    BY <1>1, <1>2 DEF Reached

LEMMA AppliedInOrder ==
    ASSUME NEW B \in [Address -> Account], NEW o \in Overlays(B), Fresh(o),
           NEW P \in SUBSET Txs, IsFiniteSet(P), Numbered(P),
           Affords(o, P),
           NEW c \in Seq(P), InOrder(c, P), NEW r, r = Fold(ApplyTransfer, o, c)
    PROVE  /\ r \in Overlays(B) /\ Reached(o, P, r, Range(c))
           /\ WithFees(BlockReward, c) + o.fees = BlockReward + r.fees
  <1>1. PICK n : n = Len(c) /\ n \in Nat /\ DOMAIN c = 1..n /\ c \in [1..n -> P]
    OBVIOUS
  <1>2. c \in Seq(DOMAIN Transfer) /\ BlockReward \in Nat
    BY LedgerTypes DEF Txs
  <1>3. PICK f \in [0..n -> Overlays(B)] :
            /\ f[0] = o
            /\ \A i \in 1..n : f[i] = ApplyTransfer(f[i - 1], c[i])
            /\ Fold(ApplyTransfer, o, c) = f[n]
    BY <1>1, <1>2, TransfersTrace
  <1>4. PICK g \in [0..n -> Nat] :
            /\ g[0] = BlockReward
            /\ \A i \in 1..n : g[i] = g[i - 1] + Transfer[c[i]].fee
            /\ WithFees(BlockReward, c) = g[n]
    BY <1>1, <1>2, FeesTrace
  <1> DEFINE Prefix(i) == {c[j] : j \in 1..i}
             T == {i \in Nat : i <= n => /\ Reached(o, P, f[i], Prefix(i))
                                         /\ g[i] + o.fees = BlockReward + f[i].fees}
  <1>5. 0 \in T
    <2>1. Prefix(0) = {}
      OBVIOUS
    <2> QED
      BY <1>3, <1>4, <2>1, NoneReached
  <1>6. \A i \in 0..(n - 1) : i \in T => i + 1 \in T
    <2> TAKE i \in 0..(n - 1)
    <2> HAVE i \in T
    <2>1. /\ i \in 0..n /\ i + 1 \in 0..n /\ i + 1 \in 1..n /\ (i + 1) - 1 = i /\ i + 1 \in Nat
          /\ i \in Nat /\ i <= n
      BY <1>1
    <2>2. PICK q, s, t, R : q = f[i] /\ s = f[i + 1] /\ t = c[i + 1] /\ R = Prefix(i)
      OBVIOUS
    <2>3. q \in Overlays(B) /\ s = ApplyTransfer(q, t) /\ t \in P
      BY <1>1, <1>3, <2>1, <2>2
    <2>4. R \subseteq P /\ Prefix(i + 1) = R \cup {t}
      <3>1. \A j \in 1..i : j \in 1..n
        BY <1>1, <2>1
      <3>2. \A j \in 1..(i + 1) : j \in 1..i \/ j = i + 1
        BY <2>1
      <3>3. \A j \in 1..i : j \in 1..(i + 1)
        BY <2>1
      <3>4. i + 1 \in 1..(i + 1)
        BY <2>1
      <3> QED
        BY <1>1, <2>2, <3>1, <3>2, <3>3, <3>4
    <2>5. t \notin R
      <3> SUFFICES ASSUME NEW j \in 1..i, c[j] = t PROVE FALSE
        BY <2>2
      <3>1. j \in 1..n /\ j # i + 1
        BY <1>1, <2>1
      <3> QED
        BY <1>1, <2>1, <2>2, <3>1 DEF InOrder, IsInjective
    <2>6. \A v \in P : Before(v, t) => v \in R
      BY <1>1, <2>1, <2>2 DEF InOrder
    <2>7. Reached(o, P, q, R) /\ g[i] + o.fees = BlockReward + q.fees
      BY <2>1, <2>2
    <2>9. Reached(o, P, s, R \cup {t}) /\ s.fees = q.fees + Transfer[t].fee
      <3>1. Part(R, P, t) /\ Ripe(R, P, t)
        BY <2>3, <2>4, <2>5, <2>6 DEF Part, Ripe
      <3> QED
        BY <2>3, <2>7, <3>1, NextReached
    <2>10. g[i + 1] = g[i] + Transfer[t].fee
      BY <1>4, <2>1, <2>2
    <2>11. PICK x, y, z, u, v, w : /\ x = g[i] /\ y = g[i + 1] /\ z = Transfer[t].fee
                                   /\ u = q.fees /\ v = s.fees /\ w = o.fees
      OBVIOUS
    <2>12. x \in Nat /\ z \in Nat /\ u \in Nat /\ w \in Nat /\ BlockReward \in Nat
      <3>1. q.fees \in Nat /\ o.fees \in Nat
        BY <2>3, OverlayFacts
      <3>2. z \in Nat
        BY <2>3, <2>11, LedgerTypes DEF Txs
      <3> QED
        BY <1>2, <1>4, <2>1, <2>11, <3>1, <3>2
    <2>13. x + w = BlockReward + u /\ y = x + z /\ v = u + z
      BY <2>7, <2>9, <2>10, <2>11
    <2>14. y + w = BlockReward + v
      BY <2>12, <2>13
    <2> QED
      BY <2>1, <2>2, <2>4, <2>9, <2>11, <2>14
  <1>7. 0 \in Int /\ n \in Int /\ n \in 0..n
    BY <1>1
  <1>8. Prefix(n) = Range(c)
    BY <1>1 DEF Range
  <1> HIDE DEF T, Prefix
  <1>9. 0..n \subseteq T
    BY <1>5, <1>6, <1>7, UpTo
  <1>10. n \in T
    BY <1>7, <1>9
  <1> QED
    BY <1>1, <1>3, <1>4, <1>7, <1>8, <1>10 DEF T

-----------------------------------------------------------------------------
(* Between calls *)

\* Between calls of a node that has never met the exception of _adopt_orphans,
\* while the rewards of its chain together are in the limit.
Settled ==
    /\ AcceptsIsReplay /\ LedgerInv /\ EvictInv /\ ValidInv
    /\ Idle /\ raised = "never" /\ BlockReward * (TipHeight + 1) <= MaxAmount

LEMMA AllInLimit ==
    ASSUME NEW B \in [Address -> Account], NEW o \in Overlays(B), NEW held \in [Address -> Nat],
           Wealth(B, held) <= MaxAmount,
           \A a \in Address : Get(o, a).balance <= B[a].balance + held[a]
    PROVE  Coins(o, Zero) <= MaxAmount
  <1> DEFINE f == [a \in Address |-> Get(o, a).balance + Zero[a]]
             g == [a \in Address |-> B[a].balance + held[a]]
  <1>1. \A a \in Address : Get(o, a).balance \in Nat
    BY NoneHeld
  <1>2. \A a \in Address : B[a].balance \in Nat
    BY LedgerTypes DEF Account
  <1>3. \A a \in Address : f[a] \in Nat /\ g[a] \in Nat /\ f[a] <= g[a]
    BY <1>1, <1>2 DEF Zero
  <1>4. Coins(o, Zero) = SumOver(Address, f) /\ Wealth(B, held) = SumOver(Address, g)
    BY DEF Coins, Wealth
  <1>5. IsFiniteSet(Address) /\ Address \in SUBSET Address
    BY LedgerAssumption
  <1> HIDE DEF f, g
  <1>6. SumOver(Address, f) \in Nat /\ SumOver(Address, g) \in Nat
        /\ SumOver(Address, f) <= SumOver(Address, g)
    BY <1>3, <1>5, SumSmaller
  <1> QED
    BY <1>4, <1>6, LedgerTypes

LEMMA RichestInLimit ==
    ASSUME NEW B \in [Address -> Account], NEW held \in [Address -> Nat],
           Wealth(B, held) <= MaxAmount, NEW a \in Address
    PROVE  B[a].balance + held[a] <= MaxAmount
  <1> DEFINE g == [x \in Address |-> B[x].balance + held[x]]
  <1>1. \A x \in Address : g[x] \in Nat /\ g[x] = B[x].balance + held[x]
    BY LedgerTypes DEF Account
  <1>2. Wealth(B, held) = SumOver(Address, g)
    BY DEF Wealth
  <1>3. IsFiniteSet(Address)
    BY LedgerAssumption
  <1> HIDE DEF g
  <1>4. g[a] <= SumOver(Address, g) /\ SumOver(Address, g) \in Nat
    BY <1>1, <1>3, SumPart, SumType
  <1> QED
    BY <1>1, <1>2, <1>4, LedgerTypes

LEMMA SettledFacts ==
    ASSUME Settled
    PROVE  /\ pool \in SUBSET Txs /\ IsFiniteSet(pool) /\ Numbered(pool)
           /\ accounts \in [Address -> Account]
           /\ \A a \in Address : ValidFor(a, pool, accounts)
           /\ Tip \in Block /\ TipHeight = Height[Tip] /\ TipHeight \in Nat
           /\ Sound(Tables, Tip) /\ Tables.accounts = accounts
           /\ Held(Tip) \in [Address -> Nat] /\ Wealth(accounts, Held(Tip)) <= MaxAmount
  <1>1. pool \in SUBSET Txs /\ IsFiniteSet(pool) /\ Numbered(pool)
    BY DEF Settled, EvictInv, Waiting, OneForEachNonce, Numbered
  <1>2. accounts \in [Address -> Account] /\ accounts = Replayed[Tip].accounts
    BY AccountsFacts DEF Settled
  <1>3. \A a \in Address : ValidFor(a, pool, accounts)
    BY DEF Settled, ValidInv, Idle
  <1>4. /\ Tip \in Block /\ TipHeight = Height[Tip] /\ Replayed[Tip].ok /\ Sound(Tables, Tip)
    BY TablesFacts DEF Settled
  <1>5. Tables.accounts = accounts
    BY DEF Tables
  <1>6. TipHeight \in Nat
    BY <1>4, TreeAssumption
  <1>7. Held(Tip) \in [Address -> Nat]
    BY <1>4, HeldType
  <1>8. Wealth(Replayed[Tip].accounts, Held(Tip)) = BlockReward * (Height[Tip] + 1)
    BY <1>4, SupplyOfBranch
  <1>9. Wealth(accounts, Held(Tip)) <= MaxAmount
    BY <1>2, <1>4, <1>8 DEF Settled
  <1> QED
    BY <1>1, <1>2, <1>3, <1>4, <1>5, <1>6, <1>7, <1>9

\* The overlay that apply_block starts a block on the tip with.
LEMMA StartOfBlock ==
    ASSUME Settled, NEW m, m = Matured(Tables, TipHeight + 1)
    PROVE  m \in Overlays(accounts) /\ m.fees = 0 /\ Fresh(m) /\ Affords(m, pool)
  <1>1. PICK p, L, acc, held, h : /\ p = Tip /\ L = Tables /\ acc = accounts /\ held = Held(Tip)
                                  /\ h = TipHeight + 1
    OBVIOUS
  <1>2. /\ p \in Block /\ Sound(L, p) /\ L.accounts = acc /\ acc \in [Address -> Account]
        /\ h \in Nat /\ h = Height[p] + 1 /\ m = Matured(L, h)
        /\ held = Held(p) /\ held \in [Address -> Nat] /\ Wealth(acc, held) <= MaxAmount
    BY <1>1, SettledFacts
  <1>3. \A a \in Address : acc[a].balance + held[a] <= MaxAmount
    BY <1>2, RichestInLimit
  <1>4. /\ m \in Overlays(L.accounts) /\ m.fees = 0
        /\ \A a \in Address : Get(m, a).nonce = L.accounts[a].nonce
        /\ m.ok => \A a \in Address : L.accounts[a].balance <= Get(m, a).balance
        /\ (\A a \in Address : L.accounts[a].balance + Held(p)[a] <= MaxAmount) =>
              m.ok /\ \A a \in Address : Get(m, a).balance <= L.accounts[a].balance + Held(p)[a]
    BY <1>2, MaturedOn
  <1>5. /\ m \in Overlays(acc) /\ m.ok
        /\ \A a \in Address : /\ Get(m, a).nonce = acc[a].nonce
                              /\ acc[a].balance <= Get(m, a).balance
                              /\ Get(m, a).balance <= acc[a].balance + held[a]
    BY <1>2, <1>3, <1>4
  <1>6. Coins(m, Zero) <= MaxAmount
    BY <1>2, <1>5, AllInLimit
  <1>7. Fresh(m)
    BY <1>5, <1>6 DEF Fresh
  <1>8. PICK P : P = pool
    OBVIOUS
  <1>9. P \in SUBSET Txs /\ IsFiniteSet(P) /\ \A a \in Address : ValidFor(a, P, acc)
    BY <1>1, <1>8, SettledFacts
  <1>10. PICK new : new = Seen(m)
    OBVIOUS
  <1>11. new \in [Address -> Account] /\ \A a \in Address : new[a] = Get(m, a)
    BY <1>2, <1>5, <1>10, SeenFacts
  <1>12. ASSUME NEW a \in Address PROVE ValidFor(a, P, new)
    <2>1. new[a].nonce = acc[a].nonce /\ acc[a].balance <= new[a].balance
      BY <1>5, <1>11
    <2> QED
      BY <1>2, <1>9, <1>11, <2>1, RicherValid
  <1>13. Affords(m, P)
    BY <1>10, <1>12 DEF Affords
  <1> QED
    BY <1>1, <1>4, <1>5, <1>7, <1>8, <1>13

LEMMA SettledTemplate ==
    ASSUME Settled
    PROVE  TemplateAccepted
  <1>1. PICK m, P, c, r : /\ m = Matured(Tables, TipHeight + 1) /\ P = pool
                          /\ c = Select(P, Room) /\ r = Fold(ApplyTransfer, m, c)
    OBVIOUS
  <1>2. m \in Overlays(accounts) /\ m.fees = 0 /\ Fresh(m) /\ Affords(m, P)
    BY <1>1, StartOfBlock
  <1>3. P \in SUBSET Txs /\ IsFiniteSet(P) /\ Numbered(P) /\ accounts \in [Address -> Account]
    BY <1>1, SettledFacts
  <1>4. c \in Seq(P) /\ InOrder(c, P) /\ SizeOf(Range(c)) <= Room
    BY <1>1, <1>3, SelectFacts, ServiceAssumption
  <1>5. PICK B : B = accounts
    OBVIOUS
  <1>6. /\ r \in Overlays(B) /\ Reached(m, P, r, Range(c))
        /\ WithFees(BlockReward, c) + m.fees = BlockReward + r.fees
    <2>1. B \in [Address -> Account] /\ m \in Overlays(B) /\ Fresh(m) /\ Affords(m, P)
      BY <1>2, <1>3, <1>5
    <2> QED
      BY <1>1, <1>3, <1>4, <2>1, AppliedInOrder
  <1>7. r.ok
    BY <1>6 DEF Reached
  <1>8. PICK g : g \in Nat /\ g = WithFees(BlockReward, c)
    <2>1. c \in Seq(DOMAIN Transfer) /\ BlockReward \in Nat
      BY <1>3, <1>4, LedgerTypes DEF Txs
    <2>2. PICK f \in [0..Len(c) -> Nat] : WithFees(BlockReward, c) = f[Len(c)]
      BY <2>1, FeesTrace
    <2>3. Len(c) \in 0..Len(c)
      BY <2>1
    <2> QED
      BY <2>2, <2>3
  <1>9. g = BlockReward + r.fees
    BY <1>2, <1>6, <1>8
  <1>10. Template.transfers = c /\ Template.coinbase = g
    BY <1>1, <1>8 DEF Template, WithFees
  <1>11. ToSet(c) = Range(c)
    BY SetOfList
  <1> QED
    BY <1>1, <1>4, <1>7, <1>9, <1>10, <1>11 DEF TemplateAccepted

\* The block template that build_template makes between calls is accepted on the
\* tip: none of its transfers fails, its coinbase claims what apply_block wants,
\* and it fits.  This is so until an exception in _adopt_orphans keeps a call
\* from updating the mempool, and while the rewards of the active chain together
\* do not exceed MAX_AMOUNT, the largest balance.
THEOREM TemplatesAreAccepted ==
    AcceptsIsReplay =>
        (SSpec => [](raised = "never" /\ BlockReward * (TipHeight + 1) <= MaxAmount
                       => TemplateAccepted))
  <1> SUFFICES ASSUME AcceptsIsReplay
               PROVE  SSpec => [](raised = "never" /\ BlockReward * (TipHeight + 1) <= MaxAmount
                                    => TemplateAccepted)
    OBVIOUS
  <1>1. SSpec => [](EvictInv /\ LedgerInv /\ ValidInv)
    BY ServiceInvariant
  <1>2. ~Idle => TemplateAccepted
    BY DEF TemplateAccepted
  <1>3. /\ EvictInv /\ LedgerInv /\ ValidInv /\ Idle
        /\ raised = "never" /\ BlockReward * (TipHeight + 1) <= MaxAmount
        => TemplateAccepted
    BY SettledTemplate DEF Settled
  <1>4. EvictInv /\ LedgerInv /\ ValidInv
           => (raised = "never" /\ BlockReward * (TipHeight + 1) <= MaxAmount
                  => TemplateAccepted)
    BY <1>2, <1>3
  <1> QED
    BY <1>1, <1>4, PTL

LEMMA ValidContiguous ==
    ASSUME NEW P \in SUBSET Txs, NEW acc \in [Address -> Account],
           \A a \in Address : ValidFor(a, P, acc)
    PROVE  Contiguous(P)
  <1> SUFFICES ASSUME NEW t \in P, NEW u \in P, Sender(t) = Sender(u),
                      NEW n \in Nonce(t)..Nonce(u)
               PROVE  \E v \in P : Sender(v) = Sender(t) /\ Nonce(v) = n
    BY DEF Contiguous
  <1>1. PICK a \in Address : a = Sender(t)
    BY SenderIsAddress
  <1>2. t \in PendingFor(a, P) /\ u \in PendingFor(a, P)
    BY <1>1 DEF PendingFor
  <1>3. Nonce(t) \in Nat /\ Nonce(u) \in Nat /\ acc[a].nonce \in Nat
    BY NonceType DEF Account
  <1>4. acc[a].nonce <= Nonce(t)
    BY <1>2 DEF ValidFor
  <1>5. CASE n = Nonce(u)
    BY <1>5
  <1>6. CASE n # Nonce(u)
    <2>1. n \in acc[a].nonce..(Nonce(u) - 1)
      BY <1>3, <1>4, <1>6
    <2>2. PICK v \in PendingFor(a, P) : Nonce(v) = n
      BY <1>2, <2>1 DEF ValidFor
    <2> QED
      BY <1>1, <2>2 DEF PendingFor
  <1> QED
    BY <1>5, <1>6

\* The overlay of the accounts as they are.
LEMMA StartOfPool ==
    ASSUME Settled, NEW o, o = Overlay(accounts)
    PROVE  /\ o \in Overlays(accounts) /\ Fresh(o) /\ Affords(o, pool)
           /\ \A a \in Address : Get(o, a) = accounts[a]
  <1>1. PICK B, held, P : B = accounts /\ held = Held(Tip) /\ P = pool
    OBVIOUS
  <1>2. /\ B \in [Address -> Account] /\ held \in [Address -> Nat] /\ Wealth(B, held) <= MaxAmount
        /\ o = Overlay(B)
    BY <1>1, SettledFacts
  <1>3. o \in Overlays(B) /\ o.ok /\ \A a \in Address : Get(o, a) = B[a]
    <2>1. /\ Overlay(B) \in Overlays(B) /\ Overlay(B).ok = TRUE
          /\ \A a \in Address : Get(Overlay(B), a) = B[a]
      BY <1>2, NewOverlay
    <2> QED
      BY <1>2, <2>1
  <1>4. \A a \in Address : B[a].balance \in Nat /\ held[a] \in Nat
    BY <1>2, LedgerTypes DEF Account
  <1>5. \A a \in Address : Get(o, a).balance <= B[a].balance + held[a]
    BY <1>3, <1>4
  <1>6. Coins(o, Zero) <= MaxAmount
    BY <1>2, <1>3, <1>5, AllInLimit
  <1>7. Fresh(o)
    BY <1>3, <1>6 DEF Fresh
  <1>8. Seen(o) \in [Address -> Account] /\ \A a \in Address : Seen(o)[a] = B[a]
    BY <1>2, <1>3, SeenFacts
  <1>9. Seen(o) = B
    BY <1>2, <1>8
  <1>10. Affords(o, P)
    <2>1. \A a \in Address : ValidFor(a, P, B)
      BY <1>1, SettledFacts
    <2> QED
      BY <1>9, <2>1 DEF Affords
  <1> QED
    BY <1>1, <1>3, <1>7, <1>10

\* pendingIn counts what all waiting transfers pay a.
LEMMA IncomingSum ==
    ASSUME NEW P \in SUBSET Txs, NEW a, NEW I, I = IncomingFor(a, P)
    PROVE  SumOver(I, [t \in I |-> Paid(t, a)]) = SumOver(P, PaidTo(a))
  <1>1. I \in SUBSET P
    BY DEF IncomingFor
  <1>2. ASSUME NEW t \in P \ I PROVE PaidTo(a)[t] = 0
    <2>1. PICK s : s = Transfer[t].outputs /\ s \in Seq(Output)
      BY LedgerTypes DEF Txs
    <2>2. ToSet(s) = Range(s) /\ DOMAIN s = 1..Len(s) /\ \A i \in 1..Len(s) : s[i] \in Range(s)
      BY <2>1, SetOfList, ListFacts
    <2>3. \A i \in DOMAIN s : s[i].address # a
      BY <1>2, <2>1, <2>2 DEF IncomingFor
    <2>4. {i \in DOMAIN s : s[i].address = a} = {}
      BY <2>3
    <2>5. Paid(t, a) = 0
      BY <2>1, <2>4, SumEmpty DEF Paid
    <2> QED
      BY <2>5 DEF PaidTo
  <1>3. PICK g : g = [t \in I |-> Paid(t, a)]
    OBVIOUS
  <1>4. \A t \in I : PaidTo(a)[t] = g[t]
    BY <1>1, <1>3 DEF PaidTo
  <1>5. SumOver(P, PaidTo(a)) = SumOver(I, g)
    BY <1>1, <1>2, <1>4, SumNonzero
  <1> QED
    BY <1>3, <1>5

LEMMA NotConfirmed ==
    ASSUME Settled, NEW t \in pool
    PROVE  FindTransaction(t) = "pending"
  <1>1. /\ t \in Txs /\ Sound(Tables, Tip) /\ Tip \in Block
        /\ accounts \in [Address -> Account] /\ \A a \in Address : ValidFor(a, pool, accounts)
    BY SettledFacts
  <1>2. Sender(t) \in Address /\ Nonce(t) \in Nat /\ t \in PendingFor(Sender(t), pool)
    BY <1>1, SenderIsAddress, NonceType DEF PendingFor
  <1>3. accounts[Sender(t)].nonce <= Nonce(t) /\ accounts[Sender(t)].nonce \in Nat
    BY <1>1, <1>2 DEF ValidFor, Account
  <1>4. \A r \in txIndex : \/ r.txid \in Ancestors[Tip]
                           \/ Transfer[r.txid].nonce < accounts[Transfer[r.txid].sender].nonce
    BY <1>1 DEF Sound, Tables
  <1>5. \A x \in Ancestors[Tip] : x \in Block
    BY <1>1, AtOf
  <1>6. t \notin Block
    BY <1>1, LedgerTypes DEF Txs
  <1>7. ASSUME NEW r \in txIndex, r.txid = t PROVE FALSE
    <2>1. Nonce(t) < accounts[Sender(t)].nonce
      BY <1>4, <1>5, <1>6, <1>7 DEF Sender, Nonce
    <2> QED
      BY <1>2, <1>3, <2>1
  <1> QED
    BY <1>7 DEF FindTransaction

LEMMA SettledPool ==
    ASSUME Settled
    PROVE  PoolFollowsChain
  <1>1. PICK o, B, P, room, c, r : /\ o = Overlay(accounts) /\ B = accounts /\ P = pool
                                   /\ room = SizeOf(P) /\ c = Select(P, room)
                                   /\ r = Fold(ApplyTransfer, o, c)
    OBVIOUS
  <1>2. /\ o \in Overlays(B) /\ Fresh(o) /\ Affords(o, P)
        /\ \A a \in Address : Get(o, a) = B[a]
    BY <1>1, StartOfPool
  <1>3. /\ P \in SUBSET Txs /\ IsFiniteSet(P) /\ Numbered(P) /\ B \in [Address -> Account]
        /\ \A a \in Address : ValidFor(a, P, B)
    BY <1>1, SettledFacts
  <1>4. Contiguous(P)
    BY <1>3, ValidContiguous
  <1>5. room \in Nat
    BY <1>1, <1>3, SizeMonotone
  <1>6. c \in Seq(P) /\ InOrder(c, P) /\ Range(c) = P
    BY <1>1, <1>3, <1>4, <1>5, SelectFacts
  <1>7. r \in Overlays(B) /\ Reached(o, P, r, P)
    BY <1>1, <1>2, <1>3, <1>6, AppliedInOrder
  <1>8. r.ok
    BY <1>7 DEF Reached
  <1>9. ASSUME NEW a \in Address
        PROVE  /\ Available(AccountInfo(a)) >= 0
               /\ Get(r, a) = [balance |-> Available(AccountInfo(a)) + AccountInfo(a).pendingIn,
                               nonce |-> AccountInfo(a).nextNonce]
    <2>1. PICK x, y, k, m, card, spent, in :
              /\ x = Get(r, a).balance /\ k = Get(r, a).nonce
              /\ y = B[a].balance /\ m = B[a].nonce
              /\ card = Cardinality(PendingFor(a, P)) /\ spent = SpentBy(PendingFor(a, P))
              /\ in = SumOver(P, PaidTo(a))
      OBVIOUS
    <2>2. Get(r, a) = [balance |-> x, nonce |-> k] /\ x \in Nat /\ k \in Nat
      <3>1. Get(r, a) \in Account
        BY <1>3, <1>7, GetFacts
      <3> QED
        BY <2>1, <3>1, LedgerTypes DEF Account
    <2>3. y \in Nat /\ m \in Nat
      BY <1>3, <2>1, LedgerTypes DEF Account
    <2>4. k = m + card /\ x + spent = y + in
      BY <1>2, <1>7, <2>1 DEF Reached
    <2>5. PendingFor(a, P) \in SUBSET Txs /\ IsFiniteSet(PendingFor(a, P))
      BY <1>3, FS_Subset DEF PendingFor
    <2>6. spent \in Nat /\ in \in Nat /\ card \in Nat
      BY <1>3, <2>1, <2>5, SpentFacts, PaidToFacts, FS_CardinalityType
    <2>7. spent <= y
      BY <1>3, <2>1 DEF ValidFor
    <2>8. /\ AccountInfo(a).balance = y /\ AccountInfo(a).nextNonce = m + card
          /\ AccountInfo(a).pendingOut = spent
      BY <1>1, <2>1 DEF AccountInfo
    <2>9. AccountInfo(a).pendingIn = in
      <3>1. PICK I : I = IncomingFor(a, P)
        OBVIOUS
      <3>2. AccountInfo(a).pendingIn = SumOver(I, [t \in I |-> Paid(t, a)])
        BY <1>1, <3>1 DEF AccountInfo
      <3> QED
        BY <1>3, <2>1, <3>1, <3>2, IncomingSum
    <2>10. Available(AccountInfo(a)) = y - spent
      BY <2>8 DEF Available
    <2>11. y - spent >= 0 /\ x = (y - spent) + in
      BY <2>2, <2>3, <2>4, <2>6, <2>7
    <2> QED
      BY <2>2, <2>4, <2>8, <2>9, <2>10, <2>11
  <1>10. \A t \in pool : FindTransaction(t) = "pending"
    BY NotConfirmed
  <1>11. Fold(ApplyTransfer, Overlay(accounts), Select(pool, SizeOf(pool))) = r
    BY <1>1
  <1> QED
    BY <1>8, <1>9, <1>10, <1>11 DEF PoolFollowsChain

\* Between calls all waiting transfers could be mined next, and every account
\* would then be what the node tells its wallet (account); none of them is shown
\* as confirmed (find_transaction).  The conditions are those of
\* TemplatesAreAccepted.
THEOREM PoolIsMinable ==
    AcceptsIsReplay =>
        (SSpec => [](raised = "never" /\ BlockReward * (TipHeight + 1) <= MaxAmount
                       => PoolFollowsChain))
  <1> SUFFICES ASSUME AcceptsIsReplay
               PROVE  SSpec => [](raised = "never" /\ BlockReward * (TipHeight + 1) <= MaxAmount
                                    => PoolFollowsChain)
    OBVIOUS
  <1>1. SSpec => [](EvictInv /\ LedgerInv /\ ValidInv)
    BY ServiceInvariant
  <1>2. ~Idle => PoolFollowsChain
    BY DEF PoolFollowsChain
  <1>3. /\ EvictInv /\ LedgerInv /\ ValidInv /\ Idle
        /\ raised = "never" /\ BlockReward * (TipHeight + 1) <= MaxAmount
        => PoolFollowsChain
    BY SettledPool DEF Settled
  <1>4. EvictInv /\ LedgerInv /\ ValidInv
           => (raised = "never" /\ BlockReward * (TipHeight + 1) <= MaxAmount
                  => PoolFollowsChain)
    BY <1>2, <1>3
  <1> QED
    BY <1>1, <1>4, PTL
=============================================================================
