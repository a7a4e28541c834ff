------------------------- MODULE ChainManagerProofs -------------------------
(***************************************************************************)
(* ChainManager is correct for every block tree and every setting of its   *)
(* constants.  IInv is inductive, and type correctness, MainIsBranch,      *)
(* BestChain, SealedOnMain, InvalidExact and UndoBounded follow; it        *)
(* implements ActiveChain.  The database and the block files agree at      *)
(* every moment a crash can come: every row leads to the bytes of its own  *)
(* block.  And the orphan pool holds what it should: an orphan is adopted  *)
(* in the same call that stores its parent.                                *)
(***************************************************************************)
EXTENDS ChainRefinement, ListTheorems

-----------------------------------------------------------------------------
(* Facts about ancestors, proved from the definition of Ancestors[b] as    *)
(* the least parent-closed set with b.  Where a proof would go by          *)
(* induction down a branch, it names the parent-closed set instead.        *)

\* The constants of a block.
LEMMA BlockFacts ==
    ASSUME NEW b \in Block
    PROVE  Parent[b] \in Block /\ Height[b] \in Nat /\ ChainWork[b] \in Nat
<1>1. Parent \in [Block -> Block] /\ Height \in [Block -> Nat] /\ ChainWork \in [Block -> Nat]
    BY TreeAssumption
<1> QED
    BY <1>1

\* Every block is its own ancestor, and ancestors are blocks.
LEMMA AncestorsSelf ==
    ASSUME NEW b \in Block
    PROVE  b \in Ancestors[b] /\ Ancestors[b] \subseteq Block
BY DEF Ancestors

\* Ancestors[b] lies inside every parent-closed set that holds b.
LEMMA AncestorsLeast ==
    ASSUME NEW b \in Block, NEW S \in SUBSET Block, b \in S, ParentClosed(S)
    PROVE  Ancestors[b] \subseteq S
BY DEF Ancestors

\* ... and is parent-closed itself.
LEMMA AncestorsClosed ==
    ASSUME NEW b \in Block
    PROVE  ParentClosed(Ancestors[b])
<1> SUFFICES ASSUME NEW x \in Ancestors[b], x # Genesis
             PROVE  Parent[x] \in Ancestors[b]
    BY DEF ParentClosed
<1>1. x \in Block /\ Parent[x] \in Block
    BY TreeAssumption DEF Ancestors
<1>2. ASSUME NEW S \in SUBSET Block, b \in S, ParentClosed(S)
      PROVE  Parent[x] \in S
    <2>1. x \in S
        BY <1>2 DEF Ancestors
    <2> QED
        BY <1>2, <2>1 DEF ParentClosed
<1> QED
    BY <1>1, <1>2 DEF Ancestors

\* Ancestors of an ancestor are ancestors.
LEMMA AncestorsTransitive ==
    ASSUME NEW b \in Block, NEW a \in Ancestors[b]
    PROVE  Ancestors[a] \subseteq Ancestors[b]
BY AncestorsSelf, AncestorsClosed, AncestorsLeast

\* A block's ancestors are the block and its parent's ancestors.
LEMMA AncestorsStep ==
    ASSUME NEW b \in Block, b # Genesis
    PROVE  Ancestors[b] = {b} \cup Ancestors[Parent[b]]
<1>1. Parent[b] \in Block
    BY TreeAssumption
<1>2. Parent[b] \in Ancestors[b]
    BY AncestorsSelf, AncestorsClosed DEF ParentClosed
<1>3. Ancestors[Parent[b]] \subseteq Ancestors[b]
    BY <1>2, AncestorsTransitive
<1> DEFINE S == {b} \cup Ancestors[Parent[b]]
<1>4. S \in SUBSET Block /\ b \in S
    BY <1>1, AncestorsSelf
<1>5. ParentClosed(S)
    <2>1. Parent[b] \in S
        BY <1>1, AncestorsSelf
    <2>2. ParentClosed(Ancestors[Parent[b]])
        BY <1>1, AncestorsClosed
    <2> QED
        BY <2>1, <2>2 DEF ParentClosed
<1>6. Ancestors[b] \subseteq S
    <2> HIDE DEF S
    <2> QED BY <1>4, <1>5, AncestorsLeast
<1> QED
    BY <1>3, <1>6, AncestorsSelf

\* The genesis block has no other ancestor.
LEMMA AncestorsGenesis == Ancestors[Genesis] = {Genesis}
<1>1. {Genesis} \in SUBSET Block /\ ParentClosed({Genesis})
    BY TreeAssumption DEF ParentClosed
<1> QED
    BY <1>1, TreeAssumption, AncestorsSelf, AncestorsLeast

\* Heights and work grow strictly along a branch.
LEMMA AncestorsBelow ==
    ASSUME NEW b \in Block, NEW a \in Ancestors[b], a # b
    PROVE  Height[a] < Height[b] /\ ChainWork[a] < ChainWork[b]
<1> DEFINE S == {x \in Block : x = b \/ (Height[x] < Height[b] /\ ChainWork[x] < ChainWork[b])}
<1>1. S \in SUBSET Block /\ b \in S
    OBVIOUS
<1>2. ParentClosed(S)
    BY TreeAssumption DEF ParentClosed
<1>3. Ancestors[b] \subseteq S
    <2> HIDE DEF S
    <2> QED BY <1>1, <1>2, AncestorsLeast
<1> QED
    BY <1>3

\* Two ancestors of one block are on one branch.
LEMMA AncestorsComparable ==
    ASSUME NEW b \in Block, NEW a \in Ancestors[b], NEW c \in Ancestors[b]
    PROVE  a \in Ancestors[c] \/ c \in Ancestors[a]
<1> DEFINE S == {x \in Block : c \in Ancestors[x] \/ x \in Ancestors[c]}
<1>1. S \in SUBSET Block /\ b \in S /\ c \in Block
    BY AncestorsSelf
<1>2. ParentClosed(S)
    <2> SUFFICES ASSUME NEW x \in S, x # Genesis
                 PROVE  Parent[x] \in S
        BY DEF ParentClosed
    <2>1. x \in Block /\ Parent[x] \in Block
        BY TreeAssumption
    <2>2. CASE x \in Ancestors[c]
        BY <2>1, <2>2, <1>1, AncestorsClosed DEF ParentClosed
    <2>3. CASE c \in Ancestors[x] /\ c # x
        BY <2>1, <2>3, AncestorsStep
    <2>4. CASE c = x
        BY <2>1, <2>4, AncestorsSelf, AncestorsClosed DEF ParentClosed
    <2> QED
        BY <2>2, <2>3, <2>4
<1>3. Ancestors[b] \subseteq S
    <2> HIDE DEF S
    <2> QED BY <1>1, <1>2, AncestorsLeast
<1> QED
    BY <1>3

\* Of two ancestors of one block, the one that is not higher is an ancestor of
\* the other.
LEMMA AncestorsByHeight ==
    ASSUME NEW b \in Block, NEW a \in Ancestors[b], NEW c \in Ancestors[b],
           Height[a] <= Height[c]
    PROVE  a \in Ancestors[c]
<1>1. a \in Block /\ c \in Block /\ Height[a] \in Int /\ Height[c] \in Int
    BY AncestorsSelf, TreeAssumption
<1>2. CASE a = c
    BY <1>1, <1>2, AncestorsSelf
<1>3. CASE a # c /\ c \in Ancestors[a]
    BY <1>1, <1>3, AncestorsBelow
<1> QED
    BY <1>2, <1>3, AncestorsComparable

\* A block that can be applied has only ancestors that can.
LEMMA AncestorsAccepted ==
    ASSUME NEW b \in Accepts
    PROVE  Ancestors[b] \subseteq Accepts
<1>1. Accepts \in SUBSET Block /\ b \in Block /\ ParentClosed(Accepts)
    BY ChecksAssumption DEF ParentClosed
<1> QED
    BY <1>1, AncestorsLeast

-----------------------------------------------------------------------------
(* The tip and the finalized height *)

\* The highest of a block's ancestors is the block.
LEMMA HighestAncestor ==
    ASSUME NEW t \in Block
    PROVE  (CHOOSE x \in Ancestors[t] : \A b \in Ancestors[t] : Height[b] <= Height[x]) = t
<1>1. \A b \in Ancestors[t] : b \in Block /\ Height[b] \in Nat
    <2>1. Ancestors[t] \subseteq Block
        BY AncestorsSelf
    <2> QED
        BY <2>1, BlockFacts
<1> DEFINE P(x) == \A b \in Ancestors[t] : Height[b] <= Height[x]
<1>2. t \in Ancestors[t] /\ P(t)
    BY <1>1, AncestorsSelf, AncestorsBelow
<1>3. ASSUME NEW x \in Ancestors[t], P(x)
      PROVE  x = t
    BY <1>1, <1>2, <1>3, AncestorsBelow
<1> HIDE DEF P
<1>4. (CHOOSE x \in Ancestors[t] : P(x)) = t
    BY <1>2, <1>3
<1> QED
    BY <1>4 DEF P

\* The active chain of a block ends in that block.
LEMMA TipOfBranch ==
    ASSUME NEW t \in Block, main = Ancestors[t]
    PROVE  Tip = t
BY HighestAncestor DEF Tip

LEMMA TipOfNextBranch ==
    ASSUME NEW t \in Block, main' = Ancestors[t]
    PROVE  Tip' = t
BY HighestAncestor DEF Tip

\* The active chain, as the proofs use it.
LEMMA MainFacts ==
    ASSUME TypeOK, ChainInv
    PROVE  /\ Tip \in Block /\ Tip \in main /\ main = Ancestors[Tip]
           /\ TipHeight \in Nat /\ SealedHeight \in Int /\ FinalizedHeight \in Int
           /\ NextChunkEnd \in Int
           /\ FinalizedHeight >= 0 /\ FinalizedHeight >= SealedHeight
           /\ FinalizedHeight >= TipHeight - FinalityDepth
           /\ \A b \in main : Height[b] \in Nat /\ Known(b)
           /\ \A b \in main : Ancestors[b] \subseteq main
<1>1. Tip \in Block /\ Tip \in main /\ main = Ancestors[Tip] /\ main \subseteq Block
    BY DEF TypeOK, StoreTypeOK, ChainInv, MainIsBranch
<1>2. TipHeight \in Nat
    BY <1>1, BlockFacts DEF TipHeight
<1>3. SealedHeight \in Int /\ NextChunkEnd \in Int
    BY ParamsAssumption DEF SealedHeight, NextChunkEnd, TypeOK, StoreTypeOK
<1>4. /\ FinalizedHeight \in Int /\ FinalizedHeight >= 0 /\ FinalizedHeight >= SealedHeight
      /\ FinalizedHeight >= TipHeight - FinalityDepth
    <2> HIDE DEF TipHeight, SealedHeight
    <2> QED BY <1>2, <1>3, ParamsAssumption DEF FinalizedHeight
<1>5. \A b \in main : Height[b] \in Nat /\ Known(b)
    BY <1>1, BlockFacts DEF ChainInv, MainIsBranch, Known
<1>6. \A b \in main : Ancestors[b] \subseteq main
    BY <1>1, AncestorsTransitive
<1> QED
    BY <1>1, <1>2, <1>3, <1>4, <1>5, <1>6

\* Nothing the chain facts mention changes with files, orphans and the step.
LEMMA SameChain ==
    ASSUME TypeOK, ChainInv, UNCHANGED <<status, chunked, main, sealed>>
    PROVE  /\ ChainInv'
           /\ Tip' = Tip /\ TipHeight' = TipHeight /\ SealedHeight' = SealedHeight
           /\ FinalizedHeight' = FinalizedHeight /\ NextChunkEnd' = NextChunkEnd
           /\ \A b \in Block : Known(b)' = Known(b)
           /\ \A b \in Block : FinalityOk(b)' = FinalityOk(b)
<1>1. Tip' = Tip
    BY DEF Tip
<1>2. TipHeight' = TipHeight /\ SealedHeight' = SealedHeight
    BY <1>1 DEF TipHeight, SealedHeight
<1>3. FinalizedHeight' = FinalizedHeight /\ NextChunkEnd' = NextChunkEnd
    BY <1>2 DEF FinalizedHeight, NextChunkEnd
<1>4. ChainInv'
    BY <1>1, <1>2 DEF ChainInv, MainIsBranch, SealedOnMain, InvalidExact, Known
<1>5. \A b \in Block : Known(b)' = Known(b)
    BY DEF Known
<1>6. \A b \in Block : FinalityOk(b)' = FinalityOk(b)
    BY <1>3 DEF FinalityOk
<1> QED
    BY <1>1, <1>2, <1>3, <1>4, <1>5, <1>6

-----------------------------------------------------------------------------
(* Steps that leave the database alone *)

\* A step that changes no row, outside a switch, and goes on to a step that
\* promises nothing about the block under way.
LEMMA QuietChain ==
    ASSUME IInv, UNCHANGED <<status, chunked, main, sealed, crashes>>,
           pc \notin {"switch", "mark"},
           pc' \notin {"store", "switch", "mark", "sealTx", "importTx"}
    PROVE  ChainInv' /\ CallInv' /\ WorkInv'
<1>1. ChainInv' /\ Tip' = Tip
    BY SameChain DEF IInv
<1>2. CallInv'
    BY DEF CallInv
<1>3. WorkInv'
    BY <1>1 DEF IInv, WorkInv
<1> QED
    BY <1>1, <1>2, <1>3

\* The branch of a parent that passes _check_finality is stored from end to end.
LEMMA BranchKnown ==
    ASSUME IInv, NEW p \in Block, ~FinalityRaises(p), FinalityOk(p)
    PROVE  \A x \in Ancestors[p] : Known(x)
<1> SUFFICES ASSUME NEW x \in Ancestors[p], ~Known(x)
             PROVE  FALSE
    OBVIOUS
<1>1. PICK a \in Ancestors[p] \cap main : Height[a] >= FinalizedHeight
    BY DEF FinalityOk
<1>2. x \in Block /\ a \in Block
    BY AncestorsSelf
<1>3. Height[x] \in Nat /\ Height[a] \in Nat /\ FinalizedHeight \in Int
    BY <1>2, BlockFacts, MainFacts DEF IInv
<1>4. ~(Height[x] >= FinalizedHeight)
    BY DEF FinalityRaises
<1>5. Height[x] <= Height[a]
    BY <1>1, <1>3, <1>4
<1>6. x \in Ancestors[a]
    BY <1>5, AncestorsByHeight
<1>7. x \in main
    BY <1>6, <1>1, MainFacts DEF IInv
<1> QED
    BY <1>7, MainFacts DEF IInv

\* The block about to be stored meets the promises of the step "store".
LEMMA StoresStep ==
    ASSUME IInv, NEW b \in Block, NEW pool, NEW cs, SubmitOneStores(b, pool, cs),
           pc \in {"idle", "adopt"}, UNCHANGED crashes
    PROVE  ChainInv' /\ CallInv' /\ WorkInv'
<1>1. UNCHANGED <<status, chunked, main, sealed>> /\ pc' = "store" /\ cur' = b
    BY DEF SubmitOneStores
<1>2. /\ ChainInv' /\ Tip' = Tip
      /\ \A x \in Block : Known(x)' = Known(x)
      /\ \A x \in Block : FinalityOk(x)' = FinalityOk(x)
    BY <1>1, SameChain DEF IInv
<1>3. WorkInv'
    BY <1>1, <1>2 DEF IInv, WorkInv
<1>4. status[b] = "none" /\ status[Parent[b]] # "invalid" /\ Known(Parent[b])
    BY DEF SubmitOneStores, Connects, Known
<1>5. b # Genesis
    BY <1>4, MainFacts DEF IInv, ChainInv, Known
<1>6. Parent[b] \in Block /\ Ancestors[b] = {b} \cup Ancestors[Parent[b]]
    BY <1>5, BlockFacts, AncestorsStep
<1>7. \A x \in Ancestors[Parent[b]] : Known(x) /\ x \in Block
    BY <1>6, BranchKnown, AncestorsSelf DEF SubmitOneStores
<1>8. FinalityOk(b)
    BY <1>6 DEF SubmitOneStores, FinalityOk
<1>9. CallInv'
    BY <1>1, <1>2, <1>4, <1>6, <1>7, <1>8 DEF CallInv
<1> QED
    BY <1>2, <1>3, <1>9

-----------------------------------------------------------------------------
(* Steps that change the database *)

LEMMA StoreBlockStep ==
    ASSUME IInv, StoreBlock
    PROVE  ChainInv' /\ CallInv' /\ WorkInv'
<1>1. /\ pc = "store" /\ cur \in Block /\ FinalityOk(cur) /\ status[cur] = "none"
      /\ status[Parent[cur]] # "invalid"
      /\ \A x \in Ancestors[cur] \ {cur} : Known(x)
    BY DEF IInv, StoreBlock, CallInv
<1>2. /\ UNCHANGED <<chunked, main, sealed, crashes>>
      /\ status' = [status EXCEPT ![cur] = "stored"]
    BY DEF StoreBlock
<1>3. cur \notin main
    BY <1>1 DEF IInv, ChainInv, MainIsBranch
<1>4. status \in [Block -> Statuses]
    BY DEF IInv, TypeOK, StoreTypeOK
<1>5. /\ status'[cur] = "stored"
      /\ \A b \in Block \ {cur} : status'[b] = status[b]
    BY <1>1, <1>2, <1>4
<1>6. Tip' = Tip
    BY <1>2 DEF Tip
<1>7. TipHeight' = TipHeight /\ SealedHeight' = SealedHeight
    BY <1>2, <1>6 DEF TipHeight, SealedHeight
<1>8. FinalizedHeight' = FinalizedHeight
    BY <1>7 DEF FinalizedHeight
<1>9. ChainInv'
    <2>1. MainIsBranch'
        BY <1>2, <1>3, <1>5, <1>6 DEF IInv, ChainInv, MainIsBranch, TypeOK, StoreTypeOK
    <2>2. (Genesis \in main /\ main \subseteq Accepts /\ chunked \subseteq main)'
        BY <1>2 DEF IInv, ChainInv
    <2>3. SealedOnMain'
        BY <1>2, <1>7 DEF IInv, ChainInv, SealedOnMain
    <2>4. InvalidExact'
        <3> SUFFICES ASSUME NEW b \in Block
                     PROVE  /\ status'[b] = "invalid" => b \notin Accepts
                            /\ status'[b] # "none" /\ status'[Parent[b]] = "invalid"
                               => status'[b] = "invalid"
            BY DEF InvalidExact, Known
        <3>1. Parent[b] \in Block
            BY BlockFacts
        <3> QED
            BY <1>1, <1>5, <3>1 DEF IInv, ChainInv, InvalidExact, Known
    <2> QED
        BY <2>1, <2>2, <2>3, <2>4 DEF ChainInv
<1>10. FinalityOk(cur)'  <=> \E a \in Ancestors[cur'] \cap main : Height[a] >= FinalizedHeight
    BY <1>2, <1>8 DEF FinalityOk
<1>11. CASE ChainWork[cur] > ChainWork[Tip]
    <2>1. pc' = "switch" /\ cur' = cur
        BY <1>11 DEF StoreBlock, HasMoreWork
    <2>2. \A x \in Ancestors[cur] : Known(x)'
        BY <1>1, <1>5, AncestorsSelf DEF Known
    <2>3. cur \in Ancestors[cur]
        BY <1>1, AncestorsSelf
    <2>4. CallInv'
        BY <1>1, <1>6, <1>10, <1>11, <2>1, <2>2, <2>3 DEF CallInv, FinalityOk
    <2>5. WorkInv'
        BY <1>1, <1>2, <1>5, <1>6, <2>1 DEF IInv, WorkInv
    <2> QED
        BY <1>9, <2>4, <2>5
<1>12. CASE ~(ChainWork[cur] > ChainWork[Tip])
    <2>1. pc' \in {"idle", "adopt"}
        BY <1>12 DEF StoreBlock, HasMoreWork, Answer, NextStep
    <2>2. CallInv'
        BY <2>1 DEF CallInv
    <2>3. WorkInv'
        BY <1>1, <1>2, <1>5, <1>6, <1>12 DEF IInv, WorkInv
    <2> QED
        BY <1>9, <2>2, <2>3
<1> QED
    BY <1>11, <1>12

\* The active chain up to the finalized height is part of the new branch, and
\* what the new branch has at those heights is on the active chain.
LEMMA BranchKeepsFinal ==
    ASSUME IInv, cur \in Block, FinalityOk(cur)
    PROVE  /\ \A b \in main : Height[b] <= FinalizedHeight => b \in Ancestors[cur]
           /\ \A b \in Ancestors[cur] : Height[b] <= FinalizedHeight => b \in main
           /\ Height[cur] >= FinalizedHeight
<1>1. PICK a \in Ancestors[cur] \cap main : Height[a] >= FinalizedHeight
    BY DEF FinalityOk
<1>2. /\ a \in Block /\ Height[a] \in Nat /\ Height[cur] \in Nat /\ FinalizedHeight \in Int
      /\ Tip \in Block /\ main = Ancestors[Tip]
      /\ \A b \in main : Height[b] \in Nat /\ Ancestors[b] \subseteq main
    BY AncestorsSelf, BlockFacts, MainFacts DEF IInv
<1>3. ASSUME NEW b \in main, Height[b] <= FinalizedHeight
      PROVE  b \in Ancestors[cur]
    <2>1. Height[b] <= Height[a]
        BY <1>1, <1>2, <1>3
    <2>2. b \in Ancestors[a]
        BY <1>1, <1>2, <2>1, AncestorsByHeight
    <2> QED
        BY <1>1, <2>2, AncestorsTransitive
<1>4. ASSUME NEW b \in Ancestors[cur], Height[b] <= FinalizedHeight
      PROVE  b \in main
    <2>1. b \in Block /\ Height[b] \in Nat
        BY AncestorsSelf, BlockFacts
    <2>2. Height[b] <= Height[a]
        BY <1>1, <1>2, <1>4, <2>1
    <2>3. b \in Ancestors[a]
        BY <1>1, <2>2, AncestorsByHeight
    <2> QED
        BY <1>1, <1>2, <2>3
<1>5. Height[cur] >= FinalizedHeight
    <2>1. a = cur \/ Height[a] < Height[cur]
        BY <1>1, AncestorsBelow
    <2> QED
        BY <1>1, <1>2, <2>1
<1> QED
    BY <1>3, <1>4, <1>5

\* Undoing to the fork and applying the branch leads to the chain of the new tip.
LEMMA SwitchedChain ==
    ASSUME IInv, cur \in Block, FinalityOk(cur)
    PROVE  (main \ Undone(cur)) \cup Branch(cur) = Ancestors[cur]
<1>1. Tip \in Block /\ main = Ancestors[Tip] /\ main \subseteq Block
    BY MainFacts DEF IInv, TypeOK, StoreTypeOK
<1>2. Ancestors[cur] \subseteq Block
    BY AncestorsSelf
<1>3. ASSUME NEW m \in main, m \notin Undone(cur)
      PROVE  m \in Ancestors[cur]
    <2>1. PICK a \in Ancestors[cur] \cap main : ~(Height[m] > Height[a])
        BY <1>3 DEF Undone
    <2>2. m \in Block /\ a \in Block /\ Height[m] \in Nat /\ Height[a] \in Nat
        BY <1>1, BlockFacts
    <2>3. m \in Ancestors[a]
        BY <1>1, <2>1, <2>2, AncestorsByHeight
    <2> QED
        BY <2>1, <2>3, AncestorsTransitive
<1>4. ASSUME NEW m \in Ancestors[cur], m \in main
      PROVE  m \notin Undone(cur)
    <2>1. Height[m] \in Nat
        BY <1>2, BlockFacts
    <2> QED
        BY <1>4, <2>1 DEF Undone
<1> QED
    BY <1>3, <1>4 DEF Branch

LEMMA SwitchStep ==
    ASSUME IInv, Switch
    PROVE  ChainInv' /\ CallInv' /\ WorkInv'
<1>1. /\ pc = "switch" /\ cur \in Block /\ FinalityOk(cur) /\ Known(cur)
      /\ ChainWork[cur] > ChainWork[Tip]
      /\ \A x \in Ancestors[cur] : Known(x)
    BY DEF IInv, Switch, SwitchApplies, CallInv
<1>2. /\ UNCHANGED <<chunked, sealed, crashes>> /\ main' = Ancestors[cur] /\ pc' = "seal"
      /\ Branch(cur) \subseteq Accepts
      /\ status' = [b \in Block |-> IF b \in Branch(cur) THEN "valid" ELSE status[b]]
    BY <1>1, SwitchedChain DEF Switch, SwitchApplies
<1>3. Tip' = cur
    BY <1>1, <1>2, TipOfNextBranch
<1>4. cur \in Ancestors[cur] /\ Ancestors[cur] \subseteq Block
    BY <1>1, AncestorsSelf
<1>5. Ancestors[cur] \subseteq Accepts
    BY <1>2 DEF Branch, IInv, ChainInv
<1>6. \A b \in Ancestors[cur] : status'[b] = "valid"
    BY <1>2, <1>4 DEF Branch, IInv, ChainInv, MainIsBranch
<1>7. /\ \A b \in main : Height[b] <= FinalizedHeight => b \in Ancestors[cur]
      /\ \A b \in Ancestors[cur] : Height[b] <= FinalizedHeight => b \in main
      /\ Height[cur] >= FinalizedHeight
    BY <1>1, BranchKeepsFinal
<1>8. /\ FinalizedHeight \in Int /\ FinalizedHeight >= 0 /\ SealedHeight \in Int
      /\ FinalizedHeight >= SealedHeight
      /\ \A b \in main : Height[b] \in Nat
    BY MainFacts DEF IInv
<1>9. \A b \in Ancestors[cur] : Height[b] \in Nat
    BY <1>4, BlockFacts
<1>10. chunked \subseteq Ancestors[cur]
    <2>1. \A b \in chunked : b \in main /\ Height[b] <= SealedHeight
        BY DEF IInv, ChainInv, SealedOnMain
    <2> QED
        BY <1>7, <1>8, <2>1
<1>11. MainIsBranch'
    BY <1>2, <1>3, <1>4, <1>6 DEF MainIsBranch
<1>12. Genesis \in main'
    <2>1. Genesis \in main /\ Height[Genesis] = 0
        BY TreeAssumption DEF IInv, ChainInv
    <2> QED
        BY <1>2, <1>7, <1>8, <2>1
<1>13. SealedOnMain'
    <2>1. SealedHeight' = SealedHeight /\ TipHeight' = Height[cur]
        BY <1>2, <1>3 DEF SealedHeight, TipHeight
    <2>2. SealedHeight <= Height[cur]
        BY <1>4, <1>7, <1>8, <1>9
    <2>3. ASSUME NEW b \in Ancestors[cur]
          PROVE  b \in chunked <=> Height[b] <= SealedHeight
        <3>1. CASE Height[b] <= SealedHeight
            <4>1. b \in main
                BY <1>7, <1>8, <1>9, <3>1
            <4> QED
                BY <3>1, <4>1 DEF IInv, ChainInv, SealedOnMain
        <3>2. CASE b \in chunked
            BY <3>2 DEF IInv, ChainInv, SealedOnMain
        <3> QED
            BY <3>1, <3>2
    <2> QED
        BY <1>2, <2>1, <2>2, <2>3 DEF SealedOnMain
<1>14. InvalidExact'
    <2> SUFFICES ASSUME NEW b \in Block
                 PROVE  /\ status'[b] = "invalid" => b \notin Accepts
                        /\ status'[b] # "none" /\ status'[Parent[b]] = "invalid"
                           => status'[b] = "invalid"
        BY DEF InvalidExact, Known
    <2>1. Parent[b] \in Block
        BY BlockFacts
    <2>2. CASE b \in Branch(cur)
        <3>1. Parent[b] \in Accepts
            BY <1>2, <2>2, ChecksAssumption
        <3>2. status'[Parent[b]] # "invalid"
            BY <1>2, <2>1, <3>1 DEF IInv, ChainInv, InvalidExact
        <3> QED
            BY <1>2, <2>2, <3>2
    <2>3. CASE b \notin Branch(cur)
        BY <1>2, <2>1, <2>3 DEF IInv, ChainInv, InvalidExact, Known
    <2> QED
        BY <2>2, <2>3
<1>15. ChainInv'
    BY <1>2, <1>5, <1>10, <1>11, <1>12, <1>13, <1>14 DEF ChainInv
<1>16. CallInv'
    BY <1>2 DEF CallInv
<1>17. WorkInv'
    <2> SUFFICES ASSUME crashes = 0, NEW b \in Block, status'[b] \in {"stored", "valid"}
                 PROVE  ~(ChainWork[b] > ChainWork[cur])
        BY <1>2, <1>3 DEF WorkInv
    <2>1. ChainWork[b] \in Nat /\ ChainWork[cur] \in Nat /\ ChainWork[Tip] \in Nat
        BY <1>1, BlockFacts, MainFacts DEF IInv
    <2>2. CASE b \in Ancestors[cur]
        BY <1>1, <2>1, <2>2, AncestorsBelow
    <2>3. CASE b \notin Ancestors[cur]
        <3>1. status[b] \in {"stored", "valid"} /\ b # cur
            BY <1>2, <1>4, <2>3 DEF Branch
        <3> QED
            BY <1>1, <2>1, <3>1 DEF IInv, WorkInv
    <2> QED
        BY <2>2, <2>3
<1> QED
    BY <1>15, <1>16, <1>17

LEMMA SwitchFailsStep ==
    ASSUME IInv, SwitchFails
    PROVE  ChainInv' /\ CallInv' /\ WorkInv'
<1>1. /\ UNCHANGED <<status, chunked, main, sealed, crashes, cur>>
      /\ pc = "switch" /\ pc' = "mark"
    BY DEF SwitchFails, callVars
<1>2. /\ ChainInv' /\ Tip' = Tip
      /\ \A b \in Block : Known(b)' = Known(b)
      /\ \A b \in Block : FinalityOk(b)' = FinalityOk(b)
    BY <1>1, SameChain DEF IInv
<1>3. CallInv'
    <2>1. /\ cur \in Block /\ FinalityOk(cur) /\ Known(cur) /\ ChainWork[cur] > ChainWork[Tip]
          /\ \A x \in Ancestors[cur] \ {cur} : Known(x)
        BY <1>1 DEF IInv, CallInv
    <2> QED
        BY <1>1, <1>2, <2>1, AncestorsSelf DEF CallInv
<1>4. WorkInv'
    BY <1>1, <1>2 DEF IInv, WorkInv
<1> QED
    BY <1>2, <1>3, <1>4

LEMMA MarkInvalidStep ==
    ASSUME IInv, MarkInvalid
    PROVE  ChainInv' /\ CallInv' /\ WorkInv'
<1>1. /\ pc = "mark" /\ cur \in Block /\ \A x \in Ancestors[cur] : Known(x)
      /\ UNCHANGED <<chunked, main, sealed, crashes>>
      /\ pc' \in {"idle", "adopt"}
    BY DEF IInv, MarkInvalid, CallInv, Answer, NextStep
<1>2. PICK failed \in Tried(Branch(cur)) \ Accepts :
          status' = [b \in Block |-> IF b \in StoredAbove(failed) THEN "invalid" ELSE status[b]]
    BY DEF MarkInvalid
<1>3. failed \in Ancestors[cur] /\ failed \in Block /\ failed \notin Accepts
    BY <1>1, <1>2, AncestorsSelf DEF Tried, Branch
<1>4. \A d \in StoredAbove(failed) : d \in Block /\ d \notin Accepts
    BY <1>3, AncestorsAccepted DEF StoredAbove
<1>5. cur \in StoredAbove(failed)
    BY <1>1, <1>3 DEF StoredAbove
<1>6. Tip' = Tip
    BY <1>1 DEF Tip
<1>7. TipHeight' = TipHeight /\ SealedHeight' = SealedHeight
    BY <1>1, <1>6 DEF TipHeight, SealedHeight
<1>8. MainIsBranch'
    BY <1>1, <1>2, <1>4, <1>6 DEF IInv, ChainInv, MainIsBranch, TypeOK, StoreTypeOK
<1>9. SealedOnMain'
    BY <1>1, <1>7 DEF IInv, ChainInv, SealedOnMain
<1>10. InvalidExact'
    <2> SUFFICES ASSUME NEW b \in Block
                 PROVE  /\ status'[b] = "invalid" => b \notin Accepts
                        /\ status'[b] # "none" /\ status'[Parent[b]] = "invalid"
                           => status'[b] = "invalid"
        BY DEF InvalidExact, Known
    <2>1. Parent[b] \in Block
        BY BlockFacts
    <2>2. CASE b \in StoredAbove(failed)
        BY <1>2, <1>4, <2>2
    <2>3. CASE b \notin StoredAbove(failed) /\ Parent[b] \notin StoredAbove(failed)
        BY <1>2, <2>1, <2>3 DEF IInv, ChainInv, InvalidExact, Known
    <2>4. CASE b \notin StoredAbove(failed) /\ Parent[b] \in StoredAbove(failed)
        <3>1. b # Genesis
            BY <2>4, TreeAssumption
        <3>2. Ancestors[b] = {b} \cup Ancestors[Parent[b]]
            BY <3>1, AncestorsStep
        <3>3. ~Known(b)
            BY <2>4, <3>2 DEF StoredAbove
        <3> QED
            BY <1>2, <2>4, <3>3 DEF Known
    <2> QED
        BY <2>2, <2>3, <2>4
<1>11. ChainInv'
    BY <1>1, <1>8, <1>9, <1>10 DEF IInv, ChainInv
<1>12. CallInv'
    BY <1>1 DEF CallInv
<1>13. WorkInv'
    BY <1>1, <1>2, <1>5, <1>6 DEF IInv, WorkInv
<1> QED
    BY <1>11, <1>12, <1>13

LEMMA SealFileStep ==
    ASSUME IInv, SealFile
    PROVE  ChainInv' /\ CallInv' /\ WorkInv'
<1>1. /\ UNCHANGED <<status, chunked, main, sealed, crashes>>
      /\ pc = "seal" /\ pc' = "sealTx" /\ ChunkReady
    BY DEF SealFile
<1>2. /\ ChainInv' /\ Tip' = Tip
      /\ TipHeight' = TipHeight /\ NextChunkEnd' = NextChunkEnd
    BY <1>1, SameChain DEF IInv
<1>3. CallInv'
    BY <1>1, <1>2 DEF CallInv, ChunkReady
<1>4. WorkInv'
    BY <1>1, <1>2 DEF IInv, WorkInv
<1> QED
    BY <1>2, <1>3, <1>4

\* Sealing or importing a chunk moves the sealed height on by one chunk.
LEMMA NextSealedHeight ==
    ASSUME TypeOK, sealed' = sealed + 1
    PROVE  SealedHeight' = NextChunkEnd
<1>1. sealed \in Int /\ ChunkSize \in Int
    BY ParamsAssumption DEF TypeOK, StoreTypeOK
<1>2. (sealed + 1) * ChunkSize = sealed * ChunkSize + ChunkSize
    BY <1>1
<1>3. sealed * ChunkSize \in Int
    BY <1>1
<1>4. sealed' * ChunkSize = sealed * ChunkSize + ChunkSize
    BY <1>2
<1> DEFINE p == sealed * ChunkSize
           q == sealed' * ChunkSize
<1>5. q - 1 = p - 1 + ChunkSize
    <2>1. p \in Int /\ q = p + ChunkSize
        BY <1>3, <1>4
    <2> HIDE DEF p, q
    <2> QED
        BY <1>1, <2>1
<1> QED
    BY <1>5 DEF SealedHeight, NextChunkEnd

LEMMA SealCommitStep ==
    ASSUME IInv, SealCommit
    PROVE  ChainInv' /\ CallInv' /\ WorkInv'
<1>1. /\ UNCHANGED <<main, crashes, cur>> /\ sealed' = sealed + 1
      /\ pc = "sealTx" /\ pc' = "sealTidy" /\ ChunkReady
      /\ chunked' = (chunked \cup ChunkBlocks) \ Losers
      /\ status' = [b \in Block |-> IF b \in Losers THEN "none" ELSE status[b]]
    BY DEF SealCommit, IInv, CallInv
<1>2. Losers \cap main = {} /\ ChunkBlocks \subseteq main
    BY DEF Losers, ChunkBlocks
<1>3. SealedHeight' = NextChunkEnd
    BY <1>1, NextSealedHeight DEF IInv
<1>4. Tip' = Tip
    BY <1>1 DEF Tip
<1>5. TipHeight' = TipHeight
    BY <1>4 DEF TipHeight
<1>6. MainIsBranch'
    BY <1>1, <1>2, <1>4 DEF IInv, ChainInv, MainIsBranch, TypeOK, StoreTypeOK
<1>7. /\ TipHeight \in Nat /\ NextChunkEnd \in Int /\ SealedHeight \in Int
      /\ \A b \in main : Height[b] \in Nat
    BY MainFacts DEF IInv
<1>8. SealedHeight < NextChunkEnd
    BY <1>7, ParamsAssumption DEF NextChunkEnd
<1>9. SealedOnMain'
    <2>1. NextChunkEnd <= TipHeight
        BY <1>1, <1>7, ParamsAssumption DEF ChunkReady
    <2>2. ASSUME NEW b \in main
          PROVE  b \in chunked' <=> Height[b] <= NextChunkEnd
        BY <1>1, <1>2, <1>7, <1>8 DEF ChunkBlocks, IInv, ChainInv, SealedOnMain
    <2> QED
        BY <1>1, <1>3, <1>5, <2>1, <2>2 DEF SealedOnMain
<1>10. InvalidExact'
    <2> SUFFICES ASSUME NEW b \in Block
                 PROVE  /\ status'[b] = "invalid" => b \notin Accepts
                        /\ status'[b] # "none" /\ status'[Parent[b]] = "invalid"
                           => status'[b] = "invalid"
        BY DEF InvalidExact, Known
    <2>1. Parent[b] \in Block
        BY BlockFacts
    <2> QED
        BY <1>1, <2>1 DEF IInv, ChainInv, InvalidExact, Known
<1>11. ChainInv'
    BY <1>1, <1>2, <1>6, <1>9, <1>10 DEF IInv, ChainInv
<1>12. CallInv'
    BY <1>1 DEF CallInv
<1>13. WorkInv'
    BY <1>1, <1>4 DEF IInv, WorkInv
<1> QED
    BY <1>11, <1>12, <1>13

LEMMA ImportChunkStep ==
    ASSUME IInv, NEW c \in Block, ImportChunk(c)
    PROVE  ChainInv' /\ CallInv' /\ WorkInv'
<1>1. /\ UNCHANGED <<status, chunked, main, sealed, crashes>>
      /\ pc = "idle" /\ pc' = "importTx" /\ cur' = c /\ Height[c] = NextChunkEnd
    BY DEF ImportChunk
<1>2. ChainInv' /\ Tip' = Tip /\ NextChunkEnd' = NextChunkEnd
    BY <1>1, SameChain DEF IInv
<1>3. CallInv'
    BY <1>1, <1>2 DEF CallInv
<1>4. WorkInv'
    BY <1>1, <1>2 DEF IInv, WorkInv
<1> QED
    BY <1>2, <1>3, <1>4

\* A chunk that continues the active chain makes its last block the tip, or
\* lies on the active chain already.
LEMMA ContinuedChain ==
    ASSUME IInv, NEW c \in Block, Continues(c)
    PROVE  \/ Chunk(c) \subseteq main
           \/ /\ main \cup Chunk(c) = Ancestors[c]
              /\ Tip \in Ancestors[c]
<1> SUFFICES ASSUME NEW b \in Chunk(c) \ main, Parent[b] = Tip
             PROVE  main \cup Chunk(c) = Ancestors[c] /\ Tip \in Ancestors[c]
    BY DEF Continues
<1>1. b \in Ancestors[c] /\ b \in Block /\ Chunk(c) \subseteq Ancestors[c]
    BY AncestorsSelf DEF Chunk
<1>2. b # Genesis
    BY DEF IInv, ChainInv
<1>3. Tip \in Block /\ main = Ancestors[Tip]
    BY MainFacts DEF IInv
<1>4. Ancestors[b] = {b} \cup main
    BY <1>1, <1>2, <1>3, AncestorsStep
<1>5. Ancestors[b] \subseteq Ancestors[c]
    BY <1>1, AncestorsTransitive
<1>6. ASSUME NEW x \in Ancestors[c], x \notin Chunk(c)
      PROVE  x \in main
    <2>1. x \in Block /\ Height[x] \in Nat /\ Height[b] \in Nat /\ Height[c] \in Nat
        BY <1>1, AncestorsSelf, BlockFacts
    <2>2. ~(Height[x] > Height[c] - ChunkSize) /\ Height[b] > Height[c] - ChunkSize
        BY <1>6 DEF Chunk
    <2>3. Height[x] < Height[b]
        BY <2>1, <2>2, ParamsAssumption
    <2>4. x \in Ancestors[b]
        BY <1>1, <2>1, <2>3, AncestorsByHeight
    <2> QED
        BY <1>4, <2>1, <2>3, <2>4
<1> QED
    BY <1>1, <1>3, <1>4, <1>5, <1>6, AncestorsSelf

LEMMA ImportCommitStep ==
    ASSUME IInv, ImportCommit
    PROVE  ChainInv' /\ CallInv' /\ WorkInv' /\ main \subseteq main'
<1>1. /\ pc = "importTx" /\ cur \in Block /\ Height[cur] = NextChunkEnd
      /\ Continues(cur) /\ Chunk(cur) \subseteq Accepts
      /\ UNCHANGED crashes /\ sealed' = sealed + 1 /\ pc' = "tidy"
      /\ main' = main \cup (Chunk(cur) \ main)
      /\ chunked' = chunked \cup Chunk(cur)
      /\ status' = [b \in Block |-> IF b \in Chunk(cur) \ main THEN "valid" ELSE status[b]]
    BY DEF IInv, CallInv, ImportCommit, ImportApplies
<1>2. /\ Tip \in Block /\ Tip \in main /\ main = Ancestors[Tip] /\ main \subseteq Block
      /\ SealedHeight \in Int /\ NextChunkEnd \in Int /\ TipHeight \in Nat
      /\ \A b \in main : Ancestors[b] \subseteq main
    BY MainFacts DEF IInv, TypeOK, StoreTypeOK
<1>3. cur \in Chunk(cur) /\ Chunk(cur) \subseteq Ancestors[cur] /\ Chunk(cur) \subseteq Block
    <2>1. Height[cur] > Height[cur] - ChunkSize
        BY <1>1, BlockFacts, ParamsAssumption
    <2> QED
        BY <1>1, <2>1, AncestorsSelf DEF Chunk
<1>4. main' = main \cup Chunk(cur)
    BY <1>1
\* The new tip is the end of the chunk, or stays.
<1>5. PICK t \in Block : /\ main' = Ancestors[t] /\ Tip \in Ancestors[t]
                         /\ t \in main \/ t = cur
                         /\ cur \in Ancestors[t]
    <2>1. CASE Chunk(cur) \subseteq main
        BY <1>2, <1>3, <1>4, <2>1
    <2>2. CASE main \cup Chunk(cur) = Ancestors[cur] /\ Tip \in Ancestors[cur]
        BY <1>1, <1>4, <2>2, AncestorsSelf
    <2> QED
        BY <1>1, <2>1, <2>2, ContinuedChain
<1>6. Tip' = t
    BY <1>5, TipOfNextBranch
<1>7. SealedHeight' = NextChunkEnd
    BY <1>1, NextSealedHeight DEF IInv
<1>8. Ancestors[t] \subseteq Block /\ t \in Ancestors[t]
    BY <1>5, AncestorsSelf
<1>9. \A b \in main' : status'[b] = "valid"
    BY <1>1, <1>2, <1>3, <1>4 DEF IInv, ChainInv, MainIsBranch
<1>10. MainIsBranch'
    BY <1>5, <1>6, <1>8, <1>9 DEF MainIsBranch
<1>11. (Genesis \in main /\ main \subseteq Accepts /\ chunked \subseteq main)'
    BY <1>1, <1>4 DEF IInv, ChainInv
<1>12. SealedOnMain'
    <2>1. Height[cur] \in Nat /\ Height[t] \in Nat
        BY <1>1, <1>5, BlockFacts
    <2>2. Height[cur] <= Height[t]
        BY <1>5, <2>1, AncestorsBelow
    <2>3. (SealedHeight <= TipHeight)'
        BY <1>1, <1>6, <1>7, <2>2 DEF TipHeight
    <2>4. ASSUME NEW b \in Ancestors[t]
          PROVE  b \in chunked' <=> Height[b] <= NextChunkEnd
        <3>1. b \in Block /\ Height[b] \in Nat
            BY <1>8, BlockFacts
        <3>2. CASE b \in Chunk(cur)
            <4>1. b = cur \/ Height[b] < Height[cur]
                BY <1>1, <1>3, <3>2, AncestorsBelow
            <4> QED
                BY <1>1, <2>1, <3>1, <3>2, <4>1
        <3>3. CASE b \notin Chunk(cur)
            <4>1. b \in main
                BY <1>4, <1>5, <3>3
            <4>2. b \in chunked' <=> Height[b] <= SealedHeight
                BY <1>1, <3>3, <4>1 DEF IInv, ChainInv, SealedOnMain
            <4>3. Height[b] <= NextChunkEnd => b \in Ancestors[cur]
                BY <1>1, <1>5, AncestorsByHeight
            <4>4. Height[b] <= NextChunkEnd => ~(Height[b] > NextChunkEnd - ChunkSize)
                BY <1>1, <3>3, <4>3 DEF Chunk
            <4>5. NextChunkEnd - ChunkSize = SealedHeight
                BY <1>2, ParamsAssumption DEF NextChunkEnd
            <4> HIDE DEF NextChunkEnd, SealedHeight
            <4> QED
                BY <1>2, <3>1, <4>2, <4>4, <4>5, ParamsAssumption
        <3> QED
            BY <3>2, <3>3
    <2> QED
        BY <1>5, <1>7, <2>3, <2>4 DEF SealedOnMain
<1>13. InvalidExact'
    <2> SUFFICES ASSUME NEW b \in Block
                 PROVE  /\ status'[b] = "invalid" => b \notin Accepts
                        /\ status'[b] # "none" /\ status'[Parent[b]] = "invalid"
                           => status'[b] = "invalid"
        BY DEF InvalidExact, Known
    <2>1. Parent[b] \in Block
        BY BlockFacts
    <2>2. CASE b \in Chunk(cur) \ main
        <3>1. Parent[b] \in Accepts
            BY <1>1, <2>2, ChecksAssumption
        <3>2. status'[Parent[b]] # "invalid"
            BY <1>1, <2>1, <3>1 DEF IInv, ChainInv, InvalidExact
        <3> QED
            BY <1>1, <2>2, <3>2
    <2>3. CASE b \notin Chunk(cur) \ main
        BY <1>1, <2>1, <2>3 DEF IInv, ChainInv, InvalidExact, Known
    <2> QED
        BY <2>2, <2>3
<1>14. ChainInv'
    BY <1>10, <1>11, <1>12, <1>13 DEF ChainInv
<1>15. CallInv'
    BY <1>1 DEF CallInv
<1>16. WorkInv'
    <2> SUFFICES ASSUME crashes = 0, NEW b \in Block, status'[b] \in {"stored", "valid"}
                 PROVE  ~(ChainWork[b] > ChainWork[t])
        BY <1>1, <1>6 DEF WorkInv
    <2>1. ChainWork[b] \in Nat /\ ChainWork[t] \in Nat /\ ChainWork[Tip] \in Nat
        BY <1>2, <1>5, BlockFacts
    <2>2. CASE b \in Ancestors[t]
        BY <1>5, <2>1, <2>2, AncestorsBelow
    <2>3. CASE b \notin Ancestors[t]
        <3>1. status[b] \in {"stored", "valid"}
            BY <1>1, <1>4, <1>5, <2>3
        <3>2. ~(ChainWork[b] > ChainWork[Tip])
            BY <1>1, <3>1 DEF IInv, WorkInv
        <3>3. ChainWork[Tip] <= ChainWork[t]
            BY <1>5, <2>1, AncestorsBelow
        <3> QED
            BY <2>1, <3>2, <3>3
    <2> QED
        BY <2>2, <2>3
<1> QED
    BY <1>4, <1>14, <1>15, <1>16

LEMMA CrashStep ==
    ASSUME IInv, Crash
    PROVE  ChainInv' /\ CallInv' /\ WorkInv'
<1>1. UNCHANGED <<status, chunked, main, sealed>> /\ pc' = "seal" /\ crashes' = crashes + 1
    BY DEF Crash
<1>2. ChainInv'
    BY <1>1, SameChain DEF IInv
<1>3. CallInv'
    BY <1>1 DEF CallInv
<1>4. WorkInv'
    BY <1>1 DEF IInv, TypeOK, WorkInv
<1> QED
    BY <1>2, <1>3, <1>4

-----------------------------------------------------------------------------
(* Types *)

LEMMA WithoutStoringType ==
    ASSUME TypeOK, NEW b \in Block, NEW pool, NEW cs, SubmitOneWithoutStoring(b, pool, cs),
           UNCHANGED <<wroteFile, doomed, crashes>>,
           connected' \subseteq Block, disconnected' \subseteq Block
    PROVE  TypeOK'
<1>1. /\ UNCHANGED storeVars /\ raised' = Earlier /\ waiting' = waiting /\ cur' = NoBlock
      /\ pc' \in Steps
    BY DEF SubmitOneWithoutStoring, Answer, NextStep, Steps
<1> QED
    BY <1>1 DEF TypeOK, StoreTypeOK, storeVars, Earlier

LEMMA RaisesType ==
    ASSUME TypeOK, NEW b \in Block, NEW pool, SubmitOneRaises(b, pool),
           UNCHANGED <<wroteFile, doomed, crashes>>,
           connected' \subseteq Block, disconnected' \subseteq Block
    PROVE  TypeOK'
BY DEF SubmitOneRaises, TypeOK, StoreTypeOK, storeVars, Steps

LEMMA StoresType ==
    ASSUME TypeOK, NEW b \in Block, NEW pool, NEW cs, SubmitOneStores(b, pool, cs),
           UNCHANGED <<wroteFile, doomed, crashes>>,
           connected' \subseteq Block, disconnected' \subseteq Block
    PROVE  TypeOK'
BY DEF SubmitOneStores, TypeOK, StoreTypeOK, Steps, Earlier

\* The segment cache and the chunk files hold blocks.
LEMMA FileTypes ==
    ASSUME TypeOK
    PROVE  /\ \A hs : Unpacked(chunkFiles, hs) \subseteq Block
           /\ \A c \in Block : Overwrite(c) \subseteq Block
BY DEF TypeOK, StoreTypeOK, Unpacked, Overwrite

LEMMA HandlerType ==
    ASSUME IInv, HandlerStep
    PROVE  TypeOK'
<1> USE DEF TypeOK, StoreTypeOK, Steps
<1>1. TypeOK
    BY DEF IInv
<1>2. CASE StoreBlock
    <2>1. cur \in Block /\ Append(waiting, cur) \in Seq(Block)
        BY <1>1, <1>2 DEF IInv, CallInv, StoreBlock
    <2>2. status' \in [Block -> Statuses]
        BY <1>1, <1>2 DEF StoreBlock, Statuses
    <2>3. pc' \in Steps /\ waiting' \in Seq(Block) /\ cur' \in Block \cup {NoBlock}
        BY <1>1, <1>2, <2>1 DEF StoreBlock, Answer, NextStep
    <2> QED
        BY <1>1, <1>2, <2>2, <2>3 DEF StoreBlock
<1>3. CASE Switch
    <2>1. cur \in Block /\ Ancestors[cur] \subseteq Block
        BY <1>3, AncestorsSelf DEF IInv, CallInv, Switch, SwitchApplies
    <2>2. status' \in [Block -> Statuses]
        BY <1>1, <1>3 DEF Switch, SwitchApplies, Statuses
    <2>3. segments' \subseteq Block
        BY <1>1, <1>3, FileTypes DEF Switch, SwitchApplies
    <2> QED
        BY <1>1, <1>3, <2>1, <2>2, <2>3 DEF Switch, SwitchApplies, Branch, Undone
<1>4. CASE SwitchFails
    <2>1. segments' \subseteq Block
        BY <1>1, <1>4, FileTypes DEF SwitchFails
    <2> QED
        BY <1>1, <1>4, <2>1 DEF SwitchFails, callVars
<1>5. CASE MarkInvalid
    <2>1. status' \in [Block -> Statuses]
        BY <1>1, <1>5 DEF MarkInvalid, Statuses
    <2>2. pc' \in Steps /\ waiting' = waiting /\ cur' = NoBlock
        BY <1>5 DEF MarkInvalid, Answer, NextStep
    <2> QED
        BY <1>1, <1>5, <2>1, <2>2 DEF MarkInvalid
<1>6. CASE AdoptChild
    <2>0. PICK b \in Block : \E pool, cs :
              \/ SubmitOneWithoutStoring(b, pool, cs) /\ UNCHANGED <<connected, disconnected>>
              \/ SubmitOneRaises(b, pool) /\ connected' = {} /\ disconnected' = {}
              \/ SubmitOneStores(b, pool, cs) /\ UNCHANGED <<connected, disconnected>>
        BY <1>6, Zenon DEF AdoptChild
    <2>1. PICK pool, cs :
              \/ SubmitOneWithoutStoring(b, pool, cs) /\ UNCHANGED <<connected, disconnected>>
              \/ SubmitOneRaises(b, pool) /\ connected' = {} /\ disconnected' = {}
              \/ SubmitOneStores(b, pool, cs) /\ UNCHANGED <<connected, disconnected>>
        BY <2>0
    <2>2. connected' \subseteq Block /\ disconnected' \subseteq Block
        BY <1>1, <2>1
    <2>3. UNCHANGED <<wroteFile, doomed, crashes>>
        BY <1>6 DEF AdoptChild
    <2> HIDE DEF TypeOK
    <2> QED
        BY <1>1, <2>1, <2>2, <2>3, WithoutStoringType, RaisesType, StoresType
<1>7. CASE PopWaiting
    <2>1. Front(waiting) \in Seq(Block)
        BY <1>1 DEF Front
    <2>2. /\ UNCHANGED storeVars /\ waiting' = Front(waiting) /\ cur' = NoBlock
          /\ pc' \in Steps
        BY <1>7 DEF PopWaiting, Answer, NextStep
    <2> QED
        BY <1>1, <1>7, <2>1, <2>2 DEF PopWaiting, storeVars
<1>8. CASE SealFile
    <2>1. chunkFiles' \subseteq Block
        BY <1>1, <1>8, FileTypes DEF SealFile, ChunkBlocks
    <2> QED
        BY <1>1, <1>8, <2>1 DEF SealFile, callVars
<1>9. CASE SealCommit
    <2>1. status' \in [Block -> Statuses]
        BY <1>1, <1>9 DEF SealCommit, Statuses
    <2>2. ChunkBlocks \subseteq Block /\ Losers \subseteq Block
        BY <1>1 DEF ChunkBlocks, Losers
    <2> QED
        BY <1>1, <1>9, <2>1, <2>2 DEF SealCommit
<1>10. CASE SealDone
    <2>1. UNCHANGED <<storeVars, connected, disconnected, wroteFile, raised, crashes>>
        BY <1>10 DEF SealDone
    <2>2. CASE cur = NoBlock
        <3>1. doomed' = StaleFiles /\ pc' = "tidy" /\ UNCHANGED <<cur, waiting>>
            BY <1>10, <2>2 DEF SealDone
        <3>2. StaleFiles \subseteq Block
            BY <1>1 DEF StaleFiles
        <3> QED
            BY <1>1, <2>1, <3>1, <3>2 DEF storeVars
    <2>3. CASE cur # NoBlock
        <3>1. Append(waiting, cur) \in Seq(Block)
            BY <1>1, <2>3
        <3>2. /\ doomed' = doomed /\ pc' \in Steps /\ cur' = NoBlock
              /\ waiting' = Append(waiting, cur)
            BY <1>10, <2>3 DEF SealDone, Answer, NextStep
        <3> QED
            BY <1>1, <2>1, <3>1, <3>2 DEF storeVars
    <2> QED
        BY <2>2, <2>3
<1>11. CASE TidyFiles
    BY <1>1, <1>11 DEF TidyFiles
<1>12. CASE ImportCommit
    <2>1. Chunk(cur) \subseteq Block
        BY <1>12, AncestorsSelf DEF IInv, CallInv, ImportCommit, ImportApplies, Chunk
    <2>2. status' \in [Block -> Statuses]
        BY <1>1, <1>12 DEF ImportCommit, ImportApplies, Statuses
    <2>3. segments' \subseteq Block
        BY <1>1, <1>12, FileTypes DEF ImportCommit, ImportApplies
    <2>4. /\ main' = main \cup (Chunk(cur) \ main) /\ connected' = Chunk(cur) \ main
          /\ chunked' = chunked \cup Chunk(cur) /\ doomed' = Chunk(cur)
          /\ sealed' = sealed + 1 /\ pc' = "tidy"
          /\ UNCHANGED <<recent, chunkFiles, cur, waiting, disconnected, wroteFile, raised, crashes>>
        BY <1>12 DEF ImportCommit, ImportApplies
    <2>5. sealed' \in Nat
        BY <1>1, <2>4
    <2> QED
        BY <1>1, <2>1, <2>2, <2>3, <2>4, <2>5
<1>13. CASE ImportFails
    <2>1. segments' \subseteq Block
        BY <1>1, <1>13, FileTypes DEF ImportFails
    <2> QED
        BY <1>1, <1>13, <2>1 DEF ImportFails
<1> QED
    BY <1>2, <1>3, <1>4, <1>5, <1>6, <1>7, <1>8, <1>9, <1>10, <1>11, <1>12, <1>13 DEF HandlerStep

LEMMA EnvironmentType ==
    ASSUME IInv,
           \/ \E b \in Block : SubmitBlock(b)
           \/ \E c \in Block : ImportChunk(c)
           \/ \E b \in Block : ServeBlock(b)
           \/ Crash
    PROVE  TypeOK'
<1>1. TypeOK
    BY DEF IInv
<1>2. ASSUME NEW b \in Block, SubmitBlock(b)
      PROVE  TypeOK'
    <2>1. /\ \/ SubmitOneWithoutStoring(b, orphans, <<>>)
             \/ SubmitOneRaises(b, orphans)
             \/ SubmitOneStores(b, orphans, <<>>)
          /\ UNCHANGED <<wroteFile, doomed, crashes>>
          /\ connected' \subseteq Block /\ disconnected' \subseteq Block
        BY <1>2 DEF SubmitBlock
    <2> QED
        BY <1>1, <2>1, WithoutStoringType, RaisesType, StoresType
<1>3. ASSUME NEW c \in Block, ImportChunk(c)
      PROVE  TypeOK'
    <2>1. chunkFiles' \subseteq Block
        BY <1>1, <1>3, FileTypes DEF ImportChunk, TypeOK, StoreTypeOK
    <2>2. wroteFile' \in BOOLEAN
        BY <1>3 DEF ImportChunk
    <2> QED
        BY <1>1, <1>3, <2>1, <2>2 DEF ImportChunk, TypeOK, StoreTypeOK, Steps
<1>4. ASSUME NEW b \in Block, ServeBlock(b)
      PROVE  TypeOK'
    <2>1. segments' \subseteq Block
        BY <1>1, <1>4, FileTypes DEF ServeBlock
    <2> QED
        BY <1>1, <1>4, <2>1 DEF ServeBlock, callVars, TypeOK, StoreTypeOK
<1>5. CASE Crash
    <2>1. crashes' \in 0..MaxCrashes
        BY <1>1, <1>5, ManagerAssumption DEF Crash, TypeOK
    <2>2. recent' \subseteq Block
        BY <1>1, <1>5 DEF Crash, TypeOK, StoreTypeOK
    <2>3. pc' \in Steps /\ waiting' \in Seq(Block) /\ raised' = raised
        BY <1>1, <1>5 DEF Crash, TypeOK, Steps
    <2>4. /\ UNCHANGED <<status, chunked, main, sealed, chunkFiles>> /\ segments' = {}
          /\ cur' = NoBlock /\ connected' = {} /\ disconnected' = {}
          /\ wroteFile' = FALSE /\ doomed' = {}
        BY <1>5 DEF Crash
    <2> QED
        BY <1>1, <2>1, <2>2, <2>3, <2>4 DEF TypeOK, StoreTypeOK
<1> QED
    BY <1>2, <1>3, <1>4, <1>5

-----------------------------------------------------------------------------
(* The inductive invariant *)

LEMMA InitInv ==
    ASSUME Init
    PROVE  IInv
<1> USE DEF Init, StoreInit
<1>1. Genesis \in Block /\ Genesis \in Accepts /\ Height[Genesis] = 0
    BY TreeAssumption, ChecksAssumption
<1>2. main = Ancestors[Genesis] /\ main = {Genesis}
    BY AncestorsGenesis
<1>3. Tip = Genesis
    BY <1>1, <1>2, TipOfBranch
<1>4. TypeOK
    <2>1. StoreTypeOK
        BY <1>1 DEF StoreTypeOK, Statuses
    <2>2. waiting \in Seq(Block) /\ crashes \in 0..MaxCrashes /\ pc \in Steps
        BY ManagerAssumption DEF Steps
    <2> QED
        BY <2>1, <2>2 DEF TypeOK
<1>5. SealedHeight = -1
    BY ParamsAssumption DEF SealedHeight
<1>6. SealedOnMain
    BY <1>1, <1>2, <1>3, <1>5 DEF SealedOnMain, TipHeight
<1>7. InvalidExact
    BY <1>1, BlockFacts DEF InvalidExact
<1>8. ChainInv
    BY <1>1, <1>2, <1>3, <1>6, <1>7 DEF ChainInv, MainIsBranch
<1>9. CallInv
    BY DEF CallInv
<1>10. WorkInv
    <2>1. \A b \in Block : status[b] \in {"stored", "valid"} => b = Genesis
        OBVIOUS
    <2>2. ChainWork[Genesis] \in Nat
        BY <1>1, BlockFacts
    <2> QED
        BY <1>3, <2>1, <2>2 DEF WorkInv
<1> QED
    BY <1>4, <1>8, <1>9, <1>10 DEF IInv

\* Every step of a call keeps the invariant.
LEMMA HandlerInv ==
    ASSUME IInv, HandlerStep
    PROVE  IInv'
<1>1. TypeOK'
    BY HandlerType
<1>2. ChainInv' /\ CallInv' /\ WorkInv'
    <2>1. CASE StoreBlock
        BY <2>1, StoreBlockStep
    <2>2. CASE Switch
        BY <2>2, SwitchStep
    <2>3. CASE SwitchFails
        BY <2>3, SwitchFailsStep
    <2>4. CASE MarkInvalid
        BY <2>4, MarkInvalidStep
    <2>5. CASE AdoptChild
        <3>1. /\ pc = "adopt" /\ UNCHANGED crashes
              /\ \E b \in Block : \E pool, cs : \/ SubmitOneWithoutStoring(b, pool, cs)
                                               \/ SubmitOneRaises(b, pool)
                                               \/ SubmitOneStores(b, pool, cs)
            BY <2>5, Zenon DEF AdoptChild
        <3>2. ASSUME NEW b \in Block, NEW pool, NEW cs, SubmitOneWithoutStoring(b, pool, cs)
              PROVE  ChainInv' /\ CallInv' /\ WorkInv'
            BY <3>1, <3>2, QuietChain DEF SubmitOneWithoutStoring, Answer, NextStep, storeVars
        <3>3. ASSUME NEW b \in Block, NEW pool, SubmitOneRaises(b, pool)
              PROVE  ChainInv' /\ CallInv' /\ WorkInv'
            BY <3>1, <3>3, QuietChain DEF SubmitOneRaises, storeVars
        <3>4. ASSUME NEW b \in Block, NEW pool, NEW cs, SubmitOneStores(b, pool, cs)
              PROVE  ChainInv' /\ CallInv' /\ WorkInv'
            BY <3>1, <3>4, StoresStep
        <3> QED
            BY <3>1, <3>2, <3>3, <3>4
    <2>6. CASE PopWaiting
        BY <2>6, QuietChain DEF PopWaiting, Answer, NextStep, storeVars
    <2>7. CASE SealFile
        BY <2>7, SealFileStep
    <2>8. CASE SealCommit
        BY <2>8, SealCommitStep
    <2>9. CASE SealDone
        <3>1. /\ UNCHANGED <<status, chunked, main, sealed, crashes>> /\ pc = "seal"
              /\ pc' \in {"tidy", "idle", "adopt"}
            BY <2>9 DEF SealDone, Answer, NextStep, storeVars
        <3> QED
            BY <3>1, QuietChain
    <2>10. CASE TidyFiles
        <3>1. /\ UNCHANGED <<status, chunked, main, sealed, crashes>> /\ pc \in {"tidy", "sealTidy"}
              /\ pc' \in {"idle", "seal"}
            BY <2>10 DEF TidyFiles
        <3> QED
            BY <3>1, QuietChain
    <2>11. CASE ImportCommit
        BY <2>11, ImportCommitStep
    <2>12. CASE ImportFails
        BY <2>12, QuietChain DEF ImportFails
    <2> QED
        BY <2>1, <2>2, <2>3, <2>4, <2>5, <2>6, <2>7, <2>8, <2>9, <2>10, <2>11, <2>12
           DEF HandlerStep
<1> QED
    BY <1>1, <1>2 DEF IInv

\* Every step keeps it, whatever chunk is imported.
LEMMA StepInv ==
    ASSUME IInv,
           \/ HandlerStep \/ Crash \/ UNCHANGED vars
           \/ \E b \in Block : SubmitBlock(b)
           \/ \E c \in Block : ImportChunk(c)
           \/ \E b \in Block : ServeBlock(b)
    PROVE  IInv'
<1>1. CASE HandlerStep
    BY <1>1, HandlerInv
<1>2. ASSUME NEW b \in Block, SubmitBlock(b)
      PROVE  IInv'
    <2>1. TypeOK'
        BY <1>2, EnvironmentType
    <2>2. pc = "idle" /\ UNCHANGED crashes
        BY <1>2 DEF SubmitBlock
    <2>3. CASE SubmitOneWithoutStoring(b, orphans, <<>>)
        BY <2>1, <2>2, <2>3, QuietChain
           DEF SubmitOneWithoutStoring, Answer, NextStep, storeVars, IInv
    <2>4. CASE SubmitOneRaises(b, orphans)
        BY <2>1, <2>2, <2>4, QuietChain DEF SubmitOneRaises, storeVars, IInv
    <2>5. CASE SubmitOneStores(b, orphans, <<>>)
        BY <2>1, <2>2, <2>5, StoresStep DEF IInv
    <2> QED
        BY <1>2, <2>3, <2>4, <2>5 DEF SubmitBlock
<1>3. ASSUME NEW c \in Block, ImportChunk(c)
      PROVE  IInv'
    <2>1. TypeOK'
        BY <1>3, EnvironmentType
    <2> QED
        BY <1>3, <2>1, ImportChunkStep DEF IInv
<1>4. ASSUME NEW b \in Block, ServeBlock(b)
      PROVE  IInv'
    <2>1. TypeOK'
        BY <1>4, EnvironmentType
    <2>2. /\ UNCHANGED <<status, chunked, main, sealed, crashes>>
          /\ pc = "idle" /\ pc' = "idle"
        BY <1>4 DEF ServeBlock
    <2> QED
        BY <2>1, <2>2, QuietChain DEF IInv
<1>5. CASE Crash
    BY <1>5, EnvironmentType, CrashStep DEF IInv
<1>6. CASE UNCHANGED vars
    <2>1. UNCHANGED <<status, chunked, main, sealed, crashes, pc, cur>>
        BY <1>6 DEF vars, storeVars, callVars
    <2>2. /\ ChainInv' /\ Tip' = Tip /\ TipHeight' = TipHeight /\ NextChunkEnd' = NextChunkEnd
          /\ \A b \in Block : Known(b)' = Known(b)
          /\ \A b \in Block : FinalityOk(b)' = FinalityOk(b)
        BY <2>1, SameChain DEF IInv
    <2>3. TypeOK'
        BY <1>6 DEF vars, storeVars, callVars, IInv, TypeOK, StoreTypeOK
    <2>4. WorkInv'
        BY <2>1, <2>2 DEF IInv, WorkInv
    <2>5. CallInv'
        BY <2>1, <2>2, AncestorsSelf DEF IInv, CallInv, ChunkReady
    <2> QED
        BY <2>2, <2>3, <2>4, <2>5 DEF IInv
<1> QED
    BY <1>1, <1>2, <1>3, <1>4, <1>5, <1>6

LEMMA NextInv ==
    ASSUME IInv, [Next]_vars
    PROVE  IInv'
<1>1. Offered \subseteq Block
    BY ManagerAssumption
<1> QED
    BY <1>1, StepInv DEF Next

\* The invariant holds in every behaviour.
THEOREM Invariance == Spec => []IInv
<1>1. Init => IInv
    BY InitInv
<1>2. IInv /\ [Next]_vars => IInv'
    BY NextInv
<1> QED
    BY <1>1, <1>2, PTL DEF Spec

-----------------------------------------------------------------------------
(* What follows *)

\* The variables keep their types through every call, crash and restart.
THEOREM TypeCorrect == Spec => []TypeOK
<1>1. IInv => TypeOK
    BY DEF IInv
<1> QED
    BY <1>1, Invariance, PTL

\* The active chain is one applied branch at every step of every call, also
\* when the process is killed between any two of them.
THEOREM MainChain == Spec => []MainIsBranch
<1>1. IInv => MainIsBranch
    BY DEF IInv, ChainInv
<1> QED
    BY <1>1, Invariance, PTL

\* Between calls, before the first crash, the tip has the most work of all
\* stored blocks that are not marked invalid.
THEOREM MostWork == Spec => []BestChain
<1>1. IInv => BestChain
    <2> SUFFICES ASSUME IInv, pc = "idle", crashes = 0,
                        NEW b \in Block, status[b] \in {"stored", "valid"}
                 PROVE  ChainWork[b] <= ChainWork[Tip]
        BY DEF BestChain
    <2>1. ChainWork[b] \in Nat /\ ChainWork[Tip] \in Nat
        BY BlockFacts, MainFacts DEF IInv
    <2>2. ~(ChainWork[b] > ChainWork[Tip])
        BY DEF IInv, WorkInv
    <2> QED
        BY <2>1, <2>2
<1> QED
    BY <1>1, Invariance, PTL

\* The sealed heights are the chunked part of the active chain.
THEOREM Sealing == Spec => []SealedOnMain
<1>1. IInv => SealedOnMain
    BY DEF IInv, ChainInv
<1> QED
    BY <1>1, Invariance, PTL

\* Blocks are marked invalid exactly: never an acceptable one, and never a
\* parent without its stored children.
THEOREM Marking == Spec => []InvalidExact
<1>1. IInv => InvalidExact
    BY DEF IInv, ChainInv
<1> QED
    BY <1>1, Invariance, PTL

\* A step that takes a block off the active chain takes one above the
\* finalized height.
LEMMA UndoStep ==
    ASSUME IInv, [Next]_vars, NEW b \in main \ main'
    PROVE  Height[b] > FinalizedHeight
<1>1. CASE Switch
    <2>1. main' = Ancestors[cur] /\ cur \in Block /\ FinalityOk(cur)
        BY <1>1, SwitchedChain DEF Switch, SwitchApplies, IInv, CallInv
    <2>2. ~(Height[b] <= FinalizedHeight)
        BY <2>1, BranchKeepsFinal
    <2>3. Height[b] \in Nat /\ FinalizedHeight \in Int
        BY MainFacts DEF IInv
    <2> QED
        BY <2>2, <2>3
<1>2. CASE ImportCommit
    BY <1>2, ImportCommitStep
<1>3. CASE UNCHANGED vars
    BY <1>3 DEF vars, storeVars
<1>4. CASE Next /\ ~Switch /\ ~ImportCommit
    <2>1. main' = main
        <3>1. ASSUME NEW x, NEW pool, NEW cs
              PROVE  /\ SubmitOneWithoutStoring(x, pool, cs) => main' = main
                     /\ SubmitOneRaises(x, pool) => main' = main
                     /\ SubmitOneStores(x, pool, cs) => main' = main
            BY DEF SubmitOneWithoutStoring, SubmitOneRaises, SubmitOneStores, storeVars
        <3>2. (\E x \in Block : SubmitBlock(x)) => main' = main
            BY <3>1 DEF SubmitBlock
        <3>3. AdoptChild => main' = main
            BY <3>1 DEF AdoptChild
        <3>4. (\E c \in Offered : ImportChunk(c)) => main' = main
            BY DEF ImportChunk
        <3>5. (\E x \in Block : ServeBlock(x)) \/ Crash => main' = main
            BY DEF ServeBlock, Crash
        <3>6. StoreBlock \/ SwitchFails \/ MarkInvalid \/ PopWaiting => main' = main
            BY DEF StoreBlock, SwitchFails, MarkInvalid, PopWaiting, storeVars
        <3>7. SealFile \/ SealCommit \/ SealDone \/ TidyFiles \/ ImportFails => main' = main
            BY DEF SealFile, SealCommit, SealDone, TidyFiles, ImportFails, storeVars
        <3> QED
            BY <1>4, <3>2, <3>3, <3>4, <3>5, <3>6, <3>7 DEF Next, HandlerStep
    <2> QED
        BY <2>1
<1> QED
    BY <1>1, <1>2, <1>3, <1>4

\* No switch ever undoes a block at or below the finalized height of the
\* moment, so none deeper than finality_depth and none that is sealed.
THEOREM BoundedUndo == Spec => UndoBounded
<1>1. IInv /\ [Next]_vars => [\A b \in main \ main' : Height[b] > FinalizedHeight]_vars
    BY UndoStep
<1> QED
    BY <1>1, Invariance, PTL DEF Spec, UndoBounded

-----------------------------------------------------------------------------
(* ChainManager implements ActiveChain *)

\* The two ways to name the tip.
LEMMA TopIsTip == Promise!Top = Tip
BY DEF Promise!Top, Tip

\* _switch_to moves the active chain to the branch of the submitted block.
LEMMA SwitchMoves ==
    ASSUME IInv, Switch, chunked' \subseteq main'
    PROVE  Promise!Step
<1>1. /\ cur \in Block /\ FinalityOk(cur) /\ ChainWork[cur] > ChainWork[Tip]
      /\ main' = Ancestors[cur] /\ chunked' = chunked /\ Branch(cur) \subseteq Accepts
    BY SwitchedChain DEF IInv, CallInv, Switch, SwitchApplies
<1>2. cur \in Accepts
    <2>1. cur \in main => cur \in Accepts
        BY DEF IInv, ChainInv
    <2> QED
        BY <1>1, <2>1, AncestorsSelf DEF Branch
<1>3. ASSUME NEW b \in main \ Ancestors[cur]
      PROVE  b \notin chunked /\ Height[b] > Height[Tip] - FinalityDepth
    <2>1. /\ Height[b] \in Nat /\ FinalizedHeight \in Int /\ TipHeight \in Nat
          /\ SealedHeight \in Int /\ FinalizedHeight >= SealedHeight
          /\ FinalizedHeight >= TipHeight - FinalityDepth
        BY MainFacts DEF IInv
    <2>2. ~(Height[b] <= FinalizedHeight)
        BY <1>1, <1>3, BranchKeepsFinal
    <2>3. ~(Height[b] <= SealedHeight)
        BY <2>1, <2>2
    <2>4. b \notin chunked
        BY <2>3 DEF IInv, ChainInv, SealedOnMain
    <2>5. Height[b] > TipHeight - FinalityDepth
        BY <2>1, <2>2, ParamsAssumption
    <2> QED
        BY <2>4, <2>5 DEF TipHeight
<1>4. Promise!MoveTo(cur)
    BY <1>1, <1>3, TopIsTip DEF Promise!MoveTo, Promise!SettleMore
<1> QED
    BY <1>2, <1>4 DEF Promise!Step

\* apply_chunk extends the active chain, or only settles more of it.
LEMMA ImportMoves ==
    ASSUME IInv, ImportCommit, chunked' \subseteq main'
    PROVE  Promise!Step
<1>1. /\ cur \in Block /\ Continues(cur) /\ Chunk(cur) \subseteq Accepts
      /\ main' = main \cup Chunk(cur) /\ chunked' = chunked \cup Chunk(cur)
    BY DEF IInv, CallInv, ImportCommit, ImportApplies
<1>2. Promise!SettleMore
    BY <1>1 DEF Promise!SettleMore
<1>3. CASE main' = main
    BY <1>2, <1>3 DEF Promise!Step
<1>4. CASE main' # main
    <2>1. main' = Ancestors[cur] /\ Tip \in Ancestors[cur]
        BY <1>1, <1>4, ContinuedChain
    <2>2. Tip # cur
        BY <1>4, <2>1, MainFacts DEF IInv
    <2>3. ChainWork[cur] > ChainWork[Tip]
        <3>1. Tip \in Block /\ ChainWork[Tip] \in Nat /\ ChainWork[cur] \in Nat
            BY <1>1, <2>1, AncestorsSelf, BlockFacts
        <3>2. ChainWork[Tip] < ChainWork[cur]
            BY <1>1, <2>1, <2>2, AncestorsBelow
        <3> QED
            BY <3>1, <3>2
    <2>4. main \subseteq Ancestors[cur]
        BY <1>1, <2>1
    <2>5. cur \in Accepts
        BY <1>1, <2>1, AncestorsSelf DEF IInv, ChainInv
    <2>6. Promise!MoveTo(cur)
        BY <1>2, <2>1, <2>3, <2>4, TopIsTip DEF Promise!MoveTo
    <2> QED
        BY <2>5, <2>6 DEF Promise!Step
<1> QED
    BY <1>3, <1>4

\* Sealing only settles more of the active chain.
LEMMA SealSettles ==
    ASSUME IInv, SealCommit, chunked' \subseteq main'
    PROVE  Promise!Step
<1>1. main' = main /\ chunked' = (chunked \cup ChunkBlocks) \ Losers
    BY DEF SealCommit
<1>2. chunked \cap Losers = {}
    BY DEF IInv, ChainInv, Losers
<1> QED
    BY <1>1, <1>2 DEF Promise!Step, Promise!SettleMore

\* Every other step, a crash too, leaves the active chain as it is.
LEMMA OtherStepsStutter ==
    ASSUME Next, ~Switch, ~ImportCommit, ~SealCommit
    PROVE  UNCHANGED <<main, chunked>>
<1>1. ASSUME NEW x, NEW pool, NEW cs
      PROVE  /\ SubmitOneWithoutStoring(x, pool, cs) => UNCHANGED <<main, chunked>>
             /\ SubmitOneRaises(x, pool) => UNCHANGED <<main, chunked>>
             /\ SubmitOneStores(x, pool, cs) => UNCHANGED <<main, chunked>>
    BY DEF SubmitOneWithoutStoring, SubmitOneRaises, SubmitOneStores, storeVars
<1>2. (\E x \in Block : SubmitBlock(x)) => UNCHANGED <<main, chunked>>
    BY <1>1 DEF SubmitBlock
<1>3. AdoptChild => UNCHANGED <<main, chunked>>
    BY <1>1 DEF AdoptChild
<1>4. (\E c \in Offered : ImportChunk(c)) => UNCHANGED <<main, chunked>>
    BY DEF ImportChunk
<1>5. (\E x \in Block : ServeBlock(x)) \/ Crash => UNCHANGED <<main, chunked>>
    BY DEF ServeBlock, Crash
<1>6. StoreBlock \/ SwitchFails \/ MarkInvalid \/ PopWaiting => UNCHANGED <<main, chunked>>
    BY DEF StoreBlock, SwitchFails, MarkInvalid, PopWaiting, storeVars
<1>7. SealFile \/ SealDone \/ TidyFiles \/ ImportFails => UNCHANGED <<main, chunked>>
    BY DEF SealFile, SealDone, TidyFiles, ImportFails, storeVars
<1> QED
    BY <1>2, <1>3, <1>4, <1>5, <1>6, <1>7 DEF Next, HandlerStep

\* A node's active chain moves only as ActiveChain allows, whatever is submitted,
\* imported or interrupted by a crash.
THEOREM Refinement == Spec => KeepsPromise
<1>1. Init => Promise!Start
    BY DEF Init, StoreInit, Promise!Start
<1>2. IInv /\ [Next]_vars => [Promise!Step]_(Promise!chainVars)
    <2> SUFFICES ASSUME IInv, [Next]_vars
                 PROVE  Promise!Step \/ UNCHANGED <<main, chunked>>
        BY DEF Promise!chainVars
    <2>1. chunked' \subseteq main'
        BY NextInv DEF IInv, ChainInv
    <2>2. CASE Switch
        BY <2>1, <2>2, SwitchMoves
    <2>3. CASE ImportCommit
        BY <2>1, <2>3, ImportMoves
    <2>4. CASE SealCommit
        BY <2>1, <2>4, SealSettles
    <2>5. CASE Next /\ ~Switch /\ ~ImportCommit /\ ~SealCommit
        BY <2>5, OtherStepsStutter
    <2>6. CASE UNCHANGED vars
        BY <2>6 DEF vars, storeVars
    <2> QED
        BY <2>2, <2>3, <2>4, <2>5, <2>6
<1> QED
    BY <1>1, <1>2, Invariance, PTL DEF Spec, KeepsPromise, Promise!Chain

-----------------------------------------------------------------------------
(* The files: the inductive invariant *)

\* Files a node can rely on: it only seals chunks itself, or it has not been
\* killed yet.  Otherwise a file that a crash in apply_chunk has left may be
\* taken for that of another chunk.
OwnFiles == Offered = {} \/ crashes = 0

\* Every row has its file: a recent one, or a chunk file with the row's block.
RowsHaveFiles ==
    /\ \A b \in Block : Known(b) /\ b \notin chunked => b \in recent
    /\ \A b \in chunked : \E c \in chunkFiles \cap main : /\ Height[c] <= SealedHeight
                                                          /\ b \in Chunk(c)

\* Chunk files are of the active chain, except that of the chunk that is next; and
\* so are segments unpacked from them, in a node that only seals chunks itself.
SegmentsOnMain == \A c \in segments : c \in main /\ Height[c] <= SealedHeight

FilesOnMain ==
    /\ \A c \in chunkFiles : \/ c \in main /\ Height[c] <= SealedHeight
                             \/ Height[c] = NextChunkEnd
    /\ Offered = {} => SegmentsOnMain

\* What a call has done to the files by the time it reaches a step.
FilesOfCall ==
    /\ pc = "store" => cur \in recent
    /\ pc \notin {"sealTidy", "tidy"} => doomed = {}
    /\ \A b \in doomed : Known(b) => b \in chunked
    /\ pc = "sealTx" => /\ \E c \in chunkFiles \cap main : Height[c] = NextChunkEnd
                        /\ \A c \in chunkFiles : Height[c] = NextChunkEnd => c \in main
    /\ pc = "importTx" => /\ Offered # {} /\ wroteFile /\ cur \in chunkFiles
                          /\ \A c \in chunkFiles : Height[c] = NextChunkEnd => c = cur
    /\ crashes = 0 /\ pc \notin {"sealTx", "importTx"} =>
           \A c \in chunkFiles : Height[c] # NextChunkEnd

FilesInv == RowsHaveFiles /\ FilesOnMain /\ FilesOfCall

-----------------------------------------------------------------------------
(* Reading *)

\* Heights, as the proofs use them.
LEMMA FileHeights ==
    ASSUME IInv
    PROVE  /\ chunkFiles \subseteq Block /\ segments \subseteq Block /\ main \subseteq Block
           /\ chunked \subseteq main /\ recent \subseteq Block
           /\ \A b \in Block : Height[b] \in Nat
           /\ SealedHeight \in Int /\ NextChunkEnd = SealedHeight + ChunkSize
           /\ NextChunkEnd \in Int /\ SealedHeight < NextChunkEnd
           /\ ChunkSize \in Nat
           /\ \A b \in chunked : Height[b] <= SealedHeight
<1>1. SealedHeight \in Int /\ NextChunkEnd \in Int
    BY MainFacts DEF IInv
<1>2. NextChunkEnd = SealedHeight + ChunkSize
    BY DEF NextChunkEnd
<1>3. SealedHeight < NextChunkEnd
    <2> HIDE DEF SealedHeight, NextChunkEnd
    <2> QED
        BY <1>1, <1>2, ParamsAssumption
<1>4. /\ chunkFiles \subseteq Block /\ segments \subseteq Block /\ main \subseteq Block
      /\ chunked \subseteq main /\ recent \subseteq Block
    BY DEF IInv, TypeOK, StoreTypeOK, ChainInv
<1>5. \A b \in chunked : Height[b] <= SealedHeight
    BY <1>4 DEF IInv, ChainInv, SealedOnMain
<1>6. \A b \in Block : Height[b] \in Nat
    BY BlockFacts
<1> QED
    BY <1>1, <1>2, <1>3, <1>4, <1>5, <1>6, ParamsAssumption

\* Reading sealed heights only unpacks files of the active chain.
LEMMA UnpackedOnMain ==
    ASSUME IInv, FilesOnMain, NEW hs, \A h \in hs : h \in Int /\ h <= SealedHeight
    PROVE  Offered = {} =>
               \A c \in Unpacked(chunkFiles, hs) : c \in main /\ Height[c] <= SealedHeight
<1> SUFFICES ASSUME NEW c \in chunkFiles, NEW h \in hs, Covers(c, h)
             PROVE  c \in main /\ Height[c] <= SealedHeight
    BY DEF Unpacked, FilesOnMain, SegmentsOnMain
<1>1. /\ c \in Block /\ Height[c] \in Nat /\ SealedHeight \in Int /\ h \in Int /\ h <= SealedHeight
      /\ NextChunkEnd = SealedHeight + ChunkSize /\ ChunkSize \in Nat
    BY FileHeights
<1>2. Height[c] - ChunkSize < h
    BY DEF Covers
<1>3. Height[c] # NextChunkEnd
    <2> HIDE DEF SealedHeight, NextChunkEnd
    <2> QED
        BY <1>1, <1>2
<1> QED
    BY <1>3 DEF FilesOnMain, SegmentsOnMain

\* The rewards that mature in a switch are read at sealed heights.
LEMMA DueSealed ==
    ASSUME IInv, NEW bs
    PROVE  \A h \in DueHeights(bs, chunked) : h \in Int /\ h <= SealedHeight
<1> SUFFICES ASSUME NEW a \in chunked
             PROVE  Height[a] \in Int /\ Height[a] <= SealedHeight
    BY DEF DueHeights
<1>1. a \in Block
    BY FileHeights
<1> QED
    BY <1>1, FileHeights

\* What the invariant is for: the file of a row holds its block, and so does the
\* segment it is read from, if that is of a file or of the active chain.
LEMMA RowReadable ==
    ASSUME IInv, FilesInv, NEW b \in Block, Known(b)
    PROVE  HasFile(b) /\ (~StaleSegment(Height[b]) \/ SegmentsOnMain => Readable(b))
<1>1. CASE b \notin chunked
    BY <1>1 DEF FilesInv, RowsHaveFiles, HasFile, Readable
<1>2. CASE b \in chunked
    <2>0. /\ Height[b] \in Nat /\ ChunkSize \in Nat /\ b \in main /\ Height[b] <= SealedHeight
          /\ SealedHeight \in Int /\ NextChunkEnd = SealedHeight + ChunkSize
        BY <1>2, FileHeights
    <2>1. PICK f \in chunkFiles \cap main : b \in Chunk(f)
        BY <1>2 DEF FilesInv, RowsHaveFiles
    <2>2. Covers(f, Height[b])
        <3>1. f \in Block /\ Height[f] \in Nat
            BY FileHeights
        <3>2. b \in Ancestors[f] /\ Height[b] > Height[f] - ChunkSize
            BY <2>1 DEF Chunk
        <3>3. Height[b] <= Height[f]
            BY <2>0, <3>1, <3>2, AncestorsBelow
        <3> QED
            BY <2>0, <3>1, <3>2, <3>3 DEF Covers
    <2>3. HasFile(b)
        BY <1>2, <2>1, <2>2 DEF HasFile
    <2>4. ASSUME ~StaleSegment(Height[b]) \/ SegmentsOnMain PROVE Readable(b)
        <3>1. CASE {c \in segments : Covers(c, Height[b])} = {}
            BY <1>2, <2>1, <2>2, <3>1 DEF ChunkSource, Readable
        <3>2. CASE {c \in segments : Covers(c, Height[b])} # {}
            <4>1. PICK c \in segments : Covers(c, Height[b])
                BY <3>2
            <4>2. c \in Block /\ Height[c] \in Nat
                BY FileHeights
            <4>3. Height[b] <= Height[c] /\ Height[b] > Height[c] - ChunkSize
                BY <2>0, <4>1, <4>2 DEF Covers
            <4>4. c \in main
                <5>1. Height[c] # NextChunkEnd
                    <6> HIDE DEF SealedHeight, NextChunkEnd
                    <6> QED
                        BY <2>0, <4>2, <4>3
                <5>2. SegmentsOnMain \/ c \in chunkFiles
                    BY <2>4, <4>1 DEF StaleSegment
                <5> QED
                    BY <4>1, <5>1, <5>2 DEF FilesInv, FilesOnMain, SegmentsOnMain
            <4>5. Tip \in Block /\ main = Ancestors[Tip]
                BY MainFacts DEF IInv
            <4>6. b \in Ancestors[c]
                BY <2>0, <4>3, <4>4, <4>5, AncestorsByHeight
            <4>7. b \in Chunk(c)
                BY <4>3, <4>6 DEF Chunk
            <4>8. c \in ChunkSource(Height[b])
                BY <3>2, <4>1 DEF ChunkSource
            <4> QED
                BY <1>2, <4>7, <4>8 DEF Readable
        <3> QED
            BY <3>1, <3>2
    <2> QED
        BY <2>3, <2>4
<1> QED
    BY <1>1, <1>2

-----------------------------------------------------------------------------
(* The steps *)

\* The sealed height and the next chunk only depend on `sealed`.
LEMMA SameSealed ==
    ASSUME UNCHANGED sealed
    PROVE  SealedHeight' = SealedHeight /\ NextChunkEnd' = NextChunkEnd
BY DEF SealedHeight, NextChunkEnd

\* Rows and files stay, at most more segments are unpacked; the call goes on to
\* a step that asks nothing of the files.
LEMMA FilesKept ==
    ASSUME IInv, FilesInv,
           UNCHANGED <<status, chunked, main, sealed, recent, chunkFiles, crashes>>,
           Offered = {} => \A c \in segments' : c \in main /\ Height[c] <= SealedHeight,
           pc \notin {"sealTx", "importTx"},
           pc' \notin {"store", "sealTx", "importTx"},
           pc' \notin {"sealTidy", "tidy"} => doomed' = {},
           \A b \in doomed' : Known(b) => b \in chunked
    PROVE  FilesInv'
<1>1. SealedHeight' = SealedHeight /\ NextChunkEnd' = NextChunkEnd
    BY SameSealed
<1>2. RowsHaveFiles'
    BY <1>1 DEF FilesInv, RowsHaveFiles, Known, Chunk
<1>3. FilesOnMain'
    BY <1>1 DEF FilesInv, FilesOnMain, SegmentsOnMain
<1>4. FilesOfCall'
    BY <1>1 DEF FilesInv, FilesOfCall, Known
<1> QED
    BY <1>2, <1>3, <1>4 DEF FilesInv

\* A submitted block that is not stored.
LEMMA NotStoredFiles ==
    ASSUME IInv, FilesInv, NEW b, NEW pool, NEW cs, pc \in {"idle", "adopt"},
           SubmitOneWithoutStoring(b, pool, cs) \/ SubmitOneRaises(b, pool),
           UNCHANGED <<doomed, crashes>>
    PROVE  FilesInv'
<1>1. UNCHANGED <<status, chunked, main, sealed, recent, chunkFiles, crashes>> /\ segments' = segments
    BY DEF SubmitOneWithoutStoring, SubmitOneRaises, storeVars
<1>2. pc' \in {"idle", "adopt"}
    BY DEF SubmitOneWithoutStoring, SubmitOneRaises, Answer, NextStep
<1>3. doomed' = {}
    BY DEF FilesInv, FilesOfCall
<1>4. Offered = {} => \A c \in segments' : c \in main /\ Height[c] <= SealedHeight
    BY <1>1 DEF FilesInv, FilesOnMain, SegmentsOnMain
<1> QED
    BY <1>1, <1>2, <1>3, <1>4, FilesKept

\* add_block has written the block's file.
LEMMA StoresFiles ==
    ASSUME IInv, FilesInv, NEW b, NEW pool, NEW cs, pc \in {"idle", "adopt"},
           SubmitOneStores(b, pool, cs), UNCHANGED <<doomed, crashes>>
    PROVE  FilesInv'
<1>1. /\ UNCHANGED <<status, chunked, main, sealed, chunkFiles, segments, doomed, crashes>>
      /\ recent' = recent \cup {b} /\ pc' = "store" /\ cur' = b
    BY DEF SubmitOneStores
<1>2. SealedHeight' = SealedHeight /\ NextChunkEnd' = NextChunkEnd
    BY <1>1, SameSealed
<1>3. RowsHaveFiles'
    BY <1>1, <1>2 DEF FilesInv, RowsHaveFiles, Known, Chunk
<1>4. FilesOnMain'
    BY <1>1, <1>2 DEF FilesInv, FilesOnMain, SegmentsOnMain
<1>5. FilesOfCall'
    BY <1>1, <1>2 DEF FilesInv, FilesOfCall, Known
<1> QED
    BY <1>3, <1>4, <1>5 DEF FilesInv

\* The row follows its file.
LEMMA StoreBlockFiles ==
    ASSUME IInv, FilesInv, StoreBlock
    PROVE  FilesInv'
<1>1. /\ UNCHANGED <<chunked, main, sealed, recent, chunkFiles, segments, doomed, crashes>>
      /\ status' = [status EXCEPT ![cur] = "stored"] /\ pc = "store"
    BY DEF StoreBlock
<1>2. pc' \in {"switch", "idle", "adopt"}
    BY DEF StoreBlock, Answer, NextStep
<1>3. SealedHeight' = SealedHeight /\ NextChunkEnd' = NextChunkEnd
    BY <1>1, SameSealed
<1>4. cur \in recent /\ doomed = {}
    BY <1>1 DEF FilesInv, FilesOfCall
<1>5. \A b \in Block : Known(b)' => Known(b) \/ b = cur
    BY <1>1 DEF Known, IInv, TypeOK, StoreTypeOK
<1>6. RowsHaveFiles'
    BY <1>1, <1>3, <1>4, <1>5 DEF FilesInv, RowsHaveFiles, Chunk
<1>7. FilesOnMain'
    BY <1>1, <1>3 DEF FilesInv, FilesOnMain, SegmentsOnMain
<1>8. FilesOfCall'
    BY <1>1, <1>2, <1>3, <1>4 DEF FilesInv, FilesOfCall
<1> QED
    BY <1>6, <1>7, <1>8 DEF FilesInv

\* A switch leaves the sealed part of the chain alone.
LEMMA SwitchFiles ==
    ASSUME IInv, FilesInv, Switch
    PROVE  FilesInv'
<1>1. /\ UNCHANGED <<chunked, sealed, recent, chunkFiles, doomed, crashes>>
      /\ main' = Ancestors[cur] /\ cur \in Block /\ FinalityOk(cur)
      /\ status' = [b \in Block |-> IF b \in Branch(cur) THEN "valid" ELSE status[b]]
      /\ segments' = Unpacked(chunkFiles, DueHeights(Branch(cur), chunked))
      /\ pc = "switch" /\ pc' = "seal"
    BY SwitchedChain DEF Switch, SwitchApplies, IInv, CallInv
<1>2. SealedHeight' = SealedHeight /\ NextChunkEnd' = NextChunkEnd
    BY <1>1, SameSealed
<1>3. \A c \in main : Height[c] <= SealedHeight => c \in main'
    <2> SUFFICES ASSUME NEW c \in main, Height[c] <= SealedHeight
                 PROVE  c \in Ancestors[cur]
        BY <1>1
    <2>1. Height[c] \in Nat /\ SealedHeight \in Int /\ FinalizedHeight \in Int
          /\ FinalizedHeight >= SealedHeight
        BY MainFacts DEF IInv
    <2>2. Height[c] <= FinalizedHeight
        BY <2>1
    <2> QED
        BY <1>1, <2>2, BranchKeepsFinal
<1>4. \A b \in Branch(cur) : Known(b)
    BY <1>1 DEF IInv, CallInv, Branch, Known
<1>5. \A b \in Block : Known(b)' => Known(b)
    BY <1>1, <1>4 DEF Known
<1>6. RowsHaveFiles'
    BY <1>1, <1>2, <1>3, <1>5 DEF FilesInv, RowsHaveFiles, Chunk
<1>7. Offered = {} => \A c \in segments' : c \in main /\ Height[c] <= SealedHeight
    BY <1>1, UnpackedOnMain, DueSealed DEF FilesInv
<1>8. FilesOnMain'
    BY <1>1, <1>2, <1>3, <1>7 DEF FilesInv, FilesOnMain, SegmentsOnMain
<1>9. FilesOfCall'
    BY <1>1, <1>2 DEF FilesInv, FilesOfCall
<1> QED
    BY <1>6, <1>8, <1>9 DEF FilesInv

LEMMA SwitchFailsFiles ==
    ASSUME IInv, FilesInv, SwitchFails
    PROVE  FilesInv'
<1>1. /\ UNCHANGED <<status, chunked, main, sealed, recent, chunkFiles, doomed, crashes>>
      /\ segments' = Unpacked(chunkFiles, DueHeights(Tried(Branch(cur)), chunked))
      /\ pc = "switch" /\ pc' = "mark"
    BY DEF SwitchFails, callVars
<1>2. Offered = {} => \A c \in segments' : c \in main /\ Height[c] <= SealedHeight
    BY <1>1, UnpackedOnMain, DueSealed DEF FilesInv
<1>3. doomed' = {}
    BY <1>1 DEF FilesInv, FilesOfCall
<1> QED
    BY <1>1, <1>2, <1>3, FilesKept

\* Marking changes no row's existence.
LEMMA MarkInvalidFiles ==
    ASSUME IInv, FilesInv, MarkInvalid
    PROVE  FilesInv'
<1>1. /\ UNCHANGED <<chunked, main, sealed, recent, chunkFiles, segments, doomed, crashes>>
      /\ pc = "mark" /\ pc' \in {"idle", "adopt"}
    BY DEF MarkInvalid, Answer, NextStep
<1>2. PICK failed \in Tried(Branch(cur)) \ Accepts :
          status' = [b \in Block |-> IF b \in StoredAbove(failed) THEN "invalid" ELSE status[b]]
    BY DEF MarkInvalid
<1>3. \A b \in Block : b \in StoredAbove(failed) => Known(b)
    BY AncestorsSelf DEF StoredAbove
<1>4. \A b \in Block : Known(b)' => Known(b)
    BY <1>2, <1>3 DEF Known
<1>5. SealedHeight' = SealedHeight /\ NextChunkEnd' = NextChunkEnd
    BY <1>1, SameSealed
<1>6. RowsHaveFiles'
    BY <1>1, <1>4, <1>5 DEF FilesInv, RowsHaveFiles, Chunk
<1>7. FilesOnMain'
    BY <1>1, <1>5 DEF FilesInv, FilesOnMain, SegmentsOnMain
<1>8. FilesOfCall'
    BY <1>1, <1>5 DEF FilesInv, FilesOfCall
<1> QED
    BY <1>6, <1>7, <1>8 DEF FilesInv

LEMMA PopWaitingFiles ==
    ASSUME IInv, FilesInv, PopWaiting
    PROVE  FilesInv'
<1>1. /\ UNCHANGED <<status, chunked, main, sealed, recent, chunkFiles, segments, doomed, crashes>>
      /\ pc = "adopt" /\ pc' \in {"idle", "adopt"}
    BY DEF PopWaiting, Answer, NextStep, storeVars
<1>2. doomed' = {} /\ (Offered = {} => \A c \in segments' : c \in main /\ Height[c] <= SealedHeight)
    BY <1>1 DEF FilesInv, FilesOfCall, FilesOnMain, SegmentsOnMain
<1> QED
    BY <1>1, <1>2, FilesKept

\* tidy_recent_files only takes files no row needs.
LEMMA SealDoneFiles ==
    ASSUME IInv, FilesInv, SealDone
    PROVE  FilesInv'
<1>1. /\ UNCHANGED <<status, chunked, main, sealed, recent, chunkFiles, segments, crashes>>
      /\ pc = "seal"
    BY DEF SealDone, storeVars
<1>2. \/ doomed' = StaleFiles /\ pc' = "tidy"
      \/ doomed' = doomed /\ pc' \in {"idle", "adopt"}
    BY DEF SealDone, Answer, NextStep
<1>3. doomed = {} /\ (Offered = {} => \A c \in segments' : c \in main /\ Height[c] <= SealedHeight)
    BY <1>1 DEF FilesInv, FilesOfCall, FilesOnMain, SegmentsOnMain
<1>4. \A b \in doomed' : Known(b) => b \in chunked
    BY <1>2, <1>3 DEF StaleFiles
<1> QED
    BY <1>1, <1>2, <1>3, <1>4, FilesKept

\* write_chunk replaces whatever had the name of the chunk.
LEMMA SealFileFiles ==
    ASSUME IInv, FilesInv, SealFile
    PROVE  FilesInv'
<1>1. /\ UNCHANGED <<status, chunked, main, sealed, recent, segments, doomed, crashes>>
      /\ pc = "seal" /\ pc' = "sealTx"
    BY DEF SealFile, callVars
<1>2. PICK c \in main : /\ Height[c] = NextChunkEnd
                        /\ chunkFiles' = {x \in chunkFiles : Height[x] # Height[c]} \cup {c}
    BY DEF SealFile, ChunkBlocks, Overwrite
<1>3. SealedHeight' = SealedHeight /\ NextChunkEnd' = NextChunkEnd
    BY <1>1, SameSealed
<1>4. SealedHeight \in Int /\ SealedHeight < NextChunkEnd /\ NextChunkEnd \in Int
    BY FileHeights
<1>5. \A x \in chunkFiles \cap main : Height[x] <= SealedHeight => x \in chunkFiles' \cap main'
    <2> HIDE DEF SealedHeight, NextChunkEnd
    <2> QED
        BY <1>1, <1>2, <1>4
<1>6. RowsHaveFiles'
    BY <1>1, <1>3, <1>5 DEF FilesInv, RowsHaveFiles, Known, Chunk
<1>7. FilesOnMain'
    BY <1>1, <1>2, <1>3 DEF FilesInv, FilesOnMain, SegmentsOnMain
<1>8. FilesOfCall'
    BY <1>1, <1>2, <1>3 DEF FilesInv, FilesOfCall
<1> QED
    BY <1>6, <1>7, <1>8 DEF FilesInv

\* The rows move to the chunk file that was written before; the losing rows go.
LEMMA SealCommitFiles ==
    ASSUME IInv, FilesInv, SealCommit
    PROVE  FilesInv'
<1>1. /\ UNCHANGED <<main, recent, chunkFiles, segments, crashes>> /\ sealed' = sealed + 1
      /\ chunked' = (chunked \cup ChunkBlocks) \ Losers
      /\ status' = [b \in Block |-> IF b \in Losers THEN "none" ELSE status[b]]
      /\ doomed' = ChunkBlocks \cup Losers
      /\ pc = "sealTx" /\ pc' = "sealTidy"
    BY DEF SealCommit
<1>2. SealedHeight' = NextChunkEnd
    BY <1>1, NextSealedHeight DEF IInv
<1>3. NextChunkEnd' = NextChunkEnd + ChunkSize
    BY <1>2 DEF NextChunkEnd
<1>4. /\ SealedHeight \in Int /\ SealedHeight < NextChunkEnd /\ NextChunkEnd \in Int
      /\ NextChunkEnd = SealedHeight + ChunkSize /\ ChunkSize \in Nat /\ ChunkSize >= 2
      /\ \A b \in Block : Height[b] \in Nat
      /\ main \subseteq Block /\ chunkFiles \subseteq Block
    BY FileHeights, ParamsAssumption
<1>5. PICK f \in chunkFiles \cap main : Height[f] = NextChunkEnd
    BY <1>1 DEF FilesInv, FilesOfCall
<1>6. \A c \in chunkFiles : Height[c] = NextChunkEnd => c \in main
    BY <1>1 DEF FilesInv, FilesOfCall
<1>7. ASSUME NEW b \in ChunkBlocks
      PROVE  b \in Chunk(f)
    <2>1. b \in main /\ SealedHeight < Height[b] /\ Height[b] <= NextChunkEnd
        BY DEF ChunkBlocks
    <2>2. b \in Ancestors[f]
        <3>1. Tip \in Block /\ main = Ancestors[Tip]
            BY MainFacts DEF IInv
        <3> QED
            BY <1>5, <2>1, <3>1, AncestorsByHeight
    <2>3. Height[b] > Height[f] - ChunkSize
        <3> HIDE DEF SealedHeight, NextChunkEnd
        <3> QED
            BY <1>4, <1>5, <2>1
    <2> QED
        BY <2>2, <2>3 DEF Chunk
<1>8. \A b \in Block : Known(b)' => Known(b) /\ b \notin Losers
    BY <1>1 DEF Known
<1> HIDE DEF SealedHeight, NextChunkEnd
<1>9. \A c \in chunkFiles \cap main : Height[c] <= SealedHeight => Height[c] <= NextChunkEnd
    BY <1>4
<1>10. RowsHaveFiles'
    <2>1. \A b \in Block : Known(b)' /\ b \notin chunked' => b \in recent'
        BY <1>1, <1>8 DEF FilesInv, RowsHaveFiles
    <2>2. ASSUME NEW b \in chunked'
          PROVE  \E c \in chunkFiles \cap main : Height[c] <= NextChunkEnd /\ b \in Chunk(c)
        <3>1. CASE b \in ChunkBlocks
            <4>1. Height[f] <= NextChunkEnd
                BY <1>4, <1>5
            <4> QED
                BY <1>5, <1>7, <3>1, <4>1
        <3>2. CASE b \in chunked
            BY <1>9, <3>2 DEF FilesInv, RowsHaveFiles
        <3> QED
            BY <1>1, <3>1, <3>2
    <2> QED
        BY <1>1, <1>2, <2>1, <2>2 DEF RowsHaveFiles, Chunk
<1>11. \A c \in chunkFiles : c \in main /\ Height[c] <= NextChunkEnd
    BY <1>4, <1>6 DEF FilesInv, FilesOnMain, SegmentsOnMain
<1>12. FilesOnMain'
    <2>1. Offered = {} => \A c \in segments : c \in main /\ Height[c] <= NextChunkEnd
        <3> SUFFICES ASSUME Offered = {}, NEW c \in segments
                     PROVE  c \in main /\ Height[c] <= NextChunkEnd
            OBVIOUS
        <3>1. c \in main /\ Height[c] <= SealedHeight /\ c \in Block
            BY FileHeights DEF FilesInv, FilesOnMain, SegmentsOnMain
        <3> QED
            BY <1>4, <3>1
    <2> QED
        BY <1>1, <1>2, <1>11, <2>1 DEF FilesOnMain, SegmentsOnMain
<1>13. FilesOfCall'
    <2>1. \A b \in doomed' : Known(b)' => b \in chunked'
        <3>1. \A b \in ChunkBlocks : b \notin Losers
            BY DEF ChunkBlocks, Losers
        <3>2. \A b \in Losers : b \in Block
            BY DEF Losers
        <3> QED
            BY <1>1, <1>8, <3>1, <3>2
    <2>2. \A c \in chunkFiles' : Height[c] # NextChunkEnd'
        BY <1>1, <1>3, <1>4, <1>11
    <2> QED
        BY <1>1, <2>1, <2>2 DEF FilesOfCall
<1> QED
    BY <1>10, <1>12, <1>13 DEF FilesInv

\* Files are deleted once no row needs them, all or, in a crash, some.
LEMMA DeletedFiles ==
    ASSUME IInv, FilesInv, NEW gone \in SUBSET doomed,
           UNCHANGED <<status, chunked, main, sealed, chunkFiles>>,
           recent' = recent \ gone,
           \A c \in segments' : c \in segments,
           doomed' = {}, pc' \in {"seal", "idle"},
           \/ crashes' = crashes /\ pc \notin {"sealTx", "importTx"}
           \/ crashes' # 0
    PROVE  FilesInv'
<1>1. SealedHeight' = SealedHeight /\ NextChunkEnd' = NextChunkEnd
    BY SameSealed
<1>2. \A b \in gone : Known(b) => b \in chunked
    BY DEF FilesInv, FilesOfCall
<1>3. RowsHaveFiles'
    BY <1>1, <1>2 DEF FilesInv, RowsHaveFiles, Known, Chunk
<1>4. FilesOnMain'
    BY <1>1 DEF FilesInv, FilesOnMain, SegmentsOnMain
<1>5. FilesOfCall'
    BY <1>1 DEF FilesInv, FilesOfCall
<1> QED
    BY <1>3, <1>4, <1>5 DEF FilesInv

LEMMA TidyFilesFiles ==
    ASSUME IInv, FilesInv, TidyFiles
    PROVE  FilesInv'
<1>1. /\ UNCHANGED <<status, chunked, main, sealed, chunkFiles, segments, crashes>>
      /\ recent' = recent \ doomed /\ doomed' = {}
      /\ pc \in {"sealTidy", "tidy"} /\ pc' \in {"seal", "idle"}
    BY DEF TidyFiles
<1>2. doomed \in SUBSET doomed
    OBVIOUS
<1> QED
    BY <1>1, <1>2, DeletedFiles

LEMMA CrashFiles ==
    ASSUME IInv, FilesInv, Crash
    PROVE  FilesInv'
<1>1. /\ UNCHANGED <<status, chunked, main, sealed, chunkFiles>>
      /\ segments' = {} /\ doomed' = {} /\ pc' = "seal" /\ crashes' = crashes + 1
    BY DEF Crash
<1>2. PICK gone \in SUBSET doomed : recent' = recent \ gone
    BY DEF Crash
<1>3. crashes' # 0
    BY <1>1, ManagerAssumption DEF IInv, TypeOK
<1> QED
    BY <1>1, <1>2, <1>3, DeletedFiles

LEMMA ServeBlockFiles ==
    ASSUME IInv, FilesInv, NEW b \in Block, ServeBlock(b)
    PROVE  FilesInv'
<1>1. /\ UNCHANGED <<status, chunked, main, sealed, recent, chunkFiles, doomed, crashes>>
      /\ segments' = Unpacked(chunkFiles, {Height[b]}) /\ b \in chunked
      /\ pc = "idle" /\ pc' = "idle"
    BY DEF ServeBlock, callVars
<1>2. \A h \in {Height[b]} : h \in Int /\ h <= SealedHeight
    BY <1>1, FileHeights
<1>3. Offered = {} => \A c \in segments' : c \in main /\ Height[c] <= SealedHeight
    BY <1>1, <1>2, UnpackedOnMain DEF FilesInv
<1>4. doomed' = {}
    BY <1>1 DEF FilesInv, FilesOfCall
<1> QED
    BY <1>1, <1>3, <1>4, FilesKept

-----------------------------------------------------------------------------
(* Chunks from peers *)

\* Before the first crash no file has the name of the next chunk.
LEMMA ImportChunkFiles ==
    ASSUME IInv, FilesInv, OwnFiles, NEW c \in Offered, ImportChunk(c)
    PROVE  FilesInv'
<1>1. /\ UNCHANGED <<status, chunked, main, sealed, recent, segments, doomed, crashes>>
      /\ pc = "idle" /\ pc' = "importTx" /\ cur' = c /\ Height[c] = NextChunkEnd
      /\ wroteFile' = ~\E x \in chunkFiles : Height[x] = Height[c]
      /\ chunkFiles' = IF wroteFile' THEN Overwrite(c) ELSE chunkFiles
    BY DEF ImportChunk
<1>2. crashes = 0
    BY DEF OwnFiles
<1>3. wroteFile' /\ chunkFiles' = chunkFiles \cup {c}
    BY <1>1, <1>2 DEF FilesInv, FilesOfCall, Overwrite
<1>4. SealedHeight' = SealedHeight /\ NextChunkEnd' = NextChunkEnd
    BY <1>1, SameSealed
<1>5. RowsHaveFiles'
    BY <1>1, <1>3, <1>4 DEF FilesInv, RowsHaveFiles, Known, Chunk
<1>6. FilesOnMain'
    BY <1>1, <1>3, <1>4 DEF FilesInv, FilesOnMain, SegmentsOnMain
<1>7. FilesOfCall'
    BY <1>1, <1>2, <1>3, <1>4 DEF FilesInv, FilesOfCall
<1> QED
    BY <1>5, <1>6, <1>7 DEF FilesInv

\* The rows point into the chunk file that was saved before.
LEMMA ImportCommitFiles ==
    ASSUME IInv, FilesInv, ImportCommit
    PROVE  FilesInv'
<1> DEFINE added == Chunk(cur) \ main
<1>1. /\ UNCHANGED <<recent, chunkFiles, crashes>> /\ sealed' = sealed + 1
      /\ chunked' = chunked \cup Chunk(cur) /\ main' = main \cup added
      /\ status' = [b \in Block |-> IF b \in added THEN "valid" ELSE status[b]]
      /\ segments' = Unpacked(chunkFiles, ImportReads(added))
      /\ doomed' = Chunk(cur)
      /\ pc = "importTx" /\ pc' = "tidy"
    BY DEF ImportCommit, ImportApplies
<1>2. SealedHeight' = NextChunkEnd
    BY <1>1, NextSealedHeight DEF IInv
<1>3. NextChunkEnd' = NextChunkEnd + ChunkSize
    BY <1>2 DEF NextChunkEnd
<1>4. /\ SealedHeight \in Int /\ SealedHeight < NextChunkEnd /\ NextChunkEnd \in Int
      /\ NextChunkEnd = SealedHeight + ChunkSize /\ ChunkSize \in Nat /\ ChunkSize >= 2
      /\ \A b \in Block : Height[b] \in Nat
      /\ main \subseteq Block /\ chunkFiles \subseteq Block
    BY FileHeights, ParamsAssumption
<1>5. /\ cur \in Block /\ Height[cur] = NextChunkEnd /\ cur \in chunkFiles
      /\ \A c \in chunkFiles : Height[c] = NextChunkEnd => c = cur
    BY <1>1 DEF IInv, CallInv, FilesInv, FilesOfCall
<1>6. cur \in Chunk(cur)
    BY <1>4, <1>5, AncestorsSelf DEF Chunk
<1>7. cur \in main' /\ main \subseteq main'
    BY <1>1, <1>6
<1>8. Offered # {}
    BY <1>1 DEF FilesInv, FilesOfCall
<1>9. \A b \in Block : Known(b)' => Known(b) \/ b \in added
    BY <1>1 DEF Known
<1> HIDE DEF SealedHeight, NextChunkEnd
<1>10. RowsHaveFiles'
    <2>1. \A b \in Block : Known(b)' /\ b \notin chunked' => b \in recent'
        BY <1>1, <1>9 DEF FilesInv, RowsHaveFiles
    <2>2. ASSUME NEW b \in chunked'
          PROVE  \E c \in chunkFiles \cap main' : Height[c] <= NextChunkEnd /\ b \in Chunk(c)
        <3>1. CASE b \in Chunk(cur)
            <4>1. Height[cur] <= NextChunkEnd
                BY <1>4, <1>5
            <4> QED
                BY <1>5, <1>7, <3>1, <4>1
        <3>2. CASE b \in chunked
            <4>1. PICK c \in chunkFiles \cap main : Height[c] <= SealedHeight /\ b \in Chunk(c)
                BY <3>2 DEF FilesInv, RowsHaveFiles
            <4>2. Height[c] <= NextChunkEnd
                BY <1>4, <4>1
            <4> QED
                BY <1>7, <4>1, <4>2
        <3> QED
            BY <1>1, <3>1, <3>2
    <2> QED
        BY <1>1, <1>2, <2>1, <2>2 DEF RowsHaveFiles, Chunk
<1>11. \A c \in chunkFiles : c \in main' /\ Height[c] <= NextChunkEnd
    BY <1>4, <1>5, <1>7 DEF FilesInv, FilesOnMain, SegmentsOnMain
<1>12. FilesOnMain'
    BY <1>1, <1>2, <1>8, <1>11 DEF FilesOnMain
<1>13. FilesOfCall'
    <2>1. \A c \in chunkFiles' : Height[c] # NextChunkEnd'
        BY <1>1, <1>3, <1>4, <1>11
    <2> QED
        BY <1>1, <2>1 DEF FilesOfCall
<1> QED
    BY <1>10, <1>12, <1>13 DEF FilesInv

\* The file of a chunk that failed goes again, and with it what had its name.
LEMMA ImportFailsFiles ==
    ASSUME IInv, FilesInv, ImportFails
    PROVE  FilesInv'
<1>1. /\ UNCHANGED <<status, chunked, main, sealed, recent, doomed, crashes>>
      /\ segments' = IF Continues(cur)
                     THEN Unpacked(chunkFiles, ImportReads(Tried(Chunk(cur) \ main)))
                     ELSE segments
      /\ chunkFiles' = IF wroteFile THEN chunkFiles \ {cur} ELSE chunkFiles
      /\ pc = "importTx" /\ pc' = "idle"
    BY DEF ImportFails
<1>2. /\ chunkFiles' = chunkFiles \ {cur} /\ doomed' = {}
      /\ \A c \in chunkFiles : Height[c] = NextChunkEnd => c = cur
    BY <1>1 DEF FilesInv, FilesOfCall
<1>3. Height[cur] = NextChunkEnd /\ SealedHeight \in Int /\ SealedHeight < NextChunkEnd
      /\ NextChunkEnd \in Int
    BY <1>1, FileHeights DEF IInv, CallInv
<1>4. SealedHeight' = SealedHeight /\ NextChunkEnd' = NextChunkEnd
    BY <1>1, SameSealed
<1>5. Offered # {}
    BY <1>1 DEF FilesInv, FilesOfCall
<1> HIDE DEF SealedHeight, NextChunkEnd
<1>6. \A c \in chunkFiles : Height[c] <= SealedHeight => c \in chunkFiles'
    BY <1>2, <1>3
<1>7. RowsHaveFiles'
    BY <1>1, <1>4, <1>6 DEF FilesInv, RowsHaveFiles, Known, Chunk
<1>8. FilesOnMain'
    BY <1>1, <1>2, <1>4, <1>5 DEF FilesInv, FilesOnMain, SegmentsOnMain
<1>9. FilesOfCall'
    BY <1>1, <1>2, <1>4 DEF FilesOfCall
<1> QED
    BY <1>7, <1>8, <1>9 DEF FilesInv

-----------------------------------------------------------------------------
(* Every behaviour *)

LEMMA FilesInit ==
    ASSUME Init
    PROVE  FilesInv
<1>1. RowsHaveFiles
    BY TreeAssumption DEF Init, StoreInit, RowsHaveFiles, Known
<1>2. FilesOnMain /\ FilesOfCall
    BY DEF Init, StoreInit, FilesOnMain, SegmentsOnMain, FilesOfCall
<1> QED
    BY <1>1, <1>2 DEF FilesInv

LEMMA FilesNext ==
    ASSUME IInv, OwnFiles => FilesInv, [Next]_vars
    PROVE  OwnFiles' => FilesInv'
<1>1. OwnFiles' => OwnFiles
    <2>1. crashes' = crashes \/ crashes' = crashes + 1
        BY DEF Next, vars, SubmitBlock, ImportChunk, ServeBlock, HandlerStep, Crash, StoreBlock,
               Switch, SwitchApplies, SwitchFails, MarkInvalid, AdoptChild, PopWaiting, SealFile,
               SealCommit, SealDone, TidyFiles, ImportCommit, ImportApplies, ImportFails
    <2>2. crashes \in Nat
        BY ManagerAssumption DEF IInv, TypeOK
    <2> QED
        BY <2>1, <2>2 DEF OwnFiles
<1> SUFFICES ASSUME OwnFiles, FilesInv PROVE FilesInv'
    BY <1>1
<1>2. ASSUME NEW b \in Block, SubmitBlock(b) PROVE FilesInv'
    BY <1>2, NotStoredFiles, StoresFiles DEF SubmitBlock
<1>3. ASSUME NEW c \in Offered, ImportChunk(c) PROVE FilesInv'
    BY <1>3, ImportChunkFiles
<1>4. ASSUME NEW b \in Block, ServeBlock(b) PROVE FilesInv'
    BY <1>4, ServeBlockFiles
<1>5. CASE AdoptChild
    <2>1. pc = "adopt" /\ UNCHANGED <<doomed, crashes>>
        BY <1>5 DEF AdoptChild
    <2>2. PICK b \in Block : \E pool, cs :
              \/ SubmitOneWithoutStoring(b, pool, cs) \/ SubmitOneRaises(b, pool)
              \/ SubmitOneStores(b, pool, cs)
        BY <1>5 DEF AdoptChild
    <2> QED
        BY <2>1, <2>2, NotStoredFiles, StoresFiles
<1>6. CASE HandlerStep
    BY <1>5, <1>6, StoreBlockFiles, SwitchFiles, SwitchFailsFiles, MarkInvalidFiles,
       PopWaitingFiles, SealFileFiles, SealCommitFiles, SealDoneFiles, TidyFilesFiles,
       ImportCommitFiles, ImportFailsFiles DEF HandlerStep
<1>7. CASE Crash
    BY <1>7, CrashFiles
<1>8. CASE UNCHANGED vars
    <2>1. /\ SealedHeight' = SealedHeight /\ NextChunkEnd' = NextChunkEnd
          /\ UNCHANGED <<storeVars, pc, callVars, crashes>>
        BY <1>8, SameSealed DEF vars, storeVars
    <2>2. RowsHaveFiles' /\ FilesOnMain'
        BY <2>1 DEF FilesInv, RowsHaveFiles, FilesOnMain, SegmentsOnMain, Known, Chunk, storeVars
    <2>3. FilesOfCall'
        BY <2>1 DEF FilesInv, FilesOfCall, Known, storeVars, callVars
    <2> QED
        BY <2>2, <2>3 DEF FilesInv
<1> QED
    BY <1>2, <1>3, <1>4, <1>6, <1>7, <1>8 DEF Next

LEMMA FilesInvariant == Spec => [](IInv /\ (OwnFiles => FilesInv))
<1>1. Init => IInv /\ (OwnFiles => FilesInv)
    BY InitInv, FilesInit
<1>2. IInv /\ (OwnFiles => FilesInv) /\ [Next]_vars => (IInv /\ (OwnFiles => FilesInv))'
    BY NextInv, FilesNext
<1> QED
    BY <1>1, <1>2, PTL DEF Spec

\* Until the first crash every row leads to a file with the bytes of its own block,
\* whatever chunks peers offer, in whichever order blocks are submitted, sealed and
\* imported, and also while an import fails; and what is read is that, unless a
\* segment has outlived the file it came from.  It holds for every maturity.
THEOREM Readability == Spec => []ReadableBeforeCrash
<1>1. IInv /\ (OwnFiles => FilesInv) => ReadableBeforeCrash
    BY RowReadable DEF OwnFiles, ReadableBeforeCrash
<1> QED
    BY <1>1, FilesInvariant, PTL

\* A node that only seals its own chunks can be killed at any moment, and as
\* often as one likes: every row of the database leads to the bytes of its own
\* block, for every maturity, because a file is there before a row needs it and
\* goes after the last such row.
THEOREM OwnChunksReadable == Offered = {} => (Spec => []StoredReadable)
<1> SUFFICES ASSUME Offered = {} PROVE Spec => []StoredReadable
    OBVIOUS
<1>1. IInv /\ (OwnFiles => FilesInv) => StoredReadable
    BY RowReadable DEF OwnFiles, StoredReadable, FilesInv, FilesOnMain
<1> QED
    BY <1>1, FilesInvariant, PTL

-----------------------------------------------------------------------------
(* The orphans: the inductive invariant *)

\* A list of orphans that fits: blocks, none twice.
Fits(pool) == pool \in Seq(Block) /\ IsInjective(pool) /\ Len(pool) <= MaxOrphans

\* No orphan of the pool is stored.  If its parent is, then its adoption is under
\* way: the parent is the block c in hand or on the stack ws, or the orphan is
\* among the children cs that come next; or an exception has ended it.
Adopted(pool, c, ws, cs) ==
    \A o \in ToSet(pool) :
        /\ ~Known(o)
        /\ Known(Parent[o]) => \/ raised # "never" \/ Parent[o] = c
                               \/ Parent[o] \in ToSet(ws) \/ o \in ToSet(cs)

\* Where a call stands: a step between blocks has none in hand, and one between
\* calls, or of a start-up, has nothing left to adopt.
InHand ==
    /\ pc # "importTx"
    /\ pc = "store" => cur \notin ToSet(orphans)
    /\ pc \in {"idle", "adopt", "tidy"} => cur = NoBlock
    /\ \/ pc \in {"idle", "tidy"}
       \/ pc \in {"seal", "sealTx", "sealTidy"} /\ cur = NoBlock
       => waiting = <<>> /\ children = <<>>

OrphanInv ==
    /\ Fits(orphans)
    /\ children \in Seq(Block)
    /\ Adopted(orphans, cur, waiting, children)
    /\ InHand

-----------------------------------------------------------------------------
(* Lists of orphans *)

\* What is left of a list.
LEMMA OnlyFacts ==
    ASSUME NEW s \in Seq(Block), NEW S, NEW k \in Only(s, S)
    PROVE  /\ k \in Seq(Block) /\ Len(k) <= Len(s) /\ ToSet(k) = ToSet(s) \cap S
           /\ IsInjective(s) => IsInjective(k)
<1> DEFINE T == ToSet(s) \cap S
<1>1. /\ ToSet(k) = T
      /\ \A i, j \in DOMAIN k :
            i < j => \E m, n \in DOMAIN s : m < n /\ s[m] = k[i] /\ s[n] = k[j]
    BY DEF Only
<1>2. T \subseteq Block
    BY SetOfList, ListFacts
<1>3. PICK n \in 0..Len(s) : k \in [1..n -> T]
    BY DEF Only, BoundedSeq, SeqOf
<1>4. Len(s) \in Nat /\ DOMAIN s = 1..Len(s)
    BY ListFacts
<1> HIDE DEF T
<1>5. n \in Nat /\ k \in [1..n -> Block]
    BY <1>2, <1>3, <1>4
<1>6. k \in Seq(Block)
    BY <1>5, SeqDef
<1>7. Len(k) = n /\ DOMAIN k = 1..n
    BY <1>5, <1>6, LenProperties
<1>8. ASSUME IsInjective(s) PROVE IsInjective(k)
    <2>1. ASSUME NEW i \in DOMAIN k, NEW j \in DOMAIN k, i < j PROVE k[i] # k[j]
        <3>1. PICK p \in DOMAIN s, q \in DOMAIN s : p < q /\ s[p] = k[i] /\ s[q] = k[j]
            BY <1>1, <2>1
        <3>2. p # q
            BY <1>4, <3>1
        <3> QED
            BY <1>8, <3>1, <3>2 DEF IsInjective
    <2>2. \A i, j \in DOMAIN k : i # j => i < j \/ j < i
        BY <1>7
    <2> QED
        BY <2>1, <2>2 DEF IsInjective
<1> QED
    BY <1>1, <1>3, <1>4, <1>6, <1>7, <1>8 DEF T

\* _drop_orphans_of(b) leaves no child of b in the pool.
LEMMA DroppedFacts ==
    ASSUME NEW pool \in Seq(Block), NEW b \in Block, NEW k \in DropOrphansOf(b, pool)
    PROVE  /\ k \in Seq(Block) /\ Len(k) <= Len(pool) /\ ToSet(k) \subseteq ToSet(pool)
           /\ IsInjective(pool) => IsInjective(k)
           /\ \A o \in ToSet(k) : Known(Parent[o]) /\ ~Known(o) => Parent[o] # b
<1> DEFINE above == {o \in ToSet(pool) : o # b /\ b \in Ancestors[o]}
           reached == {o \in above : \A x \in Ancestors[o] :
                                        b \in Ancestors[x] /\ x # b => x \in above}
<1>1. k \in Only(pool, Block \ reached)
    BY DEF DropOrphansOf
<1>2. /\ k \in Seq(Block) /\ Len(k) <= Len(pool) /\ ToSet(k) = ToSet(pool) \cap (Block \ reached)
      /\ IsInjective(pool) => IsInjective(k)
    BY <1>1, OnlyFacts
<1>3. ASSUME NEW o \in ToSet(k), Known(Parent[o]), ~Known(o), Parent[o] = b
      PROVE  FALSE
    <2>1. o \in Block /\ o \in ToSet(pool) /\ o \notin reached
        BY <1>2
    <2>2. o # Genesis /\ o # b
        BY <1>3, TreeAssumption
    <2>3. Ancestors[o] = {o} \cup Ancestors[b]
        BY <1>3, <2>1, <2>2, AncestorsStep
    <2>4. b \in Ancestors[b] /\ Ancestors[b] \subseteq Block
        BY AncestorsSelf
    <2>5. o \in above
        BY <2>1, <2>2, <2>3, <2>4
    <2>6. ASSUME NEW x \in Ancestors[b], b \in Ancestors[x] PROVE x = b
        <3>1. x \in Block /\ Height[x] \in Nat /\ Height[b] \in Nat
            BY <2>4, BlockFacts
        <3>2. x # b => Height[x] < Height[b]
            BY AncestorsBelow
        <3>3. x # b => Height[b] < Height[x]
            BY <2>6, <3>1, AncestorsBelow
        <3> QED
            BY <3>1, <3>2, <3>3
    <2> QED
        BY <2>1, <2>3, <2>5, <2>6
<1> QED
    BY <1>2, <1>3

\* _hold_orphan.
LEMMA HeldFacts ==
    ASSUME NEW pool, Fits(pool), NEW b \in Block, b \notin ToSet(pool)
    PROVE  Fits(HoldOrphan(b, pool)) /\ ToSet(HoldOrphan(b, pool)) \subseteq ToSet(pool) \cup {b}
<1>1. /\ pool \in Seq(Block) /\ IsInjective(pool) /\ Len(pool) <= MaxOrphans
      /\ Len(pool) \in Nat /\ MaxOrphans \in Nat /\ MaxOrphans >= 1
    BY ListFacts, ManagerAssumption DEF Fits
<1> DEFINE rest == IF Len(pool) >= MaxOrphans THEN Tail(pool) ELSE pool
<1>2. /\ rest \in Seq(Block) /\ IsInjective(rest) /\ Len(rest) + 1 <= MaxOrphans
      /\ Range(rest) \subseteq Range(pool) /\ Len(rest) \in Nat
    <2>1. CASE Len(pool) >= MaxOrphans
        <3>1. pool # <<>>
            BY <1>1, <2>1, EmptyList
        <3>2. /\ Tail(pool) \in Seq(Block) /\ Len(Tail(pool)) = Len(pool) - 1
              /\ Range(Tail(pool)) \subseteq Range(pool) /\ IsInjective(Tail(pool))
            BY <1>1, <3>1, Shifted
        <3> QED
            BY <1>1, <2>1, <3>2
    <2>2. CASE ~(Len(pool) >= MaxOrphans)
        BY <1>1, <2>2
    <2> QED
        BY <2>1, <2>2
<1>3. HoldOrphan(b, pool) = Append(rest, b)
    BY DEF HoldOrphan
<1> HIDE DEF rest
<1>4. b \notin Range(rest)
    BY <1>2, SetOfList
<1>5. /\ Append(rest, b) \in Seq(Block) /\ Len(Append(rest, b)) = Len(rest) + 1
      /\ Range(Append(rest, b)) = Range(rest) \cup {b} /\ IsInjective(Append(rest, b))
    BY <1>2, <1>4, Appended
<1>6. ToSet(Append(rest, b)) \subseteq ToSet(pool) \cup {b}
    BY <1>2, <1>5, SetOfList
<1> QED
    BY <1>2, <1>3, <1>5, <1>6 DEF Fits

-----------------------------------------------------------------------------
(* The steps, with the orphans in mind *)

\* Pools that get smaller, rows that go and an exception only help.
LEMMA AdoptedLess ==
    ASSUME NEW pool, NEW c, NEW ws, NEW cs, Adopted(pool, c, ws, cs),
           NEW less, ToSet(less) \subseteq ToSet(pool), pool \in Seq(Block),
           \A b \in Block : Known(b)' => Known(b), raised # "never" => raised' # "never"
    PROVE  Adopted(less, c, ws, cs)'
<1>1. \A o \in ToSet(less) : o \in Block /\ Parent[o] \in Block
    BY SetOfList, ListFacts, BlockFacts
<1> QED
    BY <1>1 DEF Adopted

\* The block in hand is dealt with, with the pool, stack and children given.
LEMMA AnswerOrphans ==
    ASSUME NEW pool, NEW ws, NEW cs, Answer(pool, ws, cs), Fits(pool), cs \in Seq(Block),
           Adopted(pool, NoBlock, ws, cs)'
    PROVE  OrphanInv'
<1>1. /\ orphans' = pool /\ waiting' = ws /\ children' = cs /\ cur' = NoBlock
      /\ pc' = (IF ws = <<>> /\ cs = <<>> THEN "idle" ELSE "adopt")
    BY DEF Answer, NextStep
<1>2. InHand'
    BY <1>1 DEF InHand
<1>3. Adopted(orphans, cur, waiting, children)'
    BY <1>1 DEF Adopted
<1> QED
    BY <1>1, <1>2, <1>3 DEF OrphanInv, Fits

\* A submitted block that is not stored.
LEMMA NotStoredOrphans ==
    ASSUME NEW b \in Block, NEW pool, NEW cs, SubmitOneWithoutStoring(b, pool, cs),
           Fits(pool), cs \in Seq(Block), Adopted(pool, NoBlock, waiting, cs)
    PROVE  OrphanInv'
<1>1. status' = status /\ (raised # "never" => raised' # "never")
    BY DEF SubmitOneWithoutStoring, storeVars, Earlier
<1>2. (\A x \in Block : Known(x)' <=> Known(x)) /\ pool \in Seq(Block)
    BY <1>1 DEF Known, Fits
<1>w. PICK ws : ws = waiting
    OBVIOUS
<1>a. Adopted(pool, NoBlock, ws, cs)
    BY <1>w
<1>3. CASE Answer(pool, ws, cs)
    <2>1. Adopted(pool, NoBlock, ws, cs)'
        BY <1>1, <1>2, <1>a, AdoptedLess
    <2> QED
        BY <1>3, <2>1, AnswerOrphans
<1>4. CASE \E kept \in DropOrphansOf(b, pool) : Answer(kept, ws, cs)
    <2>1. PICK kept \in DropOrphansOf(b, pool) : Answer(kept, ws, cs)
        BY <1>4
    <2>2. /\ kept \in Seq(Block) /\ Len(kept) <= Len(pool) /\ ToSet(kept) \subseteq ToSet(pool)
          /\ IsInjective(kept)
        BY <1>2, DroppedFacts DEF Fits
    <2>3. Fits(kept)
        BY <1>2, <2>2, ListFacts, ManagerAssumption DEF Fits
    <2>4. Adopted(kept, NoBlock, ws, cs)'
        BY <1>1, <1>2, <1>a, <2>2, AdoptedLess
    <2> QED
        BY <2>1, <2>3, <2>4, AnswerOrphans
<1>5. CASE IsOrphan(b, pool) /\ Answer(HoldOrphan(b, pool), ws, cs)
    <2>1. ~Known(b) /\ ~Known(Parent[b]) /\ b \notin ToSet(pool) /\ Parent[b] \in Block
        BY <1>5, BlockFacts DEF IsOrphan
    <2>2. Fits(HoldOrphan(b, pool)) /\ ToSet(HoldOrphan(b, pool)) \subseteq ToSet(pool) \cup {b}
        BY <2>1, HeldFacts
    <2>3. Adopted(pool, NoBlock, ws, cs)'
        BY <1>1, <1>2, <1>a, AdoptedLess
    <2>4. Adopted(HoldOrphan(b, pool), NoBlock, ws, cs)'
        BY <1>2, <2>1, <2>2, <2>3 DEF Adopted
    <2> QED
        BY <1>5, <2>2, <2>4, AnswerOrphans
<1> QED
    BY <1>w, <1>3, <1>4, <1>5 DEF SubmitOneWithoutStoring

LEMMA RaisesOrphans ==
    ASSUME NEW b \in Block, NEW pool, SubmitOneRaises(b, pool),
           Fits(pool), \A o \in ToSet(pool) : ~Known(o)
    PROVE  OrphanInv'
<1>1. /\ orphans' = pool /\ waiting' = <<>> /\ children' = <<>> /\ pc' = "idle"
      /\ cur' = NoBlock /\ raised' = "now" /\ status' = status
    BY DEF SubmitOneRaises, storeVars
<1>2. \A o \in ToSet(pool) : ~Known(o)'
    BY <1>1 DEF Known
<1>3. Adopted(orphans, cur, waiting, children)'
    BY <1>1, <1>2 DEF Adopted
<1>4. children' \in Seq(Block)
    BY <1>1, EmptySeq
<1> QED
    BY <1>1, <1>3, <1>4 DEF OrphanInv, InHand, Fits

LEMMA StoresOrphans ==
    ASSUME NEW b \in Block, NEW pool, NEW cs, SubmitOneStores(b, pool, cs),
           Fits(pool), cs \in Seq(Block), Adopted(pool, NoBlock, waiting, cs)
    PROVE  OrphanInv'
<1>1. /\ orphans' = pool /\ waiting' = waiting /\ children' = cs /\ pc' = "store"
      /\ cur' = b /\ status' = status /\ b \notin ToSet(pool)
      /\ raised # "never" => raised' # "never"
    BY DEF SubmitOneStores, Connects, Earlier
<1>2. \A x \in Block : Known(x)' <=> Known(x)
    BY <1>1 DEF Known
<1>3. \A o \in ToSet(pool) : o \in Block /\ Parent[o] \in Block
    BY SetOfList, ListFacts, BlockFacts DEF Fits
<1>4. Adopted(orphans, cur, waiting, children)'
    BY <1>1, <1>2, <1>3, ManagerAssumption DEF Adopted
<1> QED
    BY <1>1, <1>4 DEF OrphanInv, InHand, Fits

LEMMA SubmitBlockOrphans ==
    ASSUME OrphanInv, NEW b \in Block, SubmitBlock(b)
    PROVE  OrphanInv'
<1>1. pc = "idle"
    BY DEF SubmitBlock
<1>2. /\ cur = NoBlock /\ waiting = <<>> /\ children = <<>> /\ Fits(orphans)
      /\ Adopted(orphans, NoBlock, waiting, <<>>)
    BY <1>1 DEF OrphanInv, InHand
<1>3. <<>> \in Seq(Block)
    BY EmptySeq
<1>4. \A o \in ToSet(orphans) : ~Known(o)
    BY <1>2 DEF Adopted
<1> QED
    BY <1>2, <1>3, <1>4, NotStoredOrphans, RaisesOrphans, StoresOrphans DEF SubmitBlock

LEMMA AdoptChildOrphans ==
    ASSUME OrphanInv, AdoptChild
    PROVE  OrphanInv'
<1>1. pc = "adopt" /\ children # <<>> /\ cur = NoBlock /\ Fits(orphans) /\ children \in Seq(Block)
      /\ Adopted(orphans, NoBlock, waiting, children)
    BY DEF AdoptChild, OrphanInv, InHand
<1>b. PICK b \in Block : /\ b = Head(children)
                         /\ \E pool \in Only(orphans, Block \ {b}) :
                               \/ SubmitOneWithoutStoring(b, pool, Tail(children))
                               \/ SubmitOneRaises(b, pool)
                               \/ SubmitOneStores(b, pool, Tail(children))
    BY DEF AdoptChild
<1>2. PICK pool \in Only(orphans, Block \ {b}) :
          \/ SubmitOneWithoutStoring(b, pool, Tail(children))
          \/ SubmitOneRaises(b, pool)
          \/ SubmitOneStores(b, pool, Tail(children))
    BY <1>b
<1>3. orphans \in Seq(Block) /\ IsInjective(orphans) /\ Len(orphans) <= MaxOrphans
    BY <1>1 DEF Fits
<1>4. /\ pool \in Seq(Block) /\ Len(pool) <= Len(orphans) /\ IsInjective(pool)
      /\ ToSet(pool) = ToSet(orphans) \cap (Block \ {b})
    BY <1>2, <1>3, OnlyFacts
<1>5. Fits(pool)
    BY <1>3, <1>4, ListFacts, ManagerAssumption DEF Fits
<1>6. Tail(children) \in Seq(Block)
    BY <1>1, Shifted
<1>7. \A o \in ToSet(children) : o = b \/ o \in ToSet(Tail(children))
    BY <1>1, <1>b, HeadOrTail, SetOfList
<1>8. Adopted(pool, NoBlock, waiting, Tail(children))
    BY <1>1, <1>4, <1>7 DEF Adopted
<1>9. \A o \in ToSet(pool) : ~Known(o)
    BY <1>8 DEF Adopted
<1> QED
    BY <1>2, <1>5, <1>6, <1>8, <1>9, NotStoredOrphans, RaisesOrphans, StoresOrphans

\* All orphans of the block taken from the stack come next.
LEMMA PopWaitingOrphans ==
    ASSUME IInv, OrphanInv, PopWaiting
    PROVE  OrphanInv'
<1>1. /\ pc = "adopt" /\ children = <<>> /\ cur = NoBlock /\ Fits(orphans)
      /\ UNCHANGED <<status, raised>> /\ waiting \in Seq(Block)
      /\ Adopted(orphans, NoBlock, waiting, <<>>)
    BY DEF PopWaiting, OrphanInv, InHand, storeVars, IInv, TypeOK
<1>2. PICK mine \in Only(orphans, {o \in Block : Parent[o] = Last(waiting)}) :
          Answer(orphans, Front(waiting), mine)
    BY DEF PopWaiting
<1>3. orphans \in Seq(Block)
    BY <1>1 DEF Fits
<1>4. /\ mine \in Seq(Block)
      /\ ToSet(mine) = ToSet(orphans) \cap {o \in Block : Parent[o] = Last(waiting)}
    BY <1>2, <1>3, OnlyFacts
<1>5. \A o \in ToSet(orphans) : o \in Block /\ Parent[o] \in Block
    BY <1>3, SetOfList, ListFacts, BlockFacts
<1>6. \A x \in ToSet(waiting) : x \in ToSet(Front(waiting)) \/ x = Last(waiting)
    <2>1. CASE waiting = <<>>
        BY <2>1, SetOfList, EmptyList
    <2>2. CASE waiting # <<>>
        BY <1>1, <2>2, Popped, SetOfList
    <2> QED
        BY <2>1, <2>2
<1>7. \A x \in Block : Known(x)' <=> Known(x)
    BY <1>1 DEF Known
<1>8. Adopted(orphans, NoBlock, Front(waiting), mine)
    <2>1. ToSet(<<>>) = {}
        BY SetOfList, EmptyList
    <2> QED
        BY <1>1, <1>4, <1>5, <1>6, <2>1 DEF Adopted
<1>9. PICK p, f : p = orphans /\ f = Front(waiting)
    OBVIOUS
<1>10. Adopted(p, NoBlock, f, mine)'
    <2>1. Adopted(p, NoBlock, f, mine) /\ p \in Seq(Block)
        BY <1>3, <1>8, <1>9
    <2> QED
        BY <1>1, <1>7, <2>1, AdoptedLess
<1>11. Answer(p, f, mine) /\ Fits(p)
    BY <1>1, <1>2, <1>9
<1> QED
    BY <1>4, <1>10, <1>11, AnswerOrphans

\* A step that has nothing to do with orphans and stores nothing.
LEMMA OrphansKept ==
    ASSUME OrphanInv, UNCHANGED <<orphans, waiting, children, cur, raised>>,
           \A x \in Block : Known(x)' => Known(x), InHand'
    PROVE  OrphanInv'
<1>1. \A o \in ToSet(orphans) : o \in Block /\ Parent[o] \in Block
    BY SetOfList, ListFacts, BlockFacts DEF OrphanInv, Fits
<1>2. Adopted(orphans, cur, waiting, children)'
    BY <1>1 DEF OrphanInv, Adopted
<1> QED
    BY <1>2 DEF OrphanInv, Fits

\* The block in hand is stored now, and goes on the stack.
LEMMA PushOrphans ==
    ASSUME IInv, OrphanInv, cur \in Block, UNCHANGED raised,
           Answer(orphans, Append(waiting, cur), children),
           \A x \in Block : Known(x)' => Known(x) \/ x = cur,
           \A x \in ToSet(orphans) : ~Known(x)'
    PROVE  OrphanInv'
<1>1. PICK p, ws, c, cs : p = orphans /\ ws = waiting /\ c = cur /\ cs = children
    OBVIOUS
<1>2. /\ Fits(p) /\ cs \in Seq(Block) /\ ws \in Seq(Block) /\ c \in Block
      /\ Adopted(p, c, ws, cs) /\ Answer(p, Append(ws, c), cs)
    BY <1>1 DEF OrphanInv, IInv, TypeOK
<1>3. ToSet(Append(ws, c)) = ToSet(ws) \cup {c}
    BY <1>2, Appended, SetOfList
<1>4. \A o \in ToSet(p) : o \in Block /\ Parent[o] \in Block
    BY <1>2, SetOfList, ListFacts, BlockFacts DEF Fits
<1>5. \A o \in ToSet(p) : ~Known(o)'
    BY <1>1
<1>6. \A x \in Block : Known(x)' => Known(x) \/ x = c
    BY <1>1
<1>7. ASSUME NEW o \in ToSet(p), Known(Parent[o])'
      PROVE  raised' # "never" \/ Parent[o] \in ToSet(Append(ws, c)) \/ o \in ToSet(cs)
    BY <1>2, <1>3, <1>4, <1>6, <1>7 DEF Adopted
<1>8. Adopted(p, NoBlock, Append(ws, c), cs)'
    BY <1>4, <1>5, <1>7 DEF Adopted
<1> QED
    BY <1>2, <1>8, AnswerOrphans

LEMMA StoreBlockOrphans ==
    ASSUME IInv, OrphanInv, StoreBlock
    PROVE  OrphanInv'
<1>1. /\ pc = "store" /\ status' = [status EXCEPT ![cur] = "stored"] /\ raised' = raised
      /\ cur \in Block /\ cur \notin ToSet(orphans)
    BY DEF StoreBlock, OrphanInv, InHand, IInv, CallInv
<1>2. \A x \in Block : Known(x)' => Known(x) \/ x = cur
    BY <1>1 DEF Known, IInv, TypeOK, StoreTypeOK
<1>3. CASE Answer(orphans, Append(waiting, cur), children)
    <2>1. \A x \in ToSet(orphans) : x \in Block /\ ~Known(x) /\ x # cur
        BY <1>1, SetOfList, ListFacts DEF OrphanInv, Fits, Adopted
    <2>2. \A x \in ToSet(orphans) : ~Known(x)'
        BY <1>2, <2>1
    <2> QED
        BY <1>1, <1>2, <1>3, <2>2, PushOrphans
<1>4. CASE pc' = "switch" /\ UNCHANGED <<cur, orphans, waiting, children>>
    <2>1. \A o \in ToSet(orphans) : o \in Block /\ Parent[o] \in Block
        BY SetOfList, ListFacts, BlockFacts DEF OrphanInv, Fits
    <2>2. Adopted(orphans, cur, waiting, children)'
        BY <1>1, <1>2, <1>4, <2>1 DEF OrphanInv, Adopted
    <2>3. InHand'
        BY <1>4 DEF InHand
    <2> QED
        BY <1>4, <2>2, <2>3 DEF OrphanInv, Fits
<1> QED
    BY <1>3, <1>4 DEF StoreBlock

\* A branch that fails takes its orphans with it.
LEMMA MarkInvalidOrphans ==
    ASSUME IInv, OrphanInv, MarkInvalid
    PROVE  OrphanInv'
<1>1. pc = "mark" /\ raised' = raised /\ cur \in Block
    BY DEF MarkInvalid, IInv, CallInv
<1>2. PICK failed \in Tried(Branch(cur)) \ Accepts :
          status' = [b \in Block |-> IF b \in StoredAbove(failed) THEN "invalid" ELSE status[b]]
    BY DEF MarkInvalid
<1>3. \A b \in Block : Known(b)' => Known(b)
    BY <1>2, AncestorsSelf DEF Known, StoredAbove
<1>4. PICK k \in DropOrphansOf(cur, orphans) : Answer(k, waiting, children)
    BY DEF MarkInvalid
<1>5. PICK ws, cs : ws = waiting /\ cs = children
    OBVIOUS
<1>6. /\ orphans \in Seq(Block) /\ IsInjective(orphans) /\ Len(orphans) <= MaxOrphans
      /\ Adopted(orphans, cur, ws, cs) /\ cs \in Seq(Block)
    BY <1>5 DEF OrphanInv, Fits
<1>7. /\ k \in Seq(Block) /\ Len(k) <= Len(orphans) /\ ToSet(k) \subseteq ToSet(orphans)
      /\ IsInjective(k)
      /\ \A o \in ToSet(k) : Known(Parent[o]) /\ ~Known(o) => Parent[o] # cur
    BY <1>1, <1>4, <1>6, DroppedFacts
<1>8. Fits(k)
    BY <1>6, <1>7, ListFacts, ManagerAssumption DEF Fits
<1>9. Adopted(k, NoBlock, ws, cs)
    BY <1>6, <1>7 DEF Adopted
<1>10. Adopted(k, NoBlock, ws, cs)'
    BY <1>1, <1>3, <1>7, <1>9, AdoptedLess
<1> QED
    BY <1>4, <1>5, <1>6, <1>8, <1>10, AnswerOrphans

LEMMA SealDoneOrphans ==
    ASSUME IInv, OrphanInv, SealDone
    PROVE  OrphanInv'
<1>1. pc = "seal" /\ UNCHANGED <<status, raised>>
    BY DEF SealDone, storeVars
<1>2. \A x \in Block : Known(x)' <=> Known(x)
    BY <1>1 DEF Known
<1>3. CASE cur = NoBlock
    <2>1. pc' = "tidy" /\ UNCHANGED <<cur, orphans, waiting, children>>
        BY <1>3 DEF SealDone
    <2>2. InHand'
        BY <1>1, <1>3, <2>1 DEF OrphanInv, InHand
    <2> QED
        BY <1>1, <1>2, <2>1, <2>2, OrphansKept
<1>4. CASE cur # NoBlock
    <2>1. Answer(orphans, Append(waiting, cur), children) /\ cur \in Block
        BY <1>4 DEF SealDone, IInv, TypeOK
    <2>2. \A x \in ToSet(orphans) : ~Known(x)'
        BY <1>2, SetOfList, ListFacts DEF OrphanInv, Fits, Adopted
    <2> QED
        BY <1>1, <1>2, <2>1, <2>2, PushOrphans
<1> QED
    BY <1>3, <1>4

\* Switching, sealing, tidying up and serving.
LEMMA QuietOrphans ==
    ASSUME IInv, OrphanInv,
           Switch \/ SwitchFails \/ SealFile \/ SealCommit \/ \E b \in Block : ServeBlock(b)
    PROVE  OrphanInv'
<1>1. UNCHANGED <<orphans, waiting, children, cur, raised>>
    BY DEF Switch, SwitchApplies, SwitchFails, SealFile, SealCommit, ServeBlock, callVars
<1>2. CASE Switch
    <2>1. \A b \in Branch(cur) : Known(b)
        BY <1>2 DEF Switch, IInv, CallInv, Branch, Known
    <2>2. \A x \in Block : Known(x)' => Known(x)
        BY <1>2, <2>1 DEF Switch, SwitchApplies, Known
    <2>3. InHand'
        <3>1. pc' = "seal" /\ cur' \in Block
            BY <1>1, <1>2 DEF Switch, SwitchApplies, IInv, CallInv
        <3> QED
            BY <3>1, ManagerAssumption DEF InHand
    <2> QED
        BY <1>1, <2>2, <2>3, OrphansKept
<1>3. CASE SwitchFails
    <2>1. status' = status /\ pc' = "mark"
        BY <1>3 DEF SwitchFails
    <2> QED
        BY <1>1, <2>1, OrphansKept DEF Known, InHand
<1>4. CASE SealFile
    <2>1. status' = status /\ pc = "seal" /\ pc' = "sealTx"
        BY <1>4 DEF SealFile
    <2>2. InHand'
        BY <1>1, <2>1 DEF OrphanInv, InHand
    <2> QED
        BY <1>1, <2>1, <2>2, OrphansKept DEF Known
<1>5. CASE SealCommit
    <2>1. /\ pc = "sealTx" /\ pc' = "sealTidy"
          /\ status' = [b \in Block |-> IF b \in Losers THEN "none" ELSE status[b]]
        BY <1>5 DEF SealCommit
    <2>2. InHand'
        BY <1>1, <2>1 DEF OrphanInv, InHand
    <2>3. \A x \in Block : Known(x)' => Known(x)
        BY <2>1 DEF Known
    <2> QED
        BY <1>1, <2>2, <2>3, OrphansKept
<1>6. CASE \E b \in Block : ServeBlock(b)
    <2>1. status' = status /\ pc = "idle" /\ pc' = pc
        BY <1>6 DEF ServeBlock
    <2>2. InHand'
        BY <1>1, <2>1 DEF OrphanInv, InHand
    <2> QED
        BY <1>1, <2>1, <2>2, OrphansKept DEF Known
<1> QED
    BY <1>2, <1>3, <1>4, <1>5, <1>6

LEMMA TidyFilesOrphans ==
    ASSUME OrphanInv, TidyFiles
    PROVE  OrphanInv'
<1>1. /\ UNCHANGED <<status, orphans, waiting, children, raised>>
      /\ \/ pc = "sealTidy" /\ pc' = "seal" /\ cur' = cur
         \/ pc = "tidy" /\ pc' = "idle" /\ cur' = NoBlock
    BY DEF TidyFiles
<1>2. cur' = cur
    BY <1>1 DEF OrphanInv, InHand
<1>3. InHand'
    BY <1>1, <1>2 DEF OrphanInv, InHand
<1> QED
    BY <1>1, <1>2, <1>3, OrphansKept DEF Known

\* A new process has no orphans and nothing in hand.
LEMMA FreshOrphans ==
    ASSUME orphans = <<>>, waiting = <<>>, children = <<>>, cur = NoBlock, pc = "seal"
    PROVE  OrphanInv
<1>1. ToSet(<<>>) = {} /\ IsInjective(<<>>) /\ Len(<<>>) = 0 /\ <<>> \in Seq(Block)
    BY SetOfList, EmptyList, EmptySeq
<1>2. Fits(orphans) /\ children \in Seq(Block)
    BY <1>1, ManagerAssumption DEF Fits
<1>3. Adopted(orphans, cur, waiting, children)
    BY <1>1 DEF Adopted
<1> QED
    BY <1>2, <1>3 DEF OrphanInv, InHand

LEMMA CrashOrphans ==
    ASSUME Crash
    PROVE  OrphanInv'
<1>1. (orphans = <<>> /\ waiting = <<>> /\ children = <<>> /\ cur = NoBlock /\ pc = "seal")'
    BY DEF Crash
<1> QED
    BY <1>1, FreshOrphans, PTL

LEMMA OrphansNext ==
    ASSUME IInv, OrphanInv, Offered = {}, [Next]_vars
    PROVE  OrphanInv'
<1>1. ASSUME NEW b \in Block, SubmitBlock(b) PROVE OrphanInv'
    BY <1>1, SubmitBlockOrphans
<1>2. CASE \E b \in Block : ServeBlock(b)
    BY <1>2, QuietOrphans
<1>3. pc # "importTx"
    BY DEF OrphanInv, InHand
<1>4. CASE HandlerStep
    BY <1>3, <1>4, StoreBlockOrphans, QuietOrphans, MarkInvalidOrphans, AdoptChildOrphans,
       PopWaitingOrphans, SealDoneOrphans, TidyFilesOrphans
    DEF HandlerStep, ImportCommit, ImportFails
<1>5. CASE Crash
    BY <1>5, CrashOrphans
<1>6. CASE UNCHANGED vars
    <2>1. UNCHANGED <<orphans, waiting, children, cur, raised, status, pc>>
        BY <1>6 DEF vars, callVars, storeVars
    <2>2. InHand'
        BY <2>1 DEF OrphanInv, InHand
    <2> QED
        BY <2>1, <2>2, OrphansKept DEF Known
<1> QED
    BY <1>1, <1>2, <1>4, <1>5, <1>6 DEF Next

\* On a node that takes no chunks from peers, the orphan pool stays within its
\* limit and holds a block once and only while it is not stored; and unless an
\* exception has ended a call early, a call that stores the parent of an orphan,
\* however deep in the adoption of others, does not end before the orphan has
\* left the pool.  (An imported chunk goes past the pool: apply_chunk may store
\* a block that waits in it.)
THEOREM OrphansAreAdopted == Offered = {} => (Spec => []OrphansWait)
<1> SUFFICES ASSUME Offered = {} PROVE Spec => []OrphansWait
    OBVIOUS
<1>1. Init => IInv /\ OrphanInv
    BY InitInv, FreshOrphans DEF Init
<1>2. IInv /\ OrphanInv /\ [Next]_vars => (IInv /\ OrphanInv)'
    BY NextInv, OrphansNext
<1>3. IInv /\ OrphanInv => OrphansWait
    <2> SUFFICES ASSUME OrphanInv PROVE OrphansWait
        OBVIOUS
    <2>1. Len(orphans) <= MaxOrphans /\ \A i, j \in DOMAIN orphans : orphans[i] = orphans[j] => i = j
        BY DEF OrphanInv, Fits, IsInjective
    <2>2. ASSUME NEW i \in DOMAIN orphans
          PROVE  /\ ~Known(orphans[i])
                 /\ pc = "idle" /\ raised = "never" => ~Known(Parent[orphans[i]])
        <3>1. orphans[i] \in ToSet(orphans)
            BY DEF ToSet
        <3>2. orphans[i] \in Block /\ Parent[orphans[i]] \in Block
            BY <3>1, SetOfList, ListFacts, BlockFacts DEF OrphanInv, Fits
        <3>3. ToSet(<<>>) = {}
            BY SetOfList, EmptyList
        <3> QED
            BY <3>1, <3>2, <3>3, ManagerAssumption DEF OrphanInv, Adopted, InHand
    <2> QED
        BY <2>1, <2>2 DEF OrphansWait
<1> QED
    BY <1>1, <1>2, <1>3, PTL DEF Spec
=============================================================================
