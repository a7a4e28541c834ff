---------------------------- MODULE ChainManager ----------------------------
(***************************************************************************)
(* node/chain.py: how a node decides which blocks it has and which chain   *)
(* is active.  The node is single-threaded, so two calls never overlap;    *)
(* but a call makes several durable changes (a file, a transaction, more   *)
(* files), and the process can be killed between any two of them.  Each    *)
(* durable change is one action, and `pc` says which one comes next:       *)
(*                                                                         *)
(*   idle      waiting for a call                                          *)
(*   store     block file written, add_block's transaction not committed   *)
(*   switch    _switch_to: undo to the fork and apply the branch           *)
(*   mark      the switch rolled back; _mark_invalid                       *)
(*   seal      _seal_ready_chunks, before looking for a chunk to seal      *)
(*   sealTx    chunk file written, seal_chunk's transaction not committed  *)
(*   sealTidy  seal_chunk deletes the recent files it no longer needs      *)
(*   adopt     _adopt_orphans, between two orphans                         *)
(*   importTx  apply_chunk: chunk file saved, transaction not committed    *)
(*   tidy      deleting recent files after an import or at start-up        *)
(***************************************************************************)
EXTENDS ChainStore, Sequences, SequencesExt

CONSTANTS
    NoBlock,      \* no block is being processed (and, while sealing: start-up)
    MaxOrphans,   \* MAX_ORPHANS, standing for MAX_ORPHAN_BYTES too
    Offered,      \* last blocks of the chunks that peers may offer
    MaxCrashes    \* bound on the crashes of a behaviour

ASSUME ManagerAssumption ==
    /\ NoBlock \notin Block
    /\ MaxOrphans \in Nat /\ MaxOrphans >= 1
    /\ Offered \subseteq Block
    /\ MaxCrashes \in Nat

VARIABLES
    pc,            \* see above
    cur,           \* the block (or last block of the chunk) being processed
    orphans,       \* _orphans, oldest first
    waiting,       \* stack of _adopt_orphans
    children,      \* orphans of the entry being adopted that are still to submit
    connected,     \* SubmitResult.connected of the call under way or just ended
    disconnected,  \* SubmitResult.disconnected
    wroteFile,     \* wrote_file of apply_chunk
    doomed,        \* recent files about to be deleted
    raised,        \* "now" if the last submit_block call ended with an exception,
                   \* "before" if an earlier one did, else "never"
    crashes        \* number of crashes so far

callVars == <<cur, waiting, children, connected, disconnected, wroteFile, doomed>>
vars == <<storeVars, pc, orphans, callVars, raised, crashes>>

Steps == {"idle", "store", "switch", "mark", "seal", "sealTx", "sealTidy",
          "adopt", "importTx", "tidy"}

\* The lists of orphans are the subject of OrphansWait.
TypeOK ==
    /\ StoreTypeOK
    /\ pc \in Steps
    /\ cur \in Block \cup {NoBlock}
    /\ waiting \in Seq(Block)
    /\ connected \subseteq Block
    /\ disconnected \subseteq Block
    /\ wroteFile \in BOOLEAN
    /\ doomed \subseteq Block
    /\ raised \in {"never", "now", "before"}
    /\ crashes \in 0..MaxCrashes

-----------------------------------------------------------------------------
(* The pieces of _submit_one *)

\* _check_finality walks from `parent` down to the active chain.  It meets a
\* block whose row is gone before it can refuse: header(...) is None, and the
\* next attribute access raises.
FinalityRaises(p) ==
    \E m \in Ancestors[p] : ~Known(m) /\ Height[m] >= FinalizedHeight

\* Mutant: the finalized height is off by one.
FinalityOffByOne(p) == \E a \in Ancestors[p] \cap main : Height[a] >= FinalizedHeight - 1

\* The branch of `parent` leaves the active chain at a final block or above.
FinalityOk(p) == \E a \in Ancestors[p] \cap main : Height[a] >= FinalizedHeight

\* The block is in the database or among the orphans in `pool`.
IsDuplicate(b, pool) ==
    \/ status[b] \in {"stored", "valid"}
    \/ status[b] = "none" /\ b \in ToSet(pool)

\* The block is new, and so is its parent.
IsOrphan(b, pool) ==
    ~Known(b) /\ b \notin ToSet(pool) /\ ~Known(Parent[b])

\* The block is new, its parent is stored and not marked invalid.
Connects(b, pool) ==
    ~Known(b) /\ b \notin ToSet(pool) /\ status[Parent[b]] \in {"stored", "valid"}

\* Some check fails.  A block in Early may fail check_not_in_future.
IsRefused(b, pool) ==
    \/ status[b] = "invalid"
    \/ ~Known(b) /\ b \notin ToSet(pool) /\ status[Parent[b]] = "invalid"
    \/ IsOrphan(b, pool) /\ (b \notin Standalone \/ b \in Early)
    \/ Connects(b, pool) /\ b \in Early
    \/ /\ Connects(b, pool)
       /\ ~FinalityRaises(Parent[b])
       /\ ~FinalityOk(Parent[b]) \/ b \notin Wellformed

\* The list of the members of s that are in S, in the order they have in s; it
\* is the one element of this set.
Only(s, S) ==
    {k \in BoundedSeq(ToSet(s) \cap S, Len(s)) :
        /\ ToSet(k) = ToSet(s) \cap S
        /\ \A i, j \in DOMAIN k :
              i < j => \E m, n \in DOMAIN s : m < n /\ s[m] = k[i] /\ s[n] = k[j]}

\* Mutant: the orphans of a refused block stay.
DropNoOrphans(b, pool) == {pool}

\* _drop_orphans_of(b): the pool without the orphans above b.
DropOrphansOf(b, pool) ==
    LET above == {o \in ToSet(pool) : o # b /\ b \in Ancestors[o]}
        reached == {o \in above : \A x \in Ancestors[o] :
                                     b \in Ancestors[x] /\ x # b => x \in above}
    IN  Only(pool, Block \ reached)

\* _hold_orphan: the oldest leave when the pool is full.
HoldOrphan(b, pool) ==
    Append(IF Len(pool) >= MaxOrphans THEN Tail(pool) ELSE pool, b)

\* Where a call goes on when a block is dealt with: more orphans, or the end.
NextStep(ws, cs) == IF ws = <<>> /\ cs = <<>> THEN "idle" ELSE "adopt"

\* The end of _submit_one for the block under way, with the orphans, the
\* stack and the children that are left.
Answer(pool, ws, cs) ==
    /\ orphans' = pool
    /\ waiting' = ws
    /\ children' = cs
    /\ pc' = NextStep(ws, cs)
    /\ cur' = NoBlock

\* The last call is an earlier one once another begins.
Earlier == IF raised = "now" THEN "before" ELSE raised

\* DUPLICATE, INVALID and ORPHAN outcomes change nothing that is stored.
SubmitOneWithoutStoring(b, pool, cs) ==
    /\ \/ IsDuplicate(b, pool) /\ Answer(pool, waiting, cs)
       \/ IsRefused(b, pool) /\ \E kept \in DropOrphansOf(b, pool) : Answer(kept, waiting, cs)
       \/ IsOrphan(b, pool) /\ b \in Standalone
             /\ Answer(HoldOrphan(b, pool), waiting, cs)
    /\ raised' = Earlier
    /\ UNCHANGED storeVars

\* The exception of _check_finality ends the whole submit_block call.
SubmitOneRaises(b, pool) ==
    /\ Connects(b, pool) /\ FinalityRaises(Parent[b])
    /\ orphans' = pool
    /\ waiting' = <<>> /\ children' = <<>>
    /\ pc' = "idle" /\ cur' = NoBlock
    /\ raised' = "now"
    /\ UNCHANGED storeVars

\* Every check passes; add_block writes the block's file first.
SubmitOneStores(b, pool, cs) ==
    /\ Connects(b, pool)
    /\ ~FinalityRaises(Parent[b]) /\ FinalityOk(Parent[b]) /\ b \in Wellformed
    /\ recent' = recent \cup {b}
    /\ orphans' = pool
    /\ children' = cs
    /\ pc' = "store" /\ cur' = b
    /\ raised' = Earlier
    /\ UNCHANGED <<status, chunked, main, sealed, chunkFiles, segments, waiting>>

-----------------------------------------------------------------------------
(* submit_block *)

\* submit_block(b): called by a peer's message handler or by the miner.
SubmitBlock(b) ==
    /\ pc = "idle"
    /\ \/ SubmitOneWithoutStoring(b, orphans, <<>>)
       \/ SubmitOneRaises(b, orphans)
       \/ SubmitOneStores(b, orphans, <<>>)
    /\ connected' = {} /\ disconnected' = {}
    /\ UNCHANGED <<wroteFile, doomed, crashes>>

\* Mutant: only a block on the tip is tried.
ExtendsTip(b) == Parent[b] = Tip /\ ChainWork[b] > ChainWork[Tip]

\* The branch of b outweighs the active chain.
HasMoreWork(b) == ChainWork[b] > ChainWork[Tip]

\* The row is committed; a branch with more work than the active chain wins.
StoreBlock ==
    /\ pc = "store"
    /\ status' = [status EXCEPT ![cur] = "stored"]
    /\ IF HasMoreWork(cur)
       THEN /\ pc' = "switch"
            /\ UNCHANGED <<cur, orphans, waiting, children>>
       ELSE Answer(orphans, Append(waiting, cur), children)
    /\ UNCHANGED <<chunked, main, sealed, recent, chunkFiles, segments,
                   connected, disconnected, wroteFile, doomed, raised, crashes>>

\* The blocks of b's chain that are not on the active chain.
Branch(b) == Ancestors[b] \ main

\* Mutant: the loop that undoes blocks stops one block early.
UndoneButOne(b) == {m \in main : \A a \in Ancestors[b] \cap main : Height[m] > Height[a] + 1}

\* The blocks of the active chain above the fork with b's chain.
Undone(b) == {m \in main : \A a \in Ancestors[b] \cap main : Height[m] > Height[a]}

\* Heights of the rewards that mature while the blocks of bs are applied, as
\* far as they are read from chunk files; `located` are the blocks whose rows
\* point into one.
DueHeights(bs, located) ==
    {Height[a] : a \in {x \in located : \E b \in bs : /\ x \in Ancestors[b]
                                                      /\ Height[b] - CoinbaseMaturity = Height[x]}}

\* The blocks of bs that are tried: all below the first that is not accepted, and it.
Tried(bs) == {b \in bs : Parent[b] \in Accepts}

\* _switch_to, one transaction: undo the blocks above the fork, apply the branch.
SwitchApplies ==
    /\ main' = (main \ Undone(cur)) \cup Branch(cur)
    /\ status' = [b \in Block |-> IF b \in Branch(cur) THEN "valid" ELSE status[b]]
    /\ segments' = Unpacked(chunkFiles, DueHeights(Branch(cur), chunked))
    /\ connected' = connected \cup Branch(cur)
    /\ disconnected' = disconnected \cup Undone(cur)
    /\ pc' = "seal"
    /\ UNCHANGED <<chunked, sealed, recent, chunkFiles, cur, orphans, waiting, children,
                   wroteFile, doomed, raised, crashes>>

\* Every block of the branch is accepted.
Switch == pc = "switch" /\ Branch(cur) \subseteq Accepts /\ SwitchApplies

\* A block of the branch is not accepted: the transaction rolls back.
SwitchFails ==
    /\ pc = "switch"
    /\ ~(Branch(cur) \subseteq Accepts)
    /\ segments' = Unpacked(chunkFiles, DueHeights(Tried(Branch(cur)), chunked))
    /\ pc' = "mark"
    /\ UNCHANGED <<status, chunked, main, sealed, recent, chunkFiles, orphans, callVars,
                   raised, crashes>>

\* Mutant: the blocks above the one that failed are forgotten.
OnlyItself(b) == {b}

\* b and the stored blocks above it, each reached from its parent (Store.children).
StoredAbove(b) ==
    {d \in Block : /\ b \in Ancestors[d]
                   /\ \A x \in Ancestors[d] : b \in Ancestors[x] => Known(x)}

\* _mark_invalid of the block that failed; the submitted block is INVALID.
MarkInvalid ==
    /\ pc = "mark"
    /\ \E failed \in Tried(Branch(cur)) \ Accepts :
          status' = [b \in Block |-> IF b \in StoredAbove(failed) THEN "invalid" ELSE status[b]]
    /\ \E kept \in DropOrphansOf(cur, orphans) : Answer(kept, waiting, children)
    /\ UNCHANGED <<chunked, main, sealed, recent, chunkFiles, segments,
                   connected, disconnected, wroteFile, doomed, raised, crashes>>

-----------------------------------------------------------------------------
(* _adopt_orphans *)

\* The next child is taken out of the pool and submitted.
AdoptChild ==
    /\ pc = "adopt" /\ children # <<>>
    /\ \E b \in Block :
          /\ b = Head(children)
          /\ \E pool \in Only(orphans, Block \ {b}) :
                 \/ /\ SubmitOneWithoutStoring(b, pool, Tail(children))
                    /\ UNCHANGED <<connected, disconnected>>
                 \/ /\ SubmitOneRaises(b, pool)
                    /\ connected' = {} /\ disconnected' = {}
                 \/ /\ SubmitOneStores(b, pool, Tail(children))
                    /\ UNCHANGED <<connected, disconnected>>
    /\ UNCHANGED <<wroteFile, doomed, crashes>>

\* The next stored block is taken from the stack and its orphans are collected.
PopWaiting ==
    /\ pc = "adopt" /\ children = <<>>
    /\ \E mine \in Only(orphans, {o \in Block : Parent[o] = Last(waiting)}) :
          Answer(orphans, Front(waiting), mine)
    /\ UNCHANGED <<storeVars, connected, disconnected, wroteFile, doomed, raised, crashes>>

-----------------------------------------------------------------------------
(* _seal_ready_chunks and Store.seal_chunk *)

ChunkReady == NextChunkEnd <= TipHeight - FinalityDepth

\* Mutant: the first block of the chunk is left out.
ChunkBlocksButFirst ==
    {b \in main : SealedHeight + 1 < Height[b] /\ Height[b] <= NextChunkEnd}

\* The blocks of the active chain in the next chunk, and the losing ones.
ChunkBlocks == {b \in main : SealedHeight < Height[b] /\ Height[b] <= NextChunkEnd}
Losers == {b \in Block \ main : /\ Known(b)
                                /\ SealedHeight < Height[b] /\ Height[b] <= NextChunkEnd}

\* Mutant: the recent files are deleted before the rows point into the chunk.
SealFileAndTidy ==
    /\ pc = "seal" /\ ChunkReady
    /\ \E c \in ChunkBlocks : Height[c] = NextChunkEnd /\ chunkFiles' = Overwrite(c)
    /\ recent' = recent \ ChunkBlocks
    /\ pc' = "sealTx"
    /\ UNCHANGED <<status, chunked, main, sealed, segments, orphans, callVars, raised, crashes>>

\* write_chunk: the file is (re)written, whatever an earlier run left there.
SealFile ==
    /\ pc = "seal" /\ ChunkReady
    /\ \E c \in ChunkBlocks : Height[c] = NextChunkEnd /\ chunkFiles' = Overwrite(c)
    /\ pc' = "sealTx"
    /\ UNCHANGED <<status, chunked, main, sealed, recent, segments, orphans, callVars,
                   raised, crashes>>

\* Rows point into the chunk, losing rows go, the chunk counts as sealed.
SealCommit ==
    /\ pc = "sealTx"
    /\ chunked' = (chunked \cup ChunkBlocks) \ Losers
    /\ status' = [b \in Block |-> IF b \in Losers THEN "none" ELSE status[b]]
    /\ sealed' = sealed + 1
    /\ doomed' = ChunkBlocks \cup Losers
    /\ pc' = "sealTidy"
    /\ UNCHANGED <<main, recent, chunkFiles, segments, cur, orphans, waiting, children,
                   connected, disconnected, wroteFile, raised, crashes>>

\* Mutant: the last sealed height is left out.
StaleFilesBelow == {b \in recent : Height[b] < SealedHeight /\ (~Known(b) \/ b \in chunked)}

\* Mutant: every file without a row is taken for a leftover.
StaleFilesAnyHeight == {b \in recent : ~Known(b) \/ b \in chunked}

\* tidy_recent_files: files that a crash left behind while sealing.
StaleFiles == {b \in recent : Height[b] <= SealedHeight /\ (~Known(b) \/ b \in chunked)}

\* Mutant: a start-up is taken for a submission.
SealDoneAlwaysAnswers ==
    /\ pc = "seal" /\ ~ChunkReady
    /\ Answer(orphans, Append(waiting, cur), children)
    /\ UNCHANGED <<storeVars, connected, disconnected, wroteFile, doomed, raised, crashes>>

\* Nothing (more) to seal: a start-up goes on to tidy up, a submission is a NEW_TIP.
SealDone ==
    /\ pc = "seal" /\ ~ChunkReady
    /\ IF cur = NoBlock
       THEN /\ doomed' = StaleFiles
            /\ pc' = "tidy"
            /\ UNCHANGED <<cur, orphans, waiting, children>>
       ELSE /\ Answer(orphans, Append(waiting, cur), children)
            /\ UNCHANGED doomed
    /\ UNCHANGED <<storeVars, connected, disconnected, wroteFile, raised, crashes>>

\* delete_recent, file by file (a crash may leave some behind).
TidyFiles ==
    /\ pc \in {"sealTidy", "tidy"}
    /\ recent' = recent \ doomed
    /\ doomed' = {}
    /\ IF pc = "sealTidy"
       THEN pc' = "seal" /\ UNCHANGED cur
       ELSE pc' = "idle" /\ cur' = NoBlock
    /\ UNCHANGED <<status, chunked, main, sealed, chunkFiles, segments, orphans, waiting,
                   children, connected, disconnected, wroteFile, raised, crashes>>

-----------------------------------------------------------------------------
(* apply_chunk *)

\* check_chunk_file: a full chunk of linked blocks, each with its proof of work.
CheckedChunk(c) == Height[c] >= ChunkSize - 1 /\ Chunk(c) \subseteq Mined

\* A checked chunk with the next index is saved, unless a file has its name already.
ImportChunk(c) ==
    /\ pc = "idle"
    /\ CheckedChunk(c) /\ Height[c] = NextChunkEnd
    /\ wroteFile' = ~\E x \in chunkFiles : Height[x] = Height[c]
    /\ chunkFiles' = IF wroteFile' THEN Overwrite(c) ELSE chunkFiles
    /\ pc' = "importTx" /\ cur' = c
    /\ connected' = {} /\ disconnected' = {}
    /\ UNCHANGED <<status, chunked, main, sealed, recent, segments, orphans, waiting,
                   children, doomed, raised, crashes>>

\* The blocks of the chunk that are not on the active chain follow its tip.
Continues(c) == Chunk(c) \subseteq main \/ \E b \in Chunk(c) \ main : Parent[b] = Tip

\* Heights read from chunk files while the blocks of bs are applied: rows of
\* the chunk's own blocks already point into the new file.
ImportReads(bs) == DueHeights(bs, chunked \cup Chunk(cur))

\* One transaction: apply the new blocks, point the rows into the chunk file.
ImportApplies ==
    /\ Continues(cur)
    /\ LET added == Chunk(cur) \ main
       IN  /\ status' = [b \in Block |-> IF b \in added THEN "valid" ELSE status[b]]
           /\ main' = main \cup added
           /\ segments' = Unpacked(chunkFiles, ImportReads(added))
           /\ connected' = added
    /\ chunked' = chunked \cup Chunk(cur)
    /\ sealed' = sealed + 1
    /\ doomed' = Chunk(cur)
    /\ pc' = "tidy"
    /\ UNCHANGED <<recent, chunkFiles, cur, orphans, waiting, children, disconnected,
                   wroteFile, raised, crashes>>

\* Every block of the chunk is accepted.
ImportCommit == pc = "importTx" /\ Chunk(cur) \subseteq Accepts /\ ImportApplies

\* Mutant: the file of a chunk that failed stays.
ImportFailsQuietly ==
    /\ pc = "importTx"
    /\ ~(Continues(cur) /\ Chunk(cur) \subseteq Accepts)
    /\ pc' = "idle" /\ cur' = NoBlock
    /\ UNCHANGED <<storeVars, orphans, waiting, children, connected, disconnected, wroteFile,
                   doomed, raised, crashes>>

\* A ValidationError: everything rolls back and the file goes if it was ours.
ImportFails ==
    /\ pc = "importTx"
    /\ ~(Continues(cur) /\ Chunk(cur) \subseteq Accepts)
    /\ segments' = IF Continues(cur)
                   THEN Unpacked(chunkFiles, ImportReads(Tried(Chunk(cur) \ main)))
                   ELSE segments
    /\ chunkFiles' = IF wroteFile THEN chunkFiles \ {cur} ELSE chunkFiles
    /\ pc' = "idle" /\ cur' = NoBlock
    /\ UNCHANGED <<status, chunked, main, sealed, recent, orphans, waiting, children,
                   connected, disconnected, wroteFile, doomed, raised, crashes>>

-----------------------------------------------------------------------------
(* Reading on behalf of peers and wallets, and the end of the process *)

\* block_bytes of a sealed block fills the segment cache.
ServeBlock(b) ==
    /\ pc = "idle" /\ b \in chunked /\ Known(b)
    /\ segments' = Unpacked(chunkFiles, {Height[b]})
    /\ UNCHANGED <<status, chunked, main, sealed, recent, chunkFiles, pc, orphans, callVars,
                   raised, crashes>>

\* The process is killed and started again.  An open transaction is gone, the
\* memory is gone, and some of the files being deleted may still be there;
\* _init_genesis then seals what is ready and tidies up.
Crash ==
    /\ crashes < MaxCrashes
    /\ crashes' = crashes + 1
    /\ \E gone \in SUBSET doomed : recent' = recent \ gone
    /\ segments' = {}
    /\ pc' = "seal" /\ cur' = NoBlock
    /\ orphans' = <<>> /\ waiting' = <<>> /\ children' = <<>>
    /\ connected' = {} /\ disconnected' = {}
    /\ wroteFile' = FALSE /\ doomed' = {}
    /\ UNCHANGED <<status, chunked, main, sealed, chunkFiles, raised>>

-----------------------------------------------------------------------------
Init ==
    /\ StoreInit
    /\ pc = "seal" /\ cur = NoBlock
    /\ orphans = <<>> /\ waiting = <<>> /\ children = <<>>
    /\ connected = {} /\ disconnected = {}
    /\ wroteFile = FALSE /\ doomed = {}
    /\ raised = "never" /\ crashes = 0

\* A call, once begun, runs on by itself.
HandlerStep ==
    \/ StoreBlock \/ Switch \/ SwitchFails \/ MarkInvalid
    \/ AdoptChild \/ PopWaiting
    \/ SealFile \/ SealCommit \/ SealDone \/ TidyFiles
    \/ ImportCommit \/ ImportFails

Next ==
    \/ \E b \in Block : SubmitBlock(b)
    \/ \E c \in Offered : ImportChunk(c)
    \/ \E b \in Block : ServeBlock(b)
    \/ HandlerStep
    \/ Crash

Spec == Init /\ [][Next]_vars /\ WF_vars(HandlerStep)

-----------------------------------------------------------------------------
(* Properties *)

\* The rows of main_chain are one unbroken branch from the genesis block to the
\* tip, and every block on it was applied (_connect): a switch that fails half
\* way, an orphan adopted in between or a chunk that forks never leaves a gap,
\* two blocks of one height, or an unapplied block on the active chain.
MainIsBranch ==
    /\ Tip \in main
    /\ main = Ancestors[Tip]
    /\ \A b \in main : status[b] = "valid"

\* Between calls, and as long as the process was never killed, no stored block
\* that is not marked invalid has more work than the tip: the node is on the
\* best chain it knows (_submit_one switches at once, _mark_invalid removes
\* every block of a branch that failed).
BestChain ==
    pc = "idle" /\ crashes = 0 =>
        \A b \in Block : status[b] \in {"stored", "valid"} => ChainWork[b] <= ChainWork[Tip]

\* A switch only undoes blocks above the finalized height of the moment, so
\* never more than finality_depth blocks and never a sealed one (_check_finality).
UndoBounded == [][\A b \in main \ main' : Height[b] > FinalizedHeight]_vars

\* Marking is exact, also after crashes: only blocks that cannot be applied are
\* marked invalid, and no stored child of one is ever left unmarked.
InvalidExact ==
    \A b \in Block :
        /\ status[b] = "invalid" => b \notin Accepts
        /\ Known(b) /\ status[Parent[b]] = "invalid" => status[b] = "invalid"

\* Every row of the database leads to the bytes of its own block, at every
\* moment a crash can come (block_bytes; files are written before a row needs
\* them and deleted after the last row that does is gone).
StoredReadable == \A b \in Block : Known(b) => Readable(b)

\* With chunks of peers that rival each other, until the first crash (a file that
\* a crash in apply_chunk leaves may be taken for another chunk's): the file of
\* every row holds its own block, however imports and sealing alternate and fail;
\* and block_bytes returns it, unless delete_chunk has removed the file of a chunk
\* that failed and left the segments read from it.
ReadableBeforeCrash ==
    crashes = 0 =>
        \A b \in Block : Known(b) => /\ HasFile(b)
                                     /\ ~StaleSegment(Height[b]) => Readable(b)

\* The sealed heights are exactly the heights of the active chain whose rows
\* point into chunk files, and the active chain reaches that far.
SealedOnMain ==
    /\ SealedHeight <= TipHeight
    /\ \A b \in main : b \in chunked <=> Height[b] <= SealedHeight

\* Between calls no recent file repeats a block that is in a chunk, even when
\* a crash interrupted the deletion (seal_chunk, apply_chunk, tidy_recent_files).
NoFileTwice == pc = "idle" => \A b \in recent : ~(Known(b) /\ b \in chunked)

\* The orphan pool stays within its limit, holds a block once, and never one
\* that is stored as well.  Between calls the parent of an orphan is not
\* stored either: an orphan is "held until the parent arrives"
\* (Outcome.ORPHAN).  An exception ends the adoption early and is excepted.
OrphansWait ==
    /\ Len(orphans) <= MaxOrphans
    /\ \A i, j \in DOMAIN orphans : orphans[i] = orphans[j] => i = j
    /\ \A i \in DOMAIN orphans :
          /\ ~Known(orphans[i])
          /\ pc = "idle" /\ raised = "never" => ~Known(Parent[orphans[i]])

\* What a call has established by the time it reaches a step: the block being
\* added forks off the active chain at or above the finalized height, over
\* blocks that are all stored; a switch is only tried for more work; sealing and
\* importing take the chunk that is next.
CallInv ==
    /\ pc \in {"store", "switch", "mark"} =>
          /\ cur \in Block
          /\ FinalityOk(cur)
          /\ \A x \in Ancestors[cur] \ {cur} : Known(x)
    /\ pc = "store" => status[cur] = "none" /\ status[Parent[cur]] # "invalid"
    /\ pc \in {"switch", "mark"} => Known(cur) /\ ChainWork[cur] > ChainWork[Tip]
    /\ pc = "sealTx" => ChunkReady
    /\ pc = "importTx" => cur \in Block /\ Height[cur] = NextChunkEnd

\* Until the first crash, the only stored block that can outweigh the tip is the
\* one a switch is being tried for.
WorkInv ==
    crashes = 0 =>
        \A b \in Block : /\ status[b] \in {"stored", "valid"}
                         /\ ChainWork[b] > ChainWork[Tip]
                         => pc \in {"switch", "mark"} /\ b = cur

\* The stored chain, whatever step a call is at.
ChainInv ==
    /\ MainIsBranch
    /\ Genesis \in main /\ main \subseteq Accepts /\ chunked \subseteq main
    /\ SealedOnMain
    /\ InvalidExact

\* The inductive invariant: every property above that is an invariant of the
\* specification and is proved follows from it.
IInv == TypeOK /\ ChainInv /\ CallInv /\ WorkInv

\* "Never raises for bad blocks" (submit_block).
SubmitNeverRaises == raised = "never"

-----------------------------------------------------------------------------
(* Convergence.  If the peers keep sending every block, however often the  *)
(* node has refused, dropped or already seen it, the node ends on the best *)
(* valid chain.                                                            *)

FairSpec == Spec /\ \A b \in Block : SF_vars(SubmitBlock(b))

\* Every call ends, and the node settles on a tip that no acceptable block outweighs, except on
\* branches that finality has ruled out, although orphans are dropped when the
\* pool is full, invalid branches are tried and sealing deletes losing branches.
Converges ==
    /\ []<>(pc = "idle")
    /\ <>[](\A b \in Accepts : FinalityOk(b) => ChainWork[b] <= ChainWork[Tip])
=============================================================================
