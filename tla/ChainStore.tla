----------------------------- MODULE ChainStore -----------------------------
(***************************************************************************)
(* What a node keeps: the SQLite tables of node/store.py (durable, changed *)
(* only by whole transactions) and the block files of node/blockfiles.py   *)
(* (durable, changed one file at a time and outside any transaction), with *)
(* the in-memory cache of unpacked chunk segments.                         *)
(*                                                                         *)
(* A chunk file is named by its index, and holds the ChunkSize blocks of   *)
(* one index; it is represented by its last block, whose height gives the  *)
(* index and whose ancestors give the contents.                            *)
(***************************************************************************)
EXTENDS BlockTree

CONSTANTS
    ChunkSize,          \* params.chunk_size
    FinalityDepth,      \* params.finality_depth
    CoinbaseMaturity    \* params.coinbase_maturity

\* NetworkParams.__post_init__ demands a chunk of two blocks or more.
ASSUME ParamsAssumption ==
    /\ ChunkSize \in Nat /\ ChunkSize >= 2
    /\ FinalityDepth \in Nat
    /\ CoinbaseMaturity \in Nat /\ CoinbaseMaturity >= 1

VARIABLES
    status,      \* headers.status of every block; "none": no row
    chunked,     \* blocks whose headers row points into a chunk file
    main,        \* the blocks of main_chain
    sealed,      \* meta "sealed_chunks"
    recent,      \* blocks with a file under blocks/recent
    chunkFiles,  \* last blocks of the files under blocks/chunks
    segments     \* last blocks of the chunk files unpacked in BlockFiles._segments

storeVars == <<status, chunked, main, sealed, recent, chunkFiles, segments>>

Statuses == {"none", "stored", "valid", "invalid"}

StoreTypeOK ==
    /\ status \in [Block -> Statuses]
    /\ chunked \subseteq Block
    /\ main \subseteq Block
    /\ sealed \in Nat
    /\ recent \subseteq Block
    /\ chunkFiles \subseteq Block
    /\ segments \subseteq Block

-----------------------------------------------------------------------------
(* Reading *)

\* Store.header(b) is not None.
Known(b) == status[b] # "none"

\* The highest block of main_chain (Store.tip_height, ChainManager.tip).
Tip == CHOOSE t \in main : \A b \in main : Height[b] <= Height[t]

TipHeight == Height[Tip]

SealedHeight == sealed * ChunkSize - 1

\* max(0, tip - finality_depth, sealed height).
FinalizedHeight ==
    LET deep == IF TipHeight > FinalityDepth THEN TipHeight - FinalityDepth ELSE 0
    IN  IF SealedHeight > deep THEN SealedHeight ELSE deep

\* Height of the last block of the chunk to be sealed or imported next.
NextChunkEnd == SealedHeight + ChunkSize

\* The blocks in the chunk file that ends with block c.
Chunk(c) == {a \in Ancestors[c] : Height[a] > Height[c] - ChunkSize}

\* Chunk file c has the index a block of height h belongs to.
Covers(c, h) == Height[c] - ChunkSize < h /\ h <= Height[c]

\* The chunk file read_from_chunk takes a block of height h from: a segment
\* already unpacked under that index wins over the file on disk.
ChunkSource(h) ==
    LET cached == {c \in segments : Covers(c, h)}
    IN  IF cached # {} THEN cached ELSE {c \in chunkFiles : Covers(c, h)}

\* Store.block_bytes(b) finds a file and the bytes found are b's own.
Readable(b) == IF b \in chunked
               THEN \E c \in ChunkSource(Height[b]) : b \in Chunk(c)
               ELSE b \in recent

\* The file that b's row leads to holds b's own bytes.
HasFile(b) == IF b \in chunked
              THEN \E c \in chunkFiles : Covers(c, Height[b]) /\ b \in Chunk(c)
              ELSE b \in recent

\* A segment under the index of height h has outlived the file it came from.
StaleSegment(h) == \E c \in segments \ chunkFiles : Covers(c, h)

\* The segment cache after reading blocks at the heights hs from chunk files.
\* Its 64 entries are never exceeded here, so nothing is evicted.
Unpacked(files, hs) ==
    segments \cup {c \in files : \E h \in hs : Covers(c, h)
                                    /\ ~\E s \in segments : Covers(s, h)}

\* A chunk file replaces the one with the same index (_write: os.replace).
Overwrite(c) == {x \in chunkFiles : Height[x] # Height[c]} \cup {c}

-----------------------------------------------------------------------------
(* The database and files of a new node: _init_genesis has stored the      *)
(* genesis block.                                                          *)
StoreInit ==
    /\ status = [b \in Block |-> IF b = Genesis THEN "valid" ELSE "none"]
    /\ chunked = {}
    /\ main = {Genesis}
    /\ sealed = 0
    /\ recent = {Genesis}
    /\ chunkFiles = {}
    /\ segments = {}
=============================================================================
