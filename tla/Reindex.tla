------------------------------ MODULE Reindex ------------------------------
(***************************************************************************)
(* node/reindex.py: `tc node --reindex` throws the database away and       *)
(* replays the block files with the calls of ChainManager, first the chunk *)
(* files in the order of their indexes, then the recent files, lowest      *)
(* first.  It runs in the node's place, and the node starts when it ends.  *)
(* The files it finds are whatever the last process, killed at any moment, *)
(* has left; it can be killed itself, and the next start then takes the    *)
(* half-built database for a normal one.                                   *)
(***************************************************************************)
EXTENDS ChainManager

CONSTANT MaxReindexes    \* bound on the reindexes of a behaviour

ASSUME ReindexAssumption == MaxReindexes \in Nat

VARIABLES
    stage,     \* "off", what reindex is reading ("chunks", "files"), or "failed"
    pending,   \* recent files it has listed and not read yet
    was,       \* the tip and the sealed blocks of the database thrown away
    reindexes  \* number of reindexes so far

reindexVars == <<stage, pending, was, reindexes>>
allVars == <<vars, reindexVars>>

\* A process that has just started: ChainManager.__init__ comes next, which
\* seals and tidies what is left to do.
FreshProcess ==
    /\ segments' = {}
    /\ pc' = "seal" /\ cur' = NoBlock
    /\ orphans' = <<>> /\ waiting' = <<>> /\ children' = <<>>
    /\ connected' = {} /\ disconnected' = {}
    /\ wroteFile' = FALSE /\ doomed' = {}

-----------------------------------------------------------------------------
\* The node is killed and started again with --reindex: the database is
\* deleted, and _init_genesis stores the genesis block in the new one.
ReindexBegin ==
    /\ stage = "off" /\ reindexes < MaxReindexes
    /\ reindexes' = reindexes + 1
    /\ was' = [tip |-> Tip, final |-> {b \in main : Height[b] <= SealedHeight}]
    /\ \E gone \in SUBSET doomed : recent' = (recent \ gone) \cup {Genesis}
    /\ status' = [b \in Block |-> IF b = Genesis THEN "valid" ELSE "none"]
    /\ chunked' = {} /\ main' = {Genesis} /\ sealed' = 0
    /\ raised' = "never"
    /\ FreshProcess
    /\ stage' = "chunks"
    /\ UNCHANGED <<chunkFiles, crashes, pending>>

\* The next chunk file is imported.
ReindexChunk ==
    /\ stage = "chunks" /\ pc = "idle"
    /\ \E c \in chunkFiles : Height[c] = NextChunkEnd /\ ImportChunk(c)
    /\ UNCHANGED reindexVars

\* The last chunk file is done, or the next index is missing: the recent files
\* are listed.
ReindexList ==
    /\ stage = "chunks" /\ pc = "idle"
    /\ ~\E c \in chunkFiles : Height[c] = NextChunkEnd
    /\ pending' = recent
    /\ stage' = "files"
    /\ UNCHANGED <<vars, was, reindexes>>

\* Mutant: the files are read in any order.
AnyFile == pending

\* The files sorted() puts first: the lowest height, in any order of block ids.
NextFile == {b \in pending : \A o \in pending : Height[b] <= Height[o]}

\* The genesis block and blocks of the rebuilt chain are skipped, any other
\* block is read from its file and submitted.  An exception ends reindex.
ReindexFile ==
    /\ stage = "files" /\ pc = "idle"
    /\ \E b \in NextFile :
          /\ pending' = pending \ {b}
          /\ \/ (b = Genesis \/ b \in main) /\ UNCHANGED vars
             \/ b # Genesis /\ b \notin main /\ SubmitBlock(b)
    /\ stage' = IF raised' = "now" THEN "failed" ELSE stage
    /\ UNCHANGED <<was, reindexes>>

\* The last file is read, or an exception has ended the process: the store is
\* closed, and the node is started.
ReindexEnd ==
    /\ pc = "idle"
    /\ (stage = "files" /\ pending = {}) \/ stage = "failed"
    /\ stage' = "off" /\ pending' = {}
    /\ FreshProcess
    /\ UNCHANGED <<status, chunked, main, sealed, recent, chunkFiles, raised, crashes,
                   was, reindexes>>

-----------------------------------------------------------------------------
(* ChainManager's own actions *)

\* Peers reach the node only while it runs.
NodeStep ==
    /\ stage = "off"
    /\ \/ \E b \in Block : SubmitBlock(b)
       \/ \E c \in Offered : ImportChunk(c)
       \/ \E b \in Block : ServeBlock(b)
    /\ UNCHANGED reindexVars

\* A call goes on.  A chunk file that is refused, or an orphan whose submission
\* raises, ends reindex with an exception.
CallStep ==
    /\ HandlerStep
    /\ stage' = IF stage # "off" /\ (raised' = "now" \/ (pc = "importTx" /\ pc' = "idle"))
                THEN "failed" ELSE stage
    /\ UNCHANGED <<pending, was, reindexes>>

\* The process is killed; the next start is without --reindex.
Kill ==
    /\ Crash
    /\ stage' = "off" /\ pending' = {}
    /\ UNCHANGED <<was, reindexes>>

ReindexInit ==
    /\ Init
    /\ stage = "off" /\ pending = {} /\ was = [tip |-> Genesis, final |-> {}]
    /\ reindexes = 0

ReindexNext ==
    \/ NodeStep \/ CallStep \/ Kill
    \/ ReindexBegin \/ ReindexChunk \/ ReindexList \/ ReindexFile \/ ReindexEnd

ReindexSpec == ReindexInit /\ [][ReindexNext]_allVars

-----------------------------------------------------------------------------
(* Properties *)

\* Between calls and after every crash, each row leads to the bytes of its own
\* block, and no block is kept in a file of its own and in a chunk (seal_chunk,
\* tidy_recent_files, reindex).
FilesMatchRows == StoredReadable /\ NoFileTwice

\* A reindex that runs to its end gives back a chain of at least the work the
\* old database had, and no block that was sealed is left off it, whatever
\* state the files were in when the node was killed (reindex).
RebuildKeeps ==
    [][stage = "files" /\ stage' = "off" /\ crashes' = crashes =>
          /\ ChainWork[Tip] >= ChainWork[was.tip]
          /\ was.final \subseteq main]_allVars

\* Block b is in a file, whatever the database says.
OnDisk(b) == b \in recent \/ \E c \in chunkFiles : b \in Chunk(c)

\* While reindex runs, the files still hold a chain of at least the work the
\* old database had, and every block that was sealed: killing it and starting
\* it again can lose nothing.  And every file it has listed is still there when
\* its turn comes, although submitting the files before it deletes files.
NothingLost ==
    stage # "off" =>
        /\ stage = "files" => pending \subseteq recent
        /\ \A b \in was.final : OnDisk(b)
        /\ \E t \in Accepts : /\ ChainWork[t] >= ChainWork[was.tip]
                              /\ \A b \in Ancestors[t] : OnDisk(b)
=============================================================================
