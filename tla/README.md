# TalCash in TLA+

A verification project for the TalCash node: TLA+ models of how a node stores
blocks, chooses its chain, rebuilds it from its files, keeps balances and its mempool, finds
and catches up from its peers, mines, and lets clients in, and of the wallet's file, checked
with TLC on small instances; and machine-checked proofs (TLAPS) that the chain manager, the
mempool's eviction, catching up, the tables of connections, the miner, the API's limits and
streams and the wallet file are correct for every block tree, any number of peers and clients
and every setting of their parameters.

Paths below are relative to `src/talcash/` unless they say otherwise.

## 1. The system

### Components

| component | state it keeps | operations | status |
|---|---|---|---|
| Chain manager `node/chain.py` | orphan pool, the ids with checked proof of work; everything else is in the store | `submit_block`, `apply_chunk`, start-up (`_init_genesis`) | modelled |
| Store `node/store.py` | tables `headers`, `main_chain`, `accounts`, `undo`, `snapshots`, `tx_index`, `address_index`, `meta` | transactions, `add_block`, `seal_chunk`, `tidy_recent_files`, readers | modelled |
| Block files `node/blockfiles.py` | one file per recent block, one per sealed chunk, caches | atomic write, delete, read | partly |
| Ledger rules `core/state.py`, `core/snapshot.py` | none (pure) | `apply_block`, `state_root`, the snapshot schedule | modelled |
| Block and header rules `core/block.py`, `core/params.py`, `core/genesis.py` | none | `check_block`, header rules | as constants of a block |
| Mempool `node/mempool.py` | waiting transfers by id, sender, receiver; eviction heap | `add`, `update`, `expire`, `select` | modelled |
| Node service `node/service.py`, `node/template.py` | `tip_version`, listeners, events | `submit_block`, `import_chunk`, `submit_transaction`, `template` | partly |
| Reindex `node/reindex.py` | none | rebuild the database from the files | modelled |
| Peer-to-peer `node/p2p.py` | peers, bans, addresses, one catch-up at a time | handlers of nine messages, background checks, stall timer; dialing, handshakes, bans, the file of addresses | catching up modelled, connections partly |
| Mining `miner/engine.py`, `node/server.py` | job number shared with worker processes | `mine`, `wait`, `pause`, `close`, the worker process, `mining_loop` | modelled |
| Rate limits `node/limits.py` | a token bucket for each address | `try_take`, the body limit | partly |
| Events `node/events.py` | subscriptions by topic, a bounded queue for each | `add_topics`, `publish`, `deliver`, `unsubscribe` | modelled |
| HTTP API `node/api.py` | open WebSocket connections for each address | request guard, WebSocket handler, routes | guard and WebSocket modelled |
| Wallet `wallet/` | encrypted file | create, `load`, `save`, `new_address`, `discover` | file and addresses modelled |
| Difficulty, proof of work, encoding, keys, other HTTP routes, command line | | | not modelled (section 7) |

### How they interact

The node is one process with one event loop. A message from a peer, a call of the
HTTP API or a mined block ends in `NodeService.submit_block` or `import_chunk`; that
calls the chain manager, which changes store and files, and hands the lists of
connected and disconnected blocks to `Mempool.update`. Then listeners announce the
new tip to peers. No `await` lies inside such a call, so calls do not interleave with
each other. What makes the system hard is elsewhere:

* **Crashes.** One call makes several durable changes: files are written outside the
  database's transactions, and a submission uses up to four transactions. The process
  can be killed between any two.
* **Order.** Blocks arrive in any order, on any branch, valid or not; chunks of blocks
  arrive next to single blocks; a branch can win, lose and win again.
* **Long call sequences.** Undo data, snapshots and the eviction heap are kept up
  incrementally over all of that.
* **Bounds.** The orphan pool and the mempool throw entries away while they are needed.
* **Background work** (peer-to-peer and mining): header and chunk checks run in
  threads, nonces are searched by other processes, and results come back into a state that
  has moved on.
* **Awaits.** A handshake, a dial, a WebSocket handler or the reading of a body waits for the
  other end between two changes of shared tables, and may end at any of these points.
* **Other processes.** Wallet commands share a file without a lock.

`PROJECT.json` lists the hazards with their lines, and the properties that address
each.

### What makes each part correct

* Chain manager: the active chain is one branch of applied blocks; the node is on the
  stored branch with the most work; no switch goes below the finalized height; invalid
  marks are exact; orphans wait exactly as long as their parents are missing; every
  call ends; with peers that keep sending, the node ends on the best valid chain.
* Store and files: at every moment a crash can come, each row leads to the bytes of
  its own block; no block is kept twice after start-up.
* Ledger: the tables are those of a plain replay of the active chain; no coin is made
  or lost; no transfer is applied twice.
* Catching up: while a peer is caught up from, something is under way that carries it on;
  results of an abandoned round change nothing; no peer that is ahead is passed over for
  ever, and none that keeps to the rules is banned.
* Reindex: whatever files a kill has left, a rebuild that ends gives back a chain of at least
  the old work, and one that is killed loses nothing.
* Connections: limits hold while handshakes are under way, one connection for each node,
  a banned node is no ready peer and its host opens nothing new, configured addresses are tried
  for ever.
* Mining: a nonce is only used for the header it was found for; stale work stops; new work and
  the end reach every worker.
* API: an address is served at its rate over every period, and only the quietest is forgotten;
  slots and subscriptions come back; a subscriber sees a stream without gaps and is dropped
  once it has lost a message.
* Wallet: the path holds a complete wallet or none; creation replaces nothing.
* Mempool: the waiting transfers are a valid continuation of the chain; the pool
  stays within its size; a template built from it is a valid block.

## 2. Modules

```
BlockTree ── ChainStore ─┬─ ChainManager ─┬─ ChainLedger ─┬─ NodeService ─┬─ MCService
                         │                │   │           │       │       └─ ServiceProofs
                         │                │   │           └─ MCLedger
                         └─ Ledger ───────┼───┘                   │
                              └───────────┼── Mempool ────────────┘
           ActiveChain ── ChainRefinement ┼─┬─ MCChain
                                          │ └─ ChainManagerProofs ─┐
                                          ├── Reindex ── MCReindex │
                                          └── PeerSync ─┬─ MCSync  │
                                                        └──────────┴─ SyncProofs

Mining ─┬─ MCMining       PeerTable ─┬─ MCPeers       HostBuckets ─┬─ ApiServer ─┬─ MCApi
        └─ MiningProofs              └─ PeerProofs                 └─ MCBuckets  └─ ApiProofs

WalletFile ─┬─ MCWallet   ListTheorems: used by ChainManagerProofs, PeerProofs, ApiProofs
            └─ WalletProofs             and WalletProofs
```

**BlockTree** holds every block a node can be offered as a constant tree. A block's id is
the hash of its header, so parent, height, work and the checks a block passes never
change; the sets `Mined ⊇ Standalone ⊇ Wellformed ⊇ Accepts` follow the order in which
the code makes the checks. `Early` are blocks that `check_not_in_future` may or may not
refuse, depending on the clock at the time.

**ChainStore** is the durable state: the tables (`status`, `chunked`, `main`, `sealed`),
the files (`recent`, `chunkFiles`) and the cache of unpacked segments, with the
readers `Tip`, `FinalizedHeight` and `Readable` (what `block_bytes` finds, through the cache);
`HasFile` says the same of the files alone.

**ChainManager** is `chain.py`. One action is one durable change:

| code | actions |
|---|---|
| `submit_block`, `_submit_one` | `SubmitBlock`, `StoreBlock` |
| `_switch_to`, `_mark_invalid` | `Switch`, `SwitchFails`, `MarkInvalid` |
| `_adopt_orphans` | `PopWaiting`, `AdoptChild` |
| `_seal_ready_chunks`, `seal_chunk` | `SealFile`, `SealCommit`, `TidyFiles`, `SealDone` |
| `apply_chunk` | `ImportChunk`, `ImportCommit`, `ImportFails`, `TidyFiles` |
| reading a sealed block | `ServeBlock` |
| kill and restart, `_init_genesis` | `Crash`, then sealing and tidying |

`pc` names the step that comes next, so `Crash` can strike between any two, and a
crash during the deletion of files leaves any subset of them. `raised` tells whether the call
that just ended got an exception ("now"), an earlier one did ("before"), or none ("never"):
what a peer is told depends on its own call only.

**ActiveChain** is what a node promises of its active chain (docs/PROTOCOL.md section 11),
with two variables and no files, rows, orphans or calls: the chain is the branch of an
acceptable block, moves only to more work, never undoes a block at or below the finality depth
or a settled one, and settled blocks stay. **ChainRefinement** instantiates it with
`active <- main` and `settled <- chunked`; `KeepsPromise` says that ChainManager implements it.

**Reindex** is `reindex.py` on top of ChainManager: `ReindexBegin` throws the rows away and
keeps the files, `ReindexChunk`, `ReindexList` and `ReindexFile` replay them with
ChainManager's own `ImportChunk` and `SubmitBlock`, `ReindexEnd` starts the node, also after
an exception. `Kill` strikes anywhere, and the next start takes the half-built database for
a normal one.

**Ledger** is `apply_block` with the tables that `_connect` and `_disconnect_tip` change,
as functions of a record of those tables: `Connect` and `Disconnect` for one block,
`RolledBack` and `Extended` for the two loops of `_switch_to`. `Replayed[b]` is what a node has
that only ever applied the blocks of b's branch. **ChainLedger** runs ChainManager with these
tables as state; there, whether a block is accepted is computed from the balances
instead of being taken from `Accepts`. What the API reads from the two indexes (`Immature`,
`Delta`, `PagedSum`: a client that pages through its history) is compared with the balances.

**Mempool** is `mempool.py`; the loops of `_trim_to_size`, `update` and `expire` are one
action per turn. **NodeService** composes ChainLedger and Mempool the way
`service.py` does: chain first, mempool after it, both in one call. `AccountInfo` and
`FindTransaction` are what a wallet is told between calls; `PoolFollowsChain` says that mining
everything that waits would lead exactly there.

**PeerSync** is the catching up of `p2p.py`, composed with ChainManager. Handlers run one
at a time on the event loop; what overlaps is what they start. The state is that of
`Peer` and `PeerManager`: connections (`link`, `claim`, `banned`), the fields of a
catch-up (`sync`, `syncPeer`), the running header checks and chunk downloads (`checks`,
`chunkTask`, `threads`), and the questions a peer has not answered yet (`asked`). A handler
that submits a block or imports a chunk leaves in `after` what it does when the chain
manager's steps are over.

| code | actions |
|---|---|
| `_handle_hello`, `_serve`, `_ban`, `_drop` | `Connect`, `Leave`, `Misbehave`, `ReaderEnds` (and `Drop` inside others) |
| `_check_stall` | `Stall` |
| `_on_inv`, `_on_block` | `Announce`, `BlockAhead`, `BlockArrives`, `FinishBlock` |
| `_on_headers` | `HeadersArrive` |
| `_check_headers` | `HeadersUnconnected`, `HeadersRefused`, `HeadersTooDeep`, `HeadersPass`, `PowChecked` |
| `_sync_chunks`, `_chunk_check_finished` | `NextChunk`, `DownloadFails`, `Downloaded`, `ThreadEnds`, `ChunkGood`, `ChunkBad`, `ChunkLate`, `FinishChunk` |
| `_maybe_sync`, `_start_sync`, `_continue_sync`, `_end_sync`, `_request_headers` | parts of the above |

**PeerTable** is the other half of `p2p.py`: which addresses are known, dialed, remembered and
saved, and which connections there are. An action is what happens between two awaits.

| code | actions |
|---|---|
| `run`, `_dial_more`, `_save_peers`, `_forget_expired_bans` | `Tick`, `RetryDue`, `BanEnds` |
| `_dial` | `DialOpens`, `DialFails` |
| `accept`, `inbound_refusal` | `Accept` |
| `_handle_hello`, `_learn`, `_remember` | `HelloSelf`, `HelloBanned`, `HelloAgain`, `HelloReady` |
| `_on_peers` | `PeersFrom` |
| `_serve`, `_ban`, `_drop` | `Misbehaves`, `Drop`, `Ends` |
| `__init__`, `_load_peers` | `Restart` |

**Mining** is `engine.py` with `mining_loop`: the loop builds a template, bumps the shared job
number (`Build`), queues the jobs (`HandOut`), looks at the tip and the deadline (`Turn`) and
waits in a thread (`TakeResult`, `TimeOut`); a worker takes a job and skims the queue for a newer
one (`TakeJob`, `StartJob`), reads the number before each hash (`CheckJob`) and hashes (`HashFound`,
`HashMissed`). `Cancel`, `Terminate` and a `Stop` in the queue end it.

**HostBuckets** is `TokenBucket.try_take` and `HostBuckets`; **ApiServer** extends it with the
request guard and body limit (`Request`, `BodyPart`, `BodyTimeout`), and with the WebSocket
handler and `EventBus` (`Connect`, `Accepted`, `ReadBad`, `ReadTopics`, `Wakes`, `Publish`, `WriterGets`,
`Sent`, `Left`).

**WalletFile** is `wallet.py`: commands that `Create`, `Load`, add a `NewAddress` or `Discover`,
then `save` in three steps (`Write`, `Fsync`, `Publish`), are killed (`Fails`), or lose power
(`PowerLoss`); a published name reaches the disk some time later (`Settle`).

The modules named `...Theorems` and `...Proofs` hold the proofs, those named `MC...` the
instances for TLC. Definitions marked *Mutant* are the same code with a
plausible bug; `PROJECT.json` names, for each property of each passing run, the mutant that
breaks it.

### Abstractions

* The two limits of the orphan pool (256 blocks, 16 MB) are one, `MaxOrphans`.
* `_pow_checked` only saves a second check of the same header, and is left out.
* The cache of 64 segments never overflows in the instances.
* A snapshot root stands for the balances it fingerprints; ids and roots do not collide.
* The eviction heap is the set of its entries. A second copy of an entry would only be
  skipped. The rebuild of an overlong heap may happen at any push.
* `expire` picks any waiting transfer as too old: `added` and the clock are left out.
* A question to a peer, its answer and its arrival are one entry of `asked`: a connection
  delivers in order. The peer answers from its chain of the moment of the answer, and does
  not delete blocks.
* The locator is the whole active chain, as in the code up to ten blocks.
* A peer is one connection; its hello is read before the first `Announce`. A bad message of
  any kind (unreadable, too long, headers that form no chain) is `Misbehave`; a full send
  queue, a broken connection or `not_found` is `Leave`.
* Time: the stall timer may fire at any moment for a peer in `Slow` and never for
  another. Message budgets only delay a reader.
* Transfers between peers are left out. `PeerSync` takes connections as they come,
  `PeerTable` what they carry.
* In `PeerTable`, back-off times and bans hold until a step ends them, with no clock; a
  connection's slot is freed when its reader ends, as in `_serve`. The names of hosts decide
  what is local; resolving and pinning is left out, and so is the pacing of a reader by its
  message budget (`TokenBucket.take`), which only delays it.
* The ledger takes the block whose reward matures from the active chain itself; what
  `block_bytes` would return for it is a matter of ChainManager (`stale.cfg`, section 3).
* In `Mining`, whether a nonce solves a header is open at every hash; the hash counters are left
  out. `SubmitMined` knows two ends of a submission: a new tip if the template's parent is still
  the tip, else no change. DUPLICATE means that the same block moved the tip before, so it is the
  second; INVALID of a current template is ruled out by `TemplateAccepted`; a block of an older
  template that still wins by its work is left out. A queue delivers in order but late. A nonce has two bits in the run, any size in the proof.
* In `ApiServer`, one request body is read at a time; tokens and time are whole numbers; a
  message is its number in the stream of its subscription.
* In `WalletFile`, keys, encryption and the password are left out; a wallet is its secret and
  the numbers of its addresses. A rename or link is atomic, data that was not synced is lost with
  the power, and a published name may be lost with it until the directory is written.
* The mempool's index by receiver is computed from the pool; the id of a coinbase is its block; the
  waiting part of a history and logs are left out.
* The order of equal fee rates when evicting, and of the senders in `update`, is left open.

## 3. Runs

Runs finish within four minutes on two cores. Bounds are constants of the cfg
files: the tree, `MaxOrphans`, `Offered` (chunks that peers offer), `MaxCrashes`, and those the
module's CONSTANTS name as bounds.

| run | what it checks | size |
|---|---|---|
| `fork` | `TypeOK`, `BestChain`, `OrphansWait`, `UndoBounded`, `Converges` over every order of receiving ten blocks on three branches: overtaking, an invalid branch of more work, a pool of two orphans, sealing every two blocks | 62 k states |
| `reindex` | `FilesMatchRows`, `SealedOnMain`, `NothingLost`, `RebuildKeeps`: the process killed between any two durable changes, started normally or with `--reindex`, and killed again while it rebuilds | 791 k |
| `chunks` | `ReadableBeforeCrash`, `MainIsBranch`, `InvalidExact`, `KeepsPromise` (the refinement): rival, continuing and failing chunks among submissions, a reward that matures within a chunk, a branch that fails half way, a block the clock may refuse, and a crash anywhere | 166 k |
| `ledger` | `LedgerIsReplay`, `AcceptanceIsLocal`, `CoinsAccounted`, `NoReplay` over fourteen blocks with transfers, four of which break one rule each (a replay, the snapshot of the other branch, an unpaid fee, an overflow), an import and a crash; histories read two items at a time | 400 k |
| `service` | `PoolFollowsChain`, `EvictionWorks`, `TemplateAccepted`: five transfers of two senders, two of which compete, in a pool with room for about three, on two branches that confirm different ones | 109 k |
| `sync` | `SyncAlive`, `ChecksAreCurrent`, `HonestNotBanned`, `ClaimsSettled`: two honest peers on rival branches, one with a chunk and one that grows, and a third that stalls, goes away, sends bad messages and serves an invalid branch, headers without proof of work and a chunk without it | 119 k |
| `peers` | `SlotsBounded`, `OneConnectionPerNode`, `PrivateVouched`, `BanHolds`, `KeepsTrying`: a public node, one on our own network and an address that is our own; one slot each way, three connections, a ban and a restart | 571 k |
| `mining` | `SolvesTemplate`, `StaleWorkStops`, `WorkersHear`, `FollowsTip`: two workers, four nonces, one tip of another node, one refresh, one block | 218 k |
| `api` | `RateBounded`, `HoldingsExact`, `NoGap`, `SlowReadersEnd`: two strangers and this computer, a bucket for one of them and three moments, two connections with room for one, one of which may stop reading, two topics of which one is allowed, a queue of one | 856 k |
| `wallet` | `WalletWhole`, `DiscoverExact`, `SecretKept`: two commands, five addresses, every set of used ones, two faults | 1.04 M |

The type invariants of `PeerTable` and `ApiServer` are part of `SlotsBounded` and `HoldingsExact`.

Why these bounds are enough to be interesting: the `fork` tree contains a switch in both
directions, a branch that forks above and one below the finalized height, a losing
branch that reaches over the end of a sealed chunk, and orphans of orphans. In `reindex` the
chain is long enough for two chunks, so that a rebuild imports one and seals the next itself,
and a failing branch is among the files. In `service` the pool overflows with
stale entries at the top of the heap, and a block has room for a later but not for an
earlier transfer of a sender. In `sync`, batches of two headers and two blocks make a
catch-up take several rounds of questions, the finality depth of one makes the rival branch
too deep, and every action of PeerSync is taken, a chunk check that outlives its round and
a chunk that comes too late among them. In `peers` one slot each way makes every dial and
handshake compete, three names for connections let two closing ones linger beside a new one,
and one failure is enough to forget an address. In `mining` two templates are in the queues
at once and a worker runs out of nonces. In `chunks` an import reads its own chunk before it
fails, and the crash may come between storing a block, switching and marking, so that the marks
and the active chain are checked across it. In `api` every limit is one, so each is met, and there is time for a pause
longer than the burst takes to refill, with requests before and after it; the stream of a subscription is three messages long, one more than fit in the queue and the
writer's hand.

`AcceptanceIsLocal` ties the two views of validity together: `ChainManager` takes the set
`Accepts` as a constant, and the run shows that on the real balances a switch succeeds
exactly when its blocks are in `Accepts`, whatever chain the node comes from. The set and
the roots in the headers of `MCLedger` are worked out by hand.

The `ledger` and `reindex` runs offer one chunk, and one that cannot leave stale segments
behind. In `chunks` they are left behind.

Not met in the `peers` run, and covered by the theorems of `PeerProofs` only: the limit for one
host below the limit for all (both are one), and one node under two addresses (it takes two
outbound slots).

### Where code and documentation disagree

Each of these runs checks one statement of the repository and TLC finds it violated; the
quotations are in `PROJECT.json` under `findings`.

| run | property | what happens |
|---|---|---|
| `raises` | `SubmitNeverRaises` | sealing deletes losing rows but not their descendants; a block on top of one makes `_check_finality` raise |
| `behind` | `CatchesUp` | a block found by the peer during a catch-up is dropped, and the end of the catch-up forgets that the peer is ahead |

Two more have a configuration of their own, to be run by hand; TLC finds a counterexample in both:

* `stale.cfg` (module `MCChain`, property `StoredReadable`, no crash): `read_from_chunk` caches
  unpacked segments by chunk index and offset, and neither `delete_chunk` nor `save_chunk_bytes`
  drops them. When `coinbase_maturity` is less than `chunk_size` (100 and 1440 by default, 100 and
  60 on the development network), `_context` reads matured rewards from the chunk that is being
  imported (`node/chain.py:267`); if a later block of it fails, the file is deleted
  (`node/blockfiles.py:292`) but not the segments, and the next chunk with that index is read from
  them. `node/store.py:17` says that "a failed validation never leaves half-applied state
  behind". `ReadableBeforeCrash` says what holds nevertheless: the files are right, and only
  blocks under the index of such a segment are misread.
* `slow.cfg` (module `MCApi`, property `BehindIsDropped`): the writer looks at `overflowed` only
  between two sends, and `send_json` (`node/api.py:380`) has no deadline; `server.py:141` chooses
  websockets-sansio and configures no ping. A client that stays connected and stops reading keeps
  the writer in its send, and its slot, while events for it are lost. docs/PROTOCOL.md:405 says: "A client that
  falls more than 1,000 events behind is disconnected", and `node/events.py:5` the same of a
  subscriber. `SlowReadersEnd` holds for the clients that go on reading.

These consequences of the code were met while modelling and are noted without a run:

* `apply_chunk` connects blocks without `_adopt_orphans`: an orphan whose parent an import brings
  stays in the pool, and is answered DUPLICATE when it comes again. `OrphansWait` is therefore
  checked without imports.
* A block that one call connects and, adopting orphans, disconnects again is in both lists of
  `SubmitResult`; `Mempool.update` counts its transfers as confirmed and does not put them back,
  although docs/PROTOCOL.md:359 says that transfers of undone blocks return.
* A chunk file left by a crash in `apply_chunk` is taken for the file of another chunk with
  that index by a later import (`wrote_file` is then false); hence `ReadableBeforeCrash`. If the
  chunk cannot be applied, the file also ends every later `--reindex` with an exception, although
  docs/PROTOCOL.md:266 says the database "can always be rebuilt from the files".
* A crash between the transaction that stores a block and the one that switches to it leaves
  the lighter chain active until a block of more work arrives: submitting the same block again
  is a DUPLICATE. `BestChain` and `Converges` speak of the time before the first crash.
* The finalized height follows the tip's height, which a heavier but shorter branch lowers;
  `UndoBounded` speaks of the finalized height at the moment of the switch.
* When two nodes dial each other at the same time, each may refuse the connection the other
  keeps, and both are dropped. A connection dropped without a ban sets no back-off, so its
  address is dialed again at the next turn.
* Connections of other nodes that are open when their host is banned stay open, and a closing
  connection can still earn the ban of a node that is ready again on another one, which stays;
  `BanHolds` allows for both.
* A bucket that is forgotten because there are too many starts again with a full burst.
  `RateBounded` therefore speaks of the time an address is remembered, and `ForgetsQuietest`
  of who is forgotten (proved, and checked with `buckets.cfg` and `MCBuckets`: three addresses, a
  table for two and six moments, 721 k states).
* `connect` addresses are "always stay connected to" (p2p.py:185), but learned peers count against the
  same target: as long as they fill it, a configured address is not dialed. `KeepsTrying` has that
  case as an exception.
* Two wallet commands that run at the same time each save what they loaded: the later one
  drops the earlier one's new address. Its key is derived again, and `discover` finds it once used.

### Fairness

* `WF(HandlerStep)` in ChainManager: a call that has begun is executed by the one thread of
  the node to its end.
* `SF(SubmitBlock(b))` in `FairSpec`, used by `fork`: peers announce and send the
  blocks they have again (inv, catching up), so each block is submitted again and again
  whenever the node is between calls. It is strong because the node is not always
  between calls. Nothing is assumed of crashes.
* `WF(LoopStep)` in PeerSync: the event loop does not stand still while a handler, a task,
  a thread or the answer of a peer that is not slow is due. No fairness between them is
  assumed. `SF` of the stall timer for a slow peer: `run` calls `_check_stall` every few
  seconds. It is strong because a chunk check under way keeps it from acting. A slow peer
  need not answer, and no peer need connect or find a block.
* Mining: `WF` of the loop's own steps, of the end of `wait` (it has a timeout) and of each worker
  process. Nothing makes a result, a tip or a solution come.
* PeerTable: `WF` of `Tick` (the loop of `run`), of the end of a ban and of a back-off. Nothing makes a
  dial succeed, a peer answer or a connection end.
* ApiServer: `WF` of `WriterGets` (`queue.get()` with something in the queue), and of `Sent` for the
  connections in `Reading`, whose clients go on reading, however slowly. A send to another client
  need not end: it has no deadline, and the node configures no ping (`server.py:141`).

## 4. Proofs

Every theorem holds for every value of the constants that the named assumptions allow; TLC
evaluates the assumptions in the runs. Conditions beyond them are in the statement of the
theorem.

### The chain manager (`ChainManagerProofs`)

For every tree, every `ChunkSize >= 2`, every `FinalityDepth`, `CoinbaseMaturity >= 1`,
`MaxOrphans >= 1`, any offered chunks and any number of crashes:

| theorem | property |
|---|---|
| `TypeCorrect` | `[]TypeOK` |
| `MainChain` | `[]MainIsBranch` |
| `MostWork` | `[]BestChain` |
| `Sealing` | `[]SealedOnMain` |
| `Marking` | `[]InvalidExact` |
| `BoundedUndo` | `UndoBounded` |
| `Refinement` | `KeepsPromise`: ChainManager implements ActiveChain |
| `Readability` | `[]ReadableBeforeCrash` |
| `OwnChunksReadable` | `[]StoredReadable` through any number of crashes, if `Offered = {}` |
| `OrphansAreAdopted` | `[]OrphansWait`, if `Offered = {}` |

The assumptions are `TreeAssumption`, `ChecksAssumption`, `ParamsAssumption` and
`ManagerAssumption`: links and heights of a tree, work growing along a branch, the
order of the checks, and what `NetworkParams.__post_init__` enforces.

The conditions are those under which the code keeps the promise, not conveniences of the
proof; the notes of section 3 say what happens otherwise. `Readability` has none: it covers the
default parameters, under which failed imports leave stale segments, and shows that those are the
only way to misread a block before the first crash. `OwnChunksReadable` says that a node which
seals its own chunks only never misreads any. An import adopts no orphans, hence `Offered = {}` in
`OrphansAreAdopted`.

None of the properties is inductive. `IInv` adds:

* `CallInv`, what a call has established by the time it reaches a step: while a block is
  being stored, switched to or marked, its branch meets the active chain at or above the
  finalized height and all its ancestors are stored; a switch is only tried for more
  work; a chunk is sealed only when its last block is final, and imported only when it is
  the next. Without it nothing links the check made at the beginning of a call to the
  change made several steps later.
* `WorkInv`, that until the first crash the only stored block that can outweigh the tip is
  the one a switch is being tried for.
* `ChainInv`, that the active chain consists of acceptable blocks and that rows pointing
  into chunks are on it.

The module first shows what the proofs need of `Ancestors`, which is defined
as the least parent-closed set so that no induction is needed: that two ancestors of a
block are comparable by height (`AncestorsComparable`), that a block's ancestors below a
height are determined by it (`AncestorsByHeight`), and that acceptance is inherited. The
step lemmas then take one action each: `SwitchStep` shows that undoing to the fork and
applying the branch gives exactly the ancestors of the new tip (`SwitchedChain`), that
the finalized part of the chain survives (`BranchKeepsFinal`), and that work only grows;
`SealCommitStep` and `ImportCommitStep` that the sealed heights move by one chunk;
`MarkInvalidStep` that marking is closed under stored children. `UndoStep` derives
`UndoBounded` from the invariant, as only a switch removes blocks from the active chain.

*The refinement.* The initial states of ChainManager map to `Start`, and every step to a step of
ActiveChain or a stutter. The steps that matter are `Switch` and `ImportCommit` (to `MoveTo`) and
`SealCommit` (to `SettleMore`); `IInv` supplies that the new chain is the lineage of an acceptable
block of more work, that the blocks given up lie above the finality depth, and that rows
pointing into chunks are on the finalized part.

*The files.* `FilesInv` says in which order files and rows change: a recent file is there before
its row (`pc = "store"`), the chunk file before the rows that point into it, and of the files to be
deleted (`doomed`) none is that of a row which still needs it; every chunk file is
of the active chain, except a file for the next index, and while a call seals or imports, that
file is its own. Of the segments it claims the same only for a node that imports nothing. Readability alone says nothing of a file that has no row yet,
and so not what a commit will point at.

*The orphans.* `OrphanInv` says that an orphan whose parent is stored is on its way: its parent is the
block in hand or on the stack, or it is among the children that come next. The property speaks
of the time between calls, and is broken within them.

### Balances, mempool and service (`ServiceProofs`)

| theorem | states | rests on |
|---|---|---|
| `BalancesAreReplay` | `[]LedgerIsReplay` | `LedgerInv`: `IInv` of the chain manager, and the property itself |
| `AcceptanceOfBranches` | `[]AcceptanceIsLocal` | the same |
| `NoDoubleSpend` | `[]NoReplay` | `Sound`, which every replay satisfies |
| `SupplyIsConserved` | `[]SupplyConserved`, the first half of `CoinsAccounted` | `SupplyOfBranch`: the supply of every accepted branch is one reward for each of its blocks |
| `TemplatesAreAccepted` | `[](raised = "never" /\ BlockReward * (TipHeight + 1) <= MaxAmount => TemplateAccepted)` | `ValidInv` with `EvictInv` and `LedgerInv` |
| `PoolIsMinable` | the same for `PoolFollowsChain` | the same |
| `LedgerIsChain` | `LSpec => Init /\ [][Next]_vars`: the chain manager that decides by balances is ChainManager | `AcceptanceOfBranches` |
| `EvictionIsSound` | `[]EvictionWorks`, for any transfers, fees, sizes and limit | `EvictInv`: one waiting transfer for each sender and nonce, an entry in the heap for the last of each sender, and the size within the limit except while trimming. Removing a transfer makes another one the last, which the property does not mention |
| `ServiceIsLedger` | `SSpec => LSpec`: nothing the mempool does reaches the tables | the actions alone |

With `ServiceIsLedger` and `LedgerIsChain`, the safety theorems of ChainManager and of the ledger hold of the
node as a whole. The assumptions are `LedgerAssumption` (what `check_block` and
`check_transaction` have checked of a block's transfers, the block of `build_genesis`, and that addresses are
finitely many),
`MempoolAssumption` and `ServiceAssumption`.

*What `Accepts` means.* ChainManager takes from its constant `Accepts` which blocks `apply_block` accepts. The first
seven theorems have the condition `AcceptsIsReplay`: a block is in `Accepts` exactly when the replay of its
branch succeeds. It gives the constant its meaning, which some set always satisfies (the set of those blocks);
it says nothing of switches, undoing or imports, and is no `ASSUME` because a faulty `apply_block` would
then be an error in the constants instead of a violated property. The `ledger` run checks it with `AcceptanceIsLocal`.

*The ledger.* The argument goes from a transfer to a branch.

* A write to the overlay keeps the value each account had, so that writing `previous` over the written balances
  gives back the balances (`OverlayFacts`, `WrittenFacts`). A nonce never falls, and a transfer that is applied carries a
  nonce between the sender's before the block and after it (`TransfersFacts`).
* `Sound(L, b)` says what tables of b's branch look like: balances in range, one undo row for each block above genesis,
  snapshots and index rows at the branch's heights, every confirmed transfer with a nonce below its
  sender's. `ConnectFacts`: a block that is accepted leaves sound tables, and `Disconnect` after `Connect` is the identity on
  them, over all tables.
* `UpTheTree` is induction from a block to its children, by a block of least height outside a set; with it,
  `ReplayedFacts` gives every accepted block sound tables, and `RollsBack` and `Extends`
  say that undoing down to a block's height leads to that block's replay and applying a branch to the replay of its top.
* So a switch commits the replay of the new tip (`SwitchIsReplay`), or a rule of its branch is broken on its own branch
  already (`LocalAcceptance`); an import the same. Everything else leaves tables and active chain alone (`SameMain`).

*The supply.* `SupplyConserved` says of all addresses together that their balances and what they see as
immature are `BlockReward` times the number of blocks. It holds at every moment, within a call too.

* Sums over finite sets are counted (`SumOver`), and `SumMore` and `SumChange` say what one summand more, or another one,
  does. A credit adds its amount (`CreditsCoins`); a transfer takes from the sender what it gives to the
  receivers and to the fees (`TransferCoins`), whatever addresses coincide.
* `Held(b)` is what an address has coming from rewards of b's branch that have not matured. The reward that matures with b
  leaves it (`HeldMatures`) for a balance, and b's own, the block reward and the fees, comes in (`HeldGrows`); so a block
  adds exactly one block reward to balances and `Held` (`SupplyStep`).
* `IndexedRewards`: the coinbase rows of the address index are those of the branch. So what `account` shows as immature
  is `Held` of the tip (`ImmatureIsHeld`), after any undoing of rows.

*The waiting transfers.* Both theorems say what happens when transfers that were checked one by one, at different times and
against other balances, are applied together to the tip as it is now.

* `ValidFor(a, P, acc)`: the transfers of P that a sends have the nonces that come next for a, without a gap, and a's balance
  covers them. Between calls it holds of every address. `ValidInv` says what is left of it during a call, when the balances
  have changed and `update` has not yet run: as long as no block was undone it holds of every address that sends nothing in the new
  blocks, which is why `update` may leave the others alone. Such an account's nonce stays and its balance does not
  fall (`BranchKeeps`). When blocks were undone, `update` takes everyone out, and nothing is claimed before it has.
* Each step of the mempool keeps it (`InsertedValid`, `FewerValid`): insertion takes the next nonce or replaces
  one, and eviction and expiry take a sender's last ones.
* `SelectFacts`: the list `select` makes has no transfer twice and none before one it depends on, and fits; with room for all,
  it is all. The heap always has a best-paying entry (`BestPaying`).
* `NextReached`: applied in such an order, each transfer finds the nonce it carries and the balance it needs, and every account is
  the start, less what its transfers so far spend, plus what those of all pay it. A credit cannot overflow, because no balance exceeds all
  balances together (`TransferSucceeds`) and these do not exceed the supply.

The two conditions are those under which the code keeps the promise. A block whose call ended with the exception of `_adopt_orphans`
(finding at `chain.py:356`) after a switch has changed the balances without `mempool.update` (`service.py:96`), and what
waits may be stale from then on: hence `raised = "never"`. And beyond `MAX_AMOUNT` in all, a reward that matures could
overflow a balance; the rewards of all blocks reach that only after 2^63 / `block_reward` of them.

### Catching up (`SyncProofs`)

For any number of peers, any chains and chunks of theirs, any limits, and all the faults that
PeerSync has (slow peers stall and leave; faulty ones send bad messages and serve invalid blocks,
headers that do not connect and bad chunks):

| theorem | property |
|---|---|
| `ChecksBelong` | `[]ChecksAreCurrent` |
| `CatchUpAlive` | `[]SyncAlive` |
| `HonestPeersStay` | `[]HonestNotBanned` |

`SyncInvariance` carries `IInv` of the chain manager over to `PSpec` and adds `SyncInv`: no ready peer but
the one caught up from has an open question for headers or a running check; of that peer, one
question for headers or one check of its round is under way, or blocks, each with an unanswered
question or a handler at work on it, or the chunk task of the round, always one kind of them
(`Busy`) and never two of the first, second and last (`OneAtATime`). `SyncAlive` alone is not
inductive: each handler hands the work on to another (question, check, batch, chunk task), and
what arrives must be known to be the only thing that is out.

`HonestInv` follows a block of an honest peer through the chain manager's steps: it is acceptable, so it
is not marked invalid, and when the call ends it is stored, an orphan, refused by clock or finality
(which is `harmless`), or ended by an exception of its own call. The last case is why `raised` has
to tell this call from an earlier one. `Data` says that what honest peers are asked for, and what
is being checked for them, is of their own acceptable chains. `SyncAssumption` says what an
honest peer is (`Tips[p][i] \in Accepts`) and that headers of well-formed blocks pass.

### Connections (`PeerProofs`)

| theorem | property |
|---|---|
| `SlotsAreBounded` | `[]SlotsBounded` |
| `OneConnectionEach` | `[]OneConnectionPerNode` |
| `PrivateIsVouched` | `[]PrivateVouched` |
| `BansHold` | `BanHolds` |

They hold for any finite set of addresses and connections and any limits (`PeerAssumption`). `PeersInv`
conjoins them with the types of the tables, that a connection is outbound exactly when it has an
address, and that one past its hello is with another node; connections that are closing keep
their place until their reader ends. Connections are counted by cardinalities, so each step is
shown to add or remove one element of the sets counted, or to move one from `dialing` to the
outbound connections.

`BanHolds` has two halves. That a banned node is not ready rests on `OneConnectionEach`: the
connection that earns the ban is the ready one of its node, and is closed in the same step, or is
not ready and then the node had none, but for the closing connections the property names. That a
banned host gets nothing new is shown for accepting, dialing and a dial that opens, which moves
an address from `dialing` to the connections.

### Mining, the API and the wallet

| theorem | property | the invariant it rests on |
|---|---|---|
| `MiningProofs!Solves`, `Stops` | `SolvesTemplate`, `StaleWorkStops`, for any number of workers, any nonce range and any delay of the queues | `NumbersTell`: the number of a job, held by a worker or in any queue, never exceeds the loop's, and where they are equal the job is for the template under way. Without it nothing is known of what a queue will deliver |
| `ApiProofs!RateHolds` | `RateBounded`, for any rate, burst, limit of buckets and set of addresses | `Sound`: from every request served on, what was granted plus what the bucket holds is at most the burst plus the rate over the time up to its last refill. The property says nothing of the tokens, and a pause would leave room for more without their limit |
| `ApiProofs!QuietestForgotten` | `ForgetsQuietest`, for the same | `Ordered`: the list of addresses is in the order of their last refills |
| `ApiProofs!HoldingsAreExact` | `HoldingsExact`, for any number of addresses, connections and topics | `HoldingsInv`: what each handler holds in each phase (a slot from before `accept`, a subscription from its first topic on), and the counts as cardinalities of the sets of handlers that hold something |
| `ApiProofs!StreamHasNoGap` | `NoGap`, for any length of the queue | the same: queue and writer's hand hold consecutive messages, or the loss is noted |
| `WalletProofs!Whole`, `Kept` | `WalletWhole`, `SecretKept`, for any number of commands and faults | `Held` and `Files`: a command that creates holds its own secret, any other the secret of the file; what is about to be published is synced; the durable file has the secret of the visible one |
| `WalletProofs!Discovers` | `DiscoverExact`, for every gap and set of used addresses | `FilledInv`: every file and every wallet in memory holds the addresses below its count, without a hole |

The assumptions are `MiningAssumption`, `RateAssumption`, `ApiAssumption` and `WalletAssumption`.

### How the models are written for the proofs

* `ListTheorems` states once what the sequence operators of the models do (append, remove, pop, shift:
  elements, length, no duplicates). The pool of orphans is filtered with `Only`, which says
  what is left and in which order instead of computing it as `SelectSeq` does.
* Sizes and sums (`SumOver`, with it `SizeOf` of the mempool and the supply; `TotalOpen` of the API) are cardinalities
  of sets of bytes, coins and slots instead of folds, so that adding and removing an element is a fact about finite sets.
* The loops of the ledger are recursive functions over indexes and heights (`Fold`, `RolledBack`, `Extended`). `Stepwise`
  of `ListTheorems` shows that such a function exists, and `UpTo` and `DownTo` that what holds at one end and is
  kept by a step holds at the other. `Replayed` is recursive in the tree: `ReplayedStep` puts a function together from the
  ones on each branch.
* `discover` is described by the last used address (`LastUsed`, `LastBefore`) instead of by recursion. Where
  an induction is needed, the proof takes a least counterexample (`LeastNumber`, `GreatestNumber`).

### Model-checked only

* Liveness: `Converges`, `ClaimsSettled`, `WorkersHear`, `FollowsTip`, `KeepsTrying`, `SlowReadersEnd` (fairness and
  ENABLED are out of the prover's reach).
* The second half of `CoinsAccounted` (it adds up amounts, some of them negative, over the rows of an index, page by
  page).
* `FilesMatchRows`, `NothingLost` and `RebuildKeeps` of Reindex: see the plan.

## 5. Plan

1. *Done*: `BlockTree`, `ChainStore`, `ChainManager` with proofs and the refinement of `ActiveChain`;
   `Reindex`; `Ledger`, `ChainLedger`; `Mempool`, `NodeService`, with proofs; `PeerSync`, `PeerTable`,
   `Mining`, `HostBuckets`, `ApiServer` and `WalletFile` with proofs.
2. Proofs that look within reach: `FilesMatchRows` for a node that imports no chunks of others.
   `FilesInv` has to allow for the chunk files of a database thrown away (a file for each end of a chunk, on
   the active chain up to the sealed height), for imports of the node's own files, and for the
   files of blocks that are already in a chunk, which only the next tidying deletes. `SealedOnMain` of
   `ReindexSpec` comes with it, and `NothingLost` builds on it.
3. Model: an abstract specification of a catch-up (idle, catching up from one peer, moved on) that
   `PeerSync` implements; the relaying of transfers between peers.

## 6. Checking it

In this directory, `tlc -workers 2 -config fork.cfg MCChain` (and the other pairs listed
in `PROJECT.json`), and `tlapm ChainManagerProofs.tla` (and the other modules of proofs).

## 7. Not modelled

ASERT difficulty and block work as numbers (256-bit fixed point, beyond TLC's 32-bit
integers; the models only compare work); Argon2, signatures, hashes and encodings (pure
functions whose verdict on a block or transfer is a constant here); the chunk file
format; the other HTTP routes and the text of their answers (no state of their own); the relaying of transfers and addresses to
peers as messages; resolving and pinning peer addresses (string work and DNS); the pacing of
a peer's reader; wallet cryptography, payment links and the HTTP client; logs; the command line.
