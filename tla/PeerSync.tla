------------------------------ MODULE PeerSync ------------------------------
(***************************************************************************)
(* node/p2p.py: how a node catches up with its peers, composed with the    *)
(* chain manager it feeds.  Handlers run on one event loop and do not      *)
(* overlap; what overlaps is everything they start: questions the peers    *)
(* have not answered yet, header checks and chunk downloads that wait for  *)
(* a thread or the network, readers that have yet to notice that their     *)
(* connection is gone, and the timer that drops a peer that stalls.        *)
(*                                                                         *)
(* A handler that submits a block or imports a chunk waits for the chain   *)
(* manager's steps to end (`after` says what it does then); nothing else   *)
(* runs meanwhile.                                                         *)
(*                                                                         *)
(* A peer is one connection.  The node at its other end follows the chains *)
(* Tips[p], one after the other.  What it sees of us only matters to us    *)
(* through its answers, and these arrive in order, so a question, the      *)
(* peer's answer and its arrival need one queue: the questions not         *)
(* answered yet.                                                           *)
(***************************************************************************)
EXTENDS ChainManager, FiniteSets

CONSTANTS
    Peer,         \* connections
    NoPeer,       \* None
    Tips,         \* [Peer -> Seq(Block)], the tips the peer moves through
    Chunks,       \* [Peer -> Nat], sealed chunks of its hello; 0 without an HTTP address
    Slow,         \* peers that may take too long to answer
    Faulty,       \* peers that may break the protocol
    HeaderOk,     \* blocks with a header that check_headers passes on its parent
    MaxHeaders,   \* MAX_HEADERS
    BatchSize,    \* BLOCKS_PER_REQUEST
    MaxPending    \* MAX_PENDING_HEADERS

ASSUME SyncAssumption ==
    /\ NoPeer \notin Peer
    /\ Tips \in [Peer -> Seq(Block)] /\ \A p \in Peer : Tips[p] # <<>>
    /\ Chunks \in [Peer -> Nat]
    /\ Slow \subseteq Peer /\ Faulty \subseteq Slow
    /\ Wellformed \subseteq HeaderOk /\ HeaderOk \subseteq Block
    /\ \A p \in Peer \ Faulty : \A i \in DOMAIN Tips[p] : Tips[p][i] \in Accepts
    /\ \A n \in {MaxHeaders, BatchSize, MaxPending} : n \in Nat /\ n >= 1

VARIABLES
    link,       \* "absent", "ready", "closed" (its reader has not ended yet), "gone"
    at,         \* the peer is on the chain of Tips[p][at[p]]
    claim,      \* peer.work
    banned,     \* peers refused for an hour
    asked,      \* questions to the peer that are not answered yet, oldest first
    sync,       \* the fields of Peer for catching up
    syncPeer,   \* sync_peer
    checks,     \* running _check_headers tasks
    chunkTask,  \* the running _sync_chunks task that is not cancelled, or NoTask
    threads,    \* chunk files being checked in a thread
    after       \* what the handler under way does when the chain manager returns

peerVars == <<link, at, claim, banned, asked, sync, syncPeer, checks, chunkTask, threads, after>>
pvars == <<vars, peerVars>>

NoTask == [peer |-> NoPeer, round |-> 0, step |-> "start", index |-> 0, file |-> NoBlock]
NoCall == [kind |-> "none"]

\* A Peer's fields at the start of its sync_round.
Fresh(round) ==
    [round |-> round, tip |-> NoBlock, wanted |-> <<>>, inFlight |-> {}, more |-> FALSE,
     awaiting |-> FALSE, checking |-> FALSE]

\* No handler is under way.
Free == pc = "idle" /\ after = NoCall

-----------------------------------------------------------------------------
(* The node at the other end *)

PeerChain(p) == Ancestors[Tips[p][at[p]]]

\* Blocks it has applied at some time, and so hands out.
PeerHas(p) == UNION {Ancestors[Tips[p][i]] : i \in 1..at[p]}

BlockAt(chain, h) == CHOOSE b \in chain : Height[b] = h

\* headers_after: from the first block of the locator on the peer's chain.  The
\* locator is the end of the headers already checked, then our active chain (of
\* a chain of ten blocks or less, all of it).
HeadersAfter(p, question) ==
    LET chain == PeerChain(p)
        common == IF question.head \in chain
                  THEN question.head
                  ELSE CHOOSE b \in chain \cap Ancestors[question.ours] :
                          \A a \in chain \cap Ancestors[question.ours] : Height[a] <= Height[b]
        following == Height[Tips[p][at[p]]] - Height[common]
    IN  [i \in 1..(IF following > MaxHeaders THEN MaxHeaders ELSE following) |->
            BlockAt(chain, Height[common] + i)]

\* A faulty peer may answer with headers that connect to nothing.
Answers(p, question) ==
    LET hs == HeadersAfter(p, question)
    IN  IF p \in Faulty /\ Len(hs) > 1 THEN {hs, Tail(hs)} ELSE {hs}

-----------------------------------------------------------------------------
(* _start_sync, _maybe_sync, _end_sync, _request_headers, _continue_sync.  *)
(* They are called one from the other, so each takes the values its caller *)
(* has already changed.                                                    *)

\* _request_headers(p)
RequestHeaders(p, syncs, questions) ==
    /\ sync' = [syncs EXCEPT ![p].awaiting = TRUE]
    /\ asked' = [questions EXCEPT ![p] =
                    Append(@, [kind |-> "headers", head |-> syncs[p].tip, ours |-> Tip])]

\* _start_sync(p): sealed chunks first, if the peer has some that we lack.
StartSync(p, syncs, questions) ==
    LET round == syncs[p].round + 1
        fresh == [syncs EXCEPT ![p] = Fresh(round)]
    IN  /\ syncPeer' = p
        /\ IF Chunks[p] > sealed
           THEN /\ chunkTask' = [NoTask EXCEPT !.peer = p, !.round = round]
                /\ sync' = fresh /\ asked' = questions
           ELSE /\ chunkTask' = NoTask
                /\ RequestHeaders(p, fresh, questions)

\* _maybe_sync, when sync_peer is None: the ready peer that claims the most work.
MaybeSync(links, claims, syncs, questions) ==
    LET candidates == {p \in Peer : links[p] = "ready" /\ claims[p] > ChainWork[Tip]}
    IN  IF candidates = {}
        THEN /\ syncPeer' = NoPeer /\ chunkTask' = NoTask
             /\ sync' = syncs /\ asked' = questions
        ELSE \E p \in candidates :
                /\ \A q \in candidates : claims[q] <= claims[p]
                /\ StartSync(p, syncs, questions)

\* Mutant: _end_sync without its last call, _maybe_sync.
EndSyncAlone(p, claims, syncs, useless) ==
    LET settled == IF useless THEN 0
                   ELSE IF claims[p] < ChainWork[Tip] THEN claims[p] ELSE ChainWork[Tip]
    IN  /\ claim' = [claims EXCEPT ![p] = settled]
        /\ sync' = [syncs EXCEPT ![p] = [@ EXCEPT !.tip = NoBlock, !.more = FALSE,
                                                  !.wanted = <<>>, !.inFlight = {}]]
        /\ syncPeer' = NoPeer /\ chunkTask' = NoTask
        /\ UNCHANGED asked

\* _end_sync(p): the peer is not tried again until it claims more work.
EndSync(p, claims, syncs, useless) ==
    LET settled == IF useless THEN 0
                   ELSE IF claims[p] < ChainWork[Tip] THEN claims[p] ELSE ChainWork[Tip]
        lowered == [claims EXCEPT ![p] = settled]
    IN  /\ claim' = lowered
        /\ MaybeSync(link, lowered,
                     [syncs EXCEPT ![p] = [@ EXCEPT !.tip = NoBlock, !.more = FALSE,
                                                    !.wanted = <<>>, !.inFlight = {}]],
                     asked)

\* _continue_sync(p): the next blocks, the next headers, or the end.
ContinueSync(p, claims, syncs) ==
    LET s == syncs[p]
        news == SelectInSeq(s.wanted, LAMBDA b : ~Known(b))
        wanted == IF news = 0 THEN <<>> ELSE SubSeq(s.wanted, news, Len(s.wanted))
        size == IF Len(wanted) < BatchSize THEN Len(wanted) ELSE BatchSize
        batch == SubSeq(wanted, 1, size)
        better == s.tip # NoBlock /\ ChainWork[s.tip] > ChainWork[Tip]
        left == [syncs EXCEPT ![p].wanted = wanted]
    IN  IF p # syncPeer \/ s.inFlight # {} \/ s.awaiting \/ s.checking
        THEN /\ sync' = syncs /\ claim' = claims
             /\ UNCHANGED <<asked, syncPeer, chunkTask>>
        ELSE IF wanted # <<>> /\ better
        THEN /\ sync' = [left EXCEPT ![p] = [@ EXCEPT !.wanted = SubSeq(wanted, size + 1, Len(wanted)),
                                                      !.inFlight = ToSet(batch)]]
             /\ asked' = [asked EXCEPT ![p] = @ \o [i \in 1..size |-> [kind |-> "block", id |-> batch[i]]]]
             /\ claim' = claims
             /\ UNCHANGED <<syncPeer, chunkTask>>
        ELSE IF s.more /\ Len(wanted) < MaxPending
        THEN /\ RequestHeaders(p, left, asked)
             /\ claim' = claims
             /\ UNCHANGED <<syncPeer, chunkTask>>
        ELSE EndSync(p, claims, left, FALSE)

-----------------------------------------------------------------------------
(* Connections *)

\* The hellos are exchanged (_handle_hello).
Connect(p) ==
    /\ Free /\ link[p] = "absent"
    /\ link' = [link EXCEPT ![p] = "ready"]
    /\ claim' = [claim EXCEPT ![p] = ChainWork[Tips[p][at[p]]]]
    /\ IF syncPeer = NoPeer
       THEN MaybeSync(link', claim', sync, asked)
       ELSE UNCHANGED <<sync, asked, syncPeer, chunkTask>>
    /\ UNCHANGED <<vars, at, banned, checks, threads, after>>

\* The connection fails or the reader's handler raises; with a ban for a
\* ProtocolError.  The reader notices later.
Break(p, ban) ==
    /\ link' = [link EXCEPT ![p] = "closed"]
    /\ banned' = IF ban THEN banned \cup {p} ELSE banned
    /\ claim' = IF ban THEN [claim EXCEPT ![p] = 0] ELSE claim

\* A peer goes away, is too slow to take what we send (_put), or answers not_found.
Leave(p) ==
    /\ Free /\ p \in Slow /\ link[p] = "ready"
    /\ Break(p, FALSE)
    /\ UNCHANGED <<vars, at, asked, sync, syncPeer, checks, chunkTask, threads, after>>

\* A peer sends what no honest node sends.
Misbehave(p) ==
    /\ Free /\ p \in Faulty /\ link[p] = "ready"
    /\ Break(p, TRUE)
    /\ UNCHANGED <<vars, at, asked, sync, syncPeer, checks, chunkTask, threads, after>>

\* The end of _serve.
ReaderEnds(p) ==
    /\ Free /\ link[p] = "closed"
    /\ link' = [link EXCEPT ![p] = "gone"]
    /\ IF syncPeer = p
       THEN MaybeSync(link', claim, sync, [asked EXCEPT ![p] = <<>>])
       ELSE /\ asked' = [asked EXCEPT ![p] = <<>>]
            /\ UNCHANGED <<sync, syncPeer, chunkTask>>
    /\ UNCHANGED <<vars, at, claim, banned, checks, threads, after>>

\* _drop(p): disconnected by a background task or by the timer.
Drop(p, ban, syncs) ==
    /\ link' = IF link[p] = "ready" THEN [link EXCEPT ![p] = "closed"] ELSE link
    /\ banned' = IF ban THEN banned \cup {p} ELSE banned
    /\ claim' = [claim EXCEPT ![p] = 0]
    /\ IF syncPeer \in {p, NoPeer}
       THEN MaybeSync(link', claim', syncs, asked)
       ELSE sync' = syncs /\ UNCHANGED <<asked, syncPeer, chunkTask>>

\* _check_stall: nothing came from the peer for too long.  A chunk file being
\* checked here is not the peer's fault.
Stall(p) ==
    /\ Free /\ p = syncPeer /\ p \in Slow
    /\ chunkTask = NoTask \/ threads = {}
    /\ Drop(p, FALSE, sync)
    /\ UNCHANGED <<vars, at, checks, threads, after>>

-----------------------------------------------------------------------------
(* Messages *)

\* The peer has a new tip and announces it (inv); we ask for it if it is new (_on_inv).
Announce(p) ==
    /\ Free /\ link[p] = "ready" /\ at[p] < Len(Tips[p])
    /\ at' = [at EXCEPT ![p] = @ + 1]
    /\ LET b == Tips[p][at[p] + 1]
       IN  asked' = IF Known(b) THEN asked
                    ELSE [asked EXCEPT ![p] = Append(@, [kind |-> "block", id |-> b])]
    /\ UNCHANGED <<vars, link, claim, banned, sync, syncPeer, checks, chunkTask, threads, after>>

\* The peer's oldest question is of this kind.
Due(p, kind) ==
    Free /\ link[p] = "ready" /\ asked[p] # <<>> /\ Head(asked[p]).kind = kind

\* Mutant: a block ahead starts a catch-up although one is under way.
BlockAheadRestarts(p) ==
    /\ Due(p, "block")
    /\ LET b == Head(asked[p]).id
           ahead == ChainWork[Tip] + 1
       IN  /\ b \in PeerHas(p)
           /\ b \notin sync[p].inFlight /\ ~Known(Parent[b])
           /\ claim' = [claim EXCEPT ![p] = IF @ < ahead THEN ahead ELSE @]
           /\ StartSync(p, sync, [asked EXCEPT ![p] = Tail(@)])
    /\ UNCHANGED <<vars, link, at, banned, checks, threads, after>>

\* A block we have not asked for while catching up, on a parent we lack: the peer
\* is ahead (_on_block, the early return).
BlockAhead(p) ==
    /\ Due(p, "block")
    /\ LET b == Head(asked[p]).id
           questions == [asked EXCEPT ![p] = Tail(@)]
           ahead == ChainWork[Tip] + 1
       IN  /\ b \in PeerHas(p)
           /\ b \notin sync[p].inFlight /\ ~Known(Parent[b])
           /\ claim' = [claim EXCEPT ![p] = IF @ < ahead THEN ahead ELSE @]
           /\ IF syncPeer = NoPeer
              THEN StartSync(p, sync, questions)
              ELSE asked' = questions /\ UNCHANGED <<sync, syncPeer, chunkTask>>
    /\ UNCHANGED <<vars, link, at, banned, checks, threads, after>>

\* Mutant: only time-too-new is harmless.
HarmlessEarly(b) == b \in Early

\* _HARMLESS_BLOCK_ERRORS: time-too-new and fork-below-finality.
Harmless(b) ==
    \/ b \in Early
    \/ Connects(b, orphans) /\ ~FinalityOk(Parent[b])

\* Any other block is submitted ...
BlockArrives(p) ==
    /\ Due(p, "block")
    /\ \E b \in PeerHas(p) :
          /\ b = Head(asked[p]).id
          /\ b \in sync[p].inFlight \/ Known(Parent[b])
          /\ SubmitBlock(b)
          /\ after' = [kind |-> "block", peer |-> p, id |-> b,
                       syncing |-> b \in sync[p].inFlight,
                       harmless |-> Harmless(b)]
    /\ asked' = [asked EXCEPT ![p] = Tail(@)]
    /\ UNCHANGED <<link, at, claim, banned, sync, syncPeer, checks, chunkTask, threads>>

\* ... and this is the rest of _on_block.  An exception of submit_block is a bug
\* on our side: no ban.
FinishBlock ==
    /\ pc = "idle" /\ after.kind = "block"
    /\ LET p == after.peer
           b == after.id
           invalid == status[b] \notin {"stored", "valid"} /\ b \notin ToSet(orphans)
           escaped == raised = "now"
       IN  IF escaped \/ (invalid /\ ~after.harmless)
           THEN /\ Break(p, ~escaped)
                /\ UNCHANGED <<asked, sync, syncPeer, chunkTask>>
           ELSE LET claims == IF invalid THEN [claim EXCEPT ![p] = 0] ELSE claim
                IN  /\ IF after.syncing
                       THEN ContinueSync(p, claims, [sync EXCEPT ![p].inFlight = @ \ {b}])
                       ELSE claim' = claims /\ UNCHANGED <<asked, sync, syncPeer, chunkTask>>
                    /\ UNCHANGED <<link, banned>>
    /\ after' = NoCall
    /\ UNCHANGED <<vars, at, checks, threads>>

-----------------------------------------------------------------------------
(* _on_headers and _check_headers *)

\* The answer to a question for headers; a task will check it.
HeadersArrive(p) ==
    /\ Due(p, "headers")
    /\ \E hs \in Answers(p, Head(asked[p])) :
          IF p = syncPeer /\ sync[p].awaiting
          THEN /\ checks' = checks \cup {[peer |-> p, round |-> sync[p].round, step |-> "new",
                                          headers |-> hs, known |-> 0, passed |-> 0, anchor |-> NoBlock]}
               /\ sync' = [sync EXCEPT ![p].awaiting = FALSE, ![p].checking = TRUE]
          ELSE UNCHANGED <<checks, sync>>
    /\ asked' = [asked EXCEPT ![p] = Tail(@)]
    /\ UNCHANGED <<vars, link, at, claim, banned, syncPeer, chunkTask, threads, after>>

\* How many of the headers are stored already: they come first.
KnownPrefix(hs) == Cardinality({i \in DOMAIN hs : \A j \in 1..i : Known(hs[j])})

\* The block, stored or with a checked header, that the new headers follow.
Anchor(p, hs) ==
    LET k == KnownPrefix(hs)
    IN  IF hs = <<>> THEN sync[p].tip
        ELSE IF k > 0 THEN hs[k]
        ELSE IF Parent[hs[1]] = sync[p].tip \/ Known(Parent[hs[1]]) THEN Parent[hs[1]]
        ELSE NoBlock

\* The new headers follow a stored block, so check_branch_point is called for it.
FromStored(p, hs) ==
    LET k == KnownPrefix(hs)
    IN  Anchor(p, hs) # NoBlock /\ k < Len(hs) /\ (k > 0 \/ Parent[hs[1]] # sync[p].tip)

\* Headers of a block that is marked invalid, or above one.
Tainted(p, hs) ==
    \/ \E i \in 1..KnownPrefix(hs) : status[hs[i]] = "invalid"
    \/ FromStored(p, hs) /\ status[Anchor(p, hs)] = "invalid"

\* check_branch_point refuses the stored block the new headers follow.
TooDeep(p, hs) ==
    FromStored(p, hs) /\ (FinalityRaises(Anchor(p, hs)) \/ ~FinalityOk(Anchor(p, hs)))

\* The task runs for the first time, and its headers connect to something.
Starts(t) == Free /\ t.step = "new" /\ (t.headers # <<>> => Anchor(t.peer, t.headers) # NoBlock)

\* The finally clause, for a check of the peer's current round.
Settled(t) ==
    IF sync[t.peer].round = t.round THEN [sync EXCEPT ![t.peer].checking = FALSE] ELSE sync

\* They connect to nothing we know: start over from our own chain.
HeadersUnconnected(t) ==
    /\ Free /\ t.step = "new" /\ t.headers # <<>> /\ Anchor(t.peer, t.headers) = NoBlock
    /\ IF sync[t.peer].round = t.round /\ t.peer = syncPeer
       THEN RequestHeaders(t.peer, [Settled(t) EXCEPT ![t.peer].tip = NoBlock, ![t.peer].wanted = <<>>],
                           asked)
       ELSE sync' = Settled(t) /\ UNCHANGED asked
    /\ checks' = checks \ {t}
    /\ UNCHANGED <<vars, link, at, claim, banned, syncPeer, chunkTask, threads, after>>

\* They break a rule: the peer is dropped and banned.
HeadersRefused(t) ==
    /\ Starts(t)
    /\ \/ Tainted(t.peer, t.headers)
       \/ /\ ~TooDeep(t.peer, t.headers)
          /\ \E i \in (KnownPrefix(t.headers) + 1)..Len(t.headers) : t.headers[i] \notin HeaderOk
    /\ Drop(t.peer, TRUE, Settled(t))
    /\ checks' = checks \ {t}
    /\ UNCHANGED <<vars, at, threads, after>>

\* They branch off below the finalized height: not the peer's fault, but useless.
\* (A deleted row raises, as in submit_block, and the peer is dropped.)
HeadersTooDeep(t) ==
    /\ Starts(t) /\ ~Tainted(t.peer, t.headers) /\ TooDeep(t.peer, t.headers)
    /\ IF FinalityRaises(Anchor(t.peer, t.headers))
       THEN Drop(t.peer, FALSE, Settled(t))
       ELSE /\ IF t.peer = syncPeer
               THEN EndSync(t.peer, claim, Settled(t), TRUE)
               ELSE sync' = Settled(t) /\ UNCHANGED <<claim, asked, syncPeer, chunkTask>>
            /\ UNCHANGED <<link, banned>>
    /\ checks' = checks \ {t}
    /\ UNCHANGED <<vars, at, threads, after>>

\* The end of _check_headers.  The result of an old round is thrown away.
Conclude(t) ==
    LET p == t.peer
        all == Len(t.headers)
        result == [Settled(t) EXCEPT
                      ![p].tip = t.anchor,
                      ![p].wanted = @ \o SubSeq(t.headers, t.known + 1, t.passed),
                      ![p].more = all = MaxHeaders /\ t.passed = all]
        claims == IF t.passed < all THEN [claim EXCEPT ![p] = 0] ELSE claim
    IN  IF p # syncPeer \/ link[p] # "ready" \/ sync[p].round # t.round
        THEN sync' = Settled(t) /\ UNCHANGED <<claim, asked, syncPeer, chunkTask>>
        ELSE ContinueSync(p, claims, result)

\* They follow the rules, as far as the clock allows: check_headers stops without
\* an error at one that is too early.  If any are left, their proof of work is
\* checked in a thread.
HeadersPass(t) ==
    /\ Starts(t) /\ ~Tainted(t.peer, t.headers) /\ ~TooDeep(t.peer, t.headers)
    /\ \E passed \in KnownPrefix(t.headers)..Len(t.headers) :
          LET known == KnownPrefix(t.headers)
              rest == [t EXCEPT !.step = "pow", !.known = known, !.passed = passed,
                                !.anchor = IF passed = 0 THEN Anchor(t.peer, t.headers)
                                           ELSE t.headers[passed]]
          IN  /\ \A i \in (known + 1)..passed : t.headers[i] \in HeaderOk
              /\ passed < Len(t.headers) => t.headers[passed + 1] \in Early
              /\ IF passed > known
                 THEN /\ checks' = (checks \ {t}) \cup {rest}
                      /\ UNCHANGED <<claim, asked, sync, syncPeer, chunkTask>>
                 ELSE /\ checks' = checks \ {t}
                      /\ Conclude(rest)
    /\ UNCHANGED <<vars, link, at, banned, threads, after>>

\* The thread is done.
PowChecked(t) ==
    /\ Free /\ t.step = "pow"
    /\ IF \A i \in (t.known + 1)..t.passed : t.headers[i] \in Mined
       THEN Conclude(t) /\ UNCHANGED <<link, banned>>
       ELSE Drop(t.peer, TRUE, Settled(t))
    /\ checks' = checks \ {t}
    /\ UNCHANGED <<vars, at, threads, after>>

CheckStep(t) ==
    \/ HeadersUnconnected(t) \/ HeadersRefused(t) \/ HeadersTooDeep(t)
    \/ HeadersPass(t) \/ PowChecked(t)

-----------------------------------------------------------------------------
(* _sync_chunks: `step` is "start" at the top of its loop, "download",     *)
(* "check" while the thread runs and "checked" when it is done.            *)

\* current()
Current ==
    /\ chunkTask.peer = syncPeer /\ link[syncPeer] = "ready"
    /\ chunkTask.round = sync[syncPeer].round

\* The task is about to run at this step of its loop.
TaskAt(step) == Free /\ chunkTask # NoTask /\ chunkTask.step = step

\* Mutant: headers are not asked for after the chunks.
ChunksEndSilently ==
    /\ chunkTask' = NoTask
    /\ UNCHANGED <<link, claim, banned, asked, sync, syncPeer>>

\* The finally clause: on to headers, unless the round is over.
ChunksEnd ==
    /\ chunkTask' = NoTask
    /\ IF Current THEN RequestHeaders(syncPeer, sync, asked) ELSE UNCHANGED <<sync, asked>>
    /\ UNCHANGED <<link, claim, banned, syncPeer>>

\* Mutant: the check of an abandoned round is not waited for.
NextChunkAtOnce ==
    /\ TaskAt("start")
    /\ IF Current /\ sealed < Chunks[syncPeer]
       THEN /\ chunkTask' = [chunkTask EXCEPT !.step = "download", !.index = sealed]
            /\ UNCHANGED <<link, claim, banned, asked, sync, syncPeer>>
       ELSE ChunksEnd
    /\ UNCHANGED <<vars, at, checks, threads, after>>

\* Waits for the check of an abandoned round, then asks for the next chunk.
NextChunk ==
    /\ TaskAt("start")
    /\ threads = {}
    /\ IF Current /\ sealed < Chunks[syncPeer]
       THEN /\ chunkTask' = [chunkTask EXCEPT !.step = "download", !.index = sealed]
            /\ UNCHANGED <<link, claim, banned, asked, sync, syncPeer>>
       ELSE ChunksEnd
    /\ UNCHANGED <<vars, at, checks, threads, after>>

\* The download fails, or the file is missing or too large.
DownloadFails ==
    /\ TaskAt("download")
    /\ ChunksEnd
    /\ UNCHANGED <<vars, at, checks, threads, after>>

\* The file is here and goes to a thread.
Downloaded ==
    /\ TaskAt("download")
    /\ IF Current
       THEN \E c \in PeerChain(syncPeer) :
               /\ Height[c] = (chunkTask.index + 1) * ChunkSize - 1
               /\ chunkTask' = [chunkTask EXCEPT !.step = "check", !.file = c]
               /\ threads' = threads \cup {[peer |-> chunkTask.peer, round |-> chunkTask.round]}
               /\ UNCHANGED <<link, claim, banned, asked, sync, syncPeer>>
       ELSE ChunksEnd /\ UNCHANGED threads
    /\ UNCHANGED <<vars, at, checks, after>>

\* A thread is done (_chunk_check_finished); its task goes on if it still waits.
ThreadEnds(t) ==
    /\ Free /\ t \in threads
    /\ threads' = threads \ {t}
    /\ chunkTask' = IF chunkTask.step = "check" /\ chunkTask.peer = t.peer /\ chunkTask.round = t.round
                    THEN [chunkTask EXCEPT !.step = "checked"] ELSE chunkTask
    /\ UNCHANGED <<vars, link, at, claim, banned, asked, sync, syncPeer, checks, after>>

\* The file is good and has the next index: it is imported ...
ChunkGood ==
    /\ TaskAt("checked") /\ Current
    /\ CheckedChunk(chunkTask.file) /\ chunkTask.index = sealed
    /\ ImportChunk(chunkTask.file)
    /\ after' = [kind |-> "chunk", index |-> sealed, fits |-> Continues(chunkTask.file)]
    /\ UNCHANGED <<link, at, claim, banned, asked, sync, syncPeer, checks, chunkTask, threads>>

\* ... or it is not, and the peer is banned, also if its connection has closed
\* meanwhile: the check raises before current() is asked ...
ChunkBad ==
    /\ TaskAt("checked")
    /\ ~CheckedChunk(chunkTask.file)
    /\ Drop(chunkTask.peer, TRUE, sync)
    /\ UNCHANGED <<vars, at, checks, threads, after>>

\* ... or the round is over, or we sealed a chunk meanwhile (chunk-not-next).
ChunkLate ==
    /\ TaskAt("checked")
    /\ CheckedChunk(chunkTask.file)
    /\ ~Current \/ chunkTask.index # sealed
    /\ ChunksEnd
    /\ UNCHANGED <<vars, at, checks, threads, after>>

\* import_chunk returns or raises: the next chunk; or headers, if the chunk is not
\* on our branch (chunk-not-next); or a ban, if a block breaks a rule.
FinishChunk ==
    /\ pc = "idle" /\ after.kind = "chunk"
    /\ IF sealed > after.index
       THEN /\ chunkTask' = [chunkTask EXCEPT !.step = "start"]
            /\ UNCHANGED <<link, claim, banned, asked, sync, syncPeer>>
       ELSE IF ~after.fits THEN ChunksEnd
       ELSE Drop(syncPeer, TRUE, sync)
    /\ after' = NoCall
    /\ UNCHANGED <<vars, at, checks, threads>>

ChunkStep ==
    NextChunk \/ DownloadFails \/ Downloaded \/ ChunkGood \/ ChunkBad \/ ChunkLate

-----------------------------------------------------------------------------
PInit ==
    /\ Init
    /\ link = [p \in Peer |-> "absent"]
    /\ at = [p \in Peer |-> 1]
    /\ claim = [p \in Peer |-> 0]
    /\ banned = {}
    /\ asked = [p \in Peer |-> <<>>]
    /\ sync = [p \in Peer |-> Fresh(0)]
    /\ syncPeer = NoPeer
    /\ checks = {}
    /\ chunkTask = NoTask
    /\ threads = {}
    /\ after = NoCall

\* The handler under way runs on by itself.
RunOn == (HandlerStep /\ UNCHANGED peerVars) \/ FinishBlock \/ FinishChunk

\* A peer's answer.
Reply(p) == HeadersArrive(p) \/ BlockArrives(p) \/ BlockAhead(p)

PNext ==
    \/ RunOn
    \/ \E p \in Peer : \/ Connect(p) \/ Announce(p) \/ Reply(p)
                        \/ Leave(p) \/ Misbehave(p) \/ ReaderEnds(p) \/ Stall(p)
    \/ \E t \in checks : CheckStep(t)
    \/ ChunkStep
    \/ \E t \in threads : ThreadEnds(t)

\* What the event loop, its threads and the peers that are not slow do by themselves.
LoopStep ==
    \/ RunOn
    \/ \E p \in Peer : ReaderEnds(p)
    \/ \E p \in Peer \ Slow : Reply(p)
    \/ \E t \in checks : CheckStep(t)
    \/ ChunkStep
    \/ \E t \in threads : ThreadEnds(t)

\* The loop does not stand still while something is due, and the timer comes round
\* to a peer that makes no progress.  No order among the due steps is assumed.
PSpec ==
    /\ PInit /\ [][PNext]_pvars
    /\ WF_pvars(LoopStep)
    /\ SF_pvars(\E p \in Slow : Stall(p))

-----------------------------------------------------------------------------
(* Properties *)

\* While a ready peer is being caught up from, something is under way that will
\* carry the catch-up on: an open question it will answer, a running check of this
\* very round, or the chunk task.  Without it the node would sit on sync_peer
\* until the timer drops a peer that did nothing wrong (_continue_sync).
SyncAlive ==
    Free /\ syncPeer # NoPeer /\ link[syncPeer] = "ready" =>
        LET s == sync[syncPeer]
            questions == ToSet(asked[syncPeer])
        IN  \/ s.awaiting /\ \E q \in questions : q.kind = "headers"
            \/ s.checking /\ \E t \in checks : t.peer = syncPeer /\ t.round = s.round
            \/ s.inFlight # {} /\ \A b \in s.inFlight : [kind |-> "block", id |-> b] \in questions
            \/ chunkTask.peer = syncPeer /\ chunkTask.round = s.round

\* A header check or an open question for headers belongs to the catch-up under
\* way, unless its peer is gone.  _check_headers ends a catch-up without looking at
\* the round (fork-below-finality), and _on_headers takes any answer while one is
\* awaited: that is safe because of this.  And at most one chunk file is checked at
\* a time, however often the catch-up is begun again, although the thread of an
\* abandoned one cannot be stopped (_sync_chunks waits for _chunk_check).
ChecksAreCurrent ==
    /\ \A t \in checks : link[t.peer] = "ready" =>
          t.peer = syncPeer /\ t.round = sync[t.peer].round /\ sync[t.peer].checking
    /\ \A p \in Peer : link[p] = "ready" /\ (\E q \in ToSet(asked[p]) : q.kind = "headers") =>
          p = syncPeer /\ sync[p].awaiting
    /\ Cardinality(threads) <= 1

\* A peer that follows the rules is never banned, whatever others send, whatever
\* branch we are on and whatever arrives out of turn (_HARMLESS_BLOCK_ERRORS,
\* chunk-not-next).
HonestNotBanned == banned \subseteq Faulty

\* No ready peer that claims more work than ours is passed over for ever: it is
\* caught up from, found wanting, or gone (_maybe_sync).
ClaimsSettled ==
    \A p \in Peer : (link[p] = "ready" /\ claim[p] > ChainWork[Tip])
                        ~> (link[p] # "ready" \/ claim[p] <= ChainWork[Tip])

\* The catch-up the header comment promises: "when a peer has more total work than
\* us (from its hello), or sends a block whose parent we lack, we catch up from it".
\* A ready peer that keeps to the rules and has a heavier chain does not stay ahead
\* of us.
CatchesUp ==
    \A p \in Peer \ Faulty :
        (link[p] = "ready" /\ ChainWork[Tips[p][at[p]]] > ChainWork[Tip])
            ~> (link[p] # "ready" \/ ChainWork[Tips[p][at[p]]] <= ChainWork[Tip])
=============================================================================
