----------------------------- MODULE SyncProofs -----------------------------
(***************************************************************************)
(* Catching up, for any number of peers and connections that fail in any   *)
(* way: the questions, checks and tasks under way belong to the catch-up   *)
(* of sync_peer, there is always one that carries it on, and no peer that  *)
(* follows the rules is banned.                                            *)
(***************************************************************************)
EXTENDS PeerSync, ChainManagerProofs, FiniteSetTheorems

-----------------------------------------------------------------------------
(* Types *)

Question ==
    [kind : {"headers"}, head : Block \cup {NoBlock}, ours : Block] \cup [kind : {"block"}, id : Block]

Fields ==
    [round : Nat, tip : Block \cup {NoBlock}, wanted : Seq(Block), inFlight : SUBSET Block,
     more : BOOLEAN, awaiting : BOOLEAN, checking : BOOLEAN]

\* A running check, with as many headers passed as there are.
Checks ==
    {t \in [peer : Peer, round : Nat, step : {"new", "pow"}, headers : Seq(Block), known : Nat,
            passed : Nat, anchor : Block \cup {NoBlock}] : t.passed <= Len(t.headers)}

\* The chunk task has a file once it is downloaded.
Tasks ==
    {NoTask}
    \cup [peer : Peer, round : Nat, step : {"start", "download"}, index : Nat,
          file : Block \cup {NoBlock}]
    \cup [peer : Peer, round : Nat, step : {"check", "checked"}, index : Nat, file : Block]

Calls ==
    {NoCall} \cup [kind : {"block"}, peer : Peer, id : Block, syncing : BOOLEAN,
                   harmless : BOOLEAN]
             \cup [kind : {"chunk"}, index : Nat, fits : BOOLEAN]

\* What the provers need to know of the values.
SyncTypes ==
    /\ link \in [Peer -> {"absent", "ready", "closed", "gone"}]
    /\ at \in [Peer -> Nat] /\ \A p \in Peer : at[p] \in DOMAIN Tips[p]
    /\ asked \in [Peer -> Seq(Question)]
    /\ sync \in [Peer -> Fields]
    /\ syncPeer \in Peer \cup {NoPeer}
    /\ checks \subseteq Checks
    /\ chunkTask \in Tasks
    /\ after \in Calls

-----------------------------------------------------------------------------
(* The invariant, of explicit values: the helpers of p2p.py are called one *)
(* from the other with the values their caller has changed.                *)

AsksHeaders(qs) == \E i \in 1..Len(qs) : qs[i].kind = "headers"
AsksBlock(qs, b) == \E i \in 1..Len(qs) : qs[i] = [kind |-> "block", id |-> b]

\* At most one question for headers is open.
AsksOnce(qs) ==
    \A i, j \in 1..Len(qs) : qs[i].kind = "headers" /\ qs[j].kind = "headers" => i = j

\* The chunk task of peer p's catch-up.
TaskOf(p, s, task) == task.peer = p /\ task.round = s.round

\* p's questions, checks and tasks while it is caught up from: one at a time.
OneAtATime(p, s, qs, cs, task, call) ==
    /\ s.awaiting <=> AsksHeaders(qs)
    /\ AsksOnce(qs)
    /\ \A t \in cs : t.peer = p => t.round = s.round
    /\ \A t, u \in cs : t.peer = p /\ u.peer = p => t = u
    /\ s.checking <=> \E t \in cs : t.peer = p
    /\ \A b \in s.inFlight :
          AsksBlock(qs, b) \/ (call.kind = "block" /\ call.peer = p /\ call.syncing /\ call.id = b)
    /\ ~(s.awaiting /\ s.checking)
    /\ TaskOf(p, s, task) => ~s.awaiting /\ ~s.checking /\ s.inFlight = {}

\* ... and always one.
Busy(p, s, task) == s.awaiting \/ s.checking \/ s.inFlight # {} \/ TaskOf(p, s, task)

\* No ready peer but sp has an open question for headers, or a running check.
OnlyOf(sp, links, questions, cs) ==
    \A p \in Peer \ {sp} : links[p] = "ready" =>
        ~AsksHeaders(questions[p]) /\ \A t \in cs : t.peer # p

Core(links, syncs, questions, sp, cs, task, call) ==
    /\ OnlyOf(sp, links, questions, cs)
    /\ sp \in Peer /\ links[sp] = "ready"
          => /\ OneAtATime(sp, syncs[sp], questions[sp], cs, task, call)
             /\ Busy(sp, syncs[sp], task)

\* Peers that have not said hello, handlers under way, and threads.
Rest ==
    /\ \A p \in Peer : link[p] = "absent" =>
          asked[p] = <<>> /\ p # syncPeer /\ \A t \in checks : t.peer # p
    /\ after.kind = "block" =>
          /\ link[after.peer] = "ready"
          /\ after.syncing => after.id \in sync[after.peer].inFlight
    /\ after.kind = "chunk" => chunkTask # NoTask /\ Current
    /\ \A t, u \in threads : t = u
    /\ chunkTask.step = "download" => threads = {}

SyncInv ==
    SyncTypes /\ Rest /\ Core(link, sync, asked, syncPeer, checks, chunkTask, after)

-----------------------------------------------------------------------------
(* Lists of questions *)

\* What a list of questions asks for, from its elements.
LEMMA AskedAppend ==
    ASSUME NEW qs \in Seq(Question), NEW q \in Question
    PROVE  /\ Append(qs, q) \in Seq(Question)
           /\ AsksHeaders(Append(qs, q)) <=> AsksHeaders(qs) \/ q.kind = "headers"
           /\ AsksOnce(qs) /\ ~(AsksHeaders(qs) /\ q.kind = "headers") => AsksOnce(Append(qs, q))
           /\ ~AsksHeaders(qs) => AsksOnce(Append(qs, q))
           /\ \A b \in Block : AsksBlock(qs, b) => AsksBlock(Append(qs, q), b)
  <1> DEFINE t == Append(qs, q)
  <1>1. /\ t \in Seq(Question) /\ Len(t) = Len(qs) + 1 /\ t[Len(qs) + 1] = q
        /\ \A i \in 1..Len(qs) : t[i] = qs[i]
    BY AppendProperties
  <1>2. Len(qs) \in Nat
    BY LenProperties
  <1> HIDE DEF t
  <1>3. 1..Len(t) = 1..Len(qs) \cup {Len(qs) + 1}
    BY <1>1, <1>2
  <1>4. AsksHeaders(t) <=> AsksHeaders(qs) \/ q.kind = "headers"
    BY <1>1, <1>3 DEF AsksHeaders
  <1>5. AsksOnce(qs) /\ ~(AsksHeaders(qs) /\ q.kind = "headers") => AsksOnce(t)
    BY <1>1, <1>3 DEF AsksHeaders, AsksOnce
  <1>6. ~AsksHeaders(qs) => AsksOnce(t)
    BY <1>1, <1>3 DEF AsksHeaders, AsksOnce
  <1>7. \A b \in Block : AsksBlock(qs, b) => AsksBlock(t, b)
    BY <1>1, <1>3 DEF AsksBlock
  <1> QED
    BY <1>1, <1>4, <1>5, <1>6, <1>7 DEF t

LEMMA AskedTail ==
    ASSUME NEW qs \in Seq(Question), qs # <<>>
    PROVE  /\ Tail(qs) \in Seq(Question) /\ Head(qs) \in Question
           /\ AsksHeaders(Tail(qs)) => AsksHeaders(qs)
           /\ AsksOnce(qs) => AsksOnce(Tail(qs))
           /\ Head(qs).kind = "headers" => AsksHeaders(qs)
           /\ Head(qs).kind = "headers" /\ AsksOnce(qs) => ~AsksHeaders(Tail(qs))
           /\ Head(qs).kind # "headers" /\ AsksHeaders(qs) => AsksHeaders(Tail(qs))
           /\ \A b \in Block : AsksBlock(qs, b) =>
                 Head(qs) = [kind |-> "block", id |-> b] \/ AsksBlock(Tail(qs), b)
  <1> DEFINE t == Tail(qs)
             h == Head(qs)
  <1>1. /\ t \in Seq(Question) /\ h \in Question /\ Len(t) = Len(qs) - 1
        /\ \A i \in 1..Len(t) : t[i] = qs[i + 1]
    BY HeadTailProperties
  <1>2. Len(qs) \in Nat /\ Len(qs) >= 1
    BY LenProperties, EmptySeq
  <1>3. h = qs[1]
    BY <1>2
  <1> HIDE DEF t, h
  <1>4. 1 \in 1..Len(qs) /\ \A i \in 1..Len(t) : i + 1 \in 1..Len(qs) /\ i + 1 # 1
    BY <1>1, <1>2
  <1>5. \A j \in 1..Len(qs) : j = 1 \/ \E i \in 1..Len(t) : j = i + 1 /\ t[i] = qs[j]
    <2> SUFFICES ASSUME NEW j \in 1..Len(qs), j # 1
                 PROVE  \E i \in 1..Len(t) : j = i + 1 /\ t[i] = qs[j]
      OBVIOUS
    <2>1. j - 1 \in 1..Len(t) /\ j = (j - 1) + 1
      BY <1>1, <1>2
    <2> QED
      BY <1>1, <2>1
  <1>6. AsksHeaders(t) => AsksHeaders(qs)
    BY <1>1, <1>4 DEF AsksHeaders
  <1>7. AsksOnce(qs) => AsksOnce(t)
    <2> SUFFICES ASSUME AsksOnce(qs), NEW i \in 1..Len(t), NEW j \in 1..Len(t),
                        t[i].kind = "headers", t[j].kind = "headers"
                 PROVE  i = j
      BY DEF AsksOnce
    <2>1. i + 1 = j + 1
      BY <1>1, <1>4 DEF AsksOnce
    <2> QED
      BY <2>1
  <1>8. h.kind = "headers" => AsksHeaders(qs)
    BY <1>3, <1>4 DEF AsksHeaders
  <1>9. h.kind = "headers" /\ AsksOnce(qs) => ~AsksHeaders(t)
    BY <1>1, <1>3, <1>4 DEF AsksHeaders, AsksOnce
  <1>10. h.kind # "headers" /\ AsksHeaders(qs) => AsksHeaders(t)
    BY <1>3, <1>5 DEF AsksHeaders
  <1>11. \A b \in Block : AsksBlock(qs, b) => h = [kind |-> "block", id |-> b] \/ AsksBlock(t, b)
    BY <1>3, <1>5 DEF AsksBlock
  <1> QED
    BY <1>1, <1>6, <1>7, <1>8, <1>9, <1>10, <1>11 DEF t, h

\* Questions for the blocks of a batch.
LEMMA AskedBatch ==
    ASSUME NEW qs \in Seq(Question), NEW batch \in Seq(Block),
           NEW ks, ks = [i \in 1..Len(batch) |-> [kind |-> "block", id |-> batch[i]]]
    PROVE  /\ qs \o ks \in Seq(Question)
           /\ AsksHeaders(qs \o ks) <=> AsksHeaders(qs)
           /\ AsksOnce(qs) => AsksOnce(qs \o ks)
           /\ \A b \in ToSet(batch) : AsksBlock(qs \o ks, b)
  <1>1. Len(batch) \in Nat /\ Len(qs) \in Nat /\ \A i \in 1..Len(batch) : batch[i] \in Block
    BY LenProperties, ElementOfSeq
  <1>2. ks \in Seq(Question) /\ Len(ks) = Len(batch)
    <2>1. \A i \in 1..Len(batch) : [kind |-> "block", id |-> batch[i]] \in Question
      BY <1>1 DEF Question
    <2>2. ks \in [1..Len(batch) -> Question]
      BY <2>1
    <2>3. ks \in Seq(Question)
      BY <1>1, <2>2, SeqDef
    <2>4. DOMAIN ks = 1..Len(ks) /\ DOMAIN ks = 1..Len(batch) /\ Len(ks) \in Nat
      BY <2>2, <2>3, LenProperties
    <2> QED
      BY <1>1, <2>3, <2>4
  <1>3. \A i \in 1..Len(batch) : ks[i] = [kind |-> "block", id |-> batch[i]]
    OBVIOUS
  <1> DEFINE t == qs \o ks
  <1>4. /\ t \in Seq(Question) /\ Len(t) = Len(qs) + Len(ks)
        /\ \A i \in 1..(Len(qs) + Len(ks)) : t[i] = IF i <= Len(qs) THEN qs[i] ELSE ks[i - Len(qs)]
    BY <1>2, ConcatProperties
  <1> HIDE DEF t
  <1>5. \A i \in 1..Len(qs) : i \in 1..Len(t) /\ t[i] = qs[i]
    BY <1>1, <1>2, <1>4
  <1>6. ASSUME NEW i \in 1..Len(t), t[i].kind = "headers"
        PROVE  i \in 1..Len(qs)
    <2> SUFFICES ASSUME ~(i <= Len(qs)) PROVE FALSE
      BY <1>1
    <2>1. i - Len(qs) \in 1..Len(batch) /\ t[i] = ks[i - Len(qs)]
      BY <1>1, <1>2, <1>4
    <2>2. t[i].kind = "block"
      BY <1>3, <2>1
    <2> QED
      BY <1>6, <2>2
  <1>7. AsksHeaders(t) <=> AsksHeaders(qs)
    BY <1>5, <1>6 DEF AsksHeaders
  <1>8. AsksOnce(qs) => AsksOnce(t)
    BY <1>5, <1>6 DEF AsksOnce
  <1>9. ASSUME NEW b \in ToSet(batch) PROVE AsksBlock(t, b)
    <2>1. PICK i \in 1..Len(batch) : batch[i] = b
      BY SetOfList, ListFacts
    <2>2. /\ i + Len(qs) \in 1..Len(t) /\ ~(i + Len(qs) <= Len(qs))
          /\ (i + Len(qs)) - Len(qs) = i
      BY <1>1, <1>2, <1>4
    <2>3. t[i + Len(qs)] = ks[i]
      BY <1>2, <1>4, <2>2
    <2> QED
      BY <1>3, <2>1, <2>2, <2>3 DEF AsksBlock
  <1> QED
    BY <1>4, <1>7, <1>8, <1>9 DEF t


-----------------------------------------------------------------------------
(* _request_headers, _start_sync, _maybe_sync and _end_sync *)

\* Nobody is asked for headers, and nothing is checked, of the peers that are ready.
Quiet(links, questions, cs) == OnlyOf(NoPeer, links, questions, cs)

\* The fields and questions a helper is called with.
HelperTypes(syncs, questions) ==
    syncs \in [Peer -> Fields] /\ questions \in [Peer -> Seq(Question)]

LEMMA RequestFacts ==
    ASSUME Tip \in Block, NEW p \in Peer, NEW syncs, NEW questions, HelperTypes(syncs, questions),
           RequestHeaders(p, syncs, questions)
    PROVE  /\ HelperTypes(sync', asked')
           /\ \A q \in Peer \ {p} : sync'[q] = syncs[q] /\ asked'[q] = questions[q]
           /\ sync'[p].awaiting /\ sync'[p].round = syncs[p].round
           /\ sync'[p].checking = syncs[p].checking /\ sync'[p].inFlight = syncs[p].inFlight
           /\ AsksHeaders(asked'[p])
           /\ ~AsksHeaders(questions[p]) => AsksOnce(asked'[p])
           /\ \A b \in Block : AsksBlock(questions[p], b) => AsksBlock(asked'[p], b)
  <1> DEFINE q == [kind |-> "headers", head |-> syncs[p].tip, ours |-> Tip]
  <1>1. syncs[p] \in Fields /\ questions[p] \in Seq(Question)
    BY DEF HelperTypes
  <1>2. q \in Question /\ q.kind = "headers"
    BY <1>1 DEF Question, Fields
  <1>3. /\ sync' = [syncs EXCEPT ![p].awaiting = TRUE]
        /\ asked' = [questions EXCEPT ![p] = Append(@, q)]
    BY DEF RequestHeaders
  <1> HIDE DEF q
  <1>4. asked'[p] = Append(questions[p], q)
    BY <1>3 DEF HelperTypes
  <1>5. /\ sync'[p] \in Fields
        /\ sync'[p].awaiting /\ sync'[p].round = syncs[p].round
        /\ sync'[p].checking = syncs[p].checking /\ sync'[p].inFlight = syncs[p].inFlight
    BY <1>1, <1>3 DEF HelperTypes, Fields
  <1>6. \A r \in Peer \ {p} : sync'[r] = syncs[r] /\ asked'[r] = questions[r]
    BY <1>3 DEF HelperTypes
  <1>7. /\ Append(questions[p], q) \in Seq(Question) /\ AsksHeaders(asked'[p])
        /\ ~AsksHeaders(questions[p]) => AsksOnce(asked'[p])
        /\ \A b \in Block : AsksBlock(questions[p], b) => AsksBlock(asked'[p], b)
    BY <1>1, <1>2, <1>4, AskedAppend
  <1>8. HelperTypes(sync', asked')
    BY <1>3, <1>4, <1>5, <1>6, <1>7 DEF HelperTypes
  <1> QED
    BY <1>5, <1>6, <1>7, <1>8

\* What holds once _start_sync or _maybe_sync has returned.
Chosen(links, questions, cs) ==
    /\ HelperTypes(sync', asked')
    /\ syncPeer' \in Peer \cup {NoPeer} /\ chunkTask' \in Tasks /\ chunkTask'.step = "start"
    /\ syncPeer' \in Peer => links[syncPeer'] = "ready"
    /\ \A q \in Peer : links[q] # "ready" => asked'[q] = questions[q]
    /\ Core(links, sync', asked', syncPeer', cs, chunkTask', NoCall)

LEMMA StartSyncFacts ==
    ASSUME Tip \in Block, NEW p \in Peer, NEW syncs, NEW questions, HelperTypes(syncs, questions),
           NEW links, links[p] = "ready", NEW cs, Quiet(links, questions, cs),
           StartSync(p, syncs, questions)
    PROVE  Chosen(links, questions, cs)
  <1> DEFINE round == syncs[p].round + 1
             fresh == [syncs EXCEPT ![p] = Fresh(round)]
  <1>1. syncs \in [Peer -> Fields] /\ syncs[p] \in Fields /\ questions[p] \in Seq(Question)
    BY DEF HelperTypes
  <1>2. round \in Nat
    BY <1>1 DEF Fields
  <1>3. /\ Fresh(round) \in Fields /\ Fresh(round).round = round /\ Fresh(round).inFlight = {}
        /\ Fresh(round).awaiting = FALSE /\ Fresh(round).checking = FALSE
    <2> HIDE DEF round
    <2>1. <<>> \in Seq(Block)
      BY EmptySeq
    <2> QED
      BY <1>2, <2>1 DEF Fresh, Fields
  <1>4. p # NoPeer /\ NoPeer \notin Peer
    BY SyncAssumption
  <1>5. ~AsksHeaders(questions[p]) /\ \A t \in cs : t.peer # p
    BY <1>4 DEF Quiet, OnlyOf
  <1>6. syncPeer' = p
    BY DEF StartSync
  <1> HIDE DEF round
  <1>7. HelperTypes(fresh, questions) /\ fresh[p] = Fresh(round)
    BY <1>1, <1>3 DEF HelperTypes
  <1>8. CASE Chunks[p] > sealed
    <2>1. /\ chunkTask' = [NoTask EXCEPT !.peer = p, !.round = round]
          /\ sync' = fresh /\ asked' = questions
      BY <1>8 DEF StartSync, round
    <2>2. /\ chunkTask' \in Tasks /\ chunkTask'.step = "start"
          /\ chunkTask'.peer = p /\ chunkTask'.round = round
      BY <1>2, <2>1 DEF NoTask, Tasks
    <2>3. OneAtATime(p, sync'[p], asked'[p], cs, chunkTask', NoCall)
      BY <1>3, <1>5, <1>7, <2>1 DEF OneAtATime, AsksOnce, AsksHeaders
    <2>4. Busy(p, sync'[p], chunkTask')
      BY <1>3, <1>7, <2>1, <2>2 DEF Busy, TaskOf
    <2>5. OnlyOf(p, links, asked', cs)
      BY <1>4, <2>1 DEF Quiet, OnlyOf
    <2>6. Core(links, sync', asked', syncPeer', cs, chunkTask', NoCall)
      BY <1>6, <2>3, <2>4, <2>5 DEF Core
    <2> QED
      BY <1>6, <1>7, <2>1, <2>2, <2>6 DEF Chosen
  <1>9. CASE ~(Chunks[p] > sealed)
    <2>1. chunkTask' = NoTask /\ RequestHeaders(p, fresh, questions)
      BY <1>9 DEF StartSync, round
    <2>2. chunkTask' \in Tasks /\ chunkTask'.step = "start" /\ chunkTask'.peer = NoPeer
      BY <2>1 DEF NoTask, Tasks
    <2> HIDE DEF fresh
    <2>3. /\ HelperTypes(sync', asked')
          /\ \A q \in Peer \ {p} : asked'[q] = questions[q]
          /\ sync'[p].awaiting /\ sync'[p].round = round
          /\ sync'[p].checking = FALSE /\ sync'[p].inFlight = {}
          /\ AsksHeaders(asked'[p]) /\ AsksOnce(asked'[p])
      BY <1>3, <1>5, <1>7, <2>1, RequestFacts
    <2>4. OneAtATime(p, sync'[p], asked'[p], cs, chunkTask', NoCall)
      BY <1>4, <1>5, <2>2, <2>3 DEF OneAtATime, TaskOf
    <2>5. Busy(p, sync'[p], chunkTask')
      BY <2>3 DEF Busy
    <2>6. OnlyOf(p, links, asked', cs)
      BY <1>4, <2>3 DEF Quiet, OnlyOf
    <2>7. Core(links, sync', asked', syncPeer', cs, chunkTask', NoCall)
      BY <1>6, <2>4, <2>5, <2>6 DEF Core
    <2> QED
      BY <1>6, <2>2, <2>3, <2>7 DEF Chosen
  <1> QED
    BY <1>8, <1>9

LEMMA MaybeSyncFacts ==
    ASSUME Tip \in Block, NEW syncs, NEW questions, HelperTypes(syncs, questions), NEW links,
           NEW cs, Quiet(links, questions, cs), NEW claims, MaybeSync(links, claims, syncs, questions)
    PROVE  Chosen(links, questions, cs)
  <1>1. CASE \E p \in Peer : links[p] = "ready" /\ StartSync(p, syncs, questions)
    BY <1>1, StartSyncFacts
  <1>2. CASE /\ syncPeer' = NoPeer /\ chunkTask' = NoTask
             /\ sync' = syncs /\ asked' = questions
    <2>1. chunkTask' \in Tasks /\ chunkTask'.step = "start"
      BY <1>2 DEF NoTask, Tasks
    <2>2. NoPeer \notin Peer
      BY SyncAssumption
    <2> QED
      BY <1>2, <2>1, <2>2 DEF Chosen, Core, Quiet
  <1> QED
    BY <1>1, <1>2 DEF MaybeSync

LEMMA EndSyncFacts ==
    ASSUME Tip \in Block, NEW p \in Peer, NEW syncs, HelperTypes(syncs, asked),
           NEW cs, Quiet(link, asked, cs), NEW claims, NEW useless, EndSync(p, claims, syncs, useless)
    PROVE  Chosen(link, asked, cs)
  <1> DEFINE ended == [syncs EXCEPT ![p] = [@ EXCEPT !.tip = NoBlock, !.more = FALSE,
                                                     !.wanted = <<>>, !.inFlight = {}]]
  <1>1. HelperTypes(ended, asked)
    <2>1. <<>> \in Seq(Block)
      BY EmptySeq
    <2>2. syncs \in [Peer -> Fields] /\ syncs[p] \in Fields
      BY DEF HelperTypes
    <2>3. [syncs[p] EXCEPT !.tip = NoBlock, !.more = FALSE, !.wanted = <<>>, !.inFlight = {}] \in Fields
      BY <2>1, <2>2 DEF Fields
    <2> QED
      BY <2>2, <2>3 DEF HelperTypes
  <1>2. PICK lowered : MaybeSync(link, lowered, ended, asked)
    BY DEF EndSync
  <1> HIDE DEF ended
  <1> QED
    BY <1>1, <1>2, MaybeSyncFacts


-----------------------------------------------------------------------------
(* _continue_sync *)

\* What holds once _continue_sync has returned.
Continued(cs) ==
    /\ HelperTypes(sync', asked')
    /\ syncPeer' \in Peer \cup {NoPeer} /\ chunkTask' \in Tasks
    /\ chunkTask' = chunkTask \/ chunkTask'.step = "start"
    /\ syncPeer' = syncPeer \/ (syncPeer' \in Peer => link[syncPeer'] = "ready")
    /\ \A q \in Peer : link[q] # "ready" => asked'[q] = asked[q]
    /\ Core(link, sync', asked', syncPeer', cs, chunkTask', NoCall)

\* The blocks still wanted, from the first that is not stored.
LEMMA WantedFacts ==
    ASSUME NEW s \in Seq(Block), NEW news, news = SelectInSeq(s, LAMBDA b : ~Known(b)),
           NEW wanted, wanted = IF news = 0 THEN <<>> ELSE SubSeq(s, news, Len(s))
    PROVE  wanted \in Seq(Block)
  <1> DEFINE I == {i \in 1..Len(s) : ~Known(s[i])}
  <1>1. Len(s) \in Nat /\ \A i \in 1..Len(s) : s[i] \in Block
    BY LenProperties, ElementOfSeq
  <1>2. news = IF I # {} THEN Min(I) ELSE 0
    BY DEF SelectInSeq
  <1>3. CASE I # {}
    <2>1. I \in SUBSET Nat /\ \A i \in I : i \in 1..Len(s)
      BY <1>1
    <2> HIDE DEF I
    <2>2. \E x \in I : \A y \in I : x <= y
      BY <1>3, <2>1, LeastNumber
    <2>3. Min(I) \in I
      BY <2>2 DEF Min
    <2>4. news \in 1..Len(s) /\ news \in Int /\ news # 0 /\ Len(s) \in Int
      BY <1>1, <1>2, <1>3, <2>1, <2>3
    <2>5. \A i \in news..Len(s) : s[i] \in Block
      BY <1>1, <2>4
    <2>6. SubSeq(s, news, Len(s)) \in Seq(Block)
      BY <2>4, <2>5, SubSeqProperties
    <2> QED
      BY <2>4, <2>6
  <1>4. CASE I = {}
    BY <1>2, <1>4, EmptySeq
  <1> QED
    BY <1>3, <1>4

LEMMA ContinueFacts ==
    ASSUME Tip \in Block, NEW p \in Peer, link[p] = "ready",
           NEW syncs, HelperTypes(syncs, asked), NEW cs,
           syncPeer \in Peer \cup {NoPeer}, chunkTask \in Tasks,
           OnlyOf(syncPeer, link, asked, cs),
           p = syncPeer => /\ OneAtATime(p, syncs[p], asked[p], cs, chunkTask, NoCall)
                           /\ ~TaskOf(p, syncs[p], chunkTask),
           p # syncPeer => Core(link, syncs, asked, syncPeer, cs, chunkTask, NoCall),
           NEW claims, ContinueSync(p, claims, syncs)
    PROVE  Continued(cs)
  <1> DEFINE s == syncs[p]
             news == SelectInSeq(s.wanted, LAMBDA b : ~Known(b))
             wanted == IF news = 0 THEN <<>> ELSE SubSeq(s.wanted, news, Len(s.wanted))
             size == IF Len(wanted) < BatchSize THEN Len(wanted) ELSE BatchSize
             batch == SubSeq(wanted, 1, size)
             left == [syncs EXCEPT ![p].wanted = wanted]
             ks == [i \in 1..size |-> [kind |-> "block", id |-> batch[i]]]
             rest == SubSeq(wanted, size + 1, Len(wanted))
             sent == [left EXCEPT ![p] = [@ EXCEPT !.wanted = rest, !.inFlight = ToSet(batch)]]
  <1>1. /\ syncs \in [Peer -> Fields] /\ s \in Fields
        /\ asked \in [Peer -> Seq(Question)] /\ asked[p] \in Seq(Question)
    BY DEF HelperTypes
  <1>2. wanted \in Seq(Block)
    BY <1>1, WantedFacts DEF Fields
  <1>3. CASE /\ p # syncPeer \/ s.inFlight # {} \/ s.awaiting \/ s.checking
             /\ sync' = syncs /\ UNCHANGED <<asked, syncPeer, chunkTask>>
    <2>1. CASE p # syncPeer
      BY <1>1, <1>3, <2>1 DEF Continued
    <2>2. CASE p = syncPeer
      <3>1. Busy(p, syncs[p], chunkTask)
        BY <1>3, <2>2 DEF Busy
      <3>2. Core(link, sync', asked', syncPeer', cs, chunkTask', NoCall)
        BY <1>3, <2>2, <3>1 DEF Core
      <3> QED
        BY <1>3, <3>2 DEF Continued
    <2> QED
      BY <2>1, <2>2
  <1> SUFFICES ASSUME /\ p = syncPeer /\ s.inFlight = {} /\ ~s.awaiting /\ ~s.checking
                      /\ \/ /\ wanted # <<>>
                            /\ sync' = sent /\ asked' = [asked EXCEPT ![p] = @ \o ks]
                            /\ UNCHANGED <<syncPeer, chunkTask>>
                         \/ /\ RequestHeaders(p, left, asked)
                            /\ UNCHANGED <<syncPeer, chunkTask>>
                         \/ EndSync(p, claims, left, FALSE)
               PROVE  Continued(cs)
    BY <1>3 DEF ContinueSync
  <1>4. /\ ~AsksHeaders(asked[p]) /\ AsksOnce(asked[p])
        /\ \A t \in cs : t.peer # p
        /\ ~TaskOf(p, s, chunkTask)
    BY DEF OneAtATime
  <1> HIDE DEF wanted
  <1>5. /\ left \in [Peer -> Fields] /\ left[p].round = s.round /\ left[p].inFlight = {}
        /\ ~left[p].awaiting /\ ~left[p].checking
        /\ \A q \in Peer \ {p} : left[q] = syncs[q]
    <2>1. left[p] = [s EXCEPT !.wanted = wanted]
      BY <1>1
    <2>2. /\ [s EXCEPT !.wanted = wanted] \in Fields
          /\ [s EXCEPT !.wanted = wanted].round = s.round
          /\ [s EXCEPT !.wanted = wanted].inFlight = s.inFlight
          /\ [s EXCEPT !.wanted = wanted].awaiting = s.awaiting
          /\ [s EXCEPT !.wanted = wanted].checking = s.checking
      BY <1>1, <1>2 DEF Fields
    <2> QED
      BY <1>1, <2>1, <2>2
  <1> HIDE DEF left, size
  <1>6. CASE /\ wanted # <<>>
             /\ sync' = sent /\ asked' = [asked EXCEPT ![p] = @ \o ks]
             /\ UNCHANGED <<syncPeer, chunkTask>>
    <2>1. Len(wanted) \in Nat /\ Len(wanted) >= 1 /\ BatchSize \in Nat /\ BatchSize >= 1
      BY <1>2, <1>6, LenProperties, EmptySeq, SyncAssumption
    <2>2. size \in 1..Len(wanted)
      BY <2>1 DEF size
    <2>3. \A i \in 1..Len(wanted) : wanted[i] \in Block
      BY <1>2, ElementOfSeq
    <2>4. batch \in Seq(Block) /\ Len(batch) = size
      <3>1. size \in Int /\ 1 \in Int /\ 1 <= size /\ size - 1 + 1 = size
        BY <2>1, <2>2
      <3>2. \A i \in 1..size : wanted[i] \in Block
        BY <2>1, <2>2, <2>3
      <3> QED
        BY <3>1, <3>2, SubSeqProperties
    <2>5. rest \in Seq(Block)
      <3>1. size + 1 \in Int /\ Len(wanted) \in Int
        BY <2>1, <2>2
      <3>2. \A i \in (size + 1)..Len(wanted) : wanted[i] \in Block
        BY <2>1, <2>2, <2>3
      <3> QED
        BY <3>1, <3>2, SubSeqProperties
    <2> HIDE DEF batch, rest
    <2>6. ToSet(batch) \in SUBSET Block /\ ToSet(batch) # {}
      <3>1. 1 \in 1..Len(batch)
        BY <2>1, <2>2, <2>4
      <3> QED
        BY <2>4, <3>1, SetOfList, ListFacts
    <2>7. /\ asked[p] \o ks \in Seq(Question)
          /\ AsksHeaders(asked[p] \o ks) <=> AsksHeaders(asked[p])
          /\ AsksOnce(asked[p]) => AsksOnce(asked[p] \o ks)
          /\ \A b \in ToSet(batch) : AsksBlock(asked[p] \o ks, b)
      BY <1>1, <2>4, AskedBatch
    <2> HIDE DEF ks
    <2>8. /\ sync'[p] \in Fields /\ sync'[p].round = s.round /\ sync'[p].inFlight = ToSet(batch)
          /\ ~sync'[p].awaiting /\ ~sync'[p].checking
      <3> DEFINE l == left[p]
      <3>1. sync'[p] = [l EXCEPT !.wanted = rest, !.inFlight = ToSet(batch)] /\ l \in Fields
        BY <1>5, <1>6
      <3> HIDE DEF l
      <3>2. /\ sync'[p] \in Fields /\ sync'[p].round = l.round /\ sync'[p].inFlight = ToSet(batch)
            /\ sync'[p].awaiting = l.awaiting /\ sync'[p].checking = l.checking
        BY <2>5, <2>6, <3>1 DEF Fields
      <3> QED
        BY <1>5, <3>2 DEF l
    <2>9. asked'[p] = asked[p] \o ks /\ \A q \in Peer \ {p} : asked'[q] = asked[q]
      BY <1>1, <1>6
    <2>10. HelperTypes(sync', asked')
      BY <1>1, <1>5, <1>6, <2>7, <2>8, <2>9 DEF HelperTypes
    <2>11. OneAtATime(p, sync'[p], asked'[p], cs, chunkTask', NoCall)
      BY <1>4, <1>6, <2>7, <2>8, <2>9 DEF OneAtATime, TaskOf
    <2>12. Busy(p, sync'[p], chunkTask')
      BY <2>6, <2>8 DEF Busy
    <2>13. Core(link, sync', asked', syncPeer', cs, chunkTask', NoCall)
      BY <1>6, <2>9, <2>11, <2>12 DEF Core, OnlyOf
    <2> QED
      BY <1>6, <2>9, <2>10, <2>13 DEF Continued
  <1>7. CASE RequestHeaders(p, left, asked) /\ UNCHANGED <<syncPeer, chunkTask>>
    <2>1. HelperTypes(left, asked)
      BY <1>1, <1>5 DEF HelperTypes
    <2>2. /\ HelperTypes(sync', asked')
          /\ \A q \in Peer \ {p} : asked'[q] = asked[q]
          /\ sync'[p].awaiting /\ sync'[p].round = s.round
          /\ ~sync'[p].checking /\ sync'[p].inFlight = {}
          /\ AsksHeaders(asked'[p]) /\ AsksOnce(asked'[p])
      BY <1>4, <1>5, <1>7, <2>1, RequestFacts
    <2>3. OneAtATime(p, sync'[p], asked'[p], cs, chunkTask', NoCall)
      BY <1>4, <1>7, <2>2 DEF OneAtATime, TaskOf
    <2>4. Busy(p, sync'[p], chunkTask')
      BY <2>2 DEF Busy
    <2>5. Core(link, sync', asked', syncPeer', cs, chunkTask', NoCall)
      BY <1>7, <2>2, <2>3, <2>4 DEF Core, OnlyOf
    <2> QED
      BY <1>7, <2>2, <2>5 DEF Continued
  <1>8. CASE EndSync(p, claims, left, FALSE)
    <2>1. HelperTypes(left, asked)
      BY <1>1, <1>5 DEF HelperTypes
    <2>2. Quiet(link, asked, cs)
      BY <1>4 DEF Quiet, OnlyOf
    <2>3. Chosen(link, asked, cs)
      BY <1>8, <2>1, <2>2, EndSyncFacts
    <2> QED
      BY <2>3 DEF Chosen, Continued
  <1> QED
    BY <1>6, <1>7, <1>8


-----------------------------------------------------------------------------
(* What a peer sends *)

\* A block has an ancestor at every height up to its own.
LEMMA AncestorAt ==
    ASSUME NEW b \in Block, NEW h \in Nat, h <= Height[b]
    PROVE  \E a \in Ancestors[b] : Height[a] = h
  <1>1. b \in Ancestors[b] /\ Ancestors[b] \subseteq Block /\ ParentClosed(Ancestors[b])
    BY AncestorsSelf, AncestorsClosed
  <1>2. \A a \in Ancestors[b] : Height[a] \in Nat /\ Parent[a] \in Block /\ Height[Parent[a]] \in Nat
    BY <1>1, BlockFacts
  <1> DEFINE T == {n \in Nat : n >= h /\ \E a \in Ancestors[b] : Height[a] = n}
  <1>3. T \in SUBSET Nat /\ Height[b] \in T
    BY <1>1, <1>2
  <1>4. PICK n \in T : \A m \in T : n <= m
    <2> HIDE DEF T
    <2> QED
      BY <1>3, LeastNumber
  <1>5. PICK a \in Ancestors[b] : Height[a] = n
    OBVIOUS
  <1>6. CASE n = h
    BY <1>5, <1>6
  <1>7. CASE n # h
    <2>1. n > h /\ n > 0
      BY <1>7
    <2>2. a # Genesis /\ a \in Block
      BY <1>1, <1>5, <2>1, TreeAssumption
    <2>3. Height[a] = Height[Parent[a]] + 1 /\ Parent[a] \in Ancestors[b]
      BY <1>1, <2>2, TreeAssumption DEF ParentClosed
    <2>4. Height[Parent[a]] \in T /\ ~(n <= Height[Parent[a]])
      BY <1>2, <1>5, <2>1, <2>3
    <2> QED
      BY <1>4, <2>4
  <1> QED
    BY <1>6, <1>7

\* The genesis block is everyone's ancestor.
LEMMA GenesisAncestor ==
    ASSUME NEW b \in Block
    PROVE  Genesis \in Ancestors[b]
  <1>1. 0 \in Nat /\ 0 <= Height[b]
    BY BlockFacts
  <1>2. PICK a \in Ancestors[b] : Height[a] = 0
    BY <1>1, AncestorAt
  <1>3. a \in Block
    BY AncestorsSelf
  <1>4. a # Genesis => Height[a] = Height[Parent[a]] + 1 /\ Height[Parent[a]] \in Nat
    BY <1>3, TreeAssumption, BlockFacts
  <1> QED
    BY <1>2, <1>4

\* The blocks of a peer.
LEMMA PeerBlocks ==
    ASSUME SyncTypes, NEW p \in Peer
    PROVE  /\ Tips[p][at[p]] \in Block /\ PeerChain(p) \subseteq Block
           /\ PeerHas(p) \subseteq Block
  <1>1. Tips[p] \in Seq(Block) /\ at[p] \in DOMAIN Tips[p] /\ at[p] \in Nat
    BY SyncAssumption DEF SyncTypes
  <1>2. Len(Tips[p]) \in Nat /\ DOMAIN Tips[p] = 1..Len(Tips[p])
        /\ \A i \in 1..Len(Tips[p]) : Tips[p][i] \in Block
    BY <1>1, ListFacts
  <1>3. Tips[p][at[p]] \in Block /\ \A i \in 1..at[p] : Tips[p][i] \in Block
    BY <1>1, <1>2
  <1>4. PeerChain(p) \subseteq Block
    BY <1>3, AncestorsSelf DEF PeerChain
  <1>5. PeerHas(p) \subseteq Block
    BY <1>3, AncestorsSelf DEF PeerHas
  <1> QED
    BY <1>3, <1>4, <1>5

\* headers_after: headers from one block of the peer's chain to a later one.
LEMMA HeadersAfterFacts ==
    ASSUME SyncTypes, NEW p \in Peer, NEW q \in Question, q.kind = "headers"
    PROVE  /\ HeadersAfter(p, q) \in Seq(Block)
           /\ \A i \in 1..Len(HeadersAfter(p, q)) : HeadersAfter(p, q)[i] \in PeerChain(p)
  <1> DEFINE chain == PeerChain(p)
             top == Tips[p][at[p]]
             X == chain \cap Ancestors[q.ours]
             common == IF q.head \in chain THEN q.head
                       ELSE CHOOSE b \in X : \A a \in X : Height[a] <= Height[b]
             following == Height[top] - Height[common]
             n == IF following > MaxHeaders THEN MaxHeaders ELSE following
             hs == [i \in 1..n |-> BlockAt(chain, Height[common] + i)]
  <1>1. top \in Block /\ chain = Ancestors[top] /\ chain \subseteq Block
    BY PeerBlocks DEF PeerChain
  <1>2. q.ours \in Block
    BY DEF Question
  <1>3. HeadersAfter(p, q) = hs
    BY DEF HeadersAfter
  <1> HIDE DEF chain, top
  <1>4. \A a \in chain : Height[a] \in Nat /\ Height[a] <= Height[top]
    <2>1. \A a \in chain : a \in Block /\ Height[a] \in Nat /\ Height[top] \in Nat
      BY <1>1, BlockFacts
    <2> QED
      BY <1>1, <2>1, AncestorsBelow
  <1>5. common \in chain
    <2>1. CASE q.head \in chain
      BY <2>1
    <2>2. CASE q.head \notin chain
      <3>1. Genesis \in X
        BY <1>1, <1>2, GenesisAncestor
      <3> DEFINE H == {Height[a] : a \in X}
      <3>2. \A a \in X : Height[a] \in Nat /\ Height[a] <= Height[top]
        BY <1>4
      <3>3. H \in SUBSET Int /\ H # {} /\ \A h \in H : h <= Height[top]
        BY <3>1, <3>2
      <3>4. Height[top] \in Int
        BY <1>1, BlockFacts
      <3>5. \E h \in H : \A g \in H : g <= h
        <4> HIDE DEF H
        <4> QED
          BY <3>3, <3>4, GreatestNumber
      <3>6. \E b \in X : \A a \in X : Height[a] <= Height[b]
        BY <3>5
      <3> HIDE DEF X
      <3>7. common \in X
        BY <2>2, <3>6
      <3> QED
        BY <3>7 DEF X
    <2> QED
      BY <2>1, <2>2
  <1> HIDE DEF common, X
  <1>6. Height[common] \in Nat /\ Height[top] \in Nat /\ following \in Nat
    BY <1>1, <1>4, <1>5, BlockFacts
  <1>7. n \in Nat /\ n <= following
    <2>1. MaxHeaders \in Nat
      BY SyncAssumption
    <2> QED
      BY <1>6, <2>1
  <1>8. ASSUME NEW i \in 1..n PROVE BlockAt(chain, Height[common] + i) \in chain
    <2> DEFINE h == Height[common] + i
    <2>1. h \in Nat /\ h <= Height[top]
      BY <1>6, <1>7
    <2> HIDE DEF h
    <2>2. \E a \in chain : Height[a] = h
      BY <1>1, <2>1, AncestorAt
    <2>3. BlockAt(chain, h) \in chain
      BY <2>2 DEF BlockAt
    <2> QED
      BY <2>3 DEF h
  <1> HIDE DEF n
  <1>9. hs \in [1..n -> chain] /\ hs \in [1..n -> Block]
    BY <1>1, <1>8
  <1> HIDE DEF hs
  <1>10. hs \in Seq(Block)
    BY <1>7, <1>9, SeqDef
  <1>11. DOMAIN hs = 1..Len(hs)
    BY <1>10, ListFacts
  <1> QED
    BY <1>3, <1>9, <1>10, <1>11 DEF chain

\* The answers are lists of blocks, the ones of an honest peer of its own chain.
LEMMA AnswerFacts ==
    ASSUME SyncTypes, NEW p \in Peer, NEW q \in Question, q.kind = "headers",
           NEW hs \in Answers(p, q)
    PROVE  /\ hs \in Seq(Block)
           /\ p \notin Faulty => \A i \in 1..Len(hs) : hs[i] \in PeerChain(p)
  <1> DEFINE all == HeadersAfter(p, q)
  <1>1. all \in Seq(Block) /\ \A i \in 1..Len(all) : all[i] \in PeerChain(p)
    BY HeadersAfterFacts
  <1>2. hs = all \/ (p \in Faulty /\ hs = Tail(all) /\ Len(all) > 1)
    BY DEF Answers
  <1> HIDE DEF all
  <1>3. Len(all) > 1 => Tail(all) \in Seq(Block)
    BY <1>1, HeadTailProperties
  <1> QED
    BY <1>1, <1>2, <1>3

\* How many headers are known is a number of them.
LEMMA KnownPrefixFacts ==
    ASSUME NEW hs \in Seq(Block)
    PROVE  KnownPrefix(hs) \in 0..Len(hs)
  <1> DEFINE K == {i \in DOMAIN hs : \A j \in 1..i : Known(hs[j])}
  <1>1. Len(hs) \in Nat /\ DOMAIN hs = 1..Len(hs)
    BY ListFacts
  <1>2. IsFiniteSet(1..Len(hs)) /\ Cardinality(1..Len(hs)) = Len(hs)
    BY <1>1, FS_Interval
  <1>3. K \in SUBSET (1..Len(hs))
    BY <1>1
  <1>4. KnownPrefix(hs) = Cardinality(K)
    BY DEF KnownPrefix
  <1> HIDE DEF K
  <1>5. IsFiniteSet(K) /\ Cardinality(K) <= Len(hs) /\ Cardinality(K) \in Nat
    BY <1>2, <1>3, FS_Subset, FS_CardinalityType
  <1> QED
    BY <1>1, <1>4, <1>5

\* The anchor is a block, or nothing.
LEMMA AnchorFacts ==
    ASSUME SyncTypes, NEW p \in Peer, NEW hs \in Seq(Block)
    PROVE  Anchor(p, hs) \in Block \cup {NoBlock}
  <1>1. sync[p].tip \in Block \cup {NoBlock}
    BY DEF SyncTypes, Fields
  <1>2. KnownPrefix(hs) \in 0..Len(hs) /\ Len(hs) \in Nat
    BY KnownPrefixFacts, ListFacts
  <1>3. \A i \in 1..Len(hs) : hs[i] \in Block
    BY ElementOfSeq
  <1>4. KnownPrefix(hs) > 0 => hs[KnownPrefix(hs)] \in Block
    BY <1>2, <1>3
  <1>5. hs # <<>> => hs[1] \in Block /\ Parent[hs[1]] \in Block
    <2>1. hs # <<>> => Len(hs) >= 1
      BY EmptySeq
    <2> QED
      BY <1>2, <1>3, <2>1, BlockFacts
  <1> QED
    BY <1>1, <1>4, <1>5 DEF Anchor


-----------------------------------------------------------------------------
(* Handlers *)

\* A call that is not a block's covers no block in flight.
LEMMA NoBlockCall ==
    ASSUME NEW links, NEW syncs, NEW questions, NEW sp, NEW cs, NEW task, NEW call,
           call.kind # "block", Core(links, syncs, questions, sp, cs, task, call)
    PROVE  Core(links, syncs, questions, sp, cs, task, NoCall)
  BY DEF Core, OneAtATime

\* The invariant after a handler that has come to its end.
LEMMA Assemble ==
    ASSUME SyncInv,
           link' \in [Peer -> {"absent", "ready", "closed", "gone"}],
           at' \in [Peer -> Nat], \A p \in Peer : at'[p] \in DOMAIN Tips[p],
           HelperTypes(sync', asked'),
           syncPeer' \in Peer \cup {NoPeer}, checks' \subseteq Checks, chunkTask' \in Tasks,
           after' = NoCall,
           \A p \in Peer : link'[p] = "absent" => link[p] = "absent" /\ asked'[p] = asked[p],
           syncPeer' = syncPeer \/ (syncPeer' \in Peer => link'[syncPeer'] = "ready"),
           \A t \in checks' : (\E u \in checks : u.peer = t.peer) \/ link'[t.peer] = "ready",
           \A t, u \in threads' : t = u,
           chunkTask'.step = "download" => threads' = {},
           Core(link', sync', asked', syncPeer', checks', chunkTask', NoCall)
    PROVE  SyncInv'
  <1>1. SyncTypes'
    BY DEF SyncTypes, HelperTypes, Calls
  <1>2. after'.kind # "block" /\ after'.kind # "chunk"
    BY DEF NoCall
  <1>3. ASSUME NEW p \in Peer, link'[p] = "absent"
        PROVE  asked'[p] = <<>> /\ p # syncPeer' /\ \A t \in checks' : t.peer # p
    <2>1. link[p] = "absent" /\ asked'[p] = asked[p]
      BY <1>3
    <2>2. asked[p] = <<>> /\ p # syncPeer /\ \A t \in checks : t.peer # p
      BY <2>1 DEF SyncInv, Rest
    <2>3. p # syncPeer'
      BY <1>3, <2>2
    <2>4. \A t \in checks' : t.peer # p
      BY <1>3, <2>2
    <2> QED
      BY <2>1, <2>2, <2>3, <2>4
  <1>4. Rest'
    BY <1>2, <1>3 DEF Rest
  <1>5. Core(link, sync, asked, syncPeer, checks, chunkTask, after)'
    OBVIOUS
  <1> QED
    BY <1>1, <1>4, <1>5 DEF SyncInv

\* What the invariant says between handlers, and after a chunk's import.
LEMMA Between ==
    ASSUME SyncInv, after.kind # "block"
    PROVE  /\ HelperTypes(sync, asked) /\ syncPeer \in Peer \cup {NoPeer} /\ NoPeer \notin Peer
           /\ chunkTask \in Tasks /\ checks \subseteq Checks
           /\ link \in [Peer -> {"absent", "ready", "closed", "gone"}]
           /\ at \in [Peer -> Nat] /\ \A p \in Peer : at[p] \in DOMAIN Tips[p]
           /\ \A t \in checks : t.peer \in Peer
           /\ \A t, u \in threads : t = u
           /\ chunkTask.step = "download" => threads = {}
           /\ Core(link, sync, asked, syncPeer, checks, chunkTask, NoCall)
  <1>1. Core(link, sync, asked, syncPeer, checks, chunkTask, NoCall)
    BY NoBlockCall DEF SyncInv
  <1>2. \A t \in checks : t.peer \in Peer
    BY DEF SyncInv, SyncTypes, Checks
  <1> QED
    BY <1>1, <1>2, SyncAssumption DEF SyncInv, SyncTypes, HelperTypes, Rest

\* With fewer ready peers, and without the checks of some that are not ready.
LEMMA CoreShrinks ==
    ASSUME NEW links, NEW syncs, NEW questions, NEW sp, NEW cs, NEW task,
           Core(links, syncs, questions, sp, cs, task, NoCall),
           NEW fewer, NEW syncs2, NEW questions2, NEW cs2, cs2 \subseteq cs, \A t \in cs : t.peer \in Peer,
           \A p \in Peer : fewer[p] = "ready" =>
               /\ links[p] = "ready" /\ syncs2[p] = syncs[p] /\ questions2[p] = questions[p]
               /\ \A t \in cs \ cs2 : t.peer # p
    PROVE  Core(fewer, syncs2, questions2, sp, cs2, task, NoCall)
  <1>1. OnlyOf(sp, fewer, questions2, cs2)
    BY DEF Core, OnlyOf
  <1>2. ASSUME sp \in Peer, fewer[sp] = "ready"
        PROVE  /\ OneAtATime(sp, syncs2[sp], questions2[sp], cs2, task, NoCall)
               /\ Busy(sp, syncs2[sp], task)
    <2>1. /\ OneAtATime(sp, syncs[sp], questions[sp], cs, task, NoCall)
          /\ Busy(sp, syncs[sp], task)
          /\ syncs2[sp] = syncs[sp] /\ questions2[sp] = questions[sp]
      BY <1>2 DEF Core
    <2>2. \A t \in cs : t.peer = sp => t \in cs2
      BY <1>2
    <2> QED
      BY <2>1, <2>2 DEF OneAtATime
  <1> QED
    BY <1>1, <1>2 DEF Core

\* _drop, by a task that ends or by the timer.
LEMMA DropFacts ==
    ASSUME Tip \in Block, SyncInv, after.kind # "block", NEW p \in Peer,
           NEW syncs, HelperTypes(syncs, asked), \A q \in Peer \ {p} : syncs[q] = sync[q],
           NEW cs, cs \subseteq checks, \A t \in checks \ cs : t.peer = p,
           NEW ban, Drop(p, ban, syncs)
    PROVE  /\ link' \in [Peer -> {"absent", "ready", "closed", "gone"}]
           /\ HelperTypes(sync', asked') /\ syncPeer' \in Peer \cup {NoPeer} /\ chunkTask' \in Tasks
           /\ chunkTask' = chunkTask \/ chunkTask'.step = "start"
           /\ syncPeer' = syncPeer \/ (syncPeer' \in Peer => link'[syncPeer'] = "ready")
           /\ \A q \in Peer : link'[q] = "absent" => link[q] = "absent" /\ asked'[q] = asked[q]
           /\ Core(link', sync', asked', syncPeer', cs, chunkTask', NoCall)
  <1>1. /\ HelperTypes(sync, asked) /\ syncPeer \in Peer \cup {NoPeer} /\ NoPeer \notin Peer
        /\ chunkTask \in Tasks /\ \A t \in checks : t.peer \in Peer
        /\ link \in [Peer -> {"absent", "ready", "closed", "gone"}]
        /\ Core(link, sync, asked, syncPeer, checks, chunkTask, NoCall)
    BY Between
  <1>2. link' = IF link[p] = "ready" THEN [link EXCEPT ![p] = "closed"] ELSE link
    BY DEF Drop
  <1>3. /\ link' \in [Peer -> {"absent", "ready", "closed", "gone"}]
        /\ link'[p] # "ready" /\ (link'[p] = "absent" => link[p] = "absent")
        /\ \A q \in Peer \ {p} : link'[q] = link[q]
    BY <1>1, <1>2
  <1>4. CASE syncPeer \in {p, NoPeer} /\ MaybeSync(link', claim', syncs, asked)
    <2>1. Quiet(link', asked, cs)
      BY <1>1, <1>3, <1>4 DEF Quiet, OnlyOf, Core
    <2>2. Chosen(link', asked, cs)
      BY <1>4, <2>1, MaybeSyncFacts
    <2> QED
      BY <1>3, <2>2 DEF Chosen
  <1>5. CASE sync' = syncs /\ UNCHANGED <<asked, syncPeer, chunkTask>>
    <2>1. Core(link', syncs, asked, syncPeer, cs, chunkTask, NoCall)
      <3>1. \A q \in Peer : link'[q] = "ready" =>
                /\ link[q] = "ready" /\ syncs[q] = sync[q] /\ asked[q] = asked[q]
                /\ \A t \in checks \ cs : t.peer # q
        BY <1>3
      <3> QED
        BY <1>1, <3>1, CoreShrinks
    <2> QED
      BY <1>1, <1>3, <1>5, <2>1
  <1> QED
    BY <1>4, <1>5 DEF Drop

\* The finally clause of _check_headers.
LEMMA SettledFacts ==
    ASSUME HelperTypes(sync, asked), NEW t, t.peer \in Peer
    PROVE  /\ HelperTypes(Settled(t), asked)
           /\ \A q \in Peer \ {t.peer} : Settled(t)[q] = sync[q]
           /\ LET old == sync[t.peer]
                  new == Settled(t)[t.peer]
              IN  /\ new.round = old.round /\ new.awaiting = old.awaiting
                  /\ new.inFlight = old.inFlight /\ new.wanted = old.wanted
                  /\ old.round = t.round => ~new.checking
  <1> DEFINE p == t.peer
             old == sync[p]
             new == [old EXCEPT !.checking = FALSE]
  <1>1. sync \in [Peer -> Fields] /\ old \in Fields
    BY DEF HelperTypes
  <1>2. /\ new \in Fields /\ new.round = old.round /\ new.awaiting = old.awaiting
        /\ new.inFlight = old.inFlight /\ new.wanted = old.wanted /\ ~new.checking
    BY <1>1 DEF Fields
  <1>3. Settled(t) = IF old.round = t.round THEN [sync EXCEPT ![p] = new] ELSE sync
    BY DEF Settled
  <1> HIDE DEF new
  <1>4. CASE old.round = t.round
    <2>1. Settled(t) \in [Peer -> Fields] /\ Settled(t)[p] = new
      BY <1>1, <1>2, <1>3, <1>4
    <2>2. \A q \in Peer \ {p} : Settled(t)[q] = sync[q]
      BY <1>1, <1>3, <1>4
    <2> QED
      BY <1>2, <2>1, <2>2 DEF HelperTypes
  <1>5. CASE old.round # t.round
    BY <1>3, <1>5
  <1> QED
    BY <1>4, <1>5

\* A check of a ready peer is that of the catch-up under way.
LEMMA CheckCurrent ==
    ASSUME SyncInv, after.kind # "block", NEW t \in checks, link[t.peer] = "ready"
    PROVE  /\ t.peer = syncPeer /\ t.round = sync[t.peer].round
           /\ OneAtATime(t.peer, sync[t.peer], asked[t.peer], checks, chunkTask, NoCall)
           /\ sync[t.peer].checking /\ ~sync[t.peer].awaiting /\ ~AsksHeaders(asked[t.peer])
           /\ ~TaskOf(t.peer, sync[t.peer], chunkTask)
           /\ \A u \in checks \ {t} : u.peer # t.peer
           /\ OnlyOf(t.peer, link, asked, checks)
  <1>1. /\ t.peer \in Peer /\ Core(link, sync, asked, syncPeer, checks, chunkTask, NoCall)
    BY Between
  <1>2. t.peer = syncPeer
    BY <1>1 DEF Core, OnlyOf
  <1>3. /\ OneAtATime(t.peer, sync[t.peer], asked[t.peer], checks, chunkTask, NoCall)
        /\ OnlyOf(t.peer, link, asked, checks)
    BY <1>1, <1>2 DEF Core
  <1>4. t.round = sync[t.peer].round /\ sync[t.peer].checking
    BY <1>3 DEF OneAtATime
  <1> QED
    BY <1>2, <1>3, <1>4 DEF OneAtATime

\* The end of _check_headers.
LEMMA ConcludeFacts ==
    ASSUME Tip \in Block, SyncInv, after.kind # "block", NEW t \in checks,
           NEW r, r.peer = t.peer, r.round = t.round, r.headers \in Seq(Block), r.known \in Nat,
           r.passed \in Nat, r.passed <= Len(r.headers), r.anchor \in Block \cup {NoBlock},
           Conclude(r)
    PROVE  Continued(checks \ {t})
  <1> DEFINE p == t.peer
             cs == checks \ {t}
             all == Len(r.headers)
             settled == Settled(r)
             more == all = MaxHeaders /\ r.passed = all
             wanted == settled[p].wanted \o SubSeq(r.headers, r.known + 1, r.passed)
             result == [settled EXCEPT ![p].tip = r.anchor, ![p].wanted = wanted, ![p].more = more]
             claims == IF r.passed < all THEN [claim EXCEPT ![p] = 0] ELSE claim
  <1>1. /\ HelperTypes(sync, asked) /\ syncPeer \in Peer \cup {NoPeer} /\ p \in Peer
        /\ chunkTask \in Tasks /\ \A u \in checks : u.peer \in Peer
        /\ Core(link, sync, asked, syncPeer, checks, chunkTask, NoCall)
    BY Between
  <1>2. /\ HelperTypes(settled, asked)
        /\ \A q \in Peer \ {p} : settled[q] = sync[q]
        /\ settled[p].round = sync[p].round /\ settled[p].awaiting = sync[p].awaiting
        /\ settled[p].inFlight = sync[p].inFlight /\ settled[p].wanted = sync[p].wanted
        /\ sync[p].round = r.round => ~settled[p].checking
    BY <1>1, SettledFacts
  <1>3. \/ /\ p # syncPeer \/ link[p] # "ready" \/ sync[p].round # r.round
           /\ sync' = settled /\ UNCHANGED <<asked, syncPeer, chunkTask>>
        \/ /\ p = syncPeer /\ link[p] = "ready" /\ sync[p].round = r.round
           /\ ContinueSync(p, claims, result)
    BY DEF Conclude
  <1> HIDE DEF settled
  <1>4. CASE /\ p # syncPeer \/ link[p] # "ready" \/ sync[p].round # r.round
             /\ sync' = settled /\ UNCHANGED <<asked, syncPeer, chunkTask>>
    <2>1. link[p] # "ready"
      BY <1>4, CheckCurrent
    <2>2. \A q \in Peer : link[q] = "ready" =>
             /\ link[q] = "ready" /\ settled[q] = sync[q] /\ asked[q] = asked[q]
             /\ \A u \in checks \ cs : u.peer # q
      BY <1>2, <2>1
    <2>3. Core(link, settled, asked, syncPeer, cs, chunkTask, NoCall)
      BY <1>1, <2>2, CoreShrinks
    <2> QED
      BY <1>1, <1>2, <1>4, <2>3 DEF Continued
  <1>5. CASE /\ p = syncPeer /\ link[p] = "ready" /\ sync[p].round = r.round
             /\ ContinueSync(p, claims, result)
    <2>1. /\ OneAtATime(p, sync[p], asked[p], checks, chunkTask, NoCall)
          /\ ~sync[p].awaiting /\ ~AsksHeaders(asked[p]) /\ ~TaskOf(p, sync[p], chunkTask)
          /\ \A u \in cs : u.peer # p
          /\ OnlyOf(p, link, asked, checks)
      BY <1>5, CheckCurrent
    <2>2. settled \in [Peer -> Fields] /\ settled[p] \in Fields
      BY <1>1, <1>2 DEF HelperTypes
    <2>3. wanted \in Seq(Block)
      <3>1. r.known + 1 \in Int /\ r.passed \in Int
        OBVIOUS
      <3>2. \A i \in 1..Len(r.headers) : r.headers[i] \in Block
        BY ElementOfSeq
      <3>3. \A i \in (r.known + 1)..r.passed : r.headers[i] \in Block
        <4>1. Len(r.headers) \in Nat
          BY LenProperties
        <4>2. \A i \in (r.known + 1)..r.passed : i \in 1..Len(r.headers)
          BY <4>1
        <4> QED
          BY <3>2, <4>2
      <3>4. SubSeq(r.headers, r.known + 1, r.passed) \in Seq(Block)
        BY <3>1, <3>3, SubSeqProperties
      <3>5. settled[p].wanted \in Seq(Block)
        BY <2>2 DEF Fields
      <3> QED
        BY <3>4, <3>5, ConcatProperties
    <2> HIDE DEF wanted, more
    <2>4. /\ result \in [Peer -> Fields]
          /\ result[p].round = sync[p].round /\ result[p].awaiting = sync[p].awaiting
          /\ result[p].inFlight = sync[p].inFlight /\ ~result[p].checking
      <3> DEFINE old == settled[p]
                 new == [old EXCEPT !.tip = r.anchor, !.wanted = wanted, !.more = more]
      <3>1. more \in BOOLEAN
        BY DEF more
      <3>2. old \in Fields
        BY <2>2
      <3>3. result = [settled EXCEPT ![p] = new]
        BY <2>2
      <3>4. result[p] = new
        <4> HIDE DEF result, new
        <4> QED
          BY <1>1, <2>2, <3>3
      <3>5. /\ new \in Fields /\ new.round = old.round /\ new.awaiting = old.awaiting
            /\ new.inFlight = old.inFlight /\ new.checking = old.checking
        <4> HIDE DEF old
        <4> QED
          BY <2>3, <3>1, <3>2 DEF Fields
      <3>6. result \in [Peer -> Fields]
        <4> HIDE DEF new
        <4> QED
          BY <1>1, <2>2, <3>3, <3>5
      <3> QED
        BY <1>2, <1>5, <3>4, <3>5, <3>6
    <2>5. HelperTypes(result, asked)
      BY <1>1, <2>4 DEF HelperTypes
    <2> HIDE DEF result, claims
    <2>6. OneAtATime(p, result[p], asked[p], cs, chunkTask, NoCall) /\ ~TaskOf(p, result[p], chunkTask)
      BY <2>1, <2>4 DEF OneAtATime, TaskOf
    <2>7. OnlyOf(syncPeer, link, asked, cs)
      BY <1>5, <2>1 DEF OnlyOf
    <2> QED
      BY <1>1, <1>5, <2>5, <2>6, <2>7, ContinueFacts
  <1> QED
    BY <1>3, <1>4, <1>5

\* Headers that connect to nothing: asked for again, from our own chain.
LEMMA UnconnectedStep ==
    ASSUME Tip \in Block, SyncInv, NEW t \in checks, HeadersUnconnected(t)
    PROVE  SyncInv'
  <1> DEFINE p == t.peer
             cs == checks \ {t}
             settled == Settled(t)
             restart == [settled EXCEPT ![p].tip = NoBlock, ![p].wanted = <<>>]
  <1>1. after = NoCall /\ after.kind # "block"
    BY DEF HeadersUnconnected, Free, NoCall
  <1>2. /\ HelperTypes(sync, asked) /\ syncPeer \in Peer \cup {NoPeer} /\ p \in Peer
        /\ chunkTask \in Tasks /\ checks \subseteq Checks /\ \A u \in checks : u.peer \in Peer
        /\ link \in [Peer -> {"absent", "ready", "closed", "gone"}]
        /\ at \in [Peer -> Nat] /\ \A q \in Peer : at[q] \in DOMAIN Tips[q]
        /\ \A u, v \in threads : u = v
        /\ chunkTask.step = "download" => threads = {}
        /\ Core(link, sync, asked, syncPeer, checks, chunkTask, NoCall)
    BY <1>1, Between
  <1>3. /\ HelperTypes(settled, asked)
        /\ \A q \in Peer \ {p} : settled[q] = sync[q]
        /\ settled[p].round = sync[p].round /\ settled[p].inFlight = sync[p].inFlight
        /\ sync[p].round = t.round => ~settled[p].checking
    BY <1>2, SettledFacts
  <1>4. /\ \/ sync[p].round = t.round /\ p = syncPeer /\ RequestHeaders(p, restart, asked)
           \/ /\ ~(sync[p].round = t.round /\ p = syncPeer)
              /\ sync' = settled /\ UNCHANGED asked
        /\ checks' = cs
        /\ UNCHANGED <<link, at, syncPeer, chunkTask, threads, after>>
    BY DEF HeadersUnconnected
  <1> HIDE DEF settled
  <1>5. /\ HelperTypes(restart, asked)
        /\ \A q \in Peer \ {p} : restart[q] = sync[q]
        /\ restart[p].round = sync[p].round /\ restart[p].inFlight = sync[p].inFlight
        /\ sync[p].round = t.round => ~restart[p].checking
    <2> DEFINE old == settled[p]
               new == [old EXCEPT !.tip = NoBlock, !.wanted = <<>>]
    <2>1. settled \in [Peer -> Fields] /\ old \in Fields
      BY <1>2, <1>3 DEF HelperTypes
    <2>2. /\ new \in Fields /\ new.round = old.round /\ new.inFlight = old.inFlight
          /\ new.checking = old.checking
      <3>1. <<>> \in Seq(Block)
        BY EmptySeq
      <3> HIDE DEF old
      <3> QED
        BY <2>1, <3>1 DEF Fields
    <2>3. restart = [settled EXCEPT ![p] = new]
      BY <1>2, <2>1
    <2>4. restart \in [Peer -> Fields] /\ restart[p] = new /\ \A q \in Peer \ {p} : restart[q] = settled[q]
      <3> HIDE DEF restart, new
      <3> QED
        BY <1>2, <2>1, <2>2, <2>3
    <2> QED
      BY <1>3, <2>2, <2>4 DEF HelperTypes
  <1> HIDE DEF restart
  <1>6. link[p] # "absent"
    BY <1>2 DEF SyncInv, Rest
  <1>7. /\ HelperTypes(sync', asked') /\ \A q \in Peer \ {p} : asked'[q] = asked[q]
        /\ \A q \in Peer \ {p} : sync'[q] = sync[q]
    <2>1. CASE RequestHeaders(p, restart, asked)
      BY <1>2, <1>5, <2>1, RequestFacts
    <2>2. CASE sync' = settled /\ UNCHANGED asked
      BY <1>3, <2>2
    <2> QED
      BY <1>4, <2>1, <2>2
  <1>8. Core(link', sync', asked', syncPeer', cs, chunkTask', NoCall)
    <2>1. CASE link[p] = "ready"
      <3>1. /\ p = syncPeer /\ t.round = sync[p].round
            /\ OneAtATime(p, sync[p], asked[p], checks, chunkTask, NoCall)
            /\ ~AsksHeaders(asked[p]) /\ ~TaskOf(p, sync[p], chunkTask)
            /\ \A u \in cs : u.peer # p
            /\ OnlyOf(p, link, asked, checks)
        BY <1>1, <2>1, CheckCurrent
      <3>2. /\ sync'[p].awaiting /\ sync'[p].round = sync[p].round
            /\ ~sync'[p].checking /\ sync'[p].inFlight = sync[p].inFlight
            /\ AsksHeaders(asked'[p]) /\ AsksOnce(asked'[p])
            /\ \A b \in Block : AsksBlock(asked[p], b) => AsksBlock(asked'[p], b)
        BY <1>2, <1>4, <1>5, <3>1, RequestFacts
      <3>3. sync[p].inFlight \subseteq Block
        BY <1>2 DEF HelperTypes, Fields
      <3>4. OneAtATime(p, sync'[p], asked'[p], cs, chunkTask, NoCall)
        BY <3>1, <3>2, <3>3 DEF OneAtATime, TaskOf, NoCall
      <3>5. Busy(p, sync'[p], chunkTask)
        BY <3>2 DEF Busy
      <3>6. OnlyOf(p, link, asked', cs)
        BY <1>7, <3>1 DEF OnlyOf
      <3> QED
        BY <1>4, <3>1, <3>4, <3>5, <3>6 DEF Core
    <2>2. CASE link[p] # "ready"
      <3>1. \A q \in Peer : link[q] = "ready" =>
               /\ link[q] = "ready" /\ sync'[q] = sync[q] /\ asked'[q] = asked[q]
               /\ \A u \in checks \ cs : u.peer # q
        BY <1>7, <2>2
      <3>2. Core(link, sync', asked', syncPeer, cs, chunkTask, NoCall)
        BY <1>2, <3>1, CoreShrinks
      <3> QED
        BY <1>4, <3>2
    <2> QED
      BY <2>1, <2>2
  <1>9. \A q \in Peer : link'[q] = "absent" => link[q] = "absent" /\ asked'[q] = asked[q]
    BY <1>4, <1>6, <1>7
  <1> QED
    BY <1>1, <1>2, <1>4, <1>7, <1>8, <1>9, Assemble

\* A check that ends with the peer dropped.
LEMMA CheckDrops ==
    ASSUME Tip \in Block, SyncInv, after = NoCall, NEW t \in checks, NEW ban,
           Drop(t.peer, ban, Settled(t)), checks' = checks \ {t}, UNCHANGED <<at, threads, after>>
    PROVE  SyncInv'
  <1> DEFINE p == t.peer
             cs == checks \ {t}
  <1>1. after.kind # "block"
    BY DEF NoCall
  <1>2. /\ HelperTypes(sync, asked) /\ p \in Peer /\ checks \subseteq Checks
        /\ at \in [Peer -> Nat] /\ \A q \in Peer : at[q] \in DOMAIN Tips[q]
        /\ \A u, v \in threads : u = v
        /\ chunkTask.step = "download" => threads = {}
    BY <1>1, Between
  <1>3. HelperTypes(Settled(t), asked) /\ \A q \in Peer \ {p} : Settled(t)[q] = sync[q]
    BY <1>2, SettledFacts
  <1>4. cs \subseteq checks /\ \A u \in checks \ cs : u.peer = p
    OBVIOUS
  <1>5. /\ link' \in [Peer -> {"absent", "ready", "closed", "gone"}]
        /\ HelperTypes(sync', asked') /\ syncPeer' \in Peer \cup {NoPeer} /\ chunkTask' \in Tasks
        /\ chunkTask' = chunkTask \/ chunkTask'.step = "start"
        /\ syncPeer' = syncPeer \/ (syncPeer' \in Peer => link'[syncPeer'] = "ready")
        /\ \A q \in Peer : link'[q] = "absent" => link[q] = "absent" /\ asked'[q] = asked[q]
        /\ Core(link', sync', asked', syncPeer', cs, chunkTask', NoCall)
    BY <1>1, <1>2, <1>3, <1>4, DropFacts
  <1>6. chunkTask'.step = "download" => threads' = {}
    BY <1>2, <1>5
  <1> QED
    BY <1>2, <1>5, <1>6, Assemble

\* A check that ends with what _continue_sync or _end_sync does.
LEMMA CheckContinues ==
    ASSUME SyncInv, after = NoCall, NEW t \in checks, Continued(checks \ {t}),
           checks' = checks \ {t}, UNCHANGED <<link, at, threads, after>>
    PROVE  SyncInv'
  <1>1. after.kind # "block"
    BY DEF NoCall
  <1>2. /\ checks \subseteq Checks /\ link \in [Peer -> {"absent", "ready", "closed", "gone"}]
        /\ at \in [Peer -> Nat] /\ \A q \in Peer : at[q] \in DOMAIN Tips[q]
        /\ \A u, v \in threads : u = v
        /\ chunkTask.step = "download" => threads = {}
    BY <1>1, Between
  <1>3. \A p \in Peer : link'[p] = "absent" => link[p] = "absent" /\ asked'[p] = asked[p]
    BY DEF Continued
  <1> QED
    BY <1>2, <1>3, Assemble DEF Continued

\* Headers that branch off too deep.
LEMMA TooDeepStep ==
    ASSUME Tip \in Block, SyncInv, NEW t \in checks, HeadersTooDeep(t)
    PROVE  SyncInv'
  <1> DEFINE p == t.peer
             cs == checks \ {t}
  <1>1. /\ after = NoCall /\ after.kind # "block"
        /\ checks' = cs /\ UNCHANGED <<at, threads, after>>
    BY DEF HeadersTooDeep, Starts, Free, NoCall
  <1>2. /\ HelperTypes(sync, asked) /\ syncPeer \in Peer \cup {NoPeer} /\ p \in Peer
        /\ NoPeer \notin Peer
        /\ chunkTask \in Tasks /\ \A u \in checks : u.peer \in Peer
        /\ Core(link, sync, asked, syncPeer, checks, chunkTask, NoCall)
    BY <1>1, Between
  <1>3. /\ HelperTypes(Settled(t), asked) /\ \A q \in Peer \ {p} : Settled(t)[q] = sync[q]
    BY <1>2, SettledFacts
  <1>4. CASE Drop(t.peer, FALSE, Settled(t))
    BY <1>1, <1>4, CheckDrops
  <1>5. CASE p = syncPeer /\ EndSync(t.peer, claim, Settled(t), TRUE) /\ UNCHANGED link
    <2>1. Quiet(link, asked, cs)
      <3>1. OnlyOf(p, link, asked, checks)
        BY <1>2, <1>5 DEF Core
      <3>2. link[p] = "ready" => ~AsksHeaders(asked[p]) /\ \A u \in cs : u.peer # p
        BY <1>1, CheckCurrent
      <3> QED
        BY <1>2, <3>1, <3>2 DEF Quiet, OnlyOf
    <2>2. Chosen(link, asked, cs)
      BY <1>2, <1>3, <1>5, <2>1, EndSyncFacts
    <2>3. Continued(cs)
      BY <2>2 DEF Chosen, Continued
    <2> QED
      BY <1>1, <1>5, <2>3, CheckContinues
  <1>6. CASE p # syncPeer /\ sync' = Settled(t) /\ UNCHANGED <<link, asked, syncPeer, chunkTask>>
    <2>1. link[p] # "ready"
      BY <1>1, <1>6, CheckCurrent
    <2>2. \A q \in Peer : link[q] = "ready" =>
             /\ link[q] = "ready" /\ Settled(t)[q] = sync[q] /\ asked[q] = asked[q]
             /\ \A u \in checks \ cs : u.peer # q
      BY <1>3, <2>1
    <2>3. Core(link, Settled(t), asked, syncPeer, cs, chunkTask, NoCall)
      BY <1>2, <2>2, CoreShrinks
    <2>4. Continued(cs)
      BY <1>2, <1>3, <1>6, <2>3 DEF Continued
    <2> QED
      BY <1>1, <1>6, <2>4, CheckContinues
  <1> QED
    BY <1>4, <1>5, <1>6 DEF HeadersTooDeep

\* Headers that pass go to a thread, or were all known.
LEMMA PassStep ==
    ASSUME Tip \in Block, SyncInv, NEW t \in checks, HeadersPass(t)
    PROVE  SyncInv'
  <1> DEFINE p == t.peer
             hs == t.headers
             cs == checks \ {t}
             known == KnownPrefix(hs)
             R(passed) == [t EXCEPT !.step = "pow", !.known = known, !.passed = passed,
                                    !.anchor = IF passed = 0 THEN Anchor(p, hs) ELSE hs[passed]]
  <1>1. /\ after = NoCall /\ after.kind # "block"
        /\ UNCHANGED <<link, at, threads, after>>
    BY DEF HeadersPass, Starts, Free, NoCall
  <1>2. /\ HelperTypes(sync, asked) /\ syncPeer \in Peer \cup {NoPeer} /\ p \in Peer
        /\ chunkTask \in Tasks /\ checks \subseteq Checks /\ \A u \in checks : u.peer \in Peer
        /\ link \in [Peer -> {"absent", "ready", "closed", "gone"}]
        /\ at \in [Peer -> Nat] /\ \A q \in Peer : at[q] \in DOMAIN Tips[q]
        /\ \A u, v \in threads : u = v
        /\ chunkTask.step = "download" => threads = {}
        /\ Core(link, sync, asked, syncPeer, checks, chunkTask, NoCall)
    BY <1>1, Between
  <1>3. t \in Checks /\ hs \in Seq(Block)
    BY <1>2 DEF Checks
  <1>4. Len(hs) \in Nat /\ known \in 0..Len(hs) /\ \A i \in 1..Len(hs) : hs[i] \in Block
    BY <1>3, KnownPrefixFacts, ListFacts, ElementOfSeq
  <1>5. Anchor(p, hs) \in Block \cup {NoBlock}
    BY <1>2, <1>3, AnchorFacts DEF SyncInv
  <1>6. PICK passed \in known..Len(hs) :
           IF passed > known
           THEN /\ checks' = cs \cup {R(passed)}
                /\ UNCHANGED <<claim, asked, sync, syncPeer, chunkTask>>
           ELSE checks' = cs /\ Conclude(R(passed))
    BY DEF HeadersPass
  <1> DEFINE r == R(passed)
  <1>7. passed \in Nat /\ passed <= Len(hs)
    BY <1>4
  <1>8. /\ r.peer = p /\ r.round = t.round /\ r.headers = hs /\ r.known = known
        /\ r.passed = passed /\ r.anchor \in Block \cup {NoBlock} /\ r \in Checks
    <2> DEFINE anchor == IF passed = 0 THEN Anchor(p, hs) ELSE hs[passed]
    <2>1. anchor \in Block \cup {NoBlock}
      BY <1>4, <1>5, <1>7
    <2>2. known \in Nat
      BY <1>4
    <2>3. r = [t EXCEPT !.step = "pow", !.known = known, !.passed = passed, !.anchor = anchor]
      OBVIOUS
    <2> HIDE DEF anchor, known, r
    <2> QED
      BY <1>3, <1>7, <2>1, <2>2, <2>3 DEF Checks
  <1> HIDE DEF r
  <1>9. CASE checks' = cs \cup {r} /\ UNCHANGED <<claim, asked, sync, syncPeer, chunkTask>>
    <2>1. checks' \subseteq Checks
      BY <1>2, <1>8, <1>9
    <2>2. OnlyOf(syncPeer, link, asked, checks')
      <3>1. OnlyOf(syncPeer, link, asked, checks)
        BY <1>2 DEF Core
      <3> QED
        BY <1>8, <1>9, <3>1 DEF OnlyOf
    <2>3. ASSUME syncPeer \in Peer, link[syncPeer] = "ready"
          PROVE  /\ OneAtATime(syncPeer, sync[syncPeer], asked[syncPeer], checks', chunkTask, NoCall)
                 /\ Busy(syncPeer, sync[syncPeer], chunkTask)
      <3>1. /\ OneAtATime(syncPeer, sync[syncPeer], asked[syncPeer], checks, chunkTask, NoCall)
            /\ Busy(syncPeer, sync[syncPeer], chunkTask)
        BY <1>2, <2>3 DEF Core
      <3> DEFINE s == sync[syncPeer]
      <3>2. /\ \A u \in checks : u.peer = syncPeer => u.round = s.round
            /\ \A u, v \in checks : u.peer = syncPeer /\ v.peer = syncPeer => u = v
            /\ s.checking <=> \E u \in checks : u.peer = syncPeer
        BY <3>1 DEF OneAtATime
      <3>3. /\ \A u \in checks' : u.peer = syncPeer => u.round = s.round
            /\ \A u, v \in checks' : u.peer = syncPeer /\ v.peer = syncPeer => u = v
            /\ s.checking <=> \E u \in checks' : u.peer = syncPeer
        <4>1. \A u \in checks' : (u \in checks /\ u # t) \/ u = r
          BY <1>9
        <4>2. \A u \in checks : u # t => u \in checks'
          BY <1>9
        <4>3. r \in checks'
          BY <1>9
        <4> HIDE DEF s
        <4> QED
          BY <1>8, <3>2, <4>1, <4>2, <4>3
      <3> QED
        BY <3>1, <3>3 DEF OneAtATime
    <2>4. Core(link', sync', asked', syncPeer', checks', chunkTask', NoCall)
      BY <1>1, <1>9, <2>2, <2>3 DEF Core
    <2>5. \A u \in checks' : \E v \in checks : v.peer = u.peer
      BY <1>8, <1>9
    <2>6. /\ HelperTypes(sync', asked') /\ syncPeer' = syncPeer /\ chunkTask' = chunkTask
          /\ \A q \in Peer : link'[q] = "absent" => link[q] = "absent" /\ asked'[q] = asked[q]
      BY <1>1, <1>2, <1>9
    <2> QED
      BY <1>1, <1>2, <2>1, <2>4, <2>5, <2>6, Assemble
  <1>10. CASE checks' = cs /\ Conclude(r)
    <2>1. Continued(cs)
      BY <1>1, <1>3, <1>4, <1>7, <1>8, <1>10, ConcludeFacts
    <2> QED
      BY <1>1, <1>10, <2>1, CheckContinues
  <1> QED
    BY <1>6, <1>9, <1>10 DEF r

\* Every step of a check.
LEMMA CheckSteps ==
    ASSUME Tip \in Block, SyncInv, NEW t \in checks, CheckStep(t)
    PROVE  SyncInv'
  <1>1. CASE HeadersUnconnected(t)
    BY <1>1, UnconnectedStep
  <1>2. CASE HeadersRefused(t)
    BY <1>2, CheckDrops DEF HeadersRefused, Starts, Free
  <1>3. CASE HeadersTooDeep(t)
    BY <1>3, TooDeepStep
  <1>4. CASE HeadersPass(t)
    BY <1>4, PassStep
  <1>5. CASE PowChecked(t)
    <2>1. /\ after = NoCall /\ after.kind # "block"
          /\ checks' = checks \ {t} /\ UNCHANGED <<at, threads, after>>
      BY <1>5 DEF PowChecked, Free, NoCall
    <2>2. CASE Conclude(t) /\ UNCHANGED link
      <3>1. t \in Checks
        BY DEF SyncInv, SyncTypes
      <3>2. Continued(checks \ {t})
        BY <2>1, <2>2, <3>1, ConcludeFacts DEF Checks
      <3> QED
        BY <2>1, <2>2, <3>2, CheckContinues
    <2>3. CASE Drop(t.peer, TRUE, Settled(t))
      BY <2>1, <2>3, CheckDrops
    <2> QED
      BY <1>5, <2>2, <2>3 DEF PowChecked
  <1> QED
    BY <1>1, <1>2, <1>3, <1>4, <1>5 DEF CheckStep

-----------------------------------------------------------------------------
(* The chunk task *)

\* The finally clause of _sync_chunks.
LEMMA ChunksEndFacts ==
    ASSUME Tip \in Block, SyncInv, after.kind # "block", chunkTask # NoTask, ChunksEnd,
           UNCHANGED <<at, checks, threads>>, after' = NoCall
    PROVE  SyncInv'
  <1>1. /\ HelperTypes(sync, asked) /\ syncPeer \in Peer \cup {NoPeer} /\ NoPeer \notin Peer
        /\ chunkTask \in Tasks /\ checks \subseteq Checks
        /\ link \in [Peer -> {"absent", "ready", "closed", "gone"}]
        /\ at \in [Peer -> Nat] /\ \A q \in Peer : at[q] \in DOMAIN Tips[q]
        /\ \A t, u \in threads : t = u
        /\ Core(link, sync, asked, syncPeer, checks, chunkTask, NoCall)
    BY Between
  <1>2. /\ chunkTask' = NoTask /\ UNCHANGED <<link, syncPeer>>
        /\ IF Current THEN RequestHeaders(syncPeer, sync, asked) ELSE UNCHANGED <<sync, asked>>
    BY DEF ChunksEnd
  <1>3. chunkTask' \in Tasks /\ chunkTask'.step = "start" /\ chunkTask'.peer = NoPeer
    BY <1>2 DEF NoTask, Tasks
  <1>4. CASE Current
    <2> DEFINE p == syncPeer
    <2>1. /\ p \in Peer /\ link[p] = "ready" /\ TaskOf(p, sync[p], chunkTask)
          /\ RequestHeaders(p, sync, asked)
      BY <1>1, <1>2, <1>4 DEF Current, Tasks, TaskOf
    <2>2. /\ OneAtATime(p, sync[p], asked[p], checks, chunkTask, NoCall)
          /\ OnlyOf(p, link, asked, checks)
      BY <1>1, <2>1 DEF Core
    <2>3. /\ ~AsksHeaders(asked[p]) /\ ~sync[p].checking /\ sync[p].inFlight = {}
          /\ \A t \in checks : t.peer # p
      BY <2>1, <2>2 DEF OneAtATime
    <2>4. /\ HelperTypes(sync', asked')
          /\ \A q \in Peer \ {p} : sync'[q] = sync[q] /\ asked'[q] = asked[q]
          /\ sync'[p].awaiting /\ ~sync'[p].checking /\ sync'[p].inFlight = {}
          /\ AsksHeaders(asked'[p]) /\ AsksOnce(asked'[p])
      BY <1>1, <2>1, <2>3, RequestFacts
    <2>5. OneAtATime(p, sync'[p], asked'[p], checks, chunkTask', NoCall)
      BY <1>1, <1>3, <2>1, <2>3, <2>4 DEF OneAtATime, TaskOf
    <2>6. Busy(p, sync'[p], chunkTask')
      BY <2>4 DEF Busy
    <2>7. OnlyOf(p, link, asked', checks)
      BY <2>2, <2>4 DEF OnlyOf
    <2>8. Core(link', sync', asked', syncPeer', checks', chunkTask', NoCall)
      BY <1>2, <2>5, <2>6, <2>7 DEF Core
    <2>9. \A q \in Peer : link'[q] = "absent" => link[q] = "absent" /\ asked'[q] = asked[q]
      BY <1>2, <2>1, <2>4
    <2> QED
      BY <1>1, <1>2, <1>3, <2>4, <2>8, <2>9, Assemble
  <1>5. CASE ~Current
    <2>1. ASSUME syncPeer \in Peer, link[syncPeer] = "ready"
          PROVE  /\ OneAtATime(syncPeer, sync[syncPeer], asked[syncPeer], checks, chunkTask', NoCall)
                 /\ Busy(syncPeer, sync[syncPeer], chunkTask')
      <3>1. /\ OneAtATime(syncPeer, sync[syncPeer], asked[syncPeer], checks, chunkTask, NoCall)
            /\ Busy(syncPeer, sync[syncPeer], chunkTask)
        BY <1>1, <2>1 DEF Core
      <3>2. ~TaskOf(syncPeer, sync[syncPeer], chunkTask)
        BY <1>5, <2>1 DEF Current, TaskOf
      <3>3. ~TaskOf(syncPeer, sync[syncPeer], chunkTask')
        BY <1>1, <1>3, <2>1 DEF TaskOf
      <3> QED
        BY <3>1, <3>2, <3>3 DEF OneAtATime, Busy
    <2>2. Core(link', sync', asked', syncPeer', checks', chunkTask', NoCall)
      BY <1>1, <1>2, <1>5, <2>1 DEF Core
    <2>3. /\ HelperTypes(sync', asked')
          /\ \A q \in Peer : link'[q] = "absent" => link[q] = "absent" /\ asked'[q] = asked[q]
      BY <1>1, <1>2, <1>5
    <2> QED
      BY <1>1, <1>2, <1>3, <2>2, <2>3, Assemble
  <1> QED
    BY <1>4, <1>5

\* A step of the task that keeps its peer and its round.
LEMMA TaskMoves ==
    ASSUME SyncInv, after.kind # "block", after' = NoCall,
           chunkTask' \in Tasks, chunkTask'.peer = chunkTask.peer, chunkTask'.round = chunkTask.round,
           \A t, u \in threads' : t = u, chunkTask'.step = "download" => threads' = {},
           UNCHANGED <<link, at, asked, sync, syncPeer, checks>>
    PROVE  SyncInv'
  <1>1. /\ HelperTypes(sync, asked) /\ syncPeer \in Peer \cup {NoPeer}
        /\ checks \subseteq Checks
        /\ link \in [Peer -> {"absent", "ready", "closed", "gone"}]
        /\ at \in [Peer -> Nat] /\ \A q \in Peer : at[q] \in DOMAIN Tips[q]
        /\ Core(link, sync, asked, syncPeer, checks, chunkTask, NoCall)
    BY Between
  <1>2. Core(link, sync, asked, syncPeer, checks, chunkTask', NoCall)
    BY <1>1 DEF Core, OneAtATime, Busy, TaskOf
  <1> QED
    BY <1>1, <1>2, Assemble

\* The peer is dropped, and no check with it.
LEMMA PeerDropped ==
    ASSUME Tip \in Block, SyncInv, after.kind # "block", after' = NoCall, NEW p \in Peer, NEW ban,
           Drop(p, ban, sync), UNCHANGED <<at, checks, threads>>
    PROVE  SyncInv'
  <1>1. /\ HelperTypes(sync, asked) /\ checks \subseteq Checks
        /\ at \in [Peer -> Nat] /\ \A q \in Peer : at[q] \in DOMAIN Tips[q]
        /\ \A t, u \in threads : t = u
        /\ chunkTask.step = "download" => threads = {}
    BY Between
  <1>2. /\ link' \in [Peer -> {"absent", "ready", "closed", "gone"}]
        /\ HelperTypes(sync', asked') /\ syncPeer' \in Peer \cup {NoPeer} /\ chunkTask' \in Tasks
        /\ chunkTask' = chunkTask \/ chunkTask'.step = "start"
        /\ syncPeer' = syncPeer \/ (syncPeer' \in Peer => link'[syncPeer'] = "ready")
        /\ \A q \in Peer : link'[q] = "absent" => link[q] = "absent" /\ asked'[q] = asked[q]
        /\ Core(link', sync', asked', syncPeer', checks, chunkTask', NoCall)
    BY <1>1, DropFacts
  <1> QED
    BY <1>1, <1>2, Assemble

\* The steps of the task, but for the call of import_chunk.
LEMMA TaskSteps ==
    ASSUME Tip \in Block, sealed \in Nat, SyncInv,
           NextChunk \/ DownloadFails \/ Downloaded \/ ChunkBad \/ ChunkLate
    PROVE  SyncInv'
  <1>1. /\ after = NoCall /\ after.kind # "block" /\ after' = NoCall
        /\ UNCHANGED <<at, checks>> /\ chunkTask # NoTask
    <2>1. /\ \E step \in {"start", "download", "checked"} : TaskAt(step)
          /\ UNCHANGED <<at, checks, after>>
      BY Zenon DEF NextChunk, DownloadFails, Downloaded, ChunkBad, ChunkLate
    <2> QED
      BY <2>1 DEF TaskAt, Free, NoCall
  <1>2. chunkTask \in Tasks
    BY DEF SyncInv, SyncTypes
  <1>3. CASE ChunksEnd /\ UNCHANGED threads
    BY <1>1, <1>3, ChunksEndFacts
  <1>4. CASE /\ chunkTask.step = "start" /\ threads = {} /\ UNCHANGED threads
             /\ chunkTask' = [chunkTask EXCEPT !.step = "download", !.index = sealed]
             /\ UNCHANGED <<link, asked, sync, syncPeer>>
    <2>1. /\ chunkTask' \in Tasks
          /\ chunkTask'.peer = chunkTask.peer /\ chunkTask'.round = chunkTask.round
      BY <1>1, <1>2, <1>4 DEF Tasks
    <2> QED
      BY <1>1, <1>4, <2>1, TaskMoves
  <1>5. CASE TaskAt("download") /\ Current /\ Downloaded
    <2>1. PICK c \in PeerChain(syncPeer) :
             /\ chunkTask' = [chunkTask EXCEPT !.step = "check", !.file = c]
             /\ threads' = threads \cup {[peer |-> chunkTask.peer, round |-> chunkTask.round]}
             /\ UNCHANGED <<link, asked, sync, syncPeer>>
      BY <1>5 DEF Downloaded
    <2>2. chunkTask.peer = syncPeer /\ chunkTask.peer \in Peer /\ chunkTask.step = "download"
      BY <1>1, <1>2, <1>5 DEF Current, Tasks, TaskAt
    <2>3. c \in Block
      BY <2>1, <2>2, PeerBlocks DEF SyncInv
    <2>4. /\ chunkTask' \in Tasks /\ chunkTask'.step = "check"
          /\ chunkTask'.peer = chunkTask.peer /\ chunkTask'.round = chunkTask.round
      BY <1>1, <1>2, <2>1, <2>2, <2>3 DEF Tasks
    <2>5. threads = {}
      BY <2>2 DEF SyncInv, Rest
    <2>6. \A t, u \in threads' : t = u
      BY <2>1, <2>5
    <2> QED
      BY <1>1, <2>1, <2>4, <2>6, TaskMoves
  <1>6. CASE ChunkBad
    <2>1. chunkTask.peer \in Peer
      BY <1>1, <1>2 DEF Tasks
    <2> QED
      BY <1>1, <1>6, <2>1, PeerDropped DEF ChunkBad
  <1>7. CASE NextChunk
    BY <1>3, <1>4, <1>7 DEF NextChunk, TaskAt
  <1>8. CASE DownloadFails
    BY <1>3, <1>8 DEF DownloadFails
  <1>9. CASE Downloaded
    BY <1>3, <1>5, <1>9 DEF Downloaded
  <1>10. CASE ChunkLate
    BY <1>3, <1>10 DEF ChunkLate
  <1> QED
    BY <1>6, <1>7, <1>8, <1>9, <1>10

\* The thread of a chunk ends.
LEMMA ThreadStep ==
    ASSUME SyncInv, NEW t \in threads, ThreadEnds(t)
    PROVE  SyncInv'
  <1>1. /\ after = NoCall /\ after.kind # "block" /\ after' = NoCall
        /\ UNCHANGED <<link, at, asked, sync, syncPeer, checks>>
        /\ threads' = threads \ {t}
    BY DEF ThreadEnds, Free, NoCall
  <1>2. chunkTask \in Tasks /\ \A u, v \in threads : u = v
    BY DEF SyncInv, SyncTypes, Rest
  <1>3. /\ chunkTask' \in Tasks
        /\ chunkTask'.peer = chunkTask.peer /\ chunkTask'.round = chunkTask.round
    BY <1>2 DEF ThreadEnds, Tasks, NoTask
  <1>4. threads' = {}
    BY <1>1, <1>2
  <1> QED
    BY <1>1, <1>3, <1>4, TaskMoves

\* import_chunk is called ...
LEMMA ImportCalled ==
    ASSUME sealed \in Nat, SyncInv, ChunkGood
    PROVE  SyncInv'
  <1>1. /\ after = NoCall /\ after.kind # "block"
        /\ chunkTask # NoTask /\ Current /\ chunkTask.step = "checked"
        /\ after' = [kind |-> "chunk", index |-> sealed, fits |-> Continues(chunkTask.file)]
        /\ UNCHANGED <<link, at, asked, sync, syncPeer, checks, chunkTask, threads>>
    BY DEF ChunkGood, TaskAt, Free, NoCall
  <1>2. after' \in Calls /\ after'.kind = "chunk"
    <2> DEFINE fits == Continues(chunkTask.file)
    <2>1. fits \in BOOLEAN
      BY DEF Continues
    <2>2. after' = [kind |-> "chunk", index |-> sealed, fits |-> fits]
      BY <1>1
    <2> HIDE DEF fits
    <2> QED
      BY <2>1, <2>2 DEF Calls
  <1>3. SyncTypes'
    BY <1>1, <1>2 DEF SyncInv, SyncTypes
  <1>4. Rest'
    BY <1>1, <1>2 DEF SyncInv, Rest, Current
  <1>5. Core(link, sync, asked, syncPeer, checks, chunkTask, NoCall)
    BY <1>1, Between
  <1>6. Core(link, sync, asked, syncPeer, checks, chunkTask, after')
    BY <1>5 DEF Core, OneAtATime, NoCall
  <1>7. Core(link, sync, asked, syncPeer, checks, chunkTask, after)'
    BY <1>1, <1>6
  <1> QED
    BY <1>3, <1>4, <1>7 DEF SyncInv

\* ... and has returned.
LEMMA ImportReturns ==
    ASSUME Tip \in Block, SyncInv, FinishChunk
    PROVE  SyncInv'
  <1>1. /\ after.kind = "chunk" /\ after.kind # "block" /\ after' = NoCall
        /\ UNCHANGED <<at, checks, threads>>
    BY DEF FinishChunk
  <1>2. chunkTask \in Tasks /\ chunkTask # NoTask /\ Current
    BY <1>1 DEF SyncInv, SyncTypes, Rest
  <1>3. CASE chunkTask' = [chunkTask EXCEPT !.step = "start"] /\ UNCHANGED <<link, asked, sync, syncPeer>>
    <2>1. /\ chunkTask' \in Tasks /\ chunkTask'.step = "start"
          /\ chunkTask'.peer = chunkTask.peer /\ chunkTask'.round = chunkTask.round
      BY <1>2, <1>3 DEF Tasks
    <2>2. \A t, u \in threads' : t = u
      BY <1>1 DEF SyncInv, Rest
    <2> QED
      BY <1>1, <1>3, <2>1, <2>2, TaskMoves
  <1>4. CASE ChunksEnd
    BY <1>1, <1>2, <1>4, ChunksEndFacts
  <1>5. CASE Drop(syncPeer, TRUE, sync)
    <2>1. syncPeer \in Peer
      BY <1>2 DEF Current, Tasks
    <2> QED
      BY <1>1, <1>5, <2>1, PeerDropped
  <1> QED
    BY <1>3, <1>4, <1>5 DEF FinishChunk

-----------------------------------------------------------------------------
(* Connections *)

\* A connection that is not ready any more, whatever is left of its questions.
LEMMA Disconnects ==
    ASSUME SyncInv, after.kind # "block", after' = NoCall, NEW p \in Peer, link[p] # "absent",
           link' \in [Peer -> {"absent", "ready", "closed", "gone"}],
           link'[p] \notin {"ready", "absent"}, \A q \in Peer \ {p} : link'[q] = link[q],
           HelperTypes(sync, asked'), \A q \in Peer \ {p} : asked'[q] = asked[q],
           UNCHANGED <<at, sync, syncPeer, checks, chunkTask, threads>>
    PROVE  SyncInv'
  <1>1. /\ HelperTypes(sync, asked) /\ syncPeer \in Peer \cup {NoPeer}
        /\ chunkTask \in Tasks /\ checks \subseteq Checks /\ \A t \in checks : t.peer \in Peer
        /\ at \in [Peer -> Nat] /\ \A q \in Peer : at[q] \in DOMAIN Tips[q]
        /\ \A t, u \in threads : t = u
        /\ chunkTask.step = "download" => threads = {}
        /\ Core(link, sync, asked, syncPeer, checks, chunkTask, NoCall)
    BY Between
  <1>2. \A q \in Peer : link'[q] = "ready" =>
           /\ link[q] = "ready" /\ sync[q] = sync[q] /\ asked'[q] = asked[q]
           /\ \A t \in checks \ checks : t.peer # q
    OBVIOUS
  <1>3. Core(link', sync, asked', syncPeer, checks, chunkTask, NoCall)
    BY <1>1, <1>2, CoreShrinks
  <1>4. \A q \in Peer : link'[q] = "absent" => link[q] = "absent" /\ asked'[q] = asked[q]
    OBVIOUS
  <1> QED
    BY <1>1, <1>3, <1>4, Assemble

\* After _maybe_sync, or _start_sync, of a handler that has lost no check.
LEMMA ChosenStep ==
    ASSUME SyncInv, after.kind # "block", after' = NoCall, NEW questions,
           link' \in [Peer -> {"absent", "ready", "closed", "gone"}],
           \A q \in Peer : link'[q] = "absent" => link[q] = "absent" /\ questions[q] = asked[q],
           Chosen(link', questions, checks), UNCHANGED <<at, checks, threads>>
    PROVE  SyncInv'
  <1>1. /\ checks \subseteq Checks /\ at \in [Peer -> Nat] /\ \A q \in Peer : at[q] \in DOMAIN Tips[q]
        /\ \A t, u \in threads : t = u
    BY Between
  <1>2. /\ HelperTypes(sync', asked')
        /\ syncPeer' \in Peer \cup {NoPeer} /\ chunkTask' \in Tasks /\ chunkTask'.step = "start"
        /\ syncPeer' \in Peer => link'[syncPeer'] = "ready"
        /\ \A q \in Peer : link'[q] # "ready" => asked'[q] = questions[q]
        /\ Core(link', sync', asked', syncPeer', checks, chunkTask', NoCall)
    BY DEF Chosen
  <1>3. \A q \in Peer : link'[q] = "absent" => link[q] = "absent" /\ asked'[q] = asked[q]
    BY <1>2
  <1> QED
    BY <1>1, <1>2, <1>3, Assemble

LEMMA ConnectStep ==
    ASSUME Tip \in Block, SyncInv, NEW p \in Peer, Connect(p)
    PROVE  SyncInv'
  <1>1. /\ after = NoCall /\ after.kind # "block" /\ after' = NoCall
        /\ link[p] = "absent" /\ link' = [link EXCEPT ![p] = "ready"]
        /\ UNCHANGED <<at, checks, threads>>
    BY DEF Connect, Free, NoCall
  <1>2. /\ HelperTypes(sync, asked) /\ syncPeer \in Peer \cup {NoPeer} /\ NoPeer \notin Peer
        /\ chunkTask \in Tasks /\ checks \subseteq Checks
        /\ link \in [Peer -> {"absent", "ready", "closed", "gone"}]
        /\ at \in [Peer -> Nat] /\ \A q \in Peer : at[q] \in DOMAIN Tips[q]
        /\ \A t, u \in threads : t = u
        /\ chunkTask.step = "download" => threads = {}
        /\ Core(link, sync, asked, syncPeer, checks, chunkTask, NoCall)
    BY <1>1, Between
  <1>3. asked[p] = <<>> /\ p # syncPeer /\ \A t \in checks : t.peer # p
    BY <1>1 DEF SyncInv, Rest
  <1>4. /\ link' \in [Peer -> {"absent", "ready", "closed", "gone"}]
        /\ link'[p] = "ready" /\ \A q \in Peer \ {p} : link'[q] = link[q]
    BY <1>1, <1>2
  <1>5. ~AsksHeaders(asked[p])
    BY <1>3, EmptyList DEF AsksHeaders
  <1>6. OnlyOf(syncPeer, link', asked, checks)
    BY <1>2, <1>3, <1>4, <1>5 DEF Core, OnlyOf
  <1>7. \A q \in Peer : link'[q] = "absent" => link[q] = "absent" /\ asked[q] = asked[q]
    BY <1>4
  <1>8. CASE syncPeer = NoPeer /\ MaybeSync(link', claim', sync, asked)
    <2>1. Chosen(link', asked, checks)
      BY <1>2, <1>6, <1>8, MaybeSyncFacts DEF Quiet
    <2> QED
      BY <1>1, <1>4, <1>7, <2>1, ChosenStep
  <1>9. CASE UNCHANGED <<sync, asked, syncPeer, chunkTask>>
    <2>1. Core(link', sync, asked, syncPeer, checks, chunkTask, NoCall)
      BY <1>2, <1>3, <1>4, <1>6 DEF Core
    <2>2. Core(link', sync', asked', syncPeer', checks', chunkTask', NoCall)
      BY <1>1, <1>9, <2>1
    <2> QED
      BY <1>1, <1>2, <1>4, <1>7, <1>9, <2>2, Assemble
  <1> QED
    BY <1>8, <1>9 DEF Connect

LEMMA LeaveStep ==
    ASSUME SyncInv, NEW p \in Peer, Leave(p) \/ Misbehave(p)
    PROVE  SyncInv'
  <1>1. /\ after = NoCall /\ after.kind # "block" /\ after' = NoCall
        /\ link[p] = "ready" /\ link' = [link EXCEPT ![p] = "closed"]
        /\ UNCHANGED <<at, asked, sync, syncPeer, checks, chunkTask, threads>>
    BY DEF Leave, Misbehave, Break, Free, NoCall
  <1>2. /\ HelperTypes(sync, asked) /\ link \in [Peer -> {"absent", "ready", "closed", "gone"}]
    BY <1>1, Between
  <1>3. /\ link' \in [Peer -> {"absent", "ready", "closed", "gone"}]
        /\ link'[p] \notin {"ready", "absent"} /\ \A q \in Peer \ {p} : link'[q] = link[q]
    BY <1>1, <1>2
  <1> QED
    BY <1>1, <1>2, <1>3, Disconnects

LEMMA ReaderStep ==
    ASSUME Tip \in Block, SyncInv, NEW p \in Peer, ReaderEnds(p)
    PROVE  SyncInv'
  <1> DEFINE cleared == [asked EXCEPT ![p] = <<>>]
  <1>1. /\ after = NoCall /\ after.kind # "block" /\ after' = NoCall
        /\ link[p] = "closed" /\ link' = [link EXCEPT ![p] = "gone"]
        /\ UNCHANGED <<at, checks, threads>>
    BY DEF ReaderEnds, Free, NoCall
  <1>2. /\ HelperTypes(sync, asked) /\ link \in [Peer -> {"absent", "ready", "closed", "gone"}]
        /\ Core(link, sync, asked, syncPeer, checks, chunkTask, NoCall)
    BY <1>1, Between
  <1>3. /\ link' \in [Peer -> {"absent", "ready", "closed", "gone"}]
        /\ link'[p] = "gone" /\ \A q \in Peer \ {p} : link'[q] = link[q]
    BY <1>1, <1>2
  <1>4. HelperTypes(sync, cleared) /\ \A q \in Peer \ {p} : cleared[q] = asked[q]
    <2>1. <<>> \in Seq(Question)
      BY EmptySeq
    <2> QED
      BY <1>2, <2>1 DEF HelperTypes
  <1> HIDE DEF cleared
  <1>5. CASE syncPeer = p /\ MaybeSync(link', claim, sync, cleared)
    <2>1. OnlyOf(p, link, asked, checks)
      BY <1>2, <1>5 DEF Core
    <2>2. Quiet(link', cleared, checks)
      BY <1>3, <1>4, <2>1 DEF Quiet, OnlyOf
    <2>3. Chosen(link', cleared, checks)
      BY <1>4, <1>5, <2>2, MaybeSyncFacts
    <2>4. \A q \in Peer : link'[q] = "absent" => link[q] = "absent" /\ cleared[q] = asked[q]
      BY <1>3, <1>4
    <2> QED
      BY <1>1, <1>3, <2>3, <2>4, ChosenStep
  <1>6. CASE asked' = cleared /\ UNCHANGED <<sync, syncPeer, chunkTask>>
    BY <1>1, <1>3, <1>4, <1>6, Disconnects
  <1> QED
    BY <1>5, <1>6 DEF ReaderEnds, cleared

LEMMA StallStep ==
    ASSUME Tip \in Block, SyncInv, NEW p \in Peer, Stall(p)
    PROVE  SyncInv'
  <1>1. /\ after = NoCall /\ after.kind # "block" /\ after' = NoCall
        /\ Drop(p, FALSE, sync) /\ UNCHANGED <<at, checks, threads>>
    BY DEF Stall, Free, NoCall
  <1> QED
    BY <1>1, PeerDropped

-----------------------------------------------------------------------------
(* Messages *)

\* One more question, for a block.
LEMMA AnnounceStep ==
    ASSUME SyncInv, NEW p \in Peer, Announce(p)
    PROVE  SyncInv'
  <1> DEFINE b == Tips[p][at[p] + 1]
             q == [kind |-> "block", id |-> b]
  <1>1. /\ after = NoCall /\ after.kind # "block" /\ after' = NoCall
        /\ link[p] = "ready" /\ at[p] < Len(Tips[p]) /\ at' = [at EXCEPT ![p] = @ + 1]
        /\ asked' = IF Known(b) THEN asked ELSE [asked EXCEPT ![p] = Append(@, q)]
        /\ UNCHANGED <<link, sync, syncPeer, checks, chunkTask, threads>>
    BY DEF Announce, Free, NoCall
  <1>2. /\ HelperTypes(sync, asked) /\ syncPeer \in Peer \cup {NoPeer}
        /\ chunkTask \in Tasks /\ checks \subseteq Checks
        /\ link \in [Peer -> {"absent", "ready", "closed", "gone"}]
        /\ at \in [Peer -> Nat] /\ \A r \in Peer : at[r] \in DOMAIN Tips[r]
        /\ \A t, u \in threads : t = u
        /\ chunkTask.step = "download" => threads = {}
        /\ Core(link, sync, asked, syncPeer, checks, chunkTask, NoCall)
    BY <1>1, Between
  <1>3. /\ Tips[p] \in Seq(Block) /\ Len(Tips[p]) \in Nat /\ DOMAIN Tips[p] = 1..Len(Tips[p])
        /\ at[p] + 1 \in DOMAIN Tips[p] /\ b \in Block
    <2>1. Tips[p] \in Seq(Block) /\ at[p] \in DOMAIN Tips[p] /\ at[p] \in Nat
      BY <1>2, SyncAssumption
    <2>2. /\ Len(Tips[p]) \in Nat /\ DOMAIN Tips[p] = 1..Len(Tips[p])
          /\ \A i \in 1..Len(Tips[p]) : Tips[p][i] \in Block
      BY <2>1, ListFacts
    <2>3. at[p] + 1 \in 1..Len(Tips[p])
      BY <1>1, <2>1, <2>2
    <2> QED
      BY <2>1, <2>2, <2>3
  <1>4. at' \in [Peer -> Nat] /\ \A r \in Peer : at'[r] \in DOMAIN Tips[r]
    BY <1>1, <1>2, <1>3
  <1>5. q \in Question /\ q.kind # "headers" /\ asked[p] \in Seq(Question)
    BY <1>2, <1>3 DEF Question, HelperTypes
  <1> HIDE DEF q
  <1>6. /\ Append(asked[p], q) \in Seq(Question)
        /\ AsksHeaders(Append(asked[p], q)) <=> AsksHeaders(asked[p])
        /\ AsksOnce(asked[p]) => AsksOnce(Append(asked[p], q))
        /\ \A a \in Block : AsksBlock(asked[p], a) => AsksBlock(Append(asked[p], q), a)
    BY <1>5, AskedAppend
  <1>7. /\ HelperTypes(sync, asked') /\ \A r \in Peer \ {p} : asked'[r] = asked[r]
        /\ AsksHeaders(asked'[p]) <=> AsksHeaders(asked[p])
        /\ AsksOnce(asked[p]) => AsksOnce(asked'[p])
        /\ \A a \in Block : AsksBlock(asked[p], a) => AsksBlock(asked'[p], a)
    BY <1>1, <1>2, <1>6 DEF HelperTypes
  <1>8. Core(link, sync, asked', syncPeer, checks, chunkTask, NoCall)
    <2>1. OnlyOf(syncPeer, link, asked', checks)
      BY <1>2, <1>7 DEF Core, OnlyOf
    <2>2. ASSUME syncPeer \in Peer, link[syncPeer] = "ready"
          PROVE  /\ OneAtATime(syncPeer, sync[syncPeer], asked'[syncPeer], checks, chunkTask, NoCall)
                 /\ Busy(syncPeer, sync[syncPeer], chunkTask)
      <3>1. /\ OneAtATime(syncPeer, sync[syncPeer], asked[syncPeer], checks, chunkTask, NoCall)
            /\ Busy(syncPeer, sync[syncPeer], chunkTask)
        BY <1>2, <2>2 DEF Core
      <3>2. sync[syncPeer].inFlight \subseteq Block
        BY <1>2, <2>2 DEF HelperTypes, Fields
      <3>3. /\ AsksHeaders(asked'[syncPeer]) <=> AsksHeaders(asked[syncPeer])
            /\ AsksOnce(asked[syncPeer]) => AsksOnce(asked'[syncPeer])
            /\ \A a \in Block : AsksBlock(asked[syncPeer], a) => AsksBlock(asked'[syncPeer], a)
        BY <1>7, <2>2
      <3>4. OneAtATime(syncPeer, sync[syncPeer], asked'[syncPeer], checks, chunkTask, NoCall)
        BY <3>1, <3>2, <3>3 DEF OneAtATime, NoCall
      <3> QED
        BY <3>1, <3>4
    <2> QED
      BY <2>1, <2>2 DEF Core
  <1>9. \A r \in Peer : link'[r] = "absent" => link[r] = "absent" /\ asked'[r] = asked[r]
    BY <1>1, <1>7
  <1> QED
    BY <1>1, <1>2, <1>4, <1>7, <1>8, <1>9, Assemble

\* The oldest question of a peer is answered.
LEMMA Answered ==
    ASSUME SyncInv, NEW p \in Peer, NEW kind, Due(p, kind),
           asked' = [asked EXCEPT ![p] = Tail(@)]
    PROVE  /\ after = NoCall /\ after.kind # "block" /\ link[p] = "ready"
           /\ Head(asked[p]) \in Question /\ Head(asked[p]).kind = kind
           /\ HelperTypes(sync, asked') /\ asked'[p] = Tail(asked[p])
           /\ \A q \in Peer \ {p} : asked'[q] = asked[q]
           /\ AsksHeaders(asked'[p]) => AsksHeaders(asked[p])
           /\ AsksOnce(asked[p]) => AsksOnce(asked'[p])
           /\ kind = "headers" => AsksHeaders(asked[p])
           /\ kind = "headers" /\ AsksOnce(asked[p]) => ~AsksHeaders(asked'[p])
           /\ kind # "headers" /\ AsksHeaders(asked[p]) => AsksHeaders(asked'[p])
           /\ \A b \in Block : AsksBlock(asked[p], b) =>
                 Head(asked[p]) = [kind |-> "block", id |-> b] \/ AsksBlock(asked'[p], b)
  <1>1. /\ after = NoCall /\ after.kind # "block" /\ link[p] = "ready"
        /\ asked[p] # <<>> /\ Head(asked[p]).kind = kind
    BY DEF Due, Free, NoCall
  <1>2. HelperTypes(sync, asked) /\ asked[p] \in Seq(Question)
    BY <1>1, Between DEF HelperTypes
  <1> DEFINE qs == asked[p]
  <1>3. /\ Tail(qs) \in Seq(Question) /\ Head(qs) \in Question
        /\ AsksHeaders(Tail(qs)) => AsksHeaders(qs)
        /\ AsksOnce(qs) => AsksOnce(Tail(qs))
        /\ Head(qs).kind = "headers" => AsksHeaders(qs)
        /\ Head(qs).kind = "headers" /\ AsksOnce(qs) => ~AsksHeaders(Tail(qs))
        /\ Head(qs).kind # "headers" /\ AsksHeaders(qs) => AsksHeaders(Tail(qs))
        /\ \A b \in Block : AsksBlock(qs, b) =>
              Head(qs) = [kind |-> "block", id |-> b] \/ AsksBlock(Tail(qs), b)
    BY <1>1, <1>2, AskedTail
  <1>4. asked'[p] = Tail(qs) /\ \A q \in Peer \ {p} : asked'[q] = asked[q]
    BY <1>2 DEF HelperTypes
  <1>5. HelperTypes(sync, asked')
    BY <1>2, <1>3, <1>4 DEF HelperTypes
  <1> QED
    BY <1>1, <1>3, <1>4, <1>5

\* An answer that leaves the fields and the tasks alone, unless it is the one a
\* block in flight waits for.
LEMMA AnsweredCore ==
    ASSUME SyncInv, NEW p \in Peer, Due(p, "block"), asked' = [asked EXCEPT ![p] = Tail(@)],
           NEW call, Head(asked[p]).id \in sync[p].inFlight =>
                        /\ call.kind = "block" /\ call.peer = p /\ call.syncing
                        /\ call.id = Head(asked[p]).id
    PROVE  Core(link, sync, asked', syncPeer, checks, chunkTask, call)
  <1>1. /\ after.kind # "block" /\ link[p] = "ready"
        /\ HelperTypes(sync, asked') /\ \A q \in Peer \ {p} : asked'[q] = asked[q]
        /\ AsksHeaders(asked'[p]) <=> AsksHeaders(asked[p])
        /\ AsksOnce(asked[p]) => AsksOnce(asked'[p])
        /\ \A b \in Block : AsksBlock(asked[p], b) =>
              Head(asked[p]) = [kind |-> "block", id |-> b] \/ AsksBlock(asked'[p], b)
    BY Answered
  <1>2. Core(link, sync, asked, syncPeer, checks, chunkTask, NoCall)
    BY <1>1, Between
  <1>3. OnlyOf(syncPeer, link, asked', checks)
    BY <1>1, <1>2 DEF Core, OnlyOf
  <1>4. ASSUME syncPeer \in Peer, link[syncPeer] = "ready"
        PROVE  /\ OneAtATime(syncPeer, sync[syncPeer], asked'[syncPeer], checks, chunkTask, call)
               /\ Busy(syncPeer, sync[syncPeer], chunkTask)
    <2>1. /\ OneAtATime(syncPeer, sync[syncPeer], asked[syncPeer], checks, chunkTask, NoCall)
          /\ Busy(syncPeer, sync[syncPeer], chunkTask)
      BY <1>2, <1>4 DEF Core
    <2>2. sync[syncPeer].inFlight \subseteq Block
      BY <1>1, <1>4 DEF HelperTypes, Fields
    <2>3. ASSUME NEW b \in sync[syncPeer].inFlight
          PROVE  AsksBlock(asked'[syncPeer], b)
                 \/ (call.kind = "block" /\ call.peer = syncPeer /\ call.syncing /\ call.id = b)
      <3>1. AsksBlock(asked[syncPeer], b) /\ b \in Block
        BY <2>1, <2>2 DEF OneAtATime, NoCall
      <3>2. CASE syncPeer # p
        BY <1>1, <1>4, <3>1, <3>2
      <3>3. CASE syncPeer = p
        <4>1. CASE Head(asked[p]) = [kind |-> "block", id |-> b]
          BY <3>3, <4>1
        <4>2. CASE AsksBlock(asked'[p], b)
          BY <3>3, <4>2
        <4> QED
          BY <1>1, <3>1, <3>3, <4>1, <4>2
      <3> QED
        BY <3>2, <3>3
    <2>4. /\ AsksHeaders(asked'[syncPeer]) <=> AsksHeaders(asked[syncPeer])
          /\ AsksOnce(asked[syncPeer]) => AsksOnce(asked'[syncPeer])
      BY <1>1, <1>4
    <2> QED
      BY <2>1, <2>3, <2>4 DEF OneAtATime
  <1> QED
    BY <1>3, <1>4 DEF Core

LEMMA AheadStep ==
    ASSUME Tip \in Block, SyncInv, NEW p \in Peer, BlockAhead(p)
    PROVE  SyncInv'
  <1> DEFINE questions == [asked EXCEPT ![p] = Tail(@)]
  <1>1. /\ Due(p, "block") /\ Head(asked[p]).id \notin sync[p].inFlight
        /\ UNCHANGED <<link, at, checks, threads, after>>
        /\ IF syncPeer = NoPeer
           THEN StartSync(p, sync, questions)
           ELSE asked' = questions /\ UNCHANGED <<sync, syncPeer, chunkTask>>
    BY DEF BlockAhead
  <1>2. after = NoCall /\ after.kind # "block" /\ link[p] = "ready" /\ after' = NoCall
    BY <1>1 DEF Due, Free, NoCall
  <1>3. /\ HelperTypes(sync, asked) /\ syncPeer \in Peer \cup {NoPeer} /\ NoPeer \notin Peer
        /\ chunkTask \in Tasks /\ checks \subseteq Checks
        /\ link \in [Peer -> {"absent", "ready", "closed", "gone"}]
        /\ at \in [Peer -> Nat] /\ \A r \in Peer : at[r] \in DOMAIN Tips[r]
        /\ \A t, u \in threads : t = u
        /\ chunkTask.step = "download" => threads = {}
        /\ Core(link, sync, asked, syncPeer, checks, chunkTask, NoCall)
    BY <1>2, Between
  <1>4. /\ HelperTypes(sync, questions) /\ \A q \in Peer \ {p} : questions[q] = asked[q]
        /\ AsksHeaders(questions[p]) => AsksHeaders(asked[p])
    <2>1. /\ Tail(asked[p]) \in Seq(Question)
          /\ AsksHeaders(Tail(asked[p])) => AsksHeaders(asked[p])
      BY <1>1, <1>3, AskedTail DEF HelperTypes, Due
    <2>2. questions[p] = Tail(asked[p])
      BY <1>3 DEF HelperTypes
    <2> QED
      BY <1>3, <2>1, <2>2 DEF HelperTypes
  <1>5. CASE syncPeer = NoPeer /\ StartSync(p, sync, questions)
    <2>1. Quiet(link, questions, checks)
      <3>1. OnlyOf(NoPeer, link, asked, checks)
        BY <1>3, <1>5 DEF Core
      <3> HIDE DEF questions
      <3> QED
        BY <1>4, <3>1 DEF Quiet, OnlyOf
    <2> HIDE DEF questions
    <2>2. Chosen(link, questions, checks)
      BY <1>2, <1>4, <1>5, <2>1, StartSyncFacts
    <2>3. link' = link /\ Chosen(link', questions, checks)
      BY <1>1, <2>2
    <2>4. \A q \in Peer : link'[q] = "absent" => link[q] = "absent" /\ questions[q] = asked[q]
      BY <1>1, <1>2, <1>4
    <2> QED
      BY <1>1, <1>2, <1>3, <2>3, <2>4, ChosenStep
  <1>6. CASE asked' = questions /\ UNCHANGED <<sync, syncPeer, chunkTask>>
    <2>1. asked' = [asked EXCEPT ![p] = Tail(@)]
      BY <1>6
    <2>2. Core(link, sync, asked', syncPeer, checks, chunkTask, NoCall)
      BY <1>1, <2>1, AnsweredCore
    <2>3. \A q \in Peer : link'[q] = "absent" => link[q] = "absent" /\ asked'[q] = asked[q]
      <3> HIDE DEF questions
      <3> QED
        BY <1>1, <1>2, <1>4, <1>6
    <2>4. Core(link', sync', asked', syncPeer', checks', chunkTask', NoCall)
      BY <1>1, <1>6, <2>2
    <2>5. HelperTypes(sync', asked')
      BY <1>4, <1>6
    <2> QED
      BY <1>1, <1>2, <1>3, <1>6, <2>3, <2>4, <2>5, Assemble
  <1> QED
    BY <1>1, <1>5, <1>6

LEMMA HeadersStep ==
    ASSUME SyncInv, NEW p \in Peer, HeadersArrive(p)
    PROVE  SyncInv'
  <1>1. /\ Due(p, "headers") /\ asked' = [asked EXCEPT ![p] = Tail(@)]
        /\ UNCHANGED <<link, at, syncPeer, chunkTask, threads, after>>
    BY DEF HeadersArrive
  <1>2. /\ after = NoCall /\ after.kind # "block" /\ link[p] = "ready"
        /\ Head(asked[p]) \in Question /\ Head(asked[p]).kind = "headers"
        /\ HelperTypes(sync, asked') /\ \A q \in Peer \ {p} : asked'[q] = asked[q]
        /\ AsksOnce(asked[p]) => AsksOnce(asked'[p])
        /\ AsksHeaders(asked[p])
        /\ AsksOnce(asked[p]) => ~AsksHeaders(asked'[p])
        /\ \A b \in Block : AsksBlock(asked[p], b) =>
              Head(asked[p]) = [kind |-> "block", id |-> b] \/ AsksBlock(asked'[p], b)
    BY <1>1, Answered
  <1>3. /\ HelperTypes(sync, asked) /\ syncPeer \in Peer \cup {NoPeer}
        /\ chunkTask \in Tasks /\ checks \subseteq Checks /\ \A t \in checks : t.peer \in Peer
        /\ link \in [Peer -> {"absent", "ready", "closed", "gone"}]
        /\ at \in [Peer -> Nat] /\ \A r \in Peer : at[r] \in DOMAIN Tips[r]
        /\ \A t, u \in threads : t = u
        /\ chunkTask.step = "download" => threads = {}
        /\ Core(link, sync, asked, syncPeer, checks, chunkTask, NoCall)
    BY <1>2, Between
  <1>4. /\ p = syncPeer
        /\ OneAtATime(p, sync[p], asked[p], checks, chunkTask, NoCall)
        /\ OnlyOf(p, link, asked, checks)
    BY <1>2, <1>3 DEF Core, OnlyOf
  <1>5. /\ sync[p].awaiting /\ ~sync[p].checking /\ ~AsksHeaders(asked'[p]) /\ AsksOnce(asked'[p])
        /\ ~TaskOf(p, sync[p], chunkTask) /\ \A t \in checks : t.peer # p
    BY <1>2, <1>4 DEF OneAtATime
  <1>6. PICK hs \in Answers(p, Head(asked[p])) :
           /\ checks' = checks \cup {[peer |-> p, round |-> sync[p].round, step |-> "new",
                                      headers |-> hs, known |-> 0, passed |-> 0, anchor |-> NoBlock]}
           /\ sync' = [sync EXCEPT ![p].awaiting = FALSE, ![p].checking = TRUE]
    BY <1>4, <1>5 DEF HeadersArrive
  <1> DEFINE t == [peer |-> p, round |-> sync[p].round, step |-> "new", headers |-> hs,
                   known |-> 0, passed |-> 0, anchor |-> NoBlock]
             old == sync[p]
             new == [old EXCEPT !.awaiting = FALSE, !.checking = TRUE]
  <1>7. hs \in Seq(Block)
    BY <1>2, AnswerFacts DEF SyncInv
  <1>8. old \in Fields /\ sync \in [Peer -> Fields]
    BY <1>3 DEF HelperTypes
  <1>9. t \in Checks /\ t.peer = p /\ t.round = old.round
    <2>1. Len(hs) \in Nat /\ old.round \in Nat
      BY <1>7, <1>8, ListFacts DEF Fields
    <2> HIDE DEF old
    <2> QED
      BY <1>7, <2>1 DEF Checks, old
  <1>10. /\ new \in Fields /\ new.round = old.round /\ new.inFlight = old.inFlight
         /\ ~new.awaiting /\ new.checking
    <2> HIDE DEF old
    <2> QED
      BY <1>8 DEF Fields
  <1>11. sync' = [sync EXCEPT ![p] = new]
    BY <1>6, <1>8
  <1>12. sync'[p] = new /\ sync' \in [Peer -> Fields] /\ checks' = checks \cup {t}
    <2> HIDE DEF new
    <2>1. sync'[p] = new /\ sync' \in [Peer -> Fields]
      BY <1>8, <1>10, <1>11
    <2> QED
      BY <1>6, <2>1
  <1> HIDE DEF t, new
  <1>13. OneAtATime(p, sync'[p], asked'[p], checks', chunkTask, NoCall)
    <2>1. /\ \A u \in checks' : u.peer = p => u = t
          /\ t \in checks'
      BY <1>5, <1>12
    <2>2. old.inFlight \subseteq Block
      BY <1>8 DEF Fields
    <2>3. \A b \in old.inFlight : AsksBlock(asked'[p], b)
      <3>1. \A b \in old.inFlight : AsksBlock(asked[p], b)
        BY <1>4 DEF OneAtATime, NoCall
      <3>2. ASSUME NEW b \in Block PROVE Head(asked[p]) # [kind |-> "block", id |-> b]
        BY <1>2
      <3> QED
        BY <1>2, <2>2, <3>1, <3>2
    <2> QED
      BY <1>5, <1>9, <1>10, <1>12, <2>1, <2>3 DEF OneAtATime, TaskOf
  <1>14. Busy(p, sync'[p], chunkTask)
    BY <1>10, <1>12 DEF Busy
  <1>15. OnlyOf(p, link, asked', checks')
    BY <1>2, <1>4, <1>9, <1>12 DEF OnlyOf
  <1>16. Core(link', sync', asked', syncPeer', checks', chunkTask', NoCall)
    BY <1>1, <1>4, <1>13, <1>14, <1>15 DEF Core
  <1>17. /\ HelperTypes(sync', asked') /\ checks' \subseteq Checks
         /\ \A u \in checks' : (\E v \in checks : v.peer = u.peer) \/ link'[u.peer] = "ready"
         /\ \A q \in Peer : link'[q] = "absent" => link[q] = "absent" /\ asked'[q] = asked[q]
    BY <1>1, <1>2, <1>3, <1>9, <1>12 DEF HelperTypes
  <1> QED
    BY <1>1, <1>2, <1>3, <1>16, <1>17, Assemble

\* A block is submitted ...
LEMMA BlockStep ==
    ASSUME SyncInv, NEW p \in Peer, BlockArrives(p)
    PROVE  SyncInv'
  <1>1. /\ Due(p, "block") /\ asked' = [asked EXCEPT ![p] = Tail(@)]
        /\ UNCHANGED <<link, at, sync, syncPeer, checks, chunkTask, threads>>
    BY DEF BlockArrives
  <1>2. PICK b \in PeerHas(p) :
           /\ b = Head(asked[p]).id
           /\ after' = [kind |-> "block", peer |-> p, id |-> b,
                        syncing |-> b \in sync[p].inFlight,
                        harmless |-> Harmless(b)]
    BY DEF BlockArrives
  <1>3. /\ after.kind # "block" /\ link[p] = "ready"
        /\ HelperTypes(sync, asked') /\ \A q \in Peer \ {p} : asked'[q] = asked[q]
    BY <1>1, Answered
  <1>4. b \in Block
    BY PeerBlocks DEF SyncInv
  <1> DEFINE syncing == b \in sync[p].inFlight
             harmless == Harmless(b)
  <1>5. syncing \in BOOLEAN /\ harmless \in BOOLEAN
    BY DEF Harmless
  <1>6. after' = [kind |-> "block", peer |-> p, id |-> b, syncing |-> syncing,
                  harmless |-> harmless]
    BY <1>2
  <1> HIDE DEF harmless, syncing
  <1>7. /\ after' \in Calls /\ after'.kind = "block" /\ after'.peer = p /\ after'.id = b
        /\ after'.syncing = syncing
    BY <1>4, <1>5, <1>6 DEF Calls
  <1>8. SyncTypes'
    BY <1>1, <1>3, <1>7 DEF SyncInv, SyncTypes, HelperTypes
  <1>9. Rest'
    <2>1. \A q \in Peer : link'[q] = "absent" =>
             asked'[q] = <<>> /\ q # syncPeer' /\ \A t \in checks' : t.peer # q
      BY <1>1, <1>3 DEF SyncInv, Rest
    <2>2. after'.syncing => after'.id \in sync'[after'.peer].inFlight
      BY <1>1, <1>7 DEF syncing
    <2>3. \A t, u \in threads' : t = u
      BY <1>1 DEF SyncInv, Rest
    <2>4. chunkTask'.step = "download" => threads' = {}
      BY <1>1 DEF SyncInv, Rest
    <2>5. link'[after'.peer] = "ready" /\ after'.kind # "chunk"
      BY <1>1, <1>3, <1>7
    <2> QED
      BY <2>1, <2>2, <2>3, <2>4, <2>5 DEF Rest
  <1>10. Core(link, sync, asked', syncPeer, checks, chunkTask, after')
    <2>1. Head(asked[p]).id \in sync[p].inFlight =>
             /\ after'.kind = "block" /\ after'.peer = p /\ after'.syncing
             /\ after'.id = Head(asked[p]).id
      BY <1>2, <1>7 DEF syncing
    <2> QED
      BY <1>1, <2>1, AnsweredCore
  <1>11. Core(link, sync, asked, syncPeer, checks, chunkTask, after)'
    BY <1>1, <1>10
  <1> QED
    BY <1>8, <1>9, <1>11 DEF SyncInv

\* ... and the rest of _on_block.
LEMMA FinishStep ==
    ASSUME Tip \in Block, SyncInv, FinishBlock
    PROVE  SyncInv'
  <1> DEFINE p == after.peer
             b == after.id
             shorter == [sync EXCEPT ![p].inFlight = @ \ {b}]
  <1>1. /\ after.kind = "block" /\ after' = NoCall /\ UNCHANGED <<at, checks, threads>>
    BY DEF FinishBlock
  <1>2. /\ link \in [Peer -> {"absent", "ready", "closed", "gone"}]
        /\ at \in [Peer -> Nat] /\ \A q \in Peer : at[q] \in DOMAIN Tips[q]
        /\ HelperTypes(sync, asked) /\ syncPeer \in Peer \cup {NoPeer} /\ NoPeer \notin Peer
        /\ checks \subseteq Checks /\ \A t \in checks : t.peer \in Peer
        /\ chunkTask \in Tasks
    BY SyncAssumption DEF SyncInv, SyncTypes, HelperTypes, Checks
  <1>3. /\ p \in Peer /\ b \in Block /\ link[p] = "ready"
        /\ after.syncing => b \in sync[p].inFlight
        /\ \A t, u \in threads : t = u
        /\ chunkTask.step = "download" => threads = {}
    BY <1>1 DEF SyncInv, SyncTypes, Rest, Calls, NoCall
  <1>4. Core(link, sync, asked, syncPeer, checks, chunkTask, after)
    BY DEF SyncInv
  <1>5. CASE link' = [link EXCEPT ![p] = "closed"] /\ UNCHANGED <<asked, sync, syncPeer, chunkTask>>
    <2>1. /\ link' \in [Peer -> {"absent", "ready", "closed", "gone"}]
          /\ link'[p] = "closed" /\ \A q \in Peer \ {p} : link'[q] = link[q]
      BY <1>2, <1>3, <1>5
    <2>2. Core(link', sync, asked, syncPeer, checks, chunkTask, NoCall)
      <3>1. OnlyOf(syncPeer, link', asked, checks)
        BY <1>4, <2>1 DEF Core, OnlyOf
      <3>2. ASSUME syncPeer \in Peer, link'[syncPeer] = "ready"
            PROVE  /\ OneAtATime(syncPeer, sync[syncPeer], asked[syncPeer], checks, chunkTask, NoCall)
                   /\ Busy(syncPeer, sync[syncPeer], chunkTask)
        <4>1. p # syncPeer /\ link[syncPeer] = "ready"
          BY <2>1, <3>2
        <4>2. /\ OneAtATime(syncPeer, sync[syncPeer], asked[syncPeer], checks, chunkTask, after)
              /\ Busy(syncPeer, sync[syncPeer], chunkTask)
          BY <1>4, <3>2, <4>1 DEF Core
        <4> QED
          BY <4>1, <4>2 DEF OneAtATime
      <3> QED
        BY <3>1, <3>2 DEF Core
    <2>3. Core(link', sync', asked', syncPeer', checks', chunkTask', NoCall)
      BY <1>1, <1>5, <2>2
    <2>4. \A q \in Peer : link'[q] = "absent" => link[q] = "absent" /\ asked'[q] = asked[q]
      BY <1>3, <1>5, <2>1
    <2> QED
      BY <1>1, <1>2, <1>3, <1>5, <2>1, <2>3, <2>4, Assemble
  <1>6. CASE ~after.syncing /\ UNCHANGED <<link, asked, sync, syncPeer, chunkTask>>
    <2>1. Core(link, sync, asked, syncPeer, checks, chunkTask, NoCall)
      BY <1>4, <1>6 DEF Core, OneAtATime
    <2>2. Core(link', sync', asked', syncPeer', checks', chunkTask', NoCall)
      BY <1>1, <1>6, <2>1
    <2> QED
      BY <1>1, <1>2, <1>3, <1>6, <2>2, Assemble
  <1>7. ASSUME after.syncing, NEW claims, ContinueSync(p, claims, shorter), UNCHANGED link
        PROVE  SyncInv'
    <2> DEFINE old == sync[p]
               new == [old EXCEPT !.inFlight = old.inFlight \ {b}]
    <2>1. old \in Fields /\ sync \in [Peer -> Fields]
      BY <1>2, <1>3 DEF HelperTypes
    <2>2. /\ new \in Fields /\ new.round = old.round /\ new.awaiting = old.awaiting
          /\ new.checking = old.checking /\ new.inFlight = old.inFlight \ {b}
      <3> HIDE DEF old
      <3> QED
        BY <2>1 DEF Fields
    <2>3. shorter = [sync EXCEPT ![p] = new]
      BY <1>3, <2>1
    <2>4. /\ HelperTypes(shorter, asked) /\ shorter[p] = new
          /\ \A q \in Peer \ {p} : shorter[q] = sync[q]
      <3> HIDE DEF new, shorter
      <3> QED
        BY <1>2, <1>3, <2>1, <2>2, <2>3 DEF HelperTypes
    <2> HIDE DEF new, shorter
    <2>5. OnlyOf(syncPeer, link, asked, checks)
      BY <1>4 DEF Core
    <2>6. ASSUME p = syncPeer
          PROVE  /\ OneAtATime(p, shorter[p], asked[p], checks, chunkTask, NoCall)
                 /\ ~TaskOf(p, shorter[p], chunkTask)
      <3>1. OneAtATime(p, old, asked[p], checks, chunkTask, after)
        BY <1>3, <1>4, <2>6 DEF Core
      <3>2. old.inFlight # {}
        BY <1>3, <1>7
      <3> HIDE DEF old
      <3>3. \A a \in new.inFlight : AsksBlock(asked[p], a)
        BY <2>2, <3>1 DEF OneAtATime
      <3>4. ~TaskOf(p, old, chunkTask)
        BY <3>1, <3>2 DEF OneAtATime
      <3> QED
        BY <2>2, <2>4, <3>1, <3>3, <3>4 DEF OneAtATime, TaskOf
    <2>7. ASSUME p # syncPeer
          PROVE  Core(link, shorter, asked, syncPeer, checks, chunkTask, NoCall)
      <3>1. ASSUME syncPeer \in Peer, link[syncPeer] = "ready"
            PROVE  /\ OneAtATime(syncPeer, shorter[syncPeer], asked[syncPeer], checks, chunkTask, NoCall)
                   /\ Busy(syncPeer, shorter[syncPeer], chunkTask)
        <4>1. shorter[syncPeer] = sync[syncPeer]
          BY <2>4, <2>7, <3>1
        <4>2. /\ OneAtATime(syncPeer, sync[syncPeer], asked[syncPeer], checks, chunkTask, after)
              /\ Busy(syncPeer, sync[syncPeer], chunkTask)
          BY <1>4, <3>1 DEF Core
        <4> QED
          BY <2>7, <4>1, <4>2 DEF OneAtATime
      <3> QED
        BY <2>5, <3>1 DEF Core
    <2>8. Continued(checks)
      BY <1>2, <1>3, <1>7, <2>4, <2>5, <2>6, <2>7, ContinueFacts
    <2>9. /\ HelperTypes(sync', asked') /\ syncPeer' \in Peer \cup {NoPeer} /\ chunkTask' \in Tasks
          /\ chunkTask' = chunkTask \/ chunkTask'.step = "start"
          /\ syncPeer' = syncPeer \/ (syncPeer' \in Peer => link'[syncPeer'] = "ready")
          /\ \A q \in Peer : link'[q] = "absent" => link[q] = "absent" /\ asked'[q] = asked[q]
          /\ Core(link', sync', asked', syncPeer', checks', chunkTask', NoCall)
      BY <1>1, <1>7, <2>8 DEF Continued
    <2>10. chunkTask'.step = "download" => threads' = {}
      BY <1>1, <1>3, <2>9
    <2> QED
      BY <1>1, <1>2, <1>3, <1>7, <2>9, <2>10, Assemble
  <1>8. \/ link' = [link EXCEPT ![p] = "closed"] /\ UNCHANGED <<asked, sync, syncPeer, chunkTask>>
        \/ ~after.syncing /\ UNCHANGED <<link, asked, sync, syncPeer, chunkTask>>
        \/ after.syncing /\ UNCHANGED link /\ \E claims : ContinueSync(p, claims, shorter)
    BY DEF FinishBlock, Break
  <1> QED
    BY <1>5, <1>6, <1>7, <1>8

-----------------------------------------------------------------------------
(* Every step *)

LEMMA SyncStep ==
    ASSUME IInv, SyncInv, [PNext]_pvars
    PROVE  IInv' /\ SyncInv'
  <1>1. Tip \in Block /\ sealed \in Nat
    <2>1. TypeOK /\ ChainInv
      BY DEF IInv
    <2>2. Tip \in Block
      BY <2>1, MainFacts
    <2> QED
      BY <2>1, <2>2 DEF TypeOK, StoreTypeOK
  <1>2. CASE UNCHANGED pvars
    <2>1. UNCHANGED vars /\ UNCHANGED peerVars
      BY <1>2 DEF pvars
    <2>2. SyncInv'
      BY <2>1 DEF peerVars, SyncInv, SyncTypes, Rest, Current
    <2> QED
      BY <2>1, <2>2, StepInv
  <1>3. CASE HandlerStep /\ UNCHANGED peerVars
    <2>1. SyncInv'
      BY <1>3 DEF peerVars, SyncInv, SyncTypes, Rest, Current
    <2> QED
      BY <1>3, <2>1, StepInv
  <1>4. ASSUME NEW p \in Peer, BlockArrives(p)
        PROVE  IInv' /\ SyncInv'
    <2>1. PICK b \in PeerHas(p) : SubmitBlock(b)
      BY <1>4 DEF BlockArrives
    <2>2. b \in Block
      BY PeerBlocks DEF SyncInv
    <2> QED
      BY <1>1, <1>4, <2>1, <2>2, StepInv, BlockStep
  <1>5. CASE ChunkGood
    <2>1. ImportChunk(chunkTask.file) /\ chunkTask # NoTask /\ chunkTask.step = "checked"
      BY <1>5 DEF ChunkGood, TaskAt
    <2>2. chunkTask.file \in Block
      BY <2>1 DEF SyncInv, SyncTypes, Tasks
    <2> QED
      BY <1>1, <1>5, <2>1, <2>2, StepInv, ImportCalled
  <1>6. ASSUME UNCHANGED vars, SyncInv'
        PROVE  IInv' /\ SyncInv'
    BY <1>6, StepInv
  <1>7. CASE FinishBlock
    BY <1>1, <1>6, <1>7, FinishStep DEF FinishBlock
  <1>8. CASE FinishChunk
    BY <1>1, <1>6, <1>8, ImportReturns DEF FinishChunk
  <1>9. ASSUME NEW p \in Peer,
               \/ Connect(p) \/ Announce(p) \/ HeadersArrive(p) \/ BlockAhead(p)
               \/ Leave(p) \/ Misbehave(p) \/ ReaderEnds(p) \/ Stall(p)
        PROVE  IInv' /\ SyncInv'
    <2>1. UNCHANGED vars
      BY <1>9 DEF Connect, Announce, HeadersArrive, BlockAhead, Leave, Misbehave, ReaderEnds, Stall
    <2>2. SyncInv'
      BY <1>1, <1>9, ConnectStep, AnnounceStep, HeadersStep, AheadStep, LeaveStep, ReaderStep, StallStep
    <2> QED
      BY <1>6, <2>1, <2>2
  <1>10. ASSUME NEW t \in checks, CheckStep(t)
         PROVE  IInv' /\ SyncInv'
    <2>1. UNCHANGED vars
      BY <1>10 DEF CheckStep, HeadersUnconnected, HeadersRefused, HeadersTooDeep, HeadersPass, PowChecked
    <2> QED
      BY <1>1, <1>6, <1>10, <2>1, CheckSteps
  <1>11. CASE NextChunk \/ DownloadFails \/ Downloaded \/ ChunkBad \/ ChunkLate
    <2>1. UNCHANGED vars
      BY <1>11 DEF NextChunk, DownloadFails, Downloaded, ChunkBad, ChunkLate
    <2> QED
      BY <1>1, <1>6, <1>11, <2>1, TaskSteps
  <1>12. ASSUME NEW t \in threads, ThreadEnds(t)
         PROVE  IInv' /\ SyncInv'
    BY <1>6, <1>12, ThreadStep DEF ThreadEnds
  <1> QED
    BY <1>2, <1>3, <1>4, <1>5, <1>7, <1>8, <1>9, <1>10, <1>11, <1>12
    DEF PNext, RunOn, Reply, ChunkStep

LEMMA SyncInit ==
    ASSUME PInit
    PROVE  IInv /\ SyncInv
  <1>1. IInv
    BY InitInv DEF PInit
  <1>2. /\ link = [p \in Peer |-> "absent"] /\ at = [p \in Peer |-> 1]
        /\ asked = [p \in Peer |-> <<>>] /\ sync = [p \in Peer |-> Fresh(0)]
        /\ syncPeer = NoPeer /\ checks = {} /\ chunkTask = NoTask /\ threads = {} /\ after = NoCall
    BY DEF PInit
  <1>3. NoPeer \notin Peer
    BY SyncAssumption
  <1>4. /\ Fresh(0) \in Fields
        /\ <<>> \in Seq(Question)
    <2>1. <<>> \in Seq(Block) /\ <<>> \in Seq(Question)
      BY EmptySeq
    <2> QED
      BY <2>1 DEF Fresh, Fields
  <1>5. ASSUME NEW p \in Peer PROVE 1 \in DOMAIN Tips[p]
    <2>1. Tips[p] \in Seq(Block) /\ Tips[p] # <<>>
      BY SyncAssumption
    <2>2. Len(Tips[p]) \in Nat /\ DOMAIN Tips[p] = 1..Len(Tips[p]) /\ Len(Tips[p]) # 0
      BY <2>1, ListFacts, EmptySeq
    <2> QED
      BY <2>2
  <1>6. SyncTypes
    <2>1. chunkTask \in Tasks /\ after \in Calls
      BY <1>2 DEF Tasks, Calls
    <2>2. /\ link \in [Peer -> {"absent", "ready", "closed", "gone"}]
          /\ at \in [Peer -> Nat] /\ \A p \in Peer : at[p] \in DOMAIN Tips[p]
      BY <1>2, <1>5
    <2>3. asked \in [Peer -> Seq(Question)] /\ sync \in [Peer -> Fields]
      BY <1>2, <1>4
    <2> QED
      BY <1>2, <2>1, <2>2, <2>3 DEF SyncTypes
  <1>7. Rest
    BY <1>2, <1>3 DEF Rest, NoCall, NoTask
  <1>8. Core(link, sync, asked, syncPeer, checks, chunkTask, after)
    BY <1>2, <1>3 DEF Core, OnlyOf
  <1> QED
    BY <1>1, <1>6, <1>7, <1>8 DEF SyncInv

THEOREM SyncInvariance == PSpec => [](IInv /\ SyncInv)
<1>1. PInit => IInv /\ SyncInv
    BY SyncInit
<1>2. IInv /\ SyncInv /\ [PNext]_pvars => IInv' /\ SyncInv'
    BY SyncStep
<1> QED
    BY <1>1, <1>2, PTL DEF PSpec

\* Questions, checks and downloads belong to the catch-up under way, and one chunk
\* is checked at a time.
THEOREM ChecksBelong == PSpec => []ChecksAreCurrent
<1>1. SyncInv => ChecksAreCurrent
  <2> SUFFICES ASSUME SyncInv PROVE ChecksAreCurrent
    OBVIOUS
  <2>1. /\ OnlyOf(syncPeer, link, asked, checks)
        /\ syncPeer \in Peer /\ link[syncPeer] = "ready" =>
              OneAtATime(syncPeer, sync[syncPeer], asked[syncPeer], checks, chunkTask, after)
        /\ \A t \in checks : t.peer \in Peer
    BY DEF SyncInv, SyncTypes, Core, Checks
  <2>2. ASSUME NEW t \in checks, link[t.peer] = "ready"
        PROVE  t.peer = syncPeer /\ t.round = sync[t.peer].round /\ sync[t.peer].checking
    <3>1. t.peer = syncPeer
      BY <2>1, <2>2 DEF OnlyOf
    <3> QED
      BY <2>1, <2>2, <3>1 DEF OneAtATime
  <2>3. ASSUME NEW p \in Peer, link[p] = "ready", \E q \in ToSet(asked[p]) : q.kind = "headers"
        PROVE  p = syncPeer /\ sync[p].awaiting
    <3>1. AsksHeaders(asked[p])
      <4>1. asked[p] \in Seq(Question)
        BY DEF SyncInv, SyncTypes
      <4>2. DOMAIN asked[p] = 1..Len(asked[p])
        BY <4>1, ListFacts
      <4>3. ToSet(asked[p]) = {asked[p][i] : i \in 1..Len(asked[p])}
        BY <4>2, SetOfList DEF Range
      <4> QED
        BY <2>3, <4>3 DEF AsksHeaders
    <3>2. p = syncPeer
      BY <2>1, <2>3, <3>1 DEF OnlyOf
    <3> QED
      BY <2>1, <2>3, <3>1, <3>2 DEF OneAtATime
  <2>4. Cardinality(threads) <= 1
    <3>1. \A t, u \in threads : t = u
      BY DEF SyncInv, Rest
    <3>2. CASE threads = {}
      BY <3>2, FS_EmptySet
    <3>3. CASE threads # {}
      <4>1. PICK t : threads = {t}
        BY <3>1, <3>3
      <4> QED
        BY <4>1, FS_Singleton
    <3> QED
      BY <3>2, <3>3
  <2> QED
    BY <2>2, <2>3, <2>4 DEF ChecksAreCurrent
<1> QED
    BY <1>1, SyncInvariance, PTL

\* Something carries the catch-up on, at every moment the event loop is free.
THEOREM CatchUpAlive == PSpec => []SyncAlive
<1>1. SyncInv => SyncAlive
  <2> SUFFICES ASSUME SyncInv, Free, syncPeer # NoPeer, link[syncPeer] = "ready"
               PROVE  LET s == sync[syncPeer]
                          questions == ToSet(asked[syncPeer])
                      IN  \/ s.awaiting /\ \E q \in questions : q.kind = "headers"
                          \/ s.checking /\ \E t \in checks : t.peer = syncPeer /\ t.round = s.round
                          \/ s.inFlight # {}
                             /\ \A b \in s.inFlight : [kind |-> "block", id |-> b] \in questions
                          \/ chunkTask.peer = syncPeer /\ chunkTask.round = s.round
    BY Zenon DEF SyncAlive
  <2> DEFINE s == sync[syncPeer]
             qs == asked[syncPeer]
  <2>1. syncPeer \in Peer /\ qs \in Seq(Question)
    BY DEF SyncInv, SyncTypes
  <2>2. OneAtATime(syncPeer, s, qs, checks, chunkTask, after) /\ Busy(syncPeer, s, chunkTask)
    BY <2>1 DEF SyncInv, Core
  <2>3. \A i \in 1..Len(qs) : qs[i] \in ToSet(qs)
    <3>1. DOMAIN qs = 1..Len(qs)
      BY <2>1, ListFacts
    <3> QED
      BY <3>1, SetOfList DEF Range
  <2>4. after.kind # "block"
    BY DEF Free, NoCall
  <2> HIDE DEF s, qs
  <2>5. CASE s.awaiting
    BY <2>2, <2>3, <2>5 DEF OneAtATime, AsksHeaders, s, qs
  <2>6. CASE s.checking
    BY <2>2, <2>6 DEF OneAtATime, s, qs
  <2>7. CASE s.inFlight # {}
    <3>1. \A b \in s.inFlight : AsksBlock(qs, b)
      BY <2>2, <2>4 DEF OneAtATime
    <3>2. \A b \in s.inFlight : [kind |-> "block", id |-> b] \in ToSet(qs)
      BY <2>3, <3>1 DEF AsksBlock
    <3> QED
      BY <2>7, <3>2 DEF s, qs
  <2>8. CASE TaskOf(syncPeer, s, chunkTask)
    BY <2>8 DEF TaskOf, s
  <2> QED
    BY <2>2, <2>5, <2>6, <2>7, <2>8 DEF Busy
<1> QED
    BY <1>1, SyncInvariance, PTL

-----------------------------------------------------------------------------
(* Who is banned.  The lists of a submit_block call under way: nothing is  *)
(* left to adopt between calls, in an import and at a start-up; sealing    *)
(* within a call follows a switch to the block in hand.                    *)
Lists ==
    /\ orphans \in Seq(Block) /\ children \in Seq(Block)
    /\ pc \in {"idle", "importTx", "tidy"} => waiting = <<>> /\ children = <<>>
    /\ pc \in {"seal", "sealTx", "sealTidy"} =>
          (cur = NoBlock /\ waiting = <<>> /\ children = <<>>) \/ cur \in main
    /\ pc = "adopt" => waiting # <<>> \/ children # <<>>

\* Everything the call under way still deals with is above b.
CallFrom(b) ==
    /\ pc \notin {"importTx", "tidy"}
    /\ pc \notin {"idle", "adopt"} => cur \in Block /\ b \in Ancestors[cur]
    /\ \A x \in ToSet(waiting) \cup ToSet(children) : b \in Ancestors[x]

\* How the submission of block b stands, if it ought to be accepted: it has ended
\* with an exception or left b among the orphans, or b is about to be stored, or
\* it is stored and the call goes on with blocks above it.
Submitted(b) ==
    \/ pc = "idle" /\ (raised = "now" \/ b \in ToSet(orphans))
    \/ pc = "store" /\ cur = b /\ waiting = <<>> /\ children = <<>>
    \/ status[b] \in {"stored", "valid"} /\ CallFrom(b)

\* The call is about a peer's block, or its chunk of the given index.
BlockCall ==
    after.kind = "block" /\ after.peer \notin Faulty =>
        after.id \in Accepts /\ (after.harmless \/ Submitted(after.id))

ChunkCall ==
    after.kind = "chunk" /\ chunkTask.peer \notin Faulty =>
        \/ /\ pc = "importTx" /\ cur \in Accepts /\ sealed = after.index
           /\ after.fits => Continues(cur)
        \/ sealed > after.index
        \/ pc = "idle" /\ ~after.fits

\* What honest peers have sent would be accepted.
Data ==
    /\ \A t \in checks : t.peer \notin Faulty =>
          \A i \in 1..Len(t.headers) : t.headers[i] \in Accepts
    /\ chunkTask.step \in {"check", "checked"} /\ chunkTask.peer \notin Faulty =>
          /\ chunkTask.file \in Accepts
          /\ Height[chunkTask.file] = (chunkTask.index + 1) * ChunkSize - 1

HonestInv == Lists /\ BlockCall /\ ChunkCall /\ Data /\ HonestNotBanned

-----------------------------------------------------------------------------
(* The chain manager's part *)

\* A list without its last element, and without its first.
LEMMA PartOfList ==
    ASSUME NEW s \in Seq(Block), s # <<>>
    PROVE  /\ ToSet(Front(s)) \subseteq ToSet(s) /\ Last(s) \in ToSet(s)
           /\ ToSet(Tail(s)) \subseteq ToSet(s) /\ Head(s) \in ToSet(s) /\ Tail(s) \in Seq(Block)
  BY Popped, HeadOrTail, Shifted, SetOfList

\* _hold_orphan puts the block in the pool.
LEMMA HeldBlock ==
    ASSUME NEW pool \in Seq(Block), NEW b \in Block
    PROVE  HoldOrphan(b, pool) \in Seq(Block) /\ b \in ToSet(HoldOrphan(b, pool))
  <1> DEFINE rest == IF Len(pool) >= MaxOrphans THEN Tail(pool) ELSE pool
  <1>1. rest \in Seq(Block)
    <2>1. Len(pool) >= MaxOrphans => pool # <<>>
      BY ManagerAssumption, EmptySeq
    <2> QED
      BY <2>1, Shifted
  <1>2. HoldOrphan(b, pool) = Append(rest, b)
    BY DEF HoldOrphan
  <1> HIDE DEF rest
  <1> QED
    BY <1>1, <1>2, Appended, SetOfList

LEMMA AnswerLists ==
    ASSUME NEW pool \in Seq(Block), NEW ws, NEW cs \in Seq(Block), Answer(pool, ws, cs)
    PROVE  Lists'
  BY DEF Answer, NextStep, Lists

LEMMA SubmitLists ==
    ASSUME NEW b \in Block, NEW pool \in Seq(Block), NEW cs \in Seq(Block),
           \/ SubmitOneWithoutStoring(b, pool, cs) \/ SubmitOneRaises(b, pool)
           \/ SubmitOneStores(b, pool, cs)
    PROVE  Lists'
  <1>w. PICK ws : ws = waiting
    OBVIOUS
  <1>1. CASE SubmitOneWithoutStoring(b, pool, cs)
    <2>1. CASE Answer(pool, ws, cs)
      BY <2>1, AnswerLists
    <2>2. ASSUME NEW kept \in DropOrphansOf(b, pool), Answer(kept, ws, cs)
          PROVE  Lists'
      BY <2>2, DroppedFacts, AnswerLists
    <2>3. CASE Answer(HoldOrphan(b, pool), ws, cs)
      BY <2>3, HeldBlock, AnswerLists
    <2> QED
      BY <1>1, <1>w, <2>1, <2>2, <2>3 DEF SubmitOneWithoutStoring
  <1>2. CASE SubmitOneRaises(b, pool)
    <2>1. <<>> \in Seq(Block)
      BY EmptySeq
    <2> QED
      BY <1>2, <2>1 DEF SubmitOneRaises, Lists
  <1>3. CASE SubmitOneStores(b, pool, cs)
    BY <1>3 DEF SubmitOneStores, Lists
  <1> QED
    BY <1>1, <1>2, <1>3

\* The block a switch was made to is on the active chain.
LEMMA SwitchedTo ==
    ASSUME IInv, Switch
    PROVE  cur \in main' /\ cur \in Block
  <1>1. cur \in Block /\ cur \in Ancestors[cur] /\ Height[cur] \in Nat
    BY BlockFacts, AncestorsSelf DEF Switch, IInv, CallInv
  <1>2. cur \in main => cur \notin Undone(cur)
    BY <1>1 DEF Undone
  <1> QED
    BY <1>1, <1>2 DEF Switch, SwitchApplies, Branch

LEMMA HandlerLists ==
    ASSUME IInv, Lists, HandlerStep
    PROVE  Lists'
  <1>t. /\ orphans \in Seq(Block) /\ children \in Seq(Block) /\ waiting \in Seq(Block)
        /\ cur \in Block \cup {NoBlock} /\ NoBlock \notin Block /\ main \subseteq Block
    BY ManagerAssumption DEF Lists, IInv, TypeOK, StoreTypeOK
  <1>v. PICK ps, ws, cs, c : ps = orphans /\ ws = waiting /\ cs = children /\ c = cur
    OBVIOUS
  <1>0. ps \in Seq(Block) /\ cs \in Seq(Block) /\ ws \in Seq(Block)
    BY <1>t, <1>v
  <1>1. CASE StoreBlock
    <2>1. CASE Answer(ps, Append(ws, c), cs)
      BY <1>0, <2>1, AnswerLists
    <2>2. CASE pc' = "switch" /\ UNCHANGED <<cur, orphans, waiting, children>>
      BY <1>t, <2>2 DEF Lists
    <2> QED
      BY <1>1, <1>v, <2>1, <2>2 DEF StoreBlock
  <1>2. CASE Switch
    <2>1. pc' = "seal" /\ UNCHANGED <<cur, orphans, waiting, children>>
      BY <1>2 DEF Switch, SwitchApplies
    <2> QED
      BY <1>t, <1>2, <2>1, SwitchedTo DEF Lists
  <1>3. CASE SwitchFails
    BY <1>t, <1>3 DEF SwitchFails, callVars, Lists
  <1>4. CASE MarkInvalid
    <2>1. PICK kept \in DropOrphansOf(c, ps) : Answer(kept, ws, cs)
      BY <1>4, <1>v DEF MarkInvalid
    <2>2. c \in Block
      BY <1>4, <1>v DEF MarkInvalid, IInv, CallInv
    <2> QED
      BY <1>0, <2>1, <2>2, DroppedFacts, AnswerLists
  <1>5. CASE AdoptChild
    <2>1. cs # <<>> /\ Tail(cs) \in Seq(Block)
      BY <1>0, <1>5, <1>v, PartOfList DEF AdoptChild
    <2>2. PICK b \in Block : \E pool \in Only(ps, Block \ {b}) :
             \/ SubmitOneWithoutStoring(b, pool, Tail(cs)) \/ SubmitOneRaises(b, pool)
             \/ SubmitOneStores(b, pool, Tail(cs))
      BY <1>5, <1>v DEF AdoptChild
    <2>3. \A pool \in Only(ps, Block \ {b}) : pool \in Seq(Block)
      BY <1>0, OnlyFacts
    <2> QED
      BY <2>1, <2>2, <2>3, SubmitLists
  <1>6. CASE PopWaiting
    <2>1. PICK mine \in Only(ps, {o \in Block : Parent[o] = Last(ws)}) : Answer(ps, Front(ws), mine)
      BY <1>6, <1>v DEF PopWaiting
    <2>2. mine \in Seq(Block)
      BY <1>0, <2>1, OnlyFacts
    <2> QED
      BY <1>0, <2>1, <2>2, AnswerLists
  <1>7. CASE SealFile \/ SealCommit
    BY <1>t, <1>7 DEF SealFile, SealCommit, callVars, Lists
  <1>8. CASE SealDone
    <2>1. CASE cur = NoBlock
      BY <1>t, <1>8, <2>1 DEF SealDone, storeVars, Lists
    <2>2. CASE Answer(ps, Append(ws, c), cs)
      BY <1>0, <2>2, AnswerLists
    <2> QED
      BY <1>8, <1>v, <2>1, <2>2 DEF SealDone
  <1>9. CASE TidyFiles
    BY <1>t, <1>9 DEF TidyFiles, Lists
  <1>10. CASE ImportCommit \/ ImportFails
    BY <1>t, <1>10 DEF ImportCommit, ImportApplies, ImportFails, Lists
  <1> QED
    BY <1>1, <1>2, <1>3, <1>4, <1>5, <1>6, <1>7, <1>8, <1>9, <1>10 DEF HandlerStep

\* Blocks that ought to be accepted are never marked.
LEMMA AcceptedNotMarked ==
    ASSUME IInv, NEW b \in Accepts
    PROVE  b \in Block /\ status[b] # "invalid" /\ status[b] \in Statuses
  BY ChecksAssumption DEF IInv, ChainInv, InvalidExact, TypeOK, StoreTypeOK

\* The call goes on with other blocks above b, or ends.
LEMMA AnswerFrom ==
    ASSUME NEW b, NEW pool, NEW ws, NEW cs, Answer(pool, ws, cs),
           \A x \in ToSet(ws) \cup ToSet(cs) : b \in Ancestors[x],
           status'[b] \in {"stored", "valid"}
    PROVE  Submitted(b)'
  <1>1. pc' \in {"idle", "adopt"} /\ waiting' = ws /\ children' = cs
    BY DEF Answer, NextStep
  <1> QED
    BY <1>1 DEF Submitted, CallFrom

\* A block that ought to be accepted is refused only for reasons that are harmless.
LEMMA SubmitFrom ==
    ASSUME IInv, Lists, NEW b \in Accepts, SubmitBlock(b)
    PROVE  Harmless(b) \/ Submitted(b)'
  <1>1. /\ pc = "idle" /\ waiting = <<>> /\ children = <<>> /\ orphans \in Seq(Block)
        /\ b \in Block /\ b \in Standalone /\ b \in Wellformed
        /\ Parent[b] \in Accepts /\ Parent[b] \in Block
        /\ status[b] # "invalid" /\ status[Parent[b]] # "invalid"
    BY AcceptedNotMarked, ChecksAssumption, BlockFacts DEF SubmitBlock, Lists
  <1>v. PICK ps : ps = orphans
    OBVIOUS
  <1>e. ToSet(<<>>) = {}
    BY SetOfList, EmptyList
  <1>2. CASE IsDuplicate(b, ps) /\ Answer(ps, <<>>, <<>>) /\ UNCHANGED storeVars
    <2>1. CASE status[b] \in {"stored", "valid"}
      BY <1>e, <1>2, <2>1, AnswerFrom DEF storeVars
    <2>2. CASE b \in ToSet(ps)
      BY <1>2, <2>2 DEF Answer, NextStep, Submitted
    <2> QED
      BY <1>2, <2>1, <2>2 DEF IsDuplicate
  <1>3. CASE IsRefused(b, orphans)
    BY <1>1, <1>3 DEF IsRefused, Harmless
  <1>4. CASE IsOrphan(b, ps) /\ Answer(HoldOrphan(b, ps), <<>>, <<>>)
    <2>1. b \in ToSet(HoldOrphan(b, ps))
      BY <1>1, <1>v, HeldBlock
    <2> QED
      BY <1>4, <2>1 DEF Answer, NextStep, Submitted
  <1>5. CASE SubmitOneRaises(b, orphans)
    BY <1>5 DEF SubmitOneRaises, Submitted
  <1>6. CASE SubmitOneStores(b, orphans, <<>>)
    BY <1>1, <1>6 DEF SubmitOneStores, Submitted
  <1>7. CASE SubmitOneWithoutStoring(b, orphans, <<>>)
    BY <1>1, <1>v, <1>2, <1>3, <1>4, <1>7 DEF SubmitOneWithoutStoring
  <1> QED
    BY <1>5, <1>6, <1>7 DEF SubmitBlock

\* Steps that keep the lists and the block in hand.
LEMMA KeptFrom ==
    ASSUME NEW b, CallFrom(b), UNCHANGED <<cur, waiting, children>>,
           pc \notin {"idle", "adopt"}, pc' \notin {"importTx", "tidy"},
           status'[b] \in {"stored", "valid"}
    PROVE  Submitted(b)'
  <1>1. cur \in Block /\ b \in Ancestors[cur]
    BY DEF CallFrom
  <1> QED
    BY <1>1 DEF Submitted, CallFrom

\* Adopting orphans above b.
LEMMA AdoptFrom ==
    ASSUME IInv, Lists, NEW b \in Accepts, AdoptChild, CallFrom(b),
           status[b] \in {"stored", "valid"}
    PROVE  Submitted(b)'
  <1>v. PICK ps, ws, cs : ps = orphans /\ ws = waiting /\ cs = children
    OBVIOUS
  <1>1. /\ cs # <<>> /\ cs \in Seq(Block)
        /\ \A x \in ToSet(ws) \cup ToSet(cs) : b \in Ancestors[x]
    BY <1>v DEF AdoptChild, Lists, CallFrom
  <1>2. /\ \A x \in ToSet(ws) \cup ToSet(Tail(cs)) : b \in Ancestors[x]
        /\ b \in Ancestors[Head(cs)]
    BY <1>1, PartOfList
  <1>3. PICK d \in Block : d = Head(cs) /\ \E pool \in Only(ps, Block \ {d}) :
           \/ SubmitOneWithoutStoring(d, pool, Tail(cs)) \/ SubmitOneRaises(d, pool)
           \/ SubmitOneStores(d, pool, Tail(cs))
    BY <1>v DEF AdoptChild
  <1>4. PICK pool \in Only(ps, Block \ {d}) :
           \/ SubmitOneWithoutStoring(d, pool, Tail(cs)) \/ SubmitOneRaises(d, pool)
           \/ SubmitOneStores(d, pool, Tail(cs))
    BY <1>3
  <1>5. status' = status
    BY <1>4 DEF SubmitOneWithoutStoring, SubmitOneRaises, SubmitOneStores, storeVars
  <1>6. CASE SubmitOneWithoutStoring(d, pool, Tail(cs))
    <2>1. PICK k : Answer(k, ws, Tail(cs))
      BY <1>6, <1>v DEF SubmitOneWithoutStoring
    <2> QED
      BY <1>2, <1>5, <2>1, AnswerFrom
  <1>7. CASE SubmitOneRaises(d, pool)
    BY <1>7 DEF SubmitOneRaises, Submitted
  <1>8. CASE SubmitOneStores(d, pool, Tail(cs))
    <2>1. pc' = "store" /\ cur' = d /\ waiting' = ws /\ children' = Tail(cs)
      BY <1>8, <1>v DEF SubmitOneStores
    <2> QED
      BY <1>2, <1>3, <1>5, <2>1 DEF Submitted, CallFrom
  <1> QED
    BY <1>4, <1>6, <1>7, <1>8

LEMMA PopFrom ==
    ASSUME IInv, Lists, NEW b \in Accepts, PopWaiting, CallFrom(b),
           status[b] \in {"stored", "valid"}
    PROVE  Submitted(b)'
  <1>v. PICK ps, ws : ps = orphans /\ ws = waiting
    OBVIOUS
  <1>1. /\ ws # <<>> /\ ws \in Seq(Block) /\ ps \in Seq(Block) /\ status' = status
        /\ \A x \in ToSet(ws) : b \in Ancestors[x]
    BY <1>v DEF PopWaiting, Lists, CallFrom, IInv, TypeOK, storeVars
  <1>2. PICK mine \in Only(ps, {o \in Block : Parent[o] = Last(ws)}) : Answer(ps, Front(ws), mine)
    BY <1>v DEF PopWaiting
  <1>3. /\ \A x \in ToSet(Front(ws)) : b \in Ancestors[x]
        /\ b \in Ancestors[Last(ws)]
    BY <1>1, PartOfList
  <1>4. ASSUME NEW o \in ToSet(mine) PROVE b \in Ancestors[o]
    <2>1. o \in Block /\ Parent[o] = Last(ws)
      BY <1>1, <1>2, OnlyFacts
    <2>2. CASE o = Genesis
      BY <1>3, <2>1, <2>2, TreeAssumption
    <2>3. CASE o # Genesis
      BY <1>3, <2>1, <2>3, AncestorsStep
    <2> QED
      BY <2>2, <2>3
  <1> QED
    BY <1>1, <1>2, <1>3, <1>4, AnswerFrom

\* The block in hand, above b, is dealt with and goes on the stack.
LEMMA PushFrom ==
    ASSUME IInv, NEW b, CallFrom(b), pc \notin {"idle", "adopt"},
           NEW ps, Answer(ps, Append(waiting, cur), children),
           status'[b] \in {"stored", "valid"}
    PROVE  Submitted(b)'
  <1>v. PICK ws, cs, c : ws = waiting /\ cs = children /\ c = cur
    OBVIOUS
  <1>1. /\ ws \in Seq(Block) /\ c \in Block /\ b \in Ancestors[c]
        /\ \A x \in ToSet(ws) \cup ToSet(cs) : b \in Ancestors[x]
        /\ Answer(ps, Append(ws, c), cs)
    BY <1>v DEF CallFrom, IInv, TypeOK
  <1>2. ToSet(Append(ws, c)) = ToSet(ws) \cup {c}
    BY <1>1, Appended, SetOfList
  <1> QED
    BY <1>1, <1>2, AnswerFrom

\* Sealing deletes only blocks that lost; b is below a block of the active chain.
LEMMA SealCommitFrom ==
    ASSUME IInv, Lists, NEW b \in Accepts, SealCommit, CallFrom(b),
           status[b] \in {"stored", "valid"}
    PROVE  Submitted(b)'
  <1>1. pc = "sealTx" /\ cur \in Block /\ b \in Ancestors[cur] /\ b \in Block
    BY ChecksAssumption DEF SealCommit, CallFrom
  <1>2. cur \in main
    BY <1>1, ManagerAssumption DEF Lists
  <1>3. b \in main
    BY <1>1, <1>2, MainFacts DEF IInv
  <1>4. status'[b] = status[b]
    BY <1>1, <1>3 DEF SealCommit, Losers
  <1>5. pc' = "sealTidy" /\ UNCHANGED <<cur, waiting, children>>
    BY DEF SealCommit
  <1> QED
    BY <1>1, <1>4, <1>5, KeptFrom

\* A failed branch is marked above a block that is not accepted.
LEMMA MarkFrom ==
    ASSUME IInv, Lists, NEW b \in Accepts, MarkInvalid, CallFrom(b),
           status[b] \in {"stored", "valid"}
    PROVE  Submitted(b)'
  <1>1. PICK failed \in Tried(Branch(cur)) \ Accepts :
          status' = [d \in Block |-> IF d \in StoredAbove(failed) THEN "invalid" ELSE status[d]]
    BY DEF MarkInvalid
  <1>2. b \in Block /\ Ancestors[b] \subseteq Accepts
    BY AncestorsAccepted, ChecksAssumption
  <1>3. status'[b] = status[b]
    BY <1>1, <1>2 DEF StoredAbove
  <1>v. PICK ws, cs : ws = waiting /\ cs = children
    OBVIOUS
  <1>4. PICK kept : Answer(kept, ws, cs)
    BY <1>v DEF MarkInvalid
  <1>5. \A x \in ToSet(ws) \cup ToSet(cs) : b \in Ancestors[x]
    BY <1>v DEF CallFrom
  <1> QED
    BY <1>3, <1>4, <1>5, AnswerFrom

LEMMA HandlerFrom ==
    ASSUME IInv, Lists, NEW b \in Accepts, Submitted(b), HandlerStep
    PROVE  Submitted(b)'
  <1>0. pc # "idle" /\ b \in Block /\ b \in Ancestors[b] /\ status \in [Block -> Statuses]
    <2>1. b \in Block
      BY ChecksAssumption
    <2>2. status \in [Block -> Statuses]
      BY DEF IInv, TypeOK, StoreTypeOK
    <2>3. pc # "idle"
      BY DEF HandlerStep, StoreBlock, Switch, SwitchFails, MarkInvalid, AdoptChild, PopWaiting,
             SealFile, SealCommit, SealDone, TidyFiles, ImportCommit, ImportFails
    <2> QED
      BY <2>1, <2>2, <2>3, AncestorsSelf
  <1>1. CASE pc = "store" /\ cur = b /\ waiting = <<>> /\ children = <<>>
    <2>1. StoreBlock
      BY <1>1 DEF HandlerStep, StoreBlock, Switch, SwitchFails, MarkInvalid, AdoptChild, PopWaiting,
             SealFile, SealCommit, SealDone, TidyFiles, ImportCommit, ImportFails
    <2>2. status'[b] = "stored"
      BY <1>0, <1>1, <2>1 DEF StoreBlock
    <2>3. CallFrom(b)
      BY <1>0, <1>1, SetOfList, EmptyList DEF CallFrom
    <2>v. PICK ps : ps = orphans
      OBVIOUS
    <2>4. CASE Answer(ps, Append(waiting, cur), children)
      BY <1>1, <2>2, <2>3, <2>4, PushFrom
    <2>5. CASE pc' = "switch" /\ UNCHANGED <<cur, orphans, waiting, children>>
      BY <1>1, <2>2, <2>3, <2>5, KeptFrom
    <2> QED
      BY <2>1, <2>v, <2>4, <2>5 DEF StoreBlock
  <1>2. CASE status[b] \in {"stored", "valid"} /\ CallFrom(b)
    <2>1. CASE StoreBlock
      <3>1. pc = "store" /\ status'[b] \in {"stored", "valid"}
        BY <1>0, <1>2, <2>1 DEF StoreBlock
      <3>v. PICK ps : ps = orphans
        OBVIOUS
      <3>2. CASE Answer(ps, Append(waiting, cur), children)
        BY <1>2, <3>1, <3>2, PushFrom
      <3>3. CASE pc' = "switch" /\ UNCHANGED <<cur, orphans, waiting, children>>
        BY <1>2, <3>1, <3>3, KeptFrom
      <3> QED
        BY <2>1, <3>v, <3>2, <3>3 DEF StoreBlock
    <2>2. CASE Switch
      <3>1. /\ pc = "switch" /\ pc' = "seal" /\ UNCHANGED <<cur, waiting, children>>
            /\ status'[b] \in {"stored", "valid"}
        BY <1>0, <1>2, <2>2 DEF Switch, SwitchApplies
      <3> QED
        BY <1>2, <3>1, KeptFrom
    <2>3. CASE SwitchFails
      <3>1. /\ pc = "switch" /\ pc' = "mark" /\ UNCHANGED <<cur, waiting, children, status>>
        BY <2>3 DEF SwitchFails, callVars
      <3> QED
        BY <1>2, <3>1, KeptFrom
    <2>4. CASE SealFile
      <3>1. /\ pc = "seal" /\ pc' = "sealTx" /\ UNCHANGED <<cur, waiting, children, status>>
        BY <2>4 DEF SealFile, callVars
      <3> QED
        BY <1>2, <3>1, KeptFrom
    <2>5. CASE SealDone
      <3>1. pc = "seal" /\ cur # NoBlock /\ status' = status
        BY <1>2, <2>5, ManagerAssumption DEF SealDone, CallFrom, storeVars
      <3>v. PICK ps : ps = orphans
        OBVIOUS
      <3>2. Answer(ps, Append(waiting, cur), children)
        BY <2>5, <3>1, <3>v DEF SealDone
      <3> QED
        BY <1>2, <3>1, <3>2, PushFrom
    <2>6. CASE TidyFiles
      <3>1. pc = "sealTidy"
        BY <1>2, <2>6 DEF TidyFiles, CallFrom
      <3>2. pc' = "seal" /\ UNCHANGED <<cur, waiting, children, status>>
        BY <2>6, <3>1 DEF TidyFiles
      <3> QED
        BY <1>2, <3>1, <3>2, KeptFrom
    <2>7. pc # "importTx"
      BY <1>2 DEF CallFrom
    <2> QED
      BY <1>2, <2>1, <2>2, <2>3, <2>4, <2>5, <2>6, <2>7, MarkFrom, AdoptFrom, PopFrom, SealCommitFrom
         DEF HandlerStep, ImportCommit, ImportFails
  <1> QED
    BY <1>0, <1>1, <1>2 DEF Submitted

\* A chunk whose blocks ought to be accepted fails only if it does not follow our chain.
LEMMA HandlerChunk ==
    ASSUME IInv, ChunkCall, HandlerStep, UNCHANGED <<after, chunkTask>>, SyncTypes
    PROVE  ChunkCall'
  <1> SUFFICES ASSUME after.kind = "chunk", chunkTask.peer \notin Faulty
               PROVE  sealed' > after.index \/ (pc' = "idle" /\ ~after.fits)
    BY DEF ChunkCall
  <1>1. sealed \in Nat /\ after.index \in Nat /\ pc # "idle"
    BY DEF IInv, TypeOK, StoreTypeOK, SyncTypes, Calls, NoCall,
           HandlerStep, StoreBlock, Switch, SwitchFails, MarkInvalid, AdoptChild, PopWaiting,
           SealFile, SealCommit, SealDone, TidyFiles, ImportCommit, ImportFails
  <1>2. CASE sealed > after.index
    <2>1. sealed' = sealed \/ sealed' = sealed + 1
      <3>1. ASSUME NEW b, NEW pool, NEW cs,
                   \/ SubmitOneWithoutStoring(b, pool, cs) \/ SubmitOneRaises(b, pool)
                   \/ SubmitOneStores(b, pool, cs)
            PROVE  sealed' = sealed
        BY <3>1 DEF SubmitOneWithoutStoring, SubmitOneRaises, SubmitOneStores, storeVars
      <3>2. AdoptChild => sealed' = sealed
        BY <3>1 DEF AdoptChild
      <3> QED
        BY <3>2 DEF HandlerStep, StoreBlock, Switch, SwitchApplies, SwitchFails, MarkInvalid,
           PopWaiting, SealFile, SealCommit, SealDone, TidyFiles, ImportCommit, ImportApplies,
           ImportFails, storeVars
    <2> QED
      BY <1>1, <1>2, <2>1
  <1>3. CASE /\ pc = "importTx" /\ cur \in Accepts /\ sealed = after.index
             /\ after.fits => Continues(cur)
    <2>1. Chunk(cur) \subseteq Accepts
      BY <1>3, AncestorsAccepted DEF Chunk
    <2>2. ImportCommit \/ ImportFails
      BY <1>3 DEF HandlerStep, StoreBlock, Switch, SwitchFails, MarkInvalid, AdoptChild, PopWaiting,
             SealFile, SealCommit, SealDone, TidyFiles
    <2>3. CASE ImportCommit
      BY <1>1, <1>3, <2>3 DEF ImportCommit, ImportApplies
    <2>4. CASE ImportFails
      BY <1>3, <2>1, <2>4 DEF ImportFails
    <2> QED
      BY <2>2, <2>3, <2>4
  <1> QED
    BY <1>1, <1>2, <1>3 DEF ChunkCall

-----------------------------------------------------------------------------
(* What the peers send *)

\* The blocks of an honest peer ought to be accepted.
LEMMA PeerAccepted ==
    ASSUME SyncTypes, NEW p \in Peer, p \notin Faulty
    PROVE  PeerChain(p) \subseteq Accepts /\ PeerHas(p) \subseteq Accepts
  <1>1. Tips[p] \in Seq(Block) /\ at[p] \in DOMAIN Tips[p] /\ at[p] \in Nat
    BY SyncAssumption DEF SyncTypes
  <1>2. Len(Tips[p]) \in Nat /\ DOMAIN Tips[p] = 1..Len(Tips[p])
    BY <1>1, ListFacts
  <1>3. \A i \in DOMAIN Tips[p] : Tips[p][i] \in Accepts
    BY SyncAssumption
  <1>4. Tips[p][at[p]] \in Accepts /\ \A i \in 1..at[p] : Tips[p][i] \in Accepts
    BY <1>1, <1>2, <1>3
  <1> QED
    BY <1>4, AncestorsAccepted DEF PeerChain, PeerHas

\* Headers that ought to be accepted pass every check.
LEMMA HeadersPassed ==
    ASSUME IInv, SyncTypes, NEW p \in Peer, NEW hs \in Seq(Block),
           \A i \in 1..Len(hs) : hs[i] \in Accepts
    PROVE  /\ ~Tainted(p, hs)
           /\ \A i \in 1..Len(hs) : hs[i] \in HeaderOk /\ hs[i] \in Mined
           /\ KnownPrefix(hs) \in 0..Len(hs) /\ Len(hs) \in Nat
  <1>1. KnownPrefix(hs) \in 0..Len(hs) /\ Len(hs) \in Nat
    BY KnownPrefixFacts, ListFacts
  <1>2. \A i \in 1..Len(hs) : hs[i] \in HeaderOk /\ hs[i] \in Mined
    BY ChecksAssumption, SyncAssumption
  <1>3. \A b \in Accepts : status[b] # "invalid" /\ Parent[b] \in Accepts
    BY AcceptedNotMarked, ChecksAssumption
  <1>4. ~\E i \in 1..KnownPrefix(hs) : status[hs[i]] = "invalid"
    BY <1>1, <1>3
  <1>5. ASSUME FromStored(p, hs) PROVE status[Anchor(p, hs)] # "invalid"
    <2>1. /\ Anchor(p, hs) # NoBlock /\ KnownPrefix(hs) < Len(hs)
          /\ KnownPrefix(hs) > 0 \/ Parent[hs[1]] # sync[p].tip
      BY <1>5 DEF FromStored
    <2>2. hs # <<>> /\ 1 \in 1..Len(hs)
      BY <1>1, <2>1
    <2>3. CASE KnownPrefix(hs) > 0
      <3>1. Anchor(p, hs) = hs[KnownPrefix(hs)] /\ KnownPrefix(hs) \in 1..Len(hs)
        BY <1>1, <2>2, <2>3 DEF Anchor
      <3> QED
        BY <1>3, <3>1
    <2>4. CASE ~(KnownPrefix(hs) > 0)
      <3>1. Anchor(p, hs) = Parent[hs[1]]
        BY <2>1, <2>2, <2>4 DEF Anchor
      <3> QED
        BY <1>3, <2>2, <3>1
    <2> QED
      BY <2>3, <2>4
  <1> QED
    BY <1>1, <1>2, <1>4, <1>5 DEF Tainted

\* A chunk file of blocks that ought to be accepted passes check_chunk_file.
LEMMA ChunkPassed ==
    ASSUME NEW c \in Accepts, NEW i \in Nat, Height[c] = (i + 1) * ChunkSize - 1
    PROVE  CheckedChunk(c)
  <1>1. Chunk(c) \subseteq Mined
    BY AncestorsAccepted, ChecksAssumption DEF Chunk
  <1>2. ChunkSize \in Nat
    BY ParamsAssumption
  <1>3. (i + 1) * ChunkSize >= ChunkSize /\ (i + 1) * ChunkSize \in Nat
    <2>1. i * ChunkSize \in Nat /\ (i + 1) * ChunkSize = i * ChunkSize + ChunkSize
      BY <1>2
    <2> QED
      BY <1>2, <2>1
  <1>4. PICK n \in Nat : n = (i + 1) * ChunkSize
    BY <1>3
  <1>5. Height[c] >= ChunkSize - 1
    BY <1>2, <1>3, <1>4
  <1> QED
    BY <1>1, <1>5 DEF CheckedChunk

-----------------------------------------------------------------------------
(* Who is banned: the steps *)

\* The chunk task is as it was, or a new one, or none.
TaskMoved == chunkTask' = chunkTask \/ chunkTask'.step = "start"

LEMMA TasksMoved ==
    /\ \A p, syncs, questions : StartSync(p, syncs, questions) => TaskMoved
    /\ \A links, claims, syncs, questions : MaybeSync(links, claims, syncs, questions) => TaskMoved
    /\ \A p, claims, syncs, useless : EndSync(p, claims, syncs, useless) => TaskMoved
    /\ \A p, claims, syncs : ContinueSync(p, claims, syncs) => TaskMoved
    /\ \A p, ban, syncs : Drop(p, ban, syncs) => TaskMoved
  <1>1. ASSUME NEW p, NEW syncs, NEW questions, StartSync(p, syncs, questions) PROVE TaskMoved
    <2>1. \A r : [NoTask EXCEPT !.peer = p, !.round = r].step = "start"
      BY DEF NoTask
    <2> QED
      BY <1>1, <2>1 DEF StartSync, TaskMoved, NoTask
  <1>2. ASSUME NEW links, NEW claims, NEW syncs, NEW questions,
               MaybeSync(links, claims, syncs, questions)
        PROVE  TaskMoved
    BY <1>1, <1>2 DEF MaybeSync, TaskMoved, NoTask
  <1>3. ASSUME NEW p, NEW claims, NEW syncs, NEW useless, EndSync(p, claims, syncs, useless)
        PROVE  TaskMoved
    BY <1>2, <1>3 DEF EndSync
  <1>4. ASSUME NEW p, NEW claims, NEW syncs, ContinueSync(p, claims, syncs) PROVE TaskMoved
    BY <1>3, <1>4 DEF ContinueSync, TaskMoved
  <1>5. ASSUME NEW p, NEW ban, NEW syncs, Drop(p, ban, syncs) PROVE TaskMoved
    BY <1>2, <1>5 DEF Drop, TaskMoved
  <1> QED
    BY <1>1, <1>2, <1>3, <1>4, <1>5

LEMMA DataKept ==
    ASSUME Data, checks' \subseteq checks, TaskMoved
    PROVE  Data'
  BY DEF Data, TaskMoved

\* A step that leaves the chain manager alone, with no call under way after it.
LEMMA QuietBans ==
    ASSUME HonestInv, UNCHANGED vars, after' = NoCall, Data', banned' \subseteq Faulty
    PROVE  HonestInv'
  <1>1. Lists'
    BY DEF HonestInv, Lists, vars, callVars, storeVars
  <1>2. after'.kind # "block" /\ after'.kind # "chunk"
    BY DEF NoCall
  <1> QED
    BY <1>1, <1>2 DEF HonestInv, BlockCall, ChunkCall, HonestNotBanned

LEMMA HandlerBans ==
    ASSUME IInv, SyncInv, HonestInv, HandlerStep, UNCHANGED peerVars
    PROVE  HonestInv'
  <1>1. UNCHANGED <<after, chunkTask, checks, banned>> /\ Lists'
    BY HandlerLists DEF peerVars, HonestInv
  <1>2. BlockCall'
    <2> SUFFICES ASSUME after.kind = "block", after.peer \notin Faulty
                 PROVE  after.id \in Accepts /\ (after.harmless \/ Submitted(after.id)')
      BY <1>1 DEF BlockCall
    <2>1. PICK b : b = after.id
      OBVIOUS
    <2>2. b \in Accepts /\ (after.harmless \/ Submitted(b))
      BY <2>1 DEF HonestInv, BlockCall
    <2>3. Submitted(b) => Submitted(b)'
      BY <2>2, HandlerFrom DEF HonestInv
    <2>4. Submitted(b)' => Submitted(after.id)'
      BY <1>1, <2>1 DEF Submitted, CallFrom
    <2> QED
      BY <2>1, <2>2, <2>3, <2>4
  <1>3. ChunkCall'
    BY <1>1, HandlerChunk DEF HonestInv, SyncInv
  <1>4. Data' /\ HonestNotBanned'
    BY <1>1 DEF HonestInv, Data, HonestNotBanned
  <1> QED
    BY <1>1, <1>2, <1>3, <1>4 DEF HonestInv

LEMMA BlockBans ==
    ASSUME IInv, SyncInv, HonestInv, NEW p \in Peer, BlockArrives(p)
    PROVE  HonestInv'
  <1>1. PICK b \in PeerHas(p) :
           /\ SubmitBlock(b)
           /\ after' = [kind |-> "block", peer |-> p, id |-> b,
                        syncing |-> b \in sync[p].inFlight,
                        harmless |-> Harmless(b)]
    BY DEF BlockArrives
  <1>2. UNCHANGED <<banned, checks, chunkTask>> /\ b \in Block
    BY PeerBlocks DEF BlockArrives, SyncInv
  <1> DEFINE syncing == b \in sync[p].inFlight
             harmless == Harmless(b)
  <1>3. after' = [kind |-> "block", peer |-> p, id |-> b, syncing |-> syncing, harmless |-> harmless]
    BY <1>1
  <1> HIDE DEF syncing, harmless
  <1>4. after'.kind = "block" /\ after'.peer = p /\ after'.id = b /\ after'.harmless = harmless
    BY <1>3
  <1>5. Lists'
    <2>1. orphans \in Seq(Block) /\ <<>> \in Seq(Block)
      BY EmptySeq DEF HonestInv, Lists
    <2>2. \/ SubmitOneWithoutStoring(b, orphans, <<>>) \/ SubmitOneRaises(b, orphans)
          \/ SubmitOneStores(b, orphans, <<>>)
      BY <1>1 DEF SubmitBlock
    <2>3. PICK ps : ps = orphans
      OBVIOUS
    <2> QED
      BY <1>2, <2>1, <2>2, <2>3, SubmitLists
  <1>6. p \notin Faulty => b \in Accepts /\ (harmless \/ Submitted(b)')
    <2> SUFFICES ASSUME p \notin Faulty PROVE b \in Accepts /\ (harmless \/ Submitted(b)')
      OBVIOUS
    <2>1. b \in Accepts
      BY PeerAccepted DEF SyncInv
    <2>2. Harmless(b) \/ Submitted(b)'
      BY <1>1, <2>1, SubmitFrom DEF HonestInv
    <2> QED
      BY <2>1, <2>2 DEF harmless
  <1>7. BlockCall'
    <2> SUFFICES ASSUME p \notin Faulty
                 PROVE  b \in Accepts /\ (harmless \/ Submitted(after.id)')
      BY <1>4 DEF BlockCall
    <2>1. Submitted(b)' => Submitted(after.id)'
      BY <1>4 DEF Submitted, CallFrom
    <2> QED
      BY <1>6, <2>1
  <1>8. ChunkCall' /\ Data' /\ HonestNotBanned'
    BY <1>2, <1>4 DEF HonestInv, ChunkCall, Data, HonestNotBanned
  <1> QED
    BY <1>5, <1>7, <1>8 DEF HonestInv

LEMMA ChunkGoodBans ==
    ASSUME IInv, SyncInv, HonestInv, ChunkGood
    PROVE  HonestInv'
  <1>1. /\ pc = "idle" /\ chunkTask.step = "checked"
        /\ pc' = "importTx" /\ cur' = chunkTask.file
        /\ UNCHANGED <<main, sealed, orphans, waiting, children, banned, checks, chunkTask>>
    BY DEF ChunkGood, TaskAt, Free, ImportChunk
  <1> DEFINE fits == Continues(chunkTask.file)
  <1>2. after' = [kind |-> "chunk", index |-> sealed, fits |-> fits]
    BY DEF ChunkGood
  <1>3. fits => Continues(cur)'
    BY <1>1 DEF Continues, Tip
  <1> HIDE DEF fits
  <1>4. after'.kind = "chunk" /\ after'.index = sealed /\ after'.fits = fits
    BY <1>2
  <1>5. Lists'
    BY <1>1 DEF HonestInv, Lists
  <1>6. ChunkCall'
    <2> SUFFICES ASSUME chunkTask.peer \notin Faulty
                 PROVE  /\ pc' = "importTx" /\ cur' \in Accepts /\ sealed' = after'.index
                        /\ after'.fits => Continues(cur)'
      BY <1>1 DEF ChunkCall
    <2>1. chunkTask.file \in Accepts
      BY <1>1 DEF HonestInv, Data
    <2> QED
      BY <1>1, <1>3, <1>4, <2>1
  <1>7. BlockCall' /\ Data' /\ HonestNotBanned'
    BY <1>1, <1>4 DEF HonestInv, BlockCall, Data, HonestNotBanned
  <1> QED
    BY <1>5, <1>6, <1>7 DEF HonestInv

LEMMA FinishBlockBans ==
    ASSUME IInv, SyncInv, HonestInv, FinishBlock
    PROVE  HonestInv'
  <1> DEFINE p == after.peer
             b == after.id
             invalid == status[b] \notin {"stored", "valid"} /\ b \notin ToSet(orphans)
             escaped == raised = "now"
  <1>1. pc = "idle" /\ after.kind = "block" /\ UNCHANGED <<vars, checks>> /\ after' = NoCall
    BY DEF FinishBlock
  <1>2. CASE escaped \/ (invalid /\ ~after.harmless)
    <2>1. banned' = (IF ~escaped THEN banned \cup {p} ELSE banned) /\ chunkTask' = chunkTask
      BY <1>2 DEF FinishBlock, Break
    <2>2. ASSUME ~escaped, p \notin Faulty PROVE FALSE
      <3>1. Submitted(b)
        BY <1>1, <1>2, <2>2 DEF HonestInv, BlockCall
      <3> QED
        BY <1>1, <1>2, <2>2, <3>1 DEF Submitted
    <2>3. banned' \subseteq Faulty
      BY <2>1, <2>2 DEF HonestInv, HonestNotBanned
    <2>4. Data'
      BY <1>1, <2>1, DataKept DEF HonestInv, TaskMoved
    <2> QED
      BY <1>1, <2>3, <2>4, QuietBans
  <1>3. CASE ~(escaped \/ (invalid /\ ~after.harmless))
    <2>1. banned' = banned
      BY <1>3 DEF FinishBlock
    <2>2. TaskMoved
      <3>1. \/ \E claims, syncs : ContinueSync(p, claims, syncs)
            \/ chunkTask' = chunkTask
        BY <1>3 DEF FinishBlock
      <3> QED
        BY <3>1, TasksMoved DEF TaskMoved
    <2>3. Data'
      BY <1>1, <2>2, DataKept DEF HonestInv
    <2> QED
      BY <1>1, <2>1, <2>3, QuietBans DEF HonestInv, HonestNotBanned
  <1> QED
    BY <1>2, <1>3

LEMMA FinishChunkBans ==
    ASSUME IInv, SyncInv, HonestInv, FinishChunk
    PROVE  HonestInv'
  <1>1. /\ pc = "idle" /\ after.kind = "chunk" /\ UNCHANGED <<vars, checks>> /\ after' = NoCall
        /\ chunkTask \in Tasks /\ chunkTask.peer = syncPeer
    BY DEF FinishChunk, SyncInv, SyncTypes, Rest, Current
  <1>2. TaskMoved
    <2>1. [chunkTask EXCEPT !.step = "start"].step = "start"
      BY <1>1 DEF Tasks, NoTask
    <2>2. ChunksEnd => TaskMoved
      BY DEF ChunksEnd, TaskMoved, NoTask
    <2> QED
      BY <2>1, <2>2, TasksMoved DEF FinishChunk, TaskMoved
  <1>3. banned' \subseteq Faulty
    <2>1. CASE banned' = banned
      BY <2>1 DEF HonestInv, HonestNotBanned
    <2>2. CASE ~(sealed > after.index) /\ after.fits /\ Drop(syncPeer, TRUE, sync)
      <3>1. banned' = banned \cup {syncPeer}
        BY <2>2 DEF Drop
      <3>2. syncPeer \in Faulty
        BY <1>1, <2>2 DEF HonestInv, ChunkCall
      <3> QED
        BY <3>1, <3>2 DEF HonestInv, HonestNotBanned
    <2> QED
      BY <2>1, <2>2 DEF FinishChunk, ChunksEnd
  <1>4. Data'
    BY <1>1, <1>2, DataKept DEF HonestInv
  <1> QED
    BY <1>1, <1>3, <1>4, QuietBans

\* Messages that are not submitted, and connections that come and go.
LEMMA PeerBans ==
    ASSUME IInv, SyncInv, HonestInv, NEW p \in Peer,
           \/ Connect(p) \/ Announce(p) \/ HeadersArrive(p) \/ BlockAhead(p)
           \/ Leave(p) \/ Misbehave(p) \/ ReaderEnds(p) \/ Stall(p)
    PROVE  HonestInv'
  <1>1. UNCHANGED vars /\ after' = NoCall
    BY DEF Connect, Announce, HeadersArrive, BlockAhead, Leave, Misbehave, ReaderEnds, Stall, Due, Free
  <1>2. banned' \subseteq Faulty
    <2>1. banned' = banned \/ (p \in Faulty /\ banned' = banned \cup {p})
      BY DEF Connect, Announce, HeadersArrive, BlockAhead, Leave, Misbehave, ReaderEnds, Stall,
             Break, Drop
    <2> QED
      BY <2>1 DEF HonestInv, HonestNotBanned
  <1>3. TaskMoved
    BY TasksMoved DEF Connect, Announce, HeadersArrive, BlockAhead, Leave, Misbehave, ReaderEnds,
       Stall, TaskMoved
  <1>4. CASE checks' = checks
    BY <1>1, <1>2, <1>3, <1>4, DataKept, QuietBans DEF HonestInv
  <1>5. CASE HeadersArrive(p)
    <2>1. /\ asked[p] \in Seq(Question) /\ asked[p] # <<>> /\ Head(asked[p]).kind = "headers"
          /\ chunkTask' = chunkTask
      BY <1>5 DEF HeadersArrive, Due, SyncInv, SyncTypes
    <2>2. Head(asked[p]) \in Question
      BY <2>1, AskedTail
    <2>3. PICK hs \in Answers(p, Head(asked[p])) :
             \/ checks' = checks
             \/ checks' = checks \cup {[peer |-> p, round |-> sync[p].round, step |-> "new",
                                        headers |-> hs, known |-> 0, passed |-> 0, anchor |-> NoBlock]}
      BY <1>5 DEF HeadersArrive
    <2>4. hs \in Seq(Block) /\ (p \notin Faulty => \A i \in 1..Len(hs) : hs[i] \in Accepts)
      BY <2>1, <2>2, AnswerFacts, PeerAccepted DEF SyncInv
    <2>5. \A t \in checks' : t \in checks \/ (t.peer = p /\ t.headers = hs)
      BY <2>3
    <2>6. Data'
      BY <2>1, <2>4, <2>5 DEF HonestInv, Data
    <2> QED
      BY <1>1, <1>2, <2>6, QuietBans
  <1> QED
    BY <1>4, <1>5 DEF Connect, Announce, BlockAhead, Leave, Misbehave, ReaderEnds, Stall

LEMMA CheckBans ==
    ASSUME IInv, SyncInv, HonestInv, NEW t \in checks, CheckStep(t)
    PROVE  HonestInv'
  <1>1. UNCHANGED vars /\ after' = NoCall
    BY DEF CheckStep, HeadersUnconnected, HeadersRefused, HeadersTooDeep, HeadersPass, PowChecked,
           Starts, Free
  <1>2. t \in Checks /\ t.peer \in Peer /\ t.headers \in Seq(Block) /\ t.passed <= Len(t.headers)
        /\ t.known \in Nat /\ t.passed \in Nat
    BY DEF SyncInv, SyncTypes, Checks
  <1>3. t.peer \notin Faulty =>
           /\ ~Tainted(t.peer, t.headers)
           /\ \A i \in 1..Len(t.headers) : t.headers[i] \in HeaderOk /\ t.headers[i] \in Mined
           /\ KnownPrefix(t.headers) \in 0..Len(t.headers) /\ Len(t.headers) \in Nat
    BY <1>2, HeadersPassed DEF HonestInv, Data, SyncInv
  <1>4. ASSUME Drop(t.peer, TRUE, Settled(t)), HeadersRefused(t) \/ PowChecked(t),
               ~(t.step = "pow" /\ \A i \in (t.known + 1)..t.passed : t.headers[i] \in Mined)
        PROVE  t.peer \in Faulty
    <2> SUFFICES ASSUME t.peer \notin Faulty PROVE FALSE
      OBVIOUS
    <2>1. CASE HeadersRefused(t)
      BY <1>3, <2>1 DEF HeadersRefused
    <2>2. CASE PowChecked(t)
      BY <1>2, <1>3, <1>4, <2>2 DEF PowChecked
    <2> QED
      BY <1>4, <2>1, <2>2
  <1>5. banned' \subseteq Faulty
    <2>1. CASE banned' = banned
      BY <2>1 DEF HonestInv, HonestNotBanned
    <2>2. CASE /\ Drop(t.peer, TRUE, Settled(t))
               /\ \/ HeadersRefused(t)
                  \/ /\ PowChecked(t)
                     /\ ~\A i \in (t.known + 1)..t.passed : t.headers[i] \in Mined
      <3>1. banned' = banned \cup {t.peer}
        BY <2>2 DEF Drop
      <3>2. t.peer \in Faulty
        BY <1>4, <2>2 DEF HeadersRefused, Starts
      <3> QED
        BY <3>1, <3>2 DEF HonestInv, HonestNotBanned
    <2>3. \A s : Drop(t.peer, FALSE, s) => banned' = banned
      BY DEF Drop
    <2>4. CASE HeadersUnconnected(t) \/ HeadersPass(t)
      BY <2>1, <2>4 DEF HeadersUnconnected, HeadersPass
    <2>5. CASE HeadersTooDeep(t)
      BY <2>1, <2>3, <2>5 DEF HeadersTooDeep
    <2>6. CASE HeadersRefused(t)
      BY <2>2, <2>6 DEF HeadersRefused
    <2>7. CASE PowChecked(t)
      BY <2>1, <2>2, <2>7 DEF PowChecked
    <2> QED
      BY <2>4, <2>5, <2>6, <2>7 DEF CheckStep
  <1>6. TaskMoved
    <2>1. \A u : Conclude(u) => TaskMoved
      BY TasksMoved DEF Conclude, TaskMoved
    <2> QED
      BY <2>1, TasksMoved DEF CheckStep, HeadersUnconnected, HeadersRefused, HeadersTooDeep,
         HeadersPass, PowChecked, TaskMoved
  <1>7. CASE checks' \subseteq checks
    BY <1>1, <1>5, <1>6, <1>7, DataKept, QuietBans DEF HonestInv
  <1>8. CASE HeadersPass(t)
    <2>1. PICK known, passed, anchor :
             \/ checks' = checks \ {t}
             \/ checks' = (checks \ {t}) \cup
                   {[t EXCEPT !.step = "pow", !.known = known, !.passed = passed, !.anchor = anchor]}
      BY <1>8 DEF HeadersPass
    <2> DEFINE rest == [t EXCEPT !.step = "pow", !.known = known, !.passed = passed, !.anchor = anchor]
    <2>2. rest.peer = t.peer /\ rest.headers = t.headers
      BY <1>2 DEF Checks
    <2> HIDE DEF rest
    <2>3. checks' \subseteq checks \cup {rest}
      BY <2>1 DEF rest
    <2>4. \A u \in checks' : u \in checks \/ (u.peer = t.peer /\ u.headers = t.headers)
      BY <2>2, <2>3
    <2>5. chunkTask' = chunkTask \/ chunkTask'.step = "start"
      BY <1>6 DEF TaskMoved
    <2>6. Data'
      BY <2>4, <2>5 DEF HonestInv, Data
    <2> QED
      BY <1>1, <1>5, <2>6, QuietBans
  <1> QED
    BY <1>7, <1>8 DEF CheckStep, HeadersUnconnected, HeadersRefused, HeadersTooDeep, PowChecked

\* The chunk task between its calls.
LEMMA TaskBans ==
    ASSUME IInv, SyncInv, HonestInv,
           \/ NextChunk \/ DownloadFails \/ Downloaded \/ ChunkBad \/ ChunkLate
           \/ \E t \in threads : ThreadEnds(t)
    PROVE  HonestInv'
  <1>1. /\ UNCHANGED <<vars, checks>> /\ after' = NoCall
    BY DEF NextChunk, DownloadFails, Downloaded, ChunkBad, ChunkLate, ThreadEnds, TaskAt, Free
  <1>2. chunkTask \in Tasks /\ SyncTypes
    BY DEF SyncInv, SyncTypes
  <1>3. ChunksEnd => TaskMoved /\ banned' = banned
    BY DEF ChunksEnd, TaskMoved, NoTask
  <1>4. ASSUME TaskMoved, banned' = banned PROVE HonestInv'
    BY <1>1, <1>4, DataKept, QuietBans DEF HonestInv, HonestNotBanned
  <1>5. CASE DownloadFails \/ ChunkLate
    BY <1>3, <1>4, <1>5 DEF DownloadFails, ChunkLate
  <1>6. ASSUME chunkTask # NoTask,
               \/ chunkTask' = [chunkTask EXCEPT !.step = "download", !.index = sealed]
               \/ chunkTask.step = "check" /\ chunkTask' = [chunkTask EXCEPT !.step = "checked"],
               banned' = banned
        PROVE  HonestInv'
    <2>1. \/ chunkTask'.step = "download"
          \/ /\ chunkTask.step = "check" /\ chunkTask'.peer = chunkTask.peer
             /\ chunkTask'.file = chunkTask.file /\ chunkTask'.index = chunkTask.index
      BY <1>2, <1>6 DEF Tasks
    <2>2. Data'
      BY <1>1, <2>1 DEF HonestInv, Data
    <2> QED
      BY <1>1, <1>6, <2>2, QuietBans DEF HonestInv, HonestNotBanned
  <1>7. CASE NextChunk
    BY <1>3, <1>4, <1>6, <1>7 DEF NextChunk, TaskAt
  <1>8. ASSUME NEW t \in threads, ThreadEnds(t) PROVE HonestInv'
    <2>1. chunkTask.step = "check" => chunkTask # NoTask
      BY DEF NoTask
    <2> QED
      BY <1>4, <1>6, <1>8, <2>1 DEF ThreadEnds, TaskMoved
  <1>9. CASE Downloaded
    <2>1. CASE ChunksEnd
      BY <1>3, <1>4, <2>1
    <2>2. CASE ~ChunksEnd
      <3>1. /\ Current /\ chunkTask # NoTask /\ banned' = banned
            /\ \E c \in PeerChain(syncPeer) :
                  /\ Height[c] = (chunkTask.index + 1) * ChunkSize - 1
                  /\ chunkTask' = [chunkTask EXCEPT !.step = "check", !.file = c]
        BY <1>9, <2>2 DEF Downloaded, TaskAt
      <3>2. PICK c \in PeerChain(syncPeer) :
                  /\ Height[c] = (chunkTask.index + 1) * ChunkSize - 1
                  /\ chunkTask' = [chunkTask EXCEPT !.step = "check", !.file = c]
        BY <3>1
      <3>3. chunkTask.peer \in Peer /\ chunkTask.peer = syncPeer
        BY <1>2, <3>1 DEF Tasks, Current
      <3>4. /\ chunkTask'.peer = syncPeer /\ chunkTask'.file = c
            /\ chunkTask'.index = chunkTask.index
        BY <1>2, <3>1, <3>2, <3>3 DEF Tasks
      <3>5. syncPeer \notin Faulty => c \in Accepts
        BY <1>2, <3>3, PeerAccepted
      <3>6. Data'
        BY <1>1, <3>2, <3>4, <3>5 DEF HonestInv, Data
      <3> QED
        BY <1>1, <3>1, <3>6, QuietBans DEF HonestInv, HonestNotBanned
    <2> QED
      BY <2>1, <2>2
  <1>10. CASE ChunkBad
    <2>1. /\ chunkTask # NoTask /\ chunkTask.step = "checked"
          /\ ~CheckedChunk(chunkTask.file) /\ Drop(chunkTask.peer, TRUE, sync)
      BY <1>10 DEF ChunkBad, TaskAt
    <2>2. chunkTask.peer \in Peer /\ chunkTask.index \in Nat
      BY <1>2, <2>1 DEF Tasks
    <2>3. chunkTask.peer \in Faulty
      BY <2>1, <2>2, ChunkPassed DEF HonestInv, Data
    <2>4. banned' = banned \cup {chunkTask.peer} /\ TaskMoved
      BY <2>1, TasksMoved DEF Drop
    <2>5. banned' \subseteq Faulty
      BY <2>3, <2>4 DEF HonestInv, HonestNotBanned
    <2> QED
      BY <1>1, <2>4, <2>5, DataKept, QuietBans DEF HonestInv
  <1> QED
    BY <1>5, <1>7, <1>8, <1>9, <1>10

LEMMA BansStep ==
    ASSUME IInv, SyncInv, HonestInv, [PNext]_pvars
    PROVE  HonestInv'
  <1>1. CASE UNCHANGED pvars
    <2>1. UNCHANGED vars /\ UNCHANGED peerVars
      BY <1>1 DEF pvars
    <2>2. UNCHANGED <<orphans, children, waiting, cur, pc, main, raised, status, sealed>>
      BY <2>1 DEF vars, callVars, storeVars
    <2> QED
      BY <2>1, <2>2 DEF peerVars, HonestInv, Lists, BlockCall, ChunkCall, Data, HonestNotBanned,
         Submitted, CallFrom, Continues, Tip
  <1> QED
    BY <1>1, HandlerBans, BlockBans, ChunkGoodBans, FinishBlockBans, FinishChunkBans, PeerBans,
       CheckBans, TaskBans
    DEF PNext, RunOn, Reply, ChunkStep

\* A peer that follows the rules is never banned: not for a block we refuse because
\* of our clock or our branch, not for one that an exception of ours ends, not for
\* headers and chunks that come too late or do not follow our chain.
THEOREM HonestPeersStay == PSpec => []HonestNotBanned
<1>1. PInit => HonestInv
  <2> SUFFICES ASSUME PInit PROVE HonestInv
    OBVIOUS
  <2>1. /\ pc = "seal" /\ cur = NoBlock /\ orphans = <<>> /\ waiting = <<>> /\ children = <<>>
        /\ banned = {} /\ checks = {} /\ chunkTask = NoTask /\ after = NoCall
    BY DEF PInit, Init
  <2>2. <<>> \in Seq(Block)
    BY EmptySeq
  <2> QED
    BY <2>1, <2>2 DEF HonestInv, Lists, BlockCall, ChunkCall, Data, HonestNotBanned, NoTask, NoCall
<1>2. IInv /\ SyncInv /\ HonestInv /\ [PNext]_pvars => HonestInv'
    BY BansStep
<1>3. HonestInv => HonestNotBanned
    BY DEF HonestInv
<1> QED
    BY <1>1, <1>2, <1>3, SyncInvariance, PTL DEF PSpec
=============================================================================
