------------------------------ MODULE ApiServer ------------------------------
(***************************************************************************)
(* How the HTTP API (node/api.py) lets clients in: the rate limit and the  *)
(* body limit in front of every request, and the WebSocket handler with    *)
(* the subscriptions of node/events.py behind it.  What a handler answers  *)
(* is not modelled.                                                        *)
(*                                                                         *)
(* One event loop runs all of it; an action is what happens between two    *)
(* awaits.  A subscription's messages are numbered as they are delivered.  *)
(***************************************************************************)
EXTENDS HostBuckets, FiniteSets

CONSTANTS
    Trusted,        \* hosts that is_trusted holds for
    Sockets,        \* names for WebSocket connections
    Reading,        \* the connections whose client goes on reading what it is sent
    PerHost,        \* websockets_per_host
    MaxSockets,     \* max_websockets
    Topics,
    TopicLists,     \* the lists a client may send (sequences of topics)
    MaxTopics,      \* stranger_topics; a trusted client may have all of Topics
    QueueLimit,     \* QUEUE_LIMIT
    MaxMessages,    \* bound: messages for one subscription
    MaxBody,        \* max_bytes
    MaxRequests     \* bound: requests whose body is read

ASSUME ApiAssumption ==
    /\ IsFiniteSet(Sockets) /\ Reading \subseteq Sockets
    /\ IsFiniteSet(Topics) /\ TopicLists \subseteq Seq(Topics)
    /\ PerHost \in Nat /\ MaxSockets \in Nat /\ MaxTopics \in Nat /\ QueueLimit \in Nat
    /\ MaxMessages \in Nat /\ MaxBody \in Nat /\ MaxRequests \in Nat

VARIABLES
    socket,     \* socket[s]: the handler of one connection
    open,       \* the Counter `websockets`
    byTopic,    \* EventBus._by_topic
    request,    \* the request whose body is being read
    requests    \* requests that came that far

vars == <<bucketVars, socket, open, byTopic, request, requests>>

\* phase: not there, waiting for accept(), open, or over; writer: waiting in
\* queue.get() or in send_json; slept: the reader sleeps a second after a refusal;
\* count: messages delivered so far; sent: number of the last one sent.
NoSocket == [phase |-> "none", host |-> "", topics |-> {}, queue |-> <<>>,
             overflowed |-> FALSE, writer |-> "get", sending |-> 0, sent |-> 0,
             count |-> 0, slept |-> FALSE]
SocketType ==
    [phase : {"none", "accepting", "open", "over"}, host : Hosts \cup {""},
     topics : SUBSET Topics, queue : Seq(1..MaxMessages), overflowed : BOOLEAN,
     writer : {"get", "send"}, sending : 0..MaxMessages, sent : 0..MaxMessages,
     count : 0..MaxMessages, slept : BOOLEAN]

NoRequest == [phase |-> "none", bytes |-> 0]

ApiTypeOK ==
    /\ BucketsTypeOK
    /\ socket \in [Sockets -> SocketType]
    /\ open \in [Hosts -> 0..Cardinality(Sockets)]
    /\ byTopic \in [Topics -> SUBSET Sockets]
    /\ request \in [phase : {"none", "body"}, bytes : 0..MaxBody]
    /\ requests \in 0..MaxRequests

-----------------------------------------------------------------------------
(* Requests: guard, then BodyLimitMiddleware, then the handler *)

\* guard refuses, or lets the body be read; a request for mining, or one that says
\* it is too large, is refused before anything is read.
Request(h) ==
    /\ request.phase = "none" /\ requests < MaxRequests
    /\ IF h \in Trusted THEN UNCHANGED bucketVars ELSE TryTake(h)
    /\ \/ (h \in Trusted \/ Grants(h)) /\ request' = [phase |-> "body", bytes |-> 0]
       \/ UNCHANGED request
    /\ requests' = requests + 1
    /\ UNCHANGED <<socket, open, byTopic>>

Fits(n) == request.bytes + n <= MaxBody

\* A part of the body arrives: the body is too large, or goes on, or is complete
\* and the handler gets it.
BodyPart(n, more) ==
    /\ request.phase = "body"
    /\ request' = IF Fits(n) /\ more THEN [request EXCEPT !.bytes = @ + n] ELSE NoRequest
    /\ UNCHANGED <<bucketVars, socket, open, byTopic, requests>>

\* One deadline for the complete body; a disconnect ends it too.
BodyTimeout ==
    /\ request.phase = "body"
    /\ request' = NoRequest
    /\ UNCHANGED <<bucketVars, socket, open, byTopic, requests>>

-----------------------------------------------------------------------------
(* Subscriptions *)

\* Mutant: a message that finds no room is skipped without a note.
DeliveredQuietly(r) ==
    IF Len(r.queue) >= QueueLimit THEN [r EXCEPT !.count = r.count + 1]
    ELSE [r EXCEPT !.count = r.count + 1, !.queue = Append(r.queue, r.count + 1)]

\* Subscription.deliver
Delivered(r) ==
    IF Len(r.queue) >= QueueLimit THEN [r EXCEPT !.count = r.count + 1, !.overflowed = TRUE]
    ELSE [r EXCEPT !.count = r.count + 1, !.queue = Append(r.queue, r.count + 1)]

RoomFor(s) == socket[s].count < MaxMessages

\* add_topics takes the first topics of the list that there is room for; one
\* that is there already takes none.
Added(had, list, limit) ==
    LET Upto(i) == had \cup {list[j] : j \in 1..i}
    IN  had \cup {list[i] : i \in {j \in 1..Len(list) : Cardinality(Upto(j - 1)) < limit}}

\* EventBus.publish
Publish(t) ==
    /\ byTopic[t] # {} /\ \A s \in byTopic[t] : RoomFor(s)
    /\ socket' = [s \in Sockets |-> IF s \in byTopic[t] THEN Delivered(socket[s]) ELSE socket[s]]
    /\ UNCHANGED <<bucketVars, open, byTopic, request, requests>>

-----------------------------------------------------------------------------
(* The handler of /v1/ws *)

\* websockets.total(): one for each connection that an address is counted for.
TotalOpen == Cardinality(UNION {{h} \X (1..open[h]) : h \in Hosts})

RefusedSocket(h) == h \notin Trusted /\ (open[h] >= PerHost \/ TotalOpen >= MaxSockets)

\* The slot is taken before accept() yields.
Connect(s, h) ==
    /\ socket[s].phase = "none" /\ ~RefusedSocket(h)
    /\ socket' = [socket EXCEPT ![s] = [NoSocket EXCEPT !.phase = "accepting", !.host = h]]
    /\ open' = IF h \in Trusted THEN open ELSE [open EXCEPT ![h] = @ + 1]
    /\ UNCHANGED <<bucketVars, byTopic, request, requests>>

Accepted(s) ==
    /\ socket[s].phase = "accepting"
    /\ socket' = [socket EXCEPT ![s].phase = "open"]
    /\ UNCHANGED <<bucketVars, open, byTopic, request, requests>>

\* Mutant: the slot is only given back once the connection was accepted.
ReleasesAccepted(s) ==
    open' = IF socket[s].host \in Trusted \/ socket[s].phase = "accepting" THEN open
            ELSE [open EXCEPT ![socket[s].host] = @ - 1]

Releases(s) ==
    open' = IF socket[s].host \in Trusted THEN open ELSE [open EXCEPT ![socket[s].host] = @ - 1]

\* Mutant: the index keeps the subscription.
StaysSubscribed(s) == UNCHANGED byTopic

\* EventBus.unsubscribe
Unsubscribes(s) == byTopic' = [t \in Topics |-> byTopic[t] \ {s}]

\* `finally`: both tasks are cancelled, and what they held is given back.
Finally(s) ==
    /\ socket' = [socket EXCEPT ![s] = [NoSocket EXCEPT !.phase = "over"]]
    /\ Unsubscribes(s) /\ Releases(s)
    /\ UNCHANGED <<bucketVars, request, requests>>

\* accept() fails, the client leaves or a send fails, the server stops.
Left(s) == socket[s].phase \in {"accepting", "open"} /\ Finally(s)

\* The reader gets a message that is not JSON: no request is counted for it.
ReadBad(s) ==
    /\ socket[s].phase = "open" /\ ~socket[s].slept /\ RoomFor(s)
    /\ socket' = [socket EXCEPT ![s] = Delivered(@)]
    /\ UNCHANGED <<bucketVars, open, byTopic, request, requests>>

\* The reader gets a list of topics; the empty one stands for a message without
\* a list, which is answered the same way.
ReadTopics(s, list) ==
    LET h == socket[s].host
        topics == Added(socket[s].topics, list,
                        IF h \in Trusted THEN Cardinality(Topics) ELSE MaxTopics)
    IN  /\ socket[s].phase = "open" /\ ~socket[s].slept /\ RoomFor(s)
        /\ IF h \in Trusted THEN UNCHANGED bucketVars ELSE TryTake(h)
        /\ \/ /\ h \in Trusted \/ Grants(h)
              /\ socket' = [socket EXCEPT ![s] = Delivered([@ EXCEPT !.topics = topics])]
              /\ byTopic' = [t \in Topics |-> IF t \in topics THEN byTopic[t] \cup {s} ELSE byTopic[t]]
           \/ /\ h \notin Trusted /\ ~Grants(h)
              /\ socket' = [socket EXCEPT ![s] = Delivered([@ EXCEPT !.slept = TRUE])]
              /\ UNCHANGED byTopic
        /\ UNCHANGED <<open, request, requests>>

\* The second the reader sleeps is over.
Wakes(s) ==
    /\ socket[s].phase = "open" /\ socket[s].slept
    /\ socket' = [socket EXCEPT ![s].slept = FALSE]
    /\ UNCHANGED <<bucketVars, open, byTopic, request, requests>>

\* The next message leaves the queue.
Sending(r) == [r EXCEPT !.writer = "send", !.sending = Head(r.queue), !.queue = Tail(r.queue)]

\* queue.get() returns; whether the queue has overflowed is not looked at here.
WriterGets(s) ==
    /\ socket[s].phase = "open" /\ socket[s].writer = "get" /\ socket[s].queue # <<>>
    /\ socket' = [socket EXCEPT ![s] = Sending(@)]
    /\ UNCHANGED <<bucketVars, open, byTopic, request, requests>>

\* Mutant: the writer never looks at the flag.
GoesOn(r) == TRUE

KeepsUp(r) == ~r.overflowed

\* send_json returns: the writer ends when something was lost, else it takes the
\* next message at once, or waits.
Sent(s) ==
    LET r == [socket[s] EXCEPT !.sent = socket[s].sending]
    IN  /\ r.phase = "open" /\ r.writer = "send"
        /\ IF ~KeepsUp(r) THEN Finally(s)
           ELSE /\ socket' = [socket EXCEPT ![s] = IF r.queue = <<>> THEN [r EXCEPT !.writer = "get"]
                                                   ELSE Sending(r)]
                /\ UNCHANGED <<bucketVars, open, byTopic, request, requests>>

-----------------------------------------------------------------------------
Init ==
    /\ BucketsInit
    /\ socket = [s \in Sockets |-> NoSocket]
    /\ open = [h \in Hosts |-> 0]
    /\ byTopic = [t \in Topics |-> {}]
    /\ request = NoRequest /\ requests = 0

Tick == Advance /\ UNCHANGED <<socket, open, byTopic, request, requests>>

Next ==
    \/ Tick \/ BodyTimeout
    \/ \E h \in Hosts : Request(h)
    \/ \E n \in 0..MaxBody, more \in BOOLEAN : BodyPart(n, more)
    \/ \E t \in Topics : Publish(t)
    \/ \E s \in Sockets :
          \/ Accepted(s) \/ Left(s) \/ ReadBad(s) \/ Wakes(s) \/ WriterGets(s) \/ Sent(s)
          \/ \E h \in Hosts : Connect(s, h)
          \/ \E list \in TopicLists : ReadTopics(s, list)

\* queue.get() wakes up, and a send ends as long as the client reads.  A send has no
\* deadline: to a client that does not read, it need not end.
Fairness ==
    /\ \A s \in Sockets : WF_vars(WriterGets(s))
    /\ \A s \in Reading : WF_vars(Sent(s))

Spec == Init /\ [][Next]_vars /\ Fairness

-----------------------------------------------------------------------------
(* Properties *)

\* What a connection holds is given back once, on each way out of the handler, also
\* before accept() returned.  The count of every address is exact, so the limits on
\* one address and on all of them bound the connections there are; the index holds
\* exactly the open subscriptions under their topics, so that no event is missed and
\* nothing is kept of a connection that is over (add_topics, unsubscribe).  The
\* rate limiter remembers no address twice and no more of them than its limit.
HoldingsExact ==
    /\ ApiTypeOK
    /\ \A h \in Hosts \ Trusted :
          open[h] = Cardinality({s \in Sockets : socket[s].host = h
                                                 /\ socket[s].phase \in {"accepting", "open"}})
    /\ \A h \in Hosts \ Trusted : open[h] <= PerHost
    /\ TotalOpen <= MaxSockets
    /\ \A t \in Topics :
          byTopic[t] = {s \in Sockets : socket[s].phase = "open" /\ t \in socket[s].topics}
    /\ \A s \in Sockets :
          socket[s].host \notin Trusted => Cardinality(socket[s].topics) <= MaxTopics

\* What a subscriber is sent has no gap: the message under way is the one that
\* follows the last one sent (deliver against the writer's get and send).
NoGap == \A s \in Sockets : socket[s].writer = "send" => socket[s].sending = socket[s].sent + 1

\* Once a message for it was lost, a connection ends, however slow its client is in
\* reading: the writer may be waiting in the queue or in a send at that moment,
\* and new messages and requests may keep coming.
SlowReadersEnd == \A s \in Reading : socket[s].overflowed ~> socket[s].phase = "over"

\* "A client that falls more than 1,000 events behind is disconnected"
\* (docs/PROTOCOL.md), whether it reads or not.
BehindIsDropped == \A s \in Sockets : socket[s].overflowed ~> socket[s].phase = "over"
=============================================================================
