------------------------------ MODULE ApiProofs ------------------------------
(***************************************************************************)
(* The limits of the API for any rate, burst, set of addresses, number of  *)
(* connections, topics and length of a queue.                              *)
(*                                                                         *)
(* RateBounded speaks of two requests served; the inductive invariant     *)
(* relates all that was served since one of them, and what the bucket      *)
(* still holds, to the time it was last filled.                            *)
(*                                                                         *)
(* NoGap speaks of the message under way; the inductive invariant, of all  *)
(* that is queued behind it.  An overflow leaves a gap in the queue only   *)
(* while a message is under way, and the writer ends when that one is      *)
(* sent.  HoldingsExact is inductive with what a handler holds in each of  *)
(* its phases.                                                             *)
(***************************************************************************)
EXTENDS ApiServer, FiniteSetTheorems, ListTheorems

Spaced(list) ==
    \A i, j \in 1..Len(list) : i <= j => j - i + 1 <= Burst + Rate * (list[j] - list[i])

Sound(b) ==
    /\ b \in Buckets
    /\ b.tokens >= 0 /\ b.tokens <= Burst /\ b.updated <= now
    /\ \A i \in 1..Len(b.served) :
          /\ b.served[i] <= b.updated
          /\ Len(b.served) - i + 1 + b.tokens <= Burst + Rate * (b.updated - b.served[i])
    /\ Spaced(b.served)

BucketsInv == now \in Nat /\ bucket \in [Hosts -> Buckets] /\ \A h \in Hosts : Sound(bucket[h])

\* What the fields of a bucket are.
LEMMA BucketFields ==
    ASSUME NEW b \in Buckets
    PROVE  /\ b.tokens \in Int /\ b.updated \in Int /\ b.served \in Seq(Int)
           /\ Len(b.served) \in Nat /\ \A i \in 1..Len(b.served) : b.served[i] \in Int
  <1>1. b.tokens \in Int /\ b.updated \in Int /\ b.served \in Seq(Int)
    BY DEF Buckets
  <1> QED
    BY <1>1, LenProperties, ElementOfSeq

\* What is added over a time, and what was allowed before it, is allowed after it.
LEMMA Allowed ==
    ASSUME NEW a \in Int, NEW b \in Int, NEW c \in Int, NEW n \in Int, NEW t \in Int, NEW u \in Int,
           n + t <= Burst + Rate * (b - a), u <= t + (c - b) * Rate
    PROVE  n + u <= Burst + Rate * (c - a)
  <1> USE RateAssumption
  <1> DEFINE x == Rate * (b - a)   y == Rate * (c - a)   z == (c - b) * Rate
  <1>1. x \in Int /\ y \in Int /\ z \in Int
    OBVIOUS
  <1>2. x + z = y
    OBVIOUS
  <1>3. n + t <= Burst + x /\ u <= t + z
    OBVIOUS
  <1> HIDE DEF x, y, z
  <1>4. n + u <= Burst + y
    BY <1>1, <1>2, <1>3
  <1> QED
    BY <1>4 DEF y

\* No time allows a burst.
LEMMA AllowedAtOnce == ASSUME NEW a \in Int PROVE Burst + Rate * (a - a) = Burst
  <1>1. a - a = 0 /\ Rate * 0 = 0
    BY RateAssumption
  <1> QED
    BY <1>1, RateAssumption

\* _refill never adds more than the time that went by.
LEMMA RefillSound ==
    ASSUME NEW b, Sound(b), now \in Nat
    PROVE  Sound(Refilled(b)) /\ Refilled(b).updated = now
  <1> USE RateAssumption
  <1>0. /\ b.tokens \in Int /\ b.updated \in Int /\ b.served \in Seq(Int)
        /\ Len(b.served) \in Nat /\ \A i \in 1..Len(b.served) : b.served[i] \in Int
        /\ b.tokens >= 0 /\ b.tokens <= Burst /\ b.updated <= now
    BY BucketFields DEF Sound
  <1> DEFINE c == Refilled(b)
             filled == b.tokens + (now - b.updated) * Rate
  <1>1. c \in Buckets /\ c.updated = now /\ c.served = b.served /\ c.tokens = Lower(Burst, filled)
    <2>1. Lower(Burst, filled) \in Int
      BY <1>0 DEF Lower
    <2> QED
      BY <1>0, <2>1 DEF Refilled, Buckets
  <1>2. (now - b.updated) * Rate \in Int /\ (now - b.updated) * Rate >= 0
    <2>1. now - b.updated \in Nat
      BY <1>0
    <2> QED
      BY <2>1
  <1>3. c.tokens \in Int /\ c.tokens >= 0 /\ c.tokens <= Burst /\ c.tokens <= filled
    BY <1>0, <1>1, <1>2 DEF Lower
  <1> HIDE DEF c
  <1>4. ASSUME NEW i \in 1..Len(b.served)
        PROVE  /\ b.served[i] <= now
               /\ Len(b.served) - i + 1 + c.tokens <= Burst + Rate * (now - b.served[i])
    <2>1. /\ b.served[i] \in Int /\ b.served[i] <= b.updated
          /\ Len(b.served) - i + 1 + b.tokens <= Burst + Rate * (b.updated - b.served[i])
      BY <1>0 DEF Sound
    <2> DEFINE at == b.served[i]   n == Len(b.served) - i + 1
    <2>2. n \in Int /\ at \in Int /\ n + b.tokens <= Burst + Rate * (b.updated - at)
      BY <1>0, <2>1
    <2> HIDE DEF at, n
    <2>3. n + c.tokens <= Burst + Rate * (now - at)
      <3>1. /\ now \in Int /\ b.updated \in Int /\ b.tokens \in Int /\ c.tokens \in Int
            /\ c.tokens <= b.tokens + (now - b.updated) * Rate
        BY <1>0, <1>3
      <3> QED
        BY ONLY <2>2, <3>1, Allowed, Zenon
    <2>4. at <= now
      BY <1>0, <2>1 DEF at
    <2> QED
      BY <2>3, <2>4 DEF at, n
  <1>5. Spaced(b.served)
    BY DEF Sound
  <1>6. Sound(c)
    BY <1>1, <1>3, <1>4, <1>5 DEF Sound
  <1> QED
    BY <1>1, <1>6 DEF c

\* One more request, served at once, is spaced out as the ones before it.
LEMMA GrantSound ==
    ASSUME NEW b, Sound(b), b.updated = now, now \in Nat, b.tokens >= 1
    PROVE  Sound([tokens |-> b.tokens - 1, updated |-> b.updated,
                  served |-> Append(b.served, now)])
  <1> USE RateAssumption
  <1>0. /\ b.tokens \in Int /\ b.updated \in Int /\ b.served \in Seq(Int)
        /\ Len(b.served) \in Nat /\ \A i \in 1..Len(b.served) : b.served[i] \in Int
        /\ b.tokens <= Burst
    BY BucketFields DEF Sound
  <1> DEFINE n == Len(b.served)
             list == Append(b.served, now)
             Room(i) == Burst + Rate * (now - b.served[i])
             c == [tokens |-> b.tokens - 1, updated |-> b.updated, served |-> list]
  <1>1. /\ list \in Seq(Int) /\ Len(list) = n + 1 /\ list[n + 1] = now
        /\ \A i \in 1..n : list[i] = b.served[i]
    BY <1>0, AppendProperties
  <1>2. \A i \in 1..n : /\ b.served[i] \in Int /\ b.served[i] <= now
                        /\ n - i + 1 + b.tokens <= Room(i)
    BY <1>0 DEF Sound
  <1>3. \A i \in 1..n : Room(i) \in Int
    BY <1>0
  <1>8. n \in Nat
    BY <1>0
  <1> HIDE DEF list, Room, n
  <1>4. c \in Buckets /\ c.tokens = b.tokens - 1 /\ c.updated = now /\ c.served = list
    BY <1>0, <1>1 DEF Buckets
  <1> HIDE DEF c
  <1>5. ASSUME NEW i \in 1..(n + 1)
        PROVE  /\ list[i] <= now
               /\ (n + 1) - i + 1 + (b.tokens - 1) <= Burst + Rate * (now - list[i])
    <2>1. CASE i = n + 1
      <3>1. Burst + Rate * (now - list[i]) = Burst
        BY <1>1, <2>1, AllowedAtOnce
      <3>2. (n + 1) - i + 1 + (b.tokens - 1) <= Burst
        BY <1>0, <1>8, <2>1
      <3> QED
        BY <1>1, <2>1, <3>1, <3>2
    <2>2. CASE i # n + 1
      <3>1. i \in 1..n
        BY <1>8, <2>2
      <3>2. (n + 1) - i + 1 + (b.tokens - 1) <= Room(i)
        BY <1>0, <1>2, <1>3, <1>8, <3>1
      <3>3. Room(i) = Burst + Rate * (now - list[i])
        BY <1>1, <3>1 DEF Room
      <3> QED
        BY <1>1, <1>2, <3>1, <3>2, <3>3
    <2> QED
      BY <2>1, <2>2
  <1>6. Spaced(list)
    <2> SUFFICES ASSUME NEW i \in 1..(n + 1), NEW j \in 1..(n + 1), i <= j
                 PROVE  j - i + 1 <= Burst + Rate * (list[j] - list[i])
      BY <1>1 DEF Spaced
    <2>1. CASE j # n + 1
      <3>1. i \in 1..n /\ j \in 1..n
        BY <1>8, <2>1
      <3>2. j - i + 1 <= Burst + Rate * (b.served[j] - b.served[i])
        BY <3>1 DEF Sound, Spaced, n
      <3> QED
        BY <1>1, <3>1, <3>2
    <2>2. CASE j = n + 1 /\ i # n + 1
      <3>1. i \in 1..n
        BY <1>8, <2>2
      <3>2. j - i + 1 <= Room(i)
        BY <1>0, <1>2, <1>3, <1>8, <2>2, <3>1
      <3> QED
        BY <1>1, <2>2, <3>1, <3>2 DEF Room
    <2>3. CASE j = n + 1 /\ i = n + 1
      <3>1. Burst + Rate * (list[j] - list[i]) = Burst
        BY <1>1, <2>3, AllowedAtOnce
      <3>2. j - i + 1 <= Burst
        BY <1>0, <1>8, <2>3
      <3> QED
        BY <3>1, <3>2
    <2> QED
      BY <2>1, <2>2, <2>3
  <1>7. Sound(c)
    <2>1. c.tokens >= 0 /\ c.tokens <= Burst /\ c.updated <= now
      BY <1>0, <1>4
    <2>2. \A i \in 1..Len(list) : /\ list[i] <= now
             /\ Len(list) - i + 1 + (b.tokens - 1) <= Burst + Rate * (now - list[i])
      BY <1>1, <1>5
    <2> QED
      BY <1>4, <1>6, <2>1, <2>2 DEF Sound
  <1> QED
    BY <1>7 DEF c, list

\* HostBuckets.try_take keeps every bucket sound.
LEMMA TakeSound ==
    ASSUME BucketsInv, NEW h, TryTake(h)
    PROVE  BucketsInv'
  <1> USE RateAssumption DEF BucketsInv
  <1>1. now' = now
    BY DEF TryTake
  <1>0. Spaced(<<>>) /\ <<>> \in Seq(Int) /\ Len(<<>>) = 0
    BY EmptySeq DEF Spaced
  <1>2. ASSUME h \in Hosts PROVE Sound(Current(h))
    <2>1. Sound(NewBucket)
      BY <1>0 DEF Sound, NewBucket, Buckets
    <2> QED
      BY <1>2, <2>1 DEF Current
  <1>3. ASSUME h \in Hosts PROVE Sound(Refilled(Current(h))) /\ Refilled(Current(h)).updated = now
    BY <1>2, <1>3, RefillSound
  <1>4. ASSUME h \in Hosts PROVE Sound(Taken(h))
    BY <1>3, <1>4, GrantSound DEF Taken, Grants
  <1>5. Sound(NoBucket)
    BY <1>0 DEF Sound, NoBucket, Buckets
  <1>6. \A g \in Hosts : Sound(bucket'[g])
    BY <1>4, <1>5 DEF TryTake
  <1>7. bucket' \in [Hosts -> Buckets]
    BY <1>4, <1>5 DEF TryTake, Sound
  <1> QED
    BY <1>1, <1>6, <1>7 DEF Sound

\* The buckets start empty of history.
LEMMA InitSound == Init => BucketsInv
  <1>1. Spaced(<<>>) /\ <<>> \in Seq(Int) /\ Len(<<>>) = 0
    BY EmptySeq DEF Spaced
  <1> QED
    BY <1>1, RateAssumption DEF Init, BucketsInit, BucketsInv, Sound, NoBucket, Buckets

\* Only the guard of a request and the reader of a WebSocket touch the buckets.
LEMMA StepSound == BucketsInv /\ [Next]_vars => BucketsInv'
  <1> SUFFICES ASSUME BucketsInv, [Next]_vars PROVE BucketsInv'
    OBVIOUS
  <1>0. ASSUME UNCHANGED bucketVars PROVE BucketsInv'
    BY <1>0 DEF BucketsInv, Sound, bucketVars
  <1>1. CASE Tick
    <2>1. now' = now + 1 /\ bucket' = bucket
      BY <1>1 DEF Tick, Advance
    <2> QED
      BY <2>1 DEF BucketsInv, Sound, Buckets
  <1>2. ASSUME NEW h \in Hosts, Request(h) PROVE BucketsInv'
    BY <1>0, <1>2, TakeSound DEF Request
  <1>3. ASSUME NEW s \in Sockets, NEW list \in TopicLists, ReadTopics(s, list) PROVE BucketsInv'
    <2>1. CASE socket[s].host \in Trusted
      BY <1>0, <1>3, <2>1 DEF ReadTopics
    <2>2. CASE socket[s].host \notin Trusted
      <3>1. TryTake(socket[s].host)
        BY <1>3, <2>2 DEF ReadTopics
      <3> QED
        BY <3>1, TakeSound, <1>0
    <2> QED
      BY <2>1, <2>2
  <1>4. CASE BodyTimeout
    BY <1>0, <1>4 DEF BodyTimeout
  <1>5. ASSUME NEW n \in 0..MaxBody, NEW more \in BOOLEAN, BodyPart(n, more) PROVE BucketsInv'
    BY <1>0, <1>5 DEF BodyPart
  <1>6. ASSUME NEW t \in Topics, Publish(t) PROVE BucketsInv'
    BY <1>0, <1>6 DEF Publish
  <1>7. ASSUME NEW s \in Sockets,
               Accepted(s) \/ Left(s) \/ ReadBad(s) \/ Wakes(s) \/ WriterGets(s) \/ Sent(s)
        PROVE  BucketsInv'
    BY <1>0, <1>7 DEF Accepted, Left, ReadBad, Wakes, WriterGets, Sent, Finally
  <1>8. ASSUME NEW s \in Sockets, NEW h \in Hosts, Connect(s, h) PROVE BucketsInv'
    BY <1>0, <1>8 DEF Connect
  <1>9. CASE UNCHANGED vars
    BY <1>0, <1>9 DEF vars
  <1> QED
    BY <1>1, <1>2, <1>3, <1>4, <1>5, <1>6, <1>7, <1>8, <1>9 DEF Next

\* From any request served to any later one, an address is served no more than its
\* burst and its rate over the time between them, as long as it is remembered and
\* whatever mix of requests and WebSocket messages it sends, and whenever.
THEOREM RateHolds == Spec => []RateBounded
  <1>1. BucketsInv => RateBounded
    <2> SUFFICES ASSUME BucketsInv, NEW h \in Hosts
                 PROVE  LET served == bucket[h].served
                        IN  \A i, j \in DOMAIN served :
                                i <= j => j - i + 1 <= Burst + Rate * (served[j] - served[i])
      BY DEF RateBounded
    <2>1. bucket[h] \in Buckets /\ Spaced(bucket[h].served)
      BY DEF BucketsInv, Sound
    <2>2. DOMAIN bucket[h].served = 1..Len(bucket[h].served)
      BY <2>1, BucketFields, LenProperties
    <2> QED
      BY <2>1, <2>2 DEF Spaced
  <1> QED
    BY <1>1, InitSound, StepSound, PTL DEF Spec

-----------------------------------------------------------------------------
(* Connections: the inductive invariant *)

Active == {"accepting", "open"}

\* The number of the last message that left the queue.
Base(r) == IF r.writer = "send" THEN r.sending ELSE r.sent
InOrder(r) == \A i \in 1..Len(r.queue) : r.queue[i] = Base(r) + i

Stream(r) ==
    /\ r.writer = "send" => r.sending = r.sent + 1
    /\ ~r.overflowed => r.count = Base(r) + Len(r.queue) /\ InOrder(r)
    /\ r.overflowed /\ r.writer = "get" => Len(r.queue) >= QueueLimit /\ InOrder(r)

Handler(r) ==
    /\ r \in SocketType /\ Stream(r)
    /\ r.phase \in Active => r.host \in Hosts
    /\ r.phase # "open" => r.topics = {}
    /\ r.host \notin Trusted => Cardinality(r.topics) <= MaxTopics

HeldBy(h) == {s \in Sockets : socket[s].host = h /\ socket[s].phase \in Active}
OpenSlots == UNION {{h} \X (1..open[h]) : h \in Hosts}

Counted ==
    /\ open \in [Hosts -> 0..Cardinality(Sockets)]
    /\ \A h \in Hosts : IF h \in Trusted THEN open[h] = 0
                         ELSE open[h] = Cardinality(HeldBy(h)) /\ open[h] <= PerHost
    /\ IsFiniteSet(OpenSlots) /\ Cardinality(OpenSlots) <= MaxSockets

Subscribed(t) == {s \in Sockets : socket[s].phase = "open" /\ t \in socket[s].topics}
Indexed == byTopic = [t \in Topics |-> Subscribed(t)]

Handlers == socket \in [Sockets -> SocketType] /\ \A s \in Sockets : Handler(socket[s])

Requested == request \in [phase : {"none", "body"}, bytes : 0..MaxBody] /\ requests \in 0..MaxRequests

Recent == recent \in Seq(Hosts) /\ Len(recent) <= BucketLimit /\ IsInjective(recent)

HoldingsInv == BucketsInv /\ Recent /\ Handlers /\ Counted /\ Indexed /\ Requested

-----------------------------------------------------------------------------
(* What one step does to one handler *)

\* A message to the subscriber keeps its stream: it is queued in order, or the
\* loss is noted (Subscription.deliver).
LEMMA DeliveredKeeps ==
    ASSUME NEW r, Handler(r), r.count < MaxMessages
    PROVE  /\ Handler(Delivered(r))
           /\ Delivered(r).phase = r.phase /\ Delivered(r).host = r.host
           /\ Delivered(r).topics = r.topics
  <1> DEFINE d == Delivered(r)
  <1>1. /\ r \in SocketType /\ r.queue \in Seq(1..MaxMessages) /\ Len(r.queue) \in Nat
        /\ r.count \in Nat /\ r.sent \in Nat /\ r.sending \in Nat /\ MaxMessages \in Nat
        /\ r.count + 1 \in 1..MaxMessages /\ r.count + 1 \in 0..MaxMessages
        /\ r.overflowed \in BOOLEAN /\ r.writer \in {"get", "send"} /\ QueueLimit \in Nat
    <2>1. r \in SocketType /\ MaxMessages \in Nat /\ QueueLimit \in Nat
      BY ApiAssumption DEF Handler
    <2>2. /\ r.queue \in Seq(1..MaxMessages) /\ r.count \in 0..MaxMessages
          /\ r.sent \in 0..MaxMessages /\ r.sending \in 0..MaxMessages
          /\ r.overflowed \in BOOLEAN /\ r.writer \in {"get", "send"}
      BY <2>1 DEF SocketType
    <2>3. Len(r.queue) \in Nat
      BY <2>2, LenProperties
    <2> QED
      BY <2>1, <2>2, <2>3
  <1>2. CASE Len(r.queue) >= QueueLimit
    <2>1. d = [r EXCEPT !.count = r.count + 1, !.overflowed = TRUE]
      BY <1>2 DEF Delivered
    <2>2. /\ d \in SocketType /\ d.queue = r.queue /\ d.writer = r.writer /\ d.sending = r.sending
          /\ d.sent = r.sent /\ d.phase = r.phase /\ d.host = r.host /\ d.topics = r.topics
          /\ d.overflowed = TRUE
      BY <1>1, <2>1 DEF SocketType
    <2> HIDE DEF d
    <2>3. Base(d) = Base(r)
      BY <2>2 DEF Base
    <2>4. InOrder(r) => InOrder(d)
      BY <2>2, <2>3 DEF InOrder
    <2>5. r.writer = "get" => InOrder(r)
      BY <1>1 DEF Handler, Stream
    <2>6. Stream(d)
      BY <1>1, <1>2, <2>2, <2>4, <2>5 DEF Handler, Stream
    <2> QED
      BY <2>2, <2>6 DEF Handler, d
  <1>3. CASE ~(Len(r.queue) >= QueueLimit)
    <2> DEFINE q == Append(r.queue, r.count + 1)
    <2>1. d = [r EXCEPT !.count = r.count + 1, !.queue = q]
      BY <1>3 DEF Delivered
    <2>2. /\ q \in Seq(1..MaxMessages) /\ Len(q) = Len(r.queue) + 1
          /\ \A i \in 1..Len(r.queue) : q[i] = r.queue[i]
          /\ q[Len(r.queue) + 1] = r.count + 1
      BY <1>1, AppendProperties
    <2> HIDE DEF q
    <2>3. /\ d \in SocketType /\ d.queue = q /\ d.writer = r.writer /\ d.sending = r.sending
          /\ d.sent = r.sent /\ d.phase = r.phase /\ d.host = r.host /\ d.topics = r.topics
          /\ d.overflowed = r.overflowed /\ d.count = r.count + 1
      BY <1>1, <2>1, <2>2 DEF SocketType
    <2> HIDE DEF d
    <2>4. Base(d) = Base(r) /\ Base(r) \in Nat
      BY <1>1, <2>3 DEF Base
    <2>5. ~(r.overflowed /\ r.writer = "get")
      BY <1>1, <1>3 DEF Handler, Stream
    <2>6. ASSUME ~r.overflowed PROVE InOrder(d) /\ d.count = Base(d) + Len(d.queue)
      <3>1. r.count = Base(r) + Len(r.queue) /\ InOrder(r)
        BY <2>6 DEF Handler, Stream
      <3>2. ASSUME NEW i \in 1..Len(q) PROVE q[i] = Base(d) + i
        <4>1. CASE i \in 1..Len(r.queue)
          BY <2>2, <2>4, <3>1, <4>1 DEF InOrder
        <4>2. CASE i = Len(r.queue) + 1
          <5>1. q[i] = Base(r) + Len(r.queue) + 1
            BY <2>2, <3>1, <4>2
          <5> QED
            BY <1>1, <2>4, <4>2, <5>1
        <4>3. Len(q) \in Nat /\ i \in Nat /\ i >= 1 /\ i <= Len(r.queue) + 1
          BY <1>1, <2>2
        <4> QED
          BY <1>1, <4>1, <4>2, <4>3
      <3>3. InOrder(d)
        BY <2>3, <3>2 DEF InOrder
      <3> QED
        BY <1>1, <2>2, <2>3, <2>4, <3>1, <3>3
    <2>7. Stream(d)
      BY <1>1, <2>3, <2>5, <2>6 DEF Handler, Stream
    <2> QED
      BY <2>3, <2>7 DEF Handler, d
  <1> QED
    BY <1>2, <1>3

\* The writer takes the next message: from a queue without a gap, it is the one
\* that follows the last one sent.
LEMMA SendingKeeps ==
    ASSUME NEW r, Handler(r), r.queue # <<>>, InOrder(r), Base(r) = r.sent,
           ~r.overflowed => r.count = Base(r) + Len(r.queue)
    PROVE  /\ Handler(Sending(r))
           /\ Sending(r).phase = r.phase /\ Sending(r).host = r.host
           /\ Sending(r).topics = r.topics
  <1> DEFINE d == Sending(r)   q == r.queue
  <1>1. /\ r \in SocketType /\ q \in Seq(1..MaxMessages) /\ Len(q) \in Nat /\ Len(q) # 0
        /\ r.count \in Nat /\ r.sent \in Nat /\ MaxMessages \in Nat
    <2>1. r \in SocketType /\ MaxMessages \in Nat
      BY ApiAssumption DEF Handler
    <2>2. q \in Seq(1..MaxMessages) /\ r.count \in 0..MaxMessages /\ r.sent \in 0..MaxMessages
      BY <2>1 DEF SocketType
    <2>3. Len(q) \in Nat \ {0}
      BY <2>2, EmptySeq
    <2> QED
      BY <2>1, <2>2, <2>3
  <1>2. /\ Head(q) \in 1..MaxMessages /\ Head(q) = q[1] /\ Tail(q) \in Seq(1..MaxMessages)
        /\ Len(Tail(q)) = Len(q) - 1 /\ \A i \in 1..Len(Tail(q)) : Tail(q)[i] = q[i + 1]
    <2> HIDE DEF q
    <2>1. q # <<>>
      BY DEF q
    <2>2. Head(q) = q[1]
      BY <1>1, <2>1
    <2> QED
      BY <1>1, <2>1, <2>2, HeadTailProperties
  <1>3. Head(q) \in 0..MaxMessages
    BY <1>1, <1>2
  <1>4. /\ d \in SocketType /\ d.queue = Tail(q) /\ d.writer = "send" /\ d.sending = Head(q)
        /\ d.sent = r.sent /\ d.phase = r.phase /\ d.host = r.host /\ d.topics = r.topics
        /\ d.overflowed = r.overflowed /\ d.count = r.count
    BY <1>1, <1>2, <1>3 DEF SocketType, Sending
  <1> HIDE DEF d
  <1>5. \A i \in 1..Len(q) : q[i] = r.sent + i
    BY DEF InOrder
  <1>6. Head(q) = r.sent + 1 /\ Base(d) = r.sent + 1
    BY <1>1, <1>2, <1>4, <1>5 DEF Base
  <1>7. InOrder(d)
    <2> DEFINE t == Tail(q)
    <2>1. ASSUME NEW i \in 1..Len(t) PROVE t[i] = Base(d) + i
      <3>1. i + 1 \in 1..Len(q) /\ i \in Nat
        BY <1>1, <1>2
      <3>2. t[i] = r.sent + (i + 1)
        BY <1>2, <1>5, <3>1
      <3> HIDE DEF t
      <3>3. \A x, y \in Nat : x + (y + 1) = (x + 1) + y
        OBVIOUS
      <3>4. r.sent + (i + 1) = (r.sent + 1) + i
        BY <1>1, <3>1, <3>3, Zenon
      <3> QED
        BY <1>6, <3>2, <3>4
    <2> QED
      BY <1>4, <2>1 DEF InOrder
  <1>8. Stream(d)
    <2>1. ASSUME ~d.overflowed PROVE d.count = Base(d) + Len(d.queue)
      <3>1. r.count = r.sent + Len(q) /\ Len(d.queue) = Len(q) - 1
        BY <1>2, <1>4, <2>1
      <3> HIDE DEF q
      <3> QED
        BY <1>1, <1>4, <1>6, <3>1
    <2> QED
      BY <1>4, <1>6, <1>7, <2>1 DEF Stream
  <1> QED
    BY <1>4, <1>8 DEF Handler, d

\* add_topics takes no more topics than there is room for: the topics that fit are
\* the first of the list.
LEMMA AddedFits ==
    ASSUME NEW had \in SUBSET Topics, NEW list \in Seq(Topics), NEW limit \in Nat,
           Cardinality(had) <= limit
    PROVE  /\ Added(had, list, limit) \in SUBSET Topics
           /\ Cardinality(Added(had, list, limit)) <= limit
           /\ had \subseteq Added(had, list, limit)
  <1>1. IsFiniteSet(Topics)
    BY ApiAssumption
  <1> DEFINE Upto(i) == had \cup {list[j] : j \in 1..i}
             J == {j \in 1..Len(list) : Cardinality(Upto(j - 1)) < limit}
             k == Cardinality(J)
  <1>2. Added(had, list, limit) = had \cup {list[i] : i \in J}
    BY DEF Added
  <1>3. Len(list) \in Nat /\ \A i \in 1..Len(list) : list[i] \in Topics
    BY LenProperties, ElementOfSeq
  <1>4. ASSUME NEW i \in 0..Len(list)
        PROVE  Upto(i) \in SUBSET Topics /\ IsFiniteSet(Upto(i)) /\ Cardinality(Upto(i)) \in Nat
    <2>1. Upto(i) \in SUBSET Topics
      BY <1>3
    <2> HIDE DEF Upto
    <2> QED
      BY <1>1, <2>1, FS_Subset, FS_CardinalityType
  <1>5. ASSUME NEW i \in 0..Len(list), NEW j \in 0..i
        PROVE  Cardinality(Upto(j)) <= Cardinality(Upto(i))
    <2>1. Upto(j) \in SUBSET Upto(i)
      BY <1>3
    <2>2. IsFiniteSet(Upto(i))
      BY <1>4
    <2> HIDE DEF Upto
    <2> QED
      BY <2>1, <2>2, FS_Subset
  <1>6. /\ \A i : had \subseteq Upto(i)
        /\ \A i \in Nat \ {0} : Upto(i) = Upto(i - 1) \cup {list[i]}
    <2>1. ASSUME NEW i \in Nat \ {0} PROVE 1..i = (1..(i - 1)) \cup {i}
      OBVIOUS
    <2> QED
      BY <2>1
  <1>7. \A j : j \in J <=> j \in 1..Len(list) /\ Cardinality(Upto(j - 1)) < limit
    OBVIOUS
  <1>8. \A i : J = 1..i => Added(had, list, limit) = Upto(i)
    BY <1>2
  <1>9. \A i : 1..i = {} => Upto(i) = had
    OBVIOUS
  <1> HIDE DEF Upto, J
  <1>10. IsFiniteSet(J) /\ k \in Nat /\ J \in SUBSET (1..Len(list))
    <2>1. IsFiniteSet(1..Len(list))
      BY <1>3, FS_Interval
    <2>2. J \in SUBSET (1..Len(list))
      BY <1>7
    <2> QED
      BY <2>1, <2>2, FS_Subset, FS_CardinalityType
  <1> HIDE DEF k
  <1>11. ASSUME NEW j \in J PROVE j <= k
    <2>1. j \in 1..Len(list) /\ Cardinality(Upto(j - 1)) < limit
      BY <1>7
    <2>2. ASSUME NEW i \in 1..j PROVE i \in J
      <3>1. /\ i \in 1..Len(list) /\ j - 1 \in 0..Len(list) /\ i - 1 \in 0..(j - 1)
            /\ i - 1 \in 0..Len(list)
        BY <1>3, <2>1
      <3>2. Cardinality(Upto(i - 1)) <= Cardinality(Upto(j - 1))
        BY <1>5, <3>1
      <3>3. Cardinality(Upto(i - 1)) \in Nat /\ Cardinality(Upto(j - 1)) \in Nat
        BY <1>4, <3>1
      <3>4. Cardinality(Upto(i - 1)) < limit
        BY <2>1, <3>2, <3>3
      <3> QED
        BY <1>7, <3>1, <3>4
    <2>3. (1..j) \in SUBSET J
      BY <2>2
    <2>4. Cardinality(1..j) = j
      BY <2>1, FS_Interval
    <2>5. Cardinality(1..j) <= Cardinality(J)
      BY <1>10, <2>3, FS_Subset
    <2> QED
      BY <2>4, <2>5 DEF k
  <1>12. J = 1..k
    <2>1. J \in SUBSET (1..k)
      BY <1>3, <1>10, <1>11
    <2>2. IsFiniteSet(1..k) /\ Cardinality(1..k) = k
      BY <1>10, FS_Interval
    <2> QED
      BY <2>1, <2>2, FS_Subset DEF k
  <1>13. Added(had, list, limit) = Upto(k)
    BY <1>12, <1>8
  <1>14. CASE k = 0
    <2>1. Upto(k) = had
      BY <1>14, <1>9
    <2> QED
      BY <2>1, <1>13
  <1>15. CASE k # 0
    <2>1. k \in J /\ k \in Nat \ {0}
      BY <1>10, <1>12, <1>15
    <2>2. k \in 1..Len(list) /\ Cardinality(Upto(k - 1)) < limit
      BY <1>7, <2>1
    <2>3. k - 1 \in 0..Len(list) /\ k \in 0..Len(list)
      BY <1>3, <2>1, <2>2
    <2>4. Upto(k) = Upto(k - 1) \cup {list[k]} /\ had \subseteq Upto(k)
      BY <1>6, <2>1
    <2>5. /\ IsFiniteSet(Upto(k - 1)) /\ Cardinality(Upto(k - 1)) \in Nat
          /\ Upto(k) \in SUBSET Topics /\ Cardinality(Upto(k)) \in Nat
      BY <1>4, <2>3
    <2>6. Cardinality(Upto(k)) \in {Cardinality(Upto(k - 1)), Cardinality(Upto(k - 1)) + 1}
      BY <2>4, <2>5, FS_AddElement
    <2>7. Cardinality(Upto(k)) <= limit
      BY <2>2, <2>5, <2>6
    <2> QED
      BY <2>4, <2>5, <2>7, <1>13
  <1> QED
    BY <1>14, <1>15

-----------------------------------------------------------------------------
(* The addresses the rate limit remembers *)

\* No address is remembered twice, and no more of them than the limit
\* (HostBuckets.try_take).
LEMMA SeenKeeps ==
    ASSUME Recent, NEW h \in Hosts, recent' = Seen(h)
    PROVE  Recent'
  <1> USE RateAssumption
  <1>1. /\ recent \in Seq(Hosts) /\ Len(recent) \in Nat /\ Len(recent) <= BucketLimit
        /\ IsInjective(recent)
    BY ListFacts DEF Recent
  <1>2. CASE Remembered(h)
    <2> DEFINE p == Position(h)   rest == RemoveAt(recent, p)
    <2>1. p \in DOMAIN recent /\ recent[p] = h
      BY <1>2 DEF Remembered, Range, Position
    <2> HIDE DEF p
    <2>2. /\ rest \in Seq(Hosts) /\ Len(rest) = Len(recent) - 1 /\ IsInjective(rest)
          /\ h \notin Range(rest)
      BY <1>1, <2>1, Removed
    <2>3. recent' = Append(rest, h)
      BY <1>2 DEF Seen, p
    <2> HIDE DEF rest
    <2>4. recent' \in Seq(Hosts) /\ Len(recent') = Len(rest) + 1 /\ IsInjective(recent')
      BY <2>2, <2>3, Appended
    <2> QED
      BY <1>1, <2>2, <2>4 DEF Recent
  <1>3. CASE ~Remembered(h)
    <2> DEFINE new == Append(recent, h)
    <2>1. new \in Seq(Hosts) /\ Len(new) = Len(recent) + 1 /\ IsInjective(new)
      BY <1>1, <1>3, Appended DEF Remembered
    <2>2. recent' = IF Len(new) > BucketLimit THEN Tail(new) ELSE new
      BY <1>3 DEF Seen, SeenFirst
    <2> HIDE DEF new
    <2>3. CASE Len(new) > BucketLimit
      <3>1. new # <<>>
        BY <1>1, <2>1, EmptyList
      <3>2. Tail(new) \in Seq(Hosts) /\ Len(Tail(new)) = Len(new) - 1 /\ IsInjective(Tail(new))
        BY <2>1, <3>1, Shifted
      <3>3. Len(Tail(new)) <= BucketLimit
        BY <1>1, <2>1, <3>2
      <3> QED
        BY <2>2, <2>3, <3>2, <3>3 DEF Recent
    <2>4. CASE ~(Len(new) > BucketLimit)
      <3>1. Len(new) <= BucketLimit
        BY <1>1, <2>1, <2>4
      <3> QED
        BY <2>1, <2>2, <2>4, <3>1 DEF Recent
    <2> QED
      BY <2>3, <2>4
  <1> QED
    BY <1>2, <1>3

-----------------------------------------------------------------------------
(* The connections that are counted, and the index *)

\* A pair for each connection that an address is counted for.
LEMMA SlotPairs ==
    ASSUME NEW h, NEW n
    PROVE  <<h, n>> \in OpenSlots <=> h \in Hosts /\ n \in 1..open[h]
  BY DEF OpenSlots

\* What is open is a set of pairs.
LEMMA SlotIsPair ==
    ASSUME NEW p \in OpenSlots
    PROVE  \E h \in Hosts : \E n \in 1..open[h] : p = <<h, n>>
  BY DEF OpenSlots

\* Steps that leave the connections' phases and hosts alone keep the counts.
LEMMA CountedFrame ==
    ASSUME Counted, open' = open,
           \A s \in Sockets : socket'[s].host = socket[s].host
                               /\ (socket'[s].phase \in Active <=> socket[s].phase \in Active)
    PROVE  Counted'
  <1>1. \A h : HeldBy(h)' = HeldBy(h)
    BY DEF HeldBy
  <1>2. OpenSlots' = OpenSlots
    BY DEF OpenSlots
  <1> QED
    BY <1>1, <1>2 DEF Counted

\* The same for the index and the topics of what is open.
LEMMA IndexedFrame ==
    ASSUME Indexed, byTopic' = byTopic,
           \A s \in Sockets : socket'[s].topics = socket[s].topics
                               /\ (socket'[s].phase = "open" <=> socket[s].phase = "open")
    PROVE  Indexed'
  BY DEF Indexed, Subscribed

\* What an address holds is a set of connections, of at most all there are.
LEMMA HeldFinite ==
    ASSUME NEW h
    PROVE  /\ IsFiniteSet(HeldBy(h)) /\ Cardinality(HeldBy(h)) \in Nat
           /\ Cardinality(Sockets) \in Nat
  <1>1. HeldBy(h) \in SUBSET Sockets /\ IsFiniteSet(Sockets)
    BY ApiAssumption DEF HeldBy
  <1> QED
    BY <1>1, FS_Subset, FS_CardinalityType

\* A connection that is let in is counted once, and only when there is room for its
\* address and for one more in all.
LEMMA ConnectCounts ==
    ASSUME Handlers, Counted, NEW s \in Sockets, NEW h \in Hosts, Connect(s, h)
    PROVE  Counted'
  <1>1. /\ socket[s].phase = "none" /\ socket \in [Sockets -> SocketType]
        /\ socket'[s].phase = "accepting" /\ socket'[s].host = h
        /\ \A d \in Sockets \ {s} : socket'[d] = socket[d]
    BY DEF Connect, Handlers, NoSocket
  <1>2. HeldBy(h)' = HeldBy(h) \cup {s} /\ s \notin HeldBy(h)
    BY <1>1 DEF HeldBy, Active
  <1>3. \A g \in Hosts \ {h} : HeldBy(g)' = HeldBy(g)
    BY <1>1 DEF HeldBy, Active
  <1>4. /\ open \in [Hosts -> 0..Cardinality(Sockets)]
        /\ IsFiniteSet(OpenSlots) /\ Cardinality(OpenSlots) <= MaxSockets
    BY DEF Counted
  <1>5. CASE h \in Trusted
    <2>1. open' = open /\ OpenSlots' = OpenSlots
      BY <1>5 DEF Connect, OpenSlots
    <2> QED
      BY <1>3, <1>5, <2>1 DEF Counted
  <1>6. CASE h \notin Trusted
    <2>1. /\ open' = [open EXCEPT ![h] = @ + 1]
          /\ ~(open[h] >= PerHost) /\ ~(Cardinality(OpenSlots) >= MaxSockets)
      BY <1>6 DEF Connect, RefusedSocket, TotalOpen, OpenSlots
    <2>2. /\ open[h] \in Nat /\ open'[h] = open[h] + 1 /\ \A g \in Hosts \ {h} : open'[g] = open[g]
          /\ open[h] = Cardinality(HeldBy(h))
      BY <1>4, <1>6, <2>1 DEF Counted
    <2>3. Cardinality(HeldBy(h)') = Cardinality(HeldBy(h)) + 1
      BY <1>2, HeldFinite, FS_AddElement
    <2>4. Cardinality(HeldBy(h)') <= Cardinality(Sockets)
      <3>1. HeldBy(h)' \in SUBSET Sockets /\ IsFiniteSet(Sockets)
        BY ApiAssumption DEF HeldBy
      <3> QED
        BY <3>1, FS_Subset
    <2>5. open'[h] <= PerHost /\ open'[h] = Cardinality(HeldBy(h)')
      BY <2>1, <2>2, <2>3, ApiAssumption
    <2>6. open' \in [Hosts -> 0..Cardinality(Sockets)]
      <3>1. open[h] + 1 \in 0..Cardinality(Sockets)
        BY <2>2, <2>4, <2>5, HeldFinite
      <3> QED
        BY <1>4, <2>1, <3>1
    <2>7. OpenSlots' = OpenSlots \cup {<<h, open[h] + 1>>}
      <3>1. ASSUME NEW p \in OpenSlots' PROVE p \in OpenSlots \cup {<<h, open[h] + 1>>}
        <4>1. PICK g \in Hosts : \E n \in 1..open'[g] : p = <<g, n>>
          BY <3>1 DEF OpenSlots
        <4>2. PICK n \in 1..open'[g] : p = <<g, n>>
          BY <4>1
        <4>3. n \in 1..open[g] \/ (g = h /\ n = open[h] + 1)
          BY <2>2, <4>2
        <4> QED
          BY <4>2, <4>3, SlotPairs
      <3>2. ASSUME NEW p \in OpenSlots \cup {<<h, open[h] + 1>>} PROVE p \in OpenSlots'
        <4>1. ASSUME NEW g \in Hosts, NEW n \in 1..open'[g] PROVE <<g, n>> \in OpenSlots'
          BY DEF OpenSlots
        <4>2. CASE p \in OpenSlots
          <5>1. PICK g \in Hosts : \E n \in 1..open[g] : p = <<g, n>>
            BY <4>2, SlotIsPair
          <5>2. PICK n \in 1..open[g] : p = <<g, n>>
            BY <5>1
          <5>3. n \in 1..open'[g]
            BY <1>4, <2>2, <5>2
          <5> QED
            BY <4>1, <5>2, <5>3
        <4>3. CASE p = <<h, open[h] + 1>>
          <5>1. open[h] + 1 \in 1..open'[h]
            BY <2>2
          <5> QED
            BY <4>1, <4>3, <5>1
        <4> QED
          BY <3>2, <4>2, <4>3
      <3> QED
        BY <3>1, <3>2
    <2>8. IsFiniteSet(OpenSlots') /\ Cardinality(OpenSlots') <= MaxSockets
      <3>1. <<h, open[h] + 1>> \notin OpenSlots
        BY <2>2, SlotPairs
      <3>2. Cardinality(OpenSlots) \in Nat
        BY <1>4, FS_CardinalityType
      <3>3. IsFiniteSet(OpenSlots') /\ Cardinality(OpenSlots') = Cardinality(OpenSlots) + 1
        BY <1>4, <2>7, <3>1, FS_AddElement
      <3> QED
        BY <2>1, <3>2, <3>3, ApiAssumption
    <2>9. ASSUME NEW g \in Hosts \ {h}
          PROVE  IF g \in Trusted THEN open'[g] = 0
                 ELSE open'[g] = Cardinality(HeldBy(g)') /\ open'[g] <= PerHost
      BY <1>3, <2>2 DEF Counted
    <2> QED
      BY <1>6, <2>5, <2>6, <2>8, <2>9 DEF Counted
  <1> QED
    BY <1>5, <1>6

\* `finally` gives back what the connection held, once.
LEMMA FinallyCounts ==
    ASSUME Handlers, Counted, NEW s \in Sockets, socket[s].phase \in Active, Finally(s)
    PROVE  Counted'
  <1>0. PICK h \in Hosts : h = socket[s].host
    BY DEF Handlers, Handler
  <1>1. /\ socket \in [Sockets -> SocketType]
        /\ socket'[s].phase = "over" /\ \A d \in Sockets \ {s} : socket'[d] = socket[d]
    BY DEF Finally, Handlers, Handler, NoSocket
  <1>2. HeldBy(h)' = HeldBy(h) \ {s} /\ s \in HeldBy(h)
    BY <1>0, <1>1 DEF HeldBy, Active
  <1>3. \A g \in Hosts \ {h} : HeldBy(g)' = HeldBy(g)
    BY <1>0, <1>1 DEF HeldBy, Active
  <1>4. /\ open \in [Hosts -> 0..Cardinality(Sockets)]
        /\ IsFiniteSet(OpenSlots) /\ Cardinality(OpenSlots) <= MaxSockets
    BY DEF Counted
  <1>5. CASE h \in Trusted
    <2>1. open' = open /\ OpenSlots' = OpenSlots
      BY <1>0, <1>5 DEF Finally, Releases, OpenSlots
    <2> QED
      BY <1>3, <1>5, <2>1 DEF Counted
  <1>6. CASE h \notin Trusted
    <2>1. open' = [open EXCEPT ![h] = @ - 1]
      BY <1>0, <1>6 DEF Finally, Releases
    <2>2. /\ open[h] \in Nat /\ open'[h] = open[h] - 1 /\ \A g \in Hosts \ {h} : open'[g] = open[g]
          /\ open[h] = Cardinality(HeldBy(h)) /\ open[h] <= PerHost
      BY <1>1, <1>4, <1>6, <2>1 DEF Counted
    <2>3. /\ Cardinality(HeldBy(h)') = Cardinality(HeldBy(h)) - 1 /\ IsFiniteSet(HeldBy(h)')
      BY <1>2, HeldFinite, FS_RemoveElement
    <2>4. Cardinality(HeldBy(h)') \in Nat
      BY <2>3, FS_CardinalityType
    <2>5. open'[h] \in Nat /\ open'[h] <= PerHost /\ open'[h] = Cardinality(HeldBy(h)')
      BY <2>2, <2>3, <2>4, ApiAssumption
    <2>6. open' \in [Hosts -> 0..Cardinality(Sockets)]
      <3>1. open[h] - 1 \in 0..Cardinality(Sockets)
        BY <1>1, <1>4, <2>2, <2>5, HeldFinite
      <3> QED
        BY <1>4, <2>1, <3>1
    <2>7. OpenSlots' = OpenSlots \ {<<h, open[h]>>}
      <3>1. ASSUME NEW p \in OpenSlots' PROVE p \in OpenSlots \ {<<h, open[h]>>}
        <4>1. PICK g \in Hosts : \E n \in 1..open'[g] : p = <<g, n>>
          BY <3>1 DEF OpenSlots
        <4>2. PICK n \in 1..open'[g] : p = <<g, n>>
          BY <4>1
        <4>3. n \in 1..open[g] /\ ~(g = h /\ n = open[h])
          BY <1>4, <2>2, <2>5, <4>2
        <4> QED
          BY <4>2, <4>3, SlotPairs
      <3>2. ASSUME NEW p \in OpenSlots \ {<<h, open[h]>>} PROVE p \in OpenSlots'
        <4>1. ASSUME NEW g \in Hosts, NEW n \in 1..open'[g] PROVE <<g, n>> \in OpenSlots'
          BY DEF OpenSlots
        <4>2. PICK g \in Hosts : \E n \in 1..open[g] : p = <<g, n>>
          BY <3>2, SlotIsPair
        <4>3. PICK n \in 1..open[g] : p = <<g, n>>
          BY <4>2
        <4>4. n \in 1..open'[g]
          BY <1>4, <2>2, <3>2, <4>3
        <4> QED
          BY <4>1, <4>3, <4>4
      <3> QED
        BY <3>1, <3>2
    <2>8. IsFiniteSet(OpenSlots') /\ Cardinality(OpenSlots') <= MaxSockets
      <3>1. <<h, open[h]>> \in OpenSlots
        BY <1>1, <2>2, <2>5, SlotPairs
      <3>2. Cardinality(OpenSlots) \in Nat
        BY <1>4, FS_CardinalityType
      <3>3. IsFiniteSet(OpenSlots') /\ Cardinality(OpenSlots') = Cardinality(OpenSlots) - 1
        BY <1>4, <2>7, <3>1, FS_RemoveElement
      <3> QED
        BY <1>4, <3>2, <3>3, ApiAssumption
    <2>9. ASSUME NEW g \in Hosts \ {h}
          PROVE  IF g \in Trusted THEN open'[g] = 0
                 ELSE open'[g] = Cardinality(HeldBy(g)') /\ open'[g] <= PerHost
      BY <1>3, <2>2 DEF Counted
    <2> QED
      BY <1>6, <2>5, <2>6, <2>8, <2>9 DEF Counted
  <1> QED
    BY <1>5, <1>6

-----------------------------------------------------------------------------
(* Every step keeps what connections hold *)

Held == Handlers /\ Counted /\ Indexed

\* A handler's state replaced by another one a handler can be in.
LEMMA OneHandler ==
    ASSUME Handlers, NEW s \in Sockets, NEW r, Handler(r), socket' = [socket EXCEPT ![s] = r]
    PROVE  Handlers' /\ socket'[s] = r /\ \A d \in Sockets \ {s} : socket'[d] = socket[d]
  <1>1. r \in SocketType /\ socket \in [Sockets -> SocketType]
    BY DEF Handlers, Handler
  <1>2. /\ socket' \in [Sockets -> SocketType] /\ socket'[s] = r
        /\ \A d \in Sockets \ {s} : socket'[d] = socket[d]
    BY <1>1
  <1>3. \A d \in Sockets : Handler(socket'[d])
    BY <1>2 DEF Handlers
  <1>4. Handlers' <=> socket' \in [Sockets -> SocketType] /\ \A d \in Sockets : Handler(socket'[d])
    BY DEF Handlers, Handler, SocketType, Stream, InOrder, Base, Active
  <1> QED
    BY <1>2, <1>3, <1>4

\* One that keeps its phase, its host and its topics leaves counts and index exact.
LEMMA SameShape ==
    ASSUME Held, NEW s \in Sockets, NEW r, Handler(r), socket' = [socket EXCEPT ![s] = r],
           r.phase = socket[s].phase, r.host = socket[s].host, r.topics = socket[s].topics,
           open' = open, byTopic' = byTopic
    PROVE  Held'
  <1>1. Handlers' /\ socket'[s] = r /\ \A d \in Sockets \ {s} : socket'[d] = socket[d]
    BY OneHandler DEF Held
  <1>2. \A d \in Sockets : /\ socket'[d].phase = socket[d].phase /\ socket'[d].host = socket[d].host
                            /\ socket'[d].topics = socket[d].topics
    BY <1>1
  <1>3. Counted'
    BY <1>2, CountedFrame DEF Held
  <1>4. Indexed'
    BY <1>2, IndexedFrame DEF Held
  <1> QED
    BY <1>1, <1>3, <1>4 DEF Held

\* Steps that concern no connection.
LEMMA HeldFrame ==
    ASSUME Held, socket' = socket, open' = open, byTopic' = byTopic
    PROVE  Held'
  <1>1. Handlers'
    BY DEF Held, Handlers, Handler, SocketType, Stream, InOrder, Base, Active
  <1>2. Counted' /\ Indexed'
    BY CountedFrame, IndexedFrame DEF Held
  <1> QED
    BY <1>1, <1>2 DEF Held

\* What a handler that holds nothing looks like.
LEMMA IdleHandler ==
    ASSUME NEW r \in SocketType, r.phase \notin Active, r.topics = {}, r.queue = <<>>,
           r.overflowed = FALSE, r.writer = "get", r.sent = 0, r.count = 0
    PROVE  Handler(r)
  <1>1. Len(r.queue) = 0
    BY EmptySeq
  <1>2. Base(r) = 0
    BY DEF Base
  <1>3. InOrder(r)
    BY <1>1 DEF InOrder
  <1>4. Stream(r)
    BY <1>1, <1>2, <1>3 DEF Stream
  <1>5. Cardinality({}) <= MaxTopics
    BY FS_EmptySet, ApiAssumption
  <1> QED
    BY <1>4, <1>5 DEF Handler

\* Nothing is held before the connection is there, and after it is over.
LEMMA NoneAndOver ==
    LET over == [NoSocket EXCEPT !.phase = "over"]
    IN  /\ Handler(NoSocket) /\ NoSocket.phase \notin Active /\ NoSocket.topics = {}
        /\ Handler(over) /\ over.phase \notin Active /\ over.topics = {}
  <1> DEFINE over == [NoSocket EXCEPT !.phase = "over"]
  <1>1. 0 \in 0..MaxMessages /\ <<>> \in Seq(1..MaxMessages)
    BY ApiAssumption, EmptySeq
  <1>2. NoSocket \in SocketType
    BY <1>1 DEF NoSocket, SocketType
  <1>3. over \in SocketType
    BY <1>2 DEF SocketType
  <1>4. /\ NoSocket.phase \notin Active /\ NoSocket.topics = {} /\ NoSocket.queue = <<>>
        /\ NoSocket.overflowed = FALSE /\ NoSocket.writer = "get" /\ NoSocket.sent = 0
        /\ NoSocket.count = 0
    BY DEF NoSocket, Active
  <1>5. /\ over.phase \notin Active /\ over.topics = {} /\ over.queue = <<>>
        /\ over.overflowed = FALSE /\ over.writer = "get" /\ over.sent = 0 /\ over.count = 0
    BY DEF NoSocket, Active
  <1> HIDE DEF over
  <1>6. Handler(NoSocket)
    BY <1>2, <1>4, IdleHandler
  <1>7. Handler(over)
    BY <1>3, <1>5, IdleHandler
  <1> QED
    BY <1>4, <1>5, <1>6, <1>7 DEF over

\* The ways out of the handler.
LEMMA FinallyHeld ==
    ASSUME Held, NEW s \in Sockets, socket[s].phase \in Active, Finally(s)
    PROVE  Held'
  <1> DEFINE r == [NoSocket EXCEPT !.phase = "over"]
  <1>1. Handler(r) /\ r.phase \notin Active /\ r.topics = {}
    BY NoneAndOver
  <1>2. socket' = [socket EXCEPT ![s] = r]
    BY DEF Finally
  <1> HIDE DEF r
  <1>3. Handlers' /\ socket'[s] = r /\ \A d \in Sockets \ {s} : socket'[d] = socket[d]
    BY <1>1, <1>2, OneHandler DEF Held
  <1>4. Counted'
    BY FinallyCounts DEF Held
  <1>5. Indexed'
    <2>1. \A t : Subscribed(t)' = Subscribed(t) \ {s}
      BY <1>1, <1>3 DEF Subscribed, Active
    <2>2. byTopic' = [t \in Topics |-> byTopic[t] \ {s}]
      BY DEF Finally, Unsubscribes
    <2> QED
      BY <2>1, <2>2 DEF Held, Indexed
  <1> QED
    BY <1>3, <1>4, <1>5 DEF Held

\* A new connection: its slot is taken before accept() is awaited.
LEMMA ConnectHeld ==
    ASSUME Held, NEW s \in Sockets, NEW h \in Hosts, Connect(s, h)
    PROVE  Held'
  <1> DEFINE r == [NoSocket EXCEPT !.phase = "accepting", !.host = h]
  <1>1. Handler(NoSocket)
    BY NoneAndOver
  <1>2. /\ r.phase = "accepting" /\ r.host = h /\ r.topics = {} /\ r \in SocketType
        /\ r.queue = NoSocket.queue /\ r.overflowed = NoSocket.overflowed
        /\ r.writer = NoSocket.writer /\ r.sending = NoSocket.sending
        /\ r.sent = NoSocket.sent /\ r.count = NoSocket.count /\ NoSocket.topics = {}
    <2>1. NoSocket \in SocketType
      BY <1>1 DEF Handler
    <2> QED
      BY <2>1 DEF NoSocket, SocketType
  <1>3. socket' = [socket EXCEPT ![s] = r] /\ byTopic' = byTopic /\ socket[s].phase = "none"
    BY DEF Connect
  <1> HIDE DEF r
  <1>4. Handler(r)
    <2>1. Stream(r)
      BY <1>1, <1>2 DEF Handler, Stream, Base, InOrder
    <2>2. Cardinality({}) <= MaxTopics
      BY FS_EmptySet, ApiAssumption
    <2> QED
      BY <1>2, <2>1, <2>2 DEF Handler
  <1>5. Handlers' /\ socket'[s] = r /\ \A d \in Sockets \ {s} : socket'[d] = socket[d]
    BY <1>3, <1>4, OneHandler DEF Held
  <1>6. Counted'
    BY ConnectCounts DEF Held
  <1>7. Indexed'
    <2>1. \A t : Subscribed(t)' = Subscribed(t)
      BY <1>2, <1>3, <1>5 DEF Subscribed
    <2> QED
      BY <1>3, <2>1 DEF Held, Indexed
  <1> QED
    BY <1>5, <1>6, <1>7 DEF Held

\* accept() returns.
LEMMA AcceptedHeld ==
    ASSUME Held, NEW s \in Sockets, Accepted(s)
    PROVE  Held'
  <1> DEFINE r == [socket[s] EXCEPT !.phase = "open"]
  <1>1. Handler(socket[s]) /\ socket[s].phase = "accepting" /\ socket[s] \in SocketType
    BY DEF Held, Handlers, Handler, Accepted
  <1>2. /\ r.phase = "open" /\ r \in SocketType /\ r.host = socket[s].host
        /\ r.topics = socket[s].topics /\ r.queue = socket[s].queue
        /\ r.overflowed = socket[s].overflowed /\ r.writer = socket[s].writer
        /\ r.sending = socket[s].sending /\ r.sent = socket[s].sent /\ r.count = socket[s].count
    BY <1>1 DEF SocketType
  <1>3. socket' = [socket EXCEPT ![s] = r] /\ open' = open /\ byTopic' = byTopic
    BY DEF Accepted
  <1>4. socket[s].topics = {} /\ socket[s].host \in Hosts
    BY <1>1 DEF Handler, Active
  <1> HIDE DEF r
  <1>5. Handler(r)
    <2>1. Stream(r)
      BY <1>1, <1>2 DEF Handler, Stream, Base, InOrder
    <2> QED
      BY <1>1, <1>2, <1>4, <2>1 DEF Handler
  <1>6. Handlers' /\ socket'[s] = r /\ \A d \in Sockets \ {s} : socket'[d] = socket[d]
    BY <1>3, <1>5, OneHandler DEF Held
  <1>7. Counted'
    <2>1. \A d \in Sockets : socket'[d].host = socket[d].host
                             /\ (socket'[d].phase \in Active <=> socket[d].phase \in Active)
      BY <1>1, <1>2, <1>6 DEF Active
    <2> QED
      BY <1>3, <2>1, CountedFrame DEF Held
  <1>8. Indexed'
    <2>1. \A t : Subscribed(t)' = Subscribed(t)
      BY <1>1, <1>2, <1>4, <1>6 DEF Subscribed
    <2> QED
      BY <1>3, <2>1 DEF Held, Indexed
  <1> QED
    BY <1>6, <1>7, <1>8 DEF Held

\* The handler's own state with a field that no limit speaks of changed.
LEMMA SameStream ==
    ASSUME NEW r, Handler(r), NEW x \in SocketType,
           x.queue = r.queue, x.overflowed = r.overflowed, x.writer = r.writer,
           x.sending = r.sending, x.sent = r.sent, x.count = r.count
    PROVE  Stream(x)
  BY DEF Handler, Stream, Base, InOrder

\* publish reaches every subscriber of the topic, and no other connection.
LEMMA PublishHeld ==
    ASSUME Held, NEW t \in Topics, Publish(t)
    PROVE  Held'
  <1>1. /\ socket' = [s \in Sockets |-> IF s \in byTopic[t] THEN Delivered(socket[s]) ELSE socket[s]]
        /\ \A s \in byTopic[t] : socket[s].count < MaxMessages
        /\ open' = open /\ byTopic' = byTopic
    BY DEF Publish, RoomFor
  <1>2. ASSUME NEW s \in Sockets
        PROVE  /\ Handler(socket'[s]) /\ socket'[s].phase = socket[s].phase
               /\ socket'[s].host = socket[s].host /\ socket'[s].topics = socket[s].topics
    <2>1. Handler(socket[s])
      BY DEF Held, Handlers
    <2>2. CASE s \in byTopic[t]
      <3>1. socket'[s] = Delivered(socket[s]) /\ socket[s].count < MaxMessages
        BY <1>1, <2>2
      <3> QED
        BY <2>1, <3>1, DeliveredKeeps
    <2>3. CASE s \notin byTopic[t]
      <3>1. socket'[s] = socket[s]
        BY <1>1, <2>3
      <3> QED
        BY <2>1, <3>1
    <2> QED
      BY <2>2, <2>3
  <1>3. Handlers'
    <2>1. socket' \in [Sockets -> SocketType]
      <3>1. \A s \in Sockets : socket'[s] \in SocketType
        BY <1>2 DEF Handler
      <3>2. socket' = [s \in Sockets |-> socket'[s]]
        BY <1>1
      <3> QED
        BY <3>1, <3>2
    <2>2. Handlers' <=> socket' \in [Sockets -> SocketType] /\ \A d \in Sockets : Handler(socket'[d])
      BY DEF Handlers, Handler, SocketType, Stream, InOrder, Base, Active
    <2> QED
      BY <1>2, <2>1, <2>2
  <1>4. Counted'
    BY <1>1, <1>2, CountedFrame DEF Held
  <1>5. Indexed'
    BY <1>1, <1>2, IndexedFrame DEF Held
  <1> QED
    BY <1>3, <1>4, <1>5 DEF Held

\* The reader's topics: what was taken is indexed, and no more is taken than the
\* client may have.
LEMMA ReadTopicsHeld ==
    ASSUME Held, NEW s \in Sockets, NEW list \in TopicLists, ReadTopics(s, list)
    PROVE  Held'
  <1> DEFINE r == socket[s]
             limit == IF r.host \in Trusted THEN Cardinality(Topics) ELSE MaxTopics
             topics == Added(r.topics, list, limit)
  <1>1. /\ Handler(r) /\ r.phase = "open" /\ r \in SocketType /\ r.count < MaxMessages
        /\ r.topics \in SUBSET Topics /\ open' = open
    BY DEF Held, Handlers, Handler, SocketType, ReadTopics, RoomFor
  <1>2. topics \in SUBSET Topics /\ Cardinality(topics) <= limit /\ r.topics \subseteq topics
    <2>1. list \in Seq(Topics) /\ limit \in Nat /\ IsFiniteSet(Topics)
      BY ApiAssumption, FS_CardinalityType
    <2>2. Cardinality(r.topics) <= limit
      <3>1. CASE r.host \in Trusted
        BY <1>1, <2>1, <3>1, FS_Subset
      <3>2. CASE r.host \notin Trusted
        BY <1>1, <3>2 DEF Handler
      <3> QED
        BY <3>1, <3>2
    <2> HIDE DEF limit
    <2> QED
      BY <1>1, <2>1, <2>2, AddedFits
  <1>3. CASE /\ socket' = [socket EXCEPT ![s] = Delivered([@ EXCEPT !.topics = topics])]
             /\ byTopic' = [t \in Topics |-> IF t \in topics THEN byTopic[t] \cup {s} ELSE byTopic[t]]
    <2> DEFINE x == [r EXCEPT !.topics = topics]
    <2>1. r.host \notin Trusted => Cardinality(topics) <= MaxTopics
      BY <1>2
    <2>2. socket' = [socket EXCEPT ![s] = Delivered(x)]
      BY <1>3
    <2> HIDE DEF topics
    <2>3. /\ x \in SocketType /\ x.phase = r.phase /\ x.host = r.host /\ x.topics = topics
          /\ x.queue = r.queue /\ x.overflowed = r.overflowed /\ x.writer = r.writer
          /\ x.sending = r.sending /\ x.sent = r.sent /\ x.count = r.count
      BY <1>1, <1>2 DEF SocketType
    <2> HIDE DEF x
    <2>4. Handler(x)
      <3>1. Stream(x)
        BY <1>1, <2>3, SameStream
      <3> QED
        BY <1>1, <2>1, <2>3, <3>1 DEF Handler
    <2> DEFINE y == Delivered(x)
    <2>5. Handler(y) /\ y.phase = r.phase /\ y.host = r.host /\ y.topics = topics
      BY <1>1, <2>3, <2>4, DeliveredKeeps
    <2> HIDE DEF y
    <2>6. Handlers' /\ socket'[s] = y /\ \A d \in Sockets \ {s} : socket'[d] = socket[d]
      BY <2>2, <2>5, OneHandler DEF Held, y
    <2>7. Counted'
      <3>1. \A d \in Sockets : socket'[d].host = socket[d].host
                               /\ (socket'[d].phase \in Active <=> socket[d].phase \in Active)
        BY <2>5, <2>6
      <3> QED
        BY <1>1, <3>1, CountedFrame DEF Held
    <2>8. Indexed'
      <3>1. ASSUME NEW t \in Topics
            PROVE  Subscribed(t)' = IF t \in topics THEN Subscribed(t) \cup {s} ELSE Subscribed(t)
        BY <1>1, <1>2, <2>5, <2>6 DEF Subscribed
      <3>2. \A t \in Topics : byTopic[t] = Subscribed(t)
        BY DEF Held, Indexed
      <3>3. byTopic' = [t \in Topics |-> Subscribed(t)']
        BY <1>3, <3>1, <3>2 DEF topics
      <3> QED
        BY <3>3 DEF Indexed
    <2> QED
      BY <2>6, <2>7, <2>8 DEF Held
  <1>4. CASE /\ socket' = [socket EXCEPT ![s] = Delivered([@ EXCEPT !.slept = TRUE])]
             /\ byTopic' = byTopic
    <2> DEFINE x == [r EXCEPT !.slept = TRUE]
    <2>1. socket' = [socket EXCEPT ![s] = Delivered(x)]
      BY <1>4
    <2>2. /\ x \in SocketType /\ x.phase = r.phase /\ x.host = r.host /\ x.topics = r.topics
          /\ x.queue = r.queue /\ x.overflowed = r.overflowed /\ x.writer = r.writer
          /\ x.sending = r.sending /\ x.sent = r.sent /\ x.count = r.count
      BY <1>1 DEF SocketType
    <2> HIDE DEF x
    <2>3. Handler(x)
      <3>1. Stream(x)
        BY <1>1, <2>2, SameStream
      <3> QED
        BY <1>1, <2>2, <3>1 DEF Handler
    <2> DEFINE y == Delivered(x)
    <2>4. Handler(y) /\ y.phase = r.phase /\ y.host = r.host /\ y.topics = r.topics
      BY <1>1, <2>2, <2>3, DeliveredKeeps
    <2> HIDE DEF y
    <2>5. socket' = [socket EXCEPT ![s] = y]
      BY <2>1 DEF y
    <2> QED
      BY <1>1, <1>4, <2>4, <2>5, SameShape
  <1> QED
    BY <1>3, <1>4 DEF ReadTopics

\* The reader's errors and its pauses, and what the writer sends.
LEMMA ReaderWriterHeld ==
    ASSUME Held, NEW s \in Sockets, ReadBad(s) \/ Wakes(s) \/ WriterGets(s) \/ Sent(s)
    PROVE  Held'
  <1> DEFINE r == socket[s]
  <1>1. Handler(r) /\ r \in SocketType /\ Stream(r)
    BY DEF Held, Handlers, Handler
  <1>2. CASE ReadBad(s)
    <2>1. /\ socket' = [socket EXCEPT ![s] = Delivered(r)] /\ r.count < MaxMessages
          /\ open' = open /\ byTopic' = byTopic
      BY <1>2 DEF ReadBad, RoomFor
    <2> QED
      BY <1>1, <2>1, DeliveredKeeps, SameShape
  <1>3. CASE Wakes(s)
    <2> DEFINE x == [r EXCEPT !.slept = FALSE]
    <2>1. socket' = [socket EXCEPT ![s] = x] /\ open' = open /\ byTopic' = byTopic
      BY <1>3 DEF Wakes
    <2>2. /\ x \in SocketType /\ x.phase = r.phase /\ x.host = r.host /\ x.topics = r.topics
          /\ x.queue = r.queue /\ x.overflowed = r.overflowed /\ x.writer = r.writer
          /\ x.sending = r.sending /\ x.sent = r.sent /\ x.count = r.count
      BY <1>1 DEF SocketType
    <2> HIDE DEF x
    <2>3. Handler(x)
      <3>1. Stream(x)
        BY <1>1, <2>2, SameStream
      <3> QED
        BY <1>1, <2>2, <3>1 DEF Handler
    <2> QED
      BY <2>1, <2>2, <2>3, SameShape
  <1>4. CASE WriterGets(s)
    <2>1. /\ socket' = [socket EXCEPT ![s] = Sending(r)] /\ r.writer = "get" /\ r.queue # <<>>
          /\ open' = open /\ byTopic' = byTopic
      BY <1>4 DEF WriterGets
    <2>2. Base(r) = r.sent /\ InOrder(r) /\ (~r.overflowed => r.count = Base(r) + Len(r.queue))
      <3>1. r.overflowed \in BOOLEAN
        BY <1>1 DEF SocketType
      <3> QED
        BY <1>1, <2>1, <3>1 DEF Base, Stream
    <2>3. /\ Handler(Sending(r)) /\ Sending(r).phase = r.phase /\ Sending(r).host = r.host
          /\ Sending(r).topics = r.topics
      BY <1>1, <2>1, <2>2, SendingKeeps
    <2> QED
      BY <2>1, <2>3, SameShape
  <1>5. CASE Sent(s)
    <2> DEFINE x == [r EXCEPT !.sent = r.sending]
               y == [x EXCEPT !.writer = "get"]
    <2>1. r.phase = "open" /\ r.writer = "send" /\ x.overflowed = r.overflowed
      BY <1>1, <1>5 DEF Sent, SocketType
    <2>2. CASE r.overflowed
      <3>1. Finally(s)
        BY <1>5, <2>1, <2>2 DEF Sent, KeepsUp
      <3> QED
        BY <2>1, <3>1, FinallyHeld DEF Active
    <2>3. CASE ~r.overflowed
      <3>1. /\ socket' = [socket EXCEPT ![s] = IF x.queue = <<>> THEN y ELSE Sending(x)]
            /\ open' = open /\ byTopic' = byTopic
        BY <1>5, <2>1, <2>3 DEF Sent, KeepsUp
      <3>2. /\ y \in SocketType /\ y.phase = r.phase /\ y.host = r.host /\ y.topics = r.topics
            /\ y.queue = r.queue /\ y.overflowed = r.overflowed /\ y.writer = "get"
            /\ y.sent = r.sending /\ y.count = r.count
        BY <1>1 DEF SocketType
      <3>3. Sending(x) = Sending(y) /\ x.queue = r.queue
        BY <1>1 DEF Sending, SocketType
      <3>4. Base(r) = r.sending /\ r.count = Base(r) + Len(r.queue) /\ InOrder(r)
        BY <1>1, <2>1, <2>3 DEF Base, Stream
      <3> HIDE DEF x, y
      <3>5. Base(y) = y.sent /\ y.count = Base(y) + Len(y.queue) /\ InOrder(y)
        BY <3>2, <3>4 DEF Base, InOrder
      <3>6. Handler(y)
        <4>1. Stream(y)
          BY <2>3, <3>2, <3>5 DEF Stream
        <4> QED
          BY <1>1, <3>2, <4>1 DEF Handler
      <3>7. CASE r.queue = <<>>
        <4>1. socket' = [socket EXCEPT ![s] = y]
          BY <3>1, <3>3, <3>7
        <4> QED
          BY <3>1, <3>2, <3>6, <4>1, SameShape
      <3>8. CASE r.queue # <<>>
        <4>1. socket' = [socket EXCEPT ![s] = Sending(y)]
          BY <3>1, <3>3, <3>8
        <4>2. /\ Handler(Sending(y)) /\ Sending(y).phase = y.phase /\ Sending(y).host = y.host
              /\ Sending(y).topics = y.topics
          BY <3>2, <3>5, <3>6, <3>8, SendingKeeps
        <4> QED
          BY <3>1, <3>2, <4>1, <4>2, SameShape
      <3> QED
        BY <3>7, <3>8
    <2> QED
      BY <2>2, <2>3
  <1> QED
    BY <1>2, <1>3, <1>4, <1>5

\* The order of the keys is the order in which their buckets were last filled.
Ordered ==
    \A i, j \in 1..Len(recent) : i < j => bucket[recent[i]].updated <= bucket[recent[j]].updated

\* After h was seen the other keys are some of those before, in the same order, and h
\* is the last; a key is gone only when it was the first.
LEMMA SeenOrder ==
    ASSUME Recent, NEW h \in Hosts, recent' = Seen(h)
    PROVE  /\ Len(recent') \in Nat /\ Len(recent') >= 1 /\ recent'[Len(recent')] = h
           /\ \E f \in [1..(Len(recent') - 1) -> 1..Len(recent)] :
                 \A i \in 1..(Len(recent') - 1) :
                    /\ recent'[i] = recent[f[i]] /\ recent'[i] # h
                    /\ \A j \in 1..(Len(recent') - 1) : i < j => f[i] < f[j]
           /\ \A g \in Range(recent) \ Range(recent') : g = recent[1] /\ 1 \in 1..Len(recent)
  <1> USE RateAssumption
  <1>1. /\ recent \in Seq(Hosts) /\ Len(recent) \in Nat /\ DOMAIN recent = 1..Len(recent)
        /\ \A i, j \in 1..Len(recent) : recent[i] = recent[j] => i = j
        /\ \A i \in 1..Len(recent) : recent[i] \in Range(recent)
        /\ \A x \in Range(recent) : \E i \in 1..Len(recent) : recent[i] = x
    BY ListFacts DEF Recent, IsInjective
  <1>2. CASE Remembered(h)
    <2> DEFINE n == Len(recent)   p == Position(h)   rest == RemoveAt(recent, p)
    <2>1. p \in 1..n /\ recent[p] = h
      BY <1>1, <1>2 DEF Remembered, Range, Position
    <2> HIDE DEF p
    <2>2. /\ rest \in Seq(Hosts) /\ Len(rest) = n - 1
          /\ \A i \in 1..(n - 1) : rest[i] = IF i < p THEN recent[i] ELSE recent[i + 1]
      BY <1>1, <2>1, RemovedAt
    <2>3. recent' = Append(rest, h)
      BY <1>2 DEF Seen, p
    <2> HIDE DEF rest
    <2>4. /\ recent' \in Seq(Hosts) /\ Len(recent') = n /\ recent'[n] = h
          /\ \A i \in 1..(n - 1) : recent'[i] = rest[i]
      <3>1. /\ recent' \in Seq(Hosts) /\ Len(recent') = Len(rest) + 1
            /\ recent'[Len(rest) + 1] = h /\ \A i \in 1..Len(rest) : recent'[i] = rest[i]
        BY <2>2, <2>3, AppendProperties
      <3>2. Len(rest) = n - 1 /\ Len(rest) + 1 = n
        BY <1>1, <2>2
      <3> QED
        BY <3>1, <3>2
    <2> DEFINE f == [i \in 1..(n - 1) |-> IF i < p THEN i ELSE i + 1]
    <2>5. f \in [1..(n - 1) -> 1..n]
      BY <1>1, <2>1
    <2>6. ASSUME NEW i \in 1..(n - 1)
          PROVE  /\ recent'[i] = recent[f[i]] /\ recent'[i] # h
                 /\ \A j \in 1..(n - 1) : i < j => f[i] < f[j]
      <3>1. f[i] = (IF i < p THEN i ELSE i + 1) /\ f[i] \in 1..n /\ f[i] # p
        BY <1>1, <2>1
      <3>2. recent'[i] = recent[f[i]]
        BY <2>2, <2>4, <3>1
      <3>3. recent'[i] # h
        BY <1>1, <2>1, <3>1, <3>2
      <3>4. \A j \in 1..(n - 1) : i < j => f[i] < f[j]
        BY <1>1, <2>1
      <3> QED
        BY <3>2, <3>3, <3>4
    <2>7. Range(recent) \subseteq Range(recent')
      <3> SUFFICES ASSUME NEW q \in 1..n PROVE recent[q] \in Range(recent')
        BY <1>1
      <3>1. \A i \in 1..n : recent'[i] \in Range(recent')
        BY <2>4, ListFacts
      <3>2. CASE q < p
        <4>1. q \in 1..(n - 1) /\ q \in 1..n
          BY <1>1, <2>1, <3>2
        <4>2. recent'[q] = recent[q]
          BY <2>2, <2>4, <3>2, <4>1
        <4> QED
          BY <3>1, <4>1, <4>2
      <3>3. CASE q = p
        BY <1>1, <2>1, <2>4, <3>1, <3>3
      <3>4. CASE q > p
        <4>1. q - 1 \in 1..(n - 1) /\ ~(q - 1 < p) /\ (q - 1) + 1 = q
          BY <1>1, <2>1, <3>4
        <4>2. recent'[q - 1] = recent[q]
          BY <2>2, <2>4, <4>1
        <4> QED
          BY <1>1, <3>1, <4>1, <4>2
      <3> QED
        BY <1>1, <2>1, <3>2, <3>3, <3>4
    <2>8. Len(recent') \in Nat /\ Len(recent') >= 1
      BY <1>1, <2>1, <2>4
    <2> HIDE DEF f
    <2> QED
      BY <2>4, <2>5, <2>6, <2>7, <2>8
  <1>3. CASE ~Remembered(h)
    <2> DEFINE n == Len(recent)   new == Append(recent, h)
    <2>1. /\ new \in Seq(Hosts) /\ Len(new) = n + 1 /\ new[n + 1] = h
          /\ \A i \in 1..n : new[i] = recent[i]
      BY <1>1, AppendProperties
    <2>2. recent' = IF Len(new) > BucketLimit THEN Tail(new) ELSE new
      BY <1>3 DEF Seen, SeenFirst
    <2>3. \A i \in 1..n : recent[i] # h
      BY <1>1, <1>3 DEF Remembered
    <2> HIDE DEF new
    <2>4. CASE ~(Len(new) > BucketLimit)
      <3> DEFINE f == [i \in 1..n |-> i]
      <3>1. recent' = new /\ Len(recent') - 1 = n
        BY <1>1, <2>1, <2>2, <2>4
      <3>2. f \in [1..n -> 1..n] /\ \A i \in 1..n : f[i] = i
        OBVIOUS
      <3>3. Range(recent) \subseteq Range(recent')
        BY <1>1, <2>1, <3>1, ListFacts
      <3> HIDE DEF f
      <3>4. \A i \in 1..n : /\ recent'[i] = recent[f[i]] /\ recent'[i] # h
                            /\ \A j \in 1..n : i < j => f[i] < f[j]
        BY <2>1, <2>3, <3>1, <3>2
      <3> QED
        BY <1>1, <2>1, <3>1, <3>2, <3>3, <3>4
    <2>5. CASE Len(new) > BucketLimit
      <3> DEFINE f == [i \in 1..(n - 1) |-> i + 1]
      <3>1. n >= 1
        BY <1>1, <2>1, <2>5
      <3>2. new # <<>>
        BY <1>1, <2>1, EmptyList
      <3>3. /\ recent' \in Seq(Hosts) /\ Len(recent') = n
            /\ \A i \in 1..n : recent'[i] = new[i + 1]
        BY <1>1, <2>1, <2>2, <2>5, <3>2, HeadTailProperties
      <3>4. f \in [1..(n - 1) -> 1..n] /\ \A i \in 1..(n - 1) : f[i] = i + 1
        BY <1>1
      <3> HIDE DEF f
      <3>5. \A i \in 1..(n - 1) : /\ recent'[i] = recent[f[i]] /\ recent'[i] # h
                                  /\ \A j \in 1..(n - 1) : i < j => f[i] < f[j]
        <4> SUFFICES ASSUME NEW i \in 1..(n - 1)
                     PROVE  /\ recent'[i] = recent[f[i]] /\ recent'[i] # h
                            /\ \A j \in 1..(n - 1) : i < j => f[i] < f[j]
          OBVIOUS
        <4>1. i \in 1..n /\ i + 1 \in 1..n /\ f[i] = i + 1
          BY <1>1, <3>4
        <4>2. recent'[i] = recent[f[i]] /\ recent'[i] # h
          BY <2>1, <2>3, <3>3, <4>1
        <4>3. \A j \in 1..(n - 1) : i < j => f[i] < f[j]
          BY <3>4
        <4> QED
          BY <4>2, <4>3
      <3>6. recent'[n] = h
        BY <1>1, <2>1, <3>1, <3>3
      <3>7. ASSUME NEW q \in 1..n, recent[q] \notin Range(recent') PROVE q = 1
        <4>1. CASE q # 1
          <5>1. q - 1 \in 1..n /\ (q - 1) + 1 = q
            BY <1>1, <4>1
          <5>2. recent'[q - 1] = recent[q]
            BY <2>1, <3>3, <5>1
          <5>3. recent'[q - 1] \in Range(recent')
            BY <3>3, <5>1, ListFacts
          <5> QED
            BY <3>7, <5>2, <5>3
        <4> QED
          BY <4>1
      <3>8. \A g \in Range(recent) \ Range(recent') : g = recent[1] /\ 1 \in 1..n
        BY <1>1, <3>1, <3>7
      <3> QED
        BY <1>1, <3>1, <3>3, <3>4, <3>5, <3>6, <3>8
    <2> QED
      BY <2>4, <2>5
  <1> QED
    BY <1>2, <1>3

\* HostBuckets.try_take keeps that order, and what it forgets comes first in it.
LEMMA TakeOrdered ==
    ASSUME BucketsInv, Recent, Ordered, NEW h \in Hosts, TryTake(h)
    PROVE  /\ Ordered'
           /\ \A g \in Hosts : Remembered(g) /\ g \notin Range(recent') =>
                 \A k \in Range(recent') : bucket[g].updated <= bucket'[k].updated
  <1> DEFINE m == Len(recent')
  <1>1. /\ m \in Nat /\ m >= 1 /\ recent'[m] = h
        /\ \A g \in Range(recent) \ Range(recent') : g = recent[1] /\ 1 \in 1..Len(recent)
    BY SeenOrder DEF TryTake
  <1>2. PICK f \in [1..(m - 1) -> 1..Len(recent)] :
            \A i \in 1..(m - 1) : /\ recent'[i] = recent[f[i]] /\ recent'[i] # h
                                  /\ \A j \in 1..(m - 1) : i < j => f[i] < f[j]
    BY SeenOrder DEF TryTake
  <1>3. recent' \in Seq(Hosts)
    BY SeenKeeps DEF TryTake, Recent
  <1>4. /\ recent \in Seq(Hosts) /\ Len(recent) \in Nat
        /\ \A i \in 1..Len(recent) : recent[i] \in Hosts
    BY ListFacts DEF Recent
  <1>5. /\ \A i \in 1..m : recent'[i] \in Hosts /\ recent'[i] \in Range(recent')
        /\ \A k \in Range(recent') : \E i \in 1..m : recent'[i] = k
    BY <1>3, ListFacts
  <1>6. \A g \in Hosts : bucket[g].updated \in Int /\ bucket[g].updated <= now /\ now \in Nat
    BY BucketFields DEF BucketsInv, Sound
  <1>7. bucket'[h].updated = now
    <2>1. bucket'[h] = Taken(h)
      BY DEF TryTake
    <2>2. Taken(h).updated = now
      BY DEF Taken, Refilled
    <2> QED
      BY <2>1, <2>2
  <1>8. \A i \in 1..(m - 1) : f[i] \in 1..Len(recent) /\ bucket'[recent'[i]] = bucket[recent[f[i]]]
    BY <1>1, <1>2, <1>5 DEF TryTake
  <1>9. Ordered'
    <2> SUFFICES ASSUME NEW i \in 1..m, NEW j \in 1..m, i < j
                 PROVE  bucket'[recent'[i]].updated <= bucket'[recent'[j]].updated
      BY DEF Ordered
    <2>1. i \in 1..(m - 1)
      BY <1>1
    <2>2. CASE j = m
      BY <1>1, <1>4, <1>6, <1>7, <1>8, <2>1, <2>2
    <2>3. CASE j # m
      <3>1. j \in 1..(m - 1)
        BY <1>1, <2>3
      <3>2. f[i] < f[j] /\ f[i] \in 1..Len(recent) /\ f[j] \in 1..Len(recent)
        BY <1>2, <2>1, <3>1
      <3> QED
        BY <1>8, <2>1, <3>1, <3>2 DEF Ordered
    <2> QED
      BY <2>2, <2>3
  <1>10. ASSUME NEW g \in Hosts, Remembered(g), g \notin Range(recent'), NEW k \in Range(recent')
         PROVE  bucket[g].updated <= bucket'[k].updated
    <2>1. g = recent[1] /\ 1 \in 1..Len(recent)
      BY <1>1, <1>10 DEF Remembered
    <2>2. PICK i \in 1..m : recent'[i] = k
      BY <1>5
    <2>3. CASE i = m
      BY <1>1, <1>6, <1>7, <2>2, <2>3
    <2>4. CASE i # m
      <3>1. i \in 1..(m - 1)
        BY <1>1, <2>4
      <3>2. f[i] \in 1..Len(recent) /\ bucket'[k] = bucket[recent[f[i]]]
        BY <1>8, <2>2, <3>1
      <3>3. CASE f[i] = 1
        BY <1>4, <1>6, <2>1, <3>2, <3>3
      <3>4. CASE f[i] # 1
        BY <1>4, <2>1, <3>2, <3>4 DEF Ordered
      <3> QED
        BY <3>3, <3>4
    <2> QED
      BY <2>3, <2>4
  <1> QED
    BY <1>9, <1>10

\* A step of the server leaves the buckets alone, moves the clock or serves an address.
LEMMA StepBuckets ==
    ASSUME Held, [Next]_vars
    PROVE  \/ UNCHANGED <<recent, bucket>>
           \/ \E h \in Hosts : TryTake(h)
  <1>1. ASSUME NEW h \in Hosts, Request(h)
        PROVE  UNCHANGED <<recent, bucket>> \/ TryTake(h)
    BY <1>1 DEF Request, bucketVars
  <1>2. ASSUME NEW s \in Sockets, NEW list \in TopicLists, ReadTopics(s, list)
        PROVE  UNCHANGED <<recent, bucket>> \/ (TryTake(socket[s].host) /\ socket[s].host \in Hosts)
    <2>1. socket[s].host \in Hosts
      BY <1>2 DEF ReadTopics, Held, Handlers, Handler, Active
    <2> QED
      BY <1>2, <2>1 DEF ReadTopics, bucketVars
  <1>3. CASE Tick \/ BodyTimeout \/ UNCHANGED vars
    BY <1>3 DEF Tick, Advance, BodyTimeout, vars, bucketVars
  <1>4. ASSUME NEW n, NEW more, BodyPart(n, more) PROVE UNCHANGED <<recent, bucket>>
    BY <1>4 DEF BodyPart, bucketVars
  <1>5. ASSUME NEW t, Publish(t) PROVE UNCHANGED <<recent, bucket>>
    BY <1>5 DEF Publish, bucketVars
  <1>6. ASSUME NEW s \in Sockets,
               Accepted(s) \/ Left(s) \/ ReadBad(s) \/ Wakes(s) \/ WriterGets(s) \/ Sent(s)
        PROVE  UNCHANGED <<recent, bucket>>
    BY <1>6 DEF Accepted, Left, ReadBad, Wakes, WriterGets, Sent, Finally, bucketVars
  <1>7. ASSUME NEW s, NEW h, Connect(s, h) PROVE UNCHANGED <<recent, bucket>>
    BY <1>7 DEF Connect, bucketVars
  <1> QED
    BY <1>1, <1>2, <1>3, <1>4, <1>5, <1>6, <1>7 DEF Next

\* The limiter's list of addresses is only changed by try_take.
LEMMA StepRecent == Recent /\ Held /\ [Next]_vars => Recent'
  <1> SUFFICES ASSUME Recent, Held, [Next]_vars PROVE Recent'
    OBVIOUS
  <1>1. ASSUME UNCHANGED <<recent, bucket>> PROVE Recent'
    BY <1>1 DEF Recent
  <1>2. ASSUME NEW h \in Hosts, TryTake(h) PROVE Recent'
    BY <1>2, SeenKeeps DEF TryTake
  <1> QED
    BY <1>1, <1>2, StepBuckets

\* A body grows up to its limit, and requests up to the bound of the model.
LEMMA StepRequested == Requested /\ [Next]_vars => Requested'
  <1> SUFFICES ASSUME Requested, [Next]_vars PROVE Requested'
    OBVIOUS
  <1>1. ASSUME request' = request, requests' = requests PROVE Requested'
    BY <1>1 DEF Requested
  <1>2. NoRequest \in [phase : {"none", "body"}, bytes : 0..MaxBody]
    BY ApiAssumption DEF NoRequest
  <1>3. ASSUME NEW h \in Hosts, Request(h) PROVE Requested'
    <2>1. requests' \in 0..MaxRequests
      BY <1>3, ApiAssumption DEF Request, Requested
    <2>2. request' = request \/ request' = [phase |-> "body", bytes |-> 0]
      BY <1>3 DEF Request
    <2>3. [phase |-> "body", bytes |-> 0] \in [phase : {"none", "body"}, bytes : 0..MaxBody]
      BY ApiAssumption
    <2> QED
      BY <2>1, <2>2, <2>3 DEF Requested
  <1>4. ASSUME NEW n \in 0..MaxBody, NEW more \in BOOLEAN, BodyPart(n, more) PROVE Requested'
    <2>1. requests' = requests
      BY <1>4 DEF BodyPart
    <2>2. CASE Fits(n) /\ more
      <3>1. request' = [request EXCEPT !.bytes = @ + n]
        BY <1>4, <2>2 DEF BodyPart
      <3>2. request.bytes + n \in 0..MaxBody
        BY <2>2, ApiAssumption DEF Fits, Requested
      <3> QED
        BY <2>1, <3>1, <3>2 DEF Requested
    <2>3. CASE ~(Fits(n) /\ more)
      <3>1. request' = NoRequest
        BY <1>4, <2>3 DEF BodyPart
      <3> QED
        BY <1>2, <2>1, <3>1 DEF Requested
    <2> QED
      BY <2>2, <2>3
  <1>5. CASE BodyTimeout
    <2>1. request' = NoRequest /\ requests' = requests
      BY <1>5 DEF BodyTimeout
    <2> QED
      BY <1>2, <2>1 DEF Requested
  <1>6. CASE Tick \/ UNCHANGED vars
    BY <1>1, <1>6 DEF Tick, vars
  <1>7. ASSUME NEW t, Publish(t) PROVE Requested'
    BY <1>1, <1>7 DEF Publish
  <1>8. ASSUME NEW s \in Sockets,
               Accepted(s) \/ Left(s) \/ ReadBad(s) \/ Wakes(s) \/ WriterGets(s) \/ Sent(s)
        PROVE  Requested'
    BY <1>1, <1>8 DEF Accepted, Left, ReadBad, Wakes, WriterGets, Sent, Finally
  <1>9. ASSUME NEW s, NEW h, Connect(s, h) PROVE Requested'
    BY <1>1, <1>9 DEF Connect
  <1>10. ASSUME NEW s, NEW list, ReadTopics(s, list) PROVE Requested'
    BY <1>1, <1>10 DEF ReadTopics
  <1> QED
    BY <1>3, <1>4, <1>5, <1>6, <1>7, <1>8, <1>9, <1>10 DEF Next

\* What connections hold, after any step.
LEMMA StepHeld == Held /\ [Next]_vars => Held'
  <1> SUFFICES ASSUME Held, [Next]_vars PROVE Held'
    OBVIOUS
  <1>1. CASE Tick \/ BodyTimeout \/ UNCHANGED vars
    <2>1. socket' = socket /\ open' = open /\ byTopic' = byTopic
      BY <1>1 DEF Tick, BodyTimeout, vars
    <2> QED
      BY <2>1, HeldFrame
  <1>2. ASSUME NEW h \in Hosts, Request(h) PROVE Held'
    BY <1>2, HeldFrame DEF Request
  <1>3. ASSUME NEW n, NEW more, BodyPart(n, more) PROVE Held'
    BY <1>3, HeldFrame DEF BodyPart
  <1>4. ASSUME NEW t \in Topics, Publish(t) PROVE Held'
    BY <1>4, PublishHeld
  <1>5. ASSUME NEW s \in Sockets, Accepted(s) PROVE Held'
    BY <1>5, AcceptedHeld
  <1>6. ASSUME NEW s \in Sockets, Left(s) PROVE Held'
    BY <1>6, FinallyHeld DEF Left, Active
  <1>7. ASSUME NEW s \in Sockets, ReadBad(s) \/ Wakes(s) \/ WriterGets(s) \/ Sent(s) PROVE Held'
    BY <1>7, ReaderWriterHeld
  <1>8. ASSUME NEW s \in Sockets, NEW h \in Hosts, Connect(s, h) PROVE Held'
    BY <1>8, ConnectHeld
  <1>9. ASSUME NEW s \in Sockets, NEW list \in TopicLists, ReadTopics(s, list) PROVE Held'
    BY <1>9, ReadTopicsHeld
  <1> QED
    BY <1>1, <1>2, <1>3, <1>4, <1>5, <1>6, <1>7, <1>8, <1>9 DEF Next

\* The server starts with no connection, no subscription and no request.
LEMMA InitHoldings == Init => HoldingsInv
  <1> SUFFICES ASSUME Init PROVE HoldingsInv
    OBVIOUS
  <1>1. BucketsInv
    BY InitSound
  <1>2. Recent
    BY RateAssumption, EmptySeq, EmptyList DEF Init, BucketsInit, Recent
  <1>3. Handlers
    <2>1. Handler(NoSocket) /\ NoSocket \in SocketType
      BY NoneAndOver DEF Handler
    <2>2. socket = [s \in Sockets |-> NoSocket]
      BY DEF Init
    <2> QED
      BY <2>1, <2>2 DEF Handlers
  <1>4. \A s \in Sockets : socket[s].phase = "none"
    BY DEF Init, NoSocket
  <1>5. Counted
    <2>1. open = [h \in Hosts |-> 0]
      BY DEF Init
    <2>2. OpenSlots = {}
      BY <2>1 DEF OpenSlots
    <2>3. \A h : HeldBy(h) = {}
      BY <1>4 DEF HeldBy, Active
    <2>4. IsFiniteSet(OpenSlots) /\ Cardinality(OpenSlots) = 0 /\ \A h : Cardinality(HeldBy(h)) = 0
      BY <2>2, <2>3, FS_EmptySet
    <2>5. 0 <= MaxSockets /\ 0 <= PerHost
      BY ApiAssumption
    <2>6. 0 \in 0..Cardinality(Sockets)
      BY HeldFinite
    <2> QED
      BY <2>1, <2>4, <2>5, <2>6 DEF Counted
  <1>6. Indexed
    <2>1. \A t : Subscribed(t) = {}
      BY <1>4 DEF Subscribed
    <2> QED
      BY <2>1 DEF Init, Indexed
  <1>7. Requested
    BY ApiAssumption DEF Init, Requested, NoRequest
  <1> QED
    BY <1>1, <1>2, <1>3, <1>5, <1>6, <1>7 DEF HoldingsInv

\* The inductive invariant holds of every step.
LEMMA StepHoldings == HoldingsInv /\ [Next]_vars => HoldingsInv'
  BY StepSound, StepRecent, StepHeld, StepRequested DEF HoldingsInv, Held

\* Whatever a client does and whenever it leaves, what its connection held is given
\* back once: counts and index are exact and the limits hold, for any number of
\* addresses, connections and topics.
THEOREM HoldingsAreExact == Spec => []HoldingsExact
  <1>1. HoldingsInv => HoldingsExact
    <2> SUFFICES ASSUME HoldingsInv PROVE HoldingsExact
      OBVIOUS
    <2>1. ApiTypeOK
      BY DEF HoldingsInv, BucketsInv, Recent, Handlers, Counted, Indexed, Requested, Subscribed,
             ApiTypeOK, BucketsTypeOK
    <2>2. ASSUME NEW h \in Hosts \ Trusted
          PROVE  /\ open[h] = Cardinality({s \in Sockets : socket[s].host = h
                                              /\ socket[s].phase \in {"accepting", "open"}})
                 /\ open[h] <= PerHost
      BY DEF HoldingsInv, Counted, HeldBy, Active
    <2>3. TotalOpen <= MaxSockets
      BY DEF HoldingsInv, Counted, OpenSlots, TotalOpen
    <2>4. \A t \in Topics :
             byTopic[t] = {s \in Sockets : socket[s].phase = "open" /\ t \in socket[s].topics}
      BY DEF HoldingsInv, Indexed, Subscribed
    <2>5. \A s \in Sockets :
             socket[s].host \notin Trusted => Cardinality(socket[s].topics) <= MaxTopics
      BY DEF HoldingsInv, Handlers, Handler
    <2> QED
      BY <2>1, <2>2, <2>3, <2>4, <2>5 DEF HoldingsExact
  <1> QED
    BY <1>1, InitHoldings, StepHoldings, PTL DEF Spec

\* A subscriber is sent the messages of its subscription one after the other, and
\* none is left out between two that it gets, however the writer, the reader and
\* publish interleave and however short the queue is.
THEOREM StreamHasNoGap == Spec => []NoGap
  <1>1. HoldingsInv => NoGap
    BY DEF HoldingsInv, Handlers, Handler, Stream, NoGap
  <1> QED
    BY <1>1, InitHoldings, StepHoldings, PTL DEF Spec

\* Whoever gets a new burst by being forgotten has been quiet for longer than every
\* address that stays, for any size of the table and any mix of requests and
\* WebSocket messages.
THEOREM QuietestForgotten == Spec => ForgetsQuietest
  <1> DEFINE Inv == HoldingsInv /\ Ordered
             Quietest == \A g \in Hosts : Remembered(g) /\ g \notin Range(recent') =>
                            \A k \in Range(recent') : bucket[g].updated <= bucket'[k].updated
  <1>1. Init => Ordered
    BY EmptyList DEF Init, BucketsInit, Ordered
  <1>2. ASSUME Inv, [Next]_vars PROVE Ordered' /\ [Quietest]_bucketVars
    <2>1. Held /\ BucketsInv /\ Recent
      BY <1>2 DEF HoldingsInv, Held
    <2>2. CASE UNCHANGED <<recent, bucket>>
      BY <1>2, <2>2 DEF Ordered, Remembered
    <2>3. ASSUME NEW h \in Hosts, TryTake(h) PROVE Ordered' /\ Quietest
      BY <1>2, <2>1, <2>3, TakeOrdered
    <2> QED
      BY <1>2, <2>1, <2>2, <2>3, StepBuckets
  <1>3. Inv /\ [Next]_vars => Inv' /\ [Quietest]_bucketVars
    BY <1>2, StepHoldings
  <1>4. Init => Inv
    BY <1>1, InitHoldings
  <1> HIDE DEF Inv, Quietest
  <1>5. Spec => [][Quietest]_bucketVars
    BY <1>3, <1>4, PTL DEF Spec
  <1> QED
    BY <1>5 DEF ForgetsQuietest, Quietest
=============================================================================
