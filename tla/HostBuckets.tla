----------------------------- MODULE HostBuckets -----------------------------
(***************************************************************************)
(* TokenBucket and HostBuckets of node/limits.py: how often a client       *)
(* address may be served.  Time and tokens are integers here; floats in    *)
(* the code.                                                               *)
(***************************************************************************)
EXTENDS Integers, Sequences, SequencesExt

CONSTANTS
    Hosts,
    Rate,        \* units a second
    Burst,       \* units that can be saved up
    BucketLimit, \* addresses remembered
    MaxTime      \* bound of the model

ASSUME RateAssumption ==
    /\ Rate \in Nat /\ Burst \in Nat /\ BucketLimit \in Nat \ {0} /\ MaxTime \in Nat

VARIABLES
    now,
    recent,   \* the keys of _buckets, least recently seen first
    bucket    \* bucket[h]: the TokenBucket of h; `served` is history: when it granted

bucketVars == <<now, recent, bucket>>

Buckets == [tokens : Int, updated : Int, served : Seq(Int)]

BucketsTypeOK ==
    /\ now \in Nat /\ bucket \in [Hosts -> Buckets]
    /\ recent \in Seq(Hosts) /\ Len(recent) <= BucketLimit /\ IsInjective(recent)

Lower(a, b) == IF a <= b THEN a ELSE b

\* TokenBucket.__init__
NewBucket == [tokens |-> Burst, updated |-> now, served |-> <<>>]

Remembered(h) == h \in Range(recent)
NoBucket == [tokens |-> 0, updated |-> 0, served |-> <<>>]

\* The bucket of h, as it is or new.
Current(h) == IF Remembered(h) THEN bucket[h] ELSE NewBucket

\* Mutant: a pause is saved up without a limit.
RefilledWithoutLimit(b) ==
    [tokens |-> b.tokens + (now - b.updated) * Rate, updated |-> now, served |-> b.served]

\* Mutant: the time of the last refill is not moved on.
RefilledAgain(b) ==
    [tokens |-> Lower(Burst, b.tokens + (now - b.updated) * Rate), updated |-> b.updated,
     served |-> b.served]

\* _refill
Refilled(b) ==
    [tokens |-> Lower(Burst, b.tokens + (now - b.updated) * Rate), updated |-> now,
     served |-> b.served]

\* TokenBucket.try_take(1)
Grants(h) == Refilled(Current(h)).tokens >= 1

Taken(h) ==
    LET b == Refilled(Current(h))
    IN  IF ~Grants(h) THEN b
        ELSE [tokens |-> b.tokens - 1, updated |-> b.updated, served |-> Append(b.served, now)]

Position(h) == CHOOSE i \in DOMAIN recent : recent[i] = h

\* The keys with a new one, which may push out the first.
SeenFirst(h) ==
    LET new == Append(recent, h) IN IF Len(new) > BucketLimit THEN Tail(new) ELSE new

\* The keys after h was seen: one that is there moves to the end.
Seen(h) == IF Remembered(h) THEN Append(RemoveAt(recent, Position(h)), h) ELSE SeenFirst(h)

\* HostBuckets.try_take
TryTake(h) ==
    /\ recent' = Seen(h)
    /\ bucket' = [g \in Hosts |-> IF g = h THEN Taken(h)
                                  ELSE IF g \in Range(recent') THEN bucket[g] ELSE NoBucket]
    /\ UNCHANGED now

BucketsInit ==
    /\ now = 0 /\ recent = <<>>
    /\ bucket = [h \in Hosts |-> NoBucket]

\* The clock goes on.
Advance == now < MaxTime /\ now' = now + 1 /\ UNCHANGED <<recent, bucket>>

BucketsNext == Advance \/ \E h \in Hosts : TryTake(h)

\* The buckets alone, whoever uses them.
BucketsSpec == BucketsInit /\ [][BucketsNext]_bucketVars

\* "Allows `rate` units per second on average, and bursts of up to `burst` units"
\* (TokenBucket), over every period: as long as an address is remembered, from any
\* request served to any later one no more are served than the burst and the rate
\* over the time between them, however long it paused before and whatever was
\* refused.  An address that was forgotten starts again with a full burst.
RateBounded ==
    \A h \in Hosts : Remembered(h) =>
        LET served == bucket[h].served
        IN  \A i, j \in DOMAIN served :
                i <= j => j - i + 1 <= Burst + Rate * (served[j] - served[i])

\* "Forgets the least recently seen when there are too many": whoever gets a new
\* burst by being forgotten has been quiet for longer than every address that stays
\* (move_to_end against popitem in HostBuckets.try_take).
ForgetsQuietest ==
    [][\A g \in Hosts : Remembered(g) /\ g \notin Range(recent') =>
          \A k \in Range(recent') : bucket[g].updated <= bucket'[k].updated]_bucketVars
=============================================================================
