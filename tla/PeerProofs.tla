----------------------------- MODULE PeerProofs -----------------------------
(***************************************************************************)
(* The connections of PeerManager for any number of nodes, addresses and   *)
(* connections, and any limits.                                            *)
(*                                                                         *)
(* The properties are inductive together with two facts that none of them  *)
(* states: a connection past its hello is with a node that is not this     *)
(* one, and a dial under way is of an address that is known or was.        *)
(***************************************************************************)
EXTENDS PeerTable, FiniteSetTheorems, ListTheorems

(* The inductive invariant *)

Tables ==
    /\ addresses \in Seq(Urls) /\ IsInjective(addresses)
    /\ privateOk \subseteq Urls /\ selfUrls \subseteq Urls
    /\ urlNode \in [Urls -> Nodes \cup {Me}]

Dials ==
    /\ dialing \subseteq Urls /\ failures \in [Urls -> 0..(DropAfter - 1)] /\ resting \subseteq Urls

Barred == banned \subseteq Nodes /\ bannedHosts \subseteq Hosts /\ bans \in 0..MaxBans

OnFile ==
    /\ remembered \subseteq Urls /\ changed \in BOOLEAN /\ saved \subseteq Urls
    /\ restarts \in 0..MaxRestarts

\* A connection past its hello is with another node.
Link(r) ==
    /\ r \in Conns \cup {None}
    /\ r.outbound = (r.url # NoUrl)
    /\ r.phase \in {"ready", "closed"} => r.node \in Nodes

Links == conn \in [Slots -> Conns \cup {None}] /\ \A c \in Slots : Link(conn[c])

Bounded ==
    /\ Cardinality(Outbound) + Cardinality(dialing) <= TargetOutbound
    /\ Cardinality(Inbound) <= MaxInbound
    /\ \A h \in Hosts \ Loopback : Cardinality(InboundFrom(h)) <= MaxPerHost

Vouched(u) == Private(u) => u \in privateOk \cup Seeds

PeersInv ==
    /\ Tables /\ Dials /\ Barred /\ OnFile /\ Links /\ Bounded
    /\ OneConnectionPerNode /\ PrivateVouched

-----------------------------------------------------------------------------
(* What a step does to the connections *)

\* Where a connection can be.
LEMMA ConnFacts ==
    ASSUME Links, NEW c \in Slots
    PROVE  /\ conn[c] \in Conns \cup {None} /\ Link(conn[c])
           /\ c \in Open <=> conn[c] \in Conns
           /\ c \in Open <=> conn[c].phase # "none"
           /\ conn[c].phase \in {"hello", "ready", "closed"} => c \in Open
  <1>1. conn[c] \in Conns \cup {None} /\ Link(conn[c])
    BY DEF Links
  <1>2. None \notin Conns /\ None.phase = "none"
    BY DEF None, Conns
  <1>3. conn[c] \in Conns => conn[c].phase \in {"hello", "ready", "closed"}
    BY DEF Conns
  <1> QED
    BY <1>1, <1>2, <1>3 DEF Open

\* One connection changes, to another state it can be in.
LEMMA OneLink ==
    ASSUME Links, NEW c \in Slots, NEW r, Link(r), conn' = [conn EXCEPT ![c] = r]
    PROVE  Links' /\ conn'[c] = r /\ \A d \in Slots \ {c} : conn'[d] = conn[d]
  <1>1. conn \in [Slots -> Conns \cup {None}] /\ r \in Conns \cup {None}
    BY DEF Links, Link
  <1>2. /\ conn' \in [Slots -> Conns \cup {None}] /\ conn'[c] = r
        /\ \A d \in Slots \ {c} : conn'[d] = conn[d]
    BY <1>1
  <1>3. \A d \in Slots : Link(conn'[d])
    BY <1>2 DEF Links
  <1> QED
    BY <1>2, <1>3 DEF Links, Link

\* There is a free slot for a connection that enters.
LEMMA EnterTakesFree ==
    ASSUME NEW r, Enter(r)
    PROVE  \E c \in Slots : conn[c] = None /\ conn' = [conn EXCEPT ![c] = r]
  <1>1. \E c \in Slots : conn[c] = None
    BY DEF Enter, Open
  <1> QED
    BY <1>1 DEF Enter

\* The sets of connections after one was added.
LEMMA Entered ==
    ASSUME Links, NEW c \in Slots, conn[c] = None, NEW r \in Conns, Link(r), r.phase = "hello",
           conn' = [conn EXCEPT ![c] = r]
    PROVE  /\ Links' /\ c \notin Open /\ Open' = Open \cup {c} /\ Ready' = Ready
           /\ Outbound' = IF r.outbound THEN Outbound \cup {c} ELSE Outbound
           /\ Inbound' = IF r.outbound THEN Inbound ELSE Inbound \cup {c}
           /\ conn'[c] = r /\ \A d \in Slots \ {c} : conn'[d] = conn[d]
  <1>1. Links' /\ conn'[c] = r /\ \A d \in Slots \ {c} : conn'[d] = conn[d]
    BY OneLink
  <1>2. r # None
    <2>1. None.phase = "none"
      BY DEF None
    <2> QED
      BY <2>1
  <1>3. Open' = Open \cup {c} /\ c \notin Open
    BY <1>1, <1>2 DEF Open
  <1>4. \A d \in Open : d \in Slots \ {c}
    BY DEF Open
  <1>5. Ready' = Ready
    BY <1>1, <1>3, <1>4 DEF Ready
  <1>6. r.outbound \in BOOLEAN
    BY DEF Conns
  <1>7. Outbound' = IF r.outbound THEN Outbound \cup {c} ELSE Outbound
    BY <1>1, <1>3, <1>4, <1>6 DEF Outbound
  <1>8. Inbound' = IF r.outbound THEN Inbound ELSE Inbound \cup {c}
    BY <1>3, <1>7 DEF Inbound, Outbound
  <1> QED
    BY <1>1, <1>3, <1>5, <1>7, <1>8

\* ... or went.
LEMMA LeftSets ==
    ASSUME Links, NEW c \in Slots, Leave(c)
    PROVE  /\ Links' /\ Open' = Open \ {c} /\ Ready' = Ready \ {c}
           /\ Outbound' = Outbound \ {c} /\ Inbound' = Inbound \ {c}
           /\ conn'[c] = None /\ \A d \in Slots \ {c} : conn'[d] = conn[d]
  <1>1. Link(None)
    BY DEF Link, None
  <1>2. Links' /\ conn'[c] = None /\ \A d \in Slots \ {c} : conn'[d] = conn[d]
    BY <1>1, OneLink DEF Leave
  <1>3. Open' = Open \ {c}
    BY <1>2 DEF Open
  <1>4. \A d \in Open : d \in Slots
    BY DEF Open
  <1>5. Ready' = Ready \ {c} /\ Outbound' = Outbound \ {c}
    BY <1>2, <1>3, <1>4 DEF Ready, Outbound
  <1>6. Inbound' = Inbound \ {c}
    BY <1>3, <1>5 DEF Inbound
  <1> QED
    BY <1>2, <1>3, <1>5, <1>6

\* ... or moved to another phase.
LEMMA Moved ==
    ASSUME Links, NEW c \in Open, NEW p \in {"ready", "closed"}, conn[c].node \in Nodes,
           conn' = [conn EXCEPT ![c].phase = p]
    PROVE  /\ Links' /\ Open' = Open /\ Outbound' = Outbound /\ Inbound' = Inbound
           /\ Ready' = IF p = "ready" THEN Ready \cup {c} ELSE Ready \ {c}
           /\ conn'[c].phase = p
           /\ \A d \in Slots : /\ conn'[d].node = conn[d].node /\ conn'[d].host = conn[d].host
                               /\ conn'[d].url = conn[d].url
           /\ \A d \in Slots \ {c} : conn'[d] = conn[d]
  <1> DEFINE r == [conn[c] EXCEPT !.phase = p]
  <1>1. c \in Slots
    BY DEF Open
  <1>2. conn[c] \in Conns /\ Link(conn[c])
    BY <1>1, ConnFacts
  <1>3. /\ r \in Conns /\ r.phase = p /\ r.node = conn[c].node /\ r.host = conn[c].host
        /\ r.url = conn[c].url /\ r.outbound = conn[c].outbound
    BY <1>2 DEF Conns
  <1>4. conn' = [conn EXCEPT ![c] = r]
    OBVIOUS
  <1> HIDE DEF r
  <1>5. Link(r)
    BY <1>2, <1>3 DEF Link
  <1>6. Links' /\ conn'[c] = r /\ \A d \in Slots \ {c} : conn'[d] = conn[d]
    BY <1>1, <1>4, <1>5, OneLink
  <1>7. r # None /\ conn[c] # None
    <2>1. None.phase = "none"
      BY DEF None
    <2> QED
      BY <1>3, <2>1 DEF Open
  <1>8. Open' = Open /\ \A d \in Open : d \in Slots
    BY <1>1, <1>6, <1>7 DEF Open
  <1>9. Outbound' = Outbound
    BY <1>3, <1>6, <1>8 DEF Outbound
  <1>10. Inbound' = Inbound
    BY <1>8, <1>9 DEF Inbound
  <1>11. Ready' = IF p = "ready" THEN Ready \cup {c} ELSE Ready \ {c}
    BY <1>3, <1>6, <1>8 DEF Ready
  <1> QED
    BY <1>3, <1>6, <1>8, <1>9, <1>10, <1>11

-----------------------------------------------------------------------------
(* The limits *)

\* Everything that is counted is finite.
LEMMA CountsFinite ==
    ASSUME Dials
    PROVE  /\ IsFiniteSet(Outbound) /\ IsFiniteSet(Inbound) /\ IsFiniteSet(dialing)
           /\ Cardinality(Outbound) \in Nat /\ Cardinality(Inbound) \in Nat
           /\ Cardinality(dialing) \in Nat
           /\ \A h : IsFiniteSet(InboundFrom(h)) /\ Cardinality(InboundFrom(h)) \in Nat
  <1>1. IsFiniteSet(Slots) /\ IsFiniteSet(Urls)
    BY PeerAssumption
  <1>2. Outbound \in SUBSET Slots /\ Inbound \in SUBSET Slots /\ dialing \in SUBSET Urls
    BY DEF Dials, Outbound, Inbound, Open
  <1>3. IsFiniteSet(Outbound) /\ IsFiniteSet(Inbound) /\ IsFiniteSet(dialing)
    BY <1>1, <1>2, FS_Subset
  <1>4. \A h : InboundFrom(h) \in SUBSET Inbound
    BY DEF InboundFrom
  <1>5. \A h : IsFiniteSet(InboundFrom(h))
    BY <1>3, <1>4, FS_Subset
  <1> QED
    BY <1>3, <1>5, FS_CardinalityType

\* Connections that end free their slots.
LEMMA FewerBounded ==
    ASSUME Dials, Bounded, Outbound' \subseteq Outbound, Inbound' \subseteq Inbound,
           dialing' \subseteq dialing, \A c \in Inbound' : conn'[c].host = conn[c].host
    PROVE  Bounded'
  <1>1. Cardinality(Outbound') <= Cardinality(Outbound) /\ Cardinality(Outbound') \in Nat
    BY CountsFinite, FS_Subset, FS_CardinalityType
  <1>2. Cardinality(dialing') <= Cardinality(dialing) /\ Cardinality(dialing') \in Nat
    BY CountsFinite, FS_Subset, FS_CardinalityType
  <1>3. Cardinality(Inbound') <= Cardinality(Inbound) /\ Cardinality(Inbound') \in Nat
    BY CountsFinite, FS_Subset, FS_CardinalityType
  <1>4. ASSUME NEW h \in Hosts \ Loopback PROVE Cardinality(InboundFrom(h)') <= MaxPerHost
    <2>1. InboundFrom(h)' \in SUBSET InboundFrom(h)
      BY DEF InboundFrom
    <2>2. /\ Cardinality(InboundFrom(h)') <= Cardinality(InboundFrom(h))
          /\ Cardinality(InboundFrom(h)') \in Nat
      BY <2>1, CountsFinite, FS_Subset, FS_CardinalityType
    <2> QED
      BY <2>2, CountsFinite, PeerAssumption DEF Bounded
  <1>5. Cardinality(Inbound') <= MaxInbound
    BY <1>3, CountsFinite, PeerAssumption DEF Bounded
  <1>6. Cardinality(Outbound') + Cardinality(dialing') <= TargetOutbound
    BY <1>1, <1>2, CountsFinite, PeerAssumption DEF Bounded
  <1> QED
    BY <1>4, <1>5, <1>6 DEF Bounded

\* _dial_more starts no more dials than there is room for: of the addresses that can
\* be dialed, the n-th is only taken when n more connections are wanted.
LEMMA DialsFit ==
    ASSUME Tables, Dials, Bounded
    PROVE  /\ ToDial \subseteq Range(addresses) /\ ToDial \subseteq Urls
           /\ Cardinality(Outbound) + Cardinality(dialing \cup ToDial) <= TargetOutbound
  <1> DEFINE J == {j \in DOMAIN addresses :
                     /\ CanDial(addresses[j])
                     /\ OutboundInUse + Cardinality(DialableUpTo(j)) <= TargetOutbound}
             m == TargetOutbound - OutboundInUse
             N == DOMAIN addresses
  <1>1. /\ Len(addresses) \in Nat /\ N = 1..Len(addresses) /\ Range(addresses) \subseteq Urls
        /\ \A i \in N : addresses[i] \in Range(addresses)
    BY ListFacts DEF Tables
  <1>2. ToDial = {addresses[i] : i \in J}
    BY DEF ToDial
  <1>3. OutboundInUse \in Nat /\ m \in Nat /\ OutboundInUse = Cardinality(Outbound) + Cardinality(dialing)
    BY CountsFinite, PeerAssumption DEF OutboundInUse, Bounded
  <1>4. /\ J \in SUBSET N
        /\ \A j \in J : CanDial(addresses[j])
                        /\ OutboundInUse + Cardinality(DialableUpTo(j)) <= TargetOutbound
    OBVIOUS
  <1>5. IsFiniteSet(J)
    <2>1. IsFiniteSet(1..Len(addresses))
      BY <1>1, FS_Interval
    <2> HIDE DEF J
    <2> QED
      BY <1>1, <1>4, <2>1, FS_Subset
  <1> HIDE DEF J, m, N
  <1>6. ASSUME NEW j \in N
        PROVE  IsFiniteSet(DialableUpTo(j)) /\ Cardinality(DialableUpTo(j)) \in Nat
    <2>1. IsFiniteSet(1..j) /\ DialableUpTo(j) \in SUBSET (1..j)
      BY <1>1, FS_Interval DEF DialableUpTo
    <2> QED
      BY <2>1, FS_Subset, FS_CardinalityType
  <1>7. ASSUME NEW j \in J PROVE Cardinality(DialableUpTo(j)) \in 1..m
    <2>1. j \in N /\ j \in 1..j
      BY <1>1, <1>4
    <2>2. j \in DialableUpTo(j)
      BY <1>4, <2>1 DEF DialableUpTo
    <2>3. Cardinality(DialableUpTo(j)) # 0
      BY <1>6, <2>1, <2>2, FS_EmptySet
    <2> QED
      BY <1>3, <1>4, <1>6, <2>1, <2>3, PeerAssumption DEF m
  <1>8. ASSUME NEW i \in J, NEW j \in J, i < j
        PROVE  Cardinality(DialableUpTo(i)) # Cardinality(DialableUpTo(j))
    <2>1. i \in N /\ j \in N /\ i \in Nat /\ j \in Nat /\ 1 <= j
      BY <1>1, <1>4
    <2>2. DialableUpTo(i) \in SUBSET DialableUpTo(j)
      BY <1>8, <2>1 DEF DialableUpTo
    <2>3. j \in DialableUpTo(j) /\ j \notin DialableUpTo(i)
      <3>1. CanDial(addresses[j])
        BY <1>4
      <3>2. j \in 1..j /\ j \notin 1..i
        BY <1>8, <2>1
      <3> QED
        BY <3>1, <3>2 DEF DialableUpTo
    <2> QED
      BY <1>6, <2>1, <2>2, <2>3, FS_Subset
  <1>9. Cardinality(J) <= m /\ Cardinality(J) \in Nat
    <2> DEFINE f == [j \in J |-> Cardinality(DialableUpTo(j))]
    <2>1. f \in [J -> 1..m]
      BY <1>7
    <2>2. IsInjective(f)
      <3>1. \A i, j \in J : i \in Nat /\ j \in Nat
        BY <1>1, <1>4
      <3>2. ASSUME NEW i \in J, NEW j \in J, f[i] = f[j] PROVE i = j
        <4>1. ~(i < j) /\ ~(j < i)
          BY <1>8, <3>2
        <4> QED
          BY <3>1, <4>1
      <3> QED
        BY <3>2 DEF IsInjective
    <2> HIDE DEF f
    <2>3. f \in Injection(J, 1..m)
      BY <2>1, <2>2 DEF Injection
    <2>4. IsFiniteSet(1..m) /\ Cardinality(1..m) = m
      <3>1. m \in Nat /\ m \in Int /\ 1 \in Int
        BY <1>3
      <3>2. IsFiniteSet(1..m) /\ Cardinality(1..m) = IF 1 > m THEN 0 ELSE m - 1 + 1
        BY <3>1, FS_Interval, Zenon
      <3> QED
        BY <3>1, <3>2
    <2>5. Cardinality(J) <= Cardinality(1..m)
      BY <2>3, <2>4, FS_Injection
    <2> QED
      BY <1>5, <2>4, <2>5, FS_CardinalityType
  <1>10. IsFiniteSet(ToDial) /\ Cardinality(ToDial) <= Cardinality(J) /\ Cardinality(ToDial) \in Nat
    <2> DEFINE g == [j \in J |-> addresses[j]]
    <2>1. g \in [J -> ToDial]
      BY <1>2
    <2>2. \A u \in ToDial : \E j \in J : g[j] = u
      BY <1>2
    <2> HIDE DEF g
    <2>3. g \in Surjection(J, ToDial)
      BY <2>1, <2>2 DEF Surjection
    <2> QED
      BY <1>5, <2>3, FS_Surjection, FS_CardinalityType
  <1>11. Cardinality(dialing \cup ToDial) <= Cardinality(dialing) + Cardinality(ToDial)
    <2>1. IsFiniteSet(dialing) /\ IsFiniteSet(dialing \cap ToDial) /\ Cardinality(dialing) \in Nat
      BY CountsFinite, FS_Intersection
    <2>2. Cardinality(dialing \cap ToDial) \in Nat
      BY <2>1, FS_CardinalityType
    <2>3. Cardinality(dialing \cup ToDial) =
             Cardinality(dialing) + Cardinality(ToDial) - Cardinality(dialing \cap ToDial)
      BY <1>10, <2>1, FS_Union
    <2> QED
      BY <1>10, <2>1, <2>2, <2>3
  <1>12. Cardinality(dialing \cup ToDial) \in Nat
    <2>1. IsFiniteSet(dialing \cup ToDial)
      BY <1>10, CountsFinite, FS_Union
    <2> QED
      BY <2>1, FS_CardinalityType
  <1>13. Cardinality(Outbound) + Cardinality(dialing \cup ToDial) <= TargetOutbound
    BY <1>3, <1>9, <1>10, <1>11, <1>12, CountsFinite, PeerAssumption DEF m
  <1>14. ToDial \subseteq Range(addresses)
    BY <1>1, <1>2, <1>4
  <1> QED
    BY <1>1, <1>13, <1>14

-----------------------------------------------------------------------------
(* The tables *)

\* The addresses a process starts with: each of them once.
LEMMA FirstFacts ==
    ASSUME NEW file \in SUBSET Urls, NEW s \in FirstAddresses(file)
    PROVE  /\ s \in Seq(Urls) /\ IsInjective(s)
           /\ Range(s) \subseteq Configured \cup Loaded(file)
  <1> DEFINE urls == Configured \cup Loaded(file)   n == Cardinality(urls)
  <1>1. urls \in SUBSET Urls /\ IsFiniteSet(Urls)
    BY PeerAssumption DEF Configured, Loaded
  <1>2. s \in [1..n -> urls] /\ \A i, j \in DOMAIN s : i < j => Before(s[i], s[j])
    BY DEF FirstAddresses
  <1> HIDE DEF urls
  <1>3. n \in Nat
    BY <1>1, FS_Subset, FS_CardinalityType
  <1> HIDE DEF n
  <1>4. s \in Seq(urls) /\ s \in Seq(Urls) /\ DOMAIN s = 1..n /\ \A i \in 1..n : s[i] \in urls
    BY <1>1, <1>2, <1>3
  <1>5. ASSUME NEW u \in Urls PROVE ~Before(u, u)
    <2>1. Rank[u] \in Nat /\ Group(u) \in Nat
      BY PeerAssumption DEF Group
    <2> QED
      BY <2>1 DEF Before
  <1>6. ASSUME NEW i \in 1..n, NEW j \in 1..n, s[i] = s[j] PROVE i = j
    <2>1. ~(i < j) /\ ~(j < i)
      BY <1>1, <1>2, <1>4, <1>5, <1>6
    <2> QED
      BY <1>3, <2>1
  <1>7. IsInjective(s)
    BY <1>4, <1>6 DEF IsInjective
  <1>8. Range(s) \subseteq urls
    BY <1>4 DEF Range
  <1> QED
    BY <1>4, <1>7, <1>8 DEF urls

\* _learn adds an address once; who may vouch for a private one is checked before.
LEMMA Learned ==
    ASSUME Tables, NEW u \in Urls, NEW host, Learn(u, host), MeaningfulBetween(host, u)
    PROVE  /\ addresses' \in Seq(Urls) /\ IsInjective(addresses')
           /\ privateOk' \subseteq Urls /\ privateOk \subseteq privateOk'
           /\ Known' \subseteq Known \cup {u}
           /\ u \in Known' => (Private(u) => u \in privateOk')
  <1>1. addresses \in Seq(Urls) /\ IsInjective(addresses)
    BY DEF Tables
  <1>2. CASE u \in Known \cup selfUrls
    <2>1. addresses' = addresses
      BY <1>2 DEF Learn
    <2> QED
      BY <1>1, <2>1 DEF Learn, Tables, Known, MeaningfulBetween
  <1>3. CASE u \notin Known \cup selfUrls
    <2>1. addresses' = Append(addresses, u)
      BY <1>3 DEF Learn
    <2>2. addresses' \in Seq(Urls) /\ IsInjective(addresses') /\ Known' = Known \cup {u}
      BY <1>1, <1>3, <2>1, Appended DEF Known
    <2> QED
      BY <2>2 DEF Learn, Tables, Known, MeaningfulBetween
  <1> QED
    BY <1>2, <1>3

\* What a node tells about itself is an address.
LEMMA ToldFacts ==
    ASSUME Links, NEW c \in Slots, conn[c].phase = "hello", conn[c].node # Me
    PROVE  /\ conn[c].node \in Nodes /\ c \in Open /\ conn[c] \in Conns
           /\ Told(c) \subseteq Urls /\ \A u \in Told(c) : MeaningfulBetween(conn[c].host, u)
  <1>1. c \in Open /\ conn[c] \in Conns
    BY ConnFacts
  <1>2. conn[c].node \in Nodes
    BY <1>1 DEF Conns
  <1> QED
    BY <1>1, <1>2, PeerAssumption DEF Told

\* The tables of addresses keep their form.
LEMMA StepTables == PeersInv /\ [Next]_vars => Tables'
  <1> SUFFICES ASSUME PeersInv, [Next]_vars PROVE Tables'
    OBVIOUS
  <1>0. Tables /\ Links /\ OnFile
    BY DEF PeersInv
  <1>1. ASSUME UNCHANGED tableVars PROVE Tables'
    BY <1>0, <1>1 DEF tableVars, Tables
  <1>2. CASE Tick \/ BanEnds \/ UNCHANGED vars
    BY <1>1, <1>2 DEF Tick, BanEnds, vars
  <1>3. CASE Restart
    <2>1. saved' \in SUBSET Urls
      BY <1>0, <1>3 DEF Restart, Save, OnFile
    <2>2. /\ addresses' \in FirstAddresses(saved')
          /\ privateOk' = Connect \cup {u \in Loaded(saved') : Private(u)}
          /\ selfUrls' = {ListenUrl} \ {NoUrl} /\ urlNode' = [u \in Urls |-> Me]
      BY <1>3 DEF Restart, Fresh
    <2>3. addresses' \in Seq(Urls) /\ IsInjective(addresses')
      BY <2>1, <2>2, FirstFacts
    <2>4. privateOk' \subseteq Urls /\ selfUrls' \subseteq Urls
      BY <2>1, <2>2, PeerAssumption DEF Loaded
    <2>5. urlNode' \in [Urls -> Nodes \cup {Me}]
      BY <2>2
    <2> QED
      BY <2>3, <2>4, <2>5 DEF Tables
  <1>4. ASSUME NEW u \in Urls, RetryDue(u) \/ DialOpens(u) PROVE Tables'
    BY <1>1, <1>4 DEF RetryDue, DialOpens
  <1>5. ASSUME NEW u \in Urls, DialFails(u) PROVE Tables'
    <2>1. privateOk' = privateOk /\ selfUrls' = selfUrls /\ urlNode' = urlNode
      BY <1>5 DEF DialFails
    <2>2. CASE Drops(u) /\ u \in Known
      <3> DEFINE p == CHOOSE i \in DOMAIN addresses : addresses[i] = u
      <3>1. p \in DOMAIN addresses
        BY <2>2 DEF Known, Range
      <3>2. addresses' = RemoveAt(addresses, p)
        BY <1>5, <2>2 DEF DialFails
      <3> HIDE DEF p
      <3>3. addresses' \in Seq(Urls) /\ IsInjective(addresses')
        BY <1>0, <3>1, <3>2, Removed DEF Tables
      <3> QED
        BY <1>0, <2>1, <3>3 DEF Tables
    <2>3. CASE ~(Drops(u) /\ u \in Known)
      <3>1. addresses' = addresses
        BY <1>5, <2>3 DEF DialFails
      <3> QED
        BY <1>0, <2>1, <3>1 DEF Tables
    <2> QED
      BY <2>2, <2>3
  <1>6. ASSUME NEW n, Accept(n) PROVE Tables'
    BY <1>1, <1>6 DEF Accept
  <1>7. ASSUME NEW c \in Slots, HelloBanned(c) \/ Misbehaves(c) \/ Drop(c) \/ Ends(c) PROVE Tables'
    BY <1>1, <1>7 DEF HelloBanned, Misbehaves, Drop, Ends
  <1>8. ASSUME NEW c \in Slots, HelloSelf(c) PROVE Tables'
    <2>1. conn[c] \in Conns
      BY <1>0, <1>8, ConnFacts DEF HelloSelf
    <2>2. conn[c].url \in Urls \cup {NoUrl}
      BY <2>1 DEF Conns
    <2> QED
      BY <1>0, <1>8, <2>2 DEF HelloSelf, Tables
  <1>9. ASSUME NEW c \in Slots, HelloAgain(c) \/ HelloReady(c)
        PROVE  urlNode' \in [Urls -> Nodes \cup {Me}]
    <2>1. conn[c].node \in Nodes
      BY <1>0, <1>9, ToldFacts DEF HelloAgain, HelloReady
    <2> QED
      BY <1>0, <1>9, <2>1 DEF HelloAgain, HelloReady, LearnNode, Tables
  <1>10. ASSUME NEW c \in Slots, HelloAgain(c) PROVE Tables'
    BY <1>0, <1>9, <1>10 DEF HelloAgain, Tables
  <1>11. ASSUME NEW c \in Slots, HelloReady(c) PROVE Tables'
    <2>1. selfUrls' = selfUrls
      BY <1>11 DEF HelloReady
    <2>2. CASE addresses' = addresses /\ privateOk' = privateOk
      BY <1>0, <1>9, <1>11, <2>1, <2>2 DEF Tables
    <2>3. CASE \E u \in Told(c) : Learn(u, conn[c].host)
      <3>1. PICK u \in Told(c) : Learn(u, conn[c].host)
        BY <2>3
      <3>2. u \in Urls /\ MeaningfulBetween(conn[c].host, u)
        BY <1>0, <1>11, ToldFacts DEF HelloReady
      <3>3. addresses' \in Seq(Urls) /\ IsInjective(addresses') /\ privateOk' \subseteq Urls
        BY <1>0, <3>1, <3>2, Learned
      <3> QED
        BY <1>0, <1>9, <1>11, <2>1, <3>3 DEF Tables
    <2> QED
      BY <1>11, <2>2, <2>3 DEF HelloReady
  <1>12. ASSUME NEW c \in Slots, NEW u \in Urls, PeersFrom(c, u) PROVE Tables'
    <2>1. Learn(u, conn[c].host) /\ MeaningfulBetween(conn[c].host, u)
      BY <1>12 DEF PeersFrom
    <2>2. addresses' \in Seq(Urls) /\ IsInjective(addresses') /\ privateOk' \subseteq Urls
      BY <1>0, <2>1, Learned
    <2> QED
      BY <1>0, <1>12, <2>2 DEF PeersFrom, Tables
  <1> QED
    BY <1>2, <1>3, <1>4, <1>5, <1>6, <1>7, <1>8, <1>10, <1>11, <1>12 DEF Next, Handshake

\* So do the dials, the bans and what is remembered of peers.
LEMMA StepDials == PeersInv /\ [Next]_vars => Dials'
  <1> SUFFICES ASSUME PeersInv, [Next]_vars PROVE Dials'
    OBVIOUS
  <1>0. Tables /\ Links /\ Dials /\ Bounded
    BY DEF PeersInv
  <1>1. ASSUME UNCHANGED <<dialVars, resting>> PROVE Dials'
    BY <1>0, <1>1 DEF dialVars, Dials
  <1>2. CASE BanEnds \/ UNCHANGED vars
    BY <1>1, <1>2 DEF BanEnds, vars
  <1>3. CASE Tick
    <2>1. ToDial \subseteq Urls
      BY <1>0, DialsFit
    <2> QED
      BY <1>0, <1>3, <2>1 DEF Tick, Dials
  <1>4. CASE Restart
    <2>1. dialing' = {} /\ failures' = [u \in Urls |-> 0] /\ resting' = {}
      BY <1>4 DEF Restart, Fresh
    <2>2. 0 \in 0..(DropAfter - 1)
      BY PeerAssumption
    <2> QED
      BY <2>1, <2>2 DEF Dials
  <1>5. ASSUME NEW u \in Urls, RetryDue(u) PROVE Dials'
    BY <1>0, <1>5 DEF RetryDue, Dials, dialVars
  <1>6. ASSUME NEW u \in Urls, DialFails(u) \/ DialOpens(u) PROVE Dials'
    <2>1. failures' \in [Urls -> 0..(DropAfter - 1)]
      <3>1. DropAfter \in Nat \ {0} /\ failures[u] \in 0..(DropAfter - 1) /\ failures \in [Urls -> 0..(DropAfter - 1)]
        BY <1>0, PeerAssumption DEF Dials
      <3>2. failures[u] + 1 < DropAfter => failures[u] + 1 \in 0..(DropAfter - 1)
        BY <3>1
      <3>3. 0 \in 0..(DropAfter - 1)
        BY <3>1
      <3> QED
        BY <1>6, <3>1, <3>2, <3>3 DEF DialFails, DialOpens
    <2>2. dialing' \subseteq Urls /\ resting' \subseteq Urls
      BY <1>0, <1>6 DEF DialFails, DialOpens, Dials
    <2> QED
      BY <2>1, <2>2 DEF Dials
  <1>7. ASSUME NEW n, Accept(n) PROVE Dials'
    BY <1>1, <1>7 DEF Accept
  <1>8. ASSUME NEW c \in Slots, Handshake(c) \/ Ends(c) PROVE Dials'
    BY <1>1, <1>8 DEF Handshake, HelloSelf, HelloBanned, HelloAgain, HelloReady, Ends
  <1>9. ASSUME NEW c \in Slots, Misbehaves(c) \/ Drop(c) PROVE Dials'
    <2>1. conn[c] \in Conns
      BY <1>0, <1>9, ConnFacts DEF Misbehaves, Drop
    <2>2. conn[c].url \in Urls \cup {NoUrl}
      BY <2>1 DEF Conns
    <2>3. resting' \subseteq Urls
      BY <1>0, <1>9, <2>2 DEF Misbehaves, Drop, Ban, Dials
    <2>4. UNCHANGED dialVars
      BY <1>9 DEF Misbehaves, Drop
    <2> QED
      BY <1>0, <2>3, <2>4 DEF Dials, dialVars
  <1>10. ASSUME NEW c, NEW u, PeersFrom(c, u) PROVE Dials'
    BY <1>1, <1>10 DEF PeersFrom
  <1> QED
    BY <1>2, <1>3, <1>4, <1>5, <1>6, <1>7, <1>8, <1>9, <1>10 DEF Next

\* Only other nodes are banned, never this one.
LEMMA StepBarred == PeersInv /\ [Next]_vars => Barred'
  <1> SUFFICES ASSUME PeersInv, [Next]_vars PROVE Barred'
    OBVIOUS
  <1>0. Links /\ Barred
    BY DEF PeersInv
  <1>1. ASSUME UNCHANGED banVars PROVE Barred'
    BY <1>0, <1>1 DEF banVars, Barred, Hosts
  <1>2. CASE Tick \/ UNCHANGED vars
    BY <1>1, <1>2 DEF Tick, vars
  <1>3. CASE BanEnds
    BY <1>0, <1>3 DEF BanEnds, Barred, Hosts
  <1>4. CASE Restart
    BY <1>0, <1>4 DEF Restart, Fresh, Barred, Hosts
  <1>5. ASSUME NEW u \in Urls, RetryDue(u) \/ DialFails(u) \/ DialOpens(u) PROVE Barred'
    BY <1>1, <1>5 DEF RetryDue, DialFails, DialOpens
  <1>6. ASSUME NEW n, Accept(n) PROVE Barred'
    BY <1>1, <1>6 DEF Accept
  <1>7. ASSUME NEW c \in Slots, Handshake(c) \/ Ends(c) PROVE Barred'
    BY <1>1, <1>7 DEF Handshake, HelloSelf, HelloBanned, HelloAgain, HelloReady, Ends
  <1>8. ASSUME NEW c \in Slots, Misbehaves(c) \/ Drop(c) PROVE Barred'
    <2>1. conn[c] \in Conns /\ Link(conn[c])
      BY <1>0, <1>8, ConnFacts DEF Misbehaves, Drop
    <2>2. conn[c].host \in Hosts /\ (conn[c].phase # "hello" => conn[c].node \in Nodes)
      BY <2>1 DEF Conns, Link
    <2>3. CASE Ban(c)
      <3>1. banned' \subseteq Nodes /\ bannedHosts' \subseteq Hosts
        BY <1>0, <2>2, <2>3 DEF Ban, Barred
      <3>2. bans' \in 0..MaxBans
        BY <1>0, <2>3, PeerAssumption DEF Ban, Barred
      <3> QED
        BY <3>1, <3>2 DEF Barred, Hosts
    <2>4. CASE UNCHANGED banVars
      BY <1>1, <2>4
    <2> QED
      BY <1>8, <2>3, <2>4 DEF Misbehaves, Drop
  <1>9. ASSUME NEW c, NEW u, PeersFrom(c, u) PROVE Barred'
    BY <1>1, <1>9 DEF PeersFrom
  <1> QED
    BY <1>2, <1>3, <1>4, <1>5, <1>6, <1>7, <1>8, <1>9 DEF Next

\* Only addresses are remembered and saved.
LEMMA StepFile == PeersInv /\ [Next]_vars => OnFile'
  <1> SUFFICES ASSUME PeersInv, [Next]_vars PROVE OnFile'
    OBVIOUS
  <1>0. Links /\ OnFile
    BY DEF PeersInv
  <1>1. ASSUME UNCHANGED fileVars PROVE OnFile'
    BY <1>0, <1>1 DEF fileVars, OnFile
  <1>2. CASE BanEnds \/ UNCHANGED vars
    BY <1>1, <1>2 DEF BanEnds, vars
  <1>3. CASE Tick
    BY <1>0, <1>3 DEF Tick, Save, OnFile
  <1>4. CASE Restart
    <2>1. saved' \subseteq Urls
      BY <1>0, <1>4 DEF Restart, Save, OnFile
    <2>2. remembered' = Loaded(saved') /\ changed' = FALSE
      BY <1>4 DEF Restart, Fresh
    <2>3. restarts' \in 0..MaxRestarts
      BY <1>0, <1>4, PeerAssumption DEF Restart, OnFile
    <2> QED
      BY <2>1, <2>2, <2>3 DEF Loaded, OnFile
  <1>5. ASSUME NEW u \in Urls, RetryDue(u) \/ DialFails(u) \/ DialOpens(u) PROVE OnFile'
    BY <1>1, <1>5 DEF RetryDue, DialFails, DialOpens
  <1>6. ASSUME NEW n, Accept(n) PROVE OnFile'
    BY <1>1, <1>6 DEF Accept
  <1>7. ASSUME NEW c \in Slots,
               HelloSelf(c) \/ HelloBanned(c) \/ HelloAgain(c) \/ Misbehaves(c) \/ Drop(c) \/ Ends(c)
        PROVE  OnFile'
    BY <1>1, <1>7 DEF HelloSelf, HelloBanned, HelloAgain, Misbehaves, Drop, Ends
  <1>8. ASSUME NEW c \in Slots, HelloReady(c) PROVE OnFile'
    <2>1. CASE UNCHANGED fileVars
      BY <1>1, <2>1
    <2>2. CASE conn[c].outbound /\ Remember(conn[c].url)
      <3>1. conn[c] \in Conns /\ Link(conn[c])
        BY <1>0, <1>8, ConnFacts DEF HelloReady
      <3>2. conn[c].url \in Urls
        BY <2>2, <3>1 DEF Conns, Link
      <3>3. remembered' \subseteq Urls /\ saved' = saved /\ restarts' = restarts
        BY <1>0, <2>2, <3>2 DEF Remember, OnFile
      <3>4. changed' \in BOOLEAN
        BY <2>2 DEF Remember
      <3> QED
        BY <1>0, <3>3, <3>4 DEF OnFile
    <2> QED
      BY <1>8, <2>1, <2>2 DEF HelloReady
  <1>9. ASSUME NEW c, NEW u, PeersFrom(c, u) PROVE OnFile'
    BY <1>1, <1>9 DEF PeersFrom
  <1> QED
    BY <1>2, <1>3, <1>4, <1>5, <1>6, <1>7, <1>8, <1>9 DEF Next, Handshake

-----------------------------------------------------------------------------
(* The connections, after any step *)

Kept == Links /\ Bounded /\ OneConnectionPerNode

\* Ready connections that stay as they are.
LEMMA FewerReady ==
    ASSUME OneConnectionPerNode, Ready' \subseteq Ready,
           \A c \in Ready' : conn'[c].node = conn[c].node
    PROVE  OneConnectionPerNode'
  BY DEF OneConnectionPerNode, ReadyNodes

\* Steps without a change to connections or dials.
LEMMA KeptFrame ==
    ASSUME Dials, Kept, conn' = conn, dialing' \subseteq dialing
    PROVE  Kept'
  <1>1. /\ Open' = Open /\ Outbound' = Outbound /\ Inbound' = Inbound /\ Ready' = Ready
    BY DEF Open, Outbound, Inbound, Ready
  <1>2. Links'
    BY DEF Kept, Links, Link
  <1>3. Bounded'
    BY <1>1, FewerBounded DEF Kept
  <1>4. OneConnectionPerNode'
    BY <1>1, FewerReady DEF Kept
  <1> QED
    BY <1>2, <1>3, <1>4 DEF Kept

\* A connection ends.
LEMMA KeptLeave ==
    ASSUME Dials, Kept, NEW c \in Slots, Leave(c), dialing' = dialing
    PROVE  Kept'
  <1>1. /\ Links' /\ Ready' = Ready \ {c} /\ Outbound' = Outbound \ {c}
        /\ Inbound' = Inbound \ {c} /\ \A d \in Slots \ {c} : conn'[d] = conn[d]
    BY LeftSets DEF Kept
  <1>2. Ready \subseteq Slots /\ Inbound \subseteq Slots
    BY DEF Ready, Inbound, Open
  <1>3. Bounded'
    <2>1. \A d \in Inbound' : conn'[d].host = conn[d].host
      BY <1>1, <1>2
    <2> QED
      BY <1>1, <2>1, FewerBounded DEF Kept
  <1>4. OneConnectionPerNode'
    <2>1. Ready' \subseteq Ready /\ \A d \in Ready' : conn'[d].node = conn[d].node
      BY <1>1, <1>2
    <2> QED
      BY <2>1, FewerReady DEF Kept
  <1> QED
    BY <1>1, <1>3, <1>4 DEF Kept

\* A dial that succeeds turns into an outbound connection.
LEMMA KeptOpens ==
    ASSUME Dials, Kept, NEW u \in Urls, DialOpens(u)
    PROVE  Kept'
  <1> DEFINE r == [phase |-> "hello", node |-> At[u], url |-> u, host |-> UrlHost[u],
                   outbound |-> TRUE]
  <1>1. u # NoUrl /\ UrlHost[u] \in Hosts /\ At[u] \in Nodes \cup {Me}
    BY PeerAssumption DEF DialOpens, Hosts
  <1>2. r \in Conns /\ r.phase = "hello" /\ r.outbound = TRUE /\ r.url = u
    BY <1>1 DEF Conns
  <1>3. Enter(r) /\ u \in dialing /\ dialing' = dialing \ {u}
    BY DEF DialOpens
  <1> HIDE DEF r
  <1>4. Link(r)
    BY <1>1, <1>2 DEF Link
  <1>5. PICK c \in Slots : conn[c] = None /\ conn' = [conn EXCEPT ![c] = r]
    BY <1>3, EnterTakesFree
  <1>6. /\ Links' /\ c \notin Open /\ Ready' = Ready /\ Outbound' = Outbound \cup {c}
        /\ Inbound' = Inbound /\ \A d \in Slots \ {c} : conn'[d] = conn[d]
    BY <1>2, <1>4, <1>5, Entered DEF Kept
  <1>7. /\ Outbound \subseteq Open /\ Inbound \subseteq Open /\ Ready \subseteq Open
        /\ Open \subseteq Slots
    BY DEF Outbound, Inbound, Ready, Open
  <1>8. Cardinality(Outbound') = Cardinality(Outbound) + 1
    BY <1>6, <1>7, CountsFinite, FS_AddElement
  <1>9. Cardinality(dialing') = Cardinality(dialing) - 1
    BY <1>3, CountsFinite, FS_RemoveElement
  <1>10. \A h : InboundFrom(h)' = InboundFrom(h)
    BY <1>6, <1>7 DEF InboundFrom
  <1>11. Cardinality(Outbound') + Cardinality(dialing') <= TargetOutbound
    BY <1>8, <1>9, CountsFinite DEF Kept, Bounded
  <1>12. Bounded'
    BY <1>6, <1>10, <1>11 DEF Kept, Bounded, Hosts
  <1>13. OneConnectionPerNode'
    <2>1. \A d \in Ready' : conn'[d].node = conn[d].node
      BY <1>6, <1>7
    <2> QED
      BY <1>6, <2>1, FewerReady DEF Kept
  <1> QED
    BY <1>6, <1>12, <1>13 DEF Kept

\* A connection that is accepted takes its slot before its handshake.
LEMMA KeptAccept ==
    ASSUME Dials, Kept, NEW n \in Nodes \cup {Me}, Accept(n)
    PROVE  Kept'
  <1> DEFINE r == [phase |-> "hello", node |-> n, url |-> NoUrl, host |-> NodeHost[n],
                   outbound |-> FALSE]
             host == NodeHost[n]
  <1>1. host \in Hosts
    BY DEF Hosts
  <1>2. /\ r \in Conns /\ r.phase = "hello" /\ r.outbound = FALSE /\ r.url = NoUrl
        /\ r.host = host
    BY <1>1 DEF Conns
  <1>3. Enter(r) /\ ~Refused(host) /\ dialing' = dialing
    BY DEF Accept, dialVars
  <1> HIDE DEF r, host
  <1>4. Link(r)
    BY <1>2 DEF Link
  <1>5. PICK c \in Slots : conn[c] = None /\ conn' = [conn EXCEPT ![c] = r]
    BY <1>3, EnterTakesFree
  <1>6. /\ Links' /\ c \notin Open /\ Ready' = Ready /\ Outbound' = Outbound
        /\ Inbound' = Inbound \cup {c} /\ conn'[c] = r
        /\ \A d \in Slots \ {c} : conn'[d] = conn[d]
    BY <1>2, <1>4, <1>5, Entered DEF Kept
  <1>7. Inbound \subseteq Open /\ Ready \subseteq Open /\ Open \subseteq Slots
    BY DEF Inbound, Ready, Open
  <1>8. Cardinality(Inbound') <= MaxInbound
    <2>1. Cardinality(Inbound') = Cardinality(Inbound) + 1
      BY <1>6, <1>7, CountsFinite, FS_AddElement
    <2>2. ~(Cardinality(Inbound) >= MaxInbound)
      BY <1>3 DEF Refused
    <2> QED
      BY <2>1, <2>2, CountsFinite, PeerAssumption
  <1>9. ASSUME NEW h \in Hosts \ Loopback PROVE Cardinality(InboundFrom(h)') <= MaxPerHost
    <2>1. CASE h = host
      <3>1. InboundFrom(h)' = InboundFrom(h) \cup {c} /\ c \notin InboundFrom(h)
        BY <1>2, <1>6, <1>7, <2>1 DEF InboundFrom
      <3>2. Cardinality(InboundFrom(h)') = Cardinality(InboundFrom(h)) + 1
        BY <3>1, CountsFinite, FS_AddElement
      <3>3. ~(Cardinality(InboundFrom(h)) >= MaxPerHost)
        BY <1>3, <2>1 DEF Refused, InboundFrom
      <3> QED
        BY <3>2, <3>3, CountsFinite, PeerAssumption
    <2>2. CASE h # host
      <3>1. InboundFrom(h)' = InboundFrom(h)
        BY <1>2, <1>6, <1>7, <2>2 DEF InboundFrom
      <3> QED
        BY <3>1 DEF Kept, Bounded
    <2> QED
      BY <2>1, <2>2
  <1>10. Bounded'
    BY <1>3, <1>6, <1>8, <1>9 DEF Kept, Bounded, Hosts
  <1>11. OneConnectionPerNode'
    <2>1. \A d \in Ready' : conn'[d].node = conn[d].node
      BY <1>6, <1>7
    <2> QED
      BY <1>6, <2>1, FewerReady DEF Kept
  <1> QED
    BY <1>6, <1>10, <1>11 DEF Kept

\* A connection moves on: ready when it is the only one with its node, or closed.
LEMMA KeptMoved ==
    ASSUME Dials, Kept, NEW c \in Slots, HelloReady(c) \/ Drop(c)
    PROVE  Kept'
  <1>1. dialing' = dialing
    BY DEF HelloReady, Drop, dialVars
  <1>2. CASE HelloReady(c)
    <2>1. /\ conn[c].node \in Nodes /\ c \in Open /\ conn[c].node \notin ReadyNodes
          /\ conn' = [conn EXCEPT ![c].phase = "ready"]
      BY <1>2, ToldFacts DEF HelloReady, AlreadyConnected, Kept
    <2>2. /\ Links' /\ Outbound' = Outbound /\ Inbound' = Inbound /\ Ready' = Ready \cup {c}
          /\ \A d \in Slots : conn'[d].node = conn[d].node /\ conn'[d].host = conn[d].host
      BY <2>1, Moved DEF Kept
    <2>3. Ready \subseteq Slots /\ Inbound \subseteq Slots
      BY DEF Ready, Inbound, Open
    <2>4. Bounded'
      BY <1>1, <2>2, <2>3, FewerBounded DEF Kept
    <2>5. OneConnectionPerNode'
      <3>1. ReadyNodes' = ReadyNodes \cup {conn[c].node}
        BY <2>2, <2>3 DEF ReadyNodes
      <3>2. \A d \in Ready : conn[d].node # conn[c].node
        BY <2>1 DEF ReadyNodes
      <3>3. \A d, e \in Ready : conn[d].node = conn[e].node => d = e
        BY DEF Kept, OneConnectionPerNode
      <3>4. \A d, e \in Ready' : conn'[d].node = conn'[e].node => d = e
        BY <2>2, <2>3, <3>2, <3>3
      <3>5. Me \notin ReadyNodes'
        BY <2>1, <3>1, PeerAssumption DEF Kept, OneConnectionPerNode
      <3> QED
        BY <3>4, <3>5 DEF OneConnectionPerNode
    <2> QED
      BY <2>2, <2>4, <2>5 DEF Kept
  <1>3. CASE Drop(c)
    <2>1. conn[c].phase = "ready" /\ conn' = [conn EXCEPT ![c].phase = "closed"]
      BY <1>3 DEF Drop
    <2>2. c \in Open /\ conn[c].node \in Nodes
      BY <2>1, ConnFacts DEF Kept, Link
    <2>3. /\ Links' /\ Outbound' = Outbound /\ Inbound' = Inbound /\ Ready' = Ready \ {c}
          /\ \A d \in Slots : conn'[d].node = conn[d].node /\ conn'[d].host = conn[d].host
      BY <2>1, <2>2, Moved DEF Kept
    <2>4. Ready \subseteq Slots /\ Inbound \subseteq Slots
      BY DEF Ready, Inbound, Open
    <2>5. Bounded'
      BY <1>1, <2>3, <2>4, FewerBounded DEF Kept
    <2>6. OneConnectionPerNode'
      BY <2>3, <2>4, FewerReady DEF Kept
    <2> QED
      BY <2>3, <2>5, <2>6 DEF Kept
  <1> QED
    BY <1>2, <1>3

\* Without connections nothing is counted.
LEMMA KeptNone ==
    ASSUME conn = [c \in Slots |-> None], dialing = {}
    PROVE  Kept
  <1>1. Open = {} /\ Outbound = {} /\ Inbound = {} /\ Ready = {}
    BY DEF Open, Outbound, Inbound, Ready
  <1>2. Links
    <2>1. Link(None)
      BY DEF Link, None
    <2> QED
      BY <2>1 DEF Links
  <1>3. Bounded
    <2>1. Cardinality({}) = 0
      BY FS_EmptySet
    <2>2. \A h : InboundFrom(h) = {}
      BY <1>1 DEF InboundFrom
    <2>3. /\ Cardinality(Outbound) = 0 /\ Cardinality(dialing) = 0 /\ Cardinality(Inbound) = 0
          /\ \A h : Cardinality(InboundFrom(h)) = 0
      BY <1>1, <2>1, <2>2
    <2>4. 0 + 0 <= TargetOutbound /\ 0 <= MaxInbound /\ 0 <= MaxPerHost
      BY PeerAssumption
    <2> QED
      BY <2>3, <2>4 DEF Bounded
  <1>4. OneConnectionPerNode
    BY <1>1 DEF OneConnectionPerNode, ReadyNodes
  <1> QED
    BY <1>2, <1>3, <1>4 DEF Kept

\* Limits and handshakes, after any step.
LEMMA StepKept == PeersInv /\ [Next]_vars => Kept'
  <1> SUFFICES ASSUME PeersInv, [Next]_vars PROVE Kept'
    OBVIOUS
  <1>0. Tables /\ Dials /\ Kept
    BY DEF PeersInv, Kept
  <1>1. CASE BanEnds \/ UNCHANGED vars
    BY <1>0, <1>1, KeptFrame DEF BanEnds, vars, dialVars
  <1>2. CASE Tick
    <2>1. dialing' = dialing \cup ToDial /\ conn' = conn
      BY <1>2 DEF Tick
    <2>2. /\ Open' = Open /\ Outbound' = Outbound /\ Inbound' = Inbound /\ Ready' = Ready
          /\ \A h : InboundFrom(h)' = InboundFrom(h)
      BY <2>1 DEF Open, Outbound, Inbound, Ready, InboundFrom
    <2>3. Cardinality(Outbound) + Cardinality(dialing \cup ToDial) <= TargetOutbound
      BY <1>0, DialsFit DEF Kept
    <2>4. Bounded'
      BY <1>0, <2>1, <2>2, <2>3 DEF Kept, Bounded, Hosts
    <2>5. Links' /\ OneConnectionPerNode'
      BY <1>0, <2>1, <2>2, FewerReady DEF Kept, Links, Link
    <2> QED
      BY <2>4, <2>5 DEF Kept
  <1>3. CASE Restart
    <2>1. (conn = [c \in Slots |-> None])' /\ (dialing = {})'
      BY <1>3 DEF Restart, Fresh
    <2> QED
      BY <2>1, KeptNone, PTL
  <1>4. ASSUME NEW u \in Urls, RetryDue(u) \/ DialFails(u) PROVE Kept'
    BY <1>0, <1>4, KeptFrame DEF RetryDue, DialFails, dialVars
  <1>5. ASSUME NEW u \in Urls, DialOpens(u) PROVE Kept'
    BY <1>0, <1>5, KeptOpens
  <1>6. ASSUME NEW n \in Nodes \cup {Me}, Accept(n) PROVE Kept'
    BY <1>0, <1>6, KeptAccept
  <1>7. ASSUME NEW c \in Slots,
               HelloSelf(c) \/ HelloBanned(c) \/ HelloAgain(c) \/ Misbehaves(c) \/ Ends(c)
        PROVE  Kept'
    BY <1>0, <1>7, KeptLeave DEF HelloSelf, HelloBanned, HelloAgain, Misbehaves, Ends, dialVars
  <1>8. ASSUME NEW c \in Slots, HelloReady(c) \/ Drop(c) PROVE Kept'
    BY <1>0, <1>8, KeptMoved
  <1>9. ASSUME NEW c, NEW u, PeersFrom(c, u) PROVE Kept'
    BY <1>0, <1>9, KeptFrame DEF PeersFrom, dialVars
  <1> QED
    BY <1>1, <1>2, <1>3, <1>4, <1>5, <1>6, <1>7, <1>8, <1>9 DEF Next, Handshake

\* A private address enters the table and is dialed only when someone vouched for it.
LEMMA StepPrivate == PeersInv /\ [Next]_vars => PrivateVouched'
  <1> SUFFICES ASSUME PeersInv, [Next]_vars PROVE PrivateVouched'
    OBVIOUS
  <1>0. Tables /\ Dials /\ Links /\ OnFile /\ Bounded /\ PrivateVouched
    BY DEF PeersInv
  <1>1. ASSUME Known' \subseteq Known, dialing' \subseteq Known \cup dialing,
               privateOk \subseteq privateOk'
        PROVE  PrivateVouched'
    BY <1>0, <1>1 DEF PrivateVouched, Private
  <1>2. ASSUME UNCHANGED tableVars PROVE Known' = Known /\ privateOk' = privateOk
    BY <1>2 DEF tableVars, Known
  <1>3. ASSUME NEW u \in Urls, NEW host, Learn(u, host), MeaningfulBetween(host, u),
               dialing' = dialing
        PROVE  PrivateVouched'
    <2>1. /\ privateOk \subseteq privateOk' /\ Known' \subseteq Known \cup {u}
          /\ u \in Known' => (Private(u) => u \in privateOk')
      BY <1>0, <1>3, Learned
    <2> QED
      BY <1>0, <1>3, <2>1 DEF PrivateVouched, Private
  <1>4. CASE BanEnds \/ UNCHANGED vars
    <2>1. UNCHANGED tableVars /\ dialing' = dialing
      BY <1>4 DEF BanEnds, vars, dialVars
    <2> QED
      BY <1>1, <1>2, <2>1
  <1>5. CASE Tick
    <2>1. UNCHANGED tableVars /\ dialing' = dialing \cup ToDial
      BY <1>5 DEF Tick
    <2>2. ToDial \subseteq Known
      BY <1>0, DialsFit DEF Known
    <2> QED
      BY <1>1, <1>2, <2>1, <2>2
  <1>6. CASE Restart
    <2>1. saved' \in SUBSET Urls
      BY <1>0, <1>6 DEF Restart, Save, OnFile
    <2>2. /\ addresses' \in FirstAddresses(saved') /\ dialing' = {}
          /\ privateOk' = Connect \cup {u \in Loaded(saved') : Private(u)}
      BY <1>6 DEF Restart, Fresh
    <2>3. Known' \subseteq Configured \cup Loaded(saved')
      BY <2>1, <2>2, FirstFacts DEF Known
    <2> QED
      BY <2>2, <2>3 DEF PrivateVouched, Configured, Private
  <1>7. ASSUME NEW u \in Urls, RetryDue(u) \/ DialOpens(u) PROVE PrivateVouched'
    <2>1. UNCHANGED tableVars /\ dialing' \subseteq dialing
      BY <1>7 DEF RetryDue, DialOpens, dialVars
    <2> QED
      BY <1>1, <1>2, <2>1
  <1>8. ASSUME NEW u \in Urls, DialFails(u) PROVE PrivateVouched'
    <2>1. dialing' \subseteq dialing /\ privateOk' = privateOk
      BY <1>8 DEF DialFails
    <2>2. Known' \subseteq Known
      <3>1. CASE Drops(u) /\ u \in Known
        <4> DEFINE p == CHOOSE i \in DOMAIN addresses : addresses[i] = u
        <4>1. p \in DOMAIN addresses
          BY <3>1 DEF Known, Range
        <4>2. addresses' = RemoveAt(addresses, p)
          BY <1>8, <3>1 DEF DialFails
        <4> HIDE DEF p
        <4> QED
          BY <1>0, <4>1, <4>2, Removed DEF Tables, Known
      <3>2. CASE ~(Drops(u) /\ u \in Known)
        BY <1>8, <3>2 DEF DialFails, Known
      <3> QED
        BY <3>1, <3>2
    <2> QED
      BY <1>1, <2>1, <2>2
  <1>9. ASSUME NEW n, Accept(n) PROVE PrivateVouched'
    BY <1>1, <1>2, <1>9 DEF Accept, dialVars
  <1>10. ASSUME NEW c \in Slots, HelloBanned(c) \/ Misbehaves(c) \/ Drop(c) \/ Ends(c)
         PROVE  PrivateVouched'
    BY <1>1, <1>2, <1>10 DEF HelloBanned, Misbehaves, Drop, Ends, dialVars
  <1>11. ASSUME NEW c \in Slots, HelloSelf(c) \/ HelloAgain(c) PROVE PrivateVouched'
    <2>1. addresses' = addresses /\ privateOk' = privateOk /\ dialing' = dialing
      BY <1>11 DEF HelloSelf, HelloAgain, dialVars
    <2> QED
      BY <1>1, <2>1 DEF Known
  <1>12. ASSUME NEW c \in Slots, HelloReady(c) PROVE PrivateVouched'
    <2>1. dialing' = dialing
      BY <1>12 DEF HelloReady, dialVars
    <2>2. CASE addresses' = addresses /\ privateOk' = privateOk
      BY <1>1, <2>1, <2>2 DEF Known
    <2>3. CASE \E u \in Told(c) : Learn(u, conn[c].host)
      <3>1. \A u \in Told(c) : u \in Urls /\ MeaningfulBetween(conn[c].host, u)
        BY <1>0, <1>12, ToldFacts DEF HelloReady
      <3> QED
        BY <1>3, <2>1, <2>3, <3>1
    <2> QED
      BY <1>12, <2>2, <2>3 DEF HelloReady
  <1>13. ASSUME NEW c \in Slots, NEW u \in Urls, PeersFrom(c, u) PROVE PrivateVouched'
    BY <1>3, <1>13 DEF PeersFrom, dialVars
  <1> QED
    BY <1>4, <1>5, <1>6, <1>7, <1>8, <1>9, <1>10, <1>11, <1>12, <1>13 DEF Next, Handshake

\* A process starts without connections.
LEMMA InitPeers == Init => PeersInv
  <1> SUFFICES ASSUME Init PROVE PeersInv
    OBVIOUS
  <1>1. addresses \in Seq(Urls) /\ IsInjective(addresses) /\ Known \subseteq Configured \cup Loaded({})
    BY FirstFacts DEF Init, Known
  <1>2. Tables
    BY <1>1, PeerAssumption DEF Init, Tables
  <1>3. Dials
    <2>1. 0 \in 0..(DropAfter - 1)
      BY PeerAssumption
    <2> QED
      BY <2>1 DEF Init, Dials
  <1>4. Barred /\ OnFile
    <2>1. 0 \in 0..MaxBans /\ 0 \in 0..MaxRestarts
      BY PeerAssumption
    <2> QED
      BY <2>1 DEF Init, Barred, OnFile
  <1>5. Kept
    BY KeptNone DEF Init
  <1>6. PrivateVouched
    BY <1>1 DEF Init, PrivateVouched, Configured, Loaded
  <1> QED
    BY <1>2, <1>3, <1>4, <1>5, <1>6 DEF PeersInv, Kept

\* The invariant holds of every step.
LEMMA StepPeers == PeersInv /\ [Next]_vars => PeersInv'
  BY StepTables, StepDials, StepBarred, StepFile, StepKept, StepPrivate DEF PeersInv, Kept

\* The invariant holds of every behaviour.
LEMMA PeersInvariant == Spec => []PeersInv
  BY InitPeers, StepPeers, PTL DEF Spec

-----------------------------------------------------------------------------
(* Theorems *)

\* There are never more connections than wanted, whatever dials, handshakes and
\* drops are under way, for any limits and any number of nodes.
THEOREM SlotsAreBounded == Spec => []SlotsBounded
  <1>1. PeersInv => SlotsBounded
    <2> SUFFICES ASSUME PeersInv PROVE SlotsBounded
      OBVIOUS
    <2>1. \A c \in Slots : conn[c].outbound = (conn[c].url # NoUrl)
      BY DEF PeersInv, Links, Link
    <2>2. PeerTypeOK
      BY <2>1 DEF PeersInv, Tables, Dials, Barred, OnFile, Links, PeerTypeOK
    <2> QED
      BY <2>2 DEF PeersInv, Bounded, InboundFrom, SlotsBounded
  <1> QED
    BY <1>1, PeersInvariant, PTL

\* However many connections two nodes open to each other at the same time, one
\* handshake succeeds, and none with this node itself.
THEOREM OneConnectionEach == Spec => []OneConnectionPerNode
  <1>1. PeersInv => OneConnectionPerNode
    BY DEF PeersInv
  <1> QED
    BY <1>1, PeersInvariant, PTL

\* No stranger makes this node know or dial a private address.
THEOREM PrivateIsVouched == Spec => []PrivateVouched
  <1>1. PeersInv => PrivateVouched
    BY DEF PeersInv
  <1> QED
    BY <1>1, PeersInvariant, PTL

\* What a ban of a node forbids, and what one of a host does.
NodesBarred == ReadyNodes' \cap banned' \subseteq ReadyNodes \cap (banned \cup ClosedNodes)
HostsBarred ==
    \A h \in bannedHosts \cap bannedHosts' :
        InboundFrom(h)' \subseteq InboundFrom(h) /\ Toward(h)' \subseteq Toward(h)

\* No connection becomes ready and no node is banned.
LEMMA NoneReady ==
    ASSUME Ready' \subseteq Ready, \A c \in Ready' : conn'[c].node = conn[c].node,
           banned' \subseteq banned
    PROVE  NodesBarred
  BY DEF NodesBarred, ReadyNodes

\* No connection is opened and no dial is started.
LEMMA NoneOpened ==
    ASSUME Inbound' \subseteq Inbound, \A c \in Inbound' : conn'[c].host = conn[c].host,
           Outbound' \subseteq Outbound, \A c \in Outbound' : conn'[c].url = conn[c].url,
           dialing' \subseteq dialing
    PROVE  HostsBarred
  BY DEF HostsBarred, InboundFrom, Toward

\* A ban for what came over connection c, which is no longer ready.
LEMMA BarredBy ==
    ASSUME PeersInv, NEW c \in Open, Ban(c), Ready' = Ready \ {c},
           \A d \in Ready' : conn'[d].node = conn[d].node
    PROVE  NodesBarred
  <1> SUFFICES ASSUME NEW d \in Ready, d # c, conn[d].node \in banned'
               PROVE  conn[d].node \in banned \cup ClosedNodes
    BY DEF NodesBarred, ReadyNodes
  <1>1. CASE conn[d].node \in banned
    BY <1>1
  <1>2. CASE conn[d].node \notin banned
    <2>1. conn[c].phase # "hello" /\ conn[d].node = conn[c].node
      BY <1>2 DEF Ban
    <2>2. conn[c].phase \in {"ready", "closed"}
      <3>1. c \in Slots /\ conn[c] \in Conns
        BY ConnFacts DEF PeersInv, Open
      <3> QED
        BY <2>1, <3>1 DEF Conns
    <2>3. conn[c].phase # "ready"
      BY <2>1 DEF PeersInv, OneConnectionPerNode, Ready
    <2> QED
      BY <2>1, <2>2, <2>3 DEF ClosedNodes
  <1> QED
    BY <1>1, <1>2

\* A connection ends, with a ban or without one.
LEMMA BarredLeave ==
    ASSUME PeersInv, NEW c \in Slots, Leave(c), dialing' = dialing,
           banned' = banned \/ (c \in Open /\ Ban(c))
    PROVE  NodesBarred /\ HostsBarred
  <1>1. /\ Ready' = Ready \ {c} /\ Outbound' = Outbound \ {c} /\ Inbound' = Inbound \ {c}
        /\ \A d \in Slots \ {c} : conn'[d] = conn[d]
    BY LeftSets DEF PeersInv
  <1>2. Ready \subseteq Slots /\ Inbound \subseteq Slots /\ Outbound \subseteq Slots
    BY DEF Ready, Inbound, Outbound, Open
  <1>3. NodesBarred
    <2>1. \A d \in Ready' : conn'[d].node = conn[d].node
      BY <1>1, <1>2
    <2> QED
      BY <1>1, <2>1, NoneReady, BarredBy
  <1>4. HostsBarred
    <2>1. /\ \A d \in Inbound' : conn'[d].host = conn[d].host
          /\ \A d \in Outbound' : conn'[d].url = conn[d].url
      BY <1>1, <1>2
    <2> QED
      BY <1>1, <2>1, NoneOpened
  <1> QED
    BY <1>3, <1>4

\* No connection changes.
LEMMA BarredFrame ==
    ASSUME conn' = conn, banned' \subseteq banned
    PROVE  NodesBarred /\ (dialing' \subseteq dialing => HostsBarred)
  <1>1. Open' = Open /\ Outbound' = Outbound /\ Inbound' = Inbound /\ Ready' = Ready
    BY DEF Open, Outbound, Inbound, Ready
  <1>2. NodesBarred
    BY <1>1, NoneReady
  <1>3. dialing' \subseteq dialing => HostsBarred
    BY <1>1, NoneOpened
  <1> QED
    BY <1>2, <1>3

\* _dial_more passes over the addresses of banned hosts.
LEMMA BarredTick ==
    ASSUME PeersInv, Tick
    PROVE  NodesBarred /\ HostsBarred
  <1>1. conn' = conn /\ banned' = banned /\ bannedHosts' = bannedHosts /\ dialing' = dialing \cup ToDial
    BY DEF Tick, banVars
  <1>2. \A u \in ToDial : UrlHost[u] \notin bannedHosts
    BY DEF ToDial, CanDial
  <1>3. Open' = Open /\ Outbound' = Outbound /\ Inbound' = Inbound
    BY <1>1 DEF Open, Outbound, Inbound
  <1>4. HostsBarred
    <2> SUFFICES ASSUME NEW h \in bannedHosts
                 PROVE  InboundFrom(h)' \subseteq InboundFrom(h) /\ Toward(h)' \subseteq Toward(h)
      BY DEF HostsBarred
    <2>1. InboundFrom(h)' = InboundFrom(h)
      BY <1>1, <1>3 DEF InboundFrom
    <2>2. Toward(h)' \subseteq Toward(h)
      BY <1>1, <1>2, <1>3 DEF Toward
    <2> QED
      BY <2>1, <2>2
  <1> QED
    BY <1>1, <1>4, BarredFrame

\* A dial that succeeds was under way.
LEMMA BarredOpens ==
    ASSUME PeersInv, NEW u \in Urls, DialOpens(u)
    PROVE  NodesBarred /\ HostsBarred
  <1> DEFINE r == [phase |-> "hello", node |-> At[u], url |-> u, host |-> UrlHost[u],
                   outbound |-> TRUE]
  <1>1. u # NoUrl /\ UrlHost[u] \in Hosts /\ At[u] \in Nodes \cup {Me}
    BY PeerAssumption DEF DialOpens, Hosts
  <1>2. r \in Conns /\ r.phase = "hello" /\ r.outbound = TRUE /\ r.url = u
    BY <1>1 DEF Conns
  <1>3. Enter(r) /\ u \in dialing /\ dialing' = dialing \ {u} /\ banned' = banned
    BY DEF DialOpens, banVars
  <1> HIDE DEF r
  <1>4. Link(r)
    BY <1>1, <1>2 DEF Link
  <1>5. PICK c \in Slots : conn[c] = None /\ conn' = [conn EXCEPT ![c] = r]
    BY <1>3, EnterTakesFree
  <1>6. /\ c \notin Open /\ Ready' = Ready /\ Outbound' = Outbound \cup {c}
        /\ Inbound' = Inbound /\ conn'[c] = r /\ \A d \in Slots \ {c} : conn'[d] = conn[d]
    BY <1>2, <1>4, <1>5, Entered DEF PeersInv
  <1>7. /\ Outbound \subseteq Open /\ Inbound \subseteq Open /\ Ready \subseteq Open
        /\ Open \subseteq Slots
    BY DEF Outbound, Inbound, Ready, Open
  <1>8. \A d \in Open : conn'[d] = conn[d]
    BY <1>6, <1>7
  <1>9. NodesBarred
    BY <1>3, <1>6, <1>7, <1>8, NoneReady
  <1>10. HostsBarred
    <2> SUFFICES ASSUME NEW h
                 PROVE  InboundFrom(h)' \subseteq InboundFrom(h) /\ Toward(h)' \subseteq Toward(h)
      BY DEF HostsBarred
    <2>1. InboundFrom(h)' = InboundFrom(h)
      BY <1>6, <1>7, <1>8 DEF InboundFrom
    <2>2. {conn'[d].url : d \in Outbound'} \subseteq {conn[d].url : d \in Outbound} \cup {u}
      BY <1>2, <1>6, <1>7, <1>8
    <2>3. Toward(h)' \subseteq Toward(h)
      BY <1>3, <2>2 DEF Toward
    <2> QED
      BY <2>1, <2>3
  <1> QED
    BY <1>9, <1>10

\* inbound_refusal turns banned hosts away.
LEMMA BarredAccept ==
    ASSUME PeersInv, NEW n \in Nodes \cup {Me}, Accept(n)
    PROVE  NodesBarred /\ HostsBarred
  <1> DEFINE r == [phase |-> "hello", node |-> n, url |-> NoUrl, host |-> NodeHost[n],
                   outbound |-> FALSE]
             host == NodeHost[n]
  <1>1. host \in Hosts
    BY DEF Hosts
  <1>2. /\ r \in Conns /\ r.phase = "hello" /\ r.outbound = FALSE /\ r.url = NoUrl
        /\ r.host = host
    BY <1>1 DEF Conns
  <1>3. Enter(r) /\ host \notin bannedHosts /\ dialing' = dialing /\ banned' = banned
    BY DEF Accept, Refused, dialVars, banVars
  <1> HIDE DEF r, host
  <1>4. Link(r)
    BY <1>2 DEF Link
  <1>5. PICK c \in Slots : conn[c] = None /\ conn' = [conn EXCEPT ![c] = r]
    BY <1>3, EnterTakesFree
  <1>6. /\ c \notin Open /\ Ready' = Ready /\ Outbound' = Outbound
        /\ Inbound' = Inbound \cup {c} /\ conn'[c] = r
        /\ \A d \in Slots \ {c} : conn'[d] = conn[d]
    BY <1>2, <1>4, <1>5, Entered DEF PeersInv
  <1>7. /\ Outbound \subseteq Open /\ Inbound \subseteq Open /\ Ready \subseteq Open
        /\ Open \subseteq Slots
    BY DEF Outbound, Inbound, Ready, Open
  <1>8. \A d \in Open : conn'[d] = conn[d]
    BY <1>6, <1>7
  <1>9. NodesBarred
    BY <1>3, <1>6, <1>7, <1>8, NoneReady
  <1>10. HostsBarred
    <2> SUFFICES ASSUME NEW h \in bannedHosts
                 PROVE  InboundFrom(h)' \subseteq InboundFrom(h) /\ Toward(h)' \subseteq Toward(h)
      BY DEF HostsBarred
    <2>1. InboundFrom(h)' \subseteq InboundFrom(h)
      BY <1>2, <1>3, <1>6, <1>7, <1>8 DEF InboundFrom
    <2>2. Toward(h)' \subseteq Toward(h)
      BY <1>3, <1>6, <1>7, <1>8 DEF Toward
    <2> QED
      BY <2>1, <2>2
  <1> QED
    BY <1>9, <1>10

\* A handshake succeeds for a node that is not banned; a connection is dropped.
LEMMA BarredMoved ==
    ASSUME PeersInv, NEW c \in Slots, HelloReady(c) \/ Drop(c)
    PROVE  NodesBarred /\ HostsBarred
  <1>1. dialing' = dialing
    BY DEF HelloReady, Drop, dialVars
  <1>2. Ready \subseteq Slots /\ Inbound \subseteq Slots /\ Outbound \subseteq Slots
    BY DEF Ready, Inbound, Outbound, Open
  <1>3. CASE HelloReady(c)
    <2>1. /\ conn[c].node \in Nodes /\ c \in Open /\ conn[c].node \notin banned /\ banned' = banned
          /\ conn' = [conn EXCEPT ![c].phase = "ready"]
      BY <1>3, ToldFacts DEF HelloReady, Admitted, PeersInv, banVars
    <2>2. /\ Outbound' = Outbound /\ Inbound' = Inbound /\ Ready' = Ready \cup {c}
          /\ \A d \in Slots : /\ conn'[d].node = conn[d].node /\ conn'[d].host = conn[d].host
                              /\ conn'[d].url = conn[d].url
      BY <2>1, Moved DEF PeersInv
    <2>3. NodesBarred
      BY <1>2, <2>1, <2>2 DEF NodesBarred, ReadyNodes
    <2> QED
      BY <1>1, <1>2, <2>2, <2>3, NoneOpened
  <1>4. CASE Drop(c)
    <2>1. conn[c].phase = "ready" /\ conn' = [conn EXCEPT ![c].phase = "closed"]
      BY <1>4 DEF Drop
    <2>2. c \in Open /\ conn[c].node \in Nodes
      BY <2>1, ConnFacts DEF PeersInv, Link
    <2>3. /\ Outbound' = Outbound /\ Inbound' = Inbound /\ Ready' = Ready \ {c}
          /\ \A d \in Slots : /\ conn'[d].node = conn[d].node /\ conn'[d].host = conn[d].host
                              /\ conn'[d].url = conn[d].url
      BY <2>1, <2>2, Moved DEF PeersInv
    <2>4. Ban(c) \/ banned' = banned
      BY <1>4 DEF Drop, banVars
    <2>5. NodesBarred
      BY <1>2, <2>2, <2>3, <2>4, NoneReady, BarredBy
    <2> QED
      BY <1>1, <1>2, <2>3, <2>5, NoneOpened
  <1> QED
    BY <1>3, <1>4

\* A banned node is not a ready peer, and a banned host gets no connection it did
\* not have, whatever handshakes and dials were under way at the ban, for any number
\* of nodes, addresses and connections.
THEOREM BansHold == Spec => BanHolds
  <1> DEFINE Bans ==
        /\ ReadyNodes' \cap banned' \subseteq ReadyNodes \cap (banned \cup ClosedNodes)
        /\ \A h \in bannedHosts \cap bannedHosts' :
              InboundFrom(h)' \subseteq InboundFrom(h) /\ Toward(h)' \subseteq Toward(h)
  <1>1. PeersInv /\ [Next]_vars => [Bans]_vars
    <2> SUFFICES ASSUME PeersInv, Next PROVE NodesBarred /\ HostsBarred
      BY DEF NodesBarred, HostsBarred
    <2>1. CASE BanEnds
      BY <2>1, BarredFrame DEF BanEnds, dialVars
    <2>2. CASE Restart
      BY <2>2 DEF Restart, Fresh, NodesBarred, HostsBarred
    <2>3. ASSUME NEW u \in Urls, RetryDue(u) \/ DialFails(u) PROVE NodesBarred /\ HostsBarred
      BY <2>3, BarredFrame DEF RetryDue, DialFails, dialVars, banVars
    <2>4. ASSUME NEW c \in Slots,
                 HelloSelf(c) \/ HelloBanned(c) \/ HelloAgain(c) \/ Misbehaves(c) \/ Ends(c)
          PROVE  NodesBarred /\ HostsBarred
      BY <2>4, BarredLeave
      DEF HelloSelf, HelloBanned, HelloAgain, Misbehaves, Ends, dialVars, banVars
    <2>5. ASSUME NEW c, NEW u, PeersFrom(c, u) PROVE NodesBarred /\ HostsBarred
      BY <2>5, BarredFrame DEF PeersFrom, dialVars, banVars
    <2> QED
      BY <2>1, <2>2, <2>3, <2>4, <2>5, BarredTick, BarredOpens, BarredAccept, BarredMoved
      DEF Next, Handshake
  <1>2. Spec => [][Next]_vars
    BY PTL DEF Spec
  <1>3. Spec => [][Bans]_vars
    BY <1>1, <1>2, PeersInvariant, PTL
  <1> QED
    BY <1>3 DEF BanHolds
=============================================================================
