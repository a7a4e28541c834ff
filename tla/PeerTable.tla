------------------------------ MODULE PeerTable ------------------------------
(***************************************************************************)
(* The connections of PeerManager (node/p2p.py): which addresses it knows, *)
(* dials and remembers, which connections it accepts, the handshake, bans, *)
(* and what a restart leaves of it.                                        *)
(*                                                                         *)
(* Everything runs on one event loop: an action is what happens between    *)
(* two awaits.  Time is abstracted: retry_at and the bans hold until a     *)
(* step says they are over.  What open connections exchange about blocks   *)
(* is PeerSync's subject.                                                  *)
(***************************************************************************)
EXTENDS Integers, Sequences, FiniteSets, SequencesExt

CONSTANTS
    Urls,         \* the addresses there are
    Rank,         \* Rank[url]: its place in the configuration and in the sorted file
    Connect,      \* config.connect
    Seeds,        \* config.seeds
    ListenUrl,    \* config.listen_url, or NoUrl
    NoUrl,
    Me,           \* this node's own id
    Nodes,        \* the other nodes
    At,           \* At[url]: the node that answers there
    UrlHost,      \* UrlHost[url]: its host
    NodeHost,     \* NodeHost[n]: the host a node connects from
    Listen,       \* Listen[n]: the address a node says it listens on
    LocalHosts,   \* hosts that is_local holds for
    Loopback,     \* hosts that is_loopback holds for
    TargetOutbound, MaxInbound,
    MaxPerHost,   \* MAX_INBOUND_PER_HOST
    DropAfter,    \* ten failures; more are not counted
    Slots,        \* names for connections
    MaxBans, MaxRestarts  \* bounds of the model

ASSUME PeerAssumption ==
    /\ IsFiniteSet(Urls) /\ Rank \in [Urls -> Nat] /\ IsInjective(Rank)
    /\ Connect \subseteq Urls /\ Seeds \subseteq Urls /\ NoUrl \notin Urls
    /\ ListenUrl \in Urls \cup {NoUrl} /\ Me \notin Nodes
    /\ \A n \in Nodes : Listen[n] \in Urls \cup {NoUrl}
    /\ IsFiniteSet(Slots)
    /\ TargetOutbound \in Nat /\ MaxInbound \in Nat /\ MaxPerHost \in Nat
    /\ DropAfter \in Nat \ {0} /\ MaxBans \in Nat /\ MaxRestarts \in Nat

VARIABLES
    addresses,    \* in the order they are dialed
    privateOk,    \* private_addresses
    selfUrls,
    urlNode,      \* url_node; Me where nothing is known
    dialing, failures,
    resting,      \* addresses whose retry_at is still to come
    banned, bannedHosts, remembered,
    changed,      \* _remembered_changed
    saved,        \* peers.json
    conn,         \* self.peers
    bans, restarts

tableVars == <<addresses, privateOk, selfUrls, urlNode>>
dialVars == <<dialing, failures>>
banVars == <<banned, bannedHosts, bans>>
fileVars == <<remembered, changed, saved, restarts>>
vars == <<tableVars, dialVars, resting, banVars, fileVars, conn>>

Configured == Connect \cup Seeds
Hosts == {UrlHost[u] : u \in Urls} \cup {NodeHost[n] : n \in Nodes \cup {Me}}

\* A connection: dialed or accepted, before its hello, ready, or marked closed
\* while its reader has not ended.
None == [phase |-> "none", node |-> Me, url |-> NoUrl, host |-> "", outbound |-> FALSE]
Conns == [phase : {"hello", "ready", "closed"}, node : Nodes \cup {Me},
          url : Urls \cup {NoUrl}, host : Hosts, outbound : BOOLEAN]

PeerTypeOK ==
    /\ addresses \in Seq(Urls) /\ IsInjective(addresses)
    /\ privateOk \subseteq Urls /\ selfUrls \subseteq Urls
    /\ urlNode \in [Urls -> Nodes \cup {Me}]
    /\ dialing \subseteq Urls /\ failures \in [Urls -> 0..(DropAfter - 1)]
    /\ resting \subseteq Urls /\ banned \subseteq Nodes /\ bannedHosts \subseteq Hosts
    /\ remembered \subseteq Urls /\ changed \in BOOLEAN /\ saved \subseteq Urls
    /\ conn \in [Slots -> Conns \cup {None}]
    /\ \A c \in Slots : conn[c].outbound = (conn[c].url # NoUrl)
    /\ bans \in 0..MaxBans /\ restarts \in 0..MaxRestarts

-----------------------------------------------------------------------------
Known == Range(addresses)
Open == {c \in Slots : conn[c] # None}
Outbound == {c \in Open : conn[c].outbound}
Inbound == Open \ Outbound

\* ready_peers
Ready == {c \in Open : conn[c].phase = "ready"}
ReadyNodes == {conn[c].node : c \in Ready}

Private(u) == UrlHost[u] \in LocalHosts

\* Mutant: any address is taken from anyone.
MeaningfulAnywhere(host, u) == TRUE

\* _meaningful_between
MeaningfulBetween(host, u) == host \in LocalHosts \/ ~Private(u)

\* A connection takes a free slot.
Enter(r) ==
    /\ Open # Slots
    /\ conn' = [conn EXCEPT ![CHOOSE c \in Slots : conn[c] = None] = r]

Leave(c) == conn' = [conn EXCEPT ![c] = None]

\* _learn; the bound of 1,000 addresses is out of reach of the model.
Learn(u, host) ==
    /\ addresses' = IF u \in Known \cup selfUrls THEN addresses ELSE Append(addresses, u)
    /\ privateOk' = IF u \in Range(addresses') /\ host \in LocalHosts
                    THEN privateOk \cup {u} ELSE privateOk

\* _remember
Remember(u) ==
    /\ remembered' = IF u \in selfUrls THEN remembered ELSE remembered \cup {u}
    /\ changed' = (changed \/ u \notin remembered \cup selfUrls)
    /\ UNCHANGED <<saved, restarts>>

\* _ban: the node id once it is known, the address that was dialed, the host
\* unless it is this computer.
Ban(c) ==
    LET p == conn[c]
    IN  /\ bans < MaxBans /\ bans' = bans + 1
        /\ banned' = IF p.phase = "hello" THEN banned ELSE banned \cup {p.node}
        /\ resting' = resting \cup ({p.url} \ {NoUrl})
        /\ bannedHosts' = bannedHosts \cup ({p.host} \ Loopback)

-----------------------------------------------------------------------------
(* run: every CHECK_INTERVAL *)

\* Mutant: connections that are still being dialed don't count.
OutboundInUse0 == Cardinality(Outbound)

OutboundInUse == Cardinality(Outbound) + Cardinality(dialing)

\* Mutant: a banned host is dialed.
CanDialAnyHost(u) ==
    /\ u \notin {conn[c].url : c \in Open} \cup dialing \cup selfUrls \cup resting
    /\ urlNode[u] \notin ReadyNodes

CanDial(u) ==
    /\ u \notin {conn[c].url : c \in Open} \cup dialing \cup selfUrls \cup resting
    /\ urlNode[u] \notin ReadyNodes
    /\ UrlHost[u] \notin bannedHosts

\* Where the addresses up to the i-th stand that can be dialed.
DialableUpTo(i) == {j \in 1..i : CanDial(addresses[j])}

\* _dial_more: the first addresses that can be dialed, as many as are wanted.
ToDial ==
    {addresses[i] : i \in {j \in DOMAIN addresses :
                              /\ CanDial(addresses[j])
                              /\ OutboundInUse + Cardinality(DialableUpTo(j)) <= TargetOutbound}}

\* _save_peers
Save == saved' = IF changed THEN remembered ELSE saved

\* One turn of the loop; every SAVE_PEERS_INTERVAL the file is written.
Tick ==
    /\ dialing' = dialing \cup ToDial
    /\ \/ Save /\ changed' = FALSE
       \/ UNCHANGED <<saved, changed>>
    /\ UNCHANGED <<tableVars, failures, resting, banVars, remembered, restarts, conn>>

\* Time passes until an address may be tried again, or a ban is over.
RetryDue(u) ==
    /\ u \in resting /\ resting' = resting \ {u}
    /\ UNCHANGED <<tableVars, dialVars, banVars, fileVars, conn>>

BanEnds ==
    /\ \/ \E n \in banned : banned' = banned \ {n} /\ UNCHANGED bannedHosts
       \/ \E h \in bannedHosts : bannedHosts' = bannedHosts \ {h} /\ UNCHANGED banned
    /\ UNCHANGED <<tableVars, dialVars, resting, bans, fileVars, conn>>

-----------------------------------------------------------------------------
(* _dial *)

\* Mutant: any address that keeps failing is dropped.
DropsAny(u) == failures[u] + 1 >= DropAfter

\* A learned address that never works; a configured one is kept.
Drops(u) == failures[u] + 1 >= DropAfter /\ u \notin Configured

DialFails(u) ==
    /\ u \in dialing
    /\ dialing' = dialing \ {u}
    /\ failures' = [failures EXCEPT ![u] = IF @ + 1 < DropAfter THEN @ + 1 ELSE @]
    /\ resting' = resting \cup {u}
    /\ addresses' = IF Drops(u) /\ u \in Known
                    THEN RemoveAt(addresses, CHOOSE i \in DOMAIN addresses : addresses[i] = u)
                    ELSE addresses
    /\ UNCHANGED <<privateOk, selfUrls, urlNode, banVars, fileVars, conn>>

\* Connected: the peer is served and sent our hello.  connect_peer refuses a
\* private address that was not allowed.
DialOpens(u) ==
    /\ u \in dialing /\ At[u] \in Nodes \cup {Me}
    /\ Private(u) => u \in privateOk
    /\ dialing' = dialing \ {u}
    /\ failures' = [failures EXCEPT ![u] = 0]
    /\ Enter([phase |-> "hello", node |-> At[u], url |-> u, host |-> UrlHost[u],
              outbound |-> TRUE])
    /\ UNCHANGED <<tableVars, resting, banVars, fileVars>>

-----------------------------------------------------------------------------
(* accept *)

\* Mutant: handshakes under way take no slot yet.
RefusedReadyOnly(host) ==
    \/ Cardinality(Inbound \cap Ready) >= MaxInbound
    \/ host \in bannedHosts
    \/ /\ host \notin Loopback
       /\ Cardinality({c \in Inbound \cap Ready : conn[c].host = host}) >= MaxPerHost

\* inbound_refusal
Refused(host) ==
    \/ Cardinality(Inbound) >= MaxInbound
    \/ host \in bannedHosts
    \/ /\ host \notin Loopback
       /\ Cardinality({c \in Inbound : conn[c].host = host}) >= MaxPerHost

\* A node connects to us; the other end of our own dial does too.
Accept(n) ==
    /\ n = Me => \E c \in Outbound : conn[c].node = Me
    /\ ~Refused(NodeHost[n])
    /\ Enter([phase |-> "hello", node |-> n, url |-> NoUrl, host |-> NodeHost[n],
              outbound |-> FALSE])
    /\ UNCHANGED <<tableVars, dialVars, resting, banVars, fileVars>>

-----------------------------------------------------------------------------
(* _serve and _handle_hello *)

\* Our own hello comes back.
HelloSelf(c) ==
    /\ conn[c].phase = "hello" /\ conn[c].node = Me
    /\ selfUrls' = selfUrls \cup ({conn[c].url} \ {NoUrl})
    /\ Leave(c)
    /\ UNCHANGED <<addresses, privateOk, urlNode, dialVars, resting, banVars, fileVars>>

\* The address a node says it listens on, if it means something to us.
Told(c) ==
    {u \in {Listen[conn[c].node]} \ {NoUrl} : MeaningfulBetween(conn[c].host, u)}

\* The addresses at which the node is now known to be.
LearnNode(c) ==
    urlNode' = [u \in Urls |-> IF u \in ({conn[c].url} \cup Told(c)) THEN conn[c].node ELSE urlNode[u]]

\* Mutant: banned nodes are let in again.
NotBanned(n) == TRUE

Admitted(n) == n \notin banned

HelloBanned(c) ==
    /\ conn[c].phase = "hello" /\ conn[c].node # Me /\ ~Admitted(conn[c].node)
    /\ Leave(c)
    /\ UNCHANGED <<tableVars, dialVars, resting, banVars, fileVars>>

\* Mutant: a connection of our own is always kept.
AlreadyInboundOnly(c) == ~conn[c].outbound /\ conn[c].node \in ReadyNodes

AlreadyConnected(c) == conn[c].node \in ReadyNodes

HelloAgain(c) ==
    /\ conn[c].phase = "hello" /\ conn[c].node # Me /\ Admitted(conn[c].node)
    /\ AlreadyConnected(c)
    /\ LearnNode(c) /\ Leave(c)
    /\ UNCHANGED <<addresses, privateOk, selfUrls, dialVars, resting, banVars, fileVars>>

\* The peer is ready: what we dialed is remembered, where an inbound peer listens
\* is learned.
HelloReady(c) ==
    /\ conn[c].phase = "hello" /\ conn[c].node # Me /\ Admitted(conn[c].node)
    /\ ~AlreadyConnected(c)
    /\ LearnNode(c)
    /\ conn' = [conn EXCEPT ![c].phase = "ready"]
    /\ IF conn[c].outbound
       THEN Remember(conn[c].url) /\ UNCHANGED <<addresses, privateOk>>
       ELSE /\ UNCHANGED fileVars
            /\ IF Told(c) = {} THEN UNCHANGED <<addresses, privateOk>>
               ELSE \E u \in Told(c) : Learn(u, conn[c].host)
    /\ UNCHANGED <<selfUrls, dialVars, resting, banVars>>

\* _on_peers, one address of the list.
PeersFrom(c, u) ==
    /\ conn[c].phase = "ready"
    /\ MeaningfulBetween(conn[c].host, u)
    /\ Learn(u, conn[c].host)
    /\ UNCHANGED <<selfUrls, urlNode, dialVars, resting, banVars, fileVars, conn>>

\* A ProtocolError that bans: a malformed hello, or anything malformed later,
\* also on a connection that is already marked closed (_parse comes first).
Misbehaves(c) ==
    /\ c \in Open
    /\ Ban(c) /\ Leave(c)
    /\ UNCHANGED <<tableVars, dialVars, fileVars>>

\* _drop: a background check failed or a download stalled.
Drop(c) ==
    /\ conn[c].phase = "ready"
    /\ conn' = [conn EXCEPT ![c].phase = "closed"]
    /\ Ban(c) \/ UNCHANGED <<banVars, resting>>
    /\ UNCHANGED <<tableVars, dialVars, fileVars>>

\* The reader ends: disconnected, no hello in time, another network.
Ends(c) ==
    /\ c \in Open
    /\ Leave(c)
    /\ UNCHANGED <<tableVars, dialVars, resting, banVars, fileVars>>

-----------------------------------------------------------------------------
(* __init__ *)

\* What _load_peers remembers of the file.
Loaded(file) == file \ {ListenUrl}

\* What is configured comes first, then what _load_peers adds.
Group(u) == IF u \in Connect THEN 0 ELSE IF u \in Seeds THEN 1 ELSE 2
Before(u, v) == Group(u) < Group(v) \/ (Group(u) = Group(v) /\ Rank[u] < Rank[v])

\* The addresses of a new process that finds this file, in order.
FirstAddresses(file) ==
    LET urls == Configured \cup Loaded(file)
    IN  {s \in [1..Cardinality(urls) -> urls] : \A i, j \in DOMAIN s : i < j => Before(s[i], s[j])}

\* The tables of a new process.
Fresh(file) ==
    /\ addresses' \in FirstAddresses(file)
    /\ privateOk' = Connect \cup {u \in Loaded(file) : Private(u)}
    /\ selfUrls' = {ListenUrl} \ {NoUrl}
    /\ urlNode' = [u \in Urls |-> Me]
    /\ dialing' = {} /\ failures' = [u \in Urls |-> 0] /\ resting' = {}
    /\ banned' = {} /\ bannedHosts' = {}
    /\ remembered' = Loaded(file) /\ changed' = FALSE
    /\ conn' = [c \in Slots |-> None]
    /\ UNCHANGED bans

\* The process ends, with a last _save_peers or without one, and is started again.
Restart ==
    /\ restarts < MaxRestarts /\ restarts' = restarts + 1
    /\ Save \/ UNCHANGED saved
    /\ Fresh(saved')

Init ==
    /\ addresses \in FirstAddresses({})
    /\ privateOk = Connect /\ selfUrls = {ListenUrl} \ {NoUrl}
    /\ urlNode = [u \in Urls |-> Me]
    /\ dialing = {} /\ failures = [u \in Urls |-> 0] /\ resting = {}
    /\ banned = {} /\ bannedHosts = {} /\ bans = 0
    /\ remembered = {} /\ changed = FALSE /\ saved = {} /\ restarts = 0
    /\ conn = [c \in Slots |-> None]

Handshake(c) == HelloSelf(c) \/ HelloBanned(c) \/ HelloAgain(c) \/ HelloReady(c)

Next ==
    \/ Tick \/ BanEnds \/ Restart
    \/ \E u \in Urls : RetryDue(u) \/ DialFails(u) \/ DialOpens(u)
    \/ \E n \in Nodes \cup {Me} : Accept(n)
    \/ \E c \in Slots :
          \/ Handshake(c) \/ Misbehaves(c) \/ Drop(c) \/ Ends(c)
          \/ \E u \in Urls : PeersFrom(c, u)

\* The loop turns, and time passes: a retry comes due, a ban ends.
Fairness == WF_vars(Tick) /\ WF_vars(BanEnds) /\ \A u \in Urls : WF_vars(RetryDue(u))

Spec == Init /\ [][Next]_vars /\ Fairness

-----------------------------------------------------------------------------
(* Properties *)

\* The tables have their types, and there are no more connections than wanted:
\* outbound, dials that are still under way included (_dial_more against the end of
\* a dial); inbound, in all and from one address, also while several handshakes are
\* under way ("pending handshakes must occupy their slot before accept() yields").
SlotsBounded ==
    /\ PeerTypeOK
    /\ Cardinality(Outbound) + Cardinality(dialing) <= TargetOutbound
    /\ Cardinality(Inbound) <= MaxInbound
    /\ \A h \in Hosts \ Loopback : Cardinality({c \in Inbound : conn[c].host = h}) <= MaxPerHost

\* At most one ready connection with a node, whoever dialed, and none with
\* ourselves, although both ends may dial at the same time (_handle_hello).
OneConnectionPerNode ==
    /\ \A c, d \in Ready : conn[c].node = conn[d].node => c = d
    /\ Me \notin ReadyNodes

\* A private address is only ever known, dialed or passed on when the
\* configuration, the file or a peer of that network gave it: one that only
\* strangers mention never enters the table (_meaningful_between, _learn).
PrivateVouched == \A u \in Known \cup dialing : Private(u) => u \in privateOk \cup Seeds

\* Connections from a host, and addresses of it that are dialed or connected.
InboundFrom(h) == {c \in Inbound : conn[c].host = h}
Toward(h) == {u \in dialing \cup {conn[c].url : c \in Outbound} : UrlHost[u] = h}

\* Nodes whose connection is marked closed but not yet gone.
ClosedNodes == {conn[c].node : c \in {d \in Open : conn[d].phase = "closed"}}

\* "disconnected and banned for an hour, by node id and by IP address": a node that
\* is banned is not a ready peer as well, whichever of its connections was ready or
\* under way at the ban; a connection that was being closed may still earn the ban
\* of a node that has come back meanwhile.  And while a host is banned it gets no
\* connection that it did not have, from either end (_ban, _handle_hello,
\* inbound_refusal, _dial_more).
BanHolds ==
    [][/\ ReadyNodes' \cap banned' \subseteq ReadyNodes \cap (banned \cup ClosedNodes)
       /\ \A h \in bannedHosts \cap bannedHosts' :
             InboundFrom(h)' \subseteq InboundFrom(h) /\ Toward(h)' \subseteq Toward(h)]_vars

\* "nodes to always stay connected to": a configured address is tried for ever, as
\* long as there is room and neither end is barred.
KeepsTrying ==
    \A u \in Connect : []<>(\/ u \in dialing \/ At[u] \in ReadyNodes \/ u \in selfUrls
                            \/ \E c \in Open : conn[c].url = u
                            \/ OutboundInUse >= TargetOutbound)
=============================================================================
