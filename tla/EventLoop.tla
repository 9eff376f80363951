----------------------------- MODULE EventLoop -----------------------------
(***************************************************************************)
(* One p2pdb process at the level of file descriptors: start-up, the loop  *)
(* around select() (main.cpp 1212-1295, 1297-1385) and the descriptors its *)
(* handlers open and close.  The other nodes and the clients are the       *)
(* environment.  Peering and ImageQuery say what the messages mean; here   *)
(* the question is whether the loop, which works on the descriptors it     *)
(* collected before select(), may still do so after each handler, and      *)
(* whether every descriptor has an owner that closes it.                   *)
(***************************************************************************)
EXTENDS P2pTable, CommandLine

CONSTANTS FD_MAX,         \* descriptors a process may have, stdio apart
          MAX_BUCKETS,    \* largest table that can be allocated
          CommandLines    \* argument vectors the user may give

ASSUME DescriptorAssumption == FD_MAX \in Nat \ {0} /\ MAX_BUCKETS \in Nat
ASSUME CommandLineAssumption ==
    CommandLines \subseteq Seq([flag : STRING, name : STRING,
                              number : -(2^(INT_BITS - 1)) .. 2^(INT_BITS - 1) - 1])
\* -n -1 asks for a table of 2^64 - 1 buckets, far more than there is memory for.
ASSUME BucketAssumption ==
    2^(INT_BITS - 1) \in Nat /\ MAX_BUCKETS + 2^(INT_BITS - 1) < 2^SIZE_BITS

VARIABLES
    argv,         \* the command line
    stage,        \* where main() is, or how the process ended
    maxPeers,     \* maxPeers_
    fds,          \* what each descriptor is open for
    peerTable,    \* peerTable_: the entry of each descriptor
    rejected,     \* rejectedPeerList_
    imageClient,  \* descriptor of imageClient_
    timeout,      \* did_query_timeout
    ready,        \* descriptors still to be looked at that select() returned
    reported,     \* what those descriptors were open for when it did
    current,      \* peer whose response is being handled
    todo,         \* recommended peers the handler still has to try
    backlog       \* nodes in the backlog of the peer port

vars == <<argv, stage, maxPeers, fds, peerTable, rejected, imageClient, timeout,
          ready, reported, current, todo, backlog>>

Fd == 1 .. FD_MAX
NoFd == 0

\* What a descriptor is for: a service, an image client, a socket whose
\* connect() failed, or the connection to a node.
NotNode == {"free", "p2p", "img", "client", "leaked"}
Owner == NotNode \cup Node

ASSUME OwnerAssumption == Node \cap NotNode = {}

Starting == {"parse", "connect", "listen"}
Ended == {"refused", "threw", "no descriptor", "aborted"}
Loop == {"select", "p2p", "img", "peers", "recommended"}

TypeOK ==
    /\ argv \in CommandLines
    /\ stage \in Starting \cup Ended \cup Loop
    /\ maxPeers \in Nat
    /\ fds \in [Fd -> Owner]
    /\ peerTable \in [Fd -> Entry]
    /\ rejected \in Seq(Node)
    /\ imageClient \in Fd \cup {NoFd}
    /\ timeout \in BOOLEAN
    /\ ready \in SUBSET Fd
    /\ reported \in [Fd -> Owner]
    /\ current \in Fd \cup {NoFd}
    /\ todo \in SUBSET Node
    /\ backlog \in SUBSET Node

Init ==
    /\ argv \in CommandLines
    /\ stage = "parse"
    /\ maxPeers = 0
    /\ fds = [f \in Fd |-> "free"]
    /\ peerTable = [f \in Fd |-> "absent"]
    /\ rejected = <<>>
    /\ imageClient = NoFd
    /\ timeout = FALSE
    /\ ready = {}
    /\ reported = [f \in Fd |-> "free"]
    /\ current = NoFd
    /\ todo = {}
    /\ backlog = {}

-----------------------------------------------------------------------------
(* Descriptors and the table.                                              *)

Free == {f \in Fd : fds[f] = "free"}

\* socket() and accept() return the lowest free number.
NewFd == CHOOSE f \in Free : \A g \in Free : f <= g

PeeringFds == {f \in Fd : peerTable[f] # "absent"}
TableFull(t) == Cardinality({f \in Fd : t[f] # "absent"}) = maxPeers

\* hasRemote() with table t and list r.
Known(t, r, m) == (\E f \in Fd : t[f] # "absent" /\ fds[f] = m) \/ IsRejectedPeer(r, m)

\* The process ends for want of a descriptor.
OutOfDescriptors ==
    /\ Free = {}
    /\ stage' = "no descriptor"
    /\ UNCHANGED <<argv, maxPeers, fds, peerTable, rejected, imageClient, timeout, ready,
                   reported, current, todo, backlog>>

Fails(how) ==
    /\ stage' = how
    /\ UNCHANGED <<argv, maxPeers, fds, peerTable, rejected, imageClient, timeout, ready,
                   reported, current, todo, backlog>>

-----------------------------------------------------------------------------
(* main(): the command line, the first peer, the two services.             *)

\* P2pTable(max_peers) asks for as many buckets.
Parse ==
    /\ stage = "parse"
    /\ \/ ~Accepted(argv) /\ Fails("refused")
       \/ Accepted(argv) /\ MaxPeersOf(argv) > MAX_BUCKETS /\ Fails("threw")
       \/ /\ Accepted(argv) /\ MaxPeersOf(argv) <= MAX_BUCKETS
          /\ maxPeers' = MaxPeersOf(argv)
          /\ stage' = IF RemoteOf(argv).name = "" THEN "listen" ELSE "connect"
          /\ UNCHANGED <<argv, fds, peerTable, rejected, imageClient, timeout, ready,
                         reported, current, todo, backlog>>

ConnectToFirstPeer ==
    /\ stage = "connect"
    /\ \/ Fails("threw")
       \/ \E m \in Node :
             /\ fds' = [fds EXCEPT ![NewFd] = m]
             /\ peerTable' = [peerTable EXCEPT ![NewFd] = "pending"]
             /\ stage' = "listen"
             /\ UNCHANGED <<argv, maxPeers, rejected, imageClient, timeout, ready, reported,
                            current, todo, backlog>>

Listen ==
    /\ stage = "listen"
    /\ \/ /\ Cardinality(Free) < 2 /\ Fails("no descriptor")
       \/ /\ Cardinality(Free) >= 2
          /\ LET p == NewFd
                 i == CHOOSE f \in Free \ {p} : \A g \in Free \ {p} : f <= g
             IN fds' = [fds EXCEPT ![p] = "p2p", ![i] = "img"]
          /\ stage' = "select"
          /\ UNCHANGED <<argv, maxPeers, peerTable, rejected, imageClient, timeout, ready,
                         reported, current, todo, backlog>>

\* Another node connects; it has no other connection with this one.
RemoteConnects(m) ==
    /\ stage \in Loop
    /\ m \notin backlog /\ \A f \in Fd : fds[f] # m
    /\ backlog' = backlog \cup {m}
    /\ UNCHANGED <<argv, stage, maxPeers, fds, peerTable, rejected, imageClient, timeout,
                   ready, reported, current, todo>>

-----------------------------------------------------------------------------
(* runImageNetwork(): the body of the loop up to select().                 *)

Services == {f \in Fd : fds[f] \in {"p2p", "img"}}

\* The peer port is readable when somebody is in the backlog; of the other
\* descriptors any may be.
Select ==
    /\ stage = "select"
    /\ ready' \in SUBSET (PeeringFds \cup Services)
    /\ \A f \in Fd : fds[f] = "p2p" => (f \in ready' <=> backlog # {})
    /\ reported' = [f \in Fd |-> IF f \in ready' THEN fds[f] ELSE "free"]
    /\ timeout' = (imageClient # NoFd)
    /\ stage' = "p2p"
    /\ UNCHANGED <<argv, maxPeers, fds, peerTable, rejected, imageClient, current, todo,
                   backlog>>

IsSet(what) == \E f \in ready : reported[f] = what
Looked(what) == {f \in ready : reported[f] # what}

\* Nothing on the port: the loop goes on with the next one.
NextPort(what, next) ==
    /\ stage = what /\ ~IsSet(what)
    /\ stage' = next
    /\ UNCHANGED <<argv, maxPeers, fds, peerTable, rejected, imageClient, timeout, ready,
                   reported, current, todo, backlog>>

-----------------------------------------------------------------------------
(* handlePeeringClient()                                                   *)

AcceptPeer(m) ==
    /\ ~TableFull(peerTable)
    /\ fds' = [fds EXCEPT ![NewFd] = m]
    /\ peerTable' = [peerTable EXCEPT ![NewFd] = "connected"]

\* The peer is redirected, or one of the responses cannot be written: the
\* descriptor is closed again.
TurnAway(m) == UNCHANGED <<fds, peerTable>>

HandlePeeringClient(m) ==
    /\ stage = "p2p" /\ IsSet("p2p") /\ m \in backlog
    /\ \/ OutOfDescriptors
       \/ /\ Free # {} /\ ~TableFull(peerTable) /\ IsRejectedPeer(rejected, m)
          /\ Fails("aborted")
       \/ /\ Free # {}
          /\ (AcceptPeer(m) /\ ~IsRejectedPeer(rejected, m)) \/ TurnAway(m)
          /\ backlog' = backlog \ {m}
          /\ ready' = Looked("p2p")
          /\ timeout' = FALSE
          /\ stage' = "img"
          /\ UNCHANGED <<argv, maxPeers, rejected, imageClient, reported, current, todo>>

-----------------------------------------------------------------------------
(* handleImageTraffic()                                                    *)

\* A query that has to be searched for in the network: its connection is kept.
TakeClient ==
    /\ imageClient = NoFd
    /\ fds' = [fds EXCEPT ![NewFd] = "client"]
    /\ imageClient' = NewFd

\* Mutant: the connection of a refused client is not closed.
BugCloseAtOnce ==
    /\ fds' = [fds EXCEPT ![NewFd] = "client"]
    /\ UNCHANGED imageClient

\* A query that is answered or refused, a transfer nobody waits for, a packet
\* of an unknown type: the connection is closed by the handler.
CloseAtOnce == UNCHANGED <<fds, imageClient>>

\* A transfer is passed on to the client, and both connections are closed.
Deliver ==
    /\ imageClient # NoFd
    /\ fds' = [fds EXCEPT ![imageClient] = "free"]
    /\ imageClient' = NoFd

\* Mutant: traffic does not disarm the timeout.
BugHandleImageTraffic ==
    /\ stage = "img" /\ IsSet("img")
    /\ \/ OutOfDescriptors
       \/ /\ Free # {}
          /\ TakeClient \/ CloseAtOnce \/ Deliver
          /\ ready' = Looked("img")
          /\ stage' = "peers"
          /\ UNCHANGED <<argv, maxPeers, peerTable, rejected, timeout, reported, current,
                         todo, backlog>>

HandleImageTraffic ==
    /\ stage = "img" /\ IsSet("img")
    /\ \/ OutOfDescriptors
       \/ /\ Free # {}
          /\ TakeClient \/ CloseAtOnce \/ Deliver
          /\ ready' = Looked("img")
          /\ timeout' = FALSE
          /\ stage' = "peers"
          /\ UNCHANGED <<argv, maxPeers, peerTable, rejected, reported, current, todo,
                         backlog>>

-----------------------------------------------------------------------------
(* handleP2pTraffic()                                                      *)

\* The recommended peers a handler sets out to try.
Available(t, r, peers) ==
    IF TableFull(t) THEN {} ELSE {p \in peers : ~Known(t, r, p)}

HandlerEnds == IF todo' = {} THEN "peers" ELSE "recommended"

HandleWelcome(f, peers) ==
    /\ IsPendingPeer(peerTable, f)
    /\ peerTable' = [peerTable EXCEPT ![f] = "connected"]
    /\ todo' = Available(peerTable', rejected, peers)
    /\ current' = IF todo' = {} THEN NoFd ELSE f
    /\ UNCHANGED <<fds, rejected>>

\* Mutants: a flag, clear() and nothing in place of erase().
BugMark(f) == [peerTable EXCEPT ![f] = "rejected"]
BugErase(f) == [g \in Fd |-> "absent"]
BugKeep(f) == peerTable

Erase(f) == [peerTable EXCEPT ![f] = "absent"]

\* The entry goes first; the connection is closed when the handler ends.
HandleRedirect(f, peers) ==
    /\ IsPendingPeer(peerTable, f)
    /\ peerTable' = Erase(f)
    /\ rejected' = PushRejected(rejected, fds[f])
    /\ todo' = Available(peerTable', rejected', peers)
    /\ current' = IF todo' = {} THEN NoFd ELSE f
    /\ fds' = IF todo' = {} THEN [fds EXCEPT ![f] = "free"] ELSE fds

\* A search is dropped or forwarded, or the image is sent over a connection
\* that lasts as long as the handler.
HandleSearch(f) ==
    /\ IsConnectedPeer(peerTable, f)
    /\ UNCHANGED <<fds, peerTable, rejected, current, todo>>

\* Any recommendation but the node itself.
HandleP2pTraffic(f) ==
    /\ stage = "peers" /\ f \in ready
    /\ \/ peerTable[f] = "absent" /\ Fails("aborted")
       \/ IsConnectedPeer(peerTable, f) /\ OutOfDescriptors
       \/ /\ \/ \E S \in SUBSET Node : HandleWelcome(f, S) \/ HandleRedirect(f, S)
             \/ HandleSearch(f)
          /\ stage' = HandlerEnds
          /\ ready' = ready \ {f}
          /\ timeout' = FALSE
          /\ UNCHANGED <<argv, maxPeers, imageClient, reported, backlog>>

-----------------------------------------------------------------------------
(* handleRecommendedPeerTraffic(): the loop over the recommended peers.    *)

\* The connection of a peer that redirected is closed with the handler.
HandlerGoesOn(m, s, t) ==
    /\ todo' = IF TableFull(t) THEN {} ELSE todo \ {m}
    /\ stage' = HandlerEnds
    /\ peerTable' = t
    /\ fds' = IF todo' = {} /\ t[current] = "absent"
              THEN [s EXCEPT ![current] = "free"] ELSE s
    /\ current' = IF todo' = {} THEN NoFd ELSE current
    /\ UNCHANGED <<argv, maxPeers, rejected, imageClient, timeout, ready, reported,
                   backlog>>

ConnectToPeer(m) ==
    /\ m \notin backlog
    /\ HandlerGoesOn(m, [fds EXCEPT ![NewFd] = m], [peerTable EXCEPT ![NewFd] = "pending"])

\* EADDRNOTAVAIL: m has connected in the meantime, or an older connection to it
\* is not forgotten.  The socket stays open and nobody knows it.
BusyAddress(m) == HandlerGoesOn(m, [fds EXCEPT ![NewFd] = "leaked"], peerTable)

TryPeer(m) ==
    /\ stage = "recommended" /\ m \in todo
    /\ \/ OutOfDescriptors
       \/ Free # {} /\ (ConnectToPeer(m) \/ BusyAddress(m))
       \/ Fails("threw")

-----------------------------------------------------------------------------
(* timeoutImageQuery(), and back to select().                              *)

\* Mutant: the client is told, but neither closed nor invalidated.
BugTimeoutImageQuery == UNCHANGED <<fds, imageClient>>

TimeoutImageQuery ==
    /\ fds' = [fds EXCEPT ![imageClient] = "free"]
    /\ imageClient' = NoFd

\* did_query_timeout lives as long as the body of the loop.
LoopEnds ==
    /\ stage = "peers" /\ ready = {}
    /\ \/ timeout /\ imageClient = NoFd /\ Fails("aborted")
       \/ /\ \/ timeout /\ imageClient # NoFd /\ TimeoutImageQuery
             \/ ~timeout /\ UNCHANGED <<fds, imageClient>>
          /\ stage' = "select" /\ timeout' = FALSE
          /\ reported' = [f \in Fd |-> "free"]
          /\ UNCHANGED <<argv, maxPeers, peerTable, rejected, ready, current, todo, backlog>>

-----------------------------------------------------------------------------
Process ==
    \/ Parse \/ ConnectToFirstPeer \/ Listen
    \/ Select
    \/ NextPort("p2p", "img") \/ NextPort("img", "peers")
    \/ \E m \in Node : HandlePeeringClient(m)
    \/ HandleImageTraffic
    \/ \E f \in Fd : HandleP2pTraffic(f)
    \/ \E m \in Node : TryPeer(m)
    \/ LoopEnds

Next == Process \/ \E m \in Node : RemoteConnects(m)

Spec == Init /\ [][Next]_vars

(* The process runs whenever it can.                                       *)
FairSpec == Spec /\ WF_vars(Process)

-----------------------------------------------------------------------------
(* Properties.                                                             *)

Running == stage \in Loop

\* Every descriptor that select() returned and the loop has not come to yet is
\* still open for what it was, and still in the table if it is a peer: no
\* handler of an earlier descriptor closes it, erases its entry or lets its
\* number be used again (the assertion of fetchConnectionByFd(), P2pTable.cpp:162).
SnapshotValid ==
    Running => \A f \in ready :
        /\ fds[f] = reported[f]
        /\ fds[f] \in Node => peerTable[f] # "absent"

\* Every open descriptor has exactly one owner: it is in the table, or the
\* connection of the peer whose redirection is being handled, or the image
\* client, or a service; the only ones without are sockets whose connect() found
\* the address busy (ServerBuilder.cpp:112).  No two are for the same node, so
\* the table may be seen as a function of the remote node.
DescriptorsOwned ==
    /\ \A f \in Fd :
          /\ fds[f] \in Node <=> peerTable[f] # "absent" \/ f = current
          /\ fds[f] = "client" <=> f = imageClient
    /\ \A f, g \in Fd : fds[f] = fds[g] /\ fds[f] \in Node \cup {"p2p", "img"} => f = g

\* A process can only run out of descriptors because of leaked ones, provided
\* that the limit has room for the peers, the services, the image client and the
\* one connection that a handler opens.
OnlyLeaksExhaust ==
    stage = "no descriptor" /\ FD_MAX >= maxPeers + 4 =>
        \E f \in Fd : fds[f] = "leaked"

\* The loop only times out a client that it has: the assertion of
\* timeoutImageQuery(), main.cpp:278.
TimeoutHasClient == timeout => imageClient # NoFd

Parsed == stage \notin {"parse", "refused", "threw"}

\* A process that has got through its command line has a table of at least two
\* and no more than it can allocate, and of just the size -n asked for: a negative
\* number, which parseMaxPeers() takes for a large one, has ended the process.
TableSizeAsGiven ==
    Parsed =>
        /\ maxPeers \in 2 .. MAX_BUCKETS
        /\ \A o \in Given(argv, "n") : o.number = maxPeers

\* The port of the first peer is the one -p gave: "Port must be unsigned short"
\* (main.cpp:58).  It is cut to a uint16_t before it is looked at, so that
\* a port too large passes for another one, unless that is 0.
PortAsGiven ==
    Parsed /\ RemoteOf(argv).name # "" =>
        \A o \in Given(argv, "p") : o.number = RemoteOf(argv).port

\* When no traffic comes any more, the image client is sooner or later let go:
\* otherwise the node would refuse all others for ever.
ClientTimesOut == <>[](Running /\ ready = {}) => <>[](imageClient = NoFd)
=============================================================================
