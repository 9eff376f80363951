------------------------------ MODULE Peering ------------------------------
(***************************************************************************)
(* How p2pdb nodes find and peer with each other (main.cpp): start-up,     *)
(* peering requests accepted or redirected, the recommended peers of a     *)
(* response tried one after the other, and processes that go away.         *)
(*                                                                         *)
(* A node is one single-threaded process around select(), so a handler is  *)
(* one step, except that the connect() calls of one handler are separate   *)
(* steps: other nodes run between them.  The kernel is modelled by its two *)
(* ends of each connection.  A node is its address, and a process that has *)
(* ended is not started again under the same address.                      *)
(***************************************************************************)
EXTENDS P2pTable

CONSTANTS MaxPeers,       \* the -n option of each node
          PR_MAXPEERS,    \* most peers recommended in one response
          MaxStops,       \* bound: processes ended by their user
          CrossingSyns    \* may two connect() calls meet on the network?

ASSUME MaxPeersAssumption == MaxPeers \in [Node -> Nat \ {0, 1}]
ASSUME PrMaxPeersAssumption == PR_MAXPEERS \in Nat
ASSUME MaxStopsAssumption == MaxStops \in Nat
ASSUME CrossingSynsAssumption == CrossingSyns \in BOOLEAN

VARIABLES
    status,     \* where the process of each node is
    table,      \* peerTable_
    rejected,   \* rejectedPeerList_
    todo,       \* recommended peers the running handler still has to try
    closing,    \* redirecting peer the running handler closes when it ends
    sock,       \* sock[n][m]: n's end of the connection of n and m
    inbox,      \* inbox[n][m]: the response of m that n has not read
    stops       \* processes ended by their user so far

vars == <<status, table, rejected, todo, closing, sock, inbox, stops>>

Running == {"starting", "up", "spinning"}     \* the process exists
Ended == {"aborted", "threw", "stopped"}      \* by assert, exception, user
Status == {"down"} \cup Running \cup Ended

NoMsg == [type |-> "none", peers |-> {}]
Response == [type : {"none", "WELCOME", "REDIRECT"}, peers : SUBSET Node]

TypeOK ==
    /\ status \in [Node -> Status]
    /\ table \in [Node -> Table]
    /\ rejected \in [Node -> Seq(Node)]
    /\ todo \in [Node -> SUBSET Node]
    /\ closing \in [Node -> Node \cup {NoNode}]
    /\ sock \in [Node -> [Node -> End]]
    /\ inbox \in [Node -> [Node -> Response]]
    /\ stops \in Nat

Init ==
    /\ status = [n \in Node |-> "down"]
    /\ table = [n \in Node |-> EmptyTable]
    /\ rejected = [n \in Node |-> <<>>]
    /\ todo = [n \in Node |-> {}]
    /\ closing = [n \in Node |-> NoNode]
    /\ sock = NoSockets
    /\ inbox = [n \in Node |-> [m \in Node |-> NoMsg]]
    /\ stops = 0

-----------------------------------------------------------------------------
(* The process and its sockets.                                            *)

IsListening(n) == status[n] \in {"up", "spinning"}
AtSelect(n) == status[n] = "up" /\ todo[n] = {}

\* When the process of n ends, the kernel closes what it holds: a connection
\* nobody accepted, or one with unread data, is reset.
ResetOnExit(n, m) ==
    sock[n][m] = "queued" \/ (sock[n][m] = "open" /\ inbox[n][m] # NoMsg)

EndAfterExit(n, m) ==
    IF \/ sock[n][m] = "closed"
       \/ sock[n][m] = "open" /\ ~ResetOnExit(n, m) /\ Alive(sock[m][n])
    THEN "closed" ELSE "none"

PeerEndAfterExit(n, m) ==
    IF ResetOnExit(n, m) /\ sock[m][n] = "open" THEN "reset"
    ELSE IF ResetOnExit(n, m) /\ sock[m][n] = "closed" THEN "none"
    ELSE sock[m][n]

ProcessEnds(n, how) ==
    /\ status' = [status EXCEPT ![n] = how]
    /\ table' = [table EXCEPT ![n] = EmptyTable]
    /\ rejected' = [rejected EXCEPT ![n] = <<>>]
    /\ todo' = [todo EXCEPT ![n] = {}]
    /\ closing' = [closing EXCEPT ![n] = NoNode]
    /\ sock' = [p \in Node |-> [q \in Node |->
                   IF p = n THEN EndAfterExit(n, q)
                   ELSE IF q = n THEN PeerEndAfterExit(n, p)
                   ELSE sock[p][q]]]
    /\ inbox' = [inbox EXCEPT ![n] = [m \in Node |-> NoMsg]]

-----------------------------------------------------------------------------
(* main(): start-up.                                                       *)

\* Started without -p: the node listens at once.
Start(n) ==
    /\ status[n] = "down"
    /\ status' = [status EXCEPT ![n] = "up"]
    /\ UNCHANGED <<table, rejected, todo, closing, sock, inbox, stops>>

\* Started with -p: the connection to the first peer comes first, and the
\* node listens on the port the kernel chose for it only afterwards.
ConnectToFirstPeer(n, m) ==
    /\ status[n] = "down" /\ IsListening(m)
    /\ n # m
    /\ status' = [status EXCEPT ![n] = "starting"]
    /\ table' = [table EXCEPT ![n] = RegisterPendingPeer(@, m)]
    /\ sock' = Connected(sock, n, m)
    /\ UNCHANGED <<rejected, todo, closing, inbox, stops>>

Listen(n) ==
    /\ status[n] = "starting"
    /\ status' = [status EXCEPT ![n] = "up"]
    /\ UNCHANGED <<table, rejected, todo, closing, sock, inbox, stops>>

Stop(n) ==
    /\ status[n] \in Running
    /\ stops < MaxStops
    /\ stops' = stops + 1
    /\ ProcessEnds(n, "stopped")

-----------------------------------------------------------------------------
(* handlePeeringClient(): a connection in the backlog is accepted.         *)

\* autoJoin(): whichever peers come first in the hash table, pending ones
\* included.  The requesting node is not in the table yet.
JoinPeers(n) ==
    {S \in SUBSET Peers(table[n]) :
        Cardinality(S) = IF GetNumPeers(table[n]) < PR_MAXPEERS
                         THEN GetNumPeers(table[n]) ELSE PR_MAXPEERS}

\* What a response from n leaves with m: nothing if m's process is gone.
Delivered(n, m, type, S) ==
    IF sock[m][n] = "open"
    THEN [inbox EXCEPT ![m][n] = [type |-> type, peers |-> S]]
    ELSE inbox

AcceptPeerRequest(n, m) ==
    /\ ~IsFull(table[n], MaxPeers[n])
    /\ CanRegisterConnected(table[n], rejected[n], m)
    /\ \E S \in JoinPeers(n) : inbox' = Delivered(n, m, "WELCOME", S)
    /\ table' = [table EXCEPT ![n] = RegisterConnectedPeer(@, m)]
    /\ sock' = [sock EXCEPT ![n][m] = "open"]
    /\ UNCHANGED <<status, rejected, todo, closing, stops>>

\* The assertion of registerConnectedPeer() fails, after the WELCOME has been
\* written: m reads it, then the end of the stream.
AcceptPeerRequestAborts(n, m) ==
    /\ ~IsFull(table[n], MaxPeers[n])
    /\ ~CanRegisterConnected(table[n], rejected[n], m)
    /\ \E S \in JoinPeers(n) :
          /\ status' = [status EXCEPT ![n] = "aborted"]
          /\ table' = [table EXCEPT ![n] = EmptyTable]
          /\ rejected' = [rejected EXCEPT ![n] = <<>>]
          /\ inbox' = [Delivered(n, m, "WELCOME", S) EXCEPT
                          ![n] = [p \in Node |-> NoMsg]]
          /\ sock' = [p \in Node |-> [q \in Node |->
                 IF p = n /\ q = m THEN IF Alive(sock[m][n]) THEN "closed" ELSE "none"
                 ELSE IF p = n THEN EndAfterExit(n, q)
                 ELSE IF q = n /\ p # m THEN PeerEndAfterExit(n, p)
                 ELSE sock[p][q]]]
    /\ UNCHANGED <<todo, closing, stops>>

\* Mutant: the wrong message type in redirectPeer().
BugRedirectPeer(n, m) ==
    /\ IsFull(table[n], MaxPeers[n])
    /\ \E S \in JoinPeers(n) : inbox' = Delivered(n, m, "WELCOME", S)
    /\ sock' = Closed(sock, n, m)
    /\ UNCHANGED <<status, table, rejected, todo, closing, stops>>

RedirectPeer(n, m) ==
    /\ IsFull(table[n], MaxPeers[n])
    /\ \E S \in JoinPeers(n) : inbox' = Delivered(n, m, "REDIRECT", S)
    /\ sock' = Closed(sock, n, m)
    /\ UNCHANGED <<status, table, rejected, todo, closing, stops>>

\* Both handlers close a connection they cannot write the response to.
ResponseFails(n, m) ==
    /\ ~Alive(sock[m][n])
    /\ sock' = Closed(sock, n, m)
    /\ UNCHANGED <<status, table, rejected, todo, closing, inbox, stops>>

HandlePeeringClient(n, m) ==
    /\ AtSelect(n)
    /\ sock[n][m] = "queued"
    /\ \/ AcceptPeerRequest(n, m)
       \/ AcceptPeerRequestAborts(n, m)
       \/ RedirectPeer(n, m)
       \/ ResponseFails(n, m)

-----------------------------------------------------------------------------
(* handleP2pTraffic(): a peer socket is readable.                          *)

\* Mutants: hasRemote() without its second, or its first, half.
BugIgnoresRejected(n, t, r, peers) ==
    IF IsFull(t, MaxPeers[n]) THEN {} ELSE peers \ Peers(t)
BugIgnoresTable(n, t, r, peers) ==
    IF IsFull(t, MaxPeers[n]) THEN {} ELSE peers \ Rejecters(r)

\* The recommended peers that handleRecommendedPeerTraffic() sets out to try,
\* given the table t and the list r the response has left.
Available(n, t, r, peers) ==
    IF IsFull(t, MaxPeers[n]) THEN {} ELSE {p \in peers : ~HasRemote(t, r, p)}

\* Mutant: the pending bit is not cleared.
BugHandleWelcome(n, m) ==
    /\ inbox[n][m].type = "WELCOME"
    /\ todo' = [todo EXCEPT ![n] =
                   Available(n, table[n], rejected[n], inbox[n][m].peers)]
    /\ UNCHANGED <<table, rejected, closing, sock>>

HandleWelcome(n, m) ==
    /\ inbox[n][m].type = "WELCOME"
    /\ CanRegisterConnected(table[n], rejected[n], m)
    /\ LET t == RegisterConnectedPeer(table[n], m)
       IN /\ table' = [table EXCEPT ![n] = t]
          /\ todo' = [todo EXCEPT ![n] =
                         Available(n, t, rejected[n], inbox[n][m].peers)]
    /\ UNCHANGED <<rejected, closing, sock>>

HandleRedirect(n, m) ==
    /\ inbox[n][m].type = "REDIRECT"
    /\ CanRegisterRejected(table[n], rejected[n], m)
    /\ LET t == RemovePeer(table[n], m)
           r == PushRejected(rejected[n], m)
           ps == Available(n, t, r, inbox[n][m].peers)
       IN /\ table' = [table EXCEPT ![n] = t]
          /\ rejected' = [rejected EXCEPT ![n] = r]
          /\ todo' = [todo EXCEPT ![n] = ps]
          /\ closing' = [closing EXCEPT ![n] = IF ps = {} THEN NoNode ELSE m]
          /\ sock' = IF ps = {} THEN Closed(sock, n, m) ELSE sock

HandleResponse(n, m) ==
    /\ AtSelect(n)
    /\ m \in Peers(table[n]) /\ sock[n][m] = "open"
    /\ HandleWelcome(n, m) \/ HandleRedirect(n, m)
    /\ inbox' = [inbox EXCEPT ![n][m] = NoMsg]
    /\ UNCHANGED <<status, stops>>

\* End of the stream: recv() returns 0 for ever and the loop that reads the
\* packet header never ends.
HandleEndOfStream(n, m) ==
    /\ AtSelect(n)
    /\ m \in Peers(table[n]) /\ sock[n][m] = "open" /\ inbox[n][m] = NoMsg
    /\ ~Alive(sock[m][n])
    /\ status' = [status EXCEPT ![n] = "spinning"]
    /\ UNCHANGED <<table, rejected, todo, closing, sock, inbox, stops>>

\* recv() fails and nothing catches the SocketException.
HandleReset(n, m) ==
    /\ AtSelect(n)
    /\ m \in Peers(table[n]) /\ sock[n][m] = "reset"
    /\ ProcessEnds(n, "threw")
    /\ UNCHANGED stops

HandleP2pTraffic(n, m) ==
    HandleResponse(n, m) \/ HandleEndOfStream(n, m) \/ HandleReset(n, m)

-----------------------------------------------------------------------------
(* handleRecommendedPeerTraffic(): the loop over the recommended peers.    *)

\* Mutant: the loop does not look at isFull().
BugRemaining(n, m, t) == todo[n] \ {m}

\* What is left to try once m has been tried, with table t.
Remaining(n, m, t) == IF IsFull(t, MaxPeers[n]) THEN {} ELSE todo[n] \ {m}

\* Mutant: the connection to the redirecting peer is not closed.
BugGoesOn(n, ps, s) ==
    /\ todo' = [todo EXCEPT ![n] = ps]
    /\ closing' = [closing EXCEPT ![n] = IF ps = {} THEN NoNode ELSE @]
    /\ sock' = s

\* The handler goes on with the peers ps; after the last one it closes the
\* connection to the peer that redirected it.
GoesOn(n, ps, s) ==
    /\ todo' = [todo EXCEPT ![n] = ps]
    /\ closing' = [closing EXCEPT ![n] = IF ps = {} THEN NoNode ELSE @]
    /\ sock' = IF ps = {} THEN Closed(s, n, closing[n]) ELSE s

ConnectToPeer(n, m) ==
    /\ FreeAddress(sock, n, m)
    /\ IsListening(m)
    /\ LET t == RegisterPendingPeer(table[n], m)
       IN /\ table' = [table EXCEPT ![n] = t]
          /\ GoesOn(n, Remaining(n, m, t), Connected(sock, n, m))
    /\ UNCHANGED <<status, rejected, inbox, stops>>

\* Mutant: no handler for BusyAddressSocketException.
BugBusyAddress(n, m) ==
    /\ AddressInUse(sock, n, m)
    /\ ProcessEnds(n, "threw")
    /\ UNCHANGED stops

\* connect() fails with EADDRNOTAVAIL: BusyAddressSocketException.
BusyAddress(n, m) ==
    /\ AddressInUse(sock, n, m)
    /\ GoesOn(n, Remaining(n, m, table[n]), sock)
    /\ UNCHANGED <<status, table, rejected, inbox, stops>>

\* connect() fails otherwise: nothing catches the SocketException.
ConnectRefused(n, m) ==
    /\ FreeAddress(sock, n, m)
    /\ ~IsListening(m)
    /\ ProcessEnds(n, "threw")
    /\ UNCHANGED stops

TryPeer(n, m) ==
    /\ status[n] = "up"
    /\ m \in todo[n]
    /\ ConnectToPeer(n, m) \/ BusyAddress(n, m) \/ ConnectRefused(n, m)

\* n and m call connect() for each other and the two SYNs cross: TCP makes one
\* connection of them (a simultaneous open), which nobody accepts.
CrossConnect(n, m) ==
    /\ CrossingSyns
    /\ status[n] = "up" /\ m \in todo[n]
    /\ status[m] = "up" /\ n \in todo[m]
    /\ FreeAddress(sock, n, m)
    /\ LET tn == RegisterPendingPeer(table[n], m)
           tm == RegisterPendingPeer(table[m], n)
           pn == Remaining(n, m, tn)
           pm == Remaining(m, n, tm)
           s == [sock EXCEPT ![n][m] = "open", ![m][n] = "open"]
           sn == IF pn = {} THEN Closed(s, n, closing[n]) ELSE s
       IN /\ table' = [table EXCEPT ![n] = tn, ![m] = tm]
          /\ todo' = [todo EXCEPT ![n] = pn, ![m] = pm]
          /\ closing' = [closing EXCEPT
                            ![n] = IF pn = {} THEN NoNode ELSE @,
                            ![m] = IF pm = {} THEN NoNode ELSE @]
          /\ sock' = IF pm = {} THEN Closed(sn, m, closing[m]) ELSE sn
    /\ UNCHANGED <<status, rejected, inbox, stops>>

-----------------------------------------------------------------------------
Handler(n, m) == HandlePeeringClient(n, m) \/ HandleP2pTraffic(n, m) \/ TryPeer(n, m)

Next ==
    \/ \E n \in Node : Start(n) \/ Listen(n) \/ Stop(n)
    \/ \E n, m \in Node :
          ConnectToFirstPeer(n, m) \/ Handler(n, m) \/ CrossConnect(n, m)

Spec == Init /\ [][Next]_vars

(* A process that can run does run.  Which of its readable sockets comes     *)
(* first is left open.  Users start and stop nodes when they like.         *)
NodeStep(n) == Listen(n) \/ \E m \in Node : Handler(n, m)

Fairness == \A n \in Node : WF_vars(NodeStep(n))

FairSpec == Spec /\ Fairness

-----------------------------------------------------------------------------
(* Properties.                                                             *)

\* No node takes on more peers than its -n option: isFull() compares with ==,
\* so one registration too many would leave the table open without limit.
TableBound == \A n \in Node : GetNumPeers(table[n]) <= MaxPeers[n]

\* rejectedPeerList_ keeps within its capacity, never lists a node twice and
\* never lists a peer of the table: what the assertions of P2pTable.cpp require.
RejectedOK ==
    \A n \in Node :
       /\ Len(rejected[n]) <= MAX_REJECTED
       /\ Cardinality(Rejecters(rejected[n])) = Len(rejected[n])
       /\ Rejecters(rejected[n]) \cap Peers(table[n]) = {}

\* A process holds a descriptor for exactly the peers of its table, and for the
\* redirecting peer its handler still has to close: no descriptor is lost when
\* a peer is rejected and no entry outlives its connection.
SocketsMatchTable ==
    \A n, m \in Node :
       sock[n][m] \in {"open", "reset"}
          <=> m \in Peers(table[n]) \/ (m = closing[n] /\ m # NoNode)

\* A response only ever arrives for a pending peer that is not on the rejected
\* list, and never recommends the node to itself: the assertions of
\* registerConnectedPeer() and registerRejectedPeer() hold in handleP2pTraffic().
AnswerExpected ==
    \A n, m \in Node :
       inbox[n][m] # NoMsg =>
          /\ IsPendingPeer(table[n], m)
          /\ ~IsRejectedPeer(rejected[n], m)
          /\ n \notin inbox[n][m].peers

\* The peers a handler still has to try are in neither list and are not the
\* node itself, so registerPendingPeer() never asserts.
TodoAvailable ==
    \A n \in Node : \A m \in todo[n] :
       /\ CanRegisterPending(table[n], rejected[n], m)
       /\ m # n

\* A pending peer is one that still owes an answer: its request is in the
\* backlog, or the response is on the wire, or the connection is broken, or both
\* sides wait for each other after a simultaneous open.
PendingAnswered ==
    \A n, m \in Node :
       IsPendingPeer(table[n], m) =>
          \/ sock[m][n] = "queued"
          \/ inbox[n][m] # NoMsg
          \/ sock[n][m] = "reset"
          \/ ~Alive(sock[m][n])
          \/ CrossingSyns /\ IsPendingPeer(table[m], n)

\* Two live nodes agree that they are peers: if n counts m as connected, then m
\* counts n as connected or has n's WELCOME still to read, or m is gone.
ConnectedAgreement ==
    \A n, m \in Node :
       IsConnectedPeer(table[n], m) =>
          \/ IsConnectedPeer(table[m], n)
          \/ inbox[m][n].type = "WELCOME"
          \/ status[m] \in Ended

\* Once two nodes are connected they stay so until one of the processes ends:
\* nothing makes room in a full table.
MembershipStable ==
    [][\A n, m \in Node :
          IsConnectedPeer(table[n], m) =>
             IsConnectedPeer(table'[n], m) \/ status'[n] \in Ended]_vars

\* While no process has ended, an exception can only end one that connects to a
\* recommended peer which is still between connecting to its own first peer and
\* listening (main.cpp:1324 and 1347): no other connect() is refused.
FirstThrow ==
    [][\A n \in Node :
          (\A p \in Node : status[p] \notin Ended) /\ status'[n] = "threw" =>
             \E m \in todo[n] : status[m] = "starting"]_vars

\* What Membership knows of a process.
ProcessState ==
    [n \in Node |-> IF status[n] \in Running THEN "up"
                    ELSE IF status[n] = "down" THEN "down" ELSE "ended"]

\* The tables of all nodes are the overlay of Membership: requests are answered
\* once, both sides agree, and peers stay.
Overlay == INSTANCE Membership WITH state <- ProcessState, peer <- table

ImplementsMembership == Overlay!Spec

\* P2pTable.cpp:85: a peer that is registered as connected is not one that
\* rejected this node.  (The assertion fails; the node is aborted.)
ConnectedPeerNotRejected == \A n \in Node : status[n] # "aborted"

\* n waits at select() and nothing it could handle is there, or its process
\* cannot handle anything any more.
Idle(n) ==
    \/ status[n] \in Ended \cup {"down", "spinning"}
    \/ /\ AtSelect(n)
       /\ \A m \in Node :
             /\ sock[n][m] # "queued"
             /\ m \in Peers(table[n]) =>
                   sock[n][m] = "open" /\ inbox[n][m] = NoMsg /\ Alive(sock[m][n])

\* Every node but n has a full table, pending peers included, and n is in none.
CrowdedOut(n) ==
    /\ status[n] \in Running
    /\ \A m \in Node \ {n} :
          IsFull(table[m], MaxPeers[m]) /\ n \notin Peers(table[m])

\* Redirections come to an end, and then no node has anything left to do, unless
\* a node finds no room with any other, and there are more of them than its list
\* of rejecters holds.
Settles ==
    \/ <>[](\A n \in Node : Idle(n))
    \/ /\ Cardinality(Node) - 1 > MAX_REJECTED
       /\ \E n \in Node : <>CrowdedOut(n)

\* No request is left without an answer while both processes live: a pending
\* peer is sooner or later connected or rejected.  (After a simultaneous open
\* both would wait for ever; the property is checked without it.)
RequestAnswered(n, m) ==
    IsPendingPeer(table[n], m) ~>
       ~IsPendingPeer(table[n], m) \/ status[n] # "up" \/ status[m] # "up"

\* writeup-astrev.txt:8: p2pdb "infinite loops when you try to connect to a
\* saturated p2p network".  When all other nodes are full and there are more of
\* them than rejectedPeerList_ holds, a newcomer tries them for ever.
Saturated(S) == \A m \in S : status[m] = "up"
                    /\ Cardinality({p \in S : IsConnectedPeer(table[m], p)}) = MaxPeers[m]

NeverSettles(n) ==
    [](Saturated(Node \ {n}) /\ status[n] = "starting" => []<>~Idle(n))

-----------------------------------------------------------------------------
(* The inductive invariant behind SocketsMatchTable, AnswerExpected,       *)
(* TodoAvailable and TableBound: the rest says why no response can come    *)
(* for a connection that the table does not hold as pending.               *)

ListsDisjoint ==
    \A n \in Node : Rejecters(rejected[n]) \cap Peers(table[n]) = {}

\* What holds while a handler is trying recommended peers.
LoopState ==
    \A n \in Node :
       /\ todo[n] # {} => status[n] = "up" /\ ~IsFull(table[n], MaxPeers[n])
       /\ closing[n] # NoNode =>
             /\ todo[n] # {}
             /\ IsRejectedPeer(rejected[n], closing[n])
             /\ sock[n][closing[n]] = "open"
             /\ ~Alive(sock[closing[n]][n])

\* A connection in the backlog of n: the requesting node m still waits for the
\* response, unless its process has ended.
Backlog ==
    \A n, m \in Node :
       sock[n][m] = "queued" =>
          /\ inbox[m][n] = NoMsg
          /\ \/ sock[m][n] = "closed"
             \/ sock[m][n] = "open" /\ IsPendingPeer(table[m], n)

RedirectCloses ==
    \A n, m \in Node : inbox[n][m].type = "REDIRECT" => ~Alive(sock[m][n])

NotStarted ==
    \A n \in Node :
       status[n] = "down" =>
          /\ rejected[n] = <<>>
          /\ \A m \in Node : sock[n][m] = "none" /\ sock[m][n] = "none"

\* Every response that main() waits for finds the table as the assertions of
\* P2pTable.cpp require, at every step of every handler.
IInv ==
    /\ TypeOK
    /\ TableBound
    /\ SocketsMatchTable
    /\ AnswerExpected
    /\ TodoAvailable
    /\ ListsDisjoint
    /\ LoopState
    /\ Backlog
    /\ RedirectCloses
    /\ NotStarted
=============================================================================
