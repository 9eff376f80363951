----------------------------- MODULE ImageQuery -----------------------------
(***************************************************************************)
(* How an image is found (main.cpp, ImageNetwork.cpp, netimg.cpp): a       *)
(* netimg client asks a node; the node looks among its own files, then     *)
(* floods a search over its connected peers; a node that has the file      *)
(* connects to the image port of the originating node and streams it; the  *)
(* originating node passes it on to its client, or gives up after a time.  *)
(*                                                                         *)
(* The overlay of connected peers is a constant here, one that peering has *)
(* settled on: in the program it still grows while nodes join, and Peering *)
(* shows that it shrinks only when processes end.  The files of a node do  *)
(* not change while it runs.  Handlers are single steps, except that a     *)
(* transfer too large for the socket buffers keeps the sender in send().   *)
(***************************************************************************)
EXTENDS Sockets, Naturals, Sequences

CONSTANTS Links,          \* Links[n]: fetchConnectedPeers() of n
          File,           \* names of images
          Files,          \* Files[n]: images in the directory of n
          Client,         \* netimg processes
          NoClient,       \* not a client
          Requests,       \* what the clients may be going to ask, and whom
          PR_MAXPEERS,    \* capacity of packetHistory_
          SearchIds,      \* number of search ids (2^16 in the code)
          LargeImages,    \* is an image larger than the socket buffers?
          MaxLeaves       \* bound: clients that go away before the answer

ASSUME LinksAssumption ==
    /\ Links \in [Node -> SUBSET Node]
    /\ \A n, m \in Node : m \in Links[n] => n \in Links[m] /\ m # n
ASSUME FilesAssumption == Files \in [Node -> SUBSET File]
ASSUME ClientAssumption == NoClient \notin Client /\ Client \cap Node = {}
ASSUME RequestsAssumption ==
    Requests \subseteq [Client -> [node : Node, file : File]]
ASSUME LimitsAssumption ==
    /\ PR_MAXPEERS \in Nat \ {0} /\ SearchIds \in Nat \ {0} /\ MaxLeaves \in Nat
    /\ LargeImages \in BOOLEAN

VARIABLES
    status,       \* where the process of each node is
    imageClient,  \* imageClient_: the client being serviced
    searchId,     \* currMaxSearchId_
    history,      \* packetHistory_: the last searches seen, oldest first
    link,         \* link[m][n]: searches m has sent to n and n has not read
    backlog,      \* connections to the image port that n has not accepted
    sending,      \* originating node to which n is in the middle of a transfer
    sock,         \* sock[n][m]: n's end of the image connection of n and m
    request,      \* what each client asks, and whom
    answer        \* what each client has got

vars == <<status, imageClient, searchId, history, link, backlog, sending, sock,
          request, answer>>

\* exit(1), an exception nobody catches, SIGPIPE
Ended == {"exited", "threw", "killed"}

\* Where a client stands that has not got an image.
Outcome == {"idle", "waiting", "busy", "nfound", "lost", "left"}

ASSUME FileAssumption == File \cap Outcome = {}

Search == [orig : Node, id : 0 .. SearchIds - 1]
Query == [orig : Node, id : 0 .. SearchIds - 1, file : File]
Incoming == [from : Client \cup Node, file : File]

TypeOK ==
    /\ status \in [Node -> {"up", "spinning"} \cup Ended]
    /\ imageClient \in [Node -> Client \cup {NoClient}]
    /\ searchId \in [Node -> 0 .. SearchIds - 1]
    /\ history \in [Node -> {h \in Seq(Search) : Len(h) <= PR_MAXPEERS}]
    /\ link \in [Node -> [Node -> Seq(Query)]]
    /\ backlog \in [Node -> Seq(Incoming)]
    /\ sending \in [Node -> Node \cup {NoNode}]
    /\ sock \in [Node -> [Node -> End]]
    /\ request \in Requests
    /\ answer \in [Client -> Outcome \cup File]

\* currMaxSearchId_ is never initialized.
Init ==
    /\ status = [n \in Node |-> "up"]
    /\ imageClient = [n \in Node |-> NoClient]
    /\ searchId \in [Node -> 0 .. SearchIds - 1]
    /\ history = [n \in Node |-> <<>>]
    /\ link = [m \in Node |-> [n \in Node |-> <<>>]]
    /\ backlog = [n \in Node |-> <<>>]
    /\ sending = [n \in Node |-> NoNode]
    /\ sock = NoSockets
    /\ request \in Requests
    /\ answer = [c \in Client |-> "idle"]

Listening(n) == status[n] \notin Ended
AtSelect(n) == status[n] = "up" /\ sending[n] = NoNode

\* What is written to a client that has gone away is lost.
Answered(c, what) == [answer EXCEPT ![c] = IF @ = "left" THEN @ ELSE what]

\* The kernel resets the connections of the backlog, and the clients see the
\* end of the stream.  s is sock as the handler has left it.
ProcessEnds(n, how, s) ==
    /\ status' = [status EXCEPT ![n] = how]
    /\ imageClient' = [imageClient EXCEPT ![n] = NoClient]
    /\ backlog' = [backlog EXCEPT ![n] = <<>>]
    /\ sending' = [sending EXCEPT ![n] = NoNode]
    /\ sock' = [s EXCEPT ![n] =
                   [m \in Node |-> IF @[m] = "closed" THEN "closed" ELSE "none"]]
    /\ answer' = [c \in Client |->
                     IF answer[c] = "waiting" /\ request[c].node = n
                     THEN "lost" ELSE answer[c]]

-----------------------------------------------------------------------------
(* netimg: a client asks, and may go away before it is answered.           *)

ClientAsks(c) ==
    LET n == request[c].node
    IN /\ answer[c] = "idle" /\ Listening(n)
       /\ answer' = [answer EXCEPT ![c] = "waiting"]
       /\ backlog' = [backlog EXCEPT ![n] =
                         Append(@, [from |-> c, file |-> request[c].file])]
       /\ UNCHANGED <<status, imageClient, searchId, history, link, sending, sock,
                      request>>

ClientLeaves(c) ==
    /\ answer[c] = "waiting"
    /\ Cardinality({x \in Client : answer[x] = "left"}) < MaxLeaves
    /\ answer' = [answer EXCEPT ![c] = "left"]
    /\ UNCHANGED <<status, imageClient, searchId, history, link, backlog, sending,
                   sock, request>>

-----------------------------------------------------------------------------
(* ImageNetwork: the history of searches.                                  *)

Key(q) == [orig |-> q.orig, id |-> q.id]

\* Mutants: ids do not wrap, or stay what they are.
BugGenSearchId(n) == searchId[n] + 1
BugSameSearchId(n) == searchId[n]

HasSeenP2pImageQuery(h, q) == \E i \in DOMAIN h : h[i] = Key(q)
AddImageQuery(h, q) ==
    Append(IF Len(h) = PR_MAXPEERS THEN Tail(h) ELSE h, Key(q))

GenSearchId(n) == (searchId[n] + 1) % SearchIds

\* genOriginalP2pImageQuery()
Original(n, f) == [orig |-> n, id |-> GenSearchId(n), file |-> f]

-----------------------------------------------------------------------------
(* What the handlers share.                                                *)

\* Mutants: the history is not consulted; the search goes back to the peer it
\* came from.
BugFloods(n, q, from, l) ==
    /\ history' = [history EXCEPT ![n] = AddImageQuery(@, q)]
    /\ link' = [m \in Node |-> [r \in Node |->
                   IF m = n /\ r \in Links[n] \ {from}
                   THEN Append(l[m][r], q) ELSE l[m][r]]]

BugSendsBack(n, q, from, l) ==
    \/ /\ HasSeenP2pImageQuery(history[n], q)
       /\ link' = l
       /\ UNCHANGED history
    \/ /\ ~HasSeenP2pImageQuery(history[n], q)
       /\ history' = [history EXCEPT ![n] = AddImageQuery(@, q)]
       /\ link' = [m \in Node |-> [r \in Node |->
                      IF m = n /\ r \in Links[n] THEN Append(l[m][r], q) ELSE l[m][r]]]

\* l is link without the search just read.  A peer whose process has ended
\* never reads what is written to it.
QueryNetworkForImage(n, q, from, l) ==
    \/ /\ HasSeenP2pImageQuery(history[n], q)
       /\ link' = l
       /\ UNCHANGED history
    \/ /\ ~HasSeenP2pImageQuery(history[n], q)
       /\ history' = [history EXCEPT ![n] = AddImageQuery(@, q)]
       /\ link' = [m \in Node |-> [r \in Node |->
                      IF m = n /\ r \in Links[n] \ {from}
                      THEN Append(l[m][r], q) ELSE l[m][r]]]

\* A second search to a peer whose process has ended, after the first was
\* answered by a reset: SIGPIPE, which p2pdb does not ignore (netimg does).
PeerGone(n, q, from) ==
    /\ q.file \notin Files[n] /\ ~HasSeenP2pImageQuery(history[n], q)
    /\ \E r \in Links[n] \ {from} : ~Listening(r) /\ link[n][r] # <<>>
    /\ ProcessEnds(n, "killed", sock)

\* Mutant: invalidateImageClient() is forgotten.
BugReturnImageToClient(n, c, f) ==
    /\ answer' = Answered(c, f)
    /\ UNCHANGED imageClient

ReturnImageToClient(n, c, f) ==
    /\ answer' = Answered(c, f)
    /\ imageClient' = [imageClient EXCEPT ![n] = NoClient]

\* A client that has gone away: the second write() of the image raises SIGPIPE.
ClientGone(n, c, s) ==
    /\ answer[c] = "left"
    /\ ProcessEnds(n, "killed", s)

-----------------------------------------------------------------------------
(* handleImageTraffic(): the image port has a connection to accept.        *)

\* Mutant: the second client takes the place of the first.
BugRejectImageQuery(n, c) ==
    /\ imageClient[n] # NoClient
    /\ imageClient' = [imageClient EXCEPT ![n] = c]
    /\ UNCHANGED <<status, searchId, history, link, sending, sock, answer>>

RejectImageQuery(n, c) ==
    /\ imageClient[n] # NoClient
    /\ answer' = Answered(c, "busy")
    /\ UNCHANGED <<status, imageClient, searchId, history, link, sending, sock>>

\* The image is here: it goes straight back.
FindLocally(n, c, f) ==
    /\ imageClient[n] = NoClient
    /\ f \in Files[n]
    /\ searchId' = [searchId EXCEPT ![n] = GenSearchId(n)]
    /\ ReturnImageToClient(n, c, f)
    /\ UNCHANGED <<status, history, link, sending, sock>>

SearchNetwork(n, c, f) ==
    /\ imageClient[n] = NoClient
    /\ f \notin Files[n]
    /\ searchId' = [searchId EXCEPT ![n] = GenSearchId(n)]
    /\ imageClient' = [imageClient EXCEPT ![n] = c]
    /\ QueryNetworkForImage(n, Original(n, f), NoNode, link)
    /\ UNCHANGED <<status, sending, sock, answer>>

\* Mutant: without a client the image is neither read nor refused.
BugReceiveTransfer(n, p, f) ==
    /\ \/ /\ imageClient[n] = NoClient
          /\ UNCHANGED <<answer, imageClient, sock>>
       \/ /\ imageClient[n] # NoClient
          /\ ReturnImageToClient(n, imageClient[n], f)
          /\ sock' = Closed(sock, n, p)
    /\ UNCHANGED <<status, searchId, history, link, sending>>

\* Whoever is being serviced gets the image; without a client it is dropped.
ReceiveTransfer(n, p, f) ==
    /\ \/ imageClient[n] = NoClient /\ UNCHANGED <<answer, imageClient>>
       \/ imageClient[n] # NoClient /\ ReturnImageToClient(n, imageClient[n], f)
    /\ sock' = Closed(sock, n, p)
    /\ UNCHANGED <<status, searchId, history, link, sending>>

HandleImageTraffic(n) ==
    /\ AtSelect(n)
    /\ backlog[n] # <<>>
    /\ LET e == Head(backlog[n])
       IN \/ /\ \/ /\ e.from \in Client
                   /\ \/ RejectImageQuery(n, e.from)
                      \/ FindLocally(n, e.from, e.file)
                      \/ SearchNetwork(n, e.from, e.file)
                \/ e.from \in Node /\ ReceiveTransfer(n, e.from, e.file)
             /\ backlog' = [backlog EXCEPT ![n] = Tail(@)]
          \/ /\ \/ /\ e.from \in Client /\ imageClient[n] = NoClient
                   /\ \/ e.file \in Files[n] /\ ClientGone(n, e.from, sock)
                      \/ PeerGone(n, Original(n, e.file), NoNode)
                \/ /\ e.from \in Node /\ imageClient[n] # NoClient
                   /\ ClientGone(n, imageClient[n], Closed(sock, n, e.from))
             /\ UNCHANGED <<searchId, history, link>>
    /\ UNCHANGED request

\* select() has returned without traffic for QUERY_TIMEOUT_SECS.  Searches and
\* replies may still be on the wire; connections in the backlog are not.
TimeoutImageQuery(n) ==
    /\ AtSelect(n)
    /\ imageClient[n] # NoClient /\ backlog[n] = <<>>
    /\ answer' = Answered(imageClient[n], "nfound")
    /\ imageClient' = [imageClient EXCEPT ![n] = NoClient]
    /\ UNCHANGED <<status, searchId, history, link, backlog, sending, sock, request>>

-----------------------------------------------------------------------------
(* handleP2pTraffic(): a search arrives from a connected peer.             *)

\* connect() fails because of an earlier transfer to the same node, or because
\* that node is gone: nothing catches the exception.
TransferFails(n, o) ==
    /\ AddressInUse(sock, n, o) \/ (FreeAddress(sock, n, o) /\ ~Listening(o))
    /\ ProcessEnds(n, "threw", sock)

\* Mutant: nothing prevents a second connection to the same node.
BugTransfer(n, o, f) ==
    /\ n # o /\ Listening(o)
    /\ backlog' = [backlog EXCEPT ![o] = Append(@, [from |-> n, file |-> f])]
    /\ sock' = IF LargeImages THEN Connected(sock, n, o)
               ELSE Closed(Connected(sock, n, o), n, o)
    /\ sending' = IF LargeImages THEN [sending EXCEPT ![n] = o] ELSE sending
    /\ UNCHANGED <<status, imageClient, answer>>

\* An image that fits into the socket buffers is sent and the connection closed
\* before o has accepted it; otherwise n stays in send().
Transfer(n, o, f) ==
    /\ FreeAddress(sock, n, o) /\ Listening(o)
    /\ backlog' = [backlog EXCEPT ![o] = Append(@, [from |-> n, file |-> f])]
    /\ LET s == Connected(sock, n, o)
       IN sock' = IF LargeImages THEN s ELSE Closed(s, n, o)
    /\ sending' = IF LargeImages THEN [sending EXCEPT ![n] = o] ELSE sending
    /\ UNCHANGED <<status, imageClient, answer>>

\* Mutant: the image goes to the peer that forwarded the search.
BugReturnImage(n, m, q) == Transfer(n, m, q.file) \/ TransferFails(n, m)

ReturnImageToOriginatingPeer(n, m, q) ==
    Transfer(n, q.orig, q.file) \/ TransferFails(n, q.orig)

ProcessImageQuery(n, m) ==
    LET q == Head(link[m][n])
        rest == [link EXCEPT ![m][n] = Tail(@)]
    IN \/ /\ q.file \in Files[n]
          /\ ReturnImageToOriginatingPeer(n, m, q)
          /\ link' = rest
          /\ UNCHANGED history
       \/ /\ q.file \notin Files[n]
          /\ QueryNetworkForImage(n, q, m, rest)
          /\ UNCHANGED <<status, imageClient, backlog, sending, sock, answer>>
       \/ PeerGone(n, q, m) /\ UNCHANGED <<history, link>>

\* One recv() returns two searches: "invalid image query message length".
TwoQueriesInOneRead(n, m) ==
    /\ Len(link[m][n]) > 1
    /\ ProcessEnds(n, "exited", sock)
    /\ UNCHANGED <<history, link>>

HandleP2pTraffic(n, m) ==
    /\ AtSelect(n)
    /\ link[m][n] # <<>>
    /\ ProcessImageQuery(n, m) \/ TwoQueriesInOneRead(n, m)
    /\ UNCHANGED <<searchId, request>>

\* The peer's process has ended: the loop that reads the header never ends, or
\* recv() throws if there are searches that the peer did not read.
HandleEndOfStream(n, m) ==
    /\ AtSelect(n)
    /\ m \in Links[n] /\ status[m] \in Ended
    /\ link[m][n] = <<>>
    /\ \/ /\ link[n][m] = <<>>
          /\ status' = [status EXCEPT ![n] = "spinning"]
          /\ UNCHANGED <<imageClient, backlog, sending, sock, answer>>
       \/ /\ link[n][m] # <<>>
          /\ ProcessEnds(n, "threw", sock)
    /\ UNCHANGED <<searchId, history, link, request>>

-----------------------------------------------------------------------------
(* transferImage() of a large image, once the receiver has read it all, or *)
(* has ended.                                                              *)

TransferEnds(n) ==
    /\ sending[n] # NoNode /\ sock[sending[n]][n] = "closed"
    /\ sock' = Closed(sock, n, sending[n])
    /\ sending' = [sending EXCEPT ![n] = NoNode]
    /\ UNCHANGED <<status, imageClient, searchId, history, link, backlog, request,
                   answer>>

TransferBreaks(n) ==
    /\ sending[n] # NoNode /\ sock[sending[n]][n] = "none"
    /\ ProcessEnds(n, "threw", sock)
    /\ UNCHANGED <<searchId, history, link, request>>

-----------------------------------------------------------------------------
NodeStep(n) ==
    \/ HandleImageTraffic(n) \/ TimeoutImageQuery(n)
    \/ TransferEnds(n) \/ TransferBreaks(n)
    \/ \E m \in Node : HandleP2pTraffic(n, m) \/ HandleEndOfStream(n, m)

Next ==
    \/ \E c \in Client : ClientAsks(c) \/ ClientLeaves(c)
    \/ \E n \in Node : NodeStep(n)

Spec == Init /\ [][Next]_vars

(* A process that can run does run; users ask when they like.              *)
Fairness == \A n \in Node : WF_vars(NodeStep(n))

FairSpec == Spec /\ Fairness

-----------------------------------------------------------------------------
(* Properties.                                                             *)

AllUp == \A n \in Node : status[n] = "up"

Waiting(n) == {c \in Client : answer[c] = "waiting" /\ request[c].node = n}

Sent(m, n) == {link[m][n][i] : i \in DOMAIN link[m][n]}

\* No client falls between the chairs: one that waits is in the backlog of its
\* node exactly once, or is the one client that node is servicing; and a node
\* only services a client that waits or has gone away (setImageClient,
\* invalidateImageClient).
ClientsAccountedFor ==
    \A n \in Node :
       /\ \A c \in Waiting(n) :
             Cardinality({i \in DOMAIN backlog[n] : backlog[n][i].from = c})
                = IF imageClient[n] = c THEN 0 ELSE 1
       /\ imageClient[n] # NoClient =>
             /\ request[imageClient[n]].node = n
             /\ answer[imageClient[n]] \in {"waiting", "left"}

\* n does not have f, and a client has asked it for f.
Asked(n, f) ==
    /\ f \notin Files[n]
    /\ \E c \in Client : answer[c] # "idle" /\ request[c] = [node |-> n, file |-> f]

\* Every search under way, and every image in a backlog, goes back to a client
\* of the originating node that asked for that file, which that node does not
\* have: so the assertion of returnImageToOriginatingPeer() holds.
SearchesWereAsked ==
    /\ \A m, n \in Node : \A q \in Sent(m, n) : Asked(q.orig, q.file)
    /\ \A n \in Node : \A i \in DOMAIN backlog[n] :
          backlog[n][i].from \in Node => Asked(n, backlog[n][i].file)

\* As long as the history of a node has room for every search, the flood is
\* sound: a link carries one copy of a search at most, the sender remembers it,
\* and it does not go back where it came from: a node that passes a search on to
\* n has it from another peer than n, which remembers it (main.cpp:467).
FloodOnce ==
    \A m, n \in Node :
       /\ Cardinality(Sent(m, n)) = Len(link[m][n])
       /\ \A q \in Sent(m, n) :
             /\ HasSeenP2pImageQuery(history[m], q)
             /\ q.orig = m \/ \E r \in Links[m] \ {n} : HasSeenP2pImageQuery(history[r], q)

\* genSearchId(): "Return a uuid for p2p image-queries originating from this
\* node" (ImageNetwork.h:121).  A search that a node starts for a client is never
\* taken for one it has seen already, in which case it would be sent to nobody.
\* This holds until the ids come round, which every client, even one whose file is
\* found at once, brings nearer.
NewSearchesStart ==
    [][\A n \in Node :
          imageClient[n] = NoClient /\ imageClient'[n] # NoClient => history'[n] # history[n]]_vars

\* Two nodes never have more than one image connection.  A node has an end open
\* exactly as long as it is in the middle of a transfer, and then it is in the
\* backlog of the node it sends to, or that node has read the image, or is gone.
TransfersOK ==
    \A n, o \in Node :
       /\ Cardinality({i \in DOMAIN backlog[o] : backlog[o][i].from = n})
             = IF sock[o][n] = "queued" THEN 1 ELSE 0
       /\ sock[o][n] = "queued" => sock[n][o] \in {"open", "closed"}
       /\ sock[n][o] = "open" <=> sending[n] = o
       /\ sending[n] = o => \/ sock[o][n] \in {"queued", "closed"}
                            \/ sock[o][n] = "none" /\ status[o] \in Ended

\* Nodes that wait for each other, or for a process that hangs.
Deadlocked(S) == \A n \in S : sending[n] \in S \/ status[n] = "spinning"

\* The only thing that keeps a node in send() for good is a circle of nodes that
\* are all in send(), or a receiver that hangs.
TransfersProgress ==
    \A n \in Node :
       sending[n] # NoNode ~> \/ sending[n] = NoNode
                             \/ \E S \in SUBSET Node : n \in S /\ Deadlocked(S)

\* Every client is answered, unless the process of its node ends or hangs.
ClientAnswered(c) ==
    answer[c] = "waiting" ~> answer[c] # "waiting" \/ status[request[c].node] # "up"

\* Searches die out.
FloodEnds == <>[](\A m, n \in Node : status[n] = "up" => link[m][n] = <<>>)

\* What a client sees of all this is the image service of ImageService: one answer
\* each, one client at a time, and only images that a client asked the node for.
Service ==
    INSTANCE ImageService WITH
        up <- [n \in Node |-> status[n] \notin Ended],
        serving <- imageClient

ImplementsService == Service!Spec

\* main.cpp:672: "Don't transfer to client if we've already serviced this
\* query!"  A client only ever gets the image it asked for.
ImageAsAsked == \A c \in Client : answer[c] \in File => answer[c] = request[c].file
=============================================================================
