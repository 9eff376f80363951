# A verification model of p2pdb

`p2pdb` is a peer-to-peer image server: nodes form an overlay network, a
`netimg` client asks any one node for an image, and the overlay is searched for
it.  The code is in `src/src` (paths below are relative to that directory).
This directory holds TLA+ modules translated from it, the TLC configurations
that check them on small instances, and proofs for TLAPS.

## The system and its parts

| part | code | state | operations |
|---|---|---|---|
| Peer table | `P2pTable.cpp/.h` | `peerTable_` (descriptor to connection and pending bit), `rejectedPeerList_`, `maxPeers_` | three registrations, each starting with an assertion; queries |
| Peering protocol | `main.cpp` 99-230, 824-1040, 1051-1169, 1297-1355 | the table; responses on the wire | connect to the first peer, listen, accept or redirect, handle WELCOME and REDIRECT, try recommended peers |
| Image search | `main.cpp` 232-822, 1171-1210; `ImageNetwork.cpp` | `imageClient_`, `packetHistory_`, `currMaxSearchId_` | accept or refuse a client, look for the file, flood a search, transfer, deliver, time out |
| Event loop | `main.cpp` 1228-1295 | the descriptors passed to `select()` | one handler after the other |
| Sockets | `ServerBuilder`, `ServiceBuilder`, `Service`, `Connection` | kernel sockets | connect, listen, accept, blocking read and write, close |
| Wire format | `packets.h`, length checks in `main.cpp` | bytes of one `recv()` | header, body, exact-length checks |
| Image files | `ltga.cpp`, `imgdb.cpp` | pixels, `TGAReadError` | decode TGA |
| netimg | `netimg.cpp`, `netimglut.cpp` | one connection, image buffer | ask, receive, draw |
| Command line | `main.cpp` 29-97 | `-p`, `-n` | parse |

How they interact.  A node is one process with one thread around `select()`.
It listens on two ports, one for peers and one for images.  All its outgoing
peer connections are bound to its peer port (so a pair of nodes has at most one
connection, and a second `connect()` fails with `EADDRNOTAVAIL`), and all its
outgoing transfers to its image port.  Peers exchange WELCOME or REDIRECT, each
with a list of recommended peers, and SEARCH.  A node that has the file connects
to the image port of the node that started the search, which hands the image to
its client.  The overlay (the connected peers of the table) is what a search is
flooded over.

What is hard: handlers of different nodes interleave between the `connect()`
calls of one handler; two nodes may connect to each other at once; reads and
writes block inside a `select()` loop; a process can end at any moment, and the
exceptions that its peers then meet are mostly not caught; responses and images
may come late; the two bounded lists (`rejectedPeerList_`, `packetHistory_`)
forget; the length checks assume that a `recv()` returns one packet.
`PROJECT.json` lists these hazards line by line.

What makes each part correct:

- peer table: its assertions hold, its limit holds, its entries are exactly the
  sockets the process has;
- peering: each request is answered once, both sides agree on who is a peer,
  peering comes to rest;
- image search: each client is answered exactly once, with an image it asked
  for; a search is forwarded once by each node and dies out; transfers end;
- event loop: what `select()` returned is still there when its handler runs, and
  every descriptor has an owner that closes it;
- framing: each handler takes exactly one packet from the stream, however TCP
  cuts it;
- image files: what is decoded is what the file holds, and a file that can be
  read is found;
- command line: the numbers the process works with are those the user gave (true
  of `-n`, not of the port).

## Modules

| module | what it models |
|---|---|
| `Sockets` | connections between nodes that use one local port: `sock[n][m]` is n's end of the only connection of n and m |
| `P2pTable` | the table and the rejected list of one node, as operators |
| `Membership` | abstract: who is a peer of whom, with a limit |
| `Peering` | the peering protocol of all nodes; implements `Membership` |
| `ImageService` | abstract: what a node promises its clients |
| `ImageQuery` | clients, searches and transfers over a fixed overlay; implements `ImageService` |
| `CommandLine` | the options of p2pdb, with the widths of their numbers, as operators |
| `EventLoop` | one process: start-up, the loop around `select()`, descriptors |
| `Framing` | one connection: how packets are written and cut out of the stream |
| `Tga` | one process: loading image files |
| `P2pTableProofs`, `PeeringProofs`, `MembershipProofs`, `EventLoopProofs`, `ImageQueryProofs`, `FloodProofs`, `FramingProofs`, `TgaProofs` | the proofs |
| `MCPeering`, `MCImageQuery`, `MCEventLoop`, `MCFraming`, `MCTga` | instances for TLC |

`Peering` extends `P2pTable`, which extends `Sockets`; `ImageQuery` extends
`Sockets` (the first for the peer ports, the second for the image ports);
`EventLoop` extends `P2pTable` and `CommandLine`.  The modules look at the same
program from different distances.  `Peering` and `ImageQuery` see all nodes and
take a handler as one step; `EventLoop` sees one process and the numbers of its
descriptors, and justifies what the other two take for granted: that a handler
finds its connection as `select()` reported it (`SnapshotValid`) and that the
table is a function of the remote node (`DescriptorsOwned`).  `Framing` sees the
bytes of one connection, and justifies taking a message as a unit: the only
exception, two packets in one read, is a step of its own in `ImageQuery`
(`TwoQueriesInOneRead`).

### Peering

State: `status` of each process; `table`, `rejected` (the two lists of
P2pTable); `todo` and `closing`, the local state of a handler between two
`connect()` calls (the recommended peers still to be tried, and the redirecting
peer it closes at the end); `sock`; `inbox[n][m]`, the response of m that n has
not read; `stops`.  A table is indexed by the remote node instead of the
descriptor: because of the single local port, the remote address determines the
connection.

Actions: `Start`, `ConnectToFirstPeer`, `Listen` (`main`);
`HandlePeeringClient` (`acceptPeerRequest`, its failing assertion,
`redirectPeer`, a response that cannot be written); `HandleP2pTraffic` (WELCOME,
REDIRECT, end of stream, reset); `TryPeer` (one `connect()` of
`handleRecommendedPeerTraffic`, which may succeed, find the address busy, or be
refused); `CrossConnect` (two of these that meet); `Stop` (the user).  A handler
is one step except that each `connect()` is a step of its own: between two of
them the handler does nothing another node can see, and other nodes run.

### ImageQuery

State: `imageClient`, `searchId`, `history` (`ImageNetwork`); `link[m][n]`, the
searches m has sent and n has not read; `backlog` of the image port; `sending`,
the node to which n is blocked in `send()`; `sock` of the image ports; for each
client its `request` and its `answer`.  `currMaxSearchId_` is never initialized,
so any start value is an initial state.  The overlay is a constant, one that
peering has settled on.  In the program it also grows, while nodes join;
`Peering` shows (`MembershipStable`) that it only shrinks when processes end.

Actions: `ClientAsks`, `ClientLeaves`; `HandleImageTraffic` (busy, file is here,
search the network, receive a transfer, and a client that is gone);
`TimeoutImageQuery`; `HandleP2pTraffic` (answer or forward a search, two
searches in one read); `HandleEndOfStream`; `TransferEnds`, `TransferBreaks`.
With `LargeImages` a transfer blocks its sender until the receiver has read it;
without, it fits into the socket buffers.

### EventLoop

State: `argv`; `stage`, where `main()` or the loop is, or how the process ended;
`maxPeers`; `fds`, what each descriptor is open for; `peerTable`, here by
descriptor as in the code; `rejected`; `imageClient`; `timeout`
(`did_query_timeout`); `ready` and `reported`, the descriptors that `select()`
returned and the loop has still to look at; `current` and `todo` of a handler
between two `connect()` calls; `backlog` of the peer port.  The other nodes and
the clients are the environment: a message is whatever a handler may find.

Actions: `Parse`, `ConnectToFirstPeer`, `Listen`; `Select`; `NextPort`;
`HandlePeeringClient`, `HandleImageTraffic`, `HandleP2pTraffic` for one
descriptor after the other; `TryPeer`; `LoopEnds` with `TimeoutImageQuery`.  New
descriptors take the lowest free number, as in the kernel, so that numbers are
used again as early as possible.  The ways in which a handler hangs or ends the
process for what its peer does are the subject of `Peering`, `ImageQuery` and
`Framing` and are left out here.

### Framing

State: the packets that the writer has begun, with the position at which each
ends; `written`; `ended`; where the reader is (`stage`), where its buffer begins
(`start`), and how much `recv()` has returned (`pos`).  Five kinds of connection:
to a peer that answers, to one that asked, a query, a transfer, and what netimg
receives.  Actions: `Begin`, `Write` (any part), `End` (any time); `Read` (any
part, up to `BUFFER_SIZE`), `ReadNothing`; one action for each check of a length.

### Tga

State: `TGAReadError`, which outlives a request; the file, the packet and the
pixel the decoder is at; `pixels`; what `imgdb_loadimg()` reports.  A file is its
header fields, its packets and how many of its items are there.  A packet records
how many pixels and items come before it; an assumption, which TLC evaluates on
every file of the instance, says that these add up, and that all packets together
hold as many pixels as the header says.  Bytes that are not there leave memory as
it is: any value in a local variable, 0 in a member.

## Runs

| run | instance | question |
|---|---|---|
| `safety` | 4 nodes, `-n 3` for one and `-n 2` for the others, lists of 2, one stopped process, crossing SYNs | do table, sockets and responses fit together; who can make whom throw; is `Membership` implemented |
| `settles` | 4 nodes, `-n 2`, nobody stopped, list of 2 rejecters, fair | does peering come to rest, for whom not; is every request answered; the newcomer of `writeup-astrev.txt:8` |
| `assert` | as `settles`, no fairness | violated: the assertion at `P2pTable.cpp:85` |
| `flood` | triangle of 3 nodes, c has x, nobody has y; 2 clients ask anybody for anything, one may leave | do clients, searches, histories and transfers fit together; is `ImageService` implemented |
| `answers` | same, fair, nobody leaves, clients ask a or c (b is like a) | is every client answered, does the flood end |
| `ring` | each node has what the next one's client wants, large images, fair | what becomes of a node in the middle of a transfer; what can keep a transfer from ending |
| `wrongimage` | both clients ask a | violated: `main.cpp:672` |
| `reflood` | history of 1, two searches for a file nobody has, fair | violated: `main.cpp:428` |
| `stream` | every kind of connection, up to 3 searches, packets of 3 to 9 bytes, reads of up to 6, fair | do writer and reader stay in step; what do the length checks catch; what hangs |
| `descriptors` | 7 descriptors, 3 other nodes, 14 command lines, fair | what becomes of descriptors; has the table the size asked for; is the client let go |
| `port` | as `descriptors`, no fairness | violated: `main.cpp:58` |
| `load` | 2 requests for any of about 130 files of 1 or 3 pixels | is the right image decoded, and found |

The bounds.  Four nodes are needed for the peering runs: three that saturate
each other with two slots each, and a newcomer.  The list of rejecters is scaled
from 6 to 2, so that there may be more saturated nodes than it holds; with 3, enough
for all, `Settles` was checked by hand, where its exception cannot occur.  With
five nodes the invariants of `safety` were also checked by hand with `-n 2` and
with `-n 3` (about a million states each).  The triangle is the smallest overlay
in which a search reaches a node twice; two clients are needed for one to be
refused, and for a late image to find another client; three nodes are the
smallest circle of transfers, because two nodes cannot hold two connections.
Search ids are only compared, so any `SearchIds` will do that is not smaller than
the number of clients of one node.  With fewer, `NewSearchesStart` fails: an id is
used up by every client, even one whose file is found at once, and after 2^16 of
them (two in the instance tried) a new search may have the id of one the node still
remembers, and is then sent to nobody.  `MaxStops` and `MaxLeaves` bound
what users do.  Seven descriptors are as many as a table of three needs with its
services, its client and a connection of a handler, so that the limit is met with
and without leaks; the widths of `int`, `size_t` and `uint16_t` are 4, 5 and 2
bits, so that a negative `-n` is a size too large to allocate, and a port can
wrap around, to 0 or to another one.  The lengths of `stream` let a read end
inside each part of a packet, and bring the next one with it.  One to three
pixels are enough for a last packet of one pixel and of more, and for a packet
before it; files are cut at every header field and at several places in the
pixels; two requests are enough for one to spoil the next.  Deadlock is not
checked, since all these systems rightly come to rest.

Fairness.  `FairSpec` asks weak fairness of each node as a whole: a process that
is not blocked is scheduled, and `select()` returns when something is readable
or its time is over.  Nothing is assumed about which ready socket comes first, or
about users.  `RequestsAnswered` needs more, because a newcomer that is redirected
for ever keeps its peers busy: `RoundFairSpec` adds strong fairness of the two
handlers that a request of a to b must pass.  Each round of the loop looks at
every socket that `select()` has returned, so none of them waits for ever.  In `EventLoop` the process is one action under weak fairness, for
the same reason, and other nodes and clients do what they like.  In `Framing`
the reader runs, and a `write()` that has begun goes on (a blocking send returns
once there is room); nobody has to begin a packet, or to close.

What the violations show.

- `assert`: the list of rejecters is never cleaned when the rejecter itself asks
  to join, and the assertion aborts the node after WELCOME is on the wire.
- `wrongimage`: the file lookup comes before the duplicate check, so a holder
  answers each copy of a search; a transfer carries no search id, so the second
  one goes to the next client.
- `reflood`: when more searches are under way than the history holds, they push
  each other out of it and are forwarded for ever.
- `port`: the port is cut to 16 bits before it is looked at, and only 0 is refused.

What the passing runs show of behaviour that a reader may not expect:
`Settles` says that peering comes to rest unless a node finds all others full
without it, and they are more than its list of rejecters holds; then it need
not, and by `NewcomerNeverSettles` it never does if they are connected to each other
before the newcomer starts.
`FirstThrow` says that, until some process ends, the only exception that can end
one comes from a recommended peer that has connected but does not listen yet;
`TransfersProgress` says that a blocked transfer means a circle of blocked nodes
or a hung receiver, and `ClientsAnswered` excepts nodes that have ended or spin
in the loop of `main.cpp:1071`.  Both exceptions do occur.
`ExitMeansNextPacket` says that `exit(1)` for a message of the wrong length
always hits a well-formed message that the peer's next one followed too closely;
`EndOfStreamHangs` says that a stream that ends where a packet is awaited hangs
the process for good.  `PixelsAsFile` has one exception, the last pixel
of an image whose last packet is a single pixel (`ltga.cpp:189`); `FoundIfReadable`
has one, the requests after a short file (`ltga.cpp:35`); `DrawnAsSent` names the
files whose depth and format disagree.  `DescriptorsOwned` and `OnlyLeaksExhaust`
say that the sockets of busy addresses (`ServerBuilder.cpp:112`) are the only
descriptors without an owner, and the only reason to run out of them.
`ClientTimesOut` needs the traffic to stop: any traffic starts the second
(`QUERY_TIMEOUT_SECS`, `packets.h:29`) again.  `FloodOnce` says more than that a link
carries one copy of a search: whoever passes it on to a peer has it from another
one.  `TransfersOK` says what the two ends of a transfer may look like; only `ring`
has nodes in the middle of one.  `TableSizeAsGiven` holds although the check of `-n`
comes after the conversion to `size_t`: what a negative number becomes cannot be
allocated.  `EndOfStreamHangs`, `PixelsAsFile`, `FoundIfReadable` and `DrawnAsSent`
describe defects exactly, so their mutants are repairs.

Refinements.  `Peering!ImplementsMembership` maps the process states to "down",
"up", "ended" and the tables to `peer`, dropping sockets, responses, rejecters
and recommended peers.  What it adds to the invariants is that every change of a
table is one that the other side justifies: nobody becomes a peer who was not
asked by, or did not accept, the other.  `ImageQuery!ImplementsService` keeps
only what a client sees: one answer each, one client at a time, and only images
that a client asked this node for (not: this client, see `wrongimage`).

## Proofs

All theorems hold for every finite set of nodes and for all limits; those of
`ImageQuery`, for every overlay, all clients, files and requests as well; those of
`Framing`, for all lengths, buffer sizes and numbers of packets; those of `Tga`, for
images of any size in any division into packets.  Every invariant and every safety
property of steps that a passing run checks is proved, except `NewSearchesStart`.

Assumptions, all stated in the modules: `Node` is finite and `NoNode` is not a
node; each `-n` is at least 2 (`parseMaxPeers` checks it); `MAX_REJECTED` is
positive; of `EventLoop`, a process may have at least one descriptor, no node is
called "free", "p2p" and so on, `atoi()` returns an `int`, the default of `-n`
is at least 2, a power of two is a positive number (which the provers do not
know), and memory is smaller than what a negative `-n` asks for after its
conversion to `size_t` (`BucketAssumption`); of `Framing`, lengths are positive
and every packet is longer than the common header; of `Tga`, an image has a
pixel, and its packets are where `ImageAssumption` says; of `ImageQuery`, being
a connected peer is mutual and nobody is a peer of itself (`ConnectedAgreement`
and `MembershipStable` of `Peering`), clients are not nodes, the history and the
search ids have room for one, and no image is called "waiting" and so on. TLC
evaluates them in the runs.

The inductive invariants stand at the head of the proof modules, except `IInv` of
`Peering`, which the run `safety` checks.  The others (`Agreement`, `Answers`,
`Introduced`, `QInv`, `FInv`, `LInv`, `PeersCounted`, `SInv`) were checked by TLC on
the instances of the runs as well, with an instance that extends the proof module
instead of the model.

`P2pTableProofs` has the lemmas on the ends of a connection, the table and the
list of rejecters.

`PeeringProofs` proves that `IInv` is an invariant of `Peering`
(`InductiveInvariant`), and from it `TypeOK`, `TableBound`, `SocketsMatchTable`,
`AnswerExpected`, `TodoAvailable` and the action property `MembershipStable` (which
the runs check as part of `ImplementsMembership`: nothing in `Membership` ends a
connected entry but the end of a process).
The argument.  That no assertion fails in `handleP2pTraffic` is not inductive: a
REDIRECT must find its sender pending and not yet a rejecter.  `Backlog` says
that whoever sits in a backlog has asked, still waits, and has no response under
way; `RedirectCloses`, that a node that redirected has closed its end, so that
the pair has no second connection until the first is gone; `LoopState`, what a
handler between two `connect()` calls may rely on (the table is not full, the
peer being closed is on the rejected list and its socket is still open);
`ListsDisjoint`, that rejecters are not in the table; `NotStarted`, that nobody
has a connection to a node that has not started.  Then one lemma per action says
that it keeps `IInv`, with one step per conjunct.  All the ways in which a process
ends share the operator `Dies` and the lemma `IInvDies`.  `FirstThrowHolds` proves the
action property `FirstThrow` with two more invariants: nobody is recommended who has
not been started (`Introduced`), and a connection is reset by the end of a process
only (`ResetByExit`); while no process has ended this leaves one `connect()` that can
be refused, and no `recv()` that can throw.

`MembershipProofs` builds on it.  `Agreement` adds to `ConnectedAgreement` what
it needs: a WELCOME under way is true (`WelcomeTrue`), and a connection whose
other end has gone is one of an ended process (`AskerGone`).  `Answers` adds to
`PendingAnswered` that a process that has ended holds no connection
(`EndedClosed`).  Together with `RejectedOK` (the list names nobody twice and
keeps its capacity), they give `PeersAgree`, `PendingOwed`, `RejectersListed`, and
the refinement `MembershipImplemented`: the initial states of `Peering` map to
those of `Membership`, and each action to one of its actions or to a stutter.

`EventLoopProofs` proves `LInv` of `EventLoop`, and with it `TypeOK`,
`SnapshotValid`, `DescriptorsOwned` and `TimeoutHasClient`.  `SnapshotValid` is
not inductive because the loop over recommended peers opens descriptors and frees
one while others are still to be looked at: `Position` says what `main()` holds
where, `StillReady` that the handled connection is no longer among those to come,
`Strangers` that a node in the backlog, or still to be tried, has no connection
(otherwise two descriptors might be for one node).  That a new descriptor is one
nobody uses comes from `NewFdFree`, the least element of a set of numbers.
`LeaksExhaust` proves `OnlyLeaksExhaust` by counting: `PeersCounted` bounds the
table, strictly while there are peers to try, and everything but a leaked
descriptor is a peer or one of four others.  `TableSizeHolds` proves `TableSizeAsGiven`
from the command line alone: `Parse` lets each option through once at most
(`OneGiven`), a negative number becomes a `size_t` beyond `MAX_BUCKETS` (`NotWrapped`),
and nothing changes `maxPeers` afterwards.

`ImageQueryProofs` proves `QInv` of `ImageQuery` (`SearchInvariant`).  Its
properties count connections in a backlog and follow a file from a client to a
transfer; neither is inductive.  `NoTwins` says that nobody is in a backlog twice,
`InLine` that who is in one, or is being serviced, has asked that node, has not
been answered, and is not both; `OwnFile` that its query is still the one it
makes, from which a new search is one that was asked.  `Connections` ties both
ends of a connection to the backlog and to the transfer that holds it, so that a
node at `select()` holds none open and a process that ends leaves nothing
half-closed behind; `InTransfer`, that the receiver of a transfer has not lost it;
`EndedNodes`, that one that has ended services nobody.  The
many ways in which a process ends share `Ends` and the lemma `EndsKeeps`;
`ClientAccepted`, `QuietKeeps` and `DismissKeeps` say what the other actions have
in common, and `NodeStepCases` lists what a node can do, once for the invariant and
once for the refinement.  From `QInv` follow `SearchTypeCorrect`,
`ClientsNeverLost`, `SearchesHaveClients`, `OneConnectionEach`, and
`ServiceImplemented`: each step of `ImageQuery` is a step of `ImageService` or a
stutter.

`FloodProofs` proves `FloodOnce` for every overlay, as long as the histories have
room for one search of each client (`HistoryRoom`; `reflood` shows what happens
without).  That a link never carries two copies of a search comes from the history
of its sender, but only if that history has forgotten nothing, and why it has not
is a matter of all nodes: `SearchesCounted` says that all histories together name
no more searches than there are clients that have been taken up (`Served`).  A new
search has a client of its own, because a client that has left the backlog never
comes back to one (`ServedGrows`); a search that is passed on is in the history of
the sender already, and so is it in that of the peer it came from, which is not the
one it goes to (`CameElsewhere`).  Search ids that repeat do no harm to this: such a
search is not sent.

`FramingProofs` proves `SInv` of `Framing`, and with it `TypeOK`, `InStep`
and `ExitMeansNextPacket`.  None of them is inductive, since
they speak of the end of a handler only.  `Layout` says that the packets lie end to
end in the stream, in an order that the kind of connection allows; `Position`, that
while a handler is at work its buffer begins where the packets dealt with end, and
that the packet there is of a type that leads to this stage.  So each length check
compares what has been read with the length of that very packet; more than that can
only come from the packet behind it.

`TgaProofs` proves `LInv` of `Tga`, and with it its four invariants.  `Flag` relates
`TGAReadError` to this file and to those before it; `OnTrack` says that, as long as no
read has failed, `CurrentPixel` is the first pixel of the next packet, the packets
before it are decoded (`Filled`), and nothing else is; `Decoded` and `Answer` carry
this to the end of the load and to the answer.  That the loop leaves out a last
packet of one pixel, and nothing else, needs the packets to lie in order: by
`Later`, proved by induction on the number of the packet.  Since the induction
theorems of the library cannot be instantiated, the induction is by the least
number of a set (`LeastNumber`), which follows from `WFMin`.

Only model-checked: the liveness properties, which are out of the provers' reach
like `ENABLED`: `Settles`, `RequestsAnswered`, `NewcomerNeverSettles`,
`ClientsAnswered`, `FloodEnds`, `TransfersProgress`, `PacketsDealtWith`,
`EndOfStreamHangs` and `ClientTimesOut`; the action property `NewSearchesStart`; and
the four violations, which are facts about an instance.

## Not modelled, and simplifications

- `netimglut.cpp` (drawing) only calls GLUT; the makefile, the notes and the
  binaries are not code of the program.
- `netimg`: its command line and its window; the request, the reception and the
  length checks are in `ImageQuery` and `Framing`.
- `LTGA::WriteToFile()` and the constructors that neither p2pdb nor netimg calls;
  images without pixels (the loop of `ltga.cpp:189` then writes outside its
  buffer, which has no outcomes worth enumerating).
- Name lookup and socket options: they only decide which `connect()` fails.
- A name without a file: `LoadFromFile()` returns at once (`ltga.cpp:111`), nothing
  is read and `TGAReadError` stays as it is.
- A failing `connect()` to the first peer at start-up: the process just ends.
- The backlog of 10 connections is never full in the instances.
- `ResponseFails` may happen whenever the other side is gone, whether or not the
  first `write()` already notices.
- A connection whose other end is gone may or may not block a new one (TIME_WAIT).
- Crossing SYNs on image ports.
- A query that is refused before all of it has arrived: closing then resets the
  connection, and the reply may be lost.
- A process that has ended is not restarted under the same address: ports are
  chosen by the kernel, and nothing is stored.

## What is left

- Hazards no property covers, with the reason in `PROJECT.json`: what a peer does
  between the `write()` of a response and the registration (`main.cpp:197`), a
  client that connects and stays silent (`main.cpp:723`), traffic that never stops
  (`main.cpp:1284`), a refusal lost to a reset (`main.cpp:742`), an empty image
  (`ltga.cpp:189`), netimg's single `recv()` (`netimg.cpp:214`); and, of crossing SYNs, that the two nodes then wait for each
  other for good.
- `Peering` and `ImageQuery` in one module: searches while the overlay still
  changes.  The product of the two is too large for TLC at sizes where both are
  interesting; `Framing` covers what they share, the connection that carries
  WELCOME and SEARCH.
- Proofs: `FirstThrow` covers the first exception only; which exceptions may follow
  once a process has ended is stated nowhere yet.
