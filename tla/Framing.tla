------------------------------ MODULE Framing ------------------------------
(***************************************************************************)
(* How packets are cut out of a TCP stream (main.cpp, Connection.cpp,      *)
(* netimg.cpp): one connection, the process that writes on it and the      *)
(* process that reads from it.  A recv() returns any non-empty prefix of   *)
(* what has been written, so a packet may take several reads and a read    *)
(* may bring several packets.  Every handler starts with an empty buffer   *)
(* and must have read exactly one packet when it ends.                     *)
(*                                                                         *)
(* Contents are abstracted to the fields that decide how much is read; the *)
(* stream is represented by the positions at which packets end.            *)
(***************************************************************************)
EXTENDS Naturals, Sequences, FiniteSetsExt

CONSTANTS
    HeaderLen,      \* sizeof(packet_header_t)
    PeeringLen,     \* sizeof(peering_response_header_t)
    AddrLen,        \* sizeof(peer_addr_t)
    SearchLen,      \* sizeof(p2p_image_query_t)
    IqryLen,        \* sizeof(iqry_t)
    ImsgLen,        \* sizeof(imsg_t)
    BUFFER_SIZE,    \* most bytes one Connection::read() returns
    PeerCounts,     \* numbers of peers a response may recommend
    ImageSizes,     \* sizes of images
    MaxSearches     \* bound: searches sent over one connection

ASSUME LengthAssumption ==
    /\ {HeaderLen, AddrLen, BUFFER_SIZE} \subseteq Nat \ {0}
    /\ {PeeringLen, SearchLen, IqryLen, ImsgLen} \subseteq {l \in Nat : l > HeaderLen}
    /\ PeerCounts \subseteq Nat /\ ImageSizes \subseteq Nat \ {0}
    /\ MaxSearches \in Nat

VARIABLES
    kind,       \* what the connection is for
    packets,    \* the packets the writer has begun, each with its end
    written,    \* bytes that send() has taken
    ended,      \* has the writer closed, or its process ended?
    busy,       \* does the reader have an image client already?
    stage,      \* where the reader is
    start,      \* where the buffer of the running handler begins
    pos,        \* bytes that recv() has returned
    handled     \* packets dealt with

vars == <<kind, packets, written, ended, busy, stage, start, pos, handled>>

\* A peer that answers, one that asked, the two uses of the image port, and
\* what a node sends to netimg.
ToPeer == {"answering", "asking"}
ToImagePort == {"query", "transfer"}
Kind == ToPeer \cup ToImagePort \cup {"reply"}

\* The loops "while (message.size() < ...) message += connection.read()".
Loops == {"header", "count", "addresses", "search", "query", "imsg", "pixels"}
Final == {"closed", "serviced", "rejected", "dropped", "answered", "shown", "esize",
          "exited", "spinning"}
Stage == {"select", "netimg", "image"} \cup Loops \cup Final

Type == {"WELCOME", "REDIRECT", "SEARCH", "QUERY", "UNKNOWN", "IMAGE", "REFUSAL"}

TypeOK ==
    /\ kind \in Kind
    /\ packets \in Seq([type : Type, n : Nat, end : Nat])
    /\ written \in Nat /\ ended \in BOOLEAN /\ busy \in BOOLEAN
    /\ stage \in Stage
    /\ start \in Nat /\ pos \in Nat /\ handled \in Nat
    /\ start <= pos /\ pos <= written

FirstStage(k) == IF k \in ToPeer THEN "select"
                 ELSE IF k \in ToImagePort THEN "header" ELSE "netimg"

Init ==
    /\ kind \in Kind
    /\ packets = <<>> /\ written = 0 /\ ended = FALSE
    /\ busy \in IF kind = "query" THEN BOOLEAN ELSE {FALSE}
    /\ stage = FirstStage(kind)
    /\ start = 0 /\ pos = 0 /\ handled = 0

-----------------------------------------------------------------------------
(* The writer.                                                             *)

Total == IF packets = <<>> THEN 0 ELSE packets[Len(packets)].end

PacketLen(type, n) ==
    CASE type \in {"WELCOME", "REDIRECT"} -> PeeringLen + n * AddrLen
      [] type = "SEARCH" -> SearchLen
      [] type \in {"QUERY", "UNKNOWN"} -> IqryLen
      [] type = "IMAGE" -> ImsgLen + n
      [] type = "REFUSAL" -> ImsgLen

Searches == Cardinality({i \in DOMAIN packets : packets[i].type = "SEARCH"})

\* What may be sent next: a peer answers a request once, and a peer of either
\* side sends searches as they come; the other connections carry one packet.
Sends(type, n) ==
    LET first == packets = <<>>
    IN \/ /\ kind = "answering" /\ first
          /\ type \in {"WELCOME", "REDIRECT"} /\ n \in PeerCounts
       \/ /\ \/ kind = "answering" /\ ~first /\ packets[1].type = "WELCOME"
             \/ kind = "asking"
          /\ type = "SEARCH" /\ n = 0 /\ Searches < MaxSearches
       \/ /\ kind = "query" /\ first
          /\ type \in {"QUERY", "UNKNOWN"} /\ n = 0
       \/ /\ kind \in {"transfer", "reply"} /\ first
          /\ type = "IMAGE" /\ n \in ImageSizes
       \/ /\ kind = "reply" /\ first
          /\ type = "REFUSAL" /\ n = 0

Begin(type, n) ==
    /\ ~ended /\ written = Total
    /\ Sends(type, n)
    /\ packets' = Append(packets,
                     [type |-> type, n |-> n, end |-> Total + PacketLen(type, n)])
    /\ UNCHANGED <<kind, written, ended, busy, stage, start, pos, handled>>

\* send() takes part of what is left, or all of it.
Write ==
    /\ ~ended /\ written < Total
    /\ written' \in written + 1 .. Total
    /\ UNCHANGED <<kind, packets, ended, busy, stage, start, pos, handled>>

\* close(), or the end of the process, in the middle of a packet even (netimg
\* gives up after a short send()).
End ==
    /\ ~ended
    /\ ended' = TRUE
    /\ UNCHANGED <<kind, packets, written, busy, stage, start, pos, handled>>

-----------------------------------------------------------------------------
(* Connection::read() and the loops around it.                             *)

\* The packet the bytes at start belong to.
Current ==
    packets[CHOOSE i \in DOMAIN packets :
               /\ start < packets[i].end
               /\ i = 1 \/ packets[i - 1].end <= start]

Got == pos - start

\* Mutants: the header of a transfer is not counted; more bytes than there are.
BugNeed ==
    CASE stage = "header" -> HeaderLen
      [] stage = "count" -> PeeringLen
      [] stage = "addresses" -> PeeringLen + Current.n * AddrLen
      [] stage = "search" -> SearchLen
      [] stage = "query" -> IqryLen
      [] stage = "imsg" -> ImsgLen
      [] stage = "pixels" -> Current.n
BugReceive(most) == pos' \in pos + 1 .. pos + most

\* The size the buffer must have before the handler goes on.
Need ==
    CASE stage = "header" -> HeaderLen
      [] stage = "count" -> PeeringLen
      [] stage = "addresses" -> PeeringLen + Current.n * AddrLen
      [] stage = "search" -> SearchLen
      [] stage = "query" -> IqryLen
      [] stage = "imsg" -> ImsgLen
      [] stage = "pixels" -> ImsgLen + Current.n

Receive(most) == pos' \in pos + 1 .. Min({pos + most, written})

Read ==
    /\ stage \in Loops /\ Got < Need
    /\ Receive(BUFFER_SIZE)
    /\ UNCHANGED <<kind, packets, written, ended, busy, stage, start, handled>>

\* Mutant: an empty read ends the handler.
BugReadNothing ==
    /\ stage \in Loops /\ Got < Need
    /\ ended /\ pos = written
    /\ stage' = "select"
    /\ UNCHANGED <<kind, packets, written, ended, busy, start, pos, handled>>

\* At the end of the stream recv() returns 0, and the loop goes round for ever.
ReadNothing ==
    /\ stage \in Loops /\ Got < Need
    /\ ended /\ pos = written
    /\ stage' = "spinning"
    /\ UNCHANGED <<kind, packets, written, ended, busy, start, pos, handled>>

GoTo(s) ==
    /\ stage' = s
    /\ UNCHANGED <<kind, packets, written, ended, busy, start, pos, handled>>

HandledThen(s) ==
    /\ stage' = s /\ handled' = handled + 1
    /\ UNCHANGED <<kind, packets, written, ended, busy, start, pos>>

-----------------------------------------------------------------------------
(* handleP2pTraffic() and handleRecommendedPeerTraffic().                  *)

HandleP2pTraffic ==
    /\ stage = "select"
    /\ pos < written \/ ended
    /\ stage' = "header" /\ start' = pos
    /\ UNCHANGED <<kind, packets, written, ended, busy, pos, handled>>

HandlePeerHeader ==
    /\ kind \in ToPeer /\ stage = "header" /\ Got >= Need
    /\ GoTo(IF Current.type = "SEARCH" THEN "search" ELSE "count")

\* The connection to a peer that redirects is closed.
AfterResponse == IF Current.type = "REDIRECT" THEN "closed" ELSE "select"

\* Mutant: without peers nothing is checked.
BugHandleCount ==
    /\ stage = "count" /\ Got >= Need
    /\ \/ Current.n > 0 /\ GoTo("addresses")
       \/ Current.n = 0 /\ HandledThen(AfterResponse)

HandleCount ==
    /\ stage = "count" /\ Got >= Need
    /\ \/ Current.n > 0 /\ GoTo("addresses")
       \/ Current.n = 0 /\ Got > Need /\ GoTo("exited")
       \/ Current.n = 0 /\ Got = Need /\ HandledThen(AfterResponse)

HandleAddresses ==
    /\ stage = "addresses" /\ Got >= Need
    /\ \/ Got # Need /\ GoTo("exited")
       \/ Got = Need /\ HandledThen(AfterResponse)

\* Mutant: the rest of the buffer is thrown away.
BugHandleSearch ==
    /\ stage = "search" /\ Got >= Need
    /\ HandledThen("select")

HandleSearch ==
    /\ stage = "search" /\ Got >= Need
    /\ \/ Got # Need /\ GoTo("exited")
       \/ Got = Need /\ HandledThen("select")

-----------------------------------------------------------------------------
(* handleImageTraffic() and handleImageTransferTraffic().                  *)

\* A query is rejected, or dropped, after its header, whether or not the rest
\* of it has been read.
HandleImageHeader ==
    /\ kind \in ToImagePort /\ stage = "header" /\ Got >= Need
    /\ \/ Current.type = "QUERY" /\ busy /\ HandledThen("rejected")
       \/ Current.type = "QUERY" /\ ~busy /\ GoTo("query")
       \/ Current.type = "UNKNOWN" /\ HandledThen("dropped")
       \/ Current.type = "IMAGE" /\ GoTo("imsg")

HandleQuery ==
    /\ stage = "query" /\ Got >= Need
    /\ \/ Got # Need /\ GoTo("exited")
       \/ Got = Need /\ HandledThen("serviced")

HandleImsg == stage = "imsg" /\ Got >= Need /\ GoTo("pixels")

HandlePixels ==
    /\ stage = "pixels" /\ Got >= Need
    /\ \/ Got # Need /\ GoTo("exited")
       \/ Got = Need /\ HandledThen("closed")

-----------------------------------------------------------------------------
(* netimg_recvimsg() and netimg_recvimg().                                 *)

\* One recv() must return the whole header.
ReceiveImsg ==
    /\ stage = "netimg"
    /\ Receive(ImsgLen)
    /\ \/ /\ pos' < ImsgLen
          /\ stage' = "esize" /\ UNCHANGED handled
       \/ /\ pos' = ImsgLen
          /\ \/ /\ Current.type = "REFUSAL"
                /\ stage' = "answered" /\ handled' = handled + 1
             \/ /\ Current.type = "IMAGE"
                /\ stage' = "image" /\ UNCHANGED handled
    /\ UNCHANGED <<kind, packets, written, ended, busy, start>>

ReceiveNoImsg == stage = "netimg" /\ ended /\ pos = written /\ GoTo("esize")

\* The window is redrawn with what has come so far.  At the end of the stream
\* recv() returns 0 and the rest of the picture stays as it is.
ReceiveImage ==
    /\ stage = "image"
    /\ Receive(ImsgLen + Current.n - pos)
    /\ \/ pos' < Current.end /\ UNCHANGED <<stage, handled>>
       \/ pos' = Current.end /\ stage' = "shown" /\ handled' = handled + 1
    /\ UNCHANGED <<kind, packets, written, ended, busy, start>>

-----------------------------------------------------------------------------
Reader ==
    \/ Read \/ ReadNothing
    \/ HandleP2pTraffic \/ HandlePeerHeader
    \/ HandleCount \/ HandleAddresses \/ HandleSearch
    \/ HandleImageHeader \/ HandleQuery \/ HandleImsg \/ HandlePixels
    \/ ReceiveImsg \/ ReceiveNoImsg \/ ReceiveImage

Writer ==
    \/ \E type \in Type, n \in PeerCounts \cup ImageSizes \cup {0} : Begin(type, n)
    \/ Write \/ End

Next == Writer \/ Reader

Spec == Init /\ [][Next]_vars

(* The reader runs, and a send() that has begun goes on; nobody has to send  *)
(* anything, or to close.                                                  *)
FairSpec == Spec /\ WF_vars(Reader) /\ WF_vars(Write)

-----------------------------------------------------------------------------
(* Properties.                                                             *)

EndOf(i) == IF i = 0 THEN 0 ELSE packets[i].end

\* Writer and reader never lose step: whenever the reader has finished with a
\* packet, it has taken exactly the bytes of that packet and of those before it
\* from the stream (the checks of the message length in main.cpp).  A query that
\* is rejected or dropped may have been read in part.
InStep ==
    stage \in {"select", "closed", "serviced", "answered", "shown"} =>
        handled <= Len(packets) /\ pos = EndOf(handled)

\* exit(1) for a message of the wrong length only ever means that the peer's
\* next packet was in the buffer already (WELCOME and SEARCH, or two SEARCHes);
\* the image port, where every connection carries one packet, never exits.
ExitMeansNextPacket ==
    stage = "exited" =>
        /\ kind \in ToPeer
        /\ handled + 1 < Len(packets)
        /\ pos > EndOf(handled + 1)
        /\ packets[handled + 2].type = "SEARCH"

\* A packet that has been written completely is dealt with, however it is cut,
\* unless the reader has exited or given up.
Dealt(i) == handled >= i \/ stage \in {"exited", "esize"}

PacketsDealtWith ==
    \A i \in 1 .. MaxSearches + 1 :
        i <= Len(packets) /\ written >= EndOf(i) ~> Dealt(i)

\* A stream that ends in the middle of a packet, or where one is awaited, hangs
\* the process for good: it never gets back to select().
EndOfStreamHangs ==
    stage \in Loops /\ ended /\ written - start < Need ~> [](stage = "spinning")
=============================================================================
