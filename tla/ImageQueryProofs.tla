-------------------------- MODULE ImageQueryProofs --------------------------
(* Theorems about ImageQuery, for every finite overlay, any clients, files *)
(* and limits: no client is lost or answered twice, every search goes back *)
(* to a client that asked, no two nodes have two image connections; and    *)
(* what clients see is the service of ImageService.                        *)
EXTENDS ImageQuery, FiniteSetTheorems, TLAPS

USE NodeAssumption, NoNodeAssumption, LinksAssumption, FilesAssumption,
    FileAssumption, ClientAssumption, RequestsAssumption, LimitsAssumption

-----------------------------------------------------------------------------
(* What makes ClientsAccountedFor, SearchesWereAsked and TransfersOK       *)
(* inductive.                                                              *)

From(b) == {b[i].from : i \in DOMAIN b}

\* Nobody has two connections in a backlog.
NoTwins ==
    \A n \in Node : \A i, j \in DOMAIN backlog[n] :
        backlog[n][i].from = backlog[n][j].from => i = j

\* A client in a backlog, or being serviced, has asked that node, has not been
\* answered, and is not both; and no other client waits.
InLine ==
    \A n \in Node, c \in Client :
       /\ c \in From(backlog[n]) \/ imageClient[n] = c =>
             request[c].node = n /\ answer[c] \in {"waiting", "left"}
       /\ ~(c \in From(backlog[n]) /\ imageClient[n] = c)
       /\ answer[c] = "waiting" /\ request[c].node = n =>
             c \in From(backlog[n]) \/ imageClient[n] = c

\* A query in a backlog is the one its client is making.
OwnFile ==
    \A n \in Node : \A i \in DOMAIN backlog[n] :
        backlog[n][i].from \in Client => backlog[n][i].file = request[backlog[n][i].from].file

\* TransfersOK without the counting.
Connections ==
    \A n, o \in Node :
       /\ n \in From(backlog[o]) <=> sock[o][n] = "queued"
       /\ sock[o][n] = "queued" => sock[n][o] \in {"open", "closed"}
       /\ sock[n][o] = "open" <=> sending[n] = o

\* The receiver of a transfer under way has not lost it, unless it has ended.
InTransfer ==
    \A n, o \in Node : sending[n] = o =>
       \/ sock[o][n] \in {"queued", "closed"}
       \/ sock[o][n] = "none" /\ status[o] \in Ended

\* A process that has ended services nobody.
EndedNodes ==
    \A n \in Node : status[n] \in Ended =>
        imageClient[n] = NoClient /\ backlog[n] = <<>> /\ sending[n] = NoNode

QInv ==
    /\ TypeOK /\ NoTwins /\ InLine /\ OwnFile /\ Connections /\ SearchesWereAsked
    /\ EndedNodes

-----------------------------------------------------------------------------
(* Sequences.                                                              *)

\* Append keeps what is there and adds one element.
LEMMA AppendEntries ==
  ASSUME NEW S, NEW b \in Seq(S), NEW e \in S
  PROVE  /\ Append(b, e) \in Seq(S) /\ Len(b) \in Nat
         /\ DOMAIN b = 1 .. Len(b) /\ DOMAIN Append(b, e) = 1 .. Len(b) + 1
         /\ \A i \in 1 .. Len(b) : Append(b, e)[i] = b[i]
         /\ Append(b, e)[Len(b) + 1] = e
  OBVIOUS

\* Tail shifts all but the first.
LEMMA TailEntries ==
  ASSUME NEW S, NEW b \in Seq(S), b # <<>>
  PROVE  /\ Tail(b) \in Seq(S) /\ Len(b) \in Nat /\ Len(b) >= 1
         /\ Head(b) = b[1] /\ Head(b) \in S
         /\ DOMAIN b = 1 .. Len(b) /\ DOMAIN Tail(b) = 1 .. Len(b) - 1
         /\ \A i \in 1 .. Len(b) - 1 : Tail(b)[i] = b[i + 1] /\ i + 1 \in 1 .. Len(b)
  OBVIOUS

\* Who is in a backlog after connect().
LEMMA AppendFrom ==
  ASSUME NEW b \in Seq(Incoming), NEW e \in Incoming, e.from \notin From(b),
         \A i, j \in DOMAIN b : b[i].from = b[j].from => i = j
  PROVE  /\ From(Append(b, e)) = From(b) \cup {e.from}
         /\ \A i, j \in DOMAIN Append(b, e) :
               Append(b, e)[i].from = Append(b, e)[j].from => i = j
         /\ \A i \in DOMAIN Append(b, e) :
               Append(b, e)[i] = e \/ \E j \in DOMAIN b : Append(b, e)[i] = b[j]
  <1> DEFINE a == Append(b, e)
  <1>1. /\ Len(b) \in Nat
        /\ DOMAIN b = 1 .. Len(b) /\ DOMAIN a = 1 .. Len(b) + 1
        /\ \A i \in 1 .. Len(b) : a[i] = b[i]
        /\ a[Len(b) + 1] = e
    BY AppendEntries
  <1> HIDE DEF a
  <1>2. \A i \in DOMAIN a : i \in DOMAIN b \/ i = Len(b) + 1
    BY <1>1
  <1>3. DOMAIN b \subseteq DOMAIN a /\ Len(b) + 1 \in DOMAIN a /\ Len(b) + 1 \notin DOMAIN b
    BY <1>1
  <1>4. From(a) = From(b) \cup {e.from}
    <2>1. ASSUME NEW x \in From(a) PROVE x \in From(b) \cup {e.from}
      BY <1>1, <1>2 DEF From
    <2>2. ASSUME NEW x \in From(b) PROVE x \in From(a)
      BY <1>1, <1>3 DEF From
    <2>3. e.from \in From(a)
      BY <1>1, <1>3 DEF From
    <2> QED BY <2>1, <2>2, <2>3
  <1>5. ASSUME NEW i \in DOMAIN a, NEW j \in DOMAIN a, a[i].from = a[j].from
        PROVE  i = j
    <2>1. \A k \in DOMAIN b : a[k] = b[k] /\ b[k].from # e.from
      BY <1>1, <1>5 DEF From
    <2> QED BY <1>1, <1>2, <1>5, <2>1
  <1>6. \A i \in DOMAIN a : a[i] = e \/ \E j \in DOMAIN b : a[i] = b[j]
    BY <1>1, <1>2
  <1> QED BY <1>4, <1>5, <1>6 DEF a

\* Who is in a backlog after accept().
LEMMA TailFrom ==
  ASSUME NEW b \in Seq(Incoming), b # <<>>,
         \A i, j \in DOMAIN b : b[i].from = b[j].from => i = j
  PROVE  /\ From(Tail(b)) = From(b) \ {Head(b).from} /\ Head(b).from \in From(b)
         /\ 1 \in DOMAIN b /\ Head(b) = b[1]
         /\ \A i, j \in DOMAIN Tail(b) : Tail(b)[i].from = Tail(b)[j].from => i = j
         /\ \A i \in DOMAIN Tail(b) : \E j \in DOMAIN b : Tail(b)[i] = b[j]
  <1> DEFINE t == Tail(b)
  <1>1. /\ Len(b) \in Nat /\ Len(b) >= 1 /\ Head(b) = b[1]
        /\ DOMAIN b = 1 .. Len(b) /\ DOMAIN t = 1 .. Len(b) - 1
        /\ \A i \in 1 .. Len(b) - 1 : t[i] = b[i + 1] /\ i + 1 \in 1 .. Len(b)
    BY TailEntries
  <1> HIDE DEF t
  <1>2. 1 \in DOMAIN b /\ \A i \in DOMAIN t : i + 1 \in DOMAIN b /\ i + 1 # 1 /\ t[i] = b[i + 1]
    BY <1>1
  <1>3. From(t) = From(b) \ {b[1].from}
    <2>1. ASSUME NEW x \in From(t) PROVE x \in From(b) /\ x # b[1].from
      BY <1>2 DEF From
    <2>2. ASSUME NEW x \in From(b), x # b[1].from PROVE x \in From(t)
      <3>1. PICK i \in DOMAIN b : x = b[i].from
        BY DEF From
      <3>2. i # 1
        BY <2>2, <3>1
      <3>3. i - 1 \in DOMAIN t /\ t[i - 1] = b[i]
        BY <1>1, <3>2
      <3> QED BY <3>1, <3>3 DEF From
    <2> QED BY <2>1, <2>2
  <1>4. b[1].from \in From(b)
    BY <1>2 DEF From
  <1>5. \A i, j \in DOMAIN t : t[i].from = t[j].from => i = j
    <2> SUFFICES ASSUME NEW i \in DOMAIN t, NEW j \in DOMAIN t, t[i].from = t[j].from
                 PROVE  i = j
      OBVIOUS
    <2>1. i + 1 = j + 1
      BY <1>2
    <2> QED BY <1>1, <2>1
  <1>6. \A i \in DOMAIN t : \E j \in DOMAIN b : t[i] = b[j]
    BY <1>2
  <1> QED BY <1>1, <1>2, <1>3, <1>4, <1>5, <1>6 DEF t

-----------------------------------------------------------------------------
(* The end of a process.                                                   *)

Histories == {h \in Seq(Search) : Len(h) <= PR_MAXPEERS}

SearchTypes ==
  /\ searchId \in [Node -> 0 .. SearchIds - 1]
  /\ history \in [Node -> Histories]
  /\ link \in [Node -> [Node -> Seq(Query)]]

\* Every search on the links was there before the step, or somebody asked for it.
LinksAsked ==
  \A m, p \in Node : \A i \in DOMAIN link'[m][p] :
     \/ link'[m][p][i] \in Sent(m, p)
     \/ Asked(link'[m][p][i].orig, link'[m][p][i].file)

\* Whoever has asked has asked for ever; so it is enough to look at what is new
\* on the links and in the backlogs.
LEMMA AskedStays ==
  ASSUME SearchesWereAsked, UNCHANGED request,
         \A c \in Client : answer[c] # "idle" => answer'[c] # "idle",
         \A m, p \in Node : \A i \in DOMAIN link'[m][p] :
            \/ link'[m][p][i] \in Sent(m, p)
            \/ Asked(link'[m][p][i].orig, link'[m][p][i].file),
         \A m \in Node : \A i \in DOMAIN backlog'[m] :
            \/ \E j \in DOMAIN backlog[m] : backlog'[m][i] = backlog[m][j]
            \/ backlog'[m][i].from \notin Node
            \/ Asked(m, backlog'[m][i].file)
  PROVE  SearchesWereAsked'
  <1> DEFINE Still(m, f) == /\ f \notin Files[m]
                            /\ \E c \in Client : /\ answer'[c] # "idle"
                                                /\ request'[c] = [node |-> m, file |-> f]
  <1>1. \A m, f : Asked(m, f) => Still(m, f)
    BY DEF Asked
  <1>2. /\ \A m, p \in Node : \A q \in Sent(m, p) : Asked(q.orig, q.file)
        /\ \A m \in Node : \A i \in DOMAIN backlog[m] :
              backlog[m][i].from \in Node => Asked(m, backlog[m][i].file)
    BY DEF SearchesWereAsked
  <1>3. \A m, p \in Node : \A i \in DOMAIN link'[m][p] :
           Asked(link'[m][p][i].orig, link'[m][p][i].file)
    BY <1>2
  <1>4. \A m \in Node : \A i \in DOMAIN backlog'[m] :
           backlog'[m][i].from \in Node => Asked(m, backlog'[m][i].file)
    BY <1>2
  <1>5. \A m, p \in Node : \A i \in DOMAIN link'[m][p] :
           Still(link'[m][p][i].orig, link'[m][p][i].file)
    BY <1>1, <1>3
  <1>6. \A m \in Node : \A i \in DOMAIN backlog'[m] :
           backlog'[m][i].from \in Node => Still(m, backlog'[m][i].file)
    BY <1>1, <1>4
  <1> HIDE DEF Still
  <1>7. \A m, p \in Node : \A q \in Sent(m, p)' : Still(q.orig, q.file)
    BY <1>5 DEF Sent
  <1>8. \A m, f : Still(m, f) => Asked(m, f)'
    BY DEF Still, Asked
  <1> QED BY <1>6, <1>7, <1>8 DEF SearchesWereAsked

\* It takes its connections and its clients with it.  s is sock as its last
\* handler has left it.
LEMMA EndsKeeps ==
  ASSUME QInv, NEW n \in Node, NEW how \in Ended, NEW s \in [Node -> [Node -> End]],
         ProcessEnds(n, how, s), UNCHANGED request, SearchTypes', LinksAsked,
         \A m, p \in Node : p # n => s[p][m] = sock[p][m],
         \A m \in Node : sock[m][n] = "queued" => s[n][m] = "closed"
  PROVE  QInv'
  <1>1. /\ status \in [Node -> {"up", "spinning"} \cup Ended]
        /\ imageClient \in [Node -> Client \cup {NoClient}]
        /\ backlog \in [Node -> Seq(Incoming)]
        /\ sending \in [Node -> Node \cup {NoNode}]
        /\ sock \in [Node -> [Node -> End]]
        /\ answer \in [Client -> Outcome \cup File]
    BY DEF QInv, TypeOK
  <1>2. /\ status' = [status EXCEPT ![n] = how]
        /\ imageClient' = [imageClient EXCEPT ![n] = NoClient]
        /\ backlog' = [backlog EXCEPT ![n] = <<>>]
        /\ sending' = [sending EXCEPT ![n] = NoNode]
        /\ sock' = [s EXCEPT ![n] =
                       [m \in Node |-> IF @[m] = "closed" THEN "closed" ELSE "none"]]
        /\ answer' = [c \in Client |->
                         IF answer[c] = "waiting" /\ request[c].node = n
                         THEN "lost" ELSE answer[c]]
    BY DEF ProcessEnds
  <1>3. /\ imageClient'[n] = NoClient /\ backlog'[n] = <<>> /\ sending'[n] = NoNode
        /\ \A m \in Node : m # n => /\ imageClient'[m] = imageClient[m]
                                    /\ backlog'[m] = backlog[m] /\ sending'[m] = sending[m]
                                    /\ status'[m] = status[m]
    BY <1>1, <1>2
  <1>4. /\ \A m \in Node : sock'[n][m] = IF s[n][m] = "closed" THEN "closed" ELSE "none"
        /\ \A m, p \in Node : p # n => sock'[p][m] = sock[p][m]
    BY <1>2
  <1>5. \A c \in Client : /\ answer[c] # "idle" => answer'[c] # "idle"
                          /\ answer'[c] = "waiting" => answer[c] = "waiting" /\ request[c].node # n
                          /\ request[c].node # n => answer'[c] = answer[c]
    BY <1>2
  <1>6. From(<<>>) = {} /\ NoClient \notin Client
    BY DEF From
  <1>7. TypeOK'
    <2>1. /\ status' \in [Node -> {"up", "spinning"} \cup Ended]
          /\ imageClient' \in [Node -> Client \cup {NoClient}]
          /\ sending' \in [Node -> Node \cup {NoNode}]
      BY <1>1, <1>2
    <2>2. backlog' \in [Node -> Seq(Incoming)]
      <3>1. <<>> \in Seq(Incoming)
        OBVIOUS
      <3> QED BY <1>1, <1>2, <3>1
    <2>3. sock' \in [Node -> [Node -> End]]
      <3>1. [m \in Node |-> IF s[n][m] = "closed" THEN "closed" ELSE "none"] \in [Node -> End]
        BY DEF End
      <3>2. sock' = [s EXCEPT ![n] = [m \in Node |-> IF s[n][m] = "closed" THEN "closed" ELSE "none"]]
        BY <1>2
      <3> QED BY <3>1, <3>2
    <2>4. answer' \in [Client -> Outcome \cup File]
      BY <1>1, <1>2 DEF Outcome
    <2> QED BY <2>1, <2>2, <2>3, <2>4 DEF QInv, TypeOK, SearchTypes, Histories
  <1>8. NoTwins' /\ OwnFile'
    <2>1. \A m \in Node : DOMAIN backlog'[m] = {} \/ backlog'[m] = backlog[m]
      BY <1>3
    <2>2. NoTwins'
      BY <2>1 DEF QInv, NoTwins
    <2>3. OwnFile'
      BY <2>1 DEF QInv, OwnFile
    <2> QED BY <2>2, <2>3
  <1>9. InLine'
    <2> SUFFICES ASSUME NEW m \in Node, NEW c \in Client
                 PROVE  /\ c \in From(backlog'[m]) \/ imageClient'[m] = c =>
                              request'[c].node = m /\ answer'[c] \in {"waiting", "left"}
                        /\ ~(c \in From(backlog'[m]) /\ imageClient'[m] = c)
                        /\ answer'[c] = "waiting" /\ request'[c].node = m =>
                              c \in From(backlog'[m]) \/ imageClient'[m] = c
      BY DEF InLine, From
    <2>1. CASE m = n
      BY <1>3, <1>5, <1>6, <2>1
    <2>2. CASE m # n
      <3>1. /\ imageClient'[m] = imageClient[m] /\ backlog'[m] = backlog[m]
        BY <1>3, <2>2
      <3>2. request[c].node = m => answer'[c] = answer[c]
        BY <1>5, <2>2
      <3> QED BY <3>1, <3>2 DEF QInv, InLine
    <2> QED BY <2>1, <2>2
  <1>10. Connections'
    <2> SUFFICES ASSUME NEW m \in Node, NEW o \in Node
                 PROVE  /\ m \in From(backlog'[o]) <=> sock'[o][m] = "queued"
                        /\ sock'[o][m] = "queued" => sock'[m][o] \in {"open", "closed"}
                        /\ sock'[m][o] = "open" <=> sending'[m] = o
      BY DEF Connections, From
    <2>0. /\ m \in From(backlog[o]) <=> sock[o][m] = "queued"
          /\ sock[o][m] = "queued" => sock[m][o] \in {"open", "closed"}
          /\ sock[m][o] = "open" <=> sending[m] = o
      BY DEF QInv, Connections
    <2>1. m \in From(backlog'[o]) <=> sock'[o][m] = "queued"
      BY <1>3, <1>4, <1>6, <2>0
    <2>2. sock'[o][m] = "queued" => sock'[m][o] \in {"open", "closed"}
      BY <1>4, <2>0
    <2>3. sock'[m][o] = "open" <=> sending'[m] = o
      BY <1>3, <1>4, <2>0
    <2> QED BY <2>1, <2>2, <2>3
  <1>11. SearchesWereAsked'
    <2>1. \A m \in Node : \A i \in DOMAIN backlog'[m] :
             \E j \in DOMAIN backlog[m] : backlog'[m][i] = backlog[m][j]
      BY <1>3
    <2> QED BY <1>5, <2>1, AskedStays DEF QInv, LinksAsked
  <1>12. EndedNodes'
    BY <1>3 DEF QInv, EndedNodes
  <1> QED BY <1>7, <1>8, <1>9, <1>10, <1>11, <1>12 DEF QInv
-----------------------------------------------------------------------------
(* The backlog of a node.                                                  *)

\* n accepts a connection.
LEMMA AcceptKeeps ==
  ASSUME QInv, NEW n \in Node, backlog[n] # <<>>,
         backlog' = [backlog EXCEPT ![n] = Tail(@)], UNCHANGED request
  PROVE  /\ backlog' \in [Node -> Seq(Incoming)]
         /\ NoTwins' /\ OwnFile'
         /\ Head(backlog[n]) \in Incoming /\ Head(backlog[n]).from \in From(backlog[n])
         /\ \E j \in DOMAIN backlog[n] : backlog[n][j] = Head(backlog[n])
         /\ From(backlog'[n]) = From(backlog[n]) \ {Head(backlog[n]).from}
         /\ \A m \in Node : m # n => backlog'[m] = backlog[m]
         /\ \A m \in Node : \A i \in DOMAIN backlog'[m] :
               \E j \in DOMAIN backlog[m] : backlog'[m][i] = backlog[m][j]
  <1>1. /\ backlog \in [Node -> Seq(Incoming)] /\ backlog[n] \in Seq(Incoming)
        /\ \A i, j \in DOMAIN backlog[n] : backlog[n][i].from = backlog[n][j].from => i = j
    BY DEF QInv, TypeOK, NoTwins
  <1>2. /\ From(Tail(backlog[n])) = From(backlog[n]) \ {Head(backlog[n]).from}
        /\ Head(backlog[n]).from \in From(backlog[n])
        /\ 1 \in DOMAIN backlog[n] /\ Head(backlog[n]) = backlog[n][1]
        /\ \A i, j \in DOMAIN Tail(backlog[n]) :
              Tail(backlog[n])[i].from = Tail(backlog[n])[j].from => i = j
        /\ \A i \in DOMAIN Tail(backlog[n]) :
              \E j \in DOMAIN backlog[n] : Tail(backlog[n])[i] = backlog[n][j]
    BY <1>1, TailFrom
  <1>3. Tail(backlog[n]) \in Seq(Incoming) /\ Head(backlog[n]) \in Incoming
    BY <1>1, TailEntries
  <1>4. backlog'[n] = Tail(backlog[n]) /\ \A m \in Node : m # n => backlog'[m] = backlog[m]
    BY <1>1
  <1>5. backlog' \in [Node -> Seq(Incoming)]
    BY <1>1, <1>3
  <1>6. \A m \in Node : \A i \in DOMAIN backlog'[m] :
           \E j \in DOMAIN backlog[m] : backlog'[m][i] = backlog[m][j]
    BY <1>2, <1>4
  <1>7. NoTwins'
    BY <1>2, <1>4 DEF QInv, NoTwins
  <1>8. OwnFile'
    BY <1>6 DEF QInv, OwnFile
  <1> QED BY <1>2, <1>3, <1>4, <1>5, <1>6, <1>7, <1>8

\* What is in the backlogs was there before the step, or is e, and in that of n.
Gains(n, e) ==
  \A m \in Node : \A i \in DOMAIN backlog'[m] :
     \/ \E j \in DOMAIN backlog[m] : backlog'[m][i] = backlog[m][j]
     \/ m = n /\ backlog'[m][i] = e

\* Somebody connects to n.
LEMMA ConnectKeeps ==
  ASSUME QInv, NEW n \in Node, NEW e \in Incoming, e.from \notin From(backlog[n]),
         e.from \in Client => e.file = request[e.from].file,
         backlog' = [backlog EXCEPT ![n] = Append(@, e)], UNCHANGED request
  PROVE  /\ backlog' \in [Node -> Seq(Incoming)]
         /\ NoTwins' /\ OwnFile'
         /\ From(backlog'[n]) = From(backlog[n]) \cup {e.from}
         /\ \A m \in Node : m # n => backlog'[m] = backlog[m]
         /\ Gains(n, e)
  <1>1. /\ backlog \in [Node -> Seq(Incoming)] /\ backlog[n] \in Seq(Incoming)
        /\ \A i, j \in DOMAIN backlog[n] : backlog[n][i].from = backlog[n][j].from => i = j
    BY DEF QInv, TypeOK, NoTwins
  <1>2. /\ From(Append(backlog[n], e)) = From(backlog[n]) \cup {e.from}
        /\ \A i, j \in DOMAIN Append(backlog[n], e) :
              Append(backlog[n], e)[i].from = Append(backlog[n], e)[j].from => i = j
        /\ \A i \in DOMAIN Append(backlog[n], e) :
              \/ Append(backlog[n], e)[i] = e
              \/ \E j \in DOMAIN backlog[n] : Append(backlog[n], e)[i] = backlog[n][j]
    BY <1>1, AppendFrom
  <1>3. Append(backlog[n], e) \in Seq(Incoming)
    BY <1>1
  <1>4. /\ backlog'[n] = Append(backlog[n], e)
        /\ \A m \in Node : m # n => backlog'[m] = backlog[m]
    BY <1>1
  <1>5. backlog' \in [Node -> Seq(Incoming)]
    BY <1>1, <1>3
  <1>6. \A m \in Node : \A i \in DOMAIN backlog'[m] :
           \/ \E j \in DOMAIN backlog[m] : backlog'[m][i] = backlog[m][j]
           \/ m = n /\ backlog'[m][i] = e
    BY <1>2, <1>4
  <1>7. NoTwins'
    BY <1>2, <1>4 DEF QInv, NoTwins
  <1>8. OwnFile'
    BY <1>6 DEF QInv, OwnFile
  <1> QED BY <1>2, <1>4, <1>5, <1>6, <1>7, <1>8 DEF Gains

-----------------------------------------------------------------------------
(* The flood.                                                              *)

\* Every search on the links is from l, or is q.
Spread(l, q) ==
  \A m, p \in Node : \A i \in DOMAIN link'[m][p] :
     \/ \E j \in DOMAIN l[m][p] : link'[m][p][i] = l[m][p][j]
     \/ link'[m][p][i] = q

\* What is on the links after a node has forwarded q, or dropped it.
LEMMA Flooded ==
  ASSUME NEW n \in Node, NEW q \in Query, NEW from, NEW l \in [Node -> [Node -> Seq(Query)]],
         history \in [Node -> Histories], QueryNetworkForImage(n, q, from, l)
  PROVE  /\ link' \in [Node -> [Node -> Seq(Query)]]
         /\ history' \in [Node -> Histories] /\ Spread(l, q)
  <1>1. CASE link' = l /\ UNCHANGED history
    BY <1>1 DEF Spread
  <1>2. CASE /\ history' = [history EXCEPT ![n] = AddImageQuery(@, q)]
             /\ link' = [m \in Node |-> [r \in Node |->
                            IF m = n /\ r \in Links[n] \ {from}
                            THEN Append(l[m][r], q) ELSE l[m][r]]]
    <2>1. AddImageQuery(history[n], q) \in Histories
      <3>1. history[n] \in Seq(Search) /\ Len(history[n]) \in Nat /\ Len(history[n]) <= PR_MAXPEERS
        BY DEF Histories
      <3>2. Key(q) \in Search
        BY DEF Key, Query, Search
      <3>3. CASE Len(history[n]) = PR_MAXPEERS
        <4>1. history[n] # <<>>
          BY <3>3
        <4>2. Tail(history[n]) \in Seq(Search) /\ Len(Tail(history[n])) = Len(history[n]) - 1
          BY <3>1, <4>1
        <4> QED BY <3>1, <3>2, <3>3, <4>2 DEF AddImageQuery, Histories
      <3>4. CASE Len(history[n]) # PR_MAXPEERS
        BY <3>1, <3>2, <3>4 DEF AddImageQuery, Histories
      <3> QED BY <3>3, <3>4
    <2>2. history' \in [Node -> Histories]
      BY <1>2, <2>1
    <2>3. ASSUME NEW m \in Node, NEW p \in Node
          PROVE  /\ link'[m][p] \in Seq(Query)
                 /\ \A i \in DOMAIN link'[m][p] :
                       \/ \E j \in DOMAIN l[m][p] : link'[m][p][i] = l[m][p][j]
                       \/ link'[m][p][i] = q
      <3>1. link'[m][p] = l[m][p] \/ link'[m][p] = Append(l[m][p], q)
        BY <1>2
      <3>2. l[m][p] \in Seq(Query)
        OBVIOUS
      <3>3. CASE link'[m][p] = l[m][p]
        BY <3>2, <3>3
      <3>4. CASE link'[m][p] = Append(l[m][p], q)
        BY <3>2, <3>4
      <3> QED BY <3>1, <3>3, <3>4
    <2>4. link' \in [Node -> [Node -> Seq(Query)]]
      <3>1. link' = [m \in Node |-> link'[m]]
        BY <1>2
      <3>2. ASSUME NEW m \in Node PROVE link'[m] \in [Node -> Seq(Query)]
        <4>1. link'[m] = [r \in Node |-> IF m = n /\ r \in Links[n] \ {from}
                                         THEN Append(l[m][r], q) ELSE l[m][r]]
          BY <1>2
        <4>2. link'[m] = [r \in Node |-> link'[m][r]]
          BY <4>1
        <4> QED BY <2>3, <4>2
      <3> QED BY <3>1, <3>2
    <2>5. Spread(l, q)
      BY <2>3 DEF Spread
    <2> QED BY <2>2, <2>4, <2>5
  <1> QED BY <1>1, <1>2 DEF QueryNetworkForImage

\* What is left after n has read the first search from m.
LEMMA QueryRead ==
  ASSUME link \in [Node -> [Node -> Seq(Query)]], NEW n \in Node, NEW m \in Node,
         link[m][n] # <<>>, NEW l, l = [link EXCEPT ![m][n] = Tail(@)]
  PROVE  /\ l \in [Node -> [Node -> Seq(Query)]]
         /\ Head(link[m][n]) \in Query /\ Head(link[m][n]) \in Sent(m, n)
         /\ \A p, r \in Node : \A i \in DOMAIN l[p][r] : l[p][r][i] \in Sent(p, r)
  <1> DEFINE b == link[m][n]
  <1>1. b \in Seq(Query) /\ b # <<>>
    OBVIOUS
  <1>2. \A p, r \in Node : l[p][r] = IF p = m /\ r = n THEN Tail(b) ELSE link[p][r]
    <2>1. l[m] = [link[m] EXCEPT ![n] = Tail(b)] /\ \A p \in Node : p # m => l[p] = link[p]
      OBVIOUS
    <2>2. link[m] \in [Node -> Seq(Query)]
      OBVIOUS
    <2>3. l[m][n] = Tail(b) /\ \A r \in Node : r # n => l[m][r] = link[m][r]
      BY <2>1, <2>2
    <2> SUFFICES ASSUME NEW p \in Node, NEW r \in Node
                 PROVE  l[p][r] = IF p = m /\ r = n THEN Tail(b) ELSE link[p][r]
      OBVIOUS
    <2>4. CASE p = m
      BY <2>3, <2>4
    <2>5. CASE p # m
      BY <2>1, <2>5
    <2> QED BY <2>4, <2>5
  <1>3. l = [link EXCEPT ![m][n] = Tail(b)]
    OBVIOUS
  <1>4. Sent(m, n) = {b[i] : i \in DOMAIN b}
    BY DEF Sent
  <1> HIDE DEF b
  <1>5. /\ Tail(b) \in Seq(Query) /\ Head(b) \in Query
        /\ Head(b) = b[1] /\ Len(b) \in Nat
        /\ Len(b) >= 1 /\ DOMAIN b = 1 .. Len(b)
        /\ DOMAIN Tail(b) = 1 .. Len(b) - 1
        /\ \A i \in 1 .. Len(b) - 1 : Tail(b)[i] = b[i + 1] /\ i + 1 \in 1 .. Len(b)
    BY <1>1, TailEntries
  <1>6. 1 \in DOMAIN b /\ \A i \in DOMAIN Tail(b) : i + 1 \in DOMAIN b /\ Tail(b)[i] = b[i + 1]
    <2>1. 1 \in DOMAIN b
      BY <1>5
    <2>2. ASSUME NEW i \in DOMAIN Tail(b) PROVE i + 1 \in DOMAIN b /\ Tail(b)[i] = b[i + 1]
      BY <1>5
    <2> QED BY <2>1, <2>2
  <1>7. l \in [Node -> [Node -> Seq(Query)]]
    BY <1>3, <1>5
  <1>8. Head(b) \in Sent(m, n)
    <2>1. 1 \in DOMAIN b /\ Head(b) = b[1]
      BY <1>5, <1>6
    <2> QED BY <1>4, <2>1
  <1>9. ASSUME NEW p \in Node, NEW r \in Node, NEW i \in DOMAIN l[p][r]
        PROVE  l[p][r][i] \in Sent(p, r)
    <2>1. CASE p = m /\ r = n
      <3>0. l[p][r] = Tail(b)
        BY <1>2, <2>1
      <3>1. i \in DOMAIN Tail(b) /\ l[p][r][i] = Tail(b)[i]
        BY <3>0
      <3>2. i + 1 \in DOMAIN b /\ l[p][r][i] = b[i + 1]
        BY <1>6, <3>1
      <3> QED BY <1>4, <2>1, <3>2
    <2>2. CASE ~(p = m /\ r = n)
      <3>1. l[p][r] = link[p][r]
        BY <1>2, <2>2
      <3>2. i \in DOMAIN link[p][r] /\ l[p][r][i] = link[p][r][i]
        BY <3>1
      <3> QED BY <3>2 DEF Sent
    <2> QED BY <2>1, <2>2
  <1> QED BY <1>5, <1>7, <1>8, <1>9 DEF b

-----------------------------------------------------------------------------
(* handleImageTraffic().                                                   *)

\* n has answered c, or taken it as the client it services.
Attended(n, c) ==
  /\ answer' \in [Client -> Outcome \cup File] /\ answer'[c] # "idle"
  /\ \A d \in Client : d # c => answer'[d] = answer[d]
  /\ \/ imageClient' = imageClient /\ answer'[c] # "waiting"
     \/ /\ imageClient[n] = NoClient
        /\ imageClient' = [imageClient EXCEPT ![n] = c] /\ answer'[c] = answer[c]

\* The queue of clients, and the searches, are in order again when n has accepted
\* client c and either answered it or taken it as the one it services.
LEMMA ClientAccepted ==
  ASSUME QInv, NEW n \in Node, AtSelect(n), backlog[n] # <<>>,
         NEW c \in Client, Head(backlog[n]).from = c,
         backlog' = [backlog EXCEPT ![n] = Tail(@)],
         UNCHANGED <<status, sending, sock, request>>,
         SearchTypes', LinksAsked, Attended(n, c)
  PROVE  QInv'
  <1>1. /\ backlog' \in [Node -> Seq(Incoming)]
        /\ NoTwins' /\ OwnFile'
        /\ c \in From(backlog[n])
        /\ From(backlog'[n]) = From(backlog[n]) \ {c}
        /\ \A m \in Node : m # n => backlog'[m] = backlog[m]
        /\ \A m \in Node : \A i \in DOMAIN backlog'[m] :
              \E j \in DOMAIN backlog[m] : backlog'[m][i] = backlog[m][j]
    BY AcceptKeeps
  <1>2. /\ imageClient \in [Node -> Client \cup {NoClient}] /\ NoClient \notin Client
        /\ status[n] \notin Ended /\ sending[n] = NoNode
    BY DEF QInv, TypeOK, AtSelect, Ended
  <1>0. /\ answer' \in [Client -> Outcome \cup File] /\ answer'[c] # "idle"
        /\ \A d \in Client : d # c => answer'[d] = answer[d]
        /\ \/ imageClient' = imageClient /\ answer'[c] # "waiting"
           \/ /\ imageClient[n] = NoClient
              /\ imageClient' = [imageClient EXCEPT ![n] = c] /\ answer'[c] = answer[c]
    BY DEF Attended
  <1>3. /\ \A m \in Node : m # n => imageClient'[m] = imageClient[m]
        /\ \/ imageClient'[n] = imageClient[n] /\ answer'[c] # "waiting"
           \/ imageClient[n] = NoClient /\ imageClient'[n] = c /\ answer'[c] = answer[c]
    BY <1>0, <1>2
  <1>4. imageClient' \in [Node -> Client \cup {NoClient}]
    <2>1. CASE imageClient' = imageClient
      BY <1>2, <2>1
    <2>2. CASE imageClient' = [imageClient EXCEPT ![n] = c]
      BY <1>2, <2>2
    <2> QED BY <1>0, <2>1, <2>2
  <1>5. TypeOK'
    BY <1>0, <1>1, <1>4 DEF QInv, TypeOK, SearchTypes, Histories
  <1>6. \A m \in Node, d \in Client :
          /\ d \in From(backlog[m]) \/ imageClient[m] = d =>
                request[d].node = m /\ answer[d] \in {"waiting", "left"}
          /\ ~(d \in From(backlog[m]) /\ imageClient[m] = d)
          /\ answer[d] = "waiting" /\ request[d].node = m =>
                d \in From(backlog[m]) \/ imageClient[m] = d
    BY DEF QInv, InLine
  <1>7. InLine'
    <2> SUFFICES ASSUME NEW m \in Node, NEW d \in Client
                 PROVE  /\ d \in From(backlog'[m]) \/ imageClient'[m] = d =>
                              request[d].node = m /\ answer'[d] \in {"waiting", "left"}
                        /\ ~(d \in From(backlog'[m]) /\ imageClient'[m] = d)
                        /\ answer'[d] = "waiting" /\ request[d].node = m =>
                              d \in From(backlog'[m]) \/ imageClient'[m] = d
      BY DEF InLine, From
    <2>0. /\ request[c].node = n /\ answer[c] \in {"waiting", "left"} /\ imageClient[n] # c
      BY <1>1, <1>6
    <2>00. /\ d \in From(backlog[m]) \/ imageClient[m] = d =>
                 request[d].node = m /\ answer[d] \in {"waiting", "left"}
           /\ ~(d \in From(backlog[m]) /\ imageClient[m] = d)
           /\ answer[d] = "waiting" /\ request[d].node = m =>
                 d \in From(backlog[m]) \/ imageClient[m] = d
      BY <1>6
    <2>1. CASE m = n /\ d = c
      BY <1>1, <1>3, <2>0, <2>1
    <2>2. CASE m = n /\ d # c
      <3>1. /\ d \in From(backlog'[m]) <=> d \in From(backlog[m])
            /\ imageClient'[m] = d <=> imageClient[m] = d
            /\ answer'[d] = answer[d]
        BY <1>0, <1>1, <1>2, <1>3, <2>2
      <3> QED BY <2>00, <3>1
    <2>3. CASE m # n /\ d = c
      <3>1. backlog'[m] = backlog[m] /\ imageClient'[m] = imageClient[m]
        BY <1>1, <1>3, <2>3
      <3> QED BY <2>00, <2>0, <2>3, <3>1
    <2>4. CASE m # n /\ d # c
      <3>1. backlog'[m] = backlog[m] /\ imageClient'[m] = imageClient[m]
        BY <1>1, <1>3, <2>4
      <3>2. answer'[d] = answer[d]
        BY <1>0, <2>4
      <3> QED BY <2>00, <3>1, <3>2
    <2> QED BY <2>1, <2>2, <2>3, <2>4
  <1>8. Connections'
    <2> SUFFICES ASSUME NEW m \in Node, NEW o \in Node
                 PROVE  /\ m \in From(backlog'[o]) <=> sock[o][m] = "queued"
                        /\ sock[o][m] = "queued" => sock[m][o] \in {"open", "closed"}
                        /\ sock[m][o] = "open" <=> sending[m] = o
      BY DEF Connections, From
    <2>1. m # c
      OBVIOUS
    <2>2. m \in From(backlog'[o]) <=> m \in From(backlog[o])
      <3>1. CASE o = n
        BY <1>1, <2>1, <3>1
      <3>2. CASE o # n
        BY <1>1, <3>2
      <3> QED BY <3>1, <3>2
    <2> QED BY <2>2 DEF QInv, Connections
  <1>9. \A d \in Client : answer[d] # "idle" => answer'[d] # "idle"
    BY <1>0
  <1>10. SearchesWereAsked'
    BY <1>1, <1>9, AskedStays DEF QInv, LinksAsked
  <1>11. EndedNodes'
    BY <1>1, <1>2, <1>3 DEF QInv, EndedNodes
  <1> QED BY <1>1, <1>5, <1>7, <1>8, <1>10, <1>11 DEF QInv

\* A client is told something, unless it has gone away.
LEMMA AnsweredKeeps ==
  ASSUME answer \in [Client -> Outcome \cup File], NEW c \in Client,
         NEW what \in (Outcome \ {"idle", "waiting"}) \cup File, answer' = Answered(c, what)
  PROVE  /\ answer' \in [Client -> Outcome \cup File]
         /\ answer'[c] \notin {"idle", "waiting"}
         /\ \A d \in Client : d # c => answer'[d] = answer[d]
  BY DEF Answered, Outcome

LEMMA RejectKeeps ==
  ASSUME QInv, NEW n \in Node, AtSelect(n), backlog[n] # <<>>,
         NEW c \in Client, Head(backlog[n]).from = c, RejectImageQuery(n, c),
         backlog' = [backlog EXCEPT ![n] = Tail(@)], UNCHANGED request
  PROVE  QInv'
  <1>1. /\ answer' = Answered(c, "busy")
        /\ UNCHANGED <<status, imageClient, searchId, history, link, sending, sock>>
    BY DEF RejectImageQuery
  <1>2. Attended(n, c)
    <2>1. "busy" \in (Outcome \ {"idle", "waiting"}) \cup File /\ answer \in [Client -> Outcome \cup File]
      BY DEF Outcome, QInv, TypeOK
    <2>2. /\ answer' \in [Client -> Outcome \cup File] /\ answer'[c] \notin {"idle", "waiting"}
          /\ \A d \in Client : d # c => answer'[d] = answer[d]
      BY <1>1, <2>1, AnsweredKeeps
    <2> QED BY <1>1, <2>2 DEF Attended
  <1>3. SearchTypes'
    BY <1>1 DEF QInv, TypeOK, SearchTypes, Histories
  <1>4. LinksAsked
    BY <1>1 DEF Sent, LinksAsked
  <1> QED BY <1>1, <1>2, <1>3, <1>4, ClientAccepted

\* currMaxSearchId_ wraps.
LEMMA GenSearchIdType ==
  ASSUME TypeOK, NEW n \in Node
  PROVE  /\ GenSearchId(n) \in 0 .. SearchIds - 1
         /\ [searchId EXCEPT ![n] = GenSearchId(n)] \in [Node -> 0 .. SearchIds - 1]
  <1>1. searchId[n] \in 0 .. SearchIds - 1 /\ searchId \in [Node -> 0 .. SearchIds - 1]
    BY DEF TypeOK
  <1>2. \A k \in Nat : k % SearchIds \in 0 .. SearchIds - 1
    OBVIOUS
  <1>3. GenSearchId(n) \in 0 .. SearchIds - 1
    BY <1>1, <1>2 DEF GenSearchId
  <1> QED BY <1>1, <1>3

LEMMA FindLocallyKeeps ==
  ASSUME QInv, NEW n \in Node, AtSelect(n), backlog[n] # <<>>,
         NEW c \in Client, Head(backlog[n]).from = c, NEW f \in File, FindLocally(n, c, f),
         backlog' = [backlog EXCEPT ![n] = Tail(@)], UNCHANGED request
  PROVE  QInv'
  <1>1. /\ answer' = Answered(c, f)
        /\ imageClient[n] = NoClient /\ imageClient' = [imageClient EXCEPT ![n] = NoClient]
        /\ searchId' = [searchId EXCEPT ![n] = GenSearchId(n)]
        /\ UNCHANGED <<status, history, link, sending, sock>>
    BY DEF FindLocally, ReturnImageToClient
  <1>2. imageClient' = imageClient
    BY <1>1 DEF QInv, TypeOK
  <1>3. Attended(n, c)
    <2>1. answer \in [Client -> Outcome \cup File]
      BY DEF QInv, TypeOK
    <2>2. /\ answer' \in [Client -> Outcome \cup File] /\ answer'[c] \notin {"idle", "waiting"}
          /\ \A d \in Client : d # c => answer'[d] = answer[d]
      BY <1>1, <2>1, AnsweredKeeps
    <2> QED BY <1>2, <2>2 DEF Attended
  <1>4. SearchTypes'
    BY <1>1, GenSearchIdType DEF QInv, TypeOK, SearchTypes, Histories
  <1>5. LinksAsked
    BY <1>1 DEF Sent, LinksAsked
  <1> QED BY <1>1, <1>3, <1>4, <1>5, ClientAccepted

\* The search that starts is for what the client asked.
LEMMA SearchNetworkKeeps ==
  ASSUME QInv, NEW n \in Node, AtSelect(n), backlog[n] # <<>>,
         NEW c \in Client, Head(backlog[n]).from = c,
         SearchNetwork(n, c, Head(backlog[n]).file),
         backlog' = [backlog EXCEPT ![n] = Tail(@)], UNCHANGED request
  PROVE  QInv'
  <1> DEFINE f == Head(backlog[n]).file
             q == Original(n, f)
  <1>1. /\ f \notin Files[n] /\ imageClient[n] = NoClient
        /\ imageClient' = [imageClient EXCEPT ![n] = c]
        /\ searchId' = [searchId EXCEPT ![n] = GenSearchId(n)]
        /\ QueryNetworkForImage(n, q, NoNode, link)
        /\ UNCHANGED <<status, sending, sock, answer>>
    BY DEF SearchNetwork
  <1>2. /\ Head(backlog[n]) \in Incoming /\ c \in From(backlog[n])
        /\ \E j \in DOMAIN backlog[n] : backlog[n][j] = Head(backlog[n])
    BY AcceptKeeps
  <1>3. f \in File /\ f = request[c].file /\ request[c].node = n
        /\ answer[c] \in {"waiting", "left"}
    BY <1>2 DEF QInv, OwnFile, InLine, Incoming
  <1>4. SearchTypes /\ answer \in [Client -> Outcome \cup File] /\ request \in Requests
    BY DEF QInv, TypeOK, SearchTypes, Histories
  <1>5. Asked(n, f)
    <2>1. request[c] = [node |-> n, file |-> f]
      BY <1>3, <1>4
    <2> QED BY <1>1, <1>3, <2>1 DEF Asked
  <1>6. q \in Query /\ q.orig = n /\ q.file = f
    <2>1. GenSearchId(n) \in 0 .. SearchIds - 1
      BY GenSearchIdType DEF QInv
    <2> QED BY <1>3, <2>1 DEF Query, Original
  <1> HIDE DEF q, f
  <1>7. /\ link' \in [Node -> [Node -> Seq(Query)]]
        /\ history' \in [Node -> Histories] /\ Spread(link, q)
    <2>1. /\ link \in [Node -> [Node -> Seq(Query)]]
          /\ history \in [Node -> Histories]
          /\ q \in Query /\ QueryNetworkForImage(n, q, NoNode, link)
      BY <1>1, <1>4, <1>6 DEF SearchTypes
    <2> QED BY <2>1, Flooded
  <1>8. SearchTypes'
    BY <1>1, <1>7, GenSearchIdType DEF QInv, SearchTypes
  <1>9. LinksAsked
    <2> SUFFICES ASSUME NEW m \in Node, NEW p \in Node, NEW i \in DOMAIN link'[m][p]
                 PROVE  \/ link'[m][p][i] \in Sent(m, p)
                        \/ Asked(link'[m][p][i].orig, link'[m][p][i].file)
      BY DEF LinksAsked
    <2>1. CASE \E j \in DOMAIN link[m][p] : link'[m][p][i] = link[m][p][j]
      BY <2>1 DEF Sent
    <2>2. CASE link'[m][p][i] = q
      BY <1>5, <1>6, <2>2
    <2>3. \/ \E j \in DOMAIN link[m][p] : link'[m][p][i] = link[m][p][j]
          \/ link'[m][p][i] = q
      <3>1. Spread(link, q)
        BY <1>7
      <3> QED BY <3>1 DEF Spread
    <2> QED BY <2>1, <2>2, <2>3
  <1>10. Attended(n, c)
    BY <1>1, <1>3, <1>4 DEF Attended
  <1> QED BY <1>1, <1>8, <1>9, <1>10, ClientAccepted

\* The client being serviced is the one that is answered.
LEMMA DismissKeeps ==
  ASSUME QInv, NEW n \in Node, imageClient[n] # NoClient,
         NEW what \in (Outcome \ {"idle", "waiting"}) \cup File,
         answer' = Answered(imageClient[n], what),
         imageClient' = [imageClient EXCEPT ![n] = NoClient], UNCHANGED request,
         \A m \in Node, c \in Client : c \in From(backlog'[m]) <=> c \in From(backlog[m])
  PROVE  /\ InLine' /\ imageClient' \in [Node -> Client \cup {NoClient}]
         /\ answer' \in [Client -> Outcome \cup File]
         /\ \A d \in Client : answer[d] # "idle" => answer'[d] # "idle"
         /\ \A m \in Node : imageClient[m] = NoClient => imageClient'[m] = NoClient
  <1> DEFINE c == imageClient[n]
  <1>1. /\ imageClient \in [Node -> Client \cup {NoClient}] /\ NoClient \notin Client
        /\ answer \in [Client -> Outcome \cup File] /\ c \in Client
    BY DEF QInv, TypeOK
  <1>2. /\ answer' \in [Client -> Outcome \cup File]
        /\ answer'[c] \notin {"idle", "waiting"}
        /\ \A d \in Client : d # c => answer'[d] = answer[d]
    BY <1>1, AnsweredKeeps
  <1>3. /\ imageClient'[n] = NoClient /\ \A m \in Node : m # n => imageClient'[m] = imageClient[m]
        /\ imageClient' \in [Node -> Client \cup {NoClient}]
    BY <1>1
  <1>4. \A m \in Node, d \in Client :
          /\ d \in From(backlog[m]) \/ imageClient[m] = d =>
                request[d].node = m /\ answer[d] \in {"waiting", "left"}
          /\ ~(d \in From(backlog[m]) /\ imageClient[m] = d)
          /\ answer[d] = "waiting" /\ request[d].node = m =>
                d \in From(backlog[m]) \/ imageClient[m] = d
    BY DEF QInv, InLine
  <1>5. InLine'
    <2> SUFFICES ASSUME NEW m \in Node, NEW d \in Client
                 PROVE  /\ d \in From(backlog'[m]) \/ imageClient'[m] = d =>
                              request[d].node = m /\ answer'[d] \in {"waiting", "left"}
                        /\ ~(d \in From(backlog'[m]) /\ imageClient'[m] = d)
                        /\ answer'[d] = "waiting" /\ request[d].node = m =>
                              d \in From(backlog'[m]) \/ imageClient'[m] = d
      BY DEF InLine, From
    <2>0. c \notin From(backlog[n]) /\ request[c].node = n
      BY <1>1, <1>4
    <2>1. /\ d \in From(backlog[m]) \/ imageClient[m] = d =>
                 request[d].node = m /\ answer[d] \in {"waiting", "left"}
          /\ ~(d \in From(backlog[m]) /\ imageClient[m] = d)
          /\ answer[d] = "waiting" /\ request[d].node = m =>
                d \in From(backlog[m]) \/ imageClient[m] = d
      BY <1>4
    <2>2. d \in From(backlog'[m]) <=> d \in From(backlog[m])
      OBVIOUS
    <2>3. CASE d = c
      <3>1. imageClient'[m] # d
        BY <1>1, <1>3, <2>0, <2>1, <2>3
      <3>2. d \notin From(backlog[m])
        BY <2>0, <2>1, <2>3
      <3> QED BY <1>2, <2>2, <2>3, <3>1, <3>2
    <2>4. CASE d # c
      <3>1. answer'[d] = answer[d] /\ (imageClient'[m] = d <=> imageClient[m] = d)
        BY <1>1, <1>2, <1>3, <2>4
      <3> QED BY <2>1, <2>2, <3>1
    <2> QED BY <2>3, <2>4
  <1>6. \A d \in Client : answer[d] # "idle" => answer'[d] # "idle"
    BY <1>2
  <1> QED BY <1>1, <1>2, <1>3, <1>5, <1>6

LEMMA TimeoutKeeps ==
  ASSUME QInv, NEW n \in Node, TimeoutImageQuery(n)
  PROVE  QInv'
  <1>1. /\ imageClient[n] # NoClient
        /\ answer' = Answered(imageClient[n], "nfound")
        /\ imageClient' = [imageClient EXCEPT ![n] = NoClient]
        /\ UNCHANGED <<status, searchId, history, link, backlog, sending, sock, request>>
    BY DEF TimeoutImageQuery
  <1>2. /\ InLine' /\ imageClient' \in [Node -> Client \cup {NoClient}]
        /\ answer' \in [Client -> Outcome \cup File]
        /\ \A d \in Client : answer[d] # "idle" => answer'[d] # "idle"
        /\ \A m \in Node : imageClient[m] = NoClient => imageClient'[m] = NoClient
    <2>1. "nfound" \in (Outcome \ {"idle", "waiting"}) \cup File
      BY DEF Outcome
    <2>2. \A m \in Node, c \in Client : c \in From(backlog'[m]) <=> c \in From(backlog[m])
      BY <1>1
    <2>3. UNCHANGED request
      BY <1>1
    <2> QED BY <1>1, <2>1, <2>2, <2>3, DismissKeeps
  <1>3. TypeOK'
    BY <1>1, <1>2 DEF QInv, TypeOK
  <1>4. NoTwins' /\ OwnFile' /\ Connections'
    BY <1>1 DEF QInv, NoTwins, OwnFile, Connections, From
  <1>5. LinksAsked
    BY <1>1 DEF LinksAsked, Sent
  <1>6. SearchesWereAsked'
    BY <1>1, <1>2, <1>5, AskedStays DEF QInv, LinksAsked
  <1>7. EndedNodes'
    BY <1>1, <1>2 DEF QInv, EndedNodes
  <1> QED BY <1>2, <1>3, <1>4, <1>6, <1>7 DEF QInv

-----------------------------------------------------------------------------
(* Connections between nodes.                                              *)

\* t is s but for the end of the connection that n has with p; but for both ends.
SameBut(t, s, n, p) == \A a, b \in Node : ~(a = n /\ b = p) => t[a][b] = s[a][b]
SameButBoth(t, s, n, p) ==
  \A a, b \in Node : ~(a = n /\ b = p) /\ ~(a = p /\ b = n) => t[a][b] = s[a][b]

LEMMA ClosedAt ==
  ASSUME NEW s \in [Node -> [Node -> End]], NEW n \in Node, NEW p \in Node
  PROVE  /\ Closed(s, n, p) \in [Node -> [Node -> End]]
         /\ SameBut(Closed(s, n, p), s, n, p)
         /\ Closed(s, n, p)[n][p] \in {"closed", "none"}
         /\ s[p][n] \in {"queued", "open"} => Closed(s, n, p)[n][p] = "closed"
  <1> DEFINE e == IF Alive(s[p][n]) THEN "closed" ELSE "none"
  <1>1. /\ Closed(s, n, p) = [s EXCEPT ![n][p] = e] /\ e \in End
        /\ e \in {"closed", "none"} /\ (s[p][n] \in {"queued", "open"} => e = "closed")
    BY DEF Closed, End, Alive
  <1> HIDE DEF e
  <1>2. [s EXCEPT ![n][p] = e] \in [Node -> [Node -> End]]
    BY <1>1
  <1>3. /\ \A a, b \in Node : ~(a = n /\ b = p) => [s EXCEPT ![n][p] = e][a][b] = s[a][b]
        /\ [s EXCEPT ![n][p] = e][n][p] = e
    OBVIOUS
  <1> QED BY <1>1, <1>2, <1>3 DEF SameBut

LEMMA ConnectedAt ==
  ASSUME NEW s \in [Node -> [Node -> End]], NEW n \in Node, NEW p \in Node, n # p
  PROVE  /\ Connected(s, n, p) \in [Node -> [Node -> End]]
         /\ SameButBoth(Connected(s, n, p), s, n, p)
         /\ Connected(s, n, p)[n][p] = "open" /\ Connected(s, n, p)[p][n] = "queued"
  <1>1. "open" \in End /\ "queued" \in End
    BY DEF End
  <1> DEFINE t == [s EXCEPT ![n][p] = "open", ![p][n] = "queued"]
  <1>2. t \in [Node -> [Node -> End]]
    BY <1>1
  <1>3. /\ \A a, b \in Node : ~(a = n /\ b = p) /\ ~(a = p /\ b = n) => t[a][b] = s[a][b]
        /\ t[n][p] = "open" /\ t[p][n] = "queued"
    OBVIOUS
  <1> QED BY <1>2, <1>3 DEF Connected, SameButBoth

\* What is in order when nothing happens to clients, connections and processes.
LEMMA QuietKeeps ==
  ASSUME QInv, UNCHANGED <<imageClient, backlog, sending, sock, answer, request>>,
         SearchTypes', LinksAsked,
         status' \in [Node -> {"up", "spinning"} \cup Ended],
         \A m \in Node : status'[m] \in Ended => status[m] \in Ended
  PROVE  QInv'
  <1>1. TypeOK'
    BY DEF QInv, TypeOK, SearchTypes, Histories
  <1>2. NoTwins' /\ InLine' /\ OwnFile' /\ Connections'
    BY DEF QInv, NoTwins, InLine, OwnFile, Connections, From
  <1>3. SearchesWereAsked'
    BY AskedStays DEF QInv, LinksAsked
  <1>4. EndedNodes'
    BY DEF QInv, EndedNodes
  <1> QED BY <1>1, <1>2, <1>3, <1>4 DEF QInv

\* n has read an image: the connection is gone from its backlog.
LEMMA ReadKeeps ==
  ASSUME QInv, NEW n \in Node, backlog[n] # <<>>,
         NEW p \in Node, Head(backlog[n]).from = p,
         backlog' = [backlog EXCEPT ![n] = Tail(@)], UNCHANGED <<request, sending>>,
         sock' = Closed(sock, n, p)
  PROVE  /\ Connections' /\ sock' \in [Node -> [Node -> End]]
         /\ \A m \in Node, c \in Client : c \in From(backlog'[m]) <=> c \in From(backlog[m])
  <1>1. /\ p \in From(backlog[n])
        /\ From(backlog'[n]) = From(backlog[n]) \ {p}
        /\ \A m \in Node : m # n => backlog'[m] = backlog[m]
    BY AcceptKeeps
  <1>2. /\ sock' \in [Node -> [Node -> End]]
        /\ \A a, b \in Node : ~(a = n /\ b = p) => sock'[a][b] = sock[a][b]
        /\ sock'[n][p] \in {"closed", "none"}
    <2>1. sock \in [Node -> [Node -> End]]
      BY DEF QInv, TypeOK
    <2>2. /\ Closed(sock, n, p) \in [Node -> [Node -> End]]
          /\ Closed(sock, n, p)[n][p] \in {"closed", "none"}
          /\ SameBut(Closed(sock, n, p), sock, n, p)
      BY <2>1, ClosedAt
    <2> QED BY <2>2 DEF SameBut
  <1>3. \A m, o \in Node :
          /\ m \in From(backlog[o]) <=> sock[o][m] = "queued"
          /\ sock[o][m] = "queued" => sock[m][o] \in {"open", "closed"}
          /\ sock[m][o] = "open" <=> sending[m] = o
    BY DEF QInv, Connections
  <1>4. sock[n][p] = "queued" /\ sock[p][n] \in {"open", "closed"} /\ sending[n] # p
    BY <1>1, <1>3
  <1>5. Connections'
    <2> SUFFICES ASSUME NEW m \in Node, NEW o \in Node
                 PROVE  /\ m \in From(backlog'[o]) <=> sock'[o][m] = "queued"
                        /\ sock'[o][m] = "queued" => sock'[m][o] \in {"open", "closed"}
                        /\ sock'[m][o] = "open" <=> sending[m] = o
      BY DEF Connections, From
    <2>1. /\ m \in From(backlog[o]) <=> sock[o][m] = "queued"
          /\ sock[o][m] = "queued" => sock[m][o] \in {"open", "closed"}
          /\ sock[m][o] = "open" <=> sending[m] = o
      BY <1>3
    <2>2. CASE o = n /\ m = p
      BY <1>1, <1>2, <1>4, <2>1, <2>2
    <2>3. CASE m = n /\ o = p /\ ~(o = n /\ m = p)
      <3>1. sock'[o][m] = sock[o][m] /\ sock'[m][o] \in {"closed", "none"} /\ backlog'[o] = backlog[o]
        BY <1>1, <1>2, <2>3
      <3> QED BY <1>4, <2>1, <2>3, <3>1
    <2>4. CASE ~(o = n /\ m = p) /\ ~(m = n /\ o = p)
      <3>1. sock'[o][m] = sock[o][m] /\ sock'[m][o] = sock[m][o]
        BY <1>2, <2>4
      <3>2. m \in From(backlog'[o]) <=> m \in From(backlog[o])
        BY <1>1, <2>4
      <3> QED BY <2>1, <3>1, <3>2
    <2> QED BY <2>2, <2>3, <2>4
  <1>6. \A m \in Node, c \in Client : c \in From(backlog'[m]) <=> c \in From(backlog[m])
    <2> SUFFICES ASSUME NEW m \in Node, NEW c \in Client
                 PROVE  c \in From(backlog'[m]) <=> c \in From(backlog[m])
      OBVIOUS
    <2>1. c # p
      OBVIOUS
    <2> QED BY <1>1, <2>1
  <1> QED BY <1>2, <1>5, <1>6

LEMMA ReceiveTransferKeeps ==
  ASSUME QInv, NEW n \in Node, AtSelect(n), backlog[n] # <<>>,
         NEW p \in Node, Head(backlog[n]).from = p,
         ReceiveTransfer(n, p, Head(backlog[n]).file),
         backlog' = [backlog EXCEPT ![n] = Tail(@)], UNCHANGED request
  PROVE  QInv'
  <1> DEFINE f == Head(backlog[n]).file
  <1>1. /\ \/ imageClient[n] = NoClient /\ UNCHANGED <<answer, imageClient>>
           \/ imageClient[n] # NoClient /\ ReturnImageToClient(n, imageClient[n], f)
        /\ sock' = Closed(sock, n, p)
        /\ UNCHANGED <<status, searchId, history, link, sending>>
    BY DEF ReceiveTransfer
  <1>2. /\ backlog' \in [Node -> Seq(Incoming)]
        /\ NoTwins' /\ OwnFile' /\ Head(backlog[n]) \in Incoming
        /\ \A m \in Node : m # n => backlog'[m] = backlog[m]
        /\ \A m \in Node : \A i \in DOMAIN backlog'[m] :
              \E j \in DOMAIN backlog[m] : backlog'[m][i] = backlog[m][j]
    BY AcceptKeeps
  <1>3. /\ Connections' /\ sock' \in [Node -> [Node -> End]]
        /\ \A m \in Node, c \in Client : c \in From(backlog'[m]) <=> c \in From(backlog[m])
    BY <1>1, ReadKeeps
  <1>4. f \in File
    BY <1>2 DEF Incoming
  <1> HIDE DEF f
  <1>5. /\ InLine' /\ imageClient' \in [Node -> Client \cup {NoClient}]
        /\ answer' \in [Client -> Outcome \cup File]
        /\ \A d \in Client : answer[d] # "idle" => answer'[d] # "idle"
        /\ \A m \in Node : imageClient[m] = NoClient => imageClient'[m] = NoClient
    <2>1. CASE UNCHANGED <<answer, imageClient>>
      <3>1. InLine'
        BY <1>3, <2>1 DEF QInv, InLine, From
      <3> QED BY <2>1, <3>1 DEF QInv, TypeOK
    <2>2. CASE imageClient[n] # NoClient /\ ReturnImageToClient(n, imageClient[n], f)
      <3>1. /\ answer' = Answered(imageClient[n], f) /\ imageClient[n] # NoClient
            /\ imageClient' = [imageClient EXCEPT ![n] = NoClient]
            /\ f \in (Outcome \ {"idle", "waiting"}) \cup File
        BY <1>4, <2>2 DEF ReturnImageToClient
      <3> QED BY <1>3, <3>1, DismissKeeps
    <2> QED BY <1>1, <2>1, <2>2
  <1>6. TypeOK'
    BY <1>1, <1>2, <1>3, <1>5 DEF QInv, TypeOK
  <1>7. LinksAsked
    BY <1>1 DEF LinksAsked, Sent
  <1>8. SearchesWereAsked'
    BY <1>2, <1>5, <1>7, AskedStays DEF QInv, LinksAsked
  <1>9. EndedNodes'
    <2>1. status[n] \notin Ended
      BY DEF AtSelect, Ended
    <2> QED BY <1>1, <1>2, <1>5, <2>1 DEF QInv, EndedNodes
  <1> QED BY <1>2, <1>3, <1>5, <1>6, <1>8, <1>9 DEF QInv

-----------------------------------------------------------------------------
(* handleP2pTraffic() and transferImage().                                 *)

\* Somebody has asked for what a search that n reads is about.
LEMMA ReadAsked ==
  ASSUME QInv, NEW n \in Node, NEW m \in Node, link[m][n] # <<>>,
         NEW l, l = [link EXCEPT ![m][n] = Tail(@)]
  PROVE  /\ l \in [Node -> [Node -> Seq(Query)]]
         /\ Head(link[m][n]) \in Query
         /\ Asked(Head(link[m][n]).orig, Head(link[m][n]).file)
         /\ \A p, r \in Node : \A i \in DOMAIN l[p][r] : l[p][r][i] \in Sent(p, r)
  <1>1. link \in [Node -> [Node -> Seq(Query)]]
    BY DEF QInv, TypeOK
  <1>2. /\ l \in [Node -> [Node -> Seq(Query)]]
        /\ Head(link[m][n]) \in Query /\ Head(link[m][n]) \in Sent(m, n)
        /\ \A p, r \in Node : \A i \in DOMAIN l[p][r] : l[p][r][i] \in Sent(p, r)
    BY <1>1, QueryRead
  <1>3. \A p, r \in Node : \A q \in Sent(p, r) : Asked(q.orig, q.file)
    BY DEF QInv, SearchesWereAsked
  <1> QED BY <1>2, <1>3

\* n passes a search on, or drops it.
LEMMA FloodKeeps ==
  ASSUME QInv, NEW n \in Node, NEW m \in Node, link[m][n] # <<>>,
         NEW l, l = [link EXCEPT ![m][n] = Tail(@)],
         QueryNetworkForImage(n, Head(link[m][n]), m, l),
         UNCHANGED <<status, imageClient, searchId, backlog, sending, sock, answer, request>>
  PROVE  QInv'
  <1> DEFINE q == Head(link[m][n])
  <1>1. /\ l \in [Node -> [Node -> Seq(Query)]]
        /\ q \in Query /\ Asked(q.orig, q.file)
        /\ \A p, r \in Node : \A i \in DOMAIN l[p][r] : l[p][r][i] \in Sent(p, r)
    BY ReadAsked
  <1>2. QueryNetworkForImage(n, q, m, l) /\ history \in [Node -> Histories]
        /\ searchId \in [Node -> 0 .. SearchIds - 1]
        /\ status \in [Node -> {"up", "spinning"} \cup Ended]
    BY DEF QInv, TypeOK, Histories
  <1> HIDE DEF q
  <1>3. /\ link' \in [Node -> [Node -> Seq(Query)]]
        /\ history' \in [Node -> Histories] /\ Spread(l, q)
    BY <1>1, <1>2, Flooded
  <1>4. LinksAsked
    <2> SUFFICES ASSUME NEW p \in Node, NEW r \in Node, NEW i \in DOMAIN link'[p][r]
                 PROVE  \/ link'[p][r][i] \in Sent(p, r)
                        \/ Asked(link'[p][r][i].orig, link'[p][r][i].file)
      BY DEF LinksAsked
    <2>1. \/ \E j \in DOMAIN l[p][r] : link'[p][r][i] = l[p][r][j]
          \/ link'[p][r][i] = q
      <3>1. Spread(l, q)
        BY <1>3
      <3> QED BY <3>1 DEF Spread
    <2>2. CASE \E j \in DOMAIN l[p][r] : link'[p][r][i] = l[p][r][j]
      BY <1>1, <2>2
    <2>3. CASE link'[p][r][i] = q
      BY <1>1, <2>3
    <2> QED BY <2>1, <2>2, <2>3
  <1>5. SearchTypes'
    BY <1>2, <1>3 DEF SearchTypes
  <1> QED BY <1>2, <1>4, <1>5, QuietKeeps

\* The process of m has ended, and n reads its end of stream for ever.
LEMMA SpinningKeeps ==
  ASSUME QInv, NEW n \in Node, AtSelect(n), status' = [status EXCEPT ![n] = "spinning"],
         UNCHANGED <<imageClient, searchId, history, link, backlog, sending, sock, answer,
                     request>>
  PROVE  QInv'
  <1>1. /\ status \in [Node -> {"up", "spinning"} \cup Ended] /\ SearchTypes
    BY DEF QInv, TypeOK, SearchTypes, Histories
  <1>2. /\ status' \in [Node -> {"up", "spinning"} \cup Ended] /\ SearchTypes'
        /\ \A m \in Node : status'[m] \in Ended => status[m] \in Ended
    BY <1>1 DEF SearchTypes, Ended
  <1>3. LinksAsked
    BY DEF LinksAsked, Sent
  <1> QED BY <1>2, <1>3, QuietKeeps

\* n connects to o and sends it the image.
LEMMA TransferKeeps ==
  ASSUME QInv, NEW n \in Node, AtSelect(n), NEW o \in Node, NEW f \in File,
         Asked(o, f), Transfer(n, o, f), UNCHANGED <<searchId, history, request>>,
         link' \in [Node -> [Node -> Seq(Query)]], LinksAsked
  PROVE  QInv'
  <1> DEFINE e == [from |-> n, file |-> f]
             s == Connected(sock, n, o)
  <1>1. /\ FreeAddress(sock, n, o) /\ status[o] \notin Ended
        /\ backlog' = [backlog EXCEPT ![o] = Append(@, e)]
        /\ sock' = IF LargeImages THEN s ELSE Closed(s, n, o)
        /\ sending' = IF LargeImages THEN [sending EXCEPT ![n] = o] ELSE sending
        /\ UNCHANGED <<status, imageClient, answer>>
    BY DEF Transfer, Listening
  <1>2. /\ n # o /\ sock[o][n] # "queued" /\ sock[n][o] # "queued"
    BY <1>1 DEF FreeAddress
  <1>3. /\ sock \in [Node -> [Node -> End]] /\ sending \in [Node -> Node \cup {NoNode}]
        /\ sending[n] = NoNode /\ status[n] \notin Ended
        /\ \A m, p \in Node :
             /\ m \in From(backlog[p]) <=> sock[p][m] = "queued"
             /\ sock[p][m] = "queued" => sock[m][p] \in {"open", "closed"}
             /\ sock[m][p] = "open" <=> sending[m] = p
    BY DEF QInv, TypeOK, AtSelect, Ended, Connections
  <1>4. e \in Incoming /\ e.from = n /\ e.file = f /\ n \notin From(backlog[o]) /\ n \notin Client
    BY <1>2, <1>3 DEF Incoming
  <1> HIDE DEF e
  <1>5. /\ backlog' \in [Node -> Seq(Incoming)]
        /\ NoTwins' /\ OwnFile'
        /\ From(backlog'[o]) = From(backlog[o]) \cup {n}
        /\ \A m \in Node : m # o => backlog'[m] = backlog[m]
        /\ Gains(o, e)
    <2>1. /\ e \in Incoming /\ e.from \notin From(backlog[o])
          /\ e.from \in Client => e.file = request[e.from].file
          /\ backlog' = [backlog EXCEPT ![o] = Append(@, e)] /\ UNCHANGED request
      BY <1>1, <1>4
    <2>2. /\ backlog' \in [Node -> Seq(Incoming)]
          /\ NoTwins' /\ OwnFile' /\ Gains(o, e)
          /\ From(backlog'[o]) = From(backlog[o]) \cup {e.from}
          /\ \A m \in Node : m # o => backlog'[m] = backlog[m]
      BY <2>1, ConnectKeeps
    <2> QED BY <1>4, <2>2
  <1>6. /\ s \in [Node -> [Node -> End]] /\ SameButBoth(s, sock, n, o)
        /\ s[n][o] = "open" /\ s[o][n] = "queued"
    <2>1. n # o /\ sock \in [Node -> [Node -> End]]
      BY <1>2, <1>3
    <2>2. /\ Connected(sock, n, o) \in [Node -> [Node -> End]]
          /\ SameButBoth(Connected(sock, n, o), sock, n, o)
      BY <2>1, ConnectedAt
    <2>3. Connected(sock, n, o)[n][o] = "open" /\ Connected(sock, n, o)[o][n] = "queued"
      BY <2>1 DEF Connected
    <2> QED BY <2>2, <2>3
  <1> HIDE DEF s
  <1>7. /\ sock' \in [Node -> [Node -> End]] /\ SameButBoth(sock', sock, n, o)
        /\ sock'[o][n] = "queued" /\ sock'[n][o] \in {"open", "closed"}
        /\ sock'[n][o] = "open" <=> sending'[n] = o
        /\ sending' \in [Node -> Node \cup {NoNode}]
        /\ \A m \in Node : m # n => sending'[m] = sending[m]
        /\ sending'[n] \in {o, NoNode}
    <2>1. CASE LargeImages
      BY <1>1, <1>3, <1>6, <2>1
    <2>2. CASE ~LargeImages
      <3>1. /\ Closed(s, n, o) \in [Node -> [Node -> End]]
            /\ SameBut(Closed(s, n, o), s, n, o)
            /\ s[o][n] = "queued" => Closed(s, n, o)[n][o] = "closed"
        BY <1>6, ClosedAt
      <3>2. sock' = Closed(s, n, o) /\ sending' = sending
        BY <1>1, <2>2
      <3>3. sock'[n][o] = "closed" /\ sock'[o][n] = "queued"
        BY <1>2, <1>6, <3>1, <3>2 DEF SameBut
      <3>4. SameButBoth(sock', sock, n, o)
        <4>1. SameButBoth(s, sock, n, o) /\ SameBut(sock', s, n, o)
          BY <1>6, <3>1, <3>2
        <4> QED BY <4>1 DEF SameBut, SameButBoth
      <3> QED BY <1>3, <3>1, <3>2, <3>3, <3>4
    <2> QED BY <2>1, <2>2
  <1>8. Connections'
    <2> SUFFICES ASSUME NEW m \in Node, NEW p \in Node
                 PROVE  /\ m \in From(backlog'[p]) <=> sock'[p][m] = "queued"
                        /\ sock'[p][m] = "queued" => sock'[m][p] \in {"open", "closed"}
                        /\ sock'[m][p] = "open" <=> sending'[m] = p
      BY DEF Connections, From
    <2>0. /\ m \in From(backlog[p]) <=> sock[p][m] = "queued"
          /\ sock[p][m] = "queued" => sock[m][p] \in {"open", "closed"}
          /\ sock[m][p] = "open" <=> sending[m] = p
      BY <1>3
    <2>1. CASE m = n /\ p = o
      BY <1>5, <1>7, <2>1
    <2>2. CASE m = o /\ p = n
      <3>1. sock'[p][m] # "queued" /\ sock'[m][p] = "queued" /\ sending'[m] = sending[m]
            /\ backlog'[p] = backlog[p]
        BY <1>2, <1>5, <1>7, <2>2
      <3>2. sock[p][m] # "queued" /\ sending[m] # p
        <4>1. sock[o][n] # "open"
          BY <1>1, <1>2 DEF FreeAddress
        <4> QED BY <1>2, <1>3, <2>2, <4>1
      <3> QED BY <2>0, <3>1, <3>2
    <2>3. CASE ~(m = n /\ p = o) /\ ~(m = o /\ p = n)
      <3>1. sock'[p][m] = sock[p][m] /\ sock'[m][p] = sock[m][p]
        <4>1. SameButBoth(sock', sock, n, o)
          BY <1>7
        <4> QED BY <2>3, <4>1 DEF SameButBoth
      <3>2. m \in From(backlog'[p]) <=> m \in From(backlog[p])
        BY <1>5, <2>3
      <3>3. sending'[m] = p <=> sending[m] = p
        <4>1. CASE m = n
          BY <1>3, <1>7, <2>3, <4>1
        <4>2. CASE m # n
          <5>1. sending'[m] = sending[m]
            BY <1>7, <4>2
          <5> QED BY <5>1
        <4> QED BY <4>1, <4>2
      <3> QED BY <2>0, <3>1, <3>2, <3>3
    <2> QED BY <2>1, <2>2, <2>3
  <1>9. InLine'
    <2> SUFFICES ASSUME NEW m \in Node, NEW c \in Client
                 PROVE  /\ c \in From(backlog'[m]) \/ imageClient'[m] = c =>
                              request[c].node = m /\ answer'[c] \in {"waiting", "left"}
                        /\ ~(c \in From(backlog'[m]) /\ imageClient'[m] = c)
                        /\ answer'[c] = "waiting" /\ request[c].node = m =>
                              c \in From(backlog'[m]) \/ imageClient'[m] = c
      BY DEF InLine, From
    <2>1. c # n
      OBVIOUS
    <2>2. c \in From(backlog'[m]) <=> c \in From(backlog[m])
      BY <1>5, <2>1
    <2>3. imageClient'[m] = imageClient[m] /\ answer'[c] = answer[c]
      BY <1>1
    <2> QED BY <2>2, <2>3 DEF QInv, InLine
  <1>10. SearchesWereAsked'
    <2>1. \A m \in Node : \A i \in DOMAIN backlog'[m] :
             \/ \E j \in DOMAIN backlog[m] : backlog'[m][i] = backlog[m][j]
             \/ backlog'[m][i].from \notin Node
             \/ Asked(m, backlog'[m][i].file)
      <3> SUFFICES ASSUME NEW m \in Node, NEW i \in DOMAIN backlog'[m]
                   PROVE  \/ \E j \in DOMAIN backlog[m] : backlog'[m][i] = backlog[m][j]
                          \/ Asked(m, backlog'[m][i].file)
        OBVIOUS
      <3>1. \/ \E j \in DOMAIN backlog[m] : backlog'[m][i] = backlog[m][j]
            \/ m = o /\ backlog'[m][i] = e
        <4>1. Gains(o, e)
          BY <1>5
        <4> QED BY <4>1 DEF Gains
      <3> QED BY <1>4, <3>1
    <2>2. \A c \in Client : answer[c] # "idle" => answer'[c] # "idle"
      BY <1>1
    <2> QED BY <2>1, <2>2, AskedStays DEF QInv, LinksAsked
  <1>11. TypeOK'
    BY <1>1, <1>5, <1>7 DEF QInv, TypeOK
  <1>12. EndedNodes'
    <2> SUFFICES ASSUME NEW m \in Node, status'[m] \in Ended
                 PROVE  imageClient'[m] = NoClient /\ backlog'[m] = <<>> /\ sending'[m] = NoNode
      BY DEF EndedNodes
    <2>1. status[m] \in Ended /\ m # o /\ m # n
      BY <1>1, <1>3
    <2> QED BY <1>1, <1>5, <1>7, <2>1 DEF QInv, EndedNodes
  <1> QED BY <1>5, <1>8, <1>9, <1>10, <1>11, <1>12 DEF QInv

\* The receiver has read the image, and n closes its end.
LEMMA TransferEndsKeeps ==
  ASSUME QInv, NEW n \in Node, TransferEnds(n)
  PROVE  QInv'
  <1> DEFINE p == sending[n]
  <1>1. /\ p # NoNode /\ sock[p][n] = "closed"
        /\ sock' = Closed(sock, n, p)
        /\ sending' = [sending EXCEPT ![n] = NoNode]
        /\ UNCHANGED <<status, imageClient, searchId, history, link, backlog, request, answer>>
    BY DEF TransferEnds
  <1>2. /\ sock \in [Node -> [Node -> End]] /\ sending \in [Node -> Node \cup {NoNode}]
        /\ \A m, o \in Node :
             /\ m \in From(backlog[o]) <=> sock[o][m] = "queued"
             /\ sock[o][m] = "queued" => sock[m][o] \in {"open", "closed"}
             /\ sock[m][o] = "open" <=> sending[m] = o
    BY DEF QInv, TypeOK, Connections
  <1>3. p \in Node /\ sock[n][p] = "open" /\ n # p
    BY <1>1, <1>2
  <1>4. /\ sock' \in [Node -> [Node -> End]]
        /\ sock'[n][p] \in {"closed", "none"}
        /\ \A a, b \in Node : ~(a = n /\ b = p) => sock'[a][b] = sock[a][b]
    <2>1. /\ Closed(sock, n, p) \in [Node -> [Node -> End]]
          /\ Closed(sock, n, p)[n][p] \in {"closed", "none"}
          /\ SameBut(Closed(sock, n, p), sock, n, p)
      BY <1>2, <1>3, ClosedAt
    <2> QED BY <1>1, <2>1 DEF SameBut
  <1>5. /\ sending' \in [Node -> Node \cup {NoNode}] /\ sending'[n] = NoNode
        /\ \A m \in Node : m # n => sending'[m] = sending[m]
    BY <1>1, <1>2
  <1>6. Connections'
    <2> SUFFICES ASSUME NEW m \in Node, NEW o \in Node
                 PROVE  /\ m \in From(backlog'[o]) <=> sock'[o][m] = "queued"
                        /\ sock'[o][m] = "queued" => sock'[m][o] \in {"open", "closed"}
                        /\ sock'[m][o] = "open" <=> sending'[m] = o
      BY DEF Connections, From
    <2>0. /\ m \in From(backlog'[o]) <=> sock[o][m] = "queued"
          /\ sock[o][m] = "queued" => sock[m][o] \in {"open", "closed"}
          /\ sock[m][o] = "open" <=> sending[m] = o
      BY <1>1, <1>2
    <2>1. CASE m = n /\ o = p
      <3>1. sock'[o][m] = "closed" /\ sock[o][m] = "closed"
        BY <1>1, <1>3, <1>4, <2>1
      <3>2. sock'[m][o] # "open" /\ sending'[m] # o
        BY <1>4, <1>5, <2>1
      <3> QED BY <2>0, <3>1, <3>2
    <2>2. CASE m = p /\ o = n
      <3>1. sock'[o][m] # "queued" /\ sock[o][m] = "open"
        BY <1>3, <1>4, <2>2
      <3>2. sock'[m][o] = sock[m][o] /\ sending'[m] = sending[m]
        BY <1>3, <1>4, <1>5, <2>2
      <3> QED BY <2>0, <3>1, <3>2
    <2>3. CASE ~(m = n /\ o = p) /\ ~(m = p /\ o = n)
      <3>1. sock'[o][m] = sock[o][m] /\ sock'[m][o] = sock[m][o]
        BY <1>4, <2>3
      <3>2. sending'[m] = o <=> sending[m] = o
        BY <1>5, <2>3
      <3> QED BY <2>0, <3>1, <3>2
    <2> QED BY <2>1, <2>2, <2>3
  <1>7. TypeOK'
    BY <1>1, <1>4, <1>5 DEF QInv, TypeOK
  <1>8. NoTwins' /\ OwnFile' /\ InLine'
    BY <1>1 DEF QInv, NoTwins, OwnFile, InLine, From
  <1>9. LinksAsked
    BY <1>1 DEF LinksAsked, Sent
  <1>10. SearchesWereAsked'
    BY <1>1, <1>9, AskedStays DEF QInv, LinksAsked
  <1>11. EndedNodes'
    BY <1>1, <1>5 DEF QInv, EndedNodes
  <1> QED BY <1>6, <1>7, <1>8, <1>10, <1>11 DEF QInv

-----------------------------------------------------------------------------
(* The clients.                                                            *)

LEMMA ClientAsksKeeps ==
  ASSUME QInv, NEW c \in Client, ClientAsks(c)
  PROVE  QInv'
  <1> DEFINE n == request[c].node
             e == [from |-> c, file |-> request[c].file]
  <1>1. /\ answer[c] = "idle" /\ status[n] \notin Ended
        /\ answer' = [answer EXCEPT ![c] = "waiting"]
        /\ backlog' = [backlog EXCEPT ![n] = Append(@, e)]
        /\ UNCHANGED <<status, imageClient, searchId, history, link, sending, sock, request>>
    BY DEF ClientAsks, Listening
  <1>2. /\ request \in [Client -> [node : Node, file : File]]
        /\ answer \in [Client -> Outcome \cup File]
        /\ imageClient \in [Node -> Client \cup {NoClient}]
    BY DEF QInv, TypeOK
  <1>3. n \in Node /\ e \in Incoming /\ e.from = c /\ e.file = request[c].file /\ c \notin Node
    BY <1>2 DEF Incoming
  <1>4. \A m \in Node, d \in Client :
          /\ d \in From(backlog[m]) \/ imageClient[m] = d =>
                request[d].node = m /\ answer[d] \in {"waiting", "left"}
          /\ ~(d \in From(backlog[m]) /\ imageClient[m] = d)
          /\ answer[d] = "waiting" /\ request[d].node = m =>
                d \in From(backlog[m]) \/ imageClient[m] = d
    BY DEF QInv, InLine
  <1>5. \A m \in Node : c \notin From(backlog[m]) /\ imageClient[m] # c
    BY <1>1, <1>4
  <1>6. /\ answer' \in [Client -> Outcome \cup File] /\ answer'[c] = "waiting"
        /\ \A d \in Client : d # c => answer'[d] = answer[d]
    BY <1>1, <1>2 DEF Outcome
  <1>0. request[c].node = n
    OBVIOUS
  <1> HIDE DEF e, n
  <1>7. /\ backlog' \in [Node -> Seq(Incoming)]
        /\ NoTwins' /\ OwnFile' /\ Gains(n, e)
        /\ From(backlog'[n]) = From(backlog[n]) \cup {c}
        /\ \A m \in Node : m # n => backlog'[m] = backlog[m]
    <2>1. /\ e \in Incoming /\ e.from \notin From(backlog[n])
          /\ e.from \in Client => e.file = request[e.from].file
          /\ backlog' = [backlog EXCEPT ![n] = Append(@, e)] /\ UNCHANGED request
          /\ n \in Node
      BY <1>1, <1>3, <1>5
    <2>2. /\ backlog' \in [Node -> Seq(Incoming)]
          /\ NoTwins' /\ OwnFile' /\ Gains(n, e)
          /\ From(backlog'[n]) = From(backlog[n]) \cup {e.from}
          /\ \A m \in Node : m # n => backlog'[m] = backlog[m]
      BY <2>1, ConnectKeeps
    <2> QED BY <1>3, <2>2
  <1>8. InLine'
    <2> SUFFICES ASSUME NEW m \in Node, NEW d \in Client
                 PROVE  /\ d \in From(backlog'[m]) \/ imageClient'[m] = d =>
                              request'[d].node = m /\ answer'[d] \in {"waiting", "left"}
                        /\ ~(d \in From(backlog'[m]) /\ imageClient'[m] = d)
                        /\ answer'[d] = "waiting" /\ request'[d].node = m =>
                              d \in From(backlog'[m]) \/ imageClient'[m] = d
      BY DEF InLine, From
    <2>1. imageClient'[m] = imageClient[m] /\ request'[d].node = request[d].node
      BY <1>1
    <2>2. CASE d = c
      <3>1. d \in From(backlog'[m]) <=> m = n
        BY <1>5, <1>7, <2>2
      <3> QED BY <1>0, <1>5, <1>6, <2>1, <2>2, <3>1
    <2>3. CASE d # c
      <3>1. d \in From(backlog'[m]) <=> d \in From(backlog[m])
        BY <1>7, <2>3
      <3>2. answer'[d] = answer[d]
        BY <1>6, <2>3
      <3> QED BY <1>4, <2>1, <3>1, <3>2
    <2> QED BY <2>2, <2>3
  <1>9. Connections'
    <2> SUFFICES ASSUME NEW m \in Node, NEW o \in Node
                 PROVE  /\ m \in From(backlog'[o]) <=> sock'[o][m] = "queued"
                        /\ sock'[o][m] = "queued" => sock'[m][o] \in {"open", "closed"}
                        /\ sock'[m][o] = "open" <=> sending'[m] = o
      BY DEF Connections, From
    <2>1. m \in From(backlog'[o]) <=> m \in From(backlog[o])
      <3>1. m # c
        BY <1>3
      <3> QED BY <1>7, <3>1
    <2>2. sock' = sock /\ sending' = sending
      BY <1>1
    <2> QED BY <2>1, <2>2 DEF QInv, Connections
  <1>10. TypeOK'
    BY <1>1, <1>6, <1>7 DEF QInv, TypeOK
  <1>11. LinksAsked
    BY <1>1 DEF LinksAsked, Sent
  <1>12. SearchesWereAsked'
    <2>1. \A m \in Node : \A i \in DOMAIN backlog'[m] :
             \/ \E j \in DOMAIN backlog[m] : backlog'[m][i] = backlog[m][j]
             \/ backlog'[m][i].from \notin Node
             \/ Asked(m, backlog'[m][i].file)
      <3> SUFFICES ASSUME NEW m \in Node, NEW i \in DOMAIN backlog'[m]
                   PROVE  \/ \E j \in DOMAIN backlog[m] : backlog'[m][i] = backlog[m][j]
                          \/ backlog'[m][i].from \notin Node
        OBVIOUS
      <3>1. \/ \E j \in DOMAIN backlog[m] : backlog'[m][i] = backlog[m][j]
            \/ m = n /\ backlog'[m][i] = e
        <4>1. Gains(n, e)
          BY <1>7
        <4> QED BY <4>1 DEF Gains
      <3> QED BY <1>3, <3>1
    <2>2. \A d \in Client : answer[d] # "idle" => answer'[d] # "idle"
      BY <1>6
    <2>3. UNCHANGED request
      BY <1>1
    <2> QED BY <1>11, <2>1, <2>2, <2>3, AskedStays DEF QInv, LinksAsked
  <1>13. EndedNodes'
    <2> SUFFICES ASSUME NEW m \in Node, status'[m] \in Ended
                 PROVE  imageClient'[m] = NoClient /\ backlog'[m] = <<>> /\ sending'[m] = NoNode
      BY DEF EndedNodes
    <2>1. m # n /\ status[m] \in Ended
      BY <1>1
    <2> QED BY <1>1, <1>7, <2>1 DEF QInv, EndedNodes
  <1> QED BY <1>7, <1>8, <1>9, <1>10, <1>12, <1>13 DEF QInv

LEMMA ClientLeavesKeeps ==
  ASSUME QInv, NEW c \in Client, ClientLeaves(c)
  PROVE  QInv'
  <1>1. /\ answer[c] = "waiting" /\ answer' = [answer EXCEPT ![c] = "left"]
        /\ UNCHANGED <<status, imageClient, searchId, history, link, backlog, sending, sock,
                       request>>
    BY DEF ClientLeaves
  <1>2. answer \in [Client -> Outcome \cup File]
    BY DEF QInv, TypeOK
  <1>3. /\ answer' \in [Client -> Outcome \cup File] /\ answer'[c] = "left"
        /\ \A d \in Client : d # c => answer'[d] = answer[d]
    BY <1>1, <1>2 DEF Outcome
  <1>4. InLine'
    <2> SUFFICES ASSUME NEW m \in Node, NEW d \in Client
                 PROVE  /\ d \in From(backlog[m]) \/ imageClient[m] = d =>
                              request[d].node = m /\ answer'[d] \in {"waiting", "left"}
                        /\ ~(d \in From(backlog[m]) /\ imageClient[m] = d)
                        /\ answer'[d] = "waiting" /\ request[d].node = m =>
                              d \in From(backlog[m]) \/ imageClient[m] = d
      BY <1>1 DEF InLine, From
    <2>1. /\ d \in From(backlog[m]) \/ imageClient[m] = d =>
                 request[d].node = m /\ answer[d] \in {"waiting", "left"}
          /\ ~(d \in From(backlog[m]) /\ imageClient[m] = d)
          /\ answer[d] = "waiting" /\ request[d].node = m =>
                d \in From(backlog[m]) \/ imageClient[m] = d
      BY DEF QInv, InLine
    <2>2. CASE d = c
      BY <1>3, <2>1, <2>2
    <2>3. CASE d # c
      BY <1>3, <2>1, <2>3
    <2> QED BY <2>2, <2>3
  <1>5. TypeOK'
    BY <1>1, <1>3 DEF QInv, TypeOK
  <1>6. NoTwins' /\ OwnFile' /\ Connections' /\ EndedNodes'
    BY <1>1 DEF QInv, NoTwins, OwnFile, Connections, EndedNodes, From
  <1>7. LinksAsked
    BY <1>1 DEF LinksAsked, Sent
  <1>8. SearchesWereAsked'
    <2>1. \A d \in Client : answer[d] # "idle" => answer'[d] # "idle"
      BY <1>3
    <2> QED BY <1>1, <1>7, <2>1, AskedStays DEF QInv, LinksAsked
  <1> QED BY <1>4, <1>5, <1>6, <1>8 DEF QInv

-----------------------------------------------------------------------------
(* What a node can do, one case each.                                      *)

Ends(n) ==
  \E how \in Ended, s \in [Node -> [Node -> End]] :
     /\ status[n] \notin Ended
     /\ ProcessEnds(n, how, s) /\ UNCHANGED request /\ SearchTypes' /\ LinksAsked
     /\ \A m, p \in Node : p # n => s[p][m] = sock[p][m]
     /\ \A m \in Node : sock[m][n] = "queued" => s[n][m] = "closed"

Accepts(n) ==
  /\ AtSelect(n) /\ backlog[n] # <<>>
  /\ \/ /\ Head(backlog[n]).from \in Client
        /\ \/ RejectImageQuery(n, Head(backlog[n]).from)
           \/ FindLocally(n, Head(backlog[n]).from, Head(backlog[n]).file)
           \/ SearchNetwork(n, Head(backlog[n]).from, Head(backlog[n]).file)
     \/ /\ Head(backlog[n]).from \in Node
        /\ ReceiveTransfer(n, Head(backlog[n]).from, Head(backlog[n]).file)
  /\ backlog' = [backlog EXCEPT ![n] = Tail(@)] /\ UNCHANGED request

\* n reads the first search from m, and passes it on or drops it.
PassesOn(n, m) ==
  /\ link[m][n] # <<>>
  /\ QueryNetworkForImage(n, Head(link[m][n]), m, [link EXCEPT ![m][n] = Tail(@)])
  /\ UNCHANGED <<status, imageClient, searchId, backlog, sending, sock, answer, request>>

\* n reads the first search from m, and has the image.
Sends(n, m) ==
  /\ AtSelect(n) /\ link[m][n] # <<>>
  /\ Transfer(n, Head(link[m][n]).orig, Head(link[m][n]).file)
  /\ link' = [link EXCEPT ![m][n] = Tail(@)]
  /\ UNCHANGED <<searchId, history, request>>

Hangs(n) ==
  /\ AtSelect(n) /\ status' = [status EXCEPT ![n] = "spinning"]
  /\ UNCHANGED <<imageClient, searchId, history, link, backlog, sending, sock, answer,
                 request>>

\* A process that is at select() ends, having closed nothing.
LEMMA EndsAtSelect ==
  ASSUME QInv, NEW n \in Node, AtSelect(n), NEW how \in Ended,
         ProcessEnds(n, how, sock), UNCHANGED request, SearchTypes', LinksAsked
  PROVE  Ends(n)
  <1>1. /\ sock \in [Node -> [Node -> End]] /\ status[n] \notin Ended /\ sending[n] = NoNode
        /\ \A m \in Node : /\ sock[m][n] = "queued" => sock[n][m] \in {"open", "closed"}
                           /\ sock[n][m] = "open" <=> sending[n] = m
    BY DEF QInv, TypeOK, AtSelect, Ended, Connections
  <1>2. \A m \in Node : sock[m][n] = "queued" => sock[n][m] = "closed"
    BY <1>1
  <1>3. \A m, p \in Node : p # n => sock[p][m] = sock[p][m]
    OBVIOUS
  <1> QED BY <1>1, <1>2, <1>3 DEF Ends

\* The image has come, and its client has gone.
LEMMA EndsAfterReading ==
  ASSUME QInv, NEW n \in Node, AtSelect(n), NEW p \in Node, p \in From(backlog[n]),
         NEW how \in Ended, ProcessEnds(n, how, Closed(sock, n, p)),
         UNCHANGED request, SearchTypes', LinksAsked
  PROVE  Ends(n)
  <1> DEFINE s == Closed(sock, n, p)
  <1>1. /\ sock \in [Node -> [Node -> End]] /\ status[n] \notin Ended /\ sending[n] = NoNode
        /\ \A m, o \in Node :
              /\ m \in From(backlog[o]) <=> sock[o][m] = "queued"
              /\ sock[o][m] = "queued" => sock[m][o] \in {"open", "closed"}
              /\ sock[m][o] = "open" <=> sending[m] = o
    BY DEF QInv, TypeOK, AtSelect, Ended, Connections
  <1>2. s \in [Node -> [Node -> End]] /\ SameBut(s, sock, n, p)
    BY <1>1, ClosedAt
  <1>3. ProcessEnds(n, how, s)
    OBVIOUS
  <1> HIDE DEF s
  <1>4. \A m, o \in Node : o # n => s[o][m] = sock[o][m]
    BY <1>2 DEF SameBut
  <1>5. \A m \in Node : sock[m][n] = "queued" => s[n][m] = "closed"
    <2> SUFFICES ASSUME NEW m \in Node, sock[m][n] = "queued" PROVE s[n][m] = "closed"
      OBVIOUS
    <2>1. sock[n][m] = "closed"
      BY <1>1
    <2>2. m # p
      BY <1>1, <2>1
    <2> QED BY <1>2, <2>1, <2>2 DEF SameBut
  <1> QED BY <1>1, <1>2, <1>3, <1>4, <1>5 DEF Ends

\* No search is read or sent.
LEMMA NoSearches ==
  ASSUME QInv, UNCHANGED <<searchId, history, link>>
  PROVE  SearchTypes' /\ LinksAsked
  BY DEF QInv, TypeOK, SearchTypes, Histories, LinksAsked, Sent

LEMMA ImageTrafficCases ==
  ASSUME QInv, NEW n \in Node, HandleImageTraffic(n)
  PROVE  Accepts(n) \/ Ends(n)
  <1> DEFINE e == Head(backlog[n])
  <1>1. AtSelect(n) /\ backlog[n] # <<>> /\ UNCHANGED request
    BY DEF HandleImageTraffic
  <1>2. e \in Incoming /\ e.from \in From(backlog[n])
    <2>1. /\ backlog[n] \in Seq(Incoming)
          /\ \A i, j \in DOMAIN backlog[n] : backlog[n][i].from = backlog[n][j].from => i = j
      BY DEF QInv, TypeOK, NoTwins
    <2>2. e \in Incoming
      BY <1>1, <2>1, TailEntries
    <2>3. e.from \in From(backlog[n])
      BY <1>1, <2>1, TailFrom
    <2> QED BY <2>2, <2>3
  <1>3. \/ /\ \/ /\ e.from \in Client
                 /\ \/ RejectImageQuery(n, e.from)
                    \/ FindLocally(n, e.from, e.file)
                    \/ SearchNetwork(n, e.from, e.file)
              \/ e.from \in Node /\ ReceiveTransfer(n, e.from, e.file)
           /\ backlog' = [backlog EXCEPT ![n] = Tail(@)]
        \/ /\ \/ ClientGone(n, e.from, sock)
              \/ PeerGone(n, Original(n, e.file), NoNode)
              \/ e.from \in Node /\ ClientGone(n, imageClient[n], Closed(sock, n, e.from))
           /\ UNCHANGED <<searchId, history, link>>
    BY DEF HandleImageTraffic
  <1>4. CASE /\ \/ /\ e.from \in Client
                   /\ \/ RejectImageQuery(n, e.from)
                      \/ FindLocally(n, e.from, e.file)
                      \/ SearchNetwork(n, e.from, e.file)
                \/ e.from \in Node /\ ReceiveTransfer(n, e.from, e.file)
             /\ backlog' = [backlog EXCEPT ![n] = Tail(@)]
    BY <1>1, <1>4 DEF Accepts
  <1>5. CASE /\ ClientGone(n, e.from, sock) \/ PeerGone(n, Original(n, e.file), NoNode)
             /\ UNCHANGED <<searchId, history, link>>
    <2>1. ProcessEnds(n, "killed", sock)
      BY <1>5 DEF ClientGone, PeerGone
    <2>2. UNCHANGED request /\ SearchTypes' /\ LinksAsked /\ "killed" \in Ended
      BY <1>1, <1>5, NoSearches DEF Ended
    <2> QED BY <1>1, <2>1, <2>2, EndsAtSelect
  <1>6. CASE /\ e.from \in Node /\ ClientGone(n, imageClient[n], Closed(sock, n, e.from))
             /\ UNCHANGED <<searchId, history, link>>
    <2>1. ProcessEnds(n, "killed", Closed(sock, n, e.from))
      BY <1>6 DEF ClientGone
    <2>2. UNCHANGED request /\ SearchTypes' /\ LinksAsked /\ "killed" \in Ended
      BY <1>1, <1>6, NoSearches DEF Ended
    <2> QED BY <1>1, <1>2, <1>6, <2>1, <2>2, EndsAfterReading
  <1> QED BY <1>3, <1>4, <1>5, <1>6

LEMMA P2pTrafficCases ==
  ASSUME QInv, NEW n \in Node, NEW m \in Node, HandleP2pTraffic(n, m)
  PROVE  PassesOn(n, m) \/ Sends(n, m) \/ Ends(n)
  <1> DEFINE q == Head(link[m][n])
             rest == [link EXCEPT ![m][n] = Tail(@)]
  <1>1. /\ AtSelect(n) /\ link[m][n] # <<>> /\ UNCHANGED <<searchId, request>>
        /\ ProcessImageQuery(n, m) \/ TwoQueriesInOneRead(n, m)
    BY DEF HandleP2pTraffic
  <1>2. \/ /\ Transfer(n, q.orig, q.file) /\ link' = rest /\ UNCHANGED history
        \/ /\ QueryNetworkForImage(n, q, m, rest)
           /\ UNCHANGED <<status, imageClient, backlog, sending, sock, answer>>
        \/ /\ TransferFails(n, q.orig) /\ link' = rest /\ UNCHANGED history
        \/ PeerGone(n, q, m) /\ UNCHANGED <<history, link>>
        \/ TwoQueriesInOneRead(n, m)
    BY <1>1 DEF ProcessImageQuery, ReturnImageToOriginatingPeer
  <1>3. CASE Transfer(n, q.orig, q.file) /\ link' = rest /\ UNCHANGED history
    BY <1>1, <1>3 DEF Sends
  <1>4. CASE /\ QueryNetworkForImage(n, q, m, rest)
             /\ UNCHANGED <<status, imageClient, backlog, sending, sock, answer>>
    BY <1>1, <1>4 DEF PassesOn
  <1>5. CASE TransferFails(n, q.orig) /\ link' = rest /\ UNCHANGED history
    <2>1. ProcessEnds(n, "threw", sock) /\ "threw" \in Ended
      BY <1>5 DEF TransferFails, Ended
    <2>2. /\ rest \in [Node -> [Node -> Seq(Query)]]
          /\ \A p, r \in Node : \A i \in DOMAIN rest[p][r] : rest[p][r][i] \in Sent(p, r)
      BY <1>1, ReadAsked
    <2>3. SearchTypes' /\ LinksAsked
      <3>1. LinksAsked
        BY <1>5, <2>2 DEF LinksAsked
      <3> QED BY <1>1, <1>5, <2>2, <3>1 DEF QInv, TypeOK, SearchTypes, Histories
    <2>4. UNCHANGED request
      BY <1>1
    <2> QED BY <1>1, <2>1, <2>3, <2>4, EndsAtSelect
  <1>6. CASE /\ PeerGone(n, q, m) \/ TwoQueriesInOneRead(n, m)
             /\ UNCHANGED <<history, link>>
    <2>1. \E how \in Ended : ProcessEnds(n, how, sock)
      BY <1>6 DEF PeerGone, TwoQueriesInOneRead, Ended
    <2>2. UNCHANGED request /\ SearchTypes' /\ LinksAsked
      BY <1>1, <1>6, NoSearches
    <2> QED BY <1>1, <2>1, <2>2, EndsAtSelect
  <1>7. TwoQueriesInOneRead(n, m) => UNCHANGED <<history, link>>
    BY DEF TwoQueriesInOneRead
  <1> QED BY <1>2, <1>3, <1>4, <1>5, <1>6, <1>7

LEMMA EndOfStreamCases ==
  ASSUME QInv, NEW n \in Node, NEW m \in Node, HandleEndOfStream(n, m)
  PROVE  Hangs(n) \/ Ends(n)
  <1>1. /\ AtSelect(n) /\ UNCHANGED <<searchId, history, link, request>>
        /\ \/ /\ status' = [status EXCEPT ![n] = "spinning"]
              /\ UNCHANGED <<imageClient, backlog, sending, sock, answer>>
           \/ ProcessEnds(n, "threw", sock)
    BY DEF HandleEndOfStream
  <1>2. CASE ProcessEnds(n, "threw", sock)
    <2>1. SearchTypes' /\ LinksAsked
      BY <1>1, NoSearches
    <2>2. "threw" \in Ended /\ UNCHANGED request
      BY <1>1 DEF Ended
    <2> QED BY <1>1, <1>2, <2>1, <2>2, EndsAtSelect
  <1> QED BY <1>1, <1>2 DEF Hangs

LEMMA TransferBreaksCases ==
  ASSUME QInv, NEW n \in Node, TransferBreaks(n)
  PROVE  Ends(n)
  <1>1. /\ sending[n] # NoNode /\ sock[sending[n]][n] = "none"
        /\ ProcessEnds(n, "threw", sock) /\ UNCHANGED <<searchId, history, link, request>>
    BY DEF TransferBreaks
  <1>2. /\ sock \in [Node -> [Node -> End]] /\ status[n] \notin Ended
        /\ \A m \in Node : /\ sock[m][n] = "queued" => sock[n][m] \in {"open", "closed"}
                           /\ sock[n][m] = "open" <=> sending[n] = m
    BY <1>1 DEF QInv, TypeOK, EndedNodes, Connections
  <1>3. \A m \in Node : sock[m][n] = "queued" => sock[n][m] = "closed"
    BY <1>1, <1>2
  <1>4. SearchTypes' /\ LinksAsked
    BY <1>1, NoSearches
  <1>5. "threw" \in Ended /\ \A m, p \in Node : p # n => sock[p][m] = sock[p][m]
    BY DEF Ended
  <1> QED BY <1>1, <1>2, <1>3, <1>4, <1>5 DEF Ends

LEMMA NodeStepCases ==
  ASSUME QInv, NEW n \in Node, NodeStep(n)
  PROVE  \/ Accepts(n) \/ Ends(n) \/ TimeoutImageQuery(n) \/ TransferEnds(n) \/ Hangs(n)
         \/ \E m \in Node : PassesOn(n, m) \/ Sends(n, m)
  <1>1. CASE HandleImageTraffic(n)
    BY <1>1, ImageTrafficCases
  <1>2. CASE TransferBreaks(n)
    BY <1>2, TransferBreaksCases
  <1>3. ASSUME NEW m \in Node, HandleP2pTraffic(n, m)
        PROVE  PassesOn(n, m) \/ Sends(n, m) \/ Ends(n)
    BY <1>3, P2pTrafficCases
  <1>4. ASSUME NEW m \in Node, HandleEndOfStream(n, m)
        PROVE  Hangs(n) \/ Ends(n)
    BY <1>4, EndOfStreamCases
  <1> QED BY <1>1, <1>2, <1>3, <1>4 DEF NodeStep

-----------------------------------------------------------------------------
(* The inductive invariant.                                                *)

LEMMA QInvInit == Init => QInv
  <1> SUFFICES ASSUME Init PROVE QInv
    OBVIOUS
  <1>1. /\ status = [n \in Node |-> "up"] /\ imageClient = [n \in Node |-> NoClient]
        /\ searchId \in [Node -> 0 .. SearchIds - 1]
        /\ history = [n \in Node |-> <<>>] /\ link = [m \in Node |-> [n \in Node |-> <<>>]]
        /\ backlog = [n \in Node |-> <<>>] /\ sending = [n \in Node |-> NoNode]
        /\ sock = NoSockets /\ request \in Requests /\ answer = [c \in Client |-> "idle"]
    BY DEF Init
  <1>2. /\ \A n \in Node : DOMAIN backlog[n] = {} /\ From(backlog[n]) = {}
        /\ \A m, n \in Node : DOMAIN link[m][n] = {} /\ Sent(m, n) = {}
    BY <1>1 DEF From, Sent
  <1>3. TypeOK
    <2>1. /\ <<>> \in Seq(Search) /\ Len(<<>>) <= PR_MAXPEERS
          /\ <<>> \in Seq(Query) /\ <<>> \in Seq(Incoming)
      OBVIOUS
    <2>2. history \in [Node -> {h \in Seq(Search) : Len(h) <= PR_MAXPEERS}]
      BY <1>1, <2>1
    <2>3. link \in [Node -> [Node -> Seq(Query)]] /\ backlog \in [Node -> Seq(Incoming)]
      BY <1>1, <2>1
    <2>4. sock \in [Node -> [Node -> End]]
      BY <1>1 DEF NoSockets, End
    <2>5. /\ status \in [Node -> {"up", "spinning"} \cup Ended]
          /\ imageClient \in [Node -> Client \cup {NoClient}]
          /\ sending \in [Node -> Node \cup {NoNode}]
          /\ answer \in [Client -> Outcome \cup File]
      BY <1>1 DEF Outcome
    <2> QED BY <1>1, <2>2, <2>3, <2>4, <2>5 DEF TypeOK
  <1>4. NoTwins /\ OwnFile
    BY <1>2 DEF NoTwins, OwnFile
  <1>5. InLine
    BY <1>1, <1>2 DEF InLine
  <1>6. Connections
    BY <1>1, <1>2 DEF Connections, NoSockets
  <1>7. SearchesWereAsked
    BY <1>2 DEF SearchesWereAsked
  <1>8. EndedNodes
    BY <1>1 DEF EndedNodes, Ended
  <1> QED BY <1>3, <1>4, <1>5, <1>6, <1>7, <1>8 DEF QInv

LEMMA AcceptsKeeps ==
  ASSUME QInv, NEW n \in Node, Accepts(n)
  PROVE  QInv'
  <1> DEFINE e == Head(backlog[n])
  <1>1. /\ AtSelect(n) /\ backlog[n] # <<>>
        /\ backlog' = [backlog EXCEPT ![n] = Tail(@)] /\ UNCHANGED request
        /\ \/ /\ e.from \in Client
              /\ \/ RejectImageQuery(n, e.from)
                 \/ FindLocally(n, e.from, e.file)
                 \/ SearchNetwork(n, e.from, e.file)
           \/ e.from \in Node /\ ReceiveTransfer(n, e.from, e.file)
    BY DEF Accepts
  <1>2. e.file \in File
    BY <1>1, AcceptKeeps DEF Incoming
  <1>3. CASE e.from \in Client /\ RejectImageQuery(n, e.from)
    BY <1>1, <1>3, RejectKeeps
  <1>4. CASE e.from \in Client /\ FindLocally(n, e.from, e.file)
    BY <1>1, <1>2, <1>4, FindLocallyKeeps
  <1>5. CASE e.from \in Client /\ SearchNetwork(n, e.from, e.file)
    BY <1>1, <1>5, SearchNetworkKeeps
  <1>6. CASE e.from \in Node /\ ReceiveTransfer(n, e.from, e.file)
    BY <1>1, <1>6, ReceiveTransferKeeps
  <1> QED BY <1>1, <1>3, <1>4, <1>5, <1>6

LEMMA SendsKeeps ==
  ASSUME QInv, NEW n \in Node, NEW m \in Node, Sends(n, m)
  PROVE  QInv'
  <1> DEFINE q == Head(link[m][n])
  <1>1. /\ AtSelect(n) /\ link[m][n] # <<>> /\ Transfer(n, q.orig, q.file)
        /\ link' = [link EXCEPT ![m][n] = Tail(@)]
        /\ UNCHANGED <<searchId, history, request>>
    BY DEF Sends
  <1>2. /\ link' \in [Node -> [Node -> Seq(Query)]] /\ q \in Query /\ Asked(q.orig, q.file)
        /\ \A p, r \in Node : \A i \in DOMAIN link'[p][r] : link'[p][r][i] \in Sent(p, r)
    BY <1>1, ReadAsked
  <1>3. LinksAsked
    BY <1>2 DEF LinksAsked
  <1>4. q.orig \in Node /\ q.file \in File
    BY <1>2 DEF Query
  <1> QED BY <1>1, <1>2, <1>3, <1>4, TransferKeeps

LEMMA EndsStepKeeps ==
  ASSUME QInv, NEW n \in Node, Ends(n)
  PROVE  QInv'
  <1>1. PICK how \in Ended, s \in [Node -> [Node -> End]] :
           /\ ProcessEnds(n, how, s) /\ UNCHANGED request /\ SearchTypes' /\ LinksAsked
           /\ \A m, p \in Node : p # n => s[p][m] = sock[p][m]
           /\ \A m \in Node : sock[m][n] = "queued" => s[n][m] = "closed"
    BY DEF Ends
  <1> QED BY <1>1, EndsKeeps

LEMMA QInvNext == QInv /\ [Next]_vars => QInv'
  <1> SUFFICES ASSUME QInv, [Next]_vars PROVE QInv'
    OBVIOUS
  <1>1. ASSUME NEW c \in Client, ClientAsks(c) \/ ClientLeaves(c) PROVE QInv'
    BY <1>1, ClientAsksKeeps, ClientLeavesKeeps
  <1>2. ASSUME NEW n \in Node, NodeStep(n) PROVE QInv'
    <2>1. \/ Accepts(n) \/ Ends(n) \/ TimeoutImageQuery(n) \/ TransferEnds(n) \/ Hangs(n)
          \/ \E m \in Node : PassesOn(n, m) \/ Sends(n, m)
      BY <1>2, NodeStepCases
    <2>2. CASE Accepts(n)
      BY <2>2, AcceptsKeeps
    <2>3. CASE Ends(n)
      BY <2>3, EndsStepKeeps
    <2>4. CASE TimeoutImageQuery(n)
      BY <2>4, TimeoutKeeps
    <2>5. CASE TransferEnds(n)
      BY <2>5, TransferEndsKeeps
    <2>6. CASE Hangs(n)
      BY <2>6, SpinningKeeps DEF Hangs
    <2>7. ASSUME NEW m \in Node, PassesOn(n, m) PROVE QInv'
      BY <2>7, FloodKeeps DEF PassesOn
    <2>8. ASSUME NEW m \in Node, Sends(n, m) PROVE QInv'
      BY <2>8, SendsKeeps
    <2> QED BY <2>1, <2>2, <2>3, <2>4, <2>5, <2>6, <2>7, <2>8
  <1>3. CASE UNCHANGED vars
    <2>1. /\ UNCHANGED <<status, imageClient, searchId, history, link>>
          /\ UNCHANGED <<backlog, sending, sock, request, answer>>
      BY <1>3 DEF vars
    <2>2. SearchTypes' /\ LinksAsked
      BY <2>1, NoSearches
    <2>3. /\ status' \in [Node -> {"up", "spinning"} \cup Ended]
          /\ \A m \in Node : status'[m] \in Ended => status[m] \in Ended
      BY <2>1 DEF QInv, TypeOK
    <2> QED BY <2>1, <2>2, <2>3, QuietKeeps
  <1> QED BY <1>1, <1>2, <1>3 DEF Next

\* What the properties rest on holds in every reachable state.
THEOREM SearchInvariant == Spec => []QInv
  BY QInvInit, QInvNext, PTL DEF Spec

\* The variables of the search have their types: the history never outgrows
\* PR_MAXPEERS, search ids stay below SearchIds.
THEOREM SearchTypeCorrect == Spec => []TypeOK
  <1>1. QInv => TypeOK
    BY DEF QInv
  <1> QED BY <1>1, SearchInvariant, PTL

\* Every search on a link and every image in a backlog goes back to a node whose
\* client asked for that file, and which does not have it: the assertion of
\* returnImageToOriginatingPeer() holds, whatever the overlay.
THEOREM SearchesHaveClients == Spec => []SearchesWereAsked
  <1>1. QInv => SearchesWereAsked
    BY DEF QInv
  <1> QED BY <1>1, SearchInvariant, PTL

\* How often somebody is in a backlog without twins.
LEMMA CountFrom ==
  ASSUME NEW b \in Seq(Incoming), NEW x,
         \A i, j \in DOMAIN b : b[i].from = b[j].from => i = j
  PROVE  /\ x \in From(b) => Cardinality({i \in DOMAIN b : b[i].from = x}) = 1
         /\ x \notin From(b) => Cardinality({i \in DOMAIN b : b[i].from = x}) = 0
  <1> DEFINE I == {i \in DOMAIN b : b[i].from = x}
  <1>1. ASSUME x \in From(b) PROVE Cardinality(I) = 1
    <2>1. PICK i \in DOMAIN b : b[i].from = x
      BY <1>1 DEF From
    <2>2. I = {i}
      BY <2>1
    <2> QED BY <2>2, FS_Singleton
  <1>2. ASSUME x \notin From(b) PROVE Cardinality(I) = 0
    <2>1. I = {}
      BY <1>2 DEF From
    <2> QED BY <2>1, FS_EmptySet
  <1> QED BY <1>1, <1>2

\* No client is lost between connect() and its answer: it waits in the backlog of
\* its node exactly once or is the one client being serviced.
THEOREM ClientsNeverLost == Spec => []ClientsAccountedFor
  <1>1. QInv => ClientsAccountedFor
    <2> SUFFICES ASSUME QInv, NEW n \in Node
                 PROVE  /\ \A c \in Waiting(n) :
                             Cardinality({i \in DOMAIN backlog[n] : backlog[n][i].from = c})
                                = IF imageClient[n] = c THEN 0 ELSE 1
                        /\ imageClient[n] # NoClient =>
                             /\ request[imageClient[n]].node = n
                             /\ answer[imageClient[n]] \in {"waiting", "left"}
      BY DEF ClientsAccountedFor
    <2>1. /\ backlog[n] \in Seq(Incoming) /\ imageClient[n] \in Client \cup {NoClient}
          /\ \A i, j \in DOMAIN backlog[n] : backlog[n][i].from = backlog[n][j].from => i = j
      BY DEF QInv, TypeOK, NoTwins
    <2>2. ASSUME NEW c \in Waiting(n)
          PROVE  Cardinality({i \in DOMAIN backlog[n] : backlog[n][i].from = c})
                    = IF imageClient[n] = c THEN 0 ELSE 1
      <3>1. c \in Client /\ (c \in From(backlog[n]) <=> imageClient[n] # c)
        BY DEF QInv, InLine, Waiting
      <3> QED BY <2>1, <3>1, CountFrom
    <2>3. imageClient[n] # NoClient => /\ request[imageClient[n]].node = n
                                       /\ answer[imageClient[n]] \in {"waiting", "left"}
      BY <2>1 DEF QInv, InLine
    <2> QED BY <2>2, <2>3
  <1> QED BY <1>1, SearchInvariant, PTL

-----------------------------------------------------------------------------
(* Transfers under way.                                                    *)

\* What is known of processes, transfers and their connections.
Transfers ==
  /\ sock \in [Node -> [Node -> End]] /\ sending \in [Node -> Node \cup {NoNode}]
  /\ status \in [Node -> {"up", "spinning"} \cup Ended]
  /\ \A m, o \in Node : /\ m \in From(backlog[o]) <=> sock[o][m] = "queued"
                        /\ sock[m][o] = "open" <=> sending[m] = o
                        /\ sending[m] = o => \/ sock[o][m] \in {"queued", "closed"}
                                             \/ sock[o][m] = "none" /\ status[o] \in Ended

LEMMA TransfersKnown ==
  ASSUME QInv, InTransfer
  PROVE  Transfers
  BY DEF QInv, TypeOK, Connections, InTransfer, Transfers

\* n has read the image of p, which may still be in send().
LEMMA ReadLeavesTransfers ==
  ASSUME Transfers, NEW n \in Node, NEW p \in Node, p \in From(backlog[n]),
         sock' = Closed(sock, n, p), UNCHANGED <<status, sending>>
  PROVE  InTransfer'
  <1>1. /\ \A a, b \in Node : ~(a = n /\ b = p) => sock'[a][b] = sock[a][b]
        /\ sock[p][n] = "open" => sock'[n][p] = "closed"
    <2>1. sock \in [Node -> [Node -> End]]
      BY DEF Transfers
    <2>2. /\ SameBut(Closed(sock, n, p), sock, n, p)
          /\ sock[p][n] \in {"queued", "open"} => Closed(sock, n, p)[n][p] = "closed"
      BY <2>1, ClosedAt
    <2> QED BY <2>2 DEF SameBut
  <1> SUFFICES ASSUME NEW m \in Node, NEW o \in Node, sending[m] = o
               PROVE  \/ sock'[o][m] \in {"queued", "closed"}
                      \/ sock'[o][m] = "none" /\ status[o] \in Ended
    BY DEF InTransfer
  <1>2. CASE o = n /\ m = p
    BY <1>1, <1>2 DEF Transfers
  <1>3. CASE ~(o = n /\ m = p)
    <2>1. sock'[o][m] = sock[o][m]
      BY <1>1, <1>3
    <2> QED BY <2>1 DEF Transfers
  <1> QED BY <1>2, <1>3

\* n ends: whoever is sending to it is not served any more.
LEMMA EndLeavesTransfers ==
  ASSUME Transfers, NEW n \in Node, Ends(n)
  PROVE  InTransfer'
  <1>1. PICK how \in Ended, s \in [Node -> [Node -> End]] :
           ProcessEnds(n, how, s) /\ \A m, p \in Node : p # n => s[p][m] = sock[p][m]
    BY DEF Ends
  <1>2. /\ status' = [status EXCEPT ![n] = how] /\ sending' = [sending EXCEPT ![n] = NoNode]
        /\ sock' = [s EXCEPT ![n] =
                       [m \in Node |-> IF @[m] = "closed" THEN "closed" ELSE "none"]]
    BY <1>1 DEF ProcessEnds
  <1>3. /\ status'[n] \in Ended /\ sending'[n] = NoNode
        /\ \A m \in Node : m # n => status'[m] = status[m] /\ sending'[m] = sending[m]
    BY <1>2 DEF Transfers
  <1>4. /\ \A m \in Node : sock'[n][m] \in {"closed", "none"}
        /\ \A m, p \in Node : p # n => sock'[p][m] = sock[p][m]
    BY <1>1, <1>2
  <1> SUFFICES ASSUME NEW m \in Node, NEW o \in Node, sending'[m] = o
               PROVE  \/ sock'[o][m] \in {"queued", "closed"}
                      \/ sock'[o][m] = "none" /\ status'[o] \in Ended
    BY DEF InTransfer
  <1>5. sending[m] = o
    BY <1>3
  <1>6. CASE o = n
    BY <1>3, <1>4, <1>6
  <1>7. CASE o # n
    BY <1>3, <1>4, <1>5, <1>7 DEF Transfers
  <1> QED BY <1>6, <1>7

\* n has sent all of its image.
LEMMA SentLeavesTransfers ==
  ASSUME Transfers, NEW n \in Node, TransferEnds(n)
  PROVE  InTransfer'
  <1> DEFINE p == sending[n]
  <1>1. /\ p # NoNode /\ sock[p][n] = "closed" /\ sock' = Closed(sock, n, p)
        /\ sending' = [sending EXCEPT ![n] = NoNode] /\ UNCHANGED status
    BY DEF TransferEnds
  <1>2. p \in Node
    BY <1>1 DEF Transfers
  <1>3. \A a, b \in Node : ~(a = n /\ b = p) => sock'[a][b] = sock[a][b]
    <2>1. SameBut(Closed(sock, n, p), sock, n, p)
      BY <1>2, ClosedAt DEF Transfers
    <2> QED BY <1>1, <2>1 DEF SameBut
  <1>4. sending'[n] = NoNode /\ \A m \in Node : m # n => sending'[m] = sending[m]
    BY <1>1 DEF Transfers
  <1> SUFFICES ASSUME NEW m \in Node, NEW o \in Node, sending'[m] = o
               PROVE  \/ sock'[o][m] \in {"queued", "closed"}
                      \/ sock'[o][m] = "none" /\ status'[o] \in Ended
    BY DEF InTransfer
  <1>5. sending[m] = o
    BY <1>4
  <1>6. ~(o = n /\ m = p)
    BY <1>1, <1>5 DEF Transfers
  <1>7. sock'[o][m] = sock[o][m]
    BY <1>3, <1>6
  <1> QED BY <1>1, <1>5, <1>7 DEF Transfers

\* n connects to o, which is up; if the image is large it stays in send().
LEMMA SendingStartsTransfer ==
  ASSUME Transfers, NEW n \in Node, sending[n] = NoNode, NEW o \in Node, NEW f, Transfer(n, o, f)
  PROVE  InTransfer'
  <1> DEFINE s == Connected(sock, n, o)
  <1>1. /\ FreeAddress(sock, n, o)
        /\ sock' = IF LargeImages THEN s ELSE Closed(s, n, o)
        /\ sending' = IF LargeImages THEN [sending EXCEPT ![n] = o] ELSE sending
        /\ UNCHANGED status
    BY DEF Transfer
  <1>2. n # o /\ sending[o] # n
    BY <1>1 DEF FreeAddress, Transfers
  <1>3. /\ s \in [Node -> [Node -> End]] /\ s[o][n] = "queued"
        /\ \A a, b \in Node : ~(a = n /\ b = o) /\ ~(a = o /\ b = n) => s[a][b] = sock[a][b]
    BY <1>2, ConnectedAt DEF Transfers, SameButBoth
  <1> HIDE DEF s
  <1>4. \A a, b \in Node : ~(a = n /\ b = o) => sock'[a][b] = s[a][b]
    <2>1. SameBut(Closed(s, n, o), s, n, o)
      BY <1>3, ClosedAt
    <2> QED BY <1>1, <2>1 DEF SameBut
  <1> SUFFICES ASSUME NEW m \in Node, NEW p \in Node, sending'[m] = p
               PROVE  \/ sock'[p][m] \in {"queued", "closed"}
                      \/ sock'[p][m] = "none" /\ status'[p] \in Ended
    BY DEF InTransfer
  <1>5. CASE m = n /\ p = o
    BY <1>2, <1>3, <1>4, <1>5
  <1>6. CASE ~(m = n /\ p = o)
    <2>1. sending[m] = p
      BY <1>1, <1>6 DEF Transfers
    <2>2. ~(p = n /\ m = o)
      BY <1>2, <2>1
    <2>3. sock'[p][m] = sock[p][m]
      BY <1>3, <1>4, <1>6, <2>2
    <2> QED BY <1>1, <2>1, <2>3 DEF Transfers
  <1> QED BY <1>5, <1>6

LEMMA InTransferNext == QInv /\ InTransfer /\ [Next]_vars => InTransfer'
  <1> SUFFICES ASSUME QInv, InTransfer, [Next]_vars PROVE InTransfer'
    OBVIOUS
  <1>1. Transfers
    BY TransfersKnown
  <1>2. CASE UNCHANGED <<status, sending, sock>>
    BY <1>2 DEF InTransfer
  <1>3. ASSUME NEW c \in Client, ClientAsks(c) \/ ClientLeaves(c)
        PROVE  UNCHANGED <<status, sending, sock>>
    BY <1>3 DEF ClientAsks, ClientLeaves
  <1>4. ASSUME NEW n \in Node, NodeStep(n) PROVE InTransfer'
    <2>1. \/ Accepts(n) \/ Ends(n) \/ TimeoutImageQuery(n) \/ TransferEnds(n) \/ Hangs(n)
          \/ \E m \in Node : PassesOn(n, m) \/ Sends(n, m)
      BY <1>4, NodeStepCases
    <2>2. CASE Accepts(n)
      <3> DEFINE e == Head(backlog[n])
      <3>1. CASE e.from \in Node /\ ReceiveTransfer(n, e.from, e.file)
        <4>1. e.from \in From(backlog[n])
          BY <2>2, AcceptKeeps DEF Accepts
        <4>2. sock' = Closed(sock, n, e.from) /\ UNCHANGED <<status, sending>>
          BY <3>1 DEF ReceiveTransfer
        <4> QED BY <1>1, <3>1, <4>1, <4>2, ReadLeavesTransfers
      <3>2. \/ e.from \in Node /\ ReceiveTransfer(n, e.from, e.file)
            \/ UNCHANGED <<status, sending, sock>>
        BY <2>2 DEF Accepts, RejectImageQuery, FindLocally, SearchNetwork
      <3> QED BY <1>2, <3>1, <3>2
    <2>3. CASE Ends(n)
      BY <1>1, <2>3, EndLeavesTransfers
    <2>4. CASE TimeoutImageQuery(n) \/ \E m \in Node : PassesOn(n, m)
      BY <1>2, <2>4 DEF TimeoutImageQuery, PassesOn
    <2>5. CASE TransferEnds(n)
      BY <1>1, <2>5, SentLeavesTransfers
    <2>6. CASE Hangs(n)
      <3>1. status' = [status EXCEPT ![n] = "spinning"] /\ status[n] \notin Ended
            /\ UNCHANGED <<sending, sock>>
        BY <2>6 DEF Hangs, AtSelect, Ended
      <3>2. \A m \in Node : status[m] \in Ended => status'[m] \in Ended
        BY <1>1, <3>1 DEF Transfers
      <3> QED BY <3>1, <3>2 DEF InTransfer
    <2>7. ASSUME NEW m \in Node, Sends(n, m) PROVE InTransfer'
      <3>1. /\ sending[n] = NoNode /\ link[m][n] # <<>>
            /\ Transfer(n, Head(link[m][n]).orig, Head(link[m][n]).file)
        BY <2>7 DEF Sends, AtSelect
      <3>2. Head(link[m][n]) \in Query
        BY <3>1, TailEntries DEF QInv, TypeOK
      <3>3. Head(link[m][n]).orig \in Node
        BY <3>2 DEF Query
      <3> QED BY <1>1, <3>1, <3>3, SendingStartsTransfer
    <2> QED BY <2>1, <2>2, <2>3, <2>4, <2>5, <2>6, <2>7
  <1>5. CASE UNCHANGED vars
    BY <1>2, <1>5 DEF vars
  <1> QED BY <1>2, <1>3, <1>4, <1>5 DEF Next

LEMMA InTransferInit == Init => InTransfer
  <1>1. ASSUME Init, NEW n \in Node, NEW o \in Node PROVE sending[n] # o
    BY <1>1 DEF Init
  <1> QED BY <1>1 DEF InTransfer

\* Two nodes have one image connection at most, and a node in the middle of a
\* transfer is in the backlog of its receiver, or that has read the image or has
\* ended, in every overlay and for images of any size.
THEOREM OneConnectionEach == Spec => []TransfersOK
  <1>1. QInv /\ InTransfer => TransfersOK
    <2> SUFFICES ASSUME QInv, InTransfer, NEW n \in Node, NEW o \in Node
                 PROVE  /\ Cardinality({i \in DOMAIN backlog[o] : backlog[o][i].from = n})
                             = IF sock[o][n] = "queued" THEN 1 ELSE 0
                        /\ sock[o][n] = "queued" => sock[n][o] \in {"open", "closed"}
                        /\ sock[n][o] = "open" <=> sending[n] = o
                        /\ sending[n] = o => \/ sock[o][n] \in {"queued", "closed"}
                                             \/ sock[o][n] = "none" /\ status[o] \in Ended
      BY DEF TransfersOK
    <2>1. /\ n \in From(backlog[o]) <=> sock[o][n] = "queued"
          /\ sock[o][n] = "queued" => sock[n][o] \in {"open", "closed"}
          /\ sock[n][o] = "open" <=> sending[n] = o
          /\ sending[n] = o => \/ sock[o][n] \in {"queued", "closed"}
                               \/ sock[o][n] = "none" /\ status[o] \in Ended
      BY DEF QInv, Connections, InTransfer
    <2>2. /\ backlog[o] \in Seq(Incoming)
          /\ \A i, j \in DOMAIN backlog[o] : backlog[o][i].from = backlog[o][j].from => i = j
      BY DEF QInv, TypeOK, NoTwins
    <2>3. Cardinality({i \in DOMAIN backlog[o] : backlog[o][i].from = n})
             = IF sock[o][n] = "queued" THEN 1 ELSE 0
      <3>1. CASE n \in From(backlog[o])
        <4>1. Cardinality({i \in DOMAIN backlog[o] : backlog[o][i].from = n}) = 1
          BY <2>2, <3>1, CountFrom
        <4> QED BY <2>1, <3>1, <4>1
      <3>2. CASE n \notin From(backlog[o])
        <4>1. Cardinality({i \in DOMAIN backlog[o] : backlog[o][i].from = n}) = 0
          BY <2>2, <3>2, CountFrom
        <4> QED BY <2>1, <3>2, <4>1
      <3> QED BY <3>1, <3>2
    <2> QED BY <2>1, <2>3
  <1>2. QInv /\ InTransfer /\ [Next]_vars => QInv' /\ InTransfer'
    BY QInvNext, InTransferNext
  <1>3. Spec => [](QInv /\ InTransfer)
    BY <1>2, QInvInit, InTransferInit, PTL DEF Spec
  <1> QED BY <1>1, <1>3, PTL

-----------------------------------------------------------------------------
(* The image service.                                                      *)

Up == [n \in Node |-> status[n] \notin Ended]

\* Nothing that a client or the service sees.
LEMMA ServiceStutters ==
  ASSUME UNCHANGED <<imageClient, request, answer>>,
         \A n \in Node : status'[n] \in Ended <=> status[n] \in Ended
  PROVE  UNCHANGED Service!vars
  <1>1. Up' = Up
    BY DEF Up
  <1> QED BY <1>1 DEF Service!vars, Up

LEMMA ServiceEnds ==
  ASSUME QInv, NEW n \in Node, Ends(n)
  PROVE  Service!End(n)
  <1>1. PICK how \in Ended, s \in [Node -> [Node -> End]] :
           status[n] \notin Ended /\ ProcessEnds(n, how, s) /\ UNCHANGED request
    BY DEF Ends
  <1>2. /\ status' = [status EXCEPT ![n] = how]
        /\ imageClient' = [imageClient EXCEPT ![n] = NoClient]
        /\ answer' = [c \in Client |->
                         IF answer[c] = "waiting" /\ request[c].node = n
                         THEN "lost" ELSE answer[c]]
    BY <1>1 DEF ProcessEnds
  <1>3. status \in [Node -> {"up", "spinning"} \cup Ended]
    BY DEF QInv, TypeOK
  <1>4. status'[n] \in Ended /\ \A m \in Node : m # n => status'[m] = status[m]
    BY <1>2, <1>3
  <1>5. Up' = [Up EXCEPT ![n] = FALSE]
    BY <1>4 DEF Up
  <1>6. Up[n]
    BY <1>1 DEF Up
  <1> QED BY <1>1, <1>2, <1>5, <1>6 DEF Service!End, Up

\* What n accepts is a client that waits, or has left, and that it does not service.
LEMMA ServiceAccepts ==
  ASSUME QInv, NEW n \in Node, Accepts(n)
  PROVE  [Service!Next]_(Service!vars)
  <1> DEFINE e == Head(backlog[n])
  <1>1. /\ AtSelect(n) /\ backlog[n] # <<>> /\ UNCHANGED request
        /\ backlog' = [backlog EXCEPT ![n] = Tail(@)]
        /\ \/ /\ e.from \in Client
              /\ \/ RejectImageQuery(n, e.from)
                 \/ FindLocally(n, e.from, e.file)
                 \/ SearchNetwork(n, e.from, e.file)
           \/ e.from \in Node /\ ReceiveTransfer(n, e.from, e.file)
    BY DEF Accepts
  <1>2. /\ e.from \in From(backlog[n]) /\ e \in Incoming
        /\ \E j \in DOMAIN backlog[n] : backlog[n][j] = e
    BY <1>1, AcceptKeeps
  <1>3. /\ imageClient \in [Node -> Client \cup {NoClient}]
        /\ answer \in [Client -> Outcome \cup File] /\ NoClient \notin Client
        /\ status[n] \notin Ended
    BY <1>1 DEF QInv, TypeOK, AtSelect, Ended
  <1>4. ASSUME e.from \in Client
        PROVE  /\ request[e.from].node = n /\ answer[e.from] \in {"waiting", "left"}
               /\ imageClient[n] # e.from /\ e.file = request[e.from].file
               /\ Service!Asks(e.from)
    <2>1. /\ request[e.from].node = n /\ answer[e.from] \in {"waiting", "left"}
          /\ imageClient[n] # e.from
      BY <1>2, <1>4 DEF QInv, InLine
    <2>2. e.file = request[e.from].file
      BY <1>2, <1>4 DEF QInv, OwnFile
    <2>3. Up[n]
      BY <1>3 DEF Up
    <2>4. Service!Asks(e.from)
      BY <2>1, <2>3 DEF Service!Asks, Up
    <2> QED BY <2>1, <2>2, <2>4
  <1> HIDE DEF e
  <1>5. UNCHANGED status => Up' = Up
    BY DEF Up
  <1>6. CASE e.from \in Client /\ RejectImageQuery(n, e.from)
    <2>1. /\ imageClient[n] # NoClient /\ answer' = Answered(e.from, "busy")
          /\ UNCHANGED <<status, imageClient>>
      BY <1>6 DEF RejectImageQuery
    <2>2. Service!Refuse(n, e.from)
      BY <1>1, <1>4, <1>5, <1>6, <2>1 DEF Service!Refuse, Service!Told, Answered, Up
    <2> QED BY <1>6, <2>2 DEF Service!Next
  <1>7. CASE e.from \in Client /\ FindLocally(n, e.from, e.file)
    <2>1. /\ imageClient[n] = NoClient /\ answer' = Answered(e.from, e.file)
          /\ imageClient' = [imageClient EXCEPT ![n] = NoClient] /\ UNCHANGED status
      BY <1>7 DEF FindLocally, ReturnImageToClient
    <2>2. imageClient' = imageClient
      BY <1>3, <2>1
    <2>3. Service!AnswerAtOnce(n, e.from)
      BY <1>1, <1>4, <1>5, <1>7, <2>1, <2>2 DEF Service!AnswerAtOnce, Service!Told, Answered, Up
    <2> QED BY <1>7, <2>3 DEF Service!Next
  <1>8. CASE e.from \in Client /\ SearchNetwork(n, e.from, e.file)
    <2>1. /\ imageClient[n] = NoClient /\ imageClient' = [imageClient EXCEPT ![n] = e.from]
          /\ UNCHANGED <<status, answer>>
      BY <1>8 DEF SearchNetwork
    <2>2. Service!TakeUp(n, e.from)
      BY <1>1, <1>4, <1>5, <1>8, <2>1 DEF Service!TakeUp, Up
    <2> QED BY <1>8, <2>2 DEF Service!Next
  <1>9. CASE e.from \in Node /\ ReceiveTransfer(n, e.from, e.file)
    <2>1. /\ \/ imageClient[n] = NoClient /\ UNCHANGED <<answer, imageClient>>
             \/ imageClient[n] # NoClient /\ ReturnImageToClient(n, imageClient[n], e.file)
          /\ UNCHANGED status
      BY <1>9 DEF ReceiveTransfer
    <2>2. CASE UNCHANGED <<answer, imageClient>>
      BY <1>1, <2>1, <2>2, ServiceStutters
    <2>3. CASE imageClient[n] # NoClient /\ ReturnImageToClient(n, imageClient[n], e.file)
      <3>1. Asked(n, e.file)
        BY <1>2, <1>9 DEF QInv, SearchesWereAsked
      <3>2. PICK x \in Client : answer[x] # "idle" /\ request[x] = [node |-> n, file |-> e.file]
        BY <3>1 DEF Asked
      <3>3. request[x].node = n /\ request[x].file = e.file
        BY <3>2
      <3>4. /\ answer' = Answered(imageClient[n], request[x].file)
            /\ imageClient' = [imageClient EXCEPT ![n] = NoClient]
        BY <2>3, <3>3 DEF ReturnImageToClient
      <3>5. Service!Deliver(n)
        BY <1>1, <1>5, <2>1, <2>3, <3>2, <3>3, <3>4 DEF Service!Deliver, Service!Told, Answered, Up
      <3> QED BY <3>5 DEF Service!Next
    <2> QED BY <2>1, <2>2, <2>3
  <1> QED BY <1>1, <1>6, <1>7, <1>8, <1>9 DEF e

LEMMA ServiceGivesUp ==
  ASSUME NEW n \in Node, TimeoutImageQuery(n)
  PROVE  Service!GiveUp(n)
  <1>1. /\ imageClient[n] # NoClient /\ answer' = Answered(imageClient[n], "nfound")
        /\ imageClient' = [imageClient EXCEPT ![n] = NoClient]
        /\ UNCHANGED <<status, request>>
    BY DEF TimeoutImageQuery
  <1>2. Up' = Up
    BY <1>1 DEF Up
  <1> QED BY <1>1, <1>2 DEF Service!GiveUp, Service!Told, Answered, Up

LEMMA ServiceAsk ==
  ASSUME QInv, NEW c \in Client, ClientAsks(c)
  PROVE  Service!Ask(c)
  <1>1. /\ answer[c] = "idle" /\ status[request[c].node] \notin Ended
        /\ answer' = [answer EXCEPT ![c] = "waiting"]
        /\ UNCHANGED <<status, imageClient, request>>
    BY DEF ClientAsks, Listening
  <1>2. request[c].node \in Node
    BY DEF QInv, TypeOK
  <1>3. Up' = Up /\ Up[request[c].node]
    BY <1>1, <1>2 DEF Up
  <1> QED BY <1>1, <1>3 DEF Service!Ask, Up

LEMMA ServiceLeave ==
  ASSUME NEW c \in Client, ClientLeaves(c)
  PROVE  Service!Leave(c)
  <1>1. /\ answer[c] = "waiting" /\ answer' = [answer EXCEPT ![c] = "left"]
        /\ UNCHANGED <<status, imageClient, request>>
    BY DEF ClientLeaves
  <1>2. Up' = Up
    BY <1>1 DEF Up
  <1> QED BY <1>1, <1>2 DEF Service!Leave, Up

LEMMA ServiceStep ==
  ASSUME QInv, [Next]_vars
  PROVE  [Service!Next]_(Service!vars)
  <1>1. ASSUME NEW c \in Client, ClientAsks(c) PROVE Service!Next
    BY <1>1, ServiceAsk DEF Service!Next
  <1>2. ASSUME NEW c \in Client, ClientLeaves(c) PROVE Service!Next
    BY <1>2, ServiceLeave DEF Service!Next
  <1>3. ASSUME NEW n \in Node, NodeStep(n) PROVE [Service!Next]_(Service!vars)
    <2>1. \/ Accepts(n) \/ Ends(n) \/ TimeoutImageQuery(n) \/ TransferEnds(n) \/ Hangs(n)
          \/ \E m \in Node : PassesOn(n, m) \/ Sends(n, m)
      BY <1>3, NodeStepCases
    <2>2. CASE Accepts(n)
      BY <2>2, ServiceAccepts
    <2>3. CASE Ends(n)
      BY <2>3, ServiceEnds DEF Service!Next
    <2>4. CASE TimeoutImageQuery(n)
      BY <2>4, ServiceGivesUp DEF Service!Next
    <2>5. CASE TransferEnds(n)
      <3>1. UNCHANGED <<status, imageClient, request, answer>>
        BY <2>5 DEF TransferEnds
      <3> QED BY <3>1, ServiceStutters
    <2>6. CASE Hangs(n)
      <3>1. /\ status' = [status EXCEPT ![n] = "spinning"] /\ status[n] = "up"
            /\ UNCHANGED <<imageClient, request, answer>>
        BY <2>6 DEF Hangs, AtSelect
      <3>2. \A m \in Node : status'[m] \in Ended <=> status[m] \in Ended
        BY <3>1 DEF Ended, QInv, TypeOK
      <3> QED BY <3>1, <3>2, ServiceStutters
    <2>7. ASSUME NEW m \in Node, PassesOn(n, m) \/ Sends(n, m) PROVE UNCHANGED Service!vars
      <3>1. UNCHANGED <<status, imageClient, request, answer>>
        BY <2>7 DEF PassesOn, Sends, Transfer
      <3> QED BY <3>1, ServiceStutters
    <2> QED BY <2>1, <2>2, <2>3, <2>4, <2>5, <2>6, <2>7
  <1>4. CASE UNCHANGED vars
    BY <1>4, ServiceStutters DEF vars
  <1> QED BY <1>1, <1>2, <1>3, <1>4 DEF Next

\* Whatever the overlay, the files and the requests, what the clients see is the
\* image service: one answer each, one client at a time, no image that nobody
\* asked that node for.
THEOREM ServiceImplemented == Spec => ImplementsService
  <1>1. Init => Service!Init
    <2> SUFFICES ASSUME Init PROVE Service!Init
      OBVIOUS
    <2>1. /\ status = [n \in Node |-> "up"] /\ imageClient = [n \in Node |-> NoClient]
          /\ request \in Requests /\ answer = [c \in Client |-> "idle"]
      BY DEF Init
    <2>2. Up = [n \in Node |-> TRUE]
      BY <2>1 DEF Up, Ended
    <2> QED BY <2>1, <2>2 DEF Service!Init, Up
  <1>2. QInv /\ [Next]_vars => [Service!Next]_(Service!vars)
    BY ServiceStep
  <1> QED BY <1>1, <1>2, SearchInvariant, PTL DEF Spec, ImplementsService, Service!Spec
=============================================================================
