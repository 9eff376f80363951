----------------------------- MODULE FloodProofs -----------------------------
(* Theorems about the flood of searches in ImageQuery, for every overlay and *)
(* any number of clients that the histories have room for: a link carries    *)
(* one copy of a search, the history of its sender stops the next one, and   *)
(* no search goes back to the node it came from.                             *)
EXTENDS ImageQueryProofs

USE NodeAssumption, NoNodeAssumption, LinksAssumption, FilesAssumption,
    FileAssumption, ClientAssumption, RequestsAssumption, LimitsAssumption

-----------------------------------------------------------------------------
(* What makes FloodOnce inductive, as long as there is HistoryRoom.        *)

\* The history has room for a search of every client.
HistoryRoom == IsFiniteSet(Client) /\ Cardinality(Client) <= PR_MAXPEERS

Entries(s) == {s[i] : i \in DOMAIN s}
NoRepeats(s) == \A i, j \in DOMAIN s : s[i] = s[j] => i = j

\* What is on the links l is there once, and in the history h of its sender.
LinksOK(l, h) ==
    \A m, n \in Node :
       /\ NoRepeats(l[m][n])
       /\ \A i \in DOMAIN l[m][n] : Key(l[m][n][i]) \in Entries(h[m])

\* What is on the links l was started by its sender, or has come to it from a peer
\* that is not the one it is sent to.
CameElsewhere(l, h) ==
    \A m, n \in Node : \A e \in Entries(l[m][n]) :
       /\ n \in Links[m]
       /\ e.orig = m \/ \E r \in Links[m] \ {n} : Key(e) \in Entries(h[r])

HistoriesOK(h) == \A n \in Node : NoRepeats(h[n])

\* The searches that have been seen, and the clients that have been taken up.
Seen(h) == UNION {Entries(h[n]) : n \in Node}
Served == {c \in Client : answer[c] # "idle" /\ \A n \in Node : c \notin From(backlog[n])}

\* Every search was for a client of its own.
SearchesCounted ==
    IsFiniteSet(Seen(history)) /\ Cardinality(Seen(history)) <= Cardinality(Served)

FInv ==
    /\ LinksOK(link, history) /\ CameElsewhere(link, history)
    /\ HistoriesOK(history) /\ SearchesCounted

-----------------------------------------------------------------------------
(* Sequences without repetitions.                                          *)

\* Such a sequence has as many entries as it is long.
LEMMA CountEntries ==
  ASSUME NEW S, NEW s \in Seq(S), NoRepeats(s)
  PROVE  IsFiniteSet(Entries(s)) /\ Cardinality(Entries(s)) = Len(s) /\ Len(s) \in Nat
  <1> DEFINE f == [i \in 1 .. Len(s) |-> s[i]]
  <1>1. Len(s) \in Nat /\ DOMAIN s = 1 .. Len(s)
    OBVIOUS
  <1>2. f \in [1 .. Len(s) -> Entries(s)] /\ \A i \in 1 .. Len(s) : f[i] = s[i]
    BY <1>1 DEF Entries
  <1>3. \A e \in Entries(s) : \E i \in 1 .. Len(s) : f[i] = e
    BY <1>1, <1>2 DEF Entries
  <1>4. \A i, j \in 1 .. Len(s) : f[i] = f[j] => i = j
    BY <1>1, <1>2 DEF NoRepeats
  <1> HIDE DEF f
  <1>5. f \in Bijection(1 .. Len(s), Entries(s))
    <2>1. f \in Surjection(1 .. Len(s), Entries(s))
      BY <1>2, <1>3 DEF Surjection
    <2>2. DOMAIN f = 1 .. Len(s)
      BY <1>2
    <2>3. IsInjective(f)
      BY <1>4, <2>2 DEF IsInjective
    <2>4. f \in Injection(1 .. Len(s), Entries(s))
      BY <1>2, <2>3 DEF Injection
    <2> QED BY <2>1, <2>4 DEF Bijection
  <1>6. ExistsBijection(1 .. Len(s), Entries(s))
    BY <1>5 DEF ExistsBijection
  <1>7. Cardinality(Entries(s)) = Len(s)
    BY <1>1, <1>6, FS_CountingElements
  <1>8. IsFiniteSet(Entries(s))
    BY <1>1, <1>6, FS_NatBijection
  <1> QED BY <1>1, <1>7, <1>8

\* Adding what is not there.
LEMMA AppendNew ==
  ASSUME NEW S, NEW s \in Seq(S), NEW e \in S
  PROVE  /\ Entries(Append(s, e)) = Entries(s) \cup {e}
         /\ NoRepeats(s) /\ e \notin Entries(s) => NoRepeats(Append(s, e))
  <1> DEFINE a == Append(s, e)
  <1>1. /\ Len(s) \in Nat
        /\ DOMAIN s = 1 .. Len(s) /\ DOMAIN a = 1 .. Len(s) + 1
        /\ \A i \in 1 .. Len(s) : a[i] = s[i]
        /\ a[Len(s) + 1] = e
    BY AppendEntries
  <1> HIDE DEF a
  <1>2. \A i \in DOMAIN a : i \in DOMAIN s \/ i = Len(s) + 1
    BY <1>1
  <1>3. DOMAIN s \subseteq DOMAIN a /\ Len(s) + 1 \in DOMAIN a /\ Len(s) + 1 \notin DOMAIN s
    BY <1>1
  <1>4. Entries(a) = Entries(s) \cup {e}
    <2>1. ASSUME NEW x \in Entries(a) PROVE x \in Entries(s) \cup {e}
      BY <1>1, <1>2 DEF Entries
    <2>2. ASSUME NEW x \in Entries(s) PROVE x \in Entries(a)
      BY <1>1, <1>3 DEF Entries
    <2>3. e \in Entries(a)
      BY <1>1, <1>3 DEF Entries
    <2> QED BY <2>1, <2>2, <2>3
  <1>5. ASSUME NoRepeats(s), e \notin Entries(s), NEW i \in DOMAIN a, NEW j \in DOMAIN a,
               a[i] = a[j]
        PROVE  i = j
    <2>1. \A k \in DOMAIN s : a[k] = s[k] /\ s[k] # e
      BY <1>1, <1>5 DEF Entries
    <2> QED BY <1>1, <1>2, <1>5, <2>1 DEF NoRepeats
  <1> QED BY <1>4, <1>5 DEF NoRepeats, a

\* Taking the first away.
LEMMA TailOld ==
  ASSUME NEW S, NEW s \in Seq(S), s # <<>>
  PROVE  /\ Entries(Tail(s)) \subseteq Entries(s) /\ Head(s) \in Entries(s)
         /\ NoRepeats(s) => NoRepeats(Tail(s))
  <1> DEFINE t == Tail(s)
  <1>1. /\ Len(s) \in Nat /\ Len(s) >= 1 /\ Head(s) = s[1]
        /\ DOMAIN s = 1 .. Len(s) /\ DOMAIN t = 1 .. Len(s) - 1
        /\ \A i \in 1 .. Len(s) - 1 : t[i] = s[i + 1] /\ i + 1 \in 1 .. Len(s)
    BY TailEntries
  <1> HIDE DEF t
  <1>2. 1 \in DOMAIN s /\ \A i \in DOMAIN t : i + 1 \in DOMAIN s /\ t[i] = s[i + 1]
    BY <1>1
  <1>3. Entries(t) \subseteq Entries(s) /\ Head(s) \in Entries(s)
    BY <1>1, <1>2 DEF Entries
  <1>4. ASSUME NoRepeats(s), NEW i \in DOMAIN t, NEW j \in DOMAIN t, t[i] = t[j]
        PROVE  i = j
    <2>1. i + 1 = j + 1
      BY <1>2, <1>4 DEF NoRepeats
    <2> QED BY <1>1, <2>1
  <1> QED BY <1>3, <1>4 DEF NoRepeats, t

\* The same of an entry at each place.
LEMMA KeyedEntries ==
  ASSUME NEW s, NEW K
  PROVE  (\A i \in DOMAIN s : Key(s[i]) \in K) <=> (\A e \in Entries(s) : Key(e) \in K)
  BY DEF Entries

-----------------------------------------------------------------------------
(* What a step does to links and histories.                                *)

\* LinksOK and HistoriesOK with entries for places.
LEMMA LinksByEntries ==
  ASSUME NEW l, NEW h
  PROVE  LinksOK(l, h) <=> \A m, n \in Node :
                              /\ NoRepeats(l[m][n])
                              /\ \A e \in Entries(l[m][n]) : Key(e) \in Entries(h[m])
  BY KeyedEntries DEF LinksOK

\* Reading a search leaves no more than there was.
LEMMA ReadLinks ==
  ASSUME link \in [Node -> [Node -> Seq(Query)]], LinksOK(link, history),
         NEW n \in Node, NEW m \in Node, link[m][n] # <<>>,
         NEW l, l = [link EXCEPT ![m][n] = Tail(@)]
  PROVE  /\ LinksOK(l, history) /\ l \in [Node -> [Node -> Seq(Query)]]
         /\ Head(link[m][n]) \in Query /\ Head(link[m][n]) \in Entries(link[m][n])
         /\ Key(Head(link[m][n])) \in Entries(history[m])
         /\ \A p, r \in Node : Entries(l[p][r]) \subseteq Entries(link[p][r])
  <1>1. link[m][n] \in Seq(Query)
    OBVIOUS
  <1>2. /\ Entries(Tail(link[m][n])) \subseteq Entries(link[m][n])
        /\ Head(link[m][n]) \in Entries(link[m][n])
        /\ NoRepeats(link[m][n]) => NoRepeats(Tail(link[m][n]))
    BY <1>1, TailOld
  <1>3. \A p, r \in Node : /\ NoRepeats(link[p][r])
                           /\ \A e \in Entries(link[p][r]) : Key(e) \in Entries(history[p])
    BY LinksByEntries
  <1>4. l \in [Node -> [Node -> Seq(Query)]] /\ Head(link[m][n]) \in Query
    BY QueryRead
  <1>5. \A p, r \in Node : l[p][r] = IF p = m /\ r = n THEN Tail(link[m][n]) ELSE link[p][r]
    <2>1. /\ l[m] = [link[m] EXCEPT ![n] = Tail(link[m][n])]
          /\ \A p \in Node : p # m => l[p] = link[p]
      OBVIOUS
    <2>2. link[m] \in [Node -> Seq(Query)]
      OBVIOUS
    <2>3. l[m][n] = Tail(link[m][n]) /\ \A r \in Node : r # n => l[m][r] = link[m][r]
      BY <2>1, <2>2
    <2> SUFFICES ASSUME NEW p \in Node, NEW r \in Node
                 PROVE  l[p][r] = IF p = m /\ r = n THEN Tail(link[m][n]) ELSE link[p][r]
      OBVIOUS
    <2>4. CASE p = m
      BY <2>3, <2>4
    <2>5. CASE p # m
      BY <2>1, <2>5
    <2> QED BY <2>4, <2>5
  <1>6. ASSUME NEW p \in Node, NEW r \in Node
        PROVE  NoRepeats(l[p][r]) /\ \A e \in Entries(l[p][r]) : Key(e) \in Entries(history[p])
    <2>1. CASE p = m /\ r = n
      <3>1. l[p][r] = Tail(link[m][n])
        BY <1>5, <2>1
      <3> QED BY <1>2, <1>3, <2>1, <3>1
    <2>2. CASE ~(p = m /\ r = n)
      <3>1. l[p][r] = link[p][r]
        BY <1>5, <2>2
      <3> QED BY <1>3, <3>1
    <2> QED BY <2>1, <2>2
  <1>7. LinksOK(l, history)
    BY <1>6, LinksByEntries
  <1>8. \A p, r \in Node : Entries(l[p][r]) \subseteq Entries(link[p][r])
    BY <1>2, <1>5
  <1> QED BY <1>2, <1>3, <1>4, <1>7, <1>8

\* No history has forgotten anything.
Remembered == \A p \in Node : Entries(history[p]) \subseteq Entries(history'[p])

\* What is on the links is from l, or is q, sent by n to a peer that is not from.
Copies(l, n, q, from) ==
  \A p, r \in Node : \A e \in Entries(link'[p][r]) :
     \/ e \in Entries(l[p][r])
     \/ p = n /\ r \in Links[n] \ {from} /\ e = q

\* Flooding a search that was not seen puts it where it is not, as long as nothing
\* is forgotten for it.
LEMMA FloodsNew ==
  ASSUME history \in [Node -> Histories], NEW l \in [Node -> [Node -> Seq(Query)]],
         LinksOK(l, history), HistoriesOK(history),
         NEW n \in Node, NEW q \in Query, NEW from, QueryNetworkForImage(n, q, from, l),
         HasSeenP2pImageQuery(history[n], q) \/ Len(history[n]) # PR_MAXPEERS
  PROVE  /\ LinksOK(link', history') /\ HistoriesOK(history')
         /\ Seen(history') \subseteq Seen(history) \cup {Key(q)}
         /\ Remembered /\ Copies(l, n, q, from)
  <1>1. CASE link' = l /\ UNCHANGED history
    BY <1>1 DEF Remembered, Copies
  <1>2. CASE /\ ~HasSeenP2pImageQuery(history[n], q)
             /\ history' = [history EXCEPT ![n] = AddImageQuery(@, q)]
             /\ link' = [m \in Node |-> [r \in Node |->
                            IF m = n /\ r \in Links[n] \ {from}
                            THEN Append(l[m][r], q) ELSE l[m][r]]]
    <2>1. history[n] \in Seq(Search) /\ Key(q) \in Search
      BY DEF Histories, Key, Query, Search
    <2>2. Key(q) \notin Entries(history[n])
      BY <1>2 DEF HasSeenP2pImageQuery, Entries
    <2>3. AddImageQuery(history[n], q) = Append(history[n], Key(q))
      BY <1>2 DEF AddImageQuery
    <2>4. /\ Entries(Append(history[n], Key(q))) = Entries(history[n]) \cup {Key(q)}
          /\ NoRepeats(history[n]) => NoRepeats(Append(history[n], Key(q)))
      BY <2>1, <2>2, AppendNew
    <2>5. /\ history'[n] = Append(history[n], Key(q))
          /\ \A p \in Node : p # n => history'[p] = history[p]
      BY <1>2, <2>3
    <2>6. \A p \in Node : /\ Entries(history[p]) \subseteq Entries(history'[p])
                          /\ Entries(history'[p]) \subseteq Entries(history[p]) \cup {Key(q)}
      BY <2>4, <2>5
    <2>7. HistoriesOK(history')
      BY <2>4, <2>5 DEF HistoriesOK
    <2>8. Seen(history') \subseteq Seen(history) \cup {Key(q)}
      BY <2>6 DEF Seen
    <2>9. \A p, r \in Node : /\ NoRepeats(l[p][r])
                             /\ \A e \in Entries(l[p][r]) : Key(e) \in Entries(history[p])
      BY LinksByEntries
    <2>10. ASSUME NEW p \in Node, NEW r \in Node
           PROVE  /\ NoRepeats(link'[p][r])
                  /\ \A e \in Entries(link'[p][r]) :
                        /\ Key(e) \in Entries(history'[p])
                        /\ \/ e \in Entries(l[p][r])
                           \/ p = n /\ r \in Links[n] \ {from} /\ e = q
      <3>1. CASE p = n /\ r \in Links[n] \ {from}
        <4>1. link'[p][r] = Append(l[n][r], q) /\ l[n][r] \in Seq(Query)
          BY <1>2, <3>1
        <4>2. q \notin Entries(l[n][r])
          BY <2>2, <2>9
        <4>3. /\ Entries(link'[p][r]) = Entries(l[n][r]) \cup {q}
              /\ NoRepeats(link'[p][r])
          BY <2>9, <4>1, <4>2, AppendNew
        <4>4. Key(q) \in Entries(history'[n])
          BY <2>4, <2>5
        <4> QED BY <2>6, <2>9, <3>1, <4>3, <4>4
      <3>2. CASE ~(p = n /\ r \in Links[n] \ {from})
        <4>1. link'[p][r] = l[p][r]
          BY <1>2, <3>2
        <4> QED BY <2>6, <2>9, <4>1
      <3> QED BY <3>1, <3>2
    <2>11. LinksOK(link', history')
      BY <2>10, LinksByEntries
    <2>12. Remembered /\ Copies(l, n, q, from)
      BY <2>6, <2>10 DEF Remembered, Copies
    <2> QED BY <2>7, <2>8, <2>11, <2>12
  <1> QED BY <1>1, <1>2 DEF QueryNetworkForImage

\* Taking searches off the links changes nothing about the others.
LEMMA FewerElsewhere ==
  ASSUME NEW k, NEW l, NEW h, CameElsewhere(k, h),
         \A p, r \in Node : Entries(l[p][r]) \subseteq Entries(k[p][r])
  PROVE  CameElsewhere(l, h)
  <1> SUFFICES ASSUME NEW m \in Node, NEW n \in Node, NEW e \in Entries(l[m][n])
               PROVE  /\ n \in Links[m]
                      /\ e.orig = m \/ \E r \in Links[m] \ {n} : Key(e) \in Entries(h[r])
    BY DEF CameElsewhere
  <1>1. e \in Entries(k[m][n])
    OBVIOUS
  <1> QED BY <1>1 DEF CameElsewhere

\* Where n has q from: from its own client, or from a peer.
Source(n, q, from) ==
  q.orig = n \/ (from \in Links[n] /\ Key(q) \in Entries(history[from]))

\* Where a search has come from is not forgotten, and it is not sent there.
LEMMA FloodsElsewhere ==
  ASSUME NEW n \in Node, NEW q \in Query, NEW from, NEW l,
         CameElsewhere(l, history), Source(n, q, from), Remembered, Copies(l, n, q, from)
  PROVE  CameElsewhere(link', history')
  <1> SUFFICES ASSUME NEW m \in Node, NEW p \in Node, NEW e \in Entries(link'[m][p])
               PROVE  /\ p \in Links[m]
                      /\ e.orig = m \/ \E r \in Links[m] \ {p} : Key(e) \in Entries(history'[r])
    BY DEF CameElsewhere
  <1>1. \A r \in Links[m] : r \in Node
    BY LinksAssumption
  <1>2. CASE e \in Entries(l[m][p])
    <2>1. p \in Links[m] /\ (e.orig = m \/ \E r \in Links[m] \ {p} : Key(e) \in Entries(history[r]))
      BY <1>2 DEF CameElsewhere
    <2> QED BY <1>1, <2>1 DEF Remembered
  <1>3. CASE m = n /\ p \in Links[n] \ {from} /\ e = q
    BY <1>1, <1>3 DEF Source, Remembered
  <1> QED BY <1>2, <1>3 DEF Copies

\* A history that has seen less than there is room for forgets nothing.
LEMMA RoomForOne ==
  ASSUME history \in [Node -> Histories], HistoriesOK(history), NEW n \in Node, NEW k,
         k \notin Entries(history[n]),
         IsFiniteSet(Seen(history)), Cardinality(Seen(history) \cup {k}) <= PR_MAXPEERS
  PROVE  Len(history[n]) # PR_MAXPEERS
  <1>1. history[n] \in Seq(Search) /\ NoRepeats(history[n])
    BY DEF Histories, HistoriesOK
  <1>2. /\ IsFiniteSet(Entries(history[n])) /\ Cardinality(Entries(history[n])) = Len(history[n])
        /\ Len(history[n]) \in Nat
    BY <1>1, CountEntries
  <1>3. Cardinality(Entries(history[n]) \cup {k}) = Len(history[n]) + 1
    BY <1>2, FS_AddElement
  <1>4. Entries(history[n]) \cup {k} \subseteq Seen(history) \cup {k}
    BY DEF Seen
  <1>5. IsFiniteSet(Seen(history) \cup {k})
    BY FS_AddElement
  <1>6. Cardinality(Entries(history[n]) \cup {k}) <= Cardinality(Seen(history) \cup {k})
    BY <1>4, <1>5, FS_Subset
  <1>7. Cardinality(Seen(history) \cup {k}) \in Nat
    BY <1>5, FS_CardinalityType
  <1> QED BY <1>2, <1>3, <1>6, <1>7, LimitsAssumption

-----------------------------------------------------------------------------
(* Clients that have been taken up stay taken up.                          *)

\* No client is idle again, and none is in a backlog again.
NoneIdle == \A c \in Client : answer[c] # "idle" => answer'[c] # "idle"
NoneBack ==
  \A c \in Client : answer[c] # "idle" =>
     \A m \in Node : c \in From(backlog'[m]) => c \in From(backlog[m])

LEMMA ServedStay ==
  ASSUME NoneIdle, NoneBack
  PROVE  Served \subseteq Served'
  <1> SUFFICES ASSUME NEW c \in Served PROVE c \in Served'
    OBVIOUS
  <1>1. c \in Client /\ answer[c] # "idle" /\ \A m \in Node : c \notin From(backlog[m])
    BY DEF Served
  <1>2. answer'[c] # "idle" /\ \A m \in Node : c \notin From(backlog'[m])
    BY <1>1 DEF NoneIdle, NoneBack
  <1> QED BY <1>1, <1>2 DEF Served, From

\* An answer.
LEMMA ToldNotIdle ==
  ASSUME QInv, NEW c, NEW what \in (Outcome \ {"idle"}) \cup File, answer' = Answered(c, what)
  PROVE  NoneIdle
  <1>1. "idle" \notin File
    BY DEF Outcome
  <1>2. what # "idle"
    BY <1>1 DEF Outcome
  <1>3. answer \in [Client -> Outcome \cup File]
    BY DEF QInv, TypeOK
  <1> QED BY <1>2, <1>3 DEF NoneIdle, Answered

\* accept() only takes away.
LEMMA AcceptsServe ==
  ASSUME QInv, NEW n \in Node, Accepts(n)
  PROVE  /\ NoneIdle /\ NoneBack
         /\ Head(backlog[n]).from \in From(backlog[n])
         /\ \A m \in Node : Head(backlog[n]).from \in From(backlog'[m]) => m # n
  <1> DEFINE e == Head(backlog[n])
  <1>1. /\ backlog[n] # <<>> /\ backlog' = [backlog EXCEPT ![n] = Tail(@)] /\ UNCHANGED request
        /\ \/ RejectImageQuery(n, e.from)
           \/ FindLocally(n, e.from, e.file)
           \/ SearchNetwork(n, e.from, e.file)
           \/ ReceiveTransfer(n, e.from, e.file)
    BY DEF Accepts
  <1>2. /\ e \in Incoming /\ e.from \in From(backlog[n])
        /\ From(backlog'[n]) = From(backlog[n]) \ {e.from}
        /\ \A m \in Node : m # n => backlog'[m] = backlog[m]
    BY <1>1, AcceptKeeps
  <1>3. NoneBack
    <2>1. \A m \in Node : From(backlog'[m]) \subseteq From(backlog[m])
      BY <1>2
    <2> QED BY <2>1 DEF NoneBack
  <1>4. e.file \in File
    BY <1>2 DEF Incoming
  <1> HIDE DEF e
  <1>5. NoneIdle
    <2>1. CASE UNCHANGED answer
      BY <2>1 DEF NoneIdle
    <2>2. ASSUME NEW c, answer' = Answered(c, "busy") \/ answer' = Answered(c, e.file)
          PROVE  NoneIdle
      BY <1>4, <2>2, ToldNotIdle DEF Outcome
    <2> QED BY <1>1, <2>1, <2>2 DEF RejectImageQuery, FindLocally, SearchNetwork,
                ReceiveTransfer, ReturnImageToClient
  <1> QED BY <1>2, <1>3, <1>5 DEF e

\* The end of a process answers nobody "idle" and empties its backlog.
LEMMA EndsServe ==
  ASSUME QInv, NEW n \in Node, Ends(n)
  PROVE  NoneIdle /\ NoneBack
  <1>1. PICK how \in Ended, s \in [Node -> [Node -> End]] : ProcessEnds(n, how, s)
    BY DEF Ends
  <1>2. /\ backlog' = [backlog EXCEPT ![n] = <<>>]
        /\ answer' = [c \in Client |->
                         IF answer[c] = "waiting" /\ request[c].node = n
                         THEN "lost" ELSE answer[c]]
        /\ backlog \in [Node -> Seq(Incoming)]
    BY <1>1 DEF ProcessEnds, QInv, TypeOK
  <1>3. NoneIdle
    BY <1>2 DEF NoneIdle
  <1>4. backlog'[n] = <<>> /\ \A m \in Node : m # n => backlog'[m] = backlog[m]
    BY <1>2
  <1>5. From(<<>>) = {}
    BY DEF From
  <1>6. \A m \in Node : From(backlog'[m]) \subseteq From(backlog[m])
    BY <1>4, <1>5
  <1> QED BY <1>3, <1>6 DEF NoneBack

\* Only a client that was idle, or a node, is new in a backlog.
LEMMA AsksServe ==
  ASSUME QInv, NEW c \in Client, ClientAsks(c)
  PROVE  NoneIdle /\ NoneBack
  <1> DEFINE n == request[c].node
             e == [from |-> c, file |-> request[c].file]
  <1>1. /\ answer[c] = "idle" /\ answer' = [answer EXCEPT ![c] = "waiting"]
        /\ backlog' = [backlog EXCEPT ![n] = Append(@, e)] /\ UNCHANGED request
    BY DEF ClientAsks
  <1>2. /\ answer \in [Client -> Outcome \cup File] /\ n \in Node /\ e \in Incoming
        /\ e.from = c /\ e.file = request[c].file
    <2>1. answer \in [Client -> Outcome \cup File] /\ request \in Requests
      BY DEF QInv, TypeOK
    <2>2. n \in Node /\ request[c].file \in File
      BY <2>1
    <2>3. e \in Incoming
      BY <2>2 DEF Incoming
    <2> QED BY <2>1, <2>2, <2>3
  <1>3. c \notin From(backlog[n])
    BY <1>1, <1>2 DEF QInv, InLine
  <1> HIDE DEF n
  <1>4. /\ From(backlog'[n]) = From(backlog[n]) \cup {c}
        /\ \A m \in Node : m # n => backlog'[m] = backlog[m]
    <2> HIDE DEF e
    <2>1. e.from \notin From(backlog[n]) /\ e.file = request[e.from].file
      BY <1>2, <1>3
    <2>2. /\ From(backlog'[n]) = From(backlog[n]) \cup {e.from}
          /\ \A m \in Node : m # n => backlog'[m] = backlog[m]
      BY <1>1, <1>2, <2>1, ConnectKeeps
    <2> QED BY <1>2, <2>2
  <1> HIDE DEF e
  <1>5. NoneIdle
    BY <1>1, <1>2 DEF NoneIdle
  <1>6. NoneBack
    BY <1>1, <1>4 DEF NoneBack
  <1> QED BY <1>5, <1>6

LEMMA SendsServe ==
  ASSUME QInv, NEW n \in Node, NEW m \in Node, Sends(n, m)
  PROVE  NoneIdle /\ NoneBack
  <1> DEFINE q == Head(link[m][n])
             e == [from |-> n, file |-> q.file]
  <1>1. /\ link[m][n] # <<>> /\ UNCHANGED <<answer, request>>
        /\ FreeAddress(sock, n, q.orig)
        /\ backlog' = [backlog EXCEPT ![q.orig] = Append(@, e)]
    BY DEF Sends, Transfer
  <1>2. /\ q \in Query /\ q.orig \in Node /\ e \in Incoming /\ e.from = n
        /\ backlog \in [Node -> Seq(Incoming)] /\ n \notin Client
    <2>1. link \in [Node -> [Node -> Seq(Query)]] /\ backlog \in [Node -> Seq(Incoming)]
      BY DEF QInv, TypeOK
    <2>2. link[m][n] \in Seq(Query)
      BY <2>1
    <2>3. q \in Query
      BY <1>1, <2>2, TailEntries
    <2>4. q.orig \in Node /\ q.file \in File
      BY <2>3 DEF Query
    <2>5. e \in Incoming
      BY <2>4 DEF Incoming
    <2>6. n \notin Client
      OBVIOUS
    <2> QED BY <2>1, <2>3, <2>4, <2>5, <2>6
  <1> HIDE DEF q
  <1>3. /\ backlog'[q.orig] = Append(backlog[q.orig], e)
        /\ \A p \in Node : p # q.orig => backlog'[p] = backlog[p]
    BY <1>1, <1>2
  <1>4. backlog[q.orig] \in Seq(Incoming)
    BY <1>2
  <1> HIDE DEF e
  <1>5. \A x \in From(Append(backlog[q.orig], e)) : x \in From(backlog[q.orig]) \/ x = n
    <2> DEFINE b == backlog[q.orig]
    <2>1. /\ DOMAIN b = 1 .. Len(b) /\ DOMAIN Append(b, e) = 1 .. Len(b) + 1
          /\ \A i \in 1 .. Len(b) : Append(b, e)[i] = b[i]
          /\ Append(b, e)[Len(b) + 1] = e /\ Len(b) \in Nat
      BY <1>2, <1>4, AppendEntries
    <2>2. \A i \in DOMAIN Append(b, e) : i \in DOMAIN b \/ i = Len(b) + 1
      BY <2>1
    <2> HIDE DEF b
    <2>3. \A x \in From(Append(b, e)) : x \in From(b) \/ x = n
      BY <1>2, <2>1, <2>2 DEF From
    <2> QED BY <2>3 DEF b
  <1>6. NoneBack
    BY <1>2, <1>3, <1>5 DEF NoneBack
  <1> QED BY <1>1, <1>6 DEF NoneIdle

LEMMA ServedGrows ==
  ASSUME QInv, [Next]_vars
  PROVE  Served \subseteq Served'
  <1>1. ASSUME NEW c \in Client, ClientAsks(c) PROVE NoneIdle /\ NoneBack
    BY <1>1, AsksServe
  <1>2. ASSUME NEW c \in Client, ClientLeaves(c) PROVE NoneIdle /\ NoneBack
    <2>1. answer' = [answer EXCEPT ![c] = "left"] /\ UNCHANGED backlog
      BY <1>2 DEF ClientLeaves
    <2>2. answer \in [Client -> Outcome \cup File]
      BY DEF QInv, TypeOK
    <2> QED BY <2>1, <2>2 DEF NoneIdle, NoneBack
  <1>3. ASSUME NEW n \in Node, NodeStep(n) PROVE NoneIdle /\ NoneBack
    <2>1. \/ Accepts(n) \/ Ends(n) \/ TimeoutImageQuery(n) \/ TransferEnds(n) \/ Hangs(n)
          \/ \E m \in Node : PassesOn(n, m) \/ Sends(n, m)
      BY <1>3, NodeStepCases
    <2>2. CASE TimeoutImageQuery(n)
      <3>1. answer' = Answered(imageClient[n], "nfound") /\ UNCHANGED backlog
        BY <2>2 DEF TimeoutImageQuery
      <3>2. NoneIdle
        BY <3>1, ToldNotIdle DEF Outcome
      <3> QED BY <3>1, <3>2 DEF NoneBack
    <2>3. CASE TransferEnds(n) \/ Hangs(n) \/ \E m \in Node : PassesOn(n, m)
      <3>1. UNCHANGED <<answer, backlog>>
        BY <2>3 DEF TransferEnds, Hangs, PassesOn
      <3> QED BY <3>1 DEF NoneIdle, NoneBack
    <2> QED BY <2>1, <2>2, <2>3, AcceptsServe, EndsServe, SendsServe
  <1>4. ASSUME UNCHANGED vars PROVE NoneIdle /\ NoneBack
    <2>1. UNCHANGED <<answer, backlog>>
      BY <1>4 DEF vars
    <2> QED BY <2>1 DEF NoneIdle, NoneBack
  <1> QED BY <1>1, <1>2, <1>3, <1>4, ServedStay DEF Next

-----------------------------------------------------------------------------
(* A step does to searches one of three things.                            *)

\* No search starts; one is read and goes no further, at most.
ReadsOne ==
  /\ UNCHANGED history
  /\ \/ UNCHANGED link
     \/ \E m, n \in Node : link[m][n] # <<>> /\ link' = [link EXCEPT ![m][n] = Tail(@)]

\* A client that n has not taken up before starts one.
Starts(n) ==
  \E c \in Client, f \in File :
     /\ c \notin Served /\ c \in Served'
     /\ QueryNetworkForImage(n, Original(n, f), NoNode, link)

Quiet == UNCHANGED <<history, link>>

LEMMA AcceptsSearches ==
  ASSUME QInv, NEW n \in Node, Accepts(n)
  PROVE  Quiet \/ Starts(n)
  <1> DEFINE e == Head(backlog[n])
  <1>1. CASE Quiet
    BY <1>1
  <1>2. CASE e.from \in Client /\ SearchNetwork(n, e.from, e.file)
    <2> DEFINE c == e.from
    <2>1. /\ QueryNetworkForImage(n, Original(n, e.file), NoNode, link) /\ UNCHANGED answer
          /\ c \in Client /\ backlog[n] # <<>> /\ UNCHANGED request
          /\ backlog' = [backlog EXCEPT ![n] = Tail(@)]
      BY <1>2 DEF SearchNetwork, Accepts
    <2>2. /\ e \in Incoming /\ c \in From(backlog[n])
          /\ From(backlog'[n]) = From(backlog[n]) \ {c}
          /\ \A m \in Node : m # n => backlog'[m] = backlog[m]
      BY <2>1, AcceptKeeps
    <2>3. request[c].node = n /\ answer[c] \in {"waiting", "left"}
      BY <2>1, <2>2 DEF QInv, InLine
    <2>4. \A m \in Node : m # n => c \notin From(backlog[m])
      BY <2>1, <2>3 DEF QInv, InLine
    <2>5. e.file \in File
      BY <2>2 DEF Incoming
    <2> HIDE DEF c
    <2>6. c \notin Served
      BY <2>2 DEF Served
    <2>7. \A m \in Node : c \notin From(backlog'[m])
      BY <2>2, <2>4
    <2>8. c \in Served'
      BY <2>1, <2>3, <2>7 DEF Served, From
    <2> QED BY <2>1, <2>5, <2>6, <2>8 DEF Starts
  <1>3. Quiet \/ (e.from \in Client /\ SearchNetwork(n, e.from, e.file))
    BY DEF Accepts, RejectImageQuery, FindLocally, ReceiveTransfer, Quiet
  <1> QED BY <1>1, <1>2, <1>3

\* Handlers that end the process without having read a search.
LEMMA P2pSearches ==
  ASSUME NEW n \in Node, NEW m \in Node, HandleP2pTraffic(n, m)
  PROVE  ReadsOne \/ PassesOn(n, m)
  <1> DEFINE q == Head(link[m][n])
             rest == [link EXCEPT ![m][n] = Tail(@)]
  <1>1. link[m][n] # <<>> /\ UNCHANGED <<searchId, request>>
    BY DEF HandleP2pTraffic
  <1>2. \/ link' = rest /\ UNCHANGED history
        \/ /\ QueryNetworkForImage(n, q, m, rest)
           /\ UNCHANGED <<status, imageClient, backlog, sending, sock, answer>>
        \/ UNCHANGED <<history, link>>
    BY DEF HandleP2pTraffic, ProcessImageQuery, TwoQueriesInOneRead
  <1> QED BY <1>1, <1>2 DEF ReadsOne, PassesOn

LEMMA SearchCases ==
  ASSUME QInv, [Next]_vars
  PROVE  ReadsOne \/ \E n \in Node : Starts(n) \/ \E m \in Node : PassesOn(n, m)
  <1>1. Quiet => ReadsOne
    BY DEF Quiet, ReadsOne
  <1>2. ASSUME NEW c \in Client, ClientAsks(c) \/ ClientLeaves(c) PROVE Quiet
    BY <1>2 DEF ClientAsks, ClientLeaves, Quiet
  <1>3. ASSUME NEW n \in Node, HandleImageTraffic(n) PROVE Quiet \/ Starts(n)
    <2>1. Accepts(n) \/ Quiet
      BY <1>3 DEF HandleImageTraffic, Accepts, Quiet
    <2> QED BY <2>1, AcceptsSearches
  <1>4. ASSUME NEW n \in Node,
               \/ TimeoutImageQuery(n) \/ TransferEnds(n) \/ TransferBreaks(n)
               \/ \E m \in Node : HandleEndOfStream(n, m)
        PROVE  Quiet
    BY <1>4 DEF TimeoutImageQuery, TransferEnds, TransferBreaks, HandleEndOfStream, Quiet
  <1>5. ASSUME NEW n \in Node, NEW m \in Node, HandleP2pTraffic(n, m)
        PROVE  ReadsOne \/ PassesOn(n, m)
    BY <1>5, P2pSearches
  <1>6. UNCHANGED vars => Quiet
    BY DEF vars, Quiet
  <1> QED BY <1>1, <1>2, <1>3, <1>4, <1>5, <1>6 DEF Next, NodeStep

-----------------------------------------------------------------------------
(* The inductive invariant.                                                *)

LEMMA FInvInit == Init => FInv
  <1> SUFFICES ASSUME Init PROVE FInv
    OBVIOUS
  <1>1. /\ history = [n \in Node |-> <<>>] /\ link = [m \in Node |-> [n \in Node |-> <<>>]]
        /\ answer = [c \in Client |-> "idle"]
    BY DEF Init
  <1>2. NoRepeats(<<>>) /\ Entries(<<>>) = {} /\ DOMAIN <<>> = {}
    BY DEF NoRepeats, Entries
  <1>3. LinksOK(link, history) /\ HistoriesOK(history)
    <2>1. \A m, n \in Node : link[m][n] = <<>> /\ history[n] = <<>>
      BY <1>1
    <2> QED BY <1>2, <2>1 DEF LinksOK, HistoriesOK
  <1>4. Seen(history) = {} /\ Served = {}
    <2>1. \A n \in Node : Entries(history[n]) = {}
      BY <1>1, <1>2
    <2>2. Seen(history) = {}
      BY <2>1 DEF Seen
    <2> QED BY <1>1, <2>2 DEF Served
  <1>5. SearchesCounted
    BY <1>4, FS_EmptySet DEF SearchesCounted
  <1>6. CameElsewhere(link, history)
    <2>1. \A m, n \in Node : Entries(link[m][n]) = {}
      BY <1>1, <1>2
    <2> QED BY <2>1 DEF CameElsewhere
  <1> QED BY <1>3, <1>5, <1>6 DEF FInv

\* Fewer searches than clients: a history forgets nothing for a search that has
\* been seen, or for a client that is taken up now.
LEMMA SearchesStayCounted ==
  ASSUME HistoryRoom, QInv, FInv, NEW k, Served \subseteq Served',
         k \in Seen(history) \/ \E c \in Client : c \notin Served /\ c \in Served'
  PROVE  /\ IsFiniteSet(Seen(history) \cup {k})
         /\ Cardinality(Seen(history) \cup {k}) <= Cardinality(Served')
         /\ Cardinality(Seen(history) \cup {k}) <= PR_MAXPEERS
  <1>1. /\ IsFiniteSet(Client) /\ Cardinality(Client) <= PR_MAXPEERS
        /\ Served \subseteq Client /\ Served' \subseteq Client
        /\ IsFiniteSet(Seen(history)) /\ Cardinality(Seen(history)) <= Cardinality(Served)
    BY DEF HistoryRoom, Served, FInv, SearchesCounted
  <1> DEFINE S == Served
             T == Served'
             H == Seen(history)
  <1>2. S \subseteq T /\ S \subseteq Client /\ T \subseteq Client
    BY <1>1
  <1>3. k \in H \/ \E c \in Client : c \notin S /\ c \in T
    OBVIOUS
  <1>4. IsFiniteSet(H) /\ Cardinality(H) <= Cardinality(S)
    BY <1>1
  <1> SUFFICES /\ IsFiniteSet(H \cup {k})
               /\ Cardinality(H \cup {k}) <= Cardinality(T)
               /\ Cardinality(H \cup {k}) <= PR_MAXPEERS
    OBVIOUS
  <1> HIDE DEF S, T, H
  <1>5. /\ IsFiniteSet(S) /\ IsFiniteSet(T)
        /\ Cardinality(S) <= Cardinality(T) /\ Cardinality(T) <= Cardinality(Client)
    <2>1. IsFiniteSet(T) /\ Cardinality(T) <= Cardinality(Client)
      BY <1>1, <1>2, FS_Subset
    <2> QED BY <1>2, <2>1, FS_Subset
  <1>6. /\ Cardinality(S) \in Nat /\ Cardinality(T) \in Nat /\ Cardinality(Client) \in Nat
        /\ Cardinality(H) \in Nat
    BY <1>1, <1>4, <1>5, FS_CardinalityType
  <1>7. /\ IsFiniteSet(H \cup {k})
        /\ Cardinality(H \cup {k}) = IF k \in H THEN Cardinality(H) ELSE Cardinality(H) + 1
    BY <1>4, FS_AddElement
  <1>8. CASE k \in H
    BY <1>1, <1>4, <1>5, <1>6, <1>7, <1>8
  <1>9. CASE k \notin H
    <2>1. PICK c \in Client : c \notin S /\ c \in T
      BY <1>3, <1>9
    <2>2. S \cup {c} \subseteq T
      BY <1>2, <2>1
    <2>3. Cardinality(S \cup {c}) = Cardinality(S) + 1
      BY <1>5, <2>1, FS_AddElement
    <2>4. Cardinality(S \cup {c}) <= Cardinality(T)
      BY <1>5, <2>2, FS_Subset
    <2> QED BY <1>1, <1>4, <1>5, <1>6, <1>7, <1>9, <2>3, <2>4
  <1> QED BY <1>8, <1>9

\* A search spreads.
LEMMA FloodKeepsFInv ==
  ASSUME HistoryRoom, QInv, FInv, NEW n \in Node, NEW q \in Query, NEW from,
         NEW l \in [Node -> [Node -> Seq(Query)]], LinksOK(l, history),
         CameElsewhere(l, history), Source(n, q, from),
         QueryNetworkForImage(n, q, from, l), Served \subseteq Served',
         \/ Key(q) \in Seen(history)
         \/ \E c \in Client : c \notin Served /\ c \in Served'
  PROVE  FInv'
  <1>1. /\ IsFiniteSet(Seen(history) \cup {Key(q)})
        /\ Cardinality(Seen(history) \cup {Key(q)}) <= Cardinality(Served')
        /\ Cardinality(Seen(history) \cup {Key(q)}) <= PR_MAXPEERS
    BY SearchesStayCounted
  <1>2. /\ history \in [Node -> Histories] /\ HistoriesOK(history)
        /\ IsFiniteSet(Seen(history))
    BY DEF QInv, TypeOK, Histories, FInv, SearchesCounted
  <1>3. HasSeenP2pImageQuery(history[n], q) \/ Len(history[n]) # PR_MAXPEERS
    <2>1. CASE Key(q) \in Entries(history[n])
      BY <2>1 DEF Entries, HasSeenP2pImageQuery
    <2>2. CASE Key(q) \notin Entries(history[n])
      BY <1>1, <1>2, <2>2, RoomForOne
    <2> QED BY <2>1, <2>2
  <1>4. /\ LinksOK(link', history') /\ HistoriesOK(history')
        /\ Seen(history') \subseteq Seen(history) \cup {Key(q)}
        /\ Remembered /\ Copies(l, n, q, from)
    BY <1>2, <1>3, FloodsNew
  <1>5. SearchesCounted'
    <2> DEFINE H == Seen(history) \cup {Key(q)}
               G == Seen(history')
               T == Served'
    <2>1. G \subseteq H /\ IsFiniteSet(H) /\ Cardinality(H) <= Cardinality(T)
      BY <1>1, <1>4
    <2>2. IsFiniteSet(T)
      <3>1. Served' \subseteq Client /\ IsFiniteSet(Client)
        BY DEF Served, HistoryRoom
      <3> QED BY <3>1, FS_Subset
    <2>3. SearchesCounted' <=> IsFiniteSet(G) /\ Cardinality(G) <= Cardinality(T)
      BY DEF SearchesCounted
    <2> HIDE DEF G, H, T
    <2>4. IsFiniteSet(G) /\ Cardinality(G) <= Cardinality(H)
      BY <2>1, FS_Subset
    <2>5. Cardinality(G) \in Nat /\ Cardinality(H) \in Nat /\ Cardinality(T) \in Nat
      BY <2>1, <2>2, <2>4, FS_CardinalityType
    <2> QED BY <2>1, <2>3, <2>4, <2>5
  <1>6. CameElsewhere(link', history')
    BY <1>4, FloodsElsewhere
  <1> QED BY <1>4, <1>5, <1>6 DEF FInv

LEMMA FInvNext == HistoryRoom /\ QInv /\ FInv /\ [Next]_vars => FInv'
  <1> SUFFICES ASSUME HistoryRoom, QInv, FInv, [Next]_vars PROVE FInv'
    OBVIOUS
  <1>1. Served \subseteq Served'
    BY ServedGrows
  <1>2. /\ link \in [Node -> [Node -> Seq(Query)]] /\ LinksOK(link, history)
        /\ HistoriesOK(history) /\ CameElsewhere(link, history)
    BY DEF QInv, TypeOK, FInv
  <1>3. CASE ReadsOne
    <2>1. UNCHANGED history
      BY <1>3 DEF ReadsOne
    <2>2. /\ LinksOK(link', history)
          /\ \A p, r \in Node : Entries(link'[p][r]) \subseteq Entries(link[p][r])
      BY <1>2, <1>3, ReadLinks DEF ReadsOne
    <2>3. LinksOK(link', history') /\ HistoriesOK(history')
      BY <1>2, <2>1, <2>2
    <2>5. CameElsewhere(link', history')
      BY <1>2, <2>1, <2>2, FewerElsewhere
    <2>4. SearchesCounted'
      <3> DEFINE H == Seen(history)
                 S == Served
                 T == Served'
      <3>1. IsFiniteSet(H) /\ Cardinality(H) <= Cardinality(S) /\ S \subseteq T
        BY <1>1 DEF FInv, SearchesCounted
      <3>2. IsFiniteSet(T)
        <4>1. Served' \subseteq Client /\ IsFiniteSet(Client)
          BY DEF Served, HistoryRoom
        <4> QED BY <4>1, FS_Subset
      <3>3. SearchesCounted' <=> IsFiniteSet(H) /\ Cardinality(H) <= Cardinality(T)
        BY <2>1 DEF SearchesCounted
      <3> HIDE DEF H, S, T
      <3>4. IsFiniteSet(S) /\ Cardinality(S) <= Cardinality(T)
        BY <3>1, <3>2, FS_Subset
      <3>5. Cardinality(H) \in Nat /\ Cardinality(S) \in Nat /\ Cardinality(T) \in Nat
        BY <3>1, <3>2, <3>4, FS_CardinalityType
      <3> QED BY <3>1, <3>3, <3>4, <3>5
    <2> QED BY <2>3, <2>4, <2>5 DEF FInv
  <1>4. ASSUME NEW n \in Node, Starts(n) PROVE FInv'
    <2>1. PICK c \in Client, f \in File :
             /\ c \notin Served /\ c \in Served'
             /\ QueryNetworkForImage(n, Original(n, f), NoNode, link)
      BY <1>4 DEF Starts
    <2>2. Original(n, f) \in Query
      <3>1. GenSearchId(n) \in 0 .. SearchIds - 1
        BY GenSearchIdType DEF QInv
      <3> QED BY <3>1 DEF Original, Query
    <2>3. Source(n, Original(n, f), NoNode)
      BY DEF Source, Original
    <2> QED BY <1>1, <1>2, <2>1, <2>2, <2>3, FloodKeepsFInv
  <1>5. ASSUME NEW n \in Node, NEW m \in Node, PassesOn(n, m) PROVE FInv'
    <2> DEFINE q == Head(link[m][n])
               l == [link EXCEPT ![m][n] = Tail(@)]
    <2>1. link[m][n] # <<>> /\ QueryNetworkForImage(n, q, m, l)
      BY <1>5 DEF PassesOn
    <2>2. /\ LinksOK(l, history) /\ l \in [Node -> [Node -> Seq(Query)]]
          /\ q \in Query /\ q \in Entries(link[m][n]) /\ Key(q) \in Entries(history[m])
          /\ \A p, r \in Node : Entries(l[p][r]) \subseteq Entries(link[p][r])
      BY <1>2, <2>1, ReadLinks
    <2>3. Key(q) \in Seen(history)
      BY <2>2 DEF Seen
    <2> HIDE DEF q, l
    <2>4. CameElsewhere(l, history)
      BY <1>2, <2>2, FewerElsewhere
    <2>5. n \in Links[m]
      BY <1>2, <2>2 DEF CameElsewhere
    <2>6. Source(n, q, m)
      BY <2>2, <2>5, LinksAssumption DEF Source
    <2> QED BY <1>1, <2>1, <2>2, <2>3, <2>4, <2>6, FloodKeepsFInv
  <1> QED BY <1>3, <1>4, <1>5, SearchCases

\* As long as the histories have room for a search of every client, the flood is
\* sound in every overlay: a link carries one copy of a search, the node that sent
\* it remembers it (HasSeenP2pImageQuery, AddImageQuery), and has it from another
\* peer than the one it sent it to (QueryNetworkForImage).
THEOREM FloodOnceHolds ==
  ASSUME HistoryRoom
  PROVE  Spec => []FloodOnce
  <1>1. FInv /\ QInv => FloodOnce
    <2> SUFFICES ASSUME FInv, QInv, NEW m \in Node, NEW n \in Node
                 PROVE  /\ Cardinality(Sent(m, n)) = Len(link[m][n])
                        /\ \A q \in Sent(m, n) :
                              /\ HasSeenP2pImageQuery(history[m], q)
                              /\ \/ q.orig = m
                                 \/ \E r \in Links[m] \ {n} : HasSeenP2pImageQuery(history[r], q)
      BY DEF FloodOnce
    <2>1. link[m][n] \in Seq(Query) /\ Sent(m, n) = Entries(link[m][n])
      BY DEF QInv, TypeOK, Sent, Entries
    <2>2. /\ NoRepeats(link[m][n])
          /\ \A q \in Entries(link[m][n]) : Key(q) \in Entries(history[m])
      BY LinksByEntries DEF FInv
    <2>3. Cardinality(Sent(m, n)) = Len(link[m][n])
      BY <2>1, <2>2, CountEntries
    <2>4. \A p, q : Key(q) \in Entries(history[p]) => HasSeenP2pImageQuery(history[p], q)
      BY DEF Entries, HasSeenP2pImageQuery
    <2>5. ASSUME NEW q \in Sent(m, n)
          PROVE  q.orig = m \/ \E r \in Links[m] \ {n} : Key(q) \in Entries(history[r])
      BY <2>1, <2>5 DEF FInv, CameElsewhere
    <2> QED BY <2>1, <2>2, <2>3, <2>4, <2>5
  <1>2. QInv /\ FInv /\ [Next]_vars => FInv'
    BY FInvNext
  <1>3. Spec => [](QInv /\ FInv)
    BY <1>2, FInvInit, QInvInit, QInvNext, PTL DEF Spec
  <1> QED BY <1>1, <1>3, PTL

=============================================================================
