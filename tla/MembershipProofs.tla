-------------------------- MODULE MembershipProofs --------------------------
(* What two nodes know of each other: they agree that they are peers, a    *)
(* pending peer owes an answer, a rejecter is listed once, and Peering     *)
(* implements Membership.  For every finite set of nodes and every limit.  *)
EXTENDS PeeringProofs

USE NodeAssumption, MaxRejectedAssumption, MaxPeersAssumption,
    PrMaxPeersAssumption, NoNodeAssumption, MaxStopsAssumption,
    CrossingSynsAssumption

-----------------------------------------------------------------------------
(* What makes ConnectedAgreement and PendingAnswered inductive.            *)

\* A WELCOME on the wire comes from a
\* node that has registered the reader, and a request whose sender has closed its
\* end comes from a process that has ended.
WelcomeTrue ==
    \A n, m \in Node :
       inbox[n][m].type = "WELCOME" =>
          IsConnectedPeer(table[m], n) \/ status[m] \in Ended

AskerGone ==
    \A n, m \in Node :
       sock[n][m] = "queued" /\ sock[m][n] = "closed" => status[m] \in Ended

Agreement == ConnectedAgreement /\ WelcomeTrue /\ AskerGone

\* A process that has ended holds no end of a connection.
EndedClosed ==
    \A n, m \in Node : status[n] \in Ended => sock[n][m] \in {"none", "closed"}

Answers == PendingAnswered /\ EndedClosed

-----------------------------------------------------------------------------
(* Agreement is inductive, given IInv.                                     *)

\* A step that connects nobody, sends no WELCOME, and leaves no new request
\* whose sender has closed its end.
ConnectsNobody ==
    /\ \A p, q \in Node :
          /\ table'[p][q] = "connected" <=> table[p][q] = "connected"
          /\ inbox'[p][q].type = "WELCOME" <=> inbox[p][q].type = "WELCOME"
          /\ sock'[p][q] = "queued" /\ sock'[q][p] = "closed" =>
                sock[p][q] = "queued" /\ sock[q][p] = "closed"
    /\ \A p \in Node : status[p] \in Ended => status'[p] \in Ended

\* Such a step keeps the agreement.
LEMMA AgreementNobody ==
  ASSUME Agreement, ConnectsNobody
  PROVE  Agreement'
  <1>1. ConnectedAgreement'
    BY DEF Agreement, ConnectedAgreement, ConnectsNobody, IsConnectedPeer
  <1>2. WelcomeTrue'
    BY DEF Agreement, WelcomeTrue, ConnectsNobody, IsConnectedPeer
  <1>3. AskerGone'
    BY DEF Agreement, AskerGone, ConnectsNobody
  <1> QED BY <1>1, <1>2, <1>3 DEF Agreement

\* A node that ends takes nobody's agreement with it.
LEMMA AgreementDies ==
  ASSUME Agreement, NEW n \in Node, Dies(n)
  PROVE  Agreement'
  <1> USE DEF Dies
  <1>1. ConnectedAgreement'
    <2> SUFFICES ASSUME NEW p \in Node, NEW q \in Node, table'[p][q] = "connected"
                 PROVE  \/ table'[q][p] = "connected"
                        \/ inbox'[q][p].type = "WELCOME"
                        \/ status'[q] \in Ended
      BY DEF ConnectedAgreement, IsConnectedPeer
    <2>1. p # n /\ table[p][q] = "connected"
      BY DEF EmptyTable
    <2>2. \/ table[q][p] = "connected"
          \/ inbox[q][p].type = "WELCOME"
          \/ status[q] \in Ended
      BY <2>1 DEF Agreement, ConnectedAgreement, IsConnectedPeer
    <2>3. CASE q = n
      BY <2>3
    <2>4. CASE q # n
      BY <2>1, <2>2, <2>4
    <2> QED BY <2>3, <2>4
  <1>2. WelcomeTrue'
    <2> SUFFICES ASSUME NEW p \in Node, NEW q \in Node, inbox'[p][q].type = "WELCOME"
                 PROVE  table'[q][p] = "connected" \/ status'[q] \in Ended
      BY DEF WelcomeTrue, IsConnectedPeer
    <2>1. p # n
      BY DEF NoMsg
    <2>2. CASE q # n
      BY <2>1, <2>2 DEF Agreement, WelcomeTrue, IsConnectedPeer
    <2> QED BY <2>2
  <1>3. AskerGone'
    <2> SUFFICES ASSUME NEW p \in Node, NEW q \in Node,
                        sock'[p][q] = "queued", sock'[q][p] = "closed"
                 PROVE  status'[q] \in Ended
      BY DEF AskerGone
    <2>1. p # n
      OBVIOUS
    <2>2. CASE q # n
      BY <2>1, <2>2 DEF Agreement, AskerGone
    <2> QED BY <2>2
  <1> QED BY <1>1, <1>2, <1>3 DEF Agreement

\* connectToFirstPeer().
LEMMA FirstPeerNobody ==
  ASSUME IInv, NEW n \in Node, NEW m \in Node, ConnectToFirstPeer(n, m)
  PROVE  ConnectsNobody
  <1>0. TypeOK
    BY DEF IInv
  <1>1. /\ status[n] = "down" /\ n # m
        /\ status' = [status EXCEPT ![n] = "starting"]
        /\ table' = [table EXCEPT ![n] = RegisterPendingPeer(@, m)]
        /\ sock' = Connected(sock, n, m) /\ inbox' = inbox
    BY DEF ConnectToFirstPeer
  <1>2. table \in [Node -> Table] /\ sock \in [Node -> [Node -> End]]
    BY <1>0 DEF TypeOK
  <1>3. m \notin Peers(table[n])
    BY <1>1 DEF IInv, NotStarted, SocketsMatchTable
  <1>4. /\ RegisterPendingPeer(table[n], m)[m] = "pending"
        /\ \A q \in Node \ {m} : RegisterPendingPeer(table[n], m)[q] = table[n][q]
    BY <1>2, RegisterEntries
  <1>5. \A p, q \in Node : table'[p][q] = "connected" <=> table[p][q] = "connected"
    BY <1>1, <1>2, <1>3, <1>4 DEF Peers
  <1>6. /\ sock'[n][m] = "open"
        /\ \A p, q \in Node :
              (p # n \/ q # m) /\ (p # m \/ q # n) => sock'[p][q] = sock[p][q]
    BY <1>1, <1>2, ConnectedEnds
  <1>7. \A p \in Node : status[p] \in Ended => status'[p] \in Ended
    BY <1>0, <1>1 DEF TypeOK, Ended
  <1> QED BY <1>1, <1>5, <1>6, <1>7 DEF ConnectsNobody

\* A request that is turned away, or whose sender cannot be answered.
LEMMA TurnedAwayNobody ==
  ASSUME IInv, NEW n \in Node, NEW m \in Node, sock[n][m] = "queued",
         RedirectPeer(n, m) \/ ResponseFails(n, m)
  PROVE  ConnectsNobody
  <1>0. TypeOK
    BY DEF IInv
  <1>1. /\ sock' = Closed(sock, n, m)
        /\ UNCHANGED <<status, table>>
        /\ \/ inbox' = inbox
           \/ \E S \in JoinPeers(n) : inbox' = Delivered(n, m, "REDIRECT", S)
    BY DEF RedirectPeer, ResponseFails
  <1>2. n # m /\ inbox[m][n] = NoMsg
    BY QueuedFacts
  <1>3. \A p, q \in Node : inbox'[p][q].type = "WELCOME" <=> inbox[p][q].type = "WELCOME"
    <2>1. inbox \in [Node -> [Node -> Response]]
      BY <1>0 DEF TypeOK
    <2>2. CASE inbox' = inbox
      BY <2>2
    <2>3. ASSUME NEW S, inbox' = [inbox EXCEPT ![m][n] = [type |-> "REDIRECT", peers |-> S]]
          PROVE  \A p, q \in Node :
                    inbox'[p][q].type = "WELCOME" <=> inbox[p][q].type = "WELCOME"
      <3>1. inbox'[m][n].type = "REDIRECT" /\ inbox[m][n].type = "none"
        BY <1>2, <2>1, <2>3 DEF NoMsg
      <3>2. \A p, q \in Node : p # m \/ q # n => inbox'[p][q] = inbox[p][q]
        BY <2>1, <2>3
      <3> QED BY <3>1, <3>2
    <2> QED BY <1>1, <2>2, <2>3 DEF Delivered
  <1>4. sock \in [Node -> [Node -> End]]
    BY <1>0 DEF TypeOK
  <1>5. /\ sock'[n][m] = IF Alive(sock[m][n]) THEN "closed" ELSE "none"
        /\ \A p, q \in Node : p # n \/ q # m => sock'[p][q] = sock[p][q]
    BY <1>1, <1>4, ClosedEnds
  <1>6. sock[m][n] # "queued"
    BY QueuedFacts
  <1> QED BY <1>1, <1>2, <1>3, <1>5, <1>6 DEF ConnectsNobody

\* acceptPeerRequest(): the WELCOME tells the truth, and a request whose sender
\* has closed its end comes from a process that has ended.
LEMMA AgreementAccept ==
  ASSUME IInv, Agreement, NEW n \in Node, NEW m \in Node, sock[n][m] = "queued",
         AcceptPeerRequest(n, m)
  PROVE  Agreement'
  <1>0. TypeOK
    BY DEF IInv
  <1>1. /\ table' = [table EXCEPT ![n] = RegisterConnectedPeer(@, m)]
        /\ sock' = [sock EXCEPT ![n][m] = "open"]
        /\ status' = status
        /\ \E S \in JoinPeers(n) : inbox' = Delivered(n, m, "WELCOME", S)
    BY DEF AcceptPeerRequest
  <1>2. /\ n # m /\ sock[m][n] \in {"open", "closed"}
        /\ inbox[n][m] = NoMsg
    BY QueuedFacts
  <1>3. /\ table \in [Node -> Table] /\ sock \in [Node -> [Node -> End]]
        /\ inbox \in [Node -> [Node -> Response]]
    BY <1>0 DEF TypeOK
  <1>4. /\ table'[n][m] = "connected"
        /\ \A p, q \in Node : p # n \/ q # m => table'[p][q] = table[p][q]
    <2>1. /\ RegisterConnectedPeer(table[n], m)[m] = "connected"
          /\ \A q \in Node \ {m} : RegisterConnectedPeer(table[n], m)[q] = table[n][q]
      BY <1>3, RegisterEntries
    <2> QED BY <1>1, <1>3, <2>1
  <1>5. inbox'[m][n].type = "WELCOME" \/ status[m] \in Ended
    <2>1. CASE sock[m][n] = "open"
      BY <1>1, <1>3, <2>1 DEF Delivered
    <2>2. CASE sock[m][n] = "closed"
      BY <2>2 DEF Agreement, AskerGone
    <2> QED BY <1>2, <2>1, <2>2
  <1>6. \A p, q \in Node : p # m \/ q # n => inbox'[p][q] = inbox[p][q]
    BY <1>1, <1>3 DEF Delivered
  <1>7. ConnectedAgreement'
    <2> SUFFICES ASSUME NEW p \in Node, NEW q \in Node, table'[p][q] = "connected"
                 PROVE  \/ table'[q][p] = "connected"
                        \/ inbox'[q][p].type = "WELCOME"
                        \/ status'[q] \in Ended
      BY DEF ConnectedAgreement, IsConnectedPeer
    <2>1. CASE p = n /\ q = m
      BY <1>1, <1>5, <2>1
    <2>2. CASE p = m /\ q = n
      BY <1>4, <2>2
    <2>3. CASE (p # n \/ q # m) /\ (p # m \/ q # n)
      <3>1. \/ table[q][p] = "connected"
            \/ inbox[q][p].type = "WELCOME"
            \/ status[q] \in Ended
        BY <1>4, <2>3 DEF Agreement, ConnectedAgreement, IsConnectedPeer
      <3>2. table'[q][p] = table[q][p] /\ inbox'[q][p] = inbox[q][p]
        BY <1>4, <1>6, <2>3
      <3> QED BY <1>1, <3>1, <3>2
    <2> QED BY <2>1, <2>2, <2>3
  <1>8. WelcomeTrue'
    <2> SUFFICES ASSUME NEW p \in Node, NEW q \in Node, inbox'[p][q].type = "WELCOME"
                 PROVE  table'[q][p] = "connected" \/ status'[q] \in Ended
      BY DEF WelcomeTrue, IsConnectedPeer
    <2>1. CASE p = m /\ q = n
      BY <1>4, <2>1
    <2>2. CASE p # m \/ q # n
      <3>1. table[q][p] = "connected" \/ status[q] \in Ended
        BY <1>6, <2>2 DEF Agreement, WelcomeTrue, IsConnectedPeer
      <3> QED BY <1>1, <1>4, <3>1
    <2> QED BY <2>1, <2>2
  <1>9. AskerGone'
    BY <1>1, <1>2, <1>3 DEF Agreement, AskerGone
  <1> QED BY <1>7, <1>8, <1>9 DEF Agreement

\* A WELCOME read by handleP2pTraffic() comes from a node that has registered
\* this one, or has ended since.
LEMMA AgreementWelcome ==
  ASSUME IInv, Agreement, NEW n \in Node, NEW m \in Node, HandleWelcome(n, m),
         inbox' = [inbox EXCEPT ![n][m] = NoMsg], status' = status
  PROVE  Agreement'
  <1>0. TypeOK
    BY DEF IInv
  <1>1. /\ inbox[n][m].type = "WELCOME"
        /\ table' = [table EXCEPT ![n] = RegisterConnectedPeer(table[n], m)]
        /\ sock' = sock
    BY DEF HandleWelcome
  <1>2. table \in [Node -> Table] /\ inbox \in [Node -> [Node -> Response]]
    BY <1>0 DEF TypeOK
  <1>3. /\ table'[n][m] = "connected"
        /\ \A p, q \in Node : p # n \/ q # m => table'[p][q] = table[p][q]
    <2>1. /\ RegisterConnectedPeer(table[n], m)[m] = "connected"
          /\ \A q \in Node \ {m} : RegisterConnectedPeer(table[n], m)[q] = table[n][q]
      BY <1>2, RegisterEntries
    <2> QED BY <1>1, <1>2, <2>1
  <1>4. /\ inbox'[n][m] = NoMsg
        /\ \A p, q \in Node : p # n \/ q # m => inbox'[p][q] = inbox[p][q]
    BY <1>2
  <1>5. table[m][n] = "connected" \/ status[m] \in Ended
    BY <1>1 DEF Agreement, WelcomeTrue, IsConnectedPeer
  <1>6. ConnectedAgreement'
    <2> SUFFICES ASSUME NEW p \in Node, NEW q \in Node, table'[p][q] = "connected"
                 PROVE  \/ table'[q][p] = "connected"
                        \/ inbox'[q][p].type = "WELCOME"
                        \/ status'[q] \in Ended
      BY DEF ConnectedAgreement, IsConnectedPeer
    <2>1. CASE p = n /\ q = m
      BY <1>3, <1>5, <2>1
    <2>2. CASE p = m /\ q = n
      BY <1>3, <2>2
    <2>3. CASE (p # n \/ q # m) /\ (p # m \/ q # n)
      <3>1. \/ table[q][p] = "connected"
            \/ inbox[q][p].type = "WELCOME"
            \/ status[q] \in Ended
        BY <1>3, <2>3 DEF Agreement, ConnectedAgreement, IsConnectedPeer
      <3> QED BY <1>3, <1>4, <2>3, <3>1
    <2> QED BY <2>1, <2>2, <2>3
  <1>7. WelcomeTrue'
    <2> SUFFICES ASSUME NEW p \in Node, NEW q \in Node, inbox'[p][q].type = "WELCOME"
                 PROVE  table'[q][p] = "connected" \/ status'[q] \in Ended
      BY DEF WelcomeTrue, IsConnectedPeer
    <2>1. inbox[p][q].type = "WELCOME"
      BY <1>4 DEF NoMsg
    <2>2. table[q][p] = "connected" \/ status[q] \in Ended
      BY <2>1 DEF Agreement, WelcomeTrue, IsConnectedPeer
    <2> QED BY <1>3, <2>2
  <1>8. AskerGone'
    BY <1>1 DEF Agreement, AskerGone
  <1> QED BY <1>6, <1>7, <1>8 DEF Agreement

\* A REDIRECT read by handleP2pTraffic() takes a pending peer out of the table;
\* the redirecting node has closed its end already.
LEMMA RedirectNobody ==
  ASSUME IInv, NEW n \in Node, NEW m \in Node, HandleRedirect(n, m),
         inbox'[n][m] = NoMsg,
         \A p, q \in Node : p # n \/ q # m => inbox'[p][q] = inbox[p][q],
         status' = status
  PROVE  ConnectsNobody
  <1>0. TypeOK
    BY DEF IInv
  <1>1. /\ inbox[n][m].type = "REDIRECT" /\ table[n][m] = "pending"
        /\ table' = [table EXCEPT ![n] = RemovePeer(table[n], m)]
        /\ sock' = Closed(sock, n, m) \/ sock' = sock
    BY DEF HandleRedirect, CanRegisterRejected, IsPendingPeer
  <1>2. /\ table \in [Node -> Table] /\ inbox \in [Node -> [Node -> Response]]
        /\ sock \in [Node -> [Node -> End]]
    BY <1>0 DEF TypeOK
  <1>3. \A p, q \in Node : table'[p][q] = "connected" <=> table[p][q] = "connected"
    <2>1. /\ RemovePeer(table[n], m)[m] = "absent"
          /\ \A q \in Node \ {m} : RemovePeer(table[n], m)[q] = table[n][q]
      BY <1>2, RegisterEntries
    <2> QED BY <1>1, <1>2, <2>1
  <1>4. \A p, q \in Node : inbox'[p][q].type = "WELCOME" <=> inbox[p][q].type = "WELCOME"
    <2>1. inbox'[n][m].type = "none"
      BY DEF NoMsg
    <2> QED BY <1>1, <2>1
  <1>5. ~Alive(sock[m][n])
    BY <1>1 DEF IInv, RedirectCloses
  <1>6. CASE sock' = sock
    BY <1>3, <1>4, <1>6 DEF ConnectsNobody
  <1>7. CASE sock' = Closed(sock, n, m)
    <2>1. \A p, q \in Node : sock'[p][q] \in {"none", sock[p][q]}
      BY <1>2, <1>5, <1>7, CloseNobody
    <2>2. ASSUME NEW p \in Node, NEW q \in Node,
                 sock'[p][q] = "queued", sock'[q][p] = "closed"
          PROVE  sock[p][q] = "queued" /\ sock[q][p] = "closed"
      BY <2>1, <2>2
    <2> QED BY <1>3, <1>4, <2>2 DEF ConnectsNobody
  <1> QED BY <1>1, <1>6, <1>7

\* A recommended peer that is skipped, or connected to.
LEMMA TryNobody ==
  ASSUME IInv, NEW n \in Node, NEW m \in Node, m \in todo[n],
         ConnectToPeer(n, m) \/ BusyAddress(n, m)
  PROVE  ConnectsNobody
  <1>0. TypeOK
    BY DEF IInv
  <1>1. /\ table \in [Node -> Table] /\ sock \in [Node -> [Node -> End]]
        /\ todo[n] \in SUBSET Node
    BY <1>0 DEF TypeOK
  <1>2. CASE ConnectToPeer(n, m)
    <2> DEFINE t == RegisterPendingPeer(table[n], m)
               ps == Remaining(n, m, t)
               s == Connected(sock, n, m)
    <2>1. /\ FreeAddress(sock, n, m)
          /\ table' = [table EXCEPT ![n] = t]
          /\ GoesOn(n, ps, s)
          /\ UNCHANGED <<status, inbox>>
      BY <1>2 DEF ConnectToPeer
    <2>2. n # m /\ m \notin Peers(table[n])
      BY <2>1, TryFacts
    <2>2a. closing[n] # m /\ closing[m] # n
      BY <2>1, TryFacts
    <2>3. t[m] = "pending" /\ \A q \in Node \ {m} : t[q] = table[n][q]
      BY <1>1, RegisterEntries
    <2>4. \A p, q \in Node : table'[p][q] = "connected" <=> table[p][q] = "connected"
      BY <1>1, <2>1, <2>2, <2>3 DEF Peers
    <2>5. /\ s \in [Node -> [Node -> End]]
          /\ s[n][m] = "open" /\ s[m][n] = "queued"
          /\ \A p, q \in Node :
                (p # n \/ q # m) /\ (p # m \/ q # n) => s[p][q] = sock[p][q]
      <3>1. s \in [Node -> [Node -> End]]
        BY <1>1, ConnectedType
      <3> QED BY <1>1, <2>2, <3>1, ConnectedEnds
    <2>6. ps \in SUBSET Node
      BY <1>0, RemainingType
    <2>7. closing[n] # NoNode => ~Alive(s[closing[n]][n])
      BY <2>2a, <2>5, ClosingFacts
    <2> HIDE DEF ps, s, t
    <2>8. AfterGoesOn(n, ps, s)
      BY <2>1, <2>5, <2>6, <2>7, GoesOnFacts
    <2>9. /\ closing[n] # NoNode => sock'[n][closing[n]] \in {"none", s[n][closing[n]]}
          /\ \A p, q \in Node : p # n \/ q # closing[n] => sock'[p][q] = s[p][q]
      BY <2>8 DEF AfterGoesOn
    <2>10. closing[n] # NoNode => ~Alive(s[closing[n]][n]) /\ s[n][closing[n]] = "open"
      BY <2>2a, <2>5, <2>7, ClosingFacts
    <2>11. ASSUME NEW p \in Node, NEW q \in Node,
                  sock'[p][q] = "queued", sock'[q][p] = "closed"
           PROVE  sock[p][q] = "queued" /\ sock[q][p] = "closed"
      <3>0. p # NoNode /\ q # NoNode
        BY NoNodeAssumption
      <3>1. sock'[p][q] = s[p][q] /\ sock'[q][p] = s[q][p]
        BY <2>9, <2>10, <2>11, <3>0 DEF Alive
      <3> QED BY <2>5, <2>11, <3>1
    <2> QED BY <2>1, <2>4, <2>11 DEF ConnectsNobody
  <1>3. CASE BusyAddress(n, m)
    <2> DEFINE ps == Remaining(n, m, table[n])
    <2>1. GoesOn(n, ps, sock) /\ UNCHANGED <<status, table, inbox>>
      BY <1>3 DEF BusyAddress
    <2>2. ps \in SUBSET Node
      BY <1>0, RemainingType
    <2>3. closing[n] # NoNode => ~Alive(sock[closing[n]][n]) /\ sock[n][closing[n]] = "open"
      BY ClosingFacts
    <2> HIDE DEF ps
    <2>4. AfterGoesOn(n, ps, sock)
      BY <1>1, <2>1, <2>2, <2>3, GoesOnFacts
    <2>5. /\ closing[n] # NoNode => sock'[n][closing[n]] \in {"none", sock[n][closing[n]]}
          /\ \A p, q \in Node : p # n \/ q # closing[n] => sock'[p][q] = sock[p][q]
      BY <2>4 DEF AfterGoesOn
    <2>6. ASSUME NEW p \in Node, NEW q \in Node,
                 sock'[p][q] = "queued", sock'[q][p] = "closed"
          PROVE  sock[p][q] = "queued" /\ sock[q][p] = "closed"
      <3>0. p # NoNode /\ q # NoNode
        BY NoNodeAssumption
      <3> QED BY <2>3, <2>5, <2>6, <3>0 DEF Alive
    <2> QED BY <2>1, <2>6 DEF ConnectsNobody
  <1> QED BY <1>2, <1>3

\* A simultaneous open.
LEMMA CrossNobody ==
  ASSUME IInv, NEW n \in Node, NEW m \in Node, CrossConnect(n, m)
  PROVE  ConnectsNobody
  <1>0. TypeOK
    BY DEF IInv
  <1>1. /\ m \in todo[n] /\ n \in todo[m] /\ n # m
        /\ table' = [table EXCEPT ![n] = RegisterPendingPeer(table[n], m),
                                  ![m] = RegisterPendingPeer(table[m], n)]
        /\ UNCHANGED <<status, inbox>>
    BY DEF CrossConnect, FreeAddress
  <1>2. m \notin Peers(table[n]) /\ n \notin Peers(table[m])
    BY <1>1 DEF IInv, TodoAvailable, CanRegisterPending, HasRemote
  <1>3. table[n] \in Table /\ table[m] \in Table /\ table \in [Node -> Table]
    BY <1>0 DEF TypeOK
  <1>4. /\ RegisterPendingPeer(table[n], m)[m] = "pending"
        /\ \A q \in Node \ {m} : RegisterPendingPeer(table[n], m)[q] = table[n][q]
        /\ RegisterPendingPeer(table[m], n)[n] = "pending"
        /\ \A q \in Node \ {n} : RegisterPendingPeer(table[m], n)[q] = table[m][q]
    BY <1>3, RegisterEntries
  <1>5. \A p, q \in Node : table'[p][q] = "connected" <=> table[p][q] = "connected"
    BY <1>1, <1>2, <1>3, <1>4 DEF Peers
  <1>6. \A p, q \in Node : sock'[p][q] \in {"open", "none", sock[p][q]}
    <2>1. AfterCross(n, m)
      BY CrossFacts
    <2> QED BY <2>1 DEF AfterCross
  <1>7. ASSUME NEW p \in Node, NEW q \in Node,
               sock'[p][q] = "queued", sock'[q][p] = "closed"
        PROVE  sock[p][q] = "queued" /\ sock[q][p] = "closed"
    BY <1>6, <1>7
  <1>8. status' = status /\ inbox' = inbox
    BY <1>1
  <1> QED BY <1>5, <1>7, <1>8 DEF ConnectsNobody

\* Every step of every node keeps the agreement.
LEMMA AgreementNext == IInv /\ Agreement /\ [Next]_vars => Agreement'
  <1> SUFFICES ASSUME IInv, Agreement, [Next]_vars PROVE Agreement'
    OBVIOUS
  <1>0. TypeOK
    BY DEF IInv
  <1>1. ASSUME NEW n \in Node, NEW how \in Ended, ProcessEnds(n, how)
        PROVE  Agreement'
    BY <1>0, <1>1, ProcessEndsDies, AgreementDies
  <1>2. ASSUME NEW n \in Node, NEW s \in Running, status[n] \notin Ended,
               status' = [status EXCEPT ![n] = s], UNCHANGED <<table, sock, inbox>>
        PROVE  Agreement'
    <2>1. ConnectsNobody
      BY <1>0, <1>2 DEF TypeOK, ConnectsNobody
    <2> QED BY <2>1, AgreementNobody
  <1>3. ASSUME NEW n \in Node, Start(n) \/ Listen(n) PROVE Agreement'
    BY <1>2, <1>3 DEF Start, Listen, Ended, Running
  <1>4. ASSUME NEW n \in Node, Stop(n) PROVE Agreement'
    BY <1>1, <1>4 DEF Stop, Ended
  <1>5. ASSUME NEW n \in Node, NEW m \in Node, ConnectToFirstPeer(n, m)
        PROVE  Agreement'
    BY <1>5, FirstPeerNobody, AgreementNobody
  <1>6. ASSUME NEW n \in Node, NEW m \in Node, HandlePeeringClient(n, m)
        PROVE  Agreement'
    <2>1. sock[n][m] = "queued" /\ todo[n] = {}
      BY <1>6 DEF HandlePeeringClient, AtSelect
    <2>2. CASE AcceptPeerRequest(n, m)
      BY <2>1, <2>2, AgreementAccept
    <2>3. CASE AcceptPeerRequestAborts(n, m)
      <3>1. Dies(n)
        BY <2>1, <2>3, AbortsDies
      <3> QED BY <3>1, AgreementDies
    <2>4. CASE RedirectPeer(n, m) \/ ResponseFails(n, m)
      BY <2>1, <2>4, TurnedAwayNobody, AgreementNobody
    <2> QED BY <1>6, <2>2, <2>3, <2>4 DEF HandlePeeringClient
  <1>7. ASSUME NEW n \in Node, NEW m \in Node, HandleP2pTraffic(n, m)
        PROVE  Agreement'
    <2>1. CASE HandleResponse(n, m)
      <3>1. inbox' = [inbox EXCEPT ![n][m] = NoMsg] /\ status' = status
        BY <2>1 DEF HandleResponse
      <3>2. CASE HandleWelcome(n, m)
        BY <3>1, <3>2, AgreementWelcome
      <3>3. CASE HandleRedirect(n, m)
        <4>1. /\ inbox'[n][m] = NoMsg
              /\ \A p, q \in Node : p # n \/ q # m => inbox'[p][q] = inbox[p][q]
          BY <1>0, <3>1 DEF TypeOK
        <4> QED BY <3>1, <3>3, <4>1, RedirectNobody, AgreementNobody
      <3> QED BY <2>1, <3>2, <3>3 DEF HandleResponse
    <2>2. CASE HandleEndOfStream(n, m)
      BY <1>2, <2>2 DEF HandleEndOfStream, AtSelect, Ended, Running
    <2>3. CASE HandleReset(n, m)
      BY <1>1, <2>3 DEF HandleReset, Ended
    <2> QED BY <1>7, <2>1, <2>2, <2>3 DEF HandleP2pTraffic
  <1>8. ASSUME NEW n \in Node, NEW m \in Node, TryPeer(n, m)
        PROVE  Agreement'
    <2>1. m \in todo[n]
      BY <1>8 DEF TryPeer
    <2>2. CASE ConnectToPeer(n, m) \/ BusyAddress(n, m)
      BY <2>1, <2>2, TryNobody, AgreementNobody
    <2>3. CASE ConnectRefused(n, m)
      BY <1>1, <2>3 DEF ConnectRefused, Ended
    <2> QED BY <1>8, <2>2, <2>3 DEF TryPeer
  <1>9. ASSUME NEW n \in Node, NEW m \in Node, CrossConnect(n, m)
        PROVE  Agreement'
    BY <1>9, CrossNobody, AgreementNobody
  <1>10. CASE UNCHANGED vars
    <2>1. ConnectsNobody
      BY <1>10 DEF vars, ConnectsNobody
    <2> QED BY <2>1, AgreementNobody
  <1>11. ASSUME NEW n \in Node, NEW m \in Node, Handler(n, m)
         PROVE  Agreement'
    BY <1>6, <1>7, <1>8, <1>11 DEF Handler
  <1> QED BY <1>3, <1>4, <1>5, <1>9, <1>10, <1>11 DEF Next

\* Peering starts with no peers, no response on the wire and no request.
LEMMA AgreementInit == Init => Agreement
  BY DEF Init, NoSockets, NoMsg, EmptyTable, IsConnectedPeer, Agreement,
         ConnectedAgreement, WelcomeTrue, AskerGone

\* Agreement holds throughout.
THEOREM AgreementHolds == Spec => []Agreement
  <1>1. IInv /\ Agreement /\ [Next]_vars => Agreement'
    BY AgreementNext
  <1> QED BY <1>1, AgreementInit, InductiveInvariant, PTL DEF Spec

\* Two live nodes agree that they are peers (acceptPeerRequest() registers
\* before the WELCOME is read, handleP2pTraffic() after it): one that counts the
\* other as connected is counted so too, or its WELCOME is on the way.
THEOREM PeersAgree == Spec => []ConnectedAgreement
  <1>1. Agreement => ConnectedAgreement
    BY DEF Agreement
  <1> QED BY <1>1, AgreementHolds, PTL

-----------------------------------------------------------------------------
(* The list of rejecters.                                                  *)

\* The list is as RejectedOK says, apart from the peers of the table, which
\* ListsDisjoint covers.
ListOK(r) == Len(r) <= MAX_REJECTED /\ Cardinality(Rejecters(r)) = Len(r)

\* The empty list is one.
LEMMA EmptyListOK == ListOK(<<>>)
  <1>1. Rejecters(<<>>) = {}
    BY DEF Rejecters
  <1>2. Cardinality({}) = 0
    BY FS_EmptySet
  <1>3. Len(<<>>) = 0 /\ 0 <= MAX_REJECTED
    OBVIOUS
  <1> QED BY <1>1, <1>2, <1>3 DEF ListOK

\* No step breaks a list: only HandleRedirect changes one, unless its process
\* ends.
LEMMA ListStep ==
  ASSUME IInv, [Next]_vars, \A p \in Node : ListOK(rejected[p]), NEW o \in Node
  PROVE  ListOK(rejected'[o])
  <1>0. rejected \in [Node -> Seq(Node)]
    BY DEF IInv, TypeOK
  <1>1. ASSUME NEW n \in Node, rejected' = [rejected EXCEPT ![n] = <<>>]
        PROVE  ListOK(rejected'[o])
    BY <1>0, <1>1, EmptyListOK
  <1>2. ASSUME NEW n \in Node, NEW m \in Node, HandleRedirect(n, m)
        PROVE  ListOK(rejected'[o])
    <2>1. /\ ~IsRejectedPeer(rejected[n], m)
          /\ rejected' = [rejected EXCEPT ![n] = PushRejected(rejected[n], m)]
      BY <1>2 DEF HandleRedirect, CanRegisterRejected
    <2>2. ListOK(PushRejected(rejected[n], m))
      <3>1. rejected[n] \in Seq(Node) /\ m \notin Rejecters(rejected[n])
        BY <1>0, <2>1 DEF IsRejectedPeer
      <3>2. /\ Len(rejected[n]) <= MAX_REJECTED
            /\ Cardinality(Rejecters(rejected[n])) = Len(rejected[n])
        BY DEF ListOK
      <3> QED BY <3>1, <3>2, PushCount DEF ListOK
    <2> QED BY <1>0, <2>1, <2>2
  <1>3. CASE rejected' = rejected
    BY <1>3
  <1>4. ASSUME NEW n \in Node, Start(n) \/ Listen(n) \/ Stop(n)
        PROVE  ListOK(rejected'[o])
    BY <1>1, <1>3, <1>4 DEF Start, Listen, Stop, ProcessEnds
  <1>5. ASSUME NEW n \in Node, NEW m \in Node,
               ConnectToFirstPeer(n, m) \/ CrossConnect(n, m)
        PROVE  ListOK(rejected'[o])
    BY <1>3, <1>5 DEF ConnectToFirstPeer, CrossConnect
  <1>6. ASSUME NEW n \in Node, NEW m \in Node, HandlePeeringClient(n, m)
        PROVE  ListOK(rejected'[o])
    BY <1>1, <1>3, <1>6 DEF HandlePeeringClient, AcceptPeerRequest, RedirectPeer,
                            AcceptPeerRequestAborts, ResponseFails
  <1>7. ASSUME NEW n \in Node, NEW m \in Node, HandleP2pTraffic(n, m)
        PROVE  ListOK(rejected'[o])
    BY <1>1, <1>2, <1>3, <1>7 DEF HandleP2pTraffic, HandleResponse, HandleWelcome,
                                  HandleEndOfStream, HandleReset, ProcessEnds
  <1>8. ASSUME NEW n \in Node, NEW m \in Node, TryPeer(n, m)
        PROVE  ListOK(rejected'[o])
    BY <1>1, <1>3, <1>8 DEF TryPeer, ConnectToPeer, BusyAddress, ConnectRefused,
                            ProcessEnds
  <1>9. CASE UNCHANGED vars
    BY <1>3, <1>9 DEF vars
  <1> QED BY <1>4, <1>5, <1>6, <1>7, <1>8, <1>9 DEF Next, Handler

\* rejectedPeerList_ never grows past its capacity, although registerRejectedPeer()
\* (P2pTable.cpp:123) makes room only when the size equals it, and never names a
\* node twice or names a peer of the table.
THEOREM RejectersListed == Spec => []RejectedOK
  <1> DEFINE Lists == \A p \in Node : ListOK(rejected[p])
  <1>1. Init => Lists
    BY EmptyListOK DEF Init
  <1>2. IInv /\ Lists /\ [Next]_vars => Lists'
    BY ListStep
  <1>3. IInv /\ Lists => RejectedOK
    BY DEF IInv, ListsDisjoint, RejectedOK, ListOK
  <1> HIDE DEF Lists
  <1> QED BY <1>1, <1>2, <1>3, InductiveInvariant, PTL DEF Spec

-----------------------------------------------------------------------------
(* A pending peer owes an answer.                                          *)

\* What PendingAnswered says of the peer q of p.
Owes(p, q) ==
    \/ sock[q][p] = "queued"
    \/ inbox[p][q] # NoMsg
    \/ sock[p][q] = "reset"
    \/ ~Alive(sock[q][p])
    \/ CrossingSyns /\ table[q][p] = "pending"

\* A step that changes nothing that the peer q of p owes.
LEMMA OwesKept ==
  ASSUME PendingAnswered, NEW p \in Node, NEW q \in Node,
         table[p][q] = "pending",
         sock[q][p] = "queued" => sock'[q][p] = "queued",
         inbox[p][q] # NoMsg => inbox'[p][q] # NoMsg,
         sock[p][q] = "reset" => sock'[p][q] = "reset",
         ~Alive(sock[q][p]) => ~Alive(sock'[q][p]),
         table[q][p] = "pending" => table'[q][p] = "pending"
  PROVE  Owes(p, q)'
  <1>1. Owes(p, q)
    BY DEF PendingAnswered, IsPendingPeer, Owes
  <1> QED BY <1>1 DEF Owes

\* The end of a process breaks the connections to it.
LEMMA AnswersDies ==
  ASSUME Answers, NEW n \in Node, Dies(n)
  PROVE  Answers'
  <1> USE DEF Dies
  <1>1. ASSUME NEW p \in Node, NEW q \in Node, table'[p][q] = "pending"
        PROVE  Owes(p, q)'
    <2>1. p # n /\ table[p][q] = "pending"
      BY <1>1 DEF EmptyTable
    <2>2. CASE q = n
      BY <2>2 DEF Owes, Alive
    <2>3. CASE q # n
      <3>1. /\ table'[q] = table[q] /\ inbox'[p][q] = inbox[p][q]
            /\ sock'[p][q] = sock[p][q] /\ sock'[q][p] = sock[q][p]
        BY <2>1, <2>3
      <3>2. PendingAnswered
        BY DEF Answers
      <3> HIDE DEF Dies
      <3> QED BY <2>1, <3>1, <3>2, OwesKept
    <2> QED BY <2>2, <2>3
  <1>2. EndedClosed'
    <2> SUFFICES ASSUME NEW p \in Node, NEW q \in Node, status'[p] \in Ended
                 PROVE  sock'[p][q] \in {"none", "closed"}
      BY DEF EndedClosed
    <2>1. CASE p = n
      BY <2>1
    <2>2. CASE p # n
      <3>1. sock[p][q] \in {"none", "closed"}
        BY <2>2 DEF Answers, EndedClosed
      <3>2. CASE q = n
        BY <2>2, <3>1, <3>2
      <3>3. CASE q # n
        BY <2>2, <3>1, <3>3
      <3> QED BY <3>2, <3>3
    <2> QED BY <2>1, <2>2
  <1> QED BY <1>1, <1>2 DEF Answers, PendingAnswered, IsPendingPeer, Owes

\* A step in which no end of a connection of a process that has ended comes to
\* life.
LEMMA EndedClosedKept ==
  ASSUME Answers,
         \A p \in Node : status'[p] \in Ended => status[p] \in Ended,
         \A p, q \in Node :
            status[p] \in Ended => sock'[p][q] \in {sock[p][q], "none", "closed"}
  PROVE  EndedClosed'
  BY DEF Answers, EndedClosed

\* A connect() of n to m: m has the request in its backlog.
LEMMA AnswersAsks ==
  ASSUME IInv, Answers, NEW n \in Node, NEW m \in Node, n # m,
         IsListening(m), status[n] \in {"down", "up"},
         table[n][m] = "absent", table[m][n] = "absent",
         table' = [table EXCEPT ![n] = RegisterPendingPeer(table[n], m)],
         sock'[n][m] = "open", sock'[m][n] = "queued",
         \A p, q \in Node :
            (p # n \/ q # m) /\ (p # m \/ q # n) =>
               \/ sock'[p][q] = sock[p][q]
               \/ table[p][q] = "absent" /\ sock[p][q] = "open" /\ sock'[p][q] = "none",
         inbox' = inbox,
         \A p \in Node : status'[p] \in Ended => status[p] \in Ended
  PROVE  Answers'
  <1>0. table \in [Node -> Table]
    BY DEF IInv, TypeOK
  <1>1. /\ table'[n][m] = "pending"
        /\ \A p, q \in Node : p # n \/ q # m => table'[p][q] = table[p][q]
    <2>1. /\ RegisterPendingPeer(table[n], m)[m] = "pending"
          /\ \A q \in Node \ {m} : RegisterPendingPeer(table[n], m)[q] = table[n][q]
      BY <1>0, RegisterEntries
    <2> QED BY <1>0, <2>1
  <1>2. ASSUME NEW p \in Node, NEW q \in Node, table'[p][q] = "pending"
        PROVE  Owes(p, q)'
    <2>1. CASE p = n /\ q = m
      BY <2>1 DEF Owes
    <2>2. CASE p # n \/ q # m
      <3>1. table[p][q] = "pending" /\ (p # m \/ q # n)
        BY <1>1, <1>2, <2>2
      <3>2. sock'[p][q] = sock[p][q]
        BY <2>2, <3>1
      <3>3. /\ sock[q][p] = "queued" => sock'[q][p] = "queued"
            /\ ~Alive(sock[q][p]) => ~Alive(sock'[q][p])
        BY <2>2, <3>1 DEF Alive
      <3>4. table[q][p] = "pending" => table'[q][p] = "pending"
        BY <1>1
      <3>5. PendingAnswered /\ inbox'[p][q] = inbox[p][q]
        BY DEF Answers
      <3> QED BY <3>1, <3>2, <3>3, <3>4, <3>5, OwesKept
    <2> QED BY <2>1, <2>2
  <1>3. EndedClosed'
    <2>1. status[n] \notin Ended /\ status[m] \notin Ended
      BY DEF IsListening, Ended
    <2>2. ASSUME NEW p \in Node, NEW q \in Node, status[p] \in Ended
          PROVE  sock'[p][q] \in {sock[p][q], "none", "closed"}
      BY <2>1, <2>2
    <2> QED BY <2>2, EndedClosedKept
  <1> QED BY <1>2, <1>3 DEF Answers, PendingAnswered, IsPendingPeer, Owes

\* connectToFirstPeer().
LEMMA AnswersFirstPeer ==
  ASSUME IInv, Answers, NEW n \in Node, NEW m \in Node, ConnectToFirstPeer(n, m)
  PROVE  Answers'
  <1>0. TypeOK
    BY DEF IInv
  <1>1. /\ status[n] = "down" /\ IsListening(m) /\ n # m
        /\ status' = [status EXCEPT ![n] = "starting"]
        /\ table' = [table EXCEPT ![n] = RegisterPendingPeer(table[n], m)]
        /\ sock' = Connected(sock, n, m) /\ inbox' = inbox
    BY DEF ConnectToFirstPeer
  <1>2. sock \in [Node -> [Node -> End]]
    BY <1>0 DEF TypeOK
  <1>3. sock[n][m] = "none" /\ sock[m][n] = "none"
    BY <1>1 DEF IInv, NotStarted
  <1>4. table[n][m] = "absent" /\ table[m][n] = "absent"
    BY <1>3 DEF IInv, SocketsMatchTable, Peers
  <1>5. /\ sock'[n][m] = "open" /\ sock'[m][n] = "queued"
        /\ \A p, q \in Node :
              (p # n \/ q # m) /\ (p # m \/ q # n) => sock'[p][q] = sock[p][q]
    BY <1>1, <1>2, ConnectedEnds
  <1>6. \A p \in Node : status'[p] \in Ended => status[p] \in Ended
    BY <1>0, <1>1 DEF TypeOK, Ended
  <1>7. /\ IsListening(m) /\ n # m /\ status[n] \in {"down", "up"}
        /\ table' = [table EXCEPT ![n] = RegisterPendingPeer(table[n], m)]
        /\ inbox' = inbox
        /\ \A p, q \in Node :
              (p # n \/ q # m) /\ (p # m \/ q # n) =>
                 \/ sock'[p][q] = sock[p][q]
                 \/ table[p][q] = "absent" /\ sock[p][q] = "open" /\ sock'[p][q] = "none"
    BY <1>1, <1>5
  <1>8. sock'[n][m] = "open" /\ sock'[m][n] = "queued"
    BY <1>5
  <1> QED BY <1>4, <1>6, <1>7, <1>8, AnswersAsks

\* A connection to a recommended peer.
LEMMA AnswersConnect ==
  ASSUME IInv, Answers, NEW n \in Node, NEW m \in Node, status[n] = "up",
         m \in todo[n], ConnectToPeer(n, m)
  PROVE  Answers'
  <1>0. TypeOK
    BY DEF IInv
  <1> DEFINE t == RegisterPendingPeer(table[n], m)
             ps == Remaining(n, m, t)
             s == Connected(sock, n, m)
  <1>1. /\ FreeAddress(sock, n, m) /\ IsListening(m)
        /\ table' = [table EXCEPT ![n] = RegisterPendingPeer(table[n], m)]
        /\ GoesOn(n, ps, s)
        /\ UNCHANGED <<status, inbox>>
    BY DEF ConnectToPeer
  <1>2. n # m /\ m \notin Peers(table[n]) /\ n \notin Peers(table[m])
    BY <1>1, TryFacts
  <1>3. closing[n] # m /\ closing[m] # n
    BY <1>1, TryFacts
  <1>4. table[n][m] = "absent" /\ table[m][n] = "absent"
    BY <1>2 DEF Peers
  <1>5. sock \in [Node -> [Node -> End]]
    BY <1>0 DEF TypeOK
  <1>6. s \in [Node -> [Node -> End]]
    BY <1>5, ConnectedType
  <1>7. /\ s[n][m] = "open" /\ s[m][n] = "queued"
        /\ \A p, q \in Node :
              (p # n \/ q # m) /\ (p # m \/ q # n) => s[p][q] = sock[p][q]
    BY <1>2, <1>5, ConnectedEnds
  <1>8. ps \in SUBSET Node
    BY <1>0, RemainingType
  <1> HIDE DEF ps, s, t
  <1>9. closing[n] # NoNode =>
           /\ ~Alive(s[closing[n]][n]) /\ closing[n] \in Node
           /\ s[n][closing[n]] = sock[n][closing[n]]
           /\ table[n][closing[n]] = "absent" /\ sock[n][closing[n]] = "open"
    BY <1>3, <1>7, ClosingFacts DEF Peers
  <1>10. AfterGoesOn(n, ps, s)
    BY <1>1, <1>6, <1>8, <1>9, GoesOnFacts
  <1>11. /\ closing[n] # NoNode => sock'[n][closing[n]] \in {"none", s[n][closing[n]]}
         /\ \A p, q \in Node : p # n \/ q # closing[n] => sock'[p][q] = s[p][q]
    BY <1>10 DEF AfterGoesOn
  <1>12. sock'[n][m] = "open" /\ sock'[m][n] = "queued"
    BY <1>2, <1>3, <1>7, <1>11
  <1>13. ASSUME NEW p \in Node, NEW q \in Node, p # n \/ q # m, p # m \/ q # n
         PROVE  \/ sock'[p][q] = sock[p][q]
                \/ table[p][q] = "absent" /\ sock[p][q] = "open" /\ sock'[p][q] = "none"
    <2>1. q # NoNode
      BY NoNodeAssumption
    <2>2. s[p][q] = sock[p][q]
      BY <1>7, <1>13
    <2>3. CASE p = n /\ q = closing[n]
      BY <1>9, <1>11, <2>1, <2>3
    <2>4. CASE p # n \/ q # closing[n]
      BY <1>11, <2>2, <2>4
    <2> QED BY <2>3, <2>4
  <1>14. inbox' = inbox /\ \A p \in Node : status'[p] \in Ended => status[p] \in Ended
    BY <1>1
  <1>15. /\ IsListening(m) /\ n # m /\ status[n] \in {"down", "up"}
         /\ table' = [table EXCEPT ![n] = RegisterPendingPeer(table[n], m)]
    BY <1>1, <1>2
  <1>16. \A p, q \in Node :
            (p # n \/ q # m) /\ (p # m \/ q # n) =>
               \/ sock'[p][q] = sock[p][q]
               \/ table[p][q] = "absent" /\ sock[p][q] = "open" /\ sock'[p][q] = "none"
    BY <1>13
  <1> QED BY <1>4, <1>12, <1>14, <1>15, <1>16, AnswersAsks

\* A step that neither asks nor answers: nobody becomes pending, and an end of a
\* connection at most goes away.
Owing ==
    /\ \A p, q \in Node : table'[p][q] = table[p][q]
    /\ \A p, q \in Node :
          \/ sock'[p][q] = sock[p][q]
          \/ table[p][q] = "absent" /\ sock'[p][q] \in {"none", "closed"}
    /\ \A p, q \in Node : inbox[p][q] # NoMsg => inbox'[p][q] # NoMsg
    /\ \A p \in Node : status'[p] \in Ended => status[p] \in Ended

\* Such a step leaves everybody who owes an answer owing it, or gone.
LEMMA AnswersOwing ==
  ASSUME Answers, Owing
  PROVE  Answers'
  <1>1. ASSUME NEW p \in Node, NEW q \in Node, table'[p][q] = "pending"
        PROVE  Owes(p, q)'
    <2>1. table[p][q] = "pending" /\ sock'[p][q] = sock[p][q]
      BY <1>1 DEF Owing
    <2>2. CASE sock'[q][p] \in {"none", "closed"}
      BY <2>2 DEF Owes, Alive
    <2>3. CASE sock'[q][p] = sock[q][p]
      <3>1. /\ inbox[p][q] # NoMsg => inbox'[p][q] # NoMsg
            /\ PendingAnswered
            /\ table[q][p] = "pending" => table'[q][p] = "pending"
        BY DEF Owing, Answers
      <3> QED BY <2>1, <2>3, <3>1, OwesKept
    <2> QED BY <2>2, <2>3 DEF Owing
  <1>2. EndedClosed'
    <2>1. \A p, q \in Node :
             status[p] \in Ended => sock'[p][q] \in {sock[p][q], "none", "closed"}
      BY DEF Owing
    <2> QED BY <2>1, EndedClosedKept DEF Owing
  <1> QED BY <1>1, <1>2 DEF Answers, PendingAnswered, IsPendingPeer, Owes

\* A request that is turned away is answered, or its sender is gone.
LEMMA TurnedAwayOwing ==
  ASSUME IInv, NEW n \in Node, NEW m \in Node, sock[n][m] = "queued",
         RedirectPeer(n, m) \/ ResponseFails(n, m)
  PROVE  Owing
  <1>0. TypeOK
    BY DEF IInv
  <1>1. /\ sock' = Closed(sock, n, m)
        /\ UNCHANGED <<status, table>>
        /\ \/ inbox' = inbox
           \/ \E S \in JoinPeers(n) : inbox' = Delivered(n, m, "REDIRECT", S)
    BY DEF RedirectPeer, ResponseFails
  <1>2. m \notin Peers(table[n])
    BY QueuedFacts
  <1>3. ASSUME NEW p \in Node, NEW q \in Node, inbox[p][q] # NoMsg
        PROVE  inbox'[p][q] # NoMsg
    <2>1. inbox \in [Node -> [Node -> Response]]
      BY <1>0 DEF TypeOK
    <2>2. CASE inbox' = inbox
      BY <1>3, <2>2
    <2>3. ASSUME NEW S, inbox' = [inbox EXCEPT ![m][n] = [type |-> "REDIRECT", peers |-> S]]
          PROVE  inbox'[p][q] # NoMsg
      <3>1. inbox'[m][n].type = "REDIRECT"
        BY <2>1, <2>3
      <3>2. inbox'[m][n] # NoMsg
        BY <3>1 DEF NoMsg
      <3>3. p # m \/ q # n => inbox'[p][q] = inbox[p][q]
        BY <2>1, <2>3
      <3> QED BY <1>3, <3>2, <3>3
    <2> QED BY <1>1, <2>2, <2>3 DEF Delivered
  <1>4. sock \in [Node -> [Node -> End]]
    BY <1>0 DEF TypeOK
  <1>5. /\ sock'[n][m] = IF Alive(sock[m][n]) THEN "closed" ELSE "none"
        /\ \A p, q \in Node : p # n \/ q # m => sock'[p][q] = sock[p][q]
    BY <1>1, <1>4, ClosedEnds
  <1>6. ASSUME NEW p \in Node, NEW q \in Node
        PROVE  \/ sock'[p][q] = sock[p][q]
               \/ table[p][q] = "absent" /\ sock'[p][q] \in {"none", "closed"}
    BY <1>2, <1>5 DEF Peers
  <1>7. status' = status /\ table' = table
    BY <1>1
  <1> QED BY <1>3, <1>6, <1>7 DEF Owing

\* A recommended peer that is skipped.
LEMMA BusyOwing ==
  ASSUME IInv, NEW n \in Node, NEW m \in Node, BusyAddress(n, m)
  PROVE  Owing
  <1>0. TypeOK
    BY DEF IInv
  <1> DEFINE ps == Remaining(n, m, table[n])
  <1>1. GoesOn(n, ps, sock) /\ UNCHANGED <<status, table, inbox>>
    BY DEF BusyAddress
  <1>2. ps \in SUBSET Node
    BY <1>0, RemainingType
  <1>3. closing[n] # NoNode =>
           /\ ~Alive(sock[closing[n]][n]) /\ closing[n] \in Node
           /\ table[n][closing[n]] = "absent"
    BY ClosingFacts DEF Peers
  <1>4. sock \in [Node -> [Node -> End]]
    BY <1>0 DEF TypeOK
  <1> HIDE DEF ps
  <1>5. AfterGoesOn(n, ps, sock)
    BY <1>1, <1>2, <1>3, <1>4, GoesOnFacts
  <1>6. /\ closing[n] # NoNode => sock'[n][closing[n]] \in {"none", sock[n][closing[n]]}
        /\ \A p, q \in Node : p # n \/ q # closing[n] => sock'[p][q] = sock[p][q]
    BY <1>5 DEF AfterGoesOn
  <1>7. ASSUME NEW p \in Node, NEW q \in Node
        PROVE  \/ sock'[p][q] = sock[p][q]
               \/ table[p][q] = "absent" /\ sock'[p][q] \in {"none", "closed"}
    <2>1. q # NoNode
      BY NoNodeAssumption
    <2> QED BY <1>3, <1>6, <2>1
  <1>8. status' = status /\ table' = table /\ inbox' = inbox
    BY <1>1
  <1> QED BY <1>7, <1>8 DEF Owing

\* acceptPeerRequest(): the answer of n is on the wire.
LEMMA AnswersAccept ==
  ASSUME IInv, Answers, NEW n \in Node, NEW m \in Node, status[n] = "up",
         sock[n][m] = "queued", AcceptPeerRequest(n, m)
  PROVE  Answers'
  <1>0. TypeOK
    BY DEF IInv
  <1>1. /\ table' = [table EXCEPT ![n] = RegisterConnectedPeer(@, m)]
        /\ sock' = [sock EXCEPT ![n][m] = "open"]
        /\ status' = status
        /\ \E S \in JoinPeers(n) : inbox' = Delivered(n, m, "WELCOME", S)
    BY DEF AcceptPeerRequest
  <1>2. /\ n # m /\ sock[m][n] \in {"open", "closed"}
        /\ m \notin Peers(table[n])
    BY QueuedFacts
  <1>3. /\ table \in [Node -> Table] /\ sock \in [Node -> [Node -> End]]
        /\ inbox \in [Node -> [Node -> Response]]
    BY <1>0 DEF TypeOK
  <1>4. /\ table'[n][m] = "connected"
        /\ \A p, q \in Node : p # n \/ q # m => table'[p][q] = table[p][q]
    <2>1. /\ RegisterConnectedPeer(table[n], m)[m] = "connected"
          /\ \A q \in Node \ {m} : RegisterConnectedPeer(table[n], m)[q] = table[n][q]
      BY <1>3, RegisterEntries
    <2> QED BY <1>1, <1>3, <2>1
  <1>5. sock[m][n] = "open" => inbox'[m][n] # NoMsg
    <2>1. ASSUME sock[m][n] = "open" PROVE inbox'[m][n].type = "WELCOME"
      BY <1>1, <1>3, <2>1 DEF Delivered
    <2> QED BY <2>1 DEF NoMsg
  <1>6. \A p, q \in Node : p # m \/ q # n => inbox'[p][q] = inbox[p][q]
    BY <1>1, <1>3 DEF Delivered
  <1>7. \A p, q \in Node : p # n \/ q # m => sock'[p][q] = sock[p][q]
    BY <1>1, <1>3
  <1>8. ASSUME NEW p \in Node, NEW q \in Node, table'[p][q] = "pending"
        PROVE  Owes(p, q)'
    <2>1. (p # n \/ q # m) /\ table[p][q] = "pending"
      BY <1>4, <1>8
    <2>2. CASE p = m /\ q = n
      <3>1. sock[m][n] \in {"open", "reset"}
        BY <2>1, <2>2 DEF IInv, SocketsMatchTable, Peers
      <3> QED BY <1>2, <1>5, <2>2, <3>1 DEF Owes
    <2>3. CASE p # m \/ q # n
      <3>1. /\ inbox'[p][q] = inbox[p][q]
            /\ sock'[p][q] = sock[p][q] /\ sock'[q][p] = sock[q][p]
        BY <1>6, <1>7, <2>1, <2>3
      <3>2. table[q][p] = "pending" => table'[q][p] = "pending"
        BY <1>2, <1>4 DEF Peers
      <3>3. PendingAnswered
        BY DEF Answers
      <3> QED BY <2>1, <3>1, <3>2, <3>3, OwesKept
    <2> QED BY <2>2, <2>3
  <1>9. EndedClosed'
    <2>1. status[n] \notin Ended
      BY DEF Ended
    <2>2. \A p, q \in Node :
             status[p] \in Ended => sock'[p][q] \in {sock[p][q], "none", "closed"}
      BY <1>7, <2>1
    <2> QED BY <1>1, <2>2, EndedClosedKept
  <1> QED BY <1>8, <1>9 DEF Answers, PendingAnswered, IsPendingPeer, Owes

\* A response that is read: nobody waits for the reader's in turn, unless the
\* connection is broken.
LEMMA AnswersResponse ==
  ASSUME IInv, Agreement, Answers, NEW n \in Node, NEW m \in Node, todo[n] = {},
         status' = status,
         inbox[n][m].type \in {"WELCOME", "REDIRECT"},
         \A p, q \in Node : p # n \/ q # m => inbox'[p][q] = inbox[p][q],
         table'[n][m] # "pending",
         \A p, q \in Node : p # n \/ q # m => table'[p][q] = table[p][q],
         sock'[n][m] \in {sock[n][m], "none", "closed"},
         \A p, q \in Node : p # n \/ q # m => sock'[p][q] = sock[p][q]
  PROVE  Answers'
  <1>1. ASSUME NEW p \in Node, NEW q \in Node, table'[p][q] = "pending"
        PROVE  Owes(p, q)'
    <2>1. (p # n \/ q # m) /\ table[p][q] = "pending"
      BY <1>1
    <2>2. CASE p = m /\ q = n
      <3>1. sock[m][n] \in {"open", "reset"}
        BY <2>1, <2>2 DEF IInv, SocketsMatchTable, Peers
      <3>2. sock[m][n] # "open"
        <4>1. CASE inbox[n][m].type = "REDIRECT"
          BY <4>1 DEF IInv, RedirectCloses, Alive
        <4>2. CASE inbox[n][m].type = "WELCOME"
          <5>1. status[m] \in Ended
            BY <2>1, <2>2, <4>2 DEF Agreement, WelcomeTrue, IsConnectedPeer
          <5> QED BY <5>1 DEF Answers, EndedClosed
        <4> QED BY <4>1, <4>2
      <3>3. sock'[m][n] = sock[m][n]
        BY <2>1, <2>2
      <3> QED BY <2>2, <3>1, <3>2, <3>3 DEF Owes
    <2>3. CASE p # m \/ q # n
      <3>1. /\ inbox'[p][q] = inbox[p][q]
            /\ sock'[p][q] = sock[p][q] /\ sock'[q][p] = sock[q][p]
            /\ table'[q][p] = table[q][p]
        BY <2>1, <2>3
      <3>2. PendingAnswered
        BY DEF Answers
      <3> QED BY <2>1, <3>1, <3>2, OwesKept
    <2> QED BY <2>2, <2>3
  <1>2. EndedClosed'
    <2>1. \A p, q \in Node :
             status[p] \in Ended => sock'[p][q] \in {sock[p][q], "none", "closed"}
      OBVIOUS
    <2> QED BY <2>1, EndedClosedKept
  <1> QED BY <1>1, <1>2 DEF Answers, PendingAnswered, IsPendingPeer, Owes

\* A simultaneous open: each waits for the other.
LEMMA AnswersCross ==
  ASSUME IInv, Answers, NEW n \in Node, NEW m \in Node, CrossConnect(n, m)
  PROVE  Answers'
  <1>0. TypeOK
    BY DEF IInv
  <1>1. /\ CrossingSyns /\ m \in todo[n] /\ n \in todo[m] /\ n # m
        /\ status[n] = "up" /\ status[m] = "up"
        /\ table' = [table EXCEPT ![n] = RegisterPendingPeer(table[n], m),
                                  ![m] = RegisterPendingPeer(table[m], n)]
        /\ UNCHANGED <<status, inbox>>
    BY DEF CrossConnect, FreeAddress
  <1>2. table[n] \in Table /\ table[m] \in Table /\ table \in [Node -> Table]
    BY <1>0 DEF TypeOK
  <1>3. /\ RegisterPendingPeer(table[n], m)[m] = "pending"
        /\ \A q \in Node \ {m} : RegisterPendingPeer(table[n], m)[q] = table[n][q]
        /\ RegisterPendingPeer(table[m], n)[n] = "pending"
        /\ \A q \in Node \ {n} : RegisterPendingPeer(table[m], n)[q] = table[m][q]
    BY <1>2, RegisterEntries
  <1>4. \A p, q \in Node :
           table'[p][q] = IF Cross(n, m, p, q) THEN "pending" ELSE table[p][q]
    BY <1>1, <1>2, <1>3 DEF Cross
  <1>5. \A p, q \in Node : ~Cross(n, m, p, q) =>
           sock'[p][q] = IF q = closing[p] /\ closing'[p] = NoNode
                         THEN "none" ELSE sock[p][q]
    <2>1. AfterCross(n, m)
      BY CrossFacts
    <2> QED BY <2>1 DEF AfterCross
  <1>6. ASSUME NEW p \in Node, NEW q \in Node, table'[p][q] = "pending"
        PROVE  Owes(p, q)'
    <2>1. CASE Cross(n, m, p, q)
      <3>1. Cross(n, m, q, p)
        BY <2>1 DEF Cross
      <3> QED BY <1>1, <1>4, <3>1 DEF Owes
    <2>2. CASE ~Cross(n, m, p, q)
      <3>1. ~Cross(n, m, q, p) /\ table[p][q] = "pending" /\ inbox' = inbox
        BY <1>1, <1>4, <1>6, <2>2 DEF Cross
      <3>2. closing[p] # q
        <4>1. q \in Peers(table[p]) /\ q # NoNode
          BY <3>1, NoNodeAssumption DEF Peers
        <4> QED BY <4>1, ClosingFacts
      <3>3. sock'[p][q] = sock[p][q]
        BY <1>5, <2>2, <3>2
      <3>4. sock'[q][p] = sock[q][p] \/ sock'[q][p] = "none"
        BY <1>5, <3>1
      <3>5. table'[q][p] = table[q][p]
        BY <1>4, <3>1
      <3>6. CASE sock'[q][p] = "none"
        BY <3>6 DEF Owes, Alive
      <3>7. CASE sock'[q][p] = sock[q][p]
        <4>1. PendingAnswered
          BY DEF Answers
        <4> QED BY <3>1, <3>3, <3>5, <3>7, <4>1, OwesKept
      <3> QED BY <3>4, <3>6, <3>7
    <2> QED BY <2>1, <2>2
  <1>7. EndedClosed'
    <2>1. ASSUME NEW p \in Node, NEW q \in Node, status[p] \in Ended
          PROVE  sock'[p][q] \in {sock[p][q], "none", "closed"}
      <3>1. ~Cross(n, m, p, q)
        BY <1>1, <2>1 DEF Cross, Ended
      <3> QED BY <1>5, <3>1
    <2> QED BY <1>1, <2>1, EndedClosedKept
  <1> QED BY <1>6, <1>7 DEF Answers, PendingAnswered, IsPendingPeer, Owes

\* Every step of every node leaves pending peers that owe an answer.
LEMMA AnswersNext ==
  ASSUME IInv, Agreement, Answers, [Next]_vars
  PROVE  Answers'
  <1>0. TypeOK
    BY DEF IInv
  <1>1. ASSUME NEW n \in Node, NEW how \in Ended, ProcessEnds(n, how)
        PROVE  Answers'
    BY <1>0, <1>1, ProcessEndsDies, AnswersDies
  <1>2. ASSUME NEW n \in Node, NEW s \in Running,
               status' = [status EXCEPT ![n] = s], UNCHANGED <<table, sock, inbox>>
        PROVE  Answers'
    <2>1. \A p \in Node : status'[p] \in Ended => status[p] \in Ended
      BY <1>0, <1>2 DEF TypeOK, Running, Ended
    <2>2. Owing
      BY <1>2, <2>1 DEF Owing
    <2> QED BY <2>2, AnswersOwing
  <1>3. ASSUME NEW n \in Node, Start(n) \/ Listen(n) PROVE Answers'
    BY <1>2, <1>3 DEF Start, Listen, Running
  <1>4. ASSUME NEW n \in Node, Stop(n) PROVE Answers'
    BY <1>1, <1>4 DEF Stop, Ended
  <1>5. ASSUME NEW n \in Node, NEW m \in Node, HandlePeeringClient(n, m)
        PROVE  Answers'
    <2>1. sock[n][m] = "queued" /\ todo[n] = {} /\ status[n] = "up"
      BY <1>5 DEF HandlePeeringClient, AtSelect
    <2>2. CASE AcceptPeerRequest(n, m)
      BY <2>1, <2>2, AnswersAccept
    <2>3. CASE AcceptPeerRequestAborts(n, m)
      <3>1. Dies(n)
        BY <2>1, <2>3, AbortsDies
      <3> QED BY <3>1, AnswersDies
    <2>4. CASE RedirectPeer(n, m) \/ ResponseFails(n, m)
      BY <2>1, <2>4, TurnedAwayOwing, AnswersOwing
    <2> QED BY <1>5, <2>2, <2>3, <2>4 DEF HandlePeeringClient
  <1>6. ASSUME NEW n \in Node, NEW m \in Node, HandleResponse(n, m)
        PROVE  Answers'
    <2>1. /\ todo[n] = {} /\ status' = status
          /\ inbox' = [inbox EXCEPT ![n][m] = NoMsg]
          /\ HandleWelcome(n, m) \/ HandleRedirect(n, m)
      BY <1>6 DEF HandleResponse, AtSelect
    <2>2. \A p, q \in Node : p # n \/ q # m => inbox'[p][q] = inbox[p][q]
      BY <1>0, <2>1 DEF TypeOK
    <2>3. table \in [Node -> Table] /\ sock \in [Node -> [Node -> End]]
      BY <1>0 DEF TypeOK
    <2>4. inbox[n][m].type \in {"WELCOME", "REDIRECT"}
      BY <2>1 DEF HandleWelcome, HandleRedirect
    <2>5. /\ table'[n][m] # "pending"
          /\ \A p, q \in Node : p # n \/ q # m => table'[p][q] = table[p][q]
      <3>1. \/ table' = [table EXCEPT ![n] = RegisterConnectedPeer(table[n], m)]
            \/ table' = [table EXCEPT ![n] = RemovePeer(table[n], m)]
        BY <2>1 DEF HandleWelcome, HandleRedirect
      <3>2. /\ RegisterConnectedPeer(table[n], m)[m] = "connected"
            /\ RemovePeer(table[n], m)[m] = "absent"
            /\ \A q \in Node \ {m} :
                  /\ RegisterConnectedPeer(table[n], m)[q] = table[n][q]
                  /\ RemovePeer(table[n], m)[q] = table[n][q]
        BY <2>3, RegisterEntries
      <3> QED BY <2>3, <3>1, <3>2
    <2>6. sock' = sock \/ sock' = Closed(sock, n, m)
      BY <2>1 DEF HandleWelcome, HandleRedirect
    <2>7. /\ sock'[n][m] \in {sock[n][m], "none", "closed"}
          /\ \A p, q \in Node : p # n \/ q # m => sock'[p][q] = sock[p][q]
      <3>1. sock \in [Node -> [Node -> End]]
        BY <2>3
      <3>2. CASE sock' = Closed(sock, n, m)
        BY <3>1, <3>2, ClosedEnds
      <3>3. CASE sock' = sock
        BY <3>3
      <3> QED BY <2>6, <3>2, <3>3
    <2>8. todo[n] = {} /\ status' = status
      BY <2>1
    <2> QED BY <2>2, <2>4, <2>5, <2>7, <2>8, AnswersResponse
  <1>7. ASSUME NEW n \in Node, NEW m \in Node, HandleP2pTraffic(n, m)
        PROVE  Answers'
    <2>1. CASE HandleEndOfStream(n, m)
      BY <1>2, <2>1 DEF HandleEndOfStream, Running
    <2>2. CASE HandleReset(n, m)
      BY <1>1, <2>2 DEF HandleReset, Ended
    <2> QED BY <1>6, <1>7, <2>1, <2>2 DEF HandleP2pTraffic
  <1>8. ASSUME NEW n \in Node, NEW m \in Node, TryPeer(n, m)
        PROVE  Answers'
    <2>1. m \in todo[n] /\ status[n] = "up"
      BY <1>8 DEF TryPeer
    <2>2. CASE ConnectToPeer(n, m)
      BY <2>1, <2>2, AnswersConnect
    <2>3. CASE BusyAddress(n, m)
      BY <2>3, BusyOwing, AnswersOwing
    <2>4. CASE ConnectRefused(n, m)
      BY <1>1, <2>4 DEF ConnectRefused, Ended
    <2> QED BY <1>8, <2>2, <2>3, <2>4 DEF TryPeer
  <1>9. ASSUME NEW n \in Node, NEW m \in Node, ConnectToFirstPeer(n, m)
        PROVE  Answers'
    BY <1>9, AnswersFirstPeer
  <1>10. ASSUME NEW n \in Node, NEW m \in Node, CrossConnect(n, m)
         PROVE  Answers'
    BY <1>10, AnswersCross
  <1>11. CASE UNCHANGED vars
    <2>1. Owing
      BY <1>11 DEF vars, Owing
    <2> QED BY <2>1, AnswersOwing
  <1>12. ASSUME NEW n \in Node, NEW m \in Node, Handler(n, m)
         PROVE  Answers'
    BY <1>5, <1>7, <1>8, <1>12 DEF Handler
  <1> QED BY <1>3, <1>4, <1>9, <1>10, <1>11, <1>12 DEF Next

\* A pending peer always owes an answer: its request is in the backlog, or the
\* response is on the wire, or the connection is broken (the peer's process has
\* ended), or both sides wait for each other after a simultaneous open.
THEOREM PendingOwed == Spec => []PendingAnswered
  <1>1. Init => Answers
    BY DEF Init, NoSockets, EmptyTable, IsPendingPeer, Answers, PendingAnswered,
           EndedClosed
  <1>2. IInv /\ Agreement /\ Answers /\ [Next]_vars => Answers'
    BY AnswersNext
  <1>3. Answers => PendingAnswered
    BY DEF Answers
  <1> QED BY <1>1, <1>2, <1>3, InductiveInvariant, AgreementHolds, PTL DEF Spec

-----------------------------------------------------------------------------
(* Peering implements Membership.                                          *)

\* A process that starts, or ends.
LEMMA StateMoves ==
  ASSUME TypeOK, NEW n \in Node, NEW s \in Running \cup Ended,
         status' = [status EXCEPT ![n] = s]
  PROVE  ProcessState' =
            [ProcessState EXCEPT ![n] = IF s \in Running THEN "up" ELSE "ended"]
  <1>1. status'[n] = s /\ \A p \in Node \ {n} : status'[p] = status[p]
    BY DEF TypeOK
  <1>2. s # "down"
    BY DEF Running, Ended
  <1> QED BY <1>1, <1>2 DEF ProcessState

\* What the overlay knows of a process.
LEMMA StateOf ==
  ASSUME TypeOK, NEW n \in Node
  PROVE  /\ status[n] = "down" => ProcessState[n] = "down"
         /\ status[n] \in Running => ProcessState[n] = "up"
         /\ status[n] \in Ended => ProcessState[n] = "ended"
  BY DEF ProcessState, Running, Ended

\* A process that runs on is the same to the overlay.
LEMMA StateSame ==
  ASSUME TypeOK, NEW n \in Node, NEW s \in Running, status[n] \in Running,
         status' = [status EXCEPT ![n] = s]
  PROVE  ProcessState' = ProcessState
  <1>1. ProcessState' = [ProcessState EXCEPT ![n] = "up"]
    BY StateMoves
  <1>2. ProcessState[n] = "up"
    BY StateOf
  <1>3. DOMAIN ProcessState = Node /\ ProcessState = [p \in Node |-> ProcessState[p]]
    BY DEF ProcessState
  <1> QED BY <1>1, <1>2, <1>3

\* isFull() looks for equality, and no table is ever past its limit: a node that
\* is not full has room.
LEMMA Room ==
  ASSUME IInv, NEW n \in Node, ~IsFull(table[n], MaxPeers[n])
  PROVE  Overlay!HasRoom(n)
  <1>1. table[n] \in Table
    BY DEF IInv, TypeOK
  <1>2. GetNumPeers(table[n]) \in Nat
    BY <1>1, PeersFinite
  <1>3. GetNumPeers(table[n]) <= MaxPeers[n] /\ GetNumPeers(table[n]) # MaxPeers[n]
    BY DEF IInv, TableBound, IsFull
  <1>4. MaxPeers[n] \in Nat
    OBVIOUS
  <1>5. GetNumPeers(table[n]) < MaxPeers[n]
    BY <1>2, <1>3, <1>4
  <1> QED BY <1>5 DEF Overlay!HasRoom, Overlay!Cardinality, Cardinality,
                   GetNumPeers, Peers

\* The end of a process is one of the overlay.
LEMMA OverlayEnds ==
  ASSUME TypeOK, NEW n \in Node, NEW how \in Ended, status[n] \in Running,
         status' = [status EXCEPT ![n] = how],
         table' = [table EXCEPT ![n] = EmptyTable]
  PROVE  Overlay!End(n)
  <1>1. ProcessState[n] = "up"
    BY StateOf
  <1>2. how \notin Running
    BY DEF Ended, Running
  <1>3. ProcessState' = [ProcessState EXCEPT ![n] = "ended"]
    BY <1>2, StateMoves
  <1> QED BY <1>1, <1>3 DEF Overlay!End, EmptyTable

\* connectToFirstPeer() is a Join.
LEMMA OverlayJoin ==
  ASSUME IInv, NEW n \in Node, NEW m \in Node, ConnectToFirstPeer(n, m)
  PROVE  Overlay!Join(n, m)
  <1>0. TypeOK
    BY DEF IInv
  <1>1. /\ status[n] = "down" /\ status[m] \in Running
        /\ status' = [status EXCEPT ![n] = "starting"]
        /\ table' = [table EXCEPT ![n] = RegisterPendingPeer(@, m)]
    BY DEF ConnectToFirstPeer, IsListening, Running
  <1>2. ProcessState[n] = "down" /\ ProcessState[m] = "up"
    BY <1>0, <1>1, StateOf
  <1>3. "starting" \in Running
    BY DEF Running
  <1>4. ProcessState' = [ProcessState EXCEPT ![n] = "up"]
    BY <1>0, <1>1, <1>3, StateMoves
  <1>5. table' = [table EXCEPT ![n][m] = "pending"]
    BY <1>1 DEF RegisterPendingPeer
  <1> QED BY <1>2, <1>4, <1>5 DEF Overlay!Join

\* A connection to a recommended peer is a Request.
LEMMA OverlayRequest ==
  ASSUME IInv, NEW n \in Node, NEW m \in Node, status[n] = "up", m \in todo[n],
         ConnectToPeer(n, m)
  PROVE  Overlay!Request(n, m)
  <1>0. TypeOK
    BY DEF IInv
  <1>1. /\ FreeAddress(sock, n, m) /\ status[m] \in Running /\ status[n] \in Running
        /\ table' = [table EXCEPT ![n] = RegisterPendingPeer(table[n], m)]
        /\ status' = status
    BY DEF ConnectToPeer, IsListening, Running
  <1>2. ProcessState[n] = "up" /\ ProcessState[m] = "up"
    BY <1>0, <1>1, StateOf
  <1>3. ProcessState' = ProcessState
    BY <1>1 DEF ProcessState
  <1>4. n # m /\ m \notin Peers(table[n]) /\ ~IsFull(table[n], MaxPeers[n])
    BY <1>1, TryFacts
  <1>5. table[n][m] = "absent"
    BY <1>4 DEF Peers
  <1>6. Overlay!HasRoom(n)
    BY <1>4, Room
  <1>7. table' = [table EXCEPT ![n][m] = "pending"]
    BY <1>1 DEF RegisterPendingPeer
  <1> QED BY <1>2, <1>3, <1>4, <1>5, <1>6, <1>7 DEF Overlay!Request

\* A simultaneous open is a RequestBoth.
LEMMA OverlayRequestBoth ==
  ASSUME IInv, NEW n \in Node, NEW m \in Node, CrossConnect(n, m)
  PROVE  Overlay!RequestBoth(n, m)
  <1>0. TypeOK
    BY DEF IInv
  <1>1. /\ status[n] \in Running /\ m \in todo[n]
        /\ status[m] \in Running /\ n \in todo[m]
        /\ FreeAddress(sock, n, m) /\ status' = status
        /\ table' = [table EXCEPT ![n] = RegisterPendingPeer(table[n], m),
                                  ![m] = RegisterPendingPeer(table[m], n)]
    BY DEF CrossConnect, Running
  <1>2. ProcessState[n] = "up" /\ ProcessState[m] = "up"
    BY <1>0, <1>1, StateOf
  <1>3. ProcessState' = ProcessState
    BY <1>1 DEF ProcessState
  <1>4. /\ n # m /\ m \notin Peers(table[n]) /\ n \notin Peers(table[m])
        /\ ~IsFull(table[n], MaxPeers[n])
    BY <1>1, TryFacts
  <1>5. ~IsFull(table[m], MaxPeers[m])
    BY <1>1 DEF IInv, LoopState
  <1>6. table[n][m] = "absent" /\ table[m][n] = "absent"
    BY <1>4 DEF Peers
  <1>7. Overlay!HasRoom(n) /\ Overlay!HasRoom(m)
    BY <1>4, <1>5, Room
  <1>8. table' = [table EXCEPT ![n][m] = "pending", ![m][n] = "pending"]
    BY <1>1, <1>4 DEF RegisterPendingPeer
  <1> QED BY <1>2, <1>3, <1>4, <1>6, <1>7, <1>8 DEF Overlay!RequestBoth

\* acceptPeerRequest() is an Accept.
LEMMA OverlayAccept ==
  ASSUME IInv, Agreement, NEW n \in Node, NEW m \in Node, status[n] = "up",
         sock[n][m] = "queued", AcceptPeerRequest(n, m)
  PROVE  Overlay!Accept(n, m)
  <1>0. TypeOK
    BY DEF IInv
  <1>1. /\ ~IsFull(table[n], MaxPeers[n]) /\ status[n] \in Running
        /\ table' = [table EXCEPT ![n] = RegisterConnectedPeer(@, m)]
        /\ status' = status
    BY DEF AcceptPeerRequest, Running
  <1>2. ProcessState[n] = "up"
    BY <1>0, <1>1, StateOf
  <1>3. ProcessState' = ProcessState
    BY <1>1 DEF ProcessState
  <1>4. /\ m \notin Peers(table[n]) /\ sock[m][n] \in {"open", "closed"}
        /\ sock[m][n] = "open" => IsPendingPeer(table[m], n)
    BY QueuedFacts
  <1>5. table[n][m] = "absent"
    BY <1>4 DEF Peers
  <1>6. table[m][n] = "pending" \/ ProcessState[m] = "ended"
    <2>1. CASE sock[m][n] = "open"
      BY <1>4, <2>1 DEF IsPendingPeer
    <2>2. CASE sock[m][n] = "closed"
      <3>1. status[m] \in Ended
        BY <2>2 DEF Agreement, AskerGone
      <3> QED BY <1>0, <3>1, StateOf
    <2> QED BY <1>4, <2>1, <2>2
  <1>7. Overlay!HasRoom(n)
    BY <1>1, Room
  <1>8. table' = [table EXCEPT ![n][m] = "connected"]
    BY <1>1 DEF RegisterConnectedPeer
  <1> QED BY <1>2, <1>3, <1>5, <1>6, <1>7, <1>8 DEF Overlay!Accept

\* A response that is read is an Accepted or a Redirected.
LEMMA OverlayResponse ==
  ASSUME IInv, Agreement, NEW n \in Node, NEW m \in Node, HandleResponse(n, m)
  PROVE  Overlay!Accepted(n, m) \/ Overlay!Redirected(n, m)
  <1>0. TypeOK
    BY DEF IInv
  <1>1. /\ status[n] = "up" /\ status[n] \in Running /\ status' = status
        /\ todo[n] = {}
        /\ HandleWelcome(n, m) \/ HandleRedirect(n, m)
    BY DEF HandleResponse, AtSelect, Running
  <1>2. ProcessState[n] = "up"
    BY <1>0, <1>1, StateOf
  <1>3. ProcessState' = ProcessState
    BY <1>1 DEF ProcessState
  <1>4. CASE HandleWelcome(n, m)
    <2>1. /\ inbox[n][m].type = "WELCOME"
          /\ table' = [table EXCEPT ![n] = RegisterConnectedPeer(table[n], m)]
      BY <1>4 DEF HandleWelcome
    <2>2. table[n][m] = "pending"
      BY <1>1, <2>1, ResponseFacts DEF IsPendingPeer
    <2>3. table[m][n] = "connected" \/ status[m] \in Ended
      BY <2>1 DEF Agreement, WelcomeTrue, IsConnectedPeer
    <2>4. table[m][n] = "connected" \/ ProcessState[m] = "ended"
      BY <1>0, <2>3, StateOf
    <2>5. table' = [table EXCEPT ![n][m] = "connected"]
      BY <2>1 DEF RegisterConnectedPeer
    <2> QED BY <1>2, <1>3, <2>2, <2>4, <2>5 DEF Overlay!Accepted
  <1>5. CASE HandleRedirect(n, m)
    <2>1. /\ inbox[n][m].type = "REDIRECT"
          /\ table' = [table EXCEPT ![n] = RemovePeer(table[n], m)]
      BY <1>5 DEF HandleRedirect
    <2>2. table[n][m] = "pending"
      BY <1>1, <2>1, ResponseFacts DEF IsPendingPeer
    <2>3. status[n] \notin Ended
      BY <1>1 DEF Ended
    <2>4. table[m][n] # "connected"
      BY <2>1, <2>2, <2>3 DEF Agreement, ConnectedAgreement, IsConnectedPeer
    <2>5. table' = [table EXCEPT ![n][m] = "absent"]
      BY <2>1 DEF RemovePeer
    <2> QED BY <1>2, <1>3, <2>2, <2>4, <2>5 DEF Overlay!Redirected
  <1> QED BY <1>1, <1>4, <1>5

\* Every step of Peering is one of Membership, or none.
LEMMA OverlayStep ==
  ASSUME IInv, Agreement, [Next]_vars
  PROVE  [Overlay!Next]_(Overlay!vars)
  <1>0. TypeOK
    BY DEF IInv
  <1> DEFINE Same == ProcessState' = ProcessState /\ table' = table
  <1>1. ASSUME NEW n \in Node, Start(n) PROVE Overlay!Next
    <2>1. /\ status[n] = "down" /\ "up" \in Running
          /\ status' = [status EXCEPT ![n] = "up"] /\ table' = table
      BY <1>1 DEF Start, Running
    <2>2. ProcessState[n] = "down"
      BY <1>0, <2>1, StateOf
    <2>3. ProcessState' = [ProcessState EXCEPT ![n] = "up"]
      BY <1>0, <2>1, StateMoves
    <2>4. Overlay!Start(n)
      BY <2>1, <2>2, <2>3 DEF Overlay!Start
    <2> QED BY <2>4 DEF Overlay!Next
  <1>2. ASSUME NEW n \in Node, Listen(n) PROVE Same
    <2>1. /\ status[n] \in Running /\ "up" \in Running
          /\ status' = [status EXCEPT ![n] = "up"] /\ table' = table
      BY <1>2 DEF Listen, Running
    <2> QED BY <1>0, <2>1, StateSame
  <1>3. ASSUME NEW n \in Node, NEW how \in Ended, status[n] \in Running,
               ProcessEnds(n, how)
        PROVE  Overlay!Next
    <2>1. /\ status' = [status EXCEPT ![n] = how]
          /\ table' = [table EXCEPT ![n] = EmptyTable]
      BY <1>3 DEF ProcessEnds
    <2>2. Overlay!End(n)
      BY <1>0, <1>3, <2>1, OverlayEnds
    <2> QED BY <2>2 DEF Overlay!Next
  <1>4. ASSUME NEW n \in Node, Stop(n) PROVE Overlay!Next
    BY <1>3, <1>4 DEF Stop, Ended
  <1>5. ASSUME NEW n \in Node, NEW m \in Node, ConnectToFirstPeer(n, m)
        PROVE  Overlay!Next
    <2>1. Overlay!Join(n, m)
      BY <1>5, OverlayJoin
    <2> QED BY <2>1 DEF Overlay!Next
  <1>6. ASSUME NEW n \in Node, NEW m \in Node, HandlePeeringClient(n, m)
        PROVE  Overlay!Next \/ Same
    <2>1. status[n] = "up" /\ sock[n][m] = "queued"
      BY <1>6 DEF HandlePeeringClient, AtSelect
    <2>2. CASE AcceptPeerRequest(n, m)
      <3>1. Overlay!Accept(n, m)
        BY <2>1, <2>2, OverlayAccept
      <3> QED BY <3>1 DEF Overlay!Next
    <2>3. CASE AcceptPeerRequestAborts(n, m)
      <3>1. /\ status[n] \in Running /\ "aborted" \in Ended
            /\ status' = [status EXCEPT ![n] = "aborted"]
            /\ table' = [table EXCEPT ![n] = EmptyTable]
        BY <2>1, <2>3 DEF AcceptPeerRequestAborts, Running, Ended
      <3>2. Overlay!End(n)
        BY <1>0, <3>1, OverlayEnds
      <3> QED BY <3>2 DEF Overlay!Next
    <2>4. CASE RedirectPeer(n, m) \/ ResponseFails(n, m)
      <3>1. status' = status /\ table' = table
        BY <2>4 DEF RedirectPeer, ResponseFails
      <3> QED BY <3>1 DEF ProcessState
    <2> QED BY <1>6, <2>2, <2>3, <2>4 DEF HandlePeeringClient
  <1>7. ASSUME NEW n \in Node, NEW m \in Node, HandleP2pTraffic(n, m)
        PROVE  Overlay!Next \/ Same
    <2>1. CASE HandleResponse(n, m)
      <3>1. Overlay!Accepted(n, m) \/ Overlay!Redirected(n, m)
        BY <2>1, OverlayResponse
      <3> QED BY <3>1 DEF Overlay!Next
    <2>2. CASE HandleEndOfStream(n, m)
      <3>1. /\ status[n] \in Running /\ "spinning" \in Running
            /\ status' = [status EXCEPT ![n] = "spinning"] /\ table' = table
        BY <2>2 DEF HandleEndOfStream, AtSelect, Running
      <3> QED BY <1>0, <3>1, StateSame
    <2>3. CASE HandleReset(n, m)
      <3>1. status[n] \in Running /\ "threw" \in Ended /\ ProcessEnds(n, "threw")
        BY <2>3 DEF HandleReset, AtSelect, Running, Ended
      <3> QED BY <1>3, <3>1
    <2> QED BY <1>7, <2>1, <2>2, <2>3 DEF HandleP2pTraffic
  <1>8. ASSUME NEW n \in Node, NEW m \in Node, TryPeer(n, m)
        PROVE  Overlay!Next \/ Same
    <2>1. status[n] = "up" /\ status[n] \in Running /\ m \in todo[n]
      BY <1>8 DEF TryPeer, Running
    <2>2. CASE ConnectToPeer(n, m)
      <3>1. Overlay!Request(n, m)
        BY <2>1, <2>2, OverlayRequest
      <3> QED BY <3>1 DEF Overlay!Next
    <2>3. CASE BusyAddress(n, m)
      BY <2>3 DEF BusyAddress, ProcessState
    <2>4. CASE ConnectRefused(n, m)
      <3>1. "threw" \in Ended /\ ProcessEnds(n, "threw")
        BY <2>4 DEF ConnectRefused, Ended
      <3> QED BY <1>3, <2>1, <3>1
    <2> QED BY <1>8, <2>2, <2>3, <2>4 DEF TryPeer
  <1>9. ASSUME NEW n \in Node, NEW m \in Node, CrossConnect(n, m)
        PROVE  Overlay!Next
    <2>1. Overlay!RequestBoth(n, m)
      BY <1>9, OverlayRequestBoth
    <2> QED BY <2>1 DEF Overlay!Next
  <1>10. ASSUME UNCHANGED vars PROVE UNCHANGED Overlay!vars
    <2>1. status' = status /\ table' = table
      BY <1>10 DEF vars
    <2> QED BY <2>1 DEF ProcessState, Overlay!vars
  <1>11. ASSUME NEW n \in Node, NEW m \in Node, Handler(n, m)
         PROVE  Overlay!Next \/ Same
    BY <1>6, <1>7, <1>8, <1>11 DEF Handler
  <1>12. ASSUME Next PROVE Overlay!Next \/ Same
    <2>1. CASE \E n \in Node : Start(n) \/ Listen(n) \/ Stop(n)
      BY <1>1, <1>2, <1>4, <2>1
    <2>2. CASE \E n, m \in Node :
                  ConnectToFirstPeer(n, m) \/ Handler(n, m) \/ CrossConnect(n, m)
      BY <1>5, <1>9, <1>11, <2>2
    <2> QED BY <1>12, <2>1, <2>2 DEF Next
  <1>13. Same => UNCHANGED Overlay!vars
    BY DEF Overlay!vars
  <1> HIDE DEF Same
  <1> QED BY <1>10, <1>12, <1>13

\* Peering implements Membership: whatever the sockets, responses and lists of
\* main.cpp and P2pTable.cpp do, a node takes on only a peer that asks for it and
\* only while it has room, learns of it only after it happened, and gives up a
\* request only when it was not taken on.
THEOREM MembershipImplemented == Spec => ImplementsMembership
  <1>1. Init => Overlay!Init
    <2> SUFFICES ASSUME Init PROVE Overlay!Init
      OBVIOUS
    <2>1. status = [n \in Node |-> "down"] /\ table = [n \in Node |-> EmptyTable]
      BY DEF Init
    <2>2. ProcessState = [n \in Node |-> "down"]
      BY <2>1 DEF ProcessState, Running
    <2> QED BY <2>1, <2>2 DEF Overlay!Init, EmptyTable
  <1>2. IInv /\ Agreement /\ [Next]_vars => [Overlay!Next]_(Overlay!vars)
    BY OverlayStep
  <1> QED BY <1>1, <1>2, InductiveInvariant, AgreementHolds, PTL
          DEF Spec, ImplementsMembership, Overlay!Spec
=============================================================================
