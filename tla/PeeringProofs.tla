--------------------------- MODULE PeeringProofs ---------------------------
(* Theorems about Peering, for every finite set of nodes and every limit.  *)
EXTENDS Peering, P2pTableProofs

USE NodeAssumption, MaxRejectedAssumption, MaxPeersAssumption,
    PrMaxPeersAssumption, NoNodeAssumption, MaxStopsAssumption,
    CrossingSynsAssumption

-----------------------------------------------------------------------------
(* Types.                                                                  *)

\* So does the end of a process, at both ends.
LEMMA ExitEndType ==
  ASSUME TypeOK, NEW n \in Node, NEW m \in Node
  PROVE  EndAfterExit(n, m) \in End /\ PeerEndAfterExit(n, m) \in End
  <1>1. sock[n][m] \in End /\ sock[m][n] \in End
    BY DEF TypeOK
  <1>2. EndAfterExit(n, m) \in End
    BY <1>1 DEF EndAfterExit, End
  <1>3. PeerEndAfterExit(n, m) \in End
    BY <1>1 DEF PeerEndAfterExit, End
  <1> QED BY <1>2, <1>3

\* The absence of a response is a value of the type Response.
LEMMA NoMsgType == NoMsg \in Response
  BY DEF NoMsg, Response

\* The end of a process keeps every variable in its type.
LEMMA ProcessEndsType ==
  ASSUME TypeOK, NEW n \in Node, NEW how \in Ended, ProcessEnds(n, how),
         stops' \in Nat
  PROVE  TypeOK'
  <1>1. status' \in [Node -> Status]
    BY DEF TypeOK, ProcessEnds, Status
  <1>2. table' \in [Node -> Table]
    BY EmptyTableType DEF TypeOK, ProcessEnds
  <1>3. rejected' \in [Node -> Seq(Node)]
    BY DEF TypeOK, ProcessEnds
  <1>4. todo' \in [Node -> SUBSET Node] /\ closing' \in [Node -> Node \cup {NoNode}]
    BY DEF TypeOK, ProcessEnds
  <1>5. sock' \in [Node -> [Node -> End]]
    <2>1. \A p, q \in Node : sock[p][q] \in End
      BY DEF TypeOK
    <2> QED BY <2>1, ExitEndType DEF ProcessEnds
  <1>6. inbox' \in [Node -> [Node -> Response]]
    BY NoMsgType DEF TypeOK, ProcessEnds
  <1> QED BY <1>1, <1>2, <1>3, <1>4, <1>5, <1>6 DEF TypeOK

\* A response that is delivered is well-formed and recommends peers of the
\* responding node.
LEMMA DeliveredType ==
  ASSUME TypeOK, NEW n \in Node, NEW m \in Node,
         NEW type \in {"WELCOME", "REDIRECT"}, NEW S \in JoinPeers(n)
  PROVE  /\ Delivered(n, m, type, S) \in [Node -> [Node -> Response]]
         /\ S \subseteq Peers(table[n])
  <1>1. S \subseteq Peers(table[n]) /\ Peers(table[n]) \subseteq Node
    BY DEF JoinPeers, Peers
  <1>2. [type |-> type, peers |-> S] \in Response
    BY <1>1 DEF Response
  <1> QED BY <1>1, <1>2 DEF TypeOK, Delivered

\* The state of the loop over recommended peers keeps its type.
LEMMA GoesOnType ==
  ASSUME TypeOK, NEW n \in Node, NEW ps \in SUBSET Node,
         NEW s \in [Node -> [Node -> End]], GoesOn(n, ps, s)
  PROVE  /\ todo' \in [Node -> SUBSET Node]
         /\ closing' \in [Node -> Node \cup {NoNode}]
         /\ sock' \in [Node -> [Node -> End]]
  <1>1. closing[n] \in Node \cup {NoNode}
    BY DEF TypeOK
  <1>2. Closed(s, n, closing[n]) \in [Node -> [Node -> End]]
    BY <1>1, ClosedType
  <1> QED BY <1>2 DEF TypeOK, GoesOn

\* What is left to try is a set of nodes.
LEMMA RemainingType ==
  ASSUME TypeOK, NEW n \in Node, NEW m \in Node, NEW t
  PROVE  Remaining(n, m, t) \in SUBSET Node
  BY DEF TypeOK, Remaining

-----------------------------------------------------------------------------
(* The inductive invariant.                                                *)

\* The invariant holds before any process is started.
LEMMA IInvInit == Init => IInv
  <1> SUFFICES ASSUME Init PROVE IInv
    OBVIOUS
  <1>1. TypeOK
    BY EmptyTableType, NoMsgType DEF Init, NoSockets, TypeOK, Status, End
  <1>2. TableBound
    BY EmptyTablePeers DEF Init, TableBound
  <1>3. SocketsMatchTable
    BY EmptyTablePeers DEF Init, NoSockets, SocketsMatchTable
  <1>4. AnswerExpected /\ TodoAvailable
    BY DEF Init, AnswerExpected, TodoAvailable
  <1>5. ListsDisjoint
    BY EmptyTablePeers DEF Init, ListsDisjoint
  <1>6. LoopState
    BY DEF Init, LoopState
  <1>7. Backlog /\ RedirectCloses /\ NotStarted
    BY DEF Init, NoSockets, Backlog, RedirectCloses, NotStarted, NoMsg
  <1> QED BY <1>1, <1>2, <1>3, <1>4, <1>5, <1>6, <1>7 DEF IInv

\* Only the status of one node changes.
LEMMA IInvStatus ==
  ASSUME IInv, NEW n \in Node, NEW s \in Running, todo[n] = {},
         status[n] \notin Ended,
         status' = [status EXCEPT ![n] = s],
         UNCHANGED <<table, rejected, todo, closing, sock, inbox, stops>>
  PROVE  IInv'
  <1> USE DEF IInv
  <1>1. TypeOK'
    BY DEF TypeOK, Status
  <1>2. TableBound' /\ SocketsMatchTable' /\ AnswerExpected' /\ TodoAvailable'
    BY DEF TableBound, SocketsMatchTable, AnswerExpected, TodoAvailable, CanRegisterPending
  <1>3. ListsDisjoint' /\ Backlog' /\ RedirectCloses'
    BY DEF ListsDisjoint, Backlog, RedirectCloses, TypeOK
  <1>4. LoopState'
    BY DEF LoopState, TypeOK
  <1>5. NotStarted'
    BY DEF NotStarted, TypeOK, Running
  <1> QED BY <1>1, <1>2, <1>3, <1>4, <1>5

\* What the end of the process of n leaves behind, whether it just ends or its
\* last act was to write a WELCOME.
Dies(n) ==
    /\ status'[n] \in Ended
    /\ table'[n] = EmptyTable /\ rejected'[n] = <<>>
    /\ todo'[n] = {} /\ closing'[n] = NoNode
    /\ \A q \in Node :
          /\ inbox'[n][q] = NoMsg
          /\ sock'[n][q] \in {"closed", "none"}
          /\ sock[n][q] = "none" => sock'[n][q] = "none"
          /\ sock[n][q] = "closed" => sock'[n][q] = "closed"
          /\ sock[n][q] = "open" /\ sock[q][n] = "queued" /\ inbox[n][q] = NoMsg
                => sock'[n][q] = "closed"
    /\ \A p \in Node \ {n} :
          /\ status'[p] = status[p]
          /\ table'[p] = table[p] /\ rejected'[p] = rejected[p]
          /\ todo'[p] = todo[p] /\ closing'[p] = closing[p]
          /\ \/ sock'[p][n] = sock[p][n]
             \/ /\ sock[p][n] = "open" /\ sock'[p][n] = "reset"
                /\ Alive(sock[n][p])
             \/ sock[p][n] = "closed" /\ sock'[p][n] = "none"
          /\ \/ inbox'[p][n] = inbox[p][n]
             \/ /\ sock[n][p] = "queued" /\ sock[p][n] = "open"
                /\ inbox'[p][n].type = "WELCOME" /\ p \notin inbox'[p][n].peers
          /\ \A q \in Node \ {n} :
                sock'[p][q] = sock[p][q] /\ inbox'[p][q] = inbox[p][q]

\* A process that ends leaves what Dies says.
LEMMA ProcessEndsDies ==
  ASSUME TypeOK, NEW n \in Node, NEW how \in Ended, ProcessEnds(n, how)
  PROVE  Dies(n)
  <1>1. /\ status'[n] = how
        /\ table'[n] = EmptyTable /\ rejected'[n] = <<>>
        /\ todo'[n] = {} /\ closing'[n] = NoNode
        /\ \A q \in Node : inbox'[n][q] = NoMsg /\ sock'[n][q] = EndAfterExit(n, q)
    BY DEF TypeOK, ProcessEnds
  <1>2. \A p \in Node \ {n} :
           /\ status'[p] = status[p]
           /\ table'[p] = table[p] /\ rejected'[p] = rejected[p]
           /\ todo'[p] = todo[p] /\ closing'[p] = closing[p]
           /\ inbox'[p] = inbox[p]
           /\ sock'[p][n] = PeerEndAfterExit(n, p)
           /\ \A q \in Node \ {n} : sock'[p][q] = sock[p][q]
    BY DEF TypeOK, ProcessEnds
  <1>3. \A q \in Node :
          /\ EndAfterExit(n, q) \in {"closed", "none"}
          /\ sock[n][q] = "none" => EndAfterExit(n, q) = "none"
          /\ sock[n][q] = "closed" => EndAfterExit(n, q) = "closed"
          /\ sock[n][q] = "open" /\ sock[q][n] = "queued" /\ inbox[n][q] = NoMsg
                => EndAfterExit(n, q) = "closed"
    BY DEF EndAfterExit, ResetOnExit, Alive
  <1>4. \A p \in Node :
          \/ PeerEndAfterExit(n, p) = sock[p][n]
          \/ /\ sock[p][n] = "open" /\ PeerEndAfterExit(n, p) = "reset"
             /\ Alive(sock[n][p])
          \/ sock[p][n] = "closed" /\ PeerEndAfterExit(n, p) = "none"
    BY DEF PeerEndAfterExit, ResetOnExit, Alive
  <1> QED BY <1>1, <1>2, <1>3, <1>4 DEF Dies

\* The end of a process, in whatever way, keeps the invariant.
LEMMA IInvDies ==
  ASSUME IInv, NEW n \in Node, Dies(n), TypeOK'
  PROVE  IInv'
  <1>0. TypeOK
    BY DEF IInv
  <1> USE DEF Dies
  <1>1. TableBound'
    <2>1. GetNumPeers(table'[n]) <= MaxPeers[n]
      BY EmptyTablePeers
    <2> QED BY <2>1 DEF IInv, TableBound
  <1>2. SocketsMatchTable'
    <2> SUFFICES ASSUME NEW p \in Node, NEW q \in Node
                 PROVE  sock'[p][q] \in {"open", "reset"}
                          <=> q \in Peers(table'[p]) \/ (q = closing'[p] /\ q # NoNode)
      BY DEF SocketsMatchTable
    <2>1. CASE p = n
      BY <2>1, EmptyTablePeers
    <2>2. CASE p # n
      <3>1. sock'[p][q] \in {"open", "reset"} <=> sock[p][q] \in {"open", "reset"}
        BY <2>2
      <3> QED BY <2>2, <3>1 DEF IInv, SocketsMatchTable
    <2> QED BY <2>1, <2>2
  <1>3. AnswerExpected'
    <2> SUFFICES ASSUME NEW p \in Node, NEW q \in Node, inbox'[p][q] # NoMsg
                 PROVE  /\ IsPendingPeer(table'[p], q)
                        /\ ~IsRejectedPeer(rejected'[p], q)
                        /\ p \notin inbox'[p][q].peers
      BY DEF AnswerExpected
    <2>1. p # n
      OBVIOUS
    <2>2. CASE inbox'[p][q] = inbox[p][q]
      BY <2>1, <2>2 DEF IInv, AnswerExpected
    <2>3. CASE inbox'[p][q] # inbox[p][q]
      <3>1. q = n /\ sock[n][p] = "queued" /\ sock[p][n] = "open" /\ p \notin inbox'[p][n].peers
        BY <2>1, <2>3
      <3>2. IsPendingPeer(table[p], n)
        BY <3>1 DEF IInv, Backlog
      <3>3. ~IsRejectedPeer(rejected[p], n)
        BY <3>2 DEF IInv, ListsDisjoint, IsRejectedPeer, IsPendingPeer, Peers
      <3> QED BY <2>1, <3>1, <3>2, <3>3
    <2> QED BY <2>2, <2>3
  <1>4. TodoAvailable'
    BY DEF IInv, TodoAvailable, CanRegisterPending
  <1>5. ListsDisjoint'
    <2> SUFFICES ASSUME NEW p \in Node
                 PROVE  Rejecters(rejected'[p]) \cap Peers(table'[p]) = {}
      BY DEF ListsDisjoint
    <2>1. CASE p = n
      BY <2>1, EmptyTablePeers
    <2>2. CASE p # n
      <3>1. rejected'[p] = rejected[p] /\ table'[p] = table[p]
        BY <2>2
      <3> QED BY <3>1 DEF IInv, ListsDisjoint
    <2> QED BY <2>1, <2>2
  <1>6. LoopState'
    <2> SUFFICES ASSUME NEW p \in Node
                 PROVE  /\ todo'[p] # {} => status'[p] = "up" /\ ~IsFull(table'[p], MaxPeers[p])
                        /\ closing'[p] # NoNode =>
                              /\ todo'[p] # {}
                              /\ IsRejectedPeer(rejected'[p], closing'[p])
                              /\ sock'[p][closing'[p]] = "open"
                              /\ ~Alive(sock'[closing'[p]][p])
      BY DEF LoopState
    <2>1. CASE p = n
      BY <2>1
    <2>2. CASE p # n
      <3>1. todo'[p] # {} => status'[p] = "up" /\ ~IsFull(table'[p], MaxPeers[p])
        BY <2>2 DEF IInv, LoopState
      <3>2. ASSUME closing[p] # NoNode
            PROVE  /\ todo'[p] # {}
                   /\ IsRejectedPeer(rejected'[p], closing[p])
                   /\ sock'[p][closing[p]] = "open"
                   /\ ~Alive(sock'[closing[p]][p])
        <4>1. closing[p] \in Node
          BY <3>2, <1>0 DEF TypeOK
        <4>2. sock[p][closing[p]] = "open" /\ ~Alive(sock[closing[p]][p])
          BY <3>2 DEF IInv, LoopState
        <4>3. CASE closing[p] = n
          BY <3>2, <4>2, <4>3, <2>2 DEF IInv, LoopState, Alive
        <4>4. CASE closing[p] # n
          BY <3>2, <4>1, <4>2, <4>4, <2>2 DEF IInv, LoopState
        <4> QED BY <4>3, <4>4
      <3> QED BY <2>2, <3>1, <3>2
    <2> QED BY <2>1, <2>2
  <1>7. Backlog'
    <2> SUFFICES ASSUME NEW p \in Node, NEW q \in Node, sock'[p][q] = "queued"
                 PROVE  /\ inbox'[q][p] = NoMsg
                        /\ \/ sock'[q][p] = "closed"
                           \/ sock'[q][p] = "open" /\ IsPendingPeer(table'[q], p)
      BY DEF Backlog
    <2>1. p # n /\ sock[p][q] = "queued"
      OBVIOUS
    <2>2. /\ inbox[q][p] = NoMsg
          /\ \/ sock[q][p] = "closed"
             \/ sock[q][p] = "open" /\ IsPendingPeer(table[q], p)
      BY <2>1 DEF IInv, Backlog
    <2>3. CASE q = n
      BY <2>1, <2>2, <2>3
    <2>4. CASE q # n
      BY <2>1, <2>2, <2>4
    <2> QED BY <2>3, <2>4
  <1>8. RedirectCloses'
    <2> SUFFICES ASSUME NEW p \in Node, NEW q \in Node, inbox'[p][q].type = "REDIRECT"
                 PROVE  ~Alive(sock'[q][p])
      BY DEF RedirectCloses
    <2>1. p # n /\ inbox[p][q].type = "REDIRECT"
      BY DEF NoMsg
    <2>2. ~Alive(sock[q][p])
      BY <2>1 DEF IInv, RedirectCloses
    <2>3. CASE q = n
      BY <2>3 DEF Alive
    <2>4. CASE q # n
      BY <2>1, <2>2, <2>4
    <2> QED BY <2>3, <2>4
  <1>9. NotStarted'
    <2> SUFFICES ASSUME NEW p \in Node, status'[p] = "down"
                 PROVE  /\ rejected'[p] = <<>>
                        /\ \A m \in Node : sock'[p][m] = "none" /\ sock'[m][p] = "none"
      BY DEF NotStarted
    <2>1. p # n
      BY DEF Ended
    <2>2. /\ rejected[p] = <<>>
          /\ \A m \in Node : sock[p][m] = "none" /\ sock[m][p] = "none"
      BY <2>1 DEF IInv, NotStarted
    <2> QED BY <2>1, <2>2
  <1> QED BY <1>1, <1>2, <1>3, <1>4, <1>5, <1>6, <1>7, <1>8, <1>9 DEF IInv

\* The same of ProcessEnds.
LEMMA IInvProcessEnds ==
  ASSUME IInv, NEW n \in Node, NEW how \in Ended, ProcessEnds(n, how),
         stops' \in Nat
  PROVE  IInv'
  <1>1. TypeOK /\ TypeOK'
    BY ProcessEndsType DEF IInv
  <1> QED BY <1>1, ProcessEndsDies, IInvDies

-----------------------------------------------------------------------------
(* One lemma per action.                                                   *)

\* A connection in the backlog: the requesting node is another one, is not in
\* the table, and waits for the response if it still has the connection.
LEMMA QueuedFacts ==
  ASSUME IInv, NEW n \in Node, NEW m \in Node, sock[n][m] = "queued"
  PROVE  /\ n # m
         /\ m \notin Peers(table[n]) /\ closing[n] # m
         /\ inbox[n][m] = NoMsg /\ inbox[m][n] = NoMsg
         /\ sock[m][n] \in {"open", "closed"}
         /\ sock[m][n] = "open" =>
               IsPendingPeer(table[m], n) /\ ~IsRejectedPeer(rejected[m], n)
  <1>1. /\ inbox[m][n] = NoMsg
        /\ \/ sock[m][n] = "closed"
           \/ sock[m][n] = "open" /\ IsPendingPeer(table[m], n)
    BY DEF IInv, Backlog
  <1>2. m \notin Peers(table[n]) /\ closing[n] # m
    BY NoNodeAssumption DEF IInv, SocketsMatchTable
  <1>3. inbox[n][m] = NoMsg
    BY <1>2 DEF IInv, AnswerExpected, IsPendingPeer, Peers
  <1>4. IsPendingPeer(table[m], n) => ~IsRejectedPeer(rejected[m], n)
    BY DEF IInv, ListsDisjoint, IsPendingPeer, IsRejectedPeer, Peers
  <1> QED BY <1>1, <1>2, <1>3, <1>4

\* The failed assertion in acceptPeerRequest() leaves what Dies says.
LEMMA AbortsDies ==
  ASSUME IInv, NEW n \in Node, NEW m \in Node, sock[n][m] = "queued", todo[n] = {},
         AcceptPeerRequestAborts(n, m)
  PROVE  Dies(n) /\ TypeOK'
  <1>0. TypeOK
    BY DEF IInv
  <1>1. PICK S \in JoinPeers(n) :
          /\ status' = [status EXCEPT ![n] = "aborted"]
          /\ table' = [table EXCEPT ![n] = EmptyTable]
          /\ rejected' = [rejected EXCEPT ![n] = <<>>]
          /\ inbox' = [Delivered(n, m, "WELCOME", S) EXCEPT
                          ![n] = [p \in Node |-> NoMsg]]
          /\ sock' = [p \in Node |-> [q \in Node |->
                 IF p = n /\ q = m THEN IF Alive(sock[m][n]) THEN "closed" ELSE "none"
                 ELSE IF p = n THEN EndAfterExit(n, q)
                 ELSE IF q = n /\ p # m THEN PeerEndAfterExit(n, p)
                 ELSE sock[p][q]]]
    BY DEF AcceptPeerRequestAborts
  <1>2. /\ n # m /\ m \notin Peers(table[n]) /\ sock[m][n] \in {"open", "closed"}
    BY QueuedFacts
  <1>3. /\ Delivered(n, m, "WELCOME", S) \in [Node -> [Node -> Response]]
        /\ S \subseteq Peers(table[n])
    BY <1>0, <1>1, DeliveredType
  <1>4. closing[n] = NoNode
    BY DEF IInv, LoopState
  <1>5. TypeOK'
    <2>1. \A p, q \in Node : sock[p][q] \in End
      BY <1>0 DEF TypeOK
    <2>2. sock' \in [Node -> [Node -> End]]
      BY <1>1, <2>1, <1>0, ExitEndType DEF End
    <2>3. inbox' \in [Node -> [Node -> Response]]
      BY <1>1, <1>3, NoMsgType
    <2>4. UNCHANGED <<todo, closing, stops>>
      BY DEF AcceptPeerRequestAborts
    <2> QED BY <1>0, <1>1, <2>2, <2>3, <2>4, EmptyTableType DEF TypeOK, Status, Ended
  <1>6. \A q \in Node :
          /\ EndAfterExit(n, q) \in {"closed", "none"}
          /\ sock[n][q] = "none" => EndAfterExit(n, q) = "none"
          /\ sock[n][q] = "closed" => EndAfterExit(n, q) = "closed"
          /\ sock[n][q] = "open" /\ sock[q][n] = "queued" /\ inbox[n][q] = NoMsg
                => EndAfterExit(n, q) = "closed"
    BY DEF EndAfterExit, ResetOnExit, Alive
  <1>7. \A p \in Node :
          \/ PeerEndAfterExit(n, p) = sock[p][n]
          \/ /\ sock[p][n] = "open" /\ PeerEndAfterExit(n, p) = "reset"
             /\ Alive(sock[n][p])
          \/ sock[p][n] = "closed" /\ PeerEndAfterExit(n, p) = "none"
    BY DEF PeerEndAfterExit, ResetOnExit, Alive
  <1>8. /\ status'[n] \in Ended /\ table'[n] = EmptyTable /\ rejected'[n] = <<>>
        /\ todo'[n] = {} /\ closing'[n] = NoNode
        /\ \A p \in Node \ {n} :
              /\ status'[p] = status[p]
              /\ table'[p] = table[p] /\ rejected'[p] = rejected[p]
              /\ todo'[p] = todo[p] /\ closing'[p] = closing[p]
    BY <1>0, <1>1, <1>4 DEF TypeOK, Ended, AcceptPeerRequestAborts
  <1>9. \A q \in Node :
          /\ inbox'[n][q] = NoMsg
          /\ sock'[n][q] = IF q = m THEN IF Alive(sock[m][n]) THEN "closed" ELSE "none"
                           ELSE EndAfterExit(n, q)
    BY <1>1, <1>3
  <1>10. \A p \in Node \ {n} :
           /\ sock'[p][n] = IF p # m THEN PeerEndAfterExit(n, p) ELSE sock[p][n]
           /\ \A q \in Node \ {n} : sock'[p][q] = sock[p][q]
    BY <1>1, <1>2
  <1>11. \A p \in Node \ {n} : \A q \in Node :
           \/ inbox'[p][q] = inbox[p][q]
           \/ /\ p = m /\ q = n /\ sock[m][n] = "open"
              /\ inbox'[p][q].type = "WELCOME" /\ inbox'[p][q].peers = S
    BY <1>0, <1>1 DEF Delivered, TypeOK
  <1>12. Dies(n)
    BY <1>2, <1>3, <1>6, <1>7, <1>8, <1>9, <1>10, <1>11 DEF Dies
  <1> QED BY <1>5, <1>12

\* It keeps the invariant of the others.
LEMMA IInvAborts ==
  ASSUME IInv, NEW n \in Node, NEW m \in Node, sock[n][m] = "queued", todo[n] = {},
         AcceptPeerRequestAborts(n, m)
  PROVE  IInv'
  <1>1. Dies(n) /\ TypeOK'
    BY AbortsDies
  <1> QED BY <1>1, IInvDies

\* A node that is not full stays within its limit when it registers a peer.
LEMMA RegisterBound ==
  ASSUME NEW n \in Node, NEW m \in Node, NEW t \in Table,
         GetNumPeers(t) <= MaxPeers[n], ~IsFull(t, MaxPeers[n])
  PROVE  /\ GetNumPeers(RegisterPendingPeer(t, m)) <= MaxPeers[n]
         /\ GetNumPeers(RegisterConnectedPeer(t, m)) <= MaxPeers[n]
  <1>1. MaxPeers[n] \in Nat
    BY MaxPeersAssumption
  <1>2. /\ Peers(RegisterPendingPeer(t, m)) = Peers(t) \cup {m}
        /\ Peers(RegisterConnectedPeer(t, m)) = Peers(t) \cup {m}
        /\ RegisterPendingPeer(t, m) \in Table /\ RegisterConnectedPeer(t, m) \in Table
    BY RegisterPeers, RegisterType
  <1>3. GetNumPeers(RegisterPendingPeer(t, m)) <= MaxPeers[n]
    BY <1>1, <1>2, AddPeer
  <1>4. GetNumPeers(RegisterConnectedPeer(t, m)) <= MaxPeers[n]
    BY <1>1, <1>2, AddPeer
  <1> QED BY <1>3, <1>4

\* connectToFirstPeer() keeps the invariant.
LEMMA IInvConnectToFirstPeer ==
  ASSUME IInv, NEW n \in Node, NEW m \in Node, ConnectToFirstPeer(n, m)
  PROVE  IInv'
  <1>0. TypeOK
    BY DEF IInv
  <1>a. /\ status[n] = "down" /\ IsListening(m) /\ n # m
        /\ status' = [status EXCEPT ![n] = "starting"]
        /\ table' = [table EXCEPT ![n] = RegisterPendingPeer(@, m)]
        /\ sock' = Connected(sock, n, m)
        /\ UNCHANGED <<rejected, todo, closing, inbox, stops>>
    BY DEF ConnectToFirstPeer
  <1>1. /\ rejected[n] = <<>>
        /\ \A q \in Node : sock[n][q] = "none" /\ sock[q][n] = "none"
    BY <1>a DEF IInv, NotStarted
  <1>2. Peers(table[n]) = {} /\ closing[n] = NoNode /\ todo[n] = {}
    <2>1. \A q \in Node : q \notin Peers(table[n])
      BY <1>1 DEF IInv, SocketsMatchTable
    <2>2. Peers(table[n]) = {}
      BY <2>1 DEF Peers
    <2>3. closing[n] # NoNode => closing[n] \in Node /\ sock[n][closing[n]] = "open"
      BY <1>0 DEF IInv, LoopState, TypeOK
    <2>4. todo[n] = {}
      BY <1>a DEF IInv, LoopState
    <2> QED BY <1>1, <2>2, <2>3, <2>4
  <1>3. n \notin Peers(table[m]) /\ closing[m] # n
    BY <1>1, NoNodeAssumption DEF IInv, SocketsMatchTable
  <1>4. inbox[n][m] = NoMsg /\ inbox[m][n] = NoMsg
    BY <1>2, <1>3 DEF IInv, AnswerExpected, IsPendingPeer, Peers
  <1>5. /\ sock' \in [Node -> [Node -> End]]
        /\ sock'[n][m] = "open" /\ sock'[m][n] = "queued"
        /\ \A p, q \in Node : p # n /\ q # n => sock'[p][q] = sock[p][q]
        /\ \A q \in Node \ {m} : sock'[n][q] = "none" /\ sock'[q][n] = "none"
    <2>1. sock \in [Node -> [Node -> End]] /\ n # m /\ sock' = Connected(sock, n, m)
      BY <1>0, <1>a DEF TypeOK
    <2>2. /\ sock' \in [Node -> [Node -> End]]
          /\ sock'[n][m] = "open" /\ sock'[m][n] = "queued"
          /\ \A p, q \in Node :
                (p # n \/ q # m) /\ (p # m \/ q # n) => sock'[p][q] = sock[p][q]
      <3>0. Connected(sock, n, m) \in [Node -> [Node -> End]]
        BY <2>1, ConnectedType
      <3>1. /\ Connected(sock, n, m)[n][m] = "open"
            /\ Connected(sock, n, m)[m][n] = "queued"
            /\ \A p, q \in Node :
                  (p # n \/ q # m) /\ (p # m \/ q # n)
                     => Connected(sock, n, m)[p][q] = sock[p][q]
        BY <2>1, ConnectedEnds
      <3> QED BY <2>1, <3>0, <3>1
    <2> QED BY <1>1, <2>1, <2>2
  <1>6. /\ table'[n] = RegisterPendingPeer(table[n], m)
        /\ table'[n] \in Table /\ Peers(table'[n]) = {m} /\ IsPendingPeer(table'[n], m)
        /\ \A p \in Node \ {n} : table'[p] = table[p]
    <2>1. /\ table[n] \in Table
          /\ table'[n] = RegisterPendingPeer(table[n], m)
          /\ \A p \in Node \ {n} : table'[p] = table[p]
      BY <1>0, <1>a DEF TypeOK
    <2>2. RegisterPendingPeer(table[n], m) \in Table
      BY <2>1, RegisterType
    <2>3. Peers(RegisterPendingPeer(table[n], m)) = Peers(table[n]) \cup {m}
      BY <2>1, RegisterPeers
    <2>4. RegisterPendingPeer(table[n], m)[m] = "pending"
      BY <2>1, RegisterEntries
    <2> QED BY <1>2, <2>1, <2>2, <2>3, <2>4 DEF IsPendingPeer
  <1>7. TypeOK'
    BY <1>0, <1>a, <1>5, <1>6 DEF TypeOK, Status, Running
  <1>8. TableBound'
    <2>1. GetNumPeers(table[n]) = 0
      BY <1>2, FS_EmptySet DEF GetNumPeers
    <2>2. GetNumPeers(table[n]) <= MaxPeers[n] /\ ~IsFull(table[n], MaxPeers[n])
      BY <2>1, MaxPeersAssumption DEF IsFull
    <2>3. table[n] \in Table
      BY <1>0 DEF TypeOK
    <2>4. GetNumPeers(table'[n]) <= MaxPeers[n]
      BY <1>6, <2>2, <2>3, RegisterBound
    <2> QED BY <1>6, <2>4 DEF IInv, TableBound
  <1>9. SocketsMatchTable'
    <2> SUFFICES ASSUME NEW p \in Node, NEW q \in Node
                 PROVE  sock'[p][q] \in {"open", "reset"}
                          <=> q \in Peers(table'[p]) \/ (q = closing[p] /\ q # NoNode)
      BY <1>a DEF SocketsMatchTable
    <2>1. sock[p][q] \in {"open", "reset"}
             <=> q \in Peers(table[p]) \/ (q = closing[p] /\ q # NoNode)
      BY DEF IInv, SocketsMatchTable
    <2>2. CASE p = n
      BY <1>2, <1>5, <1>6, <2>2, NoNodeAssumption
    <2>3. CASE p = m /\ q = n
      BY <1>3, <1>5, <1>6, <2>3
    <2>4. CASE p # n /\ (p # m \/ q # n)
      <3>1. sock'[p][q] = sock[p][q]
        BY <1>1, <1>5, <2>4
      <3> QED BY <1>6, <2>1, <2>4, <3>1
    <2> QED BY <2>2, <2>3, <2>4
  <1>10. AnswerExpected'
    BY <1>a, <1>2, <1>4, <1>6 DEF IInv, AnswerExpected, IsPendingPeer, Peers
  <1>11. TodoAvailable'
    BY <1>a, <1>2, <1>6 DEF IInv, TodoAvailable, CanRegisterPending
  <1>12. ListsDisjoint'
    <2>1. Rejecters(rejected[n]) = {}
      BY <1>1 DEF Rejecters
    <2> QED BY <1>a, <1>6, <2>1 DEF IInv, ListsDisjoint
  <1>13. LoopState'
    <2>1. \A p \in Node : closing[p] # NoNode => closing[p] \in Node /\ p # n /\ closing[p] # n
      BY <1>0, <1>1, <1>2 DEF IInv, LoopState, TypeOK
    <2> QED BY <1>a, <1>0, <1>2, <1>5, <1>6, <2>1 DEF IInv, LoopState, TypeOK
  <1>14. Backlog'
    <2> SUFFICES ASSUME NEW p \in Node, NEW q \in Node, sock'[p][q] = "queued"
                 PROVE  /\ inbox[q][p] = NoMsg
                        /\ \/ sock'[q][p] = "closed"
                           \/ sock'[q][p] = "open" /\ IsPendingPeer(table'[q], p)
      BY <1>a DEF Backlog
    <2>1. CASE p = m /\ q = n
      BY <1>4, <1>5, <1>6, <2>1
    <2>2. CASE p # m \/ q # n
      <3>1. p # n /\ q # n /\ sock[p][q] = "queued"
        BY <1>5, <2>2
      <3>2. /\ inbox[q][p] = NoMsg
            /\ \/ sock[q][p] = "closed"
               \/ sock[q][p] = "open" /\ IsPendingPeer(table[q], p)
        BY <3>1 DEF IInv, Backlog
      <3> QED BY <1>5, <1>6, <3>1, <3>2
    <2> QED BY <2>1, <2>2
  <1>15. RedirectCloses'
    <2> SUFFICES ASSUME NEW p \in Node, NEW q \in Node, inbox[p][q].type = "REDIRECT"
                 PROVE  ~Alive(sock'[q][p])
      BY <1>a DEF RedirectCloses
    <2>1. ~Alive(sock[q][p])
      BY DEF IInv, RedirectCloses
    <2>2. p # n \/ q # m
      BY <1>4 DEF NoMsg
    <2>3. p # m \/ q # n
      BY <1>4 DEF NoMsg
    <2>4. sock'[q][p] = sock[q][p]
      BY <1>1, <1>5, <2>2, <2>3
    <2> QED BY <2>1, <2>4
  <1>16. NotStarted'
    <2> SUFFICES ASSUME NEW p \in Node, status'[p] = "down"
                 PROVE  /\ rejected[p] = <<>>
                        /\ \A q \in Node : sock'[p][q] = "none" /\ sock'[q][p] = "none"
      BY <1>a DEF NotStarted
    <2>1. p # n /\ p # m /\ status[p] = "down"
      BY <1>0, <1>a DEF TypeOK, IsListening
    <2>2. /\ rejected[p] = <<>>
          /\ \A q \in Node : sock[p][q] = "none" /\ sock[q][p] = "none"
      BY <2>1 DEF IInv, NotStarted
    <2> QED BY <1>5, <2>1, <2>2
  <1> QED BY <1>7, <1>8, <1>9, <1>10, <1>11, <1>12, <1>13, <1>14, <1>15, <1>16 DEF IInv

\* acceptPeerRequest() keeps the invariant.
LEMMA IInvAcceptPeerRequest ==
  ASSUME IInv, NEW n \in Node, NEW m \in Node,
         sock[n][m] = "queued", status[n] = "up", todo[n] = {},
         AcceptPeerRequest(n, m)
  PROVE  IInv'
  <1>0. TypeOK
    BY DEF IInv
  <1> USE DEF AcceptPeerRequest
  <1>1. PICK S \in JoinPeers(n) : inbox' = Delivered(n, m, "WELCOME", S)
    OBVIOUS
  <1>2. /\ n # m
        /\ m \notin Peers(table[n]) /\ closing[n] # m
        /\ inbox[n][m] = NoMsg /\ inbox[m][n] = NoMsg
        /\ sock[m][n] \in {"open", "closed"}
        /\ sock[m][n] = "open" =>
              IsPendingPeer(table[m], n) /\ ~IsRejectedPeer(rejected[m], n)
    BY QueuedFacts
  <1>3. /\ inbox' \in [Node -> [Node -> Response]]
        /\ S \subseteq Peers(table[n])
        /\ \A p, q \in Node : p # m \/ q # n => inbox'[p][q] = inbox[p][q]
        /\ \/ inbox'[m][n] = NoMsg
           \/ sock[m][n] = "open" /\ inbox'[m][n] = [type |-> "WELCOME", peers |-> S]
    BY <1>0, <1>1, <1>2, DeliveredType DEF Delivered, TypeOK
  <1>4. /\ sock' \in [Node -> [Node -> End]]
        /\ sock'[n][m] = "open"
        /\ \A p, q \in Node : p # n \/ q # m => sock'[p][q] = sock[p][q]
    BY <1>0 DEF TypeOK, End
  <1>5. /\ table'[n] = RegisterConnectedPeer(table[n], m)
        /\ table'[n] \in Table /\ Peers(table'[n]) = Peers(table[n]) \cup {m}
        /\ \A q \in Node \ {m} : table'[n][q] = table[n][q]
        /\ \A p \in Node \ {n} : table'[p] = table[p]
    <2>1. /\ table[n] \in Table
          /\ table'[n] = RegisterConnectedPeer(table[n], m)
          /\ \A p \in Node \ {n} : table'[p] = table[p]
      BY <1>0 DEF TypeOK
    <2>2. table'[n] \in Table
      BY <2>1, RegisterType
    <2>3. Peers(table'[n]) = Peers(table[n]) \cup {m}
      BY <2>1, RegisterPeers
    <2>4. \A q \in Node \ {m} : table'[n][q] = table[n][q]
      BY <2>1 DEF RegisterConnectedPeer, Table
    <2> QED BY <2>1, <2>2, <2>3, <2>4
  <1>6. TypeOK'
    BY <1>0, <1>3, <1>4, <1>5 DEF TypeOK
  <1>7. TableBound'
    <2>1. GetNumPeers(table'[n]) <= MaxPeers[n]
      BY <1>0, <1>5, RegisterBound DEF IInv, TypeOK, TableBound
    <2> QED BY <1>5, <2>1 DEF IInv, TableBound
  <1>8. SocketsMatchTable'
    BY <1>2, <1>4, <1>5 DEF IInv, SocketsMatchTable
  <1>9. AnswerExpected'
    <2> SUFFICES ASSUME NEW p \in Node, NEW q \in Node, inbox'[p][q] # NoMsg
                 PROVE  /\ IsPendingPeer(table'[p], q)
                        /\ ~IsRejectedPeer(rejected[p], q)
                        /\ p \notin inbox'[p][q].peers
      BY DEF AnswerExpected
    <2>1. CASE p = m /\ q = n
      BY <1>2, <1>3, <1>5, <2>1
    <2>2. CASE p # m \/ q # n
      <3>1. /\ IsPendingPeer(table[p], q)
            /\ ~IsRejectedPeer(rejected[p], q)
            /\ p \notin inbox'[p][q].peers
        BY <1>3, <2>2 DEF IInv, AnswerExpected
      <3> QED BY <1>2, <1>3, <1>5, <3>1, <2>2 DEF IsPendingPeer
    <2> QED BY <2>1, <2>2
  <1>10. TodoAvailable'
    BY <1>5 DEF IInv, TodoAvailable, CanRegisterPending
  <1>11. ListsDisjoint'
    BY <1>5 DEF IInv, ListsDisjoint, CanRegisterConnected, IsRejectedPeer
  <1>12. LoopState'
    <2>1. \A p \in Node : closing[p] # NoNode =>
             /\ closing[p] \in Node /\ p # n
             /\ ~(closing[p] = n /\ p = m)
      BY <1>0 DEF IInv, LoopState, TypeOK, Alive
    <2> QED BY <1>4, <1>5, <2>1 DEF IInv, LoopState
  <1>13. Backlog'
    <2> SUFFICES ASSUME NEW p \in Node, NEW q \in Node, sock'[p][q] = "queued"
                 PROVE  /\ inbox'[q][p] = NoMsg
                        /\ \/ sock'[q][p] = "closed"
                           \/ sock'[q][p] = "open" /\ IsPendingPeer(table'[q], p)
      BY DEF Backlog
    <2>1. (p # n \/ q # m) /\ sock[p][q] = "queued"
      BY <1>4
    <2>2. /\ inbox[q][p] = NoMsg
          /\ \/ sock[q][p] = "closed"
             \/ sock[q][p] = "open" /\ IsPendingPeer(table[q], p)
      BY <2>1 DEF IInv, Backlog
    <2>3. q # n \/ p # m
      BY <1>2, <2>1
    <2>4. inbox'[q][p] = NoMsg /\ sock'[q][p] = sock[q][p]
      BY <1>3, <1>4, <2>1, <2>2, <2>3
    <2>5. IsPendingPeer(table[q], p) => IsPendingPeer(table'[q], p)
      BY <1>5, <2>3 DEF IsPendingPeer
    <2> QED BY <2>2, <2>4, <2>5
  <1>14. RedirectCloses'
    <2> SUFFICES ASSUME NEW p \in Node, NEW q \in Node, inbox'[p][q].type = "REDIRECT"
                 PROVE  ~Alive(sock'[q][p])
      BY DEF RedirectCloses
    <2>1. (p # m \/ q # n) /\ inbox[p][q].type = "REDIRECT"
      BY <1>3 DEF NoMsg
    <2>2. ~Alive(sock[q][p])
      BY <2>1 DEF IInv, RedirectCloses
    <2> QED BY <1>4, <2>1, <2>2
  <1>15. NotStarted'
    BY <1>4 DEF IInv, NotStarted
  <1> QED BY <1>6, <1>7, <1>8, <1>9, <1>10, <1>11, <1>12, <1>13, <1>14, <1>15 DEF IInv

\* Steps of nodes that have started leave those that have not as they are.
LEMMA NotStartedKept ==
  ASSUME IInv, NEW n \in Node, NEW m \in Node,
         status[n] # "down", status[m] # "down", status' = status,
         \A p \in Node : p # n => rejected'[p] = rejected[p],
         \A p, q \in Node :
            (p # n \/ q # m) /\ (p # m \/ q # n) => sock'[p][q] = sock[p][q]
  PROVE  NotStarted'
  <1> SUFFICES ASSUME NEW p \in Node, status[p] = "down"
               PROVE  /\ rejected'[p] = <<>>
                      /\ \A q \in Node : sock'[p][q] = "none" /\ sock'[q][p] = "none"
    BY DEF NotStarted
  <1>1. p # n /\ p # m
    OBVIOUS
  <1>2. /\ rejected[p] = <<>>
        /\ \A q \in Node : sock[p][q] = "none" /\ sock[q][p] = "none"
    BY DEF IInv, NotStarted
  <1> QED BY <1>1, <1>2

\* A peer in the backlog is turned away, with a response or without one.
LEMMA IInvTurnedAway ==
  ASSUME IInv, NEW n \in Node, NEW m \in Node, sock[n][m] = "queued",
         RedirectPeer(n, m) \/ ResponseFails(n, m)
  PROVE  IInv'
  <1>0. TypeOK
    BY DEF IInv
  <1>a. /\ sock' = Closed(sock, n, m)
        /\ UNCHANGED <<status, table, rejected, todo, closing, stops>>
    BY DEF RedirectPeer, ResponseFails
  <1>1. \/ inbox' = inbox
        \/ \E S \in JoinPeers(n) : inbox' = Delivered(n, m, "REDIRECT", S)
    BY DEF RedirectPeer, ResponseFails
  <1>2. /\ n # m
        /\ m \notin Peers(table[n]) /\ closing[n] # m
        /\ inbox[n][m] = NoMsg /\ inbox[m][n] = NoMsg
        /\ sock[m][n] \in {"open", "closed"}
        /\ sock[m][n] = "open" =>
              IsPendingPeer(table[m], n) /\ ~IsRejectedPeer(rejected[m], n)
    BY QueuedFacts
  <1>3. /\ inbox' \in [Node -> [Node -> Response]]
        /\ \A p, q \in Node : p # m \/ q # n => inbox'[p][q] = inbox[p][q]
        /\ \/ inbox'[m][n] = NoMsg
           \/ sock[m][n] = "open" /\ m \notin inbox'[m][n].peers
    <2>1. CASE inbox' = inbox
      BY <1>0, <1>2, <2>1 DEF TypeOK
    <2>2. ASSUME NEW S \in JoinPeers(n), inbox' = Delivered(n, m, "REDIRECT", S)
          PROVE  /\ inbox' \in [Node -> [Node -> Response]]
                 /\ \A p, q \in Node : p # m \/ q # n => inbox'[p][q] = inbox[p][q]
                 /\ \/ inbox'[m][n] = NoMsg
                    \/ sock[m][n] = "open" /\ m \notin inbox'[m][n].peers
      <3>1. Delivered(n, m, "REDIRECT", S) \in [Node -> [Node -> Response]] /\ m \notin S
        BY <1>0, <1>2, DeliveredType
      <3> QED BY <1>0, <1>2, <2>2, <3>1 DEF Delivered, TypeOK
    <2> QED BY <1>1, <2>1, <2>2
  <1>4. /\ sock' \in [Node -> [Node -> End]]
        /\ sock'[n][m] \in {"closed", "none"}
        /\ \A p, q \in Node : p # n \/ q # m => sock'[p][q] = sock[p][q]
    <2>1. sock \in [Node -> [Node -> End]]
      BY <1>0 DEF TypeOK
    <2>2. Closed(sock, n, m) \in [Node -> [Node -> End]]
      BY <2>1, ClosedType
    <2>3. /\ Closed(sock, n, m)[n][m] \in {"closed", "none"}
          /\ \A p, q \in Node : p # n \/ q # m => Closed(sock, n, m)[p][q] = sock[p][q]
      BY <2>1, ClosedEnds
    <2> QED BY <1>a, <2>2, <2>3
  <1>5. TypeOK'
    BY <1>0, <1>a, <1>3, <1>4 DEF TypeOK
  <1>6. TableBound' /\ ListsDisjoint'
    BY <1>a DEF IInv, TableBound, ListsDisjoint
  <1>7. SocketsMatchTable'
    BY <1>a, <1>2, <1>4 DEF IInv, SocketsMatchTable
  <1>8. AnswerExpected'
    <2> SUFFICES ASSUME NEW p \in Node, NEW q \in Node, inbox'[p][q] # NoMsg
                 PROVE  /\ IsPendingPeer(table[p], q)
                        /\ ~IsRejectedPeer(rejected[p], q)
                        /\ p \notin inbox'[p][q].peers
      BY <1>a DEF AnswerExpected
    <2>1. CASE p = m /\ q = n
      BY <1>2, <1>3, <2>1
    <2>2. CASE p # m \/ q # n
      BY <1>3, <2>2 DEF IInv, AnswerExpected
    <2> QED BY <2>1, <2>2
  <1>9. TodoAvailable'
    BY <1>a DEF IInv, TodoAvailable, CanRegisterPending
  <1>10. LoopState'
    <2>1. \A p \in Node : closing[p] # NoNode =>
             /\ closing[p] \in Node
             /\ p # n \/ closing[p] # m
             /\ ~(closing[p] = n /\ p = m)
      BY <1>0, <1>2 DEF IInv, LoopState, TypeOK, Alive
    <2> QED BY <1>a, <1>4, <2>1 DEF IInv, LoopState
  <1>11. Backlog'
    <2> SUFFICES ASSUME NEW p \in Node, NEW q \in Node, sock'[p][q] = "queued"
                 PROVE  /\ inbox'[q][p] = NoMsg
                        /\ \/ sock'[q][p] = "closed"
                           \/ sock'[q][p] = "open" /\ IsPendingPeer(table[q], p)
      BY <1>a DEF Backlog
    <2>1. (p # n \/ q # m) /\ sock[p][q] = "queued"
      BY <1>4
    <2>2. /\ inbox[q][p] = NoMsg
          /\ \/ sock[q][p] = "closed"
             \/ sock[q][p] = "open" /\ IsPendingPeer(table[q], p)
      BY <2>1 DEF IInv, Backlog
    <2>3. q # n \/ p # m
      BY <1>2, <2>1
    <2> QED BY <1>3, <1>4, <2>1, <2>2, <2>3
  <1>12. RedirectCloses'
    <2> SUFFICES ASSUME NEW p \in Node, NEW q \in Node, inbox'[p][q].type = "REDIRECT"
                 PROVE  ~Alive(sock'[q][p])
      BY DEF RedirectCloses
    <2>1. CASE p = m /\ q = n
      BY <1>4, <2>1 DEF Alive
    <2>2. CASE p # m \/ q # n
      <3>1. inbox[p][q].type = "REDIRECT"
        BY <1>3, <2>2
      <3>2. ~Alive(sock[q][p])
        BY <3>1 DEF IInv, RedirectCloses
      <3> QED BY <1>4, <2>2, <3>2
    <2> QED BY <2>1, <2>2
  <1>13. NotStarted'
    <2>1. status[n] # "down" /\ status[m] # "down"
      BY DEF IInv, NotStarted
    <2> QED BY <1>a, <1>4, <2>1, NotStartedKept
  <1> QED BY <1>5, <1>6, <1>7, <1>8, <1>9, <1>10, <1>11, <1>12, <1>13 DEF IInv

\* What a response finds.
LEMMA ResponseFacts ==
  ASSUME IInv, NEW n \in Node, NEW m \in Node, todo[n] = {},
         inbox[n][m].type \in {"WELCOME", "REDIRECT"}
  PROVE  /\ IsPendingPeer(table[n], m) /\ m \in Peers(table[n])
         /\ ~IsRejectedPeer(rejected[n], m)
         /\ n \notin inbox[n][m].peers /\ inbox[n][m].peers \subseteq Node
         /\ closing[n] = NoNode
         /\ sock[m][n] # "queued"
         /\ sock[n][m] # "queued"
  <1>1. inbox[n][m] # NoMsg
    BY DEF NoMsg
  <1>2. /\ IsPendingPeer(table[n], m)
        /\ ~IsRejectedPeer(rejected[n], m)
        /\ n \notin inbox[n][m].peers
    BY <1>1 DEF IInv, AnswerExpected
  <1>3. m \in Peers(table[n])
    BY <1>2 DEF IsPendingPeer, Peers
  <1>4. inbox[n][m].peers \subseteq Node
    BY DEF IInv, TypeOK, Response
  <1>5. closing[n] = NoNode
    BY DEF IInv, LoopState
  <1>6. sock[m][n] # "queued"
    BY <1>1 DEF IInv, Backlog
  <1>7. sock[n][m] # "queued"
    BY <1>3 DEF IInv, SocketsMatchTable
  <1> QED BY <1>2, <1>3, <1>4, <1>5, <1>6, <1>7

\* The peers a handler sets out to try are new to it.
LEMMA AvailablePeers ==
  ASSUME NEW n \in Node, NEW t, NEW r, NEW peers \in SUBSET Node
  PROVE  /\ Available(n, t, r, peers) \in SUBSET Node
         /\ Available(n, t, r, peers) \subseteq peers
         /\ \A p \in Available(n, t, r, peers) : CanRegisterPending(t, r, p)
         /\ Available(n, t, r, peers) # {} => ~IsFull(t, MaxPeers[n])
  BY DEF Available, CanRegisterPending

\* The WELCOME branch of handleP2pTraffic() keeps the invariant.
LEMMA IInvHandleWelcome ==
  ASSUME IInv, NEW n \in Node, NEW m \in Node, status[n] = "up", todo[n] = {},
         HandleWelcome(n, m),
         inbox' = [inbox EXCEPT ![n][m] = NoMsg],
         UNCHANGED <<status, stops>>
  PROVE  IInv'
  <1>0. TypeOK
    BY DEF IInv
  <1> DEFINE t == RegisterConnectedPeer(table[n], m)
             ps == Available(n, t, rejected[n], inbox[n][m].peers)
  <1>a. /\ inbox[n][m].type = "WELCOME"
        /\ table' = [table EXCEPT ![n] = t]
        /\ todo' = [todo EXCEPT ![n] = ps]
        /\ UNCHANGED <<rejected, closing, sock>>
    BY DEF HandleWelcome
  <1>1. /\ IsPendingPeer(table[n], m) /\ m \in Peers(table[n])
        /\ ~IsRejectedPeer(rejected[n], m)
        /\ n \notin inbox[n][m].peers /\ inbox[n][m].peers \subseteq Node
        /\ closing[n] = NoNode
        /\ sock[m][n] # "queued"
    BY <1>a, ResponseFacts
  <1>2. /\ t \in Table /\ Peers(t) = Peers(table[n])
        /\ \A q \in Node \ {m} : t[q] = table[n][q]
    <2>1. table[n] \in Table
      BY <1>0 DEF TypeOK
    <2>2. t \in Table /\ Peers(t) = Peers(table[n]) \cup {m}
      BY <2>1, RegisterType, RegisterPeers
    <2>3. Peers(table[n]) \cup {m} = Peers(table[n])
      BY <1>1
    <2>4. \A q \in Node \ {m} : t[q] = table[n][q]
      BY <2>1, RegisterEntries
    <2> QED BY <2>2, <2>3, <2>4
  <1>3. /\ ps \in SUBSET Node /\ ps \subseteq inbox[n][m].peers
        /\ \A p \in ps : CanRegisterPending(t, rejected[n], p)
        /\ ps # {} => ~IsFull(t, MaxPeers[n])
    BY <1>1, AvailablePeers
  <1> HIDE DEF t, ps
  <1>4. /\ table'[n] = t /\ \A p \in Node \ {n} : table'[p] = table[p]
        /\ todo'[n] = ps /\ \A p \in Node \ {n} : todo'[p] = todo[p]
        /\ inbox'[n][m] = NoMsg
        /\ \A p, q \in Node : p # n \/ q # m => inbox'[p][q] = inbox[p][q]
    BY <1>0, <1>a DEF TypeOK
  <1>5. TypeOK'
    BY <1>0, <1>a, <1>2, <1>3, NoMsgType DEF TypeOK
  <1>6. TableBound' /\ ListsDisjoint'
    <2>1. GetNumPeers(table'[n]) = GetNumPeers(table[n])
      BY <1>2, <1>4 DEF GetNumPeers
    <2>2. TableBound'
      BY <1>4, <2>1 DEF IInv, TableBound
    <2>3. \A p \in Node : Peers(table'[p]) = Peers(table[p])
      BY <1>2, <1>4
    <2> QED BY <1>a, <2>2, <2>3 DEF IInv, ListsDisjoint
  <1>7. SocketsMatchTable'
    BY <1>a, <1>2, <1>4 DEF IInv, SocketsMatchTable
  <1>8. AnswerExpected'
    <2> SUFFICES ASSUME NEW p \in Node, NEW q \in Node, inbox'[p][q] # NoMsg
                 PROVE  /\ IsPendingPeer(table'[p], q)
                        /\ ~IsRejectedPeer(rejected[p], q)
                        /\ p \notin inbox'[p][q].peers
      BY <1>a DEF AnswerExpected
    <2>1. (p # n \/ q # m) /\ inbox'[p][q] = inbox[p][q]
      BY <1>4
    <2>2. /\ IsPendingPeer(table[p], q)
          /\ ~IsRejectedPeer(rejected[p], q)
          /\ p \notin inbox[p][q].peers
      BY <2>1 DEF IInv, AnswerExpected
    <2> QED BY <1>2, <1>4, <2>1, <2>2 DEF IsPendingPeer
  <1>9. TodoAvailable'
    BY <1>a, <1>1, <1>3, <1>4 DEF IInv, TodoAvailable, CanRegisterPending
  <1>10. LoopState'
    BY <1>a, <1>1, <1>3, <1>4 DEF IInv, LoopState
  <1>11. Backlog'
    <2> SUFFICES ASSUME NEW p \in Node, NEW q \in Node, sock[p][q] = "queued"
                 PROVE  /\ inbox'[q][p] = NoMsg
                        /\ \/ sock[q][p] = "closed"
                           \/ sock[q][p] = "open" /\ IsPendingPeer(table'[q], p)
      BY <1>a DEF Backlog
    <2>1. /\ inbox[q][p] = NoMsg
          /\ \/ sock[q][p] = "closed"
             \/ sock[q][p] = "open" /\ IsPendingPeer(table[q], p)
      BY DEF IInv, Backlog
    <2>2. q # n \/ p # m
      BY <1>1
    <2> QED BY <1>2, <1>4, <2>1, <2>2 DEF IsPendingPeer
  <1>12. RedirectCloses'
    BY <1>a, <1>4 DEF IInv, RedirectCloses, NoMsg
  <1>13. NotStarted'
    BY <1>a DEF IInv, NotStarted
  <1> QED BY <1>5, <1>6, <1>7, <1>8, <1>9, <1>10, <1>11, <1>12, <1>13 DEF IInv

\* So does the REDIRECT branch, with the new rejecter on the list.
LEMMA IInvHandleRedirect ==
  ASSUME IInv, NEW n \in Node, NEW m \in Node, status[n] = "up", todo[n] = {},
         sock[n][m] = "open",
         HandleRedirect(n, m),
         inbox' = [inbox EXCEPT ![n][m] = NoMsg],
         UNCHANGED <<status, stops>>
  PROVE  IInv'
  <1>0. TypeOK
    BY DEF IInv
  <1> DEFINE t == RemovePeer(table[n], m)
             r == PushRejected(rejected[n], m)
             ps == Available(n, t, r, inbox[n][m].peers)
  <1>a. /\ inbox[n][m].type = "REDIRECT"
        /\ table' = [table EXCEPT ![n] = t]
        /\ rejected' = [rejected EXCEPT ![n] = r]
        /\ todo' = [todo EXCEPT ![n] = ps]
        /\ closing' = [closing EXCEPT ![n] = IF ps = {} THEN NoNode ELSE m]
        /\ sock' = IF ps = {} THEN Closed(sock, n, m) ELSE sock
    BY DEF HandleRedirect
  <1>1. /\ IsPendingPeer(table[n], m) /\ m \in Peers(table[n])
        /\ ~IsRejectedPeer(rejected[n], m)
        /\ n \notin inbox[n][m].peers /\ inbox[n][m].peers \subseteq Node
        /\ closing[n] = NoNode
        /\ sock[m][n] # "queued"
    BY <1>a, ResponseFacts
  <1>2. /\ t \in Table /\ Peers(t) = Peers(table[n]) \ {m}
        /\ \A q \in Node \ {m} : t[q] = table[n][q]
    <2>1. table[n] \in Table
      BY <1>0 DEF TypeOK
    <2> QED BY <1>1, <2>1, RegisterType, RegisterPeers, RegisterEntries
  <1>3. /\ r \in Seq(Node)
        /\ Rejecters(r) \subseteq Rejecters(rejected[n]) \cup {m} /\ m \in Rejecters(r)
    BY <1>0, PushRejectedType, PushRejectedElements DEF TypeOK
  <1>4. /\ ps \in SUBSET Node /\ ps \subseteq inbox[n][m].peers
        /\ \A p \in ps : CanRegisterPending(t, r, p)
        /\ ps # {} => ~IsFull(t, MaxPeers[n])
    BY <1>1, AvailablePeers
  <1>5. GetNumPeers(t) <= GetNumPeers(table[n]) /\ GetNumPeers(t) \in Nat
        /\ GetNumPeers(table[n]) \in Nat
    BY <1>0, <1>2, RemovePeerCount, PeersFinite DEF TypeOK
  <1> HIDE DEF t, r, ps
  <1>6. /\ table'[n] = t /\ \A p \in Node \ {n} : table'[p] = table[p]
        /\ rejected'[n] = r /\ \A p \in Node \ {n} : rejected'[p] = rejected[p]
        /\ todo'[n] = ps /\ \A p \in Node \ {n} : todo'[p] = todo[p]
        /\ closing'[n] = (IF ps = {} THEN NoNode ELSE m)
        /\ \A p \in Node \ {n} : closing'[p] = closing[p]
        /\ inbox'[n][m] = NoMsg
        /\ \A p, q \in Node : p # n \/ q # m => inbox'[p][q] = inbox[p][q]
    BY <1>0, <1>a DEF TypeOK
  <1>7. ~Alive(sock[m][n])
    BY <1>a DEF IInv, RedirectCloses
  <1>8. /\ sock' \in [Node -> [Node -> End]]
        /\ sock'[n][m] = (IF ps = {} THEN "none" ELSE "open")
        /\ \A p, q \in Node : p # n \/ q # m => sock'[p][q] = sock[p][q]
    <2>1. sock \in [Node -> [Node -> End]]
      BY <1>0 DEF TypeOK
    <2>2. Closed(sock, n, m) \in [Node -> [Node -> End]]
      BY <2>1, ClosedType
    <2>3. /\ Closed(sock, n, m)[n][m] = "none"
          /\ \A p, q \in Node : p # n \/ q # m => Closed(sock, n, m)[p][q] = sock[p][q]
      BY <1>7, <2>1, ClosedEnds
    <2> QED BY <1>a, <2>1, <2>2, <2>3
  <1>9. TypeOK'
    BY <1>0, <1>a, <1>2, <1>3, <1>4, <1>8, NoMsgType DEF TypeOK
  <1>10. TableBound'
    <2>1. GetNumPeers(table'[n]) <= MaxPeers[n]
      BY <1>5, <1>6, MaxPeersAssumption DEF IInv, TableBound
    <2> QED BY <1>6, <2>1 DEF IInv, TableBound
  <1>11. ListsDisjoint'
    <2>1. Rejecters(rejected[n]) \cap Peers(table[n]) = {}
      BY DEF IInv, ListsDisjoint
    <2>2. Rejecters(rejected'[n]) \cap Peers(table'[n]) = {}
      BY <1>2, <1>3, <1>6, <2>1
    <2> QED BY <1>6, <2>2 DEF IInv, ListsDisjoint
  <1>12. SocketsMatchTable'
    <2> SUFFICES ASSUME NEW p \in Node, NEW q \in Node
                 PROVE  sock'[p][q] \in {"open", "reset"}
                          <=> q \in Peers(table'[p]) \/ (q = closing'[p] /\ q # NoNode)
      BY DEF SocketsMatchTable
    <2>1. CASE p = n /\ q = m
      BY <1>2, <1>6, <1>8, <2>1, NoNodeAssumption
    <2>2. CASE p # n \/ q # m
      <3>1. sock[p][q] \in {"open", "reset"}
              <=> q \in Peers(table[p]) \/ (q = closing[p] /\ q # NoNode)
        BY DEF IInv, SocketsMatchTable
      <3> QED BY <1>1, <1>2, <1>6, <1>8, <2>2, <3>1
    <2> QED BY <2>1, <2>2
  <1>13. AnswerExpected'
    <2> SUFFICES ASSUME NEW p \in Node, NEW q \in Node, inbox'[p][q] # NoMsg
                 PROVE  /\ IsPendingPeer(table'[p], q)
                        /\ ~IsRejectedPeer(rejected'[p], q)
                        /\ p \notin inbox'[p][q].peers
      BY DEF AnswerExpected
    <2>1. (p # n \/ q # m) /\ inbox'[p][q] = inbox[p][q]
      BY <1>6
    <2>2. /\ IsPendingPeer(table[p], q)
          /\ ~IsRejectedPeer(rejected[p], q)
          /\ p \notin inbox[p][q].peers
      BY <2>1 DEF IInv, AnswerExpected
    <2> QED BY <1>2, <1>3, <1>6, <2>1, <2>2 DEF IsPendingPeer, IsRejectedPeer
  <1>14. TodoAvailable'
    BY <1>1, <1>4, <1>6 DEF IInv, TodoAvailable
  <1>15. LoopState'
    <2> SUFFICES ASSUME NEW p \in Node
                 PROVE  /\ todo'[p] # {} => status'[p] = "up" /\ ~IsFull(table'[p], MaxPeers[p])
                        /\ closing'[p] # NoNode =>
                              /\ todo'[p] # {}
                              /\ IsRejectedPeer(rejected'[p], closing'[p])
                              /\ sock'[p][closing'[p]] = "open"
                              /\ ~Alive(sock'[closing'[p]][p])
      BY DEF LoopState
    <2>1. CASE p = n
      <3>1. ps # {} => /\ sock'[n][m] = "open" /\ IsRejectedPeer(r, m)
                       /\ ~Alive(sock'[m][n])
        BY <1>3, <1>7, <1>8 DEF IsRejectedPeer, Alive
      <3> QED BY <1>4, <1>6, <2>1, <3>1
    <2>2. CASE p # n
      <3>1. closing[p] # NoNode =>
               /\ closing[p] \in Node /\ todo[p] # {}
               /\ IsRejectedPeer(rejected[p], closing[p])
               /\ sock[p][closing[p]] = "open"
               /\ ~Alive(sock[closing[p]][p])
        BY <1>0 DEF IInv, LoopState, TypeOK
      <3>2. closing[p] = n /\ p = m => ~Alive(sock'[n][m])
        <4>1. closing[p] = n /\ p = m => ~Alive(sock[n][m])
          BY <3>1, NoNodeAssumption
        <4> QED BY <4>1 DEF Alive
      <3> QED BY <1>6, <1>8, <2>2, <3>1, <3>2 DEF IInv, LoopState
    <2> QED BY <2>1, <2>2
  <1>16. Backlog'
    <2> SUFFICES ASSUME NEW p \in Node, NEW q \in Node, sock'[p][q] = "queued"
                 PROVE  /\ inbox'[q][p] = NoMsg
                        /\ \/ sock'[q][p] = "closed"
                           \/ sock'[q][p] = "open" /\ IsPendingPeer(table'[q], p)
      BY DEF Backlog
    <2>1. sock[p][q] = "queued"
      BY <1>8
    <2>2. /\ inbox[q][p] = NoMsg
          /\ \/ sock[q][p] = "closed"
             \/ sock[q][p] = "open" /\ IsPendingPeer(table[q], p)
      BY <2>1 DEF IInv, Backlog
    <2>3. q # n \/ p # m
      BY <1>1, <2>1
    <2> QED BY <1>2, <1>6, <1>8, <2>2, <2>3 DEF IsPendingPeer
  <1>17. RedirectCloses'
    <2> SUFFICES ASSUME NEW p \in Node, NEW q \in Node, inbox'[p][q].type = "REDIRECT"
                 PROVE  ~Alive(sock'[q][p])
      BY DEF RedirectCloses
    <2>1. inbox[p][q].type = "REDIRECT"
      BY <1>6 DEF NoMsg
    <2>2. ~Alive(sock[q][p])
      BY <2>1 DEF IInv, RedirectCloses
    <2> QED BY <1>8, <2>2 DEF Alive
  <1>18. NotStarted'
    <2>1. status[n] # "down" /\ status[m] # "down"
      BY DEF IInv, NotStarted
    <2> QED BY <1>6, <1>8, <1>a, <2>1, NotStartedKept
  <1> QED BY <1>9, <1>10, <1>11, <1>12, <1>13, <1>14, <1>15, <1>16, <1>17, <1>18 DEF IInv

\* What the handler of n leaves when it goes on with the peers ps: only the
\* connection to the redirecting peer can change, and it is gone after the last.
AfterGoesOn(n, ps, s) ==
    /\ todo' \in [Node -> SUBSET Node] /\ todo'[n] = ps
    /\ \A p \in Node \ {n} : todo'[p] = todo[p]
    /\ closing' \in [Node -> Node \cup {NoNode}]
    /\ closing'[n] = IF ps = {} THEN NoNode ELSE closing[n]
    /\ \A p \in Node \ {n} : closing'[p] = closing[p]
    /\ sock' \in [Node -> [Node -> End]]
    /\ closing[n] # NoNode =>
          sock'[n][closing[n]] = IF ps = {} THEN "none" ELSE s[n][closing[n]]
    /\ \A p, q \in Node : p # n \/ q # closing[n] => sock'[p][q] = s[p][q]

\* One iteration of the loop over recommended peers leaves what AfterGoesOn says.
LEMMA GoesOnFacts ==
  ASSUME IInv, NEW n \in Node, NEW ps \in SUBSET Node,
         NEW s \in [Node -> [Node -> End]], GoesOn(n, ps, s),
         closing[n] # NoNode => ~Alive(s[closing[n]][n])
  PROVE  AfterGoesOn(n, ps, s)
  <1> USE DEF AfterGoesOn
  <1>0. TypeOK
    BY DEF IInv
  <1>1. /\ todo' \in [Node -> SUBSET Node]
        /\ closing' \in [Node -> Node \cup {NoNode}]
        /\ sock' \in [Node -> [Node -> End]]
    BY <1>0, GoesOnType
  <1>2. /\ todo'[n] = ps /\ \A p \in Node \ {n} : todo'[p] = todo[p]
        /\ closing'[n] = IF ps = {} THEN NoNode ELSE closing[n]
        /\ \A p \in Node \ {n} : closing'[p] = closing[p]
    BY <1>0 DEF GoesOn, TypeOK
  <1>3. sock' = IF ps = {} THEN Closed(s, n, closing[n]) ELSE s
    BY DEF GoesOn
  <1>4. closing[n] \in Node \cup {NoNode}
    BY <1>0 DEF TypeOK
  <1>5. CASE closing[n] = NoNode
    <2>1. Closed(s, n, closing[n]) = s
      BY <1>5 DEF Closed
    <2> QED BY <1>1, <1>2, <1>3, <1>5, <2>1
  <1>6. CASE closing[n] # NoNode
    <2>1. closing[n] \in Node
      BY <1>4, <1>6
    <2>2. /\ Closed(s, n, closing[n])[n][closing[n]] = "none"
          /\ \A p, q \in Node : p # n \/ q # closing[n] =>
                Closed(s, n, closing[n])[p][q] = s[p][q]
      BY <1>6, <2>1, ClosedEnds
    <2> QED BY <1>1, <1>2, <1>3, <2>2
  <1> QED BY <1>5, <1>6

\* While a handler runs: what holds of the redirecting peer.
LEMMA ClosingFacts ==
  ASSUME IInv, NEW n \in Node, closing[n] # NoNode
  PROVE  /\ closing[n] \in Node
         /\ IsRejectedPeer(rejected[n], closing[n])
         /\ closing[n] \notin Peers(table[n])
         /\ sock[n][closing[n]] = "open"
         /\ ~Alive(sock[closing[n]][n])
         /\ inbox[n][closing[n]] = NoMsg
  <1>1. /\ closing[n] \in Node
        /\ IsRejectedPeer(rejected[n], closing[n])
        /\ sock[n][closing[n]] = "open"
        /\ ~Alive(sock[closing[n]][n])
    BY DEF IInv, TypeOK, LoopState
  <1>2. closing[n] \notin Peers(table[n])
    BY <1>1 DEF IInv, ListsDisjoint, IsRejectedPeer
  <1>3. inbox[n][closing[n]] = NoMsg
    BY <1>1 DEF IInv, AnswerExpected
  <1> QED BY <1>1, <1>2, <1>3

\* A recommended peer skipped for EADDRNOTAVAIL keeps the invariant.
LEMMA IInvBusyAddress ==
  ASSUME IInv, NEW n \in Node, NEW m \in Node, status[n] = "up", m \in todo[n],
         BusyAddress(n, m)
  PROVE  IInv'
  <1>0. TypeOK
    BY DEF IInv
  <1> DEFINE ps == Remaining(n, m, table[n])
  <1>a. /\ GoesOn(n, ps, sock)
        /\ UNCHANGED <<status, table, rejected, inbox, stops>>
    BY DEF BusyAddress
  <1>1. ps \in SUBSET Node /\ ps \subseteq todo[n]
    BY <1>0 DEF Remaining, TypeOK
  <1> HIDE DEF ps
  <1>2. closing[n] # NoNode => ~Alive(sock[closing[n]][n])
    BY ClosingFacts
  <1>3. AfterGoesOn(n, ps, sock)
    <2>1. sock \in [Node -> [Node -> End]]
      BY <1>0 DEF TypeOK
    <2> QED BY <1>1, <1>2, <1>a, <2>1, GoesOnFacts
  <1> USE DEF AfterGoesOn
  <1>4. TypeOK'
    BY <1>0, <1>a, <1>3 DEF TypeOK
  <1>5. TableBound' /\ ListsDisjoint' /\ AnswerExpected'
    BY <1>a DEF IInv, TableBound, ListsDisjoint, AnswerExpected
  <1>6. SocketsMatchTable'
    <2> SUFFICES ASSUME NEW p \in Node, NEW q \in Node
                 PROVE  sock'[p][q] \in {"open", "reset"}
                          <=> q \in Peers(table[p]) \/ (q = closing'[p] /\ q # NoNode)
      BY <1>a DEF SocketsMatchTable
    <2>1. sock[p][q] \in {"open", "reset"}
            <=> q \in Peers(table[p]) \/ (q = closing[p] /\ q # NoNode)
      BY DEF IInv, SocketsMatchTable
    <2>2. CASE p = n /\ q = closing[n]
      <3>1. q # NoNode /\ q \notin Peers(table[n])
        BY <2>2, ClosingFacts, NoNodeAssumption
      <3> QED BY <1>3, <2>1, <2>2, <3>1
    <2>3. CASE p # n \/ q # closing[n]
      BY <1>3, <2>1, <2>3
    <2> QED BY <2>2, <2>3
  <1>7. TodoAvailable'
    BY <1>a, <1>1, <1>3 DEF IInv, TodoAvailable
  <1>8. LoopState'
    <2> SUFFICES ASSUME NEW p \in Node
                 PROVE  /\ todo'[p] # {} => status[p] = "up" /\ ~IsFull(table[p], MaxPeers[p])
                        /\ closing'[p] # NoNode =>
                              /\ todo'[p] # {}
                              /\ IsRejectedPeer(rejected[p], closing'[p])
                              /\ sock'[p][closing'[p]] = "open"
                              /\ ~Alive(sock'[closing'[p]][p])
      BY <1>a DEF LoopState
    <2>1. /\ todo[p] # {} => status[p] = "up" /\ ~IsFull(table[p], MaxPeers[p])
          /\ closing[p] # NoNode => todo[p] # {}
      BY DEF IInv, LoopState
    <2>2. closing[p] # NoNode =>
             /\ closing[p] \in Node
             /\ IsRejectedPeer(rejected[p], closing[p])
             /\ sock[p][closing[p]] = "open"
             /\ ~Alive(sock[closing[p]][p])
      BY ClosingFacts
    <2>3. closing[p] # NoNode => ~Alive(sock'[closing[p]][p])
      BY <1>3, <2>2, NoNodeAssumption DEF Alive
    <2>4. CASE p = n
      BY <1>1, <1>3, <2>1, <2>2, <2>3, <2>4
    <2>5. CASE p # n
      BY <1>3, <2>1, <2>2, <2>3, <2>5
    <2> QED BY <2>4, <2>5
  <1>9. \A p, q \in Node : \/ sock'[p][q] = sock[p][q]
                           \/ /\ p = n /\ q = closing[n] /\ sock'[p][q] = "none"
                              /\ ~Alive(sock[q][p])
    BY <1>2, <1>3, NoNodeAssumption
  <1>10. Backlog'
    <2> SUFFICES ASSUME NEW p \in Node, NEW q \in Node, sock'[p][q] = "queued"
                 PROVE  /\ inbox[q][p] = NoMsg
                        /\ \/ sock'[q][p] = "closed"
                           \/ sock'[q][p] = "open" /\ IsPendingPeer(table[q], p)
      BY <1>a DEF Backlog
    <2>1. sock[p][q] = "queued"
      BY <1>9
    <2>2. sock'[q][p] = sock[q][p]
      BY <1>9, <2>1 DEF Alive
    <2> QED BY <2>1, <2>2 DEF IInv, Backlog
  <1>11. RedirectCloses'
    BY <1>a, <1>9 DEF IInv, RedirectCloses, Alive
  <1>12. NotStarted'
    <2> SUFFICES ASSUME NEW p \in Node, status[p] = "down"
                 PROVE  /\ rejected[p] = <<>>
                        /\ \A q \in Node : sock'[p][q] = "none" /\ sock'[q][p] = "none"
      BY <1>a DEF NotStarted
    <2>1. /\ rejected[p] = <<>>
          /\ \A q \in Node : sock[p][q] = "none" /\ sock[q][p] = "none"
      BY DEF IInv, NotStarted
    <2> QED BY <1>9, <2>1
  <1> QED BY <1>4, <1>5, <1>6, <1>7, <1>8, <1>10, <1>11, <1>12 DEF IInv

\* Two nodes that one of them is about to connect know nothing of each other.
LEMMA TryFacts ==
  ASSUME IInv, NEW n \in Node, NEW m \in Node, m \in todo[n], FreeAddress(sock, n, m)
  PROVE  /\ n # m
         /\ CanRegisterPending(table[n], rejected[n], m)
         /\ ~IsFull(table[n], MaxPeers[n])
         /\ m \notin Peers(table[n]) /\ closing[n] # m
         /\ n \notin Peers(table[m]) /\ closing[m] # n
         /\ sock[n][m] \in {"none", "closed"} /\ sock[m][n] \in {"none", "closed"}
         /\ inbox[n][m] = NoMsg /\ inbox[m][n] = NoMsg
  <1>1. n # m /\ sock[n][m] \in {"none", "closed"} /\ sock[m][n] \in {"none", "closed"}
    BY DEF FreeAddress
  <1>2. CanRegisterPending(table[n], rejected[n], m) /\ ~IsFull(table[n], MaxPeers[n])
    BY DEF IInv, TodoAvailable, LoopState
  <1>3. /\ m \notin Peers(table[n]) /\ closing[n] # m
        /\ n \notin Peers(table[m]) /\ closing[m] # n
    BY <1>1, NoNodeAssumption DEF IInv, SocketsMatchTable
  <1>4. inbox[n][m] = NoMsg /\ inbox[m][n] = NoMsg
    BY <1>3 DEF IInv, AnswerExpected, IsPendingPeer, Peers
  <1> QED BY <1>1, <1>2, <1>3, <1>4

\* A connection to a recommended peer keeps the invariant.
LEMMA IInvConnectToPeer ==
  ASSUME IInv, NEW n \in Node, NEW m \in Node, status[n] = "up", m \in todo[n],
         ConnectToPeer(n, m)
  PROVE  IInv'
  <1>0. TypeOK
    BY DEF IInv
  <1> DEFINE t == RegisterPendingPeer(table[n], m)
             ps == Remaining(n, m, t)
             s == Connected(sock, n, m)
  <1>a. /\ IsListening(m)
        /\ table' = [table EXCEPT ![n] = t]
        /\ GoesOn(n, ps, s)
        /\ UNCHANGED <<status, rejected, inbox, stops>>
    BY DEF ConnectToPeer
  <1>1. /\ n # m
        /\ CanRegisterPending(table[n], rejected[n], m)
        /\ ~IsFull(table[n], MaxPeers[n])
        /\ m \notin Peers(table[n]) /\ closing[n] # m
        /\ n \notin Peers(table[m]) /\ closing[m] # n
        /\ sock[n][m] \in {"none", "closed"} /\ sock[m][n] \in {"none", "closed"}
        /\ inbox[n][m] = NoMsg /\ inbox[m][n] = NoMsg
    <2>1. FreeAddress(sock, n, m)
      BY DEF ConnectToPeer
    <2> QED BY <2>1, TryFacts
  <1>2. table[n] \in Table /\ sock \in [Node -> [Node -> End]]
    BY <1>0 DEF TypeOK
  <1>3. /\ t \in Table /\ Peers(t) = Peers(table[n]) \cup {m} /\ t[m] = "pending"
        /\ \A q \in Node \ {m} : t[q] = table[n][q]
    <2>1. t \in Table /\ Peers(t) = Peers(table[n]) \cup {m}
      BY <1>2, RegisterType, RegisterPeers
    <2>2. t[m] = "pending" /\ \A q \in Node \ {m} : t[q] = table[n][q]
      BY <1>2, RegisterEntries
    <2> QED BY <2>1, <2>2
  <1>4. GetNumPeers(t) <= MaxPeers[n]
    BY <1>1, <1>2, RegisterBound DEF IInv, TableBound
  <1>5. /\ ps \in SUBSET Node /\ ps \subseteq todo[n] \ {m}
        /\ ps # {} => ~IsFull(t, MaxPeers[n])
    BY <1>0 DEF Remaining, TypeOK
  <1>6. s \in [Node -> [Node -> End]]
    BY <1>2, ConnectedType
  <1>7. /\ s[n][m] = "open" /\ s[m][n] = "queued"
        /\ \A p, q \in Node :
              (p # n \/ q # m) /\ (p # m \/ q # n) => s[p][q] = sock[p][q]
    BY <1>1, <1>2, ConnectedEnds
  <1> HIDE DEF t, ps, s
  <1>8. AfterGoesOn(n, ps, s)
    <2>1. closing[n] # NoNode => ~Alive(s[closing[n]][n])
      BY <1>1, <1>7, ClosingFacts
    <2> QED BY <1>5, <1>6, <1>a, <2>1, GoesOnFacts
  <1> USE DEF AfterGoesOn
  <1>9. /\ table'[n] = t /\ \A p \in Node \ {n} : table'[p] = table[p]
        /\ table' \in [Node -> Table]
    BY <1>0, <1>a, <1>3 DEF TypeOK
  <1>10. /\ sock'[n][m] = "open" /\ sock'[m][n] = "queued"
         /\ \A p, q \in Node :
               (p # n \/ q # m) /\ (p # m \/ q # n) =>
                  \/ sock'[p][q] = sock[p][q]
                  \/ /\ p = n /\ q = closing[n] /\ sock'[p][q] = "none"
                     /\ ~Alive(sock[q][p])
    <2>1. sock'[n][m] = "open" /\ sock'[m][n] = "queued"
      BY <1>1, <1>7, <1>8
    <2>2. ASSUME NEW p \in Node, NEW q \in Node, p # n \/ q # m, p # m \/ q # n
          PROVE  \/ sock'[p][q] = sock[p][q]
                 \/ /\ p = n /\ q = closing[n] /\ sock'[p][q] = "none"
                    /\ ~Alive(sock[q][p])
      <3>1. s[p][q] = sock[p][q]
        BY <1>7, <2>2
      <3>2. CASE p = n /\ q = closing[n]
        <4>1. closing[n] # NoNode /\ ~Alive(sock[closing[n]][n])
          BY <3>2, ClosingFacts, NoNodeAssumption
        <4> QED BY <1>8, <3>1, <3>2, <4>1
      <3>3. CASE p # n \/ q # closing[n]
        BY <1>8, <3>1, <3>3
      <3> QED BY <3>2, <3>3
    <2> QED BY <2>1, <2>2
  <1>11. TypeOK'
    BY <1>0, <1>a, <1>8, <1>9 DEF TypeOK
  <1>12. TableBound'
    BY <1>4, <1>9 DEF IInv, TableBound
  <1>13. ListsDisjoint'
    <2>1. Rejecters(rejected[n]) \cap Peers(t) = {}
      BY <1>1, <1>3 DEF IInv, ListsDisjoint, CanRegisterPending, HasRemote, IsRejectedPeer
    <2> QED BY <1>a, <1>9, <2>1 DEF IInv, ListsDisjoint
  <1>14. SocketsMatchTable'
    <2> SUFFICES ASSUME NEW p \in Node, NEW q \in Node
                 PROVE  sock'[p][q] \in {"open", "reset"}
                          <=> q \in Peers(table'[p]) \/ (q = closing'[p] /\ q # NoNode)
      BY DEF SocketsMatchTable
    <2>1. sock[p][q] \in {"open", "reset"}
            <=> q \in Peers(table[p]) \/ (q = closing[p] /\ q # NoNode)
      BY DEF IInv, SocketsMatchTable
    <2>2. CASE p = n /\ q = m
      BY <1>3, <1>9, <1>10, <2>2
    <2>3. CASE p = m /\ q = n
      BY <1>1, <1>8, <1>9, <1>10, <2>3
    <2>4. CASE (p # n \/ q # m) /\ (p # m \/ q # n)
      <3>1. q \in Peers(table'[p]) <=> q \in Peers(table[p])
        BY <1>3, <1>9, <2>4
      <3>2. CASE p = n /\ q = closing[n]
        <4>1. q # NoNode /\ q \notin Peers(table[n]) /\ s[p][q] = sock[p][q]
          BY <1>7, <2>4, <3>2, ClosingFacts, NoNodeAssumption
        <4> QED BY <1>8, <2>1, <3>1, <3>2, <4>1
      <3>3. CASE p # n \/ q # closing[n]
        <4>1. sock'[p][q] = sock[p][q]
          BY <1>10, <2>4, <3>3
        <4>2. q = closing'[p] /\ q # NoNode <=> q = closing[p] /\ q # NoNode
          BY <1>8, <3>3, NoNodeAssumption
        <4> QED BY <2>1, <3>1, <4>1, <4>2
      <3> QED BY <3>2, <3>3
    <2> QED BY <2>2, <2>3, <2>4
  <1>15. AnswerExpected'
    <2> SUFFICES ASSUME NEW p \in Node, NEW q \in Node, inbox[p][q] # NoMsg
                 PROVE  /\ IsPendingPeer(table'[p], q)
                        /\ ~IsRejectedPeer(rejected[p], q)
                        /\ p \notin inbox[p][q].peers
      BY <1>a DEF AnswerExpected
    <2>1. /\ IsPendingPeer(table[p], q)
          /\ ~IsRejectedPeer(rejected[p], q)
          /\ p \notin inbox[p][q].peers
      BY DEF IInv, AnswerExpected
    <2>2. p # n \/ q # m
      BY <1>1
    <2> QED BY <1>3, <1>9, <2>1, <2>2 DEF IsPendingPeer
  <1>16. TodoAvailable'
    <2> SUFFICES ASSUME NEW p \in Node, NEW q \in todo'[p]
                 PROVE  CanRegisterPending(table'[p], rejected[p], q) /\ q # p
      BY <1>a DEF TodoAvailable
    <2>1. q \in todo[p] /\ q \in Node
      BY <1>0, <1>5, <1>8 DEF TypeOK
    <2>2. CanRegisterPending(table[p], rejected[p], q) /\ q # p
      BY <2>1 DEF IInv, TodoAvailable
    <2>3. q \notin Peers(table'[p])
      BY <1>3, <1>5, <1>8, <1>9, <2>2 DEF CanRegisterPending, HasRemote
    <2> QED BY <2>2, <2>3 DEF CanRegisterPending, HasRemote
  <1>17. LoopState'
    <2> SUFFICES ASSUME NEW p \in Node
                 PROVE  /\ todo'[p] # {} => status[p] = "up" /\ ~IsFull(table'[p], MaxPeers[p])
                        /\ closing'[p] # NoNode =>
                              /\ todo'[p] # {}
                              /\ IsRejectedPeer(rejected[p], closing'[p])
                              /\ sock'[p][closing'[p]] = "open"
                              /\ ~Alive(sock'[closing'[p]][p])
      BY <1>a DEF LoopState
    <2>1. /\ todo[p] # {} => status[p] = "up" /\ ~IsFull(table[p], MaxPeers[p])
          /\ closing[p] # NoNode => todo[p] # {}
      BY DEF IInv, LoopState
    <2>2. closing[p] # NoNode =>
             /\ closing[p] \in Node
             /\ IsRejectedPeer(rejected[p], closing[p])
             /\ sock[p][closing[p]] = "open"
             /\ ~Alive(sock[closing[p]][p])
      BY ClosingFacts
    <2>3. closing[p] # NoNode => (p # n \/ closing[p] # m) /\ (p # m \/ closing[p] # n)
      BY <1>1
    <2>4. closing[p] # NoNode => ~Alive(sock'[closing[p]][p])
      BY <1>10, <2>2, <2>3 DEF Alive
    <2>5. CASE p = n
      BY <1>5, <1>7, <1>8, <1>9, <2>1, <2>2, <2>3, <2>4, <2>5
    <2>6. CASE p # n
      BY <1>8, <1>9, <1>10, <2>1, <2>2, <2>3, <2>4, <2>6
    <2> QED BY <2>5, <2>6
  <1>18. Backlog'
    <2> SUFFICES ASSUME NEW p \in Node, NEW q \in Node, sock'[p][q] = "queued"
                 PROVE  /\ inbox[q][p] = NoMsg
                        /\ \/ sock'[q][p] = "closed"
                           \/ sock'[q][p] = "open" /\ IsPendingPeer(table'[q], p)
      BY <1>a DEF Backlog
    <2>1. CASE p = m /\ q = n
      BY <1>1, <1>3, <1>9, <1>10, <2>1 DEF IsPendingPeer
    <2>2. CASE p # m \/ q # n
      <3>1. (p # n \/ q # m) /\ sock[p][q] = "queued"
        BY <1>10, <2>2
      <3>2. /\ inbox[q][p] = NoMsg
            /\ \/ sock[q][p] = "closed"
               \/ sock[q][p] = "open" /\ IsPendingPeer(table[q], p)
        BY <3>1 DEF IInv, Backlog
      <3>3. sock'[q][p] = sock[q][p]
        BY <1>10, <2>2, <3>1 DEF Alive
      <3>4. IsPendingPeer(table[q], p) => IsPendingPeer(table'[q], p)
        BY <1>3, <1>9 DEF IsPendingPeer
      <3> QED BY <3>2, <3>3, <3>4
    <2> QED BY <2>1, <2>2
  <1>19. RedirectCloses'
    <2> SUFFICES ASSUME NEW p \in Node, NEW q \in Node, inbox[p][q].type = "REDIRECT"
                 PROVE  ~Alive(sock'[q][p])
      BY <1>a DEF RedirectCloses
    <2>1. ~Alive(sock[q][p])
      BY DEF IInv, RedirectCloses
    <2>2. (p # n \/ q # m) /\ (p # m \/ q # n)
      BY <1>1 DEF NoMsg
    <2> QED BY <1>10, <2>1, <2>2 DEF Alive
  <1>20. NotStarted'
    <2> SUFFICES ASSUME NEW p \in Node, status[p] = "down"
                 PROVE  /\ rejected[p] = <<>>
                        /\ \A q \in Node : sock'[p][q] = "none" /\ sock'[q][p] = "none"
      BY <1>a DEF NotStarted
    <2>1. /\ rejected[p] = <<>>
          /\ \A q \in Node : sock[p][q] = "none" /\ sock[q][p] = "none"
      BY DEF IInv, NotStarted
    <2>2. p # n /\ p # m
      BY <1>a DEF IsListening
    <2> QED BY <1>10, <2>1, <2>2
  <1> QED BY <1>11, <1>12, <1>13, <1>14, <1>15, <1>16, <1>17, <1>18, <1>19, <1>20 DEF IInv

\* What a simultaneous open of n and m leaves.
Cross(n, m, p, q) == (p = n /\ q = m) \/ (p = m /\ q = n)

AfterCross(n, m) ==
    /\ table' \in [Node -> Table]
    /\ todo' \in [Node -> SUBSET Node]
    /\ closing' \in [Node -> Node \cup {NoNode}]
    /\ sock' \in [Node -> [Node -> End]]
    /\ \A p \in Node :
          /\ GetNumPeers(table'[p]) <= MaxPeers[p]
          /\ todo'[p] \subseteq todo[p]
          /\ todo'[p] # {} => status[p] = "up" /\ ~IsFull(table'[p], MaxPeers[p])
          /\ closing'[p] \in {closing[p], NoNode}
          /\ closing'[p] # NoNode => todo'[p] # {}
    /\ \A p, q \in Node :
          /\ q \in Peers(table'[p]) <=> q \in Peers(table[p]) \/ Cross(n, m, p, q)
          /\ IsPendingPeer(table[p], q) => IsPendingPeer(table'[p], q)
          /\ Cross(n, m, p, q) => q \notin todo'[p] /\ sock'[p][q] = "open"
          /\ ~Cross(n, m, p, q) =>
                sock'[p][q] = IF q = closing[p] /\ closing'[p] = NoNode
                              THEN "none" ELSE sock[p][q]

\* A simultaneous open leaves what AfterCross says.
LEMMA CrossFacts ==
  ASSUME IInv, NEW n \in Node, NEW m \in Node, CrossConnect(n, m)
  PROVE  AfterCross(n, m)
  <1>0. TypeOK
    BY DEF IInv
  <1> DEFINE tn == RegisterPendingPeer(table[n], m)
             tm == RegisterPendingPeer(table[m], n)
             pn == Remaining(n, m, tn)
             pm == Remaining(m, n, tm)
             s == [sock EXCEPT ![n][m] = "open", ![m][n] = "open"]
             sn == IF pn = {} THEN Closed(s, n, closing[n]) ELSE s
             sm == IF pm = {} THEN Closed(sn, m, closing[m]) ELSE sn
  <1>a. /\ status[n] = "up" /\ m \in todo[n]
        /\ status[m] = "up" /\ n \in todo[m]
        /\ FreeAddress(sock, n, m)
        /\ table' = [table EXCEPT ![n] = tn, ![m] = tm]
        /\ todo' = [todo EXCEPT ![n] = pn, ![m] = pm]
        /\ closing' = [closing EXCEPT
                          ![n] = IF pn = {} THEN NoNode ELSE @,
                          ![m] = IF pm = {} THEN NoNode ELSE @]
        /\ sock' = sm
        /\ UNCHANGED <<status, rejected, inbox, stops>>
    BY DEF CrossConnect
  <1>1. /\ n # m
        /\ m \notin Peers(table[n]) /\ closing[n] # m
        /\ n \notin Peers(table[m]) /\ closing[m] # n
        /\ ~IsFull(table[n], MaxPeers[n])
    BY <1>a, TryFacts
  <1>2. ~IsFull(table[m], MaxPeers[m])
    BY <1>a DEF IInv, LoopState
  <1>3. /\ table \in [Node -> Table] /\ sock \in [Node -> [Node -> End]]
        /\ todo \in [Node -> SUBSET Node] /\ closing \in [Node -> Node \cup {NoNode}]
    BY <1>0 DEF TypeOK
  <1>4. tn \in Table /\ tm \in Table
    BY <1>3, RegisterType
  <1>5. Peers(tn) = Peers(table[n]) \cup {m} /\ Peers(tm) = Peers(table[m]) \cup {n}
    BY <1>3, RegisterPeers
  <1>6. /\ tn[m] = "pending" /\ \A q \in Node \ {m} : tn[q] = table[n][q]
        /\ tm[n] = "pending" /\ \A q \in Node \ {n} : tm[q] = table[m][q]
    BY <1>3, RegisterEntries
  <1>7. GetNumPeers(tn) <= MaxPeers[n]
    BY <1>1, <1>3, RegisterBound DEF IInv, TableBound
  <1>8. GetNumPeers(tm) <= MaxPeers[m]
    BY <1>2, <1>3, RegisterBound DEF IInv, TableBound
  <1>9. /\ pn \subseteq todo[n] \ {m} /\ (pn # {} => ~IsFull(tn, MaxPeers[n]))
        /\ pm \subseteq todo[m] \ {n} /\ (pm # {} => ~IsFull(tm, MaxPeers[m]))
    BY DEF Remaining
  <1>10. /\ s \in [Node -> [Node -> End]]
         /\ \A p, q \in Node :
               s[p][q] = IF Cross(n, m, p, q) THEN "open" ELSE sock[p][q]
    BY <1>1, <1>3 DEF End, Cross
  <1> HIDE DEF tn, tm, pn, pm, s
  <1>11. /\ closing[n] # NoNode => closing[n] \in Node /\ ~Alive(sock[closing[n]][n])
         /\ closing[m] # NoNode => closing[m] \in Node /\ ~Alive(sock[closing[m]][m])
         /\ closing[n] \in Node \cup {NoNode} /\ closing[m] \in Node \cup {NoNode}
    BY <1>3, ClosingFacts
  <1>12. /\ sn \in [Node -> [Node -> End]]
         /\ \A p, q \in Node :
               sn[p][q] = IF p = n /\ q = closing[n] /\ pn = {} THEN "none" ELSE s[p][q]
    <2>1. closing[n] # NoNode => ~Alive(s[closing[n]][n])
      BY <1>1, <1>10, <1>11 DEF Cross
    <2>2. /\ Closed(s, n, closing[n]) \in [Node -> [Node -> End]]
          /\ \A p, q \in Node : Closed(s, n, closing[n])[p][q] =
                IF p = n /\ q = closing[n] THEN "none" ELSE s[p][q]
      <3>1. s \in [Node -> [Node -> End]] /\ closing[n] \in Node \cup {NoNode}
        BY <1>10, <1>11
      <3> QED BY <2>1, <3>1, CloseRedirecting
    <2> QED BY <1>10, <2>2
  <1> HIDE DEF sn
  <1>13. /\ sm \in [Node -> [Node -> End]]
         /\ \A p, q \in Node :
               sm[p][q] = IF p = m /\ q = closing[m] /\ pm = {} THEN "none" ELSE sn[p][q]
    <2>1. closing[m] # NoNode => ~Alive(sn[closing[m]][m])
      BY <1>1, <1>10, <1>11, <1>12 DEF Cross
    <2>2. /\ Closed(sn, m, closing[m]) \in [Node -> [Node -> End]]
          /\ \A p, q \in Node : Closed(sn, m, closing[m])[p][q] =
                IF p = m /\ q = closing[m] THEN "none" ELSE sn[p][q]
      <3>1. sn \in [Node -> [Node -> End]] /\ closing[m] \in Node \cup {NoNode}
        BY <1>11, <1>12
      <3> QED BY <2>1, <3>1, CloseRedirecting
    <2> QED BY <1>12, <2>2
  <1> HIDE DEF sm
  <1>14. /\ table'[n] = tn /\ table'[m] = tm
         /\ \A p \in Node \ {n, m} : table'[p] = table[p]
         /\ table' \in [Node -> Table]
    BY <1>1, <1>3, <1>4, <1>a
  <1>15. /\ todo'[n] = pn /\ todo'[m] = pm
         /\ \A p \in Node \ {n, m} : todo'[p] = todo[p]
         /\ todo' \in [Node -> SUBSET Node]
    BY <1>1, <1>3, <1>9, <1>a
  <1>16. /\ closing'[n] = IF pn = {} THEN NoNode ELSE closing[n]
         /\ closing'[m] = IF pm = {} THEN NoNode ELSE closing[m]
         /\ \A p \in Node \ {n, m} : closing'[p] = closing[p]
         /\ closing' \in [Node -> Node \cup {NoNode}]
    BY <1>1, <1>3, <1>a
  <1>17. ASSUME NEW p \in Node
         PROVE  /\ GetNumPeers(table'[p]) <= MaxPeers[p]
                /\ todo'[p] \subseteq todo[p]
                /\ todo'[p] # {} => status[p] = "up" /\ ~IsFull(table'[p], MaxPeers[p])
                /\ closing'[p] \in {closing[p], NoNode}
                /\ closing'[p] # NoNode => todo'[p] # {}
    <2>1. /\ GetNumPeers(table[p]) <= MaxPeers[p]
          /\ todo[p] # {} => status[p] = "up" /\ ~IsFull(table[p], MaxPeers[p])
          /\ closing[p] # NoNode => todo[p] # {}
      BY DEF IInv, TableBound, LoopState
    <2>2. CASE p = n
      BY <1>a, <1>7, <1>9, <1>14, <1>15, <1>16, <2>2
    <2>3. CASE p = m
      BY <1>a, <1>8, <1>9, <1>14, <1>15, <1>16, <2>3
    <2>4. CASE p \notin {n, m}
      BY <1>14, <1>15, <1>16, <2>1, <2>4
    <2> QED BY <2>2, <2>3, <2>4
  <1>18. ASSUME NEW p \in Node, NEW q \in Node
         PROVE  /\ q \in Peers(table'[p]) <=> q \in Peers(table[p]) \/ Cross(n, m, p, q)
                /\ IsPendingPeer(table[p], q) => IsPendingPeer(table'[p], q)
                /\ Cross(n, m, p, q) => q \notin todo'[p]
    <2>1. q \in Peers(table'[p]) <=> q \in Peers(table[p]) \/ Cross(n, m, p, q)
      BY <1>1, <1>5, <1>14 DEF Cross
    <2>2. IsPendingPeer(table[p], q) => IsPendingPeer(table'[p], q)
      BY <1>6, <1>14 DEF IsPendingPeer
    <2>3. Cross(n, m, p, q) => q \notin todo'[p]
      BY <1>9, <1>15 DEF Cross
    <2> QED BY <2>1, <2>2, <2>3
  <1>19. ASSUME NEW p \in Node, NEW q \in Node, Cross(n, m, p, q)
         PROVE  sock'[p][q] = "open"
    BY <1>1, <1>10, <1>12, <1>13, <1>19, <1>a DEF Cross
  <1>20. ASSUME NEW p \in Node, NEW q \in Node, ~Cross(n, m, p, q)
         PROVE  sock'[p][q] = IF q = closing[p] /\ closing'[p] = NoNode
                              THEN "none" ELSE sock[p][q]
    <2>0. q # NoNode
      BY NoNodeAssumption
    <2>1. CASE p = n
      BY <1>1, <1>10, <1>12, <1>13, <1>16, <1>20, <1>a, <2>0, <2>1
    <2>2. CASE p = m
      BY <1>1, <1>10, <1>12, <1>13, <1>16, <1>20, <1>a, <2>0, <2>2
    <2>3. CASE p # n /\ p # m
      BY <1>10, <1>12, <1>13, <1>16, <1>20, <1>a, <2>0, <2>3
    <2> QED BY <2>1, <2>2, <2>3
  <1>21. sock' \in [Node -> [Node -> End]]
    BY <1>13, <1>a
  <1> QED BY <1>14, <1>15, <1>16, <1>17, <1>18, <1>19, <1>20, <1>21 DEF AfterCross

\* A simultaneous open keeps the invariant.
LEMMA IInvCrossConnect ==
  ASSUME IInv, NEW n \in Node, NEW m \in Node, CrossConnect(n, m)
  PROVE  IInv'
  <1>0. TypeOK
    BY DEF IInv
  <1>a. /\ status[n] = "up" /\ status[m] = "up" /\ m \in todo[n] /\ FreeAddress(sock, n, m)
        /\ UNCHANGED <<status, rejected, inbox, stops>>
    BY DEF CrossConnect
  <1>1. /\ CanRegisterPending(table[n], rejected[n], m)
        /\ CanRegisterPending(table[m], rejected[m], n)
        /\ closing[n] # m /\ closing[m] # n
        /\ inbox[n][m] = NoMsg /\ inbox[m][n] = NoMsg
    <2>1. CanRegisterPending(table[m], rejected[m], n)
      BY DEF CrossConnect, IInv, TodoAvailable
    <2> QED BY <1>a, <2>1, TryFacts
  <1>2. AfterCross(n, m)
    BY CrossFacts
  <1> USE DEF AfterCross
  <1>3. TypeOK'
    BY <1>0, <1>a, <1>2 DEF TypeOK
  <1>4. TableBound'
    BY <1>2 DEF TableBound
  <1>5. ListsDisjoint'
    BY <1>a, <1>1, <1>2 DEF IInv, ListsDisjoint, CanRegisterPending, HasRemote,
                            IsRejectedPeer, Peers, Cross
  <1>6. SocketsMatchTable'
    <2> SUFFICES ASSUME NEW p \in Node, NEW q \in Node
                 PROVE  sock'[p][q] \in {"open", "reset"}
                          <=> q \in Peers(table'[p]) \/ (q = closing'[p] /\ q # NoNode)
      BY DEF SocketsMatchTable
    <2>1. sock[p][q] \in {"open", "reset"}
            <=> q \in Peers(table[p]) \/ (q = closing[p] /\ q # NoNode)
      BY DEF IInv, SocketsMatchTable
    <2>2. CASE Cross(n, m, p, q)
      BY <1>2, <2>2
    <2>3. CASE ~Cross(n, m, p, q) /\ q = closing[p]
      <3>1. q # NoNode /\ q \notin Peers(table[p])
        BY <2>3, ClosingFacts, NoNodeAssumption
      <3> QED BY <1>2, <2>1, <2>3, <3>1
    <2>4. CASE ~Cross(n, m, p, q) /\ q # closing[p]
      BY <1>2, <2>1, <2>4
    <2> QED BY <2>2, <2>3, <2>4
  <1>7. AnswerExpected'
    <2> SUFFICES ASSUME NEW p \in Node, NEW q \in Node, inbox[p][q] # NoMsg
                 PROVE  /\ IsPendingPeer(table'[p], q)
                        /\ ~IsRejectedPeer(rejected[p], q)
                        /\ p \notin inbox[p][q].peers
      BY <1>a DEF AnswerExpected
    <2>1. /\ IsPendingPeer(table[p], q)
          /\ ~IsRejectedPeer(rejected[p], q)
          /\ p \notin inbox[p][q].peers
      BY DEF IInv, AnswerExpected
    <2> QED BY <1>2, <2>1
  <1>8. TodoAvailable'
    <2> SUFFICES ASSUME NEW p \in Node, NEW q \in todo'[p]
                 PROVE  CanRegisterPending(table'[p], rejected[p], q) /\ q # p
      BY <1>a DEF TodoAvailable
    <2>1. q \in todo[p] /\ q \in Node /\ ~Cross(n, m, p, q)
      BY <1>0, <1>2 DEF TypeOK
    <2>2. CanRegisterPending(table[p], rejected[p], q) /\ q # p
      BY <2>1 DEF IInv, TodoAvailable
    <2> QED BY <1>2, <2>1, <2>2 DEF CanRegisterPending, HasRemote
  <1>9. LoopState'
    <2> SUFFICES ASSUME NEW p \in Node, closing'[p] # NoNode
                 PROVE  /\ IsRejectedPeer(rejected[p], closing'[p])
                        /\ sock'[p][closing'[p]] = "open"
                        /\ ~Alive(sock'[closing'[p]][p])
      BY <1>a, <1>2 DEF LoopState
    <2>1. /\ closing'[p] = closing[p] /\ closing[p] \in Node
          /\ IsRejectedPeer(rejected[p], closing[p])
          /\ sock[p][closing[p]] = "open"
          /\ ~Alive(sock[closing[p]][p])
      BY <1>2, ClosingFacts
    <2>2. ~Cross(n, m, p, closing[p]) /\ ~Cross(n, m, closing[p], p)
      BY <1>1 DEF Cross
    <2>3. sock'[p][closing[p]] = "open"
      BY <1>2, <2>1, <2>2
    <2>4. ~Alive(sock'[closing[p]][p])
      BY <1>2, <2>1, <2>2 DEF Alive
    <2> QED BY <2>1, <2>3, <2>4
  <1>10. Backlog'
    <2> SUFFICES ASSUME NEW p \in Node, NEW q \in Node, sock'[p][q] = "queued"
                 PROVE  /\ inbox[q][p] = NoMsg
                        /\ \/ sock'[q][p] = "closed"
                           \/ sock'[q][p] = "open" /\ IsPendingPeer(table'[q], p)
      BY <1>a DEF Backlog
    <2>1. ~Cross(n, m, p, q) /\ ~Cross(n, m, q, p) /\ sock[p][q] = "queued"
      BY <1>2 DEF Cross
    <2>2. /\ inbox[q][p] = NoMsg
          /\ \/ sock[q][p] = "closed"
             \/ sock[q][p] = "open" /\ IsPendingPeer(table[q], p)
      BY <2>1 DEF IInv, Backlog
    <2>3. closing[q] # p
      <3>1. p # NoNode
        BY NoNodeAssumption
      <3> QED BY <2>1, <3>1, ClosingFacts DEF Alive
    <2>4. sock'[q][p] = sock[q][p]
      BY <1>2, <2>1, <2>3
    <2> QED BY <1>2, <2>2, <2>4
  <1>11. RedirectCloses'
    <2> SUFFICES ASSUME NEW p \in Node, NEW q \in Node, inbox[p][q].type = "REDIRECT"
                 PROVE  ~Alive(sock'[q][p])
      BY <1>a DEF RedirectCloses
    <2>1. ~Alive(sock[q][p])
      BY DEF IInv, RedirectCloses
    <2>2. ~Cross(n, m, q, p)
      BY <1>1 DEF NoMsg, Cross
    <2> QED BY <1>2, <2>1, <2>2 DEF Alive
  <1>12. NotStarted'
    <2> SUFFICES ASSUME NEW p \in Node, status[p] = "down"
                 PROVE  /\ rejected[p] = <<>>
                        /\ \A q \in Node : sock'[p][q] = "none" /\ sock'[q][p] = "none"
      BY <1>a DEF NotStarted
    <2>1. /\ rejected[p] = <<>>
          /\ \A q \in Node : sock[p][q] = "none" /\ sock[q][p] = "none"
      BY DEF IInv, NotStarted
    <2>2. \A q \in Node : ~Cross(n, m, p, q) /\ ~Cross(n, m, q, p)
      BY <1>a DEF Cross
    <2> QED BY <1>2, <2>1, <2>2
  <1> QED BY <1>3, <1>4, <1>5, <1>6, <1>7, <1>8, <1>9, <1>10, <1>11, <1>12 DEF IInv

-----------------------------------------------------------------------------
(* The invariant holds of every behaviour.                                 *)

\* handlePeeringClient() keeps the invariant, whatever it answers.
LEMMA IInvHandlePeeringClient ==
  ASSUME IInv, NEW n \in Node, NEW m \in Node, HandlePeeringClient(n, m)
  PROVE  IInv'
  <1>1. status[n] = "up" /\ todo[n] = {} /\ sock[n][m] = "queued"
    BY DEF HandlePeeringClient, AtSelect
  <1>2. CASE AcceptPeerRequest(n, m)
    BY <1>1, <1>2, IInvAcceptPeerRequest
  <1>3. CASE AcceptPeerRequestAborts(n, m)
    BY <1>1, <1>3, IInvAborts
  <1>4. CASE RedirectPeer(n, m)
    BY <1>1, <1>4, IInvTurnedAway
  <1>5. CASE ResponseFails(n, m)
    BY <1>1, <1>5, IInvTurnedAway
  <1> QED BY <1>2, <1>3, <1>4, <1>5 DEF HandlePeeringClient

\* So does handleP2pTraffic().
LEMMA IInvHandleP2pTraffic ==
  ASSUME IInv, NEW n \in Node, NEW m \in Node, HandleP2pTraffic(n, m)
  PROVE  IInv'
  <1>1. CASE HandleResponse(n, m)
    <2>1. /\ status[n] = "up" /\ todo[n] = {} /\ sock[n][m] = "open"
          /\ inbox' = [inbox EXCEPT ![n][m] = NoMsg]
          /\ UNCHANGED <<status, stops>>
          /\ HandleWelcome(n, m) \/ HandleRedirect(n, m)
      BY <1>1 DEF HandleResponse, AtSelect
    <2>2. CASE HandleWelcome(n, m)
      BY <2>1, <2>2, IInvHandleWelcome
    <2>3. CASE HandleRedirect(n, m)
      BY <2>1, <2>3, IInvHandleRedirect
    <2> QED BY <2>1, <2>2, <2>3
  <1>2. CASE HandleEndOfStream(n, m)
    <2>1. /\ status[n] \notin Ended /\ todo[n] = {}
          /\ status' = [status EXCEPT ![n] = "spinning"]
          /\ UNCHANGED <<table, rejected, todo, closing, sock, inbox, stops>>
      BY <1>2 DEF HandleEndOfStream, AtSelect, Ended
    <2>2. "spinning" \in Running
      BY DEF Running
    <2> QED BY <2>1, <2>2, IInvStatus
  <1>3. CASE HandleReset(n, m)
    <2>1. ProcessEnds(n, "threw") /\ stops' = stops /\ stops \in Nat
      BY <1>3 DEF HandleReset, IInv, TypeOK
    <2>2. "threw" \in Ended
      BY DEF Ended
    <2> QED BY <2>1, <2>2, IInvProcessEnds
  <1> QED BY <1>1, <1>2, <1>3 DEF HandleP2pTraffic

\* So does each connect() of handleRecommendedPeerTraffic().
LEMMA IInvTryPeer ==
  ASSUME IInv, NEW n \in Node, NEW m \in Node, TryPeer(n, m)
  PROVE  IInv'
  <1>1. status[n] = "up" /\ m \in todo[n]
    BY DEF TryPeer
  <1>2. CASE ConnectToPeer(n, m)
    BY <1>1, <1>2, IInvConnectToPeer
  <1>3. CASE BusyAddress(n, m)
    BY <1>1, <1>3, IInvBusyAddress
  <1>4. CASE ConnectRefused(n, m)
    <2>1. ProcessEnds(n, "threw") /\ stops' = stops /\ stops \in Nat
      BY <1>4 DEF ConnectRefused, IInv, TypeOK
    <2>2. "threw" \in Ended
      BY DEF Ended
    <2> QED BY <2>1, <2>2, IInvProcessEnds
  <1> QED BY <1>2, <1>3, <1>4 DEF TryPeer

\* Every step of every node keeps the invariant.
LEMMA IInvNext == IInv /\ [Next]_vars => IInv'
  <1> SUFFICES ASSUME IInv, [Next]_vars PROVE IInv'
    OBVIOUS
  <1>1. ASSUME NEW n \in Node, Start(n) PROVE IInv'
    <2>1. /\ status[n] \notin Ended /\ todo[n] = {}
          /\ status' = [status EXCEPT ![n] = "up"]
          /\ UNCHANGED <<table, rejected, todo, closing, sock, inbox, stops>>
      BY <1>1 DEF Start, Ended, IInv, LoopState
    <2>2. "up" \in Running
      BY DEF Running
    <2> QED BY <2>1, <2>2, IInvStatus
  <1>2. ASSUME NEW n \in Node, Listen(n) PROVE IInv'
    <2>1. /\ status[n] \notin Ended /\ todo[n] = {}
          /\ status' = [status EXCEPT ![n] = "up"]
          /\ UNCHANGED <<table, rejected, todo, closing, sock, inbox, stops>>
      BY <1>2 DEF Listen, Ended, IInv, LoopState
    <2>2. "up" \in Running
      BY DEF Running
    <2> QED BY <2>1, <2>2, IInvStatus
  <1>3. ASSUME NEW n \in Node, Stop(n) PROVE IInv'
    <2>1. ProcessEnds(n, "stopped") /\ stops' \in Nat
      BY <1>3 DEF Stop, IInv, TypeOK
    <2>2. "stopped" \in Ended
      BY DEF Ended
    <2> QED BY <2>1, <2>2, IInvProcessEnds
  <1>4. ASSUME NEW n \in Node, NEW m \in Node, ConnectToFirstPeer(n, m) PROVE IInv'
    BY <1>4, IInvConnectToFirstPeer
  <1>5. ASSUME NEW n \in Node, NEW m \in Node, Handler(n, m) PROVE IInv'
    BY <1>5, IInvHandlePeeringClient, IInvHandleP2pTraffic, IInvTryPeer DEF Handler
  <1>6. ASSUME NEW n \in Node, NEW m \in Node, CrossConnect(n, m) PROVE IInv'
    BY <1>6, IInvCrossConnect
  <1>7. CASE UNCHANGED vars
    BY <1>7 DEF vars, IInv, TypeOK, TableBound, SocketsMatchTable, AnswerExpected,
                TodoAvailable, CanRegisterPending, ListsDisjoint, LoopState, Backlog,
                RedirectCloses, NotStarted
  <1> QED BY <1>1, <1>2, <1>3, <1>4, <1>5, <1>6, <1>7 DEF Next

\* For every finite set of nodes, every -n option and every list capacity, the
\* inductive invariant holds throughout: whatever the order in which the nodes'
\* handlers run, and whichever processes end.
THEOREM InductiveInvariant == Spec => []IInv
  <1>1. Init => IInv
    BY IInvInit
  <1>2. IInv /\ [Next]_vars => IInv'
    BY IInvNext
  <1> QED BY <1>1, <1>2, PTL DEF Spec

\* Every variable keeps its type (main.cpp, P2pTable.h).
THEOREM TypeCorrect == Spec => []TypeOK
  <1>1. IInv => TypeOK
    BY DEF IInv
  <1> QED BY <1>1, InductiveInvariant, PTL

\* No node ever has more peers than its -n option, although isFull()
\* (P2pTable.cpp:143) only looks for equality.
THEOREM NeverOverfull == Spec => []TableBound
  <1>1. IInv => TableBound
    BY DEF IInv
  <1> QED BY <1>1, InductiveInvariant, PTL

\* A process holds descriptors for exactly the peers of its table and for the
\* redirecting peer it is about to close: rejection loses no descriptor.
THEOREM NoDescriptorLost == Spec => []SocketsMatchTable
  <1>1. IInv => SocketsMatchTable
    BY DEF IInv
  <1> QED BY <1>1, InductiveInvariant, PTL

\* handleP2pTraffic() never fails an assertion of P2pTable.cpp: a WELCOME or a
\* REDIRECT only ever comes from a pending peer that is not a known rejecter.
THEOREM TrafficNeverAsserts == Spec => []AnswerExpected
  <1>1. IInv => AnswerExpected
    BY DEF IInv
  <1> QED BY <1>1, InductiveInvariant, PTL

\* handleRecommendedPeerTraffic() never fails the assertion of
\* registerPendingPeer(), nor connects a node to itself.
THEOREM RecommendedNeverAssert == Spec => []TodoAvailable
  <1>1. IInv => TodoAvailable
    BY DEF IInv
  <1> QED BY <1>1, InductiveInvariant, PTL

\* Two connected nodes stay connected until a process ends: no step takes a
\* connected peer out of a live table.
LEMMA MembershipStep ==
  ASSUME IInv, [Next]_vars, NEW n \in Node, NEW m \in Node,
         IsConnectedPeer(table[n], m)
  PROVE  IsConnectedPeer(table'[n], m) \/ status'[n] \in Ended
  <1>0. TypeOK /\ table[n][m] = "connected" /\ m \in Peers(table[n])
    BY DEF IInv, IsConnectedPeer, Peers
  <1> DEFINE Kept == table'[n][m] = "connected"
             Gone == status'[n] \in Ended
  <1>1. ASSUME NEW p \in Node, NEW how \in Ended, ProcessEnds(p, how)
        PROVE  Kept \/ Gone
    BY <1>0, <1>1 DEF ProcessEnds, TypeOK
  <1>2. ASSUME NEW p \in Node, Start(p) \/ Listen(p) PROVE Kept
    BY <1>0, <1>2 DEF Start, Listen
  <1>3. ASSUME NEW p \in Node, Stop(p) PROVE Kept \/ Gone
    BY <1>1, <1>3 DEF Stop, Ended
  <1>4. ASSUME NEW p \in Node, NEW q \in Node, q \notin Peers(table[p]),
               table' = [table EXCEPT ![p] = RegisterPendingPeer(@, q)]
        PROVE  Kept
    <2>1. table[p] \in Table
      BY <1>0 DEF TypeOK
    <2>2. \A o \in Node \ {q} : RegisterPendingPeer(table[p], q)[o] = table[p][o]
      BY <2>1, RegisterEntries
    <2> QED BY <1>0, <1>4, <2>2 DEF TypeOK
  <1>5. ASSUME NEW p \in Node, NEW q \in Node, ConnectToFirstPeer(p, q)
        PROVE  Kept
    <2>1. /\ status[p] = "down"
          /\ table' = [table EXCEPT ![p] = RegisterPendingPeer(@, q)]
      BY <1>5 DEF ConnectToFirstPeer
    <2>2. q \notin Peers(table[p])
      BY <2>1 DEF IInv, NotStarted, SocketsMatchTable
    <2> QED BY <1>4, <2>1, <2>2
  <1>6. ASSUME NEW p \in Node, NEW q \in Node, HandlePeeringClient(p, q)
        PROVE  Kept \/ Gone
    <2>0. table[p] \in Table
      BY <1>0 DEF TypeOK
    <2>1. CASE AcceptPeerRequest(p, q)
      <3>1. table' = [table EXCEPT ![p] = RegisterConnectedPeer(@, q)]
        BY <2>1 DEF AcceptPeerRequest
      <3>2. /\ RegisterConnectedPeer(table[p], q)[q] = "connected"
            /\ \A o \in Node \ {q} : RegisterConnectedPeer(table[p], q)[o] = table[p][o]
        BY <2>0, RegisterEntries
      <3> QED BY <1>0, <3>1, <3>2 DEF TypeOK
    <2>2. CASE AcceptPeerRequestAborts(p, q)
      BY <1>0, <2>2 DEF AcceptPeerRequestAborts, TypeOK, Ended
    <2>3. CASE RedirectPeer(p, q) \/ ResponseFails(p, q)
      BY <1>0, <2>3 DEF RedirectPeer, ResponseFails
    <2> QED BY <1>6, <2>1, <2>2, <2>3 DEF HandlePeeringClient
  <1>7. ASSUME NEW p \in Node, NEW q \in Node, HandleP2pTraffic(p, q)
        PROVE  Kept \/ Gone
    <2>0. table[p] \in Table
      BY <1>0 DEF TypeOK
    <2>1. CASE HandleWelcome(p, q)
      <3>1. table' = [table EXCEPT ![p] = RegisterConnectedPeer(table[p], q)]
        BY <2>1 DEF HandleWelcome
      <3>2. /\ RegisterConnectedPeer(table[p], q)[q] = "connected"
            /\ \A o \in Node \ {q} : RegisterConnectedPeer(table[p], q)[o] = table[p][o]
        BY <2>0, RegisterEntries
      <3> QED BY <1>0, <3>1, <3>2 DEF TypeOK
    <2>2. CASE HandleRedirect(p, q)
      <3>1. table' = [table EXCEPT ![p] = RemovePeer(table[p], q)]
            /\ table[p][q] = "pending"
        BY <2>2 DEF HandleRedirect, CanRegisterRejected, IsPendingPeer
      <3>2. \A o \in Node \ {q} : RemovePeer(table[p], q)[o] = table[p][o]
        BY <2>0, RegisterEntries
      <3> QED BY <1>0, <3>1, <3>2 DEF TypeOK
    <2>3. CASE HandleEndOfStream(p, q)
      BY <1>0, <2>3 DEF HandleEndOfStream
    <2>4. CASE HandleReset(p, q)
      BY <1>1, <2>4 DEF HandleReset, Ended
    <2> QED BY <1>7, <2>1, <2>2, <2>3, <2>4 DEF HandleP2pTraffic, HandleResponse
  <1>8. ASSUME NEW p \in Node, NEW q \in Node, TryPeer(p, q)
        PROVE  Kept \/ Gone
    <2>1. CASE ConnectToPeer(p, q)
      <3>1. q \in todo[p] /\ table' = [table EXCEPT ![p] = RegisterPendingPeer(@, q)]
        BY <1>8, <2>1 DEF TryPeer, ConnectToPeer
      <3>2. q \notin Peers(table[p])
        BY <3>1 DEF IInv, TodoAvailable, CanRegisterPending, HasRemote
      <3> QED BY <1>4, <3>1, <3>2
    <2>2. CASE BusyAddress(p, q)
      BY <1>0, <2>2 DEF BusyAddress
    <2>3. CASE ConnectRefused(p, q)
      BY <1>1, <2>3 DEF ConnectRefused, Ended
    <2> QED BY <1>8, <2>1, <2>2, <2>3 DEF TryPeer
  <1>9. ASSUME NEW p \in Node, NEW q \in Node, CrossConnect(p, q)
        PROVE  Kept
    <2>1. /\ p # q /\ q \in todo[p] /\ p \in todo[q]
          /\ table' = [table EXCEPT ![p] = RegisterPendingPeer(table[p], q),
                                    ![q] = RegisterPendingPeer(table[q], p)]
      BY <1>9 DEF CrossConnect, FreeAddress
    <2>2. q \notin Peers(table[p]) /\ p \notin Peers(table[q])
      BY <2>1 DEF IInv, TodoAvailable, CanRegisterPending, HasRemote
    <2>3. table[p] \in Table /\ table[q] \in Table
      BY <1>0 DEF TypeOK
    <2>4. /\ \A o \in Node \ {q} : RegisterPendingPeer(table[p], q)[o] = table[p][o]
          /\ \A o \in Node \ {p} : RegisterPendingPeer(table[q], p)[o] = table[q][o]
      BY <2>3, RegisterEntries
    <2> QED BY <1>0, <2>1, <2>2, <2>4 DEF TypeOK
  <1>10. CASE UNCHANGED vars
    BY <1>0, <1>10 DEF vars
  <1>11. CASE Next
    <2>1. CASE \E p \in Node : Start(p) \/ Listen(p) \/ Stop(p)
      BY <1>2, <1>3, <2>1 DEF IsConnectedPeer
    <2>2. CASE \E p, q \in Node :
                  ConnectToFirstPeer(p, q) \/ Handler(p, q) \/ CrossConnect(p, q)
      BY <1>5, <1>6, <1>7, <1>8, <1>9, <2>2 DEF Handler, IsConnectedPeer
    <2> QED BY <1>11, <2>1, <2>2 DEF Next
  <1> QED BY <1>10, <1>11 DEF IsConnectedPeer

\* Membership is stable: once connected, two nodes stay so until a process ends
\* (no code path of main.cpp makes room in a full table).
THEOREM ConnectedPeersStay == Spec => MembershipStable
  <1>1. IInv /\ [Next]_vars =>
           \A n, m \in Node :
              IsConnectedPeer(table[n], m) =>
                 IsConnectedPeer(table'[n], m) \/ status'[n] \in Ended
    BY MembershipStep
  <1> QED BY <1>1, InductiveInvariant, PTL DEF Spec, MembershipStable

-----------------------------------------------------------------------------
(* Who can be refused.                                                     *)

\* What makes FirstThrow hold: nobody is recommended who has not been started,
\* and only the end of a process resets a connection.
Introduced ==
    /\ \A n \in Node : \A p \in todo[n] : status[p] # "down"
    /\ \A n, m \in Node : \A p \in inbox[n][m].peers : status[p] # "down"

ResetByExit ==
    \A n, m \in Node : sock[n][m] = "reset" => status[m] \in Ended

\* A node of the table has been started.
LEMMA PeersStarted ==
  ASSUME IInv, NEW n \in Node, NEW p \in Peers(table[n])
  PROVE  p \in Node /\ status[p] # "down"
  <1>1. p \in Node
    BY DEF Peers
  <1>2. sock[n][p] \in {"open", "reset"}
    BY <1>1 DEF IInv, SocketsMatchTable
  <1> QED BY <1>1, <1>2 DEF IInv, NotStarted

\* What a step may do to the status of a node, to the peers that are recommended
\* to it, and to a connection.
StatusGrows ==
    \A p \in Node :
       /\ status[p] # "down" => status'[p] # "down"
       /\ status[p] \in Ended => status'[p] \in Ended

Told ==
    /\ \A n \in Node : \A p \in todo'[n] :
          p \in todo[n] \/ \E m \in Node : p \in inbox[n][m].peers
    /\ \A n, m \in Node : \A p \in inbox'[n][m].peers :
          p \in inbox[n][m].peers \/ p \in Peers(table[m])

NoNewReset ==
    \A n, m \in Node :
       sock'[n][m] = "reset" => sock[n][m] = "reset" \/ status'[m] \in Ended

Grows == StatusGrows /\ Told /\ NoNewReset

LEMMA GrowsKeeps ==
  ASSUME IInv, TypeOK', Introduced, ResetByExit, Grows
  PROVE  Introduced' /\ ResetByExit'
  <1>1. StatusGrows /\ Told /\ NoNewReset
    BY DEF Grows
  <1>2. ASSUME NEW n \in Node, NEW p \in todo'[n] PROVE status'[p] # "down"
    <2>1. p \in Node
      BY DEF TypeOK
    <2>2. status[p] # "down"
      BY <1>1 DEF Introduced, Told
    <2> QED BY <1>1, <2>1, <2>2 DEF StatusGrows
  <1>3. ASSUME NEW n \in Node, NEW m \in Node, NEW p \in inbox'[n][m].peers
        PROVE  status'[p] # "down"
    <2>1. p \in inbox[n][m].peers \/ p \in Peers(table[m])
      BY <1>1 DEF Told
    <2>2. p \in Node
      BY <2>1 DEF IInv, TypeOK, Response, Peers
    <2>3. status[p] # "down"
      BY <2>1, PeersStarted DEF Introduced
    <2> QED BY <1>1, <2>2, <2>3 DEF StatusGrows
  <1>4. ASSUME NEW n \in Node, NEW m \in Node, sock'[n][m] = "reset"
        PROVE  status'[m] \in Ended
    BY <1>1, <1>4 DEF NoNewReset, ResetByExit, StatusGrows
  <1> QED BY <1>2, <1>3, <1>4 DEF Introduced, ResetByExit

LEMMA NoMsgEmpty ==
  \A p : p \notin NoMsg.peers
  BY DEF NoMsg

\* The end of a process.
LEMMA GrowsProcessEnds ==
  ASSUME TypeOK, NEW n \in Node, NEW how \in Ended, ProcessEnds(n, how)
  PROVE  Grows
  <1>1. StatusGrows
    BY DEF StatusGrows, ProcessEnds, TypeOK, Ended
  <1>2. Told
    BY NoMsgEmpty DEF Told, ProcessEnds, TypeOK
  <1>3. NoNewReset
    <2> SUFFICES ASSUME NEW p \in Node, NEW q \in Node, sock'[p][q] = "reset"
                 PROVE  sock[p][q] = "reset" \/ status'[q] \in Ended
      BY DEF NoNewReset
    <2>1. sock'[p][q] = IF p = n THEN EndAfterExit(n, q)
                        ELSE IF q = n THEN PeerEndAfterExit(n, p) ELSE sock[p][q]
      BY DEF ProcessEnds
    <2>2. EndAfterExit(n, q) # "reset"
      BY DEF EndAfterExit
    <2>3. q = n => status'[q] \in Ended
      BY DEF ProcessEnds, TypeOK
    <2> QED BY <2>1, <2>2, <2>3
  <1> QED BY <1>1, <1>2, <1>3 DEF Grows

\* A delivered response recommends peers of the node that sends it.
LEMMA DeliveredTold ==
  ASSUME TypeOK, NEW n \in Node, NEW m \in Node, NEW type \in {"WELCOME", "REDIRECT"},
         NEW S \in JoinPeers(n), NEW i \in Node, NEW j \in Node,
         NEW p \in Delivered(n, m, type, S)[i][j].peers
  PROVE  p \in inbox[i][j].peers \/ p \in Peers(table[j])
  <1>1. S \subseteq Peers(table[n])
    BY DeliveredType
  <1>2. CASE sock[m][n] = "open" /\ i = m /\ j = n
    <2>1. Delivered(n, m, type, S)[i][j] = [type |-> type, peers |-> S]
      BY <1>2 DEF Delivered, TypeOK
    <2> QED BY <1>1, <1>2, <2>1
  <1>3. CASE ~(sock[m][n] = "open" /\ i = m /\ j = n)
    BY <1>3 DEF Delivered, TypeOK
  <1> QED BY <1>2, <1>3

\* close() resets nothing.
LEMMA ClosedNoReset ==
  ASSUME NEW s \in [Node -> [Node -> End]], NEW n \in Node, NEW m \in Node \cup {NoNode}
  PROVE  \A p, q \in Node : Closed(s, n, m)[p][q] = "reset" => s[p][q] = "reset"
  <1>1. CASE m = NoNode
    <2>1. Closed(s, n, m) = s
      BY <1>1 DEF Closed
    <2> QED BY <2>1
  <1>2. CASE m \in Node
    <2>1. /\ Closed(s, n, m)[n][m] = IF Alive(s[m][n]) THEN "closed" ELSE "none"
          /\ \A p, q \in Node : p # n \/ q # m => Closed(s, n, m)[p][q] = s[p][q]
      BY <1>2, ClosedEnds
    <2>2. Closed(s, n, m)[n][m] # "reset"
      BY <2>1
    <2> QED BY <2>1, <2>2
  <1> QED BY <1>1, <1>2

LEMMA ClosedSock ==
  ASSUME TypeOK, NEW n \in Node, NEW m \in Node \cup {NoNode}, sock' = Closed(sock, n, m)
  PROVE  NoNewReset
  <1>1. sock \in [Node -> [Node -> End]]
    BY DEF TypeOK
  <1>2. \A p, q \in Node : Closed(sock, n, m)[p][q] = "reset" => sock[p][q] = "reset"
    BY <1>1, ClosedNoReset
  <1> QED BY <1>2 DEF NoNewReset

\* What the steps have in common that neither start nor end a process.
LEMMA StatusSame ==
  ASSUME status' = status
  PROVE  StatusGrows
  BY DEF StatusGrows

LEMMA GrowsPeeringClient ==
  ASSUME IInv, NEW n \in Node, NEW m \in Node, HandlePeeringClient(n, m)
  PROVE  Grows
  <1>0. TypeOK
    BY DEF IInv
  <1>1. CASE AcceptPeerRequest(n, m)
    <2>1. PICK S \in JoinPeers(n) : inbox' = Delivered(n, m, "WELCOME", S)
      BY <1>1 DEF AcceptPeerRequest
    <2>2. sock' = [sock EXCEPT ![n][m] = "open"] /\ todo' = todo /\ status' = status
      BY <1>1 DEF AcceptPeerRequest
    <2>3. Told
      BY <1>0, <2>1, <2>2, DeliveredTold DEF Told
    <2>4. NoNewReset
      BY <1>0, <2>2 DEF NoNewReset, TypeOK
    <2> QED BY <2>2, <2>3, <2>4, StatusSame DEF Grows
  <1>2. CASE AcceptPeerRequestAborts(n, m)
    <2>1. PICK S \in JoinPeers(n) :
             /\ status' = [status EXCEPT ![n] = "aborted"]
             /\ inbox' = [Delivered(n, m, "WELCOME", S) EXCEPT ![n] = [p \in Node |-> NoMsg]]
             /\ sock' = [p \in Node |-> [q \in Node |->
                 IF p = n /\ q = m THEN IF Alive(sock[m][n]) THEN "closed" ELSE "none"
                 ELSE IF p = n THEN EndAfterExit(n, q)
                 ELSE IF q = n /\ p # m THEN PeerEndAfterExit(n, p)
                 ELSE sock[p][q]]]
      BY <1>2 DEF AcceptPeerRequestAborts
    <2>2. todo' = todo
      BY <1>2 DEF AcceptPeerRequestAborts
    <2>3. StatusGrows
      BY <1>0, <2>1 DEF StatusGrows, TypeOK, Ended
    <2>4. Told
      <3> SUFFICES ASSUME NEW i \in Node, NEW j \in Node, NEW p \in inbox'[i][j].peers
                   PROVE  p \in inbox[i][j].peers \/ p \in Peers(table[j])
        BY <2>2 DEF Told
      <3>1. Delivered(n, m, "WELCOME", S) \in [Node -> [Node -> Response]]
        BY <1>0, DeliveredType
      <3>2. i # n /\ p \in Delivered(n, m, "WELCOME", S)[i][j].peers
        BY <2>1, <3>1, NoMsgEmpty
      <3> QED BY <1>0, <3>2, DeliveredTold
    <2>5. NoNewReset
      <3> SUFFICES ASSUME NEW p \in Node, NEW q \in Node, sock'[p][q] = "reset"
                   PROVE  sock[p][q] = "reset" \/ status'[q] \in Ended
        BY DEF NoNewReset
      <3>1. sock'[p][q] =
                 IF p = n /\ q = m THEN IF Alive(sock[m][n]) THEN "closed" ELSE "none"
                 ELSE IF p = n THEN EndAfterExit(n, q)
                 ELSE IF q = n /\ p # m THEN PeerEndAfterExit(n, p)
                 ELSE sock[p][q]
        BY <2>1
      <3>2. EndAfterExit(n, q) # "reset"
        BY DEF EndAfterExit
      <3>3. q = n => status'[q] \in Ended
        BY <1>0, <2>1 DEF TypeOK, Ended
      <3> QED BY <3>1, <3>2, <3>3
    <2> QED BY <2>3, <2>4, <2>5 DEF Grows
  <1>3. CASE RedirectPeer(n, m)
    <2>1. PICK S \in JoinPeers(n) : inbox' = Delivered(n, m, "REDIRECT", S)
      BY <1>3 DEF RedirectPeer
    <2>2. sock' = Closed(sock, n, m) /\ todo' = todo /\ status' = status
      BY <1>3 DEF RedirectPeer
    <2>3. Told
      BY <1>0, <2>1, <2>2, DeliveredTold DEF Told
    <2>4. NoNewReset
      BY <1>0, <2>2, ClosedSock
    <2> QED BY <2>2, <2>3, <2>4, StatusSame DEF Grows
  <1>4. CASE ResponseFails(n, m)
    <2>1. sock' = Closed(sock, n, m) /\ todo' = todo /\ status' = status /\ inbox' = inbox
      BY <1>4 DEF ResponseFails
    <2>2. Told
      BY <2>1 DEF Told
    <2>3. NoNewReset
      BY <1>0, <2>1, ClosedSock
    <2> QED BY <2>1, <2>2, <2>3, StatusSame DEF Grows
  <1> QED BY <1>1, <1>2, <1>3, <1>4 DEF HandlePeeringClient

LEMMA GrowsP2pTraffic ==
  ASSUME IInv, NEW n \in Node, NEW m \in Node, HandleP2pTraffic(n, m)
  PROVE  Grows
  <1>0. TypeOK
    BY DEF IInv
  <1>1. CASE HandleResponse(n, m)
    <2>1. inbox' = [inbox EXCEPT ![n][m] = NoMsg] /\ status' = status
      BY <1>1 DEF HandleResponse
    <2>2. ASSUME NEW i \in Node, NEW j \in Node, NEW p \in inbox'[i][j].peers
          PROVE  p \in inbox[i][j].peers
      BY <1>0, <2>1, NoMsgEmpty DEF TypeOK
    <2>3. /\ \A i \in Node \ {n} : todo'[i] = todo[i]
          /\ \A p \in todo'[n] : p \in inbox[n][m].peers
      BY <1>0, <1>1 DEF HandleResponse, HandleWelcome, HandleRedirect, Available, TypeOK
    <2>4. Told
      BY <2>2, <2>3 DEF Told
    <2>5. sock' = sock \/ sock' = Closed(sock, n, m)
      BY <1>1 DEF HandleResponse, HandleWelcome, HandleRedirect
    <2>6. NoNewReset
      <3>1. CASE sock' = sock
        BY <3>1 DEF NoNewReset
      <3>2. CASE sock' = Closed(sock, n, m)
        BY <1>0, <3>2, ClosedSock
      <3> QED BY <2>5, <3>1, <3>2
    <2> QED BY <2>1, <2>4, <2>6, StatusSame DEF Grows
  <1>2. CASE HandleEndOfStream(n, m)
    <2>1. /\ status[n] = "up" /\ status' = [status EXCEPT ![n] = "spinning"]
          /\ todo' = todo /\ inbox' = inbox /\ sock' = sock
      BY <1>2 DEF HandleEndOfStream, AtSelect
    <2> QED BY <1>0, <2>1 DEF Grows, StatusGrows, Told, NoNewReset, TypeOK, Ended
  <1>3. CASE HandleReset(n, m)
    BY <1>0, <1>3, GrowsProcessEnds DEF HandleReset, Ended
  <1> QED BY <1>1, <1>2, <1>3 DEF HandleP2pTraffic

LEMMA GrowsTryPeer ==
  ASSUME IInv, NEW n \in Node, NEW m \in Node, TryPeer(n, m)
  PROVE  Grows
  <1>0. TypeOK /\ closing[n] \in Node \cup {NoNode}
    BY DEF IInv, TypeOK
  <1>1. ASSUME NEW t, NEW s \in [Node -> [Node -> End]], GoesOn(n, Remaining(n, m, t), s),
               status' = status, inbox' = inbox,
               \A p, q \in Node : s[p][q] = "reset" => sock[p][q] = "reset"
        PROVE  Grows
    <2>1. Told
      BY <1>0, <1>1 DEF Told, GoesOn, Remaining, TypeOK
    <2>2. sock' = s \/ sock' = Closed(s, n, closing[n])
      BY <1>1 DEF GoesOn
    <2>3. NoNewReset
      <3>1. \A p, q \in Node : Closed(s, n, closing[n])[p][q] = "reset" => s[p][q] = "reset"
        BY <1>0, ClosedNoReset
      <3> QED BY <1>1, <2>2, <3>1 DEF NoNewReset
    <2> QED BY <1>1, <2>1, <2>3, StatusSame DEF Grows
  <1>2. CASE ConnectToPeer(n, m)
    <2> DEFINE t == RegisterPendingPeer(table[n], m)
               s == Connected(sock, n, m)
    <2>1. GoesOn(n, Remaining(n, m, t), s) /\ status' = status /\ inbox' = inbox
      BY <1>2 DEF ConnectToPeer
    <2>2. s \in [Node -> [Node -> End]] /\ \A p, q \in Node : s[p][q] = "reset" => sock[p][q] = "reset"
      BY <1>0 DEF TypeOK, Connected, End
    <2> HIDE DEF t, s
    <2> QED BY <1>1, <2>1, <2>2
  <1>3. CASE BusyAddress(n, m)
    <2>1. GoesOn(n, Remaining(n, m, table[n]), sock) /\ status' = status /\ inbox' = inbox
      BY <1>3 DEF BusyAddress
    <2>2. sock \in [Node -> [Node -> End]]
      BY <1>0 DEF TypeOK
    <2> QED BY <1>1, <2>1, <2>2
  <1>4. CASE ConnectRefused(n, m)
    BY <1>0, <1>4, GrowsProcessEnds DEF ConnectRefused, Ended
  <1> QED BY <1>2, <1>3, <1>4 DEF TryPeer

LEMMA GrowsCross ==
  ASSUME IInv, NEW n \in Node, NEW m \in Node, CrossConnect(n, m)
  PROVE  Grows
  <1>0. /\ TypeOK /\ closing[n] \in Node \cup {NoNode} /\ closing[m] \in Node \cup {NoNode}
        /\ sock \in [Node -> [Node -> End]]
    BY DEF IInv, TypeOK
  <1> DEFINE pn == Remaining(n, m, RegisterPendingPeer(table[n], m))
             pm == Remaining(m, n, RegisterPendingPeer(table[m], n))
             s == [sock EXCEPT ![n][m] = "open", ![m][n] = "open"]
             sn == IF pn = {} THEN Closed(s, n, closing[n]) ELSE s
  <1>1. /\ n # m
        /\ todo' = [todo EXCEPT ![n] = pn, ![m] = pm]
        /\ sock' = IF pm = {} THEN Closed(sn, m, closing[m]) ELSE sn
        /\ status' = status /\ inbox' = inbox
    BY DEF CrossConnect, FreeAddress
  <1>2. pn \subseteq todo[n] /\ pm \subseteq todo[m]
    BY DEF Remaining
  <1>3. s \in [Node -> [Node -> End]]
    BY <1>0 DEF End
  <1>4. \A p, q \in Node : s[p][q] = "reset" => sock[p][q] = "reset"
    BY <1>0
  <1> HIDE DEF pn, pm, s
  <1>5. sn \in [Node -> [Node -> End]]
    BY <1>0, <1>3, ClosedType
  <1>6. \A p, q \in Node : sn[p][q] = "reset" => s[p][q] = "reset"
    <2>1. \A c \in Node \cup {NoNode} : \A p, q \in Node :
             Closed(s, n, c)[p][q] = "reset" => s[p][q] = "reset"
      BY <1>3, ClosedNoReset
    <2>2. \A p, q \in Node : Closed(s, n, closing[n])[p][q] = "reset" => s[p][q] = "reset"
      BY <1>0, <2>1
    <2> QED BY <2>2
  <1> HIDE DEF sn
  <1>7. \A p, q \in Node : sock'[p][q] = "reset" => sn[p][q] = "reset"
    <2>1. \A c \in Node \cup {NoNode} : \A p, q \in Node :
             Closed(sn, m, c)[p][q] = "reset" => sn[p][q] = "reset"
      BY <1>5, ClosedNoReset
    <2>2. \A p, q \in Node : Closed(sn, m, closing[m])[p][q] = "reset" => sn[p][q] = "reset"
      BY <1>0, <2>1
    <2> QED BY <1>1, <2>2
  <1>8. NoNewReset
    BY <1>4, <1>6, <1>7 DEF NoNewReset
  <1>9. Told
    BY <1>0, <1>1, <1>2 DEF Told, TypeOK
  <1> QED BY <1>1, <1>8, <1>9, StatusSame DEF Grows

LEMMA GrowsNext ==
  ASSUME IInv, [Next]_vars
  PROVE  Grows
  <1>0. TypeOK
    BY DEF IInv
  <1>1. ASSUME NEW n \in Node, Start(n) \/ Listen(n) PROVE Grows
    <2>1. /\ status[n] \notin Ended /\ status' = [status EXCEPT ![n] = "up"]
          /\ todo' = todo /\ inbox' = inbox /\ sock' = sock
      BY <1>1 DEF Start, Listen, Ended
    <2> QED BY <1>0, <2>1 DEF Grows, StatusGrows, Told, NoNewReset, TypeOK
  <1>2. ASSUME NEW n \in Node, Stop(n) PROVE Grows
    BY <1>0, <1>2, GrowsProcessEnds DEF Stop, Ended
  <1>3. ASSUME NEW n \in Node, NEW m \in Node, ConnectToFirstPeer(n, m) PROVE Grows
    <2>1. /\ status[n] = "down" /\ status' = [status EXCEPT ![n] = "starting"]
          /\ todo' = todo /\ inbox' = inbox /\ sock' = Connected(sock, n, m)
      BY <1>3 DEF ConnectToFirstPeer
    <2>2. StatusGrows /\ Told
      BY <1>0, <2>1 DEF StatusGrows, Told, TypeOK, Ended
    <2>3. NoNewReset
      BY <1>0, <2>1 DEF NoNewReset, TypeOK, Connected
    <2> QED BY <2>2, <2>3 DEF Grows
  <1>4. ASSUME NEW n \in Node, NEW m \in Node, Handler(n, m) PROVE Grows
    BY <1>4, GrowsPeeringClient, GrowsP2pTraffic, GrowsTryPeer DEF Handler
  <1>5. ASSUME NEW n \in Node, NEW m \in Node, CrossConnect(n, m) PROVE Grows
    BY <1>5, GrowsCross
  <1>6. CASE UNCHANGED vars
    BY <1>6 DEF vars, Grows, StatusGrows, Told, NoNewReset
  <1> QED BY <1>1, <1>2, <1>3, <1>4, <1>5, <1>6 DEF Next

LEMMA IntroducedNext ==
  ASSUME IInv, Introduced, ResetByExit, [Next]_vars
  PROVE  Introduced' /\ ResetByExit'
  <1>1. Grows
    BY GrowsNext
  <1>2. TypeOK'
    BY IInvNext DEF IInv
  <1> QED BY <1>1, <1>2, GrowsKeeps

\* The steps that end a process with an exception.
LEMMA ThrowStep ==
  ASSUME IInv, Introduced, ResetByExit, [Next]_vars, NEW n \in Node,
         \A p \in Node : status[p] \notin Ended, status'[n] = "threw"
  PROVE  \E m \in todo[n] : status[m] = "starting"
  <1>0. TypeOK /\ status[n] # "threw"
    BY DEF IInv, Ended
  <1> DEFINE Refused == \E m \in todo[n] : status[m] = "starting"
  <1>1. ASSUME NEW p \in Node, Start(p) \/ Listen(p) \/ Stop(p) PROVE FALSE
    BY <1>0, <1>1 DEF Start, Listen, Stop, ProcessEnds, TypeOK
  <1>2. ASSUME NEW p \in Node, NEW q \in Node,
               ConnectToFirstPeer(p, q) \/ HandlePeeringClient(p, q) \/ CrossConnect(p, q)
        PROVE  FALSE
    BY <1>0, <1>2 DEF ConnectToFirstPeer, HandlePeeringClient, CrossConnect, AcceptPeerRequest,
         AcceptPeerRequestAborts, RedirectPeer, ResponseFails, TypeOK
  <1>3. ASSUME NEW p \in Node, NEW q \in Node, HandleP2pTraffic(p, q) PROVE FALSE
    <2>1. ~HandleReset(p, q)
      BY DEF HandleReset, ResetByExit
    <2> QED BY <1>0, <1>3, <2>1 DEF HandleP2pTraffic, HandleResponse, HandleEndOfStream, TypeOK
  <1>4. ASSUME NEW p \in Node, NEW q \in Node, TryPeer(p, q) PROVE Refused
    <2>1. ConnectRefused(p, q) /\ q \in todo[p]
      BY <1>0, <1>4 DEF TryPeer, ConnectToPeer, BusyAddress
    <2>2. p = n
      BY <1>0, <2>1 DEF ConnectRefused, ProcessEnds, TypeOK
    <2>3. status[q] # "down" /\ ~IsListening(q) /\ status[q] \in Status
      BY <1>0, <2>1 DEF Introduced, ConnectRefused, TypeOK
    <2>4. status[q] = "starting"
      BY <2>3 DEF IsListening, Status, Running
    <2> QED BY <2>1, <2>2, <2>4
  <1>5. CASE UNCHANGED vars
    BY <1>0, <1>5 DEF vars
  <1> QED BY <1>1, <1>2, <1>3, <1>4, <1>5 DEF Next, Handler

\* While nobody has ended, an exception only ends a process that tries a peer
\* which is between connecting to its own first peer and listening (main.cpp:1324
\* and 1347).
THEOREM FirstThrowHolds == Spec => FirstThrow
  <1>1. Init => Introduced /\ ResetByExit
    <2> SUFFICES ASSUME Init PROVE Introduced /\ ResetByExit
      OBVIOUS
    <2> QED BY NoMsgEmpty DEF Init, Introduced, ResetByExit, NoSockets
  <1>2. IInv /\ Introduced /\ ResetByExit /\ [Next]_vars => Introduced' /\ ResetByExit'
    BY IntroducedNext
  <1>3. IInv /\ Introduced /\ ResetByExit /\ [Next]_vars =>
          \A n \in Node :
             (\A p \in Node : status[p] \notin Ended) /\ status'[n] = "threw" =>
                \E m \in todo[n] : status[m] = "starting"
    BY ThrowStep
  <1> QED BY <1>1, <1>2, <1>3, InductiveInvariant, PTL DEF Spec, FirstThrow
=============================================================================
