--------------------------- MODULE P2pTableProofs ---------------------------
(* Lemmas about Sockets and P2pTable: what connect(), close() and the      *)
(* registrations leave, for every finite set of nodes.                     *)
EXTENDS P2pTable, FiniteSetTheorems, TLAPS

USE NodeAssumption, MaxRejectedAssumption, NoNodeAssumption

-----------------------------------------------------------------------------
(* The ends of a connection.                                               *)

\* Closing an end leaves every end in a state of its own kind.
LEMMA ClosedType ==
  ASSUME NEW s \in [Node -> [Node -> End]], NEW n \in Node, NEW m \in Node \cup {NoNode}
  PROVE  Closed(s, n, m) \in [Node -> [Node -> End]]
  BY DEF Closed, End

\* So does a connect().
LEMMA ConnectedType ==
  ASSUME NEW s \in [Node -> [Node -> End]], NEW n \in Node, NEW m \in Node
  PROVE  Connected(s, n, m) \in [Node -> [Node -> End]]
  BY DEF Connected, End

\* Which ends a connect() changes.
LEMMA ConnectedEnds ==
  ASSUME NEW s \in [Node -> [Node -> End]], NEW n \in Node, NEW m \in Node, n # m
  PROVE  /\ Connected(s, n, m)[n][m] = "open"
         /\ Connected(s, n, m)[m][n] = "queued"
         /\ \A p, q \in Node :
               (p # n \/ q # m) /\ (p # m \/ q # n) => Connected(s, n, m)[p][q] = s[p][q]
  BY DEF Connected

\* Which ends a close() changes.
LEMMA ClosedEnds ==
  ASSUME NEW s \in [Node -> [Node -> End]], NEW n \in Node, NEW m \in Node
  PROVE  /\ Closed(s, n, m)[n][m] = IF Alive(s[m][n]) THEN "closed" ELSE "none"
         /\ \A p, q \in Node : p # n \/ q # m => Closed(s, n, m)[p][q] = s[p][q]
  <1>1. m # NoNode
    BY NoNodeAssumption
  <1>2. Closed(s, n, m) = [s EXCEPT ![n][m] = IF Alive(s[m][n]) THEN "closed" ELSE "none"]
    BY <1>1 DEF Closed
  <1> QED BY <1>2

\* The close of the redirecting peer c, which has closed its own end.
LEMMA CloseRedirecting ==
  ASSUME NEW s \in [Node -> [Node -> End]], NEW n \in Node,
         NEW c \in Node \cup {NoNode}, c # NoNode => ~Alive(s[c][n])
  PROVE  /\ Closed(s, n, c) \in [Node -> [Node -> End]]
         /\ \A p, q \in Node :
               Closed(s, n, c)[p][q] = IF p = n /\ q = c THEN "none" ELSE s[p][q]
  <1>1. Closed(s, n, c) \in [Node -> [Node -> End]]
    BY ClosedType
  <1>2. CASE c = NoNode
    BY <1>1, <1>2 DEF Closed
  <1>3. CASE c # NoNode
    <2>1. c \in Node
      BY <1>3
    <2>2. /\ Closed(s, n, c)[n][c] = IF Alive(s[c][n]) THEN "closed" ELSE "none"
          /\ \A p, q \in Node : p # n \/ q # c => Closed(s, n, c)[p][q] = s[p][q]
      BY <2>1, ClosedEnds
    <2> QED BY <1>1, <1>3, <2>2
  <1> QED BY <1>2, <1>3

\* The close of a connection whose other end is gone.
LEMMA CloseNobody ==
  ASSUME NEW s \in [Node -> [Node -> End]], NEW n \in Node, NEW m \in Node,
         ~Alive(s[m][n])
  PROVE  \A p, q \in Node : Closed(s, n, m)[p][q] \in {"none", s[p][q]}
  <1>1. m # NoNode
    BY NoNodeAssumption
  <1>2. Closed(s, n, m) = [s EXCEPT ![n][m] = "none"]
    BY <1>1 DEF Closed
  <1> QED BY <1>2

-----------------------------------------------------------------------------
(* The table.                                                              *)

\* The table of a node that has no peer is a table.
LEMMA EmptyTableType == EmptyTable \in Table
  BY DEF EmptyTable, Table, Entry

\* The empty table has no peers.
LEMMA EmptyTablePeers == Peers(EmptyTable) = {} /\ GetNumPeers(EmptyTable) = 0
  <1>1. Peers(EmptyTable) = {}
    BY DEF Peers, EmptyTable
  <1> QED BY <1>1, FS_EmptySet DEF GetNumPeers

\* Registering or removing a peer leaves a table.
LEMMA RegisterType ==
  ASSUME NEW t \in Table, NEW m \in Node
  PROVE  /\ RegisterPendingPeer(t, m) \in Table
         /\ RegisterConnectedPeer(t, m) \in Table
         /\ RemovePeer(t, m) \in Table
  BY DEF Table, Entry, RegisterPendingPeer, RegisterConnectedPeer, RemovePeer

\* Which entries a registration or a removal changes.
LEMMA RegisterEntries ==
  ASSUME NEW t \in Table, NEW m \in Node
  PROVE  /\ RegisterPendingPeer(t, m)[m] = "pending"
         /\ RegisterConnectedPeer(t, m)[m] = "connected"
         /\ RemovePeer(t, m)[m] = "absent"
         /\ \A q \in Node \ {m} :
               /\ RegisterPendingPeer(t, m)[q] = t[q]
               /\ RegisterConnectedPeer(t, m)[q] = t[q]
               /\ RemovePeer(t, m)[q] = t[q]
  BY DEF Table, RegisterPendingPeer, RegisterConnectedPeer, RemovePeer

\* The peers of a table can be counted.
LEMMA PeersFinite ==
  ASSUME NEW t \in Table
  PROVE  IsFiniteSet(Peers(t)) /\ GetNumPeers(t) \in Nat
  <1>1. Peers(t) \subseteq Node
    BY DEF Peers
  <1>2. IsFiniteSet(Peers(t))
    BY <1>1, FS_Subset
  <1> QED BY <1>2, FS_CardinalityType DEF GetNumPeers

\* Which peers a table has after a registration or a removal.
LEMMA RegisterPeers ==
  ASSUME NEW t \in Table, NEW m \in Node
  PROVE  /\ Peers(RegisterPendingPeer(t, m)) = Peers(t) \cup {m}
         /\ Peers(RegisterConnectedPeer(t, m)) = Peers(t) \cup {m}
         /\ Peers(RemovePeer(t, m)) = Peers(t) \ {m}
  BY DEF Table, Entry, Peers, RegisterPendingPeer, RegisterConnectedPeer, RemovePeer

\* A table that is not full has room for one more peer.
LEMMA AddPeer ==
  ASSUME NEW t \in Table, NEW u \in Table, NEW m \in Node, NEW k \in Nat,
         Peers(u) = Peers(t) \cup {m},
         GetNumPeers(t) <= k, ~IsFull(t, k)
  PROVE  GetNumPeers(u) <= k
  <1>1. IsFiniteSet(Peers(t)) /\ GetNumPeers(t) \in Nat
    BY PeersFinite
  <1>2. \/ Cardinality(Peers(u)) = Cardinality(Peers(t))
        \/ Cardinality(Peers(u)) = Cardinality(Peers(t)) + 1
    BY <1>1, FS_AddElement
  <1> QED BY <1>1, <1>2 DEF GetNumPeers, IsFull

\* A removal never raises the number of peers.
LEMMA RemovePeerCount ==
  ASSUME NEW t \in Table, NEW m \in Node
  PROVE  GetNumPeers(RemovePeer(t, m)) <= GetNumPeers(t)
  <1>1. IsFiniteSet(Peers(t))
    BY PeersFinite
  <1>2. Peers(RemovePeer(t, m)) \subseteq Peers(t)
    BY RegisterPeers
  <1> QED BY <1>1, <1>2, FS_Subset DEF GetNumPeers

-----------------------------------------------------------------------------
(* The list of rejecters.                                                  *)

\* The list of rejecters stays a sequence of nodes.
LEMMA PushRejectedType ==
  ASSUME NEW r \in Seq(Node), NEW m \in Node
  PROVE  PushRejected(r, m) \in Seq(Node)
  <1>1. CASE Len(r) = MAX_REJECTED
    <2>1. Tail(r) \in Seq(Node)
      BY <1>1
    <2> QED BY <1>1, <2>1 DEF PushRejected
  <1>2. CASE Len(r) # MAX_REJECTED
    BY <1>2 DEF PushRejected
  <1> QED BY <1>1, <1>2

\* Append adds one element to the elements of a sequence.
LEMMA AppendElements ==
  ASSUME NEW q \in Seq(Node), NEW m \in Node
  PROVE  Rejecters(Append(q, m)) = Rejecters(q) \cup {m}
  <1>1. /\ DOMAIN Append(q, m) = 1 .. (Len(q) + 1)
        /\ DOMAIN q = 1 .. Len(q) /\ Len(q) \in Nat
    OBVIOUS
  <1>2. \A i \in 1 .. Len(q) : Append(q, m)[i] = q[i]
    OBVIOUS
  <1>3. Append(q, m)[Len(q) + 1] = m
    OBVIOUS
  <1>4. 1 .. (Len(q) + 1) = 1 .. Len(q) \cup {Len(q) + 1}
    BY <1>1
  <1>5. ASSUME NEW x \in Rejecters(Append(q, m))
        PROVE  x \in Rejecters(q) \cup {m}
    BY <1>1, <1>2, <1>3, <1>4 DEF Rejecters
  <1>6. ASSUME NEW x \in Rejecters(q)
        PROVE  x \in Rejecters(Append(q, m))
    <2>1. PICK i \in 1 .. Len(q) : x = q[i]
      BY <1>1 DEF Rejecters
    <2>2. i \in DOMAIN Append(q, m) /\ Append(q, m)[i] = x
      BY <2>1, <1>1, <1>2, <1>4
    <2> HIDE <1>2
    <2> QED BY <2>2 DEF Rejecters
  <1>7. m \in Rejecters(Append(q, m))
    <2>1. Len(q) + 1 \in DOMAIN Append(q, m)
      BY <1>1, <1>4
    <2> QED BY <2>1, <1>3 DEF Rejecters
  <1> QED BY <1>5, <1>6, <1>7

\* pop_front() and push_back() add the new rejecter and nobody else.
LEMMA PushRejectedElements ==
  ASSUME NEW r \in Seq(Node), NEW m \in Node
  PROVE  Rejecters(PushRejected(r, m)) \subseteq Rejecters(r) \cup {m}
         /\ m \in Rejecters(PushRejected(r, m))
  <1> DEFINE q == IF Len(r) = MAX_REJECTED THEN Tail(r) ELSE r
  <1>1. q \in Seq(Node) /\ Rejecters(q) \subseteq Rejecters(r)
    <2>1. CASE Len(r) = MAX_REJECTED
      <3>1. r # <<>>
        BY <2>1
      <3>2. Tail(r) \in Seq(Node) /\ Len(Tail(r)) = Len(r) - 1
        BY <3>1
      <3>3. \A i \in 1 .. Len(Tail(r)) : Tail(r)[i] = r[i + 1] /\ i + 1 \in 1 .. Len(r)
        BY <3>1, <3>2
      <3> QED BY <2>1, <3>2, <3>3 DEF Rejecters
    <2>2. CASE Len(r) # MAX_REJECTED
      BY <2>2
    <2> QED BY <2>1, <2>2
  <1>5. Rejecters(Append(q, m)) = Rejecters(q) \cup {m}
    BY <1>1, AppendElements
  <1> QED BY <1>1, <1>5 DEF PushRejected

\* A list has at most as many different elements as its length.
LEMMA ListCount ==
  ASSUME NEW q \in Seq(Node)
  PROVE  /\ IsFiniteSet(Rejecters(q))
         /\ Cardinality(Rejecters(q)) \in Nat
         /\ Cardinality(Rejecters(q)) <= Len(q)
  <1>1. Len(q) \in Nat /\ DOMAIN q = 1 .. Len(q)
    OBVIOUS
  <1>2. IsFiniteSet(1 .. Len(q)) /\ Cardinality(1 .. Len(q)) = Len(q)
    <2>1. Len(q) \in Int /\ 1 \in Int
      BY <1>1
    <2>2. /\ IsFiniteSet(1 .. Len(q))
          /\ Cardinality(1 .. Len(q)) = IF 1 > Len(q) THEN 0 ELSE Len(q) - 1 + 1
      BY <2>1, FS_Interval, Zenon
    <2> QED BY <1>1, <2>2
  <1> DEFINE f == [i \in 1 .. Len(q) |-> q[i]]
  <1>3. f \in Surjection(1 .. Len(q), Rejecters(q))
    BY <1>1 DEF Rejecters, Surjection
  <1>4. IsFiniteSet(Rejecters(q)) /\ Cardinality(Rejecters(q)) <= Cardinality(1 .. Len(q))
    BY <1>2, <1>3, FS_Surjection
  <1> QED BY <1>2, <1>4, FS_CardinalityType

\* pop_front() on a list that names nobody twice leaves one that names nobody
\* twice.
LEMMA TailCount ==
  ASSUME NEW q \in Seq(Node), q # <<>>, Cardinality(Rejecters(q)) = Len(q)
  PROVE  /\ Tail(q) \in Seq(Node) /\ Len(Tail(q)) = Len(q) - 1
         /\ Rejecters(Tail(q)) \subseteq Rejecters(q)
         /\ Cardinality(Rejecters(Tail(q))) = Len(q) - 1
  <1>1. Tail(q) \in Seq(Node) /\ Len(Tail(q)) = Len(q) - 1
    OBVIOUS
  <1>2. \A i \in 1 .. Len(Tail(q)) : Tail(q)[i] = q[i + 1] /\ i + 1 \in 1 .. Len(q)
    BY <1>1
  <1>3. DOMAIN q = 1 .. Len(q) /\ DOMAIN Tail(q) = 1 .. Len(Tail(q))
    BY <1>1
  <1>4. Rejecters(Tail(q)) \subseteq Rejecters(q)
    BY <1>2, <1>3 DEF Rejecters
  <1>5. Rejecters(q) = Rejecters(Tail(q)) \cup {q[1]}
    <2>1. ASSUME NEW x \in Rejecters(q) PROVE x \in Rejecters(Tail(q)) \cup {q[1]}
      <3>1. PICK i \in 1 .. Len(q) : x = q[i]
        BY <1>3 DEF Rejecters
      <3>2. CASE i = 1
        BY <3>1, <3>2
      <3>3. CASE i # 1
        <4>1. i - 1 \in 1 .. Len(Tail(q)) /\ (i - 1) + 1 = i
          BY <1>1, <3>1, <3>3
        <4>2. Tail(q)[i - 1] = x
          BY <1>2, <3>1, <4>1
        <4> QED BY <1>3, <4>1, <4>2 DEF Rejecters
      <3> QED BY <3>2, <3>3
    <2>2. q[1] \in Rejecters(q)
      <3>1. 1 \in DOMAIN q
        BY <1>3
      <3> QED BY <3>1 DEF Rejecters
    <2> QED BY <1>4, <2>1, <2>2
  <1>6. /\ IsFiniteSet(Rejecters(Tail(q)))
        /\ Cardinality(Rejecters(Tail(q))) \in Nat
        /\ Cardinality(Rejecters(Tail(q))) <= Len(q) - 1
    BY <1>1, ListCount
  <1>7. Cardinality(Rejecters(q)) <= Cardinality(Rejecters(Tail(q))) + 1
    <2> DEFINE T == Rejecters(Tail(q))
    <2>1. Cardinality(T \cup {q[1]}) = IF q[1] \in T THEN Cardinality(T)
                                        ELSE Cardinality(T) + 1
      BY <1>6, FS_AddElement, Zenon
    <2> HIDE DEF T
    <2>2. Cardinality(T) \in Nat
      BY <1>6 DEF T
    <2>3. Cardinality(T \cup {q[1]}) <= Cardinality(T) + 1
      BY <2>1, <2>2
    <2> QED BY <1>5, <2>3 DEF T
  <1>8. Len(q) \in Nat
    OBVIOUS
  <1> QED BY <1>1, <1>4, <1>6, <1>7, <1>8

\* A new rejecter joins a list that stays within its capacity and names nobody
\* twice.
LEMMA PushCount ==
  ASSUME NEW r \in Seq(Node), NEW m \in Node, m \notin Rejecters(r),
         Len(r) <= MAX_REJECTED, Cardinality(Rejecters(r)) = Len(r)
  PROVE  /\ Len(PushRejected(r, m)) <= MAX_REJECTED
         /\ Cardinality(Rejecters(PushRejected(r, m))) = Len(PushRejected(r, m))
  <1> DEFINE q == IF Len(r) = MAX_REJECTED THEN Tail(r) ELSE r
  <1>0. Len(r) \in Nat /\ MAX_REJECTED \in Nat \ {0}
    OBVIOUS
  <1>1. /\ q \in Seq(Node) /\ Len(q) < MAX_REJECTED /\ Len(q) \in Nat
        /\ Rejecters(q) \subseteq Rejecters(r)
        /\ Cardinality(Rejecters(q)) = Len(q)
    <2>1. CASE Len(r) = MAX_REJECTED
      <3>1. r # <<>>
        BY <1>0, <2>1
      <3>2. /\ Tail(r) \in Seq(Node) /\ Len(Tail(r)) = Len(r) - 1
            /\ Rejecters(Tail(r)) \subseteq Rejecters(r)
            /\ Cardinality(Rejecters(Tail(r))) = Len(r) - 1
        BY <3>1, TailCount
      <3> QED BY <1>0, <2>1, <3>2
    <2>2. CASE Len(r) # MAX_REJECTED
      BY <1>0, <2>2
    <2> QED BY <2>1, <2>2
  <1> HIDE DEF q
  <1>2. Rejecters(Append(q, m)) = Rejecters(q) \cup {m}
    BY <1>1, AppendElements
  <1>3. IsFiniteSet(Rejecters(q))
    BY <1>1, ListCount
  <1>4. Cardinality(Rejecters(q) \cup {m}) = Cardinality(Rejecters(q)) + 1
    BY <1>1, <1>3, FS_AddElement
  <1>5. Len(Append(q, m)) = Len(q) + 1
    BY <1>1
  <1>6. PushRejected(r, m) = Append(q, m)
    BY DEF PushRejected, q
  <1>7. Cardinality(Rejecters(Append(q, m))) = Len(Append(q, m))
    BY <1>1, <1>2, <1>4, <1>5
  <1>8. Len(Append(q, m)) <= MAX_REJECTED
    BY <1>0, <1>1, <1>5
  <1> QED BY <1>6, <1>7, <1>8
=============================================================================
