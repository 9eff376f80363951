--------------------------- MODULE EventLoopProofs ---------------------------
(* Theorems about EventLoop, for every number of descriptors and of other  *)
(* nodes: the descriptors that select() returned stay valid while the      *)
(* handlers run, each has one owner, and no timeout is without a client.   *)
EXTENDS EventLoop, P2pTableProofs, SequenceTheorems, WellFoundedInduction

USE NodeAssumption, NoNodeAssumption, MaxRejectedAssumption,
    DescriptorAssumption, OwnerAssumption

-----------------------------------------------------------------------------
(* What makes SnapshotValid and DescriptorsOwned inductive.                *)

\* What the process holds at each point of main() and of the loop.
Position ==
    /\ stage \in {"parse", "connect"} => \A f \in Fd : fds[f] = "free"
    /\ stage \in Starting =>
          /\ backlog = {} /\ imageClient = NoFd
          /\ \A f \in Fd : fds[f] \notin {"p2p", "img"}
    /\ stage \in Starting \cup {"select"} => ready = {} /\ ~timeout
    /\ stage \in Starting \cup (Loop \ {"recommended"}) => todo = {}
    /\ stage = "recommended" => todo # {}
    /\ todo # {} <=> current # NoFd

\* What the handlers have left of the descriptors that select() returned.
StillReady ==
    /\ \A f \in ready : reported[f] \in Node \cup {"p2p", "img"}
    /\ stage = "img" => \A f \in ready : reported[f] # "p2p"
    /\ stage \in {"peers", "recommended"} => \A f \in ready : reported[f] \in Node
    /\ current \notin ready

\* A node that waits in the backlog, or is still to be tried, has no connection.
Strangers == \A m \in backlog \cup todo : \A f \in Fd : fds[f] # m

LInv ==
    /\ TypeOK /\ SnapshotValid /\ DescriptorsOwned /\ TimeoutHasClient
    /\ Position /\ StillReady /\ Strangers

\* What makes OnlyLeaksExhaust inductive: a table is never over its limit, and
\* not at it while there are recommended peers to try.
PeersCounted ==
    /\ stage \notin {"parse", "refused", "threw"} => Cardinality(PeeringFds) <= maxPeers
    /\ stage \in {"connect", "listen"} => Cardinality(PeeringFds) <= 1 /\ maxPeers > 1
    /\ todo # {} => ~TableFull(peerTable)

-----------------------------------------------------------------------------
(* Descriptors.                                                            *)

\* A set of numbers has a least one.
LEMMA Least ==
  ASSUME NEW S \in SUBSET Nat, S # {}
  PROVE  \E x \in S : \A y \in S : x <= y
  <1> DEFINE R == OpToRel(<, Nat)
  <1>1. IsWellFoundedOn(R, Nat)
    BY NatLessThanWellFounded
  <1> HIDE DEF R
  <1>2. PICK x \in S : \A y \in S : ~(<<y, x>> \in R)
    BY <1>1, WFMin
  <1>3. \A y, z \in Nat : y < z => <<y, z>> \in R
    BY DEF R, OpToRel
  <1>4. ASSUME NEW y \in S PROVE x <= y
    <2>1. x \in Nat /\ y \in Nat
      OBVIOUS
    <2>2. ~(y < x)
      BY <2>1, <1>2, <1>3
    <2> QED BY <2>1, <2>2
  <1> QED BY <1>4

\* socket() returns a free descriptor if there is one.
LEMMA NewFdFree ==
  ASSUME Free # {}
  PROVE  NewFd \in Fd /\ fds[NewFd] = "free"
  <1>1. Free \in SUBSET Nat
    BY DEF Free, Fd
  <1>2. \E f \in Free : \A g \in Free : f <= g
    BY <1>1, Least
  <1>3. NewFd \in Free
    BY <1>2 DEF NewFd
  <1> QED BY <1>3 DEF Free

\* No node is one of the other things that a descriptor is open for.
LEMMA NodesApart ==
  ASSUME NEW m \in Node
  PROVE  m \notin {"free", "p2p", "img", "client", "leaked"}
  BY DEF NotNode

\* A process that fails keeps all it has.
LEMMA FailsKeeps ==
  ASSUME LInv, NEW how \in Ended, Fails(how)
  PROVE  LInv'
  <1> USE DEF Fails
  <1>1. how \notin Starting \cup Loop
    BY DEF Ended, Starting, Loop
  <1>2. TypeOK'
    BY DEF LInv, TypeOK
  <1>3. SnapshotValid' /\ TimeoutHasClient'
    BY <1>1 DEF LInv, SnapshotValid, Running, TimeoutHasClient
  <1>4. DescriptorsOwned' /\ Strangers'
    BY DEF LInv, DescriptorsOwned, Strangers
  <1>5. Position'
    BY <1>1 DEF LInv, Position, Starting, Loop
  <1>6. StillReady'
    BY <1>1 DEF LInv, StillReady, Loop
  <1> QED BY <1>2, <1>3, <1>4, <1>5, <1>6 DEF LInv

\* So does one that finds no descriptor.
LEMMA OutKeeps ==
  ASSUME LInv, OutOfDescriptors
  PROVE  LInv'
  <1>1. Fails("no descriptor") /\ "no descriptor" \in Ended
    BY DEF OutOfDescriptors, Fails, Ended
  <1> QED BY <1>1, FailsKeeps

\* Nothing holds before main() but the command line.
LEMMA LInvInit == Init => LInv
  <1> SUFFICES ASSUME Init PROVE LInv
    OBVIOUS
  <1> USE DEF Init
  <1>0. NoFd \notin Fd
    BY DEF NoFd, Fd
  <1>1. TypeOK
    <2>1. argv \in CommandLines /\ stage \in Starting /\ maxPeers \in Nat
      BY DEF Starting
    <2>2. fds \in [Fd -> Owner] /\ reported \in [Fd -> Owner]
      BY DEF Owner, NotNode
    <2>3. peerTable \in [Fd -> Entry]
      BY DEF Entry
    <2>4. rejected \in Seq(Node)
      OBVIOUS
    <2>5. imageClient = NoFd /\ current = NoFd /\ timeout \in BOOLEAN
      OBVIOUS
    <2>6. ready \in SUBSET Fd /\ todo \in SUBSET Node /\ backlog \in SUBSET Node
      OBVIOUS
    <2> QED BY <2>1, <2>2, <2>3, <2>4, <2>5, <2>6 DEF TypeOK
  <1>2. SnapshotValid /\ TimeoutHasClient
    BY DEF SnapshotValid, TimeoutHasClient
  <1>3. DescriptorsOwned /\ Strangers
    BY <1>0, NodesApart DEF DescriptorsOwned, Strangers
  <1>4. Position /\ StillReady
    BY DEF Position, StillReady, Starting, Loop, NoFd
  <1> QED BY <1>1, <1>2, <1>3, <1>4 DEF LInv

-----------------------------------------------------------------------------
(* Start-up.                                                               *)

\* An argument vector is a sequence of options.
LEMMA Options ==
  ASSUME NEW v \in CommandLines
  PROVE  /\ Len(v) \in Nat /\ DOMAIN v = 1 .. Len(v)
         /\ \A i \in DOMAIN v :
               v[i].number \in -(2^(INT_BITS - 1)) .. 2^(INT_BITS - 1) - 1
  <1> DEFINE Number == -(2^(INT_BITS - 1)) .. 2^(INT_BITS - 1) - 1
             Option == [flag : STRING, name : STRING, number : Number]
  <1>1. v \in Seq(Option)
    BY CommandLineAssumption
  <1>2. \A o \in Option : o.number \in Number
    OBVIOUS
  <1> HIDE DEF Option
  <1>3. Len(v) \in Nat /\ DOMAIN v = 1 .. Len(v) /\ \A i \in 1 .. Len(v) : v[i] \in Option
    BY <1>1, ElementOfSeq
  <1> QED BY <1>2, <1>3

\* max_peers is a number, whatever the user gave for it.
LEMMA MaxPeersNat ==
  ASSUME NEW v \in CommandLines
  PROVE  MaxPeersOf(v) \in Nat
  <1>1. CASE Given(v, "n") = {}
    BY <1>1, DefaultAssumption DEF MaxPeersOf
  <1>2. CASE Given(v, "n") # {}
    <2> DEFINE o == CHOOSE x \in Given(v, "n") : TRUE
    <2>1. o \in Given(v, "n")
      BY <1>2
    <2> HIDE DEF o
    <2>2. PICK i \in DOMAIN v : o = v[i]
      BY <2>1 DEF Given
    <2>3. o.number \in Int
      <3>1. -(2^(INT_BITS - 1)) .. 2^(INT_BITS - 1) - 1 \subseteq Int
        OBVIOUS
      <3> QED BY <2>2, <3>1, Options
    <2> DEFINE w == 2^SIZE_BITS
    <2>4. w \in Nat \ {0}
      BY PowerAssumption
    <2> HIDE DEF w
    <2>5. o.number % w \in Nat
      BY <2>3, <2>4
    <2>6. MaxPeersOf(v) = SizeT(o.number)
      BY <1>2 DEF MaxPeersOf, o
    <2> QED BY <2>5, <2>6 DEF SizeT, w
  <1> QED BY <1>1, <1>2

\* The command line: the table has a size that was asked for.
LEMMA ParseKeeps ==
  ASSUME LInv, Parse
  PROVE  LInv'
  <1>1. CASE Fails("refused") \/ Fails("threw")
    BY <1>1, FailsKeeps DEF Ended
  <1>2. CASE /\ stage' \in {"listen", "connect"} /\ stage = "parse"
             /\ maxPeers' = MaxPeersOf(argv)
             /\ UNCHANGED <<argv, fds, peerTable, rejected, imageClient, timeout, ready,
                            reported, current, todo, backlog>>
    <2>0. argv \in CommandLines /\ maxPeers' \in Nat
      BY <1>2, MaxPeersNat DEF LInv, TypeOK
    <2>1. TypeOK'
      BY <1>2, <2>0 DEF LInv, TypeOK, Starting
    <2>2. SnapshotValid' /\ TimeoutHasClient'
      BY <1>2 DEF LInv, SnapshotValid, Running, Loop, TimeoutHasClient
    <2>3. DescriptorsOwned' /\ Strangers'
      BY <1>2 DEF LInv, DescriptorsOwned, Strangers
    <2>4. Position'
      BY <1>2, NodesApart DEF LInv, Position, Starting, Loop
    <2>5. StillReady'
      BY <1>2 DEF LInv, StillReady, Position, Starting
    <2> QED BY <2>1, <2>2, <2>3, <2>4, <2>5 DEF LInv
  <1> QED BY <1>1, <1>2 DEF Parse

\* The connection to the first peer.
LEMMA FirstPeerKeeps ==
  ASSUME LInv, ConnectToFirstPeer
  PROVE  LInv'
  <1>1. CASE Fails("threw")
    BY <1>1, FailsKeeps DEF Ended
  <1>2. ASSUME NEW m \in Node,
               fds' = [fds EXCEPT ![NewFd] = m],
               peerTable' = [peerTable EXCEPT ![NewFd] = "pending"],
               stage' = "listen",
               UNCHANGED <<argv, maxPeers, rejected, imageClient, timeout, ready, reported,
                           current, todo, backlog>>
        PROVE  LInv'
    <2>0. stage = "connect"
      BY DEF ConnectToFirstPeer
    <2>1. \A f \in Fd : fds[f] = "free"
      BY <2>0 DEF LInv, Position
    <2>2. Free # {}
      <3>1. 1 \in Fd
        BY DEF Fd
      <3> QED BY <2>1, <3>1 DEF Free
    <2>3. NewFd \in Fd
      BY <2>2, NewFdFree
    <2>4. /\ fds \in [Fd -> Owner] /\ peerTable \in [Fd -> Entry]
          /\ NoFd \notin Fd
      BY DEF LInv, TypeOK, NoFd, Fd
    <2>5. /\ fds'[NewFd] = m /\ \A f \in Fd : f # NewFd => fds'[f] = "free"
          /\ peerTable'[NewFd] = "pending"
          /\ \A f \in Fd : f # NewFd => peerTable'[f] = peerTable[f]
      BY <1>2, <2>1, <2>3, <2>4
    <2> HIDE DEF NewFd
    <2>6. /\ backlog = {} /\ imageClient = NoFd /\ ready = {} /\ ~timeout
          /\ todo = {} /\ current = NoFd
      BY <2>0 DEF LInv, Position, Starting
    <2>7. TypeOK'
      BY <1>2, <2>4 DEF LInv, TypeOK, Owner, Entry, Starting
    <2>8. SnapshotValid' /\ TimeoutHasClient'
      BY <1>2, <2>6 DEF SnapshotValid, TimeoutHasClient
    <2>9. \A f \in Fd : peerTable[f] = "absent"
      BY <2>1, <2>4, NodesApart DEF LInv, DescriptorsOwned
    <2>10. DescriptorsOwned'
      BY <1>2, <2>4, <2>5, <2>6, <2>9, NodesApart DEF DescriptorsOwned
    <2>11. Position'
      BY <1>2, <2>5, <2>6, NodesApart DEF Position, Starting, Loop
    <2>12. StillReady' /\ Strangers'
      BY <1>2, <2>6 DEF StillReady, Strangers
    <2> QED BY <2>7, <2>8, <2>10, <2>11, <2>12 DEF LInv
  <1> QED BY <1>1, <1>2 DEF ConnectToFirstPeer

\* A second free descriptor, when there are two.
LEMMA SecondFdFree ==
  ASSUME Cardinality(Free) >= 2, NEW p \in Fd
  PROVE  \E f \in Free \ {p} : \A g \in Free \ {p} : f <= g
  <1>1. Free \ {p} # {}
    <2> SUFFICES ASSUME Free \subseteq {p} PROVE FALSE
      OBVIOUS
    <2>1. IsFiniteSet({p}) /\ Cardinality({p}) = 1
      BY FS_Singleton
    <2>2. Cardinality(Free) <= 1 /\ Cardinality(Free) \in Nat
      BY <2>1, FS_Subset, FS_CardinalityType
    <2> QED BY <2>2
  <1>2. Free \ {p} \in SUBSET Nat
    BY DEF Free, Fd
  <1> QED BY <1>1, <1>2, Least

\* The two services.
LEMMA ListenKeeps ==
  ASSUME LInv, Listen
  PROVE  LInv'
  <1>1. CASE Fails("no descriptor")
    BY <1>1, FailsKeeps DEF Ended
  <1> DEFINE p == NewFd
             i == CHOOSE f \in Free \ {p} : \A g \in Free \ {p} : f <= g
  <1>2. CASE /\ Cardinality(Free) >= 2
             /\ fds' = [fds EXCEPT ![p] = "p2p", ![i] = "img"]
             /\ stage' = "select"
             /\ UNCHANGED <<argv, maxPeers, peerTable, rejected, imageClient, timeout, ready,
                            reported, current, todo, backlog>>
    <2>0. stage = "listen"
      BY DEF Listen
    <2>1. Free # {}
      <3>1. Cardinality({}) = 0
        BY FS_EmptySet
      <3> QED BY <1>2, <3>1
    <2>2. p \in Fd /\ fds[p] = "free"
      BY <2>1, NewFdFree
    <2> HIDE DEF p
    <2>3. i \in Free \ {p}
      BY <1>2, <2>2, SecondFdFree
    <2>4. i \in Fd /\ fds[i] = "free" /\ i # p
      BY <2>3 DEF Free
    <2> HIDE DEF i
    <2>5. /\ fds \in [Fd -> Owner] /\ peerTable \in [Fd -> Entry]
          /\ NoFd \notin Fd
      BY DEF LInv, TypeOK, NoFd, Fd
    <2>6. /\ fds'[p] = "p2p" /\ fds'[i] = "img"
          /\ \A f \in Fd : f # p /\ f # i => fds'[f] = fds[f]
      BY <1>2, <2>2, <2>4, <2>5
    <2>7. /\ backlog = {} /\ imageClient = NoFd /\ ready = {} /\ ~timeout
          /\ todo = {} /\ current = NoFd
          /\ \A f \in Fd : fds[f] \notin {"p2p", "img"}
      BY <2>0 DEF LInv, Position, Starting
    <2>8. TypeOK'
      <3>1. fds' \in [Fd -> Owner]
        BY <1>2, <2>5 DEF Owner, NotNode
      <3> QED BY <1>2, <3>1 DEF LInv, TypeOK, Loop
    <2>9. SnapshotValid' /\ TimeoutHasClient'
      BY <1>2, <2>7 DEF SnapshotValid, TimeoutHasClient
    <2>10. DescriptorsOwned'
      <3>1. \A f \in Fd : (fds[f] \in Node <=> peerTable[f] # "absent" \/ f = current)
        BY DEF LInv, DescriptorsOwned
      <3>2. \A f \in Fd : (fds'[f] \in Node <=> peerTable'[f] # "absent" \/ f = current')
        BY <1>2, <2>2, <2>4, <2>6, <3>1, NodesApart
      <3>3. \A f \in Fd : (fds'[f] = "client" <=> f = imageClient')
        BY <1>2, <2>2, <2>4, <2>5, <2>6, <2>7 DEF LInv, DescriptorsOwned
      <3>4. \A f, g \in Fd :
               fds'[f] = fds'[g] /\ fds'[f] \in Node \cup {"p2p", "img"} => f = g
        BY <2>6, <2>7, NodesApart DEF LInv, DescriptorsOwned
      <3> QED BY <3>2, <3>3, <3>4 DEF DescriptorsOwned
    <2>11. Position'
      BY <1>2, <2>7 DEF Position, Starting, Loop
    <2>12. StillReady' /\ Strangers'
      BY <1>2, <2>7 DEF StillReady, Strangers
    <2> QED BY <2>8, <2>9, <2>10, <2>11, <2>12 DEF LInv
  <1> QED BY <1>1, <1>2 DEF Listen

\* A node joins the backlog.
LEMMA RemoteConnectsKeeps ==
  ASSUME LInv, NEW m \in Node, RemoteConnects(m)
  PROVE  LInv'
  <1> USE DEF RemoteConnects
  <1>1. TypeOK'
    BY DEF LInv, TypeOK
  <1>2. SnapshotValid' /\ TimeoutHasClient'
    BY DEF LInv, SnapshotValid, Running, TimeoutHasClient
  <1>3. DescriptorsOwned'
    BY DEF LInv, DescriptorsOwned
  <1>4. stage \notin Starting /\ stage \notin {"parse", "connect"}
    BY DEF Starting, Loop
  <1>5. Position'
    BY <1>4 DEF LInv, Position, Starting, Loop
  <1>6. StillReady'
    BY DEF LInv, StillReady
  <1>7. Strangers'
    BY DEF LInv, Strangers
  <1> QED BY <1>1, <1>2, <1>3, <1>5, <1>6, <1>7 DEF LInv

-----------------------------------------------------------------------------
(* select() and the ports.                                                 *)

\* select() reports descriptors as they are.
LEMMA SelectKeeps ==
  ASSUME LInv, Select
  PROVE  LInv'
  <1> USE DEF Select
  <1>0. /\ todo = {} /\ current = NoFd /\ NoFd \notin Fd
        /\ fds \in [Fd -> Owner] /\ ready' \subseteq Fd
    BY DEF LInv, Position, Loop, NoFd, Fd, PeeringFds, Services, TypeOK
  <1>1. TypeOK'
    <2>1. reported' \in [Fd -> Owner]
      BY <1>0 DEF Owner, NotNode
    <2> QED BY <1>0, <2>1 DEF LInv, TypeOK, Loop
  <1>2. \A f \in ready' :
           /\ reported'[f] = fds[f]
           /\ fds[f] \in Node \cup {"p2p", "img"}
           /\ fds[f] \in Node => peerTable[f] # "absent"
    BY <1>0, NodesApart DEF LInv, DescriptorsOwned, PeeringFds, Services
  <1> HIDE DEF Select
  <1>7. /\ fds' = fds /\ peerTable' = peerTable /\ imageClient' = imageClient
        /\ current' = current /\ stage' = "p2p"
        /\ timeout' = (imageClient # NoFd)
    BY DEF Select
  <1>8. SnapshotValid'
    <2>1. \A f \in ready' :
             fds'[f] = reported'[f] /\ (fds'[f] \in Node => peerTable'[f] # "absent")
      BY <1>2, <1>7
    <2> QED BY <2>1 DEF SnapshotValid
  <1>3. SnapshotValid' /\ TimeoutHasClient'
    BY <1>7, <1>8 DEF TimeoutHasClient
  <1>4. DescriptorsOwned' /\ Strangers'
    BY DEF Select, LInv, DescriptorsOwned, Strangers
  <1>5. Position'
    BY <1>0 DEF Select, LInv, Position, Starting, Loop
  <1>6. StillReady'
    <2>1. current' \notin ready'
      BY <1>0, <1>7
    <2>2. \A f \in ready' : reported'[f] \in Node \cup {"p2p", "img"}
      BY <1>2
    <2> QED BY <1>7, <2>1, <2>2 DEF StillReady
  <1> QED BY <1>1, <1>3, <1>4, <1>5, <1>6 DEF LInv

\* A port on which nothing waits.
LEMMA NextPortKeeps ==
  ASSUME LInv, NextPort("p2p", "img") \/ NextPort("img", "peers")
  PROVE  LInv'
  <1> USE DEF NextPort
  <1>0. stage \in {"p2p", "img"} /\ stage' \in {"img", "peers"}
    OBVIOUS
  <1>1. TypeOK'
    BY <1>0 DEF LInv, TypeOK, Loop
  <1>2. SnapshotValid' /\ TimeoutHasClient'
    BY <1>0 DEF LInv, SnapshotValid, Running, Loop, TimeoutHasClient
  <1>3. DescriptorsOwned' /\ Strangers'
    BY DEF LInv, DescriptorsOwned, Strangers
  <1>4. Position'
    BY <1>0 DEF LInv, Position, Starting, Loop
  <1>5. StillReady'
    BY DEF LInv, StillReady, IsSet
  <1> QED BY <1>1, <1>2, <1>3, <1>4, <1>5 DEF LInv

-----------------------------------------------------------------------------
(* The handlers.                                                           *)

\* What a free descriptor is not.
LEMMA FreeFd ==
  ASSUME LInv, NEW n \in Fd, fds[n] = "free"
  PROVE  /\ peerTable[n] = "absent" /\ n # current /\ n # imageClient
         /\ Running => n \notin ready
  <1>1. peerTable[n] = "absent" /\ n # current /\ n # imageClient
    BY NodesApart DEF LInv, DescriptorsOwned
  <1>2. ASSUME Running, n \in ready PROVE FALSE
    <2>1. reported[n] = "free"
      BY <1>2 DEF LInv, SnapshotValid
    <2> QED BY <1>2, <2>1, NodesApart DEF LInv, StillReady
  <1> QED BY <1>1, <1>2

\* A peer is accepted, turned away, or known as a rejecter.
LEMMA HandlePeeringClientKeeps ==
  ASSUME LInv, NEW m \in Node, HandlePeeringClient(m)
  PROVE  LInv'
  <1>0. stage = "p2p" /\ m \in backlog
    BY DEF HandlePeeringClient
  <1>1. CASE OutOfDescriptors
    BY <1>1, OutKeeps
  <1>2. CASE Fails("aborted")
    BY <1>2, FailsKeeps DEF Ended
  <1>3. CASE /\ Free # {}
             /\ AcceptPeer(m) \/ TurnAway(m)
             /\ backlog' = backlog \ {m}
             /\ ready' = Looked("p2p")
             /\ timeout' = FALSE
             /\ stage' = "img"
             /\ UNCHANGED <<argv, maxPeers, rejected, imageClient, reported, current, todo>>
    <2> DEFINE n == NewFd
    <2>1. n \in Fd /\ fds[n] = "free"
      BY <1>3, NewFdFree
    <2>2. \/ fds' = [fds EXCEPT ![n] = m] /\ peerTable' = [peerTable EXCEPT ![n] = "connected"]
          \/ fds' = fds /\ peerTable' = peerTable
      BY <1>3 DEF AcceptPeer, TurnAway
    <2> HIDE DEF n
    <2>3. /\ todo = {} /\ current = NoFd /\ NoFd \notin Fd /\ Running
          /\ fds \in [Fd -> Owner] /\ peerTable \in [Fd -> Entry] /\ ready \subseteq Fd
      BY <1>0 DEF LInv, TypeOK, Position, Running, Loop, NoFd, Fd
    <2>4. n # imageClient /\ n \notin ready /\ peerTable[n] = "absent"
      BY <2>1, <2>3, FreeFd
    <2>5. /\ \A f \in Fd : f # n => fds'[f] = fds[f] /\ peerTable'[f] = peerTable[f]
          /\ \/ fds'[n] = m /\ peerTable'[n] = "connected"
             \/ fds'[n] = "free" /\ peerTable'[n] = "absent"
      BY <2>1, <2>2, <2>3, <2>4
    <2>6. \A f \in ready' : f \in ready /\ f \in Fd /\ f # n /\ reported[f] # "p2p"
      BY <1>3, <2>3, <2>4 DEF Looked
    <2>7. TypeOK'
      <3>1. fds' \in [Fd -> Owner] /\ peerTable' \in [Fd -> Entry]
        BY <2>2, <2>3 DEF Owner, Entry
      <3>2. ready' \in SUBSET Fd /\ backlog' \in SUBSET Node
        BY <1>3, <2>6 DEF LInv, TypeOK
      <3> QED BY <1>3, <3>1, <3>2 DEF LInv, TypeOK, Loop
    <2>8. SnapshotValid' /\ TimeoutHasClient'
      <3>1. \A f \in ready : fds[f] = reported[f] /\ (fds[f] \in Node => peerTable[f] # "absent")
        BY <2>3 DEF LInv, SnapshotValid
      <3>2. \A f \in ready' : fds'[f] = reported'[f] /\ (fds'[f] \in Node => peerTable'[f] # "absent")
        BY <1>3, <2>5, <2>6, <3>1
      <3> QED BY <1>3, <3>2 DEF SnapshotValid, TimeoutHasClient
    <2>9. DescriptorsOwned'
      <3>1. \A f \in Fd : (fds'[f] \in Node <=> peerTable'[f] # "absent" \/ f = current')
        BY <1>3, <2>3, <2>5, NodesApart DEF LInv, DescriptorsOwned
      <3>2. \A f \in Fd : (fds'[f] = "client" <=> f = imageClient')
        BY <1>3, <2>4, <2>5, NodesApart DEF LInv, DescriptorsOwned
      <3>3. \A f \in Fd : fds[f] # m
        BY <1>0 DEF LInv, Strangers
      <3>4. \A f, g \in Fd :
               fds'[f] = fds'[g] /\ fds'[f] \in Node \cup {"p2p", "img"} => f = g
        BY <2>5, <3>3, NodesApart DEF LInv, DescriptorsOwned
      <3> QED BY <3>1, <3>2, <3>4 DEF DescriptorsOwned
    <2>10. Position'
      BY <1>3, <2>3 DEF Position, Starting, Loop
    <2>11. StillReady'
      BY <1>3, <2>3, <2>6 DEF LInv, StillReady
    <2>12. Strangers'
      <3>1. \A q \in backlog : \A f \in Fd : fds[f] # q
        BY DEF LInv, Strangers
      <3>2. \A q \in backlog' : q \in backlog /\ q \in Node /\ q # m
        BY <1>3 DEF LInv, TypeOK
      <3>3. \A q \in backlog' : \A f \in Fd : fds'[f] # q
        BY <2>5, <3>1, <3>2, NodesApart
      <3>4. todo' = {}
        BY <1>3, <2>3
      <3> QED BY <3>3, <3>4 DEF Strangers
    <2> QED BY <2>7, <2>8, <2>9, <2>10, <2>11, <2>12 DEF LInv
  <1> QED BY <1>1, <1>2, <1>3 DEF HandlePeeringClient

\* An image client is kept, let go at once, or served.
LEMMA HandleImageTrafficKeeps ==
  ASSUME LInv, HandleImageTraffic
  PROVE  LInv'
  <1>0. stage = "img"
    BY DEF HandleImageTraffic
  <1>1. CASE OutOfDescriptors
    BY <1>1, OutKeeps
  <1>2. CASE /\ Free # {}
             /\ TakeClient \/ CloseAtOnce \/ Deliver
             /\ ready' = Looked("img")
             /\ timeout' = FALSE
             /\ stage' = "peers"
             /\ UNCHANGED <<argv, maxPeers, peerTable, rejected, reported, current, todo,
                            backlog>>
    <2> DEFINE n == NewFd
    <2>1. n \in Fd /\ fds[n] = "free"
      BY <1>2, NewFdFree
    <2>2. \/ imageClient = NoFd /\ fds' = [fds EXCEPT ![n] = "client"] /\ imageClient' = n
          \/ fds' = fds /\ imageClient' = imageClient
          \/ /\ imageClient # NoFd /\ fds' = [fds EXCEPT ![imageClient] = "free"]
             /\ imageClient' = NoFd
      BY <1>2 DEF TakeClient, CloseAtOnce, Deliver
    <2> HIDE DEF n
    <2>3. /\ todo = {} /\ current = NoFd /\ NoFd \notin Fd /\ Running
          /\ fds \in [Fd -> Owner] /\ ready \subseteq Fd
          /\ imageClient \in Fd \cup {NoFd}
      BY <1>0 DEF LInv, TypeOK, Position, Running, Loop, NoFd, Fd
    <2>4. \A f \in Fd : (fds[f] = "client" <=> f = imageClient)
      BY DEF LInv, DescriptorsOwned
    <2>5. /\ \A f \in Fd : (fds'[f] = "client" <=> f = imageClient')
          /\ \A f \in Fd :
                \/ fds'[f] = fds[f]
                \/ fds[f] \in {"free", "client"} /\ fds'[f] \in {"free", "client"}
          /\ imageClient' \in Fd \cup {NoFd} /\ fds' \in [Fd -> Owner]
      <3>0. "free" \in Owner /\ "client" \in Owner
        BY DEF Owner, NotNode
      <3>1. CASE imageClient = NoFd /\ fds' = [fds EXCEPT ![n] = "client"] /\ imageClient' = n
        <4>1. fds'[n] = "client" /\ \A f \in Fd : f # n => fds'[f] = fds[f]
          BY <2>1, <2>3, <3>1
        <4>2. \A f \in Fd : (fds'[f] = "client" <=> f = imageClient')
          BY <2>1, <2>3, <2>4, <3>1, <4>1
        <4>3. fds' \in [Fd -> Owner]
          BY <2>3, <3>0, <3>1
        <4> QED BY <2>1, <3>1, <4>1, <4>2, <4>3
      <3>2. CASE fds' = fds /\ imageClient' = imageClient
        BY <2>3, <2>4, <3>2
      <3>3. CASE /\ imageClient # NoFd /\ fds' = [fds EXCEPT ![imageClient] = "free"]
                 /\ imageClient' = NoFd
        <4>1. imageClient \in Fd /\ fds[imageClient] = "client"
          BY <2>3, <2>4, <3>3
        <4>2. fds'[imageClient] = "free" /\ \A f \in Fd : f # imageClient => fds'[f] = fds[f]
          BY <2>3, <3>3, <4>1
        <4>3. \A f \in Fd : (fds'[f] = "client" <=> f = imageClient')
          BY <2>3, <2>4, <3>3, <4>1, <4>2
        <4>4. fds' \in [Fd -> Owner]
          BY <2>3, <3>0, <3>3
        <4> QED BY <3>3, <4>1, <4>2, <4>3, <4>4
      <3> QED BY <2>2, <3>1, <3>2, <3>3
    <2>6. \A f \in Fd :
             (fds[f] \in Node \cup {"p2p", "img"} \/ fds'[f] \in Node \cup {"p2p", "img"})
                => fds'[f] = fds[f]
      BY <2>5, NodesApart
    <2>7. \A f \in ready' : f \in ready /\ f \in Fd /\ reported[f] \in Node
      BY <1>0, <1>2, <2>3 DEF LInv, StillReady, Looked
    <2>8. TypeOK'
      <3>1. ready' \in SUBSET Fd
        BY <2>7
      <3> QED BY <1>2, <2>5, <3>1 DEF LInv, TypeOK, Loop
    <2>9. SnapshotValid' /\ TimeoutHasClient'
      <3>1. \A f \in ready : fds[f] = reported[f] /\ (fds[f] \in Node => peerTable[f] # "absent")
        BY <2>3 DEF LInv, SnapshotValid
      <3>2. \A f \in ready' : fds'[f] = reported'[f] /\ (fds'[f] \in Node => peerTable'[f] # "absent")
        BY <1>2, <2>6, <2>7, <3>1
      <3> QED BY <1>2, <3>2 DEF SnapshotValid, TimeoutHasClient
    <2>10. DescriptorsOwned'
      <3>1. \A f \in Fd : (fds'[f] \in Node <=> peerTable'[f] # "absent" \/ f = current')
        BY <1>2, <2>6 DEF LInv, DescriptorsOwned
      <3>2. \A f, g \in Fd :
               fds'[f] = fds'[g] /\ fds'[f] \in Node \cup {"p2p", "img"} => f = g
        BY <2>6 DEF LInv, DescriptorsOwned
      <3> QED BY <2>5, <3>1, <3>2 DEF DescriptorsOwned
    <2>11. Position'
      BY <1>2, <2>3 DEF Position, Starting, Loop
    <2>12. StillReady'
      BY <1>2, <2>3, <2>7 DEF StillReady
    <2>13. Strangers'
      <3>1. backlog' = backlog /\ todo' = todo /\ backlog \cup todo \subseteq Node
        BY <1>2 DEF LInv, TypeOK
      <3>2. \A q \in backlog \cup todo : \A f \in Fd : fds'[f] # q
        BY <2>6, <3>1 DEF LInv, Strangers
      <3> QED BY <3>1, <3>2 DEF Strangers
    <2> QED BY <2>8, <2>9, <2>10, <2>11, <2>12, <2>13 DEF LInv
  <1> QED BY <1>1, <1>2 DEF HandleImageTraffic

\* The connection whose handler runs is that of a node.
LEMMA HandledPeer ==
  ASSUME LInv, stage = "peers", NEW f \in ready
  PROVE  /\ f \in Fd /\ fds[f] \in Node /\ fds[f] = reported[f]
         /\ peerTable[f] # "absent" /\ f # imageClient
  <1>1. reported[f] \in Node /\ f \in Fd
    BY DEF LInv, StillReady, TypeOK
  <1>2. fds[f] = reported[f] /\ peerTable[f] # "absent"
    BY <1>1 DEF LInv, SnapshotValid, Running, Loop
  <1>3. f # imageClient
    BY <1>1, <1>2, NodesApart DEF LInv, DescriptorsOwned
  <1> QED BY <1>1, <1>2, <1>3

\* The peers that a handler sets out to try are nodes without a connection.
LEMMA AvailableStrangers ==
  ASSUME LInv, NEW r \in Seq(Node), NEW S \in SUBSET Node,
         NEW f \in Fd, NEW t \in [Fd -> Entry], current = NoFd,
         \A g \in Fd : g # f => t[g] = peerTable[g],
         t[f] # "absent" \/ fds[f] \in Rejecters(r)
  PROVE  /\ Available(t, r, S) \subseteq Node
         /\ \A p \in Available(t, r, S) : \A g \in Fd : fds[g] # p
  <1>1. \A p \in Available(t, r, S) : p \in Node /\ ~Known(t, r, p)
    BY DEF Available
  <1>2. NoFd \notin Fd
    BY DEF NoFd, Fd
  <1>3. ASSUME NEW p \in Available(t, r, S), NEW g \in Fd, fds[g] = p
        PROVE  FALSE
    <2>1. p \in Node /\ p \notin Rejecters(r) /\ t[g] = "absent"
      BY <1>1, <1>3 DEF Known, IsRejectedPeer
    <2>2. peerTable[g] # "absent"
      BY <1>2, <1>3, <2>1 DEF LInv, DescriptorsOwned
    <2> QED BY <1>3, <2>1, <2>2
  <1> QED BY <1>1, <1>3

\* What a handler of peer traffic leaves, whatever the message was.
LEMMA HandlerKeeps ==
  ASSUME LInv, stage = "peers", NEW f \in ready,
         \A g \in Fd : g # f => fds'[g] = fds[g] /\ peerTable'[g] = peerTable[g],
         fds' \in [Fd -> Owner], peerTable' \in [Fd -> Entry], rejected' \in Seq(Node),
         \/ fds'[f] = fds[f] /\ (peerTable'[f] # "absent" \/ f = current')
         \/ fds'[f] = "free" /\ peerTable'[f] = "absent" /\ current' = NoFd,
         current' \in {f, NoFd}, todo' # {} <=> current' # NoFd,
         todo' \subseteq Node, \A p \in todo' : \A g \in Fd : fds[g] # p,
         stage' = HandlerEnds, ready' = ready \ {f}, timeout' = FALSE,
         UNCHANGED <<argv, maxPeers, imageClient, reported, backlog>>
  PROVE  LInv'
  <1>1. /\ f \in Fd /\ fds[f] \in Node /\ f # imageClient /\ peerTable[f] # "absent"
    BY HandledPeer
  <1>2. /\ todo = {} /\ current = NoFd /\ NoFd \notin Fd /\ Running /\ ready \subseteq Fd
    BY DEF LInv, TypeOK, Position, Running, Loop, NoFd, Fd
  <1>3. /\ stage' \in {"peers", "recommended"}
        /\ stage' = "peers" <=> todo' = {}
    BY DEF HandlerEnds
  <1>4. \A g \in Fd : fds'[g] = fds[g] \/ fds'[g] = "free"
    BY <1>1
  <1>5. TypeOK'
    <2>1. ready' \in SUBSET Fd /\ current' \in Fd \cup {NoFd} /\ timeout' \in BOOLEAN
      BY <1>1, <1>2
    <2> QED BY <1>3, <2>1 DEF LInv, TypeOK, Loop
  <1>6. SnapshotValid' /\ TimeoutHasClient'
    <2>1. \A g \in ready : fds[g] = reported[g] /\ (fds[g] \in Node => peerTable[g] # "absent")
      BY <1>2 DEF LInv, SnapshotValid
    <2>2. \A g \in ready' : fds'[g] = reported'[g] /\ (fds'[g] \in Node => peerTable'[g] # "absent")
      BY <1>2, <2>1
    <2> QED BY <2>2 DEF SnapshotValid, TimeoutHasClient
  <1>7. DescriptorsOwned'
    <2>1. \A g \in Fd : (fds'[g] \in Node <=> peerTable'[g] # "absent" \/ g = current')
      <3>1. \A g \in Fd : (fds[g] \in Node <=> peerTable[g] # "absent")
        BY <1>2 DEF LInv, DescriptorsOwned
      <3>2. fds'[f] \in Node <=> peerTable'[f] # "absent" \/ f = current'
        BY <1>1, <1>2, NodesApart
      <3>3. \A g \in Fd : g # f => g # current'
        BY <1>2
      <3> QED BY <3>1, <3>2, <3>3
    <2>2. \A g \in Fd : (fds'[g] = "client" <=> g = imageClient')
      <3>1. \A g \in Fd : (fds[g] = "client" <=> g = imageClient)
        BY DEF LInv, DescriptorsOwned
      <3> QED BY <1>1, <3>1, NodesApart
    <2>3. \A g, h \in Fd :
             fds'[g] = fds'[h] /\ fds'[g] \in Node \cup {"p2p", "img"} => g = h
      BY <1>4, NodesApart DEF LInv, DescriptorsOwned
    <2> QED BY <2>1, <2>2, <2>3 DEF DescriptorsOwned
  <1>8. Position'
    BY <1>3 DEF Position, Starting, Loop
  <1>9. StillReady'
    <2>1. \A g \in ready : reported[g] \in Node
      BY DEF LInv, StillReady
    <2>2. current' \notin ready'
      BY <1>2
    <2>3. \A g \in ready' : reported'[g] \in Node
      BY <2>1
    <2> QED BY <1>3, <2>2, <2>3 DEF StillReady
  <1>10. Strangers'
    <2>1. \A p \in backlog : p \in Node /\ \A g \in Fd : fds[g] # p
      BY DEF LInv, TypeOK, Strangers
    <2>2. \A p \in backlog' \cup todo' : p \in Node /\ \A g \in Fd : fds[g] # p
      BY <2>1
    <2> QED BY <1>4, <2>2, NodesApart DEF Strangers
  <1> QED BY <1>5, <1>6, <1>7, <1>8, <1>9, <1>10 DEF LInv

\* A welcome makes its sender a peer and names others to try.
LEMMA HandleWelcomeKeeps ==
  ASSUME LInv, stage = "peers", NEW f \in ready, NEW S \in SUBSET Node,
         HandleWelcome(f, S), stage' = HandlerEnds, ready' = ready \ {f}, timeout' = FALSE,
         UNCHANGED <<argv, maxPeers, imageClient, reported, backlog>>
  PROVE  LInv'
  <1>1. /\ f \in Fd /\ fds[f] \in Node
    BY HandledPeer
  <1>2. /\ current = NoFd /\ NoFd \notin Fd
        /\ fds \in [Fd -> Owner] /\ peerTable \in [Fd -> Entry] /\ rejected \in Seq(Node)
    BY DEF LInv, TypeOK, Position, Loop, NoFd, Fd
  <1>3. /\ peerTable' = [peerTable EXCEPT ![f] = "connected"]
        /\ todo' = Available(peerTable', rejected, S)
        /\ current' = IF todo' = {} THEN NoFd ELSE f
        /\ fds' = fds /\ rejected' = rejected
    BY DEF HandleWelcome
  <1>4. /\ peerTable' \in [Fd -> Entry] /\ peerTable'[f] = "connected"
        /\ \A g \in Fd : g # f => peerTable'[g] = peerTable[g]
    BY <1>1, <1>2, <1>3 DEF Entry
  <1>5. /\ todo' \subseteq Node /\ \A p \in todo' : \A g \in Fd : fds[g] # p
    <2> DEFINE t == peerTable'
    <2>1. /\ t \in [Fd -> Entry] /\ t[f] # "absent"
          /\ \A g \in Fd : g # f => t[g] = peerTable[g]
      BY <1>4
    <2> HIDE DEF t
    <2>2. /\ Available(t, rejected, S) \subseteq Node
          /\ \A p \in Available(t, rejected, S) : \A g \in Fd : fds[g] # p
      BY <1>1, <1>2, <2>1, AvailableStrangers
    <2> QED BY <1>3, <2>2 DEF t
  <1>6. /\ current' \in {f, NoFd} /\ (todo' # {} <=> current' # NoFd)
    BY <1>1, <1>2, <1>3
  <1>7. /\ \A g \in Fd : g # f => fds'[g] = fds[g] /\ peerTable'[g] = peerTable[g]
        /\ fds'[f] = fds[f] /\ peerTable'[f] # "absent"
        /\ fds' \in [Fd -> Owner] /\ rejected' \in Seq(Node)
    BY <1>2, <1>3, <1>4
  <1> QED BY <1>4, <1>5, <1>6, <1>7, HandlerKeeps

\* A redirection takes its sender from the table; its connection is kept for as
\* long as the handler has peers to try.
LEMMA HandleRedirectKeeps ==
  ASSUME LInv, stage = "peers", NEW f \in ready, NEW S \in SUBSET Node,
         HandleRedirect(f, S), stage' = HandlerEnds, ready' = ready \ {f}, timeout' = FALSE,
         UNCHANGED <<argv, maxPeers, imageClient, reported, backlog>>
  PROVE  LInv'
  <1>1. /\ f \in Fd /\ fds[f] \in Node
    BY HandledPeer
  <1>2. /\ current = NoFd /\ NoFd \notin Fd
        /\ fds \in [Fd -> Owner] /\ peerTable \in [Fd -> Entry] /\ rejected \in Seq(Node)
    BY DEF LInv, TypeOK, Position, Loop, NoFd, Fd
  <1>3. /\ peerTable' = [peerTable EXCEPT ![f] = "absent"]
        /\ rejected' = PushRejected(rejected, fds[f])
        /\ todo' = Available(peerTable', rejected', S)
        /\ current' = IF todo' = {} THEN NoFd ELSE f
        /\ fds' = IF todo' = {} THEN [fds EXCEPT ![f] = "free"] ELSE fds
    BY DEF HandleRedirect, Erase
  <1>4. /\ peerTable' \in [Fd -> Entry] /\ peerTable'[f] = "absent"
        /\ \A g \in Fd : g # f => peerTable'[g] = peerTable[g]
    BY <1>1, <1>2, <1>3 DEF Entry
  <1>5. rejected' \in Seq(Node) /\ fds[f] \in Rejecters(rejected')
    BY <1>1, <1>2, <1>3, PushRejectedType, PushRejectedElements
  <1>6. /\ todo' \subseteq Node /\ \A p \in todo' : \A g \in Fd : fds[g] # p
    <2> DEFINE t == peerTable'
               r == rejected'
    <2>1. /\ t \in [Fd -> Entry] /\ fds[f] \in Rejecters(r) /\ r \in Seq(Node)
          /\ \A g \in Fd : g # f => t[g] = peerTable[g]
      BY <1>4, <1>5
    <2> HIDE DEF t, r
    <2>2. /\ Available(t, r, S) \subseteq Node
          /\ \A p \in Available(t, r, S) : \A g \in Fd : fds[g] # p
      BY <1>1, <1>2, <2>1, AvailableStrangers
    <2> QED BY <1>3, <2>2 DEF t, r
  <1>7. /\ current' \in {f, NoFd} /\ (todo' # {} <=> current' # NoFd)
    BY <1>1, <1>2, <1>3
  <1>8. /\ fds' \in [Fd -> Owner]
        /\ \A g \in Fd : g # f => fds'[g] = fds[g]
        /\ \/ fds'[f] = fds[f] /\ f = current'
           \/ fds'[f] = "free" /\ current' = NoFd
    <2>0. "free" \in Owner
      BY DEF Owner, NotNode
    <2>1. CASE todo' = {}
      BY <1>1, <1>2, <1>3, <2>0, <2>1
    <2>2. CASE todo' # {}
      BY <1>2, <1>3, <2>2
    <2> QED BY <2>1, <2>2
  <1>9. \A g \in Fd : g # f => fds'[g] = fds[g] /\ peerTable'[g] = peerTable[g]
    BY <1>4, <1>8
  <1> QED BY <1>4, <1>5, <1>6, <1>7, <1>8, <1>9, HandlerKeeps

\* A search leaves the table alone.
LEMMA HandleSearchKeeps ==
  ASSUME LInv, stage = "peers", NEW f \in ready,
         HandleSearch(f), stage' = HandlerEnds, ready' = ready \ {f}, timeout' = FALSE,
         UNCHANGED <<argv, maxPeers, imageClient, reported, backlog>>
  PROVE  LInv'
  <1>1. f \in Fd /\ fds[f] \in Node /\ peerTable[f] # "absent"
    BY HandledPeer
  <1>2. /\ current = NoFd /\ todo = {}
        /\ fds \in [Fd -> Owner] /\ peerTable \in [Fd -> Entry] /\ rejected \in Seq(Node)
    BY DEF LInv, TypeOK, Position, Loop
  <1>3. /\ fds' = fds /\ peerTable' = peerTable /\ rejected' = rejected
        /\ current' = NoFd /\ todo' = {}
    BY <1>2 DEF HandleSearch
  <1>4. /\ \A g \in Fd : g # f => fds'[g] = fds[g] /\ peerTable'[g] = peerTable[g]
        /\ fds' \in [Fd -> Owner] /\ peerTable' \in [Fd -> Entry] /\ rejected' \in Seq(Node)
        /\ fds'[f] = fds[f] /\ peerTable'[f] # "absent"
        /\ current' \in {f, NoFd} /\ (todo' # {} <=> current' # NoFd)
        /\ todo' \subseteq Node /\ \A p \in todo' : \A g \in Fd : fds[g] # p
    BY <1>1, <1>2, <1>3
  <1> QED BY <1>4, HandlerKeeps

\* The handler of peer traffic as a whole.
LEMMA HandleP2pTrafficKeeps ==
  ASSUME LInv, NEW f \in Fd, HandleP2pTraffic(f)
  PROVE  LInv'
  <1>0. stage = "peers" /\ f \in ready
    BY DEF HandleP2pTraffic
  <1>1. CASE Fails("aborted")
    BY <1>1, FailsKeeps DEF Ended
  <1>2. CASE OutOfDescriptors
    BY <1>2, OutKeeps
  <1>3. CASE /\ \/ \E S \in SUBSET Node : HandleWelcome(f, S) \/ HandleRedirect(f, S)
                \/ HandleSearch(f)
             /\ stage' = HandlerEnds /\ ready' = ready \ {f} /\ timeout' = FALSE
             /\ UNCHANGED <<argv, maxPeers, imageClient, reported, backlog>>
    <2>1. ASSUME NEW S \in SUBSET Node, HandleWelcome(f, S) PROVE LInv'
      BY <1>0, <1>3, <2>1, HandleWelcomeKeeps
    <2>2. ASSUME NEW S \in SUBSET Node, HandleRedirect(f, S) PROVE LInv'
      BY <1>0, <1>3, <2>2, HandleRedirectKeeps
    <2>3. CASE HandleSearch(f)
      BY <1>0, <1>3, <2>3, HandleSearchKeeps
    <2> QED BY <1>3, <2>1, <2>2, <2>3
  <1> QED BY <1>1, <1>2, <1>3 DEF HandleP2pTraffic

\* The body of the loop ends.
LEMMA LoopEndsKeeps ==
  ASSUME LInv, LoopEnds
  PROVE  LInv'
  <1>0. stage = "peers" /\ ready = {}
    BY DEF LoopEnds
  <1>1. CASE Fails("aborted")
    BY <1>1, FailsKeeps DEF Ended
  <1>2. CASE /\ \/ timeout /\ imageClient # NoFd /\ TimeoutImageQuery
                \/ ~timeout /\ UNCHANGED <<fds, imageClient>>
             /\ stage' = "select" /\ timeout' = FALSE
             /\ reported' = [f \in Fd |-> "free"]
             /\ UNCHANGED <<argv, maxPeers, peerTable, rejected, ready, current, todo, backlog>>
    <2>1. /\ todo = {} /\ current = NoFd /\ NoFd \notin Fd
          /\ fds \in [Fd -> Owner] /\ imageClient \in Fd \cup {NoFd}
      BY <1>0 DEF LInv, TypeOK, Position, Loop, NoFd, Fd
    <2>2. \A f \in Fd : (fds[f] = "client" <=> f = imageClient)
      BY DEF LInv, DescriptorsOwned
    <2>3. "free" \in Owner
      BY DEF Owner, NotNode
    <2>4. /\ \A f \in Fd : (fds'[f] = "client" <=> f = imageClient')
          /\ \A f \in Fd : fds'[f] = fds[f] \/ (fds[f] = "client" /\ fds'[f] = "free")
          /\ imageClient' \in Fd \cup {NoFd} /\ fds' \in [Fd -> Owner]
      <3>1. CASE imageClient # NoFd /\ TimeoutImageQuery
        <4>1. imageClient \in Fd /\ fds[imageClient] = "client"
          BY <2>1, <2>2, <3>1
        <4>2. fds' = [fds EXCEPT ![imageClient] = "free"] /\ imageClient' = NoFd
          BY <3>1 DEF TimeoutImageQuery
        <4>3. fds'[imageClient] = "free" /\ \A f \in Fd : f # imageClient => fds'[f] = fds[f]
          BY <2>1, <4>1, <4>2
        <4>4. \A f \in Fd : (fds'[f] = "client" <=> f = imageClient')
          BY <2>1, <2>2, <4>1, <4>2, <4>3
        <4>5. fds' \in [Fd -> Owner]
          BY <2>1, <2>3, <4>2
        <4> QED BY <4>1, <4>2, <4>3, <4>4, <4>5
      <3>2. CASE UNCHANGED <<fds, imageClient>>
        BY <2>1, <2>2, <3>2
      <3> QED BY <1>2, <3>1, <3>2
    <2>5. TypeOK'
      <3>1. reported' \in [Fd -> Owner]
        BY <1>2, <2>3
      <3> QED BY <1>2, <2>4, <3>1 DEF LInv, TypeOK, Loop
    <2>6. SnapshotValid' /\ TimeoutHasClient'
      BY <1>0, <1>2 DEF SnapshotValid, TimeoutHasClient
    <2>7. \A f \in Fd :
             (fds[f] \in Node \cup {"p2p", "img"} \/ fds'[f] \in Node \cup {"p2p", "img"})
                => fds'[f] = fds[f]
      BY <2>4, NodesApart
    <2>8. DescriptorsOwned'
      <3>1. \A f \in Fd : (fds'[f] \in Node <=> peerTable'[f] # "absent" \/ f = current')
        BY <1>2, <2>7 DEF LInv, DescriptorsOwned
      <3>2. \A f, g \in Fd :
               fds'[f] = fds'[g] /\ fds'[f] \in Node \cup {"p2p", "img"} => f = g
        BY <2>7 DEF LInv, DescriptorsOwned
      <3> QED BY <2>4, <3>1, <3>2 DEF DescriptorsOwned
    <2>9. Position'
      BY <1>0, <1>2, <2>1 DEF Position, Starting, Loop
    <2>10. StillReady'
      BY <1>0, <1>2, <2>1 DEF StillReady
    <2>11. Strangers'
      <3>1. backlog' = backlog /\ todo' = todo /\ backlog \cup todo \subseteq Node
        BY <1>2 DEF LInv, TypeOK
      <3>2. \A q \in backlog \cup todo : \A f \in Fd : fds'[f] # q
        BY <2>7, <3>1 DEF LInv, Strangers
      <3> QED BY <3>1, <3>2 DEF Strangers
    <2> QED BY <2>5, <2>6, <2>8, <2>9, <2>10, <2>11 DEF LInv
  <1> QED BY <1>1, <1>2 DEF LoopEnds

-----------------------------------------------------------------------------
(* The recommended peers.                                                  *)

\* One of them is tried: n is the descriptor of the new socket, o what it is
\* open for, and t the table with it.
LEMMA TriedKeeps ==
  ASSUME LInv, stage = "recommended", NEW m \in todo, NEW n \in Fd, fds[n] = "free",
         NEW o \in {m, "leaked"}, NEW t \in [Fd -> Entry],
         o = m => m \notin backlog /\ t[n] # "absent",
         o = "leaked" => t[n] = "absent",
         \A g \in Fd : g # n => t[g] = peerTable[g],
         HandlerGoesOn(m, [fds EXCEPT ![n] = o], t)
  PROVE  LInv'
  <1>1. /\ m \in Node /\ todo # {} /\ current \in Fd /\ NoFd \notin Fd /\ Running
        /\ fds \in [Fd -> Owner] /\ ready \subseteq Fd /\ todo \subseteq Node
        /\ current \notin ready
    BY DEF LInv, TypeOK, Position, StillReady, Running, Loop, NoFd, Fd
  <1>2. n # current /\ n # imageClient /\ n \notin ready /\ peerTable[n] = "absent"
    BY <1>1, FreeFd
  <1>3. fds[current] \in Node
    BY <1>1 DEF LInv, DescriptorsOwned
  <1> DEFINE s == [fds EXCEPT ![n] = o]
  <1>4. s \in [Fd -> Owner] /\ s[n] = o /\ \A g \in Fd : g # n => s[g] = fds[g]
    BY <1>1 DEF Owner, NotNode
  <1>5. /\ todo' = IF TableFull(t) THEN {} ELSE todo \ {m}
        /\ stage' = HandlerEnds
        /\ peerTable' = t
        /\ fds' = IF todo' = {} /\ t[current] = "absent"
                  THEN [s EXCEPT ![current] = "free"] ELSE s
        /\ current' = IF todo' = {} THEN NoFd ELSE current
        /\ UNCHANGED <<argv, maxPeers, rejected, imageClient, timeout, ready, reported,
                       backlog>>
    BY DEF HandlerGoesOn
  <1> HIDE DEF s
  <1>6. todo' \subseteq todo \ {m}
    BY <1>5
  <1>7. /\ stage' \in {"peers", "recommended"} /\ (stage' = "peers" <=> todo' = {})
        /\ current' \in Fd \cup {NoFd} /\ (todo' # {} <=> current' # NoFd)
        /\ current' \notin ready
    BY <1>1, <1>5 DEF HandlerEnds
  <1>8. /\ fds' \in [Fd -> Owner] /\ fds'[n] = o
        /\ \A g \in Fd : g # n /\ g # current => fds'[g] = fds[g]
        /\ \/ fds'[current] = fds[current] /\ (t[current] # "absent" \/ current' = current)
           \/ fds'[current] = "free" /\ t[current] = "absent" /\ current' = NoFd
    <2>0. "free" \in Owner
      BY DEF Owner, NotNode
    <2>1. CASE todo' = {} /\ t[current] = "absent"
      <3>1. fds' = [s EXCEPT ![current] = "free"] /\ current' = NoFd
        BY <1>5, <2>1
      <3> QED BY <1>1, <1>2, <1>4, <2>0, <2>1, <3>1
    <2>2. CASE ~(todo' = {} /\ t[current] = "absent")
      <3>1. fds' = s
        BY <1>5, <2>2
      <3>2. t[current] # "absent" \/ current' = current
        BY <1>5, <2>2
      <3> QED BY <1>1, <1>2, <1>4, <3>1, <3>2
    <2> QED BY <2>1, <2>2
  <1>9. \A g \in Fd : g # n => fds'[g] = fds[g] \/ fds'[g] = "free"
    BY <1>8
  <1>10. TypeOK'
    <2>1. peerTable' \in [Fd -> Entry] /\ todo' \in SUBSET Node
      BY <1>1, <1>5, <1>6
    <2>2. stage' \in Loop
      BY <1>7 DEF Loop
    <2> QED BY <1>5, <1>7, <1>8, <2>1, <2>2 DEF LInv, TypeOK
  <1>11. SnapshotValid' /\ TimeoutHasClient'
    <2>1. \A g \in ready : fds[g] = reported[g] /\ (fds[g] \in Node => peerTable[g] # "absent")
      BY <1>1 DEF LInv, SnapshotValid
    <2>2. \A g \in ready' : fds'[g] = reported'[g] /\ (fds'[g] \in Node => peerTable'[g] # "absent")
      BY <1>1, <1>2, <1>5, <1>8, <2>1
    <2> QED BY <1>5, <2>2 DEF LInv, SnapshotValid, TimeoutHasClient
  <1>12. DescriptorsOwned'
    <2>1. \A g \in Fd : (fds'[g] \in Node <=> peerTable'[g] # "absent" \/ g = current')
      <3>1. \A g \in Fd : (fds[g] \in Node <=> peerTable[g] # "absent" \/ g = current)
        BY DEF LInv, DescriptorsOwned
      <3>2. fds'[n] \in Node <=> peerTable'[n] # "absent" \/ n = current'
        <4>1. n # current' /\ peerTable'[n] = t[n]
          BY <1>1, <1>2, <1>5
        <4>2. CASE o = m
          BY <1>1, <1>8, <4>1, <4>2
        <4>3. CASE o = "leaked"
          BY <1>8, <4>1, <4>3, NodesApart
        <4> QED BY <4>2, <4>3
      <3>3. fds'[current] \in Node <=> peerTable'[current] # "absent" \/ current = current'
        BY <1>1, <1>3, <1>5, <1>8, NodesApart
      <3>4. \A g \in Fd : g # n /\ g # current =>
               (fds'[g] \in Node <=> peerTable'[g] # "absent" \/ g = current')
        BY <1>1, <1>5, <1>8, <3>1
      <3> QED BY <3>2, <3>3, <3>4
    <2>2. \A g \in Fd : (fds'[g] = "client" <=> g = imageClient')
      <3>1. \A g \in Fd : (fds[g] = "client" <=> g = imageClient)
        BY DEF LInv, DescriptorsOwned
      <3>2. fds'[n] # "client"
        BY <1>1, <1>8, NodesApart
      <3>3. fds[current] # "client" /\ fds'[current] # "client"
        BY <1>3, <1>8, NodesApart
      <3> QED BY <1>1, <1>2, <1>5, <1>8, <3>1, <3>2, <3>3
    <2>3. \A g, h \in Fd :
             fds'[g] = fds'[h] /\ fds'[g] \in Node \cup {"p2p", "img"} => g = h
      <3>1. \A g \in Fd : fds[g] # m
        BY DEF LInv, Strangers
      <3>2. \A g \in Fd : g # n => fds'[g] # m
        BY <1>1, <1>9, <3>1, NodesApart
      <3>3. \A g, h \in Fd :
               fds[g] = fds[h] /\ fds[g] \in Node \cup {"p2p", "img"} => g = h
        BY DEF LInv, DescriptorsOwned
      <3>4. ASSUME NEW g \in Fd, NEW h \in Fd, fds'[g] = fds'[h],
                   fds'[g] \in Node \cup {"p2p", "img"}
            PROVE  g = h
        <4>0. fds'[g] # "free" /\ fds'[g] # "leaked"
          BY <3>4, NodesApart
        <4>1. CASE g # n /\ h # n
          BY <1>9, <3>3, <3>4, <4>0, <4>1
        <4>2. CASE g = n \/ h = n
          <5>1. fds'[n] = m
            BY <1>8, <3>4, <4>0, <4>2
          <5> QED BY <3>2, <3>4, <4>2, <5>1
        <4> QED BY <4>1, <4>2
      <3> QED BY <3>4
    <2> QED BY <2>1, <2>2, <2>3 DEF DescriptorsOwned
  <1>13. Position'
    BY <1>7 DEF Position, Starting, Loop
  <1>14. StillReady'
    <2>1. \A g \in ready : reported[g] \in Node
      BY DEF LInv, StillReady
    <2> QED BY <1>5, <1>7, <2>1 DEF StillReady
  <1>15. Strangers'
    <2>1. \A p \in backlog \cup todo : p \in Node /\ \A g \in Fd : fds[g] # p
      BY <1>1 DEF LInv, TypeOK, Strangers
    <2>2. \A p \in backlog' \cup todo' : p \in backlog \cup todo
      BY <1>5, <1>6
    <2>3. \A p \in backlog' \cup todo' : p # o
      <3>1. CASE o = m
        BY <1>5, <1>6, <3>1
      <3>2. CASE o = "leaked"
        BY <2>1, <2>2, <3>2, NodesApart
      <3> QED BY <3>1, <3>2
    <2>4. \A p \in backlog' \cup todo' : \A g \in Fd : fds'[g] # p
      BY <1>8, <1>9, <2>1, <2>2, <2>3, NodesApart
    <2> QED BY <2>4 DEF Strangers
  <1> QED BY <1>10, <1>11, <1>12, <1>13, <1>14, <1>15 DEF LInv

\* A recommended peer is connected to, or found busy, or ends the process.
LEMMA TryPeerKeeps ==
  ASSUME LInv, NEW m \in Node, TryPeer(m)
  PROVE  LInv'
  <1>0. /\ stage = "recommended" /\ m \in todo /\ peerTable \in [Fd -> Entry]
    BY DEF TryPeer, LInv, TypeOK
  <1>1. CASE OutOfDescriptors
    BY <1>1, OutKeeps
  <1>2. CASE Fails("threw")
    BY <1>2, FailsKeeps DEF Ended
  <1> DEFINE n == NewFd
  <1>3. ASSUME Free # {} PROVE n \in Fd /\ fds[n] = "free" /\ peerTable[n] = "absent"
    BY <1>3, NewFdFree, FreeFd
  <1>4. CASE Free # {} /\ ConnectToPeer(m)
    <2> DEFINE t == [peerTable EXCEPT ![n] = "pending"]
    <2>1. n \in Fd /\ fds[n] = "free"
      BY <1>3, <1>4
    <2>2. m \notin backlog /\ HandlerGoesOn(m, [fds EXCEPT ![n] = m], t)
      BY <1>4 DEF ConnectToPeer
    <2> HIDE DEF n
    <2>3. t \in [Fd -> Entry] /\ t[n] = "pending" /\ \A g \in Fd : g # n => t[g] = peerTable[g]
      BY <1>0, <2>1 DEF Entry
    <2>4. m \in {m, "leaked"} /\ m # "leaked"
      BY NodesApart
    <2> HIDE DEF t
    <2> QED BY <1>0, <2>1, <2>2, <2>3, <2>4, TriedKeeps
  <1>5. CASE Free # {} /\ BusyAddress(m)
    <2>1. n \in Fd /\ fds[n] = "free" /\ peerTable[n] = "absent"
      BY <1>3, <1>5
    <2>2. HandlerGoesOn(m, [fds EXCEPT ![n] = "leaked"], peerTable)
      BY <1>5 DEF BusyAddress
    <2> HIDE DEF n
    <2>3. "leaked" \in {m, "leaked"} /\ "leaked" # m
      BY NodesApart
    <2> QED BY <1>0, <2>1, <2>2, <2>3, TriedKeeps
  <1> QED BY <1>1, <1>2, <1>4, <1>5 DEF TryPeer

-----------------------------------------------------------------------------
(* Counting the descriptors: only leaked ones can exhaust them.            *)

\* The descriptors, and those of peers, can be counted.
LEMMA FdsFinite ==
  /\ IsFiniteSet(Fd) /\ Cardinality(Fd) = FD_MAX
  /\ \A S \in SUBSET Fd : IsFiniteSet(S) /\ Cardinality(S) \in Nat
  <1>1. FD_MAX \in Nat /\ FD_MAX \in Int /\ FD_MAX >= 1 /\ 1 \in Int
    OBVIOUS
  <1>2. IsFiniteSet(1 .. FD_MAX)
        /\ Cardinality(1 .. FD_MAX) = IF 1 > FD_MAX THEN 0 ELSE FD_MAX - 1 + 1
    BY <1>1, FS_Interval, Zenon
  <1>3. Cardinality(1 .. FD_MAX) = FD_MAX
    BY <1>1, <1>2
  <1>4. IsFiniteSet(Fd) /\ Cardinality(Fd) = FD_MAX
    BY <1>2, <1>3 DEF Fd
  <1>5. ASSUME NEW S \in SUBSET Fd PROVE IsFiniteSet(S) /\ Cardinality(S) \in Nat
    BY <1>4, FS_Subset, FS_CardinalityType
  <1> QED BY <1>4, <1>5

\* A set with one element at most adds one at most to another.
LEMMA OneMore ==
  ASSUME NEW S, IsFiniteSet(S), NEW T, NEW x, T \subseteq {x}
  PROVE  /\ IsFiniteSet(S \cup T) /\ Cardinality(S \cup T) \in Nat
         /\ Cardinality(S \cup T) <= Cardinality(S) + 1
  <1>0. Cardinality(S) \in Nat
    BY FS_CardinalityType
  <1>1. CASE T = {}
    <2>1. S \cup T = S
      BY <1>1
    <2> QED BY <1>0, <2>1
  <1>2. CASE T # {}
    <2>1. S \cup T = S \cup {x}
      BY <1>2
    <2>2. /\ IsFiniteSet(S \cup {x})
          /\ Cardinality(S \cup {x}) = IF x \in S THEN Cardinality(S) ELSE Cardinality(S) + 1
      BY FS_AddElement, Zenon
    <2>3. Cardinality(S \cup {x}) <= Cardinality(S) + 1 /\ Cardinality(S \cup {x}) \in Nat
      BY <1>0, <2>2
    <2> QED BY <2>1, <2>2, <2>3
  <1> QED BY <1>1, <1>2

\* The entries of a table, one more at most of which is in use than in peerTable.
LEMMA OneMorePeer ==
  ASSUME NEW t, NEW n \in Fd, \A f \in Fd : f # n => t[f] = peerTable[f]
  PROVE  /\ Cardinality({f \in Fd : t[f] # "absent"}) \in Nat
         /\ Cardinality({f \in Fd : t[f] # "absent"}) <= Cardinality(PeeringFds) + 1
  <1>1. PeeringFds \in SUBSET Fd /\ {f \in Fd : t[f] # "absent"} \in SUBSET Fd
    BY DEF PeeringFds
  <1>2. {f \in Fd : t[f] # "absent"} \in SUBSET (PeeringFds \cup {n})
    BY DEF PeeringFds
  <1>3. IsFiniteSet(PeeringFds) /\ Cardinality(PeeringFds) \in Nat
    BY <1>1, FdsFinite
  <1>4. /\ IsFiniteSet(PeeringFds \cup {n}) /\ Cardinality(PeeringFds \cup {n}) \in Nat
        /\ Cardinality(PeeringFds \cup {n}) <= Cardinality(PeeringFds) + 1
    BY <1>3, OneMore
  <1>5. Cardinality({f \in Fd : t[f] # "absent"}) <= Cardinality(PeeringFds \cup {n})
    BY <1>2, <1>4, FS_Subset
  <1>6. Cardinality({f \in Fd : t[f] # "absent"}) \in Nat
    BY <1>1, FdsFinite
  <1> QED BY <1>3, <1>4, <1>5, <1>6

\* No descriptor but peers, services, the client, a redirecting peer, leaks.
LEMMA NoOtherFd ==
  ASSUME LInv, ~(\E f \in Fd : fds[f] = "leaked")
  PROVE  \E p, i : Fd \subseteq ((((Free \cup PeeringFds) \cup {p}) \cup {i}) \cup {imageClient})
                                \cup {current}
  <1>1. PICK p : \A f \in Fd : fds[f] = "p2p" => f = p
    BY DEF LInv, DescriptorsOwned
  <1>2. PICK i : \A f \in Fd : fds[f] = "img" => f = i
    BY DEF LInv, DescriptorsOwned
  <1>3. ASSUME NEW f \in Fd
        PROVE  f \in ((((Free \cup PeeringFds) \cup {p}) \cup {i}) \cup {imageClient})
                    \cup {current}
    <2>1. fds[f] \in Node \/ fds[f] \in {"free", "p2p", "img", "client"}
      BY <1>3 DEF LInv, TypeOK, Owner, NotNode
    <2>2. CASE fds[f] \in Node
      BY <2>2 DEF LInv, DescriptorsOwned, PeeringFds
    <2>3. CASE fds[f] \in {"free", "p2p", "img", "client"}
      BY <1>1, <1>2, <2>3 DEF LInv, DescriptorsOwned, Free
    <2> QED BY <2>1, <2>2, <2>3
  <1> QED BY <1>3

\* A process that finds no descriptor has leaked one, or its limit is too low.
LEMMA Exhausted ==
  ASSUME LInv, PeersCounted, stage \in {"listen"} \cup Loop,
         Free = {} \/ (stage = "listen" /\ Cardinality(Free) < 2),
         FD_MAX >= maxPeers + 4
  PROVE  \E f \in Fd : fds[f] = "leaked"
  <1> SUFFICES ASSUME ~(\E f \in Fd : fds[f] = "leaked") PROVE FALSE
    OBVIOUS
  <1>0. /\ Free \in SUBSET Fd /\ PeeringFds \in SUBSET Fd /\ maxPeers \in Nat /\ FD_MAX \in Nat
        /\ NoFd \notin Fd
    BY DEF Free, PeeringFds, LInv, TypeOK, NoFd, Fd
  <1>1. /\ IsFiniteSet(Free) /\ Cardinality(Free) \in Nat
        /\ IsFiniteSet(PeeringFds) /\ Cardinality(PeeringFds) \in Nat
        /\ IsFiniteSet(Fd) /\ Cardinality(Fd) = FD_MAX
    BY <1>0, FdsFinite
  <1>2. CASE stage = "listen"
    <2>1. /\ Cardinality(PeeringFds) <= 1 /\ maxPeers > 1
      BY <1>2 DEF PeersCounted
    <2>2. Cardinality(Free) <= 1
      <3>1. Cardinality({}) = 0
        BY FS_EmptySet
      <3> QED BY <1>1, <3>1
    <2>3. Fd \in SUBSET (Free \cup PeeringFds)
      <3>1. /\ imageClient = NoFd /\ current = NoFd
            /\ \A f \in Fd : fds[f] \notin {"p2p", "img"}
        BY <1>2 DEF LInv, Position, Starting
      <3>2. ASSUME NEW f \in Fd PROVE f \in Free \cup PeeringFds
        <4>1. fds[f] \in Node \/ fds[f] \in {"free", "client"}
          BY <3>1, <3>2 DEF LInv, TypeOK, Owner, NotNode
        <4>2. fds[f] # "client" /\ f # current
          BY <1>0, <3>1 DEF LInv, DescriptorsOwned
        <4> QED BY <4>1, <4>2 DEF LInv, DescriptorsOwned, Free, PeeringFds
      <3> QED BY <3>2
    <2>4. /\ IsFiniteSet(Free \cup PeeringFds)
          /\ Cardinality(Free \cup PeeringFds) =
                Cardinality(Free) + Cardinality(PeeringFds) - Cardinality(Free \cap PeeringFds)
      BY <1>1, FS_Union
    <2>5. Cardinality(Free \cap PeeringFds) \in Nat
      BY <1>0, FdsFinite
    <2>6. FD_MAX <= Cardinality(Free \cup PeeringFds)
      BY <1>1, <2>3, <2>4, FS_Subset
    <2> QED BY <1>0, <1>1, <2>1, <2>2, <2>4, <2>5, <2>6
  <1>3. CASE stage \in Loop
    <2>1. Free = {}
      BY <1>3 DEF Loop
    <2>2. PICK p, i : Fd \subseteq ((((Free \cup PeeringFds) \cup {p}) \cup {i}) \cup {imageClient})
                                      \cup {current}
      BY NoOtherFd
    <2> DEFINE A == PeeringFds \cup {p}
               B == A \cup {i}
               C == B \cup {imageClient}
               D == C \cup {current}
    <2>3. /\ IsFiniteSet(A) /\ Cardinality(A) \in Nat
          /\ Cardinality(A) <= Cardinality(PeeringFds) + 1
      BY <1>1, OneMore
    <2> HIDE DEF A
    <2>4. IsFiniteSet(B) /\ Cardinality(B) \in Nat /\ Cardinality(B) <= Cardinality(A) + 1
      BY <2>3, OneMore
    <2> HIDE DEF B
    <2>5. IsFiniteSet(C) /\ Cardinality(C) \in Nat /\ Cardinality(C) <= Cardinality(B) + 1
      BY <2>4, OneMore
    <2> HIDE DEF C
    <2>6. IsFiniteSet(D) /\ Cardinality(D) \in Nat /\ Cardinality(D) <= Cardinality(C) + 1
      BY <2>5, OneMore
    <2> HIDE DEF D
    <2>7. Cardinality(PeeringFds) <= maxPeers
      BY <1>3 DEF PeersCounted, Loop
    <2>8. CASE todo = {}
      <3>1. current = NoFd
        BY <2>8 DEF LInv, Position
      <3>2. Fd \in SUBSET C
        BY <1>0, <2>1, <2>2, <3>1 DEF A, B, C
      <3>3. FD_MAX <= Cardinality(C)
        BY <1>1, <2>5, <3>2, FS_Subset
      <3> QED BY <1>0, <1>1, <2>3, <2>4, <2>5, <2>7, <3>3
    <2>9. CASE todo # {}
      <3>1. Cardinality(PeeringFds) # maxPeers
        BY <2>9 DEF PeersCounted, TableFull, PeeringFds
      <3>2. Fd \in SUBSET D
        BY <2>1, <2>2 DEF A, B, C, D
      <3>3. FD_MAX <= Cardinality(D)
        BY <1>1, <2>6, <3>2, FS_Subset
      <3> QED BY <1>0, <1>1, <2>3, <2>4, <2>5, <2>6, <2>7, <3>1, <3>3
    <2> QED BY <2>8, <2>9
  <1> QED BY <1>2, <1>3

\* A step that leaves the table alone.
LEMMA SamePeersCounted ==
  ASSUME PeersCounted, UNCHANGED <<peerTable, maxPeers, todo>>,
         stage \notin {"parse", "refused", "threw"} \/ stage' \in {"refused", "threw"},
         stage' \notin {"connect", "listen"}
  PROVE  PeersCounted'
  <1>1. PeeringFds' = PeeringFds /\ TableFull(peerTable)' = TableFull(peerTable)
    BY DEF PeeringFds, TableFull
  <1> QED BY <1>1 DEF PeersCounted

\* A step that lets at most one more entry be used, of a table that was not full
\* or keeps its size.
LEMMA NewPeerCounted ==
  ASSUME LInv, PeersCounted, maxPeers' = maxPeers, stage \in Loop, stage' \in Loop,
         Cardinality(PeeringFds') \in Nat,
         \/ Cardinality(PeeringFds') <= Cardinality(PeeringFds)
         \/ /\ ~TableFull(peerTable)
            /\ Cardinality(PeeringFds') <= Cardinality(PeeringFds) + 1,
         todo' # {} => ~TableFull(peerTable')
  PROVE  PeersCounted'
  <1>1. Cardinality(PeeringFds) \in Nat /\ maxPeers \in Nat
    BY FdsFinite DEF PeeringFds, LInv, TypeOK
  <1>2. Cardinality(PeeringFds) <= maxPeers
    BY DEF PeersCounted, Loop
  <1>3. Cardinality(PeeringFds)' <= maxPeers'
    <2>1. CASE ~TableFull(peerTable) /\ Cardinality(PeeringFds') <= Cardinality(PeeringFds) + 1
      <3>1. Cardinality(PeeringFds) # maxPeers
        BY <2>1 DEF TableFull, PeeringFds
      <3> QED BY <1>1, <1>2, <2>1, <3>1
    <2>2. CASE Cardinality(PeeringFds') <= Cardinality(PeeringFds)
      BY <1>1, <1>2, <2>2
    <2> QED BY <2>1, <2>2
  <1>4. stage' \notin {"connect", "listen"}
    BY DEF Loop
  <1> QED BY <1>3, <1>4 DEF PeersCounted, TableFull

\* Start-up leaves one peer at most, and a limit of two at least.
LEMMA StartPeersCounted ==
  ASSUME LInv, PeersCounted, Parse \/ ConnectToFirstPeer
  PROVE  PeersCounted'
  <1>0. stage \in {"parse", "connect"}
    BY DEF Parse, ConnectToFirstPeer
  <1>1. /\ todo = {} /\ current = NoFd /\ NoFd \notin Fd
        /\ \A f \in Fd : fds[f] = "free"
    BY <1>0 DEF LInv, Position, Starting, NoFd, Fd
  <1>2. \A f \in Fd : peerTable[f] = "absent"
    BY <1>1, NodesApart DEF LInv, DescriptorsOwned
  <1>3. PeeringFds = {} /\ Cardinality(PeeringFds) = 0
    <2>1. PeeringFds = {}
      BY <1>2 DEF PeeringFds
    <2> QED BY <2>1, FS_EmptySet
  <1>4. CASE Fails("refused") \/ Fails("threw")
    BY <1>4, SamePeersCounted DEF Fails
  <1>5. CASE /\ stage = "parse" /\ Accepted(argv) /\ maxPeers' = MaxPeersOf(argv)
             /\ stage' \in {"connect", "listen"} /\ UNCHANGED <<peerTable, todo>>
    <2>1. maxPeers' \in Nat /\ argv \in CommandLines
      BY <1>5, MaxPeersNat DEF LInv, TypeOK
    <2>2. maxPeers' > 1
      <3>1. CASE Given(argv, "n") = {}
        BY <1>5, <3>1, DefaultAssumption DEF MaxPeersOf
      <3>2. CASE Given(argv, "n") # {}
        <4> DEFINE o == CHOOSE x \in Given(argv, "n") : TRUE
        <4>1. o \in Given(argv, "n")
          BY <3>2
        <4> HIDE DEF o
        <4>2. PICK i \in DOMAIN argv : argv[i].flag = "n" /\ o = argv[i]
          BY <4>1 DEF Given
        <4>3. OptionAccepted(o) /\ o.flag = "n"
          BY <1>5, <4>2 DEF Accepted
        <4>4. SizeT(o.number) > 1
          BY <4>3 DEF OptionAccepted, MaxPeersAccepted
        <4>5. MaxPeersOf(argv) = SizeT(o.number)
          BY <3>2 DEF MaxPeersOf, o
        <4> QED BY <1>5, <4>4, <4>5
      <3> QED BY <3>1, <3>2
    <2>3. PeeringFds' = {}
      BY <1>3, <1>5 DEF PeeringFds
    <2>4. Cardinality(PeeringFds)' = 0
      BY <2>3, FS_EmptySet
    <2> QED BY <1>1, <1>5, <2>1, <2>2, <2>4 DEF PeersCounted
  <1>6. ASSUME NEW m \in Node, stage = "connect", stage' = "listen",
               peerTable' = [peerTable EXCEPT ![NewFd] = "pending"],
               UNCHANGED <<maxPeers, todo>>
        PROVE  PeersCounted'
    <2>1. Free # {}
      <3>1. 1 \in Fd
        BY DEF Fd
      <3> QED BY <1>1, <3>1 DEF Free
    <2> DEFINE n == NewFd
               t == peerTable'
    <2>2. n \in Fd
      BY <2>1, NewFdFree
    <2>3. \A f \in Fd : f # n => t[f] = peerTable[f]
      BY <1>6, <2>2 DEF LInv, TypeOK
    <2>4. PeeringFds' = {f \in Fd : t[f] # "absent"}
      BY DEF PeeringFds
    <2> HIDE DEF n, t
    <2>5. /\ Cardinality({f \in Fd : t[f] # "absent"}) \in Nat
          /\ Cardinality({f \in Fd : t[f] # "absent"}) <= Cardinality(PeeringFds) + 1
      BY <2>2, <2>3, OneMorePeer
    <2>6. maxPeers > 1 /\ maxPeers \in Nat
      BY <1>6 DEF PeersCounted, LInv, TypeOK
    <2>7. Cardinality(PeeringFds)' <= 1 /\ Cardinality(PeeringFds)' \in Nat
      BY <1>3, <2>4, <2>5
    <2> QED BY <1>1, <1>6, <2>6, <2>7 DEF PeersCounted
  <1> QED BY <1>4, <1>5, <1>6 DEF Parse, ConnectToFirstPeer

\* An accepted peer fits into the table.
LEMMA AcceptedCounted ==
  ASSUME LInv, PeersCounted, NEW m \in Node, HandlePeeringClient(m)
  PROVE  PeersCounted'
  <1>0. stage = "p2p" /\ stage \in Loop /\ todo = {} /\ peerTable \in [Fd -> Entry]
    BY DEF HandlePeeringClient, LInv, TypeOK, Position, Loop
  <1>1. CASE OutOfDescriptors \/ Fails("aborted") \/ (TurnAway(m) /\ stage' = "img"
                                                     /\ UNCHANGED <<maxPeers, todo>>)
    <2>1. /\ UNCHANGED <<peerTable, maxPeers, todo>>
          /\ stage' \in {"no descriptor", "aborted", "img"}
      BY <1>1 DEF OutOfDescriptors, Fails, TurnAway
    <2> QED BY <1>0, <2>1, SamePeersCounted
  <1>2. CASE Free # {} /\ AcceptPeer(m) /\ stage' = "img" /\ UNCHANGED <<maxPeers, todo>>
    <2> DEFINE n == NewFd
               t == peerTable'
    <2>1. n \in Fd
      BY <1>2, NewFdFree
    <2>2. /\ t = [peerTable EXCEPT ![n] = "connected"] /\ ~TableFull(peerTable)
      BY <1>2 DEF AcceptPeer
    <2>3. \A f \in Fd : f # n => t[f] = peerTable[f]
      BY <1>0, <2>1, <2>2
    <2>4. PeeringFds' = {f \in Fd : t[f] # "absent"}
      BY DEF PeeringFds
    <2> HIDE DEF n, t
    <2>5. /\ Cardinality({f \in Fd : t[f] # "absent"}) \in Nat
          /\ Cardinality({f \in Fd : t[f] # "absent"}) <= Cardinality(PeeringFds) + 1
      BY <2>1, <2>3, OneMorePeer
    <2>6. /\ Cardinality(PeeringFds') \in Nat
          /\ Cardinality(PeeringFds') <= Cardinality(PeeringFds) + 1
      BY <2>4, <2>5
    <2>7. stage' \in Loop /\ todo' = {} /\ maxPeers' = maxPeers
      BY <1>0, <1>2 DEF Loop
    <2> QED BY <1>0, <2>2, <2>6, <2>7, NewPeerCounted
  <1> QED BY <1>1, <1>2 DEF HandlePeeringClient

\* A message of a peer gives nobody else an entry.
LEMMA MessageCounted ==
  ASSUME LInv, PeersCounted, NEW f \in Fd, HandleP2pTraffic(f)
  PROVE  PeersCounted'
  <1>0. /\ stage = "peers" /\ stage \in Loop /\ todo = {} /\ peerTable \in [Fd -> Entry]
    BY DEF HandleP2pTraffic, LInv, TypeOK, Position, Loop
  <1>1. CASE OutOfDescriptors \/ Fails("aborted")
    <2>1. /\ UNCHANGED <<peerTable, maxPeers, todo>>
          /\ stage' \in {"no descriptor", "aborted"}
      BY <1>1 DEF OutOfDescriptors, Fails
    <2> QED BY <1>0, <2>1, SamePeersCounted
  <1>2. ASSUME NEW S \in SUBSET Node, HandleWelcome(f, S) \/ HandleRedirect(f, S),
               stage' = HandlerEnds, maxPeers' = maxPeers
        PROVE  PeersCounted'
    <2>1. stage' \in Loop
      BY <1>2 DEF HandlerEnds, Loop
    <2>2. /\ peerTable[f] # "absent" \/ peerTable'[f] = "absent"
          /\ \A g \in Fd : g # f => peerTable'[g] = peerTable[g]
      BY <1>0, <1>2 DEF HandleWelcome, HandleRedirect, Erase, IsPendingPeer
    <2>3. PeeringFds' \in SUBSET PeeringFds
      BY <2>2 DEF PeeringFds
    <2>4. IsFiniteSet(PeeringFds) /\ IsFiniteSet(PeeringFds') /\ Cardinality(PeeringFds') \in Nat
      BY FdsFinite DEF PeeringFds
    <2>5. Cardinality(PeeringFds') <= Cardinality(PeeringFds)
      BY <2>3, <2>4, FS_Subset
    <2>6. todo' # {} => ~TableFull(peerTable')
      <3>1. PICK r : todo' = Available(peerTable', r, S)
        BY <1>2 DEF HandleWelcome, HandleRedirect
      <3> QED BY <3>1 DEF Available
    <2> QED BY <1>0, <1>2, <2>1, <2>4, <2>5, <2>6, NewPeerCounted
  <1>3. CASE HandleSearch(f) /\ stage' = HandlerEnds /\ maxPeers' = maxPeers
    <2>1. UNCHANGED <<peerTable, maxPeers, todo>> /\ stage' = "peers"
      BY <1>0, <1>3 DEF HandleSearch, HandlerEnds
    <2> QED BY <1>0, <2>1, SamePeersCounted
  <1> QED BY <1>1, <1>2, <1>3 DEF HandleP2pTraffic

\* A recommended peer is only tried when the table has room for it.
LEMMA TriedCounted ==
  ASSUME LInv, PeersCounted, NEW m \in Node, TryPeer(m)
  PROVE  PeersCounted'
  <1>0. /\ stage = "recommended" /\ stage \in Loop /\ m \in todo /\ peerTable \in [Fd -> Entry]
    BY DEF TryPeer, LInv, TypeOK, Loop
  <1>1. CASE OutOfDescriptors \/ Fails("threw")
    <2>1. /\ UNCHANGED <<peerTable, maxPeers, todo>>
          /\ stage' \in {"no descriptor", "threw"}
      BY <1>1 DEF OutOfDescriptors, Fails
    <2> QED BY <1>0, <2>1, SamePeersCounted
  <1>2. CASE Free # {} /\ (ConnectToPeer(m) \/ BusyAddress(m))
    <2> DEFINE n == NewFd
               t == peerTable'
    <2>1. n \in Fd
      BY <1>2, NewFdFree
    <2>2. PICK u, v : HandlerGoesOn(m, u, v) /\ v \in {peerTable, [peerTable EXCEPT ![n] = "pending"]}
      BY <1>2 DEF ConnectToPeer, BusyAddress
    <2>3. /\ t = v /\ todo' = (IF TableFull(v) THEN {} ELSE todo \ {m})
          /\ stage' = HandlerEnds /\ maxPeers' = maxPeers
      BY <2>2 DEF HandlerGoesOn
    <2>4. \A f \in Fd : f # n => t[f] = peerTable[f]
      BY <1>0, <2>1, <2>2, <2>3
    <2>5. PeeringFds' = {f \in Fd : t[f] # "absent"}
      BY DEF PeeringFds
    <2>6. todo' # {} => ~TableFull(peerTable')
      BY <2>3
    <2>7. stage' \in Loop
      BY <2>3 DEF HandlerEnds, Loop
    <2> HIDE DEF n, t
    <2>8. /\ Cardinality({f \in Fd : t[f] # "absent"}) \in Nat
          /\ Cardinality({f \in Fd : t[f] # "absent"}) <= Cardinality(PeeringFds) + 1
      BY <2>1, <2>4, OneMorePeer
    <2>9. /\ Cardinality(PeeringFds') \in Nat
          /\ Cardinality(PeeringFds') <= Cardinality(PeeringFds) + 1
      BY <2>5, <2>8
    <2>10. ~TableFull(peerTable)
      BY <1>0 DEF PeersCounted
    <2> QED BY <1>0, <2>3, <2>6, <2>7, <2>9, <2>10, NewPeerCounted
  <1> QED BY <1>1, <1>2 DEF TryPeer

\* Every step keeps the count.
LEMMA CountedNext ==
  ASSUME LInv, PeersCounted, [Next]_vars
  PROVE  PeersCounted'
  <1>1. CASE Parse \/ ConnectToFirstPeer
    BY <1>1, StartPeersCounted
  <1>2. CASE Listen \/ Select \/ NextPort("p2p", "img") \/ NextPort("img", "peers")
             \/ HandleImageTraffic \/ LoopEnds \/ \E m \in Node : RemoteConnects(m)
    <2>1. /\ stage \notin {"parse", "refused", "threw"}
          /\ UNCHANGED <<peerTable, maxPeers, todo>>
      BY <1>2 DEF Listen, Select, NextPort, HandleImageTraffic, OutOfDescriptors, Fails, LoopEnds,
                  RemoteConnects, Loop
    <2>2. stage' \notin {"connect", "listen"}
      BY <1>2 DEF Listen, Select, NextPort, HandleImageTraffic, OutOfDescriptors, Fails, LoopEnds,
                  RemoteConnects, Loop
    <2> QED BY <2>1, <2>2, SamePeersCounted
  <1>3. ASSUME NEW m \in Node, HandlePeeringClient(m) PROVE PeersCounted'
    BY <1>3, AcceptedCounted
  <1>4. ASSUME NEW f \in Fd, HandleP2pTraffic(f) PROVE PeersCounted'
    BY <1>4, MessageCounted
  <1>5. ASSUME NEW m \in Node, TryPeer(m) PROVE PeersCounted'
    BY <1>5, TriedCounted
  <1>6. CASE UNCHANGED vars
    BY <1>6 DEF vars, PeersCounted, PeeringFds, TableFull
  <1> QED BY <1>1, <1>2, <1>3, <1>4, <1>5, <1>6 DEF Next, Process

\* A step into exhaustion is one of a process that has leaked a descriptor.
LEMMA ExhaustedNext ==
  ASSUME LInv, PeersCounted, OnlyLeaksExhaust, [Next]_vars
  PROVE  OnlyLeaksExhaust'
  <1> SUFFICES ASSUME stage' = "no descriptor", FD_MAX >= maxPeers' + 4
               PROVE  \E f \in Fd : fds'[f] = "leaked"
    BY DEF OnlyLeaksExhaust
  <1>1. CASE OutOfDescriptors /\ stage \in Loop
    <2>1. Free = {} /\ maxPeers' = maxPeers /\ fds' = fds
      BY <1>1 DEF OutOfDescriptors
    <2> QED BY <1>1, <2>1, Exhausted
  <1>2. CASE Listen
    <2>1. /\ stage = "listen" /\ Cardinality(Free) < 2 /\ maxPeers' = maxPeers /\ fds' = fds
      BY <1>2 DEF Listen, Fails
    <2> QED BY <2>1, Exhausted
  <1>3. CASE UNCHANGED vars
    BY <1>3 DEF vars, OnlyLeaksExhaust
  <1>4. ~Parse /\ ~ConnectToFirstPeer /\ ~Select /\ ~LoopEnds
    BY DEF Parse, ConnectToFirstPeer, Select, LoopEnds, Fails
  <1>5. ~NextPort("p2p", "img") /\ ~NextPort("img", "peers")
        /\ \A m \in Node : ~RemoteConnects(m)
    BY DEF NextPort, RemoteConnects, Loop
  <1>6. ASSUME NEW m \in Node, HandlePeeringClient(m) PROVE OutOfDescriptors /\ stage \in Loop
    BY <1>6 DEF HandlePeeringClient, Fails, Loop
  <1>7. ASSUME HandleImageTraffic PROVE OutOfDescriptors /\ stage \in Loop
    BY <1>7 DEF HandleImageTraffic, Loop
  <1>8. ASSUME NEW f \in Fd, HandleP2pTraffic(f) PROVE OutOfDescriptors /\ stage \in Loop
    BY <1>8 DEF HandleP2pTraffic, Fails, HandlerEnds, Loop
  <1>9. ASSUME NEW m \in Node, TryPeer(m) PROVE OutOfDescriptors /\ stage \in Loop
    BY <1>9 DEF TryPeer, Fails, ConnectToPeer, BusyAddress, HandlerGoesOn, HandlerEnds, Loop
  <1> QED BY <1>1, <1>2, <1>3, <1>4, <1>5, <1>6, <1>7, <1>8, <1>9 DEF Next, Process

-----------------------------------------------------------------------------
(* The theorems.                                                           *)

\* Every step of the process, and of the other nodes, keeps the invariant.
LEMMA LInvNext == LInv /\ [Next]_vars => LInv'
  <1> SUFFICES ASSUME LInv, [Next]_vars PROVE LInv'
    OBVIOUS
  <1>1. CASE Parse
    BY <1>1, ParseKeeps
  <1>2. CASE ConnectToFirstPeer
    BY <1>2, FirstPeerKeeps
  <1>3. CASE Listen
    BY <1>3, ListenKeeps
  <1>4. CASE Select
    BY <1>4, SelectKeeps
  <1>5. CASE NextPort("p2p", "img") \/ NextPort("img", "peers")
    BY <1>5, NextPortKeeps
  <1>6. ASSUME NEW m \in Node, HandlePeeringClient(m) PROVE LInv'
    BY <1>6, HandlePeeringClientKeeps
  <1>7. CASE HandleImageTraffic
    BY <1>7, HandleImageTrafficKeeps
  <1>8. ASSUME NEW f \in Fd, HandleP2pTraffic(f) PROVE LInv'
    BY <1>8, HandleP2pTrafficKeeps
  <1>9. ASSUME NEW m \in Node, TryPeer(m) PROVE LInv'
    BY <1>9, TryPeerKeeps
  <1>10. CASE LoopEnds
    BY <1>10, LoopEndsKeeps
  <1>11. ASSUME NEW m \in Node, RemoteConnects(m) PROVE LInv'
    BY <1>11, RemoteConnectsKeeps
  <1>12. CASE UNCHANGED vars
    <2> USE <1>12 DEF vars
    <2>1. TypeOK' /\ SnapshotValid' /\ TimeoutHasClient'
      BY DEF LInv, TypeOK, SnapshotValid, Running, TimeoutHasClient
    <2>2. DescriptorsOwned' /\ Strangers'
      BY DEF LInv, DescriptorsOwned, Strangers
    <2>3. Position' /\ StillReady'
      BY DEF LInv, Position, StillReady
    <2> QED BY <2>1, <2>2, <2>3 DEF LInv
  <1> QED BY <1>1, <1>2, <1>3, <1>4, <1>5, <1>6, <1>7, <1>8, <1>9, <1>10, <1>11, <1>12
        DEF Next, Process

\* The invariant of the loop holds in every run.
THEOREM LoopInvariant == Spec => []LInv
  BY LInvInit, LInvNext, PTL DEF Spec

\* The variables of a process keep their types.
THEOREM LoopTypeCorrect == Spec => []TypeOK
  <1>1. LInv => TypeOK
    BY DEF LInv
  <1> QED BY <1>1, LoopInvariant, PTL

\* The loop in runImageNetwork() may go on over the descriptors it collected
\* before select(): none of its handlers closes, erases or reuses one that is
\* still to come.
THEOREM CollectedDescriptorsStayValid == Spec => []SnapshotValid
  <1>1. LInv => SnapshotValid
    BY DEF LInv
  <1> QED BY <1>1, LoopInvariant, PTL

\* Each descriptor but the leaked ones has one owner, and no two are for the
\* same node: this is why Peering may take the table for a function of the
\* remote node.
THEOREM DescriptorsHaveOwners == Spec => []DescriptorsOwned
  <1>1. LInv => DescriptorsOwned
    BY DEF LInv
  <1> QED BY <1>1, LoopInvariant, PTL

\* The assertion of timeoutImageQuery() never fails.
THEOREM TimeoutsHaveClients == Spec => []TimeoutHasClient
  <1>1. LInv => TimeoutHasClient
    BY DEF LInv
  <1> QED BY <1>1, LoopInvariant, PTL

\* A process whose limit has room for its peers, the services, the image client
\* and one more connection only runs out of descriptors when it has leaked some.
THEOREM LeaksExhaust == Spec => []OnlyLeaksExhaust
  <1> DEFINE Held == LInv /\ PeersCounted /\ OnlyLeaksExhaust
  <1>1. Init => Held
    <2> SUFFICES ASSUME Init PROVE Held
      OBVIOUS
    <2>1. stage = "parse" /\ todo = {}
      BY DEF Init
    <2>2. PeersCounted /\ OnlyLeaksExhaust
      BY <2>1 DEF PeersCounted, OnlyLeaksExhaust
    <2> QED BY <2>2, LInvInit
  <1>2. Held /\ [Next]_vars => Held'
    BY LInvNext, CountedNext, ExhaustedNext
  <1>3. Held => OnlyLeaksExhaust
    OBVIOUS
  <1> HIDE DEF Held
  <1> QED BY <1>1, <1>2, <1>3, PTL DEF Spec

-----------------------------------------------------------------------------
(* The command line.                                                       *)

\* The numbers that a conversion to size_t does not change, and what becomes of
\* the others.
LEMMA Converted ==
  ASSUME NEW w \in Nat, NEW i \in -w .. w - 1
  PROVE  /\ i >= 0 => i % w = i
         /\ i < 0 => i % w = i + w
  <1>1. CASE i >= 0
    BY <1>1, SMT
  <1>2. CASE i < 0
    BY <1>2, SMT
  <1> QED BY <1>1, <1>2

\* A number of peers for which there is a table is the one that was asked for.
LEMMA NotWrapped ==
  ASSUME NEW i \in -(2^(INT_BITS - 1)) .. 2^(INT_BITS - 1) - 1, SizeT(i) <= MAX_BUCKETS
  PROVE  SizeT(i) = i
  <1> DEFINE w == 2^SIZE_BITS
             h == 2^(INT_BITS - 1)
  <1>1. w \in Nat /\ h \in Nat /\ MAX_BUCKETS \in Nat /\ MAX_BUCKETS + h < w
    BY BucketAssumption, PowerAssumption, DescriptorAssumption
  <1>2. i \in -h .. h - 1 /\ i % w <= MAX_BUCKETS
    BY DEF SizeT
  <1> HIDE DEF w, h
  <1>3. i \in -w .. w - 1
    BY <1>1, <1>2
  <1>4. i >= 0 => i % w = i
    BY <1>1, <1>3, Converted
  <1>5. i < 0 => i % w = i + w
    BY <1>1, <1>3, Converted
  <1>6. i % w = i
    BY <1>1, <1>2, <1>4, <1>5
  <1> QED BY <1>6 DEF SizeT, w

\* An accepted command line has one option of a kind at most.
LEMMA OneGiven ==
  ASSUME NEW v \in CommandLines, Accepted(v), NEW flag,
         NEW o \in Given(v, flag), NEW p \in Given(v, flag)
  PROVE  o = p
  <1>1. PICK i \in DOMAIN v : v[i].flag = flag /\ o = v[i]
    BY DEF Given
  <1>2. PICK j \in DOMAIN v : v[j].flag = flag /\ p = v[j]
    BY DEF Given
  <1>3. DOMAIN v = 1 .. Len(v) /\ Len(v) \in Nat
    BY Options
  <1> QED BY <1>1, <1>2, <1>3 DEF Accepted

LEMMA ParseSetsSize ==
  ASSUME TypeOK, Parse
  PROVE  TableSizeAsGiven'
  <1>1. CASE Fails("refused") \/ Fails("threw")
    BY <1>1 DEF Fails, TableSizeAsGiven, Parsed
  <1>2. CASE /\ Accepted(argv) /\ MaxPeersOf(argv) <= MAX_BUCKETS
             /\ maxPeers' = MaxPeersOf(argv) /\ argv' = argv
    <2>1. argv \in CommandLines /\ DefaultAssumption
      BY DefaultAssumption DEF TypeOK
    <2>2. ASSUME NEW flag, NEW o \in Given(argv, flag)
          PROVE  /\ OptionAccepted(o) /\ o.flag = flag
                 /\ o.number \in -(2^(INT_BITS - 1)) .. 2^(INT_BITS - 1) - 1
                 /\ (CHOOSE x \in Given(argv, flag) : TRUE) = o
      <3>1. PICK i \in DOMAIN argv : argv[i].flag = flag /\ o = argv[i]
        BY DEF Given
      <3>2. OptionAccepted(o)
        BY <3>1, <1>2 DEF Accepted
      <3>3. o.number \in -(2^(INT_BITS - 1)) .. 2^(INT_BITS - 1) - 1
        BY <3>1, <2>1, Options
      <3>4. (CHOOSE x \in Given(argv, flag) : TRUE) \in Given(argv, flag)
        OBVIOUS
      <3>5. (CHOOSE x \in Given(argv, flag) : TRUE) = o
        BY <3>4, <2>1, <1>2, OneGiven
      <3> QED BY <3>1, <3>2, <3>3, <3>5
    <2>3. ASSUME NEW o \in Given(argv, "n")
          PROVE  maxPeers' = o.number /\ maxPeers' \in 2 .. MAX_BUCKETS
      <3>1. o.flag = "n" /\ OptionAccepted(o)
        BY <2>2
      <3>2. SizeT(o.number) > 1
        BY <3>1 DEF OptionAccepted, MaxPeersAccepted
      <3>3. (CHOOSE x \in Given(argv, "n") : TRUE) = o
        BY <2>2
      <3>4. maxPeers' = SizeT(o.number)
        BY <3>3, <1>2 DEF MaxPeersOf
      <3>5. SizeT(o.number) = o.number
        BY <1>2, <2>2, <3>4, NotWrapped
      <3>6. maxPeers' \in Nat
        BY <1>2, <2>1, MaxPeersNat
      <3> QED BY <1>2, <3>2, <3>4, <3>5, <3>6, DescriptorAssumption
    <2>4. maxPeers' \in 2 .. MAX_BUCKETS
      <3>1. CASE Given(argv, "n") = {}
        BY <3>1, <1>2, DefaultAssumption, DescriptorAssumption DEF MaxPeersOf
      <3>2. CASE Given(argv, "n") # {}
        BY <3>2, <2>3
      <3> QED BY <3>1, <3>2
    <2> QED BY <1>2, <2>3, <2>4 DEF TableSizeAsGiven, Parsed
  <1> QED BY <1>1, <1>2 DEF Parse

\* Nothing but the command line sets the size of the table, and a process that
\* has ended does not go on.
LEMMA TableSizeNext ==
  ASSUME TypeOK, TableSizeAsGiven, [Next]_vars
  PROVE  TableSizeAsGiven'
  <1>1. CASE Parse
    BY <1>1, ParseSetsSize
  <1>2. CASE /\ argv' = argv /\ maxPeers' = maxPeers
             /\ stage \in {"parse", "refused", "threw"} =>
                   stage' \in {"parse", "refused", "threw"}
    BY <1>2 DEF TableSizeAsGiven, Parsed
  <1>3. CASE UNCHANGED vars
    BY <1>3, <1>2 DEF vars
  <1>4. CASE ConnectToFirstPeer
    BY <1>4, <1>2 DEF ConnectToFirstPeer, Fails
  <1>5. CASE Listen
    BY <1>5, <1>2 DEF Listen, Fails
  <1>6. CASE Select
    BY <1>6, <1>2 DEF Select
  <1>7. CASE NextPort("p2p", "img") \/ NextPort("img", "peers")
    BY <1>7, <1>2 DEF NextPort
  <1>8. ASSUME NEW m \in Node, HandlePeeringClient(m) PROVE TableSizeAsGiven'
    BY <1>8, <1>2 DEF HandlePeeringClient, OutOfDescriptors, Fails
  <1>9. CASE HandleImageTraffic
    BY <1>9, <1>2 DEF HandleImageTraffic, OutOfDescriptors
  <1>10. ASSUME NEW f \in Fd, HandleP2pTraffic(f) PROVE TableSizeAsGiven'
    BY <1>10, <1>2 DEF HandleP2pTraffic, OutOfDescriptors, Fails
  <1>11. ASSUME NEW m \in Node, TryPeer(m) PROVE TableSizeAsGiven'
    BY <1>11, <1>2 DEF TryPeer, OutOfDescriptors, Fails, ConnectToPeer, BusyAddress,
                      HandlerGoesOn
  <1>12. CASE LoopEnds
    BY <1>12, <1>2 DEF LoopEnds, Fails
  <1>13. ASSUME NEW m \in Node, RemoteConnects(m) PROVE TableSizeAsGiven'
    BY <1>13, <1>2 DEF RemoteConnects, Loop
  <1> QED BY <1>1, <1>3, <1>4, <1>5, <1>6, <1>7, <1>8, <1>9, <1>10, <1>11, <1>12, <1>13
        DEF Next, Process

\* A process that has got through parseMaxPeers() has a table of the size that was
\* asked for, of two at least, and not one that comes of a number that wrapped
\* around on its way to size_t.
THEOREM TableSizeHolds == Spec => []TableSizeAsGiven
  <1>1. Init => TableSizeAsGiven
    BY DEF Init, TableSizeAsGiven, Parsed
  <1>2. TypeOK /\ TableSizeAsGiven /\ [Next]_vars => TableSizeAsGiven'
    BY TableSizeNext
  <1> QED BY <1>1, <1>2, LoopTypeCorrect, PTL DEF Spec
=============================================================================
