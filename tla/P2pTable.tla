------------------------------ MODULE P2pTable ------------------------------
(***************************************************************************)
(* The peer table of one p2pdb node (P2pTable.cpp, P2pTable.h).            *)
(*                                                                         *)
(* peerTable_ maps a socket descriptor to a connection and a pending bit.  *)
(* A node has at most one connection to each remote address (all its peer  *)
(* sockets share one local port, so the remote address is the whole        *)
(* four-tuple); the table is therefore a function of the remote node:      *)
(*     t \in [Node -> {"absent", "pending", "connected"}].                 *)
(* rejectedPeerList_ is the sequence r of the last MAX_REJECTED remote     *)
(* nodes that redirected this one, oldest first.                           *)
(***************************************************************************)
EXTENDS Sockets, Naturals, Sequences

CONSTANT MAX_REJECTED     \* capacity of rejectedPeerList_

ASSUME MaxRejectedAssumption == MAX_REJECTED \in Nat \ {0}

Entry == {"absent", "pending", "connected"}
Table == [Node -> Entry]

EmptyTable == [m \in Node |-> "absent"]

Peers(t) == {m \in Node : t[m] # "absent"}

IsConnectedPeer(t, m) == t[m] = "connected"
IsPendingPeer(t, m)   == t[m] = "pending"

Rejecters(r) == {r[i] : i \in DOMAIN r}
IsRejectedPeer(r, m) == m \in Rejecters(r)

HasRemote(t, r, m) == m \in Peers(t) \/ IsRejectedPeer(r, m)

GetNumPeers(t) == Cardinality(Peers(t))

\* The code compares with == and relies on never having passed the limit.
IsFull(t, maxPeers) == GetNumPeers(t) = maxPeers

-----------------------------------------------------------------------------
(* The registrations, each with the assertion it starts with.              *)

CanRegisterPending(t, r, m) == ~HasRemote(t, r, m)
RegisterPendingPeer(t, m) == [t EXCEPT ![m] = "pending"]

CanRegisterConnected(t, r, m) == ~IsRejectedPeer(r, m) /\ ~IsConnectedPeer(t, m)
RegisterConnectedPeer(t, m) == [t EXCEPT ![m] = "connected"]

CanRegisterRejected(t, r, m) == IsPendingPeer(t, m) /\ ~IsRejectedPeer(r, m)

\* Mutants: no pop_front(); clear() in place of pop_front().
BugPushRejected(r, m) == Append(r, m)
BugForgetRejected(r, m) == <<m>>

RemovePeer(t, m) == [t EXCEPT ![m] = "absent"]
PushRejected(r, m) == Append(IF Len(r) = MAX_REJECTED THEN Tail(r) ELSE r, m)
=============================================================================
