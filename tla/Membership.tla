----------------------------- MODULE Membership -----------------------------
(***************************************************************************)
(* The overlay that peering promises to build: who is a peer of whom, and  *)
(* nothing of sockets, responses, rejecters or recommended peers.  Peering *)
(* implements it.                                                          *)
(***************************************************************************)
EXTENDS Naturals, FiniteSets

CONSTANTS Node,
          MaxPeers      \* most peers of each node

VARIABLES state,    \* of the process of each node: "down", "up" or "ended"
          peer      \* peer[n][m]: what m is to n

vars == <<state, peer>>

Init ==
    /\ state = [n \in Node |-> "down"]
    /\ peer = [n \in Node |-> [m \in Node |-> "absent"]]

HasRoom(n) == Cardinality({m \in Node : peer[n][m] # "absent"}) < MaxPeers[n]

Start(n) ==
    /\ state[n] = "down"
    /\ state' = [state EXCEPT ![n] = "up"]
    /\ UNCHANGED peer

\* n starts as the newcomer of m.
Join(n, m) ==
    /\ state[n] = "down" /\ state[m] = "up"
    /\ state' = [state EXCEPT ![n] = "up"]
    /\ peer' = [peer EXCEPT ![n][m] = "pending"]

\* n asks m to be its peer.
Request(n, m) ==
    /\ state[n] = "up" /\ state[m] = "up" /\ n # m
    /\ peer[n][m] = "absent" /\ HasRoom(n)
    /\ peer' = [peer EXCEPT ![n][m] = "pending"]
    /\ UNCHANGED state

\* Both ask at once.
RequestBoth(n, m) ==
    /\ state[n] = "up" /\ state[m] = "up" /\ n # m
    /\ peer[n][m] = "absent" /\ peer[m][n] = "absent" /\ HasRoom(n) /\ HasRoom(m)
    /\ peer' = [peer EXCEPT ![n][m] = "pending", ![m][n] = "pending"]
    /\ UNCHANGED state

\* n takes on m, which asks for it, unless its process has ended meanwhile.
Accept(n, m) ==
    /\ state[n] = "up" /\ HasRoom(n)
    /\ peer[n][m] = "absent"
    /\ peer[m][n] = "pending" \/ state[m] = "ended"
    /\ peer' = [peer EXCEPT ![n][m] = "connected"]
    /\ UNCHANGED state

\* n learns that m has taken it on, or that it has not.
Accepted(n, m) ==
    /\ state[n] = "up" /\ peer[n][m] = "pending"
    /\ peer[m][n] = "connected" \/ state[m] = "ended"
    /\ peer' = [peer EXCEPT ![n][m] = "connected"]
    /\ UNCHANGED state

Redirected(n, m) ==
    /\ state[n] = "up" /\ peer[n][m] = "pending"
    /\ peer[m][n] # "connected"
    /\ peer' = [peer EXCEPT ![n][m] = "absent"]
    /\ UNCHANGED state

End(n) ==
    /\ state[n] = "up"
    /\ state' = [state EXCEPT ![n] = "ended"]
    /\ peer' = [peer EXCEPT ![n] = [m \in Node |-> "absent"]]

Next ==
    \/ \E n \in Node : Start(n) \/ End(n)
    \/ \E n, m \in Node :
          \/ Join(n, m) \/ Request(n, m) \/ RequestBoth(n, m)
          \/ Accept(n, m) \/ Accepted(n, m) \/ Redirected(n, m)

Spec == Init /\ [][Next]_vars
=============================================================================
