----------------------------- MODULE MCPeering -----------------------------
(* Instances of Peering for TLC.                                           *)
EXTENDS Peering, TLC

CONSTANTS a, b, c, d

MCMaxPeers == [n \in Node |-> 2]
Symmetry == Permutations(Node)

\* a has room to recommend two peers to one that has just joined.
WideMaxPeers == [n \in Node |-> IF n = a THEN 3 ELSE 2]
WideSymmetry == Permutations(Node \ {a})

\* The specification treats all nodes alike, so that one pair of nodes, and one
\* newcomer, stand for all of them in the liveness properties.

\* Whatever a asks of b is answered while both live (main.cpp, handlePeeringClient
\* and handleP2pTraffic).
RequestsAnswered == RequestAnswered(a, b)

\* What is ready on the way of a request from a to b is looked at in each round of
\* the loop, however busy the other sockets are (main.cpp:1269-1288).
RoundFairSpec ==
    /\ FairSpec
    /\ SF_vars(HandlePeeringClient(b, a))
    /\ SF_vars(HandleP2pTraffic(a, b))

\* The newcomer d never comes to rest once a, b and c are saturated.
NewcomerNeverSettles == NeverSettles(d)
=============================================================================
