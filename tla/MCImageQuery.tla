---------------------------- MODULE MCImageQuery ----------------------------
(* Instances of ImageQuery for TLC.                                        *)
EXTENDS ImageQuery, TLC

CONSTANTS a, b, c, u, v, w

\* Three nodes, each a peer of the other two: the smallest overlay in which a
\* search reaches a node twice.
Mesh == [n \in Node |-> Node \ {n}]

\* c has x, nobody has y: a search for x reaches c twice.
OneHolder == [n \in Node |-> IF n = c THEN {"x"} ELSE {}]

AnyRequests == [Client -> [node : Node, file : File]]

\* b is like a.
AnyRequestsOfTwo == [Client -> [node : {a, c}, file : File]]

\* a and b search for what nobody has.
VainRequests ==
    {[k \in Client |-> [node |-> IF k = u THEN a ELSE b, file |-> "y"]]}

\* Both clients ask a.
SameNodeRequests == [Client -> [node : {a}, file : File]]

\* Each node has the image the client of the next one asks for.
RingFiles == [n \in Node |-> IF n = a THEN {"x"} ELSE IF n = b THEN {"y"} ELSE {"z"}]
RingRequests ==
    {[k \in Client |-> IF k = u THEN [node |-> a, file |-> "z"]
                       ELSE IF k = v THEN [node |-> b, file |-> "x"]
                       ELSE [node |-> c, file |-> "y"]]}

ClientSymmetry == Permutations(Client)

ClientsAnswered == ClientAnswered(u) /\ ClientAnswered(v)
=============================================================================
