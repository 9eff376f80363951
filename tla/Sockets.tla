------------------------------ MODULE Sockets ------------------------------
(***************************************************************************)
(* TCP connections between nodes that use one local port for everything    *)
(* (ServerBuilder.cpp binds every outgoing socket to the port the node     *)
(* listens on), so that a pair of nodes has at most one connection.  s is  *)
(* a function of functions: s[n][m] is n's end of the connection of n, m.  *)
(*                                                                         *)
(* An end is "queued" while the connection waits in the backlog of the     *)
(* listening socket, "open" while the process holds a descriptor for it,   *)
(* "closed" once the process closed it and the kernel still remembers it   *)
(* (FIN_WAIT, then TIME_WAIT), and "reset" when the process still holds    *)
(* the descriptor but the other end has reset the connection.              *)
(***************************************************************************)
EXTENDS FiniteSets

CONSTANTS Node,           \* the addresses (IPv4 address, port) of the nodes
          NoNode          \* not a node

ASSUME NodeAssumption == IsFiniteSet(Node)
ASSUME NoNodeAssumption == NoNode \notin Node

End == {"none", "queued", "open", "closed", "reset"}

NoSockets == [n \in Node |-> [m \in Node |-> "none"]]

Alive(e) == e \in {"queued", "open"}

\* connect() can succeed: no end of an older connection of n and m is left,
\* except one whose other end is gone (TIME_WAIT, which SO_REUSEADDR and
\* tcp_tw_reuse let a new connection take over, or not).
FreeAddress(s, n, m) ==
    /\ n # m
    /\ s[n][m] = "none" \/ (s[n][m] = "closed" /\ s[m][n] = "none")
    /\ s[m][n] = "none" \/ (s[m][n] = "closed" /\ s[n][m] = "none")

\* connect() can fail with EADDRNOTAVAIL: n's kernel still holds an end.
AddressInUse(s, n, m) == s[n][m] # "none"

\* n calls connect(); the connection waits in the backlog of m.
Connected(s, n, m) == [s EXCEPT ![n][m] = "open", ![m][n] = "queued"]

\* n closes its descriptor.
Closed(s, n, m) ==
    IF m = NoNode THEN s
    ELSE [s EXCEPT ![n][m] = IF Alive(s[m][n]) THEN "closed" ELSE "none"]
=============================================================================
