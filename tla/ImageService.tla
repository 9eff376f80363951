---------------------------- MODULE ImageService ----------------------------
(***************************************************************************)
(* What a p2pdb node promises its netimg clients, whatever happens inside  *)
(* the network: each client gets one answer; a node services one client at *)
(* a time; an image is one that some client asked this node for.  ImageQuery*)
(* implements it.                                                          *)
(***************************************************************************)
CONSTANTS Node, File, Client,
          NoClient,     \* not a client
          Requests      \* what the clients may be going to ask, and whom

VARIABLES up,       \* is the process of each node there?
          serving,  \* the client each node searches the network for
          request, answer

vars == <<up, serving, request, answer>>

Init ==
    /\ up = [n \in Node |-> TRUE]
    /\ serving = [n \in Node |-> NoClient]
    /\ request \in Requests
    /\ answer = [c \in Client |-> "idle"]

\* A client that has gone away is not told.
Told(c, what) == [answer EXCEPT ![c] = IF @ = "left" THEN @ ELSE what]

Asks(c) == answer[c] \in {"waiting", "left"} /\ up[request[c].node]

\* A client asks, or goes away before it is answered.
Ask(c) ==
    /\ answer[c] = "idle" /\ up[request[c].node]
    /\ answer' = [answer EXCEPT ![c] = "waiting"]
    /\ UNCHANGED <<up, serving, request>>

Leave(c) ==
    /\ answer[c] = "waiting"
    /\ answer' = [answer EXCEPT ![c] = "left"]
    /\ UNCHANGED <<up, serving, request>>

\* Another client is being serviced.
Refuse(n, c) ==
    /\ Asks(c) /\ request[c].node = n
    /\ serving[n] \notin {NoClient, c}
    /\ answer' = Told(c, "busy")
    /\ UNCHANGED <<up, serving, request>>

\* The node has the image itself.
AnswerAtOnce(n, c) ==
    /\ Asks(c) /\ request[c].node = n
    /\ serving[n] = NoClient
    /\ answer' = Told(c, request[c].file)
    /\ UNCHANGED <<up, serving, request>>

TakeUp(n, c) ==
    /\ Asks(c) /\ request[c].node = n
    /\ serving[n] = NoClient
    /\ serving' = [serving EXCEPT ![n] = c]
    /\ UNCHANGED <<up, request, answer>>

\* The network has sent an image: one that some client asked this node for.
Deliver(n) ==
    /\ serving[n] # NoClient
    /\ \E x \in Client :
          /\ answer[x] # "idle" /\ request[x].node = n
          /\ answer' = Told(serving[n], request[x].file)
    /\ serving' = [serving EXCEPT ![n] = NoClient]
    /\ UNCHANGED <<up, request>>

\* Nothing has come in time.
GiveUp(n) ==
    /\ serving[n] # NoClient
    /\ answer' = Told(serving[n], "nfound")
    /\ serving' = [serving EXCEPT ![n] = NoClient]
    /\ UNCHANGED <<up, request>>

\* The process of n ends; its clients see the end of their connections.
End(n) ==
    /\ up[n]
    /\ up' = [up EXCEPT ![n] = FALSE]
    /\ serving' = [serving EXCEPT ![n] = NoClient]
    /\ answer' = [c \in Client |->
                     IF answer[c] = "waiting" /\ request[c].node = n
                     THEN "lost" ELSE answer[c]]
    /\ UNCHANGED request

Next ==
    \/ \E c \in Client : Ask(c) \/ Leave(c)
    \/ \E n \in Node : Deliver(n) \/ GiveUp(n) \/ End(n)
    \/ \E n \in Node, c \in Client : Refuse(n, c) \/ AnswerAtOnce(n, c) \/ TakeUp(n, c)

Spec == Init /\ [][Next]_vars
=============================================================================
