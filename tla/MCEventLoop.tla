---------------------------- MODULE MCEventLoop ----------------------------
(* The instance of EventLoop for TLC.                                      *)
EXTENDS EventLoop

N(number) == [flag |-> "n", name |-> "", number |-> number]
P(name, port) == [flag |-> "p", name |-> name, number |-> port]

\* A size_t of 5 bits and ports of 2: -1 is a size of 31, 4 is port 0, and 5 is
\* port 1.  The lines that are accepted: a table of three with a first peer, tables
\* of two without.
SomeCommandLines ==
    {<<P("host", 5), N(3)>>, <<>>, <<N(2)>>, <<P("", 1)>>}
    \cup {<<N(i)>> : i \in {-1, 0, 1}}
    \cup {<<P("host", i)>> : i \in {0, 4}} \cup {<<P(NoColon, 1)>>}
    \cup {<<N(2), N(2)>>, <<[flag |-> "x", name |-> "", number |-> 2]>>,
          <<N(2), P("host", 1), N(3)>>, <<P("host", 1), N(-1)>>}
=============================================================================
