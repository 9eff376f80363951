---------------------------- MODULE CommandLine ----------------------------
(***************************************************************************)
(* The command line of p2pdb (main.cpp 29-97 and 1299-1318).  An argument  *)
(* vector is the sequence of its options; an option is its flag and what   *)
(* its parameter comes to: the number atoi() reads and, for -p, the name   *)
(* before the colon.  Numbers keep the width they have in the code.        *)
(***************************************************************************)
EXTENDS Integers, Sequences

CONSTANTS INT_BITS,       \* width of the int that atoi() returns
          SIZE_BITS,      \* width of size_t
          PORT_BITS,      \* width of uint16_t
          PR_MAXPEERS     \* the default of -n

ASSUME WidthAssumption ==
    /\ {INT_BITS, SIZE_BITS, PORT_BITS} \subseteq Nat \ {0}
    /\ INT_BITS <= SIZE_BITS
ASSUME PowerAssumption == 2^SIZE_BITS \in Nat \ {0}     \* for the provers
ASSUME DefaultAssumption == PR_MAXPEERS \in Nat \ {0, 1}

\* A port in a name:port parameter, or what stands there without a colon.
NoColon == "no colon"

\* Conversions to size_t and to uint16_t.
SizeT(i) == i % 2^SIZE_BITS
PortT(i) == i % 2^PORT_BITS

\* Mutant: one is enough.
BugMaxPeersAccepted(o) == SizeT(o.number) > 0

\* The checks of parseMaxPeers() and parseRemoteAddress().
MaxPeersAccepted(o) == SizeT(o.number) > 1
AddressAccepted(o) == o.name # NoColon /\ PortT(o.number) # 0

OptionAccepted(o) ==
    \/ o.flag = "n" /\ MaxPeersAccepted(o)
    \/ o.flag = "p" /\ AddressAccepted(o)

\* Every other command line ends the process, by exit(1) or by an assertion.
Accepted(argv) ==
    /\ Len(argv) <= 2
    /\ \A i \in DOMAIN argv : OptionAccepted(argv[i])
    /\ Len(argv) = 2 => argv[1].flag # argv[2].flag

Given(argv, flag) == {argv[i] : i \in {j \in DOMAIN argv : argv[j].flag = flag}}

\* max_peers and remote_fqdn after parsing; there is one option of a kind at
\* most, and an empty name is the same as no -p.
MaxPeersOf(argv) ==
    IF Given(argv, "n") = {} THEN PR_MAXPEERS
    ELSE SizeT((CHOOSE o \in Given(argv, "n") : TRUE).number)

NoAddress == [name |-> "", port |-> 0]

RemoteOf(argv) ==
    IF Given(argv, "p") = {} THEN NoAddress
    ELSE LET o == CHOOSE x \in Given(argv, "p") : TRUE
         IN [name |-> o.name, port |-> PortT(o.number)]
=============================================================================
