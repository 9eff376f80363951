------------------------------- MODULE MCTga -------------------------------
(* The instance of Tga for TLC: colour and grey images of one to three     *)
(* pixels, in every division into packets, cut short anywhere.             *)
EXTENDS Tga, FiniteSetsExt

Px(depth, k) == [b \in 1 .. depth \div 8 |-> 10 * k + b]
Raw(depth, k, n) ==
    [run |-> FALSE, n |-> n, px |-> [i \in 1 .. n |-> Px(depth, k + i)]]
Run(depth, k, n) == [run |-> TRUE, n |-> n, px |-> <<Px(depth, k)>>]

\* The bodies of a run-length encoded image of n pixels.
RleBodies(d, n) ==
    CASE n = 1 -> {<<Raw(d, 1, 1)>>, <<Run(d, 1, 1)>>}
      [] n = 3 -> {<<Run(d, 1, 3)>>, <<Run(d, 1, 2), Raw(d, 2, 1)>>,
                   <<Raw(d, 1, 1), Run(d, 2, 2)>>, <<Raw(d, 1, 2), Run(d, 3, 1)>>,
                   <<Raw(d, 1, 1), Raw(d, 2, 1), Raw(d, 3, 1)>>}

Bodies(type, d, n) == IF type \in {10, 11} THEN RleBodies(d, n) ELSE {<<Raw(d, 1, n)>>}

\* The packets with their places.
Placed(type, ps) ==
    [i \in DOMAIN ps |->
        [run |-> ps[i].run, n |-> ps[i].n, px |-> ps[i].px,
         first |-> MapThenSumSet(LAMBDA j : ps[j].n, 1 .. i - 1),
         at |-> Fields + MapThenSumSet(LAMBDA j : Len(ps[j].px), 1 .. i - 1)
                       + IF type \in {10, 11} THEN i - 1 ELSE 0]]

File(map, type, d, a, n, body, items) ==
    [colourMap |-> map, type |-> type, depth |-> d, alpha |-> a, width |-> n,
     height |-> 1, body |-> Placed(type, body), items |-> items]

Depth(type) == IF type \in {2, 10} THEN 24 ELSE 8

\* Files of a supported type, cut anywhere in the pixels.
DecodedFiles ==
    UNION {UNION {{File(0, type, Depth(type), 0, n, body, items) : items \in {8, 9, 10, 11, 13}}
                   : body \in Bodies(type, Depth(type), n)}
            : type \in {2, 3, 10, 11}, n \in {1, 3}}

\* A file cut anywhere in the header.
CutFiles == {File(0, 10, 24, 0, 1, <<Run(24, 1, 1)>>, items) : items \in 0 .. 7}

\* Whole files of other kinds: each field takes each of its values.
OtherFiles ==
    {File(map, type, 8, 0, 1, <<Raw(8, 1, 1)>>, 9) : map \in {0, 1}, type \in {1, 3, 11}}
    \cup {File(0, type, d, a, 1, <<Raw(d, 1, 1)>>, 9) :
            type \in {2, 3}, d \in {8, 12, 16, 24, 32}, a \in {0, 1, 8}}

Files == DecodedFiles \cup CutFiles \cup OtherFiles
=============================================================================
