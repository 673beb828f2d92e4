--------------------------- MODULE MCHeaderStore ---------------------------
(* An instance of HeaderStore: a branch of two that is found first, and the *)
(* one of three that the network settles on, whose second header is not     *)
(* above the first branch's tip.                                            *)
EXTENDS HeaderStore, TLC

CONSTANTS g, a1, a2, b1, b2, b3

ForkTree == (a1 :> g) @@ (a2 :> a1) @@ (b1 :> g) @@ (b2 :> b1) @@ (b3 :> b2)
ForkHeaders == {g} \cup DOMAIN ForkTree
ForkWeights == [h \in Header |-> 1]
=============================================================================
