--------------------------- MODULE MCChainJournal ---------------------------
(* Instances of HeaderStore with its journal: three branches of which one   *)
(* wins by work and not by height, until the network settles on another; a  *)
(* chain whose top a checkpoint pins, so that a hole may stand below it,    *)
(* and a fork beside it.                                                    *)
EXTENDS ChainJournal, TLC

CONSTANTS g, a1, a2, a3, b1, b2, b3, c2

Unit == [h \in Header |-> 1]
Weights == [h \in Header |-> IF h \in {a3, b2} THEN 2 ELSE 1]

\* A chain of three, a heavier fork from the genesis, a fork above a1.
WideTree == (a1 :> g) @@ (a2 :> a1) @@ (a3 :> a2) @@ (b1 :> g) @@ (b2 :> b1) @@ (c2 :> a1)
WideHeaders == {g} \cup DOMAIN WideTree

\* A chain of three, and a fork of its second header.
HoleTree == (b1 :> g) @@ (b2 :> b1) @@ (b3 :> b2) @@ (c2 :> b1)
HoleHeaders == {g} \cup DOMAIN HoleTree

\* A branch of four beside one of three.
UnevenTree == (a1 :> g) @@ (a2 :> a1) @@ (a3 :> a2) @@ (c2 :> a3) @@ (b1 :> g) @@ (b2 :> b1) @@ (b3 :> b2)
UnevenHeaders == {g} \cup DOMAIN UnevenTree

\* A chain whose third header weighs more than the two below it.
SteepTree == (a1 :> g) @@ (a2 :> a1) @@ (a3 :> a2) @@ (b1 :> a3)
SteepHeaders == {g} \cup DOMAIN SteepTree
Steep == [h \in Header |-> IF h = a3 THEN 3 ELSE 1]
=============================================================================
