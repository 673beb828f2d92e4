---------------------------- MODULE ServedChain ----------------------------
(***************************************************************************)
(* What the header store promises whoever reads it between any two of its  *)
(* transactions, with no rows, links, queues or repairs in it.  One chain  *)
(* is served at every moment, with the tip on it.  It grows at its end,    *)
(* the tip going along or following later; or, when it ends in the tip, a  *)
(* branch that claims more work takes its place, and parts from it not too *)
(* far below.  A claim may be rewritten but is never more than the work.   *)
(***************************************************************************)
EXTENDS Integers

CONSTANTS
    Header, Genesis,
    Chain,        \* [Header -> SUBSET Header]: a header with all its ancestors
    Height,       \* [Header -> Nat]
    Work,         \* [Header -> Nat]: the work of a header's whole chain
    Depth         \* how far below the tip another branch may part

VARIABLES
    served,       \* the headers served
    tip,          \* the one that is called the tip
    claim         \* the work each header is said to have

chain == <<served, tip, claim>>

Honest(c) == \A h \in Header : 0 <= c[h] /\ c[h] <= Work[h]

Init ==
    /\ served = Chain[Genesis]
    /\ tip = Genesis
    /\ Honest(claim)

\* The chain grows up to a new end, and the tip stays or goes there; what is
\* served already keeps its claims.
Grow(end) ==
    /\ served \subseteq Chain[end]
    /\ served' = Chain[end]
    /\ tip' \in {tip, end}
    /\ Honest(claim')
    /\ \A h \in served : claim'[h] = claim[h]

\* The branch of h takes the place of the tip's.
Replace(h) ==
    /\ served = Chain[tip]
    /\ claim[h] > claim[tip]
    /\ \E fork \in Chain[tip] \cap Chain[h] : Height[tip] - Height[fork] <= Depth
    /\ served' = Chain[h]
    /\ tip' = h
    /\ UNCHANGED claim

\* Claims are rewritten, and nothing moves.
Weigh == Honest(claim') /\ UNCHANGED <<served, tip>>

Next == (\E h \in Header : Grow(h) \/ Replace(h)) \/ Weigh

Spec == Init /\ [][Next]_chain
=============================================================================
