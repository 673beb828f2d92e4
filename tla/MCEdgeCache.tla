---------------------------- MODULE MCEdgeCache ----------------------------
(* Instances of EdgeCache: two colos, a line two below the tip, tags of two *)
(* heights, two tags a request; one key of each kind about the line.        *)
EXTENDS EdgeCache, TLC

CONSTANTS c1, c2, q1

TwoColos == {c1, c2}
OneRequest == {q1}

AboutTheLine == {HeightKey(1), HashKey(2, 1), RootKey(1, 1), RangeKey(1, 2)}
ColoSymmetry == Permutations(TwoColos)
Runs == {<<1, 2>>, <<2, 2>>}
=============================================================================
