----------------------------- MODULE MCCouriers -----------------------------
EXTENDS Couriers

\* Two branches from the root, one of three headers, one of two.
CHash == {"g", "a1", "a2", "a3", "b1", "b2"}
CParent == [h \in CHash |->
  CASE h = "g" -> "none" [] h = "a1" -> "g" [] h = "a2" -> "a1"
    [] h = "a3" -> "a2" [] h = "b1" -> "g" [] OTHER -> "b1"]
CHeight == [h \in CHash |->
  CASE h = "g" -> 0 [] h \in {"a1", "b1"} -> 1 [] h \in {"a2", "b2"} -> 2 [] OTHER -> 3]

AllThree == {1, 2, 3}
Apart    == {<<"a2", "b2", "a2">>}
Moves    == {"g", "a2", "a3", "b1", "b2"}
Removals == {{1, 2, 3}, {1, 3}}
=============================================================================
