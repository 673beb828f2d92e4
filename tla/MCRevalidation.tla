--------------------------- MODULE MCRevalidation ---------------------------
(* Instances of Revalidation: a checkpoint at the root, an old chain of      *)
(* three above it and a branch that overtakes it from its first row.         *)
EXTENDS Revalidation, TLC

CONSTANTS r, a1, a2, a3, a4, a5, b2, b3, b4, b5, cron, admin

Tree == {r, a1, a2, a3, a4, a5, b2, b3, b4, b5}
ParentOf == (a1 :> r) @@ (a2 :> a1) @@ (a3 :> a2) @@ (a4 :> a3) @@ (a5 :> a4)
            @@ (b2 :> a1) @@ (b3 :> b2) @@ (b4 :> b3) @@ (b5 :> b4)
HeightOf == (r :> 0) @@ (a1 :> 1) @@ (a2 :> 2) @@ (a3 :> 3) @@ (a4 :> 4) @@ (a5 :> 5)
            @@ (b2 :> 2) @@ (b3 :> 3) @@ (b4 :> 4) @@ (b5 :> 5)
OldRows == {r, a1, a2, a3, b2}
AllPass == Tree
\* The rules refuse a3, on which headers are mined that they pass.
MinedOnA3 == Tree \ {a3}
AtRoot == {r}
CronAlone == {cron}
Both == {cron, admin}
=============================================================================
