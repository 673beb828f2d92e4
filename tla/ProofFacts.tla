----------------------------- MODULE ProofFacts -----------------------------
(***************************************************************************)
(* Facts that several proofs cite.  About naturals: the least and the      *)
(* greatest of a set, and the first n of it, which is what MAX(cursor),    *)
(* MIN(height) and ORDER BY ... LIMIT answer, and a finite set in order.   *)
(* About trees of headers: what is true of the root and passes from parent *)
(* to child is true of all, and a function defined from the parent's value *)
(* exists.                                                                 *)
(***************************************************************************)
EXTENDS Naturals, FiniteSets, FiniteSetsExt, SequencesExt, FiniteSetTheorems, WellFoundedInduction, TLAPS

\* Every non-empty set of naturals has a least member.
LEMMA LeastExists ==
    ASSUME NEW S \in SUBSET Nat, S # {}
    PROVE  \E x \in S : \A y \in S : x <= y
<1>1. PICK x \in S : \A y \in S : ~(<<y, x>> \in OpToRel(<, Nat))
  BY NatLessThanWellFounded, WFMin
<1>2. ASSUME NEW y \in S PROVE x <= y
  <2>1. ~(y < x)
    BY <1>1 DEF OpToRel
  <2>2. QED
    BY <2>1
<1>3. QED
  BY <1>2

LEMMA MinOfNaturals ==
    ASSUME NEW S \in SUBSET Nat, S # {}
    PROVE  Min(S) \in S /\ \A y \in S : Min(S) <= y
<1>1. \E x \in S : \A y \in S : x <= y
  BY LeastExists
<1>2. QED
  BY <1>1 DEF Min

\* A bounded set of naturals has a greatest member.
LEMMA MaxOfBounded ==
    ASSUME NEW n \in Nat, NEW S \in SUBSET (0 .. n), S # {}
    PROVE  Max(S) \in S /\ \A y \in S : y <= Max(S)
<1> DEFINE Gap == {n - x : x \in S}
<1>1. Gap \in SUBSET Nat /\ Gap # {}
  <2>1. \A x \in S : n - x \in Nat
    OBVIOUS
  <2>2. Gap \in SUBSET Nat
    BY <2>1
  <2>3. PICK x \in S : TRUE
    OBVIOUS
  <2>4. n - x \in Gap
    OBVIOUS
  <2>5. QED
    BY <2>2, <2>4
<1>2. PICK g \in Gap : \A y \in Gap : g <= y
  BY <1>1, LeastExists
<1>3. PICK x \in S : g = n - x
  BY <1>2
<1>4. ASSUME NEW y \in S PROVE x >= y
  <2>1. n - y \in Gap
    OBVIOUS
  <2>2. n - x <= n - y
    BY <1>2, <1>3, <2>1
  <2>3. QED
    BY <2>2
<1>5. \E z \in S : \A y \in S : z >= y
  BY <1>4
<1>6. Max(S) \in S /\ \A y \in S : Max(S) >= y
  BY <1>5 DEF Max
<1>7. QED
  BY <1>6

LEMMA MaxOfTwo ==
    ASSUME NEW a \in Nat, NEW b \in Nat
    PROVE  Max({a, b}) \in {a, b} /\ a <= Max({a, b}) /\ b <= Max({a, b})
<1>1. {a, b} \in SUBSET (0 .. a + b) /\ a + b \in Nat
  OBVIOUS
<1>2. Max({a, b}) \in {a, b} /\ \A y \in {a, b} : y <= Max({a, b})
  BY <1>1, MaxOfBounded
<1>3. QED
  BY <1>2

LEMMA MinOfTwo ==
    ASSUME NEW a \in Nat, NEW b \in Nat
    PROVE  Min({a, b}) \in {a, b} /\ Min({a, b}) <= a /\ Min({a, b}) <= b
<1>1. {a, b} \in SUBSET Nat
  OBVIOUS
<1>2. Min({a, b}) \in {a, b} /\ \A y \in {a, b} : Min({a, b}) <= y
  BY <1>1, MinOfNaturals
<1>3. QED
  BY <1>2

\* What stands below a member of a bounded set of naturals is counted by its
\* members alone: a smaller member has no more below it.
LEMMA CountBelowIsMonotone ==
    ASSUME NEW n \in Nat, NEW S \in SUBSET (0 .. n), NEW c \in S, NEW d \in S, d <= c
    PROVE  /\ Cardinality({x \in S : x < d}) \in Nat
           /\ Cardinality({x \in S : x < d}) <= Cardinality({x \in S : x < c})
<1>1. IsFiniteSet(0 .. n)
  BY FS_Interval
<1>2. IsFiniteSet(S)
  BY <1>1, FS_Subset
<1>3. {x \in S : x < c} \in SUBSET S
  OBVIOUS
<1>4. IsFiniteSet({x \in S : x < c})
  BY <1>2, <1>3, FS_Subset
<1>5. {x \in S : x < d} \in SUBSET {x \in S : x < c}
  <2>1. \A x \in S : x < d => x < c
    OBVIOUS
  <2>2. QED
    BY <2>1
<1>6. IsFiniteSet({x \in S : x < d})
  BY <1>4, <1>5, FS_Subset
<1>7. QED
  BY <1>4, <1>5, <1>6, FS_Subset, FS_CardinalityType

-----------------------------------------------------------------------------
\* In every set of headers one is the root or has its parent outside it.
Grounded(D, root, P) ==
    /\ root \in D
    /\ \A h \in D \ {root} : P[h] \in D
    /\ \A S \in SUBSET D : S # {} => \E h \in S : h = root \/ P[h] \notin S

\* A tree whose heights grow by one from parent to child is grounded.
LEMMA HeightsGround ==
    ASSUME NEW D, NEW root \in D, NEW P, NEW H \in [D -> Nat],
           \A h \in D \ {root} : P[h] \in D /\ H[h] = H[P[h]] + 1
    PROVE  Grounded(D, root, P)
<1>1. ASSUME NEW S \in SUBSET D, S # {} PROVE \E h \in S : h = root \/ P[h] \notin S
  <2> DEFINE at == {H[h] : h \in S}
  <2>1. at \in SUBSET Nat /\ at # {}
    BY <1>1
  <2>2. PICK x \in at : \A y \in at : x <= y
    BY <2>1, LeastExists
  <2>3. PICK h \in S : x = H[h]
    BY <2>2
  <2>4. ASSUME h # root, P[h] \in S PROVE FALSE
    <3>1. H[P[h]] \in at /\ H[P[h]] \in Nat /\ H[h] = H[P[h]] + 1
      BY <2>4
    <3>2. H[h] <= H[P[h]]
      BY <2>2, <2>3, <3>1
    <3>3. QED
      BY <3>1, <3>2
  <2>5. QED
    BY <2>4
<1>2. QED
  BY <1>1 DEF Grounded

\* A function defined at the root, and elsewhere from its value at the parent,
\* exists: this is what a definition like f[h \in D] == ... f[P[h]] ... needs.
Recursion(D, root, P, T, base, g) ==
    Grounded(D, root, P) /\ base \in T /\ g \in [D -> [T -> T]]
Follows(f, D, root, P, T, base, g) ==
    f \in [D -> T] /\ \A h \in D : f[h] = IF h = root THEN base ELSE g[h][f[P[h]]]

LEMMA TreeRecursion ==
    ASSUME NEW D, NEW root, NEW P, NEW T, NEW base, NEW g, Recursion(D, root, P, T, base, g)
    PROVE  \E f : Follows(f, D, root, P, T, base, g)
<1> USE DEF Recursion
<1> DEFINE Closed(R) ==
      /\ <<root, base>> \in R
      /\ \A h \in D \ {root}, t \in T : <<P[h], t>> \in R => <<h, g[h][t]>> \in R
           Least == {e \in D \X T : \A R \in SUBSET (D \X T) : Closed(R) => e \in R}
           Unique(h) == \E t \in T : \A u \in T : <<h, u>> \in Least <=> u = t
<1>1. root \in D /\ (\A h \in D \ {root} : P[h] \in D)
  BY DEF Grounded
<1>2. Least \in SUBSET (D \X T) /\ Closed(Least)
  <2>1. <<root, base>> \in Least
    BY <1>1
  <2>2. ASSUME NEW h \in D \ {root}, NEW t \in T, <<P[h], t>> \in Least
        PROVE  <<h, g[h][t]>> \in Least
    <3>1. <<h, g[h][t]>> \in D \X T
      OBVIOUS
    <3>2. ASSUME NEW R \in SUBSET (D \X T), Closed(R) PROVE <<h, g[h][t]>> \in R
      BY <2>2, <3>2
    <3>3. QED
      BY <3>1, <3>2
  <2>3. QED
    BY <2>1, <2>2
<1>3. ASSUME NEW h \in D, h = root \/ Unique(P[h]) PROVE Unique(h)
  <2>1. PICK t \in T : /\ <<h, t>> \in Least
                       /\ h = root => t = base
                       /\ \A u \in T : h # root /\ <<P[h], u>> \in Least => t = g[h][u]
    <3>1. CASE h = root
      BY <1>2, <3>1
    <3>2. CASE h # root
      <4>1. PICK u \in T : \A v \in T : <<P[h], v>> \in Least <=> v = u
        BY <1>3, <3>2
      <4>2. <<h, g[h][u]>> \in Least /\ g[h][u] \in T
        BY <1>2, <3>2, <4>1
      <4>3. QED
        BY <3>2, <4>1, <4>2
    <3>3. QED
      BY <3>1, <3>2
  <2>2. ASSUME NEW u \in T, <<h, u>> \in Least, u # t PROVE FALSE
    <3> DEFINE Fewer == Least \ {<<h, u>>}
    <3>1. Fewer \in SUBSET (D \X T)
      BY <1>2
    <3>2. <<root, base>> \in Fewer
      BY <1>2, <2>1, <2>2
    <3>3. ASSUME NEW k \in D \ {root}, NEW v \in T, <<P[k], v>> \in Fewer
          PROVE  <<k, g[k][v]>> \in Fewer
      <4>1. <<k, g[k][v]>> \in Least
        BY <1>2, <3>3
      <4>2. k = h => g[k][v] = t
        BY <2>1, <3>3
      <4>3. QED
        BY <2>2, <4>1, <4>2
    <3>4. Closed(Fewer)
      BY <3>2, <3>3
    <3>5. <<h, u>> \in Fewer
      BY <2>2, <3>1, <3>4
    <3>6. QED
      BY <3>5
  <2>3. QED
    BY <2>1, <2>2
<1>4. \A h \in D : Unique(h)
  <2> DEFINE S == {h \in D : ~Unique(h)}
  <2>1. ASSUME S # {} PROVE FALSE
    <3>1. S \in SUBSET D
      OBVIOUS
    <3>2. PICK h \in S : h = root \/ P[h] \notin S
      BY <2>1, <3>1 DEF Grounded
    <3>3. h = root \/ Unique(P[h])
      BY <1>1, <3>2
    <3>4. QED
      BY <1>3, <3>2, <3>3
  <2>2. QED
    BY <2>1
<1> DEFINE f == [h \in D |-> CHOOSE t \in T : <<h, t>> \in Least]
<1>5. \A h \in D : f[h] \in T /\ (\A u \in T : <<h, u>> \in Least <=> u = f[h])
  <2>1. ASSUME NEW h \in D PROVE f[h] \in T /\ (\A u \in T : <<h, u>> \in Least <=> u = f[h])
    <3>1. PICK t \in T : \A u \in T : <<h, u>> \in Least <=> u = t
      BY <1>4
    <3>2. f[h] = t
      BY <3>1
    <3>3. QED
      BY <3>1, <3>2
  <2>2. QED
    BY <2>1
<1>6. f \in [D -> T]
  BY <1>5
<1>0. Closed(Least)
  BY <1>2
<1> HIDE DEF f, Least
<1>7. ASSUME NEW h \in D PROVE f[h] = IF h = root THEN base ELSE g[h][f[P[h]]]
  <2>1. CASE h = root
    BY <1>0, <1>5, <2>1
  <2>2. CASE h # root
    <3>1. P[h] \in D /\ f[P[h]] \in T /\ <<P[h], f[P[h]]>> \in Least
      BY <1>1, <1>5, <2>2
    <3>2. <<h, g[h][f[P[h]]]>> \in Least /\ g[h][f[P[h]]] \in T
      BY <1>0, <2>2, <3>1
    <3>3. QED
      BY <1>5, <2>2, <3>2
  <2>3. QED
    BY <2>1, <2>2
<1>8. Follows(f, D, root, P, T, base, g)
  BY <1>6, <1>7 DEF Follows
<1>9. QED
  BY <1>8
-----------------------------------------------------------------------------
(* Finite sets of naturals in order. *)

Sorted(q) == \A i, j \in DOMAIN q : i < j => q[i] < q[j]

LEMMA SortedPrefixed ==
    ASSUME NEW S \in SUBSET Nat, IsFiniteSet(S), NEW m \in S, \A x \in S : m <= x,
           NEW q \in SetToSeqs(S \ {m}), Sorted(q)
    PROVE  \E p \in SetToSeqs(S) : Sorted(p)
<1> DEFINE n == Cardinality(S)
           p == [i \in 1 .. n |-> IF i = 1 THEN m ELSE q[i - 1]]
<1>1. n \in Nat /\ n >= 1 /\ Cardinality(S \ {m}) = n - 1
  <2>1. n \in Nat /\ Cardinality(S \ {m}) = n - 1 /\ Cardinality(S \ {m}) \in Nat
    BY FS_RemoveElement, FS_CardinalityType
  <2>2. QED
    BY <2>1
<1> HIDE DEF n
<1>2. q \in [1 .. n - 1 -> S \ {m}] /\ \A i, j \in 1 .. n - 1 : i # j => q[i] # q[j]
  BY <1>1 DEF SetToSeqs
<1>3. \A i \in 1 .. n : i # 1 => i - 1 \in 1 .. n - 1 /\ q[i - 1] \in S \ {m}
  BY <1>1, <1>2
<1>4. p \in [1 .. n -> S]
  BY <1>3
<1>5. \A i, j \in 1 .. n : i # j => p[i] # p[j]
  BY <1>2, <1>3
<1>6. Sorted(p)
  <2>1. ASSUME NEW i \in 1 .. n, NEW j \in 1 .. n, i < j PROVE p[i] < p[j]
    <3>1. j # 1 /\ p[j] = q[j - 1] /\ q[j - 1] \in S \ {m} /\ j - 1 \in 1 .. n - 1
      BY <1>1, <1>3, <2>1
    <3>2. CASE i = 1
      <4>1. p[i] = m /\ m <= q[j - 1] /\ m # q[j - 1] /\ m \in Nat /\ q[j - 1] \in Nat
        BY <3>1, <3>2
      <4>2. QED
        BY <3>1, <4>1
    <3>3. CASE i # 1
      <4>1. p[i] = q[i - 1] /\ i - 1 \in 1 .. n - 1 /\ i - 1 < j - 1
        BY <1>1, <1>3, <2>1, <3>3
      <4>2. QED
        BY <1>2, <3>1, <4>1 DEF Sorted
    <3>4. QED
      BY <3>2, <3>3
  <2>2. QED
    BY <2>1 DEF Sorted
<1>7. p \in SetToSeqs(S)
  BY <1>4, <1>5 DEF SetToSeqs, n
<1>8. QED
  BY <1>6, <1>7

LEMMA SortedExists ==
    ASSUME NEW S \in SUBSET Nat, IsFiniteSet(S)
    PROVE  \E q \in SetToSeqs(S) : Sorted(q)
<1> DEFINE Bad(n) == \E R \in SUBSET Nat : /\ IsFiniteSet(R) /\ Cardinality(R) = n
                                            /\ ~\E q \in SetToSeqs(R) : Sorted(q)
           sizes == {n \in Nat : Bad(n)}
<1>1. ASSUME sizes # {} PROVE FALSE
  <2>1. PICK n \in sizes : \A k \in sizes : n <= k
    BY <1>1, LeastExists
  <2>2. PICK R \in SUBSET Nat : /\ IsFiniteSet(R) /\ Cardinality(R) = n
                                /\ ~\E q \in SetToSeqs(R) : Sorted(q)
    BY <2>1
  <2>3. CASE R = {}
    <3>1. Cardinality(R) = 0
      BY <2>3, FS_EmptySet
    <3>2. <<>> \in [1 .. 0 -> R] /\ 1 .. 0 = {} /\ DOMAIN <<>> = {}
      OBVIOUS
    <3>3. <<>> \in SetToSeqs(R) /\ Sorted(<<>>)
      BY <3>1, <3>2 DEF SetToSeqs, Sorted
    <3>4. QED
      BY <2>2, <3>3
  <2>4. CASE R # {}
    <3>1. PICK m \in R : \A x \in R : m <= x
      BY <2>4, LeastExists
    <3>2. IsFiniteSet(R \ {m}) /\ Cardinality(R \ {m}) = n - 1 /\ Cardinality(R \ {m}) \in Nat
      BY <2>2, FS_RemoveElement, FS_CardinalityType
    <3>3. n - 1 \notin sizes
      BY <2>1, <3>2
    <3>4. PICK q \in SetToSeqs(R \ {m}) : Sorted(q)
      BY <3>2, <3>3
    <3>5. QED
      BY <2>2, <3>1, <3>4, SortedPrefixed
  <2>5. QED
    BY <2>3, <2>4
<1>2. Cardinality(S) \in Nat
  BY FS_CardinalityType
<1>3. QED
  BY <1>1, <1>2

LEMMA SortedCovers ==
    ASSUME NEW S, IsFiniteSet(S), NEW q \in SetToSeqs(S)
    PROVE  q \in Seq(S) /\ \A x \in S : \E i \in 1 .. Len(q) : q[i] = x
<1>1. Cardinality(S) \in Nat
  BY FS_CardinalityType
<1>2. q \in [1 .. Cardinality(S) -> S]
      /\ \A i, j \in 1 .. Cardinality(S) : i # j => q[i] # q[j]
  BY DEF SetToSeqs
<1>3. q \in Injection(1 .. Cardinality(S), S)
  BY <1>2 DEF Injection, IsInjective
<1>4. Cardinality(1 .. Cardinality(S)) = Cardinality(S)
  BY <1>1, FS_Interval
<1>5. q \in Surjection(1 .. Cardinality(S), S)
  BY <1>3, <1>4, FS_Injection
<1>6. QED
  BY <1>1, <1>2, <1>5 DEF Surjection
=============================================================================
