--------------------------- MODULE CouriersProofs ---------------------------
(***************************************************************************)
(* Proofs about Couriers, for every tree of headers, every ladder and any  *)
(* number of passes, wrong answers and cuts: what the snapshot and the     *)
(* trigger say of a split.                                                 *)
(*                                                                         *)
(* The trigger compares the ancestries that the store can walk, which may  *)
(* stop anywhere.  Where two of them meet they meet at the place where the *)
(* network's own chains part, because the way down to it is shorter.       *)
(***************************************************************************)
EXTENDS Couriers, ProofFacts

LEMMA FiniteHasMax ==
    ASSUME NEW S \in SUBSET Nat, IsFiniteSet(S), S # {}
    PROVE  \E x \in S : \A y \in S : y <= x
<1>1. PICK q \in SetToSeqs(S) : Sorted(q)
  BY SortedExists
<1>2. q \in Seq(S) /\ (\A x \in S : \E i \in 1 .. Len(q) : q[i] = x)
  BY <1>1, SortedCovers
<1>3. Len(q) \in Nat /\ DOMAIN q = 1 .. Len(q) /\ Len(q) >= 1
  <2>1. PICK x \in S : TRUE
    OBVIOUS
  <2>2. PICK i \in 1 .. Len(q) : q[i] = x
    BY <1>2, <2>1
  <2>3. QED
    BY <1>2, <2>2
<1>4. q[Len(q)] \in S
  BY <1>2, <1>3
<1>5. ASSUME NEW y \in S PROVE y <= q[Len(q)]
  <2>1. PICK i \in 1 .. Len(q) : q[i] = y
    BY <1>2
  <2>2. i < Len(q) => q[i] < q[Len(q)]
    BY <1>1, <1>3 DEF Sorted
  <2>3. i = Len(q) \/ i < Len(q)
    <3>1. \A n \in Nat : \A k \in 1 .. n : k = n \/ k < n
      OBVIOUS
    <3> HIDE DEF Sorted
    <3>2. QED
      BY <1>3, <3>1
  <2>4. y \in Nat /\ q[Len(q)] \in Nat
    BY <1>4
  <2>5. QED
    BY <2>1, <2>2, <2>3, <2>4
<1>6. QED
  BY <1>4, <1>5

LEMMA LadderFacts ==
    ASSUME NEW c \in Configs
    PROVE  /\ c \subseteq Rungs
           /\ Ladder[c] \in Seq(Rungs)
           /\ \A r \in c : \E i \in 1 .. Len(Ladder[c]) : Ladder[c][i] = r
<1>1. c \in SUBSET Nat /\ IsFiniteSet(c) /\ c \subseteq Rungs
  <2>1. c \in SUBSET Rungs /\ Rungs \in SUBSET Nat /\ IsFiniteSet(Rungs)
    BY CouriersAssumption
  <2>2. QED
    BY <2>1, FS_Subset
<1>2. Ladder[c] = CHOOSE q \in SetToSeqs(c) : Sorted(q)
  BY DEF Ladder, Sorted
<1>3. Ladder[c] \in SetToSeqs(c)
  BY <1>1, <1>2, SortedExists
<1>4. Ladder[c] \in Seq(c) /\ \A r \in c : \E i \in 1 .. Len(Ladder[c]) : Ladder[c][i] = r
  BY <1>1, <1>3, SortedCovers
<1>5. Ladder[c] \in Seq(Rungs)
  <2> DEFINE q == Ladder[c]
  <2>1. q \in Seq(c) /\ c \subseteq Rungs
    BY <1>1, <1>4
  <2> HIDE DEF q
  <2>2. Len(q) \in Nat /\ q \in [1 .. Len(q) -> Rungs]
    BY <2>1
  <2>3. q \in Seq(Rungs)
    BY <2>2
  <2>4. QED
    BY <2>3 DEF q
<1>6. QED
  BY <1>1, <1>4, <1>5

-----------------------------------------------------------------------------
(* The network's tree. *)

LEMMA TopFacts == Top \in Nat /\ \A h \in Hash : Height[h] \in Nat /\ Height[h] <= Top
<1>1. Height \in [Hash -> Nat] /\ IsFiniteSet(Hash) /\ Genesis \in Hash
  BY CouriersAssumption
<1>2. Heights \in SUBSET Nat /\ Heights # {} /\ \A h \in Hash : Height[h] \in Heights
  BY <1>1 DEF Heights
<1>3. IsFiniteSet(Heights)
  <2>1. Height \in Surjection(Hash, Heights)
    BY <1>1 DEF Surjection, Heights
  <2>2. QED
    BY <1>1, <2>1, FS_Surjection
<1>4. \E n \in Heights : \A m \in Heights : m <= n
  BY <1>2, <1>3, FiniteHasMax
<1>5. Top \in Heights /\ \A m \in Heights : m <= Top
  BY <1>4 DEF Top
<1>6. QED
  BY <1>1, <1>2, <1>5

LEMMA UpIsAWalk ==
    /\ Up \in [0 .. Top -> [Hash -> Hash \cup {NoHash}]]
    /\ \A h \in Hash : Up[0][h] = h
    /\ \A d \in 1 .. Top, h \in Hash :
          Up[d][h] = IF Up[d - 1][h] = NoHash THEN NoHash ELSE Parent[Up[d - 1][h]]
<1> DEFINE D == 0 .. Top
           T == [Hash -> Hash \cup {NoHash}]
           P == [d \in D |-> d - 1]
           base == [h \in Hash |-> h]
           above(u) == [h \in Hash |-> IF u[h] = NoHash THEN NoHash ELSE Parent[u[h]]]
           g == [d \in D |-> [u \in T |-> above(u)]]
           Walks(f) == f = [d \in D |-> IF d = 0 THEN base ELSE above(f[d - 1])]
<1>1. Top \in Nat /\ 0 \in D /\ (\A d \in D \ {0} : d - 1 \in D /\ P[d] = d - 1)
  BY TopFacts
<1>2. base \in T /\ (\A u \in T : above(u) \in T)
  BY CouriersAssumption
<1>3. Grounded(D, 0, P)
  <2> DEFINE H == [d \in D |-> d]
  <2>1. H \in [D -> Nat] /\ (\A d \in D \ {0} : P[d] \in D /\ H[d] = H[P[d]] + 1)
    BY <1>1
  <2> HIDE DEF H, D, P
  <2>2. QED
    BY <1>1, <2>1, HeightsGround
<1>4. Recursion(D, 0, P, T, base, g)
  <2> HIDE DEF D, T, P, base, above
  <2>1. g \in [D -> [T -> T]]
    BY <1>2
  <2>2. QED
    BY <1>2, <1>3, <2>1 DEF Recursion
<1>5. PICK f : Follows(f, D, 0, P, T, base, g)
  <2> HIDE DEF D, T, P, base, g
  <2>1. QED
    BY <1>4, TreeRecursion
<1>6. f \in [D -> T] /\ \A d \in D : f[d] = IF d = 0 THEN base ELSE g[d][f[P[d]]]
  <2> HIDE DEF D, T, P, base, g
  <2>1. QED
    BY <1>5 DEF Follows
<1>7. \A d \in D : f[d] = IF d = 0 THEN base ELSE above(f[d - 1])
  <2> HIDE DEF T, base, above
  <2>1. ASSUME NEW d \in D, d # 0 PROVE g[d][f[P[d]]] = above(f[d - 1])
    BY <1>1, <1>6, <2>1
  <2>2. QED
    BY <1>6, <2>1
<1>8. Walks(f)
  <2> HIDE DEF T, base, above
  <2>1. QED
    BY <1>6, <1>7
<1>9. Walks(Up)
  <2>1. Up = CHOOSE f_1 : Walks(f_1)
    BY DEF Up
  <2> HIDE DEF Walks
  <2>2. QED
    BY <1>8, <2>1
<1>10. ASSUME NEW d \in D PROVE Up[d] \in T
  <2> DEFINE S == {c \in D : Up[c] \notin T}
  <2>1. ASSUME S # {} PROVE FALSE
    <3>1. PICK c \in S : c = 0 \/ P[c] \notin S
      <4> HIDE DEF D, P, T
      <4>1. S \in SUBSET D
        OBVIOUS
      <4> HIDE DEF S
      <4>2. QED
        BY <1>3, <2>1, <4>1 DEF Grounded
    <3>2. c # 0 => Up[c - 1] \in T
      BY <1>1, <3>1
    <3>3. Up[c] = IF c = 0 THEN base ELSE above(Up[c - 1])
      <4> HIDE DEF base, above
      <4>1. QED
        BY <1>9
    <3>4. Up[c] \in T
      <4> HIDE DEF base, above, T
      <4>1. QED
        BY <1>2, <3>2, <3>3
    <3>5. QED
      BY <3>1, <3>4
  <2>2. QED
    BY <2>1
<1>11. Up \in [D -> T]
  <2> HIDE DEF T, base, above
  <2>1. QED
    BY <1>9, <1>10
<1>12. ASSUME NEW d \in 1 .. Top
       PROVE  Up[d] = above(Up[d - 1])
  <2>1. d \in D /\ d # 0
    BY <1>1
  <2> HIDE DEF D, base, above
  <2>2. QED
    BY <1>9, <2>1
<1>13. Up[0] = base
  <2> HIDE DEF D, base, above
  <2>1. QED
    BY <1>1, <1>9
<1>14. \A h \in Hash : Up[0][h] = h
  BY <1>13
<1>15. ASSUME NEW d \in 1 .. Top, NEW h \in Hash
       PROVE  Up[d][h] = IF Up[d - 1][h] = NoHash THEN NoHash ELSE Parent[Up[d - 1][h]]
  <2>1. above(Up[d - 1])[h] = IF Up[d - 1][h] = NoHash THEN NoHash ELSE Parent[Up[d - 1][h]]
    OBVIOUS
  <2> HIDE DEF above
  <2>2. QED
    BY <1>12, <2>1
<1>16. Up \in [0 .. Top -> [Hash -> Hash \cup {NoHash}]]
  BY <1>11
<1>17. QED
  BY <1>14, <1>15, <1>16

\* d steps up from h is a header, d lower, while d is no more than its height.
LEMMA UpFacts ==
    ASSUME NEW h \in Hash, NEW n \in 0 .. Height[h]
    PROVE  Up[n][h] \in Hash /\ Height[Up[n][h]] = Height[h] - n
<1> DEFINE Good(d) == Up[d][h] \in Hash /\ Height[Up[d][h]] = Height[h] - d
           S == {d \in 0 .. Height[h] : ~Good(d)}
<1>1. Height[h] \in Nat /\ Height[h] <= Top /\ Top \in Nat
  BY TopFacts
<1>2. ASSUME S # {} PROVE FALSE
  <2>1. S \in SUBSET Nat
    BY <1>1
  <2>2. PICK d \in S : \A e \in S : d <= e
    BY <1>2, <2>1, LeastExists
  <2>3. d # 0
    BY <1>1, UpIsAWalk
  <2>4. d \in 1 .. Top /\ d - 1 \in 0 .. Height[h] /\ d <= Height[h] /\ ~(d <= d - 1)
    BY <1>1, <2>3
  <2>5. d - 1 \notin S
    BY <2>2, <2>4
  <2>6. Up[d - 1][h] \in Hash /\ Height[Up[d - 1][h]] = Height[h] - (d - 1)
    BY <2>4, <2>5
  <2>7. Height[Up[d - 1][h]] # 0
    BY <1>1, <2>4, <2>6
  <2>8. Up[d][h] = Parent[Up[d - 1][h]]
    BY <2>4, <2>6, UpIsAWalk, CouriersAssumption
  <2>9. Up[d][h] \in Hash /\ Height[Up[d - 1][h]] = Height[Up[d][h]] + 1
        /\ Height[Up[d][h]] \in Nat
    <3> DEFINE u == Up[d - 1][h]
    <3>1. u \in Hash /\ u # Genesis
      BY <2>6, <2>7, CouriersAssumption
    <3>2. Parent[u] \in Hash /\ Height[u] = Height[Parent[u]] + 1 /\ Height[Parent[u]] \in Nat
      BY <3>1, CouriersAssumption
    <3> HIDE DEF u
    <3>3. QED
      BY <2>8, <3>2 DEF u
  <2>10. Good(d)
    BY <1>1, <2>4, <2>6, <2>9
  <2>11. QED
    BY <2>10
<1>3. QED
  BY <1>2

LEMMA LineageFacts ==
    ASSUME NEW h \in Hash
    PROVE  /\ Lineage[h] \subseteq Hash /\ h \in Lineage[h] /\ Genesis \in Lineage[h]
           /\ \A x \in Lineage[h] : Height[x] \in Nat /\ Height[x] <= Height[h]
           /\ \A x, y \in Lineage[h] : Height[x] = Height[y] => x = y
<1>1. Height[h] \in Nat
  BY TopFacts
<1>2. Lineage[h] = {Up[d][h] : d \in 0 .. Height[h]}
  BY DEF Lineage
<1>3. \A d \in 0 .. Height[h] : Up[d][h] \in Hash /\ Height[Up[d][h]] = Height[h] - d
  BY UpFacts
<1>4. Lineage[h] \subseteq Hash
  BY <1>2, <1>3
<1>5. h \in Lineage[h]
  BY <1>1, <1>2, UpIsAWalk
<1>6. \A x \in Lineage[h] : Height[x] \in Nat /\ Height[x] <= Height[h]
  BY <1>1, <1>2, <1>3
<1>7. ASSUME NEW x \in Lineage[h], NEW y \in Lineage[h], Height[x] = Height[y] PROVE x = y
  <2>1. PICK d \in 0 .. Height[h] : x = Up[d][h]
    BY <1>2
  <2>2. PICK e \in 0 .. Height[h] : y = Up[e][h]
    BY <1>2
  <2>3. Height[h] - d = Height[h] - e
    BY <1>3, <1>7, <2>1, <2>2
  <2>4. d = e
    BY <1>1, <2>3
  <2>5. QED
    BY <2>1, <2>2, <2>4
<1>8. Genesis \in Lineage[h]
  <2>1. Height[h] \in 0 .. Height[h] /\ Height[h] - Height[h] = 0
    BY <1>1
  <2>2. Up[Height[h]][h] \in Hash /\ Height[Up[Height[h]][h]] = 0
    BY <1>3, <2>1
  <2>3. \A g \in Hash \ {Genesis} : Height[g] # 0
    BY CouriersAssumption
  <2>4. Up[Height[h]][h] = Genesis
    BY <2>2, <2>3
  <2>5. QED
    BY <1>2, <2>1, <2>4
<1>9. QED
  BY <1>4, <1>5, <1>6, <1>7, <1>8

\* f is where the chains of g and h part: their highest common ancestor.
Parts(f, g, h) ==
    /\ f \in Lineage[g] \cap Lineage[h]
    /\ \A e \in Lineage[g] \cap Lineage[h] : Height[e] <= Height[f]

\* A set of headers has a highest one.
LEMMA HighestExists ==
    ASSUME NEW S \in SUBSET Hash, S # {}
    PROVE  \E f \in S : \A e \in S : Height[e] <= Height[f]
<1> DEFINE at == {Height[h] : h \in S}
<1>1. at \in SUBSET (0 .. Top) /\ at # {} /\ Top \in Nat
  BY TopFacts
<1>2. Max(at) \in at /\ \A y \in at : y <= Max(at)
  <2> HIDE DEF at
  <2>1. QED
    BY <1>1, MaxOfBounded
<1>3. PICK f \in S : Height[f] = Max(at)
  BY <1>2
<1>4. \A e \in S : Height[e] <= Height[f]
  BY <1>2, <1>3
<1>5. QED
  BY <1>4

LEMMA PartsIsTheFork ==
    ASSUME NEW g \in Hash, NEW h \in Hash
    PROVE  Parts(TrueFork[g][h], g, h) /\ \A f : Parts(f, g, h) => f = TrueFork[g][h]
<1> DEFINE both == Lineage[g] \cap Lineage[h]
<1>1. both \in SUBSET Hash /\ both # {}
  BY LineageFacts
<1>2. \E f \in both : \A e \in both : Height[e] <= Height[f]
  <2> HIDE DEF both
  <2>1. QED
    BY <1>1, HighestExists
<1>3. TrueFork[g][h] = CHOOSE f \in both : \A e \in both : Height[e] <= Height[f]
  BY DEF TrueFork
<1>4. Parts(TrueFork[g][h], g, h)
  BY <1>2, <1>3 DEF Parts
<1>5. ASSUME NEW f, NEW k, Parts(f, g, h), Parts(k, g, h) PROVE f = k
  <2>1. f \in Lineage[g] /\ k \in Lineage[g] /\ Height[f] <= Height[k] /\ Height[k] <= Height[f]
    BY <1>5 DEF Parts
  <2>2. Height[f] \in Nat /\ Height[k] \in Nat
    BY <2>1, LineageFacts
  <2>3. QED
    BY <2>1, <2>2, LineageFacts
<1>6. QED
  BY <1>4, <1>5

LEMMA ForkIsSymmetric ==
    ASSUME NEW g \in Hash, NEW h \in Hash
    PROVE  TrueFork[g][h] = TrueFork[h][g]
<1>1. Parts(TrueFork[g][h], h, g)
  BY PartsIsTheFork DEF Parts
<1>2. QED
  BY <1>1, PartsIsTheFork

\* What a walk from h reaches are ancestors, with every ancestor above them.
LEMMA AncestryIsAnUpperPart ==
    ASSUME NEW h \in Hash, NEW f \in Ancestry(h)
    PROVE  f \in Lineage[h] /\ \A e \in Lineage[h] : Height[e] >= Height[f] => e \in Ancestry(h)
<1>1. PICK d \in 0 .. Height[h] :
         f = Up[d][h] /\ d <= Walk /\ \A e \in 0 .. d : Stored(rows, Up[e][h])
  BY DEF Ancestry
<1>2. f \in Lineage[h]
  BY <1>1 DEF Lineage
<1>3. Height[h] \in Nat /\ Height[f] = Height[h] - d /\ Walk \in Nat
  BY <1>1, TopFacts, UpFacts, CouriersAssumption
<1>4. ASSUME NEW e \in Lineage[h], Height[e] >= Height[f] PROVE e \in Ancestry(h)
  <2>1. PICK k \in 0 .. Height[h] : e = Up[k][h]
    BY DEF Lineage
  <2>2. Height[e] = Height[h] - k
    BY <2>1, UpFacts
  <2>3. k <= d
    BY <1>3, <1>4, <2>2
  <2>4. k <= Walk /\ \A x \in 0 .. k : x \in 0 .. d
    BY <1>1, <1>3, <2>3
  <2>5. QED
    BY <1>1, <2>1, <2>4 DEF Ancestry
<1>5. QED
  BY <1>2, <1>4

\* Where two walks meet first the chains of the network part, whatever rows the
\* store lacks and however short the walks are.
LEMMA WalksMeetAtTheFork ==
    ASSUME NEW g \in Hash, NEW h \in Hash, NEW f \in Ancestry(g) \cap Ancestry(h),
           \A e \in Ancestry(g) \cap Ancestry(h) : Height[e] <= Height[f]
    PROVE  Parts(f, g, h) /\ f = TrueFork[g][h]
<1>1. f \in Lineage[g] \cap Lineage[h]
  BY AncestryIsAnUpperPart
<1>2. ASSUME NEW e \in Lineage[g] \cap Lineage[h] PROVE Height[e] <= Height[f]
  <2>1. Height[e] \in Nat /\ Height[f] \in Nat
    BY <1>1, LineageFacts
  <2>2. CASE Height[e] >= Height[f]
    <3>1. e \in Ancestry(g) /\ e \in Ancestry(h)
      BY <2>2, AncestryIsAnUpperPart
    <3>2. QED
      BY <3>1
  <2>3. QED
    BY <2>1, <2>2
<1>3. Parts(f, g, h)
  BY <1>1, <1>2 DEF Parts
<1>4. QED
  BY <1>3, PartsIsTheFork

-----------------------------------------------------------------------------
(* The view of the pairs and the trigger. *)

Snapshot == [Rungs -> Observations \cup {Nothing, NoRow}]

Classified(table) ==
    {q \in Rungs \X Rungs :
        /\ q[1] < q[2] /\ Known(table, q[1]) /\ Known(table, q[2])
        /\ Ancestry(table[q[1]].hash) \cap Ancestry(table[q[2]].hash) # {}}

PairOf(table, p) ==
    LET common == Ancestry(table[p[1]].hash) \cap Ancestry(table[p[2]].hash)
        fork   == CHOOSE f \in common : \A e \in common : Height[e] <= Height[f]
        lower  == CHOOSE i \in 1..2 : \A j \in 1..2 : table[p[i]].height <= table[p[j]].height
    IN  [rungs |-> p, fork |-> fork, above |-> table[p[lower]].height - Height[fork]]

LEMMA PairsAreOfTheClassified ==
    ASSUME NEW table
    PROVE  Pairs(table) = {PairOf(table, q) : q \in Classified(table)}
BY DEF Pairs, PairOf, Classified

LEMMA KnownIsSeen ==
    ASSUME NEW table, NEW r, Known(table, r)
    PROVE  table[r].hash \in Hash /\ table[r].height = Height[table[r].hash]
BY DEF Known

LEMMA KnownIsObserved ==
    ASSUME NEW table \in Snapshot, NEW r \in Rungs, Known(table, r)
    PROVE  table[r] \in Observations
BY DEF Known, Snapshot

LEMMA LowerOfTwo ==
    ASSUME NEW a, NEW b, NEW heights, heights = [i \in 1 .. 2 |-> IF i = 1 THEN a ELSE b],
           a \in Nat, b \in Nat
    PROVE  \E i \in 1 .. 2 : \A j \in 1 .. 2 : heights[i] <= heights[j]
<1>1. CASE a <= b
  <2>1. \A j \in 1 .. 2 : heights[1] <= heights[j]
    BY <1>1
  <2>2. QED
    BY <2>1
<1>2. CASE b <= a
  <2>1. \A j \in 1 .. 2 : heights[2] <= heights[j]
    BY <1>2
  <2>2. QED
    BY <2>1
<1>3. QED
  BY <1>1, <1>2

LEMMA PairFacts ==
    ASSUME NEW table, NEW q \in Classified(table)
    PROVE  LET p == PairOf(table, q)
               g == table[q[1]].hash
               h == table[q[2]].hash
           IN  /\ p.rungs = q /\ p.fork = TrueFork[g][h] /\ Parts(p.fork, g, h)
               /\ Deep(p) => Height[g] >= Height[p.fork] + Depth /\ Height[h] >= Height[p.fork] + Depth
               /\ p.above = 0 => p.fork \in {g, h}
<1> DEFINE g == table[q[1]].hash
           h == table[q[2]].hash
           common == Ancestry(g) \cap Ancestry(h)
           fork == CHOOSE f \in common : \A e \in common : Height[e] <= Height[f]
           lower == CHOOSE i \in 1..2 : \A j \in 1..2 : table[q[i]].height <= table[q[j]].height
           p == PairOf(table, q)
<1>1. Known(table, q[1]) /\ Known(table, q[2]) /\ common # {}
  BY DEF Classified
<1>2. g \in Hash /\ h \in Hash /\ table[q[1]].height = Height[g] /\ table[q[2]].height = Height[h]
  BY <1>1, KnownIsSeen
<1>3. p.rungs = q /\ p.fork = fork /\ p.above = table[q[lower]].height - Height[fork]
  BY DEF PairOf
<1>4. fork \in common /\ \A e \in common : Height[e] <= Height[fork]
  <2>1. common \in SUBSET Hash
    <3> HIDE DEF g, h
    <3>1. QED
      BY <1>2, AncestryIsAnUpperPart, LineageFacts
  <2>2. \E f \in common : \A e \in common : Height[e] <= Height[f]
    <3> HIDE DEF common
    <3>1. QED
      BY <1>1, <2>1, HighestExists
  <2> HIDE DEF common
  <2>3. QED
    BY <2>2
<1>5. Parts(fork, g, h) /\ fork = TrueFork[g][h]
  <2> HIDE DEF g, h, fork
  <2>1. QED
    BY <1>2, <1>4, WalksMeetAtTheFork
<1>6. lower \in 1 .. 2 /\ \A j \in 1 .. 2 : table[q[lower]].height <= table[q[j]].height
  <2> DEFINE heights == [i \in 1 .. 2 |-> IF i = 1 THEN Height[g] ELSE Height[h]]
  <2>1. \A i \in 1 .. 2 : table[q[i]].height = heights[i]
    <3> HIDE DEF g, h
    <3>1. \A i \in 1 .. 2 : i = 1 \/ i = 2
      OBVIOUS
    <3>2. QED
      BY <1>2, <3>1
  <2>2. Height[g] \in Nat /\ Height[h] \in Nat
    BY <1>2, TopFacts
  <2>3. \E i \in 1 .. 2 : \A j \in 1 .. 2 : heights[i] <= heights[j]
    <3> HIDE DEF g, h
    <3>1. QED
      BY <2>2, LowerOfTwo
  <2>4. \E i \in 1 .. 2 : \A j \in 1 .. 2 : table[q[i]].height <= table[q[j]].height
    <3> HIDE DEF heights
    <3>1. QED
      BY <2>1, <2>3
  <2>5. QED
    BY <2>4
<1> HIDE DEF g, h, fork, lower, p, common
<1>7. p.fork \in Lineage[g] /\ p.fork \in Lineage[h] /\ p.fork = fork
  BY <1>3, <1>5 DEF Parts
<1>8. Height[p.fork] \in Nat /\ Height[g] \in Nat /\ Height[h] \in Nat
      /\ Height[p.fork] <= Height[g] /\ Height[p.fork] <= Height[h]
  BY <1>2, <1>7, LineageFacts, TopFacts
<1>9. /\ p.above = Height[g] - Height[p.fork] \/ p.above = Height[h] - Height[p.fork]
      /\ p.above <= Height[g] - Height[p.fork] /\ p.above <= Height[h] - Height[p.fork]
  <2>1. /\ table[q[lower]].height <= Height[g] /\ table[q[lower]].height <= Height[h]
        /\ table[q[lower]].height \in {Height[g], Height[h]}
    <3>1. lower = 1 \/ lower = 2
      BY <1>6
    <3>2. QED
      BY <1>2, <1>6, <3>1
  <2>2. QED
    BY <1>3, <1>7, <1>8, <2>1
<1>10. Deep(p) => Height[g] >= Height[p.fork] + Depth /\ Height[h] >= Height[p.fork] + Depth
  <2>1. Depth \in Nat
    BY CouriersAssumption
  <2>2. QED
    BY <1>8, <1>9, <2>1 DEF Deep
<1>11. p.above = 0 => p.fork \in {g, h}
  <2>1. p.above = 0 => Height[p.fork] = Height[g] \/ Height[p.fork] = Height[h]
    BY <1>8, <1>9
  <2>2. QED
    BY <1>2, <1>7, <2>1, LineageFacts
<1>12. QED
  BY <1>3, <1>5, <1>7, <1>10, <1>11 DEF p, g, h

\* n rungs make n * (n - 1) / 2 pairs.
LEMMA CountOfPairs ==
    ASSUME NEW R \in SUBSET Nat, IsFiniteSet(R)
    PROVE  LET O == {q \in R \X R : q[1] < q[2]}
           IN  /\ IsFiniteSet(O) /\ Cardinality(O) \in Nat /\ Cardinality(R) \in Nat
               /\ 2 * Cardinality(O) = Cardinality(R) * (Cardinality(R) - 1)
<1> DEFINE all == R \X R
           O == {q \in all : q[1] < q[2]}
           M == {q \in all : q[2] < q[1]}
           D == {q \in all : q[1] = q[2]}
           n == Cardinality(R)
<1>1. IsFiniteSet(all) /\ Cardinality(all) = n * n /\ n \in Nat
  BY FS_Product, FS_CardinalityType
<1>2. IsFiniteSet(O) /\ IsFiniteSet(M) /\ IsFiniteSet(D)
  <2>1. O \in SUBSET all /\ M \in SUBSET all /\ D \in SUBSET all
    OBVIOUS
  <2> HIDE DEF O, M, D, all
  <2>2. QED
    BY <1>1, <2>1, FS_Subset
<1>3. Cardinality(O) \in Nat /\ Cardinality(M) \in Nat /\ Cardinality(D) \in Nat
  <2> HIDE DEF O, M, D
  <2>1. QED
    BY <1>2, FS_CardinalityType
<1>4. Cardinality(M) = Cardinality(O)
  <2> DEFINE f == [q \in O |-> <<q[2], q[1]>>]
  <2>1. f \in [O -> M]
    OBVIOUS
  <2>2. ASSUME NEW m \in M PROVE \E q \in O : f[q] = m
    <3>1. <<m[2], m[1]>> \in O /\ f[<<m[2], m[1]>>] = m
      OBVIOUS
    <3>2. QED
      BY <3>1
  <2>3. ASSUME NEW p \in O, NEW q \in O, f[p] = f[q] PROVE p = q
    <3>1. p[1] = q[1] /\ p[2] = q[2]
      BY <2>3
    <3>2. QED
      BY <3>1
  <2> HIDE DEF f, O, M
  <2>4. f \in Bijection(O, M)
    BY <2>1, <2>2, <2>3 DEF Bijection, Injection, Surjection, IsInjective
  <2>5. QED
    BY <1>2, <2>4, FS_Bijection DEF ExistsBijection
<1>5. Cardinality(D) = n
  <2> DEFINE f == [r \in R |-> <<r, r>>]
  <2>1. f \in [R -> D]
    OBVIOUS
  <2>2. ASSUME NEW d \in D PROVE \E r \in R : f[r] = d
    <3>1. d[1] \in R /\ f[d[1]] = d
      OBVIOUS
    <3>2. QED
      BY <3>1
  <2>3. ASSUME NEW p \in R, NEW q \in R, f[p] = f[q] PROVE p = q
    BY <2>3
  <2> HIDE DEF f, D
  <2>4. f \in Bijection(R, D)
    BY <2>1, <2>2, <2>3 DEF Bijection, Injection, Surjection, IsInjective
  <2>5. QED
    BY <2>4, FS_Bijection DEF ExistsBijection
<1>0. \A q \in all : q[1] \in Nat /\ q[2] \in Nat
  OBVIOUS
<1> HIDE DEF all
<1>6. Cardinality(O \cup M) = Cardinality(O) + Cardinality(M) /\ IsFiniteSet(O \cup M)
  <2>1. O \cap M = {}
    BY <1>0
  <2> HIDE DEF O, M
  <2>2. Cardinality(O \cap M) = 0
    BY <2>1, FS_EmptySet
  <2>3. /\ IsFiniteSet(O \cup M)
        /\ Cardinality(O \cup M) = Cardinality(O) + Cardinality(M) - Cardinality(O \cap M)
    BY <1>2, FS_Union
  <2>4. QED
    BY <1>3, <2>2, <2>3
<1>7. Cardinality((O \cup M) \cup D) = Cardinality(O \cup M) + Cardinality(D)
  <2>1. (O \cup M) \cap D = {}
    BY <1>0
  <2> HIDE DEF O, M, D
  <2>2. Cardinality((O \cup M) \cap D) = 0
    BY <2>1, FS_EmptySet
  <2>3. Cardinality((O \cup M) \cup D)
          = Cardinality(O \cup M) + Cardinality(D) - Cardinality((O \cup M) \cap D)
    BY <1>2, <1>6, FS_Union
  <2>4. QED
    BY <1>3, <1>5, <1>6, <2>2, <2>3
<1>8. (O \cup M) \cup D = all
  <2>1. \A q \in all : q[1] < q[2] \/ q[2] < q[1] \/ q[1] = q[2]
    BY <1>0
  <2>2. QED
    BY <2>1
<1> HIDE DEF O, M, D, n, all
<1>9. Cardinality(O) + Cardinality(O) + n = n * n
  BY <1>1, <1>3, <1>4, <1>5, <1>6, <1>7, <1>8
<1>10. n * n - n = n * (n - 1)
  BY <1>1
<1>11. 2 * Cardinality(O) = n * (n - 1)
  BY <1>1, <1>3, <1>9, <1>10
<1>12. QED
  BY <1>1, <1>2, <1>3, <1>11 DEF O, all, n

\* When the view has as many pairs as there are pairs of rows, every two rows
\* are classified.
LEMMA EveryPairIsThere ==
    ASSUME NEW table, AllClassified(table, Pairs(table)),
           NEW l \in Rungs, NEW r \in Rungs, table[l] # NoRow, table[r] # NoRow, l < r
    PROVE  <<l, r>> \in Classified(table)
<1> DEFINE R == {k \in Rungs : table[k] # NoRow}
           O == {q \in R \X R : q[1] < q[2]}
           C == Classified(table)
           f == [q \in C |-> PairOf(table, q)]
<1>1. R \in SUBSET Nat /\ IsFiniteSet(R)
  <2>1. R \in SUBSET Rungs /\ IsFiniteSet(Rungs) /\ Rungs \in SUBSET Nat
    BY CouriersAssumption
  <2> HIDE DEF R
  <2>2. QED
    BY <2>1, FS_Subset
<1>2. IsFiniteSet(O) /\ Cardinality(O) \in Nat /\ Cardinality(R) \in Nat
      /\ 2 * Cardinality(O) = Cardinality(R) * (Cardinality(R) - 1)
  <2> HIDE DEF R
  <2>1. QED
    BY <1>1, CountOfPairs
<1>3. C \in SUBSET O
  <2>1. ASSUME NEW q \in C PROVE q \in O
    <3>1. q \in Rungs \X Rungs /\ q[1] < q[2] /\ table[q[1]] # NoRow /\ table[q[2]] # NoRow
      BY DEF Classified, Known
    <3>2. QED
      BY <3>1
  <2>2. QED
    BY <2>1
<1>4. IsFiniteSet(C) /\ Cardinality(C) <= Cardinality(O) /\ Cardinality(C) \in Nat
      /\ (Cardinality(O) = Cardinality(C) => O = C)
  <2> HIDE DEF C, O
  <2>1. QED
    BY <1>2, <1>3, FS_Subset, FS_CardinalityType
<1>5. Cardinality(Pairs(table)) <= Cardinality(C) /\ Cardinality(Pairs(table)) \in Nat
  <2>1. Pairs(table) = {PairOf(table, q) : q \in C}
    BY PairsAreOfTheClassified
  <2> HIDE DEF C
  <2>2. f \in Surjection(C, Pairs(table))
    BY <2>1 DEF Surjection
  <2> HIDE DEF f
  <2>3. QED
    BY <1>4, <2>2, FS_Surjection, FS_CardinalityType
<1>6. 2 * Cardinality(Pairs(table)) = Cardinality(R) * (Cardinality(R) - 1)
  BY DEF AllClassified
<1>7. C = O
  <2> HIDE DEF C, O, R
  <2>1. Cardinality(Pairs(table)) = Cardinality(O)
    BY <1>2, <1>5, <1>6
  <2>2. QED
    BY <1>2, <1>4, <1>5, <2>1
<1>8. <<l, r>> \in O
  OBVIOUS
<1>9. QED
  BY <1>7, <1>8

\* What the trigger opens: a fork f of the network's own chains that two tips
\* of the snapshot stand far above.
SplitOf(table, f) ==
    \E l, r \in Rungs :
        /\ table[l] \in Observations /\ table[r] \in Observations
        /\ TrueFork[table[l].hash][table[r].hash] = f
        /\ Height[table[l].hash] >= Height[f] + Depth
        /\ Height[table[r].hash] >= Height[f] + Depth

LEMMA OpenedIsASplit ==
    ASSUME NEW table \in Snapshot, NEW f \in Hash,
           splits[f] = "none", Detected(table, Pairs(table))[f] # "none"
    PROVE  SplitOf(table, f)
<1>1. \E p \in Pairs(table) : p.fork = f /\ Deep(p)
  BY DEF Detected
<1>2. PICK q \in Classified(table) : PairOf(table, q).fork = f /\ Deep(PairOf(table, q))
  BY <1>1, PairsAreOfTheClassified
<1>3. q \in Rungs \X Rungs /\ Known(table, q[1]) /\ Known(table, q[2])
  BY DEF Classified
<1>4. table[q[1]] \in Observations /\ table[q[2]] \in Observations
  BY <1>3, KnownIsObserved
<1>5. /\ TrueFork[table[q[1]].hash][table[q[2]].hash] = f
      /\ Height[table[q[1]].hash] >= Height[f] + Depth
      /\ Height[table[q[2]].hash] >= Height[f] + Depth
  BY <1>2, PairFacts
<1>6. QED
  BY <1>3, <1>4, <1>5 DEF SplitOf

\* What the trigger resolves: a fork f that no two rows of the snapshot, all
\* of them observed, stand on different sides of.
OverAt(table, f) ==
    \A l, r \in {q \in Rungs : table[q] # NoRow} :
        /\ table[l] \in Observations /\ table[r] \in Observations
        /\ TrueFork[table[l].hash][table[r].hash] = f => f \in {table[l].hash, table[r].hash}

LEMMA ForkOfOne == \A h \in Hash : TrueFork[h][h] = h
<1>1. ASSUME NEW h \in Hash PROVE Parts(h, h, h)
  BY LineageFacts DEF Parts
<1>2. QED
  BY <1>1, PartsIsTheFork

LEMMA ResolvedIsOverAt ==
    ASSUME NEW table \in Snapshot, NEW f \in Hash,
           splits[f] = "open", Detected(table, Pairs(table))[f] = "resolved",
           NEW a \in Rungs, NEW b \in Rungs, a # b, table[a] # NoRow, table[b] # NoRow
    PROVE  OverAt(table, f)
<1>1. /\ AllClassified(table, Pairs(table))
      /\ \A p \in Pairs(table) : p.fork = f => p.above = 0
  BY DEF Detected
<1>2. ASSUME NEW l \in Rungs, NEW r \in Rungs, table[l] # NoRow, table[r] # NoRow, l < r
      PROVE  /\ table[l] \in Observations /\ table[r] \in Observations
             /\ TrueFork[table[l].hash][table[r].hash] = f => f \in {table[l].hash, table[r].hash}
  <2> DEFINE q == <<l, r>>
  <2>1. q \in Classified(table)
    BY <1>1, <1>2, EveryPairIsThere
  <2>2. Known(table, l) /\ Known(table, r)
    BY <2>1 DEF Classified
  <2>3. PairOf(table, q) \in Pairs(table)
    BY <2>1, PairsAreOfTheClassified
  <2>4. /\ PairOf(table, q).fork = TrueFork[table[l].hash][table[r].hash]
        /\ PairOf(table, q).above = 0 => PairOf(table, q).fork \in {table[l].hash, table[r].hash}
    <3>1. q \in Classified(table) /\ q[1] = l /\ q[2] = r
      BY <2>1
    <3> HIDE DEF q
    <3>2. QED
      BY <3>1, PairFacts
  <2>5. table[l] \in Observations /\ table[r] \in Observations
    BY <2>2, KnownIsObserved
  <2>6. QED
    BY <1>1, <2>3, <2>4, <2>5
<1>3. \A l, r \in Rungs : l \in Nat /\ r \in Nat /\ (l < r \/ r < l \/ l = r)
  BY CouriersAssumption
<1>4. ASSUME NEW l \in Rungs, table[l] # NoRow
      PROVE  table[l] \in Observations
  <2>1. PICK k \in Rungs : k # l /\ table[k] # NoRow
    OBVIOUS
  <2>2. k < l \/ l < k
    BY <1>3, <2>1
  <2>3. QED
    BY <1>2, <1>4, <2>1, <2>2
<1>5. \A o \in Observations : o.hash \in Hash
  BY DEF Observations, Claims, Seen
<1>6. ASSUME NEW l \in Rungs, NEW r \in Rungs, table[l] # NoRow, table[r] # NoRow,
             TrueFork[table[l].hash][table[r].hash] = f
      PROVE  f \in {table[l].hash, table[r].hash}
  <2>1. table[l].hash \in Hash /\ table[r].hash \in Hash
    BY <1>4, <1>5, <1>6
  <2>2. CASE l < r
    BY <1>2, <1>6, <2>2
  <2>3. CASE r < l
    <3>1. TrueFork[table[r].hash][table[l].hash] = f
      BY <1>6, <2>1, ForkIsSymmetric
    <3>2. QED
      BY <1>2, <1>6, <2>3, <3>1
  <2>4. CASE l = r
    BY <1>6, <2>1, <2>4, ForkOfOne
  <2>5. QED
    BY <1>3, <2>2, <2>3, <2>4
<1>7. QED
  BY <1>4, <1>6 DEF OverAt


-----------------------------------------------------------------------------
(* The passes. *)

Said == Claims \cup {Nothing, Malformed}

Passes == [pc : {"idle", "tip", "pass", "finish"}, cfg : Configs \cup {{}}, start : Nat,
           queue : Seq(Rungs), asked : 0 .. MaxClock, best : Rungs \cup {NoRung}, faults : [Rungs -> Nat],
           seen : [Rungs -> Said]]

\* A rung's observation is one a snapshot can hold: a tip with its hash, or none.
Settled(o) == o \in Observations \cup {Nothing}

\* A pass that finishes has settled every rung it has not in its queue.
Finishes(p) ==
    p.pc = "finish" =>
        \A r \in p.cfg : Settled(p.seen[r]) \/ \E i \in DOMAIN p.queue : p.queue[i] = r

PassInv(p) ==
    /\ p \in Passes
    /\ p.pc = "tip" => p.queue # <<>>
    /\ p.pc # "idle" => p.cfg \in Configs
    /\ Finishes(p)

\* The invariant under the snapshot: its rows and every pass's are observations
\* of the couriers, and a pass settles each of its rungs before it records.
SnapshotInv ==
    /\ clock \in 0 .. MaxClock
    /\ chain \in [Rungs -> Hash]
    /\ config \in Configs
    /\ tips \in Snapshot
    /\ DOMAIN tick = Ticks
    /\ \A t \in Ticks : PassInv(tick[t])

LEMMA IdleIsAPass == PassInv(Idle)
<1>1. Idle \in Passes
  BY CouriersAssumption DEF Idle, Passes, Said
<1>2. QED
  BY <1>1 DEF PassInv, Finishes, Idle

\* Faults of the ladder leave the rest of a pass.
SamePass(p, o) ==
    /\ o \in Passes
    /\ o.pc = p.pc /\ o.cfg = p.cfg /\ o.queue = p.queue /\ o.seen = p.seen

LEMMA FaultedIsTheSame ==
    ASSUME NEW p \in Passes, NEW faulting
    PROVE  SamePass(p, Faulted(p, faulting))
<1>1. p.faults \in [Rungs -> Nat]
  BY DEF Passes
<1>2. [r \in Rungs |-> IF r \in faulting THEN p.faults[r] + 1 ELSE p.faults[r]] \in [Rungs -> Nat]
  BY <1>1
<1>3. QED
  BY <1>2 DEF Faulted, SamePass, Passes

LEMMA OutcomesAreTheSame ==
    ASSUME NEW p \in Passes, NEW o \in Outcomes(p)
    PROVE  SamePass(p, o.p)
<1> DEFINE order == Order(p)
           first(k) == {order[i] : i \in 1 .. k}
           some(k) == [p |-> Faulted(p, first(k)), served |-> TRUE, cost |-> k]
           all == [p |-> Faulted(p, ToSet(order)), served |-> FALSE, cost |-> Len(order)]
<1>1. Outcomes(p) = {some(k) : k \in 0 .. (Len(order) - 1)} \cup {all}
  BY DEF Outcomes
<1>2. \A k : some(k).p = Faulted(p, first(k))
  OBVIOUS
<1>3. all.p = Faulted(p, ToSet(order))
  OBVIOUS
<1> HIDE DEF order, first, some, all
<1>4. \E S : o.p = Faulted(p, S)
  BY <1>1, <1>2, <1>3
<1>5. QED
  BY <1>4, FaultedIsTheSame

LEMMA ObservationsAreClaims ==
    /\ \A o \in Claims : o.hash \in Hash \cup {NoHash} /\ o.height \in Heights
                         /\ o.at \in 0 .. MaxClock
    /\ \A x \in Hash \cup {NoHash}, n \in Heights, c \in 0 .. MaxClock : Seen(x, n, c) \in Claims
    /\ \A x \in Hash, n \in Heights, c \in 0 .. MaxClock : Seen(x, n, c) \in Observations
    /\ \A o \in Claims : o.hash # NoHash => o \in Observations
    /\ Observations \subseteq Claims
<1>1. NoHash \notin Hash
  BY CouriersAssumption
<1>2. QED
  BY <1>1 DEF Observations, Claims, Seen

\* Taking a rung in finish_observations settles that rung and no other.
Settles(p, r, o) ==
    /\ o \in Passes
    /\ o.pc = p.pc /\ o.cfg = p.cfg /\ o.queue = p.queue
    /\ Settled(o.seen[r])
    /\ \A k \in Rungs \ {r} : o.seen[k] = p.seen[k]

LEMMA SettlesAt ==
    ASSUME NEW p \in Passes, NEW r \in Rungs, NEW s, Settled(s),
           NEW o, SamePass([p EXCEPT !.seen[r] = s], o)
    PROVE  Settles(p, r, o)
<1>1. s \in Said
  BY ObservationsAreClaims DEF Settled, Said
<1>2. p.seen \in [Rungs -> Said]
  BY DEF Passes
<1>3. o.seen = [p.seen EXCEPT ![r] = s] /\ o.pc = p.pc /\ o.cfg = p.cfg /\ o.queue = p.queue
  BY DEF SamePass, Passes
<1>4. o.seen[r] = s /\ \A k \in Rungs \ {r} : o.seen[k] = p.seen[k]
  BY <1>2, <1>3
<1>5. QED
  BY <1>3, <1>4 DEF Settles, SamePass

LEMMA SeenPass ==
    ASSUME NEW p \in Passes, NEW r \in Rungs, NEW s, Settled(s)
    PROVE  [p EXCEPT !.seen[r] = s] \in Passes
<1>1. s \in Said
  BY ObservationsAreClaims DEF Settled, Said
<1>2. [p.seen EXCEPT ![r] = s] \in [Rungs -> Said]
  BY <1>1 DEF Passes
<1>3. QED
  BY <1>2 DEF Passes

LEMMA SettlesWith ==
    ASSUME NEW p \in Passes, NEW r \in Rungs, NEW s, Settled(s)
    PROVE  Settles(p, r, [p EXCEPT !.seen[r] = s])
<1>1. [p EXCEPT !.seen[r] = s] \in Passes
  BY SeenPass
<1>2. SamePass([p EXCEPT !.seen[r] = s], [p EXCEPT !.seen[r] = s])
  BY <1>1 DEF SamePass
<1>3. QED
  BY <1>2, SettlesAt

LEMMA KeptIsSettled ==
    ASSUME NEW s \in Claims
    PROVE  Settled(Kept(s))
BY ObservationsAreClaims DEF Settled, Kept

LEMMA AskedSettles ==
    ASSUME NEW p \in Passes, NEW r \in Rungs, chain \in [Rungs -> Hash],
           p.seen[r] \in Claims, NEW o \in Asked(p, r)
    PROVE  Settles(p, r, o.p)
<1> DEFINE s == p.seen[r]
           kept == [p EXCEPT !.seen[r] = Kept(s)]
           got(h) == [p EXCEPT !.seen[r] = Seen(h, s.height, s.at)]
<1>1. \/ o.p = Faulted(kept, {r})
      \/ \E h \in Served(r, s) : o.p = got(h) \/ \E a \in Outcomes(got(h)) : o.p = a.p
  <2> DEFINE one(h) == {[p |-> got(h), rows |-> Inserted(h, TRUE), cost |-> 0]}
             many(h) == {[p |-> a.p, rows |-> Inserted(h, a.served), cost |-> a.cost]
                           : a \in Outcomes(got(h))}
             no == [p |-> Faulted(kept, {r}), rows |-> rows,
                    cost |-> IF Served(r, s) = {} THEN 0 ELSE 1]
  <2>1. Asked(p, r) = {no} \cup UNION {IF Missing(h) = {} THEN one(h) ELSE many(h)
                                        : h \in Served(r, s)}
    BY DEF Asked
  <2>2. no.p = Faulted(kept, {r})
    OBVIOUS
  <2>3. \A h : \A x \in one(h) : x.p = got(h)
    OBVIOUS
  <2>4. \A h : \A x \in many(h) : \E a \in Outcomes(got(h)) : x.p = a.p
    OBVIOUS
  <2> HIDE DEF no, one, many, got, kept
  <2>5. o = no \/ \E h \in Served(r, s) : o \in one(h) \/ o \in many(h)
    BY <2>1
  <2>6. QED
    BY <2>2, <2>3, <2>4, <2>5
<1>2. CASE o.p = Faulted(kept, {r})
  <2>1. Settled(Kept(s))
    BY KeptIsSettled
  <2>2. kept \in Passes
    BY <2>1, SeenPass
  <2>3. SamePass(kept, o.p)
    BY <1>2, <2>2, FaultedIsTheSame
  <2>4. QED
    BY <2>1, <2>3, SettlesAt
<1>3. CASE \E h \in Served(r, s) : o.p = got(h) \/ \E a \in Outcomes(got(h)) : o.p = a.p
  <2>1. PICK h \in Served(r, s) : o.p = got(h) \/ \E a \in Outcomes(got(h)) : o.p = a.p
    BY <1>3
  <2>2. h \in Hash
    <3>1. chain[r] \in Hash /\ Lineage[chain[r]] \subseteq Hash
      BY LineageFacts
    <3>2. s.hash \in Hash \cup {NoHash}
      BY ObservationsAreClaims
    <3>3. QED
      BY <3>1, <3>2 DEF Served
  <2>3. Settled(Seen(h, s.height, s.at))
    BY <2>2, ObservationsAreClaims DEF Settled
  <2>4. got(h) \in Passes
    BY <2>3, SeenPass
  <2>5. CASE o.p = got(h)
    BY <2>3, <2>5, SettlesWith
  <2>6. CASE \E a \in Outcomes(got(h)) : o.p = a.p
    <3>1. SamePass(got(h), o.p)
      BY <2>4, <2>6, OutcomesAreTheSame
    <3>2. QED
      BY <2>3, <3>1, SettlesAt
  <2>7. QED
    BY <2>1, <2>5, <2>6
<1>4. QED
  BY <1>1, <1>2, <1>3

LEMMA ObservedSettles ==
    ASSUME NEW p \in Passes, NEW r \in Rungs, chain \in [Rungs -> Hash], NEW o \in Observed(p, r)
    PROVE  Settles(p, r, o.p)
<1> DEFINE s == p.seen[r]
           with(x) == [p EXCEPT !.seen[r] = x]
<1>1. s \in Said
  BY DEF Passes
<1>2. Settled(Nothing)
  BY DEF Settled
<1>3. CASE s = Nothing
  <2>1. Observed(p, r) = {[p |-> with(s), rows |-> rows, cost |-> 0]}
    <3>1. Nothing # Malformed
      BY DEF Nothing, Malformed
    <3>2. QED
      BY <1>3, <3>1 DEF Observed
  <2>3. o.p = with(Nothing)
    BY <1>3, <2>1
  <2>2. QED
    BY <1>2, <2>3, SettlesWith
<1>4. CASE s = Malformed
  <2>1. Nothing # Malformed
    BY DEF Nothing, Malformed
  <2>2. o.p = Faulted(with(Nothing), {r})
    BY <1>4, <2>1 DEF Observed
  <2>3. SamePass(with(Nothing), o.p)
    BY <1>2, <2>2, SeenPass, FaultedIsTheSame
  <2>4. QED
    BY <1>2, <2>3, SettlesAt
<1>5. CASE s # Nothing /\ s # Malformed
  <2>1. s \in Claims
    BY <1>1, <1>5 DEF Said
  <2>2. \/ Checked(s) /\ o.p = with(s)
        \/ o.p = with(Kept(s))
        \/ o \in Asked(p, r)
    BY <1>5 DEF Observed
  <2>3. Checked(s) => Settled(s)
    BY <2>1, ObservationsAreClaims DEF Checked, Settled
  <2>4. QED
    BY <2>1, <2>2, <2>3, KeptIsSettled, AskedSettles, SettlesWith
<1>6. QED
  BY <1>3, <1>4, <1>5


LEMMA RotationFacts ==
    ASSUME NEW c \in Configs, NEW s \in Nat
    PROVE  Rotation(c, s) \in Seq(Rungs) /\ Rotation(c, s) # <<>>
<1> DEFINE n == Len(Ladder[c])
<1>1. c # {}
  BY CouriersAssumption
<1>2. Ladder[c] \in Seq(Rungs) /\ \A r \in c : \E i \in 1 .. n : Ladder[c][i] = r
  BY LadderFacts
<1>3. n \in Nat /\ n >= 1
  BY <1>1, <1>2
<1>4. \A i \in 1 .. n : Ladder[c][i] \in Rungs
  BY <1>2
<1>5. Rotation(c, s) = [k \in 1 .. n |-> Ladder[c][((s + k - 1) % n) + 1]]
  BY DEF Rotation
<1> HIDE DEF n
<1>6. \A k \in 1 .. n : ((s + k - 1) % n) + 1 \in 1 .. n
  <2>1. \A k \in 1 .. n : s + k - 1 \in Nat
    BY <1>3
  <2>2. \A x \in Nat : (x % n) + 1 \in 1 .. n
    BY <1>3
  <2>3. QED
    BY <2>1, <2>2
<1>7. Rotation(c, s) \in [1 .. n -> Rungs]
  BY <1>4, <1>5, <1>6
<1>8. QED
  BY <1>3, <1>7

\* What `record` makes of a finished pass: a row for each rung of the pass's
\* configuration and for no other, none older than the one it replaces.
LEMMA RecordedFacts ==
    ASSUME tips \in Snapshot, NEW p, PassInv(p), p.pc = "finish", p.queue = <<>>
    PROVE  /\ Recorded(p) \in Snapshot
           /\ p.cfg \in Configs
           /\ \A r \in p.cfg : Recorded(p)[r] # NoRow
           /\ \A r \in Rungs : tips[r] \in Observations /\ Recorded(p)[r] \in Observations
                                 => Recorded(p)[r].at >= tips[r].at
<1>1. p.cfg \in Configs /\ p.cfg \subseteq Rungs
  BY CouriersAssumption DEF PassInv
<1>2. ASSUME NEW r \in p.cfg PROVE p.seen[r] \in Observations \cup {Nothing}
  BY DEF PassInv, Finishes, Settled
<1>3. NoRow # Nothing /\ NoRow \notin Observations /\ Nothing \notin Observations
  <2>1. \A o \in Observations : o.kind = "seen"
    BY DEF Observations, Claims, Seen
  <2>2. NoRow.kind = "no row" /\ Nothing.kind = "nothing"
    BY DEF NoRow, Nothing
  <2>3. "no row" # "nothing" /\ "no row" # "seen" /\ "nothing" # "seen"
    OBVIOUS
  <2>4. QED
    BY <2>1, <2>2, <2>3
<1>4. ASSUME NEW r \in Rungs
      PROVE  /\ Recorded(p)[r] \in Observations \cup {Nothing, NoRow}
             /\ r \in p.cfg => Recorded(p)[r] # NoRow
             /\ tips[r] \in Observations /\ Recorded(p)[r] \in Observations
                  => Recorded(p)[r].at >= tips[r].at
  <2>1. tips[r] \in Observations \cup {Nothing, NoRow}
    BY DEF Snapshot
  <2>2. \A o \in Observations : o.at \in Nat
    BY ObservationsAreClaims, CouriersAssumption
  <2>3. CASE r \notin p.cfg
    BY <1>3, <2>3 DEF Recorded
  <2>4. CASE r \in p.cfg
    <3> DEFINE old == IF tips[r] = NoRow THEN Nothing ELSE tips[r]
    <3>1. Recorded(p)[r] = IF p.seen[r] # Nothing /\ Replaces(p.seen[r], old)
                           THEN p.seen[r] ELSE old
      BY <2>4 DEF Recorded
    <3>2. p.seen[r] \in Observations \cup {Nothing}
      BY <1>2, <2>4
    <3>3. old \in Observations \cup {Nothing}
      BY <2>1
    <3>4. tips[r] \in Observations => old = tips[r] /\ old # Nothing
      BY <1>3
    <3> HIDE DEF old
    <3>5. QED
      BY <1>3, <2>2, <3>1, <3>2, <3>3, <3>4 DEF Replaces
  <2>5. QED
    BY <2>3, <2>4
<1>5. Recorded(p) \in Snapshot
  <2>1. Recorded(p) = [r \in Rungs |-> Recorded(p)[r]]
    BY DEF Recorded
  <2>2. QED
    BY <1>4, <2>1 DEF Snapshot
<1>6. QED
  BY <1>1, <1>4, <1>5

LEMMA TickStep ==
    ASSUME SnapshotInv, NEW t \in Ticks, NEW p, PassInv(p), tick' = [tick EXCEPT ![t] = p],
           clock' = clock, chain' = chain, config' = config, tips' \in Snapshot
    PROVE  SnapshotInv'
BY DEF SnapshotInv

LEMMA AskTipStep ==
    ASSUME SnapshotInv, NEW t \in Ticks, AskTip(t)
    PROVE  SnapshotInv'
<1> DEFINE p == tick[t]
           r == Head(p.queue)
           last == Len(p.queue) = 1
           rest == [p EXCEPT !.queue = Tail(@), !.pc = IF last THEN "pass" ELSE @,
                             !.asked = IF last THEN 0 ELSE clock]
<1>1. p \in Passes /\ p.pc = "tip" /\ p.queue # <<>> /\ p.cfg \in Configs
  BY DEF AskTip, SnapshotInv, PassInv
<1>2. p.queue \in Seq(Rungs) /\ r \in Rungs /\ Tail(p.queue) \in Seq(Rungs)
      /\ (Len(p.queue) # 1 => Tail(p.queue) # <<>>)
  <2>1. p.queue \in Seq(Rungs)
    BY <1>1 DEF Passes
  <2> DEFINE q == p.queue
  <2> HIDE DEF q
  <2>2. q \in Seq(Rungs) /\ q # <<>>
    BY <1>1, <2>1 DEF q
  <2>3. Head(q) \in Rungs /\ Tail(q) \in Seq(Rungs) /\ Len(Tail(q)) = Len(q) - 1 /\ Len(q) \in Nat
    BY <2>2
  <2>4. Len(q) # 1 => Tail(q) # <<>>
    <3>1. Len(<<>>) = 0
      OBVIOUS
    <3>2. QED
      BY <2>3, <3>1
  <2>5. QED
    BY <2>2, <2>3, <2>4 DEF q
<1>3. /\ rest \in Passes /\ rest.pc \in {"tip", "pass"} /\ rest.cfg = p.cfg
      /\ rest.pc = "tip" => rest.queue # <<>>
  <2>1. clock \in 0 .. MaxClock /\ 0 \in 0 .. MaxClock
    BY CouriersAssumption DEF SnapshotInv
  <2>2. QED
    BY <1>1, <1>2, <2>1 DEF Passes
<1>4. ASSUME NEW o \in Passes, o.pc = rest.pc, o.cfg = rest.cfg, o.queue = rest.queue
      PROVE  PassInv(o)
  BY <1>1, <1>3, <1>4 DEF PassInv, Finishes
<1>5. clock' = clock /\ chain' = chain /\ config' = config /\ tips' \in Snapshot
  BY DEF AskTip, SnapshotInv
<1>6. ASSUME NEW a \in TipAnswers(r, p.asked),
             tick' = [tick EXCEPT ![t] = [rest EXCEPT !.seen[r] = a[1], !.best = Better(p, r, a[1])]]
      PROVE  SnapshotInv'
  <2>1. chain[r] \in Hash /\ p.asked \in 0 .. MaxClock /\ Height[chain[r]] \in Heights
    BY <1>1, <1>2 DEF SnapshotInv, Heights, Passes
  <2>2. a[1] \in Said
    <3>1. \/ a[1] = Malformed
          \/ \E x \in Hash \cup {NoHash}, n \in Heights : a[1] = Seen(x, n, p.asked)
      BY <2>1 DEF TipAnswers
    <3>2. QED
      BY <2>1, <3>1, ObservationsAreClaims DEF Said
  <2>3. Better(p, r, a[1]) \in Rungs \cup {NoRung}
    BY <1>1, <1>2 DEF Better, Passes
  <2> DEFINE o == [rest EXCEPT !.seen[r] = a[1], !.best = Better(p, r, a[1])]
  <2>4. [rest.seen EXCEPT ![r] = a[1]] \in [Rungs -> Said]
    BY <1>3, <2>2 DEF Passes
  <2>5. o \in Passes /\ o.pc = rest.pc /\ o.cfg = rest.cfg /\ o.queue = rest.queue
    <3> HIDE DEF rest, p, r
    <3>1. QED
      BY <1>3, <2>3, <2>4 DEF Passes
  <2> HIDE DEF rest, p, r
  <2>6. PassInv(o)
    BY <1>4, <2>5
  <2> HIDE DEF o
  <2>7. tick' = [tick EXCEPT ![t] = o]
    BY <1>6 DEF o
  <2>8. QED
    BY <1>5, <2>6, <2>7, TickStep
<1>7. ASSUME tick' = [tick EXCEPT ![t] = Faulted(rest, {r})] PROVE SnapshotInv'
  <2> HIDE DEF rest, r
  <2>1. SamePass(rest, Faulted(rest, {r}))
    BY <1>3, FaultedIsTheSame
  <2>2. PassInv(Faulted(rest, {r}))
    BY <1>4, <2>1 DEF SamePass
  <2>3. QED
    BY <1>5, <1>7, <2>2, TickStep
<1>8. QED
  BY <1>6, <1>7 DEF AskTip

LEMMA ObserveStep ==
    ASSUME SnapshotInv, NEW t \in Ticks, Observe(t)
    PROVE  SnapshotInv'
<1> DEFINE p == tick[t]
           r == Head(p.queue)
           q == [p EXCEPT !.queue = Tail(@)]
<1>1. p \in Passes /\ p.pc = "finish" /\ p.queue # <<>> /\ p.cfg \in Configs /\ Finishes(p)
  BY DEF Observe, SnapshotInv, PassInv
<1>2. p.queue \in Seq(Rungs)
  BY <1>1 DEF Passes
<1>3. /\ r \in Rungs /\ Tail(p.queue) \in Seq(Rungs)
      /\ \A i \in DOMAIN p.queue :
           p.queue[i] # r => \E j \in DOMAIN Tail(p.queue) : Tail(p.queue)[j] = p.queue[i]
  <2> DEFINE s == p.queue
  <2>1. s \in Seq(Rungs) /\ s # <<>>
    BY <1>1, <1>2
  <2> HIDE DEF s
  <2>2. Head(s) \in Rungs /\ Tail(s) \in Seq(Rungs) /\ Head(s) = s[1]
        /\ DOMAIN s = 1 .. Len(s) /\ DOMAIN Tail(s) = 1 .. Len(s) - 1 /\ Len(s) \in Nat
    BY <2>1
  <2>3. ASSUME NEW i \in DOMAIN s, s[i] # s[1]
        PROVE  \E j \in DOMAIN Tail(s) : Tail(s)[j] = s[i]
    <3>1. i \in 1 .. Len(s) /\ i # 1
      BY <2>2, <2>3
    <3>2. i - 1 \in 1 .. Len(s) - 1
      BY <2>2, <3>1
    <3>3. Tail(s)[i - 1] = s[(i - 1) + 1] /\ (i - 1) + 1 = i
      BY <2>1, <2>2, <3>1, <3>2
    <3>4. QED
      BY <2>2, <3>2, <3>3
  <2>4. QED
    BY <2>2, <2>3 DEF s
<1>4. q \in Passes /\ q.pc = "finish" /\ q.cfg = p.cfg /\ q.queue = Tail(p.queue) /\ q.seen = p.seen
  BY <1>1, <1>3 DEF Passes
<1>5. PICK o \in Observed(q, r) : tick' = [tick EXCEPT ![t] = o.p]
  BY DEF Observe
<1>6. Settles(q, r, o.p)
  <2>1. chain \in [Rungs -> Hash]
    BY DEF SnapshotInv
  <2> HIDE DEF q, r
  <2>2. QED
    BY <1>3, <1>4, <2>1, ObservedSettles
<1>7. p.cfg \subseteq Rungs
  BY <1>1, CouriersAssumption
<1> HIDE DEF q, r
<1>8. Finishes(o.p)
  <2>1. ASSUME NEW k \in o.p.cfg
        PROVE  Settled(o.p.seen[k]) \/ \E i \in DOMAIN o.p.queue : o.p.queue[i] = k
    <3>1. k \in p.cfg /\ k \in Rungs /\ o.p.queue = Tail(p.queue)
      BY <1>4, <1>6, <1>7, <2>1 DEF Settles
    <3>2. CASE k = r
      BY <1>6, <3>2 DEF Settles
    <3>3. CASE k # r
      <4>1. o.p.seen[k] = p.seen[k]
        BY <1>4, <1>6, <3>1, <3>3 DEF Settles
      <4>2. CASE Settled(p.seen[k])
        BY <4>1, <4>2
      <4>3. CASE \E i \in DOMAIN p.queue : p.queue[i] = k
        BY <1>3, <3>1, <3>3, <4>3
      <4>4. QED
        BY <1>1, <3>1, <4>2, <4>3 DEF Finishes
    <3>4. QED
      BY <3>2, <3>3
  <2>2. QED
    BY <2>1 DEF Finishes
<1>9. PassInv(o.p)
  BY <1>1, <1>4, <1>6, <1>8 DEF PassInv, Settles
<1>10. clock' = clock /\ chain' = chain /\ config' = config /\ tips' \in Snapshot
  BY DEF Observe, SnapshotInv
<1>11. QED
  BY <1>5, <1>9, <1>10, TickStep

LEMMA BeginStep ==
    ASSUME SnapshotInv, NEW t \in Ticks, Begin(t)
    PROVE  SnapshotInv'
<1> DEFINE s == clock % Cardinality(config)
           p == [Idle EXCEPT !.pc = "tip", !.cfg = config, !.start = s, !.asked = clock,
                             !.queue = Rotation(config, s)]
<1>1. config \in Configs /\ clock \in Nat /\ clock \in 0 .. MaxClock
  BY CouriersAssumption DEF SnapshotInv
<1>2. s \in Nat
  <2>1. IsFiniteSet(config) /\ config # {}
    <3>1. config \in SUBSET Rungs /\ IsFiniteSet(Rungs) /\ config # {}
      BY <1>1, CouriersAssumption
    <3>2. QED
      BY <3>1, FS_Subset
  <2>2. Cardinality(config) \in Nat /\ Cardinality(config) # 0
    BY <2>1, FS_CardinalityType, FS_EmptySet
  <2>3. QED
    BY <1>1, <2>2
<1> HIDE DEF s
<1>3. Rotation(config, s) \in Seq(Rungs) /\ Rotation(config, s) # <<>>
  BY <1>1, <1>2, RotationFacts
<1>4. Idle \in Passes
  BY IdleIsAPass DEF PassInv
<1>5. p \in Passes /\ p.pc = "tip" /\ p.cfg = config /\ p.queue = Rotation(config, s)
  BY <1>1, <1>2, <1>3, <1>4 DEF Passes
<1> HIDE DEF p
<1>6. PassInv(p)
  BY <1>1, <1>3, <1>5 DEF PassInv, Finishes
<1>7. tick' = [tick EXCEPT ![t] = p]
  BY DEF Begin, s, p
<1>8. clock' = clock /\ chain' = chain /\ config' = config /\ tips' \in Snapshot
  BY DEF Begin, SnapshotInv
<1>9. QED
  BY <1>6, <1>7, <1>8, TickStep

LEMMA FinishStep ==
    ASSUME SnapshotInv, NEW t \in Ticks, Finish(t)
    PROVE  SnapshotInv'
<1> DEFINE p == tick[t]
           o == [p EXCEPT !.pc = "finish", !.queue = Ladder[tick[t].cfg]]
<1>1. p \in Passes /\ p.pc = "pass" /\ p.cfg \in Configs
  BY DEF Finish, SnapshotInv, PassInv
<1>2. /\ Ladder[p.cfg] \in Seq(Rungs)
      /\ \A r \in p.cfg : \E i \in 1 .. Len(Ladder[p.cfg]) : Ladder[p.cfg][i] = r
  BY <1>1, LadderFacts
<1>3. o \in Passes /\ o.pc = "finish" /\ o.cfg = p.cfg /\ o.queue = Ladder[p.cfg]
  BY <1>1, <1>2 DEF Passes
<1>4. tick' = [tick EXCEPT ![t] = o]
  BY DEF Finish
<1> HIDE DEF o, p
<1>5. PassInv(o)
  BY <1>1, <1>2, <1>3 DEF PassInv, Finishes
<1>6. clock' = clock /\ chain' = chain /\ config' = config /\ tips' \in Snapshot
  BY DEF Finish, SnapshotInv
<1>7. QED
  BY <1>4, <1>5, <1>6, TickStep

LEMMA FetchStep ==
    ASSUME SnapshotInv, NEW t \in Ticks, Fetch(t)
    PROVE  SnapshotInv'
<1>1. tick[t] \in Passes /\ tick[t].pc = "pass" /\ tick[t].cfg \in Configs
  BY DEF Fetch, SnapshotInv, PassInv
<1>2. PICK o \in Outcomes(tick[t]) : tick' = [tick EXCEPT ![t] = o.p]
  BY DEF Fetch
<1>3. SamePass(tick[t], o.p)
  BY <1>1, OutcomesAreTheSame
<1>4. PassInv(o.p)
  BY <1>1, <1>3 DEF PassInv, Finishes, SamePass
<1>5. clock' = clock /\ chain' = chain /\ config' = config /\ tips' \in Snapshot
  BY DEF Fetch, SnapshotInv
<1>6. QED
  BY <1>2, <1>4, <1>5, TickStep

LEMMA RecordStep ==
    ASSUME SnapshotInv, NEW t \in Ticks, Record(t)
    PROVE  SnapshotInv'
<1>1. tips \in Snapshot /\ PassInv(tick[t]) /\ tick[t].pc = "finish" /\ tick[t].queue = <<>>
  BY DEF Record, SnapshotInv
<1>2. tips' \in Snapshot
  BY <1>1, RecordedFacts DEF Record
<1>3. QED
  BY <1>2, IdleIsAPass, TickStep DEF Record

LEMMA SnapshotInvInit == Init => SnapshotInv
<1> SUFFICES ASSUME Init PROVE SnapshotInv
  OBVIOUS
<1>1. clock \in 0 .. MaxClock /\ chain \in [Rungs -> Hash] /\ config \in Configs
  BY CouriersAssumption DEF Init
<1>2. tips \in Snapshot
  BY DEF Init, Snapshot
<1>3. DOMAIN tick = Ticks /\ \A t \in Ticks : PassInv(tick[t])
  BY IdleIsAPass DEF Init
<1>4. QED
  BY <1>1, <1>2, <1>3 DEF SnapshotInv

LEMMA SnapshotInvStep == SnapshotInv /\ [Next]_vars => SnapshotInv'
<1> SUFFICES ASSUME SnapshotInv, [Next]_vars PROVE SnapshotInv'
  OBVIOUS
<1>1. CASE UNCHANGED vars
  BY <1>1 DEF vars, SnapshotInv
<1>2. CASE Environment
  <2>1. ASSUME NEW r \in Rungs, CourierMoves(r) PROVE SnapshotInv'
    <3>1. Tips \subseteq Hash
      BY CouriersAssumption
    <3>2. chain' \in [Rungs -> Hash]
      BY <2>1, <3>1 DEF CourierMoves, SnapshotInv
    <3>3. QED
      BY <2>1, <3>2 DEF CourierMoves, SnapshotInv
  <2>2. CASE Deploy
    BY <2>2 DEF Deploy, SnapshotInv
  <2>3. CASE CeilingFalls
    BY <2>3 DEF CeilingFalls, SnapshotInv
  <2>4. CASE CeilingRises
    BY <2>4 DEF CeilingRises, SnapshotInv
  <2>5. CASE TimePasses
    <3>1. clock' \in 0 .. MaxClock
      BY <2>5, CouriersAssumption DEF TimePasses, SnapshotInv
    <3>2. QED
      BY <2>5, <3>1 DEF TimePasses, SnapshotInv
  <2>6. QED
    BY <1>2, <2>1, <2>2, <2>3, <2>4, <2>5 DEF Environment
<1>3. ASSUME NEW t \in Ticks, Pass(t) \/ Fetch(t) \/ Cut(t) PROVE SnapshotInv'
  <2>1. CASE Cut(t)
    <3>1. clock' = clock /\ chain' = chain /\ config' = config /\ tips' \in Snapshot
          /\ tick' = [tick EXCEPT ![t] = Idle]
      BY <2>1 DEF Cut, SnapshotInv
    <3>2. QED
      BY <3>1, IdleIsAPass, TickStep
  <2>2. QED
    BY <1>3, <2>1, BeginStep, AskTipStep, FinishStep, ObserveStep, RecordStep, FetchStep DEF Pass
<1>4. QED
  BY <1>1, <1>2, <1>3 DEF Next

LEMMA SnapshotInvariant == Spec => []SnapshotInv
<1>1. QED
  BY SnapshotInvInit, SnapshotInvStep, PTL DEF Spec


-----------------------------------------------------------------------------
(* What the passes promise. *)

\* Only a record changes the snapshot or the splits, and a record is of a pass
\* that has settled all its rungs.
LEMMA OnlyARecordTells ==
    ASSUME [Next]_vars
    PROVE  (tips' = tips /\ splits' = splits) \/ \E t \in Ticks : Record(t)
<1>1. CASE UNCHANGED vars
  BY <1>1 DEF vars
<1>2. CASE Environment
  BY <1>2 DEF Environment, CourierMoves, Deploy, CeilingFalls, CeilingRises, TimePasses
<1>3. ASSUME NEW t \in Ticks, Pass(t) \/ Fetch(t) \/ Cut(t)
      PROVE  (tips' = tips /\ splits' = splits) \/ Record(t)
  BY <1>3 DEF Pass, Begin, AskTip, Finish, Observe, Fetch, Cut
<1>4. QED
  BY <1>1, <1>2, <1>3 DEF Next

\* The snapshot and the splits by a record.
LEMMA RecordTells ==
    ASSUME SnapshotInv, NEW t \in Ticks, Record(t)
    PROVE  /\ tips' \in Snapshot
           /\ splits' = Detected(tips', Pairs(tips'))
           /\ \E c \in Configs : c \subseteq Rungs /\ \A r \in c : tips'[r] # NoRow
           /\ \A r \in Rungs : tips[r] \in Observations /\ tips'[r] \in Observations
                                 => tips'[r].at >= tips[r].at
<1>1. tips \in Snapshot /\ PassInv(tick[t]) /\ tick[t].pc = "finish" /\ tick[t].queue = <<>>
  BY DEF Record, SnapshotInv
<1>2. tips' = Recorded(tick[t]) /\ splits' = Detected(tips', Pairs(tips'))
  BY DEF Record
<1>3. tick[t].cfg \in Configs /\ tick[t].cfg \subseteq Rungs
  BY <1>1, CouriersAssumption DEF PassInv
<1>4. QED
  BY <1>1, <1>2, <1>3, RecordedFacts

\* A rung's recorded tip is never replaced by one asked for earlier, whichever
\* passes overlap, are cut or come late (`record`: the WHERE of its upsert).
THEOREM TipsNeverGoBack == Spec => SnapshotNeverGoesBack
<1>1. ASSUME SnapshotInv, [Next]_vars
      PROVE  [\A r \in Rungs : (tips[r] \in Observations /\ tips'[r] \in Observations)
                                 => tips'[r].at >= tips[r].at]_vars
  <2>1. CASE tips' = tips
    <3>1. \A o \in Observations : o.at \in Nat
      BY ObservationsAreClaims, CouriersAssumption
    <3>2. QED
      BY <2>1, <3>1
  <2>2. CASE \E t \in Ticks : Record(t)
    BY <1>1, <2>2, RecordTells
  <2>3. QED
    BY <1>1, <2>1, <2>2, OnlyARecordTells
<1>2. QED
  BY <1>1, SnapshotInvariant, PTL DEF Spec, SnapshotNeverGoesBack

\* A split that is journaled is one of the network: of two recorded tips that
\* stand SPLIT_DEPTH above the place where their true chains part, for every
\* tree, every hole in the store and every lie about a height
\* (chain_rung_ancestry, chain_rung_pairs, chain_split_detect).
THEOREM SplitsAreReal == Spec => SplitIsReal
<1>1. ASSUME SnapshotInv, [Next]_vars
      PROVE  [\A f \in Hash : splits[f] = "none" /\ splits'[f] # "none" =>
                \E l, r \in Rungs :
                  /\ tips'[l] \in Observations /\ tips'[r] \in Observations
                  /\ TrueFork[tips'[l].hash][tips'[r].hash] = f
                  /\ Height[tips'[l].hash] >= Height[f] + Depth
                  /\ Height[tips'[r].hash] >= Height[f] + Depth]_vars
  <2>1. CASE splits' = splits
    BY <2>1
  <2>2. CASE \E t \in Ticks : Record(t)
    <3>1. tips' \in Snapshot /\ splits' = Detected(tips', Pairs(tips'))
      BY <1>1, <2>2, RecordTells
    <3>2. ASSUME NEW f \in Hash, splits[f] = "none", splits'[f] # "none"
          PROVE  SplitOf(tips', f)
      BY <3>1, <3>2, OpenedIsASplit
    <3>3. QED
      BY <3>2 DEF SplitOf
  <2>3. QED
    BY <1>1, <2>1, <2>2, OnlyARecordTells
<1>2. QED
  BY <1>1, SnapshotInvariant, PTL DEF Spec, SplitIsReal

\* Every ladder a deploy configures has two rungs.
Ladders == \A c \in Configs : \E a, b \in c : a # b

\* A split is resolved only when every configured rung was observed and no two
\* of the recorded tips stand on different sides of it (chain_split_detect).
\* It needs two rungs: the trigger counts pairs, and one rung has none, so its
\* count is full before it was ever observed.
THEOREM ResolvedSplitsAreOver ==
    ASSUME Ladders
    PROVE  Spec => ResolvedIsOver
<1>1. ASSUME SnapshotInv, [Next]_vars
      PROVE  [\A f \in Hash : splits[f] = "open" /\ splits'[f] = "resolved" =>
                \A l, r \in {q \in Rungs : tips'[q] # NoRow} :
                  /\ tips'[l] \in Observations /\ tips'[r] \in Observations
                  /\ TrueFork[tips'[l].hash][tips'[r].hash] = f =>
                       f \in {tips'[l].hash, tips'[r].hash}]_vars
  <2>1. CASE splits' = splits
    BY <2>1
  <2>2. CASE \E t \in Ticks : Record(t)
    <3>1. tips' \in Snapshot /\ splits' = Detected(tips', Pairs(tips'))
      BY <1>1, <2>2, RecordTells
    <3>2. PICK c \in Configs : c \subseteq Rungs /\ \A r \in c : tips'[r] # NoRow
      BY <1>1, <2>2, RecordTells
    <3>3. PICK a \in Rungs, b \in Rungs : a # b /\ tips'[a] # NoRow /\ tips'[b] # NoRow
      BY <3>2 DEF Ladders
    <3>4. ASSUME NEW f \in Hash, splits[f] = "open", splits'[f] = "resolved"
          PROVE  OverAt(tips', f)
      BY <3>1, <3>3, <3>4, ResolvedIsOverAt
    <3>5. QED
      BY <3>4 DEF OverAt
  <2>3. QED
    BY <1>1, <2>1, <2>2, OnlyARecordTells
<1>2. QED
  BY <1>1, SnapshotInvariant, PTL DEF Spec, ResolvedIsOver
=============================================================================
