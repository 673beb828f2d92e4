------------------------- MODULE HeaderStoreProofs -------------------------
(***************************************************************************)
(* Proofs about HeaderStore and its journal, for every finite tree of      *)
(* headers, every weight, checkpoint and bound.  First, with bulk writes   *)
(* cut anywhere and rows active above the tip flag included: no row claims *)
(* more work than its chain has.  Then, with neither (Unbroken): between   *)
(* operations the active rows are the tip's chain and the pending fork     *)
(* covers what changed, the tip gives way to more work only, and the       *)
(* journal says so in rows that decode.                                    *)
(***************************************************************************)
EXTENDS ChainJournal, ProofFacts

(* The tree. *)

LEMMA TreeIsGrounded == Grounded(Header, Genesis, Parent)
BY StoreAssumption DEF Grounded

LEMMA WorkOfAChain ==
    /\ TrueWork \in [Header -> Nat]
    /\ \A h \in Header :
          TrueWork[h] = IF h = Genesis THEN Weight[h] ELSE TrueWork[Parent[h]] + Weight[h]
<1> DEFINE g == [h \in Header |-> [t \in Nat |-> t + Weight[h]]]
           Sums(f) == f = [h \in Header |-> IF h = Genesis THEN Weight[h] ELSE f[Parent[h]] + Weight[h]]
<1>1. Weight \in [Header -> Nat] /\ Genesis \in Header
      /\ (\A h \in Header \ {Genesis} : Parent[h] \in Header)
  BY StoreAssumption
<1>2. Recursion(Header, Genesis, Parent, Nat, Weight[Genesis], g)
  <2>1. g \in [Header -> [Nat -> Nat]] /\ Weight[Genesis] \in Nat
    BY <1>1
  <2>2. QED
    BY <2>1, TreeIsGrounded DEF Recursion
<1>3. PICK f : Follows(f, Header, Genesis, Parent, Nat, Weight[Genesis], g)
  BY <1>2, TreeRecursion
<1>4. f \in [Header -> Nat]
      /\ \A h \in Header : f[h] = IF h = Genesis THEN Weight[Genesis] ELSE g[h][f[Parent[h]]]
  BY <1>3 DEF Follows
<1>5. \A h \in Header : f[h] = IF h = Genesis THEN Weight[h] ELSE f[Parent[h]] + Weight[h]
  BY <1>1, <1>4
<1>6. Sums(f)
  BY <1>4, <1>5
<1>7. Sums(TrueWork)
  BY <1>6 DEF TrueWork
<1>8. ASSUME NEW h \in Header PROVE TrueWork[h] \in Nat
  <2> DEFINE S == {c \in Header : TrueWork[c] \notin Nat}
  <2>1. ASSUME S # {} PROVE FALSE
    <3>1. PICK c \in S : c = Genesis \/ Parent[c] \notin S
      BY <2>1, TreeIsGrounded DEF Grounded
    <3>2. QED
      BY <1>1, <1>7, <3>1
  <2>2. QED
    BY <2>1
<1>9. QED
  BY <1>7, <1>8

LEMMA LineIsAChain ==
    /\ Line \in [Header -> Seq(Header) \ {<<>>}]
    /\ \A h \in Header : Line[h] = IF h = Genesis THEN <<h>> ELSE <<h>> \o Line[Parent[h]]
<1> DEFINE T == Seq(Header) \ {<<>>}
           g == [h \in Header |-> [q \in T |-> <<h>> \o q]]
           Lines(f) == f = [h \in Header |-> IF h = Genesis THEN <<h>> ELSE <<h>> \o f[Parent[h]]]
<1>1. Genesis \in Header /\ (\A h \in Header \ {Genesis} : Parent[h] \in Header)
  BY StoreAssumption
<1>2. ASSUME NEW h \in Header, NEW q \in T PROVE <<h>> \o q \in T /\ <<h>> \in T
  OBVIOUS
<1>3. Recursion(Header, Genesis, Parent, T, <<Genesis>>, g)
  <2>1. g \in [Header -> [T -> T]] /\ <<Genesis>> \in T
    <3> HIDE DEF T
    <3>1. \A h \in Header : [q \in T |-> <<h>> \o q] \in [T -> T]
      BY <1>2
    <3>2. QED
      BY <1>1, <3>1 DEF T
  <2>2. QED
    BY <2>1, TreeIsGrounded DEF Recursion
<1>4. PICK f : Follows(f, Header, Genesis, Parent, T, <<Genesis>>, g)
  BY <1>3, TreeRecursion
<1>5. f \in [Header -> T]
      /\ \A h \in Header : f[h] = IF h = Genesis THEN <<Genesis>> ELSE g[h][f[Parent[h]]]
  BY <1>4 DEF Follows
<1>6. \A h \in Header : f[h] = IF h = Genesis THEN <<h>> ELSE <<h>> \o f[Parent[h]]
  <2> HIDE DEF T
  <2>1. QED
    BY <1>1, <1>5
<1>7. Lines(f)
  <2> HIDE DEF T
  <2>1. QED
    BY <1>5, <1>6
<1>8. Lines(Line)
  BY <1>7 DEF Line
<1>9. ASSUME NEW h \in Header PROVE Line[h] \in T
  <2> DEFINE S == {c \in Header : Line[c] \notin T}
  <2>1. ASSUME S # {} PROVE FALSE
    <3>1. PICK c \in S : c = Genesis \/ Parent[c] \notin S
      BY <2>1, TreeIsGrounded DEF Grounded
    <3>2. c # Genesis => Line[Parent[c]] \in T
      BY <1>1, <3>1
    <3>3. Line[c] = IF c = Genesis THEN <<c>> ELSE <<c>> \o Line[Parent[c]]
      BY <1>8
    <3>4. Line[c] \in T
      <4> HIDE DEF T
      <4>1. QED
        BY <1>1, <1>2, <3>2, <3>3 DEF T
    <3>5. QED
      BY <3>4
  <2>2. QED
    BY <2>1
<1>10. QED
  BY <1>8, <1>9

-----------------------------------------------------------------------------
(* What the operations queue. *)

Run == Seq(Header) \ {<<>>}

LEMMA StepShapes ==
    ASSUME NEW s \in Steps
    PROVE  /\ s.do \in {"insert", "reorg", "relink", "retip"} => s.h \in Header
           /\ s.do \in {"chunk", "canon"} => s.run \in Run
           /\ s.do = "chunk" => s.from \in Nat \ {0}
           /\ s.do = "canon" => s.after \in Seq(Steps)
           /\ s.do = "heal" => s.c \in Header
           /\ s.do = "keep" => s.rows \in SUBSET Header
<1>1. Windows \subseteq Steps
  BY DEF Steps
<1>2. Seq(Windows) \subseteq Seq(Steps)
  BY <1>1
<1>3. QED
  BY <1>2 DEF Steps, Run, Windows

LEMMA StepMakers ==
    /\ \A h \in Header, d \in {"insert", "reorg", "relink", "retip"} : [do |-> d, h |-> h] \in Steps
    /\ \A run \in Run, k \in Nat \ {0} : [do |-> "chunk", run |-> run, from |-> k] \in Steps
    /\ \A run \in Run, q \in Seq(Windows) : [do |-> "canon", run |-> run, after |-> q] \in Steps
    /\ \A d \in {"dedupe", "top", "repair"} : [do |-> d] \in Steps
    /\ \A r \in SUBSET Int : [do |-> "link", span |-> r] \in Steps
    /\ \A r \in SUBSET Int : [do |-> "window", span |-> r] \in Windows
    /\ \A h \in Header : [do |-> "heal", c |-> h] \in Steps
    /\ \A R \in SUBSET Header : [do |-> "keep", rows |-> R] \in Steps
BY DEF Steps, Run, Windows

LEMMA LineFacts ==
    ASSUME NEW h \in Header
    PROVE  /\ Line[h] \in Run /\ Len(Line[h]) \in Nat \ {0} /\ Height[h] \in Nat
           /\ Tail(Line[h]) \in Seq(Header)
BY LineIsAChain DEF Run, Height

\* The first of a sequence, the last of it, and the whole turned round.
LEMMA FirstPiece ==
    ASSUME NEW S, NEW q \in Seq(S), NEW n \in 0 .. Len(q)
    PROVE  SubSeq(q, 1, n) \in Seq(S) /\ Len(SubSeq(q, 1, n)) = n
OBVIOUS

LEMMA LastPiece ==
    ASSUME NEW S, NEW q \in Seq(S), NEW m \in 1 .. Len(q)
    PROVE  SubSeq(q, m, Len(q)) \in Seq(S)
OBVIOUS

LEMMA Turned ==
    ASSUME NEW S, NEW q \in Seq(S)
    PROVE  Reverse(q) \in Seq(S) /\ Len(Reverse(q)) = Len(q)
BY DEF Reverse

\* What is left of todo.

LEMMA WhatIsLeft ==
    ASSUME NEW S, todo \in Seq(S), NEW kinds
    PROVE  GoOnAt(kinds) \in Seq(S) /\ (todo # <<>> => Head(todo) \in S /\ Tail(todo) \in Seq(S))
<1> DEFINE at == {i \in 1 .. Len(todo) : todo[i].do \in kinds}
<1>1. CASE at = {}
  BY <1>1 DEF GoOnAt
<1>2. CASE at # {}
  <2>1. at \in SUBSET Nat
    OBVIOUS
  <2>2. Min(at) \in at
    <3> HIDE DEF at
    <3>1. QED
      BY <1>2, <2>1, MinOfNaturals
  <2>3. SubSeq(todo, Min(at), Len(todo)) \in Seq(S)
    <3>1. Min(at) \in 1 .. Len(todo)
      BY <2>2
    <3> HIDE DEF at
    <3>2. QED
      BY <3>1, LastPiece
  <2>4. QED
    BY <1>2, <2>3 DEF GoOnAt
<1>3. QED
  BY <1>1, <1>2

LEMMA MissingIsARun ==
    ASSUME NEW h \in Header, NEW n \in Nat
    PROVE  Missing(h, n) \in Seq(Header)
<1> DEFINE up == Tail(Line[h])
           gone == {k \in 0 .. Min({n, Len(up)}) : \A i \in 1 .. k : up[i] \notin Stored}
<1>1. up \in Seq(Header) /\ Len(up) \in Nat
  BY LineFacts
<1>2. Min({n, Len(up)}) \in Nat /\ Min({n, Len(up)}) <= Len(up)
  <2> HIDE DEF up
  <2>1. QED
    BY <1>1, MinOfTwo
<1>3. gone \in SUBSET (0 .. Min({n, Len(up)})) /\ 0 \in gone
  BY <1>2
<1>4. Max(gone) \in gone
  <2> HIDE DEF gone, up
  <2>1. QED
    BY <1>2, <1>3, MaxOfBounded
<1>5. Max(gone) \in 0 .. Len(up)
  <2> HIDE DEF gone, up
  <2>1. Max(gone) \in 0 .. Min({n, Len(up)})
    BY <1>3, <1>4
  <2>2. QED
    BY <1>1, <1>2, <2>1
<1>6. SubSeq(up, 1, Max(gone)) \in Seq(Header)
  <2> HIDE DEF gone, up
  <2>1. QED
    BY <1>1, <1>5, FirstPiece
<1>7. Reverse(SubSeq(up, 1, Max(gone))) \in Seq(Header)
  <2> HIDE DEF gone, up
  <2>1. QED
    BY <1>6, Turned
<1>8. QED
  BY <1>7 DEF Missing

LEMMA HealRunIsARun ==
    ASSUME NEW c \in Header
    PROVE  HealRun(c) \in Seq(Header)
<1> DEFINE up == Tail(Line[c])
           off == {k \in 0 .. Len(up) : \A i \in 1 .. k : up[i] \notin active}
<1>1. up \in Seq(Header) /\ Len(up) \in Nat
  BY LineFacts
<1>2. off \in SUBSET (0 .. Len(up)) /\ 0 \in off
  BY <1>1
<1>3. Max(off) \in off
  <2> HIDE DEF off, up
  <2>1. QED
    BY <1>1, <1>2, MaxOfBounded
<1>4. SubSeq(up, 1, Max(off)) \in Seq(Header)
  <2>1. Max(off) \in 0 .. Len(up)
    BY <1>3
  <2> HIDE DEF off, up
  <2>2. QED
    BY <1>1, <2>1, FirstPiece
<1>5. QED
  BY <1>4 DEF HealRun

LEMMA RunsAreRuns == Runs \subseteq Run
<1> SUFFICES ASSUME NEW run \in Runs PROVE run \in Run
  OBVIOUS
<1>1. PICK h \in Header : \E len \in 1 .. Min({MaxRun, Len(Line[h])}) : run = RunTo(h, len)
  BY DEF Runs
<1>2. PICK len \in 1 .. Min({MaxRun, Len(Line[h])}) : run = RunTo(h, len)
  BY <1>1
<1>3. Line[h] \in Seq(Header) /\ Len(Line[h]) \in Nat /\ MaxRun \in Nat
  BY LineFacts, StoreAssumption DEF Run
<1>4. Min({MaxRun, Len(Line[h])}) \in Nat /\ Min({MaxRun, Len(Line[h])}) <= Len(Line[h])
  BY <1>3, MinOfTwo
<1>5. len \in 0 .. Len(Line[h]) /\ len >= 1
  BY <1>3, <1>4
<1>6. SubSeq(Line[h], 1, len) \in Seq(Header) /\ Len(SubSeq(Line[h], 1, len)) = len
  BY <1>3, <1>5, FirstPiece
<1>7. run \in Seq(Header) /\ Len(run) = len
  BY <1>2, <1>6, Turned DEF RunTo
<1>8. QED
  BY <1>5, <1>7 DEF Run

LEMMA BatchesAreSteps ==
    ASSUME NEW run \in Run, NEW q \in Seq(Windows)
    PROVE  Batch(run) \in Seq(Steps) /\ Canon(run, q) \in Seq(Steps)
<1>1. run \in Seq(Header) /\ Len(run) \in Nat /\ ChunkSize \in Nat \ {0}
  BY StoreAssumption DEF Run
<1>2. Inserts(run) \in Seq(Steps)
  <2>1. \A i \in 1 .. Len(run) : Insert(run[i]) \in Steps
    <3>1. \A h \in Header : Insert(h) \in Steps
      BY StepMakers DEF Insert
    <3>2. \A i \in 1 .. Len(run) : run[i] \in Header
      BY <1>1
    <3>3. QED
      BY <3>1, <3>2
  <2>2. QED
    BY <1>1, <2>1 DEF Inserts
<1>3. Chunks(run) \in Seq(Steps)
  <2>1. (Len(run) + ChunkSize - 1) \div ChunkSize \in Nat
    BY <1>1
  <2>2. \A i \in 1 .. ((Len(run) + ChunkSize - 1) \div ChunkSize) :
           [do |-> "chunk", run |-> run, from |-> (i - 1) * ChunkSize + 1] \in Steps
    <3>1. \A i \in Nat \ {0} : (i - 1) * ChunkSize + 1 \in Nat \ {0}
      <4>1. \A a, b \in Nat : a * b \in Nat
        OBVIOUS
      <4>2. QED
        BY <1>1, <4>1
    <3>2. QED
      BY <2>1, <3>1, StepMakers
  <2>3. QED
    BY <2>1, <2>2 DEF Chunks
<1>4. Canon(run, q) \in Seq(Steps)
  BY StepMakers DEF Canon
<1>5. QED
  BY <1>2, <1>3, <1>4 DEF Batch

-----------------------------------------------------------------------------
(* The invariant: no row, stored or not yet, has more than its chain's work. *)

WorkInv ==
    /\ todo \in Seq(Steps)
    /\ rank \in [Header -> Nat]
    /\ active \subseteq Header
    /\ work \in [Header -> Int]
    /\ \A h \in Header : work[h] <= TrueWork[h]

LEMMA WorkOnIsHonest ==
    ASSUME WorkInv, NEW h \in Header
    PROVE  WorkOn(h) \in Int /\ WorkOn(h) <= TrueWork[h]
<1>1. Weight \in [Header -> Nat] /\ (h # Genesis => Parent[h] \in Header)
  BY StoreAssumption
<1>2. TrueWork \in [Header -> Nat]
      /\ TrueWork[h] = IF h = Genesis THEN Weight[h] ELSE TrueWork[Parent[h]] + Weight[h]
  BY WorkOfAChain
<1>3. CASE HasParent(h)
  <2>1. h # Genesis /\ Parent[h] \in Header
    BY <1>1, <1>3 DEF HasParent
  <2>2. work[Parent[h]] \in Int /\ work[Parent[h]] <= TrueWork[Parent[h]]
    BY <2>1 DEF WorkInv
  <2>3. QED
    BY <1>1, <1>2, <1>3, <2>1, <2>2 DEF WorkOn
<1>4. CASE ~HasParent(h)
  <2>1. h # Genesis => TrueWork[Parent[h]] \in Nat
    BY <1>1, <1>2
  <2>2. QED
    BY <1>1, <1>2, <1>4, <2>1 DEF WorkOn
<1>5. QED
  BY <1>3, <1>4

LEMMA NewRankIsNat ==
    ASSUME NEW h PROVE NewRank(h) \in Nat
<1> DEFINE beside == {g \in Stored : Height[g] = Height[h]}
<1>1. IsFiniteSet(beside)
  <2>1. beside \in SUBSET Header
    BY DEF Stored
  <2>2. QED
    BY <2>1, StoreAssumption, FS_Subset
<1>2. Cardinality(beside) \in Nat
  BY <1>1, FS_CardinalityType
<1>3. QED
  BY <1>2 DEF NewRank

LEMMA WritesOfRanks ==
    ASSUME WorkInv, NEW fresh
    PROVE  [h \in Header |-> IF h \in fresh THEN NewRank(h) ELSE rank[h]] \in [Header -> Nat]
BY NewRankIsNat DEF WorkInv

\* A transaction that leaves the ranks and the work alone.
LEMMA QueueAlone ==
    ASSUME WorkInv, rank' = rank, work' = work, active' \subseteq Header, todo' \in Seq(Steps)
    PROVE  WorkInv'
BY DEF WorkInv

\* A transaction that writes work: what it writes is honest.
LEMMA HonestWrites ==
    ASSUME WorkInv, todo' \in Seq(Steps), rank' \in [Header -> Nat], active' \subseteq Header,
           work' \in [Header -> Int],
           \A h \in Header : work'[h] <= TrueWork[h] \/ work'[h] = work[h]
    PROVE  WorkInv'
BY DEF WorkInv

LEMMA HeadStep ==
    ASSUME WorkInv, NEW kind, Do(kind)
    PROVE  /\ Head(todo) \in Steps /\ Head(todo).do = kind
           /\ Tail(todo) \in Seq(Steps)
           /\ \A s \in Steps : <<s>> \o Tail(todo) \in Seq(Steps)
           /\ \A q \in Seq(Steps) : q \o Tail(todo) \in Seq(Steps)
<1>1. Head(todo) \in Steps /\ Head(todo).do = kind /\ Tail(todo) \in Seq(Steps)
  BY DEF WorkInv, Do
<1>2. \A q \in Seq(Steps) : q \o Tail(todo) \in Seq(Steps)
  BY <1>1
<1>3. \A s \in Steps : <<s>> \in Seq(Steps)
  OBVIOUS
<1>4. QED
  BY <1>1, <1>2, <1>3

LEMMA AncestorsAreHeaders ==
    /\ \A h \in Header : Ancestors(h) \subseteq Header
    /\ \A run \in Run : Range(run) \subseteq Header /\ run[1] \in Header /\ Last(run) \in Header
<1>1. \A run \in Run : Range(run) \subseteq Header /\ run[1] \in Header /\ Last(run) \in Header
  BY DEF Run, Range, Last
<1>2. QED
  BY <1>1, LineFacts DEF Ancestors

LEMMA RefuseInv ==
    ASSUME WorkInv, Refuse PROVE WorkInv'
<1>1. todo' \in Seq(Steps)
  BY WhatIsLeft DEF Refuse, WorkInv
<1>2. QED
  BY <1>1, QueueAlone DEF Refuse, rows, WorkInv

LEMMA SkipInv ==
    ASSUME WorkInv, todo # <<>>, Skip PROVE WorkInv'
<1>1. todo' \in Seq(Steps)
  BY WhatIsLeft DEF Skip, WorkInv
<1>2. QED
  BY <1>1, QueueAlone DEF Skip, rows, WorkInv

-----------------------------------------------------------------------------
(* One lemma for each transaction. *)

LEMMA InsertInv ==
    ASSUME WorkInv, InsertHeader PROVE WorkInv'
<1> DEFINE h == Head(todo).h
<1>1. Head(todo) \in Steps /\ Head(todo).do = "insert" /\ Do("insert") /\ Tail(todo) \in Seq(Steps)
      /\ <<[do |-> "reorg", h |-> h]>> \o Tail(todo) \in Seq(Steps)
      /\ h \in Header /\ todo # <<>>
  <2>1. Do("insert")
    BY DEF InsertHeader
  <2>2. Head(todo) \in Steps /\ Head(todo).do = "insert" /\ Tail(todo) \in Seq(Steps)
        /\ \A s \in Steps : <<s>> \o Tail(todo) \in Seq(Steps)
    BY <2>1, HeadStep
  <2>3. h \in Header
    BY <2>2, StepShapes
  <2> HIDE DEF h
  <2>4. [do |-> "reorg", h |-> h] \in Steps
    BY <2>3, StepMakers
  <2>5. QED
    BY <2>1, <2>2, <2>3, <2>4 DEF Do
<1>2. \/ Skip
      \/ Refuse
      \/ /\ rank' = [rank EXCEPT ![h] = NewRank(h)]
         /\ work' = [work EXCEPT ![h] = WorkOn(h)]
         /\ active' \in {active, active \cup {h}}
         /\ todo' \in {Tail(todo), <<[do |-> "reorg", h |-> h]>> \o Tail(todo)}
  BY DEF InsertHeader
<1> HIDE DEF h
<1>3. CASE Skip
  BY <1>1, <1>3, SkipInv
<1>4. CASE Refuse
  BY <1>4, RefuseInv
<1>5. CASE /\ rank' = [rank EXCEPT ![h] = NewRank(h)]
           /\ work' = [work EXCEPT ![h] = WorkOn(h)]
           /\ active' \in {active, active \cup {h}}
           /\ todo' \in {Tail(todo), <<[do |-> "reorg", h |-> h]>> \o Tail(todo)}
  <2>1. WorkOn(h) \in Int /\ WorkOn(h) <= TrueWork[h]
    BY <1>1, WorkOnIsHonest
  <2>2. rank' \in [Header -> Nat]
    BY <1>5, NewRankIsNat DEF WorkInv
  <2>3. work' \in [Header -> Int] /\ \A g \in Header : work'[g] <= TrueWork[g] \/ work'[g] = work[g]
    BY <1>1, <1>5, <2>1 DEF WorkInv
  <2>4. active' \subseteq Header /\ todo' \in Seq(Steps)
    BY <1>1, <1>5 DEF WorkInv
  <2>5. QED
    BY <2>2, <2>3, <2>4, HonestWrites
<1>6. QED
  BY <1>2, <1>3, <1>4, <1>5

LEMMA RelinkInv ==
    ASSUME WorkInv, Relink PROVE WorkInv'
<1> DEFINE h == Head(todo).h
<1>1. todo # <<>> /\ h \in Header /\ <<[do |-> "retip", h |-> h]>> \o Tail(todo) \in Seq(Steps)
  <2>1. Do("relink")
    BY DEF Relink
  <2>2. Head(todo) \in Steps /\ Head(todo).do = "relink"
        /\ \A s \in Steps : <<s>> \o Tail(todo) \in Seq(Steps)
    BY <2>1, HeadStep
  <2>3. h \in Header
    BY <2>2, StepShapes
  <2> HIDE DEF h
  <2>4. [do |-> "retip", h |-> h] \in Steps
    BY <2>3, StepMakers
  <2>5. QED
    BY <2>1, <2>2, <2>3, <2>4 DEF Do
<1>2. \/ Skip
      \/ Refuse
      \/ /\ work' = [work EXCEPT ![h] = WorkOn(h)]
         /\ rank' = rank /\ active' = active
         /\ todo' = <<[do |-> "retip", h |-> h]>> \o Tail(todo)
  BY DEF Relink
<1> HIDE DEF h
<1>3. CASE Skip
  BY <1>1, <1>3, SkipInv
<1>4. CASE Refuse
  BY <1>4, RefuseInv
<1>5. CASE /\ work' = [work EXCEPT ![h] = WorkOn(h)]
           /\ rank' = rank /\ active' = active
           /\ todo' = <<[do |-> "retip", h |-> h]>> \o Tail(todo)
  <2>1. WorkOn(h) \in Int /\ WorkOn(h) <= TrueWork[h]
    BY <1>1, WorkOnIsHonest
  <2>2. work' \in [Header -> Int] /\ \A g \in Header : work'[g] <= TrueWork[g] \/ work'[g] = work[g]
    BY <1>1, <1>5, <2>1 DEF WorkInv
  <2>3. rank' \in [Header -> Nat] /\ active' \subseteq Header /\ todo' \in Seq(Steps)
    BY <1>1, <1>5 DEF WorkInv
  <2>4. QED
    BY <2>2, <2>3, HonestWrites
<1>6. QED
  BY <1>2, <1>3, <1>4, <1>5

LEMMA ReorgInv ==
    ASSUME WorkInv, HandleReorg PROVE WorkInv'
<1> DEFINE h == Head(todo).h
<1>1. Do("reorg") /\ todo # <<>>
  BY DEF HandleReorg, Do
<1>2. Head(todo) \in Steps /\ Head(todo).do = "reorg" /\ Tail(todo) \in Seq(Steps)
  BY <1>1, HeadStep
<1>3. h \in Header
  BY <1>2, StepShapes
<1>4. \/ Refuse
      \/ active' \subseteq active \cup Ancestors(h) /\ rank' = rank /\ work' = work /\ todo' = Tail(todo)
  BY DEF HandleReorg
<1> HIDE DEF h
<1>5. Ancestors(h) \subseteq Header
  BY <1>3, AncestorsAreHeaders
<1>6. ASSUME active' \subseteq active \cup Ancestors(h), rank' = rank, work' = work, todo' = Tail(todo)
      PROVE  WorkInv'
  <2>1. active' \subseteq Header /\ todo' \in Seq(Steps)
    BY <1>2, <1>5, <1>6 DEF WorkInv
  <2>2. QED
    BY <1>6, <2>1, QueueAlone
<1>7. QED
  BY <1>4, <1>6, RefuseInv

LEMMA RetipInv ==
    ASSUME WorkInv, Retip PROVE WorkInv'
<1> DEFINE h == Head(todo).h
<1>1. todo # <<>> /\ h \in Header /\ Tail(todo) \in Seq(Steps)
      /\ <<[do |-> "reorg", h |-> h]>> \o Tail(todo) \in Seq(Steps)
  <2>1. Do("retip")
    BY DEF Retip
  <2>2. Head(todo) \in Steps /\ Head(todo).do = "retip" /\ Tail(todo) \in Seq(Steps)
        /\ \A s \in Steps : <<s>> \o Tail(todo) \in Seq(Steps)
    BY <2>1, HeadStep
  <2>3. h \in Header
    BY <2>2, StepShapes
  <2> HIDE DEF h
  <2>4. [do |-> "reorg", h |-> h] \in Steps
    BY <2>3, StepMakers
  <2>5. QED
    BY <2>1, <2>2, <2>3, <2>4 DEF Do
<1>2. \/ Skip
      \/ /\ rank' = rank /\ work' = work
         /\ active' \in {active, active \cup {h}}
         /\ todo' \in {Tail(todo), <<[do |-> "reorg", h |-> h]>> \o Tail(todo)}
  BY DEF Retip, rows
<1> HIDE DEF h
<1>3. ASSUME rank' = rank, work' = work, active' \in {active, active \cup {h}},
             todo' \in {Tail(todo), <<[do |-> "reorg", h |-> h]>> \o Tail(todo)}
      PROVE  WorkInv'
  <2>1. active' \subseteq Header /\ todo' \in Seq(Steps)
    BY <1>1, <1>3 DEF WorkInv
  <2>2. QED
    BY <1>3, <2>1, QueueAlone
<1>4. QED
  BY <1>1, <1>2, <1>3, SkipInv

\* The sweep, the tip to the highest row, and the links: no row gains work.
LEMMA FlagsInv ==
    ASSUME WorkInv, DedupeHeight \/ TipToHighest \/ LinkSpan PROVE WorkInv'
<1>1. todo # <<>> /\ Tail(todo) \in Seq(Steps)
  BY WhatIsLeft DEF DedupeHeight, TipToHighest, LinkSpan, Do, WorkInv
<1>2. CASE Skip
  BY <1>1, <1>2, SkipInv
<1>3. CASE ~Skip
  <2>1. rank' = rank /\ work' = work /\ active' \subseteq active /\ todo' \in {todo, Tail(todo)}
    BY <1>3 DEF DedupeHeight, TipToHighest, LinkSpan
  <2>2. active' \subseteq Header /\ todo' \in Seq(Steps)
    BY <1>1, <2>1 DEF WorkInv
  <2>3. QED
    BY <2>1, <2>2, QueueAlone
<1>4. QED
  BY <1>2, <1>3

\* The running work of a batch stands on a stored row, or on nothing.
LEMMA RunningWorkIsHonest ==
    ASSUME WorkInv, NEW run \in Run, NEW h \in Header
    PROVE  LET base == IF HasParent(run[1]) THEN work[Parent[run[1]]] ELSE 0
               running == base + TrueWork[h] - (TrueWork[run[1]] - Weight[run[1]])
           IN  running \in Int /\ running <= TrueWork[h]
<1> DEFINE r == run[1]
           base == IF HasParent(r) THEN work[Parent[r]] ELSE 0
<1>1. r \in Header /\ Weight \in [Header -> Nat] /\ TrueWork \in [Header -> Nat]
      /\ (r # Genesis => Parent[r] \in Header)
  BY AncestorsAreHeaders, StoreAssumption, WorkOfAChain
<1>2. TrueWork[r] = IF r = Genesis THEN Weight[r] ELSE TrueWork[Parent[r]] + Weight[r]
  BY <1>1, WorkOfAChain
<1>3. base \in Int /\ base <= TrueWork[r] - Weight[r]
  <2>1. CASE HasParent(r)
    <3>1. r # Genesis /\ Parent[r] \in Header
      BY <1>1, <2>1 DEF HasParent
    <3>2. work[Parent[r]] \in Int /\ work[Parent[r]] <= TrueWork[Parent[r]]
      BY <3>1 DEF WorkInv
    <3> HIDE DEF r
    <3>3. TrueWork[r] - Weight[r] = TrueWork[Parent[r]]
      BY <1>1, <1>2, <3>1
    <3>4. QED
      BY <2>1, <3>2, <3>3
  <2>2. CASE ~HasParent(r)
    <3> HIDE DEF r
    <3>1. TrueWork[r] - Weight[r] \in Nat
      BY <1>1, <1>2
    <3>2. QED
      BY <2>2, <3>1
  <2>3. QED
    BY <2>1, <2>2
<1>4. base + TrueWork[h] - (TrueWork[r] - Weight[r]) \in Int
      /\ base + TrueWork[h] - (TrueWork[r] - Weight[r]) <= TrueWork[h]
  <2> HIDE DEF r, base
  <2>1. TrueWork[h] \in Int /\ TrueWork[r] - Weight[r] \in Int
    BY <1>1
  <2>2. QED
    BY <1>3, <2>1
<1>5. QED
  BY <1>4

LEMMA ChunkInv ==
    ASSUME WorkInv, BatchChunk PROVE WorkInv'
<1> DEFINE run == Head(todo).run
           from == Head(todo).from
           here == {run[i] : i \in from .. Min({Len(run), from + ChunkSize - 1})}
           base == IF HasParent(run[1]) THEN work[Parent[run[1]]] ELSE 0
           running(h) == base + TrueWork[h] - (TrueWork[run[1]] - Weight[run[1]])
           fresh == here \ Stored
           written == fresh \cup {h \in here : ActivatesStored(h)}
<1>1. Do("chunk") /\ todo # <<>>
  BY DEF BatchChunk, Do
<1>2. Head(todo) \in Steps /\ Head(todo).do = "chunk" /\ Tail(todo) \in Seq(Steps)
  BY <1>1, HeadStep
<1>3. run \in Run /\ from \in Nat \ {0}
  BY <1>2, StepShapes
<1>4. /\ rank' = [h \in Header |-> IF h \in fresh THEN NewRank(h) ELSE rank[h]]
      /\ active' = active \cup written
      /\ work' = [h \in Header |-> IF h \in written THEN running(h) ELSE work[h]]
      /\ todo' = Tail(todo)
  BY DEF BatchChunk
<1>5. here \subseteq Header
  <2> HIDE DEF run, from
  <2>1. run \in Seq(Header) /\ Len(run) \in Nat /\ ChunkSize \in Nat \ {0}
    BY <1>3, StoreAssumption DEF Run
  <2>2. from + ChunkSize - 1 \in Nat
    BY <1>3, <2>1
  <2>3. Min({Len(run), from + ChunkSize - 1}) \in Nat
        /\ Min({Len(run), from + ChunkSize - 1}) <= Len(run)
    BY <2>1, <2>2, MinOfTwo
  <2>4. \A i \in from .. Min({Len(run), from + ChunkSize - 1}) : i \in 1 .. Len(run)
    BY <1>3, <2>1, <2>3
  <2>5. \A i \in 1 .. Len(run) : run[i] \in Header
    BY <2>1
  <2>6. QED
    BY <2>4, <2>5
<1>6. \A h \in Header : running(h) \in Int /\ running(h) <= TrueWork[h]
  <2> HIDE DEF run
  <2>1. QED
    BY <1>3, RunningWorkIsHonest
<1>7. rank' \in [Header -> Nat]
  <2> HIDE DEF fresh
  <2>1. QED
    BY <1>4, WritesOfRanks
<1>8. active' \subseteq Header
  <2>1. written \subseteq here
    BY DEF written
  <2> HIDE DEF here, written
  <2>2. QED
    BY <1>4, <1>5, <2>1 DEF WorkInv
<1>9. work' \in [Header -> Int] /\ \A h \in Header : work'[h] <= TrueWork[h] \/ work'[h] = work[h]
  <2> HIDE DEF running, written
  <2>1. QED
    BY <1>4, <1>6 DEF WorkInv
<1>10. QED
  BY <1>2, <1>4, <1>7, <1>8, <1>9, HonestWrites

LEMMA KeepInv ==
    ASSUME WorkInv, KeepProgress PROVE WorkInv'
<1> DEFINE fresh == Head(todo).rows \ Stored
<1>1. Do("keep")
  BY DEF KeepProgress
<1>2. Tail(todo) \in Seq(Steps) /\ GoOnAt({"window"}) \in Seq(Steps)
  BY <1>1, HeadStep, WhatIsLeft DEF WorkInv
<1>3. \/ /\ rank' = [h \in Header |-> IF h \in fresh THEN NewRank(h) ELSE rank[h]]
         /\ work' = [h \in Header |-> IF h \in fresh THEN Weight[h] ELSE work[h]]
         /\ todo' = Tail(todo)
         /\ active' = active
      \/ todo' = GoOnAt({"window"}) /\ rank' = rank /\ work' = work /\ active' = active
  BY DEF KeepProgress, rows
<1> HIDE DEF fresh
<1>4. CASE todo' = GoOnAt({"window"}) /\ rank' = rank /\ work' = work /\ active' = active
  BY <1>2, <1>4, QueueAlone DEF WorkInv
<1>5. CASE /\ rank' = [h \in Header |-> IF h \in fresh THEN NewRank(h) ELSE rank[h]]
           /\ work' = [h \in Header |-> IF h \in fresh THEN Weight[h] ELSE work[h]]
           /\ todo' = Tail(todo)
           /\ active' = active
  <2>1. \A h \in Header : Weight[h] \in Int /\ Weight[h] <= TrueWork[h]
    <3>1. \A h \in Header : Weight[h] \in Nat /\ (h # Genesis => TrueWork[Parent[h]] \in Nat)
      BY StoreAssumption, WorkOfAChain
    <3>2. QED
      BY <3>1, WorkOfAChain
  <2>2. work' \in [Header -> Int] /\ \A h \in Header : work'[h] <= TrueWork[h] \/ work'[h] = work[h]
    BY <1>5, <2>1 DEF WorkInv
  <2>3. rank' \in [Header -> Nat]
    BY <1>5, WritesOfRanks
  <2>4. active' \subseteq Header /\ todo' \in Seq(Steps)
    BY <1>2, <1>5 DEF WorkInv
  <2>5. QED
    BY <2>2, <2>3, <2>4, HonestWrites
<1>6. QED
  BY <1>3, <1>4, <1>5

LEMMA CanonInv ==
    ASSUME WorkInv, Canonicalize PROVE WorkInv'
<1> DEFINE run == Head(todo).run
           after == Head(todo).after
           span == Height[run[1]] .. Height[Last(run)] + 1
           linkTop == <<[do |-> "link", span |-> span], [do |-> "top"]>>
<1>1. Do("canon") /\ todo # <<>>
  BY DEF Canonicalize, Do
<1>2. Head(todo) \in Steps /\ Head(todo).do = "canon" /\ Tail(todo) \in Seq(Steps)
      /\ \A q \in Seq(Steps) : q \o Tail(todo) \in Seq(Steps)
  BY <1>1, HeadStep
<1>3. run \in Run /\ after \in Seq(Steps)
  BY <1>2, StepShapes
<1>4. \/ todo' = linkTop \o Tail(todo) \o after /\ rank' = rank /\ work' = work /\ active' = active
      \/ Skip
      \/ /\ active' = (active \ Rivals(run)) \cup Range(run)
         /\ todo' = Tail(todo) \o after /\ rank' = rank /\ work' = work
  BY DEF Canonicalize, rows
<1>5. linkTop \in Seq(Steps)
  <2>1. span \in SUBSET Int
    <3> HIDE DEF run
    <3>1. Height[run[1]] \in Int /\ Height[Last(run)] + 1 \in Int
      BY <1>3, AncestorsAreHeaders, LineFacts
    <3>2. QED
      BY <3>1
  <2> HIDE DEF span
  <2>2. [do |-> "link", span |-> span] \in Steps /\ [do |-> "top"] \in Steps
    BY <2>1, StepMakers
  <2>3. QED
    BY <2>2
<1> HIDE DEF run, after, linkTop
<1>6. Tail(todo) \o after \in Seq(Steps) /\ linkTop \o Tail(todo) \o after \in Seq(Steps)
  BY <1>2, <1>3, <1>5
<1>7. Range(run) \subseteq Header
  BY <1>3, AncestorsAreHeaders
<1>8. CASE Skip
  BY <1>1, <1>8, SkipInv
<1>9. ASSUME active' \subseteq active \cup Range(run), todo' \in Seq(Steps), rank' = rank, work' = work
      PROVE  WorkInv'
  <2>1. active' \subseteq Header
    BY <1>7, <1>9 DEF WorkInv
  <2>2. QED
    BY <1>9, <2>1, QueueAlone
<1>10. QED
  BY <1>4, <1>6, <1>8, <1>9

\* The repair starts at the lowest row, the oldest of its height.
LEMMA LowestRow ==
    ASSUME WorkInv, NEW U \in SUBSET Header, U # {}
    PROVE  \E h \in U : \A g \in U :
              ~(Height[g] < Height[h] \/ (Height[g] = Height[h] /\ rank[g] < rank[h]))
<1> DEFINE heights == {Height[h] : h \in U}
<1>1. heights \in SUBSET Nat /\ heights # {}
  BY LineFacts
<1>2. PICK k \in heights : \A j \in heights : k <= j
  BY <1>1, LeastExists
<1> DEFINE lowest == {h \in U : Height[h] = k}
           ids == {rank[h] : h \in lowest}
<1>3. ids \in SUBSET Nat /\ ids # {}
  BY <1>2 DEF WorkInv
<1>4. PICK r \in ids : \A j \in ids : r <= j
  BY <1>3, LeastExists
<1>5. PICK h \in lowest : rank[h] = r
  BY <1>4
<1>6. ASSUME NEW g \in U
      PROVE  ~(Height[g] < Height[h] \/ (Height[g] = Height[h] /\ rank[g] < rank[h]))
  <2>1. Height[g] \in Nat /\ Height[h] \in Nat /\ rank[g] \in Nat /\ rank[h] \in Nat
    BY LineFacts DEF WorkInv
  <2>2. Height[h] = k /\ k <= Height[g]
    BY <1>2
  <2>3. Height[g] = k => rank[h] <= rank[g]
    BY <1>4, <1>5
  <2>4. QED
    BY <2>1, <2>2, <2>3
<1>7. QED
  BY <1>6

\* What one transaction of the repair writes: rows of its window, each with the
\* anchor's work and what the chain adds to it.
LEMMA RepairWrites ==
    ASSUME WorkInv, RepairWork
    PROVE  /\ work' = [h \in Header |-> work'[h]]
           /\ \A h \in Header :
                 \/ work'[h] = work[h]
                 \/ /\ h \in active /\ RepairAnchor \in active
                    /\ ~(Height[h] < Height[RepairAnchor])
                    /\ work'[h] = work[RepairAnchor] + TrueWork[h] - TrueWork[RepairAnchor]
           /\ todo' \in {Tail(todo), todo}
           /\ rank' = rank /\ active' = active /\ linked' = linked
           /\ tip' = tip /\ pending' = pending /\ cuts' = cuts
<1> DEFINE wrong == {h \in DOMAIN Expected : tip # None /\ work[h] # Expected[h]}
           lowest == {h \in wrong : Cardinality({g \in wrong : Before(g, h)}) < RepairBatch}
<1>1. /\ work' = [h \in Header |-> IF h \in lowest THEN Expected[h] ELSE work[h]]
      /\ todo' = IF lowest = wrong THEN Tail(todo) ELSE todo
      /\ UNCHANGED <<rank, active, linked, tip, pending, cuts>>
  BY DEF RepairWork
<1>2. lowest \subseteq DOMAIN Expected
  OBVIOUS
<1> HIDE DEF wrong, lowest
<1>3. RepairRows \in SUBSET Header /\ RepairRows \subseteq active
  BY DEF RepairRows, WorkInv
<1>4. ASSUME NEW h \in DOMAIN Expected
      PROVE  /\ h \in RepairRows /\ RepairAnchor \in RepairRows /\ ~Before(h, RepairAnchor)
             /\ Expected[h] = work[RepairAnchor] + TrueWork[h] - TrueWork[RepairAnchor]
  <2>1. h \in RepairRows /\ Expected[h] = work[RepairAnchor] + TrueWork[h] - TrueWork[RepairAnchor]
    BY DEF Expected
  <2>2. \E g \in RepairRows : \A f \in RepairRows : ~Before(f, g)
    BY <1>3, <2>1, LowestRow DEF Before
  <2>3. RepairAnchor \in RepairRows /\ \A f \in RepairRows : ~Before(f, RepairAnchor)
    BY <2>2 DEF RepairAnchor
  <2>4. QED
    BY <2>1, <2>3
<1>5. ASSUME NEW h \in Header, h \in lowest
      PROVE  /\ h \in active /\ RepairAnchor \in active /\ ~(Height[h] < Height[RepairAnchor])
             /\ work'[h] = work[RepairAnchor] + TrueWork[h] - TrueWork[RepairAnchor]
  <2>1. work'[h] = Expected[h]
    BY <1>1, <1>5
  <2>2. QED
    BY <1>2, <1>3, <1>4, <1>5, <2>1 DEF Before
<1>6. QED
  BY <1>1, <1>5

LEMMA RepairInv ==
    ASSUME WorkInv, RepairWork PROVE WorkInv'
<1>1. Tail(todo) \in Seq(Steps) /\ todo \in Seq(Steps)
  BY HeadStep DEF RepairWork, WorkInv
<1>2. rank' \in [Header -> Nat] /\ active' \subseteq Header /\ todo' \in Seq(Steps)
  BY <1>1, RepairWrites DEF WorkInv
<1>3. ASSUME NEW h \in Header PROVE work'[h] \in Int /\ (work'[h] <= TrueWork[h] \/ work'[h] = work[h])
  <2> DEFINE low == RepairAnchor
  <2>1. CASE work'[h] = work[h]
    BY <2>1 DEF WorkInv
  <2>2. CASE low \in active /\ work'[h] = work[low] + TrueWork[h] - TrueWork[low]
    <3>1. low \in Header
      BY <2>2 DEF WorkInv
    <3> HIDE DEF low
    <3>2. TrueWork[h] \in Nat /\ TrueWork[low] \in Nat /\ work[low] \in Int /\ work[low] <= TrueWork[low]
      BY <3>1, WorkOfAChain DEF WorkInv
    <3>3. QED
      BY <2>2, <3>2
  <2>3. QED
    BY <2>1, <2>2, RepairWrites
<1>4. work' \in [Header -> Int]
  BY <1>3, RepairWrites
<1>5. QED
  BY <1>2, <1>3, <1>4, HonestWrites

LEMMA HealBreakInv ==
    ASSUME WorkInv, HealBreak PROVE WorkInv'
<1> DEFINE c == Head(todo).c
           up == HealRun(c)
           run == Reverse(up)
           window == <<[do |-> "window", span |-> LinkWindow]>>
           most == Min({Len(up), MaxActivation})
           read(n) == {up[i] : i \in 1 .. n} \ Stored
           keep(n) == IF read(n) = {} THEN <<>> ELSE <<[do |-> "keep", rows |-> read(n)]>>
<1>1. Do("heal")
  BY DEF HealBreak
<1>2. Head(todo) \in Steps /\ Head(todo).do = "heal" /\ Tail(todo) \in Seq(Steps)
      /\ \A q \in Seq(Steps) : q \o Tail(todo) \in Seq(Steps)
  BY <1>1, HeadStep
<1>3. c \in Header
  BY <1>2, StepShapes
<1>4. up \in Seq(Header) /\ Len(up) \in Nat
  <2> HIDE DEF c
  <2>1. QED
    BY <1>3, HealRunIsARun
<1>5. /\ rank' = rank /\ work' = work /\ active' = active
      /\ \/ todo' = Tail(todo)
         \/ up # <<>> /\ todo' = Batch(run) \o Canon(run, window) \o Tail(todo)
         \/ \E n \in 0 .. most :
               todo' \in {keep(n) \o Tail(todo), keep(n) \o GoOnAt({"window"})}
  BY DEF HealBreak, rows
<1>6. GoOnAt({"window"}) \in Seq(Steps)
  BY WhatIsLeft DEF WorkInv
<1>7. ASSUME up # <<>> PROVE Batch(run) \o Canon(run, window) \o Tail(todo) \in Seq(Steps)
  <2>1. run \in Run
    <3> HIDE DEF up
    <3>1. Len(up) # 0
      BY <1>4, <1>7
    <3>2. run \in Seq(Header) /\ Len(run) = Len(up)
      BY <1>4, Turned
    <3> HIDE DEF run
    <3>3. QED
      BY <3>1, <3>2 DEF Run
  <2>2. window \in Seq(Windows)
    <3>1. LinkWindow \in SUBSET Int
      BY DEF LinkWindow
    <3>2. [do |-> "window", span |-> LinkWindow] \in Windows
      BY <3>1, StepMakers
    <3>3. QED
      BY <3>2
  <2> HIDE DEF run, window
  <2>3. Batch(run) \in Seq(Steps) /\ Canon(run, window) \in Seq(Steps)
    BY <2>1, <2>2, BatchesAreSteps
  <2>4. Batch(run) \o Canon(run, window) \in Seq(Steps)
    BY <2>3
  <2>5. QED
    BY <1>2, <2>4
<1>8. ASSUME NEW n \in 0 .. most PROVE keep(n) \in Seq(Steps)
  <2>1. read(n) \in SUBSET Header
    <3> HIDE DEF up
    <3>1. MaxActivation \in Nat
      BY StoreAssumption
    <3>2. most \in Nat /\ most <= Len(up)
      BY <1>4, <3>1, MinOfTwo
    <3>3. \A i \in 1 .. n : i \in 1 .. Len(up)
      <4> HIDE DEF most
      <4>1. QED
        BY <1>4, <1>8, <3>2
    <3>4. \A i \in 1 .. Len(up) : up[i] \in Header
      BY <1>4
    <3>5. QED
      BY <3>3, <3>4
  <2> HIDE DEF read
  <2>2. [do |-> "keep", rows |-> read(n)] \in Steps
    BY <2>1, StepMakers
  <2>3. QED
    BY <2>2
<1>9. todo' \in Seq(Steps)
  <2> HIDE DEF keep, run, up, most, window
  <2>1. \A n \in 0 .. most : keep(n) \o Tail(todo) \in Seq(Steps)
                             /\ keep(n) \o GoOnAt({"window"}) \in Seq(Steps)
    BY <1>2, <1>6, <1>8
  <2>2. QED
    BY <1>2, <1>5, <1>7, <2>1
<1>10. QED
  BY <1>5, <1>9, QueueAlone DEF WorkInv

-----------------------------------------------------------------------------
(* The operations only queue. *)

LEMMA StartInv ==
    ASSUME WorkInv, NEW steps \in Seq(Steps), Start(steps) PROVE WorkInv'
<1>1. rank' = rank /\ work' = work /\ active' \subseteq Header /\ todo' \in Seq(Steps)
  BY DEF Start, rows, WorkInv
<1>2. QED
  BY <1>1, QueueAlone

LEMMA InsertsAreSteps ==
    ASSUME NEW q \in Seq(Header)
    PROVE  Inserts(q) \in Seq(Steps)
<1>1. \A h \in Header : Insert(h) \in Steps
  BY StepMakers DEF Insert
<1>2. \A i \in 1 .. Len(q) : Insert(q[i]) \in Steps
  BY <1>1
<1>3. QED
  BY <1>2 DEF Inserts

LEMMA LiveInv ==
    ASSUME WorkInv, NEW h \in Header, LiveInsert(h) PROVE WorkInv'
<1> DEFINE walk == Inserts(Missing(h, Backfill)) \o <<[do |-> "relink", h |-> h]>>
<1>1. walk \in Seq(Steps)
  <2>1. Missing(h, Backfill) \in Seq(Header)
    BY MissingIsARun, StoreAssumption
  <2>2. Inserts(Missing(h, Backfill)) \in Seq(Steps)
    BY <2>1, InsertsAreSteps
  <2>3. <<[do |-> "relink", h |-> h]>> \in Seq(Steps)
    <3>1. [do |-> "relink", h |-> h] \in Steps
      BY StepMakers
    <3>2. QED
      BY <3>1
  <2>4. QED
    BY <2>2, <2>3
<1>2. <<Insert(h)>> \in Seq(Steps)
  <2>1. Insert(h) \in Steps
    BY StepMakers DEF Insert
  <2>2. QED
    BY <2>1
<1>3. \/ Start(walk) \/ Start(<<Insert(h)>> \o <<>>) \/ Start(<<Insert(h)>> \o walk)
  BY DEF LiveInsert
<1> HIDE DEF walk
<1>4. <<Insert(h)>> \o <<>> \in Seq(Steps) /\ <<Insert(h)>> \o walk \in Seq(Steps)
  BY <1>1, <1>2
<1>5. QED
  BY <1>1, <1>3, <1>4, StartInv

LEMMA PushInv ==
    ASSUME WorkInv, NEW h \in Header, PushIngest(h) PROVE WorkInv'
<1> DEFINE run == PushRun(h)
<1>1. run \in Run
  <2>1. Missing(h, Backfill) \in Seq(Header)
    BY MissingIsARun, StoreAssumption
  <2>2. ASSUME NEW q \in Seq(Header)
        PROVE  Append(q, h) \in Seq(Header) /\ Append(q, h) # <<>>
    <3>1. Append(q, h) \in Seq(Header) /\ Len(Append(q, h)) = Len(q) + 1
      OBVIOUS
    <3>2. Len(q) \in Nat /\ Len(<<>>) = 0
      OBVIOUS
    <3>3. QED
      BY <3>1, <3>2
  <2>3. QED
    BY <2>1, <2>2 DEF PushRun, Run
<1>2. Start(Batch(run) \o Canon(run, <<>>))
  BY DEF PushIngest
<1> HIDE DEF run
<1>3. Batch(run) \o Canon(run, <<>>) \in Seq(Steps)
  <2>1. <<>> \in Seq(Windows)
    OBVIOUS
  <2>2. Batch(run) \in Seq(Steps) /\ Canon(run, <<>>) \in Seq(Steps)
    BY <1>1, <2>1, BatchesAreSteps
  <2>3. QED
    BY <2>2
<1>4. QED
  BY <1>2, <1>3, StartInv

LEMMA BulkInv ==
    ASSUME WorkInv, NEW run \in Run, BulkWrite(run) \/ BackfillWrite(run) \/ AdminIngest(run)
    PROVE  WorkInv'
<1>1. Batch(run) \in Seq(Steps) /\ Canon(run, <<>>) \in Seq(Steps)
  <2>1. <<>> \in Seq(Windows)
    OBVIOUS
  <2>2. QED
    BY <2>1, BatchesAreSteps
<1>2. Sweep \in Seq(Steps)
  <2>1. [do |-> "dedupe"] \in Steps /\ [do |-> "top"] \in Steps
    BY StepMakers
  <2>2. QED
    BY <2>1 DEF Sweep
<1>3. Batch(run) \o Sweep \in Seq(Steps) /\ Batch(run) \o Canon(run, <<>>) \in Seq(Steps)
  BY <1>1, <1>2
<1>4. Start(Batch(run)) \/ Start(Batch(run) \o Sweep) \/ Start(Batch(run) \o Canon(run, <<>>))
  BY DEF BulkWrite, BackfillWrite, AdminIngest
<1>5. QED
  BY <1>1, <1>3, <1>4, StartInv

LEMMA PassInv ==
    ASSUME WorkInv, CatchUpSweep \/ HealLinks \/ FinishSync PROVE WorkInv'
<1>1. CASE CatchUpSweep \/ FinishSync
  <2>1. [do |-> "dedupe"] \in Steps /\ [do |-> "top"] \in Steps /\ [do |-> "repair"] \in Steps
    BY StepMakers
  <2>2. Sweep \in Seq(Steps) /\ <<[do |-> "repair"]>> \in Seq(Steps)
    BY <2>1 DEF Sweep
  <2>3. QED
    BY <1>1, <2>2, StartInv DEF CatchUpSweep, FinishSync
<1>2. CASE HealLinks
  <2>1. PICK breaks \in SetToSeqs(BrokenChildren) :
           Start([i \in DOMAIN breaks |-> [do |-> "heal", c |-> breaks[i]]])
    BY <1>2 DEF HealLinks
  <2>2. BrokenChildren \subseteq Header
    BY DEF BrokenChildren, WorkInv
  <2>3. breaks \in [1 .. Cardinality(BrokenChildren) -> BrokenChildren]
    BY <2>1 DEF SetToSeqs
  <2>4. Cardinality(BrokenChildren) \in Nat
    BY <2>2, StoreAssumption, FS_Subset, FS_CardinalityType
  <2>5. \A i \in DOMAIN breaks : [do |-> "heal", c |-> breaks[i]] \in Steps
    BY <2>2, <2>3, StepMakers
  <2>6. [i \in DOMAIN breaks |-> [do |-> "heal", c |-> breaks[i]]] \in Seq(Steps)
    BY <2>3, <2>4, <2>5
  <2>7. QED
    BY <2>1, <2>6, StartInv
<1>3. QED
  BY <1>1, <1>2

-----------------------------------------------------------------------------

LEMMA WorkInvInit == Init => WorkInv
<1> SUFFICES ASSUME Init PROVE WorkInv
  OBVIOUS
<1>1. \A h \in Header : Weight[h] \in Nat /\ TrueWork[h] \in Nat /\ Weight[h] <= TrueWork[h]
  <2>1. \A h \in Header : Weight[h] \in Nat /\ (h # Genesis => TrueWork[Parent[h]] \in Nat)
    BY StoreAssumption, WorkOfAChain
  <2>2. QED
    BY <2>1, WorkOfAChain
<1>2. work \in [Header -> Int] /\ \A h \in Header : work[h] <= TrueWork[h]
  BY <1>1 DEF Init
<1>3. rank \in [Header -> Nat] /\ active \subseteq Header /\ todo \in Seq(Steps)
  BY StoreAssumption DEF Init
<1>4. QED
  BY <1>2, <1>3 DEF WorkInv

LEMMA WorkInvStep == WorkInv /\ [Next]_vars => WorkInv'
<1> SUFFICES ASSUME WorkInv, [Next]_vars PROVE WorkInv'
  OBVIOUS
<1>1. CASE Transaction
  BY <1>1, InsertInv, ReorgInv, RelinkInv, RetipInv, ChunkInv, FlagsInv, CanonInv, HealBreakInv,
     KeepInv, RepairInv DEF Transaction
<1>2. CASE Operation
  <2>1. CASE \E h \in Header \ {Genesis} : LiveInsert(h) \/ PushIngest(h)
    BY <2>1, LiveInv, PushInv
  <2>2. CASE \E run \in Runs : BulkWrite(run) \/ BackfillWrite(run) \/ AdminIngest(run)
    BY <2>2, RunsAreRuns, BulkInv
  <2>3. QED
    BY <1>2, <2>1, <2>2, PassInv DEF Operation
<1>3. CASE Cut \/ ForkHeard \/ UNCHANGED vars
  <2>1. rank' = rank /\ work' = work /\ active' = active /\ todo' \in {todo, <<>>}
    BY <1>3 DEF Cut, ForkHeard, vars, rows
  <2>2. <<>> \in Seq(Steps) /\ todo \in Seq(Steps) /\ active \subseteq Header
    BY DEF WorkInv
  <2>3. active' \subseteq Header /\ todo' \in Seq(Steps)
    BY <2>1, <2>2
  <2>4. QED
    BY <2>1, <2>3, QueueAlone
<1>4. QED
  BY <1>1, <1>2, <1>3 DEF Next

\* A row's chain_work is never more than the work of its chain, whatever was
\* inserted, relinked, written in bulk and cut, kept by the heal or repaired,
\* so is_more_work never gives the tip to a branch for work it does not have.
THEOREM WorkNeverOverstated == Spec => []WorkIsNeverOverstated
<1>1. WorkInv => WorkIsNeverOverstated
  BY DEF WorkInv, WorkIsNeverOverstated, Stored
<1>2. QED
  BY <1>1, WorkInvInit, WorkInvStep, PTL DEF Spec

-----------------------------------------------------------------------------
(* Chains: a header, the headers below it, and how two of them stand.       *)

LEMMA Kinship ==
    /\ Genesis \in Header /\ Ancestors(Genesis) = {Genesis}
    /\ \A h \in Header : h \in Ancestors(h) /\ Ancestors(h) \subseteq Header
    /\ \A h \in Header \ {Genesis} :
          Parent[h] \in Header /\ Ancestors(h) = {h} \cup Ancestors(Parent[h])
    /\ Height \in [Header -> Nat]
    /\ \A h \in Header \ {Genesis} : Height[h] = Height[Parent[h]] + 1
<1>1. Genesis \in Header /\ \A h \in Header \ {Genesis} : Parent[h] \in Header
  BY StoreAssumption
<1>2. ASSUME NEW h \in Header
      PROVE  /\ Line[h] \in Seq(Header) /\ Line[h] # <<>>
             /\ Line[h] = IF h = Genesis THEN <<h>> ELSE <<h>> \o Line[Parent[h]]
  BY LineIsAChain
<1>3. Ancestors(Genesis) = {Genesis}
  <2>1. Line[Genesis] = <<Genesis>>
    BY <1>1, <1>2
  <2>2. QED
    BY <2>1 DEF Ancestors, Range
<1>4. ASSUME NEW S, NEW q \in Seq(S), NEW x
      PROVE  Range(<<x>> \o q) = {x} \cup Range(q) /\ Len(<<x>> \o q) = Len(q) + 1
  <2> DEFINE p == <<x>> \o q
  <2>1. DOMAIN p = 1 .. Len(q) + 1 /\ p[1] = x /\ (\A i \in 2 .. Len(q) + 1 : p[i] = q[i - 1])
        /\ DOMAIN q = 1 .. Len(q) /\ Len(q) \in Nat /\ Len(p) = Len(q) + 1
    OBVIOUS
  <2> HIDE DEF p
  <2>2. Range(p) \subseteq {x} \cup Range(q)
    BY <2>1 DEF Range
  <2>3. x \in Range(p)
    BY <2>1 DEF Range
  <2>4. ASSUME NEW y \in Range(q) PROVE y \in Range(p)
    <3>1. PICK i \in 1 .. Len(q) : q[i] = y
      BY <2>1 DEF Range
    <3>2. i + 1 \in 2 .. Len(q) + 1 /\ p[i + 1] = y
      BY <2>1, <3>1
    <3>3. QED
      BY <2>1, <3>2 DEF Range
  <2>5. QED
    BY <2>1, <2>2, <2>3, <2>4 DEF p
<1>5. ASSUME NEW h \in Header \ {Genesis}
      PROVE  Ancestors(h) = {h} \cup Ancestors(Parent[h]) /\ Height[h] = Height[Parent[h]] + 1
  <2>1. Line[h] = <<h>> \o Line[Parent[h]] /\ Line[Parent[h]] \in Seq(Header) /\ Parent[h] \in Header
    BY <1>1, <1>2
  <2>2. Len(Line[Parent[h]]) \in Nat
    BY <2>1
  <2>3. QED
    BY <1>4, <2>1, <2>2 DEF Ancestors, Height
<1>6. ASSUME NEW h \in Header PROVE h \in Ancestors(h)
  BY <1>3, <1>5
<1>7. Height \in [Header -> Nat]
  <2>1. \A h \in Header : Len(Line[h]) - 1 \in Nat
    BY LineFacts
  <2>2. QED
    BY <2>1 DEF Height
<1>8. QED
  BY <1>1, <1>3, <1>5, <1>6, <1>7, AncestorsAreHeaders

\* An ancestor stands lower than its descendant, and brings its own along.
LEMMA Descent ==
    \A h \in Header : \A g \in Ancestors(h) :
        /\ g \in Header /\ Height[g] <= Height[h]
        /\ Height[g] = Height[h] => g = h
        /\ Ancestors(g) \subseteq Ancestors(h)
<1> DEFINE Fine(h) == \A g \in Ancestors(h) : /\ g \in Header /\ Height[g] <= Height[h]
                                              /\ Height[g] = Height[h] => g = h
                                              /\ Ancestors(g) \subseteq Ancestors(h)
           S == {h \in Header : ~Fine(h)}
<1>1. ASSUME S # {} PROVE FALSE
  <2>1. PICK h \in S : h = Genesis \/ Parent[h] \notin S
    BY <1>1, TreeIsGrounded DEF Grounded
  <2>2. CASE h = Genesis
    BY <2>1, <2>2, Kinship
  <2>3. CASE h # Genesis
    <3>1. Parent[h] \in Header /\ Fine(Parent[h]) /\ Ancestors(h) = {h} \cup Ancestors(Parent[h])
          /\ Height[h] = Height[Parent[h]] + 1 /\ h \in Header
      BY <2>1, <2>3, Kinship
    <3>2. Height[h] \in Nat /\ \A g \in Header : Height[g] \in Nat
      BY <3>1, Kinship
    <3>3. Fine(h)
      BY <3>1, <3>2
    <3>4. QED
      BY <2>1, <3>3
  <2>4. QED
    BY <2>2, <2>3
<1>2. QED
  BY <1>1

\* Of two ancestors of one header the lower is an ancestor of the higher.
LEMMA Linear ==
    \A h \in Header : \A a, b \in Ancestors(h) : Height[a] <= Height[b] => a \in Ancestors(b)
<1> DEFINE Fine(h) == \A a, b \in Ancestors(h) : Height[a] <= Height[b] => a \in Ancestors(b)
           S == {h \in Header : ~Fine(h)}
<1>1. ASSUME S # {} PROVE FALSE
  <2>1. PICK h \in S : h = Genesis \/ Parent[h] \notin S
    BY <1>1, TreeIsGrounded DEF Grounded
  <2>2. CASE h = Genesis
    BY <2>1, <2>2, Kinship
  <2>3. CASE h # Genesis
    <3>1. Parent[h] \in Header /\ Fine(Parent[h]) /\ Ancestors(h) = {h} \cup Ancestors(Parent[h]) /\ h \in Header
      BY <2>1, <2>3, Kinship
    <3>2. ASSUME NEW a \in Ancestors(h), NEW b \in Ancestors(h), Height[a] <= Height[b]
          PROVE  a \in Ancestors(b)
      <4>1. CASE b = h
        BY <4>1
      <4>2. CASE b # h
        <5>1. b \in Ancestors(Parent[h])
          BY <3>1, <4>2
        <5>2. a # h
          <6>1. Height[b] <= Height[Parent[h]] /\ Height[h] = Height[Parent[h]] + 1 /\ b \in Header
            BY <2>3, <3>1, <5>1, Kinship, Descent
          <6>2. Height[b] \in Nat /\ Height[h] \in Nat /\ Height[Parent[h]] \in Nat
            BY <3>1, <6>1, Kinship
          <6>3. QED
            BY <3>2, <6>1, <6>2
        <5>3. QED
          BY <3>1, <3>2, <5>1, <5>2
      <4>3. QED
        BY <4>1, <4>2
    <3>3. QED
      BY <2>1, <3>2
  <2>4. QED
    BY <2>2, <2>3
<1>2. QED
  BY <1>1

\* A chain has a header at every height.
LEMMA EveryHeight ==
    \A h \in Header : \A k \in 0 .. Height[h] : \E g \in Ancestors(h) : Height[g] = k
<1> DEFINE Fine(h) == \A k \in 0 .. Height[h] : \E g \in Ancestors(h) : Height[g] = k
           S == {h \in Header : ~Fine(h)}
<1>1. ASSUME S # {} PROVE FALSE
  <2>1. PICK h \in S : h = Genesis \/ Parent[h] \notin S
    BY <1>1, TreeIsGrounded DEF Grounded
  <2>2. CASE h = Genesis
    <3>1. Height[Genesis] = 0
      <4>1. Len(<<Genesis>>) - 1 = 0
        OBVIOUS
      <4>2. QED
        BY <4>1, LineIsAChain, Kinship DEF Height
    <3>2. QED
      BY <2>1, <2>2, <3>1, Kinship
  <2>3. CASE h # Genesis
    <3>1. Parent[h] \in Header /\ Fine(Parent[h]) /\ Ancestors(h) = {h} \cup Ancestors(Parent[h])
          /\ Height[h] = Height[Parent[h]] + 1 /\ h \in Header
          /\ Height[h] \in Nat /\ Height[Parent[h]] \in Nat
      BY <2>1, <2>3, Kinship
    <3>2. ASSUME NEW k \in 0 .. Height[h] PROVE \E g \in Ancestors(h) : Height[g] = k
      <4>1. CASE k = Height[h]
        BY <3>1, <4>1
      <4>2. CASE k # Height[h]
        <5>1. k \in 0 .. Height[Parent[h]]
          BY <3>1, <4>2
        <5>2. PICK g \in Ancestors(Parent[h]) : Height[g] = k
          BY <3>1, <5>1
        <5>3. QED
          BY <3>1, <5>2
      <4>3. QED
        BY <4>1, <4>2
    <3>3. QED
      BY <2>1, <3>2
  <2>4. QED
    BY <2>2, <2>3
<1>2. QED
  BY <1>1

\* The work of a chain grows along it.
LEMMA WorkGrows ==
    \A h \in Header : \A g \in Ancestors(h) : TrueWork[g] <= TrueWork[h]
<1> DEFINE Fine(h) == \A g \in Ancestors(h) : TrueWork[g] <= TrueWork[h]
           S == {h \in Header : ~Fine(h)}
<1>1. ASSUME S # {} PROVE FALSE
  <2>1. PICK h \in S : h = Genesis \/ Parent[h] \notin S
    BY <1>1, TreeIsGrounded DEF Grounded
  <2>2. \A c \in Header : TrueWork[c] \in Nat /\ Weight[c] \in Nat
    BY WorkOfAChain, StoreAssumption
  <2>3. CASE h = Genesis
    BY <2>1, <2>2, <2>3, Kinship
  <2>4. CASE h # Genesis
    <3>1. Parent[h] \in Header /\ Fine(Parent[h]) /\ Ancestors(h) = {h} \cup Ancestors(Parent[h]) /\ h \in Header
      BY <2>1, <2>4, Kinship
    <3>2. TrueWork[h] = TrueWork[Parent[h]] + Weight[h]
      BY <2>4, <3>1, WorkOfAChain
    <3>3. \A g \in Ancestors(Parent[h]) : g \in Header
      BY <3>1, Descent
    <3>4. Fine(h)
      BY <2>2, <3>1, <3>2, <3>3
    <3>5. QED
      BY <2>1, <3>4
  <2>5. QED
    BY <2>3, <2>4
<1>2. QED
  BY <1>1

\* A run in which every header names the one before it.
Chain(R) == \A i \in 2 .. Len(R) : R[i] # Genesis /\ Parent[R[i]] = R[i - 1]

LEMMA LineSteps ==
    \A h \in Header :
        /\ Line[h][1] = h
        /\ \A i \in 1 .. Len(Line[h]) - 1 : /\ Line[h][i] \in Header \ {Genesis}
                                            /\ Line[h][i + 1] = Parent[Line[h][i]]
<1> DEFINE Fine(h) == /\ Line[h][1] = h
                      /\ \A i \in 1 .. Len(Line[h]) - 1 : /\ Line[h][i] \in Header \ {Genesis}
                                                          /\ Line[h][i + 1] = Parent[Line[h][i]]
           S == {h \in Header : ~Fine(h)}
<1>1. ASSUME S # {} PROVE FALSE
  <2>1. PICK h \in S : h = Genesis \/ Parent[h] \notin S
    BY <1>1, TreeIsGrounded DEF Grounded
  <2>2. CASE h = Genesis
    <3>1. Line[h] = <<h>>
      BY <2>1, <2>2, LineIsAChain
    <3>2. Len(<<h>>) = 1 /\ <<h>>[1] = h
      OBVIOUS
    <3>3. Fine(h)
      BY <3>1, <3>2
    <3>4. QED
      BY <2>1, <3>3
  <2>3. CASE h # Genesis
    <3> DEFINE q == Line[Parent[h]]
               p == Line[h]
    <3>1. h \in Header \ {Genesis} /\ Parent[h] \in Header /\ Fine(Parent[h])
      BY <2>1, <2>3, StoreAssumption
    <3>2. q \in Seq(Header) /\ Len(q) \in Nat \ {0} /\ p = <<h>> \o q
      BY <3>1, LineIsAChain, LineFacts
    <3> HIDE DEF q, p
    <3>3. Len(p) = Len(q) + 1 /\ p[1] = h /\ \A i \in 2 .. Len(q) + 1 : p[i] = q[i - 1]
      BY <3>2
    <3>4. q[1] = Parent[h]
          /\ \A i \in 1 .. Len(q) - 1 : q[i] \in Header \ {Genesis} /\ q[i + 1] = Parent[q[i]]
      BY <3>1 DEF q
    <3>5. ASSUME NEW i \in 1 .. Len(p) - 1
          PROVE  p[i] \in Header \ {Genesis} /\ p[i + 1] = Parent[p[i]]
      <4>1. CASE i = 1
        BY <3>1, <3>2, <3>3, <3>4, <4>1
      <4>2. CASE i # 1
        <5>1. i - 1 \in 1 .. Len(q) - 1 /\ p[i] = q[i - 1] /\ p[i + 1] = q[(i - 1) + 1]
          BY <3>2, <3>3, <4>2
        <5>2. QED
          BY <3>4, <5>1
      <4>3. QED
        BY <4>1, <4>2
    <3>6. Fine(h)
      BY <3>3, <3>5 DEF p
    <3>7. QED
      BY <2>1, <3>6
  <2>4. QED
    BY <2>2, <2>3
<1>2. QED
  BY <1>1

\* A run that reads a line from its n-th header back to the first is a chain.
LEMMA LineBackwards ==
    ASSUME NEW h \in Header, NEW n \in 1 .. Len(Line[h]), NEW R \in Seq(Header),
           Len(R) = n, \A i \in 1 .. n : R[i] = Line[h][n + 1 - i]
    PROVE  R \in Run /\ Chain(R) /\ Last(R) = h
<1>1. Len(Line[h]) \in Nat /\ n \in Nat /\ n >= 1
  BY LineFacts
<1>2. R # <<>>
  <2>1. Len(<<>>) = 0
    OBVIOUS
  <2>2. QED
    BY <1>1, <2>1
<1>3. Last(R) = h
  <2>1. n \in 1 .. n /\ n + 1 - n = 1
    BY <1>1
  <2>2. R[n] = Line[h][1]
    BY <2>1
  <2>3. QED
    BY <2>2, LineSteps DEF Last
<1>4. ASSUME NEW i \in 2 .. n PROVE R[i] # Genesis /\ Parent[R[i]] = R[i - 1]
  <2>1. n + 1 - i \in 1 .. Len(Line[h]) - 1 /\ i \in 1 .. n /\ i - 1 \in 1 .. n
        /\ n + 1 - (i - 1) = (n + 1 - i) + 1
    BY <1>1
  <2>2. R[i] = Line[h][n + 1 - i] /\ R[i - 1] = Line[h][(n + 1 - i) + 1]
    BY <2>1
  <2>3. QED
    BY <2>1, <2>2, LineSteps
<1>5. QED
  BY <1>2, <1>3, <1>4 DEF Run, Chain

LEMMA RunsAreChains == \A run \in Runs : run \in Run /\ Chain(run)
<1> SUFFICES ASSUME NEW run \in Runs PROVE run \in Run /\ Chain(run)
  OBVIOUS
<1>1. PICK h \in Header : \E len \in 1 .. Min({MaxRun, Len(Line[h])}) : run = RunTo(h, len)
  BY DEF Runs
<1>2. PICK n \in 1 .. Min({MaxRun, Len(Line[h])}) : run = RunTo(h, n)
  BY <1>1
<1>3. Line[h] \in Seq(Header) /\ Len(Line[h]) \in Nat /\ MaxRun \in Nat
  BY LineFacts, StoreAssumption DEF Run
<1>4. Min({MaxRun, Len(Line[h])}) \in Nat /\ Min({MaxRun, Len(Line[h])}) <= Len(Line[h])
  BY <1>3, MinOfTwo
<1>5. n \in 1 .. Len(Line[h])
  BY <1>3, <1>4
<1> DEFINE q == SubSeq(Line[h], 1, n)
<1>6. q \in Seq(Header) /\ Len(q) = n /\ \A i \in 1 .. n : q[i] = Line[h][i]
  BY <1>3, <1>5
<1>7. run = Reverse(q)
  BY <1>2 DEF RunTo
<1> HIDE DEF q
<1>8. run \in Seq(Header) /\ Len(run) = n
  BY <1>6, <1>7, Turned
<1>9. \A i \in 1 .. n : run[i] = Line[h][n + 1 - i]
  <2>1. ASSUME NEW i \in 1 .. n PROVE run[i] = Line[h][n + 1 - i]
    <3>1. n + 1 - i \in 1 .. n /\ n - i + 1 = n + 1 - i
      BY <1>5
    <3>2. run[i] = q[n - i + 1]
      BY <1>6, <1>7 DEF Reverse
    <3>3. QED
      BY <1>6, <3>1, <3>2
  <2>2. QED
    BY <2>1
<1>10. QED
  BY <1>5, <1>8, <1>9, LineBackwards

\* What a push hands over is a chain that ends in the pushed header.
LEMMA PushRunIsAChain ==
    ASSUME NEW h \in Header
    PROVE  PushRun(h) \in Run /\ Chain(PushRun(h)) /\ Last(PushRun(h)) = h
<1> DEFINE up == Tail(Line[h])
           gone == {k \in 0 .. Min({Backfill, Len(up)}) : \A i \in 1 .. k : up[i] \notin Stored}
           m == Max(gone)
           back == SubSeq(up, 1, m)
           R == Append(Reverse(back), h)
<1>1. Line[h] \in Seq(Header) /\ Len(Line[h]) \in Nat \ {0} /\ Backfill \in Nat
  BY LineFacts, StoreAssumption DEF Run
<1>2. up \in Seq(Header) /\ Len(up) = Len(Line[h]) - 1 /\ Len(up) \in Nat
      /\ \A i \in 1 .. Len(up) : up[i] = Line[h][i + 1]
  BY <1>1
<1>3. Min({Backfill, Len(up)}) \in Nat /\ Min({Backfill, Len(up)}) <= Len(up)
  <2> HIDE DEF up
  <2>1. QED
    BY <1>1, <1>2, MinOfTwo
<1>4. gone \in SUBSET (0 .. Min({Backfill, Len(up)})) /\ 0 \in gone
  BY <1>3
<1>5. m \in gone
  <2> HIDE DEF gone, up
  <2>1. QED
    BY <1>3, <1>4, MaxOfBounded
<1>6. m \in 0 .. Len(up)
  <2> HIDE DEF gone, up, m
  <2>1. m \in 0 .. Min({Backfill, Len(up)})
    BY <1>4, <1>5
  <2>2. QED
    BY <1>2, <1>3, <2>1
<1>7. back \in Seq(Header) /\ Len(back) = m /\ \A i \in 1 .. m : back[i] = up[i]
  <2> HIDE DEF gone, up, m
  <2>1. QED
    BY <1>2, <1>6
<1>8. Reverse(back) \in Seq(Header) /\ Len(Reverse(back)) = m
      /\ \A i \in 1 .. m : Reverse(back)[i] = back[m - i + 1]
  <2> HIDE DEF back, m
  <2>1. Reverse(back) \in Seq(Header) /\ Len(Reverse(back)) = m
    BY <1>7, Turned
  <2>2. QED
    BY <1>7, <2>1 DEF Reverse
<1>9. R \in Seq(Header) /\ Len(R) = m + 1 /\ R[m + 1] = h
      /\ \A i \in 1 .. m : R[i] = Reverse(back)[i]
  <2> HIDE DEF back, m
  <2>1. m \in Nat
    BY <1>2, <1>6
  <2>2. QED
    BY <1>8, <2>1
<1>10. m + 1 \in 1 .. Len(Line[h])
  <2> HIDE DEF m, up
  <2>1. QED
    BY <1>1, <1>2, <1>6
<1>11. ASSUME NEW i \in 1 .. m + 1 PROVE R[i] = Line[h][(m + 1) + 1 - i]
  <2> HIDE DEF m, R, back, up
  <2>1. CASE i = m + 1
    <3>1. (m + 1) + 1 - i = 1
      BY <1>2, <1>6, <2>1
    <3>2. QED
      BY <1>9, <2>1, <3>1, LineSteps
  <2>2. CASE i # m + 1
    <3>1. i \in 1 .. m /\ m - i + 1 \in 1 .. m /\ m - i + 1 \in 1 .. Len(up)
          /\ (m + 1) + 1 - i = (m - i + 1) + 1
      BY <1>2, <1>6, <2>2
    <3>2. R[i] = up[m - i + 1]
      BY <1>7, <1>8, <1>9, <3>1
    <3>3. QED
      BY <1>2, <3>1, <3>2
  <2>3. QED
    BY <2>1, <2>2
<1>12. PushRun(h) = R
  BY DEF PushRun, Missing
<1> HIDE DEF R, m
<1>13. QED
  BY <1>9, <1>10, <1>11, <1>12, LineBackwards

\* The members of a chain: each is an ancestor of the later ones, and what is
\* below a member is an earlier one or is below the whole.
LEMMA ChainMembers ==
    ASSUME NEW R \in Run, Chain(R)
    PROVE  \A j \in 1 .. Len(R) :
              /\ R[j] \in Header /\ Height[R[j]] = Height[R[1]] + j - 1
              /\ \A i \in 1 .. j : R[i] \in Ancestors(R[j])
              /\ \A g \in Ancestors(R[j]) :
                    \/ \E i \in 1 .. j : g = R[i]
                    \/ R[1] # Genesis /\ g \in Ancestors(Parent[R[1]])
<1>1. R \in Seq(Header) /\ Len(R) \in Nat /\ \A i \in 1 .. Len(R) : R[i] \in Header
  BY DEF Run
<1> DEFINE Fine(j) == /\ Height[R[j]] = Height[R[1]] + j - 1
                      /\ \A i \in 1 .. j : R[i] \in Ancestors(R[j])
                      /\ \A g \in Ancestors(R[j]) :
                            \/ \E i \in 1 .. j : g = R[i]
                            \/ R[1] # Genesis /\ g \in Ancestors(Parent[R[1]])
           Bad == {j \in 1 .. Len(R) : ~Fine(j)}
<1>2. ASSUME Bad # {} PROVE FALSE
  <2>1. Bad \in SUBSET Nat
    BY <1>1
  <2>2. PICK j \in Bad : \A k \in Bad : j <= k
    BY <1>2, <2>1, LeastExists
  <2>3. j \in 1 .. Len(R) /\ j \in Nat /\ R[j] \in Header
    BY <1>1, <2>2
  <2>4. CASE j = 1
    <3>1. Fine(1)
      <4>1. Height[R[1]] \in Nat /\ R[1] \in Ancestors(R[1]) /\ R[1] \in Header
        BY <2>3, <2>4, Kinship
      <4>2. R[1] # Genesis => Ancestors(R[1]) = {R[1]} \cup Ancestors(Parent[R[1]])
        BY <4>1, Kinship
      <4>3. R[1] = Genesis => Ancestors(R[1]) = {R[1]}
        BY Kinship
      <4>4. \A i \in 1 .. 1 : i = 1
        OBVIOUS
      <4>5. 1 \in 1 .. 1
        OBVIOUS
      <4>6. QED
        BY <4>1, <4>2, <4>3, <4>4, <4>5
    <3>2. QED
      BY <2>2, <2>4, <3>1
  <2>5. CASE j # 1
    <3>1. j - 1 \in 1 .. Len(R) /\ j - 1 \in Nat /\ j - 1 < j /\ j \in 2 .. Len(R)
      BY <1>1, <2>3, <2>5
    <3>2. j - 1 \notin Bad
      BY <2>2, <3>1
    <3> DEFINE p == R[j - 1]
    <3>3. Fine(j - 1)
      BY <3>1, <3>2
    <3>4. R[j] # Genesis /\ Parent[R[j]] = p /\ p \in Header
      BY <1>1, <3>1 DEF Chain
    <3>5. Ancestors(R[j]) = {R[j]} \cup Ancestors(p) /\ Height[R[j]] = Height[p] + 1
          /\ Height[p] \in Nat /\ Height[R[1]] \in Nat
      <4>1. 1 \in 1 .. Len(R)
        BY <3>1, <2>3
      <4>2. QED
        BY <1>1, <2>3, <3>4, <4>1, Kinship
    <3>6. Height[p] = Height[R[1]] + (j - 1) - 1
      BY <3>3
    <3>7. \A i \in 1 .. j : i = j \/ i \in 1 .. j - 1
      BY <2>3
    <3>8. \A i \in 1 .. j : R[i] \in Ancestors(R[j])
      <4>1. \A i \in 1 .. j - 1 : R[i] \in Ancestors(p)
        BY <3>3
      <4> HIDE DEF p
      <4>2. QED
        BY <3>5, <3>7, <4>1
    <3>9. ASSUME NEW g \in Ancestors(R[j])
          PROVE  (\E i \in 1 .. j : g = R[i]) \/ (R[1] # Genesis /\ g \in Ancestors(Parent[R[1]]))
      <4>1. CASE g = R[j]
        <5>1. j \in 1 .. j
          BY <2>3
        <5>2. QED
          BY <4>1, <5>1
      <4>2. CASE g \in Ancestors(p)
        <5>1. (\E i \in 1 .. j - 1 : g = R[i]) \/ (R[1] # Genesis /\ g \in Ancestors(Parent[R[1]]))
          BY <3>3, <4>2
        <5>2. \A i \in 1 .. j - 1 : i \in 1 .. j
          BY <2>3
        <5>3. QED
          BY <5>1, <5>2
      <4>3. QED
        BY <3>5, <4>1, <4>2
    <3>10. Height[R[j]] = Height[R[1]] + j - 1
      <4> HIDE DEF p
      <4>1. QED
        BY <2>3, <3>5, <3>6
    <3>11. Fine(j)
      BY <3>8, <3>9, <3>10
    <3>12. QED
      BY <2>2, <3>11
  <2>6. QED
    BY <2>4, <2>5
<1>3. QED
  BY <1>1, <1>2

\* Two ancestors of one header stand one above the other.
LEMMA Comparable ==
    ASSUME NEW h \in Header, NEW a \in Ancestors(h), NEW b \in Ancestors(h)
    PROVE  a \in Ancestors(b) \/ b \in Ancestors(a)
<1>1. a \in Header /\ b \in Header
  BY Descent
<1>2. Height[a] \in Nat /\ Height[b] \in Nat
  BY <1>1, Kinship
<1>3. Height[a] <= Height[b] \/ Height[b] <= Height[a]
  BY <1>2
<1>4. QED
  BY <1>3, Linear

\* One row a height, and nothing above, when the active rows are a chain.
LEMMA RowsOfAChain ==
    ASSUME NEW e \in Header
    PROVE  /\ \A g \in Ancestors(e) : {h \in Ancestors(e) : Height[h] = Height[g]} = {g}
           /\ \A k \in Nat : k > Height[e] => {h \in Ancestors(e) : Height[h] = k} = {}
<1>1. ASSUME NEW g \in Ancestors(e), NEW h \in Ancestors(e), Height[h] = Height[g]
      PROVE  h = g
  <2>1. h \in Header /\ g \in Header
    BY Descent
  <2>2. Height[h] <= Height[g]
    BY <1>1, <2>1, Kinship
  <2>3. h \in Ancestors(g)
    BY <2>2, Linear
  <2>4. QED
    BY <1>1, <2>1, <2>3, Descent
<1>2. ASSUME NEW k \in Nat, k > Height[e], NEW h \in Ancestors(e) PROVE Height[h] # k
  <2>1. h \in Header /\ Height[h] <= Height[e]
    BY Descent
  <2>2. Height[h] \in Nat /\ Height[e] \in Nat
    BY <2>1, Kinship
  <2>3. QED
    BY <1>2, <2>1, <2>2
<1>3. QED
  BY <1>1, <1>2

LEMMA ServedOfAChain ==
    ASSUME NEW e \in Header, NEW rnk \in [Header -> Nat]
    PROVE  /\ \A g \in Ancestors(e) : ServedFrom(Ancestors(e), rnk, Height[g]) = g
           /\ \A k \in Nat : k > Height[e] => ServedFrom(Ancestors(e), rnk, k) = None
<1>1. ASSUME NEW g \in Ancestors(e) PROVE ServedFrom(Ancestors(e), rnk, Height[g]) = g
  <2> DEFINE at == {h \in Ancestors(e) : Height[h] = Height[g]}
  <2>1. at = {g} /\ rnk[g] \in Nat
    BY RowsOfAChain, Descent
  <2>2. ServedFrom(Ancestors(e), rnk, Height[g])
           = IF at = {} THEN None ELSE CHOOSE h \in at : \A x \in at : rnk[x] <= rnk[h]
    BY DEF ServedFrom
  <2> HIDE DEF at
  <2>3. \A h \in at : (\A x \in at : rnk[x] <= rnk[h]) /\ h = g
    BY <2>1
  <2>4. QED
    BY <2>1, <2>2, <2>3
<1>2. ASSUME NEW k \in Nat, k > Height[e] PROVE ServedFrom(Ancestors(e), rnk, k) = None
  BY <1>2, RowsOfAChain DEF ServedFrom
<1>3. QED
  BY <1>1, <1>2

\* What a step from one chain to another withdraws is above what both have.
LEMMA WithdrawnIsAbove ==
    ASSUME NEW e \in Header, NEW f \in Header, active = Ancestors(e), active' = Ancestors(f),
           rank \in [Header -> Nat], rank' \in [Header -> Nat],
           NEW m \in Ancestors(e), m \in Ancestors(f)
    PROVE  \A k \in Withdrawn : k \in Heights /\ k \in Nat /\ k > Height[m] /\ m # e
<1>1. m \in Header /\ Height[m] \in Nat /\ Height[e] \in Nat
  BY Descent, Kinship
<1>2. \A k \in Heights : k \in Nat
  BY Kinship DEF Heights
<1>3. ASSUME NEW k \in Nat, k <= Height[m]
      PROVE  Served(k) = ServedFrom(active', rank', k)
  <2>1. PICK g \in Ancestors(m) : Height[g] = k
    BY <1>1, <1>3, EveryHeight
  <2>2. g \in Ancestors(e) /\ g \in Ancestors(f)
    BY <2>1, Descent
  <2>3. Served(k) = g
    BY <2>1, <2>2, ServedOfAChain DEF Served
  <2>4. ServedFrom(active', rank', k) = g
    BY <2>1, <2>2, ServedOfAChain
  <2>5. QED
    BY <2>3, <2>4
<1>4. ASSUME NEW k \in Nat, k > Height[e] PROVE Served(k) = None
  BY <1>4, ServedOfAChain DEF Served
<1>5. QED
  BY <1>1, <1>2, <1>3, <1>4 DEF Withdrawn

LEMMA GrowthWithdrawsNothing ==
    ASSUME NEW e \in Header, NEW f \in Header, active = Ancestors(e), active' = Ancestors(f),
           rank \in [Header -> Nat], rank' \in [Header -> Nat], e \in Ancestors(f)
    PROVE  Withdrawn = {}
<1>1. e \in Ancestors(e)
  BY Kinship
<1>2. QED
  BY <1>1, WithdrawnIsAbove

-----------------------------------------------------------------------------
(* The inductive invariant.  Either the active rows are the tip's chain and *)
(* the queue moves it header by header, or a bulk write stands between its  *)
(* rows and its tip, and what is left of the queue ends in a step that      *)
(* moves the tip to the highest row.                                        *)

\* A bulk write is never cut and never above the tip without one of its own.
Unbroken == Bootstrapped /\ ~CutBulk /\ ~BackfillAnywhere

\* A bulk run that is written stands on a stored row, or starts at the genesis.
RunsStand == Do("chunk") => Head(todo).run[1] = Genesis \/ HasParent(Head(todo).run[1])

Kinds == {"insert", "reorg", "relink", "retip", "dedupe", "top", "canon", "link", "repair"}

StepFits(i) ==
    /\ todo[i].do \in Kinds
    /\ todo[i].do = "reorg" => i = 1 /\ todo[i].h # tip /\ work[todo[i].h] > work[tip]
    /\ todo[i].do \in {"relink", "retip"} =>
          todo[i].h \in Stored \/ \E j \in 1 .. i - 1 : todo[j] = Insert(todo[i].h)
    /\ todo[i].do = "retip" => todo[i].h # Genesis
    /\ todo[i].do = "canon" => todo[i].after = <<>> /\ Chain(todo[i].run)

Still ==
    /\ active = Ancestors(tip)
    /\ \A i \in 1 .. Len(todo) : StepFits(i)

\* The chunks of R from the f-th header on.
Chunked(c, R, f) ==
    /\ \A i \in 1 .. Len(c) : c[i].do = "chunk" /\ c[i].run = R
    /\ IF c = <<>> THEN f > Len(R) ELSE c[1].from = f /\ c[Len(c)].from + ChunkSize > Len(R)
    /\ \A i \in 1 .. Len(c) - 1 : c[i + 1].from = c[i].from + ChunkSize

\* What follows the chunks of R.
Rests(R) ==
    {<<>>, Sweep, <<[do |-> "top"]>>, Canon(R, <<>>)}
        \cup {<<[do |-> "link", span |-> s], [do |-> "top"]>> : s \in SUBSET Int}

\* R is being written: e is the highest row so far.
Writing(R, e, c, f, q) ==
    /\ todo = c \o q
    /\ Chunked(c, R, f)
    /\ q \in Rests(R)
    /\ Chain(R)
    /\ active = Ancestors(e) /\ tip \in Ancestors(e)
    /\ e = tip \/ e \in Ancestors(Last(R))
    /\ Last(R) \in Ancestors(tip) \/ tip \in Ancestors(Last(R))
    /\ q = <<>> => Last(R) \in Ancestors(tip)
    /\ R[1] # Genesis => Parent[R[1]] \in active
    /\ \A j \in 1 .. Len(R) : j < f => R[j] \in active

Bulk == \E R \in Run, e \in Header, c \in Seq(Steps), f \in Nat \ {0}, q \in Seq(Steps) :
            Writing(R, e, c, f, q)

Covered == changed # {} => pending # None /\ \A k \in changed : pending <= k

IInv ==
    /\ TypeOK
    /\ tip \in Stored
    /\ Covered
    /\ Still \/ Bulk

\* The invariant gives what the runs check.
LEMMA EmptyIsStill ==
    ASSUME IInv, todo = <<>>
    PROVE  active = Ancestors(tip) /\ Still
<1>1. CASE Bulk
  <2>1. PICK R \in Run, e \in Header, c \in Seq(Steps), f \in Nat \ {0}, q \in Seq(Steps) :
             Writing(R, e, c, f, q)
    BY <1>1 DEF Bulk
  <2>2. q = <<>>
    <3>1. c \o q = <<>>
      BY <2>1 DEF Writing
    <3>2. Len(c \o q) = Len(c) + Len(q) /\ Len(c) \in Nat /\ Len(q) \in Nat
      OBVIOUS
    <3>3. Len(q) = 0
      BY <3>1, <3>2
    <3>4. QED
      BY <3>3
  <2>3. tip \in Ancestors(e) /\ active = Ancestors(e) /\ (e = tip \/ e \in Ancestors(tip))
    <3>1. Last(R) \in Ancestors(tip) /\ tip \in Header /\ Last(R) \in Header
      BY <2>1, <2>2, AncestorsAreHeaders DEF Writing, IInv, Stored
    <3>2. Ancestors(Last(R)) \subseteq Ancestors(tip)
      BY <3>1, Descent
    <3>3. QED
      BY <2>1, <3>2 DEF Writing
  <2>4. e = tip
    <3>1. tip \in Header
      BY DEF IInv, Stored
    <3>2. e # tip => Height[tip] <= Height[e] /\ Height[e] <= Height[tip] /\ Height[e] \in Nat /\ Height[tip] \in Nat
      BY <2>3, <3>1, Descent, Kinship
    <3>3. QED
      BY <2>3, <3>1, <3>2, Descent
  <2>5. Still
    <3>1. 1 .. Len(todo) = {}
      OBVIOUS
    <3>2. QED
      BY <2>3, <2>4, <3>1 DEF Still
  <2>6. QED
    BY <2>3, <2>4, <2>5
<1>2. QED
  BY <1>1 DEF IInv, Still

\* A run whose headers are all active has each alone at its height.
LEMMA AllActive ==
    ASSUME NEW e \in Header, active = Ancestors(e), NEW R \in Run, Range(R) \subseteq active
    PROVE  PushOutcome(R) = "active"
<1>1. \A h \in Range(R) : ActiveAt(Height[h]) = {h}
  BY RowsOfAChain DEF ActiveAt
<1>2. QED
  BY <1>1 DEF PushOutcome

LEMMA RangeOfChain ==
    ASSUME NEW R \in Run, Chain(R)
    PROVE  Range(R) \subseteq Ancestors(Last(R)) /\ Last(R) \in Range(R)
<1>1. Len(R) \in 1 .. Len(R) /\ DOMAIN R = 1 .. Len(R) /\ Last(R) = R[Len(R)] /\ Len(R) \in Nat
  BY DEF Run, Last
<1>2. \A i \in 1 .. Len(R) : R[i] \in Ancestors(R[Len(R)])
  BY <1>1, ChainMembers
<1>3. QED
  BY <1>1, <1>2 DEF Range

LEMMA SplitQueue ==
    ASSUME NEW S, NEW c \in Seq(S), NEW q \in Seq(S)
    PROVE  /\ c = <<>> => c \o q = q
           /\ c # <<>> => c \o q # <<>> /\ Head(c \o q) = c[1] /\ Tail(c \o q) = Tail(c) \o q
<1>1. CASE c = <<>>
  BY <1>1
<1>2. CASE c # <<>>
  <2>1. Len(c) \in Nat \ {0} /\ Len(q) \in Nat
    BY <1>2
  <2>2. c \o q \in Seq(S) /\ Len(c \o q) = Len(c) + Len(q)
        /\ \A i \in 1 .. Len(c \o q) : (c \o q)[i] = IF i <= Len(c) THEN c[i] ELSE q[i - Len(c)]
    OBVIOUS
  <2>3. Tail(c) \in Seq(S) /\ Len(Tail(c)) = Len(c) - 1
        /\ \A i \in 1 .. Len(c) - 1 : Tail(c)[i] = c[i + 1]
    BY <1>2
  <2>4. c \o q # <<>> /\ Head(c \o q) = c[1]
    BY <2>1, <2>2
  <2> DEFINE a == Tail(c \o q)
             b == Tail(c) \o q
  <2>5. a \in Seq(S) /\ Len(a) = Len(c) - 1 + Len(q)
        /\ \A i \in 1 .. Len(c) - 1 + Len(q) : a[i] = (c \o q)[i + 1]
    BY <2>1, <2>2, <2>4
  <2>6. b \in Seq(S) /\ Len(b) = Len(c) - 1 + Len(q)
        /\ \A i \in 1 .. Len(c) - 1 + Len(q) :
              b[i] = IF i <= Len(c) - 1 THEN Tail(c)[i] ELSE q[i - (Len(c) - 1)]
    BY <2>1, <2>3
  <2>7. ASSUME NEW i \in 1 .. Len(c) - 1 + Len(q) PROVE a[i] = b[i]
    <3>1. i + 1 \in 1 .. Len(c \o q) /\ a[i] = IF i + 1 <= Len(c) THEN c[i + 1] ELSE q[(i + 1) - Len(c)]
      BY <2>1, <2>2, <2>5
    <3> HIDE DEF a, b
    <3>2. CASE i <= Len(c) - 1
      BY <2>1, <2>3, <2>6, <3>1, <3>2
    <3>3. CASE ~(i <= Len(c) - 1)
      <4>1. (i + 1) - Len(c) = i - (Len(c) - 1) /\ ~(i + 1 <= Len(c))
        BY <2>1, <3>3
      <4>2. QED
        BY <2>6, <3>1, <3>3, <4>1
    <3>4. QED
      BY <3>2, <3>3
  <2>8. a = b
    <3> HIDE DEF a, b
    <3>1. QED
      BY <2>5, <2>6, <2>7
  <2>9. QED
    BY <1>2, <2>4, <2>8
<1>3. QED
  BY <1>1, <1>2

\* The steps of a bulk write.
LEMMA BulkHead ==
    ASSUME NEW R \in Run, NEW e, NEW c \in Seq(Steps), NEW f, NEW q \in Seq(Steps),
           Writing(R, e, c, f, q), NEW kind, Do(kind)
    PROVE  \/ c # <<>> /\ kind = "chunk" /\ Head(todo) = c[1] /\ Tail(todo) = Tail(c) \o q
           \/ c = <<>> /\ todo = q /\ \/ kind = "dedupe" /\ q = Sweep
                                      \/ kind = "top" /\ q = <<[do |-> "top"]>>
                                      \/ kind = "canon" /\ q = Canon(R, <<>>)
                                      \/ /\ kind = "link"
                                         /\ \E s \in SUBSET Int : q = <<[do |-> "link", span |-> s], [do |-> "top"]>>
<1>1. CASE c # <<>>
  <2>1. Head(todo) = c[1] /\ Tail(todo) = Tail(c) \o q /\ Head(todo).do = kind
    BY <1>1, SplitQueue DEF Writing, Do
  <2>2. 1 \in 1 .. Len(c)
    BY <1>1
  <2>3. c[1].do = "chunk"
    BY <2>2 DEF Writing, Chunked
  <2>4. QED
    BY <1>1, <2>1, <2>3
<1>2. CASE c = <<>>
  <2>1. todo = q /\ q # <<>> /\ Head(q).do = kind
    BY <1>2, SplitQueue DEF Writing, Do
  <2>2. \A s, t : Head(<<s>>) = s /\ Head(<<s, t>>) = s
    OBVIOUS
  <2>3. q = Sweep => kind = "dedupe"
    BY <2>1, <2>2 DEF Sweep
  <2>4. q = <<[do |-> "top"]>> => kind = "top"
    BY <2>1, <2>2
  <2>5. q = Canon(R, <<>>) => kind = "canon"
    BY <2>1, <2>2 DEF Canon
  <2>6. \A s \in SUBSET Int : q = <<[do |-> "link", span |-> s], [do |-> "top"]>> => kind = "link"
    BY <2>1, <2>2
  <2>7. q \in Rests(R)
    BY DEF Writing
  <2>8. QED
    BY <1>2, <2>1, <2>3, <2>4, <2>5, <2>6, <2>7 DEF Rests
<1>3. QED
  BY <1>1, <1>2

\* Only the steps of Kinds and chunks are ever taken; the live ones, and the
\* repair, only where the active rows are the tip's chain.
LEMMA LiveIsStill ==
    ASSUME IInv, NEW kind, Do(kind)
    PROVE  /\ kind \in {"insert", "reorg", "relink", "retip", "repair"} => Still
           /\ kind \notin {"heal", "keep", "window"}
           /\ kind = "chunk" => Bulk
<1>1. todo \in Seq(Steps) /\ todo # <<>> /\ Head(todo).do = kind /\ Head(todo) = todo[1] /\ 1 \in 1 .. Len(todo)
  <2>1. todo \in Seq(Steps) /\ todo # <<>> /\ Head(todo).do = kind
    BY DEF IInv, TypeOK, Do
  <2>2. QED
    BY <2>1
<1>2. CASE Bulk
  <2>1. PICK R \in Run, e \in Header, c \in Seq(Steps), f \in Nat \ {0}, q \in Seq(Steps) :
             Writing(R, e, c, f, q)
    BY <1>2 DEF Bulk
  <2>2. kind \in {"chunk", "dedupe", "top", "canon", "link"}
    BY <2>1, BulkHead
  <2>3. QED
    BY <1>2, <2>2
<1>3. CASE Still
  <2>1. StepFits(1)
    BY <1>1, <1>3 DEF Still
  <2>2. kind \in Kinds
    BY <1>1, <2>1 DEF StepFits
  <2>3. QED
    BY <1>3, <2>2 DEF Kinds
<1>4. QED
  BY <1>2, <1>3 DEF IInv

\* A refusal leaves nothing of the operation.
LEMMA RefuseEmpties ==
    ASSUME Still, todo \in Seq(Steps), Refuse
    PROVE  todo' = <<>>
<1>1. \A i \in 1 .. Len(todo) : todo[i].do \in Kinds
  BY DEF Still, StepFits
<1>2. {i \in 1 .. Len(todo) : todo[i].do \in {"heal", "window"}} = {}
  BY <1>1 DEF Kinds
<1>3. QED
  BY <1>2 DEF Refuse, GoOnAt

\* An empty queue asks for nothing.
LEMMA NothingLeft ==
    ASSUME todo' = <<>>, active' = Ancestors(tip')
    PROVE  Still'
<1>1. 1 .. Len(<<>>) = {}
  OBVIOUS
<1>2. QED
  BY <1>1 DEF Still

\* The head is done with, or another step has taken its place.
LEMMA Pops ==
    ASSUME Still, todo \in Seq(Steps), todo # <<>>, todo' = Tail(todo),
           active' = Ancestors(tip'), Stored \subseteq Stored',
           Do("insert") => Head(todo).h \in Stored'
    PROVE  Still'
<1>1. Len(todo) \in Nat \ {0} /\ Len(todo') = Len(todo) - 1
      /\ \A i \in 1 .. Len(todo) - 1 : todo'[i] = todo[i + 1]
  <2>1. Len(todo) \in Nat \ {0} /\ Len(Tail(todo)) = Len(todo) - 1
        /\ \A i \in 1 .. Len(todo) - 1 : Tail(todo)[i] = todo[i + 1]
    OBVIOUS
  <2>2. QED
    BY <2>1
<1>2. ASSUME NEW i \in 1 .. Len(todo') PROVE StepFits(i)'
  <2> DEFINE s == todo[i + 1]
  <2>1. i + 1 \in 1 .. Len(todo) /\ i + 1 # 1 /\ todo'[i] = s /\ i \in Nat
    BY <1>1
  <2>2. StepFits(i + 1)
    BY <2>1 DEF Still
  <2>3. s.do \in Kinds /\ s.do # "reorg" /\ (s.do = "canon" => s.after = <<>> /\ Chain(s.run))
        /\ (s.do = "retip" => s.h # Genesis)
    BY <2>1, <2>2 DEF StepFits
  <2>4. ASSUME s.do \in {"relink", "retip"}
        PROVE  s.h \in Stored' \/ \E j \in 1 .. i - 1 : todo'[j] = Insert(s.h)
    <3>1. CASE s.h \in Stored
      BY <3>1
    <3>2. CASE s.h \notin Stored
      <4>1. PICK j \in 1 .. (i + 1) - 1 : todo[j] = Insert(s.h)
        BY <2>2, <2>4, <3>2 DEF StepFits
      <4>2. CASE j = 1
        <5>1. Head(todo) = Insert(s.h)
          BY <4>1, <4>2
        <5>2. Do("insert") /\ Head(todo).h = s.h
          BY <5>1 DEF Do, Insert
        <5>3. QED
          BY <5>2
      <4>3. CASE j # 1
        <5>1. j - 1 \in 1 .. i - 1 /\ j - 1 \in 1 .. Len(todo) - 1 /\ (j - 1) + 1 = j
          BY <1>1, <2>1, <4>3
        <5>2. todo'[j - 1] = todo[j]
          BY <1>1, <5>1
        <5>3. QED
          BY <4>1, <5>1, <5>2
      <4>4. QED
        BY <4>2, <4>3
    <3>3. QED
      BY <3>1, <3>2
  <2> HIDE DEF s
  <2>5. QED
    BY <2>1, <2>3, <2>4 DEF StepFits
<1>3. QED
  BY <1>2 DEF Still

LEMMA Replaces ==
    ASSUME Still, todo \in Seq(Steps), todo # <<>>, NEW s \in Steps, todo' = <<s>> \o Tail(todo),
           active' = Ancestors(tip'), Stored \subseteq Stored',
           Do("insert") => Head(todo).h \in Stored',
           \/ s.do = "reorg" /\ s.h # tip' /\ work'[s.h] > work'[tip']
           \/ s.do = "retip" /\ s.h \in Stored' /\ s.h # Genesis
    PROVE  Still'
<1>1. Len(todo) \in Nat \ {0} /\ Len(todo') = Len(todo) /\ todo'[1] = s
      /\ \A i \in 2 .. Len(todo) : todo'[i] = todo[i]
  <2>1. Len(todo) \in Nat \ {0} /\ Len(<<s>> \o Tail(todo)) = Len(todo) /\ (<<s>> \o Tail(todo))[1] = s
        /\ \A i \in 2 .. Len(todo) : (<<s>> \o Tail(todo))[i] = todo[i]
    OBVIOUS
  <2>2. QED
    BY <2>1
<1>2. ASSUME NEW i \in 1 .. Len(todo') PROVE StepFits(i)'
  <2>1. CASE i = 1
    <3>1. todo'[i] = s
      BY <1>1, <2>1
    <3>2. QED
      BY <2>1, <3>1 DEF StepFits, Kinds
  <2>2. CASE i # 1
    <3> DEFINE t == todo[i]
    <3>1. i \in 2 .. Len(todo) /\ i \in 1 .. Len(todo) /\ todo'[i] = t
      BY <1>1, <2>2
    <3>2. StepFits(i)
      BY <3>1 DEF Still
    <3>3. t.do \in Kinds /\ t.do # "reorg" /\ (t.do = "canon" => t.after = <<>> /\ Chain(t.run))
          /\ (t.do = "retip" => t.h # Genesis)
      BY <2>2, <3>2 DEF StepFits
    <3>4. ASSUME t.do \in {"relink", "retip"}
          PROVE  t.h \in Stored' \/ \E j \in 1 .. i - 1 : todo'[j] = Insert(t.h)
      <4>1. CASE t.h \in Stored
        BY <4>1
      <4>2. CASE t.h \notin Stored
        <5>1. PICK j \in 1 .. i - 1 : todo[j] = Insert(t.h)
          BY <3>2, <3>4, <4>2 DEF StepFits
        <5>2. CASE j = 1
          <6>1. Head(todo) = Insert(t.h)
            BY <5>1, <5>2
          <6>2. Do("insert") /\ Head(todo).h = t.h
            BY <6>1 DEF Do, Insert
          <6>3. QED
            BY <6>2
        <5>3. CASE j # 1
          <6>1. j \in 2 .. Len(todo)
            BY <1>1, <3>1, <5>3
          <6>2. QED
            BY <1>1, <5>1, <6>1
        <5>4. QED
          BY <5>2, <5>3
      <4>3. QED
        BY <4>1, <4>2
    <3> HIDE DEF t
    <3>5. QED
      BY <3>1, <3>3, <3>4 DEF StepFits
  <2>3. QED
    BY <2>1, <2>2
<1>3. QED
  BY <1>2 DEF Still

LEMMA ActiveIsAChain ==
    ASSUME IInv
    PROVE  /\ tip \in Header /\ tip # None /\ active \subseteq Header
           /\ \E e \in Header : active = Ancestors(e) /\ tip \in Ancestors(e)
<1>1. tip \in Header /\ tip # None /\ active \subseteq Header
  BY StoreAssumption DEF IInv, TypeOK, Stored
<1>2. Still => active = Ancestors(tip) /\ tip \in Ancestors(tip)
  BY <1>1, Kinship DEF Still
<1>3. Bulk => \E e \in Header : active = Ancestors(e) /\ tip \in Ancestors(e)
  BY DEF Bulk, Writing
<1>4. QED
  BY <1>1, <1>2, <1>3 DEF IInv

LEMMA RanksAreNats ==
    ASSUME NEW r \in [Header -> 0 .. Cardinality(Header)]
    PROVE  r \in [Header -> Nat]
<1>1. Cardinality(Header) \in Nat
  BY StoreAssumption, FS_CardinalityType
<1>2. 0 .. Cardinality(Header) \subseteq Nat
  BY <1>1
<1>3. QED
  BY <1>2

LEMMA NewRankIsARank ==
    ASSUME NEW h \in Header, h \notin Stored
    PROVE  NewRank(h) \in 1 .. Cardinality(Header)
<1> DEFINE beside == {g \in Stored : Height[g] = Height[h]}
<1>1. beside \in SUBSET (Header \ {h})
  BY DEF Stored
<1>2. IsFiniteSet(Header \ {h}) /\ Cardinality(Header \ {h}) = Cardinality(Header) - 1
      /\ Cardinality(Header) \in Nat
  BY StoreAssumption, FS_RemoveElement, FS_CardinalityType
<1>3. IsFiniteSet(beside) /\ Cardinality(beside) <= Cardinality(Header \ {h})
  <2> HIDE DEF beside
  <2>1. QED
    BY <1>1, <1>2, FS_Subset
<1>4. Cardinality(beside) \in Nat
  BY <1>3, FS_CardinalityType
<1>5. QED
  BY <1>2, <1>3, <1>4 DEF NewRank

\* A transaction under which the active rows grow along their chain, or stay.
LEMMA Grows ==
    ASSUME IInv, WorkInv', Journal, pending' = pending, cuts' = cuts,
           NEW e \in Header, NEW f \in Header, active = Ancestors(e), active' = Ancestors(f),
           e \in Ancestors(f),
           rank' \in [Header -> 0 .. Cardinality(Header)], work' \in [Header -> Nat],
           active' \subseteq Stored', linked' \subseteq Stored', tip' \in Stored',
           Still' \/ Bulk'
    PROVE  IInv'
<1>1. rank \in [Header -> Nat] /\ rank' \in [Header -> Nat]
  BY RanksAreNats DEF IInv, TypeOK
<1>2. Withdrawn = {}
  BY <1>1, GrowthWithdrawsNothing
<1>3. changed' = changed
  BY <1>2 DEF Journal
<1>4. TypeOK'
  <2>1. todo' \in Seq(Steps)
    BY DEF WorkInv
  <2>2. QED
    BY <1>3, <2>1 DEF IInv, TypeOK
<1>5. Covered'
  BY <1>3 DEF IInv, Covered
<1>6. QED
  BY <1>4, <1>5 DEF IInv

\* A transaction that leaves every row as it was.
LEMMA RowsStand ==
    ASSUME IInv, WorkInv', Journal, rank' = rank, active' = active, linked' = linked, work' = work,
           tip' = tip, pending' = pending, cuts' = cuts, Still' \/ Bulk'
    PROVE  IInv'
<1>1. PICK e \in Header : active = Ancestors(e)
  BY ActiveIsAChain
<1>2. e \in Ancestors(e)
  BY Kinship
<1>3. /\ rank' \in [Header -> 0 .. Cardinality(Header)] /\ work' \in [Header -> Nat]
      /\ active' \subseteq Stored' /\ linked' \subseteq Stored' /\ tip' \in Stored'
  BY DEF IInv, TypeOK, Stored
<1>4. active' = Ancestors(e)
  BY <1>1
<1>5. QED
  BY <1>1, <1>2, <1>3, <1>4, Grows

LEMMA SkipStands ==
    ASSUME IInv, WorkInv', Journal, Still, todo # <<>>, Skip,
           Do("insert") => Head(todo).h \in Stored
    PROVE  IInv'
<1>1. /\ rank' = rank /\ active' = active /\ linked' = linked /\ work' = work /\ tip' = tip
      /\ pending' = pending /\ cuts' = cuts /\ todo' = Tail(todo)
  BY DEF Skip, rows
<1>2. Stored' = Stored /\ active' = Ancestors(tip')
  BY <1>1 DEF Stored, Still
<1>3. Still'
  <2>1. todo \in Seq(Steps)
    BY DEF IInv, TypeOK
  <2>2. QED
    BY <1>1, <1>2, <2>1, Pops
<1>4. QED
  BY <1>1, <1>3, RowsStand

LEMMA RefuseStands ==
    ASSUME IInv, WorkInv', Journal, Still, Refuse
    PROVE  IInv'
<1>1. /\ rank' = rank /\ active' = active /\ linked' = linked /\ work' = work /\ tip' = tip
      /\ pending' = pending /\ cuts' = cuts
  BY DEF Refuse, rows
<1>2. todo' = <<>>
  BY RefuseEmpties DEF IInv, TypeOK
<1>3. active' = Ancestors(tip')
  BY <1>1 DEF Still
<1>4. Still'
  BY <1>2, <1>3, NothingLeft
<1>5. QED
  BY <1>1, <1>4, RowsStand

-----------------------------------------------------------------------------
(* One lemma for each transaction. *)

LEMMA InsertKeeps ==
    ASSUME IInv, WorkInv, InsertHeader PROVE IInv'
<1> DEFINE h == Head(todo).h
           reorg == [do |-> "reorg", h |-> h]
<1>1. Do("insert") /\ Journal /\ WorkInv'
  BY InsertInv DEF InsertHeader
<1>2. Still /\ todo # <<>> /\ todo \in Seq(Steps) /\ tip \in Header /\ tip # None /\ active = Ancestors(tip)
      /\ tip \in Stored
  BY <1>1, LiveIsStill, ActiveIsAChain DEF Do, IInv, TypeOK, Still
<1>3. h \in Header
  <2>1. Head(todo) \in Steps /\ Head(todo).do = "insert"
    BY <1>1, HeadStep
  <2>2. QED
    BY <2>1, StepShapes
<1>4. \/ h \in Stored /\ Skip
      \/ Refuse
      \/ /\ h \notin Stored
         /\ rank' = [rank EXCEPT ![h] = NewRank(h)]
         /\ work' = [work EXCEPT ![h] = WorkOn(h)]
         /\ linked' \in {linked, linked \cup {h}}
         /\ \/ /\ h # Genesis /\ Parent[h] = tip /\ active' = active \cup {h} /\ tip' = h
               /\ todo' = Tail(todo)
            \/ /\ active' = active /\ tip' = tip
               /\ todo' = Tail(todo) \/ (todo' = <<reorg>> \o Tail(todo) /\ WorkOn(h) > work[tip])
         /\ pending' = pending /\ cuts' = cuts
  BY <1>2 DEF InsertHeader
<1>5. CASE h \in Stored /\ Skip
  BY <1>1, <1>2, <1>5, SkipStands
<1>6. CASE Refuse
  BY <1>1, <1>2, <1>6, RefuseStands
<1>7. CASE /\ h \notin Stored
           /\ rank' = [rank EXCEPT ![h] = NewRank(h)]
           /\ work' = [work EXCEPT ![h] = WorkOn(h)]
           /\ linked' \in {linked, linked \cup {h}}
           /\ \/ /\ h # Genesis /\ Parent[h] = tip /\ active' = active \cup {h} /\ tip' = h
                 /\ todo' = Tail(todo)
              \/ /\ active' = active /\ tip' = tip
                 /\ todo' = Tail(todo) \/ (todo' = <<reorg>> \o Tail(todo) /\ WorkOn(h) > work[tip])
           /\ pending' = pending /\ cuts' = cuts
  <2> HIDE DEF h
  <2>1. NewRank(h) \in 1 .. Cardinality(Header) /\ Cardinality(Header) \in Nat
    BY <1>3, <1>7, NewRankIsARank, StoreAssumption, FS_CardinalityType
  <2>2. rank' \in [Header -> 0 .. Cardinality(Header)]
    <3>1. NewRank(h) \in 0 .. Cardinality(Header)
      BY <2>1
    <3>2. QED
      BY <1>7, <3>1 DEF IInv, TypeOK
  <2>3. Stored' = Stored \cup {h}
    <3>1. NewRank(h) > 0
      BY <2>1
    <3>2. rank'[h] = NewRank(h) /\ \A g \in Header : g # h => rank'[g] = rank[g]
      BY <1>3, <1>7 DEF IInv, TypeOK
    <3>3. QED
      BY <1>3, <3>1, <3>2 DEF Stored
  <2>4. WorkOn(h) \in Nat /\ work' \in [Header -> Nat]
    <3>1. work \in [Header -> Nat] /\ Weight \in [Header -> Nat] /\ (HasParent(h) => Parent[h] \in Header)
      BY <1>3, StoreAssumption DEF IInv, TypeOK, HasParent
    <3>2. WorkOn(h) \in Nat
      BY <1>3, <3>1 DEF WorkOn
    <3>3. QED
      BY <1>7, <3>1, <3>2
  <2>5. linked' \subseteq Stored'
    BY <1>7, <2>3 DEF IInv, TypeOK
  <2>6. Do("insert") => Head(todo).h \in Stored'
    BY <2>3 DEF h
  <2>7. CASE /\ h # Genesis /\ Parent[h] = tip /\ active' = active \cup {h} /\ tip' = h
             /\ todo' = Tail(todo)
    <3>1. active' = Ancestors(h) /\ tip \in Ancestors(h)
      BY <1>2, <1>3, <2>7, Kinship
    <3>2. active' \subseteq Stored' /\ tip' \in Stored'
      BY <2>3, <2>7 DEF IInv, TypeOK
    <3>3. Still'
      <4>1. active' = Ancestors(tip')
        BY <2>7, <3>1
      <4>2. QED
        BY <1>2, <2>3, <2>6, <2>7, <4>1, Pops
    <3>4. QED
      BY <1>1, <1>2, <1>3, <1>7, <2>2, <2>4, <2>5, <3>1, <3>2, <3>3, Grows
  <2>8. CASE /\ active' = active /\ tip' = tip
             /\ todo' = Tail(todo) \/ (todo' = <<reorg>> \o Tail(todo) /\ WorkOn(h) > work[tip])
    <3>1. active' = Ancestors(tip') /\ active' = Ancestors(tip) /\ tip \in Ancestors(tip)
      BY <1>2, <2>8, Kinship
    <3>2. active' \subseteq Stored' /\ tip' \in Stored'
      BY <2>3, <2>8 DEF IInv, TypeOK
    <3>3. Still'
      <4>1. CASE todo' = Tail(todo)
        BY <1>2, <2>3, <2>6, <3>1, <4>1, Pops
      <4>2. CASE todo' = <<reorg>> \o Tail(todo) /\ WorkOn(h) > work[tip]
        <5>1. reorg \in Steps /\ reorg.do = "reorg" /\ reorg.h = h
          BY <1>3, StepMakers
        <5>2. h # tip /\ work'[h] = WorkOn(h) /\ work'[tip] = work[tip]
          BY <1>2, <1>3, <1>7 DEF IInv, TypeOK
        <5>3. reorg.do = "reorg" /\ reorg.h # tip' /\ work'[reorg.h] > work'[tip']
          BY <2>8, <4>2, <5>1, <5>2
        <5> HIDE DEF reorg
        <5>4. QED
          BY <1>2, <2>3, <2>6, <3>1, <4>2, <5>1, <5>3, Replaces
      <4>3. QED
        BY <2>8, <4>1, <4>2
    <3>4. QED
      BY <1>1, <1>2, <1>3, <1>7, <2>2, <2>4, <2>5, <3>1, <3>2, <3>3, Grows
  <2>9. QED
    BY <1>7, <2>7, <2>8
<1>8. QED
  BY <1>4, <1>5, <1>6, <1>7

LEMMA HighestOfAChain ==
    ASSUME NEW h \in Header, NEW S \in SUBSET Ancestors(h), S # {}
    PROVE  \E m \in S : \A g \in S : Height[g] <= Height[m]
<1> DEFINE at == {Height[g] : g \in S}
<1>1. \A g \in S : Height[g] \in 0 .. Height[h] /\ Height[h] \in Nat
  <2>1. ASSUME NEW g \in S PROVE Height[g] \in 0 .. Height[h] /\ Height[h] \in Nat
    <3>1. g \in Header /\ Height[g] <= Height[h]
      BY Descent
    <3>2. QED
      BY <3>1, Kinship
  <2>2. QED
    BY <2>1
<1>2. at \in SUBSET (0 .. Height[h]) /\ at # {}
  BY <1>1
<1>3. Max(at) \in at /\ \A y \in at : y <= Max(at)
  <2> HIDE DEF at
  <2>1. Height[h] \in Nat
    BY Kinship
  <2>2. QED
    BY <1>2, <2>1, MaxOfBounded
<1>4. QED
  BY <1>3

\* Where find_common_ancestor answers, both chains are stored down to its answer.
LEMMA MeetFacts ==
    ASSUME NEW a \in Header, NEW b \in Header, CommonAncestor(a, b) # None
    PROVE  LET m == CommonAncestor(a, b)
           IN  /\ m \in Ancestors(a) /\ m \in Ancestors(b) /\ m \in Header
               /\ Height[b] - Height[m] <= WalkLimit
               /\ \A g \in Ancestors(a) \cup Ancestors(b) : Height[g] >= Height[m] => g \in Stored
<1> DEFINE meet == {h \in Ancestors(a) \cap Ancestors(b) :
                    /\ \A g \in Ancestors(a) \cup Ancestors(b) :
                          Height[g] >= Height[h] => g \in Stored
                    /\ Height[a] - Height[h] <= WalkLimit
                    /\ Height[b] - Height[h] <= WalkLimit}
           m == CommonAncestor(a, b)
<1>1. m = IF meet = {} THEN None ELSE CHOOSE h \in meet : \A g \in meet : Height[g] <= Height[h]
  BY DEF CommonAncestor
<1>2. meet \in SUBSET Ancestors(a)
  OBVIOUS
<1>3. meet # {}
  <2> HIDE DEF meet
  <2>1. QED
    BY <1>1
<1>4. m \in meet
  <2> HIDE DEF meet
  <2>1. \E h \in meet : \A g \in meet : Height[g] <= Height[h]
    BY <1>2, <1>3, HighestOfAChain
  <2>2. QED
    BY <1>1, <1>3, <2>1
<1>5. m \in Ancestors(a) /\ m \in Ancestors(b) /\ Height[b] - Height[m] <= WalkLimit
      /\ \A g \in Ancestors(a) \cup Ancestors(b) : Height[g] >= Height[m] => g \in Stored
  BY <1>4
<1>6. QED
  BY <1>5, Descent

LEMMA LowerFork ==
    ASSUME NEW k \in Nat, pending \in Heights \cup {None}
    PROVE  /\ Min2(pending, k) \in {pending, k}
           /\ Min2(pending, k) # None /\ Min2(pending, k) <= k /\ Min2(pending, k) \in Nat
           /\ pending # None => Min2(pending, k) <= pending
<1>1. \A x \in Heights : x \in Nat
  BY Kinship DEF Heights
<1>2. None \notin Nat
  BY StoreAssumption
<1>3. QED
  BY <1>1, <1>2 DEF Min2

\* A reorg that is not refused makes the branch of a row with more work the chain.
LEMMA ReorgMoves ==
    ASSUME IInv, WorkInv, HandleReorg, ~Refuse
    PROVE  LET h == Head(todo).h
               meet == CommonAncestor(h, tip)
           IN  /\ h \in Header /\ h # tip /\ work[h] > work[tip] /\ active = Ancestors(tip) /\ tip \in Header
               /\ meet \in Ancestors(h) /\ meet \in Ancestors(tip) /\ Height[tip] - Height[meet] <= WalkLimit
               /\ active' = Ancestors(h) /\ tip' = h /\ work' = work
<1> DEFINE h == Head(todo).h
           meet == CommonAncestor(h, tip)
           branch == {g \in Ancestors(h) : Height[g] > Height[meet]}
<1>1. Do("reorg")
  BY DEF HandleReorg
<1>2. Still /\ todo # <<>> /\ todo \in Seq(Steps) /\ tip \in Header /\ active = Ancestors(tip)
  BY <1>1, LiveIsStill, ActiveIsAChain DEF Do, IInv, TypeOK, Still
<1>3. h \in Header /\ h # tip /\ work[h] > work[tip]
  <2>1. Head(todo) \in Steps /\ Head(todo).do = "reorg"
    BY <1>1, HeadStep
  <2>2. 1 \in 1 .. Len(todo) /\ Head(todo) = todo[1]
    BY <1>2
  <2>3. StepFits(1)
    BY <1>2, <2>2 DEF Still
  <2>4. QED
    BY <2>1, <2>2, <2>3, StepShapes DEF StepFits
<1>4. /\ meet # None
      /\ active' = {g \in active : Height[g] <= Height[meet]} \cup branch
      /\ tip' = h
      /\ work' = work
  BY DEF HandleReorg
<1> HIDE DEF h
<1>5. meet \in Ancestors(h) /\ meet \in Ancestors(tip) /\ meet \in Header
      /\ Height[tip] - Height[meet] <= WalkLimit
  BY <1>2, <1>3, <1>4, MeetFacts
<1> HIDE DEF meet
<1>6. Height[meet] \in Nat
  BY <1>5, Kinship
<1>7. active' = Ancestors(h)
  <2>1. ASSUME NEW g \in Ancestors(tip), Height[g] <= Height[meet] PROVE g \in Ancestors(h)
    <3>1. g \in Ancestors(meet)
      BY <1>2, <1>5, <2>1, Linear
    <3>2. QED
      BY <1>3, <1>5, <3>1, Descent
  <2>2. ASSUME NEW g \in Ancestors(h), ~(Height[g] > Height[meet])
        PROVE  g \in Ancestors(tip) /\ Height[g] <= Height[meet]
    <3>1. g \in Header /\ Height[g] \in Nat
      BY <1>3, Descent, Kinship
    <3>2. Height[g] <= Height[meet]
      BY <1>6, <2>2, <3>1
    <3>3. g \in Ancestors(meet)
      BY <1>3, <1>5, <3>2, Linear
    <3>4. QED
      BY <1>2, <1>5, <3>2, <3>3, Descent
  <2>3. QED
    BY <1>2, <1>4, <2>1, <2>2
<1>8. QED
  BY <1>2, <1>3, <1>4, <1>5, <1>7 DEF h, meet

LEMMA ReorgKeeps ==
    ASSUME IInv, WorkInv, HandleReorg PROVE IInv'
<1> DEFINE h == Head(todo).h
           meet == CommonAncestor(h, tip)
           branch == {g \in Ancestors(h) : Height[g] > Height[meet]}
<1>1. Do("reorg") /\ Journal /\ WorkInv'
  BY ReorgInv DEF HandleReorg
<1>2. Still /\ todo # <<>> /\ todo \in Seq(Steps) /\ tip \in Header /\ active = Ancestors(tip)
  BY <1>1, LiveIsStill, ActiveIsAChain DEF Do, IInv, TypeOK, Still
<1>3. h \in Header /\ h # tip
  <2>1. Head(todo) \in Steps /\ Head(todo).do = "reorg"
    BY <1>1, HeadStep
  <2>2. 1 \in 1 .. Len(todo) /\ Head(todo) = todo[1]
    BY <1>2
  <2>3. StepFits(1)
    BY <1>2, <2>2 DEF Still
  <2>4. QED
    BY <2>1, <2>2, <2>3, StepShapes DEF StepFits
<1>4. \/ Refuse
      \/ /\ meet # None
         /\ active' = {g \in active : Height[g] <= Height[meet]} \cup branch
         /\ tip' = h
         /\ pending' = Min2(pending, Height[meet] + 1)
         /\ todo' = Tail(todo)
         /\ rank' = rank /\ linked' = linked /\ work' = work /\ cuts' = cuts
  BY DEF HandleReorg
<1>4a. ~Refuse => active' = Ancestors(h)
  BY ReorgMoves
<1>5. CASE Refuse
  BY <1>1, <1>2, <1>5, RefuseStands
<1>6. CASE /\ ~Refuse
           /\ meet # None
           /\ active' = {g \in active : Height[g] <= Height[meet]} \cup branch
           /\ tip' = h
           /\ pending' = Min2(pending, Height[meet] + 1)
           /\ todo' = Tail(todo)
           /\ rank' = rank /\ linked' = linked /\ work' = work /\ cuts' = cuts
  <2> HIDE DEF h
  <2>1. meet \in Ancestors(h) /\ meet \in Ancestors(tip) /\ meet \in Header
        /\ \A g \in Ancestors(h) \cup Ancestors(tip) : Height[g] >= Height[meet] => g \in Stored
    BY <1>2, <1>3, <1>6, MeetFacts
  <2> HIDE DEF meet
  <2>2. Height[meet] \in Nat /\ Height[h] \in Nat /\ Height[tip] \in Nat
        /\ Height[meet] <= Height[h] /\ Height[meet] <= Height[tip]
    BY <1>2, <1>3, <2>1, Kinship, Descent
  <2>3. active' = Ancestors(h)
    BY <1>4a, <1>6
  <2>4. Stored' = Stored
    BY <1>6 DEF Stored
  <2>5. active' \subseteq Stored'
    <3>1. \A g \in branch : g \in Stored
      <4>1. ASSUME NEW g \in branch PROVE g \in Stored
        <5>1. g \in Header /\ Height[g] \in Nat /\ Height[g] > Height[meet] /\ g \in Ancestors(h)
          BY <1>3, Descent, Kinship
        <5>2. Height[g] >= Height[meet]
          BY <2>2, <5>1
        <5>3. QED
          BY <2>1, <5>1, <5>2
      <4>2. QED
        BY <4>1
    <3>2. active \subseteq Stored
      BY DEF IInv, TypeOK
    <3> HIDE DEF branch
    <3>3. QED
      BY <1>6, <2>4, <3>1, <3>2
  <2>6. tip' \in Stored'
    <3>1. h \in Ancestors(h) /\ Height[h] >= Height[meet]
      BY <1>3, <2>2, Kinship
    <3>2. QED
      BY <1>6, <2>1, <2>4, <3>1
  <2>7. Still'
    <3>1. active' = Ancestors(tip')
      BY <1>6, <2>3
    <3>2. ~Do("insert")
      BY <1>1 DEF Do
    <3>3. QED
      BY <1>2, <1>6, <2>4, <3>1, <3>2, Pops
  <2>8. Height[meet] + 1 \in Heights
    <3>1. Height[meet] < Height[h] \/ Height[meet] < Height[tip]
      <4>1. Height[meet] = Height[h] => meet = h
        BY <1>3, <2>1, Descent
      <4>2. Height[meet] = Height[tip] => meet = tip
        BY <1>2, <2>1, Descent
      <4>3. QED
        BY <1>3, <2>2, <4>1, <4>2
    <3>2. PICK x \in {h, tip} : Height[meet] + 1 \in 0 .. Height[x] /\ x \in Header
      BY <1>2, <1>3, <2>2, <3>1
    <3>3. PICK g \in Ancestors(x) : Height[g] = Height[meet] + 1
      BY <3>2, EveryHeight
    <3>4. g \in Header
      BY <3>2, Descent
    <3>5. QED
      BY <3>3, <3>4 DEF Heights
  <2>9. pending \in Heights \cup {None}
    BY DEF IInv, TypeOK
  <2>10. Height[meet] + 1 \in Nat
    BY <2>2
  <2>11. /\ pending' \in {pending, Height[meet] + 1} /\ pending' # None /\ pending' \in Nat
         /\ pending' <= Height[meet] + 1
         /\ pending # None => pending' <= pending
    BY <1>6, <2>9, <2>10, LowerFork
  <2>12. rank \in [Header -> Nat] /\ rank' \in [Header -> Nat]
    BY <1>6, RanksAreNats DEF IInv, TypeOK
  <2>13. \A k \in Withdrawn : k \in Heights /\ k \in Nat /\ k > Height[meet]
    BY <1>2, <1>3, <2>1, <2>3, <2>12, WithdrawnIsAbove
  <2>14. Covered'
    <3>1. ASSUME NEW k \in changed' PROVE pending' # None /\ pending' <= k
      <4>1. CASE k \in changed
        <5>1. pending # None /\ pending <= k /\ k \in Heights
          BY <4>1 DEF IInv, Covered, TypeOK
        <5>2. k \in Nat /\ pending \in Nat
          BY <2>9, <5>1, Kinship DEF Heights
        <5>3. QED
          BY <2>11, <5>1, <5>2
      <4>2. CASE k \in Withdrawn
        <5>1. k \in Nat /\ k > Height[meet]
          BY <2>13, <4>2
        <5>2. QED
          BY <2>2, <2>11, <5>1
      <4>3. QED
        BY <1>1, <4>1, <4>2 DEF Journal
    <3>2. QED
      BY <3>1 DEF Covered
  <2>15. TypeOK'
    <3>1. changed' \subseteq Heights
      BY <1>1, <2>13 DEF Journal, IInv, TypeOK
    <3>2. pending' \in Heights \cup {None}
      BY <2>8, <2>9, <2>11
    <3>3. todo' \in Seq(Steps)
      BY <1>1 DEF WorkInv
    <3>4. rank' \in [Header -> 0 .. Cardinality(Header)] /\ work' \in [Header -> Nat]
          /\ linked' \subseteq Stored' /\ cuts' \in 0 .. MaxCuts
      BY <1>6, <2>4 DEF IInv, TypeOK
    <3>5. QED
      BY <2>5, <2>6, <3>1, <3>2, <3>3, <3>4 DEF TypeOK
  <2>16. QED
    BY <2>6, <2>7, <2>14, <2>15 DEF IInv
<1>7. QED
  BY <1>4, <1>5, <1>6

\* What the head of a queue asks for fits the state.
LEMMA HeadFits ==
    ASSUME IInv, WorkInv, NEW kind, Do(kind)
    PROVE  /\ todo \in Seq(Steps) /\ todo # <<>> /\ Head(todo) \in Steps /\ Head(todo).do = kind
           /\ Still /\ kind \in {"relink", "retip"} => Head(todo).h \in Stored
           /\ Still /\ kind = "retip" => Head(todo).h # Genesis
           /\ Still /\ kind = "canon" => Head(todo).after = <<>> /\ Chain(Head(todo).run)
<1>1. todo \in Seq(Steps) /\ todo # <<>> /\ Head(todo) \in Steps /\ Head(todo).do = kind
  BY HeadStep DEF Do, IInv, TypeOK
<1>2. 1 \in 1 .. Len(todo) /\ Head(todo) = todo[1] /\ 1 .. 1 - 1 = {}
  BY <1>1
<1>3. Still => StepFits(1)
  BY <1>2 DEF Still
<1>4. QED
  BY <1>1, <1>2, <1>3 DEF StepFits

LEMMA WorkOnIsNat ==
    ASSUME NEW h \in Header, work \in [Header -> Nat]
    PROVE  WorkOn(h) \in Nat
<1>1. Weight \in [Header -> Nat] /\ (HasParent(h) => Parent[h] \in Header)
  BY StoreAssumption DEF HasParent
<1>2. QED
  BY <1>1 DEF WorkOn

LEMMA RelinkKeeps ==
    ASSUME IInv, WorkInv, Relink PROVE IInv'
<1> DEFINE h == Head(todo).h
           retip == [do |-> "retip", h |-> h]
<1>1. Do("relink") /\ Journal /\ WorkInv'
  BY RelinkInv DEF Relink
<1>2. Still /\ tip \in Header /\ active = Ancestors(tip)
  BY <1>1, LiveIsStill, ActiveIsAChain DEF Still
<1>3. todo \in Seq(Steps) /\ todo # <<>> /\ h \in Header /\ h \in Stored
  <2>1. Head(todo) \in Steps /\ Head(todo).do = "relink" /\ h \in Stored
        /\ todo \in Seq(Steps) /\ todo # <<>>
    BY <1>1, <1>2, HeadFits
  <2>2. QED
    BY <2>1, StepShapes
<1>4. \/ Skip
      \/ Refuse
      \/ /\ HasParent(h)
         /\ linked' = linked \cup {h} /\ work' = [work EXCEPT ![h] = WorkOn(h)]
         /\ todo' = <<retip>> \o Tail(todo)
         /\ rank' = rank /\ active' = active /\ tip' = tip /\ pending' = pending /\ cuts' = cuts
  BY DEF Relink
<1>5. CASE Skip
  <2>1. ~Do("insert")
    BY <1>1 DEF Do
  <2>2. QED
    BY <1>1, <1>2, <1>3, <1>5, <2>1, SkipStands
<1>6. CASE Refuse
  BY <1>1, <1>2, <1>6, RefuseStands
<1>7. CASE /\ HasParent(h)
           /\ linked' = linked \cup {h} /\ work' = [work EXCEPT ![h] = WorkOn(h)]
           /\ todo' = <<retip>> \o Tail(todo)
           /\ rank' = rank /\ active' = active /\ tip' = tip /\ pending' = pending /\ cuts' = cuts
  <2> HIDE DEF h
  <2>1. Stored' = Stored
    BY <1>7 DEF Stored
  <2>2. work' \in [Header -> Nat]
    <3>1. work \in [Header -> Nat]
      BY DEF IInv, TypeOK
    <3>2. WorkOn(h) \in Nat
      BY <1>3, <3>1, WorkOnIsNat
    <3>3. QED
      BY <1>7, <3>1, <3>2
  <2>3. rank' \in [Header -> 0 .. Cardinality(Header)] /\ active' \subseteq Stored'
        /\ linked' \subseteq Stored' /\ tip' \in Stored'
    BY <1>3, <1>7, <2>1 DEF IInv, TypeOK
  <2>4. active' = Ancestors(tip') /\ active' = Ancestors(tip) /\ tip \in Ancestors(tip)
    BY <1>2, <1>7, Kinship
  <2>5. Still'
    <3>1. retip \in Steps
      BY <1>3, StepMakers
    <3>2. retip.do = "retip" /\ retip.h \in Stored' /\ retip.h # Genesis
      BY <1>3, <1>7, <2>1 DEF HasParent
    <3>3. ~Do("insert")
      BY <1>1 DEF Do
    <3> HIDE DEF retip
    <3>4. QED
      BY <1>2, <1>3, <1>7, <2>1, <2>4, <3>1, <3>2, <3>3, Replaces
  <2>6. QED
    BY <1>1, <1>2, <1>7, <2>2, <2>3, <2>4, <2>5, Grows
<1>8. QED
  BY <1>4, <1>5, <1>6, <1>7

LEMMA RetipKeeps ==
    ASSUME IInv, WorkInv, Retip PROVE IInv'
<1> DEFINE h == Head(todo).h
           reorg == [do |-> "reorg", h |-> h]
<1>1. Do("retip") /\ Journal /\ WorkInv'
  BY RetipInv DEF Retip
<1>2. Still /\ tip \in Header /\ tip # None /\ active = Ancestors(tip) /\ tip \in Stored
  BY <1>1, LiveIsStill, ActiveIsAChain DEF Still, IInv
<1>3. todo \in Seq(Steps) /\ todo # <<>> /\ h \in Header /\ h \in Stored /\ h # Genesis
  <2>1. Head(todo) \in Steps /\ Head(todo).do = "retip" /\ h \in Stored /\ h # Genesis
        /\ todo \in Seq(Steps) /\ todo # <<>>
    BY <1>1, <1>2, HeadFits
  <2>2. QED
    BY <2>1, StepShapes
<1>4. \/ Skip
      \/ /\ work[h] > work[tip]
         /\ todo' = <<reorg>> \o Tail(todo) /\ active' = active /\ tip' = tip
         /\ rank' = rank /\ linked' = linked /\ work' = work /\ pending' = pending /\ cuts' = cuts
      \/ /\ tip = Parent[h]
         /\ todo' = Tail(todo) /\ active' = active \cup {h} /\ tip' = h
         /\ rank' = rank /\ linked' = linked /\ work' = work /\ pending' = pending /\ cuts' = cuts
  BY <1>2 DEF Retip, OutworksTip, rows
<1>5. ~Do("insert")
  BY <1>1 DEF Do
<1> HIDE DEF h
<1>6. CASE Skip
  BY <1>1, <1>2, <1>3, <1>5, <1>6, SkipStands
<1>7. ASSUME rank' = rank, linked' = linked, work' = work, active' \subseteq Stored, tip' \in Stored
      PROVE  /\ Stored' = Stored
             /\ rank' \in [Header -> 0 .. Cardinality(Header)] /\ active' \subseteq Stored'
             /\ linked' \subseteq Stored' /\ tip' \in Stored' /\ work' \in [Header -> Nat]
  BY <1>7 DEF IInv, TypeOK, Stored
<1>8. CASE /\ work[h] > work[tip]
           /\ todo' = <<reorg>> \o Tail(todo) /\ active' = active /\ tip' = tip
           /\ rank' = rank /\ linked' = linked /\ work' = work /\ pending' = pending /\ cuts' = cuts
  <2>1. Stored' = Stored
    BY <1>8 DEF Stored
  <2>2. active' = Ancestors(tip') /\ active' = Ancestors(tip) /\ tip \in Ancestors(tip)
    BY <1>2, <1>8, Kinship
  <2>3. Still'
    <3>1. reorg \in Steps
      BY <1>3, StepMakers
    <3>2. work[tip] \in Nat
      BY <1>2 DEF IInv, TypeOK
    <3>3. reorg.do = "reorg" /\ reorg.h # tip' /\ work'[reorg.h] > work'[tip']
      BY <1>8, <3>2
    <3> HIDE DEF reorg
    <3>4. QED
      BY <1>2, <1>3, <1>5, <1>8, <2>1, <2>2, <3>1, <3>3, Replaces
  <2>4. QED
    BY <1>1, <1>8, <2>3, RowsStand
<1>9. CASE /\ tip = Parent[h]
           /\ todo' = Tail(todo) /\ active' = active \cup {h} /\ tip' = h
           /\ rank' = rank /\ linked' = linked /\ work' = work /\ pending' = pending /\ cuts' = cuts
  <2>1. active' = Ancestors(h) /\ tip \in Ancestors(h)
    BY <1>2, <1>3, <1>9, Kinship
  <2>2. active' \subseteq Stored /\ tip' \in Stored
    BY <1>3, <1>9 DEF IInv, TypeOK
  <2>3. /\ Stored' = Stored
        /\ rank' \in [Header -> 0 .. Cardinality(Header)] /\ active' \subseteq Stored'
        /\ linked' \subseteq Stored' /\ tip' \in Stored' /\ work' \in [Header -> Nat]
    BY <1>7, <1>9, <2>2
  <2>4. Still'
    BY <1>2, <1>3, <1>5, <1>9, <2>1, <2>3, Pops
  <2>5. QED
    BY <1>1, <1>2, <1>3, <1>9, <2>1, <2>3, <2>4, Grows
<1>10. QED
  BY <1>4, <1>6, <1>8, <1>9

\* A transaction that leaves its step to be taken again.
LEMMA StepsAgain ==
    ASSUME Still, Do("repair"), todo' = todo, tip' = tip, active' = active, rank' = rank
    PROVE  Still'
<1>1. Stored' = Stored
  BY DEF Stored
<1>2. ASSUME NEW i \in 1 .. Len(todo) PROVE todo[i].do # "reorg"
  BY DEF Still, StepFits, Do
<1>3. QED
  BY <1>1, <1>2 DEF Still, StepFits

LEMMA RepairKeeps ==
    ASSUME IInv, WorkInv, RepairWork PROVE IInv'
<1> DEFINE low == RepairAnchor
<1>1. Do("repair") /\ Journal /\ WorkInv'
  BY RepairInv DEF RepairWork
<1>2. Still /\ tip \in Header /\ active = Ancestors(tip)
  BY <1>1, LiveIsStill, ActiveIsAChain DEF Still
<1>3. /\ todo' \in {Tail(todo), todo} /\ rank' = rank /\ active' = active /\ linked' = linked
      /\ tip' = tip /\ pending' = pending /\ cuts' = cuts
  BY RepairWrites
<1>4. todo \in Seq(Steps) /\ todo # <<>> /\ ~Do("insert")
  BY <1>1 DEF IInv, TypeOK, Do
<1>5. ASSUME NEW h \in Header PROVE work'[h] \in Nat
  <2>1. CASE work'[h] = work[h]
    BY <2>1 DEF IInv, TypeOK
  <2>2. CASE /\ h \in active /\ low \in active /\ ~(Height[h] < Height[low])
             /\ work'[h] = work[low] + TrueWork[h] - TrueWork[low]
    <3>1. h \in Ancestors(tip) /\ low \in Ancestors(tip) /\ low \in Header
      BY <1>2, <2>2 DEF WorkInv
    <3> HIDE DEF low
    <3>2. Height[low] <= Height[h]
      BY <2>2, <3>1, Kinship
    <3>3. low \in Ancestors(h)
      BY <1>2, <3>1, <3>2, Linear
    <3>4. TrueWork[low] <= TrueWork[h] /\ TrueWork[low] \in Nat /\ TrueWork[h] \in Nat /\ work[low] \in Nat
      BY <3>1, <3>3, WorkGrows, WorkOfAChain DEF IInv, TypeOK
    <3>5. QED
      BY <2>2, <3>4
  <2>3. QED
    BY <2>1, <2>2, RepairWrites
<1>6. work' \in [Header -> Nat]
  BY <1>5, RepairWrites
<1>7. /\ rank' \in [Header -> 0 .. Cardinality(Header)] /\ active' \subseteq Stored'
      /\ linked' \subseteq Stored' /\ tip' \in Stored' /\ Stored' = Stored
  BY <1>3 DEF IInv, TypeOK, Stored
<1>8. active' = Ancestors(tip') /\ active' = Ancestors(tip) /\ tip \in Ancestors(tip)
  BY <1>2, <1>3, Kinship
<1>9. Still'
  <2>1. CASE todo' = Tail(todo)
    BY <1>2, <1>3, <1>4, <1>7, <1>8, <2>1, Pops
  <2>2. CASE todo' = todo
    BY <1>1, <1>2, <1>3, <2>2, StepsAgain
  <2>3. QED
    BY <1>3, <2>1, <2>2
<1>10. QED
  BY <1>1, <1>2, <1>3, <1>6, <1>7, <1>8, <1>9, Grows

\* After the chunks a bulk write goes from one of its last steps to the next.
LEMMA NextRest ==
    ASSUME NEW R \in Run, NEW e \in Header, NEW f \in Nat \ {0}, NEW q \in Seq(Steps), q # <<>>,
           Writing(R, e, <<>>, f, q), NEW p \in Seq(Steps), p # <<>>, p \in Rests(R),
           todo' = p, active' = active, tip' = tip
    PROVE  Bulk'
<1>1. todo' = <<>> \o p
  OBVIOUS
<1>2. Chunked(<<>>, R, f) /\ Chain(R)
  BY DEF Writing
<1>3. <<>> \in Seq(Steps)
  OBVIOUS
<1>4. Writing(R, e, <<>>, f, p)'
  BY <1>1, <1>2 DEF Writing
<1>5. QED
  BY <1>3, <1>4 DEF Bulk

LEMMA RestSteps ==
    ASSUME NEW R \in Run, NEW s \in SUBSET Int
    PROVE  /\ <<[do |-> "top"]>> \in Rests(R) /\ <<[do |-> "link", span |-> s], [do |-> "top"]>> \in Rests(R)
           /\ <<[do |-> "top"]>> \in Seq(Steps)
           /\ <<[do |-> "link", span |-> s], [do |-> "top"]>> \in Seq(Steps)
           /\ [do |-> "link", span |-> s] \in Steps /\ [do |-> "top"] \in Steps
<1>1. [do |-> "link", span |-> s] \in Steps /\ [do |-> "top"] \in Steps
  BY StepMakers
<1>2. \A x, y \in Steps : <<x>> \in Seq(Steps) /\ <<x, y>> \in Seq(Steps)
  OBVIOUS
<1>3. <<[do |-> "top"]>> \in Rests(R)
  BY DEF Rests
<1>4. <<[do |-> "link", span |-> s], [do |-> "top"]>> \in Rests(R)
  BY DEF Rests
<1>5. QED
  BY <1>1, <1>2, <1>3, <1>4

\* The rest of a bulk write whose head is taken.
LEMMA BulkRest ==
    ASSUME IInv, Bulk, NEW kind, Do(kind), kind # "chunk"
    PROVE  \E R \in Run, e \in Header, f \in Nat \ {0}, q \in Seq(Steps) :
              /\ Writing(R, e, <<>>, f, q) /\ q # <<>> /\ todo = q
              /\ \/ kind = "dedupe" /\ q = Sweep
                 \/ kind = "top" /\ q = <<[do |-> "top"]>>
                 \/ kind = "canon" /\ q = Canon(R, <<>>)
                 \/ /\ kind = "link"
                    /\ \E s \in SUBSET Int : q = <<[do |-> "link", span |-> s], [do |-> "top"]>>
<1>1. PICK R \in Run, e \in Header, c \in Seq(Steps), f \in Nat \ {0}, q \in Seq(Steps) :
           Writing(R, e, c, f, q)
  BY DEF Bulk
<1>2. c = <<>> /\ todo = q /\ \/ kind = "dedupe" /\ q = Sweep
                              \/ kind = "top" /\ q = <<[do |-> "top"]>>
                              \/ kind = "canon" /\ q = Canon(R, <<>>)
                              \/ /\ kind = "link"
                                 /\ \E s \in SUBSET Int : q = <<[do |-> "link", span |-> s], [do |-> "top"]>>
  BY <1>1, BulkHead
<1>3. q # <<>>
  BY <1>2 DEF Do
<1>4. QED
  BY <1>1, <1>2, <1>3

LEMMA LinkKeeps ==
    ASSUME IInv, WorkInv, LinkSpan PROVE IInv'
<1>1. PICK kind \in {"link", "window"} : Do(kind)
  BY DEF LinkSpan
<1>2. kind = "link" /\ Do("link") /\ Journal /\ WorkInv' /\ ~Do("insert")
  BY <1>1, LiveIsStill, FlagsInv DEF LinkSpan, Do
<1>3. /\ linked' \subseteq linked \cup active /\ todo' = Tail(todo)
      /\ rank' = rank /\ active' = active /\ work' = work /\ tip' = tip /\ pending' = pending /\ cuts' = cuts
  BY DEF LinkSpan
<1>4. /\ rank' \in [Header -> 0 .. Cardinality(Header)] /\ active' \subseteq Stored'
      /\ linked' \subseteq Stored' /\ tip' \in Stored' /\ Stored' = Stored /\ work' \in [Header -> Nat]
  BY <1>3 DEF IInv, TypeOK, Stored
<1>5. Still' \/ Bulk'
  <2>1. CASE Still
    <3>1. todo \in Seq(Steps) /\ todo # <<>> /\ active' = Ancestors(tip')
      BY <1>2, <1>3, <2>1 DEF IInv, TypeOK, Do, Still
    <3>2. QED
      BY <1>2, <1>3, <1>4, <2>1, <3>1, Pops
  <2>2. CASE Bulk
    <3>1. PICK R \in Run, e \in Header, f \in Nat \ {0}, q \in Seq(Steps) :
               /\ Writing(R, e, <<>>, f, q) /\ q # <<>> /\ todo = q
               /\ \E s \in SUBSET Int : q = <<[do |-> "link", span |-> s], [do |-> "top"]>>
      BY <1>2, <2>2, BulkRest
    <3>2. todo' = <<[do |-> "top"]>>
      <4>1. \A s, t : Tail(<<s, t>>) = <<t>>
        OBVIOUS
      <4>2. QED
        BY <1>3, <3>1, <4>1
    <3>3. <<[do |-> "top"]>> \in Rests(R) /\ <<[do |-> "top"]>> \in Seq(Steps) /\ <<[do |-> "top"]>> # <<>>
      BY RestSteps
    <3>4. QED
      BY <1>3, <3>1, <3>2, <3>3, NextRest
  <2>3. QED
    BY <2>1, <2>2 DEF IInv
<1>6. PICK e \in Header : active = Ancestors(e)
  BY ActiveIsAChain
<1>7. e \in Ancestors(e) /\ active' = Ancestors(e)
  BY <1>3, <1>6, Kinship
<1>8. QED
  BY <1>2, <1>3, <1>4, <1>5, <1>6, <1>7, Grows

\* A chain has one row at a height.
LEMMA NothingDual ==
    ASSUME NEW e \in Header, active = Ancestors(e)
    PROVE  {k \in Heights : Cardinality(ActiveAt(k)) > 1} = {}
<1>1. ASSUME NEW k \in Heights PROVE ~(Cardinality(ActiveAt(k)) > 1)
  <2>1. k \in Nat /\ Height[e] \in Nat
    BY Kinship DEF Heights
  <2>2. CASE k > Height[e]
    <3>1. ActiveAt(k) = {}
      BY <2>1, <2>2, RowsOfAChain DEF ActiveAt
    <3>2. QED
      BY <3>1, FS_EmptySet
  <2>3. CASE ~(k > Height[e])
    <3>1. PICK g \in Ancestors(e) : Height[g] = k
      BY <2>1, <2>3, EveryHeight
    <3>2. ActiveAt(k) = {g}
      BY <3>1, RowsOfAChain DEF ActiveAt
    <3>3. Cardinality({g}) = 1
      BY FS_Singleton
    <3>4. QED
      BY <3>2, <3>3
  <2>4. QED
    BY <2>2, <2>3
<1>2. QED
  BY <1>1

LEMMA DedupeKeeps ==
    ASSUME IInv, WorkInv, DedupeHeight PROVE IInv'
<1> DEFINE dual == {k \in Heights : Cardinality(ActiveAt(k)) > 1}
<1>1. Do("dedupe") /\ Journal /\ WorkInv' /\ ~Do("insert")
  BY FlagsInv DEF DedupeHeight, Do
<1>2. PICK e \in Header : active = Ancestors(e)
  BY ActiveIsAChain
<1>3. dual = {}
  BY <1>2, NothingDual
<1>4. Skip
  BY <1>3 DEF DedupeHeight
<1>5. todo # <<>>
  BY <1>1 DEF Do
<1>6. CASE Still
  BY <1>1, <1>4, <1>5, <1>6, SkipStands
<1>7. CASE Bulk
  <2>1. PICK R \in Run, e1 \in Header, f \in Nat \ {0}, q \in Seq(Steps) :
             Writing(R, e1, <<>>, f, q) /\ q # <<>> /\ todo = q /\ q = Sweep
    BY <1>1, <1>7, BulkRest
  <2>2. todo' = <<[do |-> "top"]>>
    <3>1. \A s, t : Tail(<<s, t>>) = <<t>>
      OBVIOUS
    <3>2. QED
      BY <1>4, <2>1, <3>1 DEF Skip, Sweep
  <2>3. <<[do |-> "top"]>> \in Rests(R) /\ <<[do |-> "top"]>> \in Seq(Steps) /\ <<[do |-> "top"]>> # <<>>
    BY RestSteps
  <2>4. /\ rank' = rank /\ active' = active /\ linked' = linked /\ work' = work /\ tip' = tip
        /\ pending' = pending /\ cuts' = cuts
    BY <1>4 DEF Skip, rows
  <2>5. Bulk'
    BY <2>1, <2>2, <2>3, <2>4, NextRest
  <2>6. QED
    BY <1>1, <2>4, <2>5, RowsStand
<1>8. QED
  BY <1>6, <1>7 DEF IInv

\* update_chain_tip_to_highest finds the top of the chain.
LEMMA TopOfAChain ==
    ASSUME NEW e \in Header, active = Ancestors(e), rank \in [Header -> Nat]
    PROVE  active # {} /\ Newest(ActiveAt(Max({Height[h] : h \in active}))) = e
<1> DEFINE at == {Height[h] : h \in active}
<1>1. Height[e] \in Nat /\ e \in active
  BY Kinship
<1>2. at \in SUBSET (0 .. Height[e]) /\ Height[e] \in at
  <2>1. \A h \in active : Height[h] \in 0 .. Height[e]
    <3>1. ASSUME NEW h \in Ancestors(e) PROVE Height[h] \in 0 .. Height[e]
      <4>1. h \in Header /\ Height[h] <= Height[e]
        BY Descent
      <4>2. QED
        BY <1>1, <4>1, Kinship
    <3>2. QED
      BY <3>1
  <2>2. QED
    BY <1>1, <2>1
<1>3. Max(at) = Height[e]
  <2> HIDE DEF at
  <2>1. Max(at) \in at /\ \A y \in at : y <= Max(at)
    BY <1>1, <1>2, MaxOfBounded
  <2>2. Max(at) \in 0 .. Height[e] /\ Height[e] <= Max(at)
    BY <1>2, <2>1
  <2> DEFINE x == Max(at)
  <2> HIDE DEF x
  <2>3. x \in 0 .. Height[e] /\ Height[e] <= x
    BY <2>2 DEF x
  <2>4. x = Height[e]
    BY <1>1, <2>3
  <2>5. QED
    BY <2>4 DEF x
<1>4. ActiveAt(Height[e]) = {e}
  BY <1>1, RowsOfAChain DEF ActiveAt
<1>5. Newest({e}) = e
  <2>1. rank[e] \in Nat
    OBVIOUS
  <2>2. \A h \in {e} : (\A g \in {e} : rank[g] <= rank[h]) /\ h = e
    BY <2>1
  <2>3. QED
    BY <2>2 DEF Newest
<1>6. QED
  BY <1>1, <1>3, <1>4, <1>5

LEMMA TopKeeps ==
    ASSUME IInv, WorkInv, TipToHighest
    PROVE  IInv' /\ tip \in Ancestors(tip')
<1>1. Do("top") /\ Journal /\ WorkInv' /\ ~Do("insert")
  BY FlagsInv DEF TipToHighest, Do
<1>2. /\ tip' = IF active = {} THEN tip ELSE Newest(ActiveAt(Max({Height[h] : h \in active})))
      /\ todo' = Tail(todo)
      /\ rank' = rank /\ active' = active /\ linked' = linked /\ work' = work /\ pending' = pending /\ cuts' = cuts
  BY DEF TipToHighest
<1>3. rank \in [Header -> Nat]
  BY DEF WorkInv
<1>4. todo \in Seq(Steps) /\ todo # <<>>
  BY <1>1 DEF IInv, TypeOK, Do
<1>5. ASSUME NEW e \in Header, active = Ancestors(e) PROVE tip' = e /\ tip' \in Stored
  <2>1. tip' = e
    BY <1>2, <1>3, <1>5, TopOfAChain
  <2>2. e \in active
    BY <1>5, Kinship
  <2>3. QED
    BY <2>1, <2>2 DEF IInv, TypeOK
<1>6. PICK e \in Header : active = Ancestors(e) /\ tip \in Ancestors(e)
  BY ActiveIsAChain
<1>7. tip' = e /\ active' = Ancestors(tip') /\ e \in Ancestors(e)
  BY <1>2, <1>5, <1>6, Kinship
<1>8. /\ rank' \in [Header -> 0 .. Cardinality(Header)] /\ active' \subseteq Stored'
      /\ linked' \subseteq Stored' /\ tip' \in Stored' /\ Stored' = Stored /\ work' \in [Header -> Nat]
  BY <1>2, <1>5, <1>6 DEF IInv, TypeOK, Stored
<1>9. Still'
  <2>1. CASE Still
    BY <1>1, <1>2, <1>4, <1>7, <1>8, <2>1, Pops
  <2>2. CASE Bulk
    <3>1. PICK R \in Run, e1 \in Header, f \in Nat \ {0}, q \in Seq(Steps) :
               Writing(R, e1, <<>>, f, q) /\ todo = q /\ q = <<[do |-> "top"]>>
      BY <1>1, <2>2, BulkRest
    <3>2. todo' = <<>>
      <4>1. \A s : Tail(<<s>>) = <<>>
        OBVIOUS
      <4>2. QED
        BY <1>2, <3>1, <4>1
    <3>3. QED
      BY <1>7, <3>2, NothingLeft
  <2>3. QED
    BY <2>1, <2>2 DEF IInv
<1>10. IInv'
  BY <1>1, <1>2, <1>6, <1>7, <1>8, <1>9, Grows
<1>11. QED
  BY <1>6, <1>7, <1>10

\* Two steps that fit anywhere take the place of the head.
LEMMA PutsTwo ==
    ASSUME Still, todo \in Seq(Steps), todo # <<>>, Do("canon"),
           NEW s \in Steps, NEW t \in Steps, s.do = "link", t.do = "top",
           todo' = <<s, t>> \o Tail(todo),
           active' = Ancestors(tip'), Stored \subseteq Stored'
    PROVE  Still'
<1>1. Len(todo) \in Nat \ {0} /\ Len(todo') = Len(todo) + 1 /\ todo'[1] = s /\ todo'[2] = t
      /\ \A i \in 2 .. Len(todo) : todo'[i + 1] = todo[i]
  <2> DEFINE b == <<s, t>>
  <2>0. Len(todo) \in Nat \ {0} /\ Tail(todo) \in Seq(Steps) /\ Len(Tail(todo)) = Len(todo) - 1
        /\ \A i \in 1 .. Len(todo) - 1 : Tail(todo)[i] = todo[i + 1]
    OBVIOUS
  <2>1. b \in Seq(Steps) /\ Len(b) = 2 /\ b[1] = s /\ b[2] = t
    OBVIOUS
  <2> HIDE DEF b
  <2> DEFINE r == Tail(todo)
  <2>2. r \in Seq(Steps) /\ Len(r) = Len(todo) - 1 /\ todo' = b \o r
        /\ \A i \in 1 .. Len(todo) - 1 : r[i] = todo[i + 1]
    BY <2>0 DEF b
  <2> HIDE DEF r
  <2>3. Len(b \o r) = Len(b) + Len(r) /\ \A i \in 1 .. Len(b) + Len(r) : (b \o r)[i] = IF i <= Len(b) THEN b[i] ELSE r[i - Len(b)]
    BY <2>1, <2>2
  <2>4. ASSUME NEW i \in 2 .. Len(todo) PROVE todo'[i + 1] = todo[i]
    <3>1. i + 1 \in 1 .. Len(b) + Len(r) /\ ~(i + 1 <= Len(b)) /\ (i + 1) - Len(b) = i - 1
          /\ i - 1 \in 1 .. Len(todo) - 1 /\ (i - 1) + 1 = i
      BY <2>0, <2>1, <2>2
    <3>2. todo'[i + 1] = r[i - 1]
      BY <2>2, <2>3, <3>1
    <3>3. QED
      BY <2>2, <3>1, <3>2
  <2>5. todo'[1] = s /\ todo'[2] = t
    <3>1. 1 \in 1 .. Len(b) + Len(r) /\ 2 \in 1 .. Len(b) + Len(r)
      BY <2>0, <2>1, <2>2
    <3>2. QED
      BY <2>1, <2>2, <2>3, <3>1
  <2>6. Len(todo') = Len(todo) + 1
    BY <2>0, <2>1, <2>2, <2>3
  <2>7. QED
    BY <2>0, <2>4, <2>5, <2>6
<1>2. ASSUME NEW i \in 1 .. Len(todo') PROVE StepFits(i)'
  <2>1. CASE i = 1
    <3>1. todo'[i] = s
      BY <1>1, <2>1
    <3>2. QED
      BY <3>1 DEF StepFits, Kinds
  <2>2. CASE i = 2
    <3>1. todo'[i] = t
      BY <1>1, <2>2
    <3>2. QED
      BY <3>1 DEF StepFits, Kinds
  <2>3. CASE i # 1 /\ i # 2
    <3> DEFINE u == todo[i - 1]
    <3>1. i - 1 \in 2 .. Len(todo) /\ i - 1 \in 1 .. Len(todo) /\ (i - 1) + 1 = i /\ i \in Nat
      BY <1>1, <2>3
    <3>2. todo'[i] = u
      BY <1>1, <3>1
    <3>3. StepFits(i - 1)
      BY <3>1 DEF Still
    <3>4. u.do \in Kinds /\ u.do # "reorg" /\ (u.do = "canon" => u.after = <<>> /\ Chain(u.run))
          /\ (u.do = "retip" => u.h # Genesis)
      BY <3>1, <3>3 DEF StepFits
    <3>5. ASSUME u.do \in {"relink", "retip"}
          PROVE  u.h \in Stored' \/ \E j \in 1 .. i - 1 : todo'[j] = Insert(u.h)
      <4>1. CASE u.h \in Stored
        BY <4>1
      <4>2. CASE u.h \notin Stored
        <5>1. PICK j \in 1 .. (i - 1) - 1 : todo[j] = Insert(u.h)
          BY <3>3, <3>5, <4>2 DEF StepFits
        <5>2. j # 1
          <6>1. j = 1 => Head(todo) = Insert(u.h)
            BY <5>1
          <6>2. QED
            BY <6>1 DEF Do, Insert
        <5>3. j \in 2 .. Len(todo) /\ j + 1 \in 1 .. i - 1
          BY <1>1, <3>1, <5>2
        <5>4. todo'[j + 1] = Insert(u.h)
          BY <1>1, <5>1, <5>3
        <5>5. QED
          BY <5>3, <5>4
      <4>3. QED
        BY <4>1, <4>2
    <3> HIDE DEF u
    <3>6. QED
      BY <2>3, <3>2, <3>4, <3>5 DEF StepFits
  <2>4. QED
    BY <2>1, <2>2, <2>3
<1>3. QED
  BY <1>2 DEF Still

\* What canonicalize_pushed finds where the active rows are a chain.
LEMMA OutcomeOfAChain ==
    ASSUME NEW e \in Header, active = Ancestors(e), NEW R \in Run, Chain(R)
    PROVE  /\ Last(R) \in active => PushOutcome(R) = "active"
           /\ Last(R) \notin active => PushOutcome(R) = "storedInactive"
<1>1. Last(R) \in Header /\ Last(R) \in Range(R) /\ Range(R) \subseteq Ancestors(Last(R))
  BY AncestorsAreHeaders, RangeOfChain
<1>2. ASSUME Last(R) \in active PROVE PushOutcome(R) = "active"
  <2>1. Range(R) \subseteq active
    BY <1>1, <1>2, Descent
  <2>2. QED
    BY <2>1, AllActive
<1>3. ASSUME Last(R) \notin active PROVE PushOutcome(R) = "storedInactive"
  <2>1. ASSUME NEW c \in ChildrenOf(Last(R)) PROVE FALSE
    <3>1. c \in active /\ Height[c] = Height[Last(R)] + 1 /\ Parent[c] = Last(R) /\ c \in Header
      BY Kinship DEF ChildrenOf, ActiveAt
    <3>2. c # Genesis
      <4>1. Line[Genesis] = <<Genesis>>
        BY LineIsAChain, Kinship
      <4>2. Len(<<Genesis>>) = 1
        OBVIOUS
      <4>3. Height[Genesis] = 0
        <5>1. Genesis \in Header
          BY Kinship
        <5>2. Height[Genesis] = Len(Line[Genesis]) - 1
          BY <5>1 DEF Height
        <5>3. QED
          BY <4>1, <4>2, <5>2
      <4>4. Height[Last(R)] \in Nat
        BY <1>1, Kinship
      <4>5. QED
        BY <3>1, <4>3, <4>4
    <3>3. Last(R) \in Ancestors(c)
      BY <1>1, <3>1, <3>2, Kinship
    <3>4. QED
      BY <1>3, <3>1, <3>3, Descent
  <2>2. ChildrenOf(Last(R)) = {}
    BY <2>1
  <2>3. ActiveAt(Height[Last(R)]) # {Last(R)}
    BY <1>3 DEF ActiveAt
  <2>4. QED
    BY <1>1, <2>2, <2>3 DEF PushOutcome
<1>4. QED
  BY <1>2, <1>3

LEMMA CanonKeeps ==
    ASSUME IInv, WorkInv, Canonicalize
    PROVE  IInv'
<1> DEFINE run == Head(todo).run
           link == [do |-> "link", span |-> Height[run[1]] .. Height[Last(run)] + 1]
           top == [do |-> "top"]
<1>1. Do("canon") /\ Journal /\ WorkInv' /\ ~Do("insert")
  BY CanonInv DEF Canonicalize, Do
<1>2. todo \in Seq(Steps) /\ todo # <<>> /\ run \in Run /\ Tail(todo) \in Seq(Steps)
  BY <1>1, HeadFits, HeadStep, StepShapes
<1>3. PICK e \in Header : active = Ancestors(e)
  BY ActiveIsAChain
<1>4. (Still => Chain(run) /\ Head(todo).after = <<>>)
  BY <1>1, HeadFits
<1>5. link \in Steps /\ top \in Steps /\ <<link, top>> \in Seq(Steps)
  <2>1. Height[run[1]] .. Height[Last(run)] + 1 \in SUBSET Int
    BY <1>2, AncestorsAreHeaders, Kinship
  <2>2. QED
    BY <1>2, <2>1, RestSteps
<1>6. ASSUME PushOutcome(run) = "active"
      PROVE  /\ todo' = <<link, top>> \o Tail(todo) \o Head(todo).after
             /\ rank' = rank /\ active' = active /\ linked' = linked /\ work' = work /\ tip' = tip
             /\ pending' = pending /\ cuts' = cuts
  BY <1>6 DEF Canonicalize, rows
<1>7. CASE Still
  <2>1. Chain(run) /\ Head(todo).after = <<>>
    BY <1>4, <1>7
  <2>2. CASE Last(run) \in active
    <3>1. PushOutcome(run) = "active"
      BY <1>2, <1>3, <2>1, <2>2, OutcomeOfAChain
    <3>2. todo' = <<link, top>> \o Tail(todo)
      <4>1. \A q \in Seq(Steps) : q \o <<>> = q
        OBVIOUS
      <4>2. <<link, top>> \o Tail(todo) \in Seq(Steps)
        BY <1>2, <1>5
      <4>3. QED
        BY <1>6, <2>1, <3>1, <4>1, <4>2
    <3>3. active' = Ancestors(tip') /\ Stored' = Stored
      BY <1>6, <1>7, <3>1 DEF Still, Stored
    <3>4. link.do = "link" /\ top.do = "top"
      OBVIOUS
    <3> HIDE DEF link, top
    <3>5. Still'
      BY <1>1, <1>2, <1>5, <1>7, <3>2, <3>3, <3>4, PutsTwo
    <3>6. QED
      BY <1>1, <1>6, <3>1, <3>5, RowsStand
  <2>3. CASE Last(run) \notin active
    <3>1. PushOutcome(run) = "storedInactive"
      BY <1>2, <1>3, <2>1, <2>3, OutcomeOfAChain
    <3>2. Skip
      BY <3>1 DEF Canonicalize
    <3>3. QED
      BY <1>1, <1>2, <1>7, <2>3, <3>2, SkipStands
  <2>4. QED
    BY <2>2, <2>3
<1>8. CASE Bulk
  <2>1. PICK R \in Run, e1 \in Header, f \in Nat \ {0}, q \in Seq(Steps) :
             Writing(R, e1, <<>>, f, q) /\ q # <<>> /\ todo = q /\ q = Canon(R, <<>>)
    BY <1>1, <1>8, BulkRest
  <2>2. run = R /\ Head(todo).after = <<>> /\ Tail(todo) = <<>>
    <3>1. \A s : Head(<<s>>) = s /\ Tail(<<s>>) = <<>>
      OBVIOUS
    <3>2. QED
      BY <2>1, <3>1 DEF Canon
  <2>3. PushOutcome(run) = "active"
    <3>1. f > Len(R) /\ \A j \in 1 .. Len(R) : j < f => R[j] \in active
      BY <2>1 DEF Writing, Chunked
    <3>2. DOMAIN R = 1 .. Len(R) /\ Len(R) \in Nat
      BY DEF Run
    <3>3. Range(R) \subseteq active
      BY <3>1, <3>2 DEF Range
    <3>4. QED
      BY <1>3, <2>2, <3>3, AllActive
  <2>4. todo' = <<link, top>>
    <3>1. \A s : s \in Seq(Steps) => s \o <<>> \o <<>> = s
      OBVIOUS
    <3>2. QED
      BY <1>5, <1>6, <2>2, <2>3, <3>1
  <2>5. <<link, top>> \in Rests(R) /\ <<link, top>> # <<>>
    <3>1. Height[run[1]] .. Height[Last(run)] + 1 \in SUBSET Int
      BY <1>2, AncestorsAreHeaders, Kinship
    <3>2. QED
      BY <3>1, RestSteps
  <2> HIDE DEF link, top
  <2>6. Bulk'
    BY <1>5, <1>6, <2>1, <2>3, <2>4, <2>5, NextRest
  <2>7. IInv'
    BY <1>1, <1>6, <2>3, <2>6, RowsStand
  <2>8. QED
    BY <2>3, <2>7
<1>9. QED
  BY <1>7, <1>8 DEF IInv

\* What a push hands to canonicalize_pushed is a chain.
LEMMA CanonRuns ==
    ASSUME IInv, Do("canon") PROVE Head(todo).run \in Run /\ Chain(Head(todo).run)
<1>1. Head(todo).run \in Run /\ Chain(Head(todo).run)
  <2>1. CASE Still
    <3>1. Head(todo) \in Steps /\ Head(todo).do = "canon" /\ Head(todo) = todo[1] /\ 1 \in 1 .. Len(todo)
      <4>1. todo \in Seq(Steps) /\ todo # <<>>
        BY DEF IInv, TypeOK, Do
      <4>2. QED
        BY <4>1 DEF Do
    <3>2. StepFits(1)
      BY <2>1, <3>1 DEF Still
    <3>3. QED
      BY <3>1, <3>2, StepShapes DEF StepFits
  <2>2. CASE Bulk
    <3>1. PICK R \in Run, e1 \in Header, f \in Nat \ {0}, q \in Seq(Steps) :
               Writing(R, e1, <<>>, f, q) /\ todo = q /\ q = Canon(R, <<>>)
      BY <2>2, BulkRest
    <3>2. \A s : Head(<<s>>) = s
      OBVIOUS
    <3>3. QED
      BY <3>1, <3>2 DEF Canon, Writing
  <2>3. QED
    BY <2>1, <2>2 DEF IInv
<1>2. QED
  BY <1>1

\* canonicalize_pushed activates nothing where the active rows are a chain.
LEMMA NothingActivated ==
    ASSUME IInv, Do("canon") PROVE PushOutcome(Head(todo).run) # "activated"
<1>1. PICK e \in Header : active = Ancestors(e)
  BY ActiveIsAChain
<1>2. QED
  BY <1>1, CanonRuns, OutcomeOfAChain

LEMMA InactiveAnswer ==
    ASSUME IInv PROVE StoredInactiveIsInactive
<1>1. SUFFICES ASSUME Do("canon"), PushOutcome(Head(todo).run) = "storedInactive"
               PROVE  Last(Head(todo).run) \notin active
  BY DEF StoredInactiveIsInactive
<1>2. PICK e \in Header : active = Ancestors(e)
  BY ActiveIsAChain
<1>3. Head(todo).run \in Run /\ Chain(Head(todo).run)
  BY <1>1, CanonRuns
<1>4. QED
  BY <1>1, <1>2, <1>3, OutcomeOfAChain

\* One chunk fewer.
LEMMA ChunksLeft ==
    ASSUME NEW R \in Run, NEW f \in Nat \ {0}, NEW c \in Seq(Steps), c # <<>>, Chunked(c, R, f)
    PROVE  Chunked(Tail(c), R, f + ChunkSize) /\ Tail(c) \in Seq(Steps)
<1>1. Len(c) \in Nat \ {0} /\ Tail(c) \in Seq(Steps) /\ Len(Tail(c)) = Len(c) - 1
      /\ \A i \in 1 .. Len(c) - 1 : Tail(c)[i] = c[i + 1]
  OBVIOUS
<1>2. /\ \A i \in 1 .. Len(c) : c[i].do = "chunk" /\ c[i].run = R
      /\ c[1].from = f /\ c[Len(c)].from + ChunkSize > Len(R)
      /\ \A i \in 1 .. Len(c) - 1 : c[i + 1].from = c[i].from + ChunkSize
  BY DEF Chunked
<1> DEFINE d == Tail(c)
<1>3. d \in Seq(Steps) /\ Len(d) = Len(c) - 1 /\ \A i \in 1 .. Len(c) - 1 : d[i] = c[i + 1]
  BY <1>1
<1> HIDE DEF d
<1>4. \A i \in 1 .. Len(d) : d[i].do = "chunk" /\ d[i].run = R
  <2>1. \A i \in 1 .. Len(c) - 1 : i + 1 \in 1 .. Len(c)
    BY <1>1
  <2>2. QED
    BY <1>2, <1>3, <2>1
<1>5. \A i \in 1 .. Len(d) - 1 : d[i + 1].from = d[i].from + ChunkSize
  <2>1. ASSUME NEW i \in 1 .. Len(d) - 1 PROVE d[i + 1].from = d[i].from + ChunkSize
    <3>1. i \in 1 .. Len(c) - 1 /\ i + 1 \in 1 .. Len(c) - 1
      BY <1>1, <1>3
    <3>2. d[i] = c[i + 1] /\ d[i + 1] = c[(i + 1) + 1]
      BY <1>3, <3>1
    <3>3. c[(i + 1) + 1].from = c[i + 1].from + ChunkSize
      BY <1>2, <3>1
    <3>4. QED
      BY <3>2, <3>3
  <2>2. QED
    BY <2>1
<1>6. IF d = <<>> THEN f + ChunkSize > Len(R) ELSE d[1].from = f + ChunkSize /\ d[Len(d)].from + ChunkSize > Len(R)
  <2>1. CASE d = <<>>
    <3>1. Len(d) = 0
      BY <2>1
    <3>2. Len(c) = 1
      <4>1. Len(c) \in Nat \ {0} /\ Len(d) = Len(c) - 1
        BY <1>1, <1>3
      <4>2. QED
        BY <3>1, <4>1
    <3>3. QED
      BY <1>2, <2>1, <3>2
  <2>2. CASE d # <<>>
    <3>1. Len(c) - 1 \in 1 .. Len(c) - 1 /\ 1 \in 1 .. Len(c) - 1 /\ Len(d) = Len(c) - 1
          /\ (Len(c) - 1) + 1 = Len(c)
      BY <1>1, <1>3, <2>2
    <3>2. d[1] = c[1 + 1] /\ d[Len(d)] = c[Len(c)]
      BY <1>3, <3>1
    <3>3. c[1 + 1].from = c[1].from + ChunkSize
      BY <1>2, <3>1
    <3>4. QED
      BY <1>2, <2>2, <3>2, <3>3
  <2>3. QED
    BY <2>1, <2>2
<1>7. Chunked(d, R, f + ChunkSize)
  BY <1>4, <1>5, <1>6 DEF Chunked
<1>8. QED
  BY <1>3, <1>7 DEF d

\* What one chunk of R hands over: pieces of it from the f-th on.
PieceOf(R, f) == {R[i] : i \in f .. Min({Len(R), f + ChunkSize - 1})}

LEMMA Piece ==
    ASSUME NEW R \in Run, Chain(R), NEW f \in Nat \ {0}, NEW here, here = PieceOf(R, f)
    PROVE  /\ here \subseteq Ancestors(Last(R)) /\ here \subseteq Header
           /\ \A j \in 1 .. Len(R) : f <= j /\ j < f + ChunkSize => R[j] \in here
           /\ \A h \in here : R[1] \in Ancestors(h)
           /\ here # {} => \E m \in 1 .. Len(R) :
                 /\ here \subseteq Ancestors(R[m])
                 /\ \A g \in Ancestors(R[m]) : \/ g \in here
                                               \/ \E j \in 1 .. Len(R) : j < f /\ g = R[j]
                                               \/ R[1] # Genesis /\ g \in Ancestors(Parent[R[1]])
<1> DEFINE m == Min({Len(R), f + ChunkSize - 1})
<1>1. Len(R) \in Nat \ {0} /\ ChunkSize \in Nat \ {0} /\ f + ChunkSize - 1 \in Nat /\ Last(R) = R[Len(R)]
  BY StoreAssumption DEF Run, Last
<1>2. m \in {Len(R), f + ChunkSize - 1} /\ m <= Len(R) /\ m <= f + ChunkSize - 1
  BY <1>1, MinOfTwo
<1>3. here = {R[i] : i \in f .. m}
  BY DEF PieceOf
<1> HIDE DEF m
<1>4. m \in Nat /\ (\A i \in f .. m : i \in 1 .. Len(R) /\ i \in 1 .. m)
  BY <1>1, <1>2
<1>5. \A j \in 1 .. Len(R) :
              /\ R[j] \in Header
              /\ \A i \in 1 .. j : R[i] \in Ancestors(R[j])
              /\ \A g \in Ancestors(R[j]) :
                    \/ \E i \in 1 .. j : g = R[i]
                    \/ R[1] # Genesis /\ g \in Ancestors(Parent[R[1]])
  BY ChainMembers
<1>6. here \subseteq Ancestors(Last(R)) /\ here \subseteq Header
  <2>1. \A i \in 1 .. Len(R) : R[i] \in Ancestors(R[Len(R)]) /\ R[i] \in Header
    BY <1>1, <1>5
  <2>2. QED
    BY <1>1, <1>3, <1>4, <2>1
<1>7. \A j \in 1 .. Len(R) : f <= j /\ j < f + ChunkSize => R[j] \in here
  <2>1. \A j \in 1 .. Len(R) : f <= j /\ j < f + ChunkSize => j \in f .. m
    BY <1>1, <1>2
  <2>2. QED
    BY <1>3, <2>1
<1>8. \A h \in here : R[1] \in Ancestors(h)
  <2>1. ASSUME NEW i \in f .. m PROVE R[1] \in Ancestors(R[i])
    <3>1. i \in 1 .. Len(R) /\ 1 \in 1 .. i
      BY <1>4
    <3>2. QED
      BY <1>5, <3>1
  <2>2. QED
    BY <1>3, <2>1
<1>9. ASSUME here # {}
      PROVE  /\ m \in 1 .. Len(R) /\ here \subseteq Ancestors(R[m])
             /\ \A g \in Ancestors(R[m]) : \/ g \in here
                                           \/ \E j \in 1 .. Len(R) : j < f /\ g = R[j]
                                           \/ R[1] # Genesis /\ g \in Ancestors(Parent[R[1]])
  <2>1. m \in 1 .. Len(R)
    BY <1>1, <1>2, <1>3, <1>4, <1>9
  <2>2. here \subseteq Ancestors(R[m])
    BY <1>3, <1>4, <1>5, <2>1
  <2>3. ASSUME NEW i \in 1 .. m PROVE R[i] \in here \/ \E j \in 1 .. Len(R) : j < f /\ R[i] = R[j]
    <3>1. i \in 1 .. Len(R) /\ (i < f \/ i \in f .. m)
      BY <2>1
    <3>2. QED
      BY <1>3, <3>1
  <2>4. ASSUME NEW g \in Ancestors(R[m])
        PROVE  \/ g \in here
               \/ \E j \in 1 .. Len(R) : j < f /\ g = R[j]
               \/ R[1] # Genesis /\ g \in Ancestors(Parent[R[1]])
    <3>1. CASE R[1] # Genesis /\ g \in Ancestors(Parent[R[1]])
      BY <3>1
    <3>2. CASE \E i \in 1 .. m : g = R[i]
      BY <2>3, <3>2
    <3>3. QED
      BY <1>5, <2>1, <3>1, <3>2
  <2>5. QED
    BY <2>1, <2>2, <2>4
<1>10. QED
  BY <1>6, <1>7, <1>8, <1>9

\* The rows a chunk writes are its rows that are not active.
LEMMA WrittenOfAChain ==
    ASSUME NEW h \in Header, NEW e \in Ancestors(h), active = Ancestors(e), active \subseteq Stored,
           NEW here \in SUBSET Ancestors(h)
    PROVE  (here \ Stored) \cup {g \in here : ActivatesStored(g)} = here \ active
<1>1. ASSUME NEW g \in here, g \notin active PROVE ActiveAt(Height[g]) = {}
  <2>1. ASSUME NEW a \in ActiveAt(Height[g]) PROVE FALSE
    <3>1. a \in Ancestors(h) /\ g \in Ancestors(h) /\ Height[a] = Height[g] /\ a \in active
      BY Descent DEF ActiveAt
    <3>2. Height[a] \in Nat /\ Height[g] \in Nat /\ a \in Header /\ g \in Header
      BY <3>1, Descent, Kinship
    <3>3. Height[a] <= Height[g]
      BY <3>1, <3>2
    <3>4. a \in Ancestors(g)
      BY <3>1, <3>3, Linear
    <3>5. a = g
      BY <3>1, <3>2, <3>4, Descent
    <3>6. QED
      BY <1>1, <3>1, <3>5
  <2>2. QED
    BY <2>1
<1>2. QED
  BY <1>1 DEF ActivatesStored

LEMMA RunningWorkIsNat ==
    ASSUME work \in [Header -> Nat], NEW run \in Run, NEW h \in Header, run[1] \in Ancestors(h)
    PROVE  LET base == IF HasParent(run[1]) THEN work[Parent[run[1]]] ELSE 0
           IN  base + TrueWork[h] - (TrueWork[run[1]] - Weight[run[1]]) \in Nat
<1> DEFINE b == IF HasParent(run[1]) THEN work[Parent[run[1]]] ELSE 0
           x == TrueWork[h]
           y == TrueWork[run[1]]
           w == Weight[run[1]]
<1>1. run[1] \in Header
  BY AncestorsAreHeaders
<1>2. b \in Nat
  <2>1. HasParent(run[1]) => Parent[run[1]] \in Header
    BY DEF HasParent, Stored
  <2>2. QED
    BY <2>1
<1>3. x \in Nat /\ y \in Nat /\ w \in Nat /\ y <= x
  BY <1>1, StoreAssumption, WorkOfAChain, WorkGrows
<1> HIDE DEF b, x, y, w
<1>4. b + x - (y - w) \in Nat
  BY <1>2, <1>3
<1>5. QED
  BY <1>4 DEF b, x, y, w

\* The first f - 1 headers of R are written, above the tip t or below it.
WrittenTo(R, f, e, t) ==
    /\ active = Ancestors(e) /\ t \in Ancestors(e)
    /\ e = t \/ e \in Ancestors(Last(R))
    /\ Last(R) \in Ancestors(t) \/ t \in Ancestors(Last(R))
    /\ R[1] # Genesis => Parent[R[1]] \in active
    /\ \A j \in 1 .. Len(R) : j < f => R[j] \in active

\* A piece of a run that stands on the active chain is on it, or goes on from its top.
LEMMA PieceOnAChain ==
    ASSUME NEW R \in Run, Chain(R), NEW f \in Nat \ {0}, NEW e \in Header, NEW t \in Header,
           WrittenTo(R, f, e, t), active \subseteq Stored,
           NEW here, here = PieceOf(R, f)
    PROVE  /\ (here \ Stored) \cup {g \in here : ActivatesStored(g)} = here \ active
           /\ \E e2 \in Header : /\ active \cup here = Ancestors(e2) /\ e \in Ancestors(e2)
                                 /\ e2 = e \/ e2 \in Ancestors(Last(R))
<1>1. /\ here \subseteq Ancestors(Last(R)) /\ here \subseteq Header
      /\ here # {} => \E m \in 1 .. Len(R) :
            /\ here \subseteq Ancestors(R[m])
            /\ \A g \in Ancestors(R[m]) : \/ g \in here
                                          \/ \E j \in 1 .. Len(R) : j < f /\ g = R[j]
                                          \/ R[1] # Genesis /\ g \in Ancestors(Parent[R[1]])
  BY Piece
<1>0. /\ active = Ancestors(e) /\ t \in Ancestors(e)
      /\ e = t \/ e \in Ancestors(Last(R))
      /\ Last(R) \in Ancestors(t) \/ t \in Ancestors(Last(R))
      /\ R[1] # Genesis => Parent[R[1]] \in active
      /\ \A j \in 1 .. Len(R) : j < f => R[j] \in active
  BY DEF WrittenTo
<1>2. Last(R) \in Header /\ e \in Ancestors(e)
  BY <1>0, AncestorsAreHeaders, Kinship
<1>3. CASE here \subseteq active
  <2>1. active \cup here = Ancestors(e)
    BY <1>0, <1>3
  <2>2. (here \ Stored) \cup {g \in here : ActivatesStored(g)} = here \ active
    BY <1>0, <1>3 DEF ActivatesStored
  <2>3. QED
    BY <1>0, <1>2, <2>1, <2>2
<1>4. CASE ~(here \subseteq active)
  <2>1. PICK h \in here : h \notin active
    BY <1>0, <1>4
  <2>2. e \in Ancestors(Last(R))
    <3>1. Last(R) \notin Ancestors(e)
      BY <1>0, <1>1, <1>2, <2>1, Descent
    <3>2. Last(R) \in Ancestors(t) => Last(R) \in Ancestors(e)
      BY <1>0, Descent
    <3>3. QED
      BY <1>0, <3>1, <3>2
  <2>3. PICK m \in 1 .. Len(R) :
            /\ here \subseteq Ancestors(R[m])
            /\ \A g \in Ancestors(R[m]) : \/ g \in here
                                          \/ \E j \in 1 .. Len(R) : j < f /\ g = R[j]
                                          \/ R[1] # Genesis /\ g \in Ancestors(Parent[R[1]])
    BY <1>0, <1>1, <2>1
  <2>4. R[m] \in Ancestors(Last(R)) /\ R[m] \in Header
    <3>1. R[m] \in Range(R)
      <4>1. DOMAIN R = 1 .. Len(R)
        BY DEF Run
      <4>2. QED
        BY <1>0, <4>1 DEF Range
    <3>2. QED
      BY <1>0, <3>1, RangeOfChain, AncestorsAreHeaders
  <2>5. R[m] \notin Ancestors(e)
    BY <1>0, <2>1, <2>3, Descent
  <2>6. e \in Ancestors(R[m])
    BY <1>0, <1>2, <2>2, <2>4, <2>5, Comparable
  <2>7. ASSUME NEW g \in Ancestors(R[m]) PROVE g \in active \cup here
    <3>1. CASE R[1] # Genesis /\ g \in Ancestors(Parent[R[1]])
      <4>1. Parent[R[1]] \in Ancestors(e)
        BY <1>0, <3>1
      <4>2. QED
        BY <1>0, <3>1, <4>1, Descent
    <3>2. QED
      BY <1>0, <2>3, <3>1
  <2>8. active \cup here = Ancestors(R[m])
    <3>1. Ancestors(e) \subseteq Ancestors(R[m])
      BY <1>0, <2>4, <2>6, Descent
    <3>2. QED
      BY <1>0, <2>3, <2>7, <3>1
  <2>9. (here \ Stored) \cup {g \in here : ActivatesStored(g)} = here \ active
    BY <1>0, <1>1, <1>2, <2>2, WrittenOfAChain
  <2>10. QED
    BY <1>0, <2>4, <2>6, <2>8, <2>9
<1>5. QED
  BY <1>0, <1>3, <1>4

LEMMA ChunkKeeps ==
    ASSUME IInv, WorkInv, BatchChunk PROVE IInv'
<1>1. Do("chunk") /\ Journal /\ WorkInv'
  BY ChunkInv DEF BatchChunk
<1>2. PICK R \in Run, e \in Header, c \in Seq(Steps), f \in Nat \ {0}, q \in Seq(Steps) :
           Writing(R, e, c, f, q)
  BY <1>1, LiveIsStill DEF Bulk
<1>3. c # <<>> /\ Head(todo) = c[1] /\ Tail(todo) = Tail(c) \o q
  BY <1>1, <1>2, BulkHead
<1>4. Head(todo).run = R /\ Head(todo).from = f
  <2>1. 1 \in 1 .. Len(c)
    BY <1>3
  <2>2. c[1].run = R /\ c[1].from = f
    BY <1>2, <1>3, <2>1 DEF Writing, Chunked
  <2>3. QED
    BY <1>3, <2>2
<1> DEFINE here == PieceOf(R, f)
           fresh == here \ Stored
           written == fresh \cup {h \in here : ActivatesStored(h)}
           base == IF HasParent(R[1]) THEN work[Parent[R[1]]] ELSE 0
           running(h) == base + TrueWork[h] - (TrueWork[R[1]] - Weight[R[1]])
<1>5. /\ rank' = [h \in Header |-> IF h \in fresh THEN NewRank(h) ELSE rank[h]]
      /\ active' = active \cup written
      /\ work' = [h \in Header |-> IF h \in written THEN running(h) ELSE work[h]]
      /\ todo' = Tail(c) \o q
      /\ linked' = linked /\ tip' = tip /\ pending' = pending /\ cuts' = cuts
  BY <1>3, <1>4 DEF BatchChunk, PieceOf
<1>6. /\ Chunked(c, R, f) /\ q \in Rests(R) /\ Chain(R) /\ active = Ancestors(e) /\ tip \in Ancestors(e)
      /\ e = tip \/ e \in Ancestors(Last(R))
      /\ Last(R) \in Ancestors(tip) \/ tip \in Ancestors(Last(R))
      /\ q = <<>> => Last(R) \in Ancestors(tip)
      /\ R[1] # Genesis => Parent[R[1]] \in active
      /\ \A j \in 1 .. Len(R) : j < f => R[j] \in active
  BY <1>2 DEF Writing
<1>7. active \subseteq Stored /\ work \in [Header -> Nat] /\ linked \subseteq Stored /\ tip \in Stored
      /\ rank \in [Header -> 0 .. Cardinality(Header)]
  BY DEF IInv, TypeOK
<1>8. /\ here \subseteq Header
      /\ \A j \in 1 .. Len(R) : f <= j /\ j < f + ChunkSize => R[j] \in here
      /\ \A h \in here : R[1] \in Ancestors(h)
  <2>1. here = PieceOf(R, f)
    OBVIOUS
  <2> HIDE DEF here
  <2>2. QED
    BY <1>6, <2>1, Piece
<1>9. /\ written = here \ active
      /\ \E e2 \in Header : /\ active \cup here = Ancestors(e2) /\ e \in Ancestors(e2)
                            /\ e2 = e \/ e2 \in Ancestors(Last(R))
  <2>1. here = PieceOf(R, f)
    OBVIOUS
  <2>2. written = (here \ Stored) \cup {g \in here : ActivatesStored(g)}
    OBVIOUS
  <2> HIDE DEF here, written
  <2>3. QED
    <3>1. WrittenTo(R, f, e, tip) /\ tip \in Header
      BY <1>6, <1>7 DEF WrittenTo, Stored
    <3>2. Chain(R) /\ active \subseteq Stored
      BY <1>6, <1>7
    <3>3. /\ (here \ Stored) \cup {g \in here : ActivatesStored(g)} = here \ active
          /\ \E e2 \in Header : /\ active \cup here = Ancestors(e2) /\ e \in Ancestors(e2)
                                /\ e2 = e \/ e2 \in Ancestors(Last(R))
      BY <2>1, <3>1, <3>2, PieceOnAChain
    <3>4. QED
      BY <2>2, <3>3
<1>10. PICK e2 \in Header : /\ active \cup here = Ancestors(e2) /\ e \in Ancestors(e2)
                            /\ e2 = e \/ e2 \in Ancestors(Last(R))
  BY <1>9
<1>11. fresh \subseteq written /\ fresh \cap Stored = {}
  OBVIOUS
<1>11a. \A h \in here : h \in Stored \/ h \in fresh
  OBVIOUS
<1> HIDE DEF here, fresh, written
<1>12. active' = Ancestors(e2) /\ active' = active \cup here
  BY <1>5, <1>9, <1>10
<1>13. rank' \in [Header -> 0 .. Cardinality(Header)] /\ Stored' = Stored \cup fresh
  <2>1. fresh \subseteq Header
    BY <1>8, <1>9, <1>11
  <2>2. \A h \in fresh : NewRank(h) \in 0 .. Cardinality(Header) /\ NewRank(h) > 0
    <3>1. ASSUME NEW h \in fresh
          PROVE NewRank(h) \in 0 .. Cardinality(Header) /\ NewRank(h) > 0
      <4>1. h \in Header /\ h \notin Stored
        BY <1>11, <2>1
      <4>2. NewRank(h) \in 1 .. Cardinality(Header) /\ Cardinality(Header) \in Nat
        BY <4>1, NewRankIsARank, StoreAssumption, FS_CardinalityType
      <4>3. QED
        BY <4>2
    <3>2. QED
      BY <3>1
  <2>3. rank' \in [Header -> 0 .. Cardinality(Header)]
    BY <1>5, <1>7, <2>2
  <2>4. \A h \in Header : rank'[h] = IF h \in fresh THEN NewRank(h) ELSE rank[h]
    BY <1>5
  <2>5. Stored' = Stored \cup fresh
    BY <2>1, <2>2, <2>4 DEF Stored
  <2>6. QED
    BY <2>3, <2>5
<1>14. work' \in [Header -> Nat]
  <2>1. ASSUME NEW h \in written PROVE running(h) \in Nat
    <3>1. h \in Header /\ R[1] \in Ancestors(h)
      BY <1>8, <1>9
    <3>2. QED
      BY <1>7, <3>1, RunningWorkIsNat
  <2> HIDE DEF running
  <2>2. QED
    BY <1>5, <1>7, <2>1
<1>15. active' \subseteq Stored' /\ linked' \subseteq Stored' /\ tip' \in Stored'
  BY <1>5, <1>7, <1>11a, <1>12, <1>13
<1>16. f + ChunkSize \in Nat \ {0} /\ ChunkSize \in Nat \ {0}
  BY StoreAssumption
<1>17. Bulk'
  <2>1. Chunked(Tail(c), R, f + ChunkSize) /\ Tail(c) \in Seq(Steps)
    BY <1>3, <1>6, ChunksLeft
  <2>2. tip' \in Ancestors(e2)
    BY <1>5, <1>6, <1>10, Descent
  <2>3. e2 = tip' \/ e2 \in Ancestors(Last(R))
    BY <1>5, <1>6, <1>10
  <2>4. \A j \in 1 .. Len(R) : j < f + ChunkSize => R[j] \in active'
    <3>1. ASSUME NEW j \in 1 .. Len(R), j < f + ChunkSize PROVE R[j] \in active'
      <4>1. CASE j < f
        BY <1>6, <1>12, <4>1
      <4>2. CASE f <= j
        BY <1>8, <1>12, <3>1, <4>2
      <4>3. QED
        BY <4>1, <4>2
    <3>2. QED
      BY <3>1
  <2>5. R[1] # Genesis => Parent[R[1]] \in active'
    BY <1>6, <1>12
  <2>6. Writing(R, e2, Tail(c), f + ChunkSize, q)'
    BY <1>5, <1>6, <1>12, <2>1, <2>2, <2>3, <2>4, <2>5 DEF Writing
  <2>7. QED
    BY <1>16, <2>1, <2>6 DEF Bulk
<1>18. QED
  BY <1>1, <1>5, <1>6, <1>10, <1>12, <1>13, <1>14, <1>15, <1>17, Grows

-----------------------------------------------------------------------------
(* The operations. *)

\* Steps that fit wherever they stand in a queue.
Mild == {s \in Steps : \/ s.do \in {"insert", "dedupe", "top", "repair"}
                       \/ s.do = "canon" /\ s.after = <<>> /\ Chain(s.run)}

LEMMA MildSteps ==
    /\ \A q \in Seq(Header) : Inserts(q) \in Seq(Mild)
    /\ \A h \in Header : Insert(h) \in Mild
    /\ Sweep \in Seq(Mild) /\ <<[do |-> "repair"]>> \in Seq(Mild)
    /\ \A run \in Run : Chain(run) => Canon(run, <<>>) \in Seq(Mild)
<1>1. \A h \in Header : Insert(h) \in Mild
  BY StepMakers DEF Insert, Mild
<1>2. \A q \in Seq(Header) : Inserts(q) \in Seq(Mild)
  <2>1. ASSUME NEW q \in Seq(Header) PROVE Inserts(q) \in Seq(Mild)
    <3>1. \A i \in 1 .. Len(q) : Insert(q[i]) \in Mild
      BY <1>1
    <3>2. QED
      BY <3>1 DEF Inserts
  <2>2. QED
    BY <2>1
<1>3. [do |-> "dedupe"] \in Mild /\ [do |-> "top"] \in Mild /\ [do |-> "repair"] \in Mild
  BY StepMakers DEF Mild
<1>4. \A run \in Run : Chain(run) => [do |-> "canon", run |-> run, after |-> <<>>] \in Mild
  <2>1. <<>> \in Seq(Windows)
    OBVIOUS
  <2>2. QED
    BY <2>1, StepMakers DEF Mild
<1>5. \A x, y \in Mild : <<x>> \in Seq(Mild) /\ <<x, y>> \in Seq(Mild)
  OBVIOUS
<1>6. QED
  BY <1>1, <1>2, <1>3, <1>4, <1>5 DEF Sweep, Canon

\* Between operations a queue of mild steps may start, and a relink of a row
\* that is stored, or that the first of them inserts.
LEMMA StartStands ==
    ASSUME IInv, WorkInv', NEW h \in Header, NEW steps, Start(steps),
           steps \in Seq(Mild \cup {[do |-> "relink", h |-> h]}),
           h \in Stored \/ steps[1] = Insert(h)
    PROVE  IInv'
<1>1. /\ rank' = rank /\ active' = active /\ linked' = linked /\ work' = work /\ tip' = tip
      /\ pending' = pending /\ cuts' = cuts /\ changed' = changed /\ todo' = steps /\ todo = <<>>
  BY DEF Start, rows
<1>2. active' = Ancestors(tip') /\ Stored' = Stored
  BY <1>1, EmptyIsStill DEF Stored
<1>3. ASSUME NEW i \in 1 .. Len(todo') PROVE StepFits(i)'
  <2> DEFINE s == steps[i]
  <2>1. s \in Mild \cup {[do |-> "relink", h |-> h]} /\ todo'[i] = s
    BY <1>1
  <2>2. s \in Mild => s.do \in {"insert", "dedupe", "top", "repair", "canon"}
                      /\ (s.do = "canon" => s.after = <<>> /\ Chain(s.run))
    BY DEF Mild
  <2>3. s \notin Mild => s.do = "relink" /\ s.h = h
    BY <2>1
  <2>4. s \notin Mild => i = 1 \/ 1 \in 1 .. i - 1
    BY <1>1
  <2>5. s \notin Mild /\ i = 1 => h \in Stored'
    <3>1. Insert(h).do = "insert"
      BY DEF Insert
    <3>2. QED
      BY <1>2, <2>3, <3>1
  <2>6. s \notin Mild => s.h \in Stored' \/ \E j \in 1 .. i - 1 : todo'[j] = Insert(s.h)
    BY <1>1, <1>2, <2>3, <2>4, <2>5
  <2> HIDE DEF s
  <2>7. QED
    BY <2>1, <2>2, <2>3, <2>6 DEF StepFits, Kinds
<1>4. Still'
  BY <1>2, <1>3 DEF Still
<1>5. TypeOK'
  <2>1. todo' \in Seq(Steps)
    BY DEF WorkInv
  <2>2. QED
    BY <1>1, <1>2, <2>1 DEF IInv, TypeOK
<1>6. QED
  BY <1>1, <1>2, <1>4, <1>5 DEF IInv, Covered

LEMMA MildStands ==
    ASSUME IInv, WorkInv', NEW steps \in Seq(Mild), Start(steps)
    PROVE  IInv'
<1>1. tip \in Header /\ tip \in Stored
  BY ActiveIsAChain DEF IInv
<1>2. steps \in Seq(Mild \cup {[do |-> "relink", h |-> tip]})
  OBVIOUS
<1>3. QED
  BY <1>1, <1>2, StartStands

LEMMA LiveKeeps ==
    ASSUME IInv, WorkInv, NEW h \in Header, LiveInsert(h) PROVE IInv'
<1> DEFINE S == Mild \cup {[do |-> "relink", h |-> h]}
           walk == Inserts(Missing(h, Backfill)) \o <<[do |-> "relink", h |-> h]>>
<1>1. WorkInv'
  BY LiveInv
<1>2. walk \in Seq(S)
  <2>1. Inserts(Missing(h, Backfill)) \in Seq(Mild)
    BY MissingIsARun, MildSteps, StoreAssumption
  <2>2. Inserts(Missing(h, Backfill)) \in Seq(S) /\ <<[do |-> "relink", h |-> h]>> \in Seq(S)
    BY <2>1
  <2> HIDE DEF S
  <2>3. QED
    BY <2>2
<1>3. Insert(h) \in S
  BY MildSteps
<1>4. \/ h \in Stored /\ Start(walk)
      \/ Start(<<Insert(h)>> \o <<>>)
      \/ Start(<<Insert(h)>> \o walk)
  BY DEF LiveInsert
<1>5. S = Mild \cup {[do |-> "relink", h |-> h]}
  OBVIOUS
<1> HIDE DEF walk, S
<1>6. ASSUME NEW q \in Seq(S) PROVE <<Insert(h)>> \o q \in Seq(S) /\ (<<Insert(h)>> \o q)[1] = Insert(h)
  BY <1>3
<1>7. <<>> \in Seq(S)
  OBVIOUS
<1>8. CASE h \in Stored /\ Start(walk)
  BY <1>1, <1>2, <1>5, <1>8, StartStands
<1>9. CASE Start(<<Insert(h)>> \o <<>>)
  BY <1>1, <1>5, <1>6, <1>7, <1>9, StartStands
<1>10. CASE Start(<<Insert(h)>> \o walk)
  BY <1>1, <1>2, <1>5, <1>6, <1>10, StartStands
<1>11. QED
  BY <1>4, <1>8, <1>9, <1>10

\* A chain has no broken link.
LEMMA NothingBroken ==
    ASSUME NEW e \in Header, active = Ancestors(e) PROVE BrokenChildren = {}
<1>1. ASSUME NEW c \in active \ {Genesis} PROVE ActiveAt(Height[c] - 1) = {Parent[c]}
  <2>1. c \in Header \ {Genesis} /\ Ancestors(c) \subseteq Ancestors(e)
    BY Descent
  <2>2. Parent[c] \in Header /\ Parent[c] \in Ancestors(c) /\ Height[c] = Height[Parent[c]] + 1
        /\ Height[Parent[c]] \in Nat
    <3>1. Parent[c] \in Header
      BY <2>1, Kinship
    <3>2. Parent[c] \in Ancestors(Parent[c]) /\ Ancestors(c) = {c} \cup Ancestors(Parent[c])
          /\ Height[c] = Height[Parent[c]] + 1 /\ Height[Parent[c]] \in Nat
      BY <2>1, <3>1, Kinship
    <3>3. QED
      BY <3>1, <3>2
  <2>3. Height[c] - 1 = Height[Parent[c]] /\ Parent[c] \in Ancestors(e)
    BY <2>1, <2>2
  <2>4. QED
    BY <2>3, RowsOfAChain DEF ActiveAt
<1>2. QED
  BY <1>1 DEF BrokenChildren

LEMMA PassKeeps ==
    ASSUME IInv, WorkInv, CatchUpSweep \/ HealLinks \/ FinishSync PROVE IInv'
<1>1. WorkInv'
  BY PassInv
<1>2. PICK e \in Header : active = Ancestors(e)
  BY ActiveIsAChain
<1>3. ~HealLinks
  BY <1>2, NothingBroken DEF HealLinks
<1>4. Start(Sweep) \/ Start(<<[do |-> "repair"]>>)
  BY <1>3 DEF CatchUpSweep, FinishSync
<1>5. QED
  BY <1>1, <1>4, MildSteps, MildStands

LEMMA CutKeeps ==
    ASSUME IInv, WorkInv, Unbroken, Cut PROVE IInv'
<1>1. /\ rank' = rank /\ active' = active /\ linked' = linked /\ work' = work /\ tip' = tip
      /\ pending' = pending /\ changed' = changed /\ todo' = <<>> /\ todo # <<>> /\ ~MidBulk
      /\ cuts' = cuts + 1 /\ cuts < MaxCuts
  BY DEF Cut, rows, Unbroken
<1>2. ~Bulk
  <2>1. SUFFICES ASSUME NEW R \in Run, NEW e \in Header, NEW c \in Seq(Steps), NEW f \in Nat \ {0},
                        NEW q \in Seq(Steps), Writing(R, e, c, f, q)
                 PROVE  FALSE
    BY DEF Bulk
  <2>2. CASE c # <<>>
    <3>1. todo # <<>> /\ Head(todo) = c[1] /\ 1 \in 1 .. Len(c)
      BY <2>1, <2>2, SplitQueue DEF Writing
    <3>2. c[1].do = "chunk"
      BY <2>1, <3>1 DEF Writing, Chunked
    <3>3. 1 \in 1 .. Len(todo) /\ todo[1] = Head(todo)
      <4>1. todo \in Seq(Steps)
        BY DEF IInv, TypeOK
      <4>2. QED
        BY <3>1, <4>1
    <3>4. QED
      BY <1>1, <3>1, <3>2, <3>3 DEF MidBulk
  <2>3. CASE c = <<>>
    <3>1. todo = q /\ q \in Rests(R)
      BY <2>1, <2>3, SplitQueue DEF Writing
    <3>2. \A s, t : Len(<<s>>) = 1 /\ <<s>>[1] = s /\ Len(<<s, t>>) = 2 /\ <<s, t>>[2] = t
      OBVIOUS
    <3>3. \E s, t : \/ todo = <<s>> /\ s.do \in {"top", "canon"}
                    \/ todo = <<s, t>> /\ t.do = "top"
      <4>1. q = Sweep => \E s, t : q = <<s, t>> /\ t.do = "top"
        BY DEF Sweep
      <4>2. q = <<[do |-> "top"]>> => \E s : q = <<s>> /\ s.do = "top"
        OBVIOUS
      <4>3. q = Canon(R, <<>>) => \E s : q = <<s>> /\ s.do = "canon"
        BY DEF Canon
      <4>4. \A w \in SUBSET Int : q = <<[do |-> "link", span |-> w], [do |-> "top"]>>
               => \E s, t : q = <<s, t>> /\ t.do = "top"
        OBVIOUS
      <4>5. QED
        BY <1>1, <3>1, <4>1, <4>2, <4>3, <4>4 DEF Rests
    <3>4. PICK s, t : \/ todo = <<s>> /\ s.do \in {"top", "canon"}
                      \/ todo = <<s, t>> /\ t.do = "top"
      BY <3>3
    <3>5. \E i \in 1 .. Len(todo) : todo[i].do \in {"top", "canon"}
      <4>1. CASE todo = <<s>> /\ s.do \in {"top", "canon"}
        BY <3>2, <4>1
      <4>2. CASE todo = <<s, t>> /\ t.do = "top"
        BY <3>2, <4>2
      <4>3. QED
        BY <3>4, <4>1, <4>2
    <3>6. QED
      BY <1>1, <3>5 DEF MidBulk
  <2>4. QED
    BY <2>2, <2>3
<1>3. Still'
  <2>1. active' = Ancestors(tip')
    BY <1>1, <1>2 DEF IInv, Still
  <2>2. QED
    BY <1>1, <2>1, NothingLeft
<1>4. TypeOK' /\ tip' \in Stored' /\ Covered'
  <2>1. Stored' = Stored /\ <<>> \in Seq(Steps)
    BY <1>1 DEF Stored
  <2>2. cuts' \in 0 .. MaxCuts
    BY <1>1, StoreAssumption DEF IInv, TypeOK
  <2>3. QED
    BY <1>1, <2>1, <2>2 DEF IInv, TypeOK, Covered
<1>5. QED
  BY <1>3, <1>4 DEF IInv

LEMMA HeardKeeps ==
    ASSUME IInv, ForkHeard PROVE IInv'
<1>1. /\ rank' = rank /\ active' = active /\ linked' = linked /\ work' = work /\ tip' = tip
      /\ todo' = todo /\ cuts' = cuts /\ pending' = None /\ changed' = {}
  BY DEF ForkHeard, rows
<1>2. Still => Still'
  BY <1>1 DEF Still, StepFits, Stored
<1>3. ASSUME Bulk PROVE Bulk'
  <2>1. PICK R \in Run, e \in Header, c \in Seq(Steps), f \in Nat \ {0}, q \in Seq(Steps) :
             Writing(R, e, c, f, q)
    BY <1>3 DEF Bulk
  <2>2. Writing(R, e, c, f, q)'
    BY <1>1, <2>1 DEF Writing
  <2>3. QED
    BY <2>2 DEF Bulk
<1>4. TypeOK' /\ tip' \in Stored' /\ Covered'
  BY <1>1 DEF IInv, TypeOK, Stored, Covered
<1>5. QED
  BY <1>2, <1>3, <1>4 DEF IInv

LEMMA IdleKeeps ==
    ASSUME IInv, UNCHANGED vars PROVE IInv'
<1>1. /\ rank' = rank /\ active' = active /\ linked' = linked /\ work' = work /\ tip' = tip
      /\ todo' = todo /\ cuts' = cuts /\ pending' = pending /\ changed' = changed
  BY DEF vars
<1>2. Still => Still'
  BY <1>1 DEF Still, StepFits, Stored
<1>3. ASSUME Bulk PROVE Bulk'
  <2>1. PICK R \in Run, e \in Header, c \in Seq(Steps), f \in Nat \ {0}, q \in Seq(Steps) :
             Writing(R, e, c, f, q)
    BY <1>3 DEF Bulk
  <2>2. Writing(R, e, c, f, q)'
    BY <1>1, <2>1 DEF Writing
  <2>3. QED
    BY <2>2 DEF Bulk
<1>4. TypeOK' /\ tip' \in Stored' /\ Covered'
  BY <1>1 DEF IInv, TypeOK, Stored, Covered
<1>5. QED
  BY <1>2, <1>3, <1>4 DEF IInv

LEMMA StartsStill ==
    ASSUME Unbroken, Init PROVE IInv
<1>1. /\ rank = [h \in Header |-> IF h \in {Genesis} THEN 1 ELSE 0]
      /\ active = {Genesis} /\ linked = {} /\ work = [h \in Header |-> IF h \in {Genesis} THEN Weight[h] ELSE 0]
      /\ tip = Genesis /\ pending = None /\ todo = <<>> /\ cuts = 0 /\ changed = {}
  BY DEF Init, Unbroken
<1>2. Genesis \in Header /\ Ancestors(Genesis) = {Genesis}
  BY Kinship
<1>3. Cardinality(Header) \in Nat /\ Cardinality(Header) # 0
  <2>1. IsFiniteSet(Header) /\ Header # {}
    BY <1>2, StoreAssumption
  <2>2. QED
    BY <2>1, FS_CardinalityType, FS_EmptySet
<1>4. rank \in [Header -> 0 .. Cardinality(Header)] /\ Stored = {Genesis}
  <2>1. 0 \in 0 .. Cardinality(Header) /\ 1 \in 0 .. Cardinality(Header)
    BY <1>3
  <2>2. QED
    BY <1>1, <1>2, <2>1 DEF Stored
<1>5. work \in [Header -> Nat]
  BY <1>1, StoreAssumption
<1>6. <<>> \in Seq(Steps) /\ 1 .. Len(<<>>) = {} /\ 0 \in 0 .. MaxCuts
  BY StoreAssumption
<1>7. QED
  BY <1>1, <1>2, <1>4, <1>5, <1>6 DEF IInv, TypeOK, Covered, Still

\* The transactions of a bulk write carry the whole run.
LEMMA ChunksCover ==
    ASSUME NEW R \in Run
    PROVE  Chunks(R) \in Seq(Steps) /\ Chunks(R) # <<>> /\ Chunked(Chunks(R), R, 1)
<1> DEFINE n == (Len(R) + ChunkSize - 1) \div ChunkSize
<1>1. Len(R) \in Nat \ {0} /\ ChunkSize \in Nat \ {0}
  BY StoreAssumption DEF Run
<1>2. n \in Nat \ {0} /\ n * ChunkSize >= Len(R)
  <2>1. \A a, b \in Nat \ {0} : (a + b - 1) \div b \in Nat \ {0} /\ ((a + b - 1) \div b) * b >= a
    <3>1. ASSUME NEW a \in Nat \ {0}, NEW b \in Nat \ {0}
          PROVE  (a + b - 1) \div b \in Nat \ {0} /\ ((a + b - 1) \div b) * b >= a
      <4> DEFINE d == (a + b - 1) \div b
                 r == (a + b - 1) % b
      <4>1. a + b - 1 \in Nat /\ d \in Int /\ r \in 0 .. b - 1 /\ a + b - 1 = b * d + r
        OBVIOUS
      <4> HIDE DEF d, r
      <4>2. b * d >= a
        BY <4>1
      <4>3. d * b = b * d
        BY <4>1
      <4>4. d \in Nat \ {0}
        <5>1. \A x \in Int, y \in Nat : x <= 0 => y * x <= 0
          OBVIOUS
        <5>2. ~(d <= 0)
          BY <4>1, <4>2, <5>1
        <5>3. QED
          BY <4>1, <5>2
      <4>5. QED
        BY <4>2, <4>3, <4>4 DEF d
    <3>2. QED
      BY <3>1
  <2>2. QED
    BY <1>1, <2>1
<1> HIDE DEF n
<1> DEFINE step(i) == [do |-> "chunk", run |-> R, from |-> (i - 1) * ChunkSize + 1]
<1>3. Chunks(R) = [i \in 1 .. n |-> step(i)]
  BY DEF Chunks, n
<1>4. \A i \in 1 .. n : (i - 1) * ChunkSize + 1 \in Nat \ {0}
  <2>1. \A a, b \in Nat : a * b \in Nat
    OBVIOUS
  <2>2. \A i \in 1 .. n : i - 1 \in Nat
    BY <1>2
  <2>3. QED
    BY <1>1, <2>1, <2>2
<1>5. \A i \in 1 .. n : step(i) \in Steps /\ step(i).do = "chunk" /\ step(i).run = R
                        /\ step(i).from = (i - 1) * ChunkSize + 1
  BY <1>4, StepMakers
<1> HIDE DEF step
<1> DEFINE c == Chunks(R)
<1>6. c \in Seq(Steps) /\ Len(c) = n /\ \A i \in 1 .. n : c[i] = step(i)
  BY <1>2, <1>3, <1>5
<1> HIDE DEF c
<1>7. c # <<>>
  BY <1>2, <1>6
<1>8. \A i \in 1 .. Len(c) : c[i].do = "chunk" /\ c[i].run = R
  BY <1>5, <1>6
<1>9. c[1].from = 1 /\ c[Len(c)].from + ChunkSize > Len(R)
  <2>1. 1 \in 1 .. n /\ n \in 1 .. n
    BY <1>2
  <2>2. c[1].from = (1 - 1) * ChunkSize + 1 /\ c[n].from = (n - 1) * ChunkSize + 1
    BY <1>5, <1>6, <2>1
  <2>3. (1 - 1) * ChunkSize = 0 /\ (n - 1) * ChunkSize = n * ChunkSize - ChunkSize /\ n * ChunkSize \in Nat
    BY <1>1, <1>2
  <2>4. QED
    BY <1>1, <1>2, <1>6, <2>2, <2>3
<1>10. \A i \in 1 .. Len(c) - 1 : c[i + 1].from = c[i].from + ChunkSize
  <2>1. ASSUME NEW i \in 1 .. Len(c) - 1 PROVE c[i + 1].from = c[i].from + ChunkSize
    <3>1. i \in 1 .. n /\ i + 1 \in 1 .. n
      BY <1>2, <1>6
    <3>2. c[i].from = (i - 1) * ChunkSize + 1 /\ c[i + 1].from = ((i + 1) - 1) * ChunkSize + 1
      BY <1>5, <1>6, <3>1
    <3>3. ((i + 1) - 1) * ChunkSize = (i - 1) * ChunkSize + ChunkSize /\ (i - 1) * ChunkSize \in Int
      BY <1>1, <3>1
    <3>4. QED
      BY <1>1, <3>2, <3>3
  <2>2. QED
    BY <2>1
<1>11. Chunked(c, R, 1)
  BY <1>7, <1>8, <1>9, <1>10 DEF Chunked
<1>12. QED
  BY <1>6, <1>7, <1>11 DEF c

\* A run that does not compete is on the chain, or goes on above it.
LEMMA RunBesideAChain ==
    ASSUME NEW R \in Run, Chain(R), ~Competes(R), tip \in Header, tip # None, active = Ancestors(tip),
           R[1] = Genesis \/ HasParent(R[1])
    PROVE  /\ R[1] # Genesis => Parent[R[1]] \in active
           /\ Height[Last(R)] <= Height[tip] => Last(R) \in Ancestors(tip)
           /\ Height[Last(R)] > Height[tip] => tip \in Ancestors(Last(R))
<1>1. R[1] # Genesis => Parent[R[1]] \in active
  BY DEF Competes, HasParent
<1>2. Len(R) \in Nat \ {0} /\ Last(R) = R[Len(R)] /\ Last(R) \in Header /\ R[1] \in Header
  BY AncestorsAreHeaders DEF Run, Last
<1>3. Height[tip] \in Nat /\ Height[Last(R)] \in Nat /\ Height[R[1]] \in Nat /\ tip \in active
  BY <1>2, Kinship
<1>4. \A j \in 1 .. Len(R) : R[j] \in Header /\ Height[R[j]] = Height[R[1]] + j - 1
  BY ChainMembers
<1>5. \A g \in Ancestors(Last(R)) : \/ \E i \in 1 .. Len(R) : g = R[i]
                                    \/ R[1] # Genesis /\ g \in Ancestors(Parent[R[1]])
  <2>1. Len(R) \in 1 .. Len(R)
    BY <1>2
  <2>2. QED
    BY <1>2, <2>1, ChainMembers
<1>6. ASSUME Height[R[1]] <= Height[tip], NEW i \in 1 .. Len(R) PROVE ActiveAt(Height[R[i]]) \subseteq {R[i]}
  <2>1. Height[R[1]] <= TipHeight
    BY <1>6 DEF TipHeight
  <2>2. QED
    BY <2>1 DEF Competes
<1>7. ASSUME Height[Last(R)] <= Height[tip] PROVE Last(R) \in Ancestors(tip)
  <2>1. Height[R[1]] <= Height[tip] /\ Len(R) \in 1 .. Len(R)
    BY <1>2, <1>3, <1>4, <1>7
  <2>2. ActiveAt(Height[Last(R)]) \subseteq {Last(R)}
    BY <1>2, <1>6, <2>1
  <2>3. PICK g \in Ancestors(tip) : Height[g] = Height[Last(R)]
    <3>1. Height[Last(R)] \in 0 .. Height[tip]
      BY <1>3, <1>7
    <3>2. QED
      BY <3>1, EveryHeight
  <2>4. QED
    BY <2>2, <2>3 DEF ActiveAt
<1>8. ASSUME Height[Last(R)] > Height[tip] PROVE tip \in Ancestors(Last(R))
  <2>1. PICK g \in Ancestors(Last(R)) : Height[g] = Height[tip]
    <3>1. Height[tip] \in 0 .. Height[Last(R)]
      BY <1>3, <1>8
    <3>2. QED
      BY <1>2, <3>1, EveryHeight
  <2>2. CASE R[1] # Genesis /\ g \in Ancestors(Parent[R[1]])
    <3>1. g \in Ancestors(tip)
      BY <1>1, <2>2, Descent
    <3>2. g = tip
      BY <2>1, <3>1, Descent
    <3>3. QED
      BY <2>1, <3>2
  <2>3. CASE \E i \in 1 .. Len(R) : g = R[i]
    <3>1. PICK i \in 1 .. Len(R) : g = R[i]
      BY <2>3
    <3>2. Height[R[1]] <= Height[tip]
      BY <1>3, <1>4, <2>1, <3>1
    <3>3. ActiveAt(Height[R[i]]) \subseteq {R[i]}
      BY <1>6, <3>2
    <3>4. tip \in ActiveAt(Height[R[i]])
      BY <1>3, <2>1, <3>1 DEF ActiveAt
    <3>5. QED
      BY <2>1, <3>1, <3>3, <3>4
  <2>4. QED
    BY <1>5, <2>1, <2>2, <2>3
<1>9. QED
  BY <1>1, <1>7, <1>8

\* A run is admitted on a stored row, or a checkpoint above the genesis vouches for it.
LEMMA AdmittedStands ==
    ASSUME NEW R \in Run, Chain(R), BatchAdmits(R), Checkpoint \subseteq {Genesis}
    PROVE  R[1] = Genesis \/ HasParent(R[1])
<1>1. CASE Range(R) \cap Checkpoint # {}
  <2>1. PICK i \in DOMAIN R : R[i] = Genesis
    BY <1>1 DEF Range
  <2>2. i \in 1 .. Len(R)
    BY <2>1 DEF Run
  <2>3. ~(i \in 2 .. Len(R))
    BY <2>1 DEF Chain
  <2>4. i = 1
    BY <2>2, <2>3
  <2>5. QED
    BY <2>1, <2>4
<1>2. QED
  BY <1>1 DEF BatchAdmits, Vouched

LEMMA BatchKeeps ==
    ASSUME IInv, WorkInv', RunsStand' \/ Checkpoint \subseteq {Genesis}, NEW R \in Run, Chain(R),
           BatchAdmits(R), NEW q, q \in {<<>>, Sweep, Canon(R, <<>>)}, Start(Batch(R) \o q),
           q = <<>> => Height[Last(R)] <= TipHeight
    PROVE  IInv'
<1>1. q \in Seq(Mild) /\ q \in Seq(Steps)
  <2>1. <<>> \in Seq(Mild)
    OBVIOUS
  <2>2. Mild \subseteq Steps
    BY DEF Mild
  <2>3. q \in Seq(Mild)
    BY <2>1, MildSteps
  <2>4. QED
    BY <2>2, <2>3
<1>2. CASE Competes(R)
  <2>1. Inserts(R) \in Seq(Mild)
    BY MildSteps DEF Run
  <2>2. Inserts(R) \o q \in Seq(Mild)
    BY <1>1, <2>1
  <2>3. Start(Inserts(R) \o q)
    BY <1>2 DEF Batch
  <2>4. QED
    BY <2>2, <2>3, MildStands
<1>3. CASE ~Competes(R)
  <2> DEFINE c == Chunks(R)
  <2>1. /\ rank' = rank /\ active' = active /\ linked' = linked /\ work' = work /\ tip' = tip
        /\ pending' = pending /\ cuts' = cuts /\ changed' = changed /\ todo' = c \o q /\ todo = <<>>
    BY <1>3 DEF Start, rows, Batch
  <2>2. c \in Seq(Steps) /\ c # <<>> /\ Chunked(c, R, 1)
    BY ChunksCover
  <2> HIDE DEF c
  <2>3. active = Ancestors(tip) /\ tip \in Header /\ tip # None /\ tip \in Ancestors(tip)
    <3>1. active = Ancestors(tip)
      BY <2>1, EmptyIsStill
    <3>2. QED
      BY <3>1, ActiveIsAChain, Kinship
  <2>4. R[1] = Genesis \/ HasParent(R[1])
    <3>1. CASE RunsStand'
      <4>1. todo' # <<>> /\ Head(todo') = c[1]
        BY <1>1, <2>1, <2>2, SplitQueue
      <4>2. c[1].do = "chunk" /\ c[1].run = R
        <5>1. 1 \in 1 .. Len(c)
          BY <2>2
        <5>2. QED
          BY <2>2, <5>1 DEF Chunked
      <4>3. Do("chunk")' /\ Head(todo').run = R
        BY <4>1, <4>2 DEF Do
      <4>4. R[1] = Genesis \/ HasParent(R[1])'
        BY <3>1, <4>3 DEF RunsStand
      <4>5. QED
        BY <2>1, <4>4 DEF HasParent, Stored
    <3>2. QED
      BY <3>1, AdmittedStands
  <2>5. /\ R[1] # Genesis => Parent[R[1]] \in active
        /\ Height[Last(R)] <= Height[tip] => Last(R) \in Ancestors(tip)
        /\ Height[Last(R)] > Height[tip] => tip \in Ancestors(Last(R))
    BY <1>3, <2>3, <2>4, RunBesideAChain
  <2>6. Last(R) \in Ancestors(tip) \/ tip \in Ancestors(Last(R))
    <3>1. Height[Last(R)] \in Nat /\ Height[tip] \in Nat
      BY <2>3, AncestorsAreHeaders, Kinship
    <3>2. QED
      BY <2>5, <3>1
  <2>7. q = <<>> => Last(R) \in Ancestors(tip)
    BY <2>3, <2>5 DEF TipHeight
  <2>8. q \in Rests(R)
    BY DEF Rests
  <2>9. PICK e \in Header : e = tip
    BY <2>3
  <2>10. Bulk'
    <3>1. \A j \in 1 .. Len(R) : ~(j < 1)
      OBVIOUS
    <3>2. Writing(R, e, c, 1, q)'
      BY <2>1, <2>2, <2>3, <2>5, <2>6, <2>7, <2>8, <2>9, <3>1 DEF Writing
    <3>3. 1 \in Nat \ {0}
      OBVIOUS
    <3>4. QED
      BY <1>1, <2>2, <3>2, <3>3 DEF Bulk
  <2>11. TypeOK' /\ tip' \in Stored' /\ Covered'
    <3>1. Stored' = Stored /\ todo' \in Seq(Steps)
      BY <2>1 DEF Stored, WorkInv
    <3>2. QED
      BY <2>1, <3>1 DEF IInv, TypeOK, Covered
  <2>12. QED
    BY <2>10, <2>11 DEF IInv
<1>4. QED
  BY <1>2, <1>3

LEMMA WritesKeep ==
    ASSUME IInv, WorkInv, Unbroken, RunsStand' \/ Checkpoint \subseteq {Genesis}, NEW run \in Run, Chain(run),
           BulkWrite(run) \/ BackfillWrite(run) \/ AdminIngest(run)
    PROVE  IInv'
<1>1. WorkInv'
  BY BulkInv
<1>2. Batch(run) \in Seq(Steps)
  <2>1. <<>> \in Seq(Windows)
    OBVIOUS
  <2>2. QED
    BY <2>1, BatchesAreSteps
<1>3. CASE BulkWrite(run)
  <2>1. Start(Batch(run) \o Sweep) /\ Sweep # <<>> /\ BatchAdmits(run)
    BY <1>3 DEF BulkWrite, Sweep
  <2>2. QED
    BY <1>1, <2>1, BatchKeeps
<1>4. CASE AdminIngest(run)
  <2>1. Start(Batch(run) \o Canon(run, <<>>)) /\ Canon(run, <<>>) # <<>> /\ BatchAdmits(run)
    BY <1>4 DEF AdminIngest, Canon
  <2>2. QED
    BY <1>1, <2>1, BatchKeeps
<1>5. CASE BackfillWrite(run)
  <2>1. Start(Batch(run)) /\ Height[Last(run)] <= TipHeight /\ BatchAdmits(run)
    BY <1>5 DEF BackfillWrite, Unbroken
  <2>2. Batch(run) \o <<>> = Batch(run)
    BY <1>2
  <2>3. Start(Batch(run) \o <<>>)
    BY <2>1, <2>2
  <2>4. QED
    BY <1>1, <2>1, <2>3, BatchKeeps
<1>6. QED
  BY <1>3, <1>4, <1>5

LEMMA PushKeeps ==
    ASSUME IInv, WorkInv, RunsStand' \/ Checkpoint \subseteq {Genesis}, NEW h \in Header, PushIngest(h) PROVE IInv'
<1> DEFINE run == PushRun(h)
<1>1. WorkInv' /\ run \in Run /\ Chain(run) /\ Start(Batch(run) \o Canon(run, <<>>)) /\ BatchAdmits(run)
  BY PushInv, PushRunIsAChain DEF PushIngest
<1>2. Canon(run, <<>>) # <<>>
  BY DEF Canon
<1> HIDE DEF run
<1>3. QED
  BY <1>1, <1>2, BatchKeeps

LEMMA IInvStep ==
    ASSUME IInv, WorkInv, Unbroken, RunsStand' \/ Checkpoint \subseteq {Genesis}, [Next]_vars PROVE IInv'
<1>1. CASE InsertHeader
  BY <1>1, InsertKeeps
<1>2. CASE HandleReorg
  BY <1>2, ReorgKeeps
<1>3. CASE Relink
  BY <1>3, RelinkKeeps
<1>4. CASE Retip
  BY <1>4, RetipKeeps
<1>5. CASE BatchChunk
  BY <1>5, ChunkKeeps
<1>6. CASE DedupeHeight
  BY <1>6, DedupeKeeps
<1>7. CASE TipToHighest
  BY <1>7, TopKeeps
<1>8. CASE LinkSpan
  BY <1>8, LinkKeeps
<1>9. CASE Canonicalize
  BY <1>9, CanonKeeps
<1>10. CASE HealBreak \/ KeepProgress
  <2>1. Do("heal") \/ Do("keep")
    BY <1>10 DEF HealBreak, KeepProgress
  <2>2. QED
    BY <2>1, LiveIsStill
<1>11. CASE RepairWork
  BY <1>11, RepairKeeps
<1>12. CASE \E h \in Header \ {Genesis} : LiveInsert(h) \/ PushIngest(h)
  BY <1>12, LiveKeeps, PushKeeps
<1>13. CASE \E run \in Runs : BulkWrite(run) \/ BackfillWrite(run) \/ AdminIngest(run)
  BY <1>13, RunsAreChains, WritesKeep
<1>14. CASE CatchUpSweep \/ HealLinks \/ FinishSync
  BY <1>14, PassKeeps
<1>15. CASE Cut
  BY <1>15, CutKeeps
<1>16. CASE ForkHeard
  BY <1>16, HeardKeeps
<1>17. CASE UNCHANGED vars
  BY <1>17, IdleKeeps
<1>18. QED
  BY <1>1, <1>2, <1>3, <1>4, <1>5, <1>6, <1>7, <1>8, <1>9, <1>10, <1>11, <1>12, <1>13, <1>14,
     <1>15, <1>16, <1>17 DEF Next, Transaction, Operation

\* The invariant gives what the runs check.
LEMMA IInvSuffices ==
    ASSUME IInv PROVE TypeOK /\ ActiveIsTheTipsChain /\ ForkCoversEveryChange /\ StoredInactiveIsInactive
<1>1. ActiveIsTheTipsChain
  <2>1. SUFFICES ASSUME todo = <<>> PROVE active = Ancestors(tip) \cap Stored /\ tip \in active
    BY DEF ActiveIsTheTipsChain
  <2>2. active = Ancestors(tip) /\ tip \in Ancestors(tip) /\ active \subseteq Stored
    BY <2>1, EmptyIsStill, ActiveIsAChain, Kinship DEF IInv, TypeOK
  <2>3. QED
    BY <2>2
<1>2. ForkCoversEveryChange
  <2>1. SUFFICES ASSUME changed # {} PROVE pending # None /\ pending <= Min(changed)
    BY DEF ForkCoversEveryChange
  <2>2. changed \in SUBSET Nat /\ pending # None /\ \A k \in changed : pending <= k
    BY <2>1, Kinship DEF IInv, TypeOK, Covered, Heights
  <2>3. QED
    BY <2>1, <2>2, MinOfNaturals
<1>3. QED
  BY <1>1, <1>2, InactiveAnswer DEF IInv

\* The invariant keeps a bulk run on the stored row it was admitted on.
LEMMA ChunksStand ==
    ASSUME IInv PROVE RunsStand
<1>1. SUFFICES ASSUME Do("chunk") PROVE Head(todo).run[1] = Genesis \/ HasParent(Head(todo).run[1])
  BY DEF RunsStand
<1>2. PICK R \in Run, e \in Header, c \in Seq(Steps), f \in Nat \ {0}, q \in Seq(Steps) :
           Writing(R, e, c, f, q)
  BY <1>1, LiveIsStill DEF Bulk
<1>3. c # <<>> /\ Head(todo) = c[1]
  BY <1>1, <1>2, BulkHead
<1>4. Head(todo).run = R
  <2>1. 1 \in 1 .. Len(c)
    BY <1>3
  <2>2. QED
    BY <1>2, <1>3, <2>1 DEF Writing, Chunked
<1>5. QED
  BY <1>2, <1>4 DEF Writing, HasParent, IInv, TypeOK

\* A tip that moves goes forward on its own chain or to a row that claims more.
LEMMA TipSteps ==
    ASSUME IInv, WorkInv, [Next]_vars, tip' # tip
    PROVE  tip \in Ancestors(tip') \/ work'[tip'] > work[tip]
<1>1. tip \in Header /\ tip # None /\ work \in [Header -> Nat]
  BY ActiveIsAChain DEF IInv, TypeOK
<1>2. CASE InsertHeader
  <2> DEFINE h == Head(todo).h
  <2>1. Do("insert") /\ tip' = h /\ h # Genesis /\ Parent[h] = tip
    BY <1>1, <1>2 DEF InsertHeader, Skip, Refuse, rows
  <2>2. h \in Header
    BY <2>1, HeadStep, StepShapes
  <2> HIDE DEF h
  <2>3. QED
    BY <1>1, <2>1, <2>2, Kinship
<1>3. CASE HandleReorg
  <2> DEFINE h == Head(todo).h
  <2>1. Do("reorg") /\ tip' = h /\ work' = work
    BY <1>3 DEF HandleReorg, Refuse, rows
  <2>2. Still /\ todo \in Seq(Steps) /\ todo # <<>>
    BY <2>1, LiveIsStill, HeadFits
  <2>3. 1 \in 1 .. Len(todo) /\ todo[1] = Head(todo)
    BY <2>2
  <2>4. StepFits(1)
    BY <2>2, <2>3 DEF Still
  <2>5. work[h] > work[tip]
    BY <2>1, <2>3, <2>4 DEF StepFits, Do
  <2>6. QED
    BY <2>1, <2>5
<1>4. CASE Retip
  BY <1>1, <1>4 DEF Retip, Skip, rows, OutworksTip
<1>5. CASE TipToHighest
  BY <1>5, TopKeeps
<1>6. tip' = tip \/ InsertHeader \/ HandleReorg \/ Retip \/ TipToHighest
  BY DEF Next, vars, rows, Transaction, Operation, Relink, BatchChunk, DedupeHeight, LinkSpan, Canonicalize,
     HealBreak, KeepProgress, RepairWork, Skip, Refuse, Cut, ForkHeard, Start, LiveInsert, PushIngest,
     BulkWrite, BackfillWrite, AdminIngest, CatchUpSweep, HealLinks, FinishSync
<1>7. QED
  BY <1>2, <1>3, <1>4, <1>5, <1>6

-----------------------------------------------------------------------------
(* The theorems. *)

LEMMA ChainInvariant ==
    ASSUME Unbroken PROVE Spec /\ []RunsStand => [](IInv /\ WorkInv)
<1>1. Init => IInv /\ WorkInv
  BY StartsStill, WorkInvInit
<1>2. IInv /\ WorkInv /\ RunsStand' /\ [Next]_vars => IInv' /\ WorkInv'
  BY IInvStep, WorkInvStep
<1>3. QED
  BY <1>1, <1>2, PTL DEF Spec

\* With no checkpoint above the genesis no run is written over a hole:
\* insert_headers_batch and ingest_pushed refuse a run whose first header has
\* no stored parent (only a checkpoint in the run vouches for one).
THEOREM RunsAlwaysStand ==
    ASSUME Unbroken, Checkpoint \subseteq {Genesis} PROVE Spec => []RunsStand
<1>1. Init => IInv /\ WorkInv
  BY StartsStill, WorkInvInit
<1>2. IInv /\ WorkInv /\ [Next]_vars => IInv' /\ WorkInv'
  BY IInvStep, WorkInvStep
<1>3. IInv => RunsStand
  BY ChunksStand
<1>4. QED
  BY <1>1, <1>2, <1>3, PTL DEF Spec

\* Ranks, works, links, the tip, the queue and the pending fork keep their types,
\* through every transaction of every operation and every cut.
THEOREM StoreTypes ==
    ASSUME Unbroken PROVE Spec /\ []RunsStand => []TypeOK
<1>1. IInv => TypeOK
  BY DEF IInv
<1>2. QED
  BY <1>1, ChainInvariant, PTL

\* Between operations the rows with is_active = 1 are the tip and its ancestors
\* (handle_reorg, insert_headers_batch, canonicalize_pushed), whichever operations
\* were cut, and wherever outside a bulk write.
THEOREM ActiveRowsAreTheTipsChain ==
    ASSUME Unbroken PROVE Spec /\ []RunsStand => []ActiveIsTheTipsChain
<1>1. IInv => ActiveIsTheTipsChain
  BY IInvSuffices
<1>2. QED
  BY <1>1, ChainInvariant, PTL

\* sync_state.pending_reorg_from is at or below every height whose served row
\* changed since it was announced: whoever moves rows lowers it in the same
\* transaction (MIN(COALESCE(...))), so no cut and no second reorg loses a height.
THEOREM ForksCoverEveryChange ==
    ASSUME Unbroken PROVE Spec /\ []RunsStand => []ForkCoversEveryChange
<1>1. IInv => ForkCoversEveryChange
  BY IInvSuffices
<1>2. QED
  BY <1>1, ChainInvariant, PTL

\* A push that canonicalize_pushed answers storedInactive has left the pushed
\* header inactive, whatever the queue or a cut left of earlier operations.
THEOREM StoredInactiveAnswersAreTrue ==
    ASSUME Unbroken PROVE Spec /\ []RunsStand => []StoredInactiveIsInactive
<1>1. IInv => StoredInactiveIsInactive
  BY IInvSuffices
<1>2. QED
  BY <1>1, ChainInvariant, PTL

\* A step that moves the tip moves it to a descendant, or to a row of more work:
\* handle_reorg, update_chain_tip_to_highest and the activation of a pushed run.
THEOREM TipsKeepTheirWork ==
    ASSUME Unbroken PROVE Spec /\ []RunsStand => TipNeverLosesWork
<1>1. IInv /\ WorkInv /\ [Next]_vars
        => [tip # None /\ tip' # tip => tip \in Ancestors(tip') \/ work'[tip'] > work[tip]]_vars
  BY TipSteps
<1>2. QED
  BY <1>1, ChainInvariant, PTL DEF Spec, TipNeverLosesWork

-----------------------------------------------------------------------------
(* One chain is served: the store implements ServedChain.                   *)

\* What Serves asks of the claims, and its three ways to go on.
HonestNow == \A h \in Header : 0 <= work[h] /\ work[h] <= TrueWork[h]

LEMMA ClaimsAreHonest ==
    ASSUME IInv, WorkInv PROVE HonestNow
BY DEF IInv, WorkInv, TypeOK, HonestNow

LEMMA WeighServes ==
    ASSUME HonestNow', active' = active, tip' = tip PROVE Serves!Next
BY DEF HonestNow, Serves!Next, Serves!Weigh, Serves!Honest

LEMMA GrowServes ==
    ASSUME HonestNow', NEW end \in Header, active \subseteq Ancestors(end), active' = Ancestors(end),
           tip' \in {tip, end}, \A h \in active : work'[h] = work[h]
    PROVE  Serves!Next
BY DEF HonestNow, Serves!Next, Serves!Grow, Serves!Honest

LEMMA ReplaceServes ==
    ASSUME NEW h \in Header, tip \in Header, active = Ancestors(tip), work[h] > work[tip],
           NEW fork \in Ancestors(tip), fork \in Ancestors(h), Height[tip] - Height[fork] <= WalkLimit,
           active' = Ancestors(h), tip' = h, work' = work
    PROVE  Serves!Next
<1>1. Serves!Replace(h)
  BY DEF Serves!Replace
<1>2. QED
  BY <1>1 DEF Serves!Next

\* A row lands on the tip and becomes the tip, or nothing that is served changes.
LEMMA InsertServes ==
    ASSUME IInv, HonestNow', InsertHeader PROVE Serves!Next
<1> DEFINE h == Head(todo).h
<1>1. Still /\ tip \in Header /\ tip # None /\ active = Ancestors(tip) /\ active \subseteq Stored
      /\ work \in [Header -> Nat]
  BY LiveIsStill, ActiveIsAChain DEF InsertHeader, IInv, TypeOK, Still
<1>2. \/ active' = active /\ tip' = tip
      \/ /\ h \notin Stored /\ h # Genesis /\ Parent[h] = tip /\ active' = active \cup {h} /\ tip' = h
         /\ work' = [work EXCEPT ![h] = WorkOn(h)]
  BY <1>1 DEF InsertHeader, Skip, Refuse, rows
<1>3. h \in Header
  <2>1. Head(todo) \in Steps /\ Head(todo).do = "insert"
    BY DEF InsertHeader, IInv, TypeOK, Do
  <2>2. QED
    BY <2>1, StepShapes
<1> HIDE DEF h
<1>4. CASE /\ h \notin Stored /\ h # Genesis /\ Parent[h] = tip /\ active' = active \cup {h} /\ tip' = h
           /\ work' = [work EXCEPT ![h] = WorkOn(h)]
  <2>1. Ancestors(h) = {h} \cup active
    BY <1>1, <1>3, <1>4, Kinship
  <2>2. \A g \in active : work'[g] = work[g]
    BY <1>1, <1>4
  <2>3. QED
    BY <1>3, <1>4, <2>1, <2>2, GrowServes
<1>5. QED
  BY <1>2, <1>4, WeighServes

LEMMA RetipServes ==
    ASSUME IInv, WorkInv, HonestNow', Retip PROVE Serves!Next
<1> DEFINE h == Head(todo).h
<1>1. Do("retip")
  BY DEF Retip
<1>2. Still /\ tip \in Header /\ tip # None /\ active = Ancestors(tip)
  BY <1>1, LiveIsStill, ActiveIsAChain DEF Still
<1>3. h \in Header /\ h # Genesis
  BY <1>1, <1>2, HeadFits, StepShapes
<1>4. \/ active' = active /\ tip' = tip
      \/ tip = Parent[h] /\ active' = active \cup {h} /\ tip' = h /\ work' = work
  BY <1>2 DEF Retip, Skip, rows
<1> HIDE DEF h
<1>5. CASE tip = Parent[h] /\ active' = active \cup {h} /\ tip' = h /\ work' = work
  <2>1. Ancestors(h) = {h} \cup active
    BY <1>2, <1>3, <1>5, Kinship
  <2>2. QED
    BY <1>3, <1>5, <2>1, GrowServes
<1>6. QED
  BY <1>4, <1>5, WeighServes

\* A chunk writes nothing of a row that is served.
LEMMA ChunkServes ==
    ASSUME IInv, IInv', HonestNow', BatchChunk PROVE Serves!Next
<1> DEFINE run == Head(todo).run
           here == {run[i] : i \in Head(todo).from .. Min({Len(run), Head(todo).from + ChunkSize - 1})}
           base == IF HasParent(run[1]) THEN work[Parent[run[1]]] ELSE 0
           running(h) == base + TrueWork[h] - (TrueWork[run[1]] - Weight[run[1]])
           written == (here \ Stored) \cup {h \in here : ActivatesStored(h)}
<1>1. /\ active' = active \cup written /\ tip' = tip
      /\ work' = [h \in Header |-> IF h \in written THEN running(h) ELSE work[h]]
  BY DEF BatchChunk
<1>2. active \subseteq Stored /\ active \subseteq Header
  BY DEF IInv, TypeOK, Stored
<1>3. written \cap active = {}
  BY <1>2 DEF ActivatesStored
<1> HIDE DEF written, running
<1>4. \A h \in active : work'[h] = work[h]
  BY <1>1, <1>2, <1>3
<1>5. \E end \in Header : active' = Ancestors(end)
  <2>1. tip' \in Header
    BY DEF IInv, Stored
  <2>2. QED
    BY <2>1 DEF IInv, Still, Bulk, Writing
<1>6. QED
  BY <1>1, <1>4, <1>5, GrowServes

LEMMA TopServes ==
    ASSUME IInv, WorkInv, HonestNow', TipToHighest PROVE Serves!Next
<1>1. /\ tip' = IF active = {} THEN tip ELSE Newest(ActiveAt(Max({Height[h] : h \in active})))
      /\ active' = active /\ work' = work
  BY DEF TipToHighest
<1>2. PICK e \in Header : active = Ancestors(e)
  BY ActiveIsAChain
<1>3. tip' = e
  BY <1>1, <1>2, TopOfAChain DEF WorkInv
<1>4. QED
  BY <1>1, <1>2, <1>3, GrowServes

LEMMA ServesInit == Unbroken /\ Init => Serves!Init
<1> SUFFICES ASSUME Unbroken, Init PROVE Serves!Init
  OBVIOUS
<1>1. active = Ancestors(Genesis) /\ tip = Genesis /\ Genesis \in Header
  BY Kinship DEF Init, Unbroken
<1>2. HonestNow
  BY StartsStill, WorkInvInit, ClaimsAreHonest
<1>3. QED
  BY <1>1, <1>2 DEF Serves!Init, Serves!Honest, HonestNow

LEMMA ServesStep ==
    ASSUME IInv, WorkInv, IInv', WorkInv', [Next]_vars
    PROVE  [Serves!Next]_Serves!chain
<1>1. HonestNow'
  BY DEF IInv, WorkInv, TypeOK, HonestNow
<1>2. CASE InsertHeader
  BY <1>1, <1>2, InsertServes
<1>3. CASE Retip
  BY <1>1, <1>3, RetipServes
<1>4. CASE BatchChunk
  BY <1>1, <1>4, ChunkServes
<1>5. CASE TipToHighest
  BY <1>1, <1>5, TopServes
<1>6. CASE HandleReorg /\ ~Refuse
  BY <1>6, ReorgMoves, ReplaceServes
<1>7. CASE DedupeHeight
  <2>1. {k \in Heights : Cardinality(ActiveAt(k)) > 1} = {}
    BY ActiveIsAChain, NothingDual
  <2>2. active' = active /\ tip' = tip
    BY <1>7, <2>1 DEF DedupeHeight, Skip, rows
  <2>3. QED
    BY <1>1, <2>2, WeighServes
<1>8. CASE Canonicalize
  <2>1. PushOutcome(Head(todo).run) # "activated"
    BY <1>8, NothingActivated DEF Canonicalize
  <2>2. active' = active /\ tip' = tip
    BY <1>8, <2>1 DEF Canonicalize, Skip, rows
  <2>3. QED
    BY <1>1, <2>2, WeighServes
<1>9. \/ active' = active /\ tip' = tip
      \/ InsertHeader \/ Retip \/ BatchChunk \/ TipToHighest \/ (HandleReorg /\ ~Refuse)
      \/ DedupeHeight \/ Canonicalize
  BY DEF Next, vars, rows, Transaction, Operation, HandleReorg, Relink, LinkSpan,
     HealBreak, KeepProgress, RepairWork, Skip, Refuse, Cut, ForkHeard, Start, LiveInsert, PushIngest,
     BulkWrite, BackfillWrite, AdminIngest, CatchUpSweep, HealLinks, FinishSync
<1>10. QED
  BY <1>1, <1>2, <1>3, <1>4, <1>5, <1>6, <1>7, <1>8, <1>9, WeighServes

\* In every state between two transactions one chain is served, from the genesis
\* up to an end at or above the tip; it grows at its end or a branch that claims
\* more work replaces it (insert_header, handle_reorg, insert_headers_batch).
THEOREM ServesOneChainAlways ==
    ASSUME Unbroken PROVE Spec /\ []RunsStand => ServesOneChain
<1>1. Init => Serves!Init
  BY ServesInit
<1>2. IInv /\ WorkInv /\ IInv' /\ WorkInv' /\ [Next]_vars => [Serves!Next]_Serves!chain
  BY ServesStep
<1>3. QED
  BY <1>1, <1>2, ChainInvariant, PTL DEF Spec, ServesOneChain, Serves!Spec

-----------------------------------------------------------------------------
(* The journal over the store. *)

\* The k-th header of a line is the lowest of the first k, k - 1 below the top.
LEMMA LinePlace ==
    ASSUME NEW h \in Header, NEW k \in 1 .. Len(Line[h])
    PROVE  /\ Line[h][k] \in Header /\ Height[Line[h][k]] + k - 1 = Height[h]
           /\ \A i \in 1 .. k : Line[h][i] \in Header /\ Line[h][k] \in Ancestors(Line[h][i])
<1> DEFINE R == [i \in 1 .. k |-> Line[h][k + 1 - i]]
<1>1. Line[h] \in Seq(Header) /\ Len(Line[h]) \in Nat /\ k \in Nat /\ k >= 1
  BY LineFacts DEF Run
<1>2. R \in Seq(Header) /\ Len(R) = k /\ \A i \in 1 .. k : R[i] = Line[h][k + 1 - i]
  <2>1. \A i \in 1 .. k : k + 1 - i \in 1 .. Len(Line[h])
    BY <1>1
  <2>2. \A i \in 1 .. k : Line[h][k + 1 - i] \in Header
    BY <1>1, <2>1
  <2>3. QED
    BY <1>1, <2>2
<1> HIDE DEF R
<1>3. R \in Run /\ Chain(R) /\ Last(R) = h
  BY <1>2, LineBackwards
<1>4. \A j \in 1 .. k : /\ R[j] \in Header /\ Height[R[j]] = Height[R[1]] + j - 1
                        /\ \A i \in 1 .. j : R[i] \in Ancestors(R[j])
  BY <1>2, <1>3, ChainMembers
<1>5. R[1] = Line[h][k] /\ R[k] = h /\ 1 \in 1 .. k /\ k \in 1 .. k
  <2>1. 1 \in 1 .. k /\ k \in 1 .. k /\ k + 1 - 1 = k /\ k + 1 - k = 1
    BY <1>1
  <2>2. R[1] = Line[h][k + 1 - 1]
    BY <1>2, <2>1
  <2>3. R[k] = h
    BY <1>2, <1>3 DEF Last
  <2>4. QED
    BY <2>1, <2>2, <2>3
<1>6. ASSUME NEW i \in 1 .. k PROVE Line[h][i] \in Header /\ Line[h][k] \in Ancestors(Line[h][i])
  <2>1. k + 1 - i \in 1 .. k /\ 1 \in 1 .. k + 1 - i /\ k + 1 - (k + 1 - i) = i
    BY <1>1
  <2>2. R[k + 1 - i] = Line[h][k + 1 - (k + 1 - i)]
    BY <1>2, <2>1
  <2>3. R[k + 1 - i] \in Header /\ R[1] \in Ancestors(R[k + 1 - i])
    BY <1>4, <2>1
  <2>4. QED
    BY <1>5, <2>1, <2>2, <2>3
<1>7. Height[Line[h][k]] + k - 1 = Height[h] /\ Line[h][k] \in Header
  <2>1. Height[h] = Height[Line[h][k]] + k - 1 /\ Line[h][k] \in Header
    BY <1>4, <1>5
  <2>2. QED
    BY <2>1
<1>8. QED
  BY <1>6, <1>7

\* What a reorg withdraws stands within the trigger's walk from the old tip.
LEMMA WithdrawnIsNamed ==
    ASSUME said \in Header, active = Ancestors(said), active \subseteq Stored,
           NEW f \in Header, NEW m \in Ancestors(said), Height[said] - Height[m] <= WalkLimit,
           m \in Ancestors(f), NEW t \in Ancestors(said), t \notin Ancestors(f)
    PROVE  t \in Range(OldBranch(Ancestors(f)))
<1>1. Line[said] \in Seq(Header) /\ Len(Line[said]) \in Nat /\ WalkLimit \in Nat /\ said # None
  BY LineFacts, StoreAssumption DEF Run
<1>2. PICK k \in 1 .. Len(Line[said]) : Line[said][k] = t
  <2>1. DOMAIN Line[said] = 1 .. Len(Line[said])
    BY <1>1
  <2>2. QED
    BY <2>1 DEF Ancestors, Range
<1>3. /\ t \in Header /\ Height[t] + k - 1 = Height[said]
      /\ \A i \in 1 .. k : Line[said][i] \in Header /\ t \in Ancestors(Line[said][i])
  BY <1>2, LinePlace
<1>4. Height[t] > Height[m]
  <2>1. Height[t] \in Nat /\ Height[m] \in Nat /\ m \in Header
    BY <1>3, Descent, Kinship
  <2>2. Height[t] <= Height[m] => t \in Ancestors(f)
    BY Linear, Descent
  <2>3. QED
    BY <2>1, <2>2
<1>5. k <= WalkLimit + 1 /\ k \in Nat
  <2>1. Height[t] \in Nat /\ Height[m] \in Nat /\ m \in Header /\ Height[said] \in Nat
    BY <1>3, Descent, Kinship
  <2>2. QED
    BY <1>1, <1>3, <1>4, <2>1
<1>6. \A i \in 1 .. k : Line[said][i] \in Stored \ Ancestors(f)
  <2>1. ASSUME NEW i \in 1 .. k PROVE Line[said][i] \in Stored \ Ancestors(f)
    <3>1. Line[said][i] \in Ancestors(said)
      <4>1. i \in DOMAIN Line[said]
        BY <1>1
      <4>2. QED
        BY <4>1 DEF Ancestors, Range
    <3>2. Line[said][i] \notin Ancestors(f)
      BY <1>3, Descent
    <3>3. QED
      BY <3>1, <3>2
  <2>2. QED
    BY <2>1
<1> DEFINE most == Min({Len(Line[said]), WalkLimit + 1})
           off == {j \in 0 .. most : \A i \in 1 .. j : Line[said][i] \in Stored \ Ancestors(f)}
<1>7. OldBranch(Ancestors(f)) = SubSeq(Line[said], 1, Max(off))
  BY <1>1 DEF OldBranch
<1>8. most \in Nat /\ most <= Len(Line[said]) /\ k <= most
  BY <1>1, <1>5, MinOfTwo
<1> HIDE DEF most
<1>9. k \in off /\ off \in SUBSET (0 .. most)
  BY <1>5, <1>6, <1>8
<1> HIDE DEF off
<1>10. Max(off) \in off /\ k <= Max(off)
  BY <1>8, <1>9, MaxOfBounded
<1> DEFINE x == Max(off)
<1>11. x \in 0 .. Len(Line[said]) /\ k \in 1 .. x
  <2>1. x \in 0 .. most
    BY <1>9, <1>10
  <2>2. QED
    BY <1>8, <1>10, <2>1, <1>1
<1> HIDE DEF x
<1> DEFINE q == Line[said]
<1>12. q \in Seq(Header) /\ x \in 0 .. Len(q) /\ k \in 1 .. x /\ q[k] = t
  BY <1>1, <1>2, <1>11
<1> HIDE DEF q
<1>13. Len(SubSeq(q, 1, x)) = x /\ SubSeq(q, 1, x) \in Seq(Header) /\ SubSeq(q, 1, x)[k] = q[k]
  <2>1. SubSeq(q, 1, x) \in Seq(Header) /\ Len(SubSeq(q, 1, x)) = x
    BY <1>12, FirstPiece
  <2>2. SubSeq(q, 1, x)[k] = q[k]
    BY <1>12
  <2>3. QED
    BY <2>1, <2>2
<1>14. k \in DOMAIN SubSeq(q, 1, x)
  BY <1>12, <1>13
<1>15. t \in Range(SubSeq(q, 1, x))
  BY <1>12, <1>13, <1>14 DEF Range
<1>16. QED
  BY <1>7, <1>15 DEF x, q

\* The branch the trigger reads lies on the line of the tip last said, from that
\* tip down, and is withdrawn; the walk bounds it.
LEMMA BranchIsALine ==
    ASSUME said \in Header, NEW act, NEW gone, gone = OldBranch(act)
    PROVE  /\ gone \in Seq(Header) /\ Len(gone) <= WalkLimit + 1
           /\ \A i \in 1 .. Len(gone) : gone[i] = Line[said][i] /\ gone[i] \notin act
           /\ \A i \in 1 .. Len(gone) - 1 : Parent[gone[i]] = gone[i + 1]
<1> DEFINE q == Line[said]
<1>1. q \in Seq(Header) /\ Len(q) \in Nat /\ WalkLimit \in Nat /\ said # None
  BY LineFacts, StoreAssumption DEF Run
<1> DEFINE most == Min({Len(q), WalkLimit + 1})
           off == {j \in 0 .. most : \A i \in 1 .. j : q[i] \in Stored \ act}
           x == Max(off)
<1>2. gone = SubSeq(q, 1, x)
  BY <1>1 DEF OldBranch
<1>3. most \in Nat /\ most <= Len(q) /\ most <= WalkLimit + 1
  BY <1>1, MinOfTwo
<1> HIDE DEF most
<1>4. 0 \in off /\ off \in SUBSET (0 .. most)
  BY <1>3
<1>5. \A j \in off : \A i \in 1 .. j : q[i] \notin act
  OBVIOUS
<1> HIDE DEF off
<1>6. x \in off
  BY <1>3, <1>4, MaxOfBounded
<1> HIDE DEF x
<1>7. x \in 0 .. Len(q) /\ x <= WalkLimit + 1
  BY <1>1, <1>3, <1>4, <1>6
<1>8. \A i \in 1 .. Len(q) - 1 : Parent[q[i]] = q[i + 1]
  BY LineSteps
<1> HIDE DEF q
<1>9. gone \in Seq(Header) /\ Len(gone) = x
  BY <1>1, <1>2, <1>7, FirstPiece
<1>10. \A i \in 1 .. x : gone[i] = q[i]
  <2>1. \A i \in 1 .. x : SubSeq(q, 1, x)[i] = q[i]
    BY <1>1, <1>7
  <2>2. QED
    BY <1>2, <2>1
<1>11. ASSUME NEW i \in 1 .. Len(gone) - 1 PROVE Parent[gone[i]] = gone[i + 1]
  <2>1. i \in 1 .. x /\ i + 1 \in 1 .. x /\ i \in 1 .. Len(q) - 1
    BY <1>1, <1>7, <1>9
  <2>2. gone[i] = q[i] /\ gone[i + 1] = q[i + 1]
    BY <1>10, <2>1
  <2>3. QED
    BY <1>8, <2>1, <2>2
<1>12. \A i \in 1 .. Len(gone) : gone[i] = q[i] /\ gone[i] \notin act
  BY <1>5, <1>6, <1>9, <1>10
<1>13. QED
  BY <1>7, <1>9, <1>11, <1>12 DEF q

\* What it reads after a step whose chains part at m ends above m: within the walk.
LEMMA NamedRun ==
    ASSUME said \in Header, NEW f \in Header, NEW m \in Ancestors(said), m \in Ancestors(f),
           Height[said] - Height[m] <= WalkLimit,
           NEW gone, gone = OldBranch(Ancestors(f))
    PROVE  Len(gone) <= WalkLimit
<1>1. Line[said] \in Seq(Header) /\ WalkLimit \in Nat
  BY LineFacts, StoreAssumption DEF Run
<1>2. PICK k \in 1 .. Len(Line[said]) : Line[said][k] = m
  <2>1. DOMAIN Line[said] = 1 .. Len(Line[said])
    BY <1>1
  <2>2. QED
    BY <2>1 DEF Ancestors, Range
<1>3. k - 1 <= WalkLimit /\ k \in Nat
  <2>1. Height[m] + k - 1 = Height[said] /\ m \in Header
    BY <1>2, LinePlace
  <2>2. Height[m] \in Nat /\ Height[said] \in Nat
    BY <2>1, Kinship
  <2>3. QED
    BY <1>1, <1>2, <2>1, <2>2
<1>4. /\ gone \in Seq(Header)
      /\ \A i \in 1 .. Len(gone) : gone[i] = Line[said][i] /\ gone[i] \notin Ancestors(f)
  BY BranchIsALine
<1>5. ~(k <= Len(gone))
  <2>1. ASSUME k <= Len(gone) PROVE FALSE
    <3>1. k \in 1 .. Len(gone)
      BY <1>2, <1>4, <2>1
    <3>2. QED
      BY <1>2, <1>4, <3>1
  <2>2. QED
    BY <2>1
<1>6. QED
  BY <1>1, <1>3, <1>4, <1>5

\* Only a reorg takes rows off the chain.
LEMMA RowsStay ==
    ASSUME IInv, WorkInv, [Next]_vars, ~HandleReorg
    PROVE  active \subseteq active'
<1>1. PICK e \in Header : active = Ancestors(e)
  BY ActiveIsAChain
<1>2. CASE DedupeHeight
  <2> DEFINE dual == {k \in Heights : Cardinality(ActiveAt(k)) > 1}
  <2>1. dual = {}
    BY <1>1, NothingDual
  <2>2. QED
    BY <1>2, <2>1 DEF DedupeHeight, Skip, rows
<1>3. CASE Canonicalize
  <2>1. PushOutcome(Head(todo).run) # "activated"
    BY <1>3, NothingActivated DEF Canonicalize
  <2>2. QED
    BY <1>3, <2>1 DEF Canonicalize, Skip, rows
<1>4. CASE InsertHeader
  BY <1>4 DEF InsertHeader, Skip, Refuse, rows
<1>5. active' = active \/ InsertHeader \/ Retip \/ BatchChunk \/ DedupeHeight \/ Canonicalize
  BY DEF Next, vars, rows, Transaction, Operation, Relink, TipToHighest, LinkSpan,
     HealBreak, KeepProgress, RepairWork, Skip, Refuse, Cut, ForkHeard, Start, LiveInsert, PushIngest,
     BulkWrite, BackfillWrite, AdminIngest, CatchUpSweep, HealLinks, FinishSync
<1>6. Retip \/ BatchChunk => active \subseteq active'
  BY DEF Retip, BatchChunk, Skip, rows
<1>7. QED
  BY <1>2, <1>3, <1>4, <1>5, <1>6

\* The chains before and after a step part within the walk below the old tip.
LEMMA StepsMeet ==
    ASSUME IInv, WorkInv, IInv', [Next]_vars
    PROVE  /\ active \subseteq active' \/ (HandleReorg /\ active = Ancestors(tip) /\ tip' # tip)
           /\ \E f \in Header, m \in Ancestors(tip) :
                 /\ active' = Ancestors(f) /\ m \in Ancestors(f)
                 /\ Height[tip] - Height[m] <= WalkLimit
<1>1. tip \in Header /\ tip \in active /\ tip # None /\ Height[tip] \in Nat /\ tip \in Ancestors(tip)
  BY ActiveIsAChain, Kinship
<1>2. PICK f \in Header : active' = Ancestors(f) /\ tip' \in Ancestors(f)
  <2>1. tip' \in Header
    BY DEF IInv, Stored
  <2>2. Still' => active' = Ancestors(tip') /\ tip' \in Ancestors(tip')
    BY <2>1, Kinship DEF Still
  <2>3. Bulk' => \E f \in Header : active' = Ancestors(f) /\ tip' \in Ancestors(f)
    BY DEF Bulk, Writing
  <2>4. QED
    BY <2>1, <2>2, <2>3 DEF IInv
<1>3. CASE active \subseteq active'
  <2>1. tip \in Ancestors(f) /\ Height[tip] - Height[tip] <= WalkLimit
    BY <1>1, <1>2, <1>3, StoreAssumption
  <2>2. QED
    BY <1>1, <1>2, <1>3, <2>1
<1>4. CASE ~(active \subseteq active')
  <2> DEFINE h == Head(todo).h
             m == CommonAncestor(h, tip)
  <2>1. HandleReorg
    BY <1>4, RowsStay
  <2>2. ~Refuse
    BY <1>4 DEF Refuse, rows
  <2>3. /\ h \in Header /\ h # tip /\ active = Ancestors(tip) /\ tip' = h
        /\ m \in Ancestors(h) /\ m \in Ancestors(tip) /\ Height[tip] - Height[m] <= WalkLimit
    BY <2>1, <2>2, ReorgMoves
  <2> HIDE DEF h, m
  <2>4. m \in Ancestors(f)
    BY <1>2, <2>3, Descent
  <2>5. QED
    BY <1>2, <2>1, <2>3, <2>4
<1>5. QED
  BY <1>3, <1>4

\* The journal says the tip, and what a consumer holds is on the chain.
JournalInv == said = tip /\ held \subseteq active

TipStands == tip \in active /\ tip # None

LEMMA TipIsActive == ASSUME IInv PROVE TipStands
<1>1. QED
  BY ActiveIsAChain DEF TipStands

LEMMA JournalInvStep ==
    ASSUME IInv, WorkInv, IInv', JournalInv, [JournalNext]_allVars,
           TipStands'
    PROVE  JournalInv'
<1>1. tip \in active /\ tip # None
  BY ActiveIsAChain
<1>2. CASE Timer \/ UNCHANGED allVars
  <2>1. tip' = tip /\ active' = active
    BY <1>2 DEF Timer, allVars, vars, rows
  <2>2. \/ said' = said /\ held' = held
        \/ said' = tip /\ Publishes(active, tip)
    BY <1>2 DEF Timer, Publish, allVars, journalVars
  <2>3. ~Publishes(active, tip)
    BY <1>1 DEF Publishes, ServedTip, JournalInv
  <2>4. QED
    BY <2>1, <2>2, <2>3 DEF JournalInv
<1>3. CASE StoreStep
  <2>1. Next /\ ServedTip(active', tip') = tip'
    BY <1>3 DEF StoreStep, ServedTip, TipStands
  <2>2. \/ said' = said /\ held' = held /\ (tip' = tip \/ tip' = said)
        \/ said' = tip' /\ held' = (held \ Range(OldBranch(active'))) \cup {tip'} /\ tip' # said
    BY <1>3, <2>1 DEF StoreStep, Publish, Publishes, SetsTipFlag, journalVars, TipStands
  <2>3. said' = tip'
    BY <2>2 DEF JournalInv
  <2>4. ASSUME active \subseteq active' PROVE held' \subseteq active'
    BY <2>2, <2>4 DEF JournalInv, TipStands
  <2>5. ASSUME ~(active \subseteq active') PROVE held' \subseteq active'
    <3>1. tip' # tip /\ active = Ancestors(tip) /\ active \subseteq Stored /\ tip \in Header
      BY <2>1, <2>5, StepsMeet, ActiveIsAChain DEF IInv, TypeOK
    <3>2. PICK f \in Header, m \in Ancestors(tip) :
               active' = Ancestors(f) /\ m \in Ancestors(f) /\ Height[tip] - Height[m] <= WalkLimit
      BY <2>1, StepsMeet
    <3>3. held' = (held \ Range(OldBranch(active'))) \cup {tip'}
      BY <2>2, <3>1 DEF JournalInv
    <3>4. ASSUME NEW t \in held, t \notin active' PROVE t \in Range(OldBranch(active'))
      <4>1. said = tip /\ t \in Ancestors(said) /\ t \notin Ancestors(f)
        BY <3>1, <3>2, <3>4 DEF JournalInv
      <4>2. t \in Range(OldBranch(Ancestors(f)))
        BY <3>1, <3>2, <4>1, WithdrawnIsNamed
      <4>3. QED
        BY <3>2, <4>2
    <3>5. QED
      BY <3>3, <3>4 DEF TipStands, JournalInv
  <2>6. QED
    BY <2>3, <2>4, <2>5 DEF JournalInv
<1>4. QED
  BY <1>2, <1>3 DEF JournalNext

LEMMA JournalInvariant ==
    ASSUME Unbroken PROVE JournalSpec /\ []RunsStand => [](IInv /\ WorkInv /\ JournalInv)
<1>1. JournalInit => IInv /\ WorkInv /\ JournalInv
  <2>1. JournalInit => Init /\ said = tip /\ held = {tip} \ {None}
    BY DEF JournalInit
  <2>2. Init => IInv /\ WorkInv
    BY StartsStill, WorkInvInit
  <2>3. IInv => tip \in active
    BY TipIsActive DEF TipStands
  <2>4. QED
    BY <2>1, <2>2, <2>3 DEF JournalInv
<1>2. [JournalNext]_allVars => [Next]_vars
  BY DEF JournalNext, StoreStep, Timer, allVars
<1>3. IInv /\ WorkInv /\ RunsStand' /\ [Next]_vars => IInv' /\ WorkInv'
  BY IInvStep, WorkInvStep
<1>4. IInv => TipStands
  BY TipIsActive
<1>5. IInv /\ WorkInv /\ IInv' /\ JournalInv /\ [JournalNext]_allVars /\ TipStands'
        => JournalInv'
  BY JournalInvStep
<1>6. QED
  BY <1>1, <1>2, <1>3, <1>4, <1>5, PTL DEF JournalSpec

\* Between operations the tip last journaled by the triggers is the tip served
\* (chain_event_publish: "no second transaction can lose the event after a tip
\* move", 0009).
THEOREM JournalNamesTheTip ==
    ASSUME Unbroken PROVE JournalSpec /\ []RunsStand => []JournalSaysTheTip
<1>1. JournalInv => JournalSaysTheTip
  BY DEF JournalInv, JournalSaysTheTip, ServedTip
<1>2. QED
  BY <1>1, JournalInvariant, PTL

\* A consumer that drops what each journaled reorg names and takes each journaled
\* tip holds active rows only: what a reorg withdraws is within the trigger's walk
\* and is named (chain_event_old_branch).
THEOREM HeldTipsStayActive ==
    ASSUME Unbroken PROVE JournalSpec /\ []RunsStand => []HeldTipsAreActive
<1>1. JournalInv => HeldTipsAreActive
  BY DEF JournalInv, HeldTipsAreActive
<1>2. QED
  BY <1>1, JournalInvariant, PTL

\* The rows of a fork decode by the arithmetic of their making.
LEMMA ForksDecode ==
    ASSUME tip' \in Header, tip' # None, NEW e \in ForkEvents PROVE DecodesFork(e)
<1> DEFINE top == ServedTip(active', tip')
<1>1. top # None /\ top = tip' /\ top \in active'
  BY DEF ForkEvents, ServedTip
<1>2. PICK p \in ForkRows \X Heights :
           /\ e = [kind |-> "fork", height |-> p[2] + 1, depth |-> Height[top] - p[2],
                   competingTips |-> <<top, p[1]>>]
           /\ ForkBelow(p[2], top)
  BY <1>1 DEF ForkEvents
<1>3. p[1] \notin active' /\ p[2] \in Nat
  <2>1. p[1] \in ForkRows /\ p[2] \in Heights
    OBVIOUS
  <2>2. QED
    BY <2>1, Kinship DEF ForkRows, Heights
<1>4. Height[top] \in Nat /\ p[2] < Height[top]
  BY <1>1, <1>2, Kinship DEF ForkBelow
<1>5. e.competingTips[1] = top /\ e.competingTips[2] = p[1] /\ e.depth = Height[top] - p[2] /\ e.height = p[2] + 1
  BY <1>2
<1>6. QED
  BY <1>1, <1>3, <1>4, <1>5 DEF DecodesFork

\* So do the rows of a reorg.
LEMMA ReorgsDecode ==
    ASSUME IInv, WorkInv, IInv', JournalInv, [Next]_vars,
           NEW e \in ReorgEvents(active', tip')
    PROVE  DecodesReorg(e)
<1> DEFINE gone == OldBranch(active')
<1>1. gone # <<>> /\ e = [kind |-> "reorg", forkHeight |-> Height[Last(gone)], depth |-> Len(gone),
                          deactivatedHeaders |-> gone, newTip |-> tip']
  BY DEF ReorgEvents
<1>2. said = tip /\ tip \in Header
  BY ActiveIsAChain DEF JournalInv
<1>3. PICK f \in Header, m \in Ancestors(tip) :
           active' = Ancestors(f) /\ m \in Ancestors(f) /\ Height[tip] - Height[m] <= WalkLimit
  BY StepsMeet
<1>4. gone = OldBranch(Ancestors(f))
  BY <1>3
<1> HIDE DEF gone
<1>5. /\ gone \in Seq(Header) /\ Len(gone) <= WalkLimit
      /\ \A i \in 1 .. Len(gone) - 1 : Parent[gone[i]] = gone[i + 1]
  BY <1>2, <1>3, <1>4, NamedRun, BranchIsALine
<1>6. Len(gone) \in 1 .. WalkLimit
  <2>1. Len(gone) \in Nat /\ Len(gone) # 0 /\ WalkLimit \in Nat
    BY <1>1, <1>5, StoreAssumption
  <2>2. QED
    BY <1>5, <2>1
<1>7. e.depth = Len(gone) /\ e.deactivatedHeaders = gone /\ e.forkHeight = Height[Last(gone)]
  BY <1>1
<1>8. QED
  BY <1>5, <1>6, <1>7 DEF DecodesReorg, LinkedReorg

\* Every fork row and every reorg row that the triggers write meets the conditions
\* of events::decode: a depth of one or more, heights that add up, a linked branch.
THEOREM EventsDecode ==
    ASSUME Unbroken PROVE JournalSpec /\ []RunsStand => EveryEventDecodes
<1>1. [JournalNext]_allVars => [Next]_vars
  BY DEF JournalNext, StoreStep, Timer, allVars
<1>2. ASSUME IInv, WorkInv, IInv', JournalInv, [Next]_vars
      PROVE  /\ \A e \in ForkEvents : DecodesFork(e)
             /\ SetsTipFlag => \A e \in ReorgEvents(active', tip') : DecodesReorg(e)
  <2>1. tip' \in Header /\ tip' # None
    BY <1>2, StoreAssumption DEF IInv, Stored
  <2>2. QED
    BY <1>2, <2>1, ForksDecode, ReorgsDecode
<1>3. QED
  BY <1>1, <1>2, JournalInvariant, PTL DEF JournalSpec, EveryEventDecodes

-----------------------------------------------------------------------------
(* Events wherever rows stand: no hypothesis on cuts or on rows above the   *)
(* tip flag.                                                                *)

\* The journal says a header of the tree, if any.
SaysAHeader == said \in Header \cup {None}

LEMMA SaysAHeaderStep ==
    ASSUME WorkInv, WorkInv', SaysAHeader, [JournalNext]_allVars
    PROVE  SaysAHeader'
<1>1. CASE Publish(active', tip') \/ Publish(active, tip)
  <2>1. active \subseteq Header /\ active' \subseteq Header
    BY DEF WorkInv
  <2>2. QED
    BY <1>1, <2>1 DEF Publish, Publishes, ServedTip, SaysAHeader, journalVars
<1>2. CASE UNCHANGED journalVars
  BY <1>2 DEF SaysAHeader, journalVars
<1>3. QED
  BY <1>1, <1>2 DEF JournalNext, StoreStep, Timer, allVars

\* Every row the triggers write is whole: a fork's depth is one or more and its
\* heights add up, a reorg names an unbroken branch of withdrawn rows that ends at
\* its fork height and is at most one row longer than a reader takes (decode).
THEOREM EventsAreWhole == JournalSpec => EveryEventIsWhole
<1>1. JournalInit => WorkInv /\ SaysAHeader
  <2>1. Init => tip \in Header \cup {None}
    BY StoreAssumption DEF Init
  <2>2. QED
    BY <2>1, WorkInvInit DEF JournalInit, SaysAHeader
<1>2. WorkInv /\ [JournalNext]_allVars => WorkInv'
  <2>1. [JournalNext]_allVars => [Next]_vars
    BY DEF JournalNext, StoreStep, Timer, allVars
  <2>2. QED
    BY <2>1, WorkInvStep
<1>3. WorkInv /\ WorkInv' /\ SaysAHeader /\ [JournalNext]_allVars => SaysAHeader'
  BY SaysAHeaderStep
<1>4. ASSUME WorkInv', SaysAHeader
      PROVE  /\ \A e \in ForkEvents : DecodesFork(e)
             /\ SetsTipFlag => \A e \in ReorgEvents(active', tip') :
                                  e.depth \in 1 .. WalkLimit + 1 /\ LinkedReorg(e)
  <2>1. ASSUME NEW e \in ForkEvents PROVE DecodesFork(e)
    <3>1. tip' \in active' /\ tip' # None
      BY DEF ForkEvents, ServedTip
    <3>2. tip' \in Header
      BY <1>4, <3>1 DEF WorkInv
    <3>3. QED
      BY <3>1, <3>2, ForksDecode
  <2>2. ASSUME NEW e \in ReorgEvents(active', tip')
        PROVE  e.depth \in 1 .. WalkLimit + 1 /\ LinkedReorg(e)
    <3> DEFINE gone == OldBranch(active')
    <3>1. gone # <<>> /\ e = [kind |-> "reorg", forkHeight |-> Height[Last(gone)], depth |-> Len(gone),
                              deactivatedHeaders |-> gone, newTip |-> tip']
      BY DEF ReorgEvents
    <3>2. said \in Header
      BY <1>4, <3>1 DEF SaysAHeader, OldBranch
    <3>3. /\ gone \in Seq(Header) /\ Len(gone) <= WalkLimit + 1
          /\ \A i \in 1 .. Len(gone) - 1 : Parent[gone[i]] = gone[i + 1]
      BY <3>2, BranchIsALine
    <3> HIDE DEF gone
    <3>4. Len(gone) \in 1 .. WalkLimit + 1
      BY <3>1, <3>3, StoreAssumption
    <3>5. e.depth = Len(gone) /\ e.deactivatedHeaders = gone /\ e.forkHeight = Height[Last(gone)]
      BY <3>1
    <3>6. QED
      BY <3>3, <3>4, <3>5 DEF LinkedReorg
  <2>3. QED
    BY <2>1, <2>2
<1>5. QED
  BY <1>1, <1>2, <1>3, <1>4, PTL DEF JournalSpec, EveryEventIsWhole
=============================================================================
