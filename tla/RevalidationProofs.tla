------------------------- MODULE RevalidationProofs -------------------------
(***************************************************************************)
(* Proofs about Revalidation, for every tree, every set of steppers and    *)
(* every budget: why no refused row is served, and why the cron faults     *)
(* none that the rules would pass.                                         *)
(***************************************************************************)
EXTENDS Revalidation, ProofFacts

(* The tree. *)

\* What holds of the root and passes from a parent to its child holds of all.
LEMMA TreeInduction ==
    ASSUME NEW S \in SUBSET Block, Root \in S,
           \A b \in Block \ {Root} : Parent[b] \in S => b \in S
    PROVE  S = Block
<1>1. Grounded(Block, Root, Parent)
  BY TreeAssumption, HeightsGround
<1>2. ASSUME Block \ S # {} PROVE FALSE
  <2>1. PICK b \in Block \ S : b = Root \/ Parent[b] \notin Block \ S
    BY <1>1, <1>2 DEF Grounded
  <2>2. b # Root /\ Parent[b] \in Block
    BY <1>1, <2>1 DEF Grounded
  <2>3. QED
    BY <2>1, <2>2
<1>3. QED
  BY <1>2

LEMMA ChainExists ==
    /\ chainOf \in [Block -> SUBSET Block]
    /\ \A b \in Block : chainOf[b] = IF b = Root THEN {b} ELSE {b} \cup chainOf[Parent[b]]
<1> DEFINE g == [b \in Block |-> [S \in SUBSET Block |-> {b} \cup S]]
           Chain(f) == f = [b \in Block |-> IF b = Root THEN {b} ELSE {b} \cup f[Parent[b]]]
<1>1. Grounded(Block, Root, Parent) /\ Root \in Block
  BY TreeAssumption, HeightsGround
<1>2. g \in [Block -> [SUBSET Block -> SUBSET Block]] /\ {Root} \in SUBSET Block
  BY <1>1
<1>3. PICK f \in [Block -> SUBSET Block] :
         \A b \in Block : f[b] = IF b = Root THEN {Root} ELSE g[b][f[Parent[b]]]
  <2>1. Recursion(Block, Root, Parent, SUBSET Block, {Root}, g)
    BY <1>1, <1>2 DEF Recursion
  <2>2. PICK f : Follows(f, Block, Root, Parent, SUBSET Block, {Root}, g)
    BY <2>1, TreeRecursion
  <2>3. QED
    BY <2>2 DEF Follows
<1>4. ASSUME NEW b \in Block
      PROVE  f[b] = IF b = Root THEN {b} ELSE {b} \cup f[Parent[b]]
  <2>1. b # Root => Parent[b] \in Block /\ f[Parent[b]] \in SUBSET Block
    BY <1>1 DEF Grounded
  <2>2. b # Root => g[b][f[Parent[b]]] = {b} \cup f[Parent[b]]
    BY <2>1
  <2>3. QED
    BY <1>3, <2>2
<1>5. Chain(f)
  BY <1>3, <1>4
<1>6. Chain(chainOf)
  BY <1>5 DEF chainOf
<1>7. ASSUME NEW b \in Block PROVE chainOf[b] \in SUBSET Block
  <2> DEFINE S == {c \in Block : chainOf[c] \in SUBSET Block}
  <2>1. Root \in S
    BY <1>1, <1>6
  <2>2. \A c \in Block \ {Root} : Parent[c] \in S => c \in S
    BY <1>6
  <2>3. S = Block
    BY <2>1, <2>2, TreeInduction
  <2>4. QED
    BY <2>3
<1>8. QED
  BY <1>6, <1>7

\* An ancestor is no higher, and is the block itself or its parent's ancestor.
LEMMA Lower ==
    ASSUME NEW b \in Block, NEW c \in chainOf[b]
    PROVE  /\ c \in Block /\ b \in chainOf[b]
           /\ Height[c] \in Nat /\ Height[b] \in Nat /\ Height[c] <= Height[b]
           /\ c # b => Height[c] < Height[b]
           /\ c # b => b # Root /\ Parent[b] \in Block /\ c \in chainOf[Parent[b]]
<1> DEFINE P(d, e) == Height[e] <= Height[d] /\ (e # d => Height[e] < Height[d])
           S == {d \in Block : \A e \in chainOf[d] : P(d, e)}
<1>1. Root \in S
  BY ChainExists, TreeAssumption
<1>2. ASSUME NEW d \in Block \ {Root}, Parent[d] \in S PROVE d \in S
  <2>1. Height[d] = Height[Parent[d]] + 1 /\ Parent[d] \in Block
        /\ Height[d] \in Nat /\ Height[Parent[d]] \in Nat
    BY TreeAssumption
  <2>2. ASSUME NEW e \in chainOf[d], e # d PROVE Height[e] < Height[d]
    <3>1. e \in chainOf[Parent[d]] /\ e \in Block /\ Height[e] \in Nat
      BY ChainExists, <2>2, TreeAssumption
    <3>2. Height[e] <= Height[Parent[d]]
      BY <1>2, <3>1
    <3>3. QED
      BY <2>1, <3>1, <3>2
  <2>3. \A e \in chainOf[d] : P(d, e)
    BY <2>1, <2>2, ChainExists, TreeAssumption
  <2>4. QED
    BY <2>3
<1>3. S = Block
  <2> HIDE DEF S
  <2>1. S \in SUBSET Block
    BY DEF S
  <2>2. QED
    BY <1>1, <1>2, <2>1, TreeInduction
<1>4. Height[c] <= Height[b] /\ (c # b => Height[c] < Height[b])
  BY <1>3
<1>5. QED
  BY <1>4, ChainExists, TreeAssumption

\* A set closed under parents holds the chain of each of its members.
LEMMA ChainStaysIn ==
    ASSUME NEW C \in SUBSET Block, \A b \in C \ {Root} : Parent[b] \in C,
           NEW b \in C
    PROVE  chainOf[b] \subseteq C
<1> DEFINE S == {d \in Block : d \in C => chainOf[d] \subseteq C}
<1>1. Root \in S
  BY ChainExists, TreeAssumption
<1>2. \A d \in Block \ {Root} : Parent[d] \in S => d \in S
  BY ChainExists
<1>3. S = Block
  <2> HIDE DEF S
  <2>1. S \in SUBSET Block
    BY DEF S
  <2>2. QED
    BY <1>1, <1>2, <2>1, TreeInduction
<1>4. QED
  BY <1>3

\* The root is everybody's ancestor; an ancestor's ancestors are one's own.
LEMMA Ancestry ==
    ASSUME NEW b \in Block
    PROVE  Root \in chainOf[b] /\ (\A c \in chainOf[b] : chainOf[c] \subseteq chainOf[b])
<1> DEFINE Q(d) == Root \in chainOf[d] /\ (\A c \in chainOf[d] : chainOf[c] \subseteq chainOf[d])
           S == {d \in Block : Q(d)}
<1>1. Root \in S
  BY ChainExists, TreeAssumption
<1>2. ASSUME NEW d \in Block \ {Root}, Parent[d] \in S PROVE d \in S
  <2>1. chainOf[d] = {d} \cup chainOf[Parent[d]] /\ Parent[d] \in Block
    BY ChainExists, TreeAssumption
  <2>2. ASSUME NEW c \in chainOf[d] PROVE chainOf[c] \subseteq chainOf[d]
    BY <1>2, <2>1
  <2>3. QED
    BY <1>2, <2>1, <2>2
<1>3. S = Block
  <2> HIDE DEF S
  <2>1. S \in SUBSET Block
    BY DEF S
  <2>2. QED
    BY <1>1, <1>2, <2>1, TreeInduction
<1>4. QED
  BY <1>3

\* Of two ancestors of one block the lower is an ancestor of the higher.
LEMMA Linear ==
    ASSUME NEW b \in Block, NEW x \in chainOf[b], NEW y \in chainOf[b],
           Height[x] <= Height[y]
    PROVE  x \in chainOf[y]
<1> DEFINE Q(d) == \A u, v \in chainOf[d] : Height[u] <= Height[v] => u \in chainOf[v]
           S == {d \in Block : Q(d)}
<1>1. Root \in S
  BY ChainExists, TreeAssumption
<1>2. ASSUME NEW d \in Block \ {Root}, Parent[d] \in S PROVE d \in S
  <2>1. Parent[d] \in Block /\ chainOf[d] = {d} \cup chainOf[Parent[d]]
    BY ChainExists, TreeAssumption
  <2>2. ASSUME NEW u \in chainOf[d], NEW v \in chainOf[d], Height[u] <= Height[v]
        PROVE  u \in chainOf[v]
    <3>1. CASE v = d
      BY <3>1
    <3>2. CASE v # d
      <4>1. Height[v] < Height[d] /\ v \in chainOf[Parent[d]]
            /\ {Height[u], Height[v], Height[d]} \subseteq Nat
        BY <3>2, Lower
      <4>2. u # d
        BY <2>2, <4>1
      <4>3. u \in chainOf[Parent[d]]
        BY <2>1, <4>2
      <4>4. QED
        BY <1>2, <2>2, <4>1, <4>3
    <3>3. QED
      BY <3>1, <3>2
  <2>3. QED
    BY <2>2
<1>3. S = Block
  <2> HIDE DEF S
  <2>1. S \in SUBSET Block
    BY DEF S
  <2>2. QED
    BY <1>1, <1>2, <2>1, TreeInduction
<1>4. Q(b)
  BY <1>3
<1>5. QED
  BY <1>4

\* Above every ancestor but the block itself stands a child of it on the chain.
LEMMA ChildOn ==
    ASSUME NEW b \in Block, NEW x \in chainOf[b], x # b
    PROVE  \E c \in chainOf[b] : c # Root /\ Parent[c] = x
<1> DEFINE Q(d) == \A u \in chainOf[d] : u # d => \E c \in chainOf[d] : c # Root /\ Parent[c] = u
           S == {d \in Block : Q(d)}
<1>1. Root \in S
  BY ChainExists, TreeAssumption
<1>2. ASSUME NEW d \in Block \ {Root}, Parent[d] \in S PROVE d \in S
  <2>1. Parent[d] \in Block /\ chainOf[d] = {d} \cup chainOf[Parent[d]]
    BY ChainExists, TreeAssumption
  <2>2. QED
    BY <1>2, <2>1
<1>3. S = Block
  <2> HIDE DEF S
  <2>1. S \in SUBSET Block
    BY DEF S
  <2>2. QED
    BY <1>1, <1>2, <2>1, TreeInduction
<1>4. QED
  BY <1>3

\* A set of blocks of bounded height has a highest one.
LEMMA HighestExists ==
    ASSUME NEW S \in SUBSET Block, S # {}, NEW n \in Nat, \A b \in S : Height[b] <= n
    PROVE  \E b \in S : \A c \in S : Height[c] <= Height[b]
<1> DEFINE at == {Height[b] : b \in S}
<1>1. at \in SUBSET (0 .. n) /\ at # {}
  BY TreeAssumption
<1>2. Max(at) \in at /\ \A y \in at : y <= Max(at)
  <2> HIDE DEF at
  <2>1. QED
    BY <1>1, MaxOfBounded
<1>3. QED
  BY <1>2

-----------------------------------------------------------------------------
(* What a step computes from its reads. *)

LEMMA ActiveIsChain ==
    ASSUME tip \in Block
    PROVE  Active = chainOf[tip] /\ Active \subseteq Block /\ tip # None
BY ChainExists, TreeAssumption DEF Active

\* The last row passed: the highest of them.
LastOf(S) == CHOOSE b \in S : \A c \in S : Height[c] <= Height[b]

LEMMA LastIsPassed ==
    ASSUME NEW cursor \in Block, NEW hi \in Nat, Passed(cursor, hi) # {}, tip \in Block
    PROVE  LET last == LastOf(Passed(cursor, hi))
           IN  last \in Passed(cursor, hi) /\ \A c \in Passed(cursor, hi) : Height[c] <= Height[last]
<1>1. Passed(cursor, hi) \in SUBSET Block /\ \A b \in Passed(cursor, hi) : Height[b] <= hi
  BY ActiveIsChain DEF Passed
<1>2. \E b \in Passed(cursor, hi) : \A c \in Passed(cursor, hi) : Height[c] <= Height[b]
  BY <1>1, HighestExists
<1>3. QED
  BY <1>2 DEF LastOf

\* A refused row stays below none of what passes: a passed row is lower than every
\* refused row the cursor was lower than.
LEMMA PassedAreLower ==
    ASSUME tip \in Block, NEW cursor \in Block, NEW hi \in Nat, NEW b \in Passed(cursor, hi),
           NEW d \in Refused, Height[cursor] < Height[d]
    PROVE  Height[b] < Height[d]
<1>1. Active = chainOf[tip] /\ Active \subseteq Block /\ Height \in [Block -> Nat]
  BY ActiveIsChain, TreeAssumption
<1>2. b \in Active /\ d \in Active /\ d \notin Valid
      /\ \A c \in chainOf[b] : Height[c] > Height[cursor] => c \in Valid
  BY DEF Passed, Refused
<1>3. ASSUME Height[d] <= Height[b] PROVE FALSE
  <2>1. d \in chainOf[b]
    BY <1>1, <1>2, <1>3, Linear
  <2>2. Height[d] > Height[cursor]
    BY <1>1, <1>2
  <2>3. QED
    BY <1>2, <2>1, <2>2
<1>4. QED
  BY <1>1, <1>2, <1>3

\* A checkpoint on the chain is lower than every refused row.
LEMMA AnchorIsLower ==
    ASSUME tip \in Block, NEW c \in Checkpoint, c \in Active, NEW d \in Refused
    PROVE  Height[c] < Height[d]
<1>1. Active = chainOf[tip] /\ Active \subseteq Block /\ Height \in [Block -> Nat]
  BY ActiveIsChain, TreeAssumption
<1>2. d \in Active /\ d \notin chainOf[c]
  BY DEF Refused, Vouched
<1>3. ASSUME Height[d] <= Height[c] PROVE FALSE
  BY <1>1, <1>2, <1>3, Linear
<1>4. QED
  BY <1>1, <1>2, <1>3

-----------------------------------------------------------------------------
(* Types. *)

Noted == stored \cup {None}
Reading == [at : Noted, tip : Noted, asks : SUBSET Checkpoint, anchor : Noted, row : Noted,
            walked : 0 .. WalkLimit, cursor : Noted, last : Noted,
            fault : BOOLEAN, complete : BOOLEAN]
Places == {"idle", "tip", "anchor", "cursor", "walk", "keep", "compare", "write"}

\* Where a step stands and what it has read by then.
Standing(p, l) ==
    /\ p \in Places
    /\ l \in Reading
    /\ p \in {"anchor", "cursor", "walk", "keep", "compare"} => l.tip # None
    /\ p \in {"cursor", "walk", "keep", "compare"} => l.anchor # None
    /\ p = "walk" => l.row # None
    /\ p \in {"keep", "compare"} => l.cursor # None
    /\ p # "write" => ~l.fault

\* The rows are closed under parents, and the tip is one of them.
RowsStand ==
    /\ stored \subseteq Block
    /\ \A b \in stored \ {Root} : Parent[b] \in stored
    /\ tip \in stored \/ (tip = None /\ stored = {})
    /\ returned \subseteq stored

TypeInv ==
    /\ RowsStand
    /\ val \in [at : Noted, fault : BOOLEAN, complete : BOOLEAN]
    /\ pc = [s \in Stepper |-> pc[s]] /\ loc = [s \in Stepper |-> loc[s]]
    /\ \A s \in Stepper : Standing(pc[s], loc[s])
    /\ restarts \in 0 .. MaxRestarts /\ cuts \in 0 .. MaxCuts

\* One step moves; the others stand where they stood.
LEMMA OnlyThisMoves ==
    ASSUME TypeInv, NEW s \in Stepper, NEW where, NEW read, Goto(s, where, read)
    PROVE  /\ pc' = [t \in Stepper |-> pc'[t]] /\ loc' = [t \in Stepper |-> loc'[t]]
           /\ pc'[s] = where /\ loc'[s] = read
           /\ \A t \in Stepper \ {s} : pc'[t] = pc[t] /\ loc'[t] = loc[t]
BY DEF TypeInv, Goto

\* What a step has read is never None where it uses it.
LEMMA ReadsAreBlocks ==
    ASSUME TypeInv, NEW s \in Stepper, pc[s] \in {"anchor", "cursor", "walk", "keep", "compare"}
    PROVE  /\ tip \in Block /\ tip \in stored
           /\ loc[s].tip \in Block /\ loc[s].tip \in stored
           /\ pc[s] # "anchor" => loc[s].anchor \in Block /\ loc[s].anchor \in stored
           /\ pc[s] = "walk" => loc[s].row \in Block /\ loc[s].row \in stored
           /\ pc[s] \in {"keep", "compare"} => loc[s].cursor \in Block /\ loc[s].cursor \in stored
           /\ ~loc[s].fault /\ loc[s].at \in Noted /\ loc[s] \in Reading
BY DEF TypeInv, Standing, Reading, Noted, RowsStand

-----------------------------------------------------------------------------
(* What is served. *)

\* A row that no refused row stands at or below.
Low(c) == c = None \/ \A d \in Refused : Height[c] < Height[d]

\* Whatever a step has read or is about to write as its cursor is low, and the tip
\* it read is no lower than any refused row.
LowReading(l) ==
    /\ Low(l.at) /\ Low(l.anchor) /\ Low(l.row) /\ Low(l.cursor) /\ Low(l.last)
    /\ l.complete => Refused = {}
    /\ l.tip = None \/ \A d \in Refused : Height[d] <= Height[l.tip]

LowInv ==
    /\ Low(val.at)
    /\ val.complete => Refused = {}
    /\ \A s \in Stepper : LowReading(loc[s])

-----------------------------------------------------------------------------
(* What is faulted.  The hypothesis: the pass found a store that stands on a *)
(* checkpoint, and no other row at the height of one.                        *)

Stands == Root \in Checkpoint /\ \A b \in Old, c \in Checkpoint : Height[b] = Height[c] => b = c

\* Under the lease the chain is the one the step began with, and the row above
\* the last that passed is on it, and refused.
Unshaken(p, l) ==
    /\ p \in {"anchor", "cursor", "walk", "keep", "compare"} => l.tip = tip
    /\ p = "anchor" => Root \in l.asks /\ \A c \in l.asks : Height[c] <= Height[tip]
    /\ p \in {"cursor", "walk", "keep", "compare"} => l.anchor \in Active
    /\ p \in {"keep", "compare"} => l.cursor \in Active
    /\ p = "write" /\ l.fault => \E b \in Active \ Valid : b # Root /\ Parent[b] = l.last

FaultInv ==
    /\ \A b \in stored, c \in Checkpoint : Height[b] = Height[c] => b = c
    /\ \A s \in Leased : Unshaken(pc[s], loc[s])

-----------------------------------------------------------------------------
(* The steps, one by one. *)

\* A step moves on to `where` having read `read`, and both are as they should be.
StepsTo(s, where, read) ==
    /\ Goto(s, where, read) /\ UNCHANGED rows
    /\ Standing(where, read)
    /\ LowInv => LowReading(read)
    /\ Stands /\ FaultInv /\ s \in Leased => Unshaken(where, read)

\* A step with nothing read.
LEMMA BlankIsFine ==
    ASSUME TypeInv
    PROVE  /\ Blank \in Reading /\ ~Blank.fault /\ ~Blank.complete
           /\ Standing("idle", Blank) /\ LowReading(Blank) /\ Unshaken("idle", Blank)
<1>1. 0 \in 0 .. WalkLimit
  BY TreeAssumption
<1>2. QED
  BY <1>1 DEF Standing, Places, Reading, Noted, Blank, LowReading, Low, Unshaken

LEMMA ReadStateSteps ==
    ASSUME TypeInv, NEW s \in Stepper, ReadState(s)
    PROVE  StepsTo(s, "tip", [Blank EXCEPT !.at = val.at]) /\ UNCHANGED <<val, restarts, cuts>>
<1> DEFINE read == [Blank EXCEPT !.at = val.at]
<1>1. Goto(s, "tip", read) /\ UNCHANGED <<rows, val, restarts, cuts>>
  BY DEF ReadState
<1>2. /\ read \in Reading /\ read.at = val.at /\ ~read.fault /\ ~read.complete
      /\ read.tip = None /\ read.anchor = None /\ read.row = None /\ read.cursor = None
      /\ read.last = None
  BY BlankIsFine DEF TypeInv, Reading, Blank
<1> HIDE DEF read
<1>3. Standing("tip", read) /\ Unshaken("tip", read)
  BY <1>2 DEF Standing, Places, Unshaken
<1>4. LowInv => LowReading(read)
  BY <1>2 DEF LowInv, LowReading, Low
<1>5. QED
  BY <1>1, <1>3, <1>4 DEF StepsTo, read

\* A pass with nothing to re-validate, or a fault with nothing passed.
LEMMA EmptyHanded ==
    ASSUME TypeInv
    PROVE  /\ LET read == [Blank EXCEPT !.complete = TRUE]
              IN  /\ Standing("write", read) /\ read.fault = FALSE
                  /\ tip = None => LowReading(read)
           /\ LET read == [Blank EXCEPT !.fault = TRUE]
              IN  Standing("write", read) /\ LowReading(read)
<1> DEFINE whole == [Blank EXCEPT !.complete = TRUE]
           faulty == [Blank EXCEPT !.fault = TRUE]
<1>1. /\ whole \in Reading /\ whole.at = None /\ whole.fault = FALSE
      /\ whole.tip = None /\ whole.anchor = None /\ whole.row = None /\ whole.cursor = None
      /\ whole.last = None
  BY BlankIsFine DEF Reading, Blank
<1>2. /\ faulty \in Reading /\ faulty.at = None /\ faulty.complete = FALSE
      /\ faulty.tip = None /\ faulty.anchor = None /\ faulty.row = None /\ faulty.cursor = None
      /\ faulty.last = None
  BY BlankIsFine DEF Reading, Blank
<1> HIDE DEF whole, faulty
<1>3. tip = None => Refused = {}
  BY DEF Refused, Active
<1>4. Standing("write", whole) /\ (tip = None => LowReading(whole))
  BY <1>1, <1>3 DEF Standing, Places, LowReading, Low
<1>5. Standing("write", faulty) /\ LowReading(faulty)
  BY <1>2 DEF Standing, Places, LowReading, Low
<1>6. QED
  BY <1>1, <1>4, <1>5 DEF whole, faulty

LEMMA ReadTipSteps ==
    ASSUME TypeInv, NEW s \in Stepper, ReadTip(s)
    PROVE  \E where, read : StepsTo(s, where, read) /\ UNCHANGED <<val, restarts, cuts>>
<1>1. UNCHANGED <<rows, val, restarts, cuts>> /\ pc[s] = "tip"
  BY DEF ReadTip
<1>2. CASE tip = None
  <2> DEFINE read == [Blank EXCEPT !.complete = TRUE]
  <2>1. Goto(s, "write", read)
    BY <1>2 DEF ReadTip
  <2>2. Standing("write", read) /\ LowReading(read) /\ read.fault = FALSE
    BY <1>2, EmptyHanded
  <2> HIDE DEF read
  <2>3. Unshaken("write", read)
    BY <2>2 DEF Unshaken
  <2>4. QED
    BY <1>1, <2>1, <2>2, <2>3 DEF StepsTo
<1>3. CASE tip # None
  <2> DEFINE asks == {c \in Checkpoint : Height[c] <= Height[tip]}
             read == [loc[s] EXCEPT !.tip = tip, !.asks = asks]
  <2>1. Goto(s, "anchor", read)
    BY <1>3 DEF ReadTip
  <2>2. tip \in Block /\ tip \in stored /\ RowsStand
    BY <1>3 DEF TypeInv, RowsStand
  <2>3. Active = chainOf[tip] /\ Active \subseteq Block
    BY <2>2, ActiveIsChain
  <2>4. loc[s] \in Reading /\ ~loc[s].fault
    BY <1>1 DEF TypeInv, Standing
  <2>5. asks \subseteq Checkpoint
    OBVIOUS
  <2>6. /\ read \in Reading /\ read.tip = tip /\ read.asks = asks /\ ~read.fault
        /\ read.at = loc[s].at /\ read.anchor = loc[s].anchor /\ read.row = loc[s].row
        /\ read.cursor = loc[s].cursor /\ read.last = loc[s].last
        /\ read.complete = loc[s].complete
    <3> HIDE DEF asks
    <3>1. QED
      BY <2>2, <2>4, <2>5 DEF Reading, Noted
  <2> HIDE DEF read
  <2>7. Standing("anchor", read)
    BY <1>3, <2>6 DEF Standing, Places
  <2>8. ASSUME LowInv PROVE LowReading(read)
    <3>1. LowReading(loc[s])
      BY <2>8 DEF LowInv
    <3>2. \A d \in Refused : Height[d] <= Height[tip]
      BY <2>2, <2>3, Lower DEF Refused
    <3>3. QED
      BY <2>6, <3>1, <3>2 DEF LowReading
  <2>9. Stands => Unshaken("anchor", read)
    <3>1. Height[Root] <= Height[tip]
      BY <2>2, Ancestry, Lower
    <3>2. QED
      BY <2>6, <3>1 DEF Stands, Unshaken
  <2>10. QED
    BY <1>1, <2>1, <2>7, <2>8, <2>9 DEF StepsTo
<1>4. QED
  BY <1>2, <1>3

LEMMA ReadAnchorSteps ==
    ASSUME TypeInv, NEW s \in Stepper, ReadAnchor(s)
    PROVE  \E where, read : StepsTo(s, where, read) /\ UNCHANGED <<val, restarts, cuts>>
<1> DEFINE l == loc[s]
           highest == {c \in l.asks : \A d \in l.asks : Height[d] <= Height[c]}
           fault == [Blank EXCEPT !.fault = TRUE]
<1>1. UNCHANGED <<rows, val, restarts, cuts>> /\ pc[s] = "anchor"
  BY DEF ReadAnchor
<1>2. /\ tip \in Block /\ tip \in stored /\ RowsStand /\ l \in Reading /\ ~l.fault
      /\ l.tip \in stored /\ l.tip # None /\ l.asks \subseteq Checkpoint
  BY <1>1, ReadsAreBlocks DEF TypeInv, Standing, Reading
<1>3. Active = chainOf[tip] /\ Active \subseteq stored /\ Root \in Active
  BY <1>2, ActiveIsChain, ChainStaysIn, Ancestry DEF RowsStand
<1>4. LowInv => LowReading(l)
  BY DEF LowInv
<1>5. ASSUME Stands, FaultInv, s \in Leased
      PROVE  /\ l.tip = tip /\ Root \in l.asks
             /\ \A c \in l.asks : Height[c] <= Height[tip]
             /\ \A b \in Active, c \in l.asks : Height[b] = Height[c] => b = c
  BY <1>1, <1>2, <1>3, <1>5 DEF FaultInv, Unshaken
\* A store that stands on a checkpoint is never faulted here.
<1>6. ASSUME Goto(s, "write", fault), Stands /\ FaultInv /\ s \in Leased => FALSE
      PROVE  StepsTo(s, "write", fault)
  <2>1. Standing("write", fault) /\ LowReading(fault)
    BY EmptyHanded
  <2> HIDE DEF fault
  <2>2. QED
    BY <1>1, <1>6, <2>1 DEF StepsTo
<1>7. CASE highest = {}
  <2>1. Goto(s, "write", fault)
    BY <1>7 DEF ReadAnchor
  <2>2. ASSUME Stands, FaultInv, s \in Leased PROVE FALSE
    <3>1. l.asks \in SUBSET Block /\ l.asks # {} /\ Height[tip] \in Nat
      BY <1>2, <1>5, <2>2, TreeAssumption
    <3>2. \E c \in l.asks : \A d \in l.asks : Height[d] <= Height[c]
      <4> DEFINE S == l.asks
      <4>1. S \in SUBSET Block /\ S # {} /\ \A c \in S : Height[c] <= Height[tip]
        BY <1>5, <2>2, <3>1
      <4> HIDE DEF S
      <4>2. \E c \in S : \A d \in S : Height[d] <= Height[c]
        BY <3>1, <4>1, HighestExists
      <4>3. QED
        BY <4>2 DEF S
    <3>3. QED
      BY <1>7, <3>2
  <2>3. QED
    BY <1>1, <1>6, <2>1, <2>2
<1>8. CASE highest # {}
  <2>1. PICK c \in highest :
          IF c \in Active THEN Goto(s, "cursor", [l EXCEPT !.anchor = c, !.asks = {}])
          ELSE IF RowAt(Height[c]) = {} THEN Goto(s, "anchor", [l EXCEPT !.asks = @ \ {c}])
          ELSE Goto(s, "write", [Blank EXCEPT !.fault = TRUE])
    BY <1>8 DEF ReadAnchor
  <2>2. c \in l.asks /\ c \in Checkpoint
    BY <1>2
  <2>3. CASE c \in Active
    <3> DEFINE read == [l EXCEPT !.anchor = c, !.asks = {}]
    <3>1. Goto(s, "cursor", read)
      BY <2>1, <2>3
    <3>2. c \in stored /\ c # None
      BY <1>2, <1>3, <2>3, TreeAssumption DEF RowsStand
    <3>3. /\ read \in Reading /\ read.tip = l.tip /\ read.anchor = c /\ ~read.fault
          /\ read.at = l.at /\ read.row = l.row /\ read.cursor = l.cursor /\ read.last = l.last
          /\ read.complete = l.complete
      <4> HIDE DEF l
      <4>1. QED
        BY <1>2, <3>2 DEF Reading, Noted
    <3> HIDE DEF read
    <3>4. Standing("cursor", read)
      BY <1>2, <3>2, <3>3 DEF Standing, Places
    <3>5. LowInv => LowReading(read)
      <4>1. Low(c)
        BY <1>2, <2>2, <2>3, AnchorIsLower DEF Low
      <4>2. QED
        BY <1>4, <3>3, <4>1 DEF LowReading
    <3>6. Stands /\ FaultInv /\ s \in Leased => Unshaken("cursor", read)
      BY <1>5, <2>3, <3>3 DEF Unshaken
    <3>7. QED
      BY <1>1, <3>1, <3>4, <3>5, <3>6 DEF StepsTo
  <2>4. CASE c \notin Active /\ RowAt(Height[c]) = {}
    <3> DEFINE read == [l EXCEPT !.asks = @ \ {c}]
    <3>1. Goto(s, "anchor", read)
      BY <2>1, <2>4
    <3>2. /\ read \in Reading /\ read.tip = l.tip /\ read.asks = l.asks \ {c} /\ ~read.fault
          /\ read.at = l.at /\ read.anchor = l.anchor /\ read.row = l.row
          /\ read.cursor = l.cursor /\ read.last = l.last /\ read.complete = l.complete
      <4> HIDE DEF l
      <4>1. QED
        BY <1>2 DEF Reading
    <3> HIDE DEF read
    <3>3. Standing("anchor", read)
      BY <1>2, <3>2 DEF Standing, Places
    <3>4. LowInv => LowReading(read)
      BY <1>4, <3>2 DEF LowReading
    <3>5. Stands /\ FaultInv /\ s \in Leased => Unshaken("anchor", read)
      BY <1>3, <1>5, <2>4, <3>2 DEF Unshaken
    <3>6. QED
      BY <1>1, <3>1, <3>3, <3>4, <3>5 DEF StepsTo
  <2>5. CASE c \notin Active /\ RowAt(Height[c]) # {}
    <3>1. Goto(s, "write", fault)
      BY <2>1, <2>5
    <3>2. ASSUME Stands, FaultInv, s \in Leased PROVE FALSE
      BY <1>5, <2>2, <2>5, <3>2 DEF RowAt
    <3>3. QED
      BY <1>1, <1>6, <3>1, <3>2
  <2>6. QED
    BY <2>3, <2>4, <2>5
<1>9. QED
  BY <1>7, <1>8

\* A cursor that is found, as a row of the store, low and on the chain under the lease.
LEMMA SettleSteps ==
    ASSUME TypeInv, NEW s \in Stepper, pc[s] \in {"cursor", "walk"}, NEW c \in stored,
           Settle(s, c), UNCHANGED rows, LowInv => Low(c),
           Stands /\ FaultInv /\ s \in Leased => c \in Active
    PROVE  \E where, read : StepsTo(s, where, read)
<1> DEFINE l == loc[s]
           where == IF c = l.at THEN "compare" ELSE "keep"
           read == [l EXCEPT !.cursor = c]
<1>1. Goto(s, where, read)
  BY DEF Settle
<1>2. /\ l \in Reading /\ ~l.fault /\ l.tip # None /\ l.anchor # None /\ c # None
  BY TreeAssumption DEF TypeInv, Standing, RowsStand
<1>3. /\ read \in Reading /\ read.cursor = c /\ read.at = l.at /\ read.tip = l.tip
      /\ read.anchor = l.anchor /\ read.row = l.row /\ read.last = l.last
      /\ read.fault = l.fault /\ read.complete = l.complete
  <2> HIDE DEF l
  <2>1. QED
    BY <1>2 DEF Reading, Noted
<1> HIDE DEF read
<1>4. Standing(where, read)
  BY <1>2, <1>3 DEF Standing, Places
<1>5. LowInv => LowReading(read)
  <2>1. LowInv => LowReading(l)
    BY DEF LowInv
  <2>2. QED
    BY <1>3, <2>1 DEF LowReading
<1>6. Stands /\ FaultInv /\ s \in Leased => Unshaken(where, read)
  BY <1>3 DEF FaultInv, Unshaken
<1>7. QED
  BY <1>1, <1>4, <1>5, <1>6 DEF StepsTo

\* A walk that goes on, from a row no higher than the last.
LEMMA WalkSteps ==
    ASSUME TypeInv, NEW s \in Stepper, pc[s] \in {"cursor", "walk"}, NEW c \in stored,
           NEW n \in 0 .. WalkLimit, LowInv => Low(c),
           Goto(s, "walk", [loc[s] EXCEPT !.row = c, !.walked = n]), UNCHANGED rows
    PROVE  \E where, read : StepsTo(s, where, read)
<1> DEFINE l == loc[s]
           read == [l EXCEPT !.row = c, !.walked = n]
<1>1. Goto(s, "walk", read)
  OBVIOUS
<1>2. /\ l \in Reading /\ ~l.fault /\ l.tip # None /\ l.anchor # None /\ c # None
  BY TreeAssumption DEF TypeInv, Standing, RowsStand
<1>3. /\ read \in Reading /\ read.row = c /\ read.at = l.at /\ read.tip = l.tip
      /\ read.anchor = l.anchor /\ read.cursor = l.cursor /\ read.last = l.last
      /\ read.fault = l.fault /\ read.complete = l.complete
  <2> HIDE DEF l
  <2>1. QED
    BY <1>2 DEF Reading, Noted
<1> HIDE DEF read
<1>4. Standing("walk", read)
  BY <1>2, <1>3 DEF Standing, Places
<1>5. LowInv => LowReading(read)
  <2>1. LowInv => LowReading(l)
    BY DEF LowInv
  <2>2. QED
    BY <1>3, <2>1 DEF LowReading
<1>6. Stands /\ FaultInv /\ s \in Leased => Unshaken("walk", read)
  BY <1>3 DEF FaultInv, Unshaken
<1>7. QED
  BY <1>1, <1>4, <1>5, <1>6 DEF StepsTo

LEMMA ReadCursorSteps ==
    ASSUME TypeInv, NEW s \in Stepper, ReadCursor(s)
    PROVE  \E where, read : StepsTo(s, where, read) /\ UNCHANGED <<val, restarts, cuts>>
<1> DEFINE l == loc[s]
<1>1. UNCHANGED <<rows, val, restarts, cuts>> /\ pc[s] = "cursor"
  BY DEF ReadCursor
<1>2. l.anchor \in stored /\ l.at \in Noted /\ l \in Reading
  BY <1>1, ReadsAreBlocks
<1>3. LowInv => Low(l.anchor) /\ Low(l.at)
  BY DEF LowInv, LowReading
<1>4. Stands /\ FaultInv /\ s \in Leased => l.anchor \in Active
  BY <1>1 DEF FaultInv, Unshaken
<1>5. CASE Settle(s, l.anchor)
  BY <1>1, <1>2, <1>3, <1>4, <1>5, SettleSteps
<1>6. CASE l.at # None /\ OnChain(l.at) /\ Settle(s, l.at)
  <2>1. l.at \in stored /\ l.at \in Active
    BY <1>2, <1>6 DEF Noted, OnChain
  <2>2. QED
    BY <1>1, <1>3, <1>6, <2>1, SettleSteps
<1>7. CASE l.at # None /\ Goto(s, "walk", [l EXCEPT !.row = l.at])
  <2>1. l.at \in stored /\ l.walked \in 0 .. WalkLimit
    BY <1>2, <1>7 DEF Noted, Reading
  <2>2. [l EXCEPT !.row = l.at] = [l EXCEPT !.row = l.at, !.walked = l.walked]
    BY <1>2 DEF Reading
  <2>3. QED
    BY <1>1, <1>3, <1>7, <2>1, <2>2, WalkSteps
<1>8. QED
  BY <1>5, <1>6, <1>7 DEF ReadCursor

LEMMA WalkBackSteps ==
    ASSUME TypeInv, NEW s \in Stepper, WalkBack(s)
    PROVE  \E where, read : StepsTo(s, where, read) /\ UNCHANGED <<val, restarts, cuts>>
<1> DEFINE l == loc[s]
<1>1. UNCHANGED <<rows, val, restarts, cuts>> /\ pc[s] = "walk"
  BY DEF WalkBack
<1>2. l.anchor \in stored /\ l.row \in stored /\ l.row \in Block /\ l \in Reading
      /\ l.row # None
  BY <1>1, ReadsAreBlocks DEF TypeInv, Standing
<1>3. LowInv => Low(l.anchor) /\ Low(l.row)
  BY DEF LowInv, LowReading
<1>4. Stands /\ FaultInv /\ s \in Leased => l.anchor \in Active
  BY <1>1 DEF FaultInv, Unshaken
<1>5. CASE Settle(s, l.anchor)
  BY <1>1, <1>2, <1>3, <1>4, <1>5, SettleSteps
<1>6. CASE /\ ~(l.walked = WalkLimit \/ l.row = Root \/ Height[Parent[l.row]] < Height[l.anchor])
           /\ IF OnChain(Parent[l.row]) THEN Settle(s, Parent[l.row])
              ELSE Goto(s, "walk", [l EXCEPT !.row = Parent[l.row], !.walked = @ + 1])
  <2> DEFINE p == Parent[l.row]
  <2>1. p \in stored /\ p \in Block /\ Height[l.row] = Height[p] + 1 /\ Height[p] \in Nat
    BY <1>2, <1>6, TreeAssumption DEF TypeInv, RowsStand
  <2>2. LowInv => Low(p)
    <3>1. \A d \in Refused : Height[d] \in Nat
      <4>1. tip \in Block
        BY <1>1, ReadsAreBlocks
      <4>2. QED
        BY <4>1, ActiveIsChain, TreeAssumption DEF Refused
    <3>2. QED
      BY <1>2, <1>3, <2>1, <3>1 DEF Low
  <2>3. CASE OnChain(p)
    BY <1>1, <1>6, <2>1, <2>2, <2>3, SettleSteps DEF OnChain
  <2>4. CASE ~OnChain(p)
    <3>1. l.walked \in 0 .. WalkLimit /\ l.walked # WalkLimit
      BY <1>2, <1>6 DEF Reading
    <3>2. l.walked + 1 \in 0 .. WalkLimit
      BY <3>1, TreeAssumption
    <3>3. Goto(s, "walk", [l EXCEPT !.row = p, !.walked = l.walked + 1])
      BY <1>6, <2>4
    <3>4. QED
      BY <1>1, <2>1, <2>2, <3>2, <3>3, WalkSteps
  <2>5. QED
    BY <2>3, <2>4
<1>7. QED
  BY <1>5, <1>6 DEF WalkBack

LEMMA KeepCursorSteps ==
    ASSUME TypeInv, NEW s \in Stepper, KeepCursor(s)
    PROVE  /\ StepsTo(s, "compare", loc[s]) /\ UNCHANGED <<restarts, cuts>>
           /\ val' = [val EXCEPT !.at = loc[s].cursor, !.complete = FALSE]
           /\ loc[s].cursor \in stored
<1>1. Goto(s, "compare", loc[s]) /\ UNCHANGED <<rows, restarts, cuts>> /\ pc[s] = "keep"
      /\ val' = [val EXCEPT !.at = loc[s].cursor, !.complete = FALSE]
  BY DEF KeepCursor, SetValidated
<1>2. loc[s].cursor \in stored
  BY <1>1, ReadsAreBlocks
<1>3. Standing("compare", loc[s])
  BY <1>1 DEF TypeInv, Standing, Places
<1>4. LowInv => LowReading(loc[s])
  BY DEF LowInv
<1>5. FaultInv /\ s \in Leased => Unshaken("compare", loc[s])
  BY <1>1 DEF FaultInv, Unshaken
<1>6. QED
  BY <1>1, <1>2, <1>3, <1>4, <1>5 DEF StepsTo

\* Above the last row passed, where the budget and the tip leave one, stands a
\* row that was refused.
LEMMA RefusedAbove ==
    ASSUME tip \in Block, NEW cursor \in Active, NEW hi \in Nat, hi <= Height[tip],
           NEW last \in Active, Height[last] < hi,
           Passed(cursor, hi) = {} => last = cursor,
           Passed(cursor, hi) # {} => /\ last \in Passed(cursor, hi)
                                     /\ \A c \in Passed(cursor, hi) : Height[c] <= Height[last]
    PROVE  \E b \in Active \ Valid : b # Root /\ Parent[b] = last
<1>1. Active = chainOf[tip] /\ Active \subseteq Block
  BY ActiveIsChain
<1>2. Height \in [Block -> Nat]
  BY TreeAssumption
<1>3. last # tip
  BY <1>1, <1>2
<1>4. PICK b \in Active : b # Root /\ Parent[b] = last
  BY <1>1, <1>3, ChildOn
<1>5. Height[b] = Height[last] + 1 /\ chainOf[b] = {b} \cup chainOf[last] /\ b \in Block
  BY <1>1, <1>4, ChainExists, TreeAssumption
<1>6. cursor \in chainOf[last]
  <2>1. CASE Passed(cursor, hi) = {}
    BY <1>1, <2>1, ChainExists
  <2>2. CASE Passed(cursor, hi) # {}
    BY <2>2 DEF Passed
  <2>3. QED
    BY <2>1, <2>2
<1>7. ASSUME b \in Valid PROVE FALSE
  <2>1. ASSUME NEW c \in chainOf[b], Height[c] > Height[cursor] PROVE c \in Valid
    <3>1. CASE c = b
      BY <1>7, <3>1
    <3>2. CASE c \in chainOf[last] /\ Passed(cursor, hi) # {}
      BY <2>1, <3>2 DEF Passed
    <3>3. CASE c \in chainOf[last] /\ Passed(cursor, hi) = {}
      <4>1. last = cursor /\ last \in Block
        BY <1>1, <3>3
      <4>2. Height[c] <= Height[cursor] /\ c \in Block
        BY <3>3, <4>1, Lower
      <4>3. QED
        BY <1>1, <1>2, <2>1, <4>2
    <3>4. QED
      BY <1>5, <2>1, <3>1, <3>2, <3>3
  <2>2. Height[b] <= hi
    BY <1>1, <1>2, <1>5
  <2>3. b \in Passed(cursor, hi)
    BY <1>4, <1>5, <1>6, <2>1, <2>2 DEF Passed
  <2>4. Height[b] <= Height[last]
    BY <2>3
  <2>5. QED
    BY <1>1, <1>2, <1>5, <2>4
<1>8. QED
  BY <1>4, <1>7

LEMMA JudgeRowsSteps ==
    ASSUME TypeInv, NEW s \in Stepper, JudgeRows(s)
    PROVE  \E where, read : StepsTo(s, where, read) /\ UNCHANGED <<val, restarts, cuts>>
<1> DEFINE l == loc[s]
           hi == Min({Height[l.tip], Height[l.cursor] + Budget})
           passed == Passed(l.cursor, hi)
           last == IF passed = {} THEN l.cursor ELSE LastOf(passed)
           done == [l EXCEPT !.last = l.tip, !.complete = TRUE]
           faulty == Height[last] < hi
           whole == Height[last] >= Height[l.tip]
           judged == [l EXCEPT !.last = last, !.fault = faulty, !.complete = whole]
<1>1. UNCHANGED <<rows, val, restarts, cuts>> /\ pc[s] = "compare"
  BY DEF JudgeRows
<1>2. IF Height[l.cursor] >= Height[l.tip] THEN Goto(s, "write", done) ELSE Goto(s, "write", judged)
  BY DEF JudgeRows, LastOf
<1>3. /\ tip \in Block /\ tip \in stored /\ RowsStand
      /\ l.tip \in Block /\ l.tip \in stored /\ l.cursor \in Block /\ l.cursor \in stored
      /\ l.cursor # None /\ l \in Reading /\ ~l.fault
  BY <1>1, ReadsAreBlocks, TreeAssumption DEF TypeInv, Standing
<1>4. Active = chainOf[tip] /\ Active \subseteq stored /\ tip # None
  BY <1>3, ActiveIsChain, ChainStaysIn DEF RowsStand
<1>5. Height[l.tip] \in Nat /\ Height[l.cursor] \in Nat /\ Height[tip] \in Nat
      /\ Height[l.cursor] + Budget \in Nat
  BY <1>3, TreeAssumption
<1>6. hi \in Nat /\ hi <= Height[l.tip] /\ hi <= Height[l.cursor] + Budget
  BY <1>5, MinOfTwo
<1>7. \A d \in Refused : Height[d] \in Nat
  BY <1>3, ActiveIsChain, TreeAssumption DEF Refused
\* A low row as high as the tip that was read leaves no refused row.
<1>8. ASSUME LowInv, NEW c \in Block, Low(c), c # None, Height[c] >= Height[l.tip]
      PROVE  Refused = {}
  <2>1. LowReading(l) /\ l.tip # None /\ Height[c] \in Nat
    BY <1>3, <1>8, TreeAssumption DEF LowInv
  <2>2. \A d \in Refused : Height[c] < Height[d] /\ Height[d] <= Height[l.tip]
    BY <1>8, <2>1 DEF LowReading, Low
  <2>3. QED
    BY <1>5, <1>7, <1>8, <2>1, <2>2
<1>9. LowInv => LowReading(l) /\ Low(l.cursor)
  BY DEF LowInv, LowReading
<1>10. CASE Height[l.cursor] >= Height[l.tip]
  <2>1. Goto(s, "write", done)
    BY <1>2, <1>10
  <2>2. /\ done \in Reading /\ done.at = l.at /\ done.anchor = l.anchor /\ done.cursor = l.cursor
        /\ done.row = l.row /\ done.tip = l.tip /\ done.fault = l.fault /\ done.last = l.tip
        /\ done.complete = TRUE
    <3> HIDE DEF l
    <3>1. QED
      BY <1>3 DEF Reading, Noted
  <2> HIDE DEF done
  <2>3. Standing("write", done) /\ Unshaken("write", done)
    BY <1>3, <2>2 DEF Standing, Places, Unshaken
  <2>4. ASSUME LowInv PROVE LowReading(done)
    <3>1. Refused = {}
      BY <1>3, <1>8, <1>9, <1>10, <2>4
    <3>2. QED
      BY <1>9, <2>2, <2>4, <3>1 DEF LowReading, Low
  <2>5. QED
    BY <1>1, <2>1, <2>3, <2>4 DEF StepsTo
<1>11. CASE ~(Height[l.cursor] >= Height[l.tip])
  <2>1. Goto(s, "write", judged)
    BY <1>2, <1>11
  <2> HIDE DEF l, hi
  <2>2. /\ passed = {} => last = l.cursor
        /\ passed # {} => last \in passed /\ \A c \in passed : Height[c] <= Height[last]
    BY <1>3, <1>6, LastIsPassed
  <2> HIDE DEF last
  <2>3. last \in stored /\ last \in Block /\ Height[last] \in Nat /\ last # None
    <3>1. passed \subseteq Active
      BY DEF Passed
    <3>2. last \in stored
      BY <1>3, <1>4, <2>2, <3>1
    <3>3. QED
      BY <1>3, <3>2, TreeAssumption DEF RowsStand
  <2>4. /\ judged \in Reading /\ judged.at = l.at /\ judged.anchor = l.anchor
        /\ judged.row = l.row /\ judged.cursor = l.cursor /\ judged.tip = l.tip
        /\ judged.last = last /\ judged.fault = faulty /\ judged.complete = whole
    <3>1. faulty \in BOOLEAN /\ whole \in BOOLEAN
      OBVIOUS
    <3> HIDE DEF faulty, whole
    <3>2. QED
      BY <1>3, <2>3, <3>1 DEF Reading, Noted
  <2> HIDE DEF judged
  <2>5. Standing("write", judged)
    BY <2>4 DEF Standing, Places
  <2>6. ASSUME LowInv PROVE LowReading(judged)
    <3>1. Low(last)
      <4>1. CASE passed = {}
        BY <1>9, <2>2, <2>6, <4>1
      <4>2. ASSUME passed # {}, NEW d \in Refused PROVE Height[last] < Height[d]
        <5>1. Height[l.cursor] < Height[d]
          BY <1>3, <1>9, <2>6 DEF Low
        <5>2. QED
          BY <1>3, <1>6, <2>2, <4>2, <5>1, PassedAreLower
      <4>3. QED
        BY <4>1, <4>2 DEF Low
    <3>2. judged.complete => Refused = {}
      BY <1>8, <2>3, <2>4, <2>6, <3>1
    <3>3. QED
      BY <1>9, <2>4, <2>6, <3>1, <3>2 DEF LowReading
  <2>7. ASSUME FaultInv, s \in Leased PROVE Unshaken("write", judged)
    <3>1. l.tip = tip /\ l.cursor \in Active
      BY <1>1, <2>7 DEF FaultInv, Unshaken, l
    <3>2. last \in Active
      BY <2>2, <3>1 DEF Passed
    <3>3. Height[last] < hi => \E b \in Active \ Valid : b # Root /\ Parent[b] = last
      BY <1>3, <1>6, <2>2, <3>1, <3>2, RefusedAbove
    <3>4. QED
      BY <2>4, <3>3 DEF Unshaken
  <2>8. QED
    BY <1>1, <2>1, <2>5, <2>6, <2>7 DEF StepsTo
<1>12. QED
  BY <1>10, <1>11

LEMMA WriteSteps ==
    ASSUME TypeInv, NEW s \in Stepper, Write(s)
    PROVE  /\ StepsTo(s, "idle", Blank) /\ UNCHANGED <<restarts, cuts>>
           /\ pc[s] = "write" /\ val'.at = loc[s].last
           /\ val' = IF loc[s].fault THEN [at |-> loc[s].last, fault |-> TRUE, complete |-> FALSE]
                     ELSE [val EXCEPT !.at = loc[s].last, !.complete = loc[s].complete]
<1>1. Goto(s, "idle", Blank) /\ UNCHANGED <<rows, restarts, cuts>> /\ pc[s] = "write"
      /\ val' = IF loc[s].fault THEN [at |-> loc[s].last, fault |-> TRUE, complete |-> FALSE]
                ELSE [val EXCEPT !.at = loc[s].last, !.complete = loc[s].complete]
  BY DEF Write, SetValidated
<1>2. val'.at = loc[s].last
  BY <1>1 DEF TypeInv
<1>3. QED
  BY <1>1, <1>2, BlankIsFine DEF StepsTo

\* The record a step or the operator leaves behind.
RecordTypes == val \in [at : Noted, fault : BOOLEAN, complete : BOOLEAN]
RecordIsLow == Low(val.at) /\ (val.complete => Refused = {})

\* A step that moved on well keeps everything, if the record it left is well too.
LEMMA StepKeeps ==
    ASSUME TypeInv, NEW s \in Stepper, NEW where, NEW read, StepsTo(s, where, read),
           RecordTypes', restarts' \in 0 .. MaxRestarts, cuts' \in 0 .. MaxCuts
    PROVE  /\ TypeInv'
           /\ LowInv /\ RecordIsLow' => LowInv'
           /\ Stands /\ FaultInv => FaultInv'
<1>1. /\ pc' = [t \in Stepper |-> pc'[t]] /\ loc' = [t \in Stepper |-> loc'[t]]
      /\ pc'[s] = where /\ loc'[s] = read
      /\ \A t \in Stepper \ {s} : pc'[t] = pc[t] /\ loc'[t] = loc[t]
  BY OnlyThisMoves DEF StepsTo
<1>2. stored' = stored /\ tip' = tip /\ returned' = returned
  BY DEF StepsTo, rows
<1>3. TypeInv'
  <2>1. RowsStand'
    BY <1>2 DEF TypeInv, RowsStand
  <2>2. \A t \in Stepper : Standing(pc'[t], loc'[t])
    BY <1>1 DEF TypeInv, StepsTo
  <2>3. (\A t \in Stepper : Standing(pc[t], loc[t]))'
    BY <1>2, <2>2 DEF Standing, Reading, Noted
  <2>4. QED
    BY <1>1, <2>1, <2>3 DEF TypeInv, RecordTypes
<1>4. ASSUME LowInv, RecordIsLow' PROVE LowInv'
  <2>1. \A t \in Stepper : LowReading(loc'[t])
    BY <1>1, <1>4 DEF LowInv, StepsTo
  <2>2. (\A t \in Stepper : LowReading(loc[t]))'
    BY <1>2, <2>1 DEF LowReading, Low, Refused, Active
  <2>3. QED
    BY <1>4, <2>2 DEF LowInv, RecordIsLow
<1>5. ASSUME Stands, FaultInv PROVE FaultInv'
  <2>1. \A t \in Leased : Unshaken(pc'[t], loc'[t])
    BY <1>1, <1>5, TreeAssumption DEF FaultInv, StepsTo
  <2>2. (\A t \in Leased : Unshaken(pc[t], loc[t]))'
    BY <1>2, <2>1 DEF Unshaken, Active
  <2>3. QED
    BY <1>2, <1>5, <2>2 DEF FaultInv
<1>6. QED
  BY <1>3, <1>4, <1>5

LEMMA StepInv ==
    ASSUME TypeInv, NEW s \in Stepper, Step(s)
    PROVE  /\ TypeInv'
           /\ LowInv => LowInv'
           /\ Stands /\ FaultInv => FaultInv'
<1>1. restarts \in 0 .. MaxRestarts /\ cuts \in 0 .. MaxCuts /\ RecordTypes
  BY DEF TypeInv, RecordTypes
\* The reads leave the record alone.
<1>2. ASSUME NEW where, NEW read, StepsTo(s, where, read), UNCHANGED <<val, restarts, cuts>>
      PROVE  TypeInv' /\ (LowInv => LowInv') /\ (Stands /\ FaultInv => FaultInv')
  <2>1. stored' = stored /\ tip' = tip /\ returned' = returned
    BY <1>2 DEF StepsTo, rows
  <2>2. RecordTypes'
    BY <1>1, <1>2, <2>1 DEF RecordTypes, Noted
  <2>3. LowInv => RecordIsLow'
    BY <1>2, <2>1 DEF LowInv, RecordIsLow, Low, Refused, Active
  <2>4. QED
    BY <1>1, <1>2, <2>2, <2>3, StepKeeps
<1>3. CASE ReadState(s)
  BY <1>2, <1>3, ReadStateSteps
<1>4. CASE ReadTip(s)
  BY <1>2, <1>4, ReadTipSteps
<1>5. CASE ReadAnchor(s) \/ ReadCursor(s) \/ WalkBack(s)
  BY <1>2, <1>5, ReadAnchorSteps, ReadCursorSteps, WalkBackSteps
<1>6. CASE KeepCursor(s)
  <2>1. /\ StepsTo(s, "compare", loc[s]) /\ UNCHANGED <<restarts, cuts>>
        /\ val' = [val EXCEPT !.at = loc[s].cursor, !.complete = FALSE] /\ loc[s].cursor \in stored
    BY <1>6, KeepCursorSteps
  <2>2. stored' = stored /\ tip' = tip /\ returned' = returned
    BY <2>1 DEF StepsTo, rows
  <2>3. RecordTypes' /\ val'.at = loc[s].cursor /\ ~val'.complete
    BY <1>1, <2>1, <2>2 DEF RecordTypes, Noted
  <2>4. LowInv => RecordIsLow'
    BY <2>2, <2>3 DEF LowInv, LowReading, RecordIsLow, Low, Refused, Active
  <2>5. QED
    BY <1>1, <2>1, <2>3, <2>4, StepKeeps
<1>7. CASE JudgeRows(s)
  BY <1>2, <1>7, JudgeRowsSteps
<1>8. CASE Write(s)
  <2>1. /\ StepsTo(s, "idle", Blank) /\ UNCHANGED <<restarts, cuts>>
        /\ val' = IF loc[s].fault THEN [at |-> loc[s].last, fault |-> TRUE, complete |-> FALSE]
                  ELSE [val EXCEPT !.at = loc[s].last, !.complete = loc[s].complete]
    BY <1>8, WriteSteps
  <2>2. stored' = stored /\ tip' = tip /\ returned' = returned
    BY <2>1 DEF StepsTo, rows
  <2>3. loc[s].last \in Noted /\ loc[s].fault \in BOOLEAN /\ loc[s].complete \in BOOLEAN
    BY DEF TypeInv, Standing, Reading
  <2>4. /\ RecordTypes' /\ val'.at = loc[s].last
        /\ val'.complete = IF loc[s].fault THEN FALSE ELSE loc[s].complete
    BY <1>1, <2>1, <2>2, <2>3 DEF RecordTypes, Noted
  <2>5. ASSUME LowInv PROVE RecordIsLow'
    <3>1. LowReading(loc[s])
      BY <2>5 DEF LowInv
    <3>2. QED
      BY <2>2, <2>3, <2>4, <3>1 DEF LowReading, RecordIsLow, Low, Refused, Active
  <2>6. QED
    BY <1>1, <2>1, <2>4, <2>5, StepKeeps
<1>9. QED
  BY <1>3, <1>4, <1>5, <1>6, <1>7, <1>8 DEF Step

LEMMA CutInv ==
    ASSUME TypeInv, NEW s \in Stepper, Cut(s)
    PROVE  /\ TypeInv'
           /\ LowInv => LowInv'
           /\ Stands /\ FaultInv => FaultInv'
<1>1. Goto(s, "idle", Blank) /\ UNCHANGED <<rows, val, restarts>> /\ cuts' = cuts + 1 /\ cuts < MaxCuts
  BY DEF Cut
<1>2. StepsTo(s, "idle", Blank)
  BY <1>1, BlankIsFine DEF StepsTo
<1>3. restarts' \in 0 .. MaxRestarts /\ cuts' \in 0 .. MaxCuts
  BY <1>1, TreeAssumption DEF TypeInv
<1>4. stored' = stored /\ tip' = tip /\ returned' = returned /\ val' = val
  BY <1>1 DEF rows
<1>5. RecordTypes' /\ (LowInv => RecordIsLow')
  BY <1>4 DEF TypeInv, RecordTypes, LowInv, RecordIsLow, Low, Refused, Active, Noted
<1>6. QED
  BY <1>2, <1>3, <1>5, StepKeeps

LEMMA RestartInv ==
    ASSUME TypeInv, Restart
    PROVE  /\ TypeInv'
           /\ LowInv => LowInv'
           /\ FaultInv => FaultInv'
<1>1. /\ stored' = stored /\ tip' = tip /\ returned' = returned /\ pc' = pc /\ loc' = loc /\ cuts' = cuts
      /\ val' = [at |-> None, fault |-> FALSE, complete |-> FALSE]
      /\ restarts' = restarts + 1 /\ restarts < MaxRestarts
  BY DEF Restart, rows, steps
<1>2. TypeInv'
  <2>1. restarts' \in 0 .. MaxRestarts
    BY <1>1, TreeAssumption DEF TypeInv
  <2>2. QED
    BY <1>1, <2>1 DEF TypeInv, RowsStand, Standing, Reading, Noted
<1>3. LowInv => LowInv'
  BY <1>1 DEF LowInv, LowReading, Low, Refused, Active
<1>4. FaultInv => FaultInv'
  BY <1>1 DEF FaultInv, Unshaken, Active
<1>5. QED
  BY <1>2, <1>3, <1>4

\* A writer moves the tip to a row that passes the rules, or leaves it.
LEMMA StoreInv ==
    ASSUME TypeInv, NEW b \in Block, Store(b)
    PROVE  /\ TypeInv'
           /\ LowInv => LowInv'
           /\ FaultInv => FaultInv'
<1>1. /\ val' = val /\ pc' = pc /\ loc' = loc /\ restarts' = restarts /\ cuts' = cuts
      /\ b \in Valid \ stored /\ stored' = stored \cup {b}
      /\ b = Root \/ Parent[b] \in stored
      /\ returned' = returned \cup (chainOf[tip'] \ (Active \cup {b}))
      /\ tip' = b \/ (tip' = tip /\ tip # None)
      /\ \A c \in Checkpoint : Height[c] = Height[b] => c = b
      /\ \A s \in Leased : pc[s] = "idle"
  BY DEF Store, steps
<1>2. TypeInv'
  <2>1. RowsStand'
    <3>1. stored' \subseteq Block /\ (\A c \in stored' \ {Root} : Parent[c] \in stored')
          /\ tip' \in stored'
      BY <1>1, TreeAssumption DEF TypeInv, RowsStand
    <3>2. chainOf[tip'] \subseteq stored'
      BY <3>1, ChainStaysIn
    <3>3. QED
      BY <1>1, <3>1, <3>2 DEF TypeInv, RowsStand
  <2>2. \A p, l : Standing(p, l) => Standing(p, l)'
    BY <1>1 DEF Standing, Reading, Noted
  <2>3. (\A s \in Stepper : Standing(pc[s], loc[s]))'
    BY <1>1 DEF TypeInv, Standing, Reading, Noted
  <2>4. RecordTypes'
    BY <1>1 DEF TypeInv, RecordTypes, Noted
  <2>5. QED
    BY <1>1, <2>1, <2>3, <2>4 DEF TypeInv, RecordTypes
<1>3. ASSUME LowInv PROVE LowInv'
  <2>1. tip' # None /\ tip' \in stored'
    BY <1>1, TreeAssumption DEF TypeInv, RowsStand
  <2>2. Active' = chainOf[tip']
    BY <2>1 DEF Active
  <2>3. Refused' \subseteq Refused
    BY <1>1, <2>2 DEF Refused
  <2>4. \A c : Low(c) => Low(c)'
    BY <2>3 DEF Low
  <2>5. ASSUME NEW s \in Stepper PROVE LowReading(loc[s])'
    <3>1. LowReading(loc[s])
      BY <1>3 DEF LowInv
    <3>2. LowReading(loc[s]) => LowReading(loc[s])'
      BY <1>1, <2>3, <2>4 DEF LowReading, Low
    <3>3. QED
      BY <3>1, <3>2
  <2>6. Low(val.at)'
    BY <1>1, <1>3, <2>3 DEF LowInv, Low
  <2>7. QED
    BY <1>1, <1>3, <2>3, <2>5, <2>6 DEF LowInv
<1>4. ASSUME FaultInv PROVE FaultInv'
  BY <1>1, <1>4 DEF FaultInv, Unshaken
<1>5. QED
  BY <1>2, <1>3, <1>4

-----------------------------------------------------------------------------
(* The invariants. *)

LEMMA InitInv == Init => TypeInv /\ LowInv /\ (Stands => FaultInv)
<1> SUFFICES ASSUME Init PROVE TypeInv /\ LowInv /\ (Stands => FaultInv)
  OBVIOUS
<1>1. RowsStand /\ stored \subseteq Old /\ (tip = None <=> stored = {})
  BY TreeAssumption DEF Init, RowsStand
<1>2. \A s \in Stepper : Standing(pc[s], loc[s])
  <2>1. 0 \in 0 .. WalkLimit
    BY TreeAssumption
  <2>2. QED
    BY <2>1 DEF Init, Standing, Places, Reading, Noted, Blank
<1>3. TypeInv
  BY <1>1, <1>2, TreeAssumption DEF Init, TypeInv, Noted
<1>4. LowInv
  BY DEF Init, LowInv, LowReading, Low, Refused, Active, Blank
<1>5. Stands => FaultInv
  BY <1>1, TreeAssumption DEF Init, Stands, FaultInv, Unshaken
<1>6. QED
  BY <1>3, <1>4, <1>5

LEMMA NextInv ==
    ASSUME TypeInv, [Next]_vars
    PROVE  /\ TypeInv'
           /\ LowInv => LowInv'
           /\ Stands /\ FaultInv => FaultInv'
<1>1. CASE UNCHANGED vars
  <2>1. stored' = stored /\ tip' = tip /\ val' = val /\ pc' = pc /\ loc' = loc
        /\ restarts' = restarts /\ cuts' = cuts /\ returned' = returned
    BY <1>1 DEF vars, rows, steps
  <2>2. TypeInv'
    BY <2>1 DEF TypeInv, RowsStand, Standing, Reading, Noted
  <2>3. LowInv => LowInv'
    BY <2>1 DEF LowInv, LowReading, Low, Refused, Active
  <2>4. FaultInv => FaultInv'
    BY <2>1 DEF FaultInv, Unshaken, Active
  <2>5. QED
    BY <2>2, <2>3, <2>4
<1>2. CASE Next
  BY <1>2, StepInv, CutInv, RestartInv, StoreInv DEF Next
<1>3. QED
  BY <1>1, <1>2

LEMMA ServedFollows == TypeInv /\ LowInv => RefusedIsNotServed
<1> SUFFICES ASSUME TypeInv, LowInv, NEW d \in Refused, Admits(Height[d]) PROVE FALSE
  BY DEF RefusedIsNotServed
<1>1. val.at # None /\ Height[d] <= Height[val.at] /\ Height[val.at] < Height[d]
  BY DEF LowInv, Low, Admits
<1>2. Height[d] \in Nat /\ Height[val.at] \in Nat
  <2>1. tip = None => Active = {}
    BY DEF Active
  <2>2. tip \in Block /\ val.at \in Block
    BY <1>1, <2>1 DEF TypeInv, RowsStand, Noted, Refused
  <2>3. QED
    BY <2>2, ActiveIsChain, TreeAssumption DEF Refused
<1>3. QED
  BY <1>1, <1>2

\* Types of the rows, the record and the steps (read_validation_state,
\* revalidate_step): a step's cursors are rows of the store.
THEOREM RevalidationTypes == Spec => []TypeOK
<1>1. Init => TypeInv
  BY InitInv
<1>2. TypeInv /\ [Next]_vars => TypeInv'
  BY NextInv
<1>3. TypeInv => TypeOK
  <2> SUFFICES ASSUME TypeInv PROVE TypeOK
    OBVIOUS
  <2>1. Noted \subseteq Block \cup {None} /\ stored \subseteq Block /\ tip \in Noted
        /\ returned \subseteq stored
    BY DEF TypeInv, RowsStand, Noted
  <2>2. \A s \in Stepper : pc[s] \in Places /\ loc[s] \in Reading
    BY DEF TypeInv, Standing
  <2>3. \A l \in Reading : l \in [at : Block \cup {None}, tip : Block \cup {None},
            asks : SUBSET Checkpoint, anchor : Block \cup {None}, row : Block \cup {None},
            walked : 0..WalkLimit, cursor : Block \cup {None}, last : Block \cup {None},
            fault : BOOLEAN, complete : BOOLEAN]
    BY <2>1 DEF Reading
  <2>4. /\ pc \in [Stepper -> Places]
        /\ loc \in [Stepper -> [at : Block \cup {None}, tip : Block \cup {None},
            asks : SUBSET Checkpoint, anchor : Block \cup {None}, row : Block \cup {None},
            walked : 0..WalkLimit, cursor : Block \cup {None}, last : Block \cup {None},
            fault : BOOLEAN, complete : BOOLEAN]]
    BY <2>2, <2>3 DEF TypeInv
  <2>5. val \in [at : Block \cup {None}, fault : BOOLEAN, complete : BOOLEAN] /\ val.at \in Noted
    BY <2>1 DEF TypeInv
  <2>6. QED
    BY <2>1, <2>4, <2>5 DEF TypeInv, TypeOK, Noted, Places
<1>4. QED
  BY <1>1, <1>2, <1>3, PTL DEF Spec

\* No active row that the rules refuse is served (revalidate_step, served_ceiling),
\* unless a checkpoint vouches for it or a reorg took it off the chain and brought it
\* back: whatever the order of the cron's steps, the operator's steps and restarts,
\* the reorgs and the cuts, and whatever headers the rules pass.
THEOREM NoRefusedRowIsServed == Spec => []RefusedIsNotServed
<1>1. Init => TypeInv /\ LowInv
  BY InitInv
<1>2. TypeInv /\ LowInv /\ [Next]_vars => TypeInv' /\ LowInv'
  BY NextInv
<1>3. TypeInv /\ LowInv => RefusedIsNotServed
  BY ServedFollows
<1>4. QED
  BY <1>1, <1>2, <1>3, PTL DEF Spec

\* The cron's step faults only a row the rules refuse, right above the last that
\* passed (record_validation_fault), whatever the operator's steps and the reorgs
\* before it did.
THEOREM FaultsAreReal ==
    ASSUME Stands
    PROVE  Spec => FaultIsReal
<1>1. Init => TypeInv /\ FaultInv
  BY Stands, InitInv
<1>2. TypeInv /\ FaultInv /\ [Next]_vars => TypeInv' /\ FaultInv'
  BY Stands, NextInv
<1>3. TypeInv /\ FaultInv /\ [Next]_vars =>
        [\A s \in Leased : Write(s) /\ loc[s].fault =>
           \E b \in Active \ Valid : b # Root /\ Parent[b] = val'.at]_vars
  <2> SUFFICES ASSUME TypeInv, FaultInv, NEW s \in Leased, Write(s), loc[s].fault
               PROVE  \E b \in Active \ Valid : b # Root /\ Parent[b] = val'.at
    OBVIOUS
  <2>1. pc[s] = "write" /\ val'.at = loc[s].last
    BY WriteSteps, TreeAssumption
  <2>2. Unshaken(pc[s], loc[s])
    BY DEF FaultInv
  <2>3. QED
    BY <2>1, <2>2 DEF Unshaken
<1>4. QED
  BY <1>1, <1>2, <1>3, PTL DEF Spec, FaultIsReal
=============================================================================
