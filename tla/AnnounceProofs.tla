--------------------------- MODULE AnnounceProofs ---------------------------
(***************************************************************************)
(* Proofs about Announce, for every number of announcers, consumers, moves *)
(* and lost announces, and whatever the heights of the tips and the forks. *)
(*                                                                         *)
(* What an announcer does rests on reads as old as its POSTs.  The claim   *)
(* never falls, so what was claimed or recorded is never above it; and     *)
(* what a record, an old read or a body says of a fork was in a body that  *)
(* the consumer accepted.                                                  *)
(***************************************************************************)
EXTENDS Announce, TLAPS

(* The parts of the inductive invariants. *)

Posting == {"pending", "post"}

\* A claim whose announcer is inside its window holds the row's clock.
FreshInTheWindow == \A a \in Announcer \ late : pc[a] \in Posting => fresh

\* No tip being posted, and none recorded, is above the claim.
PostedIsClaimed == \A a \in Announcer : pc[a] \in Posting => loc[a].tip.height <= claim.height
ToldIsClaimed == \A t \in Target : told[t].height <= claim.height

ClaimInv ==
    /\ TypeOK
    /\ FreshInTheWindow
    /\ PostedIsClaimed
    /\ ToldIsClaimed

\* The consumer t has accepted a body with the fork f.
Had(t, f) == f # None => f \in carried[t]

ToldWasHad == \A t \in Target : Had(t, told[t].fork)
HeardWasHad == \A a \in Announcer, t \in Target : Had(t, loc[a].heard[t])
AcceptedWasHad == \A a \in Announcer : \A t \in loc[a].accepted : Had(t, loc[a].from)
AcceptedAtPost == \A a \in Announcer : pc[a] \notin {"post", "clear"} => loc[a].accepted = {}

ForkInv ==
    /\ TypeOK
    /\ ToldWasHad
    /\ HeardWasHad
    /\ AcceptedWasHad
    /\ AcceptedAtPost

-----------------------------------------------------------------------------
(* Types.                                                                   *)

LEMMA BlankIsReading == Blank \in Reading
  BY AnnounceAssumption DEF Blank, Reading, NoTip, Tip, Fork

LEMMA CastsAreTyped ==
    ASSUME cast \in Casts
    PROVE  /\ cast.announcers \subseteq Announcer /\ cast.targets \subseteq Target
           /\ cast.height \in 1 .. MaxHeight /\ cast.moves \in 0 .. MaxMoves
<1>1. cast \in [announcers : SUBSET Announcer, targets : SUBSET Target,
                height : 1 .. MaxHeight, moves : 0 .. MaxMoves]
  BY AnnounceAssumption
<1>2. QED
  BY <1>1

LEMMA InitTypes == Init => TypeOK
<1> SUFFICES ASSUME Init PROVE TypeOK
  OBVIOUS
<1> USE AnnounceAssumption
<1>1. tip \in Tip /\ claim \in Tip
  BY CastsAreTyped DEF Init, NoTip, Tip
<1>2. told \in [Target -> Delivery]
  BY DEF Init, Untold, Delivery, Fork
<1>3. failures \in 0 .. StuckAfter - 1 /\ moves \in 0 .. MaxMoves /\ crashes \in 0 .. MaxCrashes
  BY DEF Init
<1>4. loc \in [Announcer -> Reading] /\ pc \in [Announcer -> Place]
  BY BlankIsReading DEF Init, Place
<1>5. QED
  BY <1>1, <1>2, <1>3, <1>4 DEF Init, TypeOK, Fork

LEMMA TypeStep == TypeOK /\ [Next]_vars => TypeOK'
<1> SUFFICES ASSUME TypeOK, [Next]_vars PROVE TypeOK'
  OBVIOUS
<1> USE AnnounceAssumption
<1> USE DEF Place
<1>0. cast.moves \in 0 .. MaxMoves /\ cast.targets \subseteq Target
  BY CastsAreTyped DEF TypeOK
<1>1. CASE UNCHANGED vars
  BY <1>1 DEF vars, TypeOK
<1>2. CASE Extend
  <2>1. tip' \in Tip /\ moves' \in 0 .. MaxMoves
    BY <1>0, <1>2 DEF Extend, TypeOK, Tip
  <2>2. QED
    BY <1>2, <2>1 DEF Extend, TypeOK, row, history
<1>3. ASSUME NEW from \in 1 .. MaxHeight, NEW height \in 1 .. MaxHeight, Reorg(from, height)
      PROVE  TypeOK'
  <2>1. pending' \in Fork /\ unheard' \in [Target -> SUBSET (1 .. MaxHeight)]
    BY <1>3 DEF Reorg, Lower, TypeOK, Fork
  <2>2. tip' \in Tip /\ moves' \in 0 .. MaxMoves
    BY <1>0, <1>3 DEF Reorg, TypeOK, Tip
  <2>3. QED
    BY <1>3, <2>1, <2>2 DEF Reorg, TypeOK, row
<1>4. ASSUME NEW a \in Announcer, ReadTip(a) \/ Step(a) \/ Crash(a) PROVE TypeOK'
  <2>1. loc[a] \in Reading /\ tip \in Tip /\ claim \in Tip
    BY DEF TypeOK
  <2>2. CASE ReadTip(a)
    <3>1. [loc[a] EXCEPT !.tip = tip] \in Reading
      BY <2>1 DEF Reading
    <3>2. QED
      BY <2>2, <3>1 DEF ReadTip, Goto, store, row, history, TypeOK
  <2>3. CASE ReadRow(a)
    <3>1. [loc[a] EXCEPT !.row = claim, !.failures = failures] \in Reading
      BY <2>1 DEF Reading, TypeOK
    <3>2. loc' \in [Announcer -> Reading]
      BY <2>1, <2>3, <3>1 DEF ReadRow, TypeOK
    <3>3. QED
      BY <2>3, <3>2 DEF ReadRow, Goto, store, row, history, TypeOK
  <2>4. CASE ReadDeliveries(a)
    <3>1. Owed(a) \subseteq Target /\ [t \in Target |-> told[t].fork] \in [Target -> Fork]
      BY <1>0 DEF Owed, TypeOK, Delivery
    <3>2. [loc[a] EXCEPT !.owed = Owed(a), !.heard = [t \in Target |-> told[t].fork]] \in Reading
      BY <2>1, <3>1 DEF Reading
    <3>3. loc' \in [Announcer -> Reading]
      BY <2>1, <2>4, <3>2 DEF ReadDeliveries, TypeOK
    <3>4. QED
      BY <2>4, <3>3 DEF ReadDeliveries, Goto, store, row, history, TypeOK
  <2>5. CASE Claim(a) \/ Reclaim(a)
    <3>1. [loc[a] EXCEPT !.row = NoTip] \in Reading /\ loc[a].tip \in Tip
      BY <2>1 DEF Reading, NoTip, Tip
    <3>2. contested' \subseteq 0 .. MaxHeight
      BY <2>1, <2>5 DEF Claim, Reclaim, history, TypeOK, Tip
    <3>3. QED
      BY <2>5, <3>1, <3>2 DEF Claim, Reclaim, Announces, Goto, store, history, TypeOK
  <2>6. CASE NotClaimed(a)
    BY <2>6, BlankIsReading DEF NotClaimed, Leave, Goto, store, row, history, TypeOK
  <2>7. CASE ReadPending(a)
    <3>1. PICK from \in {pending, None} : loc' = [loc EXCEPT ![a].from = from]
      BY <2>7 DEF ReadPending
    <3>2. [loc[a] EXCEPT !.from = from] \in Reading
      BY <2>1 DEF Reading, TypeOK, Fork
    <3>3. QED
      BY <2>7, <3>1, <3>2 DEF ReadPending, Goto, store, row, history, TypeOK
  <2>8. ASSUME NEW t \in Target, Accepted(a, t) PROVE TypeOK'
    <3>1. [loc[a] EXCEPT !.owed = @ \ {t}, !.accepted = @ \cup {t}] \in Reading
      BY <2>1 DEF Reading
    <3>2. loc' \in [Announcer -> Reading]
      BY <2>1, <2>8, <3>1 DEF Accepted, TypeOK
    <3>3. {Carry(a, t)} \ {None} \subseteq 1 .. MaxHeight
      BY <2>1 DEF Carry, Reading, Fork
    <3>4. carried' \in [Target -> SUBSET (1 .. MaxHeight)]
      BY <2>8, <3>3 DEF Accepted, TypeOK
    <3>5. unheard' \in [Target -> SUBSET (1 .. MaxHeight)]
      BY <2>8 DEF Accepted, TypeOK
    <3>6. QED
      BY <2>8, <3>2, <3>4, <3>5 DEF Accepted, store, row, TypeOK
  <2>9. ASSUME NEW t \in Target, Refused(a, t) PROVE TypeOK'
    <3>1. [loc[a] EXCEPT !.owed = @ \ {t}, !.refused = TRUE] \in Reading
      BY <2>1 DEF Reading
    <3>2. loc' \in [Announcer -> Reading]
      BY <2>1, <2>9, <3>1 DEF Refused, TypeOK
    <3>3. QED
      BY <2>9, <3>2 DEF Refused, store, row, history, TypeOK
  <2>10. CASE RecordDeliveries(a)
    <3>1. told' \in [Target -> Delivery]
      BY <2>1, <2>10 DEF RecordDeliveries, Carry, TypeOK, Reading, Delivery, Tip
    <3>2. QED
      BY <2>10, <3>1 DEF RecordDeliveries, Goto, store, row, TypeOK
  <2>11. CASE ClearPending(a)
    <3>1. [Blank EXCEPT !.failures = loc[a].failures, !.refused = loc[a].refused] \in Reading
      BY <2>1, BlankIsReading DEF Reading
    <3>2. pending' \in Fork
      BY <2>11 DEF ClearPending, Cleared, TypeOK, Fork
    <3>3. QED
      BY <2>11, <3>1, <3>2 DEF ClearPending, Goto, row, history, TypeOK
  <2>12. CASE CountFailures(a)
    <3>1. failures' \in 0 .. StuckAfter - 1
      BY <2>1, <2>12 DEF CountFailures, Reading
    <3>2. stuck' \in BOOLEAN
      BY <2>12 DEF CountFailures, TypeOK
    <3>3. QED
      BY <2>12, <3>1, <3>2, BlankIsReading DEF CountFailures, Leave, Goto, store, history, TypeOK
  <2>13. CASE Crash(a)
    BY <2>13, BlankIsReading DEF Crash, Leave, Goto, store, row, TypeOK
  <2>14. QED
    BY <1>4, <2>2, <2>3, <2>4, <2>5, <2>6, <2>7, <2>8, <2>9, <2>10, <2>11, <2>12, <2>13 DEF Step
<1>5. CASE WindowPasses
  BY <1>5 DEF WindowPasses, store, TypeOK
<1>6. QED
  BY <1>1, <1>2, <1>3, <1>4, <1>5 DEF Next

-----------------------------------------------------------------------------
(* The claim.                                                               *)

LEMMA Heights ==
    ASSUME TypeOK
    PROVE  /\ claim.height \in Nat
           /\ \A a \in Announcer : loc[a].tip.height \in Nat
           /\ \A t \in Target : told[t].height \in Nat
<1>1. claim \in Tip /\ (\A a \in Announcer : loc[a].tip \in Tip) /\ (\A t \in Target : told[t] \in Delivery)
  BY DEF TypeOK, Reading
<1>2. QED
  BY <1>1, AnnounceAssumption DEF Tip, Delivery

\* What one step of an announcer does to the others, to the claim, to its window
\* and to the records.
LEMMA AnnouncerMoves ==
    ASSUME TypeOK, NEW a \in Announcer, ReadTip(a) \/ Step(a) \/ Crash(a)
    PROVE  /\ \A b \in Announcer : b # a => loc'[b] = loc[b] /\ pc'[b] = pc[b] /\ (b \in late' <=> b \in late)
           /\ claim' = claim \/ Claim(a)
           /\ contested' = contested \/ Claim(a)
           /\ fresh' = fresh \/ Claim(a) \/ Reclaim(a)
           /\ pc'[a] \in Posting =>
                 \/ Claim(a) \/ Reclaim(a)
                 \/ /\ pc[a] \in Posting /\ loc'[a].tip = loc[a].tip
                    /\ claim' = claim /\ fresh' = fresh /\ late' = late /\ contested' = contested
           /\ told' = told \/ RecordDeliveries(a)
<1>0. loc \in [Announcer -> Reading] /\ pc \in [Announcer -> Place] /\ loc[a] \in Reading
  BY DEF TypeOK
<1> USE DEF Posting
<1>1. CASE NotClaimed(a) \/ CountFailures(a) \/ Crash(a)
  BY <1>0, <1>1 DEF NotClaimed, CountFailures, Crash, Leave, Goto, store, row, history
<1>2. CASE ReadTip(a)
  BY <1>0, <1>2 DEF ReadTip, Goto, store, row, history
<1>3. CASE ReadRow(a)
  BY <1>0, <1>3 DEF ReadRow, Goto, store, row, history
<1>4. CASE ReadDeliveries(a)
  BY <1>0, <1>4 DEF ReadDeliveries, Goto, store, row, history
<1>5. CASE Claim(a)
  BY <1>0, <1>5 DEF Claim, Announces, Goto, store
<1>6. CASE Reclaim(a)
  BY <1>0, <1>6 DEF Reclaim, Announces, Goto, store, history
<1>7. CASE ReadPending(a)
  BY <1>0, <1>7 DEF ReadPending, At, Goto, store, row, history, Reading
<1>8. ASSUME NEW t \in Target, Accepted(a, t)
      PROVE  /\ \A b \in Announcer : b # a => loc'[b] = loc[b]
             /\ loc'[a].tip = loc[a].tip /\ pc[a] = "post"
             /\ UNCHANGED <<pc, claim, fresh, late, contested, told>>
  BY <1>0, <1>8 DEF Accepted, At, store, row, Reading
<1>9. ASSUME NEW t \in Target, Refused(a, t)
      PROVE  /\ \A b \in Announcer : b # a => loc'[b] = loc[b]
             /\ loc'[a].tip = loc[a].tip /\ pc[a] = "post"
             /\ UNCHANGED <<pc, claim, fresh, late, contested, told>>
  BY <1>0, <1>9 DEF Refused, At, store, row, history, Reading
<1>10. CASE RecordDeliveries(a)
  BY <1>0, <1>10 DEF RecordDeliveries, Goto, store, row
<1>11. CASE ClearPending(a)
  BY <1>0, <1>11 DEF ClearPending, Goto, row, history
<1>12. QED
  BY <1>1, <1>2, <1>3, <1>4, <1>5, <1>6, <1>7, <1>8, <1>9, <1>10, <1>11 DEF Step

\* TIP_ANNOUNCE_SQL never lowers the claim, and a tip that takes the place of another
\* of its height is known to have done so.
LEMMA ClaimRises ==
    ASSUME TypeOK, NEW a \in Announcer, Claim(a)
    PROVE  /\ claim' = loc[a].tip
           /\ claim.height <= claim'.height
           /\ claim.height = claim'.height => claim'.height \in contested'
<1>1. claim' = loc[a].tip /\ Unannounced(claim, loc[a].tip)
  BY DEF Claim
<1>2. contested' = contested \cup {h \in {claim.height} : h = loc[a].tip.height}
  BY DEF Claim
<1>3. claim.height \in Nat /\ loc[a].tip.height \in Nat
  BY Heights
<1>4. QED
  BY <1>1, <1>2, <1>3 DEF Unannounced

LEMMA ClaimNeverSinks ==
    ASSUME TypeOK, [Next]_vars
    PROVE  claim.height \in Nat /\ claim'.height \in Nat /\ claim.height <= claim'.height
<1>1. claim.height \in Nat /\ \A a \in Announcer : loc[a].tip.height \in Nat
  BY Heights
<1>2. ASSUME NEW a \in Announcer, ReadTip(a) \/ Step(a) \/ Crash(a)
      PROVE  claim' = claim \/ Claim(a)
  BY <1>2, AnnouncerMoves
<1>3. claim' = claim \/ \E a \in Announcer : Claim(a)
  BY <1>2 DEF Next, vars, row, Extend, Reorg, WindowPasses
<1>4. QED
  BY <1>1, <1>3, ClaimRises

\* A record is written by an announcer of the claimed tip alone.
LEMMA RecordsRise ==
    ASSUME TypeOK, ToldIsClaimed, [Next]_vars, NEW t \in Target
    PROVE  told'[t].height >= told[t].height /\ told'[t].height <= claim'.height
<1>1. /\ told[t].height \in Nat /\ told[t].height <= claim.height
      /\ claim.height \in Nat /\ claim'.height \in Nat /\ claim.height <= claim'.height
  BY Heights, ClaimNeverSinks DEF ToldIsClaimed
<1>2. ASSUME NEW a \in Announcer, ReadTip(a) \/ Step(a) \/ Crash(a)
      PROVE  told' = told \/ RecordDeliveries(a)
  BY <1>2, AnnouncerMoves
<1>3. told' = told \/ \E a \in Announcer : RecordDeliveries(a)
  BY <1>2 DEF Next, vars, Extend, Reorg, WindowPasses
<1>4. ASSUME NEW a \in Announcer, RecordDeliveries(a), told'[t] # told[t]
      PROVE  told'[t].height = claim.height
  BY <1>4 DEF RecordDeliveries, Records, Is
<1>5. CASE told'[t] = told[t]
  BY <1>1, <1>5
<1>6. CASE told'[t] # told[t]
  BY <1>1, <1>3, <1>4, <1>6
<1>7. QED
  BY <1>5, <1>6

LEMMA InitClaim == Init => ClaimInv /\ OneAnnouncerInFlight
<1> SUFFICES ASSUME Init PROVE ClaimInv /\ OneAnnouncerInFlight
  OBVIOUS
<1>1. TypeOK
  BY InitTypes
<1>2. \A a \in Announcer : pc[a] = "idle"
  BY DEF Init
<1>3. ToldIsClaimed
  BY DEF Init, ToldIsClaimed, Untold, NoTip
<1>4. QED
  BY <1>1, <1>2, <1>3 DEF ClaimInv, FreshInTheWindow, PostedIsClaimed, Posting, OneAnnouncerInFlight, InTheWindow

LEMMA ClaimStep ==
    ASSUME ClaimInv, [Next]_vars PROVE ClaimInv'
<1>0. TypeOK /\ TypeOK' /\ pc \in [Announcer -> Place]
  BY TypeStep DEF ClaimInv, TypeOK
<1>1. ToldIsClaimed'
  BY <1>0, RecordsRise DEF ClaimInv, ToldIsClaimed
<1>2. /\ claim.height \in Nat /\ claim'.height \in Nat /\ claim.height <= claim'.height
      /\ \A a \in Announcer : loc[a].tip.height \in Nat
  BY <1>0, ClaimNeverSinks, Heights
<1>3. SUFFICES ASSUME NEW b \in Announcer, pc'[b] \in Posting
               PROVE  (b \notin late' => fresh') /\ loc'[b].tip.height <= claim'.height
  BY <1>0, <1>1, <1>3 DEF ClaimInv, FreshInTheWindow, PostedIsClaimed
<1>4. CASE pc[b] \in Posting /\ loc'[b].tip = loc[b].tip /\ (b \notin late' => b \notin late /\ (fresh => fresh'))
  <2>1. loc[b].tip.height <= claim.height /\ (b \notin late => fresh)
    BY <1>4 DEF ClaimInv, FreshInTheWindow, PostedIsClaimed
  <2>2. QED
    BY <1>2, <1>4, <2>1
<1>5. CASE UNCHANGED vars \/ Extend \/ \E from, height \in 1 .. MaxHeight : Reorg(from, height)
  BY <1>3, <1>4, <1>5 DEF vars, Extend, Reorg, row, history
<1>6. CASE WindowPasses
  BY <1>0, <1>3, <1>4, <1>6 DEF WindowPasses, Posting
<1>7. ASSUME NEW a \in Announcer, ReadTip(a) \/ Step(a) \/ Crash(a)
      PROVE  (b \notin late' => fresh') /\ loc'[b].tip.height <= claim'.height
  <2>0. Claim(a) \/ Reclaim(a) => fresh' = TRUE
    BY DEF Claim, Reclaim, Announces
  <2>1. CASE b # a
    BY <1>0, <1>3, <1>4, <1>7, <2>0, <2>1, AnnouncerMoves
  <2>2. CASE b = a /\ (Claim(a) \/ Reclaim(a))
    <3>1. loc'[a].tip = loc[a].tip
      BY <1>0, <2>2 DEF Claim, Reclaim, Announces, TypeOK, Reading
    <3>2. loc[a].tip.height <= claim'.height
      BY <1>0, <1>2, <2>2, ClaimRises DEF Reclaim, Reclaimable, Is
    <3>3. QED
      BY <2>0, <2>2, <3>1, <3>2
  <2>3. CASE b = a /\ ~(Claim(a) \/ Reclaim(a))
    BY <1>0, <1>3, <1>4, <1>7, <2>3, AnnouncerMoves
  <2>4. QED
    BY <2>1, <2>2, <2>3
<1>8. QED
  BY <1>5, <1>6, <1>7 DEF Next

\* A second announcer enters the window of a tip by a claim alone; the first, still
\* inside, has kept the claim from being lower, so both tips have one height.
LEMMA OneInFlightStep ==
    ASSUME ClaimInv, OneAnnouncerInFlight, [Next]_vars PROVE OneAnnouncerInFlight'
<1>0. TypeOK /\ pc \in [Announcer -> Place]
  BY DEF ClaimInv, TypeOK
<1>1. SUFFICES ASSUME NEW a \in Announcer, NEW b \in Announcer, InTheWindow(a)', InTheWindow(b)', a # b
               PROVE  claim'.height \in contested'
  BY <1>1 DEF OneAnnouncerInFlight
\* Such announcers were both in the window before, unless one of them claims.
<1> DEFINE Stayed(c) == InTheWindow(c)' => InTheWindow(c)
<1>2. CASE Stayed(a) /\ Stayed(b) /\ claim' = claim /\ contested' = contested
  BY <1>1, <1>2 DEF OneAnnouncerInFlight
<1>3. CASE UNCHANGED vars \/ Extend \/ \E from, height \in 1 .. MaxHeight : Reorg(from, height)
  BY <1>2, <1>3 DEF vars, Extend, Reorg, row, history, InTheWindow
<1>4. CASE WindowPasses
  <2>1. \A c \in Announcer : ~InTheWindow(c)'
    BY <1>4 DEF WindowPasses, InTheWindow
  <2>2. QED
    BY <1>1, <2>1
<1>5. ASSUME NEW c \in Announcer, ReadTip(c) \/ Step(c) \/ Crash(c)
      PROVE  claim'.height \in contested'
  <2>1. ASSUME NEW x \in Announcer, x # c, InTheWindow(x)'
        PROVE  pc[x] \in Posting /\ x \notin late /\ loc'[x].tip = loc[x].tip /\ Is(claim', loc[x].tip)
    BY <1>0, <1>5, <2>1, AnnouncerMoves DEF InTheWindow, Posting
  <2>2. CASE Claim(c)
    <3>1. PICK x \in {a, b} : x # c
      BY <1>1
    <3>2. loc[x].tip.height <= claim.height /\ claim'.height = loc[x].tip.height
      BY <1>1, <2>1, <3>1 DEF ClaimInv, PostedIsClaimed, Is
    <3>3. claim.height \in Nat /\ loc[x].tip.height \in Nat
      BY <1>0, Heights, <3>1
    <3>4. QED
      BY <1>0, <2>2, <3>2, <3>3, ClaimRises
  <2>3. CASE Reclaim(c)
    <3>1. PICK x \in {a, b} : x # c
      BY <1>1
    <3>2. fresh
      BY <1>1, <2>1, <3>1 DEF ClaimInv, FreshInTheWindow
    <3>3. QED
      BY <2>3, <3>2 DEF Reclaim, Reclaimable
  <2>4. CASE ~(Claim(c) \/ Reclaim(c))
    <3>1. claim' = claim /\ contested' = contested
      BY <1>0, <1>5, <2>4, AnnouncerMoves
    <3>2. Stayed(c)
      BY <1>0, <1>5, <2>4, <3>1, AnnouncerMoves DEF InTheWindow, Posting
    <3>3. \A x \in Announcer : x # c => Stayed(x)
      BY <2>1, <3>1 DEF InTheWindow, Posting
    <3>4. QED
      BY <1>2, <3>1, <3>2, <3>3
  <2>5. QED
    BY <2>2, <2>3, <2>4
<1>6. QED
  BY <1>3, <1>4, <1>5 DEF Next

-----------------------------------------------------------------------------
(* The forks.                                                               *)

LEMMA InitForks == Init => ForkInv
  BY InitTypes DEF Init, ForkInv, ToldWasHad, HeardWasHad, AcceptedWasHad, AcceptedAtPost, Had, Blank, Untold

\* What the bodies accepted so far carried stays so.
HadNext(t, f) == f # None => f \in carried'[t]

LEMMA HadStays ==
    ASSUME TypeOK, [Next]_vars, NEW t \in Target, NEW f, Had(t, f)
    PROVE  HadNext(t, f)
<1>1. ASSUME NEW a \in Announcer, NEW u \in Target, Accepted(a, u)
      PROVE  carried[t] \subseteq carried'[t]
  BY <1>1 DEF Accepted, TypeOK
<1>2. carried[t] \subseteq carried'[t]
  BY <1>1 DEF Next, vars, store, history, Extend, Reorg, ReadTip, Step, ReadRow, ReadDeliveries, Claim,
     Reclaim, NotClaimed, ReadPending, Refused, RecordDeliveries, ClearPending, CountFailures, Crash, WindowPasses
<1>3. QED
  BY <1>2 DEF Had, HadNext

\* A target that accepts has had the fork read for it: in this body, or before it.
LEMMA AcceptedHasHad ==
    ASSUME ForkInv, NEW a \in Announcer, NEW t \in Target, Accepted(a, t)
    PROVE  HadNext(t, loc[a].from)
<1>1. carried' = [carried EXCEPT ![t] = @ \cup ({Carry(a, t)} \ {None})] /\ carried \in [Target -> SUBSET (1 .. MaxHeight)]
  BY DEF Accepted, ForkInv, TypeOK
<1>2. CASE Carry(a, t) = loc[a].from
  BY <1>1, <1>2 DEF HadNext
<1>3. CASE Carry(a, t) # loc[a].from
  <2>1. loc[a].from = loc[a].heard[t]
    BY <1>3 DEF Carry
  <2>2. Had(t, loc[a].from)
    BY <2>1 DEF ForkInv, HeardWasHad
  <2>3. QED
    BY <1>1, <2>2 DEF Had, HadNext
<1>4. QED
  BY <1>2, <1>3

\* What one step of an announcer does to what it has read, and what the records say.
LEMMA AnnouncerReads ==
    ASSUME ForkInv, NEW a \in Announcer, ReadTip(a) \/ Step(a) \/ Crash(a)
    PROVE  /\ \A t \in Target : loc'[a].heard[t] \in {loc[a].heard[t], told[t].fork, None}
           /\ \/ loc'[a].accepted = {}
              \/ /\ loc'[a].accepted = loc[a].accepted /\ loc'[a].from = loc[a].from
                 /\ pc'[a] \in {"post", "clear"}
              \/ \E t \in Target :
                    /\ Accepted(a, t) /\ loc'[a].accepted = loc[a].accepted \cup {t}
                    /\ loc'[a].from = loc[a].from /\ pc'[a] = "post"
           /\ \A t \in Target :
                 told'[t].fork = told[t].fork \/ (t \in loc[a].accepted /\ told'[t].fork = loc[a].from)
<1>0. loc \in [Announcer -> Reading] /\ pc \in [Announcer -> Place] /\ loc[a] \in Reading
  BY DEF ForkInv, TypeOK
<1>1. pc[a] \notin {"post", "clear"} => loc[a].accepted = {}
  BY DEF ForkInv, AcceptedAtPost
<1>2. CASE NotClaimed(a) \/ CountFailures(a) \/ Crash(a)
  BY <1>0, <1>2 DEF NotClaimed, CountFailures, Crash, Leave, Blank, store, row
<1>3. CASE ReadTip(a) \/ ReadRow(a)
  BY <1>0, <1>1, <1>3 DEF ReadTip, ReadRow, At, row, Reading
<1>4. CASE ReadDeliveries(a)
  <2>1. loc'[a] = [loc[a] EXCEPT !.owed = Owed(a), !.heard = [t \in Target |-> told[t].fork]]
    BY <1>0, <1>4 DEF ReadDeliveries
  <2>2. loc'[a].accepted = {} /\ \A t \in Target : loc'[a].heard[t] = told[t].fork
    BY <1>0, <1>1, <1>4, <2>1 DEF ReadDeliveries, At, Reading
  <2>3. QED
    BY <1>4, <2>2 DEF ReadDeliveries
<1>5. CASE Claim(a) \/ Reclaim(a)
  BY <1>0, <1>1, <1>5 DEF Claim, Reclaim, Announces, At, Reading
<1>6. CASE ReadPending(a)
  BY <1>0, <1>1, <1>6 DEF ReadPending, At, Reading
<1>7. ASSUME NEW t \in Target, Accepted(a, t)
      PROVE  /\ loc'[a].heard = loc[a].heard /\ loc'[a].accepted = loc[a].accepted \cup {t}
             /\ loc'[a].from = loc[a].from /\ pc'[a] = "post" /\ told' = told
  <2>1. loc'[a] = [loc[a] EXCEPT !.owed = @ \ {t}, !.accepted = @ \cup {t}]
    BY <1>0, <1>7 DEF Accepted
  <2>2. QED
    BY <1>0, <1>7, <2>1 DEF Accepted, At, Reading
<1>8. ASSUME NEW t \in Target, Refused(a, t)
      PROVE  /\ loc'[a].heard = loc[a].heard /\ loc'[a].accepted = loc[a].accepted
             /\ loc'[a].from = loc[a].from /\ pc'[a] = "post" /\ told' = told
  <2>1. loc'[a] = [loc[a] EXCEPT !.owed = @ \ {t}, !.refused = TRUE]
    BY <1>0, <1>8 DEF Refused
  <2>2. QED
    BY <1>0, <1>8, <2>1 DEF Refused, At, Reading
<1>9. CASE RecordDeliveries(a)
  <2>1. \A t \in Target : told'[t].fork = told[t].fork \/ (t \in loc[a].accepted /\ told'[t].fork = loc[a].from)
    BY <1>9 DEF RecordDeliveries, Carry
  <2>2. QED
    BY <1>0, <1>9, <2>1 DEF RecordDeliveries, Goto
<1>10. CASE ClearPending(a)
  BY <1>0, <1>10 DEF ClearPending, Blank
<1>11. QED
  BY <1>2, <1>3, <1>4, <1>5, <1>6, <1>7, <1>8, <1>9, <1>10 DEF Step

LEMMA ForkStep ==
    ASSUME ForkInv, [Next]_vars PROVE ForkInv'
<1>0. TypeOK /\ TypeOK' /\ loc \in [Announcer -> Reading]
  BY TypeStep DEF ForkInv, TypeOK
\* What the invariant asks of one announcer after the step.
<1> DEFINE Honest(b) ==
              /\ \A t \in Target : HadNext(t, loc'[b].heard[t])
              /\ \A t \in loc'[b].accepted : HadNext(t, loc'[b].from)
              /\ pc'[b] \notin {"post", "clear"} => loc'[b].accepted = {}
<1>1. ASSUME NEW b \in Announcer, loc'[b] = loc[b], pc'[b] = pc[b] PROVE Honest(b)
  <2>1. loc[b].accepted \subseteq Target
    BY <1>0 DEF Reading
  <2>2. QED
    BY <1>0, <1>1, <2>1, HadStays DEF ForkInv, HeardWasHad, AcceptedWasHad, AcceptedAtPost
<1>2. ASSUME NEW t \in Target, told'[t].fork = told[t].fork PROVE HadNext(t, told'[t].fork)
  BY <1>0, <1>2, HadStays DEF ForkInv, ToldWasHad
<1>3. SUFFICES (\A t \in Target : HadNext(t, told'[t].fork)) /\ (\A b \in Announcer : Honest(b))
  BY <1>0, <1>3 DEF ForkInv, ToldWasHad, HeardWasHad, AcceptedWasHad, AcceptedAtPost, Had, HadNext
<1>4. CASE UNCHANGED <<told, loc, pc>>
  BY <1>1, <1>2, <1>4
<1>5. CASE UNCHANGED vars \/ Extend \/ WindowPasses \/ \E from, height \in 1 .. MaxHeight : Reorg(from, height)
  BY <1>4, <1>5 DEF vars, Extend, WindowPasses, Reorg
<1>6. ASSUME NEW a \in Announcer, ReadTip(a) \/ Step(a) \/ Crash(a)
      PROVE  (\A t \in Target : HadNext(t, told'[t].fork)) /\ (\A b \in Announcer : Honest(b))
  <2>0. loc[a].accepted \subseteq Target /\ (pc[a] \notin {"post", "clear"} => loc[a].accepted = {})
    BY <1>0 DEF Reading, ForkInv, AcceptedAtPost
  <2>1. \A t \in loc[a].accepted : HadNext(t, loc[a].from)
    BY <1>0, <2>0, HadStays DEF ForkInv, AcceptedWasHad
  <2>2. ASSUME NEW t \in Target PROVE HadNext(t, told'[t].fork)
    BY <1>2, <1>6, <2>1, AnnouncerReads
  <2>3. ASSUME NEW b \in Announcer, b # a PROVE Honest(b)
    BY <1>0, <1>1, <1>6, <2>3, AnnouncerMoves
  <2>4. ASSUME NEW t \in Target PROVE HadNext(t, loc'[a].heard[t])
    <3>1. Had(t, loc[a].heard[t]) /\ Had(t, told[t].fork) /\ Had(t, None)
      BY DEF ForkInv, HeardWasHad, ToldWasHad, Had
    <3>2. QED
      BY <1>0, <1>6, <3>1, AnnouncerReads, HadStays
  <2>5. /\ \A t \in loc'[a].accepted : HadNext(t, loc'[a].from)
        /\ pc'[a] \notin {"post", "clear"} => loc'[a].accepted = {}
    <3>1. ASSUME NEW t \in Target, Accepted(a, t) PROVE HadNext(t, loc[a].from)
      BY <3>1, AcceptedHasHad
    <3>2. QED
      BY <1>6, <2>1, <3>1, AnnouncerReads
  <2>6. QED
    BY <2>2, <2>3, <2>4, <2>5
<1>7. QED
  BY <1>5, <1>6 DEF Next

\* What a clear withdraws every consumer has had in a body.
LEMMA ClearedWasCarried ==
    ASSUME ForkInv, [Next]_vars, pending # None, pending' = None, NEW t \in cast.targets
    PROVE  pending \in carried[t]
<1>0. t \in Target
  BY CastsAreTyped DEF ForkInv, TypeOK
<1>1. PICK a \in Announcer : ClearPending(a) /\ pending' # pending
  <2>1. ASSUME NEW from \in 1 .. MaxHeight, NEW height \in 1 .. MaxHeight, Reorg(from, height)
        PROVE  FALSE
    BY <2>1, AnnounceAssumption DEF Reorg, Lower
  <2>2. QED
    BY <2>1 DEF Next, vars, store, Extend, ReadTip, Step, ReadRow, ReadDeliveries, Claim, Reclaim,
       NotClaimed, ReadPending, Accepted, Refused, RecordDeliveries, CountFailures, Crash, WindowPasses
<1>2. pending = loc[a].from /\ HeardByAll(a)
  BY <1>1 DEF ClearPending, Cleared
<1>3. Had(t, loc[a].from)
  BY <1>0, <1>2 DEF HeardByAll, ForkInv, AcceptedWasHad, HeardWasHad
<1>4. QED
  BY <1>2, <1>3 DEF Had

-----------------------------------------------------------------------------
(* The theorems.                                                            *)

\* The row, the deliveries and everything an announcer holds keep their types.
THEOREM AnnounceTypes == Spec => []TypeOK
<1>1. QED
  BY InitTypes, TypeStep, PTL DEF Spec

\* Inside a claim's window one announcer alone posts the claimed tip, unless the
\* claim has gone between tips of its height (TIP_ANNOUNCE_SQL, RECLAIM_ANNOUNCE_SQL).
THEOREM OneAnnouncer == Spec => []OneAnnouncerInFlight
<1>1. ClaimInv /\ OneAnnouncerInFlight /\ [Next]_vars => (ClaimInv /\ OneAnnouncerInFlight)'
  BY ClaimStep, OneInFlightStep
<1>2. QED
  BY InitClaim, <1>1, PTL DEF Spec

\* No target's record is moved to a lower tip, however late a delivery answers
\* (RECORD_DELIVERY_SQL's guard on the claim row).
THEOREM RecordsNeverSink == Spec => DeliveryNeverSinks
<1>1. ClaimInv /\ [Next]_vars => ClaimInv'
  BY ClaimStep
<1>2. ClaimInv /\ [Next]_vars => [\A t \in Target : told'[t].height >= told[t].height]_vars
  BY RecordsRise DEF ClaimInv
<1>3. QED
  BY InitClaim, <1>1, <1>2, PTL DEF Spec, DeliveryNeverSinks

\* A height is cleared from the marker once every consumer has accepted a body with
\* it, whatever was read before the POSTs; a deeper one that arrives meanwhile
\* survives the compare-and-clear.
THEOREM ClearedForksWereCarried == Spec => ClearedForkWasCarried
<1>1. ForkInv /\ [Next]_vars => ForkInv'
  BY ForkStep
<1>2. ForkInv /\ [Next]_vars =>
        [pending # None /\ pending' = None => \A t \in cast.targets : pending \in carried[t]]_vars
  BY ClearedWasCarried
<1>3. QED
  BY InitForks, <1>1, <1>2, PTL DEF Spec, ClearedForkWasCarried
=============================================================================
