-------------------------- MODULE EventFeedProofs --------------------------
(***************************************************************************)
(* Proofs about EventFeed, for every number of invocations, targets and    *)
(* clients, every journal and every limit: what the retention deletes and  *)
(* when never makes a client or a target pass a chain row unannounced.     *)
(*                                                                         *)
(* Two facts carry them.  The floor parts the chain rows: below it all are *)
(* deleted, above it none is, because a retention takes a prefix of those  *)
(* above a floor it read earlier.  And the rows a delivery has read have   *)
(* no hole that it did not see, however much was deleted since.            *)
(***************************************************************************)
EXTENDS EventFeed, ProofFacts

(* The parts of the inductive invariant. *)

\* The retention never deletes the head row: the head is the last cursor given.
HeadIsKept == last > 0 => last \in journal

\* The floor parts the chain rows into the deleted ones and the kept ones.
DeletedAreBelow == \A c \in chain \ journal : c <= floor
KeptAreAbove == \A c \in chain \cap journal : c > floor

\* A floor read is one the floor has reached.
ReadFloorIsPast == \A w \in Worker : loc[w].floor <= floor

\* The target has accepted every chain row of the journal up to c.
Covers(t, c) == \A d \in journal \cap chain : d <= c => d \in accepted[t]

CursorsAreCovered == \A t \in Target : cursor[t] # None => Covers(t, cursor[t])
ReadsAreCovered == \A w \in Worker, t \in Target : Covers(t, loc[w].since[t])

\* The rows a delivery holds for its target have no hole below them.
RowsAreWhole ==
    \A w \in Worker : \A c \in loc[w].rows :
        /\ loc[w].target \in Target
        /\ \A d \in journal \cap chain :
              d <= c => d \in accepted[loc[w].target] \cup loc[w].rows

\* Between a target's answer and the write of its cursor the row is accepted.
AnsweredIsAccepted ==
    \A w \in Worker : pc[w] = "record" =>
        /\ loc[w].rows # {}
        /\ Min(loc[w].rows) \in chain => Min(loc[w].rows) \in accepted[loc[w].target]

PostHasTarget == \A w \in Worker : pc[w] \in {"post", "record"} => loc[w].target \in Target

IInv ==
    /\ TypeOK
    /\ HeadIsKept
    /\ DeletedAreBelow
    /\ KeptAreAbove
    /\ ReadFloorIsPast
    /\ CursorsAreCovered
    /\ ReadsAreCovered
    /\ RowsAreWhole
    /\ AnsweredIsAccepted
    /\ PostHasTarget
    /\ NoReaderSkips

-----------------------------------------------------------------------------
(* The statements' own sets.                                                *)

\* What the types say of the table, in the naturals.
LEMMA TableTypes ==
    ASSUME TypeOK
    PROVE  /\ last \in Nat /\ floor \in Nat
           /\ journal \in SUBSET (0 .. last) /\ journal \subseteq 1 .. last
           /\ chain \subseteq 1 .. last /\ floor <= last
<1>1. cast.rows \in Nat
  BY FeedAssumption DEF TypeOK
<1>2. last \in Nat
  BY <1>1 DEF TypeOK
<1>3. QED
  BY <1>2 DEF TypeOK

\* ORDER BY cursor LIMIT n leaves nothing out below what it answers.
LEMMA LowestIsAPrefix ==
    ASSUME NEW n \in Nat, NEW S \in SUBSET (0 .. n), NEW k \in Nat
    PROVE  /\ Lowest(S, k) \subseteq S
           /\ \A c \in Lowest(S, k), d \in S : d <= c => d \in Lowest(S, k)
<1>1. ASSUME NEW c \in Lowest(S, k), NEW d \in S, d <= c
      PROVE  d \in Lowest(S, k)
  <2>1. c \in S /\ Cardinality({x \in S : x < c}) < k
    BY DEF Lowest
  <2>2. /\ Cardinality({x \in S : x < d}) \in Nat
        /\ Cardinality({x \in S : x < c}) \in Nat
        /\ Cardinality({x \in S : x < d}) <= Cardinality({x \in S : x < c})
    <3>1. c <= c
      BY <2>1
    <3>2. QED
      BY <1>1, <2>1, <3>1, CountBelowIsMonotone
  <2>3. Cardinality({x \in S : x < d}) < k
    BY <2>1, <2>2
  <2>4. QED
    BY <2>3 DEF Lowest
<1>2. QED
  BY <1>1 DEF Lowest

\* The rows read above a cursor are a prefix of those the journal has there.
LEMMA RowsAboveIsAPrefix ==
    ASSUME TypeOK, NEW c \in Nat, NEW k \in Nat
    PROVE  /\ RowsAbove(c, k) \subseteq {d \in journal : d > c}
           /\ \A e \in RowsAbove(c, k), d \in journal :
                 c < d /\ d <= e => d \in RowsAbove(c, k)
<1> DEFINE S == {d \in journal : d > c}
<1>1. last \in Nat /\ S \in SUBSET (0 .. last)
  BY TableTypes
<1>2. /\ Lowest(S, k) \subseteq S
      /\ \A e \in Lowest(S, k), d \in S : d <= e => d \in Lowest(S, k)
  BY <1>1, LowestIsAPrefix
<1>3. RowsAbove(c, k) = Lowest(S, k)
  BY DEF RowsAbove
<1>4. QED
  BY <1>2, <1>3

LEMMA HeadIsLast ==
    ASSUME TypeOK, HeadIsKept
    PROVE  HeadCursor = last /\ last \in Nat
<1>1. last \in Nat /\ journal \in SUBSET (0 .. last) /\ journal \subseteq 1 .. last
  BY TableTypes
<1>2. CASE journal = {}
  BY <1>1, <1>2 DEF HeadIsKept, HeadCursor
<1>3. CASE journal # {}
  <2>1. last \in journal
    <3>1. PICK c \in journal : TRUE
      BY <1>3
    <3>2. c \in 1 .. last
      BY <1>1, <3>1
    <3>3. last > 0
      BY <1>1, <3>2
    <3>4. QED
      BY <3>3 DEF HeadIsKept
  <2>2. Max(journal) \in journal /\ last <= Max(journal)
    BY <1>1, <1>3, <2>1, MaxOfBounded
  <2>3. ASSUME NEW m \in journal, last <= m PROVE m = last
    BY <1>1, <2>3
  <2>4. Max(journal) = last
    BY <2>2, <2>3
  <2>5. QED
    BY <1>1, <1>3, <2>4 DEF HeadCursor
<1>4. QED
  BY <1>2, <1>3

\* What each transaction appends: some rows after the last, chain rows or not.
LEMMA JournalAppends ==
    ASSUME TypeOK, NEW rws \in Appends, Journal(rws)
    PROVE  \E n \in 1 .. 3 :
              /\ last' = last + n
              /\ last + n <= cast.rows
              /\ journal' = journal \cup (last + 1 .. last + n)
              /\ chain \subseteq chain'
              /\ chain' \subseteq chain \cup (last + 1 .. last + n)
<1>1. Len(rws) \in 1 .. 3
  BY DEF Appends
<1>2. \A j \in 1 .. Len(rws) : last + j \in last + 1 .. last + Len(rws)
  BY <1>1, TableTypes
<1>3. QED
  BY <1>1, <1>2 DEF Journal

LEMMA InitIInv == Init => IInv
<1> SUFFICES ASSUME Init PROVE IInv
  OBVIOUS
<1>1. \A c \in Casts : 0 \in 0 .. c.rows
  BY FeedAssumption
<1>2. TypeOK
  BY <1>1, FeedAssumption DEF Init, TypeOK, Reading, Blank
<1>3. QED
  BY <1>2 DEF Init, IInv, HeadIsKept, DeletedAreBelow, KeptAreAbove, ReadFloorIsPast,
     CursorsAreCovered, ReadsAreCovered, Covers, RowsAreWhole, AnsweredIsAccepted,
     PostHasTarget, NoReaderSkips, Blank

\* The first row too young to go, or the head, is at most the head.
LEMMA YoungIsAtMostTheHead ==
    ASSUME TypeOK, HeadIsKept, NEW from \in Nat, NEW old \in Nat
    PROVE  Young(from, old) \in 0 .. last
<1> DEFINE young == {d \in journal : d > from /\ d > old}
<1>1. HeadCursor = last /\ last \in Nat
  BY HeadIsLast
<1>2. \A d \in journal : d \in 0 .. last
  BY TableTypes
<1>3. CASE young = {}
  BY <1>1, <1>3 DEF Young
<1>4. CASE young # {}
  <2>1. young \in SUBSET Nat
    BY <1>1, <1>2
  <2>2. Min(young) \in young
    BY <1>4, <2>1, MinOfNaturals
  <2>3. QED
    BY <1>2, <1>4, <2>2 DEF Young
<1>5. QED
  BY <1>3, <1>4

\* The retention's pick is of rows in the journal, and never the head row.
LEMMA PicksSpareTheHead ==
    ASSUME TypeOK, HeadIsKept, NEW from \in Nat, NEW old \in Nat, NEW day \in Nat, NEW k \in Nat,
           NEW c \in Lowest(PickedChain(from, old) \cup PickedAge(day), k)
    PROVE  c \in journal /\ c < last
<1>1. c \in PickedChain(from, old) \cup PickedAge(day)
  BY DEF Lowest
<1>2. /\ HeadCursor = last /\ last \in Nat
      /\ \A d \in journal : d \in 0 .. last
  BY HeadIsLast, TableTypes
<1>3. CASE c \in PickedAge(day)
  BY <1>2, <1>3 DEF PickedAge
<1>4. CASE c \in PickedChain(from, old)
  <2>1. c \in journal /\ c < Young(from, old)
    BY <1>4 DEF PickedChain
  <2>2. Young(from, old) \in 0 .. last
    BY YoungIsAtMostTheHead
  <2>3. QED
    BY <1>2, <2>1, <2>2
<1>5. QED
  BY <1>1, <1>3, <1>4

\* What a retention deletes and where it leaves the floor.
LEMMA RetainFacts ==
    ASSUME IInv, NEW w \in Worker, Retain(w)
    PROVE  /\ journal' \subseteq journal
           /\ last \in journal => last \in journal'
           /\ floor <= floor' /\ floor' \in 0 .. last
           /\ \A c \in (journal \ journal') \cap chain : c <= floor'
           /\ \A c \in journal' \cap chain : c > floor'
<1> DEFINE from == loc[w].floor
           old == loc[w].aged
           picks == PickedChain(from, old) \cup PickedAge(loc[w].stale)
           picked == Lowest(picks, RetainLimit)
           gone == picked \cap chain
<1>1. /\ last \in Nat /\ floor \in 0 .. last
      /\ journal \in SUBSET (0 .. last) /\ chain \subseteq 1 .. last
  BY TableTypes DEF IInv
<1>2. from \in Nat /\ old \in Nat /\ loc[w].stale \in Nat /\ from <= floor
  BY <1>1 DEF IInv, TypeOK, Reading, ReadFloorIsPast
<1>3. journal' = journal \ picked /\ floor' = RaisedFloor(picked)
  BY DEF Retain
<1>4. /\ picked \subseteq picks
      /\ \A c \in picked, d \in picks : d <= c => d \in picked
  <2>1. picks \in SUBSET (0 .. last)
    BY <1>1 DEF PickedChain, PickedAge
  <2>2. RetainLimit \in Nat
    BY FeedAssumption
  <2>3. QED
    BY <1>1, <2>1, <2>2, LowestIsAPrefix
<1>5. gone \subseteq PickedChain(from, old)
  BY <1>4 DEF PickedAge
<1>6. gone \in SUBSET (0 .. last) /\ gone \subseteq journal
  BY <1>1, <1>5 DEF PickedChain
<1>7. last \in journal => last \in journal'
  <2>1. \A c \in picked : c < last
    BY <1>2, FeedAssumption, PicksSpareTheHead DEF IInv
  <2>2. QED
    BY <1>1, <1>3, <2>1
<1>8. \A c \in (journal \ journal') \cap chain : c \in gone
  BY <1>3
<1>9. CASE gone = {}
  <2>1. floor' = floor
    BY <1>3, <1>9 DEF RaisedFloor
  <2>2. \A c \in chain \cap journal : c > floor
    BY DEF IInv, KeptAreAbove
  <2>3. floor <= floor
    BY <1>1
  <2>4. QED
    BY <1>1, <1>3, <1>7, <1>8, <1>9, <2>1, <2>2, <2>3
<1>10. CASE gone # {}
  <2>1. Max(gone) \in gone /\ \A c \in gone : c <= Max(gone)
    BY <1>1, <1>6, <1>10, MaxOfBounded
  <2>2. PICK m \in gone : m = Max(gone)
    BY <2>1
  <2>3. {floor, m} \in SUBSET (0 .. last)
    BY <1>1, <1>6, <2>2
  <2>4. Max({floor, m}) \in {floor, m} /\ \A y \in {floor, m} : y <= Max({floor, m})
    BY <1>1, <2>3, MaxOfBounded
  <2>5. floor' = Max({floor, m})
    BY <1>3, <1>10, <2>2 DEF RaisedFloor
  <2>6. floor' \in {floor, m} /\ floor <= floor' /\ m <= floor'
    BY <2>4, <2>5
  <2>7. \A c \in gone : c <= floor'
    BY <1>1, <1>6, <2>1, <2>2, <2>3, <2>6
  <2>8. ASSUME NEW c \in journal' \cap chain PROVE c > floor'
    <3>1. c \in journal \cap chain /\ c \notin picked /\ c > floor
      BY <1>3 DEF IInv, KeptAreAbove
    <3>2. c > m
      <4>1. SUFFICES ASSUME c <= m PROVE FALSE
        BY <1>1, <1>6, <3>1
      <4>2. m < Young(from, old)
        BY <1>5, <2>2 DEF PickedChain
      <4>3. c < Young(from, old)
        <5>1. Young(from, old) \in 0 .. last
          BY <1>2, YoungIsAtMostTheHead DEF IInv
        <5>2. c \in 0 .. last /\ m \in 0 .. last
          BY <1>1, <1>6, <2>2, <3>1
        <5>3. QED
          BY <1>1, <4>1, <4>2, <5>1, <5>2
      <4>4. c \in PickedChain(from, old)
        <5>1. c \in Nat /\ floor \in Nat /\ from \in Nat
          BY <1>1, <1>2, <3>1
        <5>2. c > from
          BY <1>2, <3>1, <5>1
        <5>3. QED
          BY <3>1, <4>3, <5>2 DEF PickedChain
      <4>5. QED
        BY <1>4, <2>2, <3>1, <4>1, <4>4
    <3>3. QED
      BY <2>6, <3>1, <3>2
  <2>9. QED
    BY <1>3, <1>7, <1>8, <2>3, <2>6, <2>7, <2>8
<1>11. QED
  BY <1>9, <1>10

-----------------------------------------------------------------------------
(* The steps.                                                               *)

\* A page moves its reader up, to a row of the journal or nowhere, and over no
\* chain row of the journal that it does not hold.
LEMMA PageIsRead ==
    ASSUME TypeOK, NEW r \in Reader, TakePage(r)
    PROVE  /\ since'[r] \in 0 .. last
           /\ \A c \in journal \cap chain :
                 since[r] < c /\ c <= since'[r] => c \in seen'[r]
<1> DEFINE page == RowsAbove(since[r], PageSize)
<1>1. /\ last \in Nat /\ journal \in SUBSET (0 .. last)
      /\ since[r] \in 0 .. last /\ PageSize \in Nat
  BY TableTypes, FeedAssumption DEF TypeOK
<1>2. /\ page \subseteq {d \in journal : d > since[r]}
      /\ \A e \in page, d \in journal : since[r] < d /\ d <= e => d \in page
  BY <1>1, RowsAboveIsAPrefix
<1>3. /\ since'[r] = IF page = {} THEN since[r] ELSE Max(page)
      /\ seen'[r] = seen[r] \cup (page \cap chain)
  BY DEF TakePage, TypeOK
<1>4. CASE page = {}
  BY <1>1, <1>3, <1>4
<1>5. CASE page # {}
  <2>1. page \in SUBSET (0 .. last)
    BY <1>1, <1>2
  <2>2. Max(page) \in page
    BY <1>1, <1>5, <2>1, MaxOfBounded
  <2>3. QED
    BY <1>1, <1>2, <1>3, <1>5, <2>1, <2>2
<1>6. QED
  BY <1>4, <1>5

\* Every step keeps the types.
LEMMA TypeStep == IInv /\ [Next]_vars => TypeOK'
<1> SUFFICES ASSUME IInv, [Next]_vars PROVE TypeOK'
  OBVIOUS
<1> USE FeedAssumption
<1>0. TypeOK /\ last \in Nat /\ cast.rows \in Nat
  BY TableTypes DEF IInv, TypeOK
<1>1. CASE UNCHANGED vars
  BY <1>0, <1>1 DEF vars, table, clock, outbox, invocation, readers, TypeOK, Reading
<1>2. ASSUME cast' = cast, NEW rws \in Appends, Journal(rws) PROVE TypeOK'
  <2>1. PICK n \in 1 .. 3 :
          /\ last' = last + n
          /\ last + n <= cast.rows
          /\ journal' = journal \cup (last + 1 .. last + n)
          /\ chain' \subseteq chain \cup (last + 1 .. last + n)
    BY <1>0, <1>2, JournalAppends
  <2>2. 0 .. last \subseteq 0 .. last' /\ 1 .. last \subseteq 1 .. last'
    BY <1>0, <2>1
  <2>3. last' \in 0 .. cast.rows /\ journal' \subseteq 1 .. last' /\ chain' \subseteq 1 .. last'
    BY <1>0, <2>1, TableTypes
  <2>4. UNCHANGED <<floor, clock, outbox, invocation, readers>>
    BY <1>2 DEF Journal
  <2>5. Reading \subseteq Reading'
    BY <2>2 DEF Reading
  <2>6. loc' \in [Worker -> Reading']
    BY <1>0, <2>4, <2>5 DEF invocation, TypeOK
  <2>7. /\ floor' \in 0 .. last' /\ aged' \in 0 .. last' /\ stale' \in 0 .. last'
        /\ since' \in [Reader -> 0 .. last']
    BY <1>0, <2>2, <2>4 DEF clock, readers, TypeOK
  <2>8. /\ cursor' \in [Target -> 0 .. last' \cup {None}]
        /\ accepted' \in [Target -> SUBSET (1 .. last')]
        /\ start' \in [Target -> 0 .. last']
        /\ seen' \in [Reader -> SUBSET (1 .. last')]
    BY <1>0, <2>2, <2>4 DEF outbox, readers, TypeOK
  <2>9. QED
    BY <1>0, <1>2, <2>3, <2>4, <2>6, <2>7, <2>8 DEF clock, invocation, readers, TypeOK
<1>3. CASE DayPasses /\ cast' = cast
  BY <1>0, <1>3 DEF DayPasses, table, outbox, invocation, readers, TypeOK, Reading
<1>4. CASE MonthsPass /\ cast' = cast
  BY <1>0, <1>4 DEF MonthsPass, table, outbox, invocation, readers, TypeOK, Reading
<1>5. ASSUME cast' = cast, NEW w \in Worker, Step(w) \/ Crash(w) PROVE TypeOK'
  <2>0. Blank \in Reading /\ loc[w] \in Reading
    BY <1>0 DEF Blank, Reading, TypeOK
  <2> DEFINE rest == <<last, journal, chain, floor, aged, stale, cursor, accepted, start,
                       since, left, seen>>
  <2>1. ASSUME NEW l \in Reading, loc' = [loc EXCEPT ![w] = l], UNCHANGED <<rest>>,
               NEW place \in {"idle", "targets", "post", "record", "retain", "delete"},
               Goto(w, place), crashes' \in 0 .. MaxCrashes
        PROVE  TypeOK'
    BY <1>0, <1>5, <2>1 DEF Goto, Reading, TypeOK
  <2>2. CASE ReadOutbox(w)
    <3> DEFINE l == [Blank EXCEPT !.since = [t \in Target |-> Place(t)],
                                  !.left = {t \in Target \cap cast.who : Behind(t)}]
    <3>1. \A t \in Target : Place(t) \in 0 .. last
      BY <1>0 DEF Place, TypeOK
    <3>2. l \in Reading
      BY <2>0, <3>1 DEF Reading
    <3>3. loc' = [loc EXCEPT ![w] = l] /\ UNCHANGED <<rest>> /\ Goto(w, "targets") /\ crashes' = crashes
      BY <2>2 DEF ReadOutbox, table, clock, outbox, readers
    <3>4. QED
      BY <1>0, <2>1, <3>2, <3>3 DEF TypeOK
  <2>3. ASSUME NEW t \in Target, ReadRows(w, t) PROVE TypeOK'
    <3> DEFINE rws == RowsAbove(loc[w].since[t], Budget)
               l == [loc[w] EXCEPT !.left = @ \ {t}, !.target = t, !.rows = rws]
    <3>1. rws \in SUBSET (1 .. last)
      <4>1. loc[w].since[t] \in Nat
        BY <1>0, <2>0 DEF Reading
      <4>2. QED
        BY <1>0, <4>1, RowsAboveIsAPrefix DEF TypeOK
    <3>2. l \in Reading
      BY <2>0, <3>1 DEF Reading
    <3>3. loc' = [loc EXCEPT ![w] = l] /\ UNCHANGED <<rest>> /\ Goto(w, "post") /\ crashes' = crashes
      BY <1>0, <2>3 DEF ReadRows, table, clock, outbox, readers, TypeOK
    <3>4. QED
      BY <1>0, <2>1, <3>2, <3>3 DEF TypeOK
  <2>4. CASE Accept(w)
    BY <1>0, <1>5, <2>4 DEF Accept, Goto, table, clock, readers, TypeOK, Reading
  <2>5. CASE Record(w)
    <3>1. loc[w].rows # {} /\ loc[w].target \in Target /\ loc[w].rows \in SUBSET (1 .. last)
      BY <2>0, <2>5 DEF Record, IInv, AnsweredIsAccepted, PostHasTarget, Reading
    <3>2. PICK c \in 1 .. last : c = Min(loc[w].rows)
      BY <1>0, <3>1, MinOfNaturals
    <3> DEFINE t == loc[w].target
               l == [loc[w] EXCEPT !.rows = @ \ {c}]
    <3>3. l \in Reading
      BY <2>0 DEF Reading
    <3>4. loc' = [loc EXCEPT ![w] = l] /\ Reading' = Reading
      BY <1>0, <2>5, <3>2 DEF Record, table, Reading, TypeOK
    <3>5. /\ cursor' = [cursor EXCEPT ![t] = Advanced(t, c)]
          /\ start' = [start EXCEPT ![t] = IF cursor[t] = None THEN c ELSE @]
      BY <2>5, <3>2 DEF Record
    <3>6. Advanced(t, c) \in 0 .. last \cup {None}
      BY <1>0, <3>1 DEF Advanced, TypeOK
    <3>7. cursor' \in [Target -> 0 .. last \cup {None}] /\ start' \in [Target -> 0 .. last]
      BY <1>0, <3>1, <3>5, <3>6 DEF TypeOK
    <3>8. loc' \in [Worker -> Reading]
      BY <1>0, <3>3, <3>4 DEF TypeOK
    <3>9. UNCHANGED <<last, journal, chain, floor, aged, stale, accepted, crashes, since, left, seen>>
      BY <2>5 DEF Record, table, clock, readers
    <3>10. pc' \in [Worker -> {"idle", "targets", "post", "record", "retain", "delete"}]
      BY <1>0, <2>5 DEF Record, Goto, TypeOK
    <3>11. QED
      BY <1>0, <1>5, <3>4, <3>7, <3>8, <3>9, <3>10 DEF TypeOK
  <2>6. CASE NextTarget(w)
    <3> DEFINE l == [loc[w] EXCEPT !.rows = {}, !.target = None]
    <3>1. l \in Reading
      BY <2>0 DEF Reading
    <3>2. loc' = [loc EXCEPT ![w] = l] /\ UNCHANGED <<rest>> /\ Goto(w, "targets") /\ crashes' = crashes
      BY <1>0, <2>6 DEF NextTarget, table, clock, outbox, readers, TypeOK
    <3>3. QED
      BY <1>0, <2>1, <3>1, <3>2 DEF TypeOK
  <2>7. CASE Delivered(w)
    <3>1. PICK place \in {"idle", "retain"} : Goto(w, place)
      BY <2>7 DEF Delivered
    <3>2. loc' = [loc EXCEPT ![w] = Blank] /\ UNCHANGED <<rest>> /\ crashes' = crashes
      BY <2>7 DEF Delivered, table, clock, outbox, readers
    <3>3. QED
      BY <1>0, <2>0, <2>1, <3>1, <3>2 DEF TypeOK
  <2>8. CASE ReadFloor(w)
    <3> DEFINE l == [loc[w] EXCEPT !.floor = floor, !.aged = aged, !.stale = stale]
    <3>1. l \in Reading
      BY <1>0, <2>0 DEF Reading, TypeOK
    <3>2. loc' = [loc EXCEPT ![w] = l] /\ UNCHANGED <<rest>> /\ Goto(w, "delete") /\ crashes' = crashes
      BY <1>0, <2>8 DEF ReadFloor, table, clock, outbox, readers, TypeOK
    <3>3. QED
      BY <1>0, <2>1, <3>1, <3>2 DEF TypeOK
  <2>9. CASE Retain(w)
    <3>1. journal' \subseteq 1 .. last /\ floor' \in 0 .. last
      BY <1>0, <2>9, RetainFacts DEF TypeOK
    <3>2. loc' \in [Worker -> Reading] /\ Reading' = Reading
      BY <1>0, <2>0, <2>9 DEF Retain, Reading, TypeOK
    <3>3. QED
      BY <1>0, <1>5, <2>9, <3>1, <3>2 DEF Retain, Goto, clock, outbox, readers, TypeOK
  <2>10. CASE Crash(w)
    <3>1. PICK place \in {"idle", "retain"} : Goto(w, place)
      BY <2>10 DEF Crash
    <3>2. loc' = [loc EXCEPT ![w] = Blank] /\ UNCHANGED <<rest>>
      BY <2>10 DEF Crash, table, clock, outbox, readers
    <3>3. crashes' \in 0 .. MaxCrashes
      BY <1>0, <2>10 DEF Crash, TypeOK
    <3>4. QED
      BY <2>0, <2>1, <3>1, <3>2, <3>3
  <2>11. QED
    BY <1>5, <2>2, <2>3, <2>4, <2>5, <2>6, <2>7, <2>8, <2>9, <2>10 DEF Step
<1>6. ASSUME cast' = cast, NEW r \in Reader, Read(r) PROVE TypeOK'
  <2>1. CASE Ask(r) \/ Wake(r)
    <3>1. TakePage(r) /\ since'[r] \in 0 .. last
      BY <1>6, <2>1, PageIsRead DEF Ask, Wake, IInv
    <3>2. left' \in [Reader -> 0 .. StreamBound \cup {None}]
      BY <1>0, <2>1 DEF Ask, Wake, TypeOK
    <3>3. QED
      BY <1>0, <1>6, <2>1, <3>1, <3>2 DEF Ask, Wake, TakePage, table, clock, outbox, invocation, TypeOK, Reading
  <2>2. CASE Reread(r)
    BY <1>0, <1>6, <2>2 DEF Reread, table, clock, outbox, invocation, TypeOK, Reading
  <2>3. CASE EndStream(r)
    BY <1>0, <1>6, <2>3 DEF EndStream, table, clock, outbox, invocation, TypeOK, Reading
  <2>4. QED
    BY <1>6, <2>1, <2>2, <2>3 DEF Read
<1>7. QED
  BY <1>1, <1>2, <1>3, <1>4, <1>5, <1>6 DEF Next

\* One step of an invocation that has read l, when it deletes nothing and the
\* targets' answers only grow.
Moves(w, l, place) ==
    /\ loc' = [loc EXCEPT ![w] = l]
    /\ Goto(w, place)
    /\ UNCHANGED <<last, journal, chain, floor, since, seen>>
    /\ \A t \in Target : accepted[t] \subseteq accepted'[t]
    /\ \A t \in Target : cursor'[t] # None =>
          \A d \in journal \cap chain : d <= cursor'[t] => d \in accepted'[t]
    /\ l.floor <= floor
    /\ \A t \in Target : \A d \in journal \cap chain : d <= l.since[t] => d \in accepted'[t]
    /\ \A c \in l.rows :
          /\ l.target \in Target
          /\ \A d \in journal \cap chain : d <= c => d \in accepted'[l.target] \cup l.rows
    /\ place \in {"post", "record"} => l.target \in Target
    /\ place = "record" =>
          /\ l.rows # {}
          /\ Min(l.rows) \in chain => Min(l.rows) \in accepted'[l.target]

LEMMA MovesStep ==
    ASSUME IInv, TypeOK', NEW w \in Worker, NEW l, NEW place, Moves(w, l, place)
    PROVE  IInv'
<1>0. /\ UNCHANGED <<last, journal, chain, floor, since, seen>>
      /\ \A t \in Target : accepted[t] \subseteq accepted'[t]
  BY DEF Moves
<1>1. \A v \in Worker : loc'[v] = IF v = w THEN l ELSE loc[v]
  BY DEF IInv, TypeOK, Moves
<1>2. \A v \in Worker : pc'[v] = IF v = w THEN place ELSE pc[v]
  BY DEF IInv, TypeOK, Goto, Moves
<1>3. ReadFloorIsPast'
  BY <1>0, <1>1 DEF IInv, ReadFloorIsPast, Moves
<1>4. CursorsAreCovered'
  BY <1>0 DEF CursorsAreCovered, Covers, Moves
<1>5. ReadsAreCovered'
  <2>1. ASSUME NEW v \in Worker, NEW t \in Target, v # w PROVE Covers(t, loc[v].since[t])'
    <3>1. Covers(t, loc[v].since[t]) /\ loc'[v] = loc[v]
      BY <1>1, <2>1 DEF IInv, ReadsAreCovered
    <3>2. QED
      BY <1>0, <3>1 DEF Covers
  <2>2. ASSUME NEW t \in Target PROVE Covers(t, loc[w].since[t])'
    BY <1>0, <1>1 DEF Covers, Moves
  <2>3. QED
    BY <2>1, <2>2 DEF ReadsAreCovered
<1>6. RowsAreWhole'
  <2>1. ASSUME NEW v \in Worker, NEW c \in loc'[v].rows, v # w
        PROVE  /\ loc'[v].target \in Target
               /\ \A d \in journal \cap chain :
                     d <= c => d \in accepted'[loc'[v].target] \cup loc'[v].rows
    <3>1. loc'[v] = loc[v]
      BY <1>1, <2>1
    <3>2. /\ loc[v].target \in Target
          /\ \A d \in journal \cap chain :
                d <= c => d \in accepted[loc[v].target] \cup loc[v].rows
      BY <2>1, <3>1 DEF IInv, RowsAreWhole
    <3>3. QED
      BY <1>0, <3>1, <3>2
  <2>2. ASSUME NEW c \in loc'[w].rows
        PROVE  /\ loc'[w].target \in Target
               /\ \A d \in journal \cap chain :
                     d <= c => d \in accepted'[loc'[w].target] \cup loc'[w].rows
    BY <1>1 DEF Moves
  <2>3. QED
    BY <1>0, <2>1, <2>2 DEF RowsAreWhole
<1>7. PostHasTarget'
  BY <1>1, <1>2 DEF IInv, PostHasTarget, Moves
<1>8. AnsweredIsAccepted'
  <2>1. ASSUME NEW v \in Worker, pc'[v] = "record", v # w
        PROVE  /\ loc'[v].rows # {}
               /\ Min(loc'[v].rows) \in chain => Min(loc'[v].rows) \in accepted'[loc'[v].target]
    <3>1. pc[v] = "record" /\ loc'[v] = loc[v]
      BY <1>1, <1>2, <2>1
    <3>2. QED
      BY <1>0, <3>1 DEF IInv, AnsweredIsAccepted, PostHasTarget
  <2>2. ASSUME pc'[w] = "record"
        PROVE  /\ loc'[w].rows # {}
               /\ Min(loc'[w].rows) \in chain => Min(loc'[w].rows) \in accepted'[loc'[w].target]
    BY <1>1, <1>2, <2>2 DEF Moves
  <2>3. QED
    BY <1>0, <2>1, <2>2 DEF AnsweredIsAccepted
<1>9. QED
  BY <1>0, <1>3, <1>4, <1>5, <1>6, <1>7, <1>8
     DEF IInv, HeadIsKept, DeletedAreBelow, KeptAreAbove, NoReaderSkips

\* What an invocation's reading says of it in the invariant.
LEMMA ReadingFacts ==
    ASSUME IInv, NEW w \in Worker
    PROVE  /\ loc[w] \in Reading
           /\ loc[w].since \in [Target -> 0 .. last]
           /\ loc[w].rows \in SUBSET (1 .. last)
           /\ loc[w].floor <= floor
           /\ \A t \in Target : \A d \in journal \cap chain :
                 d <= loc[w].since[t] => d \in accepted[t]
           /\ \A c \in loc[w].rows :
                 /\ loc[w].target \in Target
                 /\ \A d \in journal \cap chain :
                       d <= c => d \in accepted[loc[w].target] \cup loc[w].rows
           /\ \A t \in Target : cursor[t] # None =>
                 \A d \in journal \cap chain : d <= cursor[t] => d \in accepted[t]
<1>1. loc[w] \in Reading
  BY DEF IInv, TypeOK
<1>2. QED
  BY <1>1 DEF IInv, Reading, ReadFloorIsPast, ReadsAreCovered, Covers, RowsAreWhole, CursorsAreCovered

LEMMA ReadOutboxStep ==
    ASSUME IInv, TypeOK', NEW w \in Worker, ReadOutbox(w) PROVE IInv'
<1> DEFINE l == [Blank EXCEPT !.since = [t \in Target |-> Place(t)],
                              !.left = {t \in Target \cap cast.who : Behind(t)}]
<1>0. last \in Nat /\ floor \in 0 .. last /\ chain \subseteq 1 .. last
  BY TableTypes DEF IInv
<1>1. ASSUME NEW t \in Target, NEW d \in journal \cap chain, d <= Place(t)
      PROVE  d \in accepted[t]
  <2>1. d > floor /\ d \in 1 .. last
    BY <1>0 DEF IInv, KeptAreAbove
  <2>2. Place(t) = cursor[t] /\ cursor[t] # None
    BY <1>0, <1>1, <2>1 DEF Place
  <2>3. QED
    BY <1>1, <2>2, ReadingFacts
<1>2. l.floor = 0 /\ l.rows = {} /\ l.since = [t \in Target |-> Place(t)]
  BY DEF Blank
<1>3. /\ loc' = [loc EXCEPT ![w] = l] /\ Goto(w, "targets")
      /\ UNCHANGED <<last, journal, chain, floor, cursor, accepted, since, seen>>
  BY DEF ReadOutbox, table, outbox, readers
<1>4. \A t \in Target : \A d \in journal \cap chain : d <= l.since[t] => d \in accepted'[t]
  BY <1>1, <1>2, <1>3
<1> HIDE DEF l
<1>5. Moves(w, l, "targets")
  BY <1>0, <1>2, <1>3, <1>4, ReadingFacts DEF Moves
<1>6. QED
  BY <1>5, MovesStep

LEMMA ReadRowsStep ==
    ASSUME IInv, TypeOK', NEW w \in Worker, NEW t \in Target, ReadRows(w, t) PROVE IInv'
<1> DEFINE read == RowsAbove(loc[w].since[t], Budget)
           l == [loc[w] EXCEPT !.left = @ \ {t}, !.target = t, !.rows = read]
<1>0. /\ last \in Nat /\ journal \subseteq 1 .. last /\ Budget \in Nat
      /\ loc[w] \in Reading /\ loc[w].since[t] \in Nat
  BY TableTypes, ReadingFacts, FeedAssumption DEF IInv
<1>1. /\ read \subseteq {d \in journal : d > loc[w].since[t]}
      /\ \A e \in read, d \in journal : loc[w].since[t] < d /\ d <= e => d \in read
  <2>1. TypeOK
    BY DEF IInv
  <2>2. QED
    BY <1>0, <2>1, RowsAboveIsAPrefix
<1>2. /\ l.target = t /\ l.rows = read /\ l.since = loc[w].since /\ l.floor = loc[w].floor
  BY <1>0 DEF Reading
<1>3. /\ loc' = [loc EXCEPT ![w] = l] /\ Goto(w, "post")
      /\ UNCHANGED <<last, journal, chain, floor, cursor, accepted, since, seen>>
  BY DEF ReadRows, table, outbox, readers, IInv, TypeOK
<1> HIDE DEF l
<1>4. ASSUME NEW c \in read, NEW d \in journal \cap chain, d <= c
      PROVE  d \in accepted[t] \cup read
  <2>1. d \in Nat
    BY <1>0
  <2>2. CASE d <= loc[w].since[t]
    BY <2>2, ReadingFacts
  <2>3. CASE loc[w].since[t] < d
    BY <1>1, <1>4, <2>3
  <2>4. QED
    BY <1>0, <2>1, <2>2, <2>3
<1>5. Moves(w, l, "post")
  <2> HIDE DEF read
  <2>1. QED
    BY <1>2, <1>3, <1>4, ReadingFacts DEF Moves
<1>6. QED
  BY <1>5, MovesStep

LEMMA RecordStep ==
    ASSUME IInv, TypeOK', NEW w \in Worker, Record(w) PROVE IInv'
<1> DEFINE t == loc[w].target
<1>1. /\ loc[w] \in Reading /\ loc[w].rows # {} /\ t \in Target
      /\ last \in Nat /\ loc[w].rows \in SUBSET (1 .. last) /\ journal \subseteq 1 .. last
  BY TableTypes, ReadingFacts DEF Record, IInv, AnsweredIsAccepted, PostHasTarget
<1>2. PICK c \in loc[w].rows : c = Min(loc[w].rows) /\ \A d \in loc[w].rows : c <= d
  <2>1. loc[w].rows \in SUBSET Nat
    BY <1>1
  <2>2. QED
    BY <1>1, <2>1, MinOfNaturals
<1> DEFINE l == [loc[w] EXCEPT !.rows = @ \ {c}]
<1>3. /\ l.target = t /\ l.rows = loc[w].rows \ {c}
      /\ l.since = loc[w].since /\ l.floor = loc[w].floor
  BY <1>1 DEF Reading
<1>4. /\ loc' = [loc EXCEPT ![w] = l] /\ Goto(w, "post")
      /\ cursor' = [cursor EXCEPT ![t] = Advanced(t, c)]
      /\ UNCHANGED <<last, journal, chain, floor, accepted, since, seen>>
  BY <1>2 DEF Record, table, readers, IInv, TypeOK
<1> HIDE DEF l
<1>5. c \in chain => c \in accepted[t]
  BY <1>2 DEF Record, IInv, AnsweredIsAccepted
<1>6. ASSUME NEW d \in journal \cap chain, d <= c PROVE d \in accepted[t]
  <2>1. d = c \/ d \notin loc[w].rows
    BY <1>1, <1>2, <1>6
  <2>2. d \in accepted[t] \cup loc[w].rows
    BY <1>6, ReadingFacts
  <2>3. QED
    BY <1>5, <2>1, <2>2
<1>7. \A u \in Target : cursor'[u] # None =>
         \A d \in journal \cap chain : d <= cursor'[u] => d \in accepted'[u]
  <2>1. cursor \in [Target -> 0 .. last \cup {None}]
    BY DEF IInv, TypeOK
  <2>2. ASSUME NEW u \in Target, cursor'[u] # None,
               NEW d \in journal \cap chain, d <= cursor'[u]
        PROVE  d \in accepted[u]
    <3>1. CASE cursor'[u] = cursor[u]
      BY <2>2, <3>1, ReadingFacts
    <3>2. CASE u = t /\ cursor'[u] = c
      BY <1>6, <2>2, <3>2
    <3>3. QED
      BY <1>4, <2>1, <3>1, <3>2 DEF Advanced
  <2>3. QED
    BY <1>4, <2>2
<1>8. \A e \in l.rows : \A d \in journal \cap chain : d <= e => d \in accepted[t] \cup l.rows
  BY <1>3, <1>5, ReadingFacts
<1>9. Moves(w, l, "post")
  BY <1>1, <1>3, <1>4, <1>7, <1>8, ReadingFacts DEF Moves
<1>10. QED
  BY <1>9, MovesStep

LEMMA NextTargetStep ==
    ASSUME IInv, TypeOK', NEW w \in Worker, NextTarget(w) PROVE IInv'
<1> DEFINE l == [loc[w] EXCEPT !.rows = {}, !.target = None]
<1>1. loc[w] \in Reading
  BY DEF IInv, TypeOK
<1>2. l.rows = {} /\ l.since = loc[w].since /\ l.floor = loc[w].floor
  BY <1>1 DEF Reading
<1>3. /\ loc' = [loc EXCEPT ![w] = l] /\ Goto(w, "targets")
      /\ UNCHANGED <<last, journal, chain, floor, cursor, accepted, since, seen>>
  BY DEF NextTarget, table, outbox, readers, IInv, TypeOK
<1> HIDE DEF l
<1>4. Moves(w, l, "targets")
  BY <1>2, <1>3, ReadingFacts DEF Moves
<1>5. QED
  BY <1>4, MovesStep

LEMMA IInvStep == IInv /\ [Next]_vars => IInv'
<1> SUFFICES ASSUME IInv, [Next]_vars PROVE IInv'
  OBVIOUS
<1>0. /\ TypeOK /\ TypeOK' /\ last \in Nat /\ journal \subseteq 1 .. last /\ chain \subseteq 1 .. last
      /\ floor \in 0 .. last
  BY TypeStep, TableTypes DEF IInv
<1>4. ASSUME NEW w \in Worker, ReadOutbox(w) PROVE IInv'
  BY <1>0, <1>4, ReadOutboxStep
<1>5. ASSUME NEW w \in Worker, NEW t \in Target, ReadRows(w, t) PROVE IInv'
  BY <1>0, <1>5, ReadRowsStep
<1>7. ASSUME NEW w \in Worker, Record(w) PROVE IInv'
  BY <1>0, <1>7, RecordStep
<1>8. ASSUME NEW w \in Worker, NextTarget(w) PROVE IInv'
  BY <1>0, <1>8, NextTargetStep
<1> USE <1>0, FeedAssumption
<1> USE DEF IInv, HeadIsKept, DeletedAreBelow, KeptAreAbove, ReadFloorIsPast, CursorsAreCovered,
        ReadsAreCovered, Covers, RowsAreWhole, AnsweredIsAccepted, PostHasTarget, NoReaderSkips
<1>1. CASE UNCHANGED vars
  BY <1>1 DEF vars, table, clock, outbox, invocation, readers
<1>2. ASSUME NEW rws \in Appends, Journal(rws) PROVE IInv'
  <2>1. PICK n \in 1 .. 3 :
          /\ last' = last + n
          /\ journal' = journal \cup (last + 1 .. last + n)
          /\ chain \subseteq chain'
          /\ chain' \subseteq chain \cup (last + 1 .. last + n)
    BY <1>2, JournalAppends
  <2>2. \A c : c \in journal' \cap chain' /\ c \notin journal \cap chain => c \in Nat /\ c > last
    BY <2>1
  <2>3. QED
    <3>1. /\ \A d : d \in journal' \cap chain' /\ d <= last => d \in journal \cap chain
          /\ \A d : d \in chain' /\ d <= last => d \in chain
          /\ \A d : d \in chain' \ journal' => d \in chain \ journal
      <4>1. \A d : d \in last + 1 .. last + n => d \in Nat /\ ~(d <= last)
        OBVIOUS
      <4>2. \A d : d \in journal' \cap chain' /\ d <= last => d \in journal \cap chain
        BY <2>2
      <4>3. \A d : d \in chain' /\ d <= last => d \in chain
        BY <2>1, <4>1
      <4>4. \A d : d \in chain' \ journal' => d \in chain \ journal
        BY <2>1
      <4>5. QED
        BY <4>2, <4>3, <4>4
    <3>2. UNCHANGED <<floor, clock, outbox, invocation, readers>>
      BY <1>2 DEF Journal
    <3>3. HeadIsKept' /\ DeletedAreBelow' /\ ReadFloorIsPast' /\ AnsweredIsAccepted'
          /\ PostHasTarget'
      <4>1. HeadIsKept'
        BY <2>1
      <4>2. DeletedAreBelow' /\ ReadFloorIsPast' /\ PostHasTarget'
        BY <3>1, <3>2 DEF invocation
      <4>3. AnsweredIsAccepted'
        <5>1. ASSUME NEW v \in Worker, pc[v] = "record"
              PROVE  Min(loc[v].rows) \in 1 .. last
          <6>1. loc[v].rows # {} /\ loc[v].rows \in SUBSET (1 .. last)
            BY <5>1 DEF TypeOK, Reading
          <6>2. QED
            BY <6>1, MinOfNaturals
        <5>2. \A v \in Worker : pc[v] = "record" /\ Min(loc[v].rows) \in chain'
                 => Min(loc[v].rows) \in chain
          BY <3>1, <5>1
        <5>3. QED
          BY <3>2, <5>2 DEF invocation, outbox
      <4>4. QED
        BY <4>1, <4>2, <4>3
    <3>4. KeptAreAbove'
      <4>1. ASSUME NEW c \in chain' \cap journal' PROVE c > floor
        <5>1. CASE c \in journal \cap chain
          BY <5>1
        <5>2. CASE c \notin journal \cap chain
          BY <2>2, <5>2
        <5>3. QED
          BY <5>1, <5>2
      <4>2. QED
        BY <3>2, <4>1
    <3>5. CursorsAreCovered' /\ ReadsAreCovered'
      <4>1. ASSUME NEW c \in 0 .. last, NEW d \in journal' \cap chain', d <= c
            PROVE  d \in journal \cap chain
        BY <2>2, <4>1
      <4>2. \A t \in Target : cursor[t] # None => cursor[t] \in 0 .. last
        BY DEF TypeOK
      <4>3. \A v \in Worker, t \in Target : loc[v].since[t] \in 0 .. last
        BY DEF TypeOK, Reading
      <4>4. CursorsAreCovered'
        BY <3>2, <4>1, <4>2 DEF outbox
      <4>5. ReadsAreCovered'
        BY <3>2, <4>1, <4>3 DEF outbox, invocation
      <4>6. QED
        BY <4>4, <4>5
    <3>6. RowsAreWhole'
      <4>1. \A v \in Worker : \A c \in loc[v].rows : c \in 1 .. last
        BY DEF TypeOK, Reading
      <4>2. ASSUME NEW v \in Worker, NEW c \in loc[v].rows,
                   NEW d \in journal' \cap chain', d <= c
            PROVE  d \in journal \cap chain
        <5>1. c \in 0 .. last
          BY <4>1, <1>0
        <5>2. QED
          BY <2>2, <4>2, <5>1
      <4>3. QED
        BY <3>2, <4>2 DEF outbox, invocation
    <3>7. NoReaderSkips'
      <4>1. \A q \in Reader : since[q] \in 0 .. last
        BY DEF TypeOK
      <4>2. QED
        BY <2>1, <3>1, <3>2, <4>1 DEF readers
    <3>8. QED
      BY <3>3, <3>4, <3>5, <3>6, <3>7
<1>3. CASE DayPasses \/ MonthsPass
  BY <1>3 DEF DayPasses, MonthsPass, table, outbox, invocation, readers
<1>6. ASSUME NEW w \in Worker, Accept(w) PROVE IInv'
  BY <1>6 DEF Accept, Goto, table, clock, readers, TypeOK, Reading
<1>9. ASSUME NEW w \in Worker, Delivered(w) PROVE IInv'
  BY <1>9 DEF Delivered, Blank, Goto, table, clock, outbox, readers, TypeOK, Reading
<1>10. ASSUME NEW w \in Worker, ReadFloor(w) PROVE IInv'
  BY <1>10 DEF ReadFloor, Goto, table, clock, outbox, readers, TypeOK, Reading
<1>11. ASSUME NEW w \in Worker, Retain(w) PROVE IInv'
  <2>1. /\ journal' \subseteq journal /\ floor <= floor' /\ floor' \in 0 .. last
        /\ last \in journal => last \in journal'
        /\ \A c \in (journal \ journal') \cap chain : c <= floor'
        /\ \A c \in journal' \cap chain : c > floor'
    BY <1>11, RetainFacts
  <2>2. UNCHANGED <<last, chain, cursor, accepted, since, seen>>
    BY <1>11 DEF Retain, outbox, readers
  <2>3. \A v \in Worker : loc'[v] = IF v = w THEN Blank ELSE loc[v]
    BY <1>11 DEF Retain, TypeOK
  <2>4. \A v \in Worker : pc'[v] = IF v = w THEN "idle" ELSE pc[v]
    BY <1>11 DEF Retain, Goto, TypeOK
  <2>5. DeletedAreBelow'
    BY <2>1, <2>2
  <2>6. HeadIsKept' /\ KeptAreAbove' /\ NoReaderSkips' /\ CursorsAreCovered'
    BY <2>1, <2>2
  <2>7. ReadFloorIsPast'
    <3>1. \A v \in Worker : loc[v].floor \in 0 .. last
      BY DEF TypeOK, Reading
    <3>2. QED
      BY <2>1, <2>2, <2>3, <3>1 DEF Blank
  <2>8. ReadsAreCovered'
    BY <2>1, <2>2, <2>3 DEF Blank
  <2>9. RowsAreWhole' /\ AnsweredIsAccepted' /\ PostHasTarget'
    BY <2>1, <2>2, <2>3, <2>4 DEF Blank
  <2>10. QED
    BY <2>5, <2>6, <2>7, <2>8, <2>9
<1>12. ASSUME NEW w \in Worker, Crash(w) PROVE IInv'
  BY <1>12 DEF Crash, Blank, Goto, table, clock, outbox, readers, TypeOK, Reading
<1>13. ASSUME NEW r \in Reader, Ask(r) \/ Wake(r) PROVE IInv'
  BY <1>13, PageIsRead DEF Ask, Wake, TakePage, Expired, table, clock, outbox, invocation, TypeOK
<1>14. ASSUME NEW r \in Reader, Reread(r) PROVE IInv'
  BY <1>14 DEF Reread, table, clock, outbox, invocation, TypeOK
<1>15. ASSUME NEW r \in Reader, EndStream(r) PROVE IInv'
  BY <1>15 DEF EndStream, table, clock, outbox, invocation
<1>16. QED
  BY <1>1, <1>2, <1>3, <1>4, <1>5, <1>6, <1>7, <1>8, <1>9, <1>10, <1>11, <1>12, <1>13, <1>14,
     <1>15 DEF Next, Step, Read

-----------------------------------------------------------------------------
(* The theorems.                                                            *)

\* What the retention deletes, what a delivery has read and what its target has
\* accepted fit together at every moment (retain, deliver, post_events).
THEOREM FeedInvariant == Spec => []IInv
<1>1. QED
  BY InitIInv, IInvStep, PTL DEF Spec

\* Nowhere in the journal, the outbox, an invocation or a client is there a
\* cursor AUTOINCREMENT has not given.
THEOREM FeedTypeCorrect == Spec => []TypeOK
<1>1. IInv => TypeOK
  BY DEF IInv
<1>2. QED
  BY <1>1, FeedInvariant, PTL

\* No client that follows its cursor misses a chain row unannounced, through any
\* retention between its reads (retain, read_wake, Wake::expired).
THEOREM ReadersMissNothing == Spec => []NoReaderSkips
<1>1. IInv => NoReaderSkips
  BY DEF IInv
<1>2. QED
  BY <1>1, FeedInvariant, PTL

\* No cursor handed out or stored is ever ahead of the journal's head: the
\* retention spares the head row (RETAIN_PICKED, read_wake's cursorAhead).
THEOREM NoCursorAhead == Spec => []NoCursorIsAhead
<1>1. IInv => NoCursorIsAhead
  <2> SUFFICES ASSUME IInv PROVE NoCursorIsAhead
    OBVIOUS
  <2>1. HeadCursor = last /\ last \in Nat
    BY HeadIsLast DEF IInv
  <2>2. since \in [Reader -> 0 .. last] /\ cursor \in [Target -> 0 .. last \cup {None}]
    BY DEF IInv, TypeOK
  <2>3. QED
    BY <2>1, <2>2 DEF NoCursorIsAhead
<1>2. QED
  BY <1>1, FeedInvariant, PTL

\* The step of a cursor: it moves up, and over no chain row of the journal that
\* its target has not accepted.
CursorMove(t) ==
    cursor'[t] # cursor[t] =>
        /\ cursor[t] # None => cursor'[t] # None /\ cursor'[t] > cursor[t]
        /\ journal' \cap chain' \cap 1 .. cursor'[t] \subseteq accepted'[t]

LEMMA OnlyRecordMovesCursors ==
    ASSUME Next, NEW t \in Target, cursor'[t] # cursor[t]
    PROVE  \E w \in Worker : Record(w)
<1>1. cursor' # cursor
  OBVIOUS
<1>2. QED
  BY <1>1 DEF Next, Journal, DayPasses, MonthsPass, Step, ReadOutbox, ReadRows, Accept,
     NextTarget, Delivered, ReadFloor, Retain, Crash, Read, Ask, Reread, Wake, EndStream, outbox

LEMMA CursorMoves ==
    ASSUME IInv, IInv', Next, NEW t \in Target PROVE CursorMove(t)
<1> SUFFICES ASSUME cursor'[t] # cursor[t]
             PROVE  /\ cursor[t] # None => cursor'[t] # None /\ cursor'[t] > cursor[t]
                    /\ journal' \cap chain' \cap 1 .. cursor'[t] \subseteq accepted'[t]
  BY DEF CursorMove
<1>1. PICK w \in Worker : Record(w)
  BY OnlyRecordMovesCursors
<1> DEFINE c == Min(loc[w].rows)
<1>2. c \in Nat
  <2>1. loc[w].rows # {}
    BY <1>1 DEF Record, IInv, AnsweredIsAccepted
  <2>2. loc[w].rows \in SUBSET Nat
    BY TableTypes, ReadingFacts DEF IInv
  <2>3. QED
    BY <2>1, <2>2, MinOfNaturals
<1> HIDE DEF c
<1>3. cursor \in [Target -> 0 .. last \cup {None}] /\ last \in Nat
  BY TableTypes DEF IInv, TypeOK
<1>4. cursor' = [cursor EXCEPT ![loc[w].target] = Advanced(loc[w].target, c)]
  BY <1>1 DEF Record, c
<1>5. cursor'[t] = c /\ ~(cursor[t] # None /\ cursor[t] > c)
  BY <1>3, <1>4 DEF Advanced
<1>6. cursor[t] # None => cursor'[t] # None /\ cursor'[t] > cursor[t]
  BY <1>2, <1>3, <1>5, FeedAssumption
<1>7. \A d \in journal' \cap chain' : d <= c => d \in accepted'[t]
  <2>1. CursorsAreCovered'
    BY DEF IInv
  <2>2. Covers(t, cursor[t])'
    BY <1>2, <1>5, <2>1, FeedAssumption DEF CursorsAreCovered
  <2>3. QED
    BY <1>5, <2>2 DEF Covers
<1>8. journal' \cap chain' \cap 1 .. cursor'[t] \subseteq accepted'[t]
  BY <1>2, <1>5, <1>7
<1>9. QED
  BY <1>6, <1>8

\* A target's cursor moves up alone, and over no chain row of the journal that
\* the target has not accepted, whichever deliveries run at the same time
\* (post_events, the upsert's MAX).
THEOREM CursorsMoveOverAccepted == Spec => CursorMovesOverAcceptedRows
<1>1. IInv /\ IInv' /\ [Next]_vars =>
        [\A t \in Target : cursor'[t] # cursor[t] =>
           /\ cursor[t] # None => cursor'[t] # None /\ cursor'[t] > cursor[t]
           /\ journal' \cap chain' \cap 1 .. cursor'[t] \subseteq accepted'[t]]_vars
  BY CursorMoves DEF CursorMove
<1>2. QED
  BY <1>1, FeedInvariant, PTL DEF Spec, CursorMovesOverAcceptedRows
=============================================================================
