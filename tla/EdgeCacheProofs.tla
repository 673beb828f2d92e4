-------------------------- MODULE EdgeCacheProofs --------------------------
(***************************************************************************)
(* Proofs about EdgeCache, for every number of colos, keys and requests,   *)
(* every height and every bound: why an answer below the settled line      *)
(* stays true, and why a purge takes all it is meant to take.              *)
(*                                                                         *)
(* A kept answer lies more than REORG_BOUND below the highest tip there    *)
(* ever was, and a reorg changes no row that deep: its walk back meets     *)
(* within MaxSteps of the higher of the two tips, and no tip stands more   *)
(* than MaxShorter below the highest.  That takes                          *)
(* MaxSteps + MaxShorter <= REORG_BOUND + 1, the hypothesis LineHolds of   *)
(* the first theorem; the second needs none.                               *)
(***************************************************************************)
EXTENDS EdgeCache, ProofFacts

LineHolds == MaxSteps + MaxShorter <= ReorgBound + 1

(* The parts of the inductive invariant. *)

StoreTypes ==
    /\ active \in [Height -> Version \cup {Hole}] /\ active[0] # Hole
    /\ peak \in Height /\ ceiling \in Height

\* No tip stands more than MaxShorter below the highest there was.
TipIsNearThePeak == Tip <= peak /\ peak <= Tip + MaxShorter

RequestTypes ==
    /\ request \in [Request -> Asking]
    /\ \A q \in Request : request[q].pc # "idle" => request[q].key \in Key /\ request[q].colo \in Colo

CacheTypes == cache \in [Colo -> [Key -> Entry \cup {None}]]

\* Of the rows below the line of its tip, a request holds what is active.
RequestsLast ==
    \A q \in Request :
        /\ request[q].tip <= peak
        /\ \A h \in DOMAIN request[q].rows :
              h \notin replaced /\ h + ReorgBound < request[q].tip => active[h] = request[q].rows[h]

\* A kept answer is whole, below the line of the highest tip, and active.
EntriesLast ==
    \A c \in Colo, k \in Key : cache[c][k] # None =>
        /\ DOMAIN cache[c][k].rows = k.from..k.to
        /\ k.to + ReorgBound < peak
        /\ \A h \in k.from..k.to : h \notin replaced => active[h] = cache[c][k].rows[h]

IInv ==
    /\ StoreTypes
    /\ TipIsNearThePeak
    /\ RequestTypes
    /\ CacheTypes
    /\ RequestsLast
    /\ EntriesLast

-----------------------------------------------------------------------------
(* The tip, the line and the keys.                                          *)

\* The highest height at which a table has a row.
LEMMA TopOfTable ==
    ASSUME NEW act \in [Height -> Version \cup {Hole}], act[0] # Hole,
           NEW top, top = Max({h \in Height : act[h] # Hole})
    PROVE  top \in Height /\ act[top] # Hole /\ \A h \in Height : act[h] # Hole => h <= top
<1> DEFINE S == {h \in Height : act[h] # Hole}
<1>1. MaxHeight \in Nat /\ S \in SUBSET (0..MaxHeight) /\ 0 \in S
  BY EdgeAssumption DEF Height
<1>2. Max(S) \in S /\ \A h \in S : h <= Max(S)
  BY <1>1, MaxOfBounded
<1>3. QED
  BY <1>2

LEMMA TipFacts ==
    ASSUME StoreTypes
    PROVE  /\ Tip \in Height /\ active[Tip] # Hole
           /\ \A h \in Height : active[h] # Hole => h <= Tip
  BY TopOfTable DEF StoreTypes, Tip

\* A table whose rows end at n has its tip there.
LEMMA TipIs ==
    ASSUME NEW act \in [Height -> Version \cup {Hole}], act[0] # Hole,
           NEW n \in Height, act[n] # Hole, \A h \in Height : h > n => act[h] = Hole
    PROVE  Max({h \in Height : act[h] # Hole}) = n
<1> DEFINE top == Max({h \in Height : act[h] # Hole})
<1>1. top \in Height /\ act[top] # Hole /\ n <= top
  BY TopOfTable
<1> HIDE DEF top
<1>2. top \in Nat /\ n \in Nat
  BY <1>1, EdgeAssumption DEF Height
<1>3. ~(top > n)
  BY <1>1
<1>4. QED
  BY <1>1, <1>2, <1>3 DEF top

LEMMA LineIsDeep == Line \in Nat /\ ReorgBound <= Line
  BY EdgeAssumption, MaxOfTwo DEF Line

LEMMA KeyHeights ==
    ASSUME NEW k \in Key
    PROVE  k.from \in Height /\ k.to \in Height /\ k.from..k.to \subseteq Height
<1>1. k \in Keys
  BY EdgeAssumption
<1>2. k.from \in Height /\ k.to \in Height
  BY <1>1 DEF Keys, HeightKey, HashKey, RootKey, RangeKey
<1>3. QED
  BY <1>2, EdgeAssumption DEF Height

LEMMA IdleFacts ==
    Idle \in Asking /\ Idle.tip = 0 /\ Idle.rows = [h \in {} |-> Hole] /\ Idle.pc = "idle"
<1>1. [h \in {} |-> Hole] \in [{} -> Version]
  OBVIOUS
<1>2. [h \in {} |-> Hole] \in Rows
  BY <1>1 DEF Rows
<1>3. 0 \in Height
  BY EdgeAssumption DEF Height
<1>4. QED
  BY <1>2, <1>3 DEF Idle, Asking

LEMMA InitIInv == Init => IInv
<1> SUFFICES ASSUME Init PROVE IInv
  OBVIOUS
<1>1. StoreTypes
  <2>1. active \in [Height -> Version \cup {Hole}] /\ active[0] # Hole
    BY EdgeAssumption DEF Init, Height, Version, Hole
  <2>2. Tip \in Height
    BY <2>1, TopOfTable DEF Tip
  <2>3. QED
    BY <2>1, <2>2, EdgeAssumption DEF Init, StoreTypes, Height
<1>2. TipIsNearThePeak
  BY <1>1, TipFacts, EdgeAssumption DEF Init, TipIsNearThePeak, Height
<1>3. Idle \in Asking /\ Idle.tip = 0 /\ Idle.rows = [h \in {} |-> Hole] /\ Idle.pc = "idle"
  BY IdleFacts
<1>4. RequestTypes
  BY <1>3 DEF Init, RequestTypes
<1>5. CacheTypes /\ EntriesLast
  BY DEF Init, CacheTypes, EntriesLast
<1>6. RequestsLast
  <2>1. peak \in Nat
    BY <1>1, EdgeAssumption DEF StoreTypes, Height
  <2>2. QED
    BY <1>3, <2>1 DEF Init, RequestsLast
<1>7. QED
  BY <1>1, <1>2, <1>4, <1>5, <1>6 DEF IInv

-----------------------------------------------------------------------------
(* The writes of active rows.                                               *)

\* What a write leaves: the highest tip is kept, and so is every row below the
\* line of it that no activation replaced.
Keeping ==
    /\ StoreTypes' /\ TipIsNearThePeak'
    /\ peak <= peak'
    /\ replaced \subseteq replaced'
    /\ \A h \in Height : h \notin replaced' /\ h + ReorgBound < peak /\ active[h] # Hole
          => active'[h] = active[h]

LEMMA GrowKeeps ==
    ASSUME StoreTypes, TipIsNearThePeak, Grow PROVE Keeping
<1>1. /\ Tip \in Nat /\ peak \in Nat /\ MaxShorter \in Nat /\ MaxHeight \in Nat
      /\ Tip + 1 \in Height /\ \A h \in Height : h > Tip => active[h] = Hole
  BY TipFacts, EdgeAssumption DEF Grow, StoreTypes, Height
<1>2. active' = [active EXCEPT ![Tip + 1] = 1] /\ UNCHANGED <<ceiling, replaced>>
  BY DEF Grow, history
<1>3. active' \in [Height -> Version \cup {Hole}] /\ active'[0] # Hole
  BY <1>1, <1>2 DEF StoreTypes, Version, Hole
<1>4. Tip' = Tip + 1
  <2>1. active'[Tip + 1] # Hole /\ \A h \in Height : h > Tip + 1 => active'[h] = Hole
    BY <1>1, <1>2 DEF StoreTypes, Hole, Height
  <2>2. QED
    BY <1>1, <1>3, <2>1, TipIs DEF Tip
<1>5. peak' \in {peak, Tip + 1} /\ peak <= peak' /\ Tip + 1 <= peak'
  BY <1>1, MaxOfTwo DEF Grow
<1>6. StoreTypes' /\ TipIsNearThePeak'
  BY <1>1, <1>2, <1>3, <1>4, <1>5 DEF StoreTypes, TipIsNearThePeak
<1>7. QED
  BY <1>1, <1>2, <1>5, <1>6 DEF Keeping, StoreTypes

LEMMA FillKeeps ==
    ASSUME StoreTypes, TipIsNearThePeak, NEW g \in Height, Fill(g) PROVE Keeping
<1>1. /\ Tip \in Height /\ active[Tip] # Hole /\ peak \in Nat /\ g < Tip /\ active[g] = Hole
      /\ \A h \in Height : h \in Nat /\ (active[h] # Hole => h <= Tip)
  BY TipFacts, EdgeAssumption DEF Fill, StoreTypes, Height
<1>2. active' = [active EXCEPT ![g] = 1] /\ UNCHANGED <<ceiling, peak, replaced>>
  BY DEF Fill, history
<1>3. active' \in [Height -> Version \cup {Hole}] /\ active'[0] # Hole
  BY <1>1, <1>2 DEF StoreTypes, Version, Hole
<1>4. Tip' = Tip
  <2>1. active'[Tip] # Hole /\ \A h \in Height : h > Tip => active'[h] = Hole
    BY <1>1, <1>2 DEF StoreTypes
  <2>2. QED
    BY <1>1, <1>3, <2>1, TipIs DEF Tip
<1>5. QED
  BY <1>1, <1>2, <1>3, <1>4 DEF Keeping, StoreTypes, TipIsNearThePeak

LEMMA ReorgKeeps ==
    ASSUME LineHolds, StoreTypes, TipIsNearThePeak,
           NEW f \in Height, NEW n \in Height, Reorg(f, n)
    PROVE  Keeping
<1>1. /\ Tip \in Nat /\ peak \in Nat /\ MaxShorter \in Nat /\ MaxSteps \in Nat /\ ReorgBound \in Nat
      /\ f \in Nat /\ n \in Nat /\ f < n /\ n + MaxShorter >= peak /\ active[f] # Hole /\ f < Tip
      /\ \A h \in Height : h \in Nat /\ (h > Tip => active[h] = Hole)
  BY TipFacts, EdgeAssumption DEF Reorg, StoreTypes, Height
<1>2. /\ active' = [h \in Height |->
            IF h <= f THEN active[h] ELSE IF h > n THEN Hole
            ELSE IF active[h] = 1 THEN 2 ELSE 1]
      /\ UNCHANGED <<ceiling, replaced>>
  BY DEF Reorg, history
<1>3. 0 \in Height
  BY EdgeAssumption DEF Height
<1>4. active' \in [Height -> Version \cup {Hole}] /\ active'[0] # Hole
  BY <1>1, <1>2, <1>3 DEF StoreTypes, Version, Hole
<1>5. Tip' = n
  <2>1. active'[n] # Hole /\ \A h \in Height : h > n => active'[h] = Hole
    BY <1>1, <1>2 DEF Hole
  <2>2. QED
    BY <1>4, <2>1, TipIs DEF Tip
<1>6. peak' \in {peak, n} /\ peak <= peak' /\ n <= peak'
  BY <1>1, MaxOfTwo DEF Reorg
<1>7. StoreTypes' /\ TipIsNearThePeak'
  BY <1>1, <1>2, <1>4, <1>5, <1>6 DEF StoreTypes, TipIsNearThePeak
\* The walk back meets no deeper than MaxSteps below the higher tip.
<1>8. peak <= f + ReorgBound + 1
  <2>1. PICK m \in {Tip, n} : m = Max({Tip, n}) /\ Tip <= m /\ n <= m
    BY <1>1, MaxOfTwo
  <2>2. m - f <= MaxSteps
    BY <2>1 DEF Reorg
  <2>3. QED
    BY <1>1, <2>1, <2>2 DEF LineHolds
<1>9. ASSUME NEW h \in Height, h + ReorgBound < peak PROVE active'[h] = active[h]
  <2>1. h <= f
    BY <1>1, <1>8, <1>9
  <2>2. QED
    BY <1>2, <2>1
<1>10. QED
  BY <1>2, <1>6, <1>7, <1>9 DEF Keeping

LEMMA ActivationKeeps ==
    ASSUME StoreTypes, TipIsNearThePeak, NEW from \in Height, NEW to \in Height, Activation(from, to)
    PROVE  Keeping
<1>1. /\ Tip \in Height /\ active[Tip] # Hole /\ peak \in Nat /\ from > 0
      /\ \A h \in Height : h \in Nat /\ (active[h] # Hole => h <= Tip)
  BY TipFacts, EdgeAssumption DEF Activation, StoreTypes, Height
<1>2. /\ active' = [h \in Height |-> IF h \in from..to THEN 3 - active[h] ELSE active[h]]
      /\ replaced' = replaced \cup (from..to)
      /\ UNCHANGED <<ceiling, peak>>
      /\ \A h \in from..to : active[h] # Hole
  BY DEF Activation
<1>3. ASSUME NEW h \in Height
      PROVE  active'[h] \in Version \cup {Hole} /\ (active'[h] = Hole <=> active[h] = Hole)
  BY <1>2 DEF StoreTypes, Version, Hole
<1>4. active' \in [Height -> Version \cup {Hole}] /\ active'[0] # Hole
  <2>1. 0 \in Height
    BY EdgeAssumption DEF Height
  <2>2. QED
    BY <1>2, <1>3, <2>1 DEF StoreTypes
<1>5. Tip' = Tip
  <2>1. active'[Tip] # Hole /\ \A h \in Height : h > Tip => active'[h] = Hole
    BY <1>1, <1>3
  <2>2. QED
    BY <1>1, <1>4, <2>1, TipIs DEF Tip
<1>6. QED
  BY <1>1, <1>2, <1>4, <1>5 DEF Keeping, StoreTypes, TipIsNearThePeak

-----------------------------------------------------------------------------
(* The caches and the requests.                                             *)

\* No entry is put, though some may go.
CacheShrinks ==
    /\ CacheTypes'
    /\ \A c \in Colo, k \in Key : cache'[c][k] # None =>
          cache[c][k] # None /\ cache'[c][k].rows = cache[c][k].rows

LEMMA EntryTypes ==
    ASSUME CacheTypes, NEW c \in Colo, NEW k \in Key, cache[c][k] # None
    PROVE  cache[c][k] \in Entry
BY DEF CacheTypes

\* A row of a partial table is a version.
LEMMA RowTypes ==
    ASSUME NEW rows \in Rows
    PROVE  DOMAIN rows \subseteq Height /\ \A h \in DOMAIN rows : rows[h] \in Version /\ rows[h] # Hole
BY DEF Rows, Version, Hole

LEMMA KeepingStep ==
    ASSUME IInv, Keeping, request' = request, CacheShrinks PROVE IInv'
<1>1. RequestTypes' /\ CacheTypes'
  BY DEF IInv, RequestTypes, CacheShrinks
<1>2. \A h \in Height : h \in Nat
  BY EdgeAssumption DEF Height
<1>3. peak \in Nat /\ peak' \in Nat /\ ReorgBound \in Nat
  BY <1>2, EdgeAssumption DEF IInv, StoreTypes, Keeping
<1>4. RequestsLast'
  <2>1. ASSUME NEW q \in Request
        PROVE  /\ request[q].tip <= peak'
               /\ \A h \in DOMAIN request[q].rows :
                     h \notin replaced' /\ h + ReorgBound < request[q].tip
                       => active'[h] = request[q].rows[h]
    <3>1. request[q].tip \in Nat /\ request[q].rows \in Rows /\ request[q].tip <= peak
      BY <1>2 DEF IInv, RequestTypes, Asking, RequestsLast
    <3>2. ASSUME NEW h \in DOMAIN request[q].rows,
                 h \notin replaced', h + ReorgBound < request[q].tip
          PROVE  active'[h] = request[q].rows[h]
      <4>1. h \in Height /\ h \in Nat /\ request[q].rows[h] # Hole
        BY <1>2, <3>1, RowTypes
      <4>2. active[h] = request[q].rows[h]
        BY <3>2 DEF IInv, RequestsLast, Keeping
      <4>3. h + ReorgBound < peak
        BY <1>3, <3>1, <3>2, <4>1
      <4>4. QED
        BY <3>2, <4>1, <4>2, <4>3 DEF Keeping
    <3>3. request[q].tip <= peak'
      BY <1>3, <3>1 DEF Keeping
    <3>4. QED
      BY <3>2, <3>3
  <2>2. QED
    BY <2>1 DEF RequestsLast
<1>5. EntriesLast'
  <2>1. ASSUME NEW c \in Colo, NEW k \in Key, cache'[c][k] # None
        PROVE  /\ DOMAIN cache'[c][k].rows = k.from..k.to
               /\ k.to + ReorgBound < peak'
               /\ \A h \in k.from..k.to : h \notin replaced' => active'[h] = cache'[c][k].rows[h]
    <3>1. cache[c][k] # None /\ cache'[c][k].rows = cache[c][k].rows
      BY <2>1 DEF CacheShrinks
    <3>2. /\ DOMAIN cache[c][k].rows = k.from..k.to
          /\ k.to + ReorgBound < peak
          /\ \A h \in k.from..k.to : h \notin replaced => active[h] = cache[c][k].rows[h]
      BY <3>1 DEF IInv, EntriesLast
    <3>3. cache[c][k].rows \in Rows
      BY <3>1, EntryTypes DEF IInv, Entry
    <3>4. ASSUME NEW h \in k.from..k.to, h \notin replaced' PROVE active'[h] = cache[c][k].rows[h]
      <4>1. h \in Height /\ h <= k.to /\ h \in Nat /\ k.to \in Nat
        BY <1>2, KeyHeights
      <4>2. cache[c][k].rows[h] # Hole /\ active[h] = cache[c][k].rows[h]
        BY <3>2, <3>3, <3>4, RowTypes DEF Keeping
      <4>3. h + ReorgBound < peak
        BY <1>3, <3>2, <4>1
      <4>4. QED
        BY <3>4, <4>1, <4>2, <4>3 DEF Keeping
    <3>5. k.to + ReorgBound < peak'
      BY <1>2, <1>3, <3>2, KeyHeights DEF Keeping
    <3>6. QED
      BY <3>1, <3>2, <3>4, <3>5
  <2>2. QED
    BY <2>1 DEF EntriesLast
<1>6. QED
  BY <1>1, <1>4, <1>5 DEF IInv, Keeping

LEMMA NoWriteKeeps ==
    ASSUME IInv, UNCHANGED <<active, peak, replaced>>, ceiling' \in Height PROVE Keeping
<1>1. peak \in Nat
  BY EdgeAssumption DEF IInv, StoreTypes, Height
<1>2. QED
  BY <1>1 DEF IInv, StoreTypes, TipIsNearThePeak, Tip, Keeping

LEMMA SameCacheShrinks ==
    ASSUME IInv, cache' = cache PROVE CacheShrinks
BY DEF IInv, CacheTypes, CacheShrinks

LEMMA BeginPurgeShrinks ==
    ASSUME IInv, NEW c \in Colo, NEW heights, NEW rows, NEW zone, BeginPurge(c, heights, rows, zone)
    PROVE  CacheShrinks
<1>1. \A e \in Entry : [e EXCEPT !.old = TRUE] \in Entry /\ [e EXCEPT !.old = TRUE].rows = e.rows
  BY DEF Entry
<1>2. cache' = [d \in Colo |-> [k \in Key |->
         IF cache[d][k] = None THEN None ELSE [cache[d][k] EXCEPT !.old = TRUE]]]
  BY DEF BeginPurge
<1>3. ASSUME NEW d \in Colo, NEW k \in Key
      PROVE  /\ cache'[d][k] \in Entry \cup {None}
             /\ cache'[d][k] # None => cache[d][k] # None /\ cache'[d][k].rows = cache[d][k].rows
  <2>1. cache[d][k] = None \/ cache[d][k] \in Entry
    BY DEF IInv, CacheTypes
  <2>2. cache'[d][k] = IF cache[d][k] = None THEN None ELSE [cache[d][k] EXCEPT !.old = TRUE]
    BY <1>2
  <2>3. QED
    BY <1>1, <2>1, <2>2
<1>4. cache' \in [Colo -> [Key -> Entry \cup {None}]]
  BY <1>2, <1>3
<1>5. QED
  BY <1>3, <1>4 DEF CacheTypes, CacheShrinks

LEMMA DeletionsShrink ==
    ASSUME IInv, DeleteLocally \/ SendBody \/ \E c \in Colo, k \in Key : Leave(c, k)
    PROVE  CacheShrinks
<1>1. /\ cache' \in [Colo -> [Key -> Entry \cup {None}]]
      /\ \A c \in Colo, k \in Key : cache'[c][k] \in {cache[c][k], None}
  <2>1. CASE DeleteLocally
    BY <2>1 DEF DeleteLocally, Without, IInv, CacheTypes
  <2>2. CASE SendBody
    BY <2>2 DEF SendBody, Without, IInv, CacheTypes
  <2>3. CASE \E c \in Colo, k \in Key : Leave(c, k)
    BY <2>3 DEF Leave, IInv, CacheTypes
  <2>4. QED
    BY <2>1, <2>2, <2>3
<1>2. QED
  BY <1>1 DEF CacheTypes, CacheShrinks

LEMMA AskStep ==
    ASSUME IInv, NEW q \in Request, NEW c \in Colo, NEW k \in Key, Ask(q, c, k) PROVE IInv'
<1> DEFINE r == [Idle EXCEPT !.pc = "ceiling", !.colo = c, !.key = k,
                             !.tip = ServedTip, !.ceiling = ceiling]
<1>1. request' = [request EXCEPT ![q] = r] /\ UNCHANGED <<active, peak, ceiling, cache, replaced>>
  BY DEF Ask, store, history
<1>2. ServedTip \in Height /\ ServedTip <= peak /\ ceiling \in Height
  <2>1. Tip \in Nat /\ ceiling \in Nat /\ Tip \in Height /\ ceiling \in Height /\ peak \in Nat
    BY TipFacts, EdgeAssumption DEF IInv, StoreTypes, Height
  <2>2. ServedTip \in {Tip, ceiling} /\ ServedTip <= Tip
    BY <2>1, MinOfTwo DEF ServedTip
  <2>3. QED
    BY <2>1, <2>2 DEF IInv, TipIsNearThePeak
<1>3. /\ r \in Asking /\ r.tip = ServedTip /\ r.rows = [h \in {} |-> Hole]
      /\ r.key = k /\ r.colo = c
  BY <1>2, IdleFacts DEF Asking
<1> HIDE DEF r
<1>4. \A p \in Request : request'[p] = IF p = q THEN r ELSE request[p]
  BY <1>1 DEF IInv, RequestTypes
<1>5. RequestTypes'
  BY <1>1, <1>3, <1>4 DEF IInv, RequestTypes
<1>6. RequestsLast'
  BY <1>1, <1>2, <1>3, <1>4 DEF IInv, RequestsLast
<1>7. QED
  BY <1>1, <1>5, <1>6 DEF IInv, StoreTypes, TipIsNearThePeak, Tip, CacheTypes, EntriesLast

LEMMA ReadRowsStep ==
    ASSUME IInv, NEW q \in Request, ReadRows(q) PROVE IInv'
<1> DEFINE found == Answered(request[q])
           rows == [h \in found |-> active[h]]
           r == [request[q] EXCEPT !.pc = "rows", !.ceiling = 0, !.rows = rows]
<1>1. /\ request[q] \in Asking /\ request[q].key \in Key /\ request[q].colo \in Colo
      /\ 0 \in Height
  BY EdgeAssumption DEF IInv, RequestTypes, ReadRows, Height
<1>2. found \in SUBSET Height /\ \A h \in found : active[h] \in Version
  <2>1. \A h \in found : h \in Height /\ active[h] # Hole
    BY <1>1, KeyHeights DEF Answered
  <2>2. QED
    BY <2>1 DEF IInv, StoreTypes
<1>3. rows \in Rows
  <2>1. rows \in [found -> Version]
    BY <1>2
  <2>2. QED
    BY <1>2, <2>1 DEF Rows
<1>4. /\ r \in Asking /\ r.tip = request[q].tip /\ r.rows = rows
      /\ r.key = request[q].key /\ r.colo = request[q].colo
  BY <1>1, <1>3 DEF Asking
<1>5. request' = [request EXCEPT ![q] = r] /\ UNCHANGED <<active, peak, ceiling, cache, replaced>>
  BY DEF ReadRows, store, history, IInv, RequestTypes
<1> HIDE DEF r
<1>6. \A p \in Request : request'[p] = IF p = q THEN r ELSE request[p]
  BY <1>5 DEF IInv, RequestTypes
<1>7. RequestTypes'
  BY <1>1, <1>4, <1>5, <1>6 DEF IInv, RequestTypes
<1>8. RequestsLast'
  <2>1. \A h \in DOMAIN r.rows : active[h] = r.rows[h]
    BY <1>4
  <2>2. request[q].tip <= peak
    BY DEF IInv, RequestsLast
  <2>3. QED
    BY <1>4, <1>5, <1>6, <2>1, <2>2 DEF IInv, RequestsLast
<1>9. QED
  BY <1>5, <1>7, <1>8 DEF IInv, StoreTypes, TipIsNearThePeak, Tip, CacheTypes, EntriesLast

LEMMA AnswerStep ==
    ASSUME IInv, NEW q \in Request, Answer(q) PROVE IInv'
<1> DEFINE r == request[q]
           e == [rows |-> r.rows, old |-> FALSE]
<1>1. r \in Asking /\ r.key \in Key /\ r.colo \in Colo
  BY DEF IInv, RequestTypes, Answer
<1>2. request' = [request EXCEPT ![q] = Idle] /\ UNCHANGED <<active, peak, ceiling, replaced>>
  BY DEF Answer, store, history
<1>3. RequestTypes' /\ RequestsLast'
  <2>1. peak \in Nat
    BY EdgeAssumption DEF IInv, StoreTypes, Height
  <2>2. \A p \in Request : request'[p] = IF p = q THEN Idle ELSE request[p]
    BY <1>2 DEF IInv, RequestTypes
  <2>3. RequestTypes'
    BY <1>2, <2>2, IdleFacts DEF IInv, RequestTypes
  <2>4. RequestsLast'
    BY <1>2, <2>1, <2>2, IdleFacts DEF IInv, RequestsLast
  <2>5. QED
    BY <2>3, <2>4
<1>4. CASE ~Keeps(r)
  <2>1. cache' = cache
    BY <1>4 DEF Answer
  <2>2. QED
    BY <1>2, <1>3, <2>1 DEF IInv, StoreTypes, TipIsNearThePeak, Tip, CacheTypes, EntriesLast
<1>5. CASE Keeps(r)
  <2>1. cache' = [cache EXCEPT ![r.colo][r.key] = e]
    BY <1>5 DEF Answer
  <2>2. e \in Entry /\ e.rows = r.rows
    BY <1>1 DEF Entry, Asking
  <2>3. \A c \in Colo, k \in Key :
           cache'[c][k] = IF c = r.colo /\ k = r.key THEN e ELSE cache[c][k]
    BY <1>1, <2>1 DEF IInv, CacheTypes
  <2>4. CacheTypes'
    BY <1>1, <2>1, <2>2 DEF IInv, CacheTypes
  <2>5. /\ r.tip \in Nat /\ peak \in Nat /\ ReorgBound \in Nat /\ r.key.to \in Nat
        /\ Line \in Nat /\ ReorgBound <= Line
    BY <1>1, KeyHeights, LineIsDeep, EdgeAssumption DEF IInv, StoreTypes, Height, Asking
  <2>6. r.key.to + ReorgBound < r.tip /\ r.tip <= peak /\ DOMAIN r.rows = r.key.from..r.key.to
    BY <1>5, <2>5 DEF Keeps, Settled, IInv, RequestsLast
  <2>7. ASSUME NEW h \in r.key.from..r.key.to, h \notin replaced PROVE active[h] = r.rows[h]
    <3>1. h \in Nat /\ h <= r.key.to
      BY <1>1, KeyHeights, EdgeAssumption DEF Height
    <3>2. h + ReorgBound < r.tip
      BY <2>5, <2>6, <3>1
    <3>3. QED
      BY <2>6, <2>7, <3>2 DEF IInv, RequestsLast
  <2>8. r.key.to + ReorgBound < peak
    BY <2>5, <2>6
  <2>9. EntriesLast'
    <3> HIDE DEF e, r
    <3>1. QED
      BY <1>2, <2>2, <2>3, <2>6, <2>7, <2>8 DEF IInv, EntriesLast
  <2>10. QED
    BY <1>2, <1>3, <2>4, <2>9 DEF IInv, StoreTypes, TipIsNearThePeak, Tip
<1>6. QED
  BY <1>4, <1>5

LEMMA IInvStep == ASSUME LineHolds, IInv, [Next]_vars PROVE IInv'
<1>0. StoreTypes /\ TipIsNearThePeak /\ ceiling \in Height
  BY DEF IInv, StoreTypes
<1>1. CASE UNCHANGED <<active, peak, ceiling, request, cache, replaced>>
  BY <1>0, <1>1, NoWriteKeeps, SameCacheShrinks, KeepingStep
<1>2. ASSUME NEW q \in Request, NEW c \in Colo, NEW k \in Key, Ask(q, c, k) PROVE IInv'
  BY <1>2, AskStep
<1>3. ASSUME NEW q \in Request, ReadRows(q) \/ Answer(q) PROVE IInv'
  BY <1>3, ReadRowsStep, AnswerStep
<1>4. CASE DeleteLocally \/ SendBody \/ \E c \in Colo, k \in Key : Leave(c, k)
  <2>1. UNCHANGED <<active, peak, ceiling, request, replaced>>
    BY <1>4 DEF DeleteLocally, SendBody, Leave, store, history
  <2>2. QED
    BY <1>0, <1>4, <2>1, NoWriteKeeps, DeletionsShrink, KeepingStep
<1>5. CASE Grow
  BY <1>0, <1>5, GrowKeeps, SameCacheShrinks, KeepingStep DEF Grow
<1>6. CASE Restart \/ Revalidate
  <2>1. ceiling' \in Height /\ UNCHANGED <<active, peak, request, cache, replaced>>
    <3>1. 0 \in Height /\ Stops \subseteq Height
      BY EdgeAssumption DEF Height
    <3>2. QED
      BY <1>6, <3>1 DEF Restart, Revalidate, history
  <2>2. QED
    BY <2>1, NoWriteKeeps, SameCacheShrinks, KeepingStep
<1>7. ASSUME NEW h \in Height, Fill(h) PROVE IInv'
  BY <1>0, <1>7, FillKeeps, SameCacheShrinks, KeepingStep DEF Fill
<1>8. ASSUME NEW f \in Height, NEW n \in Height, Reorg(f, n) PROVE IInv'
  BY <1>0, <1>8, ReorgKeeps, SameCacheShrinks, KeepingStep DEF Reorg
<1>9. \A s \in Spans : s[1] \in Height /\ s[2] \in Height
  BY EdgeAssumption
<1>10. ASSUME NEW s \in Spans, Heal(s[1], s[2]) PROVE IInv'
  BY <1>0, <1>9, <1>10, ActivationKeeps, SameCacheShrinks, KeepingStep DEF Heal, Activation
<1>11. ASSUME NEW c \in Colo, NEW s \in Spans, NEW zone \in BOOLEAN, AdminIngest(c, s[1], s[2], zone)
       PROVE  IInv'
  <2>1. Activation(s[1], s[2]) /\ request' = request
    BY <1>11 DEF AdminIngest, Activation
  <2>2. CacheShrinks
    BY <1>11, BeginPurgeShrinks DEF AdminIngest
  <2>3. QED
    BY <1>0, <1>9, <2>1, <2>2, ActivationKeeps, KeepingStep
<1>12. ASSUME NEW c \in Colo, NEW s \in Spans, NEW zone \in BOOLEAN,
              AdminEdgePurge(c, s[1], s[2], zone)
       PROVE  IInv'
  <2>1. UNCHANGED <<active, peak, ceiling, request, replaced>>
    BY <1>12 DEF AdminEdgePurge, store, history
  <2>2. CacheShrinks
    BY <1>12, BeginPurgeShrinks DEF AdminEdgePurge
  <2>3. QED
    BY <1>0, <2>1, <2>2, NoWriteKeeps, KeepingStep
<1>13. CASE CutPurge \/ UNCHANGED vars
  BY <1>1, <1>13 DEF CutPurge, vars, store, history
<1>14. QED
  BY <1>2, <1>3, <1>4, <1>5, <1>6, <1>7, <1>8, <1>10, <1>11, <1>12, <1>13 DEF Next

\* Neither a reorg, nor a hole that is filled, nor growth ever makes a kept
\* answer untrue, for every store, line and number of requests under way: only
\* an activation of other rows does (edge.rs: below the line is outside every
\* reorg).
THEOREM OnlyActivationsOverturn ==
    ASSUME LineHolds PROVE Spec => []OnlyAnActivationOverturns
<1>1. IInv /\ [Next]_vars => IInv'
  BY IInvStep
<1>2. IInv => OnlyAnActivationOverturns
  <2> SUFFICES ASSUME IInv, NEW c \in Colo, NEW k \in Key, NEW h \in Untrue(c, k), h \notin replaced
               PROVE  FALSE
    BY DEF OnlyAnActivationOverturns
  <2>1. cache[c][k] # None /\ h \in k.from..k.to /\ Says(cache[c][k], h) # active[h]
    BY DEF Untrue
  <2>2. h \in DOMAIN cache[c][k].rows /\ active[h] = cache[c][k].rows[h]
    BY <2>1 DEF IInv, EntriesLast
  <2>3. QED
    BY <2>1, <2>2 DEF Says
<1>3. QED
  BY InitIInv, <1>1, <1>2, PTL DEF Spec

-----------------------------------------------------------------------------
(* The tags of a purge and the bodies that carry them.                      *)

LEMMA OrderCovers ==
    ASSUME NEW S \in SUBSET Nat, IsFiniteSet(S)
    PROVE  InOrder(S) \in Seq(S) /\ \A x \in S : \E i \in 1 .. Len(InOrder(S)) : InOrder(S)[i] = x
<1>1. \E q \in SetToSeqs(S) : \A i, j \in DOMAIN q : i < j => q[i] < q[j]
  BY SortedExists DEF Sorted
<1>2. InOrder(S) \in SetToSeqs(S)
  BY <1>1 DEF InOrder
<1>3. QED
  BY <1>2, SortedCovers

LEMMA HeightsAreFinite ==
    ASSUME NEW H \in SUBSET Height
    PROVE  /\ H \subseteq Nat /\ IsFiniteSet(H)
           /\ {h \div Bucket : h \in H} \subseteq Nat /\ IsFiniteSet({h \div Bucket : h \in H})
<1>1. MaxHeight \in Nat /\ Bucket \in Nat \ {0}
  BY EdgeAssumption
<1>2. IsFiniteSet(Height) /\ Height \subseteq Nat
  BY <1>1, FS_Interval DEF Height
<1>3. H \subseteq Nat /\ IsFiniteSet(H)
  BY <1>2, FS_Subset
<1>4. \A h \in Nat, b \in Nat \ {0} : h \div b \in Nat
  OBVIOUS
<1>5. {h \div Bucket : h \in H} \subseteq Nat
  BY <1>1, <1>3, <1>4
<1>6. IsFiniteSet({h \div Bucket : h \in H})
  <2> DEFINE f == [h \in H |-> h \div Bucket]
  <2>1. {h \div Bucket : h \in H} = {f[h] : h \in H}
    OBVIOUS
  <2>2. f \in Surjection(H, {h \div Bucket : h \in H})
    BY DEF Surjection
  <2>3. QED
    BY <1>3, <2>2, FS_Surjection
<1>7. QED
  BY <1>3, <1>5, <1>6

LEMMA TagsOfAPurge ==
    ASSUME NEW H \in SUBSET Height
    PROVE  /\ PurgeTags(H) \in Seq(TagNames)
           /\ \A h \in H : \E j \in 1 .. Len(PurgeTags(H)) : PurgeTags(H)[j] = BucketTag(h)
<1> DEFINE B == {h \div Bucket : h \in H}
           hs == InOrder(H)
           bs == InOrder(B)
           s == [i \in DOMAIN hs |-> HeightTag(hs[i])]
           t == [i \in DOMAIN bs |-> <<"hb", bs[i]>>]
<1>1. H \subseteq Nat /\ IsFiniteSet(H) /\ B \subseteq Nat /\ IsFiniteSet(B)
  BY HeightsAreFinite
<1>2. /\ hs \in Seq(H) /\ bs \in Seq(B)
      /\ \A x \in B : \E i \in 1 .. Len(bs) : bs[i] = x
  <2> HIDE DEF B
  <2>1. QED
    BY <1>1, OrderCovers
<1>3. PurgeTags(H) = s \o t
  BY DEF PurgeTags, HeightTags
<1>4. \A h \in H : h \div Bucket \in B /\ BucketTag(h) = <<"hb", h \div Bucket>>
  BY DEF BucketTag
<1> HIDE DEF hs, bs, B
<1>5. s \in Seq(TagNames) /\ t \in Seq(TagNames) /\ Len(t) = Len(bs) /\ Len(s) \in Nat
      /\ \A i \in 1 .. Len(bs) : t[i] = <<"hb", bs[i]>>
  <2>1. DOMAIN hs = 1 .. Len(hs) /\ DOMAIN bs = 1 .. Len(bs) /\ Len(hs) \in Nat /\ Len(bs) \in Nat
    BY <1>2
  <2>2. \A i \in 1 .. Len(hs) : hs[i] \in Nat
    <3>1. \A i \in 1 .. Len(hs) : hs[i] \in H
      BY <1>2
    <3>2. QED
      BY <1>1, <3>1
  <2>3. \A i \in 1 .. Len(bs) : bs[i] \in Nat
    <3>1. \A i \in 1 .. Len(bs) : bs[i] \in B
      BY <1>2
    <3>2. QED
      BY <1>1, <3>1
  <2>4. s \in [1 .. Len(hs) -> TagNames] /\ t \in [1 .. Len(bs) -> TagNames]
    BY <2>1, <2>2, <2>3 DEF HeightTag, TagNames
  <2>5. s \in Seq(TagNames) /\ t \in Seq(TagNames) /\ Len(t) = Len(bs)
    BY <2>1, <2>4
  <2>6. QED
    BY <2>1, <2>5
<1> HIDE DEF s, t
<1>6. s \o t \in Seq(TagNames) /\ Len(s \o t) = Len(s) + Len(t)
      /\ \A i \in 1 .. Len(t) : (s \o t)[Len(s) + i] = t[i] /\ Len(s) + i \in 1 .. Len(s \o t)
  <2>1. \A a, b \in Seq(TagNames) :
           /\ a \o b \in Seq(TagNames) /\ Len(a \o b) = Len(a) + Len(b)
           /\ \A i \in 1 .. Len(b) : (a \o b)[Len(a) + i] = b[i] /\ Len(a) + i \in 1 .. Len(a \o b)
    OBVIOUS
  <2>2. QED
    BY <1>5, <2>1
<1>7. ASSUME NEW h \in H PROVE \E j \in 1 .. Len(s \o t) : (s \o t)[j] = BucketTag(h)
  <2>1. PICK i \in 1 .. Len(bs) : bs[i] = h \div Bucket
    BY <1>2, <1>4
  <2>2. (s \o t)[Len(s) + i] = BucketTag(h) /\ Len(s) + i \in 1 .. Len(s \o t)
    BY <1>4, <1>5, <1>6, <2>1
  <2>3. QED
    BY <2>2
<1>8. QED
  BY <1>3, <1>6, <1>7

LEMMA CeilingOfParts ==
    ASSUME NEW n \in Nat, NEW b \in Nat \ {0}, NEW j \in 1 .. n
    PROVE  LET i == (j - 1) \div b + 1
           IN  i \in 1 .. ((n + b - 1) \div b) /\ (i - 1) * b + 1 <= j /\ j <= i * b
<1> DEFINE d == (n + b - 1) \div b
           r == (n + b - 1) % b
           q == (j - 1) \div b
           s == (j - 1) % b
<1>1. d \in Int /\ r \in 0 .. b - 1 /\ n + b - 1 = b * d + r
      /\ q \in Int /\ s \in 0 .. b - 1 /\ j - 1 = b * q + s /\ q \in Nat
  <2>1. n + b - 1 \in Nat /\ j - 1 \in Nat
    OBVIOUS
  <2>2. QED
    BY <2>1
<1> HIDE DEF d, r, q, s
<1>2. ~(q >= d)
  <2>1. \A x, y \in Int, c \in Nat : x >= y => c * x >= c * y
    OBVIOUS
  <2>2. q >= d => b * q >= b * d
    BY <1>1, <2>1
  <2>3. b * q \in Int /\ b * d \in Int
    BY <1>1
  <2>4. QED
    BY <1>1, <2>2, <2>3
<1>3. (q + 1) * b = b * q + b /\ ((q + 1) - 1) * b = b * q /\ b * q \in Int
  BY <1>1
<1>4. q + 1 \in 1 .. d /\ ((q + 1) - 1) * b + 1 <= j /\ j <= (q + 1) * b
  BY <1>1, <1>2, <1>3
<1>5. QED
  BY <1>4 DEF d, q

LEMMA BodiesCarryTags ==
    ASSUME NEW tags \in Seq(TagNames)
    PROVE  /\ PurgeBodies(tags) \in Seq(SUBSET TagNames)
           /\ \A j \in 1 .. Len(tags) :
                 \E i \in 1 .. Len(PurgeBodies(tags)) : tags[j] \in PurgeBodies(tags)[i]
<1> DEFINE n == Len(tags)
           d == (n + BodyTags - 1) \div BodyTags
           lo(i) == (i - 1) * BodyTags + 1
           hi(i) == Min({i * BodyTags, n})
           piece(i) == SubSeq(tags, lo(i), hi(i))
           bodies == [i \in 1 .. d |-> ToSet(piece(i))]
<1>1. n \in Nat /\ BodyTags \in Nat \ {0}
  BY EdgeAssumption
<1>2. PurgeBodies(tags) = bodies
  BY DEF PurgeBodies
<1>3. d \in Nat
  <2>1. \A m \in Nat, b \in Nat \ {0} : (m + b - 1) \div b \in Nat
    <3>1. ASSUME NEW m \in Nat, NEW b \in Nat \ {0} PROVE (m + b - 1) \div b \in Nat
      <4>1. m + b - 1 \in Nat
        OBVIOUS
      <4>2. QED
        BY <4>1
    <3>2. QED
      BY <3>1
  <2>2. QED
    BY <1>1, <2>1
<1>4. ASSUME NEW i \in 1 .. d
      PROVE  /\ lo(i) \in Nat \ {0} /\ i * BodyTags \in Nat
             /\ hi(i) \in {i * BodyTags, n} /\ hi(i) <= n
             /\ \A j \in 1 .. n : j <= i * BodyTags => j <= hi(i)
  <2>1. \A a, b \in Nat : a * b \in Nat
    OBVIOUS
  <2>2. i - 1 \in Nat /\ i \in Nat
    BY <1>3
  <2>3. lo(i) \in Nat \ {0} /\ i * BodyTags \in Nat
    BY <1>1, <2>1, <2>2
  <2>4. hi(i) \in {i * BodyTags, n} /\ hi(i) <= n
    <3> DEFINE x == i * BodyTags
    <3> HIDE DEF x, n
    <3>1. Min({x, n}) \in {x, n} /\ Min({x, n}) <= n
      BY <1>1, <2>3, MinOfTwo DEF x
    <3>2. QED
      BY <3>1 DEF x
  <2> DEFINE x == i * BodyTags
  <2> HIDE DEF x, hi, n
  <2>5. x \in Nat /\ hi(i) \in {x, n} /\ n \in Nat
    BY <1>1, <2>3, <2>4 DEF x
  <2>6. \A j \in 1 .. n : j <= x => j <= hi(i)
    BY <2>5
  <2>7. QED
    BY <2>3, <2>4, <2>6 DEF x
<1> HIDE DEF d, lo, hi, n
<1>5. ASSUME NEW i \in 1 .. d
      PROVE  /\ ToSet(piece(i)) \in SUBSET TagNames
             /\ \A j \in lo(i) .. hi(i) : tags[j] \in ToSet(piece(i))
  <2>1. lo(i) \in Nat \ {0} /\ hi(i) \in Nat /\ hi(i) <= Len(tags)
    BY <1>1, <1>4 DEF n
  <2>2. \A a \in Nat \ {0}, c \in Nat : c <= Len(tags) =>
           /\ SubSeq(tags, a, c) \in Seq(TagNames)
           /\ \A j \in a .. c : /\ j - a + 1 \in DOMAIN SubSeq(tags, a, c)
                                /\ SubSeq(tags, a, c)[j - a + 1] = tags[j]
    <3>1. ASSUME NEW a \in Nat \ {0}, NEW c \in Nat, c <= Len(tags)
          PROVE  /\ SubSeq(tags, a, c) \in Seq(TagNames)
                 /\ \A j \in a .. c : /\ j - a + 1 \in DOMAIN SubSeq(tags, a, c)
                                      /\ SubSeq(tags, a, c)[j - a + 1] = tags[j]
      <4>1. \A j \in a .. c : tags[j] \in TagNames
        BY <3>1
      <4>2. SubSeq(tags, a, c) = [k \in 1 .. (1 + c - a) |-> tags[k + a - 1]]
        BY SMT
      <4>3. \A j \in a .. c : j - a + 1 \in 1 .. (1 + c - a) /\ (j - a + 1) + a - 1 = j
        OBVIOUS
      <4>4. SubSeq(tags, a, c) \in Seq(TagNames)
        BY <3>1
      <4>5. QED
        BY <4>2, <4>3, <4>4
    <3>2. QED
      BY <3>1
  <2>3. /\ piece(i) \in Seq(TagNames)
        /\ \A j \in lo(i) .. hi(i) : /\ j - lo(i) + 1 \in DOMAIN piece(i)
                                     /\ piece(i)[j - lo(i) + 1] = tags[j]
    BY <2>1, <2>2
  <2> HIDE DEF piece
  <2>4. QED
    BY <2>3 DEF ToSet
<1>6. bodies \in Seq(SUBSET TagNames) /\ Len(bodies) = d /\ \A i \in 1 .. d : bodies[i] = ToSet(piece(i))
  <2> HIDE DEF piece
  <2>1. bodies \in [1 .. d -> SUBSET TagNames]
    BY <1>5
  <2>2. QED
    BY <1>3, <2>1
<1>7. ASSUME NEW j \in 1 .. n PROVE \E i \in 1 .. d : tags[j] \in ToSet(piece(i))
  <2>1. PICK i \in 1 .. d : lo(i) <= j /\ j <= i * BodyTags
    BY <1>1, CeilingOfParts DEF d, lo
  <2>2. j \in lo(i) .. hi(i)
    BY <1>1, <1>4, <2>1
  <2>3. QED
    BY <1>5, <2>2
<1>8. QED
  <2> HIDE DEF bodies, piece
  <2>1. QED
    BY <1>2, <1>6, <1>7 DEF n

\* Every key that speaks of one of the heights is named by one of the bodies.
AllNamed(bodies, heights) ==
    \A k \in Key : Covers(k, heights) => \E i \in 1 .. Len(bodies) : Tags(k) \cap bodies[i] # {}

LEMMA BodiesNameKeys ==
    ASSUME NEW H \in SUBSET Height
    PROVE  /\ PurgeBodies(PurgeTags(H)) \in Seq(SUBSET TagNames)
           /\ AllNamed(PurgeBodies(PurgeTags(H)), H)
<1> DEFINE tags == PurgeTags(H)
           bodies == PurgeBodies(tags)
<1>1. /\ tags \in Seq(TagNames)
      /\ \A h \in H : \E j \in 1 .. Len(tags) : tags[j] = BucketTag(h)
  BY TagsOfAPurge
<1> HIDE DEF tags
<1>2. /\ bodies \in Seq(SUBSET TagNames)
      /\ \A j \in 1 .. Len(tags) : \E i \in 1 .. Len(bodies) : tags[j] \in bodies[i]
  BY <1>1, BodiesCarryTags
<1> HIDE DEF bodies
<1>3. ASSUME NEW k \in Key, Covers(k, H) PROVE \E i \in 1 .. Len(bodies) : Tags(k) \cap bodies[i] # {}
  <2>1. PICK h \in H : h \in k.from .. k.to
    BY <1>3 DEF Covers
  <2>2. BucketTag(h) \in Tags(k)
    <3>1. k \in Keys
      BY EdgeAssumption
    <3>2. k.kind = "range" \/ (k.kind # "range" /\ k.from = k.to /\ k.from \in Height)
      BY <3>1 DEF Keys, HeightKey, HashKey, RootKey, RangeKey
    <3>3. k.from = k.to /\ k.from \in Height => h = k.from
      BY <2>1, EdgeAssumption DEF Height
    <3>4. QED
      BY <2>1, <3>2, <3>3 DEF Tags
  <2>3. PICK j \in 1 .. Len(tags) : tags[j] = BucketTag(h)
    BY <1>1
  <2>4. PICK i \in 1 .. Len(bodies) : tags[j] \in bodies[i]
    BY <1>2
  <2>5. QED
    BY <2>2, <2>3, <2>4
<1>4. QED
  BY <1>2, <1>3 DEF AllNamed, bodies, tags

-----------------------------------------------------------------------------
(* What a purge under way has still to take.                                *)

\* The fields of a request and of an entry.
Asked(r) == [pc : {"idle", "ceiling", "rows"}, colo : {r.colo}, key : {r.key}, tip : {r.tip},
             ceiling : {r.ceiling, 0}, rows : {r.rows}]
Kept(e) == [rows : {e.rows}, old : BOOLEAN]

\* A request by hash holds the row of that hash alone.
AsksByHash ==
    /\ request = [q \in Request |-> request[q]]
    /\ \A q \in Request :
          /\ request[q] \in Asked(request[q])
          /\ request[q].pc # "idle" => request[q].key \in Key /\ request[q].colo \in Colo
          /\ request[q].pc = "rows" /\ request[q].key.kind = "hash"
                => \A h \in DOMAIN request[q].rows : request[q].rows[h] = request[q].key.version

\* And so does a kept answer.
KeptByHash ==
    /\ cache = [c \in Colo |-> [k \in Key |-> cache[c][k]]]
    /\ \A c \in Colo, k \in Key : cache[c][k] # None =>
          /\ cache[c][k] \in Kept(cache[c][k])
          /\ k.kind = "hash" => cache[c][k].rows[k.from] = k.version

\* An answer from before the purge is named by a body that has not been sent.
LeftToTake ==
    \A c \in Colo, k \in Key :
        cache[c][k] # None /\ cache[c][k].old /\ Covers(k, purge.heights)
            => \E i \in 1 .. Len(purge.bodies) : Tags(k) \cap purge.bodies[i] # {}

UnderWay ==
    purge # None =>
        /\ purge \in Purging
        /\ \A r \in purge.rows : r[1] \in purge.heights
        /\ purge.pc = "local" => purge.bodies = <<>> \/ AllNamed(purge.bodies, purge.heights)
        /\ purge.pc = "zone" => purge.bodies # <<>> /\ (~purge.refused => LeftToTake)

VersionsStand == active \in [Height -> Version \cup {Hole}] /\ faults \in Nat

PurgeInv == VersionsStand /\ AsksByHash /\ KeptByHash /\ UnderWay

LEMMA InitPurgeInv == Init => PurgeInv
<1> SUFFICES ASSUME Init PROVE PurgeInv
  OBVIOUS
<1>1. AsksByHash
  BY DEF Init, AsksByHash, Asked, Idle
<1>2. KeptByHash
  BY DEF Init, KeptByHash
<1>3. UnderWay
  BY DEF Init, UnderWay
<1>4. VersionsStand
  BY DEF Init, VersionsStand, Version, Hole
<1>5. QED
  BY <1>1, <1>2, <1>3, <1>4 DEF PurgeInv

LEMMA AsksStep ==
    ASSUME PurgeInv, NEW q \in Request,
           ReadRows(q) \/ Answer(q) \/ \E c \in Colo, k \in Key : Ask(q, c, k)
    PROVE  AsksByHash'
<1>1. /\ request = [p \in Request |-> request[p]]
      /\ \A p \in Request :
          /\ request[p] \in Asked(request[p])
          /\ request[p].pc # "idle" => request[p].key \in Key /\ request[p].colo \in Colo
          /\ request[p].pc = "rows" /\ request[p].key.kind = "hash"
                => \A h \in DOMAIN request[p].rows : request[p].rows[h] = request[p].key.version
  BY DEF PurgeInv, AsksByHash
<1>2. ASSUME NEW r, request' = [request EXCEPT ![q] = r], r \in Asked(r),
             r.pc # "idle" => r.key \in Key /\ r.colo \in Colo,
             r.pc = "rows" /\ r.key.kind = "hash" => \A h \in DOMAIN r.rows : r.rows[h] = r.key.version
      PROVE  AsksByHash'
  <2>1. \A p \in Request : request'[p] = IF p = q THEN r ELSE request[p]
    BY <1>1, <1>2
  <2>2. request' = [p \in Request |-> request'[p]]
    BY <1>1, <1>2
  <2>3. QED
    BY <1>1, <1>2, <2>1, <2>2 DEF AsksByHash
<1>3. CASE Answer(q)
  <2>1. request' = [request EXCEPT ![q] = Idle] /\ Idle \in Asked(Idle) /\ Idle.pc = "idle"
    BY <1>3 DEF Answer, Idle, Asked
  <2>2. QED
    BY <1>2, <2>1
<1>4. CASE ReadRows(q)
  <2> DEFINE rows == [h \in Answered(request[q]) |-> active[h]]
             r == [request[q] EXCEPT !.pc = "rows", !.ceiling = 0, !.rows = rows]
  <2>1. request' = [request EXCEPT ![q] = r] /\ request[q].pc = "ceiling"
    BY <1>1, <1>4 DEF ReadRows
  <2>2. r \in Asked(r) /\ r.pc = "rows" /\ r.key = request[q].key /\ r.colo = request[q].colo /\ r.rows = rows
    <3> DEFINE x == request[q]
    <3>1. x \in Asked(x)
      BY <1>1
    <3>2. r = [x EXCEPT !.pc = "rows", !.ceiling = 0, !.rows = rows]
      OBVIOUS
    <3> HIDE DEF x, r, rows
    <3>3. r \in Asked(r) /\ r.pc = "rows" /\ r.key = x.key /\ r.colo = x.colo /\ r.rows = rows
      BY <3>1, <3>2 DEF Asked
    <3>4. QED
      BY <3>3 DEF x
  <2>3. r.key.kind = "hash" => \A h \in DOMAIN r.rows : r.rows[h] = r.key.version
    BY <2>2 DEF Answered
  <2> HIDE DEF r
  <2>4. r.key \in Key /\ r.colo \in Colo
    BY <1>1, <2>1, <2>2
  <2>5. QED
    BY <1>2, <2>1, <2>2, <2>3, <2>4
<1>5. CASE \E c \in Colo, k \in Key : Ask(q, c, k)
  <2>1. PICK c \in Colo, k \in Key : Ask(q, c, k)
    BY <1>5
  <2> DEFINE r == [Idle EXCEPT !.pc = "ceiling", !.colo = c, !.key = k,
                               !.tip = ServedTip, !.ceiling = ceiling]
  <2>2. request' = [request EXCEPT ![q] = r]
    BY <2>1 DEF Ask
  <2>3. r \in Asked(r) /\ r.pc = "ceiling" /\ r.key = k /\ r.colo = c
    BY DEF Asked, Idle
  <2> HIDE DEF r
  <2>4. QED
    BY <1>2, <2>2, <2>3
<1>6. QED
  BY <1>3, <1>4, <1>5

\* Entries may go; those that stay are as they were.
LEMMA EntriesGo ==
    ASSUME PurgeInv, cache' = [c \in Colo |-> [k \in Key |-> cache'[c][k]]],
           \A c \in Colo, k \in Key : cache'[c][k] \in {cache[c][k], None}
    PROVE  KeptByHash' /\ (LeftToTake /\ purge' = purge => LeftToTake')
<1>1. KeptByHash'
  BY DEF PurgeInv, KeptByHash
<1>2. ASSUME LeftToTake, purge' = purge PROVE LeftToTake'
  BY <1>2 DEF LeftToTake
<1>3. QED
  BY <1>1, <1>2

LEMMA AnswerKept ==
    ASSUME PurgeInv, NEW q \in Request, Answer(q)
    PROVE  KeptByHash' /\ UnderWay'
<1> DEFINE r == request[q]
           e == [rows |-> r.rows, old |-> FALSE]
<1>1. /\ r.pc = "rows" /\ r.key \in Key /\ r.colo \in Colo
      /\ r.key.kind = "hash" => \A h \in DOMAIN r.rows : r.rows[h] = r.key.version
      /\ purge' = purge
  BY DEF PurgeInv, AsksByHash, Answer
<1>2. CASE ~Keeps(r)
  BY <1>1, <1>2 DEF Answer, PurgeInv, KeptByHash, UnderWay, LeftToTake
<1>3. CASE Keeps(r)
  <2>1. cache' = [cache EXCEPT ![r.colo][r.key] = e]
    BY <1>3 DEF Answer
  <2>2. r.key.kind = "hash" => r.rows[r.key.from] = r.key.version
    <3>1. r.key.from \in Nat /\ r.key.to \in Nat /\ r.key.from <= r.key.to
      BY <1>1, KeyHeights, EdgeAssumption DEF Height
    <3>2. r.key.from \in DOMAIN r.rows
      BY <1>3, <3>1 DEF Keeps
    <3>3. QED
      BY <1>1, <3>2
  <2>3. e \in Kept(e) /\ e.rows = r.rows /\ e.old = FALSE
    BY DEF Kept
  <2> HIDE DEF e, r
  <2>4. cache = [c \in Colo |-> [k \in Key |-> cache[c][k]]]
    BY DEF PurgeInv, KeptByHash
  <2>5. \A c \in Colo, k \in Key :
           cache'[c][k] = IF c = r.colo /\ k = r.key THEN e ELSE cache[c][k]
    BY <1>1, <2>1, <2>4
  <2>6. cache' = [c \in Colo |-> [k \in Key |-> cache'[c][k]]]
    BY <1>1, <2>1, <2>4
  <2>7. KeptByHash'
    BY <2>2, <2>3, <2>5, <2>6 DEF PurgeInv, KeptByHash
  <2>8. LeftToTake => LeftToTake'
    BY <1>1, <2>3, <2>5 DEF LeftToTake
  <2>9. QED
    BY <1>1, <2>7, <2>8 DEF PurgeInv, UnderWay
<1>4. QED
  BY <1>2, <1>3

LEMMA BeginPurgeNames ==
    ASSUME PurgeInv, NEW c \in Colo, NEW H \in SUBSET Height,
           NEW rows \in SUBSET (Height \X (Version \cup {Hole})), NEW zone \in BOOLEAN,
           \A r \in rows : r[1] \in H, BeginPurge(c, H, rows, zone)
    PROVE  KeptByHash' /\ UnderWay'
<1>1. cache = [d \in Colo |-> [k \in Key |-> cache[d][k]]]
      /\ \A d \in Colo, k \in Key : cache[d][k] # None =>
          /\ cache[d][k] \in Kept(cache[d][k])
          /\ k.kind = "hash" => cache[d][k].rows[k.from] = k.version
  BY DEF PurgeInv, KeptByHash
<1>2. cache' = [d \in Colo |-> [k \in Key |->
         IF cache[d][k] = None THEN None ELSE [cache[d][k] EXCEPT !.old = TRUE]]]
  BY DEF BeginPurge
<1>3. \A e : e \in Kept(e) => [e EXCEPT !.old = TRUE].rows = e.rows
                            /\ [e EXCEPT !.old = TRUE] \in Kept([e EXCEPT !.old = TRUE])
  <2>1. ASSUME NEW e, e \in Kept(e)
        PROVE  [e EXCEPT !.old = TRUE].rows = e.rows
               /\ [e EXCEPT !.old = TRUE] \in Kept([e EXCEPT !.old = TRUE])
    BY <2>1 DEF Kept
  <2>2. QED
    BY <2>1
<1>4. KeptByHash'
  <2>1. ASSUME NEW d \in Colo, NEW k \in Key, cache'[d][k] # None
        PROVE  /\ cache'[d][k] \in Kept(cache'[d][k])
               /\ k.kind = "hash" => cache'[d][k].rows[k.from] = k.version
    <3>1. cache[d][k] # None /\ cache'[d][k] = [cache[d][k] EXCEPT !.old = TRUE]
      BY <1>2, <2>1
    <3>2. QED
      BY <1>1, <1>3, <3>1
  <2>2. cache' = [d \in Colo |-> [k \in Key |-> cache'[d][k]]]
    BY <1>2
  <2>3. QED
    BY <2>1, <2>2 DEF KeptByHash
<1>5. UnderWay'
  <2> DEFINE all == PurgeBodies(PurgeTags(H))
             bodies == IF zone THEN all ELSE <<>>
             p == [colo |-> c, pc |-> "local", heights |-> H, rows |-> rows,
                   bodies |-> bodies, refused |-> FALSE]
  <2>1. purge' = p
    BY DEF BeginPurge
  <2>2. all \in Seq(SUBSET TagNames) /\ AllNamed(all, H)
    BY BodiesNameKeys
  <2> HIDE DEF all
  <2>3. bodies \in Seq(SUBSET TagNames) /\ (bodies = <<>> \/ AllNamed(bodies, H))
    BY <2>2
  <2> HIDE DEF bodies
  <2>4. p \in Purging /\ p.colo = c /\ p.pc = "local" /\ p.heights = H /\ p.rows = rows /\ p.bodies = bodies
    BY <2>3 DEF Purging
  <2> HIDE DEF p
  <2>5. QED
    BY <2>1, <2>3, <2>4 DEF UnderWay
<1>6. QED
  BY <1>4, <1>5

LEMMA VersionsStep ==
    ASSUME PurgeInv, [Next]_vars PROVE VersionsStand'
<1>1. active \in [Height -> Version \cup {Hole}] /\ faults \in Nat
  BY DEF PurgeInv, VersionsStand
<1>2. \A from, to \in Height : Activation(from, to) => active' \in [Height -> Version \cup {Hole}]
  <2> SUFFICES ASSUME NEW from \in Height, NEW to \in Height, Activation(from, to)
               PROVE  active' \in [Height -> Version \cup {Hole}]
    OBVIOUS
  <2>1. \A h \in from..to : active[h] # Hole
    BY DEF Activation
  <2>2. active' = [h \in Height |-> IF h \in from..to THEN 3 - active[h] ELSE active[h]]
    BY DEF Activation
  <2>3. QED
    BY <1>1, <2>1, <2>2 DEF Version, Hole
<1>3. \A f, n \in Height : Reorg(f, n) => active' \in [Height -> Version \cup {Hole}]
  BY <1>1 DEF Reorg, Version, Hole
<1>4. Grow => active' \in [Height -> Version \cup {Hole}]
  <2>1. ASSUME NEW i PROVE [active EXCEPT ![i] = 1] \in [Height -> Version \cup {Hole}]
    <3>1. 1 \in Version \cup {Hole}
      BY DEF Version
    <3>2. [active EXCEPT ![i] = 1] = [h \in Height |-> IF h = i THEN 1 ELSE active[h]]
      BY <1>1
    <3>3. QED
      BY <1>1, <3>1, <3>2
  <2>2. QED
    BY <2>1 DEF Grow
<1>5. \A h \in Height : Fill(h) => active' \in [Height -> Version \cup {Hole}]
  BY <1>1 DEF Fill, Version, Hole
<1>6. \A s \in Spans : s[1] \in Height /\ s[2] \in Height
  BY EdgeAssumption
<1>7. \/ active' = active \/ Grow
      \/ \E h \in Height : Fill(h)
      \/ \E f, n \in Height : Reorg(f, n)
      \/ \E from, to \in Height : Activation(from, to)
  <2>1. CASE \E s \in Spans : Heal(s[1], s[2])
    BY <1>6, <2>1 DEF Heal
  <2>2. ASSUME NEW c \in Colo, NEW s \in Spans, NEW zone \in BOOLEAN,
               AdminIngest(c, s[1], s[2], zone) \/ AdminEdgePurge(c, s[1], s[2], zone)
        PROVE  active' = active \/ \E from, to \in Height : Activation(from, to)
    BY <1>6, <2>2 DEF AdminIngest, AdminEdgePurge, store
  <2>3. CASE \/ UNCHANGED vars \/ Restart \/ Revalidate \/ DeleteLocally \/ SendBody \/ CutPurge
             \/ \E c \in Colo, k \in Key : Leave(c, k)
             \/ \E q \in Request : ReadRows(q) \/ Answer(q)
             \/ \E q \in Request, c \in Colo, k \in Key : Ask(q, c, k)
    BY <2>3 DEF vars, store, Restart, Revalidate, DeleteLocally, SendBody, CutPurge, Leave,
       ReadRows, Answer, Ask
  <2>4. QED
    BY <2>1, <2>2, <2>3 DEF Next
<1>8. faults' \in {faults, faults + 1}
  BY DEF Next, vars, Grow, Fill, Reorg, Heal, Activation, AdminIngest, AdminEdgePurge, Restart,
     Revalidate, DeleteLocally, SendBody, CutPurge, Leave, ReadRows, Answer, Ask
<1>9. active' \in [Height -> Version \cup {Hole}]
  BY <1>1, <1>2, <1>3, <1>4, <1>5, <1>7
<1>10. QED
  BY <1>1, <1>8, <1>9 DEF VersionsStand

LEMMA DeleteLocallyStep ==
    ASSUME PurgeInv, DeleteLocally PROVE KeptByHash' /\ UnderWay'
<1>1. /\ purge # None /\ purge.pc = "local" /\ purge \in Purging
      /\ \A r \in purge.rows : r[1] \in purge.heights
      /\ purge.bodies = <<>> \/ AllNamed(purge.bodies, purge.heights)
  BY DEF DeleteLocally, PurgeInv, UnderWay
<1>2. /\ cache' = [c \in Colo |-> [k \in Key |-> cache'[c][k]]]
      /\ \A c \in Colo, k \in Key : cache'[c][k] \in {cache[c][k], None}
  BY DEF DeleteLocally, Without
<1>3. KeptByHash'
  BY <1>2, EntriesGo
<1>4. CASE purge.bodies = <<>>
  BY <1>3, <1>4 DEF DeleteLocally, UnderWay
<1>5. CASE purge.bodies # <<>>
  <2>1. purge' = [purge EXCEPT !.pc = "zone"]
    BY <1>5 DEF DeleteLocally
  <2>2. /\ purge' \in Purging /\ purge'.pc = "zone" /\ purge'.rows = purge.rows
        /\ purge'.heights = purge.heights /\ purge'.bodies = purge.bodies
    BY <1>1, <2>1 DEF Purging
  <2>3. LeftToTake'
    BY <1>1, <1>5, <2>2 DEF AllNamed, LeftToTake
  <2>4. UnderWay'
    BY <1>1, <1>5, <2>2, <2>3 DEF UnderWay
  <2>5. QED
    BY <1>3, <2>4
<1>6. QED
  BY <1>4, <1>5

LEMMA SendBodyCases ==
    ASSUME SendBody
    PROVE  /\ purge # None /\ purge.pc = "zone"
           /\ \/ /\ cache' = [c \in Colo |-> [k \in Key |->
                       IF Tags(k) \cap Head(purge.bodies) = {} THEN cache[c][k] ELSE None]]
                 /\ faults' = faults
                 /\ purge' = IF Len(purge.bodies) = 1 THEN None
                             ELSE [purge EXCEPT !.bodies = Tail(purge.bodies)]
              \/ /\ faults' = faults + 1 /\ cache' = cache
                 /\ purge' = IF Len(purge.bodies) = 1 THEN None
                             ELSE [purge EXCEPT !.bodies = Tail(purge.bodies), !.refused = TRUE]
  BY DEF SendBody, Without

\* One body sent: what it names is gone, and what is left is named by the rest.
LEMMA SendBodyStep ==
    ASSUME PurgeInv, SendBody
    PROVE  /\ KeptByHash' /\ UnderWay'
           /\ faults' = faults /\ purge' = None /\ ~purge.refused =>
                 \A c \in Colo, k \in Key :
                     cache'[c][k] # None /\ Covers(k, purge.heights) => ~cache'[c][k].old
<1>1. /\ purge # None /\ purge.pc = "zone" /\ purge \in Purging /\ purge.bodies # <<>>
      /\ \A r \in purge.rows : r[1] \in purge.heights
      /\ ~purge.refused => LeftToTake
      /\ faults \in Nat
  BY DEF SendBody, PurgeInv, UnderWay, VersionsStand
<1> DEFINE left == purge.bodies
<1>2. /\ left \in Seq(SUBSET TagNames) /\ Len(left) \in Nat \ {0} /\ Head(left) = left[1]
      /\ Tail(left) \in Seq(SUBSET TagNames) /\ Len(Tail(left)) = Len(left) - 1
      /\ \A i \in 1 .. Len(left) - 1 : Tail(left)[i] = left[i + 1]
  <2>1. \A q \in Seq(SUBSET TagNames) : q # <<>> =>
          /\ Len(q) \in Nat \ {0} /\ Head(q) = q[1]
          /\ Tail(q) \in Seq(SUBSET TagNames) /\ Len(Tail(q)) = Len(q) - 1
          /\ \A i \in 1 .. Len(q) - 1 : Tail(q)[i] = q[i + 1]
    OBVIOUS
  <2>2. left \in Seq(SUBSET TagNames)
    BY <1>1 DEF Purging
  <2>3. QED
    BY <1>1, <2>1, <2>2
<1> DEFINE Refuses == /\ faults' = faults + 1 /\ cache' = cache
                      /\ purge' = IF Len(purge.bodies) = 1 THEN None
                                  ELSE [purge EXCEPT !.bodies = Tail(purge.bodies), !.refused = TRUE]
           Accepts == /\ cache' = [c \in Colo |-> [k \in Key |->
                            IF Tags(k) \cap Head(purge.bodies) = {} THEN cache[c][k] ELSE None]]
                      /\ faults' = faults
                      /\ purge' = IF Len(purge.bodies) = 1 THEN None
                                  ELSE [purge EXCEPT !.bodies = Tail(purge.bodies)]
<1>3. CASE Refuses
  <2>1. /\ cache' = cache /\ faults' # faults
        /\ purge' = IF Len(left) = 1 THEN None ELSE [purge EXCEPT !.bodies = Tail(left), !.refused = TRUE]
    BY <1>1, <1>3
  <2>2. KeptByHash'
    BY <2>1 DEF PurgeInv, KeptByHash
  <2>3. CASE Len(left) = 1
    BY <2>1, <2>2, <2>3 DEF UnderWay
  <2>4. CASE Len(left) # 1
    <3>1. purge' = [purge EXCEPT !.bodies = Tail(left), !.refused = TRUE]
      BY <2>1, <2>4
    <3> HIDE DEF left
    <3>2. /\ purge' \in Purging /\ purge'.pc = "zone" /\ purge'.refused = TRUE
          /\ purge'.rows = purge.rows /\ purge'.heights = purge.heights /\ purge'.bodies = Tail(left)
      BY <1>1, <1>2, <3>1 DEF Purging
    <3>3. Tail(left) # <<>>
      <4>1. Len(Tail(left)) # 0
        BY <1>2, <2>4
      <4>2. \A q : q = <<>> => Len(q) = 0
        OBVIOUS
      <4>3. QED
        BY <4>1, <4>2
    <3>4. UnderWay'
      BY <1>1, <3>2, <3>3 DEF UnderWay
    <3>5. QED
      BY <2>1, <2>2, <3>4
  <2>5. QED
    BY <2>3, <2>4
<1>4. CASE Accepts
  <2>1. /\ cache' = [c \in Colo |-> [k \in Key |->
              IF Tags(k) \cap Head(left) = {} THEN cache[c][k] ELSE None]]
        /\ purge' = IF Len(left) = 1 THEN None ELSE [purge EXCEPT !.bodies = Tail(left)]
    BY <1>4
  <2>2. /\ cache' = [c \in Colo |-> [k \in Key |-> cache'[c][k]]]
        /\ \A c \in Colo, k \in Key :
              cache'[c][k] = IF Tags(k) \cap left[1] = {} THEN cache[c][k] ELSE None
    BY <1>2, <2>1
  <2>3. KeptByHash'
    BY <2>2, EntriesGo
  <2>4. ASSUME ~purge.refused, NEW c \in Colo, NEW k \in Key,
               cache'[c][k] # None, cache'[c][k].old, Covers(k, purge.heights)
        PROVE  \E i \in 1 .. Len(left) - 1 : Tags(k) \cap left[i + 1] # {}
    <3>1. cache[c][k] # None /\ cache[c][k].old /\ Tags(k) \cap left[1] = {}
      BY <2>2, <2>4
    <3>2. PICK i \in 1 .. Len(left) : Tags(k) \cap left[i] # {}
      BY <1>1, <2>4, <3>1 DEF LeftToTake
    <3>3. i # 1 /\ i \in Nat /\ (i - 1) + 1 = i
      BY <3>1, <3>2
    <3> HIDE DEF left
    <3>4. i - 1 \in 1 .. Len(left) - 1
      BY <1>2, <3>2, <3>3
    <3>5. QED
      BY <3>2, <3>3, <3>4
  <2>5. CASE Len(left) = 1
    <3>1. purge' = None /\ 1 .. Len(left) - 1 = {}
      <4> HIDE DEF left
      <4>1. purge' = None
        BY <2>1, <2>5
      <4>2. QED
        BY <2>5, <4>1
    <3>2. UnderWay'
      BY <3>1 DEF UnderWay
    <3>3. QED
      BY <2>3, <2>4, <3>1, <3>2
  <2>6. CASE Len(left) # 1
    <3>1. purge' = [purge EXCEPT !.bodies = Tail(left)]
      BY <2>1, <2>6
    <3> HIDE DEF left
    <3>2. /\ purge' \in Purging /\ purge'.pc = "zone" /\ purge'.refused = purge.refused
          /\ purge'.rows = purge.rows /\ purge'.heights = purge.heights /\ purge'.bodies = Tail(left)
      BY <1>1, <1>2, <3>1 DEF Purging
    <3>3. Tail(left) # <<>> /\ purge' # None
      <4>1. Len(Tail(left)) # 0
        BY <1>2, <2>6
      <4>2. \A q : q = <<>> => Len(q) = 0
        OBVIOUS
      <4>3. Tail(left) # <<>>
        BY <4>1, <4>2
      <4>4. QED
        BY <3>2, <4>3, NoneAssumption
    <3>4. ~purge'.refused => LeftToTake'
      <4>1. SUFFICES ASSUME ~purge.refused, NEW c \in Colo, NEW k \in Key,
                            cache'[c][k] # None, cache'[c][k].old, Covers(k, purge.heights)
                     PROVE  \E i \in 1 .. Len(Tail(left)) : Tags(k) \cap Tail(left)[i] # {}
        BY <3>2 DEF LeftToTake
      <4>2. QED
        BY <1>2, <2>4, <4>1
    <3>5. UnderWay'
      BY <1>1, <3>2, <3>3, <3>4 DEF UnderWay
    <3>6. QED
      BY <2>3, <3>3, <3>5
  <2>7. QED
    BY <2>5, <2>6
<1>5. QED
  BY <1>3, <1>4, SendBodyCases

LEMMA PurgeInvStep == ASSUME PurgeInv, [Next]_vars PROVE PurgeInv'
<1>1. VersionsStand'
  BY VersionsStep
<1>2. CASE UNCHANGED <<request, cache, purge>>
  BY <1>1, <1>2 DEF PurgeInv, AsksByHash, KeptByHash, UnderWay, LeftToTake
<1>3. CASE \E q \in Request : ReadRows(q) \/ Answer(q) \/ \E c \in Colo, k \in Key : Ask(q, c, k)
  <2>1. PICK q \in Request : ReadRows(q) \/ Answer(q) \/ \E c \in Colo, k \in Key : Ask(q, c, k)
    BY <1>3
  <2>2. AsksByHash'
    BY <2>1, AsksStep
  <2>3. ~Answer(q) => UNCHANGED <<cache, purge>>
    BY <2>1 DEF ReadRows, Ask
  <2>4. ~Answer(q) => KeptByHash' /\ UnderWay'
    BY <2>3 DEF PurgeInv, KeptByHash, UnderWay, LeftToTake
  <2>5. QED
    BY <1>1, <2>2, <2>4, AnswerKept DEF PurgeInv
<1>4. request' = request => AsksByHash'
  BY DEF PurgeInv, AsksByHash
<1>5. CASE \E c \in Colo, k \in Key : Leave(c, k)
  <2>1. /\ cache' = [c \in Colo |-> [k \in Key |-> cache'[c][k]]]
        /\ \A c \in Colo, k \in Key : cache'[c][k] \in {cache[c][k], None}
        /\ UNCHANGED <<request, purge>>
    <3>1. PICK c \in Colo, k \in Key : Leave(c, k)
      BY <1>5
    <3>2. cache = [d \in Colo |-> [j \in Key |-> cache[d][j]]]
      BY DEF PurgeInv, KeptByHash
    <3>3. cache' = [cache EXCEPT ![c][k] = None] /\ UNCHANGED <<request, purge>>
      BY <3>1 DEF Leave
    <3>4. \A d \in Colo, j \in Key : cache'[d][j] = IF d = c /\ j = k THEN None ELSE cache[d][j]
      BY <3>2, <3>3
    <3>5. cache' = [d \in Colo |-> [j \in Key |-> cache'[d][j]]]
      BY <3>2, <3>3
    <3>6. QED
      BY <3>3, <3>4, <3>5
  <2>2. KeptByHash' /\ (LeftToTake => LeftToTake')
    BY <2>1, EntriesGo
  <2>3. UnderWay'
    BY <2>1, <2>2 DEF PurgeInv, UnderWay
  <2>4. QED
    BY <1>1, <1>4, <2>1, <2>2, <2>3 DEF PurgeInv
<1>6. CASE DeleteLocally
  BY <1>1, <1>4, <1>6, DeleteLocallyStep DEF PurgeInv, DeleteLocally
<1>7. CASE SendBody
  BY <1>1, <1>4, <1>7, SendBodyStep DEF PurgeInv, SendBody
<1>8. CASE CutPurge
  BY <1>1, <1>8 DEF CutPurge, PurgeInv, AsksByHash, KeptByHash, UnderWay
<1>9. ASSUME NEW c \in Colo, NEW s \in Spans, NEW zone \in BOOLEAN,
             AdminIngest(c, s[1], s[2], zone) \/ AdminEdgePurge(c, s[1], s[2], zone)
      PROVE  PurgeInv'
  <2> DEFINE H == s[1] .. s[2]
             withdrawn == {<<h, active[h]>> : h \in H}
  <2>1. H \subseteq Height
    BY EdgeAssumption DEF Height
  <2>2. withdrawn \in SUBSET (Height \X (Version \cup {Hole})) /\ \A r \in withdrawn : r[1] \in H
    BY <2>1 DEF PurgeInv, VersionsStand
  <2>3. H \X Version \in SUBSET (Height \X (Version \cup {Hole})) /\ \A r \in H \X Version : r[1] \in H
    BY <2>1
  <2>4. request' = request /\ (BeginPurge(c, H, withdrawn, zone) \/ BeginPurge(c, H, H \X Version, zone))
    BY <1>9 DEF AdminIngest, AdminEdgePurge, Activation
  <2> HIDE DEF H, withdrawn
  <2>5. KeptByHash' /\ UnderWay'
    BY <2>1, <2>2, <2>3, <2>4, BeginPurgeNames
  <2>6. QED
    BY <1>1, <1>4, <2>4, <2>5 DEF PurgeInv
<1>10. \/ UNCHANGED <<request, cache, purge>>
       \/ \E q \in Request : ReadRows(q) \/ Answer(q) \/ \E c \in Colo, k \in Key : Ask(q, c, k)
       \/ \E c \in Colo, k \in Key : Leave(c, k)
       \/ \E c \in Colo, s \in Spans, zone \in BOOLEAN :
             AdminIngest(c, s[1], s[2], zone) \/ AdminEdgePurge(c, s[1], s[2], zone)
       \/ DeleteLocally \/ SendBody \/ CutPurge
  BY DEF Next, vars, Grow, Restart, Revalidate, Fill, Reorg, Heal, Activation
<1>11. QED
  BY <1>2, <1>3, <1>5, <1>6, <1>7, <1>8, <1>9, <1>10

\* An answer deleted locally: the keys of its heights and of the rows withdrawn.
LEMMA LocalKeysGo ==
    ASSUME PurgeInv, DeleteLocally, NEW k \in Key, k.kind \in {"height", "hash"},
           cache'[purge.colo][k] # None
    PROVE  <<k.from, cache'[purge.colo][k].rows[k.from]>> \notin purge.rows
<1> DEFINE c == purge.colo
           r == <<k.from, cache'[c][k].rows[k.from]>>
<1>1. SUFFICES ASSUME r \in purge.rows PROVE k \in LocalKeys(purge.heights, purge.rows)
  <2>1. c \in Colo
    BY DEF DeleteLocally, PurgeInv, UnderWay, Purging
  <2>2. k \notin LocalKeys(purge.heights, purge.rows)
    BY <2>1 DEF DeleteLocally, Without
  <2>3. QED
    BY <2>2
<1>2. /\ c \in Colo /\ \A x \in purge.rows : x[1] \in purge.heights
      /\ cache'[c][k] = cache[c][k]
  <2>1. c \in Colo /\ \A x \in purge.rows : x[1] \in purge.heights
    BY DEF DeleteLocally, PurgeInv, UnderWay, Purging
  <2>2. QED
    BY <2>1 DEF DeleteLocally, Without
<1>3. k.from \in purge.heights
  BY <1>1, <1>2
<1>4. k \in Keys
  BY EdgeAssumption
<1>5. CASE k.kind = "height"
  <2>1. k = HeightKey(k.from)
    BY <1>4, <1>5 DEF Keys, HeightKey, HashKey, RootKey, RangeKey
  <2>2. QED
    BY <1>3, <2>1 DEF LocalKeys
<1>6. CASE k.kind = "hash"
  <2>1. k = HashKey(k.from, k.version)
    BY <1>4, <1>6 DEF Keys, HeightKey, HashKey, RootKey, RangeKey
  <2>2. r = <<k.from, k.version>>
    BY <1>2, <1>6 DEF PurgeInv, KeptByHash
  <2>3. <<k.from, k.version>> \in purge.rows
    BY <1>1, <2>2
  <2>4. HashKey(<<k.from, k.version>>[1], <<k.from, k.version>>[2]) = k
    BY <2>1
  <2>5. QED
    BY <2>3, <2>4 DEF LocalKeys
<1>7. QED
  BY <1>5, <1>6

\* A purge whose last body is accepted, none refused, leaves no colo an answer of
\* its heights from before it, whatever the number of colos, keys, heights and tags
\* to a body; and the colo at work has by then lost its own answers by height and
\* by hash of the rows withdrawn (purge, purge_tags, purge_bodies, local_keys).
THEOREM PurgesTakeWhatWasKept == Spec => PurgeTakesWhatWasKept
<1> DEFINE A == /\ PurgeStep("zone") /\ purge' = None /\ ~purge.refused
                     => \A c \in Colo, k \in Key :
                          cache'[c][k] # None /\ Covers(k, purge.heights) => ~cache'[c][k].old
                /\ PurgeStep("local")
                     => \A k \in {x \in Key : x.kind \in {"height", "hash"}} :
                          cache'[purge.colo][k] # None /\ cache'[purge.colo][k].old
                            => <<k.from, cache'[purge.colo][k].rows[k.from]>> \notin purge.rows
<1>1. ASSUME PurgeInv, [Next]_vars PROVE [A]_vars
  <2>1. ASSUME NEW place \in {"local", "zone"}, PurgeStep(place)
        PROVE  IF place = "zone" THEN SendBody ELSE DeleteLocally
    <3>1. purge # None /\ purge.pc = place /\ purge' # purge /\ faults' = faults
      BY <2>1 DEF PurgeStep
    <3>2. DeleteLocally \/ SendBody \/ CutPurge
      <4>1. \A c, heights, rows, zone : ~BeginPurge(c, heights, rows, zone)
        BY <3>1 DEF BeginPurge
      <4>2. ~(\E c \in Colo, s \in Spans, zone \in BOOLEAN :
                 AdminIngest(c, s[1], s[2], zone) \/ AdminEdgePurge(c, s[1], s[2], zone))
        BY <4>1 DEF AdminIngest, AdminEdgePurge
      <4>3. /\ ~(\E q \in Request, c \in Colo, k \in Key : Ask(q, c, k))
            /\ ~(\E q \in Request : ReadRows(q) \/ Answer(q))
            /\ ~(\E c \in Colo, k \in Key : Leave(c, k))
        BY <3>1 DEF Ask, ReadRows, Answer, Leave
      <4>4. /\ ~(Grow \/ Restart \/ Revalidate) /\ ~(\E h \in Height : Fill(h))
            /\ ~(\E f, n \in Height : Reorg(f, n)) /\ ~UNCHANGED vars
            /\ ~(\E s \in Spans : Heal(s[1], s[2]))
        BY <3>1 DEF Grow, Restart, Revalidate, Fill, Reorg, Heal, vars
      <4>5. QED
        BY <1>1, <4>2, <4>3, <4>4 DEF Next
    <3>3. ~CutPurge
      <4>1. faults \in Nat
        BY <1>1 DEF PurgeInv, VersionsStand
      <4>2. QED
        BY <3>1, <4>1 DEF CutPurge
    <3>4. QED
      BY <3>1, <3>2, <3>3 DEF DeleteLocally, SendBody
  <2>2. PurgeStep("zone") => SendBody /\ faults' = faults
    BY <2>1 DEF PurgeStep
  <2>3. PurgeStep("local") => DeleteLocally
    BY <2>1
  <2>4. ASSUME PurgeStep("zone"), purge' = None, ~purge.refused,
               NEW c \in Colo, NEW k \in Key, cache'[c][k] # None, Covers(k, purge.heights)
        PROVE  ~cache'[c][k].old
    BY <2>2, <2>4, <1>1, SendBodyStep
  <2>5. ASSUME PurgeStep("local"), NEW k \in {x \in Key : x.kind \in {"height", "hash"}},
               cache'[purge.colo][k] # None
        PROVE  <<k.from, cache'[purge.colo][k].rows[k.from]>> \notin purge.rows
    BY <2>3, <2>5, <1>1, LocalKeysGo
  <2>6. QED
    BY <2>4, <2>5
<1>2. PurgeInv /\ [Next]_vars => PurgeInv'
  BY PurgeInvStep
<1>3. QED
  BY InitPurgeInv, <1>1, <1>2, PTL DEF Spec, PurgeTakesWhatWasKept
=============================================================================
