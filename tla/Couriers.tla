------------------------------ MODULE Couriers ------------------------------
(***************************************************************************)
(* The courier ladder of a cron pass (src/src/couriers.rs), the tips it    *)
(* observed (src/src/rungs.rs) and the branch splits the database derives  *)
(* from them (migrations/0010_rung_tips.sql).                              *)
(*                                                                         *)
(* A courier ("rung") follows a chain of the network and may move to       *)
(* another one, answer wrongly or not at all.  A pass asks every rung for  *)
(* its tip, asks the ladder for headers, fetches the advertised tips the   *)
(* store does not hold, and records the snapshot in one transaction whose  *)
(* trigger opens and resolves splits.  Two passes can overlap: a pass that *)
(* could not ask for the lease runs beside its holder.                     *)
(***************************************************************************)
EXTENDS Naturals, FiniteSets, SequencesExt

CONSTANTS
  Hash,         \* the headers in existence
  Genesis,      \* the one every store holds
  Parent,       \* the parent of each; that of Genesis is NoHash
  Height,       \* the height of each
  NoHash,       \* a tip answer without its hash
  Rungs,        \* the couriers, numbered in the order of the ladder
  StartChains,  \* bound: the tips the couriers may follow at first
  FirstConfig,  \* the rungs configured at first
  Configs,      \* the ladders a deploy may configure
  Tips,         \* bound: the headers a courier may move to
  Ticks,        \* the passes that can run at one time, numbered
  Ceilings,     \* bound: the heights a re-validation may have reached
  Depth,        \* SPLIT_DEPTH
  Walk,         \* ANCESTRY_LIMIT, the bound of a walk down a branch
  Backfill,     \* BACKFILL_LIMIT, the parents one insert fetches
  Cap,          \* RUNG_FAULT_CAP
  MaxClock,     \* bound: the instants in which tips are observed
  MaxMoves,     \* bound: the moves of the couriers, deploys and the ceiling
  MaxOddities   \* bound: the wrong and missing answers, and the passes cut

ASSUME CouriersAssumption ==
  /\ IsFiniteSet(Hash) /\ Genesis \in Hash /\ NoHash \notin Hash
  /\ Parent \in [Hash -> Hash \cup {NoHash}] /\ Height \in [Hash -> Nat]
  /\ \A h \in Hash \ {Genesis} :
       Parent[h] \in Hash /\ Height[h] = Height[Parent[h]] + 1
  /\ Parent[Genesis] = NoHash /\ Height[Genesis] = 0
  /\ Rungs \subseteq Nat \ {0} /\ IsFiniteSet(Rungs)
  /\ StartChains \subseteq [Rungs -> Hash]
  /\ Configs \subseteq (SUBSET Rungs) \ {{}} /\ FirstConfig \in Configs
  /\ Tips \subseteq Hash
  /\ Ceilings \subseteq {Height[h] : h \in Hash}
  /\ Depth \in Nat \ {0} /\ Walk \in Nat /\ Backfill \in Nat /\ Cap \in Nat \ {0}
  /\ MaxClock \in Nat /\ MaxMoves \in Nat /\ MaxOddities \in Nat

VARIABLES
  clock,      \* now, the time of observed_at and of the minute
  chain,      \* the tip each courier follows
  config,     \* the rungs the current deploy configures
  ceiling,    \* the height up to which rows are validated
  moves, odd, \* the bounds' counters
  rows,       \* headers: absent, stored without a parent, or linked
  tips,       \* sync_rung_tips
  splits,     \* chain_splits
  tick        \* the passes

vars == <<clock, chain, config, ceiling, moves, odd, rows, tips, splits, tick>>

Heights == {Height[h] : h \in Hash}
Top == CHOOSE n \in Heights : \A m \in Heights : m <= n

\* The ancestors of a header by distance; NoHash below Genesis.
Up[d \in 0..Top] ==
  IF d = 0 THEN [h \in Hash |-> h]
  ELSE [h \in Hash |-> IF Up[d - 1][h] = NoHash THEN NoHash ELSE Parent[Up[d - 1][h]]]

Lineage == [h \in Hash |-> {Up[d][h] : d \in 0..Height[h]}]

\* The last common ancestor of two headers in the network's tree.
TrueFork ==
  [g \in Hash |-> [h \in Hash |->
     CHOOSE f \in Lineage[g] \cap Lineage[h] :
       \A e \in Lineage[g] \cap Lineage[h] : Height[e] <= Height[f]]]

-----------------------------------------------------------------------------
(* The rows of the snapshot and of a pass.                                 *)

Nothing == [kind |-> "nothing"]      \* no observation
NoRow   == [kind |-> "no row"]       \* no row of that name in the table
Malformed == [kind |-> "malformed"]  \* a tip that cannot be one
Seen(hash, height, at) == [kind |-> "seen", hash |-> hash, height |-> height, at |-> at]

Claims == {Seen(x, n, c) : x \in Hash \cup {NoHash}, n \in Heights, c \in 0..MaxClock}
Observations == {o \in Claims : o.hash # NoHash}

NoRung == 0
Idle == [pc |-> "idle", cfg |-> {}, start |-> 0, queue |-> <<>>, asked |-> 0, best |-> NoRung,
         faults |-> [r \in Rungs |-> 0],
         seen |-> [r \in Rungs |-> Nothing]]

TypeOK ==
  /\ clock \in 0..MaxClock /\ moves \in 0..MaxMoves /\ odd \in 0..MaxOddities
  /\ chain \in [Rungs -> Hash] /\ config \in Configs /\ ceiling \in Heights
  /\ rows \in [Hash -> {"absent", "orphan", "linked"}]
  /\ tips \in [Rungs -> Observations \cup {Nothing, NoRow}]
  /\ splits \in [Hash -> {"none", "open", "resolved"}]
  /\ \A t \in Ticks :
       /\ tick[t].pc \in {"idle", "tip", "pass", "finish"}
       /\ tick[t].cfg \in Configs \cup {{}} /\ tick[t].asked \in 0..clock
       /\ tick[t].best \in tick[t].cfg \cup {NoRung}
       /\ tick[t].faults \in [Rungs -> 0..(Cap + 1)]
       /\ tick[t].seen \in [Rungs -> Claims \cup {Nothing, Malformed}]

Init ==
  /\ clock = 0 /\ moves = 0 /\ odd = 0
  /\ chain \in StartChains
  /\ config = FirstConfig
  /\ ceiling = Top
  /\ rows = [h \in Hash |-> IF h = Genesis THEN "linked" ELSE "absent"]
  /\ tips = [r \in Rungs |-> NoRow]
  /\ splits = [h \in Hash |-> "none"]
  /\ tick = [t \in Ticks |-> Idle]

-----------------------------------------------------------------------------
(* The couriers, the deploys, the validation ceiling and the clock.        *)

Move == moves < MaxMoves /\ moves' = moves + 1
Odd(n) == odd + n <= MaxOddities /\ odd' = odd + n

\* A courier's best chain grows or is reorganised.
CourierMoves(r) ==
  /\ Move
  /\ \E h \in Tips \ {chain[r]} : chain' = [chain EXCEPT ![r] = h]
  /\ UNCHANGED <<clock, config, ceiling, odd, rows, tips, splits, tick>>

\* A deploy configures other couriers; passes at work keep theirs.
Deploy ==
  /\ Move
  /\ config' \in Configs \ {config}
  /\ UNCHANGED <<clock, chain, ceiling, odd, rows, tips, splits, tick>>

\* A re-validation lowers the ceiling and comes back up (module Revalidation).
CeilingFalls ==
  /\ Move
  /\ ceiling' \in {n \in Ceilings : n < ceiling}
  /\ UNCHANGED <<clock, chain, config, odd, rows, tips, splits, tick>>

CeilingRises ==
  /\ ceiling < Top
  /\ ceiling' = Top
  /\ UNCHANGED <<clock, chain, config, moves, odd, rows, tips, splits, tick>>

\* Time is seen by the passes that ask for tips.
TimePasses ==
  /\ clock < MaxClock
  /\ \E t \in Ticks : tick[t].pc = "tip"
  /\ clock' = clock + 1
  /\ UNCHANGED <<chain, config, ceiling, moves, odd, rows, tips, splits, tick>>

-----------------------------------------------------------------------------
(* The ladder of one pass.                                                 *)

Skipped(faults, r) == faults[r] >= Cap

\* The rungs of a configuration in the ladder's order, and from a start rung on.
Ladder ==
  [c \in Configs |-> CHOOSE q \in SetToSeqs(c) : \A i, j \in DOMAIN q : i < j => q[i] < q[j]]

Rotation(cfg, start) ==
  LET n == Len(Ladder[cfg])
  IN  [k \in 1..n |-> Ladder[cfg][((start + k - 1) % n) + 1]]

\* The rungs to ask, in order: the preferred one, then the rotation.
Order(p) ==
  LET rotation == Rotation(p.cfg, p.start)
      all == IF p.best = NoRung THEN rotation
             ELSE <<p.best>> \o SelectSeq(rotation, LAMBDA r : r # p.best)
  IN  SelectSeq(all, LAMBDA r : ~Skipped(p.faults, r))

\* A pass after some rungs answered no header, or a wrong one: note_fault.
Faulted(p, faulting) ==
  [p EXCEPT !.faults = [r \in Rungs |-> IF r \in faulting THEN @[r] + 1 ELSE @[r]]]

\* A pass begins, with the rotation of its minute.  Beside another one it
\* begins only without the lease, which takes a fault of the database.  It
\* takes the first free place of Ticks.
Begin(t) ==
  /\ tick[t].pc = "idle" /\ \A u \in Ticks : u < t => tick[u].pc # "idle"
  /\ Odd(IF \A u \in Ticks : tick[u].pc = "idle" THEN 0 ELSE 1)
  /\ LET s == clock % Cardinality(config)
     IN  tick' = [tick EXCEPT ![t] =
           [Idle EXCEPT !.pc = "tip", !.cfg = config, !.start = s, !.asked = clock,
                        !.queue = Rotation(config, s)]]
  /\ UNCHANGED <<clock, chain, config, ceiling, moves, rows, tips, splits>>

\* What a courier asked at `at` may say its tip is, and how far that is from the
\* truth: its tip, its tip without the hash, its tip a height too high, nonsense.
TipAnswers(r, at) ==
  LET h == chain[r]
  IN  {<<Seen(h, Height[h], at), 0>>, <<Seen(NoHash, Height[h], at), 1>>,
       <<Malformed, 1>>}
      \cup {<<Seen(h, n, at), 1>> : n \in Heights \cap {Height[h] + 1}}

\* The height a claim is compared by; nonsense may claim any.
ClaimedHeight(s) == IF s = Malformed THEN Top + 1 ELSE s.height

\* The winner keeps ties: an answer replaces it by a greater height only.
Better(p, r, s) ==
  IF p.best = NoRung \/ ClaimedHeight(s) > ClaimedHeight(p.seen[p.best]) THEN r ELSE p.best

\* The next rung answers chain_info; the pass goes on after the last one, also
\* when none answered.  A rung's observed_at is the time it was asked, which is
\* that of the answer before its own: the courier may move, and the other passes
\* record, between the clock's read and the answer.
AskTip(t) ==
  LET p    == tick[t]
      r    == Head(p.queue)
      last == Len(p.queue) = 1
      rest == [p EXCEPT !.queue = Tail(@), !.pc = IF last THEN "pass" ELSE @,
                        !.asked = IF last THEN 0 ELSE clock]
  IN
  /\ p.pc = "tip"
  /\ \/ \E a \in TipAnswers(r, p.asked) :
          /\ Odd(a[2])
          /\ tick' = [tick EXCEPT ![t] =
               [rest EXCEPT !.seen[r] = a[1], !.best = Better(p, r, a[1])]]
     \/ /\ Odd(1)
        /\ tick' = [tick EXCEPT ![t] = Faulted(rest, {r})]
  /\ UNCHANGED <<clock, chain, config, ceiling, moves, rows, tips, splits>>

\* The ways a question for a header can go: the first k rungs in order
\* fault, or answer another header, and the next one serves it; all fault.
Outcomes(p) ==
  LET order == Order(p)
      first(k) == {order[i] : i \in 1..k}
  IN  {[p |-> Faulted(p, first(k)), served |-> TRUE, cost |-> k] : k \in 0..(Len(order) - 1)}
      \cup {[p |-> Faulted(p, ToSet(order)), served |-> FALSE, cost |-> Len(order)]}

-----------------------------------------------------------------------------
(* The store, as far as observations see it.                               *)

Stored(table, h) == h # NoHash /\ table[h] # "absent"

\* The absent ancestors an insert of h fetches, nearest first, at most Backfill.
Missing(h) ==
  {Up[d][h] : d \in {d \in 1..Height[h] : d <= Backfill /\
                       \A e \in 1..d : rows[Up[e][h]] = "absent"}}

\* insert_with_parent_backfill, when the walk was served or when it was not:
\* a header is linked to a parent that is stored or that came with it.
Inserted(h, walked) ==
  LET new == {x \in {h} \cup (IF walked THEN Missing(h) ELSE {}) : rows[x] # "linked"}
  IN  [x \in new |-> IF Stored(rows, Parent[x]) \/ (walked /\ Parent[x] \in Missing(h))
                     THEN "linked" ELSE "orphan"] @@ rows

\* The pass asks the ladder for a header of some courier's chain and stores it.
Fetch(t) ==
  LET p == tick[t] IN
  /\ p.pc = "pass"
  /\ \E o \in Outcomes(p), h \in {chain[r] : r \in p.cfg} :
       /\ rows[h] # "linked"
       /\ Odd(o.cost)
       /\ tick' = [tick EXCEPT ![t] = o.p]
       /\ rows' = IF o.served THEN Inserted(h, TRUE) ELSE rows
  /\ UNCHANGED <<clock, chain, config, ceiling, moves, tips, splits>>

Finish(t) ==
  /\ tick[t].pc = "pass"
  /\ tick' = [tick EXCEPT ![t] = [@ EXCEPT !.pc = "finish",
                                           !.queue = Ladder[tick[t].cfg]]]
  /\ UNCHANGED <<clock, chain, config, ceiling, moves, odd, rows, tips, splits>>

\* The row of an advertised tip can be relied on: no header need be asked.
Checked(s) ==
  s.hash # NoHash /\ rows[s.hash] = "linked" /\ Height[s.hash] = s.height

\* The header a rung serves for the tip it advertised: that of the hash, or
\* the one of its chain at that height; it must stand at the height claimed.
Served(r, s) ==
  IF s.hash # NoHash THEN {h \in {s.hash} : Height[h] = s.height}
  ELSE {h \in Lineage[chain[r]] : Height[h] = s.height}

\* A claim the rung did not confirm stays one if it has a hash.
Kept(s) == IF s.hash = NoHash THEN Nothing ELSE s

\* The rung is asked for the tip it advertised, and the header is ingested with
\* its parents; what becomes of the pass and the rows, and the oddities it took.
Asked(p, r) ==
  LET s == p.seen[r] IN
  {[p |-> Faulted([p EXCEPT !.seen[r] = Kept(s)], {r}), rows |-> rows,
    cost |-> IF Served(r, s) = {} THEN 0 ELSE 1]}
  \cup UNION {LET got == [p EXCEPT !.seen[r] = Seen(h, s.height, s.at)] IN
       IF Missing(h) = {} THEN {[p |-> got, rows |-> Inserted(h, TRUE), cost |-> 0]}
       ELSE {[p |-> o.p, rows |-> Inserted(h, o.served), cost |-> o.cost] : o \in Outcomes(got)}
     : h \in Served(r, s)}

\* What becomes of a rung's observation: a checked tip is taken, a rung past
\* its cap is not asked.
Observed(p, r) ==
  LET s       == p.seen[r]
      with(o) == {[p |-> [p EXCEPT !.seen[r] = o], rows |-> rows, cost |-> 0]}
  IN
  CASE s = Nothing -> with(s)
    [] s = Malformed -> {[p |-> Faulted([p EXCEPT !.seen[r] = Nothing], {r}),
                          rows |-> rows, cost |-> 0]}
    [] s # Nothing /\ s # Malformed ->
         IF Checked(s) THEN with(s)
         ELSE IF Skipped(p.faults, r) THEN with(Kept(s)) ELSE Asked(p, r)

\* finish_observations takes the next rung, in the order of the ladder.
Observe(t) ==
  LET p == tick[t]  r == Head(p.queue) IN
  /\ p.pc = "finish" /\ p.queue # <<>>
  /\ \E o \in Observed([p EXCEPT !.queue = Tail(@)], r) :
       /\ Odd(o.cost)
       /\ tick' = [tick EXCEPT ![t] = o.p]
       /\ rows' = o.rows
  /\ UNCHANGED <<clock, chain, config, ceiling, moves, tips, splits>>

-----------------------------------------------------------------------------
(* The transaction of `record` and its trigger.                            *)

\* Mutant: the last pass to finish wins.
ReplacesAlways(s, old) == TRUE

\* The guard of the statement that stores an observation.
Replaces(s, old) == old = Nothing \/ old.at <= s.at

\* Mutant: rungs no longer configured keep their rows.
RecordedKeepsRemoved(p) ==
  [r \in Rungs |->
     IF r \notin p.cfg THEN tips[r]
     ELSE LET old == IF tips[r] = NoRow THEN Nothing ELSE tips[r]
          IN  IF p.seen[r] # Nothing /\ Replaces(p.seen[r], old) THEN p.seen[r] ELSE old]

\* sync_rung_tips after the statements of a pass: removed rungs are deleted,
\* an observation replaces one that is not newer, none keeps what there was.
Recorded(p) ==
  [r \in Rungs |->
     IF r \notin p.cfg THEN NoRow
     ELSE LET old == IF tips[r] = NoRow THEN Nothing ELSE tips[r]
          IN  IF p.seen[r] # Nothing /\ Replaces(p.seen[r], old) THEN p.seen[r] ELSE old]

\* Mutant: a row is taken for the tip at whatever height was claimed.
KnownByHash(table, r) ==
  /\ table[r] \notin {NoRow, Nothing}
  /\ rows[table[r].hash] = "linked" /\ Height[table[r].hash] <= ceiling

\* sync_rung_headers: the tips whose row is stored, linked and validated.
Known(table, r) ==
  /\ table[r] \notin {NoRow, Nothing} /\ table[r].hash \in Hash
  /\ LET h == table[r].hash IN
       rows[h] = "linked" /\ Height[h] = table[r].height /\ Height[h] <= ceiling

\* chain_rung_ancestry: the stored rows a walk of at most Walk links reaches.
Ancestry(h) ==
  {Up[d][h] : d \in {d \in 0..Height[h] : d <= Walk /\
                       \A e \in 0..d : Stored(rows, Up[e][h])}}

\* chain_rung_pairs: the pairs of rungs whose walks meet, each with the place
\* where they do first and how far the lower of its tips stands above it.
Pairs(table) ==
  {LET common == Ancestry(table[p[1]].hash) \cap Ancestry(table[p[2]].hash)
       fork   == CHOOSE f \in common : \A e \in common : Height[e] <= Height[f]
       lower  == CHOOSE i \in 1..2 : \A j \in 1..2 : table[p[i]].height <= table[p[j]].height
   IN  [rungs |-> p, fork |-> fork, above |-> table[p[lower]].height - Height[fork]]
   : p \in {q \in Rungs \X Rungs :
            /\ q[1] < q[2] /\ Known(table, q[1]) /\ Known(table, q[2])
            /\ Ancestry(table[q[1]].hash) \cap Ancestry(table[q[2]].hash) # {}}}

\* Mutant: what can be classified is enough.
SomeClassified(table, pairs) == TRUE

\* Every pair of rows is classified, so what no pair shows is not there.
AllClassified(table, pairs) ==
  LET n == Cardinality({r \in Rungs : table[r] # NoRow})
  IN  2 * Cardinality(pairs) = n * (n - 1)

\* Mutant: one block short of the depth.
DeepStrictly(p) == p.above > Depth

Deep(p) == p.above >= Depth

\* chain_split_detect: a split opens where both tips of a pair reach the
\* depth, once per fork point, and is resolved when no pair straddles it.
Detected(table, pairs) ==
  [f \in Hash |->
     LET opens == \E p \in pairs : p.fork = f /\ Deep(p)
         s     == IF splits[f] = "none" /\ opens THEN "open" ELSE splits[f]
         over  == /\ AllClassified(table, pairs)
                  /\ \A p \in pairs : p.fork = f => p.above = 0
     IN  IF s = "open" /\ over THEN "resolved" ELSE s]

Record(t) ==
  /\ tick[t].pc = "finish" /\ tick[t].queue = <<>>
  /\ tips' = Recorded(tick[t])
  /\ splits' \in {Detected(tips', pairs) : pairs \in {Pairs(tips')}}
  /\ tick' = [tick EXCEPT ![t] = Idle]
  /\ UNCHANGED <<clock, chain, config, ceiling, moves, odd, rows>>

\* A pass is cut, or a database fault ends it.
Cut(t) ==
  /\ tick[t].pc # "idle"
  /\ Odd(1)
  /\ tick' = [tick EXCEPT ![t] = Idle]
  /\ UNCHANGED <<clock, chain, config, ceiling, moves, rows, tips, splits>>

Environment ==
  \/ \E r \in Rungs : CourierMoves(r)
  \/ Deploy
  \/ CeilingFalls
  \/ CeilingRises
  \/ TimePasses

Pass(t) ==
  \/ Begin(t)
  \/ AskTip(t)
  \/ Finish(t)
  \/ Observe(t)
  \/ Record(t)

Next ==
  \/ Environment
  \/ \E t \in Ticks : Pass(t) \/ Fetch(t) \/ Cut(t)

Spec == Init /\ [][Next]_vars
-----------------------------------------------------------------------------
(* Fairness and properties.                                                *)

\* The cron begins a pass every minute and a pass that is not cut goes on to
\* its record, whatever headers it fetches; re-validation brings the
\* ceiling back.
FairSpec == Spec /\ WF_vars(CeilingRises) /\ \A t \in Ticks : WF_vars(Pass(t))

\* The snapshot of a rung never goes back to a tip asked for earlier, however
\* the passes that observed it overlap (`record`: late ticks).
SnapshotNeverGoesBack ==
  [][\A r \in Rungs : (tips[r] \in Observations /\ tips'[r] \in Observations)
                        => tips'[r].at >= tips[r].at]_vars

\* A split is journaled only of a real one: two recorded tips stand at least
\* SPLIT_DEPTH above the place where the network's own chains part, whatever
\* rows the store lacks and whatever heights the couriers claimed.
SplitIsReal ==
  [][\A f \in Hash : splits[f] = "none" /\ splits'[f] # "none" =>
       \E l, r \in Rungs :
         /\ tips'[l] \in Observations /\ tips'[r] \in Observations
         /\ TrueFork[tips'[l].hash][tips'[r].hash] = f
         /\ Height[tips'[l].hash] >= Height[f] + Depth
         /\ Height[tips'[r].hash] >= Height[f] + Depth]_vars

\* A split is resolved only when every configured rung was observed and no two
\* recorded tips stand on different sides of it: missing rows, failed rungs
\* and low ceilings are never taken for agreement (chain_split_detect).
ResolvedIsOver ==
  [][\A f \in Hash : splits[f] = "open" /\ splits'[f] = "resolved" =>
       \A l, r \in {q \in Rungs : tips'[q] # NoRow} :
         /\ tips'[l] \in Observations /\ tips'[r] \in Observations
         /\ TrueFork[tips'[l].hash][tips'[r].hash] = f =>
              f \in {tips'[l].hash, tips'[r].hash}]_vars

\* Once the configured couriers follow one tip for good, every open split is
\* resolved, whatever was observed before, by whichever configuration.
OneTip == \E h \in Hash : \A r \in config : chain[r] = h

AgreementResolves ==
  []<>(OneTip => \A f \in Hash : splits[f] # "open")

\* Two configured couriers far enough apart, with both branches whole in the
\* store and within the walk: the split is said.
Whole(h, f) ==
  \A x \in Lineage[h] : Height[x] >= Height[f] => rows[x] = "linked"

FarApart(l, r) ==
  LET f == TrueFork[chain[l]][chain[r]] IN
  \A q \in {l, r} :
    /\ q \in config /\ Whole(chain[q], f)
    /\ Height[chain[q]] \in (Height[f] + Depth)..(Height[f] + Walk)

FarApartIsSaid ==
  []<>(\A l, r \in Rungs :
         FarApart(l, r) => splits[TrueFork[chain[l]][chain[r]]] # "none")
=============================================================================
