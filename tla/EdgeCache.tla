----------------------------- MODULE EdgeCache -----------------------------
(***************************************************************************)
(* The answers the edge keeps (src/src/edge.rs) of the header routes       *)
(* (src/src/routes.rs), the writes that can make them untrue, and the      *)
(* purges that take them off.                                              *)
(*                                                                         *)
(* Of the store only the active row of each height is kept, as one of a    *)
(* few versions; what writes it (HeaderStore) appears here as far as it    *)
(* changes active rows, with the bounds its code has.  A colo is a cache   *)
(* of its own; an entry may leave it at any time, at its lifetime's end or *)
(* earlier.  A request reads the ceiling and the tip, then the rows, then  *)
(* puts its answer, with anything in between.                              *)
(***************************************************************************)
EXTENDS Naturals, FiniteSetsExt, SequencesExt

CONSTANTS
  None,          \* no answer, no request, no purge
  Colo,          \* the colos, each with its cache
  Key,           \* bound: the keys that are asked for, out of Keys
  Request,       \* bound: the requests at one time
  Spans,         \* bound: the runs that are activated and the spans purged
  Stops,         \* bound: where a step of a re-validation may stop
  MaxHeight,     \* bound: the last height
  MaxKept,       \* bound: the answers kept or on their way at one time
  MaxWrites,     \* bound: the reorgs, activations, restarts and purges by hand
  MaxFaults,     \* bound: the purge bodies refused and the calls cut
  EdgeDepth,     \* HEADER_EDGE_DEPTH
  ReorgBound,    \* REORG_BOUND
  MaxSteps,      \* max_steps of find_common_ancestor
  MaxShorter,    \* environment: how much shorter a heavier branch may be
  MaxActivation, \* MAX_ACTIVATION
  LinkWindow,    \* LINK_WINDOW
  Bucket,        \* the heights of an `hb` tag
  BodyTags       \* the tags one purge request may name

Height == 0..MaxHeight
Version == 1..2
Hole == 0        \* no active row

\* The kinds of Key; v1, v2 and .bin keys of one kind differ in format alone.
HeightKey(h)   == [kind |-> "height", from |-> h, to |-> h, version |-> Hole]
HashKey(h, v)  == [kind |-> "hash", from |-> h, to |-> h, version |-> v]
RootKey(h, v)  == [kind |-> "root", from |-> h, to |-> h, version |-> v]
RangeKey(s, e) == [kind |-> "range", from |-> s, to |-> e, version |-> Hole]

Keys == {HeightKey(h) : h \in Height}
        \cup {HashKey(h, v) : h \in Height, v \in Version}
        \cup {RootKey(h, v) : h \in Height, v \in Version}
        \cup {RangeKey(s, e) : s, e \in Height}

ASSUME EdgeAssumption ==
  /\ Key \subseteq {k \in Keys : k.from <= k.to}
  /\ MaxHeight \in Nat \ {0} /\ MaxWrites \in Nat /\ MaxFaults \in Nat /\ MaxKept \in Nat
  /\ {EdgeDepth, ReorgBound, MaxSteps, MaxShorter, LinkWindow} \subseteq Nat
  /\ {MaxActivation, Bucket, BodyTags} \subseteq Nat \ {0}
  /\ MaxSteps <= ReorgBound
  /\ Spans \subseteq {s \in Height \X Height : s[1] <= s[2]}
  /\ MaxHeight \in Stops /\ Stops \subseteq Height

VARIABLES
  active,    \* the version of each height's active row
  peak,      \* the highest tip there was
  ceiling,   \* the height re-validation has reached; MaxHeight when complete
  request,   \* the requests being answered
  cache,     \* caches.default of each colo
  purge,     \* the purge at work
  writes, faults,
  replaced,  \* history: the heights whose row an activation replaced,
  byOperator \* and those of the operator's

store == <<active, peak, ceiling>>
history == <<replaced, byOperator>>
vars == <<store, request, cache, purge, writes, faults, history>>

Tip == Max({h \in Height : active[h] # Hole})

\* served_ceiling_and_tip: during a re-validation the highest row it passed.
ServedTip == Min({Tip, ceiling})

-----------------------------------------------------------------------------
(* edge.rs.                                                                *)

\* Mutant: the line of HEADER_EDGE_DEPTH as it was set.
LineAsSet == EdgeDepth

\* Edge::parse: the line is never nearer the tip than REORG_BOUND.
Line == Max({EdgeDepth, ReorgBound})

\* Mutant: the line itself counts as below it.
SettledAtLine(tip, h) == tip > h /\ tip - h >= Line

Settled(tip, h) == tip > h /\ tip - h > Line

HeightTag(h) == <<"h", h>>
BucketTag(h) == <<"hb", h \div Bucket>>

\* Mutant: a range is tagged by its first thousand.
TagsByStart(k) == IF k.kind = "range" THEN {BucketTag(k.from)}
                  ELSE {HeightTag(k.from), BucketTag(k.from)}

\* height_tags, range_tags.
Tags(k) == IF k.kind = "range" THEN {BucketTag(h) : h \in k.from..k.to}
           ELSE {HeightTag(k.from), BucketTag(k.from)}

\* Numbers in ascending order, each once (sort_unstable, dedup).
InOrder(S) == CHOOSE q \in SetToSeqs(S) : \A i, j \in DOMAIN q : i < j => q[i] < q[j]

HeightTags(heights) ==
  LET sorted == InOrder(heights) IN [i \in DOMAIN sorted |-> HeightTag(sorted[i])]

\* Mutant: the heights without their thousands.
PurgeTagsOfHeights(heights) == HeightTags(heights)

\* purge_tags: each height's, then each thousand's.
PurgeTags(heights) ==
  LET buckets == InOrder({h \div Bucket : h \in heights})
  IN  HeightTags(heights) \o [i \in DOMAIN buckets |-> <<"hb", buckets[i]>>]

\* purge_bodies: the tags in requests of at most BodyTags.
PurgeBodies(tags) ==
  [i \in 1..((Len(tags) + BodyTags - 1) \div BodyTags) |->
     ToSet(SubSeq(tags, (i - 1) * BodyTags + 1, Min({i * BodyTags, Len(tags)})))]

\* Mutant: the keys of the heights alone.
LocalKeysByHeight(heights, rows) == {HeightKey(h) : h \in heights}

\* local_keys, of the heights and the rows whose hashes are named.
LocalKeys(heights, rows) ==
  {HeightKey(h) : h \in heights} \cup {HashKey(r[1], r[2]) : r \in rows}

-----------------------------------------------------------------------------
Idle == [pc |-> "idle", colo |-> None, key |-> None, tip |-> 0, ceiling |-> 0,
         rows |-> [h \in {} |-> Hole]]

\* The rows of some heights; a request; an entry of a cache; a purge.
Rows == UNION {[heights -> Version] : heights \in SUBSET Height}
Asking == [pc : {"idle", "ceiling", "rows"}, colo : Colo \cup {None}, key : Key \cup {None},
           tip : Height, ceiling : Height, rows : Rows]
Entry == [rows : Rows, old : BOOLEAN]
TagNames == {"h", "hb"} \X Nat
Purging == [colo : Colo, pc : {"local", "zone"}, heights : SUBSET Height,
            rows : SUBSET (Height \X (Version \cup {Hole})),
            bodies : Seq(SUBSET TagNames), refused : BOOLEAN]

ASSUME NoneAssumption == None \notin Purging

TypeOK ==
  /\ active \in [Height -> Version \cup {Hole}] /\ active[0] # Hole
  /\ peak \in Height /\ Tip <= peak /\ ceiling \in Height
  /\ request \in [Request -> Asking]
  /\ \A q \in Request :
       request[q].pc # "idle" => request[q].colo \in Colo /\ request[q].key \in Key
  /\ cache \in [Colo -> [Key -> Entry \cup {None}]]
  /\ \A c \in Colo, k \in Key :
       cache[c][k] # None => DOMAIN cache[c][k].rows \subseteq k.from..k.to
  /\ purge # None =>
       /\ purge \in Purging
       /\ \A i \in DOMAIN purge.bodies : Cardinality(purge.bodies[i]) <= BodyTags
  /\ writes \in 0..MaxWrites /\ faults \in 0..MaxFaults
  /\ byOperator \subseteq replaced /\ replaced \subseteq Height

Init ==
  /\ active \in {[h \in Height |-> IF h > t \/ h = hole THEN Hole ELSE 1] :
                   t \in {MaxHeight - 1}, hole \in {1, MaxHeight}}
  /\ peak = Tip /\ ceiling = MaxHeight
  /\ request = [q \in Request |-> Idle]
  /\ cache = [c \in Colo |-> [k \in Key |-> None]]
  /\ purge = None
  /\ writes = 0 /\ faults = 0 /\ replaced = {} /\ byOperator = {}

-----------------------------------------------------------------------------
(* The requests.                                                           *)

\* A route that finds nothing kept reads the ceiling with the tip.  (A hit,
\* or an answer the edge does not hold, changes nothing.)
Ask(q, c, k) ==
  /\ request[q].pc = "idle" /\ cache[c][k] = None
  /\ Cardinality({r \in Request : request[r] # Idle})
       + Cardinality({e \in Colo \X Key : cache[e[1]][e[2]] # None}) < MaxKept
  /\ request' = [request EXCEPT ![q] =
       [Idle EXCEPT !.pc = "ceiling", !.colo = c, !.key = k,
                    !.tip = ServedTip, !.ceiling = ceiling]]
  /\ UNCHANGED <<store, cache, purge, writes, faults, history>>

\* served_at_height, served_by_hash, served_range: the active rows, up to
\* the ceiling that was read; those of a hash only while it is active.
Answered(r) ==
  LET k == r.key IN
  {h \in k.from..k.to : /\ active[h] # Hole /\ h <= r.ceiling
                        /\ k.kind = "hash" => active[h] = k.version}

ReadRows(q) ==
  /\ request[q].pc = "ceiling"
  /\ request' = [request EXCEPT ![q] =
       [@ EXCEPT !.pc = "rows", !.ceiling = 0, !.rows = [h \in Answered(request[q]) |-> active[h]]]]
  /\ UNCHANGED <<store, cache, purge, writes, faults, history>>

\* Mutant: a range is settled when the rows it found are.
KeepsShort(r) == DOMAIN r.rows # {} /\ Settled(r.tip, Max(DOMAIN r.rows))

\* What is kept: every height asked for was found, and the last is settled.
Keeps(r) == DOMAIN r.rows = r.key.from..r.key.to /\ Settled(r.tip, r.key.to)

Answer(q) ==
  LET r == request[q] IN
  /\ r.pc = "rows"
  /\ request' = [request EXCEPT ![q] = Idle]
  /\ cache' = IF Keeps(r)
              THEN [cache EXCEPT ![r.colo][r.key] = [rows |-> r.rows, old |-> FALSE]]
              ELSE cache
  /\ UNCHANGED <<store, purge, writes, faults, history>>

\* The day is over, the colo drops the entry, or it was never put.
Leave(c, k) ==
  /\ cache[c][k] # None
  /\ cache' = [cache EXCEPT ![c][k] = None]
  /\ UNCHANGED <<store, request, purge, writes, faults, history>>

-----------------------------------------------------------------------------
(* The writes of active rows.                                              *)

Write == writes < MaxWrites /\ writes' = writes + 1

Grow ==
  /\ Tip < MaxHeight
  /\ active' = [active EXCEPT ![Tip + 1] = 1]
  /\ peak' = Max({peak, Tip + 1})
  /\ UNCHANGED <<ceiling, request, cache, purge, writes, faults, history>>

\* A hole under the tip is filled: batch, heal or walk, which answer `active`.
Fill(h) ==
  /\ active[h] = Hole /\ h < Tip
  /\ active' = [active EXCEPT ![h] = 1]
  /\ UNCHANGED <<peak, ceiling, request, cache, purge, writes, faults, history>>

\* handle_reorg to another branch from f up to n, where the walk back from
\* both tips meets at f within MaxSteps.
Reorg(f, n) ==
  /\ Write
  /\ f < Tip /\ active[f] # Hole /\ n > f /\ n + MaxShorter >= peak
  /\ Max({Tip, n}) - f <= MaxSteps
  /\ active' = [h \in Height |->
       IF h <= f THEN active[h] ELSE IF h > n THEN Hole
       ELSE IF active[h] = 1 THEN 2 ELSE 1]
  /\ peak' = Max({peak, n})
  /\ UNCHANGED <<ceiling, request, cache, purge, faults, history>>

\* The versions of a run that an activation changes, under an active child.
Activation(from, to) ==
  /\ Write
  /\ to < Tip /\ from > 0
  /\ to - from < MaxActivation
  /\ active[from - 1] # Hole /\ active[to + 1] # Hole
  /\ \A h \in from..to : active[h] # Hole
  /\ active' = [h \in Height |-> IF h \in from..to THEN 3 - active[h] ELSE active[h]]
  /\ replaced' = replaced \cup (from..to)
  /\ UNCHANGED <<peak, ceiling, request, faults>>

\* A purge begins in a colo: the keys to delete there, then the bodies for
\* the zone, if there is one.
BeginPurge(colo, heights, rows, zone) ==
  /\ purge = None
  /\ purge' = [colo |-> colo, pc |-> "local", heights |-> heights, rows |-> rows,
               bodies |-> IF zone THEN PurgeBodies(PurgeTags(heights)) ELSE <<>>,
               refused |-> FALSE]
  /\ cache' = [c \in Colo |-> [k \in Key |->
       IF cache[c][k] = None THEN None ELSE [cache[c][k] EXCEPT !.old = TRUE]]]

\* The heal activates a run whose child's link is broken in the window the
\* link leg checks; nothing purges.
Heal(from, to) ==
  /\ Activation(from, to)
  /\ to + LinkWindow >= Tip
  /\ UNCHANGED <<cache, byOperator, purge>>

\* /admin/ingest activates a run; its heights and the rows it deactivated go
\* off the edge.
AdminIngest(c, from, to, zone) ==
  /\ Activation(from, to)
  /\ byOperator' = byOperator \cup (from..to)
  /\ BeginPurge(c, from..to, {<<h, active[h]>> : h \in from..to}, zone)

\* /admin/edge-purge: the heights, and every row stored at them (while
\* something is kept: otherwise it changes nothing).
AdminEdgePurge(c, from, to, zone) ==
  /\ Write /\ \E d \in Colo, k \in Key : cache[d][k] # None
  /\ BeginPurge(c, from..to, (from..to) \X Version, zone)
  /\ UNCHANGED <<store, request, faults, history>>

\* A re-validation begins again, and goes on upwards.
Restart ==
  /\ Write
  /\ ceiling = MaxHeight
  /\ ceiling' = 0
  /\ UNCHANGED <<active, peak, request, cache, purge, faults, history>>

Revalidate ==
  /\ ceiling < MaxHeight
  /\ ceiling' \in {n \in Stops : n > ceiling}
  /\ UNCHANGED <<active, peak, request, cache, purge, writes, faults, history>>

-----------------------------------------------------------------------------
(* The purge.                                                              *)

Without(keep(_, _)) ==
  [c \in Colo |-> [k \in Key |-> IF keep(c, k) THEN cache[c][k] ELSE None]]

\* cache.delete of every local key.
DeleteLocally ==
  /\ purge # None /\ purge.pc = "local"
  /\ cache' = Without(LAMBDA c, k : c # purge.colo \/ k \notin LocalKeys(purge.heights, purge.rows))
  /\ purge' = IF purge.bodies # <<>> THEN [purge EXCEPT !.pc = "zone"] ELSE None
  /\ UNCHANGED <<store, request, writes, faults, history>>

\* One body of the zone's purge is sent; the next is, whatever it answered.
SendBody ==
  /\ purge # None /\ purge.pc = "zone"
  /\ \/ /\ cache' = Without(LAMBDA c, k : Tags(k) \cap Head(purge.bodies) = {})
        /\ UNCHANGED <<faults>>
        /\ purge' = IF Len(purge.bodies) = 1 THEN None
                    ELSE [purge EXCEPT !.bodies = Tail(@)]
     \/ /\ faults < MaxFaults /\ faults' = faults + 1
        /\ UNCHANGED cache
        /\ purge' = IF Len(purge.bodies) = 1 THEN None
                    ELSE [purge EXCEPT !.bodies = Tail(@), !.refused = TRUE]
  /\ UNCHANGED <<store, request, writes, history>>

\* The operator's call ends before its purge does.
CutPurge ==
  /\ purge # None /\ faults < MaxFaults
  /\ faults' = faults + 1
  /\ purge' = None
  /\ UNCHANGED <<store, request, cache, writes, history>>

Next ==
  \/ \E q \in Request, c \in Colo, k \in Key : Ask(q, c, k)
  \/ \E q \in Request : ReadRows(q) \/ Answer(q)
  \/ \E c \in Colo, k \in Key : Leave(c, k)
  \/ Grow \/ Restart \/ Revalidate
  \/ \E h \in Height : Fill(h)
  \/ \E f, n \in Height : Reorg(f, n)
  \/ \E s \in Spans : Heal(s[1], s[2])
  \/ \E c \in Colo, s \in Spans, zone \in BOOLEAN :
       AdminIngest(c, s[1], s[2], zone) \/ AdminEdgePurge(c, s[1], s[2], zone)
  \/ DeleteLocally \/ SendBody \/ CutPurge

Spec == Init /\ [][Next]_vars
-----------------------------------------------------------------------------
(* Properties.                                                             *)

\* What an entry says of a height: the row it holds, or that there is none.
Says(e, h) == IF h \in DOMAIN e.rows THEN e.rows[h] ELSE Hole

\* The heights of which a colo's answer to a key is not what the store says.
Untrue(c, k) ==
  IF cache[c][k] = None THEN {}
  ELSE {h \in k.from..k.to : Says(cache[c][k], h) # active[h]}

\* Neither a reorg, nor a hole that is filled, nor growth ever makes a kept
\* answer untrue, however long ago its tip was read: only an activation of
\* other rows does (edge.rs: below the line is outside every reorg).
OnlyAnActivationOverturns ==
  \A c \in Colo, k \in Key : Untrue(c, k) \subseteq replaced

\* Only the operator's activation, which purges, reaches a kept answer (the
\* comment on the purge in admin_ingest).
OnlyTheOperatorOverturns ==
  \A c \in Colo, k \in Key : Untrue(c, k) \subseteq byOperator

\* Whether a key's answer speaks of one of the heights.
Covers(k, heights) == (k.from..k.to) \cap heights # {}

\* A step of the purge that is neither refused nor cut.
PurgeStep(place) == purge # None /\ purge.pc = place /\ purge' # purge /\ faults' = faults

\* When the last body of a purge is accepted and none was refused, no colo
\* still holds an answer of its heights that it held when the purge began,
\* whatever the key, and whatever bodies its tags were divided into; and
\* before that, with or without a zone, the colo at work has lost its own
\* answers by height and by hash of the rows withdrawn (purge, local_keys).
PurgeTakesWhatWasKept ==
  [][/\ PurgeStep("zone") /\ purge' = None /\ ~purge.refused
          => \A c \in Colo, k \in Key :
               cache'[c][k] # None /\ Covers(k, purge.heights) => ~cache'[c][k].old
     /\ PurgeStep("local")
          => \A k \in {x \in Key : x.kind \in {"height", "hash"}} :
               cache'[purge.colo][k] # None /\ cache'[purge.colo][k].old
                 => <<k.from, cache'[purge.colo][k].rows[k.from]>> \notin purge.rows]_vars
=============================================================================
