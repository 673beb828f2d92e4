------------------------------ MODULE Announce ------------------------------
(***************************************************************************)
(* The tip webhook: whichever invocation moved the tip, or finds a target  *)
(* still owed it, announces it (notify_tip).  Announcers hold no lease;    *)
(* they share one row of `sync_state` (the claim, its clock, the pending   *)
(* fork) and the `announce_deliveries` rows, and everything they decide is *)
(* decided on what they read before their POSTs.                           *)
(*                                                                         *)
(* The tip here is the served one; a reorg moves it and records the lowest *)
(* changed height in one transaction (handle_reorg, canonicalize_pushed;   *)
(* module HeaderStore).                                                    *)
(***************************************************************************)
EXTENDS Integers, FiniteSets

CONSTANTS
    Announcer,    \* invocations that may announce at the same time
    Target,       \* the consumers that TIP_WEBHOOK_URLS may name
    Casts,        \* bound: who meets, at which first tip, and how often it moves
    None,         \* SQL NULL
    StuckAfter,   \* ANNOUNCE_STUCK_AFTER
    MaxHeight,    \* bound: the highest tip
    MaxMoves,     \* bound: the most moves of a cast
    MaxCrashes    \* bound: how many announces are cut short

ASSUME AnnounceAssumption ==
    /\ None \notin Nat
    /\ {StuckAfter, MaxHeight} \subseteq Nat \ {0}
    /\ {MaxMoves, MaxCrashes} \subseteq Nat
    /\ Casts \subseteq [announcers : SUBSET Announcer, targets : SUBSET Target,
                         height : 1 .. MaxHeight, moves : 0 .. MaxMoves]

VARIABLES
    cast,         \* the invocations and the configured targets of this behaviour
    tip,          \* the served tip, [height, hash]; hashes are numbered as they arrive
    pending,      \* sync_state.pending_reorg_from
    claim,        \* last_synced_height, last_announced_hash (hash 0: NULL)
    fresh,        \* claimed_at is younger than CLAIM_IN_FLIGHT_S
    failures,     \* announce_failures, modulo StuckAfter
    stuck,        \* tip_announce_stuck_total > 0
    told,         \* announce_deliveries: [height, hash, fork] of each target
    pc,           \* where each announcer stands
    loc,          \* what it has read
    moves,        \* how often the tip has moved
    crashes,      \* how many announces were cut short
    \* History, read by the properties alone.
    carried,      \* the forks in the bodies that each target has accepted
    unheard,      \* the forks of which it has had no body since the last reorg from there
    contested,    \* the heights at which the claim has gone from one tip to another
    late          \* announcers still posting though their claim's window has passed

row == <<claim, fresh, failures, stuck>>
store == <<cast, tip, pending, moves>>
history == <<carried, unheard, contested, late>>
vars == <<cast, tip, pending, claim, fresh, failures, stuck, told, pc, loc, moves, crashes,
          carried, unheard, contested, late>>

NoTip == [height |-> 0, hash |-> 0]
Untold == [height |-> 0, hash |-> 0, fork |-> None]
Blank == [tip |-> NoTip, row |-> NoTip, failures |-> 0, owed |-> {},
          heard |-> [t \in Target |-> None], from |-> None, accepted |-> {}, refused |-> FALSE]

Is(d, t) == d.height = t.height /\ d.hash = t.hash

\* RECORD_PENDING_REORG_SQL: the lowest fork is kept.
Lower(a, b) == IF a = None \/ b < a THEN b ELSE a

-----------------------------------------------------------------------------
(* What an announcer computes from its reads.                               *)

\* tip_is_unannounced, and TIP_ANNOUNCE_SQL's WHERE on the row as it stands.
Unannounced(r, t) == r.height < t.height \/ (r.height = t.height /\ r.hash # t.hash)

\* The targets whose recorded delivery is not the tip read.
Owed(a) == {t \in cast.targets : ~Is(told[t], loc[a].tip)}

\* The fork the body for t carries: the pending one, unless t's record has it.
Carry(a, t) == IF loc[a].from # loc[a].heard[t] THEN loc[a].from ELSE None

\* Mutant of HeardByAll: one target is enough.
HeardByOne(a) ==
    \E t \in cast.targets :
        \/ t \in loc[a].accepted /\ Carry(a, t) = loc[a].from
        \/ loc[a].heard[t] = loc[a].from

HeardByAll(a) ==
    \A t \in cast.targets :
        \/ t \in loc[a].accepted /\ Carry(a, t) = loc[a].from
        \/ loc[a].heard[t] = loc[a].from

\* Mutants of Reclaimable: a claim is never taken over, as before round 3;
\* the claim's age is not asked.
ReclaimableNever(a) == FALSE
ReclaimableAtAnyAge(a) == Is(claim, loc[a].tip)

\* RECLAIM_ANNOUNCE_SQL: the claim is still the tip read, and old enough.
Reclaimable(a) == Is(claim, loc[a].tip) /\ ~fresh

\* Mutant of Records: the delivery is recorded whatever the row claims.
RecordsAlways(a) == TRUE

\* RECORD_DELIVERY_SQL's guard on the claim row.
Records(a) == Is(claim, loc[a].tip)

\* Mutant of Cleared: the marker is cleared whatever it has become.
ClearedBlindly(a) == None

\* CLEAR_PENDING_REORG_SQL: a compare-and-clear of the fork carried.
Cleared(a) == IF pending = loc[a].from THEN None ELSE pending

-----------------------------------------------------------------------------
Init ==
    /\ cast \in Casts
    /\ tip = [height |-> cast.height, hash |-> 1]
    /\ pending = None
    /\ claim = NoTip
    /\ fresh = FALSE
    /\ failures = 0
    /\ stuck = FALSE
    /\ told = [t \in Target |-> Untold]
    /\ pc = [a \in Announcer |-> "idle"]
    /\ loc = [a \in Announcer |-> Blank]
    /\ moves = 0
    /\ crashes = 0
    /\ carried = [t \in Target |-> {}]
    /\ unheard = [t \in Target |-> {}]
    /\ contested = {}
    /\ late = {}

At(a, place) == pc[a] = place
Goto(a, place) == pc' = [pc EXCEPT ![a] = place]
Leave(a) ==
    /\ Goto(a, "idle")
    /\ loc' = [loc EXCEPT ![a] = Blank]

\* The chain grows by one.
Extend ==
    /\ moves < cast.moves
    /\ tip.height < MaxHeight
    /\ tip' = [height |-> tip.height + 1, hash |-> moves + 2]
    /\ moves' = moves + 1
    /\ UNCHANGED <<cast, pending, row, told, pc, loc, crashes, history>>

\* A reorg at the height `from`, to a tip that may be higher, lower or as high
\* as the one before: RECORD_PENDING_REORG_SQL keeps the lowest fork.
Reorg(from, height) ==
    /\ moves < cast.moves
    /\ from <= tip.height
    /\ from <= height
    /\ tip' = [height |-> height, hash |-> moves + 2]
    /\ moves' = moves + 1
    /\ pending' = Lower(pending, from)
    /\ unheard' = [t \in Target |-> unheard[t] \cup {from}]
    /\ UNCHANGED <<cast, row, told, pc, loc, crashes, carried, contested, late>>

\* The tip is read once, before anything else.
ReadTip(a) ==
    /\ At(a, "idle")
    /\ a \in cast.announcers
    /\ loc' = [loc EXCEPT ![a].tip = tip]
    /\ Goto(a, "row")
    /\ UNCHANGED <<store, row, told, crashes, history>>

\* read_announced_tip.
ReadRow(a) ==
    /\ At(a, "row")
    /\ loc' = [loc EXCEPT ![a].row = claim, ![a].failures = failures]
    /\ Goto(a, "deliveries")
    /\ UNCHANGED <<store, row, told, crashes, history>>

\* read_deliveries: of each record what the announce asks of it.
ReadDeliveries(a) ==
    /\ At(a, "deliveries")
    /\ loc' = [loc EXCEPT ![a].owed = Owed(a), ![a].heard = [t \in Target |-> told[t].fork]]
    /\ Goto(a, "claim")
    /\ UNCHANGED <<store, row, told, crashes, history>>

\* The row read calls for TIP_ANNOUNCE_SQL, for RECLAIM_ANNOUNCE_SQL.
AsksForClaim(a) == Unannounced(loc[a].row, loc[a].tip)
AsksForReclaim(a) == Is(loc[a].row, loc[a].tip) /\ loc[a].owed # {}

\* The claim is a's: its clock starts, and the row read is not needed any more.
Announces(a) ==
    /\ fresh' = TRUE
    /\ loc' = [loc EXCEPT ![a].row = NoTip]
    /\ Goto(a, "pending")

\* TIP_ANNOUNCE_SQL: a new tip, by the row read and by the row as it stands.
Claim(a) ==
    /\ At(a, "claim")
    /\ AsksForClaim(a)
    /\ Unannounced(claim, loc[a].tip)
    /\ claim' = loc[a].tip
    /\ contested' = contested \cup {h \in {claim.height} : h = loc[a].tip.height}
    /\ Announces(a)
    /\ UNCHANGED <<store, failures, stuck, told, crashes, carried, unheard, late>>

\* RECLAIM_ANNOUNCE_SQL: a tip already claimed and still owed.
Reclaim(a) ==
    /\ At(a, "claim")
    /\ AsksForReclaim(a)
    /\ Reclaimable(a)
    /\ Announces(a)
    /\ UNCHANGED <<store, claim, failures, stuck, told, crashes, history>>

\* Neither changed a row: another announces it, or nothing is owed.
NotClaimed(a) ==
    /\ At(a, "claim")
    /\ ~(AsksForClaim(a) /\ Unannounced(claim, loc[a].tip))
    /\ ~(AsksForReclaim(a) /\ Reclaimable(a))
    /\ Leave(a)
    /\ UNCHANGED <<store, row, told, crashes, history>>

\* read_pending_reorg: a fault answers None.
ReadPending(a) ==
    /\ At(a, "pending")
    /\ \E from \in {pending, None} : loc' = [loc EXCEPT ![a].from = from]
    /\ Goto(a, "post")
    /\ UNCHANGED <<store, row, told, crashes, history>>

\* notify_tip_webhooks: the owed targets are asked one after another, each of
\* them even after a refusal.
Accepted(a, t) ==
    /\ At(a, "post")
    /\ t \in loc[a].owed
    /\ loc' = [loc EXCEPT ![a].owed = @ \ {t}, ![a].accepted = @ \cup {t}]
    /\ carried' = [carried EXCEPT ![t] = @ \cup ({Carry(a, t)} \ {None})]
    /\ unheard' = [unheard EXCEPT ![t] =
                     {from \in @ : Carry(a, t) = None \/ from < Carry(a, t)}]
    /\ UNCHANGED <<store, row, told, pc, crashes, contested, late>>

Refused(a, t) ==
    /\ At(a, "post")
    /\ t \in loc[a].owed
    /\ loc' = [loc EXCEPT ![a].owed = @ \ {t}, ![a].refused = TRUE]
    /\ UNCHANGED <<store, row, told, pc, crashes, history>>

\* Every owed target has answered.  One RECORD_DELIVERY_SQL a target that accepted,
\* in one batch; a body with no fork keeps the fork already recorded (COALESCE).
RecordDeliveries(a) ==
    /\ At(a, "post")
    /\ loc[a].owed = {}
    /\ told' = [t \in Target |->
                  IF t \in loc[a].accepted /\ Records(a)
                    THEN [height |-> loc[a].tip.height, hash |-> loc[a].tip.hash,
                          fork |-> IF Carry(a, t) # None THEN Carry(a, t) ELSE told[t].fork]
                    ELSE told[t]]
    /\ late' = late \ {a}
    /\ Goto(a, "clear")
    /\ UNCHANGED <<store, row, loc, crashes, carried, unheard, contested>>

\* clear_pending_reorg, once every target has the fork; a fault leaves the marker.
\* Only the count of failures is still to be written.
ClearPending(a) ==
    /\ At(a, "clear")
    /\ \/ /\ loc[a].from # None
          /\ HeardByAll(a)
          /\ pending' = Cleared(a)
       \/ UNCHANGED pending
    /\ loc' = [loc EXCEPT ![a] = [Blank EXCEPT !.failures = loc[a].failures,
                                               !.refused = loc[a].refused]]
    /\ Goto(a, "count")
    /\ UNCHANGED <<cast, tip, moves, row, told, crashes, history>>

\* SET_ANNOUNCE_FAILURES_SQL on the count read before the POSTs, and
\* COUNT_ANNOUNCE_STUCK_SQL at every multiple.
CountFailures(a) ==
    /\ At(a, "count")
    /\ LET count == IF loc[a].refused THEN (loc[a].failures + 1) % StuckAfter ELSE 0
       IN  /\ failures' = count
           /\ stuck' = (stuck \/ (loc[a].refused /\ count = 0))
    /\ Leave(a)
    /\ UNCHANGED <<store, claim, fresh, told, crashes, history>>

\* The invocation is evicted, or a write of its own fails, between two steps.
Crash(a) ==
    /\ pc[a] \notin {"idle", "row", "deliveries"}
    /\ crashes < MaxCrashes
    /\ crashes' = crashes + 1
    /\ late' = late \ {a}
    /\ Leave(a)
    /\ UNCHANGED <<store, row, told, carried, unheard, contested>>

\* CLAIM_IN_FLIGHT_S have passed since the last claim.
WindowPasses ==
    /\ fresh
    /\ fresh' = FALSE
    /\ late' = {a \in Announcer : pc[a] \in {"pending", "post"}}
    /\ UNCHANGED <<store, claim, failures, stuck, told, pc, loc, crashes, carried, unheard, contested>>

Step(a) ==
    \/ ReadRow(a) \/ ReadDeliveries(a) \/ Claim(a) \/ Reclaim(a) \/ NotClaimed(a)
    \/ ReadPending(a) \/ (\E t \in Target : Accepted(a, t) \/ Refused(a, t))
    \/ RecordDeliveries(a) \/ ClearPending(a) \/ CountFailures(a)

Next ==
    \/ Extend
    \/ \E from, height \in 1 .. MaxHeight : Reorg(from, height)
    \/ \E a \in Announcer : ReadTip(a) \/ Step(a) \/ Crash(a)
    \/ WindowPasses

Spec == Init /\ [][Next]_vars

\* Every minute a pass announces; time passes; a target that is asked again and
\* again accepts once.
Fairness ==
    /\ WF_vars(WindowPasses)
    /\ \A a \in Announcer : WF_vars(ReadTip(a)) /\ WF_vars(Step(a))
    /\ \A t \in Target : SF_vars(\E a \in Announcer : Accepted(a, t))

FairSpec == Spec /\ Fairness

-----------------------------------------------------------------------------
(* Properties.                                                              *)

\* A tip, a delivery's record, and what an announcer has read.
Tip == [height : 0 .. MaxHeight, hash : 0 .. MaxMoves + 1]
Fork == 1 .. MaxHeight \cup {None}
Delivery == [height : 0 .. MaxHeight, hash : 0 .. MaxMoves + 1, fork : Fork]
Reading == [tip : Tip, row : Tip, failures : 0 .. StuckAfter - 1, owed : SUBSET Target,
            heard : [Target -> Fork], from : Fork, accepted : SUBSET Target, refused : BOOLEAN]
Place == {"idle", "row", "deliveries", "claim", "pending", "post", "clear", "count"}

\* Type invariant of the row, the deliveries and the announcers.
TypeOK ==
    /\ cast \in Casts
    /\ {tip, claim} \subseteq Tip
    /\ pending \in Fork
    /\ {fresh, stuck} \subseteq BOOLEAN
    /\ failures \in 0 .. StuckAfter - 1
    /\ told \in [Target -> Delivery]
    /\ pc \in [Announcer -> Place]
    /\ loc \in [Announcer -> Reading]
    /\ moves \in 0 .. MaxMoves
    /\ crashes \in 0 .. MaxCrashes
    /\ carried \in [Target -> SUBSET (1 .. MaxHeight)]
    /\ unheard \in [Target -> SUBSET (1 .. MaxHeight)]
    /\ contested \subseteq 0 .. MaxHeight
    /\ late \subseteq Announcer

\* "The fork is cleared once EVERY configured target has accepted a body carrying
\* it" (notify_tip), it being a height: whatever the announcers read before their
\* POSTs, and whatever was recorded or cut, a height is cleared only when every
\* target has accepted a body with it.
ClearedForkWasCarried ==
    [][pending # None /\ pending' = None => \A t \in cast.targets : pending \in carried[t]]_vars

\* The same of the reorg and not of its height: since the last reorg from there every
\* target has accepted a body that makes it verify from there on.  It fails when two
\* reorgs fork at one height.
ClearedForkWasHeard ==
    [][pending # None /\ pending' = None => \A t \in cast.targets : pending \notin unheard[t]]_vars

\* "Each owed target carries the fork until IT has accepted a body carrying it"
\* (notify_tip), of the reorg again; it fails likewise.
BodyCarriesUnheardFork ==
    \A a \in Announcer, t \in Target :
        At(a, "post") /\ t \in loc[a].owed /\ loc[a].from \in unheard[t] => Carry(a, t) = loc[a].from

\* Every fork "rides to each target until that target has accepted a body
\* carrying it" (announce_deliveries): a fork some consumer has not been told
\* of is still covered by the pending one.  It fails when a reorg is folded into a
\* marker that is about to be cleared.
ForkWaitsForEveryTarget ==
    \A t \in cast.targets : \A from \in unheard[t] : pending # None /\ pending <= from

\* However late a delivery answers, and whoever has claimed what since, no record
\* is moved to a lower tip (RECORD_DELIVERY_SQL's guard on the claim row).
DeliveryNeverSinks == [][\A t \in Target : told'[t].height >= told[t].height]_vars

\* "A delivery of a tip that is no longer the claimed one [...] records nothing, so
\* it can never rewrite a newer record" (RECORD_DELIVERY_SQL): no target's record
\* is moved to an older tip.  Hashes are numbered as they arrive.  It fails among
\* tips of one height, where the claim goes back and forth.
DeliveryIsNeverRewritten == [][\A t \in Target : told'[t].hash >= told[t].hash]_vars

\* Announcers inside the window of a claim of the tip now claimed.
InTheWindow(a) ==
    /\ a \notin late
    /\ pc[a] \in {"pending", "post"}
    /\ Is(claim, loc[a].tip)

\* Inside a claim's window one announcer alone posts the claimed tip ("one isolate
\* wins, the rest return"), unless the claim has gone from one tip to another of
\* the same height: then it may come back to a tip that is still being posted.
OneAnnouncerInFlight ==
    \A a, b \in Announcer :
        InTheWindow(a) /\ InTheWindow(b) => a = b \/ claim.height \in contested

\* The same with no exception, as the comment has it.
OneIsolateWins ==
    \A a, b \in Announcer : InTheWindow(a) /\ InTheWindow(b) => a = b

\* Once the chain rests, every target ends with the tip, whatever refusals,
\* lost announces and stale claims came before; only a tip lower than the
\* claimed one is not announced (TIP_ANNOUNCE_SQL).
EveryTargetIsTold ==
    <>[](\A t \in cast.targets : tip.height >= claim.height => Is(told[t], tip))
=============================================================================
