---------------------------- MODULE WriterLease ----------------------------
(***************************************************************************)
(* The writer lease of the header store: one row of `sync_state` names the *)
(* invocation (cron pass, tick, push, operator route) that may write the   *)
(* `headers` table, and until which second.  Every header write of a       *)
(* holder carries a fence, a guard in the write's own transaction, so the  *)
(* lease is only as good as three readings of one clock agree: the take    *)
(* and the fence in whole seconds, the remaining term in milliseconds.     *)
(*                                                                         *)
(* A Writer is one invocation: it draws a fresh random token, so it takes  *)
(* the lease at most once.  A writer turned away (Busy) changes nothing    *)
(* and asks again as a new invocation, which is the same state here.       *)
(***************************************************************************)
EXTENDS Integers

CONSTANTS
    Writer,       \* invocations that write headers
    Pass,         \* those that are a cron pass or a tick (`Fenced::close` ends them)
    None,         \* no writer: SQL NULL in lease_owner
    Term,         \* LEASE_S, the term in seconds
    MsPerS,       \* milliseconds in a second
    FaultyTake    \* may the take's UPDATE fail, or its answer be lost?

ASSUME LeaseAssumption ==
    /\ Pass \subseteq Writer
    /\ None \notin Writer
    /\ Term \in Nat \ {0}
    /\ MsPerS \in Nat \ {0}
    /\ FaultyTake \in BOOLEAN

VARIABLES
    nowS,         \* the database clock, whole seconds
    ms,           \* and the milliseconds of the running second
    owner,        \* sync_state.lease_owner
    until,        \* sync_state.lease_until (0 for NULL)
    pc,           \* where each invocation stands
    lapsed,       \* Fenced::lapsed, the holders that know their term is over
    stamped,      \* passes that wrote last_pass_at
    \* History, read by the properties alone.
    granted,      \* the second each holder was given
    refused,      \* holders the fence turned back
    turn,         \* the holder that last committed a header write
    over,         \* holders after whom another holder has committed
    stray         \* running unserialized writers that committed a header write

lease == <<owner, until>>
history == <<granted, refused, turn, over, stray>>
vars == <<nowS, ms, owner, until, pc, lapsed, stamped,
          granted, refused, turn, over, stray>>

Places == {"ask", "held", "unserialized", "probe", "release", "done", "dead"}

-----------------------------------------------------------------------------
(* Mutants: plausible slips in the statements below.                        *)

TakeableAtItsSecond(w) == owner = None \/ owner = w \/ until <= nowS
TakeableWhenFree(w) == owner = None \/ owner = w
FenceOwnerBlind(w) == until >= nowS
LeaseLeftOwnerBlind(w) == (until + 1) * MsPerS - (nowS * MsPerS + ms)
TickLate ==
    /\ owner # None
    /\ until >= nowS
    /\ IF ms < MsPerS
         THEN ms' = ms + 1 /\ nowS' = nowS
         ELSE ms' = 0 /\ nowS' = nowS + 1
    /\ UNCHANGED <<lease, pc, lapsed, stamped, history>>

-----------------------------------------------------------------------------
(* The three readings of the lease row.                                     *)

\* TAKE_LEASE_SQL: free, already mine, or past its second.
Takeable(w) == owner = None \/ owner = w \/ until < nowS

\* FENCE_SQL lets w's transaction commit.
Fence(w) == owner = w /\ until >= nowS

\* LEASE_LEFT_SQL, in milliseconds; 0 when the row is no longer w's.
LeaseLeft(w) ==
    IF owner = w THEN (until + 1) * MsPerS - (nowS * MsPerS + ms) ELSE 0

-----------------------------------------------------------------------------
Init ==
    /\ nowS = 1
    /\ ms = 0
    /\ owner = None
    /\ until = 0
    /\ pc = [w \in Writer |-> "ask"]
    /\ lapsed = {}
    /\ stamped = {}
    /\ granted = [w \in Writer |-> 0]
    /\ refused = {}
    /\ turn = None
    /\ over = {}
    /\ stray = {}

Goto(w, place) == pc' = [pc EXCEPT ![w] = place]

\* The invocation ends; what it alone kept goes with it.
Leave(w, place) ==
    /\ Goto(w, place)
    /\ lapsed' = lapsed \ {w}
    /\ granted' = [granted EXCEPT ![w] = 0]
    /\ stray' = stray \ {w}

\* The clock, which nothing reads while no lease is running: it need only
\* advance until the lease's second is past.
Tick ==
    /\ owner # None
    /\ until >= nowS
    /\ IF ms + 1 < MsPerS
         THEN ms' = ms + 1 /\ nowS' = nowS
         ELSE ms' = 0 /\ nowS' = nowS + 1
    /\ UNCHANGED <<lease, pc, lapsed, stamped, history>>

\* take_lease answers Held: one UPDATE, one changed row.
Take(w) ==
    /\ pc[w] = "ask"
    /\ Takeable(w)
    /\ owner' = w
    /\ until' = nowS + Term
    /\ granted' = [granted EXCEPT ![w] = nowS + Term]
    /\ Goto(w, "held")
    /\ UNCHANGED <<nowS, ms, lapsed, stamped, refused, turn, over, stray>>

\* take_lease answers Unserialized: no token, or the UPDATE failed.
TakeFault(w) ==
    /\ FaultyTake
    /\ pc[w] = "ask"
    /\ Goto(w, "unserialized")
    /\ UNCHANGED <<nowS, ms, lease, lapsed, stamped, history>>

\* The UPDATE committed and its answer did not arrive: the row names a writer
\* that will never release it, and that writer goes on unserialized.
TakeAnswerLost(w) ==
    /\ FaultyTake
    /\ pc[w] = "ask"
    /\ Takeable(w)
    /\ owner' = w
    /\ until' = nowS + Term
    /\ Goto(w, "unserialized")
    /\ UNCHANGED <<nowS, ms, lapsed, stamped, history>>

\* Fenced::fenced: the guard and the header write are one transaction.
Commit(w) ==
    /\ pc[w] = "held"
    /\ w \notin lapsed
    /\ Fence(w)
    /\ turn' = w
    /\ over' = IF turn \in {None, w} THEN over ELSE over \cup {turn}
    /\ UNCHANGED <<nowS, ms, lease, pc, lapsed, stamped, granted, refused, stray>>

\* The guard refuses; the holder does not know yet why its batch failed.
FenceRefuses(w) ==
    /\ pc[w] = "held"
    /\ w \notin lapsed
    /\ ~Fence(w)
    /\ refused' = refused \cup {w}
    /\ Goto(w, "probe")
    /\ UNCHANGED <<nowS, ms, lease, lapsed, stamped, granted, turn, over, stray>>

\* The batch failed for a reason of its own (a store fault).
BatchFault(w) ==
    /\ pc[w] = "held"
    /\ w \notin lapsed
    /\ Goto(w, "probe")
    /\ UNCHANGED <<nowS, ms, lease, lapsed, stamped, history>>

\* Fenced::fenced's error arm: the term read tells a lapse from a store fault;
\* a term that cannot be read counts as spent.
Probe(w) ==
    /\ pc[w] = "probe"
    /\ \E left \in {LeaseLeft(w), 0} :
         lapsed' = IF left > 0 THEN lapsed ELSE lapsed \cup {w}
    /\ Goto(w, "held")
    /\ UNCHANGED <<nowS, ms, lease, stamped, history>>

\* heal_links reads a spent term before its write and does not write.
NoteLapse(w) ==
    /\ pc[w] = "held"
    /\ w \in Pass
    /\ LeaseLeft(w) <= 0
    /\ lapsed' = lapsed \cup {w}
    /\ UNCHANGED <<nowS, ms, lease, pc, stamped, history>>

\* Fenced::close, for a pass; the other writers go to their release directly.
\* A pass answers Completed, Skipped or an error; the first is stamped unless
\* its lease lapsed under it.
Close(w) ==
    /\ pc[w] = "held"
    /\ \E pass \in {"completed", "skipped", "error"} :
         stamped' = IF w \in Pass /\ pass = "completed" /\ w \notin lapsed
                      THEN stamped \cup {w} ELSE stamped
    /\ Goto(w, "release")
    /\ UNCHANGED <<nowS, ms, lease, lapsed, history>>

\* RELEASE_LEASE_SQL changes the row only when it still names w.
Release(w) ==
    /\ pc[w] = "release"
    /\ owner' = IF owner = w THEN None ELSE owner
    /\ until' = IF owner = w THEN 0 ELSE until
    /\ Leave(w, "done")
    /\ UNCHANGED <<nowS, ms, stamped, refused, turn, over>>

\* The release failed: the term frees the lease.
ReleaseFault(w) ==
    /\ pc[w] = "release"
    /\ Leave(w, "done")
    /\ UNCHANGED <<nowS, ms, lease, stamped, refused, turn, over>>

\* An unserialized writer's headers go to the store with no fence.
StrayCommit(w) ==
    /\ pc[w] = "unserialized"
    /\ stray' = stray \cup {w}
    /\ UNCHANGED <<nowS, ms, lease, pc, lapsed, stamped, granted, refused, turn, over>>

\* It ends without a lease to give back; its pass is stamped as any other.
StrayClose(w) ==
    /\ pc[w] = "unserialized"
    /\ \E pass \in {"completed", "skipped", "error"} :
         stamped' = IF w \in Pass /\ pass = "completed" THEN stamped \cup {w} ELSE stamped
    /\ Leave(w, "done")
    /\ UNCHANGED <<nowS, ms, lease, refused, turn, over>>

\* The invocation is evicted or passes its limits, between two of its steps.
Crash(w) ==
    /\ pc[w] \in {"held", "unserialized", "probe", "release"}
    /\ Leave(w, "dead")
    /\ UNCHANGED <<nowS, ms, lease, stamped, refused, turn, over>>

Step(w) ==
    \/ Take(w) \/ TakeFault(w) \/ TakeAnswerLost(w)
    \/ Commit(w) \/ FenceRefuses(w) \/ BatchFault(w) \/ Probe(w) \/ NoteLapse(w)
    \/ Close(w) \/ Release(w) \/ ReleaseFault(w)
    \/ StrayCommit(w) \/ StrayClose(w) \/ Crash(w)

Next == Tick \/ \E w \in Writer : Step(w)

\* The clock runs, and the minute cron asks for the lease again and again; no
\* holder is assumed to finish, release or survive.
Fairness == WF_vars(Tick) /\ \A w \in Pass : WF_vars(Take(w))

Spec == Init /\ [][Next]_vars /\ Fairness

-----------------------------------------------------------------------------
(* Properties.                                                              *)

\* Type invariant of the lease row, the clock and the invocations.
TypeOK ==
    /\ nowS \in Nat
    /\ ms \in 0 .. MsPerS - 1
    /\ owner \in Writer \cup {None}
    /\ until \in Nat
    /\ pc \in [Writer -> Places]
    /\ lapsed \subseteq Writer
    /\ stamped \subseteq Writer
    /\ granted \in [Writer -> Nat]
    /\ refused \subseteq Writer
    /\ turn \in Writer \cup {None}
    /\ over \subseteq Writer
    /\ stray \subseteq Writer

\* The header writes of two holders never interleave: once another holder has
\* committed after w, w never commits again, however late it wakes up
\* (the interleaved reorg sync and push of #32; FENCE_SQL).
HoldsNeverInterleave == [][turn' # turn => turn' \notin over]_vars

\* A holder that is inside the second it was given still owns the row: no take,
\* and no late release of a lapsed holder, can take the lease from under it
\* (TAKE_LEASE_SQL's expiry clause, RELEASE_LEASE_SQL's owner clause).
HolderKeepsItsTerm ==
    \A w \in Writer :
        pc[w] \in {"held", "probe"} /\ granted[w] >= nowS
            => owner = w /\ until = granted[w]

\* A pass the fence turned back is never stamped as completed, whichever leg
\* the refusal cut and however the milliseconds fall: the fence compares whole
\* seconds, the term read that classifies the failure compares milliseconds
\* (Fenced::fenced, Fenced::close).
StampedPassWasNeverRefused == stamped \cap refused = {}

\* The lease gives the store in turns (StoreTurns): a stamped pass is complete, a
\* refused one is broken, whatever it does after.
Stage(w) ==
    CASE w \in stamped                                -> "complete"
      [] w \in refused \ stamped                      -> "broken"
      [] w \notin refused \cup stamped /\ pc[w] = "ask" -> "waiting"
      [] w \notin refused \cup stamped /\ pc[w] = "unserialized" -> "aside"
      [] w \notin refused \cup stamped /\ pc[w] \in {"held", "probe"} -> "turn"
      [] w \notin refused \cup stamped /\ pc[w] \in {"release", "done", "dead"} -> "ended"

Turns == INSTANCE StoreTurns
    WITH stage <- [w \in Writer |-> Stage(w)], current <- turn, gone <- over

\* Takes, fences, faults, lapses and late releases together implement turns: no
\* holder writes out of its turn, none goes on after a refusal, and only an
\* unbroken turn is stamped complete (take_lease, Fenced, release_lease).
GivesTurns == Turns!Spec

\* However many holders die, hang or fail to release, a pass that keeps asking
\* is given the lease (or goes on unserialized).
EveryPassGetsIn == \A w \in Pass : pc[w] = "ask" ~> pc[w] # "ask"

\* "The cron's pass, a tick the push covers, a push through the tip stream's
\* door [...] Each takes the writer lease": no header is written by a writer
\* without the lease while another holds it inside its term (take_lease).
HeldStoreIsLeftAlone ==
    [][~(stray' \subseteq stray) => ~ \E v \in Writer : pc[v] = "held" /\ Fence(v)]_vars

=============================================================================
