---------------------------- MODULE Revalidation ----------------------------
(***************************************************************************)
(* The re-validation of a store that is older than the header rules        *)
(* (migration 0008) and the ceiling it puts on what is served.             *)
(*                                                                         *)
(* A step is several reads and one or two writes of sync_state, none of    *)
(* them fenced.  The cron's step runs under the writer lease; the admin's  *)
(* runs under none, beside the cron's and beside the pushes.  The block    *)
(* tree is a constant; its active chain is the tip's ancestry, and the     *)
(* rules are the set of the rows that pass them on their parents.          *)
(***************************************************************************)
EXTENDS Integers, FiniteSets, FiniteSetsExt

CONSTANTS
    Block,        \* the headers of the tree
    None,
    Root,         \* the lowest row the store holds
    Parent,       \* previous_hash, for every block but the root
    Height,
    Valid,        \* those that pass check_pow and check_context
    Old,          \* those in the store at the deploy
    OldTip,       \* and their tip
    Checkpoint,   \* the blocks ChainParams::checkpoints names
    Stepper,      \* invocations that run revalidate_step
    Leased,       \* those that hold the writer lease around it
    Budget,       \* REVALIDATE_CHUNK
    WalkLimit,    \* walk_back's 400 rows
    MaxRestarts,  \* bound: the operator's restarts
    MaxCuts       \* bound: steps cut short

ASSUME TreeAssumption ==
    /\ Root \in Old /\ Old \subseteq Block /\ Valid \subseteq Block
    /\ OldTip \in Old /\ Checkpoint \subseteq Block /\ None \notin Block
    /\ Height \in [Block -> Nat]
    /\ \A b \in Block \ {Root} : Parent[b] \in Block /\ Height[b] = Height[Parent[b]] + 1
    /\ \A b \in Old \ {Root} : Parent[b] \in Old
    /\ Leased \subseteq Stepper
    /\ Budget \in Nat \ {0} /\ {WalkLimit, MaxRestarts, MaxCuts} \subseteq Nat

VARIABLES
    stored,       \* headers
    tip,          \* the row with is_chain_tip
    val,          \* validated_height and _hash, validation_fault, validation_complete
    pc,
    loc,          \* what a step has read, and what it is about to write
    restarts,
    cuts,
    returned      \* history: the rows reorgs have put on the active chain

rows == <<stored, tip, returned>>
steps == <<pc, loc>>
vars == <<rows, val, steps, restarts, cuts>>

\* asks: the checkpoints still to look for; row, walked: where a walk back stands.
Blank == [at |-> None, tip |-> None, asks |-> {}, anchor |-> None, row |-> None, walked |-> 0,
          cursor |-> None, last |-> None, fault |-> FALSE, complete |-> FALSE]

-----------------------------------------------------------------------------
\* A row and its ancestors.
chainOf[b \in Block] == IF b = Root THEN {b} ELSE {b} \cup chainOf[Parent[b]]
Active == IF tip = None THEN {} ELSE chainOf[tip]
RowAt(h) == {b \in Active : Height[b] = h}

\* served_ceiling: whether a row of this height is served.
Admits(h) == val.complete \/ (val.at # None /\ h <= Height[val.at])

\* Mutant of OnChain: every row that was read counts as active.
OnChainAlways(b) == TRUE

\* is_active, as a row is read.
OnChain(b) == b \in Active

\* Mutant of Passed: the row the rules refused is passed as the last.
PassedTheRefused(cursor, hi) ==
    {b \in Active : /\ Height[b] <= hi /\ cursor \in chainOf[b]
                    /\ \A c \in chainOf[b] \ {b} : Height[c] > Height[cursor] => c \in Valid}

\* The rows from the cursor up to hi that pass, each on the one before it.
Passed(cursor, hi) ==
    {b \in Active : /\ Height[b] <= hi /\ cursor \in chainOf[b]
                    /\ \A c \in chainOf[b] : Height[c] > Height[cursor] => c \in Valid}

-----------------------------------------------------------------------------
\* A store with rows starts the pass; an empty one has nothing to re-validate.
Init ==
    /\ \/ stored = Old /\ tip = OldTip
       \/ stored = {} /\ tip = None
    /\ val = [at |-> None, fault |-> FALSE, complete |-> tip = None]
    /\ pc = [s \in Stepper |-> "idle"]
    /\ loc = [s \in Stepper |-> Blank]
    /\ restarts = 0
    /\ cuts = 0
    /\ returned = {}

Goto(s, where, read) ==
    /\ pc' = [pc EXCEPT ![s] = where]
    /\ loc' = [loc EXCEPT ![s] = read]

\* read_validation_state: a completed or faulted pass is left alone.
ReadState(s) ==
    /\ pc[s] = "idle"
    /\ ~val.complete /\ ~val.fault
    /\ Goto(s, "tip", [Blank EXCEPT !.at = val.at])
    /\ UNCHANGED <<rows, val, restarts, cuts>>

\* The tip.  A store with no rows completes the pass.
ReadTip(s) ==
    /\ pc[s] = "tip"
    /\ IF tip = None THEN Goto(s, "write", [Blank EXCEPT !.complete = TRUE])
       ELSE Goto(s, "anchor", [loc[s] EXCEPT !.tip = tip,
                                             !.asks = {c \in Checkpoint : Height[c] <= Height[tip]}])
    /\ UNCHANGED <<rows, val, restarts, cuts>>

\* One checkpoint's height, the highest first.  The row there is the anchor; a
\* height without a row is left for the next; another row than the checkpoint's,
\* or no checkpoint held at all, is a fault with nothing passed.
ReadAnchor(s) ==
    /\ pc[s] = "anchor"
    /\ LET l == loc[s]
           highest == {c \in l.asks : \A d \in l.asks : Height[d] <= Height[c]}
       IN  IF highest = {} THEN Goto(s, "write", [Blank EXCEPT !.fault = TRUE])
           ELSE \E c \in highest :
               IF c \in Active THEN Goto(s, "cursor", [l EXCEPT !.anchor = c, !.asks = {}])
               ELSE IF RowAt(Height[c]) = {} THEN Goto(s, "anchor", [l EXCEPT !.asks = @ \ {c}])
               ELSE Goto(s, "write", [Blank EXCEPT !.fault = TRUE])
    /\ UNCHANGED <<rows, val, restarts, cuts>>

\* The cursor is found; one that is not the stored one is written first.
Settle(s, c) == Goto(s, IF c = loc[s].at THEN "compare" ELSE "keep", [loc[s] EXCEPT !.cursor = c])

\* The stored cursor, if it is active above the anchor.
ReadCursor(s) ==
    /\ pc[s] = "cursor"
    /\ LET l == loc[s]
       IN  IF l.at = None \/ Height[l.at] <= Height[l.anchor] THEN Settle(s, l.anchor)
           ELSE IF OnChain(l.at) THEN Settle(s, l.at)
           ELSE Goto(s, "walk", [l EXCEPT !.row = l.at])
    /\ UNCHANGED <<rows, val, restarts, cuts>>

\* One walk_back from a cursor a reorg took off the chain: to the fork point, or
\* to the anchor past the walk's reach or below its height.
WalkBack(s) ==
    /\ pc[s] = "walk"
    /\ LET l == loc[s]
       IN  IF l.walked = WalkLimit \/ l.row = Root \/ Height[Parent[l.row]] < Height[l.anchor]
           THEN Settle(s, l.anchor)
           ELSE IF OnChain(Parent[l.row]) THEN Settle(s, Parent[l.row])
           ELSE Goto(s, "walk", [l EXCEPT !.row = Parent[l.row], !.walked = @ + 1])
    /\ UNCHANGED <<rows, val, restarts, cuts>>

\* Mutant of SetValidated: the cursor is kept only once it is at the tip.
SetValidatedAtTheEnd(at, complete) ==
    val' = [val EXCEPT !.at = IF complete THEN at ELSE @, !.complete = complete]

\* set_validated, with complete as given; the fault column is not touched.
SetValidated(at, complete) == val' = [val EXCEPT !.at = at, !.complete = complete]

\* A cursor that moved is written before the rows are read.
KeepCursor(s) ==
    /\ pc[s] = "keep"
    /\ SetValidated(loc[s].cursor, FALSE)
    /\ Goto(s, "compare", loc[s])
    /\ UNCHANGED <<rows, restarts, cuts>>

\* A cursor at the tip completes the pass; else the rows above it are read and
\* judged.  hi is the lower of the tip read before and the budget.
JudgeRows(s) ==
    /\ pc[s] = "compare"
    /\ LET l == loc[s]
           hi == Min({Height[l.tip], Height[l.cursor] + Budget})
           passed == Passed(l.cursor, hi)
           last == IF passed = {} THEN l.cursor
                   ELSE CHOOSE b \in passed : \A c \in passed : Height[c] <= Height[b]
       IN  IF Height[l.cursor] >= Height[l.tip]
           THEN Goto(s, "write", [l EXCEPT !.last = l.tip, !.complete = TRUE])
           ELSE Goto(s, "write", [l EXCEPT !.last = last, !.fault = Height[last] < hi,
                                           !.complete = Height[last] >= Height[l.tip]])
    /\ UNCHANGED <<rows, val, restarts, cuts>>

\* The step's last write: set_validated or record_validation_fault.
Write(s) ==
    /\ pc[s] = "write"
    /\ IF loc[s].fault THEN val' = [at |-> loc[s].last, fault |-> TRUE, complete |-> FALSE]
                       ELSE SetValidated(loc[s].last, loc[s].complete)
    /\ Goto(s, "idle", Blank)
    /\ UNCHANGED <<rows, restarts, cuts>>

\* The invocation ends inside the step.
Cut(s) ==
    /\ pc[s] # "idle" /\ cuts < MaxCuts
    /\ cuts' = cuts + 1
    /\ Goto(s, "idle", Blank)
    /\ UNCHANGED <<rows, val, restarts>>

\* /admin/revalidate?restart=1, at any time.
Restart ==
    /\ restarts < MaxRestarts
    /\ restarts' = restarts + 1
    /\ val' = [at |-> None, fault |-> FALSE, complete |-> FALSE]
    /\ UNCHANGED <<rows, steps, cuts>>

\* A writer under the lease stores a header that passes the rules; the heavier
\* branch is the active one.  A fork below a held checkpoint is refused, and an
\* empty store takes a checkpoint's block alone.
Store(b) ==
    /\ \A s \in Leased : pc[s] = "idle"
    /\ b \in Valid \ stored
    /\ \/ stored = {} /\ b = Root /\ b \in Checkpoint
       \/ b # Root /\ Parent[b] \in stored /\ Checkpoint \cap Active \subseteq chainOf[b]
    /\ \A c \in Checkpoint : Height[c] = Height[b] => c = b
    /\ stored' = stored \cup {b}
    /\ tip' = IF tip = None \/ Height[b] > Height[tip] THEN b ELSE tip
    /\ returned' = returned \cup (chainOf[tip'] \ (Active \cup {b}))
    /\ UNCHANGED <<val, steps, restarts, cuts>>

-----------------------------------------------------------------------------
Step(s) ==
    \/ ReadState(s) \/ ReadTip(s) \/ ReadAnchor(s)
    \/ ReadCursor(s) \/ WalkBack(s) \/ KeepCursor(s)
    \/ JudgeRows(s) \/ Write(s)

Next ==
    \/ \E s \in Stepper : Step(s) \/ Cut(s)
    \/ Restart
    \/ \E b \in Block : Store(b)

Spec == Init /\ [][Next]_vars

\* The cron takes a step every minute, and a step that is not cut ends.
FairSpec == Spec /\ \A s \in Leased : WF_vars(Step(s))

-----------------------------------------------------------------------------
\* Types of the rows, the record and a step; the tip is a stored row.
TypeOK ==
    /\ stored \subseteq Block
    /\ tip \in stored \cup {None}
    /\ val \in [at : Block \cup {None}, fault : BOOLEAN, complete : BOOLEAN]
    /\ pc \in [Stepper -> {"idle", "tip", "anchor", "cursor", "walk", "keep", "compare", "write"}]
    /\ loc \in [Stepper -> [at : Block \cup {None}, tip : Block \cup {None}, asks : SUBSET Checkpoint,
                            anchor : Block \cup {None}, row : Block \cup {None}, walked : 0..WalkLimit,
                            cursor : Block \cup {None}, last : Block \cup {None},
                            fault : BOOLEAN, complete : BOOLEAN]]
    /\ val.at \in stored \cup {None}
    /\ restarts \in 0..MaxRestarts /\ cuts \in 0..MaxCuts
    /\ returned \subseteq stored

\* The rows a checkpoint's hash commits to.
Vouched == UNION {chainOf[c] : c \in Checkpoint}

\* The active rows the rules refuse, that no checkpoint vouches for and that have
\* been active since the deploy.
Refused == Active \ (Valid \cup Vouched \cup returned)

\* "The rows from the refused one up are never served" (revalidate_step), through
\* restarts, cut steps, two steps at once and reorgs between two reads.  What it
\* leaves out is a refused row that a reorg takes off the chain and another puts
\* back: the insert judges the new header alone (ServedIsValid fails of it).
RefusedIsNotServed == \A b \in Refused : ~Admits(Height[b])

\* Every row served passed the rules, in its step or on its way in (Ceiling::All:
\* "re-validated from the last checkpoint, or written since through the checks").
\* A reorg can put back a row that did neither.
ServedIsValid == \A b \in Active : Admits(Height[b]) => b \in Valid

\* A completed re-validation stays complete until the operator restarts it
\* (migration 0008: "`validation_complete` 1 once the cursor reached the tip").
CompleteStays == [][val.complete => val'.complete \/ restarts' # restarts]_vars

\* The cron's step faults only a row the rules refuse, the one right above what it
\* passed: a reorg since the cursor was kept moves it to the fork point and
\* stops nothing ("after a reorg below it, the fork point").
FaultIsReal ==
    [][\A s \in Leased : Write(s) /\ loc[s].fault =>
         \E b \in Active \ Valid : b # Root /\ Parent[b] = val'.at]_vars

\* Every pass ends, complete or at a fault, through reorgs, cut steps, a restart
\* and another step's older cursor (the cursor is kept, REVALIDATE_CHUNK).
PassEnds == <>[](val.complete \/ val.fault)
=============================================================================
