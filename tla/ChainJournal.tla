---------------------------- MODULE ChainJournal ----------------------------
(***************************************************************************)
(* The chain events the store writes about itself: triggers on `headers`   *)
(* and `sync_state` journal the tip, the reorg and the fork inside the     *)
(* transaction that makes them true.  This module runs HeaderStore with    *)
(* its triggers; the journal's rows are handed out by EventFeed.           *)
(*                                                                         *)
(* The store here is one whose validation is complete, so the served tip   *)
(* is the active row that carries the tip flag.                            *)
(***************************************************************************)
EXTENDS HeaderStore

VARIABLES
    said,         \* chain_event_state.tip_hash
    held          \* history: the tips a consumer was told and not told to drop

journalVars == <<said, held>>
allVars == <<vars, journalVars>>

-----------------------------------------------------------------------------
(* What the triggers see, after the statement that fires them.              *)

\* chain_event_served_tip.
ServedTip(act, flag) == IF flag \in act THEN flag ELSE None

\* Mutant of OldBranch: the prior tip alone.
OldBranchTipOnly(act) ==
    IF said \in {None} \cup act THEN <<>> ELSE <<said>>

\* chain_event_old_branch: the prior served tip and its ancestors, down to the
\* first active one or as far as the walk goes.
OldBranch(act) ==
    IF said = None THEN <<>>
    ELSE LET off == {k \in 0 .. Min({Len(Line[said]), WalkLimit + 1}) :
                        \A i \in 1 .. k : Line[said][i] \in Stored \ act}
         IN  SubSeq(Line[said], 1, Max(off))

\* Mutant of SetsTipFlag: the trigger watches the extension of the tip alone.
SetsTipFlagOnInsert == tip' # tip /\ Do("insert")

\* chain_event_tip: the transaction sets a row's is_chain_tip.
SetsTipFlag == tip' # tip \/ (Do("top") /\ active # {})

\* chain_event_publish writes something: the served tip is not the one last said.
Publishes(act, flag) == ServedTip(act, flag) \notin {None, said}

\* Mutant of ReorgEvents: the fork height is the common ancestor's.
ReorgEventsFromAncestor(act, flag) ==
    {[kind |-> "reorg", forkHeight |-> Height[Last(gone)] - 1, depth |-> Len(gone),
      deactivatedHeaders |-> gone, newTip |-> flag] :
        gone \in {b \in {OldBranch(act)} : b # <<>> /\ Publishes(act, flag)}}

\* The reorg's row, when the tip last said is withdrawn.
ReorgEvents(act, flag) ==
    {[kind |-> "reorg", forkHeight |-> Height[Last(gone)], depth |-> Len(gone),
      deactivatedHeaders |-> gone, newTip |-> flag] :
        gone \in {b \in {OldBranch(act)} : b # <<>> /\ Publishes(act, flag)}}

\* The inactive rows a transaction inserts (chain_event_fork_insert) or relinks
\* (chain_event_fork_relink) on a stored parent.
ForkRows ==
    {n \in Header \ ({Genesis} \cup active') :
        /\ Parent[n] \in Stored
        /\ \/ rank[n] = 0 /\ rank'[n] > 0
           \/ Do("relink") /\ n = Head(todo).h /\ todo' # <<>> /\ Head(todo').do = "retip"}

\* The heights of n's active ancestors within the walk, the nearest first.
NearestActive(n, act) ==
    LET on == {k \in 1 .. Min({Len(Line[n]), WalkLimit + 1}) :
                  /\ Line[n][k] \in act
                  /\ \A i \in 1 .. k : Line[n][i] \in Stored \cup {n}}
    IN  IF on = {} THEN {} ELSE {Height[Line[n][Min(on)]]}

\* Mutant of ForkBelow: 0009, before 0011 asked for a fork point below the tip.
ForkAnywhere(at, top) == TRUE

\* 0011: a fork point at or above the served tip is above what was served.
ForkBelow(at, top) == at < Height[top]

ForkEvents ==
    LET top == ServedTip(active', tip')
    IN  IF top = None THEN {}
        ELSE {[kind |-> "fork", height |-> p[2] + 1, depth |-> Height[top] - p[2],
               competingTips |-> <<top, p[1]>>] :
                p \in {q \in ForkRows \X Heights :
                         /\ q[2] \in NearestActive(q[1], active')
                         /\ Parent[q[1]] # top
                         /\ ForkBelow(q[2], top)}}

-----------------------------------------------------------------------------
\* chain_event_publish: the reorg's row, the tip's row, the tip said; a consumer
\* drops what the reorg names and takes the tip.
Publish(act, flag) ==
    IF Publishes(act, flag)
      THEN said' = flag /\ held' = (held \ Range(OldBranch(act))) \cup {flag}
      ELSE UNCHANGED journalVars

\* A transaction of the store, with its triggers.
StoreStep ==
    /\ Next
    /\ IF SetsTipFlag THEN Publish(active', tip') ELSE UNCHANGED journalVars

\* events::timer: the signal alone, at the start of a pass.
Timer ==
    /\ todo = <<>>
    /\ Publish(active, tip)
    /\ UNCHANGED vars

\* 0009's last statement says the tip of the store it is applied to.
JournalInit ==
    /\ Init
    /\ said = tip
    /\ held = {tip} \ {None}

JournalNext == StoreStep \/ Timer
JournalSpec == JournalInit /\ [][JournalNext]_allVars

\* The store's passes go on; the triggers are part of its transactions.
FairJournalSpec == JournalSpec /\ Fairness

-----------------------------------------------------------------------------
(* events::decode's conditions on the envelopes the triggers write.         *)

DecodesFork(e) ==
    /\ e.depth > 0
    /\ e.competingTips[1] # e.competingTips[2]
    /\ Height[e.competingTips[1]] - e.depth + 1 = e.height

LinkedReorg(e) ==
    /\ Height[Last(e.deactivatedHeaders)] = e.forkHeight
    /\ \A i \in 1 .. e.depth - 1 : Parent[e.deactivatedHeaders[i]] = e.deactivatedHeaders[i + 1]

DecodesReorg(e) == e.depth \in 1 .. WalkLimit /\ LinkedReorg(e)

-----------------------------------------------------------------------------
(* Properties.                                                              *)

\* Every row the triggers write is one `decode` accepts, wherever a bulk write
\* was cut and rows stand active above the tip flag, but for the length of a
\* reorg's branch, where the walk of chain_event_old_branch may go one row further
\* than the 400 that `decode` accepts (#8: a fork of depth 0 or below is a row the
\* decoder refuses, and every reader stops at its cursor).
EveryEventIsWhole ==
    [][/\ \A e \in ForkEvents : DecodesFork(e)
       /\ SetsTipFlag => \A e \in ReorgEvents(active', tip') :
                            e.depth \in 1 .. WalkLimit + 1 /\ LinkedReorg(e)]_allVars

\* With the length too: no run lists it (README, sections 5 and 6).
EveryEventDecodes ==
    [][/\ \A e \in ForkEvents : DecodesFork(e)
       /\ SetsTipFlag => \A e \in ReorgEvents(active', tip') : DecodesReorg(e)]_allVars

\* Between operations the tip last journaled is the tip served: "no second
\* transaction can lose the event after a tip move" (0009).
JournalSaysTheTip == todo = <<>> => ServedTip(active, tip) \in {None, said}

\* A consumer that follows the journal never keeps a tip the store has
\* withdrawn: every tip it was told and not told to drop is active, through
\* reorgs of reorgs (chain_event_old_branch, chain_event_publish).
HeldTipsAreActive == todo = <<>> => held \subseteq active
=============================================================================
