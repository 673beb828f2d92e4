------------------------ MODULE LeaseAndStreamProofs ------------------------
(***************************************************************************)
(* Proofs about the two rules of when a writer writes: the lease, for      *)
(* every set of writers, every term and every clock resolution; and below  *)
(* whether the minute's tick asks the couriers.                            *)
(*                                                                         *)
(* None of the lease's safety properties is inductive.  They rest on one   *)
(* fact about time and tokens: a writer that has once lost the fence can   *)
(* never have it back, because a token is drawn once (a writer that asks   *)
(* is new to the row and to the history) and the clock does not run back.  *)
(***************************************************************************)
EXTENDS WriterLease, TipStream, ProofFacts

(* The parts of the inductive invariant. *)

\* A writer that still asks has left no trace: tokens are never reused.
AskersAreNew ==
    \A w \in Writer : pc[w] = "ask" =>
        /\ owner # w
        /\ turn # w
        /\ w \notin over \cup refused \cup stamped

\* Only a writer that was answered Held is ever turned back by the fence.
RefusedWereHolders ==
    \A w \in refused : pc[w] # "unserialized"

\* The row of a writer that still runs carries the second it was given, and is
\* its own up to that second.
TermIsKept ==
    \A w \in Writer : pc[w] \in {"held", "probe", "release"} =>
        /\ owner = w => until = granted[w]
        /\ granted[w] >= nowS => owner = w

\* Once overtaken, or once refused, a writer never passes the fence again.
OvertakenLostTheRow == \A w \in over : owner # w
RefusedLostTheFence == \A w \in refused : ~Fence(w)

\* A refused writer is between the refusal and the term read, or knows it lapsed.
RefusedKnowIt == \A w \in refused : pc[w] = "held" => w \in lapsed

\* A stamp is the last write of a pass.
StampedAreClosed == \A w \in stamped : pc[w] \in {"release", "done", "dead"}

IInv ==
    /\ TypeOK
    /\ AskersAreNew
    /\ RefusedWereHolders
    /\ TermIsKept
    /\ OvertakenLostTheRow
    /\ RefusedLostTheFence
    /\ RefusedKnowIt
    /\ StampedAreClosed
    /\ StampedPassWasNeverRefused

-----------------------------------------------------------------------------
\* The two clocks agree: what the fence refuses in whole seconds, the term read
\* finds spent in milliseconds (FENCE_SQL against LEASE_LEFT_SQL).
LEMMA RefusedMeansSpent ==
    ASSUME TypeOK, NEW w \in Writer, ~Fence(w)
    PROVE  LeaseLeft(w) <= 0
<1>1. CASE owner # w
  BY <1>1 DEF LeaseLeft
<1>2. CASE owner = w
  <2>1. until \in Nat /\ nowS \in Nat /\ ms \in Nat /\ MsPerS \in Nat
    BY LeaseAssumption DEF TypeOK
  <2>2. until + 1 <= nowS
    BY <1>2, <2>1 DEF Fence
  <2>3. (until + 1) * MsPerS <= nowS * MsPerS
    <3>1. PICK d \in Nat : nowS = (until + 1) + d
      <4>1. nowS - (until + 1) \in Nat
        BY <2>1, <2>2
      <4>2. nowS = (until + 1) + (nowS - (until + 1))
        BY <2>1
      <4>3. QED
        BY <4>1, <4>2
    <3>2. nowS * MsPerS = (until + 1) * MsPerS + d * MsPerS
      BY <2>1, <3>1
    <3>3. d * MsPerS \in Nat /\ (until + 1) * MsPerS \in Nat
      BY <2>1, <3>1
    <3>4. QED
      BY <3>2, <3>3
  <2>4. (until + 1) * MsPerS \in Int /\ nowS * MsPerS \in Int
    BY <2>1
  <2>5. QED
    BY <1>2, <2>1, <2>3, <2>4 DEF LeaseLeft
<1>3. QED
  BY <1>1, <1>2

-----------------------------------------------------------------------------
LEMMA InitIInv == Init => IInv
  BY LeaseAssumption DEF Init, IInv, TypeOK, AskersAreNew, RefusedWereHolders, TermIsKept,
     OvertakenLostTheRow, RefusedLostTheFence, RefusedKnowIt, StampedAreClosed,
     StampedPassWasNeverRefused, Places

\* Every step of every writer, and every tick of the clock, keeps the types.
LEMMA TypeStep == TypeOK /\ [Next]_vars => TypeOK'
<1> SUFFICES ASSUME TypeOK, [Next]_vars PROVE TypeOK'
  OBVIOUS
<1> USE LeaseAssumption
<1>1. CASE Tick
  BY <1>1 DEF Tick, TypeOK, lease, history
<1>2. ASSUME NEW w \in Writer, Step(w) PROVE TypeOK'
  <2>1. CASE Take(w) \/ TakeFault(w) \/ TakeAnswerLost(w)
    BY <2>1 DEF Take, TakeFault, TakeAnswerLost, Goto, TypeOK, Places, lease, history
  <2>2. CASE Commit(w) \/ FenceRefuses(w) \/ BatchFault(w)
    BY <2>2 DEF Commit, FenceRefuses, BatchFault, Goto, TypeOK, Places, lease, history
  <2>3. CASE Probe(w) \/ NoteLapse(w)
    BY <2>3 DEF Probe, NoteLapse, Goto, TypeOK, Places, lease, history
  <2>4. CASE Close(w) \/ StrayClose(w) \/ StrayCommit(w)
    BY <2>4 DEF Close, StrayClose, StrayCommit, Goto, Leave, TypeOK, Places, lease, history
  <2>5. CASE Release(w) \/ ReleaseFault(w) \/ Crash(w)
    BY <2>5 DEF Release, ReleaseFault, Crash, Goto, Leave, TypeOK, Places, lease, history
  <2>6. QED
    BY <1>2, <2>1, <2>2, <2>3, <2>4, <2>5 DEF Step
<1>3. CASE UNCHANGED vars
  BY <1>3 DEF vars, TypeOK
<1>4. QED
  BY <1>1, <1>2, <1>3 DEF Next

LEMMA IInvStep == IInv /\ [Next]_vars => IInv'
<1> SUFFICES ASSUME IInv, [Next]_vars PROVE IInv'
  OBVIOUS
<1> USE LeaseAssumption
<1>0. TypeOK /\ TypeOK'
  BY TypeStep DEF IInv
<1> USE <1>0 DEF IInv, AskersAreNew, RefusedWereHolders, TermIsKept, OvertakenLostTheRow,
      RefusedLostTheFence, RefusedKnowIt, StampedAreClosed, StampedPassWasNeverRefused,
      Fence, Goto, Leave, lease, history
<1>1. CASE Tick
  BY <1>1 DEF Tick, TypeOK
<1>2. ASSUME NEW w \in Writer, Step(w) PROVE IInv'
  <2>1. CASE Take(w)
    BY <2>1 DEF Take, Takeable, TypeOK
  <2>2. CASE TakeFault(w)
    BY <2>2 DEF TakeFault, TypeOK
  <2>3. CASE TakeAnswerLost(w)
    BY <2>3 DEF TakeAnswerLost, Takeable, TypeOK
  <2>4. CASE Commit(w)
    BY <2>4 DEF Commit, TypeOK
  <2>5. CASE FenceRefuses(w)
    BY <2>5 DEF FenceRefuses, TypeOK
  <2>6. CASE BatchFault(w)
    BY <2>6 DEF BatchFault, TypeOK
  <2>7. CASE Probe(w)
    <3>1. w \in refused => LeaseLeft(w) <= 0
      BY RefusedMeansSpent
    <3>2. w \in refused => w \in lapsed'
      <4>1. LeaseLeft(w) \in Int
        BY DEF LeaseLeft, TypeOK
      <4>2. QED
        BY <2>7, <3>1, <4>1 DEF Probe
    <3>3. lapsed \subseteq lapsed'
      BY <2>7 DEF Probe
    <3>4. QED
      BY <2>7, <3>2, <3>3 DEF Probe, TypeOK
  <2>8. CASE NoteLapse(w)
    BY <2>8 DEF NoteLapse, TypeOK
  <2>9. CASE Close(w)
    BY <2>9 DEF Close, TypeOK
  <2>10. CASE Release(w)
    BY <2>10 DEF Release, TypeOK
  <2>11. CASE ReleaseFault(w)
    BY <2>11 DEF ReleaseFault, TypeOK
  <2>12. CASE StrayCommit(w)
    BY <2>12 DEF StrayCommit, TypeOK
  <2>13. CASE StrayClose(w)
    BY <2>13 DEF StrayClose, TypeOK
  <2>14. CASE Crash(w)
    BY <2>14 DEF Crash, TypeOK
  <2>15. QED
    BY <1>2, <2>1, <2>2, <2>3, <2>4, <2>5, <2>6, <2>7, <2>8, <2>9, <2>10, <2>11, <2>12,
       <2>13, <2>14 DEF Step
<1>3. CASE UNCHANGED vars
  BY <1>3 DEF vars, TypeOK
<1>4. QED
  BY <1>1, <1>2, <1>3 DEF Next

\* The inductive invariant holds of every behaviour of the lease.
THEOREM LeaseInvariant == Spec => []IInv
<1>1. QED
  BY InitIInv, IInvStep, PTL DEF Spec

\* The lease row, the clock and the invocations keep their types.
THEOREM TypeCorrect == Spec => []TypeOK
<1>1. IInv => TypeOK
  BY DEF IInv
<1>2. QED
  BY LeaseInvariant, <1>1, PTL

\* A holder inside the second it was given still owns the row, for every set of
\* writers, term and clock resolution.
THEOREM HolderKeeps == Spec => []HolderKeepsItsTerm
<1>1. IInv => HolderKeepsItsTerm
  BY DEF IInv, TermIsKept, HolderKeepsItsTerm
<1>2. QED
  BY LeaseInvariant, <1>1, PTL

\* A pass the fence turned back is never stamped as completed.
THEOREM StampIsHonest == Spec => []StampedPassWasNeverRefused
<1>1. IInv => StampedPassWasNeverRefused
  BY DEF IInv
<1>2. QED
  BY LeaseInvariant, <1>1, PTL

\* The header writes of two holders never interleave.
THEOREM Serialized == Spec => HoldsNeverInterleave
<1>1. IInv /\ [Next]_vars => [turn' # turn => turn' \notin over]_vars
  <2> SUFFICES ASSUME IInv, Next, turn' # turn PROVE turn' \notin over
    BY DEF vars
  <2>1. PICK w \in Writer : Commit(w)
    BY DEF Next, Step, Tick, Take, TakeFault, TakeAnswerLost, FenceRefuses, BatchFault, Probe,
       NoteLapse, Close, Release, ReleaseFault, StrayCommit, StrayClose, Crash, Leave, history
  <2>2. QED
    BY <2>1 DEF Commit, Fence, IInv, OvertakenLostTheRow
<1>2. QED
  BY LeaseInvariant, <1>1, PTL DEF Spec, HoldsNeverInterleave

-----------------------------------------------------------------------------
(* The lease implements turns: every step of it is a step of StoreTurns, or *)
(* leaves the turns as they are.                                            *)

\* What Stage says, without its CASE.
LEMMA StageOf ==
    ASSUME TypeOK, NEW w \in Writer
    PROVE  /\ w \in stamped => Stage(w) = "complete"
           /\ w \in refused \ stamped => Stage(w) = "broken"
           /\ w \notin refused \cup stamped =>
                /\ pc[w] = "ask" => Stage(w) = "waiting"
                /\ pc[w] = "unserialized" => Stage(w) = "aside"
                /\ pc[w] \in {"held", "probe"} => Stage(w) = "turn"
                /\ pc[w] \in {"release", "done", "dead"} => Stage(w) = "ended"
  BY DEF Stage

\* The same after a step.
LEMMA StageOfNext ==
    ASSUME TypeOK', NEW w \in Writer
    PROVE  /\ w \in stamped' => Stage(w)' = "complete"
           /\ w \in refused' \ stamped' => Stage(w)' = "broken"
           /\ w \notin refused' \cup stamped' =>
                /\ pc'[w] = "ask" => Stage(w)' = "waiting"
                /\ pc'[w] = "unserialized" => Stage(w)' = "aside"
                /\ pc'[w] \in {"held", "probe"} => Stage(w)' = "turn"
                /\ pc'[w] \in {"release", "done", "dead"} => Stage(w)' = "ended"
  BY DEF Stage

\* A step that moves w alone, and writes nothing.
MovesOnly(w) ==
    /\ \A v \in Writer \ {w} :
          /\ pc'[v] = pc[v]
          /\ v \in stamped' <=> v \in stamped
          /\ v \in refused' <=> v \in refused
    /\ turn' = turn
    /\ over' = over

\* It leaves the stages of the others.
LEMMA OthersKeepTheirStage ==
    ASSUME TypeOK, TypeOK', NEW w \in Writer, MovesOnly(w)
    PROVE  [v \in Writer |-> Stage(v)]' = [[v \in Writer |-> Stage(v)] EXCEPT ![w] = Stage(w)']
<1>1. ASSUME NEW v \in Writer \ {w} PROVE Stage(v)' = Stage(v)
  <2>1. CASE v \in stamped
    BY <2>1 DEF Stage, MovesOnly
  <2>2. CASE v \in refused \ stamped
    BY <2>2 DEF Stage, MovesOnly
  <2>3. CASE v \notin refused \cup stamped
    <3>1. pc'[v] = pc[v] /\ v \notin refused' \cup stamped' /\ pc[v] \in Places
      BY <2>3 DEF TypeOK, MovesOnly
    <3>2. CASE pc[v] = "ask"
      BY <2>3, <3>1, <3>2 DEF Stage
    <3>3. CASE pc[v] = "unserialized"
      BY <2>3, <3>1, <3>3 DEF Stage
    <3>4. CASE pc[v] \in {"held", "probe"}
      BY <2>3, <3>1, <3>4 DEF Stage
    <3>5. CASE pc[v] \in {"release", "done", "dead"}
      BY <2>3, <3>1, <3>5 DEF Stage
    <3>6. QED
      BY <3>1, <3>2, <3>3, <3>4, <3>5 DEF Places
  <2>4. QED
    BY <2>1, <2>2, <2>3
<1>2. QED
  BY <1>1

\* It is a step of the turns, or leaves them as they are.
LEMMA MoveBecomes ==
    ASSUME TypeOK, TypeOK', NEW w \in Writer, MovesOnly(w)
    PROVE  /\ Turns!Become(w, Stage(w)')
           /\ Stage(w)' = Stage(w) => UNCHANGED Turns!turns
<1>1. [v \in Writer |-> Stage(v)]' = [[v \in Writer |-> Stage(v)] EXCEPT ![w] = Stage(w)']
  BY OthersKeepTheirStage
<1>2. turn' = turn /\ over' = over
  BY DEF MovesOnly
<1>3. Turns!Become(w, Stage(w)')
  BY <1>1, <1>2 DEF Turns!Become
<1>4. Stage(w)' = Stage(w) => [v \in Writer |-> Stage(v)]' = [v \in Writer |-> Stage(v)]
  BY <1>1
<1>5. QED
  BY <1>2, <1>3, <1>4 DEF Turns!turns

LEMMA TurnsInit == Init => Turns!Init
<1> SUFFICES ASSUME Init PROVE Turns!Init
  OBVIOUS
<1>1. \A w \in Writer : Stage(w) = "waiting"
  BY DEF Init, Stage
<1>2. QED
  BY <1>1 DEF Init, Turns!Init

\* Every step of the lease is a step of the turns or leaves them: what a step
\* of a writer does to its stage, action by action.
LEMMA TurnsStep == IInv /\ [Next]_vars => [Turns!Next]_Turns!turns
<1> SUFFICES ASSUME IInv, [Next]_vars PROVE [Turns!Next]_Turns!turns
  OBVIOUS
<1>0. TypeOK /\ TypeOK'
  BY TypeStep DEF IInv
<1>1. CASE Tick
  <2>1. \A v \in Writer : Stage(v)' = Stage(v)
    BY <1>1 DEF Tick, Stage, history
  <2>2. QED
    BY <1>1, <2>1 DEF Tick, history, Turns!turns
<1>2. ASSUME NEW w \in Writer, Step(w) PROVE [Turns!Next]_Turns!turns
  <2> DEFINE begins == Stage(w) = "waiting" /\ Stage(w)' \in {"turn", "aside"}
             breaks == Stage(w) = "turn" /\ Stage(w)' = "broken"
             ends   == Stage(w) \in {"turn", "aside"} /\ Stage(w)' \in {"complete", "ended"}
  <2>0. MovesOnly(w) /\ (begins \/ breaks \/ ends \/ Stage(w)' = Stage(w))
          => [Turns!Next]_Turns!turns
    <3> SUFFICES ASSUME MovesOnly(w), begins \/ breaks \/ ends \/ Stage(w)' = Stage(w)
                 PROVE  [Turns!Next]_Turns!turns
      OBVIOUS
    <3>1. Turns!Become(w, Stage(w)') /\ (Stage(w)' = Stage(w) => UNCHANGED Turns!turns)
      BY <1>0, MoveBecomes
    <3>2. CASE begins
      BY <3>1, <3>2 DEF Turns!Begin, Turns!Next
    <3>3. CASE breaks
      BY <3>1, <3>3 DEF Turns!Break, Turns!Next
    <3>4. CASE ends
      BY <3>1, <3>4 DEF Turns!End, Turns!Next
    <3>5. QED
      BY <3>1, <3>2, <3>3, <3>4
  <2> HIDE DEF begins, breaks, ends
  <2>1. CASE Take(w) \/ TakeFault(w) \/ TakeAnswerLost(w)
    <3>1. /\ MovesOnly(w) /\ pc[w] = "ask" /\ pc'[w] \in {"held", "unserialized"}
          /\ refused' = refused /\ stamped' = stamped
      BY <1>0, <2>1 DEF Take, TakeFault, TakeAnswerLost, TypeOK, MovesOnly, Goto, history
    <3>2. w \notin refused \cup stamped
      BY <3>1 DEF IInv, AskersAreNew
    <3>3. begins
      BY <1>0, <3>1, <3>2, StageOf, StageOfNext DEF begins
    <3>4. QED
      BY <2>0, <3>1, <3>3
  <2>2. CASE Commit(w)
    <3>1. pc[w] = "held" /\ w \notin lapsed /\ owner = w
      BY <2>2 DEF Commit, Fence
    <3>2. w \notin refused \cup stamped \cup over
      BY <3>1 DEF IInv, RefusedKnowIt, StampedAreClosed, OvertakenLostTheRow
    <3>3. Stage(w) = "turn"
      BY <1>0, <3>1, <3>2, StageOf
    <3>4. \A v \in Writer : Stage(v)' = Stage(v)
      BY <2>2 DEF Commit, Stage
    <3>5. turn' = w /\ over' = over \cup ({turn} \ {None, w})
      BY <2>2 DEF Commit
    <3>6. Turns!Write(w)
      BY <3>2, <3>3, <3>4, <3>5 DEF Turns!Write
    <3>7. QED
      BY <3>6 DEF Turns!Next
  <2>3. CASE FenceRefuses(w)
    <3>1. /\ MovesOnly(w) /\ pc[w] = "held" /\ pc'[w] = "probe" /\ w \notin lapsed
          /\ w \in refused' /\ stamped' = stamped
      BY <1>0, <2>3 DEF FenceRefuses, TypeOK, MovesOnly, Goto
    <3>2. w \notin refused \cup stamped
      BY <3>1 DEF IInv, RefusedKnowIt, StampedAreClosed
    <3>3. breaks
      BY <1>0, <3>1, <3>2, StageOf, StageOfNext DEF breaks
    <3>4. QED
      BY <2>0, <3>1, <3>3
  <2>4. CASE BatchFault(w) \/ Probe(w) \/ NoteLapse(w) \/ StrayCommit(w)
    <3>1. /\ MovesOnly(w) /\ refused' = refused /\ stamped' = stamped
          /\ \/ {pc[w], pc'[w]} \subseteq {"held", "probe"}
             \/ pc[w] = "unserialized" /\ pc'[w] = "unserialized"
      BY <1>0, <2>4
      DEF BatchFault, Probe, NoteLapse, StrayCommit, TypeOK, MovesOnly, Goto, history
    <3>2. Stage(w)' = Stage(w)
      BY <1>0, <3>1, StageOf, StageOfNext
    <3>3. QED
      BY <2>0, <3>1, <3>2
  <2>5. CASE Close(w)
    <3>1. /\ MovesOnly(w) /\ pc[w] = "held" /\ pc'[w] = "release" /\ refused' = refused
          /\ stamped' = stamped \/ (stamped' = stamped \cup {w} /\ w \notin lapsed)
      BY <1>0, <2>5 DEF Close, TypeOK, MovesOnly, Goto, history
    <3>2. w \notin stamped /\ (w \in refused => stamped' = stamped)
      BY <3>1 DEF IInv, RefusedKnowIt, StampedAreClosed
    <3>3. ends \/ Stage(w)' = Stage(w)
      BY <1>0, <3>1, <3>2, StageOf, StageOfNext DEF ends
    <3>4. QED
      BY <2>0, <3>1, <3>3
  <2>6. CASE Release(w) \/ ReleaseFault(w)
    <3>1. /\ MovesOnly(w) /\ pc[w] = "release" /\ pc'[w] = "done"
          /\ refused' = refused /\ stamped' = stamped
      BY <1>0, <2>6 DEF Release, ReleaseFault, TypeOK, MovesOnly, Goto, Leave
    <3>2. Stage(w)' = Stage(w)
      BY <1>0, <3>1, StageOf, StageOfNext
    <3>3. QED
      BY <2>0, <3>1, <3>2
  <2>7. CASE StrayClose(w)
    <3>1. /\ MovesOnly(w) /\ pc[w] = "unserialized" /\ pc'[w] = "done" /\ refused' = refused
          /\ stamped' = stamped \/ stamped' = stamped \cup {w}
      BY <1>0, <2>7 DEF StrayClose, TypeOK, MovesOnly, Goto, Leave
    <3>2. w \notin refused \cup stamped
      BY <3>1 DEF IInv, RefusedWereHolders, StampedAreClosed
    <3>3. ends
      BY <1>0, <3>1, <3>2, StageOf, StageOfNext DEF ends
    <3>4. QED
      BY <2>0, <3>1, <3>3
  <2>8. CASE Crash(w)
    <3>1. /\ MovesOnly(w) /\ pc[w] \in {"held", "unserialized", "probe", "release"}
          /\ pc'[w] = "dead" /\ refused' = refused /\ stamped' = stamped
      BY <1>0, <2>8 DEF Crash, TypeOK, MovesOnly, Goto, Leave
    <3>2. ends \/ Stage(w)' = Stage(w)
      BY <1>0, <3>1, StageOf, StageOfNext DEF ends
    <3>3. QED
      BY <2>0, <3>1, <3>2
  <2>9. QED
    BY <1>2, <2>1, <2>2, <2>3, <2>4, <2>5, <2>6, <2>7, <2>8 DEF Step
<1>3. CASE UNCHANGED vars
  <2>1. \A v \in Writer : Stage(v)' = Stage(v)
    BY <1>3 DEF vars, Stage
  <2>2. QED
    BY <1>3, <2>1 DEF vars, Turns!turns
<1>4. QED
  BY <1>1, <1>2, <1>3 DEF Next

\* The lease implements turns, for every set of writers, term, clock resolution
\* and fault: holders write only in their turn and only unbroken turns complete.
THEOREM ImplementsTurns == Spec => GivesTurns
<1>1. QED
  BY LeaseInvariant, TurnsInit, TurnsStep, PTL DEF Spec, GivesTurns, Turns!Spec

-----------------------------------------------------------------------------
(***************************************************************************)
(* The other rule of when a writer writes: whether the minute's tick asks  *)
(* the couriers at all.  Proofs about TipStream, for every heartbeat,      *)
(* period, session, backoff and interval.                                  *)
(***************************************************************************)

\* The poll rule's ages never flatter: something was heard no longer ago than the
\* last push and the last poll they remember, or a push about to be saved.
AgesAreHonest ==
    /\ unheard <= pushAge
    /\ unheard <= pollAge
    /\ sess.phase = "active" => unheard <= sess.since

StreamInv == StreamTypeOK /\ AgesAreHonest

\* The shift of backoff_ms stays a number: a set of n has 2^n subsets.
LEMMA PowersAreNaturals ==
    ASSUME NEW n \in Nat
    PROVE  2^n \in Nat
<1>1. IsFiniteSet(1 .. n) /\ Cardinality(1 .. n) = n
  BY FS_Interval
<1>2. IsFiniteSet(SUBSET (1 .. n)) /\ Cardinality(SUBSET (1 .. n)) = 2^n
  BY <1>1, FS_SUBSET
<1>3. QED
  BY <1>2, FS_CardinalityType

\* What the assumption of TipStream gives, constant by constant.
LEMMA StreamConstants ==
    /\ NoAlarm \notin Nat
    /\ Heartbeat \in Nat \ {0} /\ Minute \in Nat \ {0} /\ Quiet \in Nat \ {0}
    /\ Session \in Nat \ {0} /\ BackoffFirst \in Nat \ {0}
    /\ MaxDrops \in Nat \ {0} /\ MaxHeight \in Nat \ {0}
    /\ BusyTries \in Nat
    /\ Watchdog \in Nat /\ Session <= Watchdog /\ Minute <= Watchdog
BY StreamAssumption DEF Watchdog

\* An age saturates at its limit, and time does not change which of two is older.
LEMMA AgesSaturate ==
    ASSUME NEW limit \in Nat, NEW a \in 0 .. limit, NEW b \in 0 .. limit, a <= b
    PROVE  /\ Older(a, limit) \in 0 .. limit
           /\ Older(b, limit) \in 0 .. limit
           /\ Older(a, limit) <= Older(b, limit)
<1> DEFINE x == Min({a + 1, limit})
           y == Min({b + 1, limit})
<1>1. /\ x \in {a + 1, limit} /\ x <= a + 1 /\ x <= limit
      /\ y \in {b + 1, limit} /\ y <= b + 1 /\ y <= limit
  BY MinOfTwo
<1> HIDE DEF x, y
<1>2. x \in 0 .. limit /\ y \in 0 .. limit /\ x <= y
  BY <1>1
<1>3. QED
  BY <1>2 DEF Older, x, y

\* A timer or an alarm counts down to nothing and stays there.
LEMMA CountsDown ==
    ASSUME NEW limit \in Nat, NEW a \in 0 .. limit
    PROVE  Max({a - 1, 0}) \in 0 .. limit /\ Max({a - 1, 0}) = IF a = 0 THEN 0 ELSE a - 1
<1> DEFINE x == Max({a - 1, 0})
<1>1. CASE a = 0
  <2>1. \A n \in {a - 1, 0} : 0 >= n
    BY <1>1
  <2>2. \A z \in {a - 1, 0} : (\A n \in {a - 1, 0} : z >= n) => z = 0
    BY <1>1
  <2>3. x = 0
    BY <2>1, <2>2 DEF Max
  <2>4. QED
    BY <1>1, <2>3
<1>2. CASE a # 0
  <2>1. a - 1 \in Nat
    BY <1>2
  <2>2. x \in {a - 1, 0} /\ a - 1 <= x /\ 0 <= x
    BY <2>1, MaxOfTwo
  <2> HIDE DEF x
  <2>3. x = a - 1
    BY <2>1, <2>2
  <2>4. QED
    BY <1>2, <2>1, <2>3 DEF x
<1>3. QED
  BY <1>1, <1>2

\* A reconnect is never scheduled further off than the watchdog.
LEMMA BackoffIsShort ==
    ASSUME NEW n \in 1 .. MaxDrops
    PROVE  Backoff(n) \in 0 .. Watchdog
<1> USE StreamConstants
<1> DEFINE power == 2^(n - 1)
           wait == Min({BackoffFirst * power, Minute})
<1>1. n - 1 \in Nat
  OBVIOUS
<1>2. power \in Nat
  BY <1>1, PowersAreNaturals
<1> HIDE DEF power
<1>3. BackoffFirst * power \in Nat
  BY <1>2
<1>4. wait \in {BackoffFirst * power, Minute} /\ wait <= Minute
  BY <1>3, MinOfTwo
<1> HIDE DEF wait
<1>5. wait \in 0 .. Watchdog
  BY <1>3, <1>4
<1>6. QED
  BY <1>5 DEF Backoff, wait, power

\* What the conjuncts of StreamTypeOK about the session say.
SessionType ==
    [phase : {"none", "reading", "asking", "active", "inactive"}, left : 0 .. Session,
     timer : 0 .. Heartbeat, ask : 0 .. MaxHeight, asked : 0 .. BusyTries, since : 0 .. Quiet]
BeatType == [session : 0 .. Heartbeat + 1, memory : 0 .. Heartbeat + 1, saved : 0 .. Heartbeat + 1]
SessionFits(s) == s \in SessionType /\ s.timer <= s.left

\* The head of the read loop sets a timer that does not outlive the deadline.
LEMMA ListeningFits ==
    ASSUME NEW left \in 0 .. Session
    PROVE  /\ SessionFits(Listening(left)) /\ Listening(left).phase = "reading"
           /\ SessionFits(NoSession) /\ NoSession.phase = "none"
<1> USE StreamConstants
<1> DEFINE timer == Min({Heartbeat, left})
<1>1. timer \in 0 .. Heartbeat /\ timer <= left
  <2>1. timer \in {Heartbeat, left} /\ timer <= Heartbeat /\ timer <= left
    BY MinOfTwo
  <2> HIDE DEF timer
  <2>2. QED
    BY <2>1
<1> HIDE DEF timer
<1>2. NoSession \in SessionType
  BY DEF NoSession, SessionType
<1>3. Listening(left) = [NoSession EXCEPT !.phase = "reading", !.left = left, !.timer = timer]
  BY DEF Listening, timer
<1>4. SessionFits(NoSession) /\ NoSession.phase = "none"
  BY <1>2 DEF NoSession, SessionFits
<1>5. SessionFits(Listening(left)) /\ Listening(left).phase = "reading"
  BY <1>1, <1>2, <1>3 DEF SessionFits, SessionType
<1>6. QED
  BY <1>4, <1>5

\* The invariant, one conjunct to a part of the state.
LEMMA StreamParts ==
    StreamInv <=>
      /\ net \in 0 .. MaxHeight /\ store \in 0 .. MaxHeight /\ seen \in 0 .. MaxHeight
      /\ served \in 0 .. MaxHeight /\ courier \in 0 .. MaxHeight
      /\ SessionFits(sess)
      /\ beat \in BeatType
      /\ reading \in BOOLEAN
      /\ pushAge \in 0 .. Quiet /\ pollAge \in 0 .. Quiet /\ unheard \in 0 .. Quiet
      /\ drops \in 0 .. MaxDrops
      /\ hint \in [height : 0 .. MaxHeight, fresh : BOOLEAN]
      /\ alarm \in {NoAlarm} \cup 0 .. Watchdog
      /\ behindTicks \in 0 .. 2
      /\ cronIn \in 0 .. Minute
      /\ cron \in {"idle", "covered", "poll", "pass"}
      /\ AgesAreHonest
BY DEF StreamInv, StreamTypeOK, Height, Age, SessionFits, SessionType, BeatType

LEMMA StreamPartsNext ==
    StreamInv' <=>
      /\ net' \in 0 .. MaxHeight /\ store' \in 0 .. MaxHeight /\ seen' \in 0 .. MaxHeight
      /\ served' \in 0 .. MaxHeight /\ courier' \in 0 .. MaxHeight
      /\ SessionFits(sess')
      /\ beat' \in BeatType
      /\ reading' \in BOOLEAN
      /\ pushAge' \in 0 .. Quiet /\ pollAge' \in 0 .. Quiet /\ unheard' \in 0 .. Quiet
      /\ drops' \in 0 .. MaxDrops
      /\ hint' \in [height : 0 .. MaxHeight, fresh : BOOLEAN]
      /\ alarm' \in {NoAlarm} \cup 0 .. Watchdog
      /\ behindTicks' \in 0 .. 2
      /\ cronIn' \in 0 .. Minute
      /\ cron' \in {"idle", "covered", "poll", "pass"}
      /\ AgesAreHonest'
BY DEF StreamInv, StreamTypeOK, Height, Age, SessionFits, SessionType, BeatType, Watchdog

LEMMA StreamInvInit ==
    ASSUME StreamInit
    PROVE  StreamInv
<1> USE StreamConstants
<1>1. SessionFits(sess) /\ sess.phase = "none"
  <2>1. 0 \in 0 .. Session
    OBVIOUS
  <2>2. QED
    BY <2>1, ListeningFits DEF StreamInit
<1>2. AgesAreHonest
  BY <1>1 DEF StreamInit, AgesAreHonest
<1>3. beat \in BeatType
  BY DEF StreamInit, BeatType
<1>4. hint \in [height : 0 .. MaxHeight, fresh : BOOLEAN]
  BY DEF StreamInit, NoHint
<1>5. /\ net \in 0 .. MaxHeight /\ store \in 0 .. MaxHeight /\ seen \in 0 .. MaxHeight
      /\ served \in 0 .. MaxHeight /\ courier \in 0 .. MaxHeight
      /\ pushAge \in 0 .. Quiet /\ pollAge \in 0 .. Quiet /\ unheard \in 0 .. Quiet
      /\ drops \in 0 .. MaxDrops
      /\ behindTicks \in 0 .. 2
      /\ cronIn \in 0 .. Minute
  BY DEF StreamInit
<1>6. /\ reading \in BOOLEAN
      /\ alarm \in {NoAlarm} \cup 0 .. Watchdog
      /\ cron \in {"idle", "covered", "poll", "pass"}
  BY DEF StreamInit
<1>7. QED
  BY <1>1, <1>2, <1>3, <1>4, <1>5, <1>6, StreamParts

LEMMA StreamTimePasses ==
    ASSUME StreamInv, TimePasses
    PROVE  StreamInv'
<1> USE StreamConstants
<1>1. /\ SessionFits(sess)
      /\ beat \in BeatType
      /\ pushAge \in 0 .. Quiet /\ pollAge \in 0 .. Quiet /\ unheard \in 0 .. Quiet
      /\ alarm \in {NoAlarm} \cup 0 .. Watchdog
      /\ cronIn \in 0 .. Minute
      /\ AgesAreHonest
  BY StreamParts
<1>2. /\ sess.left \in 0 .. Session /\ sess.timer \in 0 .. Heartbeat /\ sess.since \in 0 .. Quiet
      /\ sess.timer <= sess.left
  BY <1>1 DEF SessionFits, SessionType
<1> DEFINE left == Max({sess.left - 1, 0})
           timer == Max({sess.timer - 1, 0})
           since == IF sess.phase = "active" THEN Older(sess.since, Quiet) ELSE sess.since
<1>3. left \in 0 .. Session /\ timer \in 0 .. Heartbeat /\ timer <= left
  <2>1. left \in 0 .. Session /\ left = IF sess.left = 0 THEN 0 ELSE sess.left - 1
    BY <1>2, CountsDown
  <2>2. timer \in 0 .. Heartbeat /\ timer = IF sess.timer = 0 THEN 0 ELSE sess.timer - 1
    BY <1>2, CountsDown
  <2> HIDE DEF left, timer
  <2>3. QED
    BY <1>2, <2>1, <2>2
<1>4. since \in 0 .. Quiet
  BY <1>2, AgesSaturate
<1>5. sess' = [sess EXCEPT !.left = left, !.timer = timer, !.since = since]
  BY DEF TimePasses
<1>6. sess.phase = "active" => since = Older(sess.since, Quiet)
  OBVIOUS
<1> HIDE DEF left, timer, since
<1>7. SessionFits(sess') /\ sess'.phase = sess.phase /\ sess'.since = since
  BY <1>1, <1>3, <1>4, <1>5 DEF SessionFits, SessionType
<1>8. beat' \in BeatType
  <2>1. /\ beat.session \in 0 .. Heartbeat + 1 /\ beat.memory \in 0 .. Heartbeat + 1
        /\ beat.saved \in 0 .. Heartbeat + 1 /\ Heartbeat + 1 \in Nat
        /\ DOMAIN beat = {"session", "memory", "saved"}
    BY <1>1 DEF BeatType
  <2>2. /\ Older(beat.session, Heartbeat + 1) \in 0 .. Heartbeat + 1
        /\ Older(beat.memory, Heartbeat + 1) \in 0 .. Heartbeat + 1
        /\ Older(beat.saved, Heartbeat + 1) \in 0 .. Heartbeat + 1
    BY <2>1, AgesSaturate
  <2>3. beat' = [c \in {"session", "memory", "saved"} |-> Older(beat[c], Heartbeat + 1)]
    BY <2>1 DEF TimePasses
  <2>4. QED
    BY <2>2, <2>3 DEF BeatType
<1>9. /\ pushAge' = Older(pushAge, Quiet) /\ pollAge' = Older(pollAge, Quiet)
      /\ unheard' = Older(unheard, Quiet)
  BY DEF TimePasses
<1>10. pushAge' \in 0 .. Quiet /\ pollAge' \in 0 .. Quiet /\ unheard' \in 0 .. Quiet
  BY <1>1, <1>9, AgesSaturate
<1>11. AgesAreHonest'
  <2>1. unheard' <= pushAge' /\ unheard' <= pollAge'
    BY <1>1, <1>9, AgesSaturate DEF AgesAreHonest
  <2>2. sess.phase = "active" => unheard' <= since
    BY <1>1, <1>2, <1>6, <1>9, AgesSaturate DEF AgesAreHonest
  <2>3. QED
    BY <1>7, <2>1, <2>2 DEF AgesAreHonest
<1>12. alarm' \in {NoAlarm} \cup 0 .. Watchdog
  <2>1. CASE alarm = NoAlarm
    BY <2>1 DEF TimePasses
  <2>2. CASE alarm # NoAlarm
    <3>1. alarm' = Max({alarm - 1, 0}) /\ alarm \in 0 .. Watchdog
      BY <1>1, <2>2 DEF TimePasses
    <3>2. QED
      BY <3>1, CountsDown
  <2>3. QED
    BY <2>1, <2>2
<1>13. cronIn' \in 0 .. Minute
  BY <1>1 DEF TimePasses
<1>14. UNCHANGED <<net, store, seen, reading, served, drops, hint, behindTicks, cron, courier>>
  BY DEF TimePasses
<1>15. QED
  BY <1>7, <1>8, <1>10, <1>11, <1>12, <1>13, <1>14, StreamParts, StreamPartsNext

\* The object's steps, by what they have in common.
LEMMA SessionEndsKeeps ==
    ASSUME StreamInv,
           NEW next \in 0 .. Watchdog, NEW inRow \in 0 .. MaxDrops,
           SessionEnds(next, inRow)
    PROVE  StreamInv'
<1> USE StreamConstants
<1>1. sess' = NoSession /\ 0 \in 0 .. Session
  BY DEF SessionEnds
<1>2. SessionFits(sess') /\ sess'.phase = "none"
  BY <1>1, ListeningFits
<1>3. beat' \in BeatType
  <2>1. beat.session \in 0 .. Heartbeat + 1
    BY StreamParts DEF BeatType
  <2>2. QED
    BY <2>1 DEF SessionEnds, BeatType
<1>4. AgesAreHonest'
  <2>1. AgesAreHonest
    BY StreamParts
  <2>2. QED
    BY <1>2, <2>1 DEF AgesAreHonest, SessionEnds, poll
<1>5. alarm' \in {NoAlarm} \cup 0 .. Watchdog
  BY StreamParts DEF SessionEnds
<1>6. reading' \in BOOLEAN /\ drops' \in 0 .. MaxDrops
  BY DEF SessionEnds
<1>7. UNCHANGED <<net, store, seen, pushAge, served, hint, pollAge, behindTicks, cronIn, cron, courier, unheard>>
  BY DEF SessionEnds, poll, tick
<1>8. QED
  BY <1>2, <1>3, <1>4, <1>5, <1>6, <1>7, StreamParts, StreamPartsNext

LEMMA DropKeeps ==
    ASSUME StreamInv, Drop
    PROVE  StreamInv'
<1> USE StreamConstants
<1> DEFINE n == Min({drops + 1, MaxDrops})
<1>1. n \in 1 .. MaxDrops
  <2>1. drops \in 0 .. MaxDrops
    BY StreamParts
  <2>2. n \in {drops + 1, MaxDrops} /\ n <= MaxDrops
    BY <2>1, MinOfTwo
  <2> HIDE DEF n
  <2>3. QED
    BY <2>1, <2>2
<1>2. SessionEnds(Backoff(n), n)
  BY DEF Drop
<1> HIDE DEF n
<1>3. Backoff(n) \in 0 .. Watchdog /\ n \in 0 .. MaxDrops
  BY <1>1, BackoffIsShort
<1>4. QED
  BY <1>2, <1>3, SessionEndsKeeps

\* The end of tip: the session listens again, and what it heard is saved.
LEMMA SavesKeep ==
    ASSUME StreamInv, Saves
    PROVE  /\ SessionFits(sess') /\ sess'.phase = "reading"
           /\ beat' \in BeatType
           /\ UNCHANGED <<net, reading, alarm, pollAge, behindTicks, cronIn, cron, courier>>
<1> USE StreamConstants
<1>1. sess.left \in 0 .. Session
  BY StreamParts DEF SessionFits, SessionType
<1>2. SessionFits(sess') /\ sess'.phase = "reading"
  BY <1>1, ListeningFits DEF Saves
<1>3. beat' \in BeatType
  <2>1. beat \in BeatType
    BY StreamParts
  <2>2. QED
    BY <2>1 DEF Saves, BeatType
<1>4. QED
  BY <1>2, <1>3 DEF Saves, poll, tick

\* An ask that moves no age: dropped at the lease, unjudged, refused, known.
LEMMA AskKeeps ==
    ASSUME StreamInv, Saves,
           UNCHANGED <<store, seen, pushAge, unheard>>,
           served' \in {served, store}, drops' \in {drops, 0},
           hint' \in {hint, [height |-> sess.ask, fresh |-> TRUE]}
    PROVE  StreamInv'
<1> USE StreamConstants
<1>1. /\ SessionFits(sess') /\ sess'.phase = "reading"
      /\ beat' \in BeatType
      /\ UNCHANGED <<net, reading, alarm, pollAge, behindTicks, cronIn, cron, courier>>
  BY SavesKeep
<1>2. hint' \in [height : 0 .. MaxHeight, fresh : BOOLEAN]
  <2>1. sess.ask \in 0 .. MaxHeight
    BY StreamParts DEF SessionFits, SessionType
  <2>2. [height |-> sess.ask, fresh |-> TRUE] \in [height : 0 .. MaxHeight, fresh : BOOLEAN]
    BY <2>1
  <2>3. hint \in [height : 0 .. MaxHeight, fresh : BOOLEAN]
    BY StreamParts
  <2>4. QED
    BY <2>2, <2>3
<1>3. AgesAreHonest'
  <2>1. AgesAreHonest
    BY StreamParts
  <2>2. QED
    BY <1>1, <2>1 DEF AgesAreHonest
<1>4. served' \in 0 .. MaxHeight /\ drops' \in 0 .. MaxDrops
  BY StreamParts
<1>5. QED
  BY <1>1, <1>2, <1>3, <1>4, StreamParts, StreamPartsNext

\* A step that changes the session or its beat alone.
LEMMA SessionMovesKeep ==
    ASSUME StreamInv, SessionFits(sess'), beat' \in BeatType,
           sess'.phase # "active",
           UNCHANGED <<net, store, seen, state, alarm, poll, tick, unheard>>
    PROVE  StreamInv'
<1>1. AgesAreHonest'
  <2>1. AgesAreHonest
    BY StreamParts
  <2>2. QED
    BY <2>1 DEF AgesAreHonest, state, poll
<1>2. UNCHANGED <<net, store, seen, reading, pushAge, served, drops, hint, alarm, pollAge,
                  behindTicks, cronIn, cron, courier, unheard>>
  BY DEF state, poll, tick
<1>3. QED
  BY <1>1, <1>2, StreamParts, StreamPartsNext

LEMMA AskStoredKeeps ==
    ASSUME StreamInv, NEW outcome \in {"active", "inactive"},
           AskStored(outcome)
    PROVE  StreamInv'
<1> USE StreamConstants
<1>1. SessionFits(sess) /\ sess.ask \in 0 .. MaxHeight /\ seen \in 0 .. MaxHeight
      /\ store \in 0 .. MaxHeight /\ AgesAreHonest
  BY StreamParts DEF SessionFits, SessionType
<1>2. SessionFits(sess') /\ sess'.phase = outcome /\ sess'.since = 0
  <2>1. sess' = [sess EXCEPT !.phase = outcome, !.since = 0]
    BY DEF AskStored
  <2>2. sess \in SessionType /\ sess.timer <= sess.left /\ 0 \in 0 .. Quiet
    BY <1>1 DEF SessionFits
  <2>3. sess' \in SessionType
    BY <2>1, <2>2 DEF SessionType
  <2>4. /\ sess'.phase = outcome /\ sess'.since = 0
        /\ sess'.timer = sess.timer /\ sess'.left = sess.left
    BY <2>1, <2>2 DEF SessionType
  <2>5. QED
    BY <2>2, <2>3, <2>4 DEF SessionFits
<1>3. seen' \in 0 .. MaxHeight
  <2> DEFINE higher == Max({seen, sess.ask})
  <2>1. higher \in {seen, sess.ask}
    BY <1>1, MaxOfTwo
  <2>2. seen' = higher
    BY DEF AskStored
  <2> HIDE DEF higher
  <2>3. QED
    BY <1>1, <2>1, <2>2
<1>4. /\ store' \in 0 .. MaxHeight
      /\ unheard' = IF outcome = "active" THEN 0 ELSE unheard
      /\ UNCHANGED <<net, beat, reading, pushAge, served, drops, hint, alarm, pollAge,
                     behindTicks, cronIn, cron, courier>>
  BY <1>1 DEF AskStored, state, poll, tick
<1>5. pushAge \in 0 .. Quiet /\ pollAge \in 0 .. Quiet /\ unheard \in 0 .. Quiet
  BY StreamParts
<1>6. unheard' \in 0 .. Quiet
  BY <1>4, <1>5
<1>7. AgesAreHonest'
  BY <1>1, <1>2, <1>4, <1>5 DEF AgesAreHonest
<1>8. QED
  BY <1>2, <1>3, <1>4, <1>6, <1>7, StreamParts, StreamPartsNext

LEMMA SaveStoredKeeps ==
    ASSUME StreamInv, SaveStored
    PROVE  StreamInv'
<1> USE StreamConstants
<1>1. /\ SessionFits(sess') /\ sess'.phase = "reading"
      /\ beat' \in BeatType
      /\ UNCHANGED <<net, reading, alarm, pollAge, behindTicks, cronIn, cron, courier>>
  BY SavesKeep DEF SaveStored
<1>2. SessionFits(sess) /\ sess.since \in 0 .. Quiet /\ AgesAreHonest
  BY StreamParts DEF SessionFits, SessionType
<1>3. /\ pushAge' = IF sess.phase = "active" THEN sess.since ELSE pushAge
      /\ served' = store /\ drops' = 0
      /\ UNCHANGED <<store, seen, hint, unheard>>
  BY DEF SaveStored, Heard
<1>4. AgesAreHonest'
  BY <1>1, <1>2, <1>3 DEF AgesAreHonest
<1>5. pushAge' \in 0 .. Quiet
  BY <1>2, <1>3, StreamParts
<1>6. drops' \in 0 .. MaxDrops /\ served' \in 0 .. MaxHeight
  BY <1>3, StreamParts
<1>7. QED
  BY <1>1, <1>3, <1>4, <1>5, <1>6, StreamParts, StreamPartsNext

LEMMA ObjectKeeps ==
    ASSUME StreamInv, Object
    PROVE  StreamInv'
<1> USE StreamConstants
<1>1. SessionFits(sess) /\ sess.left \in 0 .. Session /\ sess \in SessionType /\ beat \in BeatType
  BY StreamParts DEF SessionFits, SessionType
<1>2. CASE AlarmFires
  <2>1. SessionFits(sess') /\ sess'.phase = "reading"
    <3>1. Session \in 0 .. Session /\ sess' = Listening(Session)
      BY <1>2 DEF AlarmFires
    <3>2. QED
      BY <3>1, ListeningFits
  <2>2. beat' \in BeatType
    BY <1>2 DEF AlarmFires, BeatType
  <2>3. alarm' \in {NoAlarm} \cup 0 .. Watchdog /\ reading' \in BOOLEAN
    BY <1>2 DEF AlarmFires
  <2>4. UNCHANGED <<net, store, seen, pushAge, served, drops, hint, pollAge, behindTicks,
                    cronIn, cron, courier, unheard>>
    BY <1>2 DEF AlarmFires, poll, tick
  <2>5. AgesAreHonest'
    <3>1. AgesAreHonest
      BY StreamParts
    <3>2. QED
      BY <2>1, <2>4, <3>1 DEF AgesAreHonest
  <2>6. QED
    BY <2>1, <2>2, <2>3, <2>4, <2>5, StreamParts, StreamPartsNext
<1>3. CASE TimerFires
  <2>1. CASE SessionEnds(0, drops)
    <3>1. 0 \in 0 .. Watchdog /\ drops \in 0 .. MaxDrops
      BY StreamParts
    <3>2. QED
      BY <2>1, <3>1, SessionEndsKeeps
  <2>2. CASE Drop
    BY <2>2, DropKeeps
  <2>3. QED
    BY <1>3, <2>1, <2>2 DEF TimerFires
<1>4. CASE PeerDrops
  BY <1>4, DropKeeps DEF PeerDrops
<1>5. CASE Keepalive
  <2>1. SessionFits(sess') /\ sess'.phase # "active"
    BY <1>1, <1>5, ListeningFits DEF Keepalive
  <2>2. beat' \in BeatType
    <3>1. beat' = [beat EXCEPT !.session = 0, !.memory = 0]
      BY <1>5 DEF Keepalive
    <3>2. 0 \in 0 .. Heartbeat + 1
      OBVIOUS
    <3>3. QED
      BY <1>1, <3>1, <3>2 DEF BeatType
  <2>3. QED
    BY <1>5, <2>1, <2>2, SessionMovesKeep DEF Keepalive
<1>6. ASSUME NEW h \in 1 .. MaxHeight, TipEvent(h) PROVE StreamInv'
  <2>1. sess' = [sess EXCEPT !.phase = "asking", !.ask = h]
    BY <1>6 DEF TipEvent
  <2>2. sess' \in SessionType
    <3>1. h \in 0 .. MaxHeight
      BY <1>6
    <3>2. QED
      BY <1>1, <2>1, <3>1 DEF SessionType
  <2>3. sess'.timer = sess.timer /\ sess'.left = sess.left /\ sess'.phase = "asking"
    BY <1>1, <2>1 DEF SessionType
  <2>4. SessionFits(sess') /\ sess'.phase # "active"
    BY <1>1, <2>2, <2>3 DEF SessionFits
  <2>5. beat' \in BeatType
    BY <1>1, <1>6 DEF TipEvent, BeatType
  <2>6. QED
    BY <1>6, <2>4, <2>5, SessionMovesKeep DEF TipEvent
<1>7. CASE AskBusy
  <2>1. sess' = [sess EXCEPT !.asked = @ + 1] /\ sess.phase = "asking" /\ sess.asked < BusyTries
    BY <1>7 DEF AskBusy
  <2>2. sess' \in SessionType
    <3>1. sess.asked + 1 \in 0 .. BusyTries
      BY <1>1, <2>1 DEF SessionType
    <3>2. QED
      BY <1>1, <2>1, <3>1 DEF SessionType
  <2>3. sess'.timer = sess.timer /\ sess'.left = sess.left /\ sess'.phase = "asking"
    BY <1>1, <2>1 DEF SessionType
  <2>4. SessionFits(sess') /\ sess'.phase # "active"
    BY <1>1, <2>2, <2>3 DEF SessionFits
  <2>5. QED
    BY <1>1, <1>7, <2>4, SessionMovesKeep DEF AskBusy
<1>8. CASE AskDropped
  BY <1>8, AskKeeps DEF AskDropped, Hint
<1>9. CASE AskUnjudged
  BY <1>9, AskKeeps DEF AskUnjudged, Hint
<1>10. CASE AskRefused
  BY <1>10, AskKeeps DEF AskRefused
<1>11. CASE AskKnown
  BY <1>11, AskKeeps DEF AskKnown
<1>12. CASE \E o \in {"active", "inactive"} : AskStored(o)
  BY <1>12, AskStoredKeeps
<1>13. CASE SaveStored
  BY <1>13, SaveStoredKeeps
<1>14. CASE Evict
  <2>1. SessionFits(sess') /\ sess'.phase # "active"
    <3>1. 0 \in 0 .. Session
      OBVIOUS
    <3>2. QED
      BY <1>14, <3>1, ListeningFits DEF Evict
  <2>2. beat' \in BeatType
    <3>1. beat' = [beat EXCEPT !.session = Heartbeat + 1, !.memory = beat.saved]
      BY <1>14 DEF Evict
    <3>2. Heartbeat + 1 \in 0 .. Heartbeat + 1 /\ beat.saved \in 0 .. Heartbeat + 1
      BY <1>1 DEF BeatType
    <3>3. QED
      BY <1>1, <3>1, <3>2 DEF BeatType
  <2>3. QED
    BY <1>14, <2>1, <2>2, SessionMovesKeep DEF Evict
<1>15. QED
  BY <1>2, <1>3, <1>4, <1>5, <1>6, <1>7, <1>8, <1>9, <1>10, <1>11, <1>12, <1>13, <1>14
     DEF Object

\* /wake: the alarm is brought forward or left, and the ticks behind counted.
LEMMA WakeKeeps ==
    ASSUME StreamInv, NEW behind \in BOOLEAN,
           Wake(behind) \/ UNCHANGED <<alarm, behindTicks>>
    PROVE  alarm' \in {NoAlarm} \cup 0 .. Watchdog /\ behindTicks' \in 0 .. 2
<1> USE StreamConstants
<1>1. alarm \in {NoAlarm} \cup 0 .. Watchdog /\ behindTicks \in 0 .. 2
  BY StreamParts
<1> DEFINE ticks == Min({behindTicks + 1, 2})
<1>2. ticks \in 0 .. 2
  <2>1. ticks \in {behindTicks + 1, 2} /\ ticks <= 2
    BY <1>1, MinOfTwo
  <2> HIDE DEF ticks
  <2>2. QED
    BY <1>1, <2>1
<1>3. NoteBehind(behind) \in {ticks, 0}
  BY DEF NoteBehind
<1> HIDE DEF ticks
<1>4. QED
  BY <1>1, <1>2, <1>3 DEF Wake

LEMMA CronTicksKeep ==
    ASSUME StreamInv, CronTicks
    PROVE  StreamInv'
<1> USE StreamConstants
<1>1. PICK b \in BOOLEAN : Wake(b) \/ UNCHANGED <<alarm, behindTicks>>
  <2>1. Behind \subseteq BOOLEAN
    BY DEF Behind
  <2>2. (\E b \in Behind : Wake(b)) \/ UNCHANGED <<alarm, behindTicks>>
    BY DEF CronTicks, WakeAnswered, WakeUnanswered, WakeOverlaps
  <2>3. QED
    BY <2>1, <2>2
<1>2. alarm' \in {NoAlarm} \cup 0 .. Watchdog /\ behindTicks' \in 0 .. 2
  BY <1>1, WakeKeeps
<1>3. cronIn' \in 0 .. Minute /\ cron' \in {"idle", "covered", "poll", "pass"}
  BY StreamParts DEF CronTicks, WakeAnswered, WakeUnanswered, WakeOverlaps
<1>4. UNCHANGED <<net, store, seen, sess, beat, reading, pushAge, served, drops, hint, pollAge,
                  courier, unheard>>
  BY DEF CronTicks, WakeAnswered, WakeUnanswered, WakeOverlaps, state
<1>5. AgesAreHonest'
  <2>1. AgesAreHonest
    BY StreamParts
  <2>2. QED
    BY <1>4, <2>1 DEF AgesAreHonest
<1>6. QED
  BY <1>2, <1>3, <1>4, <1>5, StreamParts, StreamPartsNext

\* The end of a pass: the record starts the quiet timer only of a pass that ran.
LEMMA PassEndsKeeps ==
    ASSUME StreamInv, NEW ran \in BOOLEAN, PassEnds(ran),
           store' \in 0 .. MaxHeight, UNCHANGED seen
    PROVE  StreamInv'
<1> USE StreamConstants
<1>1. /\ cron' = "idle" /\ courier' = 0
      /\ pollAge' \in {pollAge, IF ran THEN 0 ELSE pollAge}
      /\ unheard' = IF ran THEN 0 ELSE unheard
      /\ UNCHANGED <<net, sess, beat, reading, pushAge, served, drops, alarm, behindTicks, cronIn>>
  BY DEF PassEnds, Polled
<1>2. hint' \in [height : 0 .. MaxHeight, fresh : BOOLEAN]
  <2>1. hint \in [height : 0 .. MaxHeight, fresh : BOOLEAN]
    BY StreamParts
  <2>2. NoHint \in [height : 0 .. MaxHeight, fresh : BOOLEAN]
    BY DEF NoHint
  <2>3. hint' \in {hint, NoHint}
    BY DEF PassEnds, Polled
  <2>4. QED
    BY <2>1, <2>2, <2>3
<1>3. /\ SessionFits(sess) /\ sess.since \in 0 .. Quiet /\ AgesAreHonest
      /\ pushAge \in 0 .. Quiet /\ pollAge \in 0 .. Quiet /\ unheard \in 0 .. Quiet
  BY StreamParts DEF SessionFits, SessionType
<1>4. pollAge' \in 0 .. Quiet /\ unheard' \in 0 .. Quiet
  BY <1>1, <1>3
<1>5. AgesAreHonest'
  BY <1>1, <1>3 DEF AgesAreHonest
<1>6. QED
  BY <1>1, <1>2, <1>4, <1>5, StreamParts, StreamPartsNext

LEMMA PassesKeep ==
    ASSUME StreamInv, Passes
    PROVE  StreamInv'
<1> USE StreamConstants
<1>1. store \in 0 .. MaxHeight /\ net \in 0 .. MaxHeight /\ AgesAreHonest
  BY StreamParts
<1>2. CASE PassBusy
  BY <1>1, <1>2, PassEndsKeeps DEF PassBusy
<1>3. CASE PassSkipped
  BY <1>1, <1>3, PassEndsKeeps DEF PassSkipped
<1>4. ASSUME NEW c \in 1 .. net, PassReads(c) PROVE StreamInv'
  <2>1. c \in 0 .. MaxHeight
    BY <1>1
  <2>2. /\ cron' = "pass" /\ courier' = c /\ seen' = c
        /\ UNCHANGED <<net, store, sess, beat, reading, pushAge, served, drops, hint, alarm,
                       pollAge, behindTicks, cronIn, unheard>>
    BY <1>4 DEF PassReads, state, poll
  <2>3. AgesAreHonest'
    BY <1>1, <2>2 DEF AgesAreHonest
  <2>4. QED
    BY <2>1, <2>2, <2>3, StreamParts, StreamPartsNext
<1>5. ASSUME NEW h \in Height, NEW ran \in BOOLEAN, PassStores(h, ran)
      PROVE  StreamInv'
  BY <1>5, PassEndsKeeps DEF PassStores, Height
<1>6. QED
  BY <1>2, <1>3, <1>4, <1>5 DEF Passes

LEMMA StreamInvStep ==
    ASSUME StreamInv, [StreamNext]_streamVars
    PROVE  StreamInv'
<1>1. CASE TimePasses
  BY <1>1, StreamTimePasses
<1>2. CASE NetworkGrows
  <2>1. net' \in 0 .. MaxHeight
    BY <1>2, StreamParts, StreamConstants DEF NetworkGrows
  <2>2. UNCHANGED <<store, seen, sess, beat, reading, pushAge, served, drops, hint, alarm,
                    pollAge, behindTicks, cronIn, cron, courier, unheard>>
    BY <1>2 DEF NetworkGrows, state, poll, tick
  <2>3. AgesAreHonest'
    BY <2>2, StreamParts DEF AgesAreHonest
  <2>4. QED
    BY <2>1, <2>2, <2>3, StreamParts, StreamPartsNext
<1>3. CASE UNCHANGED streamVars
  <2>1. UNCHANGED <<net, store, seen, sess, beat, reading, pushAge, served, drops, hint, alarm,
                    pollAge, behindTicks, cronIn, cron, courier, unheard>>
    BY <1>3 DEF streamVars, state, poll, tick
  <2>2. AgesAreHonest'
    BY <2>1, StreamParts DEF AgesAreHonest
  <2>3. QED
    BY <2>1, <2>2, StreamParts, StreamPartsNext
<1>4. QED
  BY <1>1, <1>2, <1>3, ObjectKeeps, CronTicksKeep, PassesKeep DEF StreamNext

LEMMA StreamInvariant == StreamSpec => []StreamInv
<1>1. StreamInit => StreamInv
  BY StreamInvInit
<1>2. StreamInv /\ [StreamNext]_streamVars => StreamInv'
  BY StreamInvStep
<1>3. QED
  BY <1>1, <1>2, PTL DEF StreamSpec

\* The object's and the cron's records keep their types, a scheduled alarm is never
\* further off than the watchdog, and a session's timer never outlives its deadline.
THEOREM StreamTypes == StreamSpec => []StreamTypeOK
<1>1. StreamInv => StreamTypeOK
  BY DEF StreamInv
<1>2. QED
  BY <1>1, StreamInvariant, PTL

\* Only a tick that /wake answered is covered.
LEMMA CoveredTick ==
    ASSUME StreamInv, [StreamNext]_streamVars,
           cronIn = 0, cronIn' = Minute, cron' = "covered"
    PROVE  unheard < Quiet
<1> USE StreamConstants
<1>1. WakeAnswered
  <2>1. Minute # 0
    OBVIOUS
  <2>2. cronIn' # cronIn
    BY <2>1
  <2>3. ~(UNCHANGED streamVars) /\ ~NetworkGrows /\ ~TimePasses
    BY <2>2 DEF streamVars, tick, NetworkGrows, TimePasses
  <2>4. ~Object
    BY <2>2 DEF Object, AlarmFires, TimerFires, PeerDrops, Drop,
                SessionEnds, Keepalive, TipEvent, AskBusy,
                AskDropped, AskUnjudged, AskRefused, AskKnown,
                AskStored, SaveStored, Saves, Evict, tick
  <2>5. ~Passes
    BY <2>2 DEF Passes, PassBusy, PassSkipped, PassReads,
                PassStores, PassEnds
  <2>6. ~WakeUnanswered /\ ~WakeOverlaps
    BY DEF WakeUnanswered, WakeOverlaps
  <2>7. QED
    BY <2>3, <2>4, <2>5, <2>6 DEF StreamNext, CronTicks
<1> DEFINE heard == Min({pushAge, pollAge})
<1>2. ~(heard >= Quiet)
  BY <1>1 DEF WakeAnswered, PollDue
<1>3. /\ pushAge \in 0 .. Quiet /\ pollAge \in 0 .. Quiet /\ unheard \in 0 .. Quiet
      /\ unheard <= pushAge /\ unheard <= pollAge
  BY StreamParts DEF AgesAreHonest
<1>4. heard \in {pushAge, pollAge}
  BY <1>3, MinOfTwo
<1> HIDE DEF heard
<1>5. QED
  BY <1>2, <1>3, <1>4

\* A tick leaves the couriers unasked only when a push really advanced the store, or
\* a pass really ran, within the quiet interval: poll_due reads ages that are honest,
\* whatever the peer says, wherever the object is evicted and whichever record of a
\* pass is lost.
THEOREM SkippedTicksWereHeard == StreamSpec => SkippedTickWasHeard
<1>1. StreamInv /\ [StreamNext]_streamVars =>
        [(cronIn = 0 /\ cronIn' = Minute /\ cron' = "covered") => unheard < Quiet]_streamVars
  BY CoveredTick
<1>2. QED
  BY <1>1, StreamInvariant, PTL DEF StreamSpec, SkippedTickWasHeard
=============================================================================
