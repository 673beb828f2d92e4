----------------------------- MODULE StoreTurns -----------------------------
(***************************************************************************)
(* What the writer lease promises, with no lease, clock or fence in it: a  *)
(* writer has the header store for one turn.  It writes during its turn    *)
(* alone, a turn is over for good once another one has written, a turn     *)
(* that was broken is not taken up again and does not count as complete.   *)
(* A writer may also go aside, past the turns: nothing is promised of it   *)
(* but that it then has no turn.                                           *)
(***************************************************************************)
CONSTANTS Writer, None

VARIABLES
    stage,        \* where each writer stands
    current,      \* the writer whose turn it is: the last to have written
    gone          \* the writers after whom another has written

turns == <<stage, current, gone>>

Stages == {"waiting", "turn", "aside", "broken", "complete", "ended"}

Init ==
    /\ stage = [w \in Writer |-> "waiting"]
    /\ current = None
    /\ gone = {}

Become(w, place) ==
    /\ stage' = [stage EXCEPT ![w] = place]
    /\ UNCHANGED <<current, gone>>

\* A writer is given its turn, or goes aside.
Begin(w) == stage[w] = "waiting" /\ \E place \in {"turn", "aside"} : Become(w, place)

\* It writes: whoever wrote last before it is gone.
Write(w) ==
    /\ stage[w] = "turn"
    /\ w \notin gone
    /\ current' = w
    /\ gone' = gone \cup ({current} \ {None, w})
    /\ UNCHANGED stage

\* Its turn is broken: it writes no more.
Break(w) == stage[w] = "turn" /\ Become(w, "broken")

\* It ends, with all it had to write written or not.
End(w) == stage[w] \in {"turn", "aside"} /\ \E place \in {"complete", "ended"} : Become(w, place)

Next == \E w \in Writer : Begin(w) \/ Write(w) \/ Break(w) \/ End(w)

Spec == Init /\ [][Next]_turns
=============================================================================
