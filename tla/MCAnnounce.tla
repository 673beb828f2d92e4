----------------------------- MODULE MCAnnounce -----------------------------
(* Instances of Announce: announcers that cross, or consumers that refuse,  *)
(* while the tip moves.                                                     *)
EXTENDS Announce, TLC

CONSTANTS a1, a2, t1, t2

TwoAnnouncers == {a1, a2}
TwoTargets == {t1, t2}

\* Announcers that cross at one consumer, and consumers that one announcer asks
\* while two reorgs come in.
Crossing == [announcers |-> {a1, a2}, targets |-> {t1}, height |-> 1, moves |-> 1]
Asking == [announcers |-> {a1}, targets |-> {t1, t2}, height |-> 2, moves |-> 2]
EitherCast == {Crossing, Asking}
CrossingCast == {Crossing}
=============================================================================
