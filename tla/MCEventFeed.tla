---------------------------- MODULE MCEventFeed ----------------------------
(* Instances of EventFeed: two invocations that deliver to a target at the  *)
(* same time, or one and a client; pages, budgets and retentions of one or  *)
(* two rows, so that every limit is reached by a journal of a few.          *)
EXTENDS EventFeed, TLC

CONSTANTS w1, w2, t1, r1

TwoWorkers == {w1, w2}
OneTarget == {t1}
OneReader == {r1}

Outbox == [who |-> TwoWorkers \cup OneTarget, rows |-> 3]
Client == [who |-> {w1, r1}, rows |-> 4]
OutboxOrClient == {Outbox, Client}
OutboxAlone == {[Outbox EXCEPT !.rows = 4]}

WorkerSymmetry == Permutations(TwoWorkers)
=============================================================================
