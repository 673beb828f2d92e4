----------------------------- MODULE EventFeed -----------------------------
(***************************************************************************)
(* The chain-event journal under feed 2, after its rows are written: the   *)
(* retention and its floor, the webhook outbox, the pages and the streams. *)
(*                                                                         *)
(* The cron's tick and the tip stream's object deliver at the same time,   *)
(* with no lease between them; the tick then retains.  A row is a cursor;  *)
(* what the feed tells apart is whether it is a chain row (tip, fork,      *)
(* reorg, ...), which a consumer may never miss unannounced, or a tipAge   *)
(* row.  Ages are positions: created_at rises with the cursor.             *)
(***************************************************************************)
EXTENDS Integers, FiniteSets, Sequences, FiniteSetsExt

CONSTANTS
    Worker,       \* invocations that may deliver at the same time
    Cron,         \* those that are a cron tick, which retains after it delivered
    Target,       \* CHAIN_EVENT_WEBHOOK_URLS
    Reader,       \* clients of /events and /events/stream
    None,         \* SQL NULL; a stream that is not open
    Budget,       \* rows one delivery reads for a target (32 / targets)
    PageSize,     \* PAGE_SIZE
    RetainLimit,  \* rows one retention deletes (1000)
    StreamBound,  \* STREAM_QUERY_BOUND
    Casts,        \* bound: who there is of these, and the rows ever journaled for them
    MaxCrashes    \* bound: invocations cut short

ASSUME FeedAssumption ==
    /\ Cron \subseteq Worker
    /\ None \notin Nat
    /\ {Budget, PageSize, RetainLimit, StreamBound} \subseteq Nat \ {0}
    /\ MaxCrashes \in Nat
    /\ \A c \in Casts : c.who \subseteq Worker \cup Target \cup Reader /\ c.rows \in Nat

VARIABLES
    cast,         \* the targets configured, the invocations and clients there are
    last,         \* the last cursor AUTOINCREMENT gave
    journal,      \* the cursors of the rows in chain_events
    chain,        \* the cursors written as chain rows, kept or deleted since
    floor,        \* chain_event_state.floor
    aged,         \* rows up to here are older than RETAIN_CHAIN_SECS
    stale,        \* rows up to here are older than RETAIN_TIP_AGE_SECS
    cursor,       \* chain_event_deliveries
    pc,           \* where each invocation stands
    loc,          \* what it has read
    since,        \* the last cursor each reader has
    left,         \* the queries its open stream has left
    crashes,
    \* History, read by the properties alone.
    accepted,     \* the chain rows each target accepted
    start,        \* the first cursor each target held
    seen          \* the chain rows each reader read, or re-read after a 410

table == <<last, journal, chain, floor>>
clock == <<aged, stale>>
outbox == <<cursor, accepted, start>>
invocation == <<pc, loc, crashes>>
readers == <<since, left, seen>>
vars == <<cast, table, clock, outbox, invocation, readers>>

Blank == [since |-> [t \in Target |-> 0], left |-> {}, target |-> None, rows |-> {},
          floor |-> 0, aged |-> 0, stale |-> 0]

-----------------------------------------------------------------------------
(* Reads and the statements' own sets.                                      *)

\* COALESCE(MAX(cursor), 0).
HeadCursor == IF journal = {} THEN 0 ELSE Max(journal)

\* The n lowest of a set of cursors (ORDER BY cursor LIMIT n), and of the rows.
Lowest(S, n) == {c \in S : Cardinality({d \in S : d < c}) < n}
RowsAbove(c, n) == Lowest({d \in journal : d > c}, n)

\* RETAIN_PICKED: the chain rows above the floor read, before the first row
\* young enough; the tipAge rows past their day; never the head row.
Young(from, old) ==
    LET young == {c \in journal : c > from /\ c > old}
    IN  IF young = {} THEN HeadCursor ELSE Min(young)

\* Mutant of PickedChain: the whole journal may age, its head row too.
PickedChainWithHead(from, old) == {c \in journal \cap chain : c > from /\ c <= old}
PickedChain(from, old) == {c \in journal \cap chain : c > from /\ c < Young(from, old)}
PickedAge(old) == {c \in journal \ chain : c <= old /\ c < HeadCursor}

\* Mutant of RaisedFloor: the floor is the oldest row deleted.
RaisedFloorToOldest(picked) ==
    IF picked \cap chain = {} THEN floor ELSE Max({floor, Min(picked \cap chain)})

\* sql_retain_floor.
RaisedFloor(picked) ==
    IF picked \cap chain = {} THEN floor ELSE Max({floor, Max(picked \cap chain)})

\* Mutant of Expired: the floor's own cursor counts as below it.
ExpiredAtFloor(c) == c <= floor

\* Wake::expired.
Expired(c) == c < floor

\* A target's place by one SQL_OUTBOX: its stored cursor, else the floor.
Place(t) == IF cursor[t] = None THEN floor ELSE cursor[t]

\* Mutant of Behind: a target at the floor counts as below it.
BehindStrictly(t) == Place(t) # HeadCursor /\ Place(t) > floor

\* A target at the head is done, one below the floor waits for the operator.
Behind(t) == Place(t) # HeadCursor /\ Place(t) >= floor

\* Mutant of Advanced: the outbox's upsert without its MAX.
AdvancedTo(t, c) == c

\* The upsert of chain_event_deliveries.
Advanced(t, c) == IF cursor[t] # None /\ cursor[t] > c THEN cursor[t] ELSE c

-----------------------------------------------------------------------------
Init ==
    /\ cast \in Casts
    /\ last = 0
    /\ journal = {}
    /\ chain = {}
    /\ floor = 0
    /\ aged = 0
    /\ stale = 0
    /\ cursor = [t \in Target |-> None]
    /\ pc = [w \in Worker |-> "idle"]
    /\ loc = [w \in Worker |-> Blank]
    /\ since = [r \in Reader |-> 0]
    /\ left = [r \in Reader |-> None]
    /\ crashes = 0
    /\ accepted = [t \in Target |-> {}]
    /\ start = [t \in Target |-> 0]
    /\ seen = [r \in Reader |-> {}]

\* A fork's row, or a publish: a reorg's row before the tip's, its age after it.
Appends == {<<"chain">>, <<"chain", "tipAge">>, <<"chain", "chain", "tipAge">>}

Journal(rows) ==
    /\ last + Len(rows) <= cast.rows
    /\ last' = last + Len(rows)
    /\ journal' = journal \cup (last + 1 .. last + Len(rows))
    /\ chain' = chain \cup {last + i : i \in {j \in 1 .. Len(rows) : rows[j] = "chain"}}
    /\ UNCHANGED <<floor, clock, outbox, invocation, readers>>

\* A day passes over some tipAge rows, ninety over some chain rows.
DayPasses ==
    /\ stale' \in stale + 1 .. last
    /\ UNCHANGED <<aged, table, outbox, invocation, readers>>
MonthsPass ==
    /\ aged' \in aged + 1 .. stale
    /\ UNCHANGED <<stale, table, outbox, invocation, readers>>

Goto(w, place) == pc' = [pc EXCEPT ![w] = place]

\* deliver_v2's one read for every target: head, floor and cursors.
ReadOutbox(w) ==
    /\ pc[w] = "idle"
    /\ loc' = [loc EXCEPT ![w] =
                 [Blank EXCEPT !.since = [t \in Target |-> Place(t)],
                               !.left = {t \in Target \cap cast.who : Behind(t)}]]
    /\ Goto(w, "targets")
    /\ UNCHANGED <<table, clock, outbox, crashes, readers>>

\* SQL_ROWS, a read of its own for each behind target.
ReadRows(w, t) ==
    /\ pc[w] = "targets"
    /\ t \in loc[w].left
    /\ loc' = [loc EXCEPT ![w].left = @ \ {t}, ![w].target = t,
                          ![w].rows = RowsAbove(loc[w].since[t], Budget)]
    /\ Goto(w, "post")
    /\ UNCHANGED <<table, clock, outbox, crashes, readers>>

\* post_events, the lowest row first: the target accepts it ...
Accept(w) ==
    /\ pc[w] = "post"
    /\ loc[w].rows # {}
    /\ accepted' = [accepted EXCEPT ![loc[w].target] = @ \cup ({Min(loc[w].rows)} \cap chain)]
    /\ Goto(w, "record")
    /\ UNCHANGED <<table, clock, cursor, start, loc, crashes, readers>>

\* ... and its cursor advances;
Record(w) ==
    /\ pc[w] = "record"
    /\ LET t == loc[w].target
       IN  /\ cursor' = [cursor EXCEPT ![t] = Advanced(t, Min(loc[w].rows))]
           /\ start' = [start EXCEPT ![t] = IF cursor[t] = None THEN Min(loc[w].rows) ELSE @]
    /\ loc' = [loc EXCEPT ![w].rows = @ \ {Min(@)}]
    /\ Goto(w, "post")
    /\ UNCHANGED <<table, clock, accepted, crashes, readers>>

\* Mutant of NextTarget: a refused row is passed over.
NextTargetSkips(w) ==
    /\ pc[w] = "post"
    /\ loc' = [loc EXCEPT ![w].rows = IF @ = {} THEN @ ELSE @ \ {Min(@)}]
    /\ Goto(w, IF loc[w].rows = {} THEN "targets" ELSE "post")
    /\ UNCHANGED <<table, clock, outbox, crashes, readers>>

\* ... a refusal stops the target at its cursor, as the last row does.
NextTarget(w) ==
    /\ pc[w] = "post"
    /\ loc' = [loc EXCEPT ![w].rows = {}, ![w].target = None]
    /\ Goto(w, "targets")
    /\ UNCHANGED <<table, clock, outbox, crashes, readers>>

Delivered(w) ==
    /\ pc[w] = "targets"
    /\ loc[w].left = {}
    /\ loc' = [loc EXCEPT ![w] = Blank]
    /\ Goto(w, IF w \in Cron THEN "retain" ELSE "idle")
    /\ UNCHANGED <<table, clock, outbox, crashes, readers>>

\* retain reads its clock and the floor ...
ReadFloor(w) ==
    /\ pc[w] = "retain"
    /\ loc' = [loc EXCEPT ![w].floor = floor, ![w].aged = aged, ![w].stale = stale]
    /\ Goto(w, "delete")
    /\ UNCHANGED <<table, clock, outbox, crashes, readers>>

\* ... then raises the floor and deletes in one transaction.
Retain(w) ==
    /\ pc[w] = "delete"
    /\ LET picked == Lowest(PickedChain(loc[w].floor, loc[w].aged) \cup PickedAge(loc[w].stale),
                            RetainLimit)
       IN  /\ floor' = RaisedFloor(picked)
           /\ journal' = journal \ picked
    /\ loc' = [loc EXCEPT ![w] = Blank]
    /\ Goto(w, "idle")
    /\ UNCHANGED <<last, chain, clock, outbox, crashes, readers>>

\* The invocation is evicted, or a read or a write of its own fails.  A failed
\* delivery's tick goes on to the retention.
Crash(w) ==
    /\ pc[w] # "idle"
    /\ crashes < MaxCrashes
    /\ crashes' = crashes + 1
    /\ loc' = [loc EXCEPT ![w] = Blank]
    /\ \/ Goto(w, "idle")
       \/ w \in Cron /\ pc[w] \in {"targets", "post", "record"} /\ Goto(w, "retain")
    /\ UNCHANGED <<table, clock, outbox, readers>>

\* One SQL_WAKE answered with a page.
TakePage(r) ==
    LET page == RowsAbove(since[r], PageSize)
    IN  /\ since' = [since EXCEPT ![r] = IF page = {} THEN @ ELSE Max(page)]
        /\ seen' = [seen EXCEPT ![r] = @ \cup (page \cap chain)]

\* event_response_v2: a page, or a stream that has spent the query of its open.
Ask(r) ==
    /\ left[r] = None
    /\ ~Expired(since[r])
    /\ TakePage(r)
    /\ \E open \in {None, StreamBound - 1} : left' = [left EXCEPT ![r] = open]
    /\ UNCHANGED <<table, clock, outbox, invocation>>

\* The 410 cursorExpired: the client re-reads its own chain against the headers
\* and resumes from the floor it was given.
Reread(r) ==
    /\ left[r] = None
    /\ Expired(since[r])
    /\ since' = [since EXCEPT ![r] = floor]
    /\ seen' = [seen EXCEPT ![r] = chain \cap 1 .. floor]
    /\ UNCHANGED <<left, table, clock, outbox, invocation>>

\* stream_v2: one query a wake while the bound leaves one.
Wake(r) ==
    /\ left[r] # None
    /\ left[r] > 0
    /\ ~Expired(since[r])
    /\ TakePage(r)
    /\ left' = [left EXCEPT ![r] = @ - 1]
    /\ UNCHANGED <<table, clock, outbox, invocation>>

\* The stream ends: its bound is spent, the floor passed its cursor, a fault,
\* or the client went away.
EndStream(r) ==
    /\ left[r] # None
    /\ left' = [left EXCEPT ![r] = None]
    /\ UNCHANGED <<since, seen, table, clock, outbox, invocation>>

Step(w) ==
    \/ ReadOutbox(w) \/ (\E t \in Target : ReadRows(w, t)) \/ Accept(w) \/ Record(w)
    \/ NextTarget(w) \/ Delivered(w) \/ ReadFloor(w) \/ Retain(w)

Read(r) == Ask(r) \/ Reread(r) \/ Wake(r) \/ EndStream(r)

Next ==
    /\ \/ \E rows \in Appends : Journal(rows)
       \/ DayPasses \/ MonthsPass
       \/ \E w \in Worker \cap cast.who : Step(w) \/ Crash(w)
       \/ \E r \in Reader \cap cast.who : Read(r)
    /\ UNCHANGED cast

Spec == Init /\ [][Next]_vars

\* The cron comes every minute, a client asks again, and a target that is asked
\* again and again accepts once.
Present(x) == x \in cast.who /\ UNCHANGED cast

Fairness ==
    /\ \A w \in Worker : WF_vars(Present(w) /\ Step(w)) /\ SF_vars(Present(w) /\ Accept(w))
    /\ \A r \in Reader : /\ WF_vars(Present(r) /\ Read(r))
                         /\ SF_vars(Present(r) /\ Ask(r)) /\ SF_vars(Present(r) /\ Reread(r))

FairSpec == Spec /\ Fairness

-----------------------------------------------------------------------------
(* Properties.                                                              *)

\* What an invocation has read.
Reading == [since : [Target -> 0 .. last], left : SUBSET Target,
            target : Target \cup {None}, rows : SUBSET (1 .. last),
            floor : 0 .. last, aged : 0 .. last, stale : 0 .. last]

\* Type invariant of the journal, the outbox, the invocations and the readers;
\* no cursor anywhere is one AUTOINCREMENT has not given.
TypeOK ==
    /\ cast \in Casts
    /\ last \in 0 .. cast.rows
    /\ journal \subseteq 1 .. last
    /\ chain \subseteq 1 .. last
    /\ {floor, aged, stale} \subseteq 0 .. last
    /\ cursor \in [Target -> 0 .. last \cup {None}]
    /\ pc \in [Worker -> {"idle", "targets", "post", "record", "retain", "delete"}]
    /\ loc \in [Worker -> Reading]
    /\ crashes \in 0 .. MaxCrashes
    /\ accepted \in [Target -> SUBSET (1 .. last)]
    /\ start \in [Target -> 0 .. last]
    /\ since \in [Reader -> 0 .. last]
    /\ left \in [Reader -> 0 .. StreamBound \cup {None}]
    /\ seen \in [Reader -> SUBSET (1 .. last)]

\* A client that follows its cursor misses no chain row unannounced: every
\* chain row up to its cursor was in a page or a stream it read, or below the
\* floor a 410 told it of, whatever was deleted between its reads (retain,
\* read_wake, Wake::expired).
NoReaderSkips == \A r \in Reader : chain \cap 1 .. since[r] \subseteq seen[r]

\* A target's cursor moves up alone, and over no chain row that is still in the
\* journal and that the target has not accepted, whichever invocations deliver
\* to it at the same time, however slow one is, and wherever they are cut
\* (post_events, the upsert's MAX).
CursorMovesOverAcceptedRows ==
    [][\A t \in Target : cursor'[t] # cursor[t] =>
         /\ cursor[t] # None => cursor'[t] # None /\ cursor'[t] > cursor[t]
         /\ journal' \cap chain' \cap 1 .. cursor'[t] \subseteq accepted'[t]]_vars

\* No cursor the feed handed out is ever ahead of the journal, where it would
\* be answered cursorAhead: the retention never deletes the head row.
NoCursorIsAhead ==
    /\ \A r \in Reader : since[r] <= HeadCursor
    /\ \A t \in Target : cursor[t] # None => cursor[t] <= HeadCursor

\* "its cursor is known to stand inside the journal" (SQL_ROWS): a target that
\* holds a cursor is never moved past a chain row it did not accept; one the
\* floor has passed waits for the operator.
NoTargetSkips ==
    \A t \in Target :
        cursor[t] # None => chain \cap start[t] + 1 .. cursor[t] \subseteq accepted[t]

\* Once the chain rests every target ends at the head, or is below the floor
\* and waits for the operator.
OutboxDrains ==
    \A t \in Target : <>[](t \in cast.who => Place(t) = HeadCursor \/ Place(t) < floor)

\* Once the chain rests every client ends at the head, through pages, spent
\* streams and 410s.
ReadersCatchUp == \A r \in Reader : <>[](r \in cast.who => since[r] = HeadCursor)
=============================================================================
