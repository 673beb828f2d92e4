----------------------------- MODULE TipStream -----------------------------
(***************************************************************************)
(* The push source and the poll behind it: the durable object that reads   *)
(* the peer's tip stream in sessions of bounded length, and the minute     *)
(* cron, which asks it on every tick whether the couriers are polled.      *)
(*                                                                         *)
(* Clocks are relative.  An age is the time since an instant, saturating   *)
(* where the code stops telling ages apart; an alarm is the time left.     *)
(* Of the chain only heights are kept: net is what the network has, store  *)
(* the served tip.  The peer may name any height, in any order, or none;   *)
(* what the door does with it (HeaderStore) is a choice here, and so is    *)
(* whether a writer finds the lease held (WriterLease), except that a push *)
(* never takes it from a pass at work.                                     *)
(*                                                                         *)
(* The specification has names of its own (StreamInit, StreamSpec, ...):   *)
(* its proofs stand in one module with the lease's.                        *)
(***************************************************************************)
EXTENDS Integers, FiniteSetsExt

CONSTANTS
    NoAlarm,      \* no alarm scheduled
    Heartbeat,    \* HEARTBEAT_S, in units of time
    Minute,       \* the cron's period and BACKOFF_CAP_MS
    Quiet,        \* POLL_QUIET_S
    Session,      \* SESSION_S
    BackoffFirst, \* BACKOFF_FIRST_MS
    BusyTries,    \* BUSY_TRIES
    MaxDrops,     \* bound: where drops_in_row saturates, past the backoff's cap
    MaxHeight     \* bound: the network's last height

ASSUME StreamAssumption ==
    /\ NoAlarm \notin Nat
    /\ {Heartbeat, Minute, Quiet, Session, BackoffFirst, MaxDrops, MaxHeight} \subseteq Nat \ {0}
    /\ BusyTries \in Nat
    /\ Heartbeat < Minute

VARIABLES
    net,          \* the network's tip
    store,        \* the served tip (is_chain_tip)
    seen,         \* sync_state.last_seen_height
    sess,         \* the session in the alarm handler, lost with the object
    beat,         \* the age of last_beat_at: the session's if there is one, the one in memory, the saved one
    reading,      \* StreamState.reading
    pushAge,      \* the age of last_push_at
    served,       \* last_tip_height
    drops,        \* drops_in_row
    hint,         \* hint_height, and whether hint_at is after last_poll_at (else it is not read)
    alarm,        \* the time to the object's alarm
    pollAge,      \* the age of last_poll_at
    behindTicks,  \* behind_ticks, which the poll rule reads up to 2
    cronIn,       \* the time to the next tick
    cron,         \* the tick: idle, covered by the push, about to poll, in its pass
    courier,      \* the tip the pass read of the couriers
    \* History, read by a property alone.
    unheard       \* the time since the last push that advanced the store or pass that ran

state == <<reading, pushAge, served, drops, hint>>
poll == <<pollAge, behindTicks>>
tick == <<cronIn, cron, courier>>
streamVars == <<net, store, seen, sess, beat, state, alarm, poll, tick, unheard>>

Height == 0..MaxHeight
Watchdog == Session + Heartbeat + Minute
NoHint == [height |-> 0, fresh |-> FALSE]
NoSession == [phase |-> "none", left |-> 0, timer |-> 0, ask |-> 0, asked |-> 0, since |-> 0]

-----------------------------------------------------------------------------
(* The rules of StreamState and PollState.                                  *)

Older(age, limit) == Min({age + 1, limit})

\* backoff_ms.
Backoff(n) == Min({BackoffFirst * 2^(n - 1), Minute})

\* StreamState::live, on the state in memory.
Live == reading /\ beat.memory <= Heartbeat

\* Mutant of WakeDue: only a reconnect too far off is brought forward.
WakeDueScheduled == ~Live /\ alarm # NoAlarm /\ alarm > Minute

\* StreamState::wake_due.
WakeDue == ~Live /\ (alarm = NoAlarm \/ alarm > Minute)

\* Mutant of Heard: a header stored and kept inactive is a push heard.
HeardStored(outcome) == outcome \in {"active", "inactive"}

\* StreamState::ingested: the outcomes that set last_push_at.
Heard(outcome) == outcome = "active"

\* PollState::note_behind_or_hinted.
Hinted == hint.fresh /\ hint.height > served
NoteBehind(behind) == IF behind \/ Hinted THEN Min({behindTicks + 1, 2}) ELSE 0

\* poll_due.
PollDue(ticks) == ~Live \/ ticks > 1 \/ Min({pushAge, pollAge}) >= Quiet

-----------------------------------------------------------------------------
StreamInit ==
    /\ net = 1 /\ store = 1 /\ seen = 1
    /\ sess = NoSession
    /\ beat = [session |-> Heartbeat + 1, memory |-> Heartbeat + 1, saved |-> Heartbeat + 1]
    /\ reading = FALSE
    /\ pushAge = Quiet
    /\ served = 0
    /\ drops = 0
    /\ hint = NoHint
    /\ alarm = NoAlarm
    /\ pollAge = Quiet
    /\ behindTicks = 0
    /\ cronIn = 0
    /\ cron = "idle"
    /\ courier = 0
    /\ unheard = Quiet

(***************************************************************************)
(* Time.  A tick of the cron is not late, nor is the session's timer; an   *)
(* alarm may be, and a door, a pass or a delivery takes what it takes.     *)
(***************************************************************************)
TimePasses ==
    /\ cronIn > 0
    /\ sess.phase = "reading" => sess.timer > 0
    /\ cronIn' = cronIn - 1
    /\ sess' = [sess EXCEPT !.left = Max({@ - 1, 0}), !.timer = Max({@ - 1, 0}),
                            !.since = IF sess.phase = "active" THEN Older(@, Quiet) ELSE @]
    /\ beat' = [c \in DOMAIN beat |-> Older(beat[c], Heartbeat + 1)]
    /\ pushAge' = Older(pushAge, Quiet)
    /\ pollAge' = Older(pollAge, Quiet)
    /\ alarm' = IF alarm = NoAlarm THEN NoAlarm ELSE Max({alarm - 1, 0})
    /\ unheard' = Older(unheard, Quiet)
    /\ UNCHANGED <<net, store, seen, reading, served, drops, hint, behindTicks, cron, courier>>

NetworkGrows ==
    /\ net < MaxHeight
    /\ net' = net + 1
    /\ UNCHANGED <<store, seen, sess, beat, state, alarm, poll, tick, unheard>>

-----------------------------------------------------------------------------
(* The object: one alarm is one session.                                    *)

\* Mutant of Listening: a timer that does not stop at the deadline.
ListeningPastDeadline(left) ==
    [NoSession EXCEPT !.phase = "reading", !.left = left, !.timer = Heartbeat]

\* The select's timer, set at the head of the read loop.
Listening(left) == [NoSession EXCEPT !.phase = "reading", !.left = left,
                                     !.timer = Min({Heartbeat, left})]

\* session, to its first save.  set_alarm may fail: no watchdog then.
AlarmFires ==
    /\ alarm = 0
    /\ sess.phase = "none"
    /\ alarm' \in {Watchdog, NoAlarm}
    /\ sess' = Listening(Session)
    /\ beat' = [session |-> 0, memory |-> 0, saved |-> 0]
    /\ reading' = TRUE
    /\ UNCHANGED <<net, store, seen, pushAge, served, drops, hint, poll, tick, unheard>>

\* session, from read's answer on: the budget spent, or a drop.
SessionEnds(next, inRow) ==
    /\ sess.phase = "reading"
    /\ sess' = NoSession
    /\ reading' = FALSE
    /\ beat' = [session |-> Heartbeat + 1, memory |-> beat.session, saved |-> beat.session]
    /\ drops' = inRow
    /\ alarm' \in {next, alarm}
    /\ UNCHANGED <<net, store, seen, pushAge, served, hint, poll, tick, unheard>>

Drop == LET n == Min({drops + 1, MaxDrops}) IN SessionEnds(Backoff(n), n)

\* No byte within the heartbeat, or the session's deadline.
TimerFires ==
    /\ sess.timer = 0
    /\ IF sess.left = 0 THEN SessionEnds(0, drops) ELSE Drop

\* The peer closed the stream, refused it, or a read failed.
PeerDrops == sess.left > 0 /\ Drop

\* A keepalive: published, not saved.
Keepalive ==
    /\ sess.phase = "reading" /\ sess.left > 0
    /\ sess' = Listening(sess.left)
    /\ beat' = [beat EXCEPT !.session = 0, !.memory = 0]
    /\ UNCHANGED <<net, store, seen, state, alarm, poll, tick, unheard>>

\* A tip event: the beat is the session's alone until the door has answered.
TipEvent(h) ==
    /\ sess.phase = "reading" /\ sess.left > 0
    /\ sess' = [sess EXCEPT !.phase = "asking", !.ask = h]
    /\ beat' = [beat EXCEPT !.session = 0]
    /\ UNCHANGED <<net, store, seen, state, alarm, poll, tick, unheard>>

\* The end of tip (save), and back to the head of the loop.
Saves ==
    /\ sess' = Listening(sess.left)
    /\ beat' = [beat EXCEPT !.memory = beat.session, !.saved = beat.session]
    /\ UNCHANGED <<net, reading, alarm, poll, tick>>

\* The lease is held: ask again, and at the last ask drop the push, its height
\* left as a hint.
AskBusy ==
    /\ sess.phase = "asking" /\ sess.asked < BusyTries
    /\ sess' = [sess EXCEPT !.asked = @ + 1]
    /\ UNCHANGED <<net, store, seen, beat, state, alarm, poll, tick, unheard>>

Hint(h) == hint' = [height |-> h, fresh |-> TRUE]

AskDropped ==
    /\ sess.phase = "asking" /\ sess.asked = BusyTries
    /\ Hint(sess.ask)
    /\ served' = store
    /\ drops' = 0
    /\ Saves
    /\ UNCHANGED <<store, seen, pushAge, unheard>>

\* The push's ancestry could not be had (push::unjudged).
AskUnjudged ==
    /\ sess.phase = "asking" /\ sess.ask > store
    /\ cron # "pass"
    /\ Hint(sess.ask)
    /\ Saves
    /\ UNCHANGED <<store, seen, pushAge, served, drops, unheard>>

\* Refused by the rules, or the store faulted.
AskRefused ==
    /\ sess.phase = "asking"
    /\ Saves
    /\ UNCHANGED <<store, seen, pushAge, served, drops, hint, unheard>>

AskKnown ==
    /\ sess.phase = "asking" /\ sess.ask <= store
    /\ served' = store
    /\ drops' = 0
    /\ Saves
    /\ UNCHANGED <<store, seen, pushAge, hint, unheard>>

\* The door stored the header; the outbox runs before the save.
AskStored(outcome) ==
    /\ sess.phase = "asking" /\ sess.ask <= net
    /\ cron # "pass"
    /\ outcome = "active" => sess.ask > store
    /\ store' = IF outcome = "active" THEN sess.ask ELSE store
    /\ seen' = Max({seen, sess.ask})
    /\ unheard' = IF outcome = "active" THEN 0 ELSE unheard
    /\ sess' = [sess EXCEPT !.phase = outcome, !.since = 0]
    /\ UNCHANGED <<net, beat, state, alarm, poll, tick>>

SaveStored ==
    /\ sess.phase \in {"active", "inactive"}
    /\ pushAge' = IF Heard(sess.phase) THEN sess.since ELSE pushAge
    /\ served' = store
    /\ drops' = 0
    /\ Saves
    /\ UNCHANGED <<store, seen, hint, unheard>>

\* The object is evicted: its session and its memory are gone, its storage and
\* its alarm stand.
Evict ==
    /\ sess.phase # "none"
    /\ sess' = NoSession
    /\ beat' = [beat EXCEPT !.session = Heartbeat + 1, !.memory = beat.saved]
    /\ UNCHANGED <<net, store, seen, state, alarm, poll, tick, unheard>>

-----------------------------------------------------------------------------
(* The cron.                                                                *)

\* /wake, given store_behind (FALSE on a read fault).
Wake(behind) ==
    /\ alarm' = IF WakeDue THEN 0 ELSE alarm
    /\ behindTicks' = NoteBehind(behind)

Behind == {seen > store, FALSE}

WakeAnswered ==
    /\ cronIn = 0 /\ cron \in {"idle", "covered"}
    /\ cronIn' = Minute
    /\ \E b \in Behind :
          /\ Wake(b)
          /\ cron' = IF PollDue(NoteBehind(b)) THEN "poll" ELSE "covered"
    /\ UNCHANGED <<net, store, seen, sess, beat, state, pollAge, courier, unheard>>

\* The call failed, before or after the object ran it: the tick polls.
WakeUnanswered ==
    /\ cronIn = 0 /\ cron \in {"idle", "covered"}
    /\ cronIn' = Minute
    /\ cron' = "poll"
    /\ (\E b \in Behind : Wake(b)) \/ UNCHANGED <<alarm, behindTicks>>
    /\ UNCHANGED <<net, store, seen, sess, beat, state, pollAge, courier, unheard>>

\* A tick while the one before is still at work finds the lease held: of it only
\* the /wake is left.
WakeOverlaps ==
    /\ cronIn = 0 /\ cron \in {"poll", "pass"}
    /\ cronIn' = Minute
    /\ (\E b \in Behind : Wake(b)) \/ UNCHANGED <<alarm, behindTicks>>
    /\ UNCHANGED <<net, store, seen, sess, beat, state, pollAge, cron, courier, unheard>>

\* Mutant of Polled: a pass the lease turned away is a poll.
PolledAlways(ran) == pollAge' = 0 /\ hint' = NoHint

\* /polled: a pass that ran starts the quiet timer and spends the hint.
Polled(ran) ==
    /\ pollAge' = IF ran THEN 0 ELSE pollAge
    /\ hint' = IF ran THEN NoHint ELSE hint

\* The pass ends and the record is kept, or the call for it is lost.
PassEnds(ran) ==
    /\ cron' = "idle"
    /\ courier' = 0
    /\ Polled(ran) \/ UNCHANGED <<pollAge, hint>>
    /\ unheard' = IF ran THEN 0 ELSE unheard
    /\ UNCHANGED <<net, sess, beat, reading, pushAge, served, drops, alarm, behindTicks, cronIn>>

\* Another writer holds the lease.
PassBusy ==
    /\ cron = "poll"
    /\ PassEnds(FALSE)
    /\ UNCHANGED <<store, seen>>

\* No courier answered the tip: the pass is skipped, and has run.
PassSkipped ==
    /\ cron = "poll"
    /\ PassEnds(TRUE)
    /\ UNCHANGED <<store, seen>>

\* The couriers name their tip; it is the seen height, above or below the last.
PassReads(c) ==
    /\ cron = "poll"
    /\ cron' = "pass"
    /\ courier' = c
    /\ seen' = c
    /\ UNCHANGED <<net, store, sess, beat, state, alarm, poll, cronIn, unheard>>

\* The pass brought the store to h, and completed or failed.
PassStores(h, ran) ==
    /\ cron = "pass"
    /\ h = store \/ h \in store..courier
    /\ store' = h
    /\ PassEnds(ran)
    /\ UNCHANGED <<seen>>

-----------------------------------------------------------------------------
Object ==
    \/ AlarmFires \/ TimerFires \/ PeerDrops \/ Keepalive
    \/ \E h \in 1..MaxHeight : TipEvent(h)
    \/ AskBusy \/ AskDropped \/ AskUnjudged \/ AskRefused \/ AskKnown
    \/ \E o \in {"active", "inactive"} : AskStored(o)
    \/ SaveStored \/ Evict

CronTicks == WakeAnswered \/ WakeUnanswered \/ WakeOverlaps

Passes ==
    \/ PassBusy \/ PassSkipped
    \/ \E c \in 1..net : PassReads(c)
    \/ \E h \in Height, ran \in BOOLEAN : PassStores(h, ran)

StreamNext == TimePasses \/ NetworkGrows \/ Object \/ CronTicks \/ Passes

StreamSpec == StreamInit /\ [][StreamNext]_streamVars

(***************************************************************************)
(* Time passes, the runtime's cron and alarms come, timers fire and a pass *)
(* ends.  The lease is not held against the cron for ever (WriterLease),   *)
(* the couriers are not wrong for ever, nor does every call of the object  *)
(* or every pass fail.  Of the peer nothing is assumed.                    *)
(***************************************************************************)
StreamFairSpec ==
    /\ StreamSpec
    /\ WF_streamVars(TimePasses)
    /\ WF_streamVars(CronTicks)
    /\ SF_streamVars(WakeAnswered)
    /\ WF_streamVars(AlarmFires)
    /\ WF_streamVars(TimerFires)
    /\ WF_streamVars(Passes)
    /\ SF_streamVars(PassReads(net))
    /\ SF_streamVars(PassStores(net, TRUE))

-----------------------------------------------------------------------------
Age(limit) == 0..limit

\* Types of the object's and the cron's records; a scheduled alarm is never
\* further off than the watchdog, nor a session's timer than its deadline.
StreamTypeOK ==
    /\ {net, store, seen, served, courier} \subseteq Height
    /\ sess \in [phase : {"none", "reading", "asking", "active", "inactive"},
                 left : 0..Session, timer : 0..Heartbeat, ask : Height,
                 asked : 0..BusyTries, since : Age(Quiet)]
    /\ sess.timer <= sess.left
    /\ beat \in [session : Age(Heartbeat + 1), memory : Age(Heartbeat + 1), saved : Age(Heartbeat + 1)]
    /\ reading \in BOOLEAN
    /\ {pushAge, pollAge, unheard} \subseteq Age(Quiet)
    /\ drops \in 0..MaxDrops
    /\ hint \in [height : Height, fresh : BOOLEAN]
    /\ alarm \in {NoAlarm} \cup 0..Watchdog
    /\ behindTicks \in 0..2
    /\ cronIn \in 0..Minute
    /\ cron \in {"idle", "covered", "poll", "pass"}

\* A tick leaves the couriers unasked only when, within the quiet interval, a push
\* really advanced the store or a pass really ran (poll_due over what /polled,
\* ingested and an evicted object's storage kept of it).
SkippedTickWasHeard ==
    [][(cronIn = 0 /\ cronIn' = Minute /\ cron' = "covered") => unheard < Quiet]_streamVars

\* Whatever the peer says, repeats or withholds, the store comes to the network's
\* tip: no stream of pushes keeps the poll from running (#31's pump, #34).
StoreCatchesUp == []<>(store = net)

\* After any eviction, drop or failed set_alarm a session begins again.
StreamComesBack == []<>(sess.phase # "none")
=============================================================================
