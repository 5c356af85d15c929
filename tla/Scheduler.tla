----------------------------- MODULE Scheduler ------------------------------
(***************************************************************************)
(* One task of tasks.yml and its handler (emrg/server/scheduler.py).       *)
(*                                                                         *)
(* The file is the whole truth: the scheduler's reconcile starts a handler *)
(* for an enabled record that has none, and the handler reads its own      *)
(* record before and after every wait and retires by itself.  A wait ends  *)
(* when the task is due, when the host triggers it, or when a poll finds a *)
(* condition of the record holding.  A handler leaves three files behind   *)
(* for the next one: when the task is due, whether it was slowed down, and *)
(* the marker of the cycle in progress.  The file can be edited by hand at *)
(* any time and the daemon can be stopped or killed at any time.           *)
(*                                                                         *)
(* Time is kept as what is left of it: a deadline counts down with every   *)
(* tick, and the hour of the day goes round.                               *)
(***************************************************************************)
EXTENDS Naturals, FiniteSets

CONSTANTS
    Records,      \* the records a host writes for this task
    Default,      \* what read_table seeds for a missing file: None if this
                  \*   task is not the one of DEFAULT_TASK_RECORD
    Day,          \* how many ticks a day has
    SlowFactor,   \* the heartbeat interval is so many intervals,
    SlowCap,      \*   at most this
    BackFloor,    \* the shortest wait of the connection backoff
    BackCap,      \*   and the longest
    MaxFails,     \* the number of failures from which it grows no more
    MaxWait,      \* bound: no wait is longer
    None

RecordType ==
    [every   : 1..MaxWait,                       \* interval
     windows : SUBSET [from : 0..Day, to : 1..Day, every : 1..MaxWait],
     poll    : 0..MaxWait,                       \* the shortest `when`, or 0
     enabled : BOOLEAN,
     valid   : BOOLEAN]                          \* validate_task_record

\* validate_schedule: a window moves forward, and no two overlap.
ASSUME SchedulerAssumption ==
    /\ Day \in Nat \ {0}
    /\ SlowFactor \in Nat \ {0}
    /\ MaxWait \in Nat \ {0}
    /\ {SlowCap, BackCap} \subseteq 1..MaxWait
    /\ BackFloor \in 1..BackCap
    /\ MaxFails \in Nat
    /\ None \notin RecordType /\ None \notin Nat
    /\ Records \subseteq RecordType
    /\ Default \in Records \cup {None}
    /\ \A r \in Records : r.valid =>
         /\ \A w \in r.windows : w.from < w.to
         /\ \A v, w \in r.windows : v = w \/ v.to <= w.from \/ w.to <= v.from

VARIABLES
    up,      \* the daemon runs
    tod,     \* the time of day
    table,   \* tasks.yml: whether it can be read, and this task's record
    disk,    \* the handler's files
    h,       \* the handler
    promise, \* history: the earliest time announced for the next cycle
    untold,  \* history: an ending of a cycle that was not reported yet
    asked    \* history: the handler took a wake-up and has run no cycle

vars == <<up, tod, table, disk, h, promise, untold, asked>>

Times == 0..MaxWait

HandlerState ==
    [pc     : {"none", "read", "apply", "wait", "poll", "reread", "reapply",
               "retry", "cycle", "ended"},
     got    : Records \cup {None},     \* the record just read
     own    : Records \cup {None},     \* _task
     made   : Records \cup {None},     \* the record natural_due was made from
     slack  : BOOLEAN,                 \*   and whether slowed or backing off
     due    : Times \cup {None},       \* natural_due
     until  : Times \cup {None},       \* the end of this wait
     polled : BOOLEAN,
     manual : BOOLEAN,                 \* manual_trigger
     event  : BOOLEAN,                 \* _trigger_event
     slow   : BOOLEAN,                 \* _slowdown_active
     fails  : 0..MaxFails,             \* _connect_failures
     resume : Times \cup {None},       \* _resume_next_run_at
     late   : BOOLEAN]                 \* history: the time on disk had passed

\* Every variable keeps its shape, and the waits their bound.
TypeOK ==
    /\ up \in BOOLEAN
    /\ tod \in 0..(Day - 1)
    /\ table \in [state : {"ok", "torn", "missing"}, rec : Records \cup {None}]
    /\ disk \in [slot : Times \cup {None}, slow : BOOLEAN,
                 mark : {"none", "running", "loud"}]
    /\ h \in HandlerState
    /\ promise \in Times \cup {None}
    /\ untold \in {"none", "running", "loud"}
    /\ asked \in {"no", "yes", "torn"}

\* A handler that _start_handler has not made, or that is forgotten.
Nobody ==
    [pc |-> "none", got |-> None, own |-> None, made |-> None,
     slack |-> FALSE, due |-> None, until |-> None, polled |-> FALSE,
     manual |-> FALSE, event |-> FALSE, slow |-> FALSE, fails |-> 0,
     resume |-> None, late |-> FALSE]

Init ==
    /\ up = FALSE
    /\ tod = 0
    /\ table = [state |-> "missing", rec |-> None]
    /\ disk = [slot |-> None, slow |-> FALSE, mark |-> "none"]
    /\ h = Nobody
    /\ promise = None
    /\ untold = "none"
    /\ asked = "no"

-----------------------------------------------------------------------------
(* The record and its cadence.                                             *)

Min2(a, b) == IF a <= b THEN a ELSE b
Max2(a, b) == IF a >= b THEN a ELSE b

\* read_table: a missing file is seeded and then read.
Seeded == IF table.state = "missing"
          THEN [state |-> "ok", rec |-> Default] ELSE table

\* _read_own_record and reconcile: the record can be run.
Runnable(r) == r # None /\ r.valid /\ r.enabled

Usable(t) == t.state = "ok" /\ Runnable(t.rec)

\* schedule_window_at and effective_interval.
InForce(r, time) == {w \in r.windows : w.from <= time /\ time < w.to}

Effective(r, time) ==
    IF InForce(r, time) = {} THEN r.every
    ELSE (CHOOSE w \in InForce(r, time) : TRUE).every

\* seconds_to_next_boundary: to the next edge of a window, today's or
\* tomorrow's, never zero.
Edges(r) == UNION {{w.from, w.to} : w \in r.windows}

Ahead(r, time) == {d \in 1..Day : \E e \in Edges(r) : time + d \in {e, e + Day}}

Boundary(r, time) == CHOOSE d \in Ahead(r, time) : \A e \in Ahead(r, time) : d <= e

SlipCut(r, wait) == wait         \* the wait is not cut to the next edge

Cut(r, wait) ==
    IF r.windows = {} THEN wait ELSE Min2(wait, Boundary(r, tod))

\* _heartbeat_interval and _connect_backoff.
SlipSlowed(every) == every * SlowFactor        \* without the cap

Slowed(every) == Max2(every, Min2(every * SlowFactor, SlowCap))

Backoff(every, fails) ==
    IF fails = 0 THEN every
    ELSE Min2(Max2(BackFloor, every * 2 ^ fails), BackCap)

\* _natural_wait, with the time of an earlier handler folded in.
SlipResumed(wait) == wait        \* a restart starts the interval again

Resumed(wait) == IF h.resume = None THEN wait ELSE Min2(wait, h.resume)

NaturalWait(r) ==
    LET every == Effective(r, tod) IN
    Cut(r, Resumed(IF h.slow THEN Slowed(every) ELSE Backoff(every, h.fails)))

\* The instant kept over a poll, or a new one.
SlipKept(r) == NaturalWait(r)    \* made anew at every poll

Kept(r) == IF h.due = None THEN NaturalWait(r) ELSE h.due

-----------------------------------------------------------------------------
(* The scheduler.                                                          *)

\* _load_saturation_state.
LastPace == disk.slow

\* _load_next_run_state: the time on disk counts if it is still to come.
LastSlot == IF disk.slot = 0 THEN None ELSE disk.slot

NewHandler ==
    [Nobody EXCEPT !.pc = "read", !.slow = LastPace, !.resume = LastSlot,
                   !.late = disk.slot = 0]

\* _report_interrupted_cycle: the marker of an earlier cycle is told to the
\* log and taken away.
SlipReported == untold           \* the marker is written over

Reported == "none"

\* reconcile, of a table t: it only ever starts a handler.
Reconcile(t) ==
    IF h.pc = "none" /\ Usable(t)
    THEN /\ h' = NewHandler
         /\ disk' = [disk EXCEPT !.mark = "none"]
         /\ untold' = Reported
         /\ promise' = IF disk.slot = 0 THEN None ELSE promise
    ELSE UNCHANGED <<h, disk, untold, promise>>

\* load_and_start, and a round of reconcile_loop.
Start ==
    /\ ~up
    /\ up' = TRUE
    /\ table' = Seeded
    /\ Reconcile(Seeded)
    /\ UNCHANGED <<tod, asked>>

Round ==
    /\ up
    /\ table' = Seeded
    /\ Reconcile(Seeded)
    /\ UNCHANGED <<up, tod, asked>>

\* task_create, task_update and task_delete refuse a table they cannot read;
\* what they write is valid.  reconcile follows at once.
HostEdits ==
    /\ up
    /\ Seeded.state = "ok"
    /\ \E r \in {x \in Records : x.valid} \cup {None} :
         /\ r # Seeded.rec
         /\ table' = [state |-> "ok", rec |-> r]
         /\ Reconcile(table')
    /\ UNCHANGED <<up, tod, asked>>

\* trigger_task, when no cycle runs: the event is set and the host is told
\* that a cycle will start.
Trigger ==
    /\ up
    /\ h.pc \notin {"none", "cycle"}
    /\ h' = [h EXCEPT !.event = TRUE]
    /\ asked' = IF h.pc = "ended" THEN asked ELSE "yes"
    /\ UNCHANGED <<up, tod, table, disk, promise, untold>>

\* stop_all cancels every handler; a cycle leaves its reason.
Stop ==
    /\ up
    /\ up' = FALSE
    /\ h' = Nobody
    /\ asked' = "no"
    /\ IF h.pc = "cycle"
       THEN disk' = [disk EXCEPT !.mark = "loud"] /\ untold' = "loud"
       ELSE UNCHANGED <<disk, untold>>
    /\ UNCHANGED <<tod, table, promise>>

\* The daemon is killed.
Kill ==
    /\ up
    /\ up' = FALSE
    /\ h' = Nobody
    /\ asked' = "no"
    /\ untold' = IF h.pc = "cycle" THEN "running" ELSE untold
    /\ UNCHANGED <<tod, table, disk, promise>>

\* The done callback.
Forget ==
    /\ h.pc = "ended"
    /\ h' = Nobody
    /\ UNCHANGED <<up, tod, table, disk, promise, untold, asked>>

-----------------------------------------------------------------------------
(* The handler.                                                            *)

\* The record is gone: the handler takes its files along.
Retire ==
    /\ h' = [Nobody EXCEPT !.pc = "ended"]
    /\ disk' = [disk EXCEPT !.slot = None, !.mark = "none"]
    /\ promise' = None
    /\ untold' = "none"
    /\ asked' = "no"

\* _refresh_record, its first half.  A table that cannot be read ends nothing,
\* but the wake-up that led here is over.
Read ==
    /\ h.pc \in {"read", "reread"}
    /\ table' = Seeded
    /\ \/ /\ Usable(Seeded)
          /\ h' = [h EXCEPT !.pc = IF h.pc = "read" THEN "apply" ELSE "reapply",
                            !.got = Seeded.rec]
          /\ UNCHANGED <<disk, promise, untold, asked>>
       \/ /\ ~Usable(Seeded)
          /\ Seeded.state = "torn"
          /\ h' = [h EXCEPT !.pc = "retry", !.manual = FALSE]
          /\ asked' = IF h.pc = "reread" /\ asked = "yes" /\ ~h.event
                      THEN "torn" ELSE asked
          /\ UNCHANGED <<disk, promise, untold>>
       \/ /\ ~Usable(Seeded)
          /\ Seeded.state # "torn"
          /\ Retire
    /\ UNCHANGED <<up, tod>>

Retry ==
    /\ h.pc = "retry"
    /\ h' = [h EXCEPT !.pc = "read"]
    /\ UNCHANGED <<up, tod, table, disk, promise, untold, asked>>

\* The record is applied and the wait begins.  The time on disk is the
\* task's own, whatever polls come before it.
BeginWait ==
    LET r == h.got
        due == Kept(r)
        wait == IF h.due = None THEN due ELSE Max2(1, due)
        polled == r.poll # 0 /\ r.poll < wait
        slot == IF polled THEN due ELSE wait
    IN
    /\ h.pc = "apply"
    /\ h' = [h EXCEPT !.pc = "wait", !.got = None, !.own = r,
                      !.made = IF h.due = None THEN r ELSE h.made,
                      !.slack = IF h.due = None THEN h.slow \/ h.fails > 0
                                ELSE h.slack,
                      !.due = due, !.polled = polled,
                      !.until = IF polled THEN r.poll ELSE wait,
                      !.resume = IF h.due = None THEN None ELSE h.resume,
                      !.manual = FALSE]
    /\ disk' = [disk EXCEPT !.slot = slot]
    /\ promise' = IF promise = None THEN slot ELSE Min2(promise, slot)
    /\ UNCHANGED <<up, tod, table, untold, asked>>

SlipWoken == [h EXCEPT !.pc = "read", !.event = FALSE]   \* lost with the poll

Woken == [h EXCEPT !.pc = "reread", !.until = None, !.manual = TRUE,
                   !.event = FALSE]

WakeByHost ==
    /\ h.pc = "wait"
    /\ h.event
    /\ h' = Woken
    /\ UNCHANGED <<up, tod, table, disk, promise, untold, asked>>

WakeByTime ==
    /\ h.pc = "wait"
    /\ h.until = 0
    /\ h' = [h EXCEPT !.pc = IF h.polled THEN "poll" ELSE "reread",
                      !.until = None]
    /\ UNCHANGED <<up, tod, table, disk, promise, untold, asked>>

\* _condition_wake: a condition holds, or the rest of the wait goes on.
Poll ==
    /\ h.pc = "poll"
    /\ \/ h' = [h EXCEPT !.pc = "reread"] /\ asked' = "yes"
       \/ h' = [h EXCEPT !.pc = "read"] /\ UNCHANGED asked
    /\ UNCHANGED <<up, tod, table, disk, promise, untold>>

\* The record is applied and the cycle begins: the cadence is used up, the
\* last marker is reported and a new one written.
BeginCycle ==
    LET slow == h.slow /\ ~h.manual IN
    /\ h.pc = "reapply"
    /\ h' = [h EXCEPT !.pc = "cycle", !.got = None, !.own = h.got,
                      !.made = None, !.slack = FALSE, !.due = None,
                      !.polled = FALSE, !.slow = slow, !.late = FALSE]
    /\ disk' = [slot |-> None, mark |-> "running",
                slow |-> IF h.manual THEN FALSE ELSE disk.slow]
    /\ promise' = None
    /\ untold' = Reported
    /\ asked' = "no"
    /\ UNCHANGED <<up, tod, table>>

\* The cycle's end, one of: the daemon could not be reached; a terminal frame
\* arrived, and the vibe check asked for a slower or the normal pace or gave
\* no answer; or something to be reported -- a silent server, an error, a
\* lost connection, an exception.
EndCycle(fails, slow, mark) ==
    /\ h.pc = "cycle"
    /\ h' = [h EXCEPT !.pc = "read", !.manual = FALSE, !.event = FALSE,
                      !.fails = fails, !.slow = slow]
    /\ disk' = [disk EXCEPT !.slow = slow, !.mark = mark]
    /\ untold' = IF mark = "loud" THEN "loud" ELSE untold
    /\ UNCHANGED <<up, tod, table, promise, asked>>

NotStarted == EndCycle(Min2(h.fails + 1, MaxFails), h.slow, "none")

Finished == \E slow \in BOOLEAN \cup {h.slow} : EndCycle(0, slow, "none")

Aborted == \E fails \in {0, h.fails} : EndCycle(fails, h.slow, "loud")

-----------------------------------------------------------------------------
(* The world.                                                              *)

\* The file is edited by hand: it is torn for a while, replaced or removed.
HandEdits ==
    /\ \/ \E r \in Records \cup {None} :
            table' = [state |-> "ok", rec |-> r]
       \/ table' = [table EXCEPT !.state = "torn"]
       \/ table' = [state |-> "missing", rec |-> None]
    /\ table' # table
    /\ UNCHANGED <<up, tod, disk, h, promise, untold, asked>>

Less(t) == IF t = None \/ t = 0 THEN t ELSE t - 1

Tick ==
    /\ tod' = (tod + 1) % Day
    /\ h' = [h EXCEPT !.due = Less(@), !.until = Less(@), !.resume = Less(@)]
    /\ disk' = [disk EXCEPT !.slot = Less(@)]
    /\ promise' = Less(promise)
    /\ UNCHANGED <<up, table, untold, asked>>

-----------------------------------------------------------------------------

HandlerStep ==
    \/ Read
    \/ Retry
    \/ BeginWait
    \/ WakeByHost
    \/ WakeByTime
    \/ Poll
    \/ BeginCycle
    \/ NotStarted
    \/ Finished
    \/ Aborted
    \/ Forget

Next ==
    \/ Start
    \/ Round
    \/ HostEdits
    \/ Trigger
    \/ Stop
    \/ Kill
    \/ HandlerStep
    \/ HandEdits
    \/ Tick

Spec == Init /\ [][Next]_vars

\* Time goes on, the reconcile loop comes round, and a handler that can go on
\* does: the watchdog ends a silent cycle.
Fairness == WF_vars(Tick) /\ WF_vars(Round) /\ WF_vars(HandlerStep)

FairSpec == Spec /\ Fairness

-----------------------------------------------------------------------------
(* Properties.                                                             *)

\* The instant a handler waits for is never past the next edge of a window,
\* so that at every moment of the wait it is at most one interval away, by
\* the interval in force at that moment (_natural_wait).
CadenceHolds ==
    h.pc = "wait" =>
        /\ h.made.windows # {} => h.due <= Boundary(h.made, tod)
        /\ ~h.slack => h.due <= Effective(h.made, tod)

\* A cycle that was announced for some time is not put off: not by polls, not
\* by a torn table, and not by a restart that comes before that time
\* (_save_next_run_state and _resume_wait_timeout; one tick is the floor of a
\* wait).
NeverPutOff ==
    h.pc = "wait" /\ promise # None => h.due <= Max2(promise, 1)

\* How a cycle ended badly stays on disk until it was reported, and no marker
\* says that a cycle runs while the handler does something else
\* (_report_interrupted_cycle, _end_heartbeat).
MarkerTells ==
    /\ untold # "none" => disk.mark = untold
    /\ h.pc \notin {"none", "cycle"} => disk.mark # "running"

\* A handler that took a wake-up, of the host or of a condition, runs a cycle
\* before it waits again, unless it found the table torn.
WakeUpRuns == h.pc = "wait" /\ asked = "yes" => h.event

\* A task whose record stays usable is run again and again, whatever polls
\* and triggers there are.
Wanted == up /\ Usable(table)

KeepsRunning == <>[]Wanted => []<>(h.pc = "cycle")

\* A handler made after the time of its task had passed runs at once
\* (TaskHandler.__init__: "a slot that passed during downtime runs
\* immediately instead of waiting a fresh full interval").
RunsWhatItMissed == h.pc = "wait" /\ h.late => h.due = 0

=============================================================================
