----------------------------- MODULE Subagents ------------------------------
(***************************************************************************)
(* The child sessions of one parent session (emrg/server/daemon.py, from   *)
(* _subagent_acquire to _run_boss_child, with _await_memory_reflection and *)
(* the table of _maybe_reflect_memory).                                    *)
(*                                                                         *)
(* A call of the subagent tool takes one of the parent's slots, empties    *)
(* the slot's session and runs one turn in it; a call of the boss tool     *)
(* runs one turn in the parent's retained owner session, unless the owner  *)
(* was asked within the last hours.  A runner waits for the child's task   *)
(* and bounds it; an interrupt of the parent's turn reaches the runner,    *)
(* and twice if the host presses Esc twice.  A turn that answered may      *)
(* leave a memory reflection behind, a task of its own that writes into    *)
(* the session's directory.  The turn itself is that of SessionTurns; here *)
(* it is the places where its runner can be cancelled.                     *)
(*                                                                         *)
(* A child session is a session like any other: a client may run its own   *)
(* turn there.  Slots closed at the same instant are not told apart.       *)
(***************************************************************************)
EXTENDS Naturals, Sequences, FiniteSets

CONSTANTS
    Delegations,   \* calls of the subagent tool
    BossCalls,     \* calls of the boss tool
    TooDeep,       \* the calls whose parent is at the depth limit
    ClientTurns,   \* turns clients run in the child sessions
    NSlots,        \* SUBAGENT_SLOTS
    AtOnce,        \* how many calls the parent has in play: a turn makes one
                   \*   call after the other, the pool is made for more
    Plans,         \* bound: the sets of calls a parent makes in a behaviour
    None           \* no turn, no slot

Calls == Delegations \cup BossCalls
Turns == Calls \cup ClientTurns
Slots == 1..NSlots
Boss == 0                     \* the owner session
Children == Slots \cup {Boss}

ASSUME SubagentAssumption ==
    /\ NSlots \in Nat \ {0}
    /\ AtOnce \in Nat \ {0}
    /\ None \notin Turns \cup Nat
    /\ TooDeep \subseteq Calls
    /\ Plans \subseteq SUBSET Calls
    /\ Delegations \cap BossCalls = {}
    /\ Calls \cap ClientTurns = {}

VARIABLES
    call,    \* each call: its runner and its child's task
    pool,    \* _subagent_busy and _subagent_slots of the parent
    sess,    \* the daemon's dictionaries, for each child session
    refl,    \* each turn's memory reflection
    stamp,   \* the boss call whose boss_asked_at still closes the window
    user,    \* each client turn and the child session it is in
    wiped    \* history: turns whose directory was emptied under them

vars == <<call, pool, sess, refl, stamp, user, wiped>>

\* The places of a child's task.  In "acquire" it holds nothing yet.
Running == {"starting", "turn", "ending", "leaving", "reflect"}

CallState ==
    [run    : {"idle", "waiting", "settling", "done"},
     why    : {"none", "timeout", "esc"},    \* what ended the runner's wait
     twice  : BOOLEAN,                 \* and it was cancelled again after it
     child  : {"none", "acquire", "over"} \cup Running,
     hit    : BOOLEAN,                 \* a CancelledError is on its way
     slot   : Children \cup {None},    \* state["slot"], state["owner"]
     waits  : Turns \cup {None},       \* the reflection being awaited
     raised : BOOLEAN,                 \* the child's task was cancelled
     cut    : BOOLEAN,                 \*   while it awaited the reflection
     result : {"none", "text", "busy", "error", "failed", "cancelled"}]

SessState ==
    [busy  : BOOLEAN,                  \* _session_busy
     event : Turns \cup {None},        \* _session_cancel: whose event
     task  : Turns \cup {None}]        \* _memory_tasks: whose reflection

UserState == [at : {"idle", "turn", "done"}, sess : Children \cup {None}]

PoolState ==
    [busy  : SUBSET Slots,
     order : [1..NSlots -> Slots]]     \* slots, the earliest closed first

\* Every record keeps its shape and the order lists as many slots as there
\* are.
TypeOK ==
    /\ call \in [Calls -> CallState]
    /\ pool \in PoolState
    /\ sess \in [Children -> SessState]
    /\ refl \in [Turns -> {"none", "running", "done"}]
    /\ stamp \in BossCalls \cup {None}
    /\ user \in [ClientTurns -> UserState]
    /\ wiped \subseteq Turns

Init ==
    /\ \E plan \in Plans :
         call = [q \in Calls |->
                   [run |-> IF q \in plan THEN "idle" ELSE "done",
                    why |-> "none", twice |-> FALSE, child |-> "none",
                    hit |-> FALSE, slot |-> None, waits |-> None,
                    raised |-> FALSE, cut |-> FALSE, result |-> "none"]]
    /\ pool = [busy |-> {}, order |-> [i \in 1..NSlots |-> i]]
    /\ sess = [s \in Children |->
                 [busy |-> FALSE, event |-> None, task |-> None]]
    /\ refl = [t \in Turns |-> "none"]
    /\ stamp = None
    /\ user = [t \in ClientTurns |-> [at |-> "idle", sess |-> None]]
    /\ wiped = {}

-----------------------------------------------------------------------------
(* Slots.                                                                  *)

\* The earliest closed of the free slots.
FirstFree(busy) ==
    LET free == {i \in 1..NSlots : pool.order[i] \notin busy} IN
    pool.order[CHOOSE i \in free : \A j \in free : i <= j]

\* The slot's close is stamped: it goes to the end of the order.
SlipClosed(slot) == Append(pool.order, slot)

Closed(slot) ==
    LET at == CHOOSE i \in 1..NSlots : pool.order[i] = slot IN
    [i \in 1..NSlots |->
       IF i < at THEN pool.order[i]
       ELSE IF i < NSlots THEN pool.order[i + 1] ELSE slot]

SlipFreed(q) ==                  \* the release is not in a finally
    IF call[q].hit THEN pool.busy ELSE pool.busy \ {call[q].slot}

Freed(q) == pool.busy \ {call[q].slot}

\* The child's task ends and returns the slot it had.
Release(q) ==
    pool' = IF call[q].slot \in Slots
            THEN [busy |-> Freed(q), order |-> Closed(call[q].slot)]
            ELSE pool

\* The slot a call takes: the earliest closed, when one is free.
MayTake(q) ==
    /\ q \in Delegations \ TooDeep
    /\ call[q].child = "acquire"
    /\ ~call[q].hit
    /\ pool.busy # Slots

\* The turns and reflections at work in the directory of child session s.
AtWork(s) ==
    {q \in Calls : /\ call[q].slot = s
                   /\ \/ call[q].child \in Running \ {"reflect"}
                      \/ refl[q] = "running"}
    \cup {t \in ClientTurns : /\ user[t].sess = s
                              /\ user[t].at = "turn" \/ refl[t] = "running"}

-----------------------------------------------------------------------------
(* The child's task.                                                       *)

\* The busy flag and the cancel event are set, whoever holds the session,
\* and the turn starts; its turn_start may wait for a full socket.
Start(q, s) ==
    /\ sess' = [sess EXCEPT ![s].busy = TRUE, ![s].event = q]
    /\ \E place \in {"starting", "turn"} :
         call' = [call EXCEPT ![q].child = place, ![q].slot = s]

\* A free slot: it is taken and its session emptied in one step.
TakeSlot(q) ==
    /\ MayTake(q)
    /\ LET s == FirstFree(pool.busy) IN
       /\ pool' = [pool EXCEPT !.busy = @ \cup {s}]
       /\ wiped' = wiped \cup AtWork(s)
       /\ Start(q, s)
    /\ UNCHANGED <<refl, stamp, user>>

\* The session cannot be emptied, made or written: the slot goes back in the
\* same step, and the exception becomes the call's result.
Fails(q, s) ==
    call' = [call EXCEPT ![q].child = "over", ![q].slot = s,
                         ![q].result = "failed"]

TakeSlotFails(q) ==
    /\ MayTake(q)
    /\ LET s == FirstFree(pool.busy) IN
       /\ pool' = [pool EXCEPT !.order = Closed(s)]
       /\ wiped' \in {wiped, wiped \cup AtWork(s)}
       /\ Fails(q, s)
    /\ UNCHANGED <<sess, refl, stamp, user>>

\* The call is over before it holds anything: the owner was asked too
\* recently, the parent is at the depth limit, or its session cannot be read.
Ends(q, result) ==
    call' = [call EXCEPT ![q].child = "over", ![q].hit = FALSE,
                         ![q].result = result]

BossBusy(q) ==
    /\ q \in BossCalls \ TooDeep
    /\ call[q].child = "acquire"
    /\ ~call[q].hit
    /\ stamp # None
    /\ Ends(q, "busy")
    /\ UNCHANGED <<pool, sess, refl, stamp, user, wiped>>

\* The owner may be asked: the clock is stamped before the turn runs, and an
\* exception between the two leaves the stamp.
MayAsk(q) ==
    /\ q \in BossCalls \ TooDeep
    /\ call[q].child = "acquire"
    /\ ~call[q].hit
    /\ stamp = None

AskBoss(q) ==
    /\ MayAsk(q)
    /\ stamp' = q
    /\ Start(q, Boss)
    /\ UNCHANGED <<pool, refl, user, wiped>>

AskBossFails(q) ==
    /\ MayAsk(q)
    /\ stamp' = q
    /\ Fails(q, Boss)
    /\ UNCHANGED <<pool, sess, refl, user, wiped>>

Refuse(q) ==
    /\ call[q].child = "acquire"
    /\ ~call[q].hit
    /\ \/ q \in TooDeep /\ Ends(q, "error")
       \/ Ends(q, "failed")
    /\ UNCHANGED <<pool, sess, refl, stamp, user, wiped>>

\* Cancelled before it had a slot.
NeverStarted(q) ==
    /\ call[q].child = "acquire"
    /\ call[q].hit
    /\ call' = [call EXCEPT ![q].child = "over", ![q].hit = FALSE,
                            ![q].raised = TRUE]
    /\ UNCHANGED <<pool, sess, refl, stamp, user, wiped>>

\* The wrapper has returned or raised and the child is in its finally: it
\* takes the session's reflection off the table and awaits it if it runs.
SlipPending(s, table) == None    \* the reflection is not awaited

Pending(s, table) == table

\* The busy flag and the event go, whosever they are.  What follows reads
\* the answer out of the history, and may fail.
Close(q, s, table, raised) ==
    /\ sess' = [sess EXCEPT ![s] = [busy |-> FALSE, event |-> None,
                                    task |-> table]]
    /\ \E result \in IF raised THEN {"none"} ELSE {"text", "failed"} :
         call' = [call EXCEPT ![q].child = "over", ![q].hit = FALSE,
                              ![q].waits = None, ![q].raised = raised,
                              ![q].result = result]
    /\ Release(q)

Reflect(q, busy, event, table, raised) ==
    LET s == call[q].slot
        task == Pending(s, table) IN
    IF task = None
    THEN Close(q, s, None, raised)
    ELSE /\ sess' = [sess EXCEPT ![s] = [busy |-> busy, event |-> event,
                                         task |-> None]]
         /\ call' = [call EXCEPT ![q].child = "reflect", ![q].hit = FALSE,
                                 ![q].waits = task, ![q].raised = raised]
         /\ UNCHANGED pool

\* The cancellation lands in the turn_start broadcast, before the wrapper's
\* try, or in the terminal frame of its finally, before the release.
Unreleased == {"starting", "ending"}

WrapperCut(q) ==
    LET s == call[q].slot IN
    /\ call[q].child \in Unreleased
    /\ call[q].hit
    /\ Reflect(q, sess[s].busy, sess[s].event, sess[s].task, TRUE)
    /\ UNCHANGED <<refl, stamp, user, wiped>>

StartOn(q) ==
    /\ call[q].child = "starting"
    /\ ~call[q].hit
    /\ call' = [call EXCEPT ![q].child = "turn"]
    /\ UNCHANGED <<pool, sess, refl, stamp, user, wiped>>

\* The wrapper releases the session and says turn_end, which may wait for a
\* full socket.
Releases(q, table, raised) ==
    LET s == call[q].slot
        event == IF sess[s].event = q THEN None ELSE sess[s].event IN
    \/ /\ call' = [call EXCEPT ![q].child = "leaving",
                                ![q].hit = FALSE, ![q].raised = raised]
       /\ sess' = [sess EXCEPT ![s] = [busy |-> FALSE, event |-> event,
                                       task |-> table]]
       /\ UNCHANGED pool
    \/ Reflect(q, FALSE, event, table, raised)

\* The turn is over, by itself or because it was cancelled -- the tool loop
\* may absorb that or raise it.  One that answered may leave a reflection;
\* for one that said nothing the wrapper sends the terminal frame.
TurnEnds(q) ==
    LET s == call[q].slot IN
    /\ call[q].child = "turn"
    /\ \E raised \in IF call[q].hit THEN BOOLEAN ELSE {FALSE} :
         \/ /\ Releases(q, sess[s].task, raised)
            /\ UNCHANGED refl
         \/ /\ Releases(q, q, raised)
            /\ refl' = [refl EXCEPT ![q] = "running"]
         \/ /\ call' = [call EXCEPT ![q].child = "ending", ![q].hit = FALSE,
                                     ![q].raised = raised]
            /\ UNCHANGED <<pool, sess, refl>>
    /\ UNCHANGED <<stamp, user, wiped>>

EndOn(q) ==
    /\ call[q].child = "ending"
    /\ ~call[q].hit
    /\ Releases(q, sess[call[q].slot].task, call[q].raised)
    /\ UNCHANGED <<refl, stamp, user, wiped>>

Leave(q) ==
    LET s == call[q].slot IN
    /\ call[q].child = "leaving"
    /\ Reflect(q, sess[s].busy, sess[s].event, sess[s].task,
               call[q].raised \/ call[q].hit)
    /\ UNCHANGED <<refl, stamp, user, wiped>>

Reflected(q) ==
    /\ call[q].child = "reflect"
    /\ ~call[q].hit
    /\ refl[call[q].waits] = "done"
    /\ Close(q, call[q].slot, sess[call[q].slot].task, call[q].raised)
    /\ UNCHANGED <<refl, stamp, user, wiped>>

\* CancelledError while the reflection is awaited: the reflection goes on,
\* and the finally of the slot runs without what follows the await.
ReflectCut(q) ==
    /\ call[q].child = "reflect"
    /\ call[q].hit
    /\ call' = [call EXCEPT ![q].child = "over", ![q].hit = FALSE,
                            ![q].waits = None, ![q].raised = TRUE,
                            ![q].cut = TRUE]
    /\ Release(q)
    /\ UNCHANGED <<sess, refl, stamp, user, wiped>>

-----------------------------------------------------------------------------
(* The runner, in the parent's turn.                                       *)

Begin(q) ==
    /\ call[q].run = "idle"
    /\ Cardinality({p \in Calls : call[p].run \in {"waiting", "settling"}})
         < AtOnce
    /\ call' = [call EXCEPT ![q].run = "waiting", ![q].child = "acquire"]
    /\ UNCHANGED <<pool, sess, refl, stamp, user, wiped>>

ChildDone(q) ==
    /\ call[q].run = "waiting"
    /\ call[q].child = "over"
    /\ call' = [call EXCEPT ![q].run = "done", ![q].raised = FALSE]
    /\ UNCHANGED <<pool, sess, refl, stamp, user, wiped>>

\* The runner cancels the child's task: at its next step the child gets it.
SlipStruck(c) == c           \* the task is awaited but not cancelled

Struck(c) == [c EXCEPT !.hit = c.child \in Running \cup {"acquire"}]

Timeout(q) ==
    /\ call[q].run = "waiting"
    /\ call[q].child # "over"
    /\ call' = [call EXCEPT ![q] = [Struck(@) EXCEPT !.run = "settling",
                                                     !.why = "timeout"]]
    /\ UNCHANGED <<pool, sess, refl, stamp, user, wiped>>

\* The parent's turn is cancelled; the runner still waits for the child.
Esc(q) ==
    /\ call[q].run = "waiting"
    /\ call' = [call EXCEPT ![q] = [Struck(@) EXCEPT !.run = "settling",
                                                     !.why = "esc"]]
    /\ UNCHANGED <<pool, sess, refl, stamp, user, wiped>>

\* And again while it waits for that: gather hands the cancellation on to
\* the child and raises once the child has ended.
EscAgain(q) ==
    /\ call[q].run = "settling"
    /\ ~call[q].twice
    /\ call' = [call EXCEPT ![q] = [Struck(@) EXCEPT !.twice = TRUE]]
    /\ UNCHANGED <<pool, sess, refl, stamp, user, wiped>>

\* The child has ended.  A boss call that stamped the clock and delivered
\* nothing puts it back, unless gather raised.
SlipUnconsumed(q) == call[q].why = "timeout" /\ ~call[q].twice

Unconsumed(q) == ~call[q].twice

Settled(q) ==
    /\ call[q].run = "settling"
    /\ call[q].child = "over"
    /\ call' = [call EXCEPT ![q].run = "done", ![q].why = "none",
                   ![q].result = IF call[q].why = "timeout" /\ ~call[q].twice
                                 THEN "error" ELSE "cancelled"]
    /\ stamp' = IF call[q].slot = Boss /\ Unconsumed(q) THEN None ELSE stamp
    /\ UNCHANGED <<pool, sess, refl, user, wiped>>

-----------------------------------------------------------------------------
(* What else goes on.                                                      *)

\* A reflection ends; its callback takes it off the table.
ReflectionEnds(t) ==
    /\ refl[t] = "running"
    /\ refl' = [refl EXCEPT ![t] = "done"]
    /\ sess' = [s \in Children |->
                  IF sess[s].task = t THEN [sess[s] EXCEPT !.task = None]
                  ELSE sess[s]]
    /\ UNCHANGED <<call, pool, stamp, user, wiped>>

\* A client's turn in a child session that is not busy.
ClientStarts(t, s) ==
    /\ user[t].at = "idle"
    /\ \E q \in Calls : call[q].slot = s
    /\ ~sess[s].busy
    /\ user' = [user EXCEPT ![t] = [at |-> "turn", sess |-> s]]
    /\ sess' = [sess EXCEPT ![s].busy = TRUE, ![s].event = t]
    /\ UNCHANGED <<call, pool, refl, stamp, wiped>>

ClientEnds(t) ==
    LET s == user[t].sess IN
    /\ user[t].at = "turn"
    /\ user' = [user EXCEPT ![t].at = "done"]
    /\ \E reflects \in BOOLEAN :
         /\ refl' = IF reflects THEN [refl EXCEPT ![t] = "running"] ELSE refl
         /\ sess' = [sess EXCEPT
              ![s] = [busy |-> FALSE,
                      event |-> IF sess[s].event = t THEN None ELSE sess[s].event,
                      task |-> IF reflects THEN t ELSE sess[s].task]]
    /\ UNCHANGED <<call, pool, stamp, wiped>>

\* Hours later: the owner may be asked again.  A call's own bound is far
\* shorter than the window.
WindowPasses ==
    /\ stamp # None
    /\ \A q \in BossCalls : call[q].run \notin {"waiting", "settling"}
    /\ stamp' = None
    /\ UNCHANGED <<call, pool, sess, refl, user, wiped>>

-----------------------------------------------------------------------------

\* The steps a call takes by itself once something has happened to it: a
\* turn may be long, but not once it was cancelled.
ChildStep(q) ==
    \/ call[q].hit /\ TurnEnds(q)
    \/ NeverStarted(q)
    \/ WrapperCut(q)
    \/ StartOn(q)
    \/ EndOn(q)
    \/ Leave(q)
    \/ Reflected(q)
    \/ ReflectCut(q)

RunnerStep(q) ==
    \/ ChildDone(q)
    \/ Timeout(q)
    \/ Settled(q)

Next ==
    \/ \E q \in Calls :
          \/ Begin(q)
          \/ TakeSlot(q)
          \/ TakeSlotFails(q)
          \/ BossBusy(q)
          \/ AskBoss(q)
          \/ AskBossFails(q)
          \/ Refuse(q)
          \/ ~call[q].hit /\ TurnEnds(q)
          \/ ChildStep(q)
          \/ RunnerStep(q)
          \/ Esc(q)
          \/ EscAgain(q)
    \/ \E t \in Turns : ReflectionEnds(t)
    \/ \E t \in ClientTurns :
          \/ \E s \in Children : ClientStarts(t, s)
          \/ ClientEnds(t)
    \/ WindowPasses

Spec == Init /\ [][Next]_vars

\* A turn may go on for ever until it is cancelled; a timer fires, a task
\* that can go on does, and a reflection is at most four rounds long.
Fairness ==
    /\ \A q \in Calls :
         /\ WF_vars(RunnerStep(q))
         /\ WF_vars(ChildStep(q))
    /\ \A t \in Turns : WF_vars(ReflectionEnds(t))

FairSpec == Spec /\ Fairness

-----------------------------------------------------------------------------
(* Properties.                                                             *)

\* The slots marked busy are those of the children that run, one each: none
\* leaks and none is shared (_subagent_acquire, _subagent_release).
SlotsHeld ==
    /\ pool.busy = {call[q].slot : q \in {d \in Delegations :
                                            call[d].child \in Running}}
    /\ \A p, q \in Delegations :
         call[p].child \in Running /\ call[q].child \in Running
           /\ call[p].slot = call[q].slot => p = q

\* A slot is emptied while an earlier delegation's turn or reflection is
\* still at work in it only if that delegation was cancelled in its wait for
\* the reflection, or a client's turn came between (the order that the await
\* in _run_subagent_child is there for).
WipedOnlyAfterCut ==
    \A q \in wiped \cap Delegations :
        \/ call[q].cut
        \/ \E t \in ClientTurns : user[t].sess = call[q].slot

\* The window of the owner is closed only by a call that got an answer, that
\* died of an exception, or whose runner was cancelled twice
\* (_unconsume_the_window), and while it is closed by a call that goes on no
\* other asks the owner.
WindowHasAnAnswer ==
    \A q \in BossCalls :
        /\ stamp = q /\ call[q].run = "done" =>
              call[q].result \in {"text", "failed"} \/ call[q].twice
        /\ call[q].child \in Running => stamp = q

\* The calls a parent makes end, whatever their children do and though all
\* slots are taken: again and again none is under way, and a call that is
\* done is not made again.
CallsEnd == []<>(\A q \in Calls : call[q].run \in {"idle", "done"})

=============================================================================
