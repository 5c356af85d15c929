---------------------------- MODULE SessionTurns ----------------------------
(***************************************************************************)
(* The turn lifecycle of the EMRG daemon (emrg/server/daemon.py): a client *)
(* sends a prompt, the daemon either starts a turn of the session or       *)
(* queues the prompt for the turn already running, the turn's coroutine    *)
(* talks to the model in rounds and folds queued prompts in at the round   *)
(* boundaries, and any client may interrupt it, clear the queue or hang    *)
(* up.                                                                     *)
(*                                                                         *)
(* The daemon is one asyncio event loop.  `loop' says which turn's         *)
(* coroutine holds it: while it does nothing else runs, and it lets go     *)
(* only at an await that really suspends.  A turn's `at' is the code it    *)
(* will resume at.  An await of the model, of a tool or of a task always   *)
(* suspends; a broadcast suspends only when the socket of a client it goes *)
(* to is full.  task.cancel() is `kill': CancelledError is raised at the   *)
(* await the turn is suspended at, and a task cancelled before its first   *)
(* step never runs its body.                                               *)
(*                                                                         *)
(* Turns of subagents and boss runs are not here: the sessions of this     *)
(* module are those clients and the upgrade tick send prompts to.          *)
(*                                                                         *)
(* A definition named Slip... is not the code's: it is a plausible bug in  *)
(* the definition that follows it, there to show that the properties       *)
(* notice.                                                                 *)
(***************************************************************************)
EXTENDS Naturals, Sequences, SequencesExt

CONSTANTS
    Sessions,       \* session ids
    Headless,       \* the session ids the upgrade tick runs turns in
    Conns,          \* client connections
    Tick,           \* the upgrade tick, the other producer of prompts
    Prompts,        \* task requests, by their request id
    Cwds,           \* workspace directories
    Cwd,            \* the directory each producer sends with its prompts
    SlowConns,      \* the clients whose socket may be full when the daemon sends
    EarlyFrames,    \* may a frame be handled between create_task and the
                    \*   first step of the task it made?
    MaxToolRounds,  \* _max_tool_rounds
    Refusals,       \* the ways the provider refuses a request that the loop
                    \*   can repair: "scrub" its text, "shrink" its length
    None            \* no session, no prompt, no directory

Producers == Conns \cup {Tick}

ASSUME NoneAssumption ==
    None \notin Sessions \cup Conns \cup Prompts \cup Cwds
ASSUME ProducerAssumption ==
    /\ Tick \notin Conns
    /\ Headless \subseteq Sessions
    /\ Cwd \in [Producers -> Cwds]
ASSUME EnvironmentAssumption ==
    /\ SlowConns \subseteq Conns
    /\ EarlyFrames \in BOOLEAN
    /\ MaxToolRounds \in Nat \ {0}
    /\ Refusals \subseteq {"scrub", "shrink"}

VARIABLES
    loop,   \* the turn whose coroutine holds the event loop, or None
    sess,   \* the daemon's dictionaries keyed by session_id
    turn,   \* each prompt's turn: its coroutine's place and locals
    conn,   \* each connection's read loop: its place and locals
    req,    \* the request: the session it names and who sent it
    log     \* history: what happened to each prompt, kept for the properties

vars == <<loop, sess, turn, conn, req, log>>

\* Where a turn's coroutine stands.  "idle": the prompt has no turn.  The
\* places inside the try of the wrapper are InTry; Holding are all the
\* places before the wrapper releases the session.
InTry == {"round", "inject", "compact", "stream", "repair",
          "tools", "errdone", "answered", "return"}
Holding == InTry \cup {"created", "loop", "finally", "fallback", "release"}
Places == Holding \cup {"idle", "handback", "exit", "finished", "dead"}

\* What the history knows of a prompt.  Its sender is told of every fate but
\* two: "dropped", its own turn was killed before it wrote it, and "lost",
\* the turn that had popped it off the queue was.
Fates == {"unsent", "queued", "opening", "taken", "committed", "requeued",
          "cancelled", "failed", "dropped", "lost"}

SessionState ==
    [busy     : BOOLEAN,                \* _session_busy
     pending  : Seq(Prompts),           \* _session_pending
     event    : Prompts \cup {None},    \* _session_cancel: whose event
     task     : Prompts \cup {None},    \* _session_turn_task
     started  : Prompts \cup {None},    \* _session_turn_started: whose start
     terminal : BOOLEAN,                \* _session_terminal_frame
     cwd      : Cwds \cup {None}]       \* _session_task_cwds

TurnState ==
    [at      : Places,
     kill    : BOOLEAN,                 \* a CancelledError is on its way
     stop    : BOOLEAN,                 \* cancel_event.is_set()
     batch   : Seq(Prompts),            \* popped off the queue, not yet written
     next    : {"request", "round", "renew"},  \* where the injection returns
     round   : 1..(MaxToolRounds + 1),  \* round_num
     retries : SUBSET Refusals,         \* the retries still left
     normal  : BOOLEAN,                 \* normal_end
     failure : {"none", "cancelled", "failed"}]

ConnState ==
    [at  : {"reading", "awaiting", "closing"},
     own : Prompts \cup {None},         \* _tool_task and _cancel_event
     sub : Sessions \cup {None}]        \* last_session_id, the subscription

ReqState == [to : Sessions \cup {None}, from : Producers \cup {None}]

LogState ==
    [fate    : Fates,
     commits : Nat,       \* times written to the session's history
     dones   : Nat,       \* terminal frames of its turn
     cut     : Places]    \* where a cancellation cut its turn off

\* Every dictionary keeps its keys' shape, and every local its range.
TypeOK ==
    /\ loop \in Prompts \cup {None}
    /\ sess \in [Sessions -> SessionState]
    /\ turn \in [Prompts -> TurnState]
    /\ conn \in [Conns -> ConnState]
    /\ req \in [Prompts -> ReqState]
    /\ log \in [Prompts -> LogState]

\* A turn before its first step; the same record with another place stands
\* for a coroutine whose locals are gone, or not there yet.
NewTurn ==
    [at |-> "created", kill |-> FALSE, stop |-> FALSE, batch |-> <<>>,
     next |-> "round", round |-> 1, retries |-> Refusals,
     normal |-> FALSE, failure |-> "none"]

\* A connection that has sent nothing yet; the client opens the next one
\* when it likes.
NewConn == [at |-> "reading", own |-> None, sub |-> None]

Init ==
    /\ loop = None
    /\ sess = [s \in Sessions |->
                 [busy |-> FALSE, pending |-> <<>>, event |-> None,
                  task |-> None, started |-> None, terminal |-> FALSE,
                  cwd |-> None]]
    /\ turn = [r \in Prompts |-> [NewTurn EXCEPT !.at = "idle"]]
    /\ conn = [c \in Conns |-> NewConn]
    /\ req = [r \in Prompts |-> [to |-> None, from |-> None]]
    /\ log = [r \in Prompts |-> [fate |-> "unsent", commits |-> 0,
                                 dones |-> 0, cut |-> "idle"]]

-----------------------------------------------------------------------------
(* The event loop and the broadcast.                                       *)

\* not task.done()
Live(r) == turn[r].at \notin {"idle", "finished", "dead"}

\* The coroutine of r goes on: it holds the loop, or the loop is free and
\* what it awaited is there.
Runs(r, place) ==
    /\ turn[r].at = place
    /\ loop = r \/ (loop = None /\ ~turn[r].kill)

\* A client's read loop takes the next frame.
FrameReady(c) ==
    /\ loop = None
    /\ conn[c].at = "reading"
    /\ EarlyFrames \/ \A r \in Prompts : turn[r].at # "created"

\* The subscribers a frame of session s goes to while its recorded task
\* directory is cwd: with none recorded, all of them.
Targets(s, cwd) ==
    {c \in Conns : conn[c].sub = s /\ (cwd = None \/ Cwd[c] = cwd)}

\* Sending to s may suspend the sender; the coroutine of r then lets the
\* loop go.  A connection that is closing fails the send at once.
Broadcast(r, s, cwd) ==
    loop' \in IF \E c \in Targets(s, cwd) \cap SlowConns :
                      conn[c].at \in {"reading", "awaiting"}
              THEN {r, None} ELSE {r}

Speak(r) == Broadcast(r, req[r].to, sess[req[r].to].cwd)

\* r's done frame goes out and the turn resumes at place: the broadcast
\* records the frame before it sends it.
SayDone(r, place) ==
    /\ sess' = [sess EXCEPT ![req[r].to].terminal = TRUE]
    /\ log' = [log EXCEPT ![r].dones = @ + 1]
    /\ turn' = [turn EXCEPT ![r].at = place, ![r].kill = FALSE]
    /\ Speak(r)
    /\ UNCHANGED <<conn, req>>

\* r moves on to place and keeps the loop, or speaks, or awaits the world.
MoveTo(r, place) ==
    /\ turn' = [turn EXCEPT ![r].at = place]
    /\ UNCHANGED <<sess, conn, req, log>>

\* The history of the prompts of a sequence.
Mark(prompts, fate) ==
    [q \in Prompts |-> IF q \in ToSet(prompts)
                       THEN [log[q] EXCEPT !.fate = fate] ELSE log[q]]

Committed(r) ==
    [log EXCEPT ![r].fate = "committed", ![r].commits = @ + 1]

-----------------------------------------------------------------------------
(* The turn: _run_tool_loop_locked and _run_tool_loop.                     *)

\* The wrapper begins: directory and start recorded, the previous turn's
\* terminal frame forgotten, turn_start sent -- all before its try.
SlipStart(r) ==      \* the directory is not recorded
    LET s == req[r].to IN
    /\ Runs(r, "created")
    /\ sess' = [sess EXCEPT ![s].started = r, ![s].terminal = FALSE]
    /\ turn' = [turn EXCEPT ![r].at = "loop"]
    /\ Broadcast(r, s, Cwd[req[r].from])
    /\ UNCHANGED <<conn, req, log>>

Start(r) ==
    LET s == req[r].to IN
    /\ Runs(r, "created")
    /\ sess' = [sess EXCEPT ![s].cwd = Cwd[req[r].from],
                            ![s].started = r, ![s].terminal = FALSE]
    /\ turn' = [turn EXCEPT ![r].at = "loop"]
    /\ Broadcast(r, s, Cwd[req[r].from])
    /\ UNCHANGED <<conn, req, log>>

\* The loop begins: the turn's own prompt is written to the history.
EnterLoop(r) ==
    /\ Runs(r, "loop")
    /\ turn' = [turn EXCEPT ![r].at = "round"]
    /\ log' = Committed(r)
    /\ Speak(r)
    /\ UNCHANGED <<sess, conn, req>>

\* _session_pending.pop(sid, []) and its for loop, entered at once.
SlipUnqueued(s) == sess     \* get() for pop()

Unqueued(s) == [sess EXCEPT ![s].pending = <<>>]

Take(r, next) ==
    LET s == req[r].to IN
    /\ sess[s].pending # <<>>
    /\ sess' = Unqueued(s)
    /\ turn' = [turn EXCEPT ![r].at = "inject", ![r].next = next,
                            ![r].batch = sess[s].pending]
    /\ log' = Mark(sess[s].pending, "taken")
    /\ loop' = r
    /\ UNCHANGED <<conn, req>>

SlipInjectNext(r) ==     \* the popped list is emptied from its end
    /\ Runs(r, "inject")
    /\ turn[r].batch # <<>>
    /\ turn' = [turn EXCEPT ![r].batch = Front(@)]
    /\ log' = Committed(Last(turn[r].batch))
    /\ Speak(r)
    /\ UNCHANGED <<sess, conn, req>>

InjectNext(r) ==
    /\ Runs(r, "inject")
    /\ turn[r].batch # <<>>
    /\ turn' = [turn EXCEPT ![r].batch = Tail(@)]
    /\ log' = Committed(Head(turn[r].batch))
    /\ Speak(r)
    /\ UNCHANGED <<sess, conn, req>>

\* The queue was folded in after an answer, or past the round budget, which
\* starts anew: back to the top of the loop.
InjectDone(r) ==
    /\ Runs(r, "inject")
    /\ turn[r].batch = <<>>
    /\ turn[r].next # "request"
    /\ turn' = [turn EXCEPT
                  ![r].at = "round", ![r].next = "round",
                  ![r].round = IF turn[r].next = "renew" THEN 1 ELSE @]
    /\ loop' = r
    /\ UNCHANGED <<sess, conn, req, log>>

\* Awaits the model: its answer, or first the summary of an auto-compact.
Ask(r) ==
    /\ turn' \in {[turn EXCEPT ![r].at = place, ![r].next = "round"] :
                    place \in {"compact", "stream"}}
    /\ loop' = None
    /\ UNCHANGED <<sess, conn, req, log>>

InjectedAsk(r) ==
    /\ Runs(r, "inject")
    /\ turn[r].batch = <<>>
    /\ turn[r].next = "request"
    /\ Ask(r)

\* The top of the while loop.  Past the round budget only a queued prompt
\* keeps the turn going; within it a cancelled turn stops, and any other
\* folds the queue in before it asks the model.
SlipOverBudget(r) == turn[r].round > MaxToolRounds + 1

OverBudget(r) == turn[r].round > MaxToolRounds

Cancelled(r) == turn[r].stop

BudgetSpent(r) ==
    /\ Runs(r, "round")
    /\ OverBudget(r)
    /\ sess[req[r].to].pending = <<>>
    /\ SayDone(r, "answered")

BudgetRenewed(r) ==
    /\ Runs(r, "round")
    /\ OverBudget(r)
    /\ Take(r, "renew")

RoundCancelled(r) ==
    /\ Runs(r, "round")
    /\ ~OverBudget(r)
    /\ Cancelled(r)
    /\ SayDone(r, "return")

RoundSteered(r) ==
    /\ Runs(r, "round")
    /\ ~OverBudget(r)
    /\ ~Cancelled(r)
    /\ Take(r, "request")

RoundPlain(r) ==
    /\ Runs(r, "round")
    /\ ~OverBudget(r)
    /\ ~Cancelled(r)
    /\ sess[req[r].to].pending = <<>>
    /\ Ask(r)

Compacted(r) ==
    /\ Runs(r, "compact")
    /\ loop' = None
    /\ MoveTo(r, "stream")

\* A delta arrives after the event was set: the stream is cut.
StreamCut(r) ==
    /\ Runs(r, "stream")
    /\ Cancelled(r)
    /\ SayDone(r, "return")

\* The provider refuses the request: a scrub of the refused record, or a
\* compaction of an overlong history, once each in a turn.
StreamRepair(r) ==
    /\ \/ Runs(r, "stream")
       \/ Runs(r, "repair")
    /\ \E k \in turn[r].retries :
         /\ turn[r].at = "repair" => k = "shrink"
         /\ turn' = [turn EXCEPT ![r].at = "repair",
                                 ![r].retries = @ \ {k}]
    /\ loop' = None
    /\ UNCHANGED <<sess, conn, req, log>>

Repaired(r) ==
    /\ Runs(r, "repair")
    /\ Speak(r)
    /\ MoveTo(r, "round")

\* An error no retry is left for, a content_filter finish or an empty
\* answer: the error frame, then the done frame.
StreamFailed(r) ==
    /\ \/ Runs(r, "stream")
       \/ Runs(r, "repair")
    /\ Speak(r)
    /\ MoveTo(r, "errdone")

ErrorDone(r) ==
    /\ Runs(r, "errdone")
    /\ SayDone(r, "return")

\* A final answer: written, then the queue is looked at once more.
AnswerSteered(r) ==
    /\ Runs(r, "stream")
    /\ Take(r, "round")

AnswerFinal(r) ==
    /\ Runs(r, "stream")
    /\ sess[req[r].to].pending = <<>>
    /\ SayDone(r, "answered")

\* Tool calls: each may await the tool, or the host's approval.
ToolCalls(r) ==
    /\ Runs(r, "stream")
    /\ loop' = None
    /\ MoveTo(r, "tools")

SlipToolsDone(r) ==     \* the round is not counted
    /\ Runs(r, "tools")
    /\ Speak(r)
    /\ MoveTo(r, "round")

ToolsDone(r) ==
    /\ Runs(r, "tools")
    /\ turn' = [turn EXCEPT ![r].at = "round", ![r].round = @ + 1]
    /\ Speak(r)
    /\ UNCHANGED <<sess, conn, req, log>>

\* The loop's locals are gone; the wrapper keeps how it ended.
Leaving(r, normal, failure) ==
    [NewTurn EXCEPT !.at = "finally", !.stop = turn[r].stop,
                    !.normal = normal, !.failure = failure]

\* After an answer the loop still starts the reflection and touches a file.
Return(r) ==
    /\ Runs(r, "answered") \/ Runs(r, "return")
    /\ turn' = [turn EXCEPT ![r] = Leaving(r, TRUE, "none")]
    /\ loop' = r
    /\ UNCHANGED <<sess, conn, req, log>>

\* What the loop was holding when an exception leaves it: its own prompt if
\* it is not written yet, the rest of the popped queue.  A failure is
\* reported in an error frame; after a cancellation nothing speaks of them.
Abandoned(r, failure) ==
    LET holding == ToSet(turn[r].batch)
                   \cup (IF turn[r].at = "loop" THEN {r} ELSE {})
    IN [q \in Prompts |->
          IF q \notin holding THEN log[q]
          ELSE [log[q] EXCEPT !.fate = IF failure = "failed" THEN "failed"
                                       ELSE "lost"]]

Unwind(r, failure) ==
    /\ turn' = [turn EXCEPT ![r] = Leaving(r, FALSE, failure)]
    /\ log' = Abandoned(r, failure)
    /\ loop' = r
    /\ UNCHANGED <<sess, conn, req>>

\* A write of the session, or anything else the loop does not catch, fails;
\* also what comes after an answer's done frame.
Raise(r) ==
    /\ \E place \in {"loop", "inject", "stream", "repair", "tools",
                     "answered"} :
         Runs(r, place)
    /\ turn[r].at = "inject" => turn[r].batch # <<>>
    /\ Unwind(r, "failed")

\* The finally of the wrapper: a turn that has not spoken its done frame
\* gets it here, after the error frame if it failed.
SlipSpoken(r) == FALSE      \* the recorded frame is not looked at

Spoken(r) == sess[req[r].to].terminal

FinallyCancelled(r) ==
    /\ Runs(r, "finally")
    /\ ~Spoken(r)
    /\ turn[r].failure = "cancelled" \/ Cancelled(r)
    /\ SayDone(r, "release")

FinallyFailed(r) ==
    /\ Runs(r, "finally")
    /\ ~Spoken(r)
    /\ turn[r].failure # "cancelled" /\ ~Cancelled(r)
    /\ Speak(r)
    /\ MoveTo(r, "fallback")

FallbackDone(r) ==
    /\ Runs(r, "fallback")
    /\ SayDone(r, "release")

\* busy, the start and the cancel handles go; turn_end is sent.
SlipReleasedBusy(s, r) ==       \* busy stays set
    [sess EXCEPT ![s].started = None, ![s].terminal = FALSE,
                 ![s].event = None, ![s].task = None]

SlipReleasedHandles(s, r) ==    \* the handles stay registered
    [sess EXCEPT ![s].busy = FALSE, ![s].started = None,
                 ![s].terminal = FALSE]

Released(s, r) ==
    LET mine == sess[s].event = r IN
    [sess EXCEPT ![s].busy = FALSE, ![s].started = None,
                 ![s].terminal = FALSE,
                 ![s].event = IF mine THEN None ELSE @,
                 ![s].task = IF mine THEN None ELSE @]

Release(r) ==
    /\ \/ Runs(r, "release")
       \/ Runs(r, "finally") /\ Spoken(r)
    /\ sess' = Released(req[r].to, r)
    /\ turn' = [turn EXCEPT ![r].at = "handback"]
    /\ Speak(r)
    /\ UNCHANGED <<conn, req, log>>

Finish(r) ==
    /\ turn' = [turn EXCEPT ![r] = [NewTurn EXCEPT !.at = "finished"]]
    /\ loop' = None

\* The directory goes, and what is still queued goes back to the clients
\* after a normal end and is dropped after any other.
SlipHandBack(r) ==      \* announced, but left in the queue
    LET s == req[r].to
        left == sess[s].pending
    IN
    /\ Runs(r, "handback")
    /\ sess' = [sess EXCEPT ![s].cwd = None]
    /\ log' = Mark(left, "requeued")
    /\ Finish(r)
    /\ UNCHANGED <<conn, req>>

SlipHandBackForgotten(r) ==     \* nobody looks at what is left
    /\ Runs(r, "handback")
    /\ sess' = [sess EXCEPT ![req[r].to].cwd = None]
    /\ Finish(r)
    /\ UNCHANGED <<conn, req, log>>

HandBack(r) ==
    LET s == req[r].to
        left == sess[s].pending
    IN
    /\ Runs(r, "handback")
    /\ sess' = [Unqueued(s) EXCEPT ![s].cwd = None]
    /\ log' = Mark(left, IF turn[r].normal /\ ~Cancelled(r)
                         THEN "requeued" ELSE "cancelled")
    /\ IF left = <<>>
       THEN Finish(r)
       ELSE Broadcast(r, s, None) /\ turn' = [turn EXCEPT ![r].at = "exit"]
    /\ UNCHANGED <<conn, req>>

Exit(r) ==
    /\ Runs(r, "exit")
    /\ Finish(r)
    /\ UNCHANGED <<sess, conn, req, log>>

-----------------------------------------------------------------------------
(* Cancellation: CancelledError is raised where the turn is suspended.     *)

Hit(r, place) ==
    /\ loop = None
    /\ turn[r].kill
    /\ turn[r].at = place

\* The stream catches it and ends the turn as a cancelled one.
HitInStream(r) ==
    /\ Hit(r, "stream")
    /\ SayDone(r, "return")

\* Elsewhere in the loop it unwinds to the wrapper's finally.
HitInLoop(r) ==
    /\ \E place \in InTry \ {"stream"} : Hit(r, place)
    /\ Unwind(r, "cancelled")

\* Outside the try -- before the first step, in the turn_start broadcast, or
\* in a broadcast of the finally itself -- nothing catches it: whatever the
\* wrapper had still to do is not done.
HitOutside(r) ==
    /\ \E place \in {"created", "loop", "fallback", "release", "handback",
                     "exit"} : Hit(r, place)
    /\ turn' = [turn EXCEPT ![r] = [NewTurn EXCEPT !.at = "dead"]]
    /\ log' = [log EXCEPT ![r].cut = turn[r].at,
                          ![r].fate = IF turn[r].at \in {"created", "loop"}
                                      THEN "dropped" ELSE @]
    /\ UNCHANGED <<loop, sess, conn, req>>

-----------------------------------------------------------------------------
(* The frames of the clients (_handle_client) and the upgrade tick.        *)

\* Any frame that names a session subscribes its connection to it.
Subscribed(c, s) == [conn EXCEPT ![c].sub = s]

\* A frame that only looks at session s: resume, list, status...
Open(c, s) ==
    /\ FrameReady(c)
    /\ conn[c].sub # s
    /\ conn' = Subscribed(c, s)
    /\ UNCHANGED <<loop, sess, turn, req, log>>

\* A prompt is sent once; the client that sent it sends it again, under the
\* same id, when the daemon hands it back.
Sendable(c, r, s) ==
    \/ log[r].fate = "unsent"
    \/ log[r].fate = "requeued" /\ req[r] = [to |-> s, from |-> c]

SlipOccupied(s) == FALSE    \* no busy check

Occupied(s) == sess[s].busy

Queued(r, s) == [sess EXCEPT ![s].pending = Append(@, r)]

QueueTask(c, r, s) ==
    /\ FrameReady(c)
    /\ Sendable(c, r, s)
    /\ Occupied(s)
    /\ sess' = Queued(r, s)
    /\ conn' = Subscribed(c, s)
    /\ req' = [req EXCEPT ![r] = [to |-> s, from |-> c]]
    /\ log' = [log EXCEPT ![r].fate = "queued"]
    /\ UNCHANGED <<loop, turn>>

\* The event is set and the task cancelled, where there is one to stop.
Stopped(turns, event, task) ==
    [q \in Prompts |->
        [turns[q] EXCEPT !.stop = @ \/ (q = event /\ Live(q)),
                         !.kill = @ \/ (q = task /\ Live(q))]]

\* A turn of s starts.  The turn this connection started before, of
\* whatever session, is cancelled if it still runs.
StartTask(c, r, s) ==
    LET own == conn[c].own IN
    /\ FrameReady(c)
    /\ Sendable(c, r, s)
    /\ ~Occupied(s)
    /\ sess' = [sess EXCEPT ![s].busy = TRUE, ![s].event = r, ![s].task = r]
    /\ turn' = [Stopped(turn, own, own) EXCEPT ![r] = NewTurn]
    /\ conn' = [Subscribed(c, s) EXCEPT ![c].own = r]
    /\ req' = [req EXCEPT ![r] = [to |-> s, from |-> c]]
    /\ log' = [log EXCEPT ![r].fate = "opening"]
    /\ UNCHANGED loop

\* The upgrade tick awaits its turn inline: one at a time, and no task of
\* its own for anyone to cancel.
TickReady(r, s) ==
    /\ loop = None
    /\ s \in Headless
    /\ log[r].fate = "unsent"
    /\ \A q \in Prompts : req[q].from = Tick => ~Live(q)

TickQueues(r, s) ==
    /\ TickReady(r, s)
    /\ Occupied(s)
    /\ sess' = Queued(r, s)
    /\ req' = [req EXCEPT ![r] = [to |-> s, from |-> Tick]]
    /\ log' = [log EXCEPT ![r].fate = "queued"]
    /\ UNCHANGED <<loop, turn, conn>>

SlipTickStarts(r, s) ==     \* publishes the tick's own task as the turn's
    /\ TickReady(r, s)
    /\ ~Occupied(s)
    /\ sess' = [sess EXCEPT ![s].busy = TRUE, ![s].event = r, ![s].task = r]
    /\ turn' = [turn EXCEPT ![r] = NewTurn]
    /\ req' = [req EXCEPT ![r] = [to |-> s, from |-> Tick]]
    /\ log' = [log EXCEPT ![r].fate = "opening"]
    /\ loop' = r
    /\ UNCHANGED conn

TickStarts(r, s) ==
    /\ TickReady(r, s)
    /\ ~Occupied(s)
    /\ sess' = [sess EXCEPT ![s].busy = TRUE, ![s].event = r]
    /\ turn' = [turn EXCEPT ![r] = NewTurn]
    /\ req' = [req EXCEPT ![r] = [to |-> s, from |-> Tick]]
    /\ log' = [log EXCEPT ![r].fate = "opening"]
    /\ loop' = r
    /\ UNCHANGED conn

\* A cancel frame, naming a session or none.  Each handle is the session's,
\* or else the connection's own.
Handle(registered, own) == IF registered # None THEN registered ELSE own

CancelFrame(c, named) ==
    LET own == conn[c].own
        sid == IF named # None THEN named ELSE conn[c].sub
        event == IF sid = None THEN own ELSE Handle(sess[sid].event, own)
        task == IF sid = None THEN own ELSE Handle(sess[sid].task, own)
        stopped == task # None /\ Live(task)
        heard == IF named = None THEN conn ELSE Subscribed(c, named)
    IN
    /\ FrameReady(c)
    /\ turn' = Stopped(turn, event, task)
    /\ conn' = IF task # own THEN heard
               ELSE IF stopped THEN [heard EXCEPT ![c].at = "awaiting"]
               ELSE [heard EXCEPT ![c].own = None]
    /\ UNCHANGED <<loop, sess, req, log>>

\* `await cancel_task' returns.
CancelAwaited(c) ==
    /\ loop = None
    /\ conn[c].at = "awaiting"
    /\ ~Live(conn[c].own)
    /\ conn' = [conn EXCEPT ![c].at = "reading", ![c].own = None]
    /\ UNCHANGED <<loop, sess, turn, req, log>>

\* The connection is gone: its own turn is cancelled and awaited.
Disconnect(c) ==
    LET own == conn[c].own IN
    /\ FrameReady(c)
    /\ turn' = Stopped(turn, own, own)
    /\ conn' = [conn EXCEPT ![c].at = "closing"]
    /\ UNCHANGED <<loop, sess, req, log>>

Closed(c) ==
    /\ loop = None
    /\ conn[c].at = "closing"
    /\ conn[c].own # None => ~Live(conn[c].own)
    /\ conn' = [conn EXCEPT ![c] = NewConn]
    /\ UNCHANGED <<loop, sess, turn, req, log>>

\* clear_session and delete_session drop the queue and say so.
ClearQueue(c, s) ==
    /\ FrameReady(c)
    /\ sess[s].pending # <<>>
    /\ log' = Mark(sess[s].pending, "cancelled")
    /\ sess' = Unqueued(s)
    /\ conn' = Subscribed(c, s)
    /\ UNCHANGED <<loop, turn, req>>

-----------------------------------------------------------------------------

TurnStep(r) ==
    \/ Start(r) \/ EnterLoop(r) \/ InjectNext(r) \/ InjectDone(r)
    \/ BudgetSpent(r) \/ BudgetRenewed(r) \/ RoundCancelled(r)
    \/ RoundSteered(r) \/ RoundPlain(r) \/ InjectedAsk(r) \/ Compacted(r)
    \/ StreamCut(r) \/ StreamRepair(r) \/ Repaired(r) \/ StreamFailed(r)
    \/ ErrorDone(r) \/ AnswerSteered(r) \/ AnswerFinal(r) \/ ToolCalls(r)
    \/ ToolsDone(r) \/ Return(r) \/ Raise(r)
    \/ FinallyCancelled(r) \/ FinallyFailed(r) \/ FallbackDone(r)
    \/ Release(r) \/ HandBack(r) \/ Exit(r) \/ HitInStream(r)
    \/ HitInLoop(r) \/ HitOutside(r)

ClientStep(c) ==
    \/ CancelAwaited(c) \/ Disconnect(c) \/ Closed(c)
    \/ \E s \in Sessions : Open(c, s) \/ ClearQueue(c, s)
    \/ \E s \in Sessions \cup {None} : CancelFrame(c, s)
    \/ \E r \in Prompts, s \in Sessions :
          QueueTask(c, r, s) \/ StartTask(c, r, s)

TickStep ==
    \E r \in Prompts, s \in Sessions : TickQueues(r, s) \/ TickStarts(r, s)

Next ==
    \/ \E r \in Prompts : TurnStep(r)
    \/ \E c \in Conns : ClientStep(c)
    \/ TickStep

Spec == Init /\ [][Next]_vars

\* asyncio runs its ready callbacks first in, first out, so whoever may run
\* again and again does run; the model, a tool and a full socket answer or
\* are timed out.  Clients and the tick are under no obligation.
Fairness ==
    /\ \A r \in Prompts : WF_vars(TurnStep(r))
    /\ \A c \in Conns : WF_vars(CancelAwaited(c)) /\ WF_vars(Closed(c))

FairSpec == Spec /\ Fairness

-----------------------------------------------------------------------------
(* Properties.                                                             *)

Holds(r, s) == req[r].to = s /\ turn[r].at \in Holding

\* A turn cut off outside the wrapper's try, before it released the session.
Leaked(r, s) ==
    /\ req[r].to = s
    /\ turn[r].at = "dead"
    /\ log[r].cut \in {"created", "loop", "fallback", "release"}

\* A session runs one turn at a time: between create_task and the release
\* in the wrapper's finally no second coroutine works on it, whoever sends,
\* cancels or hangs up meanwhile (the busy check of _handle_client).
OneTurnPerSession ==
    \A q, r \in Prompts, s \in Sessions : Holds(q, s) /\ Holds(r, s) => q = r

\* The busy flag of a session is the fact that a turn holds it; it outlives
\* the turn only where a cancellation landed outside the wrapper's try or
\* inside its finally, before the release.
BusyMeansHeld ==
    \A s \in Sessions :
        sess[s].busy <=> \E r \in Prompts : Holds(r, s) \/ Leaked(r, s)

\* `a turn ends with exactly one terminal frame, whatever ended it': never
\* two, and one by the time the wrapper gives the session up.
OneTerminalFrame ==
    \A r \in Prompts :
        /\ log[r].dones <= 1
        /\ turn[r].at \in {"handback", "exit", "finished"} => log[r].dones = 1

\* The cancel handles and the start instant of a session are those of the
\* turn that holds it, and none outlives its turn: any client can stop the
\* turn, and no snapshot names a turn that has ended.
RegistrationsFollowTurn ==
    \A s \in Sessions :
        /\ \A r \in Prompts : Holds(r, s) =>
             /\ sess[s].event = r
             /\ sess[s].task = (IF req[r].from = Tick THEN None ELSE r)
             /\ turn[r].at # "created" => sess[s].started = r
        /\ \A r \in {sess[s].event, sess[s].task, sess[s].started} \ {None} :
             Holds(r, s) \/ Leaked(r, s)

\* A queued prompt has a turn that will look at the queue again, unless that
\* turn was cut off before it could.
QueueHasServer ==
    \A s \in Sessions : sess[s].pending # <<>> =>
        \E r \in Prompts :
            \/ Holds(r, s) \/ Leaked(r, s)
            \/ req[r].to = s /\ turn[r].at = "handback"
            \/ req[r].to = s /\ log[r].cut = "handback"

\* The daemon keeps the promise of PromptDelivery: no interleaving of turns,
\* cancels, hang-ups and clears writes a prompt twice, writes one it has
\* handed back or takes one it has written.
Delivery ==
    INSTANCE PromptDelivery WITH
        held <- UNION ({ToSet(sess[s].pending) : s \in Sessions}
                       \cup {ToSet(turn[r].batch) : r \in Prompts}
                       \cup {{r \in Prompts :
                                 turn[r].at \in {"created", "loop"}}}),
        written <- [r \in Prompts |-> log[r].commits]

PromptsDelivered == Delivery!Spec

\* `Run _run_tool_loop and release the session busy lock on exit': the lock
\* is held by a live turn.  True while no frame comes before a turn's first
\* step and no client's socket fills.
LockReleasedOnExit ==
    \A s \in Sessions : sess[s].busy => \E r \in Prompts : Holds(r, s)

\* A turn's frames go to the subscribers of its own directory only: while it
\* works, the recorded task directory is the one its prompt came with.
FramesKeepToDirectory ==
    \A r \in Prompts, s \in Sessions :
        Holds(r, s) /\ turn[r].at # "created" => sess[s].cwd = Cwd[req[r].from]

\* Where the daemon has a prompt of session s that is not written yet: it
\* opens a turn, or a turn has popped it off the queue, or it is queued.
Opens(r, s) == req[r].to = s /\ turn[r].at \in {"created", "loop"}

Popped(r, s) ==
    \E t \in Prompts : req[t].to = s /\ r \in ToSet(turn[t].batch)

Waits(r, s) == r \in ToSet(sess[s].pending)

InHands(r, s) == Opens(r, s) \/ Popped(r, s) \/ Waits(r, s)

Precedes(q, r, seq) ==
    \E i, j \in DOMAIN seq : i < j /\ seq[i] = q /\ seq[j] = r

\* Of two prompts of s in the daemon's hands, q stands before r.
Before(q, r, s) ==
    \/ Opens(q, s) /\ (Popped(r, s) \/ Waits(r, s))
    \/ Popped(q, s) /\ Waits(r, s)
    \/ \E t \in Prompts : req[t].to = s /\ Precedes(q, r, turn[t].batch)
    \/ Precedes(q, r, sess[s].pending)

\* A turn of s has released the session and has yet to hand its queue back,
\* or was cut off there.
HandingBack(s) ==
    \E t \in Prompts :
        req[t].to = s /\ (turn[t].at = "handback" \/ log[t].cut = "handback")

\* `per-session FIFO': the prompts of a session are written to its history in
\* the order the daemon took them in, over the queue, the lists turns pop off
\* it and the turns prompts open.  One that stands behind another is not
\* written, and stays behind it while both are there; a new one stands behind
\* all, unless it opens a turn while an earlier one has yet to hand its queue
\* back.  (One handed back and sent again is a new one.)
WrittenInTurn ==
    [][\A s \in Sessions, q, r \in Prompts :
        /\ Before(q, r, s) =>
             /\ log'[r].commits = log[r].commits
             /\ InHands(q, s)' /\ InHands(r, s)' => Before(q, r, s)'
        /\ /\ InHands(q, s) /\ ~InHands(r, s)
           /\ InHands(q, s)' /\ InHands(r, s)'
           => Before(q, r, s)' \/ HandingBack(s)]_vars

\* `A cancel names a session, not a connection': a frame that names one
\* cancels no turn of another.
CancelStaysInSession ==
    [][\A c \in Conns, s \in Sessions : CancelFrame(c, s) =>
           \A r \in Prompts : turn'[r].kill /\ ~turn[r].kill
               => req[r].to = s]_vars

\* No prompt leaves the daemon's hands without a word: what it popped off
\* the queue is written, or handed back, or announced as cancelled.
NoSilentLoss == \A r \in Prompts : log[r].fate # "lost"

\* Every turn releases its session in the end.
TurnsEnd == \A s \in Sessions : sess[s].busy ~> ~sess[s].busy

\* No prompt stays queued for ever.
QueuesDrain ==
    \A r \in Prompts : log[r].fate = "queued" ~> log[r].fate # "queued"

=============================================================================
