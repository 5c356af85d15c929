# EMRG in TLA+

A verification project for the EMRG daemon (`src/emrg/server`) and what talks to
it: modules that model its control, TLC runs that check them on small instances,
and theorems TLAPS proves for every instance.

## The system

EMRG is a coding agent. One daemon (`emrg/server/daemon.py`, class `EmrgServer`)
runs on one asyncio event loop. Terminal and desktop clients connect over a
WebSocket; a client opens a *session* (a directory of history files), sends
*prompts*, and the daemon runs a *turn* for each: rounds of a request to the
model and the tool calls it answers with.

| component | state | operations | interacts through | module |
|---|---|---|---|---|
| session turns (`daemon.py` 1612-1957, 4071-4284, 4542-5397) | nine dictionaries keyed by session id: busy, pending queue, cancel event, task, start, terminal frame, task directory, subscribers | task, cancel, clear, resume frames; the turn's wrapper and loop; hang-up | broadcasts to subscribers, `task.cancel()`, the shared dictionaries | `SessionTurns` |
| approval (1959-2121, 4478-4540, `escalation.py`) | pending questions by request id, the question on each screen | ask, answer, time out, cancel, announce | a future awaited inside a tool call | `Approval` |
| subagents and boss (7809-8311, 8560-8631) | nine slots per parent, child sessions, the owner's clock | delegate, ask, reflect, release, put back | a turn of a child session awaited by a tool of the parent | `Subagents` |
| task scheduler (`scheduler.py`) | task table on disk, one handler per record, the handler's three files | reconcile, trigger, refresh, wait, poll, cycle, stop | connects to the daemon as a client and waits for `done` | `Scheduler` |
| session store (`session.py`, `content_risk_probe.py`) | `history.jsonl`, `meta.json`, the fields each `Session` object caches | append, compact, scrub, rename, tier, rewind, clear, delete | called by turns, frames and a worker thread, one object each | `SessionStore` |
| evolution cycle (`scheduler.py` 1374-2090, 3069-3478) | a git work tree | checks, recovery, pull request | subprocesses | its start and end are steps of `Scheduler` |
| configuration reload (`config_reload.py`) | last seen fingerprint, live configuration | poll, reject, apply | fields the other parts read | - |
| admission and lifetime (1011-1306, 8633-9014) | bound port, port and token files | bind, evict, keep alive, shut down | processes of the host | - |
| self-upgrade (`upgrade.py`, 1428-1527) | attempts, backoff | tick, trigger | runs a turn inline in session `emrg-upgrade` | its turns, in `SessionTurns` |
| model client (`llm.py`) | attempts of one request | stream, retry, give up | the turn's `async for` | - |
| clients (`client/app.py`, `gui/`) | queued sends, what is on screen | send, resend, answer a question | frames | in part, in `SessionTurns` and `Approval` |

What is hard. The daemon has no locks: a step between two awaits is atomic, and
everything else interleaves. An await of the model, of a tool or of a task
always suspends; an await of a broadcast suspends only when some client's socket
is full. `task.cancel()` raises `CancelledError` at whichever await the task is
suspended at, and a task that is cancelled before its first step never runs its
body. One worker thread (the scrub's) writes session files beside the event
loop, and the daemon can be killed between any two steps. `PROJECT.json` lists
the hazards at their lines. For each component, what makes it correct:

- *turns*: one turn per session; busy means a turn holds it; one terminal frame
  per turn; the handles are the running turn's; a prompt is written once, or
  handed back, or dropped with a frame, and in its turn; turns and queues end.
- *approval*: the first answer decides, nothing else does; every client that was
  asked and stayed hears one ending; the table of questions is exact; a question
  ends.
- *subagents*: a slot is lent once and released on every exit, after its
  reflection; no directory is emptied under somebody at work; the owner's window
  is closed only by an answer; a call ends.
- *scheduler*: the cadence follows the record and the hour; a time announced is
  not put off, over restarts too; a cycle that ended badly is reported; no
  wake-up is lost; a usable task runs again.
- *store*: the meta of a session is what it was last set to, whoever saves it
  next; a rewrite of the history loses nothing unseen.
- *reload*: the live configuration is always a revision that was accepted.
- *admission*: at most one daemon serves; the token file is the server's.
- *clients*: every prompt handed back is sent again, none twice.

Each module models one component; they meet at the places where a step of one is
a choice in the other: what a tool call awaits in `SessionTurns` is the exchange
of `Approval` or a call of `Subagents`; what `Subagents` says of its child's turn
(it may be cancelled in its opening broadcast, in the loop, in the broadcasts of
its `finally`) is what `SessionTurns` shows of a turn; the cycle of `Scheduler` is a
prompt of a client there. `SessionTurns` composes with the abstract
`PromptDelivery` by refinement.

## The turns: SessionTurns

`SessionTurns.tla` models `_handle_client`, `_broadcast`,
`_run_tool_loop_locked` (the wrapper), `_run_tool_loop` (the loop),
`_inject_pending_messages` and the upgrade tick's turns.

| variable | the code |
|---|---|
| `loop` | which coroutine holds the event loop; `None` when all are suspended |
| `sess[s]` | the daemon's dictionaries at key `s`; a missing key is `None`, `FALSE` or `<<>>` |
| `turn[r]` | the coroutine and the locals of prompt `r`'s turn; `at` is where it resumes |
| `conn[c]` | a read loop and its locals `_tool_task`, `_cancel_event`, `last_session_id` |
| `req[r]` | the request's session and sender |
| `log[r]` | history for the properties: fate, times written, terminal frames, where a cancellation cut the turn off |

One action per stretch of code between two suspension points. A stretch that
begins `Runs(r, place)` continues the coroutine of `r`; it leaves with `loop' =
r` when it goes straight on, with `loop' = None` when it awaits the world, and
with either when it broadcasts to a session a slow client subscribes to. The
read loop and the tick act only while `loop = None`. `Hit...` are cancellations,
one action per handler that can receive them: the stream's `except`, the
wrapper's `finally`, or nobody.

Abstracted: a prompt is a name; what the model says is a choice between an
answer, tool calls, an error, an empty answer or a refusal; a tool call is one
await; images, deltas and wording are left out. A read loop's own broadcasts do
not suspend (it only delays its next frame). The handler of
`_run_upgrade_session` that clears `busy` after an exception is left out: the
wrapper lets none through. After an answer's `done` frame the loop still starts
the reflection and touches a file (place `answered`): an exception or a
cancellation there ends the turn as a failed one that has already spoken. The turns of subagents and
boss runs set the same dictionaries from other code and are in `Subagents`;
they use child sessions, and the theorems here speak of the sessions clients and
the tick send prompts to.

`PromptDelivery.tla` is the abstract promise: a prompt is accepted, then written
once or given up. `SessionTurns` implements it (`PromptsDelivered`): `held` is
what stands in a queue, in a popped batch or at the start of a turn, `written`
counts the writes.

`WrittenInTurn` adds the order. Of two prompts of one session in the daemon's
hands one stands before the other: an opening turn's prompt before the popped
list, that before the queue. The later one is not written while the earlier is in
hand, nor does it get before it; a prompt that comes stands behind all, but for
one window (`HandingBack`): it opens a turn after the last one released the
session and before it handed its queue back. A prompt that was handed back is no longer in the daemon's
hands, and another client's may be written before its sender sends it again: the
property does not say that nobody overtakes. `MCSessionTurns.tla` gives the constants their values.

### The runs

| run | instance | shows |
|---|---|---|
| `one_session` | 1 session, 2 clients (1 slow), 3 prompts, early frames | types, one turn, busy, one terminal frame, handles, the queue has a server, delivery and its order |
| `two_sessions` | 2 sessions, the tick in one, 1 slow client, 3 prompts | handles and delivery across sessions |
| `calm` | 1 session with the tick, 2 clients, 2 prompts, 2 rounds, both repairs, nothing slow or early | lock released, frames keep to their directory, turns and queues end |
| `early_cancel` | as `one_session`, nothing slow | *violated*: the lock is not always released |
| `cancel_named` | 2 sessions, 1 client | *violated*: a cancel that names one session stops a turn of another |
| `lost_prompt` | 1 session, 3 prompts, 1 slow client | *violated*: a cancel loses popped prompts silently |

Three constants open the windows one by one: `SlowConns` (whose socket can be
full), `EarlyFrames` (a frame between `create_task` and the task's first step)
and `Refusals` (what the provider refuses). The safety runs open all that matter
to them; `calm` closes the first two, because the properties it checks are what
the code guarantees without them, and the violations show what is lost with
them.

Bounds. Three prompts are one turn, one queued prompt and one that comes
between, or two that share a queue; every hazard listed needs at most that. Two
clients separate sender and canceller. `MaxToolRounds` 1 and 2 reach the round
after the last and the renewal of the budget. Prompts are symmetric in the two
safety runs. Their VIEW forgets the sender and the history of a prompt that is
settled and a connection's handle of a turn that has ended: no guard reads
either again, and no invariant of those runs tells such states apart. There is no
symmetry where liveness is checked.

Fairness. `FairSpec` gives weak fairness to each turn and to a read loop that
awaits a task. asyncio's ready queue is first in, first out, so whoever may run
does; the model and the tools are called with timeouts, and a socket that
stays full is closed by the keepalive's ping timeout (`daemon.py` 1083-1087).
Nobody obliges a client or the tick to send anything.

### What the violations say

1. `early_cancel`: `_handle_client` sets `busy` before `create_task`; a cancel
   (or a hang-up, or the same client's next prompt) that is handled before the
   task's first step cancels a coroutine whose `finally` does not exist. The
   session then stays busy for ever. The same follows when the `turn_start`
   broadcast suspends, and when a second cancel lands in the `finally`.
2. `cancel_named`: the fallback to the connection's own task is also taken when
   the frame names a session that has no task of its own (idle, or the tick's).
3. `lost_prompt`: `_inject_pending_messages` pops the whole queue and broadcasts
   between the writes; a cancellation there unwinds with the rest in a local.

## The questions: Approval

`Approval.tla` models `request_approval`, `_announce_approval_outcome` and
`_resolve_approval`, `approve_escalation` around them, the tool loop's use of the
result, and the terminal client's question (`_approval_pending`).

| variable | the code |
|---|---|
| `call[q]` | the coroutine that asks: where it is suspended, the future of the answer, the cancellations on their way, whether the outer timer is armed, what became of the tool call |
| `table` | the keys of `_pending_approvals` |
| `client[c]` | the session it subscribes to, whether it named the directory of its turns, the question on its screen |
| `mail` | `approval_response` frames not yet read |
| `hist[q]` | history: the first answer, who was asked and stayed, what each client heard |

A broadcast writes to the subscribers it finds one after the other and may
suspend at each, so `Request`, the announcements and their continuations (`...On`)
are separate steps. Clients come, name another session, hang up and answer
between them. A timer or Esc leaves a cancellation in `kill`, and the coroutine
takes it at the await it is suspended at: `Cancelled`, `CancelledAgain`,
`TimedOut`. Abstracted: the text of an answer is yes, no, or something
`_read_answer` makes nothing of; the tier arithmetic is left out.

Run `approval` (two clients, two calls of two sessions, one asked through
`approve_escalation` and one directly): two clients are what a race of answers
needs, two questions what one question does to another, in the table, in a late
answer and on the screen of a client that goes between the sessions. All four
together are out of reach, so a behaviour has either one call and both clients or
both calls and one client (`Casts`). `FairSpec` gives weak fairness to a coroutine
that can go on and to the timers; nobody has to answer. A coroutine that has ended
stays ended, so deadlock is not checked.

Observed, and not a run: `approve_escalation` and `request_approval` arm timers of
one length and the outer one first (`escalation.py` 287-291, `daemon.py`
2028-2031). A question nobody answers is therefore cut by the outer timer and
announced as `cancelled`; the outcome `timed_out`, which the docstring at
`daemon.py` 1985-1990 promises for it, is reached by direct calls of
`request_approval` only. In the model too: such a call ends in `Cancelled`.

## Delegations: Subagents

`Subagents.tla` models `_subagent_acquire` and `_subagent_release`,
`_run_subagent_tool` and `_run_subagent_child`, `_run_boss_tool`,
`_run_boss_child` and `_unconsume_the_window`, `_await_memory_reflection`, and the
places of the child's turn where a cancellation can land.

| variable | the code |
|---|---|
| `call[q]` | a call of the subagent or boss tool: its runner (the parent's tool call) and the task of its child |
| `pool` | `_subagent_busy` and the order in which slots were closed |
| `sess[s]` | `_session_busy`, `_session_cancel`, `_memory_tasks` of a child session; `Boss` is the owner's |
| `refl[t]` | the memory reflection a turn left behind |
| `stamp` | the boss call that closed the owner's window, while it is closed |
| `user[t]` | a client's own turn in a child session |
| `wiped` | history: calls whose directory was emptied while they were at work in it |

The runner waits with a timeout; a timeout, an Esc, and a second Esc are steps,
each leaving a cancellation the child takes at its next step, wherever it is.
A cancellation before the wrapper's `try`, or in the terminal frame its `finally`
sends before the release, leaves the session busy (`WrapperCut`). `Reflect` is
what the child's `finally` does about a reflection, with `Close` and `Release`
behind it; `ReflectCut` is the cancellation that lands in that wait. A session
that cannot be emptied, written or read fails the call before its turn
(`TakeSlotFails`, `AskBossFails`, `Refuse`) or after it (`Close`).

Run `subagents` (one slot, two calls in play at once; plans of two delegations,
two boss calls, and one call too deep; one client turn): one slot makes a second
delegation contend for the directory of the first, which is what nine slots do
only under the tenth call. The theorems below hold for any number. A plan that is
done stops, so deadlock is not checked. `FairSpec`: timers fire, a child that was
cancelled goes on, a reflection ends (it is at most four rounds); a turn that
nobody cancelled may last for ever, its runner's timeout ends it.

The properties name the ways in which the end of a call does not keep what the
comments say of it; the steps are in the model as they are in the code. Observed,
and not runs:

- A timeout that lands while the child awaits the reflection releases the slot
  with the reflection still writing (7867; the comment at 7915-7917 has it settled
  by then). A client's turn in the child session leaves a reflection that replaces
  the child's own in `_memory_tasks` (8619-8620), and the slot is closed while the
  child's still writes. `WipedOnlyAfterCut` says that an earlier delegation's
  directory is emptied under it only after the first, or where a client's turn
  came.
- A boss call interrupted twice leaves `gather` past `_unconsume_the_window`
  (8131-8138), and the window stays closed with nothing delivered.
  `WindowHasAnAnswer` says that this is the only way, an exception apart.
- A child's `finally` clears the busy flag and the cancel event of a client's turn
  in the same session (8041-8042, 8292-8293), without the look at whose they are
  that the wrapper takes (4247). No property here speaks of the client's turn.

## One task: Scheduler

`Scheduler.tla` models `TaskScheduler.reconcile` and its loop, start, stop and
edits, and one `TaskHandler`: `run`, `_refresh_record`, `_natural_wait` with the
windows, the backoff and the slowdown, the polls of `_condition_wake`, triggers,
the files it leaves for the next handler, and how a cycle begins and ends.

| variable | the code |
|---|---|
| `table` | `tasks.yml`: readable, torn or missing, and this task's record |
| `disk` | the handler's files: when the task is due, slowed down or not, the marker of the cycle |
| `h` | the handler's coroutine and its fields; `Nobody` when there is none |
| `up`, `tod` | whether the daemon runs; the hour of the day |
| `promise`, `untold`, `asked` | history: the earliest time announced, an ending not yet reported, a wake-up taken |

Time is what is left of it: a deadline counts down with `Tick`, and the hour goes
round. `HandEdits` replaces, tears or removes the file at any moment; `Kill` and
`Stop` end the daemon at any moment and leave what is on disk.

Run `scheduler`: a day of three ticks, four records (plain; with a window and a
condition; switched off; not valid), waits of at most three ticks, one failure.
The window is shorter than the interval, so the cut at its edge, the change of
cadence and the wrap at midnight all happen; a second failure only lengthens a
wait the cap already cuts; the floor of the backoff (30 s, `BackFloor`) is above
the interval, as it is for any interval below 15 s. The step to another record stands for any edit.
`FairSpec`: time goes on, the reconcile loop comes round, and the handler goes on
(the watchdog ends a silent cycle); `KeepsRunning` assumes the record stays
usable from some time on and the daemon up.

`scheduler_downtime` is *violated*: `_load_next_run_state` keeps the time on disk
only when it is still to come (2420), so a slot that passed while the daemon was
down is forgotten and a whole new interval begins; the comment at 1173-1176 says
it runs at once, and the branch of `_resume_wait_timeout` meant for it is not
reached.

`WakeUpRuns` says that a torn table is the only way to lose a wake-up. It is one: a
trigger that was acknowledged wakes the handler and is consumed there; when the
record then cannot be read (2692-2694) the handler sleeps, starts over and goes
back to the wait it had, though `trigger` promises that the cycle "will start
immediately" (2796).

Observed, and not a run: `atomic_write_yaml` swallows `OSError` (`atomic.py`
55-62), so a task tool reports an edit that was not written; a condition marks
messages seen before the cycle runs (`wake.py` 333-347, 419-426).

## The files of a session: SessionStore

`SessionStore.tla` models who writes `history.jsonl` and `meta.json` of one
session: `append_message` by the turn, `compact` with its chunked fallback by the
turn and by `/compact`, the content-risk scrub by a worker thread
(`find_offending_index`, `records_to_remove`, `drop_history_records`), and rename,
tier, rewind, clear, delete by the message loop.

| variable | the code |
|---|---|
| `hist` | the records: their type, what they say (message numbers), their tool round, whether they are marked truncated |
| `meta` | `meta.json`: title and tier; the tier stands for every field a `Session` object caches (grants, withheld defaults, depth, counts) |
| `job[j]` | the turn, the scrub's thread, each waiting handler: what it does, the tier its object cached, the history it read (the thread twice), the title the thread read back |
| `named`, `told` | history: the title last given, the tier last broadcast |

A job that waits for the model reads before and writes after; on the event loop
everything between two awaits is one step. The scrub is a thread, and the loop may
act between any two of its accesses to the files: it reads the history and probes
(`Resolved`), reads the history again, writes it (`Drops`), reads the title back
(`ReadsTitle`) and writes the meta file (`SavesMeta`). Each read or write of a
file is one step; a reader that finds a file half written is not modelled.

`RewritesLoseNothingUnseen` says of each rewrite that was not raced (`Unraced`:
nobody else rewrote the history during the wait, and it grew by no more than is
kept) what it may lose. A compaction keeps the recent records and trims those over
their share of the budget (`Fitted`); any of them may be over it, and any part of
what they say may go. What a trimmed record said is in the summary if that was
made of the whole history, but a chunked one leaves the recent records out, and
then the text is in neither: the record that stays says so (`truncated`), and that
is what is left to promise. A compaction loses nothing else; a scrub only one
record the provider refuses by itself and its tool round.

Run `session_store`: two records kept (five in the code), three messages, three
control messages, one waiting handler, one message refused alone and two only
together: enough for a history longer than what is kept, for the bisection to
take either half and to blame nobody, and for a scrub against a compaction. The
bounds run out, so deadlock is not checked. One scrub at a time; a tool call has
one result; nothing crashes between two writes, for which the code promises
nothing.

`session_store_tier` is *violated*: a `set_sandbox` during a turn writes the tier
through an object of its own and broadcasts it, and the turn's next
`append_message` saves the tier its object cached (`session.py` 893, 1259).

`TitleLostOnlyByScrub` says who may bring an older title back. The title is not
cached but read back by each save ("Preserve existing title if present", 1296),
which is enough on the event loop, where no await stands between the read and the
write: a turn or a handler that loaded its object before a rename brings no older
title back. In the scrub's thread a rename comes between 1300 and 1306 and is
written over, in the model by `ReadsTitle`, a rename and `SavesMeta`; the property
says that this is the only way.

Observed, and not runs: a scrub whose turn was interrupted goes on, reads a history
rewritten since and drops the positions it blamed, though the docstring
(1226-1227) says a stale index removes nothing instead of a neighbour; a chunked
compaction leaves out the last five records of what it *read*, so a record
appended during the wait pushes one out of both (`Unraced` excludes the two); after
an automatic compaction the rebuilt request holds the prompt twice (4786-4792).

## The runs

| run | property kinds | result |
|---|---|---|
| `one_session`, `two_sessions`, `calm` | safety, refinement of `PromptDelivery`, action properties, liveness of turns and queues | pass |
| `early_cancel`, `cancel_named`, `lost_prompt` | one property each | violated, see above |
| `approval` | types, four safety properties, every question ends | pass |
| `subagents` | types, three safety properties, every call ends | pass |
| `scheduler` | types, four safety properties, the task keeps running | pass |
| `scheduler_downtime` | a missed slot runs at once | violated |
| `session_store` | types, two action properties: the title, and what a rewrite loses | pass |
| `session_store_tier` | the tier the clients were told | violated |

Every property of a passing run has a mutant in `PROJECT.json`: a definition changed the way a
plausible bug would change the code (the `Slip...` operators), under which the
same run finds the property violated.

## What is proved

Each from the named assumptions on the constants and nothing else.

`SessionTurns_proofs.tla`, for any sessions, clients, prompts, slow sockets and
timing:

- `TypeCorrect`: `Spec => []TypeOK`. The inductive invariant is `TypeInv`: types,
  `ReqInv` (a turn belongs to a session and a sender) and `RoundInv` (beyond
  the budget the model is not asked), without which `round + 1` could leave its
  range.
- `OneTurn`, `BusyHeld`, `Registrations`: from the invariant `OccInv`. A turn
  *occupies* its session while it holds it or once it was cut off before the
  release. Occupied implies busy, and one occupant; that is inductive together
  with the handles being the occupant's and with an unsent prompt having no turn.
  `TurnEffect` reduces the thirty actions of a turn to four (works, releases,
  leaves, dies), `FrameEffect` those of the clients and the tick to two (passes,
  begins), and the invariant is shown for these six.
- `OneTerminal`: the frame recorded for a session is shared by its successive
  turns, so `DonesInv` ties it to the one turn that holds the session (unique by
  `OccInv`): before its terminal frame the record is unset, after it set, and the
  `finally` decides by it. A turn starts with no frame spoken because a prompt
  that waits has no turn (`PromptInv`).
- `QueueServed`: a prompt is queued only while the session is busy, busy has an
  occupant, and the occupant leaves the session through `handback`, which empties
  the queue, unless it is cut off (`CutInv`).

`PromptDelivery_proofs.tla` proves the refinement, `Delivered`: `HandInv` says a
prompt stands in one place only (a queue of its session, the popped batch of one
turn, the opening of its own turn) and is not written while it does; from it each
of six kinds of turn step and four kinds of frame is a step of `PromptDelivery`,
or none. `InOrder` proves `WrittenInTurn` from the same invariant and
`ServerInv` (of `QueueServed`): while a turn opens or works a batch off, it is the
one occupant of its session, so a prompt that comes is queued behind; `Before` is
a strict order of what is in hand (`OneWay`), a write takes its first
(`FirstWritten`), and what stays keeps its place (`Staying`).

`Approval_proofs.tla`, for any calls, sessions, clients and timers: the invariant
`ApprovalInv` says five things of one question, `Good(q)`. It is in the table
while its coroutine lives (`TableGood`); nothing is announced before the wait is
over and afterwards only the word of its future (`WordGood`), which holds the
first answer or none (`AnswerGood`); an interrupt of the turn is on its way until
the coroutine has taken it (`EscGood`), without which a call could run wide after
one; and whoever was asked and stayed is told or still stands among the targets
of the announcement (`AskedGood`). A step of one call leaves the other questions
alone (`BystanderGood`), so each action is shown for its own question; a client's
step (`ClientStep`) may only take clients out of `asked`. From it
`FirstAnswerAlwaysDecides`, `OneOutcomeOnly`, `AskersAlwaysTold` and `TableIsExact`
follow.

`Subagents_proofs.tla`, for any calls, slots, calls in play and clients: the
invariant `SubInv` adds to the types and to `SlotsHeld` that no slot is missing
from the order (`Ordered`: otherwise a free slot might not be found), and of each
call where it may be (`PlaceGood`), that nobody cancels a child whose runner
still waits (`CalmGood`), that a reflection which runs is on the table, awaited,
or out of sight because its wait was cut or a client's turn came (`ReflGood`), and
whose the clock is (`StampGood`). `FirstFreeIsFree` and `ClosedOrders` are the
facts about slots; `CallStep` reduces a step of one call to what it does to
that call; `EndsInv`, `StaysInv`, `ReflectInv` and `ReleasesInv` share the work of
the actions that end a turn, `FailsFacts` that of the calls that never begin one. From it `SlotsAlwaysHeld`, `WipedOnlyUnderTheCut` and
`WindowAlwaysHasAnAnswer` follow.

`LockReleased` and `FramesKept` (also in `SessionTurns_proofs.tla`) assume `Calm`: no client's socket fills, and no frame
comes between `create_task` and the first step of its task. The
run `early_cancel` shows the lock leaked when a frame does come there, and
`BusyHeld` says what is left with either window open; these theorems say what
the turn lifecycle guarantees but for the two. A broadcast that
does not suspend keeps the loop, hence `QuietInv`: in its opening and closing
broadcasts a turn has the loop, and no cancellation is on its way to a turn that
was not stepped, so none is cut off. With the loop held through the hand-back no
other turn can begin in the session meanwhile (`AloneInv`), and the directory it
drops is nobody else's.

`Scheduler_proofs.tla`, for any records and windows, caps, failures, edits, kills
and restarts: `SchedInv` has one part per property. `PromiseGood` follows an
announced time to where it is kept: in the file, and in the instant the handler
waits for or, before its first wait, in what it read of the file, neither later
than the announcement or the one-tick floor of a wait. `CadenceGood` states the
cadence of the wait in progress through a poll of it, which `CadenceHolds` does
not; it is kept by the clock because an edge or an interval that lies ahead is one
tick nearer, or the same one, a tick later (`BoundaryLater`, `EffectiveLater`:
the edges of the next day included, and windows do not overlap). `MarkerGood` adds that a cycle that runs wrote its own marker, `WakeGood`
where a wake-up can be: an event still set, or the two steps between the wait and
the cycle. `BeginWaitEffect`, `Moves` and the lemmas after them say what each
action does to the parts. Assumed of
the constants: valid records have windows that move forward and do not overlap,
which `validate_schedule` enforces, and no cap lies above `MaxWait`, the bound of
the model.

`SessionStore_proofs.tla`, for any handlers, titles and tiers, any number of
records kept, and any sets of messages the provider refuses: `StoreInv` says
which jobs may wait for what (a turn that waits for the scrub has a thread at
work; a thread that is about to write found somebody to blame), what the two
files are, and that a session that is gone has no title to return to. From it
`StoreTyped`, and with the effect of each step on the files (`FilesStep`)
`OldTitleOnlyFromScrub`: whoever saves, the title it writes is the one on disk or
a new one, and the thread's is the one it read. `RewritesLoseOnlySeen`
needs more than the invariant: what the operators compute. `WithoutIs`: the
records kept are those not removed, in order, by counting positions. `OffenderIs`:
the bisection ends at a record of the history, and one blamed is refused alone;
the recursive function of the descent exists because every half is shorter
(`DescentExists`), by induction on the length. `CompactionKeeps`: of a history
that grew by no more than is kept since it was read, the summary or the recent
records say every message but what trimming took (`FittedIs`): and that stands in
the marked records alone. `ScrubTakes`: a scrub takes the
record blamed and its tool round. `RewriteCases` sorts the steps that change the
history: those in which no other job's wait ends, a compaction, and the scrub.

`WellOrder.tla` has the induction these use: a set of naturals that holds zero
and every successor is `Nat` (`SetInduction`), from the library's theorem that
finite sets are well founded. The library's own induction takes an operator as a
parameter, which the provers cannot instantiate; a set they can.

Model-checked only: every liveness property (`TurnsEnd`, `QueuesDrain`,
`QuestionsEnd`, `CallsEnd`, `KeepsRunning`), because liveness needs fairness and
is out of the prover's reach. Every invariant, every action property and the
refinement of the passing runs is stated by a theorem.

## Not modelled

- Configuration reload: one coroutine polls one file and takes a revision whole
  or rejects it; `_seen` is set before the file is read, and a revision torn at
  that moment is read again once its bytes change. Nothing interleaves with it.
- Admission and lifetime: the exclusion is the operating system's (the bound
  port, a process list); what is the daemon's own is files and signals. A model
  would be of the host.
- The evolution cycle and the recovery of a dirty tree: sequences of git
  commands in one thread, each with an error path; the scheduler models how a
  cycle begins and ends, its marker and its backoff.
- The model client's retry ladder and the upgrade's backoff: arithmetic on
  attempts and dates without another actor.
- The clients' tables of queued sends, rendering and key handling; `SessionTurns`
  lets a sender resend what was handed back.
- Sandbox policy and providers, tools, memory, skills, rants, protocol, redaction,
  packaging and scripts: decision tables, platform code, file formats and tooling.
- Crashes in the middle of a file's rewrite (`session.py` 1249): compaction,
  rewind and the meta file are rewritten in place and the code promises nothing
  for them.

## Plan

1. `RequeueClients`: the clients' tables composed with the queue of
   `SessionTurns`.
2. The recovery of a dirty tree as an algorithm on a small tree: what is pinned,
   what is stashed.
3. Proofs: the composition of `SessionTurns` with a client's table, once that is
   written. Of the models there are, only liveness is left to TLC.
