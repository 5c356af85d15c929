------------------------------ MODULE Approval ------------------------------
(***************************************************************************)
(* The approval of a sandbox escalation (emrg/server/daemon.py,            *)
(* request_approval and its neighbours; emrg/sandbox/escalation.py,        *)
(* approve_escalation; the question in emrg/client/app.py).                *)
(*                                                                         *)
(* A tool call that wants a wider tier is held while the clients of its    *)
(* session are asked.  The first readable answer decides; a timeout or an  *)
(* interrupt of the turn ends the question without one; however it ends,   *)
(* the clients are told, because each keeps the question on its screen.    *)
(*                                                                         *)
(* Two timers of one length are armed, one inside the other: that of       *)
(* approve_escalation around the whole exchange, and that of               *)
(* request_approval around the wait alone.  The outer one is armed first,  *)
(* so it never fires later, and the event loop hands every due timer its   *)
(* cancellation before the task runs again: for a call that goes through   *)
(* approve_escalation -- `Channelled' -- the inner timer changes nothing.  *)
(* The others are questions put by request_approval itself, as the         *)
(* repository's tests put them.                                            *)
(*                                                                         *)
(* A cancellation (Esc or a timer) lands at the await the asking coroutine *)
(* is suspended at: a send to a client whose socket is full, or the future *)
(* of the answer.  The timers are those of Python 3.12 and later, where    *)
(* wait_for cancels the task it runs in.                                   *)
(***************************************************************************)
CONSTANTS
    Calls,        \* tool calls, by the request id of their question
    Sessions,
    Session,      \* the session each call's turn belongs to
    Channelled,   \* the calls asked through approve_escalation
    Clients,
    None          \* no session, no call, no answer

ASSUME ApprovalAssumption ==
    /\ Session \in [Calls -> Sessions]
    /\ Channelled \subseteq Calls
    /\ None \notin Sessions \cup Calls \cup {"yes", "no", "odd"}

VARIABLES
    call,    \* each call's coroutine: its place and locals
    table,   \* the keys of _pending_approvals
    client,  \* each client: its subscription and the question it shows
    mail,    \* approval_response frames on their way to the daemon
    hist     \* history, kept for the properties

vars == <<call, table, client, mail, hist>>

Answers == {"yes", "no", "odd"}     \* odd: _read_answer makes nothing of it
Outcomes == {"approved", "refused", "timed_out", "cancelled"}

Suspended == {"asking", "waiting", "telling", "cancelling"}
Places == {"idle", "done"} \cup Suspended

CallState ==
    [at     : Places,
     left   : SUBSET Clients,           \* targets of a broadcast still to come
     kill   : SUBSET {"esc", "outer", "inner"},  \* cancellations on their way
     future : Answers \cup {"open", "dead"},
     armed  : BOOLEAN,                  \* the outer timer has not fired
     esc    : BOOLEAN,                  \* the turn itself was cancelled
     ran    : {"none", "refused", "wide"}]       \* what became of the call

ClientState ==
    [sub   : Sessions \cup {None},      \* the session it subscribed to
     here  : BOOLEAN,                   \* under the directory of its turns
     shown : Calls \cup {None}]         \* _approval_pending

HistState ==
    [first : Answers \cup {None},       \* the first answer that arrived in time
     asked : SUBSET Clients,            \* got the question and stayed
     heard : [Clients -> SUBSET Outcomes],
     cut   : BOOLEAN]                   \* cancelled while telling the outcome

\* Every coroutine and client keeps the shape of its record.
TypeOK ==
    /\ call \in [Calls -> CallState]
    /\ table \subseteq Calls
    /\ client \in [Clients -> ClientState]
    /\ mail \subseteq (Calls \X Answers)
    /\ hist \in [Calls -> HistState]

Init ==
    /\ call = [q \in Calls |->
                 [at |-> "idle", left |-> {}, kill |-> {}, future |-> "open",
                  armed |-> FALSE, esc |-> FALSE, ran |-> "none"]]
    /\ table = {}
    /\ client = [c \in Clients |->
                   [sub |-> None, here |-> FALSE, shown |-> None]]
    /\ mail = {}
    /\ hist = [q \in Calls |->
                 [first |-> None, asked |-> {},
                  heard |-> [c \in Clients |-> {}], cut |-> FALSE]]

-----------------------------------------------------------------------------
(* Broadcasts.                                                             *)

Subscribers(q) == {c \in Clients : client[c].sub = Session[q]}

\* A subscriber that named another directory is in the table and is no
\* target of a running turn's frames.
Targets(q) == {c \in Subscribers(q) : client[c].here}

\* Ways to write one frame to the clients T: the coroutine suspends at a
\* full socket, its frame written, or gets through.
Writes(T) ==
    {[sent |-> D, left |-> T \ D, waits |-> TRUE] : D \in SUBSET T \ {{}}}
    \cup {[sent |-> T, left |-> {}, waits |-> FALSE]}

\* A client that left the session meanwhile is not reached.
Reached(q, w) == w.sent \cap Subscribers(q)

\* The question goes to the clients T, and then its answer is awaited.
PutQuestion(q, T, c) ==
    \E w \in Writes(T) :
        /\ client' = [d \in Clients |->
                        IF d \in Reached(q, w)
                        THEN [client[d] EXCEPT !.shown = q] ELSE client[d]]
        /\ hist' = [hist EXCEPT ![q].asked = @ \cup (Reached(q, w) \cap Targets(q))]
        /\ call' = [call EXCEPT ![q] =
                      [c EXCEPT !.left = w.left,
                                !.at = IF w.waits THEN "asking" ELSE "waiting"]]

\* The outcome goes to the clients T; place is where the coroutine is while
\* it is being told, and end the record it leaves with.  A client whose
\* screen holds another question keeps it.
Closes(shown, q) == IF shown = q THEN None ELSE shown

Tell(q, T, word, place, c, end) ==
    \E w \in Writes(T) :
        /\ client' = [d \in Clients |->
                        IF d \in Reached(q, w)
                        THEN [client[d] EXCEPT
                                !.shown = Closes(client[d].shown, q)]
                        ELSE client[d]]
        /\ hist' = [hist EXCEPT ![q].heard =
                      [d \in Clients |->
                         IF d \in Reached(q, w)
                         THEN hist[q].heard[d] \cup {word}
                         ELSE hist[q].heard[d]]]
        /\ IF w.waits
           THEN /\ call' = [call EXCEPT ![q] = [c EXCEPT !.at = place,
                                                         !.left = w.left]]
                /\ UNCHANGED table
           ELSE /\ call' = [call EXCEPT ![q] = end]
                /\ table' = table \ {q}

\* The coroutine has returned or raised.
Ended(c, ran) ==
    [c EXCEPT !.at = "done", !.left = {}, !.kill = {}, !.armed = FALSE,
              !.ran = ran]

\* What a value returned from request_approval makes of the call: only an
\* explicit yes is an approval.
Granted(answer) == IF answer = "yes" THEN "wide" ELSE "refused"

\* What a cancellation makes of it: the outer timer's becomes a refusal,
\* unless the turn was cancelled too.
CutOff(c) == Ended(c, IF c.esc THEN "none" ELSE "refused")

SlipOutcomeOf(answer) == answer     \* the raw answer is announced

OutcomeOf(answer) == IF answer = "yes" THEN "approved" ELSE "refused"

-----------------------------------------------------------------------------
(* The asking coroutine.                                                   *)

\* A turn comes to its next tool call; it runs them one at a time.
Comes(q) ==
    /\ call[q].at = "idle"
    /\ \A p \in Calls : Session[p] = Session[q] => call[p].at \notin Suspended

\* The pair of arguments or the hop is invalid: nobody is asked.
Reject(q) ==
    /\ Comes(q)
    /\ call' = [call EXCEPT ![q] = Ended(@, "refused")]
    /\ UNCHANGED <<table, client, mail, hist>>

\* Nobody is subscribed: refused, in silence.
NobodyThere(q) ==
    /\ Comes(q)
    /\ Subscribers(q) = {}
    /\ call' = [call EXCEPT ![q] = Ended(@, "refused")]
    /\ UNCHANGED <<table, client, mail, hist>>

Request(q) ==
    /\ Comes(q)
    /\ Subscribers(q) # {}
    /\ table' = table \cup {q}
    /\ PutQuestion(q, Targets(q), [call[q] EXCEPT !.armed = q \in Channelled])
    /\ UNCHANGED mail

\* The socket has room again and no cancellation came first.
RequestOn(q) ==
    /\ call[q].at = "asking"
    /\ call[q].kill = {}
    /\ PutQuestion(q, call[q].left, call[q])
    /\ UNCHANGED <<table, mail>>

\* The answer is there: it is announced and then returned.
Answered(q) ==
    LET answer == call[q].future IN
    /\ call[q].at = "waiting"
    /\ call[q].kill = {}
    /\ answer \in Answers
    /\ Tell(q, Targets(q), OutcomeOf(answer), "telling", call[q],
            Ended(call[q], Granted(answer)))
    /\ UNCHANGED mail

\* The wait alone has timed out.
TimedOut(q) ==
    /\ call[q].at = "waiting"
    /\ call[q].kill = {"inner"}
    /\ LET c == [call[q] EXCEPT !.kill = {}, !.future = "dead"] IN
       Tell(q, Targets(q), "timed_out", "telling", c, Ended(c, "refused"))
    /\ UNCHANGED mail

TellOn(q) ==
    LET answer == call[q].future IN
    /\ call[q].at = "telling"
    /\ call[q].kill = {}
    /\ Tell(q, call[q].left,
            IF answer = "dead" THEN "timed_out" ELSE OutcomeOf(answer),
            "telling", call[q], Ended(call[q], Granted(answer)))
    /\ UNCHANGED mail

\* CancelledError in the question's broadcast or in the wait: nothing has
\* been announced yet.
SlipUnannounced(place) == place = "waiting"     \* a handler around the wait
SlipUnflagged(place) == place # "cancelling"    \* no `announced' flag

Unannounced(place) == place \in {"asking", "waiting"}

Cancelled(q) ==
    /\ Unannounced(call[q].at)
    /\ call[q].kill \notin {{}, {"inner"}}
    /\ LET c == [call[q] EXCEPT !.kill = {}] IN
       Tell(q, Targets(q), "cancelled", "cancelling", c,
            CutOff(c))
    /\ UNCHANGED mail

CancelOn(q) ==
    /\ call[q].at = "cancelling"
    /\ call[q].kill = {}
    /\ Tell(q, call[q].left, "cancelled", "cancelling", call[q],
            CutOff(call[q]))
    /\ UNCHANGED mail

\* CancelledError anywhere else: the rest of the frame is not sent.  What is
\* left is the finally.
SlipForget(q) == {}     \* the pop is not in a finally

Forget(q) == {q}

CancelledAgain(q) ==
    /\ call[q].at \in Suspended
    /\ ~Unannounced(call[q].at)
    /\ call[q].kill # {}
    /\ call' = [call EXCEPT ![q] = CutOff(@)]
    /\ hist' = [hist EXCEPT ![q].cut = call[q].at \in {"telling", "cancelling"}]
    /\ table' = table \ Forget(q)
    /\ UNCHANGED <<client, mail>>

-----------------------------------------------------------------------------
(* Timers, interrupts and answers.                                         *)

\* A cancellation of a coroutine that waits for the answer cancels the
\* answer's future with it.
Struck(c, why) ==
    [c EXCEPT !.kill = @ \cup {why},
              !.future = IF c.at = "waiting" /\ @ = "open" THEN "dead" ELSE @]

SlipOuterTimer(q) == FALSE      \* approve_escalation waits without a timeout

OuterTimer(q) ==
    /\ call[q].armed
    /\ call' = [call EXCEPT ![q] = [Struck(@, "outer") EXCEPT !.armed = FALSE]]
    /\ UNCHANGED <<table, client, mail, hist>>

InnerTimer(q) ==
    /\ q \notin Channelled
    /\ call[q].at = "waiting"
    /\ call[q].kill = {}
    /\ call' = [call EXCEPT ![q] = Struck(@, "inner")]
    /\ UNCHANGED <<table, client, mail, hist>>

\* A cancel frame cancels the task of the session's turn.
Esc(q) ==
    /\ call[q].at \in Suspended
    /\ "esc" \notin call[q].kill
    /\ call' = [call EXCEPT ![q] = [Struck(@, "esc") EXCEPT !.esc = TRUE]]
    /\ UNCHANGED <<table, client, mail, hist>>

\* _resolve_approval: an answer to a question that is not pending, or that
\* has been decided, changes nothing.
SlipDecidable(q) == q \in table    \* future.done() is not looked at

Decidable(q) == q \in table /\ call[q].future = "open"

Resolve(q, answer) ==
    /\ <<q, answer>> \in mail
    /\ mail' = mail \ {<<q, answer>>}
    /\ call' = IF Decidable(q) THEN [call EXCEPT ![q].future = answer] ELSE call
    /\ hist' = IF Decidable(q) /\ hist[q].first = None
               THEN [hist EXCEPT ![q].first = answer] ELSE hist
    /\ UNCHANGED <<table, client>>

-----------------------------------------------------------------------------
(* The clients.                                                            *)

\* The client is no longer among those the frames of its session reach.
Left(c) == [q \in Calls |-> [hist[q] EXCEPT !.asked = @ \ {c}]]

\* A frame that names session s, from the directory of its turns or not.
Name(c, s, here) ==
    /\ <<client[c].sub, client[c].here>> # <<s, here>>
    /\ client' = [client EXCEPT ![c].sub = s, ![c].here = here]
    /\ hist' = Left(c)
    /\ UNCHANGED <<call, table, mail>>

\* The connection breaks; the client goes on and reconnects, or is gone.
Hangup(c, shown) ==
    /\ client[c].sub # None
    /\ shown \in {client[c].shown, None}
    /\ client' = [client EXCEPT ![c] =
                     [sub |-> None, here |-> FALSE, shown |-> shown]]
    /\ hist' = Left(c)
    /\ UNCHANGED <<call, table, mail>>

\* The host types a line at the question on the screen: an answer.
Answer(c, answer) ==
    /\ client[c].sub # None
    /\ client[c].shown # None
    /\ mail' = mail \cup {<<client[c].shown, answer>>}
    /\ client' = [client EXCEPT ![c].shown = None]
    /\ UNCHANGED <<call, table, hist>>

\* The client's own deadline, later than the daemon's, has passed: the line
\* is a prompt and the question is gone.
Expired(c) ==
    /\ client[c].shown # None
    /\ LET q == client[c].shown IN
       call[q].at = "done" \/ (q \in Channelled /\ ~call[q].armed)
    /\ client' = [client EXCEPT ![c].shown = None]
    /\ UNCHANGED <<call, table, mail, hist>>

-----------------------------------------------------------------------------

Resume(q) ==
    \/ RequestOn(q)
    \/ Answered(q)
    \/ TimedOut(q)
    \/ TellOn(q)
    \/ Cancelled(q)
    \/ CancelOn(q)
    \/ CancelledAgain(q)

Next ==
    \/ \E q \in Calls :
          \/ Reject(q)
          \/ NobodyThere(q)
          \/ Request(q)
          \/ Resume(q)
          \/ OuterTimer(q)
          \/ InnerTimer(q)
          \/ Esc(q)
          \/ \E answer \in Answers : Resolve(q, answer)
    \/ \E c \in Clients :
          \/ \E s \in Sessions, here \in BOOLEAN : Name(c, s, here)
          \/ \E shown \in Calls \cup {None} : Hangup(c, shown)
          \/ \E answer \in Answers : Answer(c, answer)
          \/ Expired(c)

Spec == Init /\ [][Next]_vars

\* A coroutine that can go on does; a full socket drains or is closed by the
\* keepalive; a timer fires.
Fairness ==
    \A q \in Calls :
        WF_vars(Resume(q)) /\ WF_vars(OuterTimer(q)) /\ WF_vars(InnerTimer(q))

FairSpec == Spec /\ Fairness

-----------------------------------------------------------------------------
(* Properties.                                                             *)

\* A call runs at the wider tier only when the first answer that reached
\* the daemon in time was a yes and the turn was not interrupted meanwhile,
\* and no client hears an outcome the first answer does not bear out
\* (request_approval, _resolve_approval: "the first answer wins").
FirstAnswerDecides ==
    \A q \in Calls :
        /\ call[q].ran = "wide" => hist[q].first = "yes" /\ ~call[q].esc
        /\ \A c \in Clients :
              /\ "approved" \in hist[q].heard[c] => hist[q].first = "yes"
              /\ "refused" \in hist[q].heard[c] => hist[q].first \in {"no", "odd"}

\* No client hears two endings of one question, whatever cancellation cuts
\* into the announcement (the `announced' flag of request_approval).
OneOutcome ==
    \A q \in Calls, c \in Clients : \A v, w \in hist[q].heard[c] : v = w

\* A client that got the question and stayed is told how it ended, and no
\* longer shows it, unless a cancellation cut the announcement itself
\* (request_approval, "every exit that a client can observe is announced").
AskersTold ==
    \A q \in Calls :
        call[q].at = "done" /\ ~hist[q].cut =>
            \A c \in hist[q].asked :
                hist[q].heard[c] # {} /\ client[c].shown # q

\* The table holds exactly the questions whose coroutine is alive: an entry
\* left behind would swallow answers for ever, one removed early would lose
\* them (the finally of request_approval).
TableFollowsQuestions ==
    table = {q \in Calls : call[q].at \in Suspended}

\* The questions end, though nobody answers, every client leaves or a socket
\* stays full: again and again none is open, and none is asked twice.
QuestionsEnd == []<>(\A q \in Calls : call[q].at \in {"idle", "done"})

=============================================================================
