------------------------ MODULE SessionTurns_proofs ------------------------
(***************************************************************************)
(* What holds of the turn lifecycle for any number of sessions, clients    *)
(* and prompts, any slow clients and any timing of their frames.           *)
(***************************************************************************)
EXTENDS SessionTurns, TLAPS

-----------------------------------------------------------------------------
(* Types.                                                                  *)

\* A live turn belongs to a session and to somebody.
ReqInv ==
    \A r \in Prompts : turn[r].at # "idle" =>
        req[r].to \in Sessions /\ req[r].from \in Producers

\* Past the round budget the loop asks the model nothing.
Paced(t) ==
    (\/ t.at \in {"compact", "stream", "repair", "tools"}
     \/ t.at = "inject" /\ t.next = "request") => t.round <= MaxToolRounds

RoundInv == \A r \in Prompts : Paced(turn[r])

TypeInv == TypeOK /\ ReqInv /\ RoundInv

LEMMA Constants ==
    /\ <<>> \in Seq(Prompts)
    /\ 1 \in 1..(MaxToolRounds + 1)
    /\ MaxToolRounds \in Nat
    /\ Refusals \in SUBSET Refusals
    /\ {"created", "idle", "finished", "dead", "handback", "exit", "loop",
        "round", "inject", "compact", "stream", "repair", "tools", "errdone",
        "answered", "return", "finally", "fallback", "release"}
         \subseteq Places
  BY EnvironmentAssumption DEF Places, Holding, InTry

LEMMA NewTurnType == \A p \in Places : [NewTurn EXCEPT !.at = p] \in TurnState
  BY Constants DEF NewTurn, TurnState

LEMMA NewTurnCreated == NewTurn \in TurnState
  BY Constants DEF NewTurn, TurnState

LEMMA TypeInit == Init => TypeInv
<1> SUFFICES ASSUME Init PROVE TypeInv
  OBVIOUS
<1>1. loop \in Prompts \cup {None} /\ req \in [Prompts -> ReqState]
  BY DEF Init, ReqState
<1>2. sess \in [Sessions -> SessionState]
  BY DEF Init, SessionState
<1>3. /\ turn \in [Prompts -> TurnState]
      /\ \A r \in Prompts : turn[r].at = "idle"
  BY NewTurnType, Constants DEF Init, NewTurn
<1>4. conn \in [Conns -> ConnState]
  BY DEF Init, ConnState, NewConn
<1>5. log \in [Prompts -> LogState]
  BY DEF Init, LogState, Fates, Places
<1> QED
  BY <1>1, <1>2, <1>3, <1>4, <1>5
     DEF TypeInv, TypeOK, ReqInv, RoundInv, Paced

\* What the records' fields may be changed to.
LEMMA LogUpdates ==
    ASSUME NEW l \in LogState
    PROVE  /\ \A f \in Fates : [l EXCEPT !.fate = f] \in LogState
           /\ \A n \in Nat : [l EXCEPT !.dones = n] \in LogState
           /\ \A f \in Fates, n \in Nat :
                 [l EXCEPT !.fate = f, !.commits = n] \in LogState
           /\ \A f \in Fates, p \in Places :
                 [l EXCEPT !.cut = p, !.fate = f] \in LogState
           /\ l.fate \in Fates /\ l.commits \in Nat /\ l.dones \in Nat
  BY DEF LogState

LEMMA TurnUpdates ==
    ASSUME NEW t \in TurnState, NEW p \in Places
    PROVE  /\ [t EXCEPT !.at = p] \in TurnState
           /\ [t EXCEPT !.at = p, !.kill = FALSE] \in TurnState
           /\ \A n \in {"request", "round", "renew"} :
                 /\ [t EXCEPT !.at = p, !.next = n] \in TurnState
                 /\ \A b \in Seq(Prompts) :
                       [t EXCEPT !.at = p, !.next = n, !.batch = b] \in TurnState
                 /\ \A k \in 1..(MaxToolRounds + 1) :
                       [t EXCEPT !.at = p, !.next = n, !.round = k] \in TurnState
           /\ \A b \in Seq(Prompts) : [t EXCEPT !.batch = b] \in TurnState
           /\ \A k \in 1..(MaxToolRounds + 1) :
                 [t EXCEPT !.at = p, !.round = k] \in TurnState
           /\ \A R \in SUBSET Refusals :
                 [t EXCEPT !.at = p, !.retries = R] \in TurnState
           /\ \A a, b \in BOOLEAN : [t EXCEPT !.stop = a, !.kill = b] \in TurnState
  BY DEF TurnState

LEMMA SessUpdates ==
    ASSUME NEW d \in SessionState
    PROVE  /\ \A b \in BOOLEAN : [d EXCEPT !.terminal = b] \in SessionState
           /\ \A q \in Seq(Prompts) : [d EXCEPT !.pending = q] \in SessionState
           /\ [d EXCEPT !.cwd = None] \in SessionState
           /\ \A w \in Cwds, r \in Prompts :
                 [d EXCEPT !.cwd = w, !.started = r, !.terminal = FALSE]
                   \in SessionState
           /\ \A e, t \in Prompts \cup {None} :
                 [d EXCEPT !.busy = FALSE, !.started = None, !.terminal = FALSE,
                           !.event = e, !.task = t] \in SessionState
           /\ \A r \in Prompts :
                 /\ [d EXCEPT !.busy = TRUE, !.event = r] \in SessionState
                 /\ [d EXCEPT !.busy = TRUE, !.event = r, !.task = r]
                      \in SessionState
           /\ d.pending \in Seq(Prompts)
           /\ d.event \in Prompts \cup {None} /\ d.task \in Prompts \cup {None}
  BY Constants DEF SessionState

LEMMA ConnUpdates ==
    ASSUME NEW c \in ConnState
    PROVE  /\ \A s \in Sessions : [c EXCEPT !.sub = s] \in ConnState
           /\ [c EXCEPT !.own = None] \in ConnState
           /\ \A r \in Prompts : [c EXCEPT !.own = r] \in ConnState
           /\ \A p \in {"reading", "awaiting", "closing"} :
                 /\ [c EXCEPT !.at = p] \in ConnState
                 /\ [c EXCEPT !.at = p, !.own = None] \in ConnState
           /\ NewConn \in ConnState
  BY DEF ConnState, NewConn

\* The steps the actions are made of keep the types.
LEMMA SpeakLoop ==
    ASSUME NEW r \in Prompts, Speak(r) PROVE loop' \in {r, None}
  BY DEF Speak, Broadcast

LEMMA MoveType ==
    ASSUME TypeOK, NEW r \in Prompts, NEW p \in Places, MoveTo(r, p),
           loop' \in {r, None}
    PROVE  TypeOK'
<1>1. turn' \in [Prompts -> TurnState]
  BY TurnUpdates DEF MoveTo, TypeOK
<1> QED
  BY <1>1 DEF MoveTo, TypeOK

LEMMA SayDoneType ==
    ASSUME TypeOK, NEW r \in Prompts, req[r].to \in Sessions, NEW p \in Places,
           SayDone(r, p)
    PROVE  TypeOK'
<1>1. turn' \in [Prompts -> TurnState]
  BY TurnUpdates DEF SayDone, TypeOK
<1>2. sess' \in [Sessions -> SessionState]
  BY SessUpdates DEF SayDone, TypeOK
<1>3. log[r].dones + 1 \in Nat
  <2>1. log[r].dones \in Nat
    BY DEF TypeOK, LogState
  <2> QED
    BY <2>1
<1>4. log' \in [Prompts -> LogState]
  BY <1>3, LogUpdates DEF SayDone, TypeOK
<1> QED
  BY <1>1, <1>2, <1>4, SpeakLoop DEF SayDone, TypeOK

LEMMA MarkType ==
    ASSUME TypeOK, NEW ps, NEW f \in Fates PROVE Mark(ps, f) \in [Prompts -> LogState]
  BY LogUpdates DEF Mark, TypeOK

LEMMA CommittedType ==
    ASSUME TypeOK, NEW r \in Prompts PROVE Committed(r) \in [Prompts -> LogState]
<1>1. log[r].commits + 1 \in Nat /\ "committed" \in Fates
  <2>1. log[r].commits \in Nat
    BY DEF TypeOK, LogState
  <2> QED
    BY <2>1 DEF Fates
<1>2. [log[r] EXCEPT !.fate = "committed", !.commits = log[r].commits + 1]
         \in LogState
  BY <1>1, LogUpdates DEF TypeOK
<1> QED
  BY <1>2 DEF Committed, TypeOK

LEMMA UnqueuedType ==
    ASSUME TypeOK, NEW s \in Sessions
    PROVE  /\ Unqueued(s) \in [Sessions -> SessionState]
           /\ [Unqueued(s) EXCEPT ![s].cwd = None] \in [Sessions -> SessionState]
<1>1. Unqueued(s) \in [Sessions -> SessionState]
  BY SessUpdates, Constants DEF Unqueued, TypeOK
<1> HIDE DEF Unqueued
<1> QED
  BY <1>1, SessUpdates

LEMMA TakeType ==
    ASSUME TypeOK, NEW r \in Prompts, req[r].to \in Sessions,
           NEW n \in {"request", "round", "renew"}, Take(r, n)
    PROVE  TypeOK'
<1>1. sess[req[r].to].pending \in Seq(Prompts)
  BY SessUpdates DEF TypeOK
<1>2. turn' \in [Prompts -> TurnState]
  BY <1>1, TurnUpdates, Constants DEF Take, TypeOK
<1>3. sess' \in [Sessions -> SessionState]
  BY UnqueuedType DEF Take
<1>4. log' \in [Prompts -> LogState]
  BY MarkType DEF Take, Fates
<1> QED
  BY <1>2, <1>3, <1>4 DEF Take, TypeOK

LEMMA LeavingType ==
    ASSUME TypeOK, NEW r \in Prompts, NEW n \in BOOLEAN,
           NEW f \in {"none", "cancelled", "failed"}
    PROVE  Leaving(r, n, f) \in TurnState
  BY Constants DEF TypeOK, Leaving, NewTurn, TurnState

LEMMA UnwindType ==
    ASSUME TypeOK, NEW r \in Prompts, NEW f \in {"cancelled", "failed"},
           Unwind(r, f)
    PROVE  TypeOK'
<1>1. log' \in [Prompts -> LogState]
  BY LogUpdates DEF Unwind, Abandoned, TypeOK, Fates
<1>2. turn' \in [Prompts -> TurnState]
  BY LeavingType DEF Unwind, TypeOK
<1> QED
  BY <1>1, <1>2 DEF Unwind, TypeOK

\* A turn that runs or is cancelled is not idle.
LEMMA Acting ==
    ASSUME TypeInv, NEW r \in Prompts, TurnStep(r)
    PROVE  /\ turn[r].at \notin {"idle", "finished", "dead"}
           /\ req[r].to \in Sessions /\ req[r].from \in Producers
<1>1. turn[r].at \notin {"idle", "finished", "dead"}
  BY DEF TurnStep, Runs, Hit, InTry, Start, EnterLoop, InjectNext, InjectDone,
         BudgetSpent, BudgetRenewed, RoundCancelled, RoundSteered, RoundPlain,
         InjectedAsk, Compacted, StreamCut, StreamRepair, Repaired,
         StreamFailed, ErrorDone, AnswerSteered, AnswerFinal, ToolCalls,
         ToolsDone, Return, Raise, FinallyCancelled, FinallyFailed,
         FallbackDone, Release, HandBack, Exit, HitInStream, HitInLoop,
         HitOutside
<1> QED
  BY <1>1 DEF TypeInv, ReqInv

LEMMA TurnTypes ==
    ASSUME TypeInv, NEW r \in Prompts, TurnStep(r) PROVE TypeOK'
<1> DEFINE s == req[r].to
<1>0. /\ s \in Sessions /\ req[r].from \in Producers
      /\ TypeOK
      /\ turn[r] \in TurnState /\ turn \in [Prompts -> TurnState]
  BY Acting DEF TypeInv, TypeOK
<1>1. CASE Start(r)
  <2>1. sess' \in [Sessions -> SessionState]
    <3>1. Cwd[req[r].from] \in Cwds
      BY <1>0, ProducerAssumption
    <3> QED
      BY <1>0, <1>1, <3>1, SessUpdates DEF Start, TypeOK
  <2>2. turn' \in [Prompts -> TurnState]
    BY <1>0, <1>1, TurnUpdates, Constants DEF Start
  <2> QED
    BY <1>0, <1>1, <2>1, <2>2 DEF Start, Broadcast, TypeOK
<1>2. CASE EnterLoop(r)
  <2>1. turn' \in [Prompts -> TurnState]
    BY <1>0, <1>2, TurnUpdates, Constants DEF EnterLoop
  <2>2. log' \in [Prompts -> LogState] /\ loop' \in {r, None}
    BY <1>0, <1>2, CommittedType, SpeakLoop DEF EnterLoop
  <2> QED
    BY <1>0, <1>2, <2>1, <2>2 DEF EnterLoop, TypeOK
<1>3. CASE InjectNext(r)
  <2>1. /\ turn[r].batch \in Seq(Prompts) /\ turn[r].batch # <<>>
    BY <1>0, <1>3 DEF InjectNext, TurnState
  <2>2. Tail(turn[r].batch) \in Seq(Prompts) /\ Head(turn[r].batch) \in Prompts
    BY <2>1
  <2>3. turn' \in [Prompts -> TurnState]
    BY <1>0, <1>3, <2>2, TurnUpdates, Constants DEF InjectNext
  <2>4. log' \in [Prompts -> LogState] /\ loop' \in {r, None}
    BY <1>0, <1>3, <2>2, CommittedType, SpeakLoop DEF InjectNext
  <2> QED
    BY <1>0, <1>3, <2>3, <2>4 DEF InjectNext, TypeOK
<1>4. CASE InjectDone(r)
  <2>1. (IF turn[r].next = "renew" THEN 1 ELSE turn[r].round)
           \in 1..(MaxToolRounds + 1)
    BY <1>0, Constants DEF TurnState
  <2>2. turn' \in [Prompts -> TurnState]
    BY <1>0, <1>4, <2>1, TurnUpdates, Constants DEF InjectDone
  <2> QED
    BY <1>0, <1>4, <2>2 DEF InjectDone, TypeOK
<1>5. ASSUME Ask(r) PROVE TypeOK'
  <2>1. PICK place \in {"compact", "stream"} :
            turn' = [turn EXCEPT ![r].at = place, ![r].next = "round"]
    BY <1>5 DEF Ask
  <2>2. [turn[r] EXCEPT !.at = place, !.next = "round"] \in TurnState
    BY <1>0, TurnUpdates, Constants
  <2>3. turn' \in [Prompts -> TurnState]
    BY <1>0, <2>1, <2>2
  <2> QED
    BY <1>0, <1>5, <2>3 DEF Ask, TypeOK
<1>6. ASSUME NEW p \in Places, SayDone(r, p) PROVE TypeOK'
  BY <1>0, <1>6, SayDoneType
<1>7. ASSUME NEW n \in {"request", "round", "renew"}, Take(r, n) PROVE TypeOK'
  BY <1>0, <1>7, TakeType
<1>8. ASSUME NEW p \in Places, MoveTo(r, p), loop' = None \/ Speak(r)
      PROVE  TypeOK'
  BY <1>0, <1>8, MoveType, SpeakLoop
<1>9. CASE \/ BudgetSpent(r) \/ RoundCancelled(r) \/ StreamCut(r)
           \/ ErrorDone(r) \/ AnswerFinal(r) \/ FinallyCancelled(r)
           \/ FallbackDone(r) \/ HitInStream(r)
  BY <1>6, <1>9, Constants
     DEF BudgetSpent, RoundCancelled, StreamCut, ErrorDone, AnswerFinal,
         FinallyCancelled, FallbackDone, HitInStream
<1>10. CASE BudgetRenewed(r) \/ RoundSteered(r) \/ AnswerSteered(r)
  BY <1>7, <1>10 DEF BudgetRenewed, RoundSteered, AnswerSteered
<1>11. CASE RoundPlain(r) \/ InjectedAsk(r)
  BY <1>5, <1>11 DEF RoundPlain, InjectedAsk
<1>12. CASE \/ Compacted(r) \/ Repaired(r) \/ StreamFailed(r) \/ ToolCalls(r)
            \/ FinallyFailed(r)
  BY <1>8, <1>12, Constants
     DEF Compacted, Repaired, StreamFailed, ToolCalls, FinallyFailed
<1>13. CASE StreamRepair(r)
  <2>1. turn[r].retries \in SUBSET Refusals
    BY <1>0 DEF TurnState
  <2>2. PICK k \in turn[r].retries :
            turn' = [turn EXCEPT ![r].at = "repair", ![r].retries = @ \ {k}]
    BY <1>13 DEF StreamRepair
  <2>3. turn[r].retries \ {k} \in SUBSET Refusals
    BY <2>1
  <2>4. [turn[r] EXCEPT !.at = "repair", !.retries = turn[r].retries \ {k}]
           \in TurnState
    BY <1>0, <2>3, TurnUpdates, Constants
  <2>5. turn' \in [Prompts -> TurnState]
    BY <1>0, <2>2, <2>4
  <2> QED
    BY <1>0, <1>13, <2>5 DEF StreamRepair, TypeOK
<1>14. CASE ToolsDone(r)
  <2>1. turn[r].round + 1 \in 1..(MaxToolRounds + 1)
    <3>1. turn[r].round \in 1..(MaxToolRounds + 1)
      BY <1>0 DEF TurnState
    <3>2. turn[r].round <= MaxToolRounds
      BY <1>14 DEF ToolsDone, Runs, TypeInv, RoundInv, Paced
    <3> QED
      BY <3>1, <3>2, Constants
  <2>2. turn' \in [Prompts -> TurnState]
    BY <1>0, <1>14, <2>1, TurnUpdates, Constants DEF ToolsDone
  <2> QED
    BY <1>0, <1>14, <2>2, SpeakLoop DEF ToolsDone, TypeOK
<1>15. CASE Return(r)
  <2>1. turn' \in [Prompts -> TurnState]
    BY <1>0, <1>15, LeavingType DEF Return
  <2> QED
    BY <1>0, <1>15, <2>1 DEF Return, TypeOK
<1>16. CASE Raise(r) \/ HitInLoop(r)
  BY <1>0, <1>16, UnwindType DEF Raise, HitInLoop
<1>17. CASE Release(r)
  <2>1. sess' \in [Sessions -> SessionState]
    <3>1. PICK e \in Prompts \cup {None}, t \in Prompts \cup {None} :
             sess' = [sess EXCEPT ![s].busy = FALSE, ![s].started = None,
                                  ![s].terminal = FALSE,
                                  ![s].event = e, ![s].task = t]
      BY <1>0, <1>17, SessUpdates DEF Release, Released, TypeOK
    <3>2. [sess[s] EXCEPT !.busy = FALSE, !.started = None, !.terminal = FALSE,
                          !.event = e, !.task = t] \in SessionState
      <4>1. sess[s] \in SessionState
        BY <1>0 DEF TypeOK
      <4> QED
        BY <4>1, SessUpdates, Zenon
    <3> QED
      BY <1>0, <3>1, <3>2 DEF TypeOK
  <2>2. turn' \in [Prompts -> TurnState]
    BY <1>0, <1>17, TurnUpdates, Constants DEF Release
  <2> QED
    BY <1>0, <1>17, <2>1, <2>2, SpeakLoop DEF Release, TypeOK
<1>18. ASSUME Finish(r) PROVE /\ turn' \in [Prompts -> TurnState]
                              /\ loop' = None
  BY <1>0, <1>18, NewTurnType, Constants DEF Finish
<1>19. CASE HandBack(r)
  <2>1. sess' \in [Sessions -> SessionState]
    BY <1>0, <1>19, UnqueuedType DEF HandBack
  <2>2. log' \in [Prompts -> LogState]
    BY <1>0, <1>19, MarkType DEF HandBack, Fates
  <2>3. turn' \in [Prompts -> TurnState] /\ loop' \in {r, None}
    <3>1. CASE sess[s].pending = <<>>
      BY <1>18, <1>19, <3>1 DEF HandBack
    <3>2. CASE sess[s].pending # <<>>
      <4>1. Broadcast(r, s, None) /\ turn' = [turn EXCEPT ![r].at = "exit"]
        BY <1>19, <3>2 DEF HandBack
      <4>2. loop' \in {r, None}
        BY <4>1 DEF Broadcast
      <4> QED
        BY <1>0, <4>1, <4>2, TurnUpdates, Constants
    <3> QED
      BY <3>1, <3>2
  <2> QED
    BY <1>0, <1>19, <2>1, <2>2, <2>3 DEF HandBack, TypeOK
<1>20. CASE Exit(r)
  BY <1>0, <1>18, <1>20 DEF Exit, TypeOK
<1>21. CASE HitOutside(r)
  <2>1. turn' \in [Prompts -> TurnState]
    BY <1>0, <1>21, NewTurnType, Constants DEF HitOutside
  <2>2. turn[r].at \in Places /\ log[r].fate \in Fates /\ "dropped" \in Fates
    BY <1>0 DEF TurnState, TypeOK, LogState, Fates
  <2>3. log' \in [Prompts -> LogState]
    BY <1>0, <1>21, <2>2, LogUpdates DEF HitOutside, TypeOK
  <2> QED
    BY <1>0, <1>21, <2>1, <2>3 DEF HitOutside, TypeOK
<1> QED
  BY <1>1, <1>2, <1>3, <1>4, <1>9, <1>10, <1>11, <1>12, <1>13, <1>14, <1>15,
     <1>16, <1>17, <1>19, <1>20, <1>21 DEF TurnStep

LEMMA QueuedType ==
    ASSUME TypeOK, NEW r \in Prompts, NEW s \in Sessions
    PROVE  Queued(r, s) \in [Sessions -> SessionState]
<1>1. sess[s] \in SessionState /\ sess[s].pending \in Seq(Prompts)
  BY SessUpdates DEF TypeOK
<1>2. Append(sess[s].pending, r) \in Seq(Prompts)
  BY <1>1
<1>3. [sess[s] EXCEPT !.pending = Append(sess[s].pending, r)] \in SessionState
  BY <1>1, <1>2, SessUpdates
<1> QED
  BY <1>3 DEF Queued, TypeOK

LEMMA StoppedType ==
    ASSUME TypeOK, NEW e, NEW t
    PROVE  Stopped(turn, e, t) \in [Prompts -> TurnState]
<1>1. ASSUME NEW q \in Prompts
      PROVE  [turn[q] EXCEPT !.stop = @ \/ (q = e /\ Live(q)),
                             !.kill = @ \/ (q = t /\ Live(q))] \in TurnState
  <2> DEFINE a == turn[q].stop \/ (q = e /\ Live(q))
             b == turn[q].kill \/ (q = t /\ Live(q))
  <2>1. turn[q] \in TurnState
    BY DEF TypeOK
  <2>2. a \in BOOLEAN /\ b \in BOOLEAN
    OBVIOUS
  <2> HIDE DEF a, b
  <2>3. [turn[q] EXCEPT !.stop = a, !.kill = b] \in TurnState
    BY <2>1, <2>2, TurnUpdates, Constants
  <2> QED
    BY <2>3 DEF a, b
<1> QED
  BY <1>1 DEF Stopped

LEMMA SubscribedType ==
    ASSUME TypeOK, NEW c \in Conns, NEW s \in Sessions
    PROVE  /\ Subscribed(c, s) \in [Conns -> ConnState]
           /\ \A r \in Prompts :
                [Subscribed(c, s) EXCEPT ![c].own = r] \in [Conns -> ConnState]
<1>1. Subscribed(c, s) \in [Conns -> ConnState]
  BY ConnUpdates DEF Subscribed, TypeOK
<1> HIDE DEF Subscribed
<1> QED
  BY <1>1, ConnUpdates

\* A request that is queued or started is one of s by a producer.
LEMMA ReqUpdates ==
    ASSUME TypeOK, NEW r \in Prompts, NEW s \in Sessions, NEW p \in Producers
    PROVE  [req EXCEPT ![r] = [to |-> s, from |-> p]] \in [Prompts -> ReqState]
  BY DEF TypeOK, ReqState

LEMMA FateType ==
    ASSUME TypeOK, NEW r \in Prompts, NEW f \in Fates
    PROVE  [log EXCEPT ![r].fate = f] \in [Prompts -> LogState]
  BY LogUpdates DEF TypeOK

LEMMA ClientTypes ==
    ASSUME TypeInv, NEW c \in Conns, ClientStep(c) PROVE TypeOK'
<1>0. /\ TypeOK /\ c \in Producers
      /\ {"queued", "opening", "cancelled"} \subseteq Fates
      /\ conn[c] \in ConnState /\ conn \in [Conns -> ConnState]
  BY DEF TypeInv, TypeOK, Producers, Fates
<1>1. CASE CancelAwaited(c)
  <2>1. conn' \in [Conns -> ConnState]
    BY <1>0, <1>1, ConnUpdates DEF CancelAwaited
  <2> QED
    BY <1>0, <1>1, <2>1 DEF CancelAwaited, TypeOK
<1>2. CASE Disconnect(c)
  <2>1. conn' \in [Conns -> ConnState]
    BY <1>0, <1>2, ConnUpdates DEF Disconnect
  <2> QED
    BY <1>0, <1>2, <2>1, StoppedType DEF Disconnect, TypeOK
<1>3. CASE Closed(c)
  <2>1. conn' \in [Conns -> ConnState]
    BY <1>0, <1>3, ConnUpdates DEF Closed
  <2> QED
    BY <1>0, <1>3, <2>1 DEF Closed, TypeOK
<1>4. ASSUME NEW s \in Sessions, Open(c, s) PROVE TypeOK'
  BY <1>0, <1>4, SubscribedType DEF Open, TypeOK
<1>5. ASSUME NEW s \in Sessions, ClearQueue(c, s) PROVE TypeOK'
  <2>1. log' \in [Prompts -> LogState]
    BY <1>0, <1>5, MarkType DEF ClearQueue
  <2>2. sess' \in [Sessions -> SessionState] /\ conn' \in [Conns -> ConnState]
    BY <1>0, <1>5, UnqueuedType, SubscribedType DEF ClearQueue
  <2> QED
    BY <1>0, <1>5, <2>1, <2>2 DEF ClearQueue, TypeOK
<1>6. ASSUME NEW n \in Sessions \cup {None}, CancelFrame(c, n) PROVE TypeOK'
  <2> DEFINE heard == IF n = None THEN conn ELSE Subscribed(c, n)
  <2>1. heard \in [Conns -> ConnState]
    BY <1>0, SubscribedType
  <2>2. /\ [heard EXCEPT ![c].at = "awaiting"] \in [Conns -> ConnState]
        /\ [heard EXCEPT ![c].own = None] \in [Conns -> ConnState]
    BY <2>1, ConnUpdates
  <2>3. conn' \in [Conns -> ConnState]
    BY <1>6, <2>1, <2>2 DEF CancelFrame
  <2>4. turn' \in [Prompts -> TurnState]
    BY <1>0, <1>6, StoppedType DEF CancelFrame
  <2> QED
    BY <1>0, <1>6, <2>3, <2>4 DEF CancelFrame, TypeOK
<1>7. ASSUME NEW r \in Prompts, NEW s \in Sessions, QueueTask(c, r, s)
      PROVE  TypeOK'
  <2>1. log' \in [Prompts -> LogState]
    BY <1>0, <1>7, FateType DEF QueueTask
  <2>2. req' \in [Prompts -> ReqState]
    BY <1>0, <1>7, ReqUpdates DEF QueueTask
  <2>3. sess' \in [Sessions -> SessionState] /\ conn' \in [Conns -> ConnState]
    BY <1>0, <1>7, QueuedType, SubscribedType DEF QueueTask
  <2> QED
    BY <1>0, <1>7, <2>1, <2>2, <2>3 DEF QueueTask, TypeOK
<1>8. ASSUME NEW r \in Prompts, NEW s \in Sessions, StartTask(c, r, s)
      PROVE  TypeOK'
  <2>1. log' \in [Prompts -> LogState]
    BY <1>0, <1>8, FateType DEF StartTask
  <2>2. req' \in [Prompts -> ReqState]
    BY <1>0, <1>8, ReqUpdates DEF StartTask
  <2>3. conn' \in [Conns -> ConnState]
    BY <1>0, <1>8, SubscribedType DEF StartTask
  <2>4. turn' \in [Prompts -> TurnState]
    BY <1>0, <1>8, StoppedType, NewTurnCreated DEF StartTask
  <2>5. sess' \in [Sessions -> SessionState]
    BY <1>0, <1>8, SessUpdates DEF StartTask, TypeOK
  <2> QED
    BY <1>0, <1>8, <2>1, <2>2, <2>3, <2>4, <2>5 DEF StartTask, TypeOK
<1> QED
  BY <1>1, <1>2, <1>3, <1>4, <1>5, <1>6, <1>7, <1>8 DEF ClientStep

LEMMA TickTypes == ASSUME TypeInv, TickStep PROVE TypeOK'
<1>0. TypeOK /\ Tick \in Producers /\ {"queued", "opening"} \subseteq Fates
  BY DEF TypeInv, Producers, Fates
<1>1. ASSUME NEW r \in Prompts, NEW s \in Sessions, TickQueues(r, s)
      PROVE  TypeOK'
  <2>1. log' \in [Prompts -> LogState]
    BY <1>0, <1>1, FateType DEF TickQueues
  <2>2. req' \in [Prompts -> ReqState]
    BY <1>0, <1>1, ReqUpdates DEF TickQueues
  <2> QED
    BY <1>0, <1>1, <2>1, <2>2, QueuedType DEF TickQueues, TypeOK
<1>2. ASSUME NEW r \in Prompts, NEW s \in Sessions, TickStarts(r, s)
      PROVE  TypeOK'
  <2>1. log' \in [Prompts -> LogState]
    BY <1>0, <1>2, FateType DEF TickStarts
  <2>2. req' \in [Prompts -> ReqState]
    BY <1>0, <1>2, ReqUpdates DEF TickStarts
  <2>3. turn' \in [Prompts -> TurnState]
    BY <1>0, <1>2, NewTurnCreated DEF TickStarts, TypeOK
  <2>4. sess' \in [Sessions -> SessionState]
    BY <1>0, <1>2, SessUpdates DEF TickStarts, TypeOK
  <2> QED
    BY <1>0, <1>2, <2>1, <2>2, <2>3, <2>4 DEF TickStarts, TypeOK
<1> QED
  BY <1>1, <1>2 DEF TickStep

\* A step of r leaves the other turns and every request as they are, and
\* keeps r's pace.
LEMMA TurnShape ==
    ASSUME TypeInv, NEW r \in Prompts, TurnStep(r)
    PROVE  /\ \A q \in Prompts \ {r} : turn'[q] = turn[q]
           /\ req' = req /\ conn' = conn
           /\ turn'[r].at \notin {"idle", "created"}
           /\ Paced(turn'[r])
<1> DEFINE Goal == /\ \A q \in Prompts \ {r} : turn'[q] = turn[q]
                   /\ req' = req /\ conn' = conn
                   /\ turn'[r].at \notin {"idle", "created"}
                   /\ Paced(turn'[r])
<1>0. /\ turn \in [Prompts -> TurnState] /\ turn[r] \in TurnState
      /\ Paced(turn[r])
  BY DEF TypeInv, TypeOK, RoundInv
<1>1. CASE Start(r)
  BY <1>0, <1>1 DEF Start, Paced, TurnState
<1>2. CASE EnterLoop(r)
  BY <1>0, <1>2 DEF EnterLoop, Paced, TurnState
<1>3. CASE InjectNext(r)
  BY <1>0, <1>3 DEF InjectNext, Runs, Paced, TurnState
<1>4. CASE InjectDone(r)
  BY <1>0, <1>4 DEF InjectDone, Paced, TurnState
<1>5. ASSUME Ask(r), turn[r].round <= MaxToolRounds PROVE Goal
  <2>1. PICK place \in {"compact", "stream"} :
            turn' = [turn EXCEPT ![r].at = place, ![r].next = "round"]
    BY <1>5 DEF Ask
  <2> QED
    BY <1>0, <1>5, <2>1 DEF Ask, Paced, TurnState
<1>6. ASSUME NEW p \in {"answered", "return", "release"}, SayDone(r, p) PROVE Goal
  BY <1>0, <1>6 DEF SayDone, Paced, TurnState
<1>7. ASSUME NEW n \in {"request", "round", "renew"}, Take(r, n),
             n = "request" => turn[r].round <= MaxToolRounds
      PROVE  Goal
  BY <1>0, <1>7 DEF Take, Paced, TurnState
<1>8. ASSUME NEW p \in {"stream", "round", "errdone", "tools", "fallback"},
             MoveTo(r, p),
             p \in {"stream", "tools"} => turn[r].round <= MaxToolRounds
      PROVE  Goal
  BY <1>0, <1>8 DEF MoveTo, Paced, TurnState
<1>9. CASE \/ BudgetSpent(r) \/ RoundCancelled(r) \/ StreamCut(r)
           \/ ErrorDone(r) \/ AnswerFinal(r) \/ FinallyCancelled(r)
           \/ FallbackDone(r) \/ HitInStream(r)
  BY <1>6, <1>9
     DEF BudgetSpent, RoundCancelled, StreamCut, ErrorDone, AnswerFinal,
         FinallyCancelled, FallbackDone, HitInStream
<1>10. CASE BudgetRenewed(r) \/ RoundSteered(r) \/ AnswerSteered(r)
  <2>1. RoundSteered(r) => turn[r].round <= MaxToolRounds
    BY <1>0, Constants DEF RoundSteered, OverBudget, TurnState
  <2> QED
    BY <1>7, <1>10, <2>1 DEF BudgetRenewed, RoundSteered, AnswerSteered
<1>11. CASE RoundPlain(r) \/ InjectedAsk(r)
  <2>1. turn[r].round <= MaxToolRounds
    BY <1>0, <1>11, Constants
       DEF RoundPlain, InjectedAsk, OverBudget, Runs, Paced, TurnState
  <2> QED
    BY <1>5, <1>11, <2>1 DEF RoundPlain, InjectedAsk
<1>12. CASE \/ Compacted(r) \/ Repaired(r) \/ StreamFailed(r) \/ ToolCalls(r)
            \/ FinallyFailed(r)
  <2>1. Compacted(r) \/ ToolCalls(r) => turn[r].round <= MaxToolRounds
    BY <1>0 DEF Compacted, ToolCalls, Runs, Paced
  <2> QED
    BY <1>8, <1>12, <2>1
       DEF Compacted, Repaired, StreamFailed, ToolCalls, FinallyFailed
<1>13. CASE StreamRepair(r)
  <2>1. turn[r].round <= MaxToolRounds
    BY <1>0, <1>13 DEF StreamRepair, Runs, Paced
  <2>2. PICK k \in turn[r].retries :
            turn' = [turn EXCEPT ![r].at = "repair", ![r].retries = @ \ {k}]
    BY <1>13 DEF StreamRepair
  <2> QED
    BY <1>0, <1>13, <2>1, <2>2 DEF StreamRepair, Paced, TurnState
<1>14. CASE ToolsDone(r)
  BY <1>0, <1>14 DEF ToolsDone, Paced, TurnState
<1>15. CASE Return(r)
  BY <1>0, <1>15 DEF Return, Leaving, NewTurn, Paced
<1>16. CASE Raise(r) \/ HitInLoop(r)
  <2>1. PICK f \in {"cancelled", "failed"} : Unwind(r, f)
    BY <1>16 DEF Raise, HitInLoop
  <2>2. /\ turn' = [turn EXCEPT ![r] = Leaving(r, FALSE, f)]
        /\ req' = req /\ conn' = conn
    BY <2>1 DEF Unwind
  <2>3. Leaving(r, FALSE, f).at = "finally"
    BY DEF Leaving, NewTurn
  <2> HIDE DEF Leaving
  <2> QED
    BY <1>0, <2>2, <2>3 DEF Paced
<1>17. CASE Release(r)
  BY <1>0, <1>17 DEF Release, Paced, TurnState
<1>18. ASSUME Finish(r), req' = req, conn' = conn PROVE Goal
  BY <1>0, <1>18 DEF Finish, NewTurn, Paced
<1>19. CASE HandBack(r)
  <2>1. CASE sess[req[r].to].pending = <<>>
    BY <1>18, <1>19, <2>1 DEF HandBack
  <2>2. CASE sess[req[r].to].pending # <<>>
    <3>1. turn' = [turn EXCEPT ![r].at = "exit"] /\ req' = req /\ conn' = conn
      BY <1>19, <2>2 DEF HandBack
    <3> QED
      BY <1>0, <3>1 DEF Paced, TurnState
  <2> QED
    BY <2>1, <2>2
<1>20. CASE Exit(r)
  BY <1>18, <1>20 DEF Exit
<1>21. CASE HitOutside(r)
  BY <1>0, <1>21 DEF HitOutside, NewTurn, Paced
<1> QED
  BY <1>1, <1>2, <1>3, <1>4, <1>9, <1>10, <1>11, <1>12, <1>13, <1>14, <1>15,
     <1>16, <1>17, <1>19, <1>20, <1>21 DEF TurnStep

\* A frame, or the tick, leaves a turn where it stands or starts a new one.
SameTurn(q) ==
    /\ turn'[q].at = turn[q].at
    /\ turn'[q].batch = turn[q].batch
    /\ turn'[q].next = turn[q].next
    /\ turn'[q].round = turn[q].round
    /\ turn'[q].normal = turn[q].normal
    /\ turn'[q].failure = turn[q].failure

Assigned(q) == req'[q].to \in Sessions /\ req'[q].from \in Producers

FrameStep == (\E c \in Conns : ClientStep(c)) \/ TickStep

LEMMA StoppedSame ==
    ASSUME TypeOK, NEW e, NEW t, NEW q \in Prompts
    PROVE  /\ Stopped(turn, e, t)[q].at = turn[q].at
           /\ Stopped(turn, e, t)[q].batch = turn[q].batch
           /\ Stopped(turn, e, t)[q].next = turn[q].next
           /\ Stopped(turn, e, t)[q].round = turn[q].round
           /\ Stopped(turn, e, t)[q].normal = turn[q].normal
           /\ Stopped(turn, e, t)[q].failure = turn[q].failure
<1>1. turn[q] \in TurnState
  BY DEF TypeOK
<1> QED
  BY <1>1 DEF Stopped, TurnState

LEMMA FrameShape ==
    ASSUME TypeInv, NEW q \in Prompts, FrameStep
    PROVE  /\ SameTurn(q) \/ (turn'[q] = NewTurn /\ Assigned(q))
           /\ req'[q] = req[q] \/ Assigned(q)
<1> DEFINE Goal == /\ SameTurn(q) \/ (turn'[q] = NewTurn /\ Assigned(q))
                   /\ req'[q] = req[q] \/ Assigned(q)
<1>0. /\ TypeOK
      /\ turn \in [Prompts -> TurnState] /\ req \in [Prompts -> ReqState]
  BY DEF TypeInv, TypeOK
<1>1. ASSUME turn' = turn, req' = req PROVE Goal
  BY <1>1 DEF SameTurn
<1>2. ASSUME NEW e, NEW t, turn' = Stopped(turn, e, t), req' = req PROVE Goal
  BY <1>0, <1>2, StoppedSame DEF SameTurn
<1>3. ASSUME NEW c \in Conns, ClientStep(c) PROVE Goal
  <2>1. CASE \/ CancelAwaited(c) \/ Closed(c)
             \/ \E s \in Sessions : Open(c, s) \/ ClearQueue(c, s)
    BY <1>1, <2>1 DEF CancelAwaited, Closed, Open, ClearQueue
  <2>2. CASE Disconnect(c)
    BY <1>2, <2>2 DEF Disconnect
  <2>3. CASE \E n \in Sessions \cup {None} : CancelFrame(c, n)
    BY <1>2, <2>3 DEF CancelFrame
  <2>4. ASSUME NEW r \in Prompts, NEW s \in Sessions, QueueTask(c, r, s)
        PROVE  Goal
    BY <1>0, <2>4 DEF QueueTask, SameTurn, Assigned, Producers
  <2>5. ASSUME NEW r \in Prompts, NEW s \in Sessions, StartTask(c, r, s)
        PROVE  Goal
    <3>1. req' = [req EXCEPT ![r] = [to |-> s, from |-> c]]
      BY <2>5 DEF StartTask
    <3>2. q = r => Assigned(q)
      BY <1>0, <3>1 DEF Assigned, Producers
    <3>3. q # r => req'[q] = req[q]
      BY <1>0, <3>1
    <3>4. PICK e : turn' = [Stopped(turn, e, e) EXCEPT ![r] = NewTurn]
      BY <2>5 DEF StartTask
    <3>5. q = r => turn'[q] = NewTurn
      BY <1>0, <3>4, StoppedType
    <3>6. q # r => SameTurn(q)
      <4>1. q # r => turn'[q] = Stopped(turn, e, e)[q]
        BY <1>0, <3>4, StoppedType
      <4> QED
        BY <1>0, <4>1, StoppedSame DEF SameTurn
    <3> QED
      BY <3>2, <3>3, <3>5, <3>6
  <2> QED
    BY <1>3, <2>1, <2>2, <2>3, <2>4, <2>5 DEF ClientStep
<1>4. ASSUME NEW r \in Prompts, NEW s \in Sessions, TickQueues(r, s) PROVE Goal
  BY <1>0, <1>4 DEF TickQueues, SameTurn, Assigned, Producers
<1>5. ASSUME NEW r \in Prompts, NEW s \in Sessions, TickStarts(r, s) PROVE Goal
  BY <1>0, <1>5 DEF TickStarts, SameTurn, Assigned, Producers
<1> QED
  BY <1>3, <1>4, <1>5 DEF FrameStep, TickStep

LEMMA TypeStep == TypeInv /\ [Next]_vars => TypeInv'
<1> SUFFICES ASSUME TypeInv, [Next]_vars PROVE TypeInv'
  OBVIOUS
<1>1. ASSUME NEW r \in Prompts, TurnStep(r) PROVE TypeInv'
  <2>1. ReqInv'
    BY <1>1, TurnShape, Acting DEF TypeInv, ReqInv
  <2>2. RoundInv'
    BY <1>1, TurnShape DEF TypeInv, RoundInv
  <2> QED
    BY <1>1, <2>1, <2>2, TurnTypes DEF TypeInv
<1>2. ASSUME FrameStep PROVE TypeInv'
  <2>1. TypeOK'
    BY <1>2, ClientTypes, TickTypes DEF FrameStep
  <2>2. ReqInv'
    BY <1>2, FrameShape DEF TypeInv, ReqInv, SameTurn, Assigned
  <2>3. RoundInv'
    <3>1. Paced(NewTurn)
      BY DEF Paced, NewTurn
    <3>2. ASSUME NEW q \in Prompts PROVE Paced(turn'[q])
      <4>1. SameTurn(q) \/ turn'[q] = NewTurn
        BY <1>2, FrameShape
      <4> QED
        BY <3>1, <4>1 DEF TypeInv, RoundInv, SameTurn, Paced
    <3> QED
      BY <3>2 DEF RoundInv
  <2> QED
    BY <2>1, <2>2, <2>3 DEF TypeInv
<1>3. CASE UNCHANGED vars
  BY <1>3 DEF vars, TypeInv, TypeOK, ReqInv, RoundInv
<1> QED
  BY <1>1, <1>2, <1>3 DEF Next, FrameStep

LEMMA TypeInvariant == Spec => []TypeInv
  BY TypeInit, TypeStep, PTL DEF Spec

\* The daemon's dictionaries and every turn's locals keep their types: in
\* particular a turn never counts a round past its budget by more than the
\* one that ends it.
THEOREM TypeCorrect == Spec => []TypeOK
<1>1. TypeInv => TypeOK
  BY DEF TypeInv
<1> QED
  BY <1>1, TypeInvariant, PTL

-----------------------------------------------------------------------------
(* Who occupies a session.                                                 *)

\* r holds s, or was cut off before it released it.
Occupies(r, s) == Holds(r, s) \/ Leaked(r, s)

\* A prompt nobody has sent has no turn.
UnsentInv == \A r \in Prompts : log[r].fate = "unsent" => turn[r].at = "idle"

\* An occupied session is busy and has one occupant.
OccupantInv ==
    \A r \in Prompts, s \in Sessions : Occupies(r, s) =>
        /\ sess[s].busy
        /\ \A q \in Prompts : Occupies(q, s) => q = r

OccInv == TypeInv /\ UnsentInv /\ OccupantInv /\ BusyMeansHeld
                  /\ RegistrationsFollowTurn

\* What a step may leave as it was.
SameHandles(s) ==
    /\ sess'[s].busy = sess[s].busy
    /\ sess'[s].event = sess[s].event
    /\ sess'[s].task = sess[s].task
    /\ sess'[s].started = sess[s].started

SameCut(q) == log'[q].cut = log[q].cut

NotUnsent(q) == log'[q].fate = "unsent" => log[q].fate = "unsent"

SameCuts == \A q \in Prompts : SameCut(q) /\ NotUnsent(q)

\* The four things a step of a turn can be for its session.
Works(r) ==
    /\ turn[r].at \in Holding /\ turn'[r].at \in Holding \ {"created"}
    /\ SameCuts
    /\ \A s \in Sessions :
         \/ SameHandles(s) /\ (turn[r].at # "created" \/ s # req[r].to)
         \/ /\ turn[r].at = "created" /\ s = req[r].to
            /\ sess'[s].busy = sess[s].busy /\ sess'[s].event = sess[s].event
            /\ sess'[s].task = sess[s].task /\ sess'[s].started = r

Releases(r) ==
    /\ turn[r].at \in Holding /\ turn'[r].at = "handback"
    /\ SameCuts
    /\ \A s \in Sessions \ {req[r].to} : SameHandles(s)
    /\ LET s == req[r].to
           mine == sess[s].event = r
       IN /\ ~sess'[s].busy
          /\ sess'[s].event = (IF mine THEN None ELSE sess[s].event)
          /\ sess'[s].task = (IF mine THEN None ELSE sess[s].task)
          /\ sess'[s].started = None

Leaves(r) ==
    /\ turn[r].at \in {"handback", "exit"}
    /\ turn'[r].at \in {"exit", "finished"}
    /\ SameCuts
    /\ \A s \in Sessions : SameHandles(s)

Dies(r) ==
    /\ turn[r].at \in {"created", "loop", "fallback", "release",
                       "handback", "exit"}
    /\ turn'[r].at = "dead"
    /\ log'[r].cut = turn[r].at /\ NotUnsent(r)
    /\ \A q \in Prompts \ {r} : SameCut(q) /\ NotUnsent(q)
    /\ \A s \in Sessions : SameHandles(s)

\* The updates of the history, but for the cut, and of a dictionary, but for
\* the handles, touch neither.
LEMMA HistoryKept ==
    ASSUME TypeOK, NEW r \in Prompts
    PROVE  /\ log' = log => SameCuts
           /\ log' = [log EXCEPT ![r].dones = @ + 1] => SameCuts
           /\ log' = Committed(r) => SameCuts
           /\ \A ps : \A f \in Fates \ {"unsent"} : log' = Mark(ps, f) => SameCuts
           /\ \A f \in {"cancelled", "failed"} :
                log' = Abandoned(r, f) => SameCuts
<1>0. log \in [Prompts -> LogState] /\ log[r] \in LogState
  BY DEF TypeOK
<1>1. log' = log => SameCuts
  BY DEF SameCuts, SameCut, NotUnsent
<1>2. log' = [log EXCEPT ![r].dones = @ + 1] => SameCuts
  BY <1>0 DEF SameCuts, SameCut, NotUnsent, LogState
<1>3. log' = Committed(r) => SameCuts
  BY <1>0 DEF SameCuts, SameCut, NotUnsent, Committed, LogState
<1>4. \A ps : \A f \in Fates \ {"unsent"} : log' = Mark(ps, f) => SameCuts
  BY <1>0 DEF SameCuts, SameCut, NotUnsent, Mark, LogState
<1>5. \A f \in {"cancelled", "failed"} : log' = Abandoned(r, f) => SameCuts
  BY <1>0 DEF SameCuts, SameCut, NotUnsent, Abandoned, LogState
<1> QED
  BY <1>1, <1>2, <1>3, <1>4, <1>5

LEMMA DictionaryKept ==
    ASSUME TypeOK, NEW t \in Sessions, NEW s \in Sessions
    PROVE  /\ sess' = sess => SameHandles(s)
           /\ sess' = [sess EXCEPT ![t].terminal = TRUE] => SameHandles(s)
           /\ sess' = Unqueued(t) => SameHandles(s)
           /\ sess' = [Unqueued(t) EXCEPT ![t].cwd = None] => SameHandles(s)
           /\ \A r \in Prompts : sess' = Queued(r, t) => SameHandles(s)
<1>0. sess \in [Sessions -> SessionState]
  BY DEF TypeOK
<1>1. sess' = sess => SameHandles(s)
  BY DEF SameHandles
<1>2. sess' = [sess EXCEPT ![t].terminal = TRUE] => SameHandles(s)
  BY <1>0 DEF SameHandles, SessionState
<1>3. sess' = Unqueued(t) => SameHandles(s)
  BY <1>0 DEF SameHandles, SessionState, Unqueued
<1>4. sess' = [Unqueued(t) EXCEPT ![t].cwd = None] => SameHandles(s)
  BY <1>0 DEF SameHandles, SessionState, Unqueued
<1>5. \A r \in Prompts : sess' = Queued(r, t) => SameHandles(s)
  BY <1>0 DEF SameHandles, SessionState, Queued
<1> QED
  BY <1>1, <1>2, <1>3, <1>4, <1>5

LEMMA TurnEffect ==
    ASSUME TypeInv, NEW r \in Prompts, TurnStep(r)
    PROVE  Works(r) \/ Releases(r) \/ Leaves(r) \/ Dies(r)
<1> DEFINE to == req[r].to
           Quiet == SameCuts /\ \A s \in Sessions : SameHandles(s)
<1>0. /\ TypeOK /\ to \in Sessions
      /\ turn \in [Prompts -> TurnState] /\ turn[r] \in TurnState
      /\ sess \in [Sessions -> SessionState]
      /\ log \in [Prompts -> LogState]
  BY Acting DEF TypeInv, TypeOK
<1>1. ASSUME Quiet, turn[r].at \in Holding \ {"created"},
             turn'[r].at \in Holding \ {"created"}
      PROVE  Works(r)
  BY <1>1 DEF Works
<1>2. CASE Start(r)
  <2>1. turn[r].at = "created" /\ turn'[r].at = "loop"
    BY <1>0, <1>2 DEF Start, Runs, TurnState
  <2>2. SameCuts
    BY <1>0, <1>2, HistoryKept DEF Start
  <2>3. \A s \in Sessions \ {to} : SameHandles(s)
    BY <1>0, <1>2 DEF Start, SameHandles
  <2>4. /\ sess'[to].busy = sess[to].busy /\ sess'[to].event = sess[to].event
        /\ sess'[to].task = sess[to].task /\ sess'[to].started = r
    BY <1>0, <1>2 DEF Start, SessionState
  <2> QED
    BY <2>1, <2>2, <2>3, <2>4 DEF Works, Holding
<1>3. CASE EnterLoop(r)
  <2>1. Quiet
    BY <1>0, <1>3, HistoryKept, DictionaryKept DEF EnterLoop
  <2>2. turn[r].at = "loop" /\ turn'[r].at = "round"
    BY <1>0, <1>3 DEF EnterLoop, Runs, TurnState
  <2> QED
    BY <1>1, <2>1, <2>2 DEF Holding, InTry
<1>4. CASE InjectNext(r)
  <2>1. /\ turn[r].batch \in Seq(Prompts) /\ turn[r].batch # <<>>
    BY <1>0, <1>4 DEF InjectNext, TurnState
  <2>2. Head(turn[r].batch) \in Prompts
    BY <2>1
  <2>3. Quiet
    BY <1>0, <1>4, <2>2, HistoryKept, DictionaryKept DEF InjectNext
  <2>4. turn[r].at = "inject" /\ turn'[r].at = "inject"
    BY <1>0, <1>4 DEF InjectNext, Runs, TurnState
  <2> QED
    BY <1>1, <2>3, <2>4 DEF Holding, InTry
<1>5. CASE InjectDone(r)
  <2>1. Quiet
    BY <1>0, <1>5, HistoryKept, DictionaryKept DEF InjectDone
  <2>2. turn[r].at = "inject" /\ turn'[r].at = "round"
    BY <1>0, <1>5 DEF InjectDone, Runs, TurnState
  <2> QED
    BY <1>1, <2>1, <2>2 DEF Holding, InTry
<1>6. ASSUME Ask(r), turn[r].at \in {"round", "inject"} PROVE Works(r)
  <2>1. Quiet
    BY <1>0, <1>6, HistoryKept, DictionaryKept DEF Ask
  <2>2. turn'[r].at \in {"compact", "stream"}
    BY <1>0, <1>6 DEF Ask, TurnState
  <2> QED
    BY <1>1, <1>6, <2>1, <2>2 DEF Holding, InTry
<1>7. ASSUME NEW p \in {"answered", "return", "release"}, SayDone(r, p),
             turn[r].at \in Holding \ {"created"}
      PROVE  Works(r)
  <2>1. Quiet
    BY <1>0, <1>7, HistoryKept, DictionaryKept DEF SayDone
  <2>2. turn'[r].at = p
    BY <1>0, <1>7 DEF SayDone, TurnState
  <2> QED
    BY <1>1, <1>7, <2>1, <2>2 DEF Holding, InTry
<1>8. ASSUME NEW n \in {"request", "round", "renew"}, Take(r, n),
             turn[r].at \in {"round", "stream"}
      PROVE  Works(r)
  <2>1. Quiet
    BY <1>0, <1>8, HistoryKept, DictionaryKept DEF Take, Fates
  <2>2. turn'[r].at = "inject"
    BY <1>0, <1>8 DEF Take, TurnState
  <2> QED
    BY <1>1, <1>8, <2>1, <2>2 DEF Holding, InTry
<1>9. ASSUME NEW p \in {"stream", "round", "errdone", "tools", "fallback"},
             MoveTo(r, p), turn[r].at \in Holding \ {"created"}
      PROVE  Works(r)
  <2>1. Quiet
    BY <1>0, <1>9, HistoryKept, DictionaryKept DEF MoveTo
  <2>2. turn'[r].at = p
    BY <1>0, <1>9 DEF MoveTo, TurnState
  <2> QED
    BY <1>1, <1>9, <2>1, <2>2 DEF Holding, InTry
<1>10. CASE \/ BudgetSpent(r) \/ RoundCancelled(r) \/ StreamCut(r)
            \/ ErrorDone(r) \/ AnswerFinal(r) \/ FinallyCancelled(r)
            \/ FallbackDone(r) \/ HitInStream(r)
  BY <1>7, <1>10
     DEF BudgetSpent, RoundCancelled, StreamCut, ErrorDone, AnswerFinal,
         FinallyCancelled, FallbackDone, HitInStream, Runs, Hit, Holding, InTry
<1>11. CASE BudgetRenewed(r) \/ RoundSteered(r) \/ AnswerSteered(r)
  BY <1>8, <1>11 DEF BudgetRenewed, RoundSteered, AnswerSteered, Runs
<1>12. CASE RoundPlain(r) \/ InjectedAsk(r)
  BY <1>6, <1>12 DEF RoundPlain, InjectedAsk, Runs
<1>13. CASE \/ Compacted(r) \/ Repaired(r) \/ StreamFailed(r) \/ ToolCalls(r)
            \/ FinallyFailed(r)
  BY <1>9, <1>13
     DEF Compacted, Repaired, StreamFailed, ToolCalls, FinallyFailed,
         Runs, Holding, InTry
<1>14. CASE StreamRepair(r)
  <2>1. Quiet
    BY <1>0, <1>14, HistoryKept, DictionaryKept DEF StreamRepair
  <2>2. turn[r].at \in {"stream", "repair"} /\ turn'[r].at = "repair"
    BY <1>0, <1>14 DEF StreamRepair, Runs, TurnState
  <2> QED
    BY <1>1, <2>1, <2>2 DEF Holding, InTry
<1>15. CASE ToolsDone(r)
  <2>1. Quiet
    BY <1>0, <1>15, HistoryKept, DictionaryKept DEF ToolsDone
  <2>2. turn[r].at = "tools" /\ turn'[r].at = "round"
    BY <1>0, <1>15 DEF ToolsDone, Runs, TurnState
  <2> QED
    BY <1>1, <2>1, <2>2 DEF Holding, InTry
<1>16. CASE Return(r)
  <2>1. Quiet
    BY <1>0, <1>16, HistoryKept, DictionaryKept DEF Return
  <2>2. turn[r].at \in {"answered", "return"} /\ turn'[r].at = "finally"
    BY <1>0, <1>16 DEF Return, Runs, Leaving, NewTurn
  <2> QED
    BY <1>1, <2>1, <2>2 DEF Holding, InTry
<1>17. CASE Raise(r) \/ HitInLoop(r)
  <2>1. PICK f \in {"cancelled", "failed"} : Unwind(r, f)
    BY <1>17 DEF Raise, HitInLoop
  <2>2. Quiet
    BY <1>0, <2>1, HistoryKept, DictionaryKept DEF Unwind
  <2>3. turn[r].at \in InTry \cup {"loop"}
    BY <1>17 DEF Raise, HitInLoop, Runs, Hit, InTry
  <2>4. turn'[r].at = "finally"
    BY <1>0, <2>1 DEF Unwind, Leaving, NewTurn
  <2> QED
    BY <1>1, <2>2, <2>3, <2>4 DEF Holding, InTry
<1>18. CASE Release(r)
  <2>1. turn[r].at \in Holding /\ turn'[r].at = "handback"
    BY <1>0, <1>18 DEF Release, Runs, Holding, TurnState
  <2>2. SameCuts
    BY <1>0, <1>18, HistoryKept DEF Release
  <2>3. \A s \in Sessions \ {to} : SameHandles(s)
    BY <1>0, <1>18 DEF Release, Released, SameHandles
  <2>4. /\ ~sess'[to].busy
        /\ sess'[to].event = (IF sess[to].event = r THEN None ELSE sess[to].event)
        /\ sess'[to].task = (IF sess[to].event = r THEN None ELSE sess[to].task)
        /\ sess'[to].started = None
    <3> DEFINE e == IF sess[to].event = r THEN None ELSE sess[to].event
               t == IF sess[to].event = r THEN None ELSE sess[to].task
    <3>1. sess' = [sess EXCEPT ![to].busy = FALSE, ![to].started = None,
                               ![to].terminal = FALSE,
                               ![to].event = e, ![to].task = t]
      BY <1>0, <1>18 DEF Release, Released
    <3> HIDE DEF e, t
    <3>2. /\ ~sess'[to].busy /\ sess'[to].started = None
          /\ sess'[to].event = e /\ sess'[to].task = t
      <4>1. sess'[to] = [sess[to] EXCEPT !.busy = FALSE, !.started = None,
                                         !.terminal = FALSE,
                                         !.event = e, !.task = t]
        BY <1>0, <3>1
      <4>2. sess[to] \in SessionState
        BY <1>0
      <4> QED
        BY <4>1, <4>2 DEF SessionState
    <3> QED
      BY <3>2 DEF e, t
  <2> QED
    BY <2>1, <2>2, <2>3, <2>4 DEF Releases
<1>19. CASE HandBack(r)
  <2>1. SameCuts /\ \A s \in Sessions : SameHandles(s)
    BY <1>0, <1>19, HistoryKept, DictionaryKept DEF HandBack, Fates
  <2>2. turn[r].at = "handback"
    BY <1>19 DEF HandBack, Runs
  <2>3. turn'[r].at \in {"exit", "finished"}
    <3>1. \/ turn' = [turn EXCEPT ![r].at = "exit"]
          \/ turn' = [turn EXCEPT ![r] = [NewTurn EXCEPT !.at = "finished"]]
      BY <1>19 DEF HandBack, Finish
    <3> QED
      BY <1>0, <3>1 DEF NewTurn, TurnState
  <2> QED
    BY <2>1, <2>2, <2>3 DEF Leaves
<1>20. CASE Exit(r)
  <2>1. Quiet
    BY <1>0, <1>20, HistoryKept, DictionaryKept DEF Exit
  <2>2. turn[r].at = "exit" /\ turn'[r].at = "finished"
    BY <1>0, <1>20 DEF Exit, Runs, Finish, NewTurn
  <2> QED
    BY <2>1, <2>2 DEF Leaves
<1>21. CASE HitOutside(r)
  <2>1. /\ turn[r].at \in {"created", "loop", "fallback", "release",
                           "handback", "exit"}
        /\ turn'[r].at = "dead"
    BY <1>0, <1>21 DEF HitOutside, Hit, NewTurn
  <2>2. log'[r].cut = turn[r].at /\ NotUnsent(r)
    BY <1>0, <1>21 DEF HitOutside, NotUnsent, LogState
  <2>3. \A q \in Prompts \ {r} : SameCut(q) /\ NotUnsent(q)
    BY <1>0, <1>21 DEF HitOutside, SameCut, NotUnsent
  <2>4. \A s \in Sessions : SameHandles(s)
    BY <1>0, <1>21, DictionaryKept DEF HitOutside
  <2> QED
    BY <2>1, <2>2, <2>3, <2>4 DEF Dies
<1> QED
  BY <1>2, <1>3, <1>4, <1>5, <1>10, <1>11, <1>12, <1>13, <1>14, <1>15,
     <1>16, <1>17, <1>18, <1>19, <1>20, <1>21 DEF TurnStep

\* What a frame, or the tick, can be for the turns: it leaves each where it
\* stands, or begins one in a session that is free.
Passes ==
    /\ \A q \in Prompts :
         /\ turn'[q].at = turn[q].at
         /\ turn[q].at # "idle" => req'[q] = req[q]
    /\ SameCuts
    /\ \A s \in Sessions : SameHandles(s)

Begins(r, s, p) ==
    /\ ~sess[s].busy
    /\ turn[r].at # "idle" => req[r].to = s
    /\ turn'[r].at = "created" /\ req'[r] = [to |-> s, from |-> p]
    /\ \A q \in Prompts \ {r} :
         turn'[q].at = turn[q].at /\ req'[q] = req[q]
    /\ SameCuts /\ log'[r].fate # "unsent"
    /\ \A t \in Sessions \ {s} : SameHandles(t)
    /\ sess'[s].busy /\ sess'[s].event = r /\ sess'[s].started = sess[s].started
    /\ sess'[s].task = (IF p = Tick THEN sess[s].task ELSE r)

LEMMA FrameEffect ==
    ASSUME TypeInv, UnsentInv, FrameStep
    PROVE  \/ Passes
           \/ \E r \in Prompts, s \in Sessions, p \in Producers : Begins(r, s, p)
<1> DEFINE Goal ==
        \/ Passes
        \/ \E r \in Prompts, s \in Sessions, p \in Producers : Begins(r, s, p)
<1>0. /\ TypeOK
      /\ turn \in [Prompts -> TurnState] /\ req \in [Prompts -> ReqState]
      /\ sess \in [Sessions -> SessionState] /\ log \in [Prompts -> LogState]
      /\ {"queued", "opening", "cancelled"} \subseteq Fates \ {"unsent"}
  BY DEF TypeInv, TypeOK, Fates
<1>1. ASSUME turn' = turn \/ (\E e, t : turn' = Stopped(turn, e, t)),
             req' = req, log' = log, sess' = sess
      PROVE  Passes
  <2>1. \A q \in Prompts : turn'[q].at = turn[q].at
    BY <1>0, <1>1, StoppedSame
  <2>2. SameCuts /\ \A s \in Sessions : SameHandles(s)
    BY <1>1 DEF SameCuts, SameCut, NotUnsent, SameHandles
  <2> QED
    BY <1>1, <2>1, <2>2 DEF Passes
<1>2. ASSUME NEW r \in Prompts, NEW f \in Fates \ {"unsent"},
             log' = [log EXCEPT ![r].fate = f]
      PROVE  SameCuts /\ log'[r].fate # "unsent"
  BY <1>0, <1>2 DEF SameCuts, SameCut, NotUnsent, LogState
<1>3. ASSUME NEW r \in Prompts, NEW s \in Sessions, NEW p \in Producers,
             turn' = turn, sess' = Queued(r, s),
             log' = [log EXCEPT ![r].fate = "queued"],
             req' = [req EXCEPT ![r] = [to |-> s, from |-> p]],
             log[r].fate = "unsent" \/ req[r] = [to |-> s, from |-> p]
      PROVE  Passes
  <2>1. SameCuts
    BY <1>0, <1>2, <1>3
  <2>2. \A q \in Prompts : turn[q].at # "idle" => req'[q] = req[q]
    BY <1>0, <1>3 DEF UnsentInv
  <2>3. \A t \in Sessions : SameHandles(t)
    BY <1>0, <1>3, DictionaryKept
  <2> QED
    BY <1>3, <2>1, <2>2, <2>3 DEF Passes
<1>4. ASSUME NEW r \in Prompts, NEW s \in Sessions, NEW p \in Producers,
             ~Occupied(s),
             turn'[r].at = "created",
             \A q \in Prompts \ {r} : turn'[q].at = turn[q].at,
             log' = [log EXCEPT ![r].fate = "opening"],
             req' = [req EXCEPT ![r] = [to |-> s, from |-> p]],
             log[r].fate = "unsent" \/ req[r] = [to |-> s, from |-> p],
             IF p = Tick
             THEN sess' = [sess EXCEPT ![s].busy = TRUE, ![s].event = r]
             ELSE sess' = [sess EXCEPT ![s].busy = TRUE, ![s].event = r,
                                       ![s].task = r]
      PROVE  Begins(r, s, p)
  <2>1. SameCuts /\ log'[r].fate # "unsent"
    BY <1>0, <1>2, <1>4
  <2>2. turn[r].at # "idle" => req[r].to = s
    BY <1>4 DEF UnsentInv
  <2>3. /\ req'[r] = [to |-> s, from |-> p]
        /\ \A q \in Prompts \ {r} : req'[q] = req[q]
    BY <1>0, <1>4
  <2>4. \A t \in Sessions \ {s} : SameHandles(t)
    BY <1>0, <1>4 DEF SameHandles
  <2>5. /\ sess'[s].busy /\ sess'[s].event = r
        /\ sess'[s].started = sess[s].started
        /\ sess'[s].task = (IF p = Tick THEN sess[s].task ELSE r)
    BY <1>0, <1>4 DEF SessionState
  <2> QED
    BY <1>4, <2>1, <2>2, <2>3, <2>4, <2>5 DEF Begins, Occupied
<1>5. ASSUME NEW c \in Conns, ClientStep(c) PROVE Goal
  <2>0. c \in Producers /\ c # Tick
    BY ProducerAssumption DEF Producers
  <2>1. CASE \/ CancelAwaited(c) \/ Closed(c) \/ Disconnect(c)
             \/ \E s \in Sessions : Open(c, s)
             \/ \E n \in Sessions \cup {None} : CancelFrame(c, n)
    BY <1>1, <2>1 DEF CancelAwaited, Closed, Disconnect, Open, CancelFrame
  <2>2. ASSUME NEW s \in Sessions, ClearQueue(c, s) PROVE Passes
    <3>1. log' = Mark(sess[s].pending, "cancelled")
      BY <2>2 DEF ClearQueue
    <3>2. SameCuts
      BY <1>0, <3>1 DEF SameCuts, SameCut, NotUnsent, Mark, LogState
    <3>3. \A t \in Sessions : SameHandles(t)
      BY <1>0, <2>2, DictionaryKept DEF ClearQueue
    <3> QED
      BY <2>2, <3>2, <3>3 DEF ClearQueue, Passes
  <2>3. ASSUME NEW r \in Prompts, NEW s \in Sessions, QueueTask(c, r, s)
        PROVE  Goal
    BY <1>3, <2>0, <2>3 DEF QueueTask, Sendable
  <2>4. ASSUME NEW r \in Prompts, NEW s \in Sessions, StartTask(c, r, s)
        PROVE  Begins(r, s, c)
    <3>1. PICK e : turn' = [Stopped(turn, e, e) EXCEPT ![r] = NewTurn]
      BY <2>4 DEF StartTask
    <3>2. turn'[r].at = "created"
      BY <1>0, <3>1, StoppedType DEF NewTurn
    <3>3. \A q \in Prompts \ {r} : turn'[q].at = turn[q].at
      <4>1. \A q \in Prompts \ {r} : turn'[q] = Stopped(turn, e, e)[q]
        BY <1>0, <3>1, StoppedType
      <4> QED
        BY <1>0, <4>1, StoppedSame
    <3> QED
      BY <1>4, <2>0, <2>4, <3>2, <3>3 DEF StartTask, Sendable
  <2> QED
    BY <1>5, <2>0, <2>1, <2>2, <2>3, <2>4 DEF ClientStep
<1>6. ASSUME NEW r \in Prompts, NEW s \in Sessions, TickQueues(r, s)
      PROVE  Goal
  BY <1>3, <1>6 DEF TickQueues, TickReady, Producers
<1>7. ASSUME NEW r \in Prompts, NEW s \in Sessions, TickStarts(r, s)
      PROVE  Begins(r, s, Tick)
  <2>1. /\ turn'[r].at = "created"
        /\ \A q \in Prompts \ {r} : turn'[q].at = turn[q].at
    BY <1>0, <1>7 DEF TickStarts, NewTurn
  <2> QED
    BY <1>4, <1>7, <2>1 DEF TickStarts, TickReady, Producers
<1> QED
  BY <1>5, <1>6, <1>7 DEF FrameStep, TickStep, Producers

LEMMA OccInit == Init => OccInv
<1> SUFFICES ASSUME Init PROVE OccInv
  OBVIOUS
<1>1. \A r \in Prompts : turn[r].at = "idle"
  BY DEF Init, NewTurn
<1>2. \A r \in Prompts, s \in Sessions : ~Holds(r, s) /\ ~Leaked(r, s)
  BY <1>1 DEF Holds, Leaked, Holding, InTry
<1>3. \A s \in Sessions : /\ sess[s].busy = FALSE /\ sess[s].event = None
                          /\ sess[s].task = None /\ sess[s].started = None
  BY DEF Init
<1> QED
  BY <1>1, <1>2, <1>3, TypeInit
     DEF OccInv, UnsentInv, OccupantInv, Occupies, BusyMeansHeld,
         RegistrationsFollowTurn

\* Work, and leaving, changes nobody's occupation.
LEMMA Unmoved ==
    ASSUME OccInv,
           \A q \in Prompts, s \in Sessions : Occupies(q, s)' <=> Occupies(q, s),
           \A s \in Sessions : sess'[s].busy = sess[s].busy
    PROVE  OccupantInv' /\ BusyMeansHeld'
<1>1. OccupantInv'
  BY DEF OccInv, OccupantInv
<1>2. BusyMeansHeld'
  BY DEF OccInv, BusyMeansHeld, Occupies
<1> QED
  BY <1>1, <1>2

LEMMA OccTurnStep ==
    ASSUME OccInv, TypeInv', NEW r \in Prompts, TurnStep(r) PROVE OccInv'
<1>a. PICK to \in Sessions : to = req[r].to
  BY Acting DEF OccInv
<1>0. /\ TypeInv /\ to = req[r].to /\ turn[r].at # "idle"
      /\ \A q \in Prompts \ {r} : turn'[q] = turn[q]
      /\ req' = req
      /\ turn'[r].at \notin {"idle", "created"}
  BY <1>a, Acting, TurnShape DEF OccInv
<1>1. ASSUME NEW q \in Prompts, log'[q].fate = "unsent" => log[q].fate = "unsent"
      PROVE  log'[q].fate = "unsent" => turn'[q].at = "idle"
  BY <1>0, <1>1 DEF OccInv, UnsentInv
<1>2. CASE Works(r)
  <2>1. UnsentInv'
    BY <1>1, <1>2 DEF Works, SameCuts, NotUnsent, UnsentInv
  <2>2. \A q \in Prompts, s \in Sessions :
           /\ Holds(q, s)' <=> Holds(q, s)
           /\ Leaked(q, s)' <=> Leaked(q, s)
    BY <1>0, <1>2 DEF Works, Holds, Leaked, SameCuts, SameCut, Holding, InTry
  <2>3. \A s \in Sessions : /\ sess'[s].busy = sess[s].busy
                            /\ sess'[s].event = sess[s].event
                            /\ sess'[s].task = sess[s].task
    BY <1>2 DEF Works, SameHandles
  <2>4. OccupantInv' /\ BusyMeansHeld'
    BY <2>2, <2>3, Unmoved DEF Occupies
  <2>5. ASSUME NEW q \in Prompts, NEW s \in Sessions, Holds(q, s)'
        PROVE  /\ sess'[s].event = q
               /\ sess'[s].task = (IF req'[q].from = Tick THEN None ELSE q)
               /\ turn'[q].at # "created" => sess'[s].started = q
    <3>1. /\ sess[s].event = q
          /\ sess[s].task = (IF req[q].from = Tick THEN None ELSE q)
          /\ turn[q].at # "created" => sess[s].started = q
      BY <2>2, <2>5 DEF OccInv, RegistrationsFollowTurn
    <3>2. turn'[q].at # "created" => sess'[s].started = q
      <4>1. CASE turn[r].at = "created" /\ s = to
        <5>1. Holds(r, s) /\ Holds(q, s)
          BY <1>0, <1>2, <2>2, <2>5, <4>1 DEF Holds, Works
        <5>2. q = r
          BY <5>1 DEF OccInv, OccupantInv, Occupies
        <5> QED
          BY <1>0, <1>2, <4>1, <5>2 DEF Works, SameHandles
      <4>2. CASE ~(turn[r].at = "created" /\ s = to)
        <5>1. sess'[s].started = sess[s].started
          BY <1>0, <1>2, <4>2 DEF Works, SameHandles
        <5>2. turn'[q].at # "created" /\ q # r => turn[q].at # "created"
          BY <1>0
        <5>3. q = r => turn[q].at # "created"
          BY <1>0, <2>2, <2>5, <4>2 DEF Holds
        <5> QED
          BY <3>1, <5>1, <5>2, <5>3
      <4> QED
        BY <4>1, <4>2
    <3> QED
      BY <1>0, <2>3, <3>1, <3>2
  <2>6. ASSUME NEW s \in Sessions,
               NEW q \in {sess'[s].event, sess'[s].task, sess'[s].started} \ {None}
        PROVE  Holds(q, s)' \/ Leaked(q, s)'
    <3>1. q \in {sess[s].event, sess[s].task, sess[s].started} \ {None}
          \/ (q = r /\ s = to)
      BY <1>0, <1>2, <2>3, <2>6 DEF Works, SameHandles
    <3>2. CASE q = r /\ s = to
      BY <1>0, <1>2, <3>2 DEF Works, Holds
    <3>3. CASE q \in {sess[s].event, sess[s].task, sess[s].started} \ {None}
      <4>1. q \in Prompts
        BY <3>3 DEF OccInv, TypeInv, TypeOK, SessionState
      <4>2. Holds(q, s) \/ Leaked(q, s)
        BY <3>3 DEF OccInv, RegistrationsFollowTurn
      <4> QED
        BY <2>2, <4>1, <4>2
    <3> QED
      BY <3>1, <3>2, <3>3
  <2>7. RegistrationsFollowTurn'
    BY <2>5, <2>6 DEF RegistrationsFollowTurn
  <2> QED
    BY <2>1, <2>4, <2>7 DEF OccInv
<1>3. CASE Releases(r)
  <2>1. UnsentInv'
    BY <1>1, <1>3 DEF Releases, SameCuts, NotUnsent, UnsentInv
  <2>2. Holds(r, to)
    BY <1>0, <1>3 DEF Releases, Holds
  <2>3. \A q \in Prompts : Occupies(q, to) => q = r
    BY <1>0, <2>2 DEF OccInv, OccupantInv, Occupies
  <2>4. \A s \in Sessions : ~Holds(r, s)' /\ ~Leaked(r, s)'
    BY <1>3 DEF Releases, Holds, Leaked, Holding, InTry
  <2>5. \A q \in Prompts \ {r}, s \in Sessions :
           /\ Holds(q, s)' <=> Holds(q, s)
           /\ Leaked(q, s)' <=> Leaked(q, s)
    BY <1>0, <1>3 DEF Releases, Holds, Leaked, SameCuts, SameCut
  <2>6. \A q \in Prompts : ~Holds(q, to)' /\ ~Leaked(q, to)'
    BY <1>0, <2>3, <2>4, <2>5 DEF Occupies
  <2>7. \A q \in Prompts, s \in Sessions \ {to} :
           /\ Holds(q, s)' <=> Holds(q, s)
           /\ Leaked(q, s)' <=> Leaked(q, s)
    BY <1>0, <2>4, <2>5 DEF Holds, Leaked
  <2>8. OccupantInv'
    <3>1. ASSUME NEW q \in Prompts, NEW s \in Sessions, Occupies(q, s)'
          PROVE  sess'[s].busy /\ \A x \in Prompts : Occupies(x, s)' => x = q
      <4>1. s # to
        BY <2>6, <3>1 DEF Occupies
      <4>2. sess'[s].busy = sess[s].busy
        BY <1>0, <1>3, <4>1 DEF Releases, SameHandles
      <4> QED
        BY <2>7, <3>1, <4>1, <4>2 DEF OccInv, OccupantInv, Occupies
    <3> QED
      BY <3>1 DEF OccupantInv
  <2>9. BusyMeansHeld'
    <3>1. ASSUME NEW s \in Sessions
          PROVE  sess'[s].busy <=> \E q \in Prompts : Holds(q, s)' \/ Leaked(q, s)'
      <4>1. CASE s = to
        BY <1>0, <1>3, <2>6, <4>1 DEF Releases
      <4>2. CASE s # to
        BY <1>0, <1>3, <2>7, <4>2
           DEF Releases, SameHandles, OccInv, BusyMeansHeld
      <4> QED
        BY <4>1, <4>2
    <3> QED
      BY <3>1 DEF BusyMeansHeld
  <2>10. RegistrationsFollowTurn'
    <3>1. sess[to].event = r
      BY <1>0, <2>2 DEF OccInv, RegistrationsFollowTurn
    <3>2. sess'[to].event = None /\ sess'[to].task = None /\ sess'[to].started = None
      BY <1>0, <1>3, <3>1 DEF Releases
    <3>3. ASSUME NEW s \in Sessions, NEW q \in Prompts, Holds(q, s)'
          PROVE  /\ sess'[s].event = q
                 /\ sess'[s].task = (IF req'[q].from = Tick THEN None ELSE q)
                 /\ turn'[q].at # "created" => sess'[s].started = q
      <4>1. s # to /\ q # r
        BY <2>4, <2>6, <3>3
      <4>2. Holds(q, s) /\ SameHandles(s)
        BY <1>0, <1>3, <2>7, <3>3, <4>1 DEF Releases
      <4> QED
        BY <1>0, <4>1, <4>2 DEF OccInv, RegistrationsFollowTurn, SameHandles
    <3>4. ASSUME NEW s \in Sessions,
                 NEW q \in {sess'[s].event, sess'[s].task, sess'[s].started}
                           \ {None}
          PROVE  Holds(q, s)' \/ Leaked(q, s)'
      <4>1. s # to
        BY <3>2, <3>4
      <4>2. q \in {sess[s].event, sess[s].task, sess[s].started} \ {None}
        BY <1>0, <1>3, <3>4, <4>1 DEF Releases, SameHandles
      <4>3. q \in Prompts
        BY <4>2 DEF OccInv, TypeInv, TypeOK, SessionState
      <4>4. Holds(q, s) \/ Leaked(q, s)
        BY <4>2 DEF OccInv, RegistrationsFollowTurn
      <4> QED
        BY <2>7, <4>1, <4>3, <4>4
    <3> QED
      BY <3>3, <3>4 DEF RegistrationsFollowTurn
  <2> QED
    BY <2>1, <2>8, <2>9, <2>10 DEF OccInv
<1>4. CASE Leaves(r) \/ Dies(r)
  <2>1. UnsentInv'
    BY <1>1, <1>4 DEF Leaves, Dies, SameCuts, NotUnsent, UnsentInv
  <2>2. \A q \in Prompts \ {r}, s \in Sessions :
           /\ Holds(q, s)' <=> Holds(q, s)
           /\ Leaked(q, s)' <=> Leaked(q, s)
    BY <1>0, <1>4 DEF Leaves, Dies, SameCuts, SameCut, Holds, Leaked
  <2>3. \A s \in Sessions : Occupies(r, s)' <=> Occupies(r, s)
    BY <1>0, <1>4 DEF Leaves, Dies, Occupies, Holds, Leaked, Holding, InTry
  <2>4. \A s \in Sessions : ~Holds(r, s)'
    BY <1>4 DEF Leaves, Dies, Holds, Holding, InTry
  <2>5. \A s \in Sessions : SameHandles(s)
    BY <1>4 DEF Leaves, Dies
  <2>6. OccupantInv' /\ BusyMeansHeld'
    BY <2>2, <2>3, <2>5, Unmoved DEF Occupies, SameHandles
  <2>7. RegistrationsFollowTurn'
    <3>1. ASSUME NEW s \in Sessions, NEW q \in Prompts, Holds(q, s)'
          PROVE  /\ sess'[s].event = q
                 /\ sess'[s].task = (IF req'[q].from = Tick THEN None ELSE q)
                 /\ turn'[q].at # "created" => sess'[s].started = q
      <4>1. q # r
        BY <2>4, <3>1
      <4> QED
        BY <1>0, <2>2, <2>5, <3>1, <4>1
           DEF OccInv, RegistrationsFollowTurn, SameHandles
    <3>2. ASSUME NEW s \in Sessions,
                 NEW q \in {sess'[s].event, sess'[s].task, sess'[s].started}
                           \ {None}
          PROVE  Holds(q, s)' \/ Leaked(q, s)'
      <4>1. q \in {sess[s].event, sess[s].task, sess[s].started} \ {None}
        BY <2>5, <3>2 DEF SameHandles
      <4>2. q \in Prompts
        BY <4>1 DEF OccInv, TypeInv, TypeOK, SessionState
      <4>3. Occupies(q, s)
        BY <4>1 DEF OccInv, RegistrationsFollowTurn, Occupies
      <4>4. Occupies(q, s)'
        BY <2>2, <2>3, <4>2, <4>3 DEF Occupies
      <4> QED
        BY <4>4 DEF Occupies
    <3> QED
      BY <3>1, <3>2 DEF RegistrationsFollowTurn
  <2> QED
    BY <2>1, <2>6, <2>7 DEF OccInv
<1> QED
  BY <1>0, <1>2, <1>3, <1>4, TurnEffect

LEMMA OccFrameStep == ASSUME OccInv, TypeInv', FrameStep PROVE OccInv'
<1>0. TypeInv /\ UnsentInv
  BY DEF OccInv
<1>1. CASE Passes
  <2>1. UnsentInv'
    BY <1>0, <1>1 DEF Passes, SameCuts, NotUnsent, UnsentInv
  <2>2. \A q \in Prompts, s \in Sessions :
           /\ Holds(q, s)' <=> Holds(q, s)
           /\ Leaked(q, s)' <=> Leaked(q, s)
    BY <1>1 DEF Passes, SameCuts, SameCut, Holds, Leaked, Holding, InTry
  <2>3. OccupantInv' /\ BusyMeansHeld'
    BY <1>1, <2>2, Unmoved DEF Passes, SameHandles, Occupies
  <2>4. ASSUME NEW s \in Sessions, NEW q \in Prompts, Holds(q, s)'
        PROVE  /\ sess'[s].event = q
               /\ sess'[s].task = (IF req'[q].from = Tick THEN None ELSE q)
               /\ turn'[q].at # "created" => sess'[s].started = q
    <3>1. Holds(q, s) /\ turn[q].at # "idle"
      BY <2>2, <2>4 DEF Holds, Holding, InTry
    <3> QED
      BY <1>1, <3>1 DEF Passes, OccInv, RegistrationsFollowTurn, SameHandles
  <2>5. ASSUME NEW s \in Sessions,
               NEW q \in {sess'[s].event, sess'[s].task, sess'[s].started} \ {None}
        PROVE  Holds(q, s)' \/ Leaked(q, s)'
    <3>1. q \in {sess[s].event, sess[s].task, sess[s].started} \ {None}
      BY <1>1, <2>5 DEF Passes, SameHandles
    <3>2. q \in Prompts
      BY <3>1 DEF OccInv, TypeInv, TypeOK, SessionState
    <3> QED
      BY <2>2, <3>1, <3>2 DEF OccInv, RegistrationsFollowTurn
  <2> QED
    BY <2>1, <2>3, <2>4, <2>5 DEF OccInv, RegistrationsFollowTurn
<1>2. ASSUME NEW r \in Prompts, NEW s \in Sessions, NEW p \in Producers,
             Begins(r, s, p)
      PROVE  OccInv'
  <2>1. UnsentInv'
    BY <1>0, <1>2 DEF Begins, SameCuts, NotUnsent, UnsentInv
  <2>2. \A q \in Prompts : ~Occupies(q, s)
    BY <1>2 DEF Begins, OccInv, OccupantInv
  <2>3. \A t \in Sessions : ~Occupies(r, t)
    <3>1. turn[r].at = "idle" => \A t \in Sessions : ~Occupies(r, t)
      BY DEF Occupies, Holds, Leaked, Holding, InTry
    <3>2. turn[r].at # "idle" => \A t \in Sessions : Occupies(r, t) => t = s
      BY <1>2 DEF Begins, Occupies, Holds, Leaked
    <3> QED
      BY <2>2, <3>1, <3>2
  <2>4. /\ Holds(r, s)'
        /\ \A t \in Sessions \ {s} : ~Holds(r, t)' /\ ~Leaked(r, t)'
        /\ ~Leaked(r, s)'
    BY <1>2 DEF Begins, Holds, Leaked, Holding
  <2>5. \A q \in Prompts \ {r}, t \in Sessions :
           /\ Holds(q, t)' <=> Holds(q, t)
           /\ Leaked(q, t)' <=> Leaked(q, t)
    BY <1>2 DEF Begins, Holds, Leaked, SameCuts, SameCut
  <2>6. \A q \in Prompts : Occupies(q, s)' <=> q = r
    BY <2>2, <2>4, <2>5 DEF Occupies
  <2>7. \A q \in Prompts, t \in Sessions \ {s} :
           /\ Holds(q, t)' <=> Holds(q, t)
           /\ Leaked(q, t)' <=> Leaked(q, t)
    BY <2>3, <2>4, <2>5 DEF Occupies
  <2>8. OccupantInv'
    <3>1. ASSUME NEW q \in Prompts, NEW t \in Sessions, Occupies(q, t)'
          PROVE  sess'[t].busy /\ \A x \in Prompts : Occupies(x, t)' => x = q
      <4>1. CASE t = s
        BY <1>2, <2>6, <3>1, <4>1 DEF Begins
      <4>2. CASE t # s
        BY <1>2, <2>7, <3>1, <4>2
           DEF Begins, SameHandles, OccInv, OccupantInv, Occupies
      <4> QED
        BY <4>1, <4>2
    <3> QED
      BY <3>1 DEF OccupantInv
  <2>9. BusyMeansHeld'
    <3>1. ASSUME NEW t \in Sessions
          PROVE  sess'[t].busy <=> \E q \in Prompts : Holds(q, t)' \/ Leaked(q, t)'
      <4>1. CASE t = s
        BY <1>2, <2>4, <4>1 DEF Begins
      <4>2. CASE t # s
        BY <1>2, <2>7, <4>2 DEF Begins, SameHandles, OccInv, BusyMeansHeld
      <4> QED
        BY <4>1, <4>2
    <3> QED
      BY <3>1 DEF BusyMeansHeld
  <2>10. sess[s].task = None /\ sess[s].started = None
    <3>1. ASSUME NEW q \in {sess[s].event, sess[s].task, sess[s].started} \ {None}
          PROVE  FALSE
      <4>1. q \in Prompts
        BY <3>1 DEF OccInv, TypeInv, TypeOK, SessionState
      <4>2. Occupies(q, s)
        BY <3>1 DEF OccInv, RegistrationsFollowTurn, Occupies
      <4> QED
        BY <2>2, <4>1, <4>2
    <3> QED
      BY <3>1
  <2>11. ASSUME NEW t \in Sessions, NEW q \in Prompts, Holds(q, t)'
         PROVE  /\ sess'[t].event = q
                /\ sess'[t].task = (IF req'[q].from = Tick THEN None ELSE q)
                /\ turn'[q].at # "created" => sess'[t].started = q
    <3>1. CASE t = s
      <4>1. q = r
        BY <2>6, <2>11, <3>1 DEF Occupies
      <4> QED
        BY <1>2, <2>10, <3>1, <4>1 DEF Begins
    <3>2. CASE t # s
      <4>1. Holds(q, t) /\ q # r
        BY <2>3, <2>7, <2>11, <3>2 DEF Occupies
      <4> QED
        BY <1>2, <3>2, <4>1
           DEF Begins, SameHandles, OccInv, RegistrationsFollowTurn
    <3> QED
      BY <3>1, <3>2
  <2>12. ASSUME NEW t \in Sessions,
                NEW q \in {sess'[t].event, sess'[t].task, sess'[t].started}
                          \ {None}
         PROVE  Holds(q, t)' \/ Leaked(q, t)'
    <3>1. CASE t = s
      BY <1>2, <2>4, <2>10, <2>12, <3>1 DEF Begins
    <3>2. CASE t # s
      <4>1. q \in {sess[t].event, sess[t].task, sess[t].started} \ {None}
        BY <1>2, <2>12, <3>2 DEF Begins, SameHandles
      <4>2. q \in Prompts
        BY <4>1 DEF OccInv, TypeInv, TypeOK, SessionState
      <4> QED
        BY <2>7, <3>2, <4>1, <4>2 DEF OccInv, RegistrationsFollowTurn
    <3> QED
      BY <3>1, <3>2
  <2>13. RegistrationsFollowTurn'
    BY <2>11, <2>12 DEF RegistrationsFollowTurn
  <2> QED
    BY <2>1, <2>8, <2>9, <2>13 DEF OccInv
<1> QED
  BY <1>0, <1>1, <1>2, FrameEffect

LEMMA OccStep == OccInv /\ [Next]_vars => OccInv'
<1> SUFFICES ASSUME OccInv, [Next]_vars PROVE OccInv'
  OBVIOUS
<1>1. TypeInv'
  BY TypeStep DEF OccInv
<1>2. CASE UNCHANGED vars
  BY <1>1, <1>2
     DEF vars, OccInv, UnsentInv, OccupantInv, Occupies, BusyMeansHeld,
         RegistrationsFollowTurn, Holds, Leaked
<1> QED
  BY <1>1, <1>2, OccTurnStep, OccFrameStep DEF Next, FrameStep

LEMMA OccInvariant == Spec => []OccInv
  BY OccInit, OccStep, PTL DEF Spec

\* A session runs one turn at a time, whatever cancellation, hang-up or slow
\* client meets it: the busy flag is set in the same step as the turn is
\* made, and only the turn's own wrapper clears it (of the sessions clients
\* and the upgrade tick send prompts to).
THEOREM OneTurn == Spec => []OneTurnPerSession
<1>1. OccInv => OneTurnPerSession
  BY DEF OccInv, OccupantInv, Occupies, OneTurnPerSession
<1> QED
  BY <1>1, OccInvariant, PTL

\* A session is busy exactly while a turn holds it, or since one was cut off
\* at an await no handler of the wrapper covers.
THEOREM BusyHeld == Spec => []BusyMeansHeld
<1>1. OccInv => BusyMeansHeld
  BY DEF OccInv
<1> QED
  BY <1>1, OccInvariant, PTL

\* The handles a cancel frame looks up are those of the turn that holds the
\* session, and the finally of an old turn never removes a newer turn's.
THEOREM Registrations == Spec => []RegistrationsFollowTurn
<1>1. OccInv => RegistrationsFollowTurn
  BY DEF OccInv
<1> QED
  BY <1>1, OccInvariant, PTL

-----------------------------------------------------------------------------
(* What stands in a queue, and what has been said of a turn.               *)

Waiting == {"unsent", "queued", "requeued"}

\* A prompt with a turn waits for nothing.
FateInv ==
    \A r \in Prompts : turn[r].at # "idle" => log[r].fate \notin Waiting

\* What stands in the queue of s is queued, for s.
QueueInv ==
    \A s \in Sessions : \A q \in ToSet(sess[s].pending) :
        log[q].fate = "queued" /\ req[q].to = s

\* What was popped off a queue waits no more.
BatchInv ==
    \A r \in Prompts : \A q \in ToSet(turn[r].batch) :
        log[q].fate \notin Waiting

PromptInv == FateInv /\ QueueInv /\ BatchInv

LEMMA ToSetFacts ==
    /\ ToSet(<<>>) = {}
    /\ \A w \in Seq(Prompts) :
         /\ ToSet(w) \subseteq Prompts
         /\ w # <<>> => Head(w) \in ToSet(w) /\ ToSet(Tail(w)) \subseteq ToSet(w)
         /\ \A r \in Prompts : ToSet(Append(w, r)) \subseteq ToSet(w) \cup {r}
<1>1. ToSet(<<>>) = {}
  BY DEF ToSet
<1>2. ASSUME NEW w \in Seq(Prompts) PROVE ToSet(w) \subseteq Prompts
  BY DEF ToSet
<1>3. ASSUME NEW w \in Seq(Prompts), w # <<>>
      PROVE  Head(w) \in ToSet(w) /\ ToSet(Tail(w)) \subseteq ToSet(w)
  <2>1. Len(w) \in Nat /\ Len(w) # 0 /\ Head(w) = w[1]
    BY <1>3
  <2>2. Head(w) \in ToSet(w)
    BY <2>1 DEF ToSet
  <2>3. ASSUME NEW i \in DOMAIN Tail(w)
        PROVE  Tail(w)[i] = w[i + 1] /\ i + 1 \in DOMAIN w
    BY <1>3, <2>1
  <2>4. ToSet(Tail(w)) \subseteq ToSet(w)
    BY <2>3 DEF ToSet
  <2> QED
    BY <2>2, <2>4
<1>4. ASSUME NEW w \in Seq(Prompts), NEW r \in Prompts
      PROVE  ToSet(Append(w, r)) \subseteq ToSet(w) \cup {r}
  <2>1. ASSUME NEW i \in DOMAIN Append(w, r)
        PROVE  Append(w, r)[i] \in ToSet(w) \cup {r}
    <3>1. CASE i = Len(w) + 1
      BY <3>1
    <3>2. CASE i # Len(w) + 1
      <4>1. i \in DOMAIN w /\ Append(w, r)[i] = w[i]
        BY <2>1, <3>2
      <4> QED
        BY <4>1 DEF ToSet
    <3> QED
      BY <3>1, <3>2
  <2> QED
    BY <2>1 DEF ToSet
<1> QED
  BY <1>1, <1>2, <1>3, <1>4

\* A step of a turn leaves each queue or empties it; a prompt's fate changes
\* when its queue is emptied, or when it waits no more.
Emptied(q) ==
    \E s \in Sessions : q \in ToSet(sess[s].pending) /\ sess'[s].pending = <<>>

Serves(r) ==
    /\ \A s \in Sessions :
         sess'[s].pending = sess[s].pending \/ sess'[s].pending = <<>>
    /\ \A q \in Prompts :
         \/ log'[q].fate = log[q].fate
         \/ log[q].fate \notin Waiting /\ log'[q].fate \notin Waiting
         \/ Emptied(q)
    /\ \A q \in ToSet(turn'[r].batch) : log'[q].fate \notin Waiting

\* The release leaves the queues, and only forgets r's session's frame.
LEMMA ReleasedKeeps ==
    ASSUME TypeOK, NEW t \in Sessions, NEW r
    PROVE  /\ \A s \in Sessions : Released(t, r)[s].pending = sess[s].pending
           /\ Released(t, r)[t].terminal = FALSE
           /\ \A s \in Sessions \ {t} : Released(t, r)[s].terminal = sess[s].terminal
<1>0. sess \in [Sessions -> SessionState] /\ sess[t] \in SessionState
  BY DEF TypeOK
<1> DEFINE mine == sess[t].event = r
           new == [sess[t] EXCEPT !.busy = FALSE, !.started = None,
                                  !.terminal = FALSE,
                                  !.event = IF mine THEN None ELSE @,
                                  !.task = IF mine THEN None ELSE @]
<1>1. Released(t, r) = [sess EXCEPT ![t] = new]
  BY <1>0 DEF Released
<1>2. new.pending = sess[t].pending /\ new.terminal = FALSE
  BY <1>0 DEF SessionState
<1>3. \A s \in Sessions : Released(t, r)[s] = (IF s = t THEN new ELSE sess[s])
  <2> HIDE DEF new
  <2> QED
    BY <1>0, <1>1
<1> QED
  BY <1>2, <1>3

LEMMA TurnServes ==
    ASSUME TypeInv, PromptInv, NEW r \in Prompts, TurnStep(r) PROVE Serves(r)
<1> DEFINE to == req[r].to
           SameQueues == \A s \in Sessions : sess'[s].pending = sess[s].pending
           SameFates == \A q \in Prompts : log'[q].fate = log[q].fate
<1>0. /\ TypeOK /\ to \in Sessions
      /\ turn \in [Prompts -> TurnState] /\ turn[r] \in TurnState
      /\ sess \in [Sessions -> SessionState]
      /\ log \in [Prompts -> LogState]
      /\ turn[r].batch \in Seq(Prompts) /\ ToSet(turn[r].batch) \subseteq Prompts
      /\ sess[to].pending \in Seq(Prompts)
      /\ log[r].fate \notin Waiting
      /\ \A q \in ToSet(turn[r].batch) : log[q].fate \notin Waiting
  <2>1. TypeOK /\ to \in Sessions /\ turn[r].at # "idle"
    BY Acting DEF TypeInv
  <2>2. turn[r] \in TurnState /\ sess[to] \in SessionState
    BY <2>1 DEF TypeOK
  <2>3. turn[r].batch \in Seq(Prompts) /\ sess[to].pending \in Seq(Prompts)
    BY <2>2 DEF TurnState, SessionState
  <2> QED
    BY <2>1, <2>2, <2>3, ToSetFacts DEF TypeOK, PromptInv, FateInv, BatchInv
<1>1. ASSUME SameQueues, SameFates,
             turn'[r].batch = turn[r].batch \/ turn'[r].batch = <<>>
      PROVE  Serves(r)
  BY <1>0, <1>1, ToSetFacts DEF Serves
<1>2. CASE Start(r)
  <2>1. SameQueues
    <3>1. /\ sess \in [Sessions -> SessionState]
          /\ sess' = [sess EXCEPT ![to].cwd = Cwd[req[r].from],
                                  ![to].started = r, ![to].terminal = FALSE]
      BY <1>0, <1>2 DEF Start
    <3>2. ASSUME NEW s \in Sessions PROVE sess'[s].pending = sess[s].pending
      <4>1. sess[s] \in SessionState
        BY <3>1
      <4>2. CASE s = to
        BY <3>1, <4>1, <4>2 DEF SessionState
      <4>3. CASE s # to
        BY <3>1, <4>3
      <4> QED
        BY <4>2, <4>3
    <3> QED
      BY <3>2
  <2>2. SameFates /\ turn'[r].batch = turn[r].batch
    BY <1>0, <1>2 DEF Start, TurnState
  <2> QED
    BY <1>1, <2>1, <2>2
<1>3. CASE EnterLoop(r)
  <2>1. SameQueues /\ turn'[r].batch = turn[r].batch
    BY <1>0, <1>3 DEF EnterLoop, TurnState
  <2>2. \A q \in Prompts \ {r} : log'[q].fate = log[q].fate
    BY <1>0, <1>3 DEF EnterLoop, Committed, LogState
  <2>3. log'[r].fate \notin Waiting
    BY <1>0, <1>3 DEF EnterLoop, Committed, LogState, Waiting
  <2> QED
    BY <1>0, <2>1, <2>2, <2>3 DEF Serves
<1>4. CASE InjectNext(r)
  <2> DEFINE h == Head(turn[r].batch)
  <2>1. h \in ToSet(turn[r].batch) /\ h \in Prompts
        /\ ToSet(Tail(turn[r].batch)) \subseteq ToSet(turn[r].batch)
    BY <1>0, <1>4, ToSetFacts DEF InjectNext
  <2>2. SameQueues /\ turn'[r].batch = Tail(turn[r].batch)
    BY <1>0, <1>4 DEF InjectNext, TurnState
  <2>3. log' = Committed(h)
    BY <1>4 DEF InjectNext
  <2>4. \A q \in Prompts \ {h} : log'[q].fate = log[q].fate
    BY <1>0, <2>1, <2>3 DEF Committed, LogState
  <2>5. log'[h].fate \notin Waiting
    BY <1>0, <2>1, <2>3 DEF Committed, LogState, Waiting
  <2> QED
    BY <1>0, <2>1, <2>2, <2>4, <2>5 DEF Serves
<1>5. CASE InjectDone(r)
  <2>1. SameQueues /\ SameFates /\ turn'[r].batch = turn[r].batch
    BY <1>0, <1>5 DEF InjectDone, TurnState
  <2> QED
    BY <1>1, <2>1
<1>6. ASSUME Ask(r) PROVE Serves(r)
  <2>1. PICK place \in {"compact", "stream"} :
            turn' = [turn EXCEPT ![r].at = place, ![r].next = "round"]
    BY <1>6 DEF Ask
  <2>2. turn'[r].batch = turn[r].batch
    BY <1>0, <2>1 DEF TurnState
  <2> QED
    BY <1>1, <1>6, <2>2 DEF Ask
<1>7. ASSUME NEW p \in {"answered", "return", "release"}, SayDone(r, p) PROVE Serves(r)
  <2>1. SameQueues
    BY <1>0, <1>7 DEF SayDone, SessionState
  <2>2. SameFates
    BY <1>0, <1>7 DEF SayDone, LogState
  <2>3. turn'[r].batch = turn[r].batch
    BY <1>0, <1>7 DEF SayDone, TurnState
  <2> QED
    BY <1>1, <2>1, <2>2, <2>3
<1>8. ASSUME NEW n \in {"request", "round", "renew"}, Take(r, n)
      PROVE  Serves(r)
  <2> DEFINE left == sess[to].pending
  <2>1. /\ sess'[to].pending = <<>>
        /\ \A s \in Sessions \ {to} : sess'[s].pending = sess[s].pending
    BY <1>0, <1>8 DEF Take, Unqueued, SessionState
  <2>2. turn'[r].batch = left
    BY <1>0, <1>8 DEF Take, TurnState
  <2>3. log' = Mark(left, "taken")
    BY <1>8 DEF Take
  <2>4. \A q \in Prompts \ ToSet(left) : log'[q].fate = log[q].fate
    BY <1>0, <2>3 DEF Mark
  <2>5. \A q \in ToSet(left) : log'[q].fate = "taken"
    BY <1>0, <2>3, ToSetFacts DEF Mark, LogState
  <2> QED
    BY <1>0, <2>1, <2>2, <2>4, <2>5 DEF Serves, Emptied, Waiting
<1>9. ASSUME NEW p \in {"stream", "round", "errdone", "tools", "fallback"},
             MoveTo(r, p)
      PROVE  Serves(r)
  <2>1. turn'[r].batch = turn[r].batch
    BY <1>0, <1>9 DEF MoveTo, TurnState
  <2> QED
    BY <1>1, <1>9, <2>1 DEF MoveTo
<1>10. CASE \/ BudgetSpent(r) \/ RoundCancelled(r) \/ StreamCut(r)
            \/ ErrorDone(r) \/ AnswerFinal(r) \/ FinallyCancelled(r)
            \/ FallbackDone(r) \/ HitInStream(r)
  BY <1>7, <1>10
     DEF BudgetSpent, RoundCancelled, StreamCut, ErrorDone, AnswerFinal,
         FinallyCancelled, FallbackDone, HitInStream
<1>11. CASE BudgetRenewed(r) \/ RoundSteered(r) \/ AnswerSteered(r)
  BY <1>8, <1>11 DEF BudgetRenewed, RoundSteered, AnswerSteered
<1>12. CASE RoundPlain(r) \/ InjectedAsk(r)
  BY <1>6, <1>12 DEF RoundPlain, InjectedAsk
<1>13. CASE \/ Compacted(r) \/ Repaired(r) \/ StreamFailed(r) \/ ToolCalls(r)
            \/ FinallyFailed(r)
  BY <1>9, <1>13
     DEF Compacted, Repaired, StreamFailed, ToolCalls, FinallyFailed
<1>14. CASE StreamRepair(r)
  <2>1. PICK k \in turn[r].retries :
            turn' = [turn EXCEPT ![r].at = "repair", ![r].retries = @ \ {k}]
    BY <1>14 DEF StreamRepair
  <2>2. turn'[r].batch = turn[r].batch
    BY <1>0, <2>1 DEF TurnState
  <2> QED
    BY <1>1, <1>14, <2>2 DEF StreamRepair
<1>15. CASE ToolsDone(r)
  <2>1. turn'[r].batch = turn[r].batch
    BY <1>0, <1>15 DEF ToolsDone, TurnState
  <2> QED
    BY <1>1, <1>15, <2>1 DEF ToolsDone
<1>16. CASE Return(r)
  <2>1. turn'[r].batch = <<>>
    BY <1>0, <1>16 DEF Return, Leaving, NewTurn
  <2> QED
    BY <1>1, <1>16, <2>1 DEF Return
<1>17. CASE Raise(r) \/ HitInLoop(r)
  <2>1. PICK f \in {"cancelled", "failed"} : Unwind(r, f)
    BY <1>17 DEF Raise, HitInLoop
  <2>2. turn'[r].batch = <<>>
    BY <1>0, <2>1 DEF Unwind, Leaving, NewTurn
  <2>3. \A q \in Prompts :
          \/ log'[q].fate = log[q].fate
          \/ log[q].fate \notin Waiting /\ log'[q].fate \notin Waiting
    <3>1. ASSUME NEW q \in Prompts
          PROVE  \/ log'[q].fate = log[q].fate
                 \/ log[q].fate \notin Waiting /\ log'[q].fate \notin Waiting
      <4>1. CASE q \notin ToSet(turn[r].batch) \cup {r}
        BY <2>1, <4>1 DEF Unwind, Abandoned
      <4>2. CASE q \in ToSet(turn[r].batch) \cup {r}
        <5>1. log'[q].fate \in {log[q].fate, "failed", "lost"}
          BY <1>0, <2>1 DEF Unwind, Abandoned, LogState
        <5> QED
          BY <1>0, <4>2, <5>1 DEF Waiting
      <4> QED
        BY <4>1, <4>2
    <3> QED
      BY <3>1
  <2>4. SameQueues
    BY <2>1 DEF Unwind
  <2> QED
    BY <2>2, <2>3, <2>4, ToSetFacts DEF Serves
<1>18. CASE Release(r)
  <2>1. SameQueues
    BY <1>0, <1>18, ReleasedKeeps DEF Release
  <2>2. SameFates /\ turn'[r].batch = turn[r].batch
    BY <1>0, <1>18 DEF Release, TurnState
  <2> QED
    BY <1>1, <2>1, <2>2
<1>19. CASE HandBack(r)
  <2> DEFINE left == sess[to].pending
  <2>1. /\ sess'[to].pending = <<>>
        /\ \A s \in Sessions \ {to} : sess'[s].pending = sess[s].pending
    BY <1>0, <1>19 DEF HandBack, Unqueued, SessionState
  <2>2. turn'[r].batch = turn[r].batch \/ turn'[r].batch = <<>>
    <3>1. \/ turn' = [turn EXCEPT ![r].at = "exit"]
          \/ turn' = [turn EXCEPT ![r] = [NewTurn EXCEPT !.at = "finished"]]
      BY <1>19 DEF HandBack, Finish
    <3> QED
      BY <1>0, <3>1 DEF NewTurn, TurnState
  <2>3. PICK f : log' = Mark(left, f)
    BY <1>19 DEF HandBack
  <2>4. \A q \in Prompts \ ToSet(left) : log'[q].fate = log[q].fate
    BY <1>0, <2>3 DEF Mark
  <2>5. \A q \in ToSet(left) : log[q].fate = "queued"
    BY <1>0 DEF PromptInv, QueueInv
  <2> QED
    BY <1>0, <2>1, <2>2, <2>4, <2>5, ToSetFacts DEF Serves, Emptied, Waiting
<1>20. CASE Exit(r)
  <2>1. turn'[r].batch = <<>>
    BY <1>0, <1>20 DEF Exit, Finish, NewTurn
  <2> QED
    BY <1>1, <1>20, <2>1 DEF Exit
<1>21. CASE HitOutside(r)
  <2>1. turn'[r].batch = <<>> /\ SameQueues
    BY <1>0, <1>21 DEF HitOutside, NewTurn
  <2>2. \A q \in Prompts \ {r} : log'[q].fate = log[q].fate
    BY <1>0, <1>21 DEF HitOutside
  <2>3. log'[r].fate \in {log[r].fate, "dropped"}
    BY <1>0, <1>21 DEF HitOutside, LogState
  <2> QED
    BY <1>0, <2>1, <2>2, <2>3, ToSetFacts DEF Serves, Waiting
<1> QED
  BY <1>2, <1>3, <1>4, <1>5, <1>10, <1>11, <1>12, <1>13, <1>14, <1>15,
     <1>16, <1>17, <1>18, <1>19, <1>20, <1>21 DEF TurnStep

\* A frame, or the tick, leaves a turn where it stands or makes one for a
\* prompt that waits; it appends to a queue, of a busy session, or empties it.
Stands(q) ==
    /\ turn'[q].at = turn[q].at /\ turn'[q].batch = turn[q].batch
    /\ turn[q].at # "idle" => req'[q] = req[q]

Awoken(q) ==
    /\ turn[q].at = "idle" /\ turn'[q].at = "created"
    /\ turn'[q].batch = <<>> /\ log'[q].fate = "opening"

Told(q) ==
    \/ log'[q].fate = log[q].fate /\ req'[q] = req[q]
    \/ log[q].fate \in {"unsent", "requeued"}
    \/ log'[q].fate = "cancelled" /\ Emptied(q) /\ req'[q] = req[q]

Joined(s) ==
    \E r \in Prompts :
        /\ sess[s].busy /\ sess'[s].pending = Append(sess[s].pending, r)
        /\ log'[r].fate = "queued" /\ req'[r].to = s

Minds ==
    /\ \A q \in Prompts : (Stands(q) \/ Awoken(q)) /\ Told(q)
    /\ \A q \in Prompts : log'[q].dones = log[q].dones
    /\ \A s \in Sessions :
         /\ sess'[s].terminal = sess[s].terminal
         /\ \/ sess'[s].pending = sess[s].pending
            \/ sess'[s].pending = <<>>
            \/ Joined(s)

LEMMA FrameMinds == ASSUME TypeInv, PromptInv, FrameStep PROVE Minds
<1>0. /\ turn \in [Prompts -> TurnState] /\ req \in [Prompts -> ReqState]
      /\ sess \in [Sessions -> SessionState] /\ log \in [Prompts -> LogState]
      /\ TypeOK
      /\ \A q \in Prompts : log[q].fate \in Waiting => turn[q].at = "idle"
  BY DEF TypeInv, TypeOK, PromptInv, FateInv
<1>1. ASSUME turn' = turn \/ (\E e, t : turn' = Stopped(turn, e, t)),
             req' = req, log' = log, sess' = sess
      PROVE  Minds
  <2>1. \A q \in Prompts : Stands(q)
    BY <1>0, <1>1, StoppedSame DEF Stands
  <2> QED
    BY <1>1, <2>1 DEF Minds, Told
<1>2. ASSUME NEW r \in Prompts, NEW s \in Sessions, NEW p \in Producers,
             turn' = turn, sess' = Queued(r, s), sess[s].busy,
             log' = [log EXCEPT ![r].fate = "queued"],
             req' = [req EXCEPT ![r] = [to |-> s, from |-> p]],
             log[r].fate \in {"unsent", "requeued"}
      PROVE  Minds
  <2>1. turn[r].at = "idle"
    BY <1>0, <1>2 DEF Waiting
  <2>2. /\ req'[r].to = s
        /\ \A q \in Prompts \ {r} : req'[q] = req[q]
    BY <1>0, <1>2
  <2>3. /\ log'[r].fate = "queued"
        /\ \A q \in Prompts \ {r} : log'[q] = log[q]
        /\ \A q \in Prompts : log'[q].dones = log[q].dones
    BY <1>0, <1>2 DEF LogState
  <2>4. \A q \in Prompts : Stands(q) /\ Told(q)
    BY <1>2, <2>1, <2>2, <2>3 DEF Stands, Told
  <2>5. /\ \A t \in Sessions : sess'[t].terminal = sess[t].terminal
        /\ \A t \in Sessions \ {s} : sess'[t] = sess[t]
        /\ sess'[s].pending = Append(sess[s].pending, r)
    BY <1>0, <1>2 DEF Queued, SessionState
  <2>6. Joined(s)
    BY <1>2, <2>2, <2>3, <2>5 DEF Joined
  <2> QED
    BY <2>3, <2>4, <2>5, <2>6 DEF Minds
<1>3. ASSUME NEW r \in Prompts, NEW s \in Sessions, NEW p \in Producers,
             turn'[r] = NewTurn,
             \A q \in Prompts \ {r} : /\ turn'[q].at = turn[q].at
                                      /\ turn'[q].batch = turn[q].batch,
             log' = [log EXCEPT ![r].fate = "opening"],
             req' = [req EXCEPT ![r] = [to |-> s, from |-> p]],
             log[r].fate \in {"unsent", "requeued"},
             IF p = Tick
             THEN sess' = [sess EXCEPT ![s].busy = TRUE, ![s].event = r]
             ELSE sess' = [sess EXCEPT ![s].busy = TRUE, ![s].event = r,
                                       ![s].task = r]
      PROVE  Minds
  <2>1. turn[r].at = "idle"
    BY <1>0, <1>3 DEF Waiting
  <2>2. \A q \in Prompts \ {r} : req'[q] = req[q]
    BY <1>0, <1>3
  <2>3. /\ log'[r].fate = "opening"
        /\ \A q \in Prompts \ {r} : log'[q] = log[q]
        /\ \A q \in Prompts : log'[q].dones = log[q].dones
    BY <1>0, <1>3 DEF LogState
  <2>4. Awoken(r) /\ Told(r)
    BY <1>3, <2>1, <2>3 DEF Awoken, Told, NewTurn
  <2>5. \A q \in Prompts \ {r} : Stands(q) /\ Told(q)
    BY <1>3, <2>2, <2>3 DEF Stands, Told
  <2>6. \A t \in Sessions : /\ sess'[t].terminal = sess[t].terminal
                           /\ sess'[t].pending = sess[t].pending
    <3>1. CASE p = Tick
      BY <1>0, <1>3, <3>1 DEF SessionState
    <3>2. CASE p # Tick
      BY <1>0, <1>3, <3>2 DEF SessionState
    <3> QED
      BY <3>1, <3>2
  <2> QED
    BY <2>3, <2>4, <2>5, <2>6 DEF Minds
<1>4. ASSUME NEW c \in Conns, NEW s \in Sessions, ClearQueue(c, s) PROVE Minds
  <2> DEFINE left == sess[s].pending
  <2>1. /\ turn' = turn /\ req' = req /\ sess' = Unqueued(s)
        /\ log' = Mark(left, "cancelled")
    BY <1>4 DEF ClearQueue
  <2>2. /\ sess'[s].pending = <<>>
        /\ \A t \in Sessions \ {s} : sess'[t].pending = sess[t].pending
        /\ \A t \in Sessions : sess'[t].terminal = sess[t].terminal
    BY <1>0, <2>1 DEF Unqueued, SessionState
  <2>3. /\ \A q \in Prompts \ ToSet(left) : log'[q] = log[q]
        /\ \A q \in Prompts : log'[q].dones = log[q].dones
        /\ \A q \in Prompts : q \in ToSet(left) => log'[q].fate = "cancelled"
    BY <1>0, <2>1 DEF Mark, LogState
  <2>4. \A q \in Prompts : Stands(q) /\ Told(q)
    BY <2>1, <2>2, <2>3 DEF Stands, Told, Emptied
  <2> QED
    BY <2>2, <2>3, <2>4 DEF Minds
<1>5. ASSUME NEW c \in Conns, ClientStep(c) PROVE Minds
  <2>0. c \in Producers /\ c # Tick
    BY ProducerAssumption DEF Producers
  <2>1. CASE \/ CancelAwaited(c) \/ Closed(c) \/ Disconnect(c)
             \/ \E s \in Sessions : Open(c, s)
             \/ \E n \in Sessions \cup {None} : CancelFrame(c, n)
    BY <1>1, <2>1 DEF CancelAwaited, Closed, Disconnect, Open, CancelFrame
  <2>2. ASSUME NEW r \in Prompts, NEW s \in Sessions, QueueTask(c, r, s)
        PROVE  Minds
    BY <1>2, <2>0, <2>2 DEF QueueTask, Sendable, Occupied
  <2>3. ASSUME NEW r \in Prompts, NEW s \in Sessions, StartTask(c, r, s)
        PROVE  Minds
    <3>1. PICK e : turn' = [Stopped(turn, e, e) EXCEPT ![r] = NewTurn]
      BY <2>3 DEF StartTask
    <3>2. turn'[r] = NewTurn
      BY <1>0, <3>1, StoppedType
    <3>3. \A q \in Prompts \ {r} : /\ turn'[q].at = turn[q].at
                                    /\ turn'[q].batch = turn[q].batch
      <4>1. \A q \in Prompts \ {r} : turn'[q] = Stopped(turn, e, e)[q]
        BY <1>0, <3>1, StoppedType
      <4> QED
        BY <1>0, <4>1, StoppedSame
    <3>4. log[r].fate \in {"unsent", "requeued"}
      BY <2>3 DEF StartTask, Sendable
    <3> QED
      BY <1>3, <2>0, <2>3, <3>2, <3>3, <3>4 DEF StartTask
  <2> QED
    BY <1>4, <1>5, <2>1, <2>2, <2>3 DEF ClientStep
<1>6. ASSUME NEW r \in Prompts, NEW s \in Sessions, TickQueues(r, s)
      PROVE  Minds
  BY <1>2, <1>6 DEF TickQueues, TickReady, Producers, Occupied
<1>7. ASSUME NEW r \in Prompts, NEW s \in Sessions, TickStarts(r, s)
      PROVE  Minds
  <2>1. /\ turn'[r] = NewTurn
        /\ \A q \in Prompts \ {r} : turn'[q] = turn[q]
    BY <1>0, <1>7 DEF TickStarts
  <2> QED
    BY <1>3, <1>7, <2>1 DEF TickStarts, TickReady, Producers
<1> QED
  BY <1>5, <1>6, <1>7 DEF FrameStep, TickStep

LEMMA PromptInit == Init => PromptInv
<1> SUFFICES ASSUME Init PROVE PromptInv
  OBVIOUS
<1>1. \A r \in Prompts : turn[r].at = "idle" /\ turn[r].batch = <<>>
  BY DEF Init, NewTurn
<1>2. \A s \in Sessions : sess[s].pending = <<>>
  BY DEF Init
<1> QED
  BY <1>1, <1>2, ToSetFacts DEF PromptInv, FateInv, QueueInv, BatchInv

LEMMA PromptTurnStep ==
    ASSUME TypeInv, PromptInv, NEW r \in Prompts, TurnStep(r) PROVE PromptInv'
<1>0. /\ Serves(r) /\ req' = req
      /\ \A q \in Prompts \ {r} : turn'[q] = turn[q]
      /\ turn[r].at # "idle"
      /\ turn \in [Prompts -> TurnState] /\ sess \in [Sessions -> SessionState]
  BY TurnServes, TurnShape, Acting DEF TypeInv, TypeOK
<1>1. ASSUME NEW q \in Prompts, log[q].fate \notin Waiting
      PROVE  log'[q].fate \notin Waiting
  <2>1. ~Emptied(q)
    BY <1>1 DEF PromptInv, QueueInv, Emptied, Waiting
  <2> QED
    BY <1>0, <1>1, <2>1 DEF Serves
<1>2. FateInv'
  BY <1>0, <1>1 DEF PromptInv, FateInv
<1>3. QueueInv'
  <2>1. ASSUME NEW s \in Sessions, NEW q \in ToSet(sess'[s].pending)
        PROVE  log'[q].fate = "queued" /\ req'[q].to = s
    <3>1. sess'[s].pending # <<>> /\ sess'[s].pending = sess[s].pending
      BY <1>0, <2>1, ToSetFacts DEF Serves
    <3>2. log[q].fate = "queued" /\ req[q].to = s
      BY <2>1, <3>1 DEF PromptInv, QueueInv
    <3>3. q \in Prompts
      BY <1>0, <2>1, <3>1, ToSetFacts DEF SessionState
    <3>4. ~Emptied(q)
      BY <3>1, <3>2 DEF PromptInv, QueueInv, Emptied
    <3> QED
      BY <1>0, <3>2, <3>3, <3>4 DEF Serves, Waiting
  <2> QED
    BY <2>1 DEF QueueInv
<1>4. BatchInv'
  <2>1. ASSUME NEW q \in Prompts \ {r}, NEW x \in ToSet(turn[q].batch)
        PROVE  log'[x].fate \notin Waiting
    <3>1. x \in Prompts
      BY <1>0, <2>1, ToSetFacts DEF TurnState
    <3> QED
      BY <1>1, <2>1, <3>1 DEF PromptInv, BatchInv
  <2> QED
    BY <1>0, <2>1 DEF Serves, BatchInv
<1> QED
  BY <1>2, <1>3, <1>4 DEF PromptInv

LEMMA PromptFrameStep ==
    ASSUME TypeInv, PromptInv, FrameStep PROVE PromptInv'
<1>0. /\ Minds
      /\ turn \in [Prompts -> TurnState] /\ sess \in [Sessions -> SessionState]
  BY FrameMinds DEF TypeInv, TypeOK
<1>1. ASSUME NEW q \in Prompts, log[q].fate \notin Waiting
      PROVE  log'[q].fate \notin Waiting
  BY <1>0, <1>1 DEF Minds, Told, Waiting
<1>2. FateInv'
  <2>1. ASSUME NEW q \in Prompts, turn'[q].at # "idle"
        PROVE  log'[q].fate \notin Waiting
    <3>1. CASE Stands(q)
      BY <1>1, <2>1, <3>1 DEF Stands, PromptInv, FateInv
    <3>2. CASE Awoken(q)
      BY <3>2 DEF Awoken, Waiting
    <3> QED
      BY <1>0, <3>1, <3>2 DEF Minds
  <2> QED
    BY <2>1 DEF FateInv
<1>3. QueueInv'
  <2>1. ASSUME NEW s \in Sessions, NEW q \in ToSet(sess[s].pending),
               sess'[s].pending # <<>>
        PROVE  log'[q].fate = "queued" /\ req'[q].to = s
    <3>1. log[q].fate = "queued" /\ req[q].to = s
      BY <2>1 DEF PromptInv, QueueInv
    <3>2. q \in Prompts
      BY <1>0, <2>1, ToSetFacts DEF SessionState
    <3>3. ~Emptied(q)
      BY <2>1, <3>1 DEF PromptInv, QueueInv, Emptied
    <3> QED
      BY <1>0, <3>1, <3>2, <3>3 DEF Minds, Told
  <2>2. ASSUME NEW s \in Sessions, NEW q \in ToSet(sess'[s].pending)
        PROVE  log'[q].fate = "queued" /\ req'[q].to = s
    <3>1. sess'[s].pending # <<>>
      BY <2>2, ToSetFacts
    <3>2. CASE sess'[s].pending = sess[s].pending
      BY <2>1, <2>2, <3>1, <3>2
    <3>3. CASE Joined(s)
      <4>1. PICK r \in Prompts :
                /\ sess'[s].pending = Append(sess[s].pending, r)
                /\ log'[r].fate = "queued" /\ req'[r].to = s
        BY <3>3 DEF Joined
      <4>2. sess[s].pending \in Seq(Prompts)
        BY <1>0 DEF SessionState
      <4>3. q \in ToSet(sess[s].pending) \cup {r}
        BY <2>2, <4>1, <4>2, ToSetFacts
      <4> QED
        BY <2>1, <3>1, <4>1, <4>3
    <3> QED
      BY <1>0, <3>1, <3>2, <3>3 DEF Minds
  <2> QED
    BY <2>2 DEF QueueInv
<1>4. BatchInv'
  <2>1. ASSUME NEW q \in Prompts, NEW x \in ToSet(turn'[q].batch)
        PROVE  log'[x].fate \notin Waiting
    <3>1. x \in ToSet(turn[q].batch)
      BY <1>0, <2>1, ToSetFacts DEF Minds, Stands, Awoken
    <3>2. x \in Prompts
      BY <1>0, <3>1, ToSetFacts DEF TurnState
    <3> QED
      BY <1>1, <3>1, <3>2 DEF PromptInv, BatchInv
  <2> QED
    BY <2>1 DEF BatchInv
<1> QED
  BY <1>2, <1>3, <1>4 DEF PromptInv

LEMMA PromptStep == TypeInv /\ PromptInv /\ [Next]_vars => PromptInv'
<1>1. ASSUME PromptInv, UNCHANGED vars PROVE PromptInv'
  BY <1>1 DEF vars, PromptInv, FateInv, QueueInv, BatchInv
<1> QED
  BY <1>1, PromptTurnStep, PromptFrameStep DEF Next, FrameStep

-----------------------------------------------------------------------------
(* The terminal frame.                                                     *)

\* The places a turn works at before its terminal frame.
Silent == {"loop", "fallback"} \cup (InTry \ {"answered", "return"})

\* The recorded frame of a session tells its turn whether it has spoken.
Said(at, dones, terminal) ==
    /\ at \in {"idle", "created"} => dones = 0
    /\ at \in Silent => dones = 0 /\ ~terminal
    /\ at = "finally" => dones = (IF terminal THEN 1 ELSE 0)
    /\ at \in {"answered", "return", "release"} => dones = 1 /\ terminal
    /\ at \in {"handback", "exit", "finished"} => dones = 1
    /\ dones <= 1

DonesInv ==
    \A r \in Prompts :
        Said(turn[r].at, log[r].dones, sess[req[r].to].terminal)

\* What a step of r does to the frame recorded for its session, and to the
\* count of its terminal frames.
Records(r, terminal, dones) ==
    /\ sess'[req[r].to].terminal = terminal
    /\ log'[r].dones = dones
    /\ \A s \in Sessions \ {req[r].to} : sess'[s].terminal = sess[s].terminal
    /\ \A q \in Prompts \ {r} : log'[q].dones = log[q].dones

Moves(r, from, to) == turn[r].at \in from /\ turn'[r].at \in to

\* What a step of r is for the frame.
Tells(r) ==
    LET told == sess[req[r].to].terminal
        count == log[r].dones
    IN \/ Moves(r, {"created"}, {"loop"}) /\ Records(r, FALSE, count)
       \/ /\ \/ Moves(r, Silent, Silent \cup {"finally"})
             \/ Moves(r, {"answered", "return"}, {"finally"})
             \/ Moves(r, {"finally"}, {"fallback"}) /\ ~told
             \/ Moves(r, {"handback", "exit"}, {"exit", "finished"})
             \/ Moves(r, Places, {"dead"})
          /\ Records(r, told, count)
       \/ /\ \/ Moves(r, Silent, {"answered", "return", "release"})
             \/ Moves(r, {"finally"}, {"release"}) /\ ~told
          /\ Records(r, TRUE, count + 1)
       \/ /\ \/ Moves(r, {"release"}, {"handback"})
             \/ Moves(r, {"finally"}, {"handback"}) /\ told
          /\ Records(r, FALSE, count)

LEMMA TurnTells == ASSUME TypeInv, NEW r \in Prompts, TurnStep(r) PROVE Tells(r)
<1> DEFINE to == req[r].to
           Quiet == Records(r, sess[to].terminal, log[r].dones)
           Hushed == Moves(r, Silent, Silent \cup {"finally"})
<1>0. /\ TypeOK /\ to \in Sessions
      /\ turn \in [Prompts -> TurnState] /\ turn[r] \in TurnState
      /\ sess \in [Sessions -> SessionState] /\ sess[to] \in SessionState
      /\ log \in [Prompts -> LogState] /\ log[r] \in LogState
  BY Acting DEF TypeInv, TypeOK
<1>1. Hushed /\ Quiet => Tells(r)
  BY DEF Tells
<1>2. ASSUME \A s \in Sessions : sess'[s].terminal = sess[s].terminal,
             \A q \in Prompts : log'[q].dones = log[q].dones
      PROVE  Quiet
  BY <1>0, <1>2 DEF Records
<1>3. log' = log => \A q \in Prompts : log'[q].dones = log[q].dones
  OBVIOUS
<1>4. \A q \in Prompts : log' = Committed(q) =>
           \A x \in Prompts : log'[x].dones = log[x].dones
  BY <1>0 DEF Committed, LogState
<1>5. \A ps, f : log' = Mark(ps, f) =>
           \A x \in Prompts : log'[x].dones = log[x].dones
  BY <1>0 DEF Mark, LogState
<1>6. sess' = Unqueued(to) =>
           \A s \in Sessions : sess'[s].terminal = sess[s].terminal
  BY <1>0 DEF Unqueued, SessionState
<1>7. sess' = sess => \A s \in Sessions : sess'[s].terminal = sess[s].terminal
  OBVIOUS
<1>8. \A p : turn' = [turn EXCEPT ![r].at = p] => turn'[r].at = p
  BY <1>0 DEF TurnState
<1>9. ASSUME NEW p, SayDone(r, p)
      PROVE  turn'[r].at = p /\ Records(r, TRUE, log[r].dones + 1)
  <2>1. turn'[r].at = p
    BY <1>0, <1>9 DEF SayDone, TurnState
  <2>2. /\ sess'[to].terminal
        /\ \A s \in Sessions \ {to} : sess'[s].terminal = sess[s].terminal
    BY <1>0, <1>9 DEF SayDone, SessionState
  <2>3. sess'[to].terminal = TRUE
    BY <1>0, <1>9 DEF SayDone, SessionState
  <2>4. /\ log'[r].dones = log[r].dones + 1
        /\ \A q \in Prompts \ {r} : log'[q].dones = log[q].dones
    BY <1>0, <1>9 DEF SayDone, LogState
  <2> QED
    BY <2>1, <2>2, <2>3, <2>4 DEF Records
<1>10. CASE \/ BudgetSpent(r) \/ RoundCancelled(r) \/ StreamCut(r)
            \/ ErrorDone(r) \/ AnswerFinal(r) \/ HitInStream(r)
  <2>1. turn[r].at \in Silent
    BY <1>10
       DEF BudgetSpent, RoundCancelled, StreamCut, ErrorDone, AnswerFinal,
           HitInStream, Runs, Hit, Silent, InTry
  <2>2. PICK p \in {"answered", "return"} : SayDone(r, p)
    BY <1>10
       DEF BudgetSpent, RoundCancelled, StreamCut, ErrorDone, AnswerFinal,
           HitInStream
  <2>3. turn'[r].at = p /\ Records(r, TRUE, log[r].dones + 1)
    BY <1>9, <2>2
  <2> QED
    BY <2>1, <2>3 DEF Tells, Moves
<1>11. CASE FinallyCancelled(r) \/ FallbackDone(r)
  <2>1. /\ turn[r].at \in Silent \/ (turn[r].at = "finally" /\ ~sess[to].terminal)
        /\ SayDone(r, "release")
    BY <1>11 DEF FinallyCancelled, FallbackDone, Runs, Spoken, Silent
  <2> QED
    BY <1>9, <2>1 DEF Tells, Moves
<1>12. ASSUME NEW n, Take(r, n), turn[r].at \in Silent PROVE Tells(r)
  <2>1. turn'[r].at = "inject"
    BY <1>0, <1>12 DEF Take, TurnState
  <2>2. Quiet
    BY <1>2, <1>5, <1>6, <1>12 DEF Take
  <2> QED
    BY <1>1, <1>12, <2>1, <2>2 DEF Moves, Silent, InTry
<1>13. CASE BudgetRenewed(r) \/ RoundSteered(r) \/ AnswerSteered(r)
  BY <1>12, <1>13
     DEF BudgetRenewed, RoundSteered, AnswerSteered, Runs, Silent, InTry
<1>14. ASSUME NEW p \in Silent, turn[r].at \in Silent, turn'[r].at = p,
              sess' = sess, \A q \in Prompts : log'[q].dones = log[q].dones
       PROVE  Tells(r)
  BY <1>1, <1>2, <1>7, <1>14 DEF Moves
<1>15. CASE EnterLoop(r)
  <2>1. turn'[r].at = "round" /\ turn[r].at = "loop"
    BY <1>8, <1>15 DEF EnterLoop, Runs
  <2> QED
    BY <1>4, <1>14, <1>15, <2>1 DEF EnterLoop, Silent, InTry
<1>16. CASE InjectNext(r)
  <2> DEFINE h == Head(turn[r].batch)
  <2>1. h \in Prompts
    <3>1. turn[r].batch \in Seq(Prompts) /\ turn[r].batch # <<>>
      BY <1>0, <1>16 DEF InjectNext, TurnState
    <3> QED
      BY <3>1
  <2>2. turn'[r].at = "inject" /\ turn[r].at = "inject"
    BY <1>0, <1>16 DEF InjectNext, Runs, TurnState
  <2>3. log' = Committed(h) /\ sess' = sess
    BY <1>16 DEF InjectNext
  <2> QED
    BY <1>4, <1>14, <2>1, <2>2, <2>3 DEF Silent, InTry
<1>17. CASE InjectDone(r)
  <2>1. turn'[r].at = "round" /\ turn[r].at = "inject"
    BY <1>0, <1>17 DEF InjectDone, Runs, TurnState
  <2> QED
    BY <1>3, <1>14, <1>17, <2>1 DEF InjectDone, Silent, InTry
<1>18. CASE RoundPlain(r) \/ InjectedAsk(r)
  <2>1. turn[r].at \in {"round", "inject"} /\ Ask(r)
    BY <1>18 DEF RoundPlain, InjectedAsk, Runs
  <2>2. PICK p \in {"compact", "stream"} :
            turn' = [turn EXCEPT ![r].at = p, ![r].next = "round"]
    BY <2>1 DEF Ask
  <2>3. turn'[r].at = p
    BY <1>0, <2>2 DEF TurnState
  <2> QED
    BY <1>3, <1>14, <2>1, <2>3 DEF Ask, Silent, InTry
<1>19. CASE Compacted(r) \/ Repaired(r) \/ StreamFailed(r) \/ ToolCalls(r)
  <2>1. PICK p \in {"stream", "round", "errdone", "tools"} : MoveTo(r, p)
    BY <1>19 DEF Compacted, Repaired, StreamFailed, ToolCalls
  <2>2. turn[r].at \in Silent
    BY <1>19 DEF Compacted, Repaired, StreamFailed, ToolCalls, Runs, Silent, InTry
  <2> QED
    BY <1>3, <1>8, <1>14, <2>1, <2>2 DEF MoveTo, Silent, InTry
<1>20. CASE StreamRepair(r)
  <2>1. PICK k \in turn[r].retries :
            turn' = [turn EXCEPT ![r].at = "repair", ![r].retries = @ \ {k}]
    BY <1>20 DEF StreamRepair
  <2>2. turn'[r].at = "repair" /\ turn[r].at \in Silent
    BY <1>0, <1>20, <2>1 DEF StreamRepair, Runs, Silent, InTry, TurnState
  <2> QED
    BY <1>3, <1>14, <1>20, <2>2 DEF StreamRepair, Silent, InTry
<1>21. CASE ToolsDone(r)
  <2>1. turn'[r].at = "round" /\ turn[r].at = "tools"
    BY <1>0, <1>21 DEF ToolsDone, Runs, TurnState
  <2> QED
    BY <1>3, <1>14, <1>21, <2>1 DEF ToolsDone, Silent, InTry
<1>22. ASSUME NEW n, NEW f, turn' = [turn EXCEPT ![r] = Leaving(r, n, f)]
       PROVE  turn'[r].at = "finally"
  BY <1>0, <1>22 DEF Leaving, NewTurn
<1>23. CASE Return(r)
  <2>1. turn'[r].at = "finally" /\ turn[r].at \in {"answered", "return"}
    BY <1>22, <1>23 DEF Return, Runs
  <2> QED
    BY <1>2, <1>3, <1>7, <1>23, <2>1 DEF Return, Tells, Moves
<1>24. CASE Raise(r) \/ HitInLoop(r)
  <2>1. PICK f : Unwind(r, f)
    BY <1>24 DEF Raise, HitInLoop
  <2>2. turn[r].at \in Silent \cup {"answered", "return"}
    BY <1>24 DEF Raise, HitInLoop, Runs, Hit, Silent, InTry
  <2>3. turn'[r].at = "finally" /\ sess' = sess
    BY <1>22, <2>1 DEF Unwind
  <2>4. \A q \in Prompts : log'[q].dones = log[q].dones
    BY <1>0, <2>1 DEF Unwind, Abandoned, LogState
  <2> QED
    BY <1>2, <1>7, <2>2, <2>3, <2>4 DEF Tells, Moves
<1>25. CASE FinallyFailed(r)
  <2>1. /\ turn[r].at = "finally" /\ ~sess[to].terminal
        /\ turn'[r].at = "fallback"
    BY <1>8, <1>25 DEF FinallyFailed, Runs, Spoken, MoveTo
  <2> QED
    BY <1>2, <1>3, <1>7, <1>25, <2>1 DEF FinallyFailed, MoveTo, Tells, Moves
<1>26. CASE Start(r)
  <2>1. turn'[r].at = "loop" /\ turn[r].at = "created"
    BY <1>8, <1>26 DEF Start, Runs
  <2>2. /\ sess'[to].terminal = FALSE
        /\ \A s \in Sessions \ {to} : sess'[s].terminal = sess[s].terminal
    BY <1>0, <1>26 DEF Start, SessionState
  <2> QED
    BY <1>26, <2>1, <2>2 DEF Start, Tells, Moves, Records
<1>27. CASE Release(r)
  <2>1. /\ turn[r].at = "release" \/ (turn[r].at = "finally" /\ sess[to].terminal)
        /\ turn'[r].at = "handback"
    BY <1>8, <1>27 DEF Release, Runs, Spoken
  <2>2. /\ sess'[to].terminal = FALSE
        /\ \A s \in Sessions \ {to} : sess'[s].terminal = sess[s].terminal
    BY <1>0, <1>27, ReleasedKeeps DEF Release
  <2> QED
    BY <1>27, <2>1, <2>2 DEF Release, Tells, Moves, Records
<1>28. CASE HandBack(r) \/ Exit(r)
  <2>1. turn[r].at \in {"handback", "exit"}
    BY <1>28 DEF HandBack, Exit, Runs
  <2>2. turn'[r].at \in {"exit", "finished"}
    <3>1. \/ turn' = [turn EXCEPT ![r].at = "exit"]
          \/ turn' = [turn EXCEPT ![r] = [NewTurn EXCEPT !.at = "finished"]]
      BY <1>28 DEF HandBack, Exit, Finish
    <3> QED
      BY <1>0, <1>8, <3>1 DEF NewTurn
  <2>3. \A s \in Sessions : sess'[s].terminal = sess[s].terminal
    <3>1. CASE HandBack(r)
      <4>1. sess' = [Unqueued(to) EXCEPT ![to].cwd = None]
        BY <3>1 DEF HandBack
      <4>2. sess'[to].terminal = sess[to].terminal
        BY <1>0, <4>1 DEF Unqueued, SessionState
      <4>3. \A s \in Sessions \ {to} : sess'[s] = sess[s]
        BY <1>0, <4>1 DEF Unqueued
      <4> QED
        BY <4>2, <4>3
    <3>2. CASE Exit(r)
      BY <3>2 DEF Exit
    <3> QED
      BY <1>28, <3>1, <3>2
  <2>4. \A q \in Prompts : log'[q].dones = log[q].dones
    BY <1>5, <1>28 DEF HandBack, Exit
  <2> QED
    BY <1>2, <2>1, <2>2, <2>3, <2>4 DEF Tells, Moves
<1>29. CASE HitOutside(r)
  <2>1. turn'[r].at = "dead" /\ turn[r].at \in Places
    BY <1>0, <1>29 DEF HitOutside, NewTurn, TurnState
  <2>2. \A q \in Prompts : log'[q].dones = log[q].dones
    BY <1>0, <1>29 DEF HitOutside, LogState
  <2> QED
    BY <1>2, <1>7, <1>29, <2>1, <2>2 DEF HitOutside, Tells, Moves
<1> QED
  BY <1>10, <1>11, <1>13, <1>15, <1>16, <1>17, <1>18, <1>19, <1>20, <1>21,
     <1>23, <1>24, <1>25, <1>26, <1>27, <1>28, <1>29 DEF TurnStep

FrameInv == OccInv /\ PromptInv /\ DonesInv

LEMMA FrameInit == Init => FrameInv
<1> SUFFICES ASSUME Init PROVE FrameInv
  OBVIOUS
<1>1. \A r \in Prompts : turn[r].at = "idle" /\ log[r].dones = 0
  BY DEF Init, NewTurn
<1>2. DonesInv
  BY <1>1 DEF DonesInv, Said, Silent, InTry
<1> QED
  BY <1>2, OccInit, PromptInit DEF FrameInv

LEMMA DonesTurnStep ==
    ASSUME FrameInv, NEW r \in Prompts, TurnStep(r) PROVE DonesInv'
<1> DEFINE told == sess[req[r].to].terminal
           count == log[r].dones
<1>0. /\ TypeInv /\ Tells(r) /\ req' = req
      /\ \A q \in Prompts \ {r} : turn'[q] = turn[q]
      /\ req[r].to \in Sessions
      /\ Said(turn[r].at, count, told)
      /\ count \in Nat /\ told \in BOOLEAN
  <2>1. TypeInv /\ req[r].to \in Sessions
    BY Acting DEF FrameInv, OccInv
  <2>2. count \in Nat /\ told \in BOOLEAN
    BY <2>1 DEF TypeInv, TypeOK, LogState, SessionState
  <2> QED
    BY <2>1, <2>2, TurnTells, TurnShape DEF FrameInv, DonesInv
<1>1. Said(turn'[r].at, log'[r].dones, sess'[req[r].to].terminal)
  <2>1. CASE Moves(r, {"created"}, {"loop"}) /\ Records(r, FALSE, count)
    BY <1>0, <2>1 DEF Moves, Records, Said, Silent, InTry
  <2>2. CASE /\ \/ Moves(r, Silent, Silent \cup {"finally"})
                \/ Moves(r, {"answered", "return"}, {"finally"})
             /\ Records(r, told, count)
    BY <1>0, <2>2 DEF Moves, Records, Said, Silent, InTry
  <2>3. CASE /\ Moves(r, {"finally"}, {"fallback"}) /\ ~told
             /\ Records(r, told, count)
    BY <1>0, <2>3 DEF Moves, Records, Said, Silent, InTry
  <2>4. CASE /\ \/ Moves(r, {"handback", "exit"}, {"exit", "finished"})
                \/ Moves(r, Places, {"dead"})
             /\ Records(r, told, count)
    BY <1>0, <2>4 DEF Moves, Records, Said, Silent, InTry
  <2>5. CASE /\ \/ Moves(r, Silent, {"answered", "return", "release"})
                \/ Moves(r, {"finally"}, {"release"}) /\ ~told
             /\ Records(r, TRUE, count + 1)
    <3>1. count = 0
      BY <1>0, <2>5 DEF Moves, Said
    <3> QED
      BY <2>5, <3>1 DEF Moves, Records, Said, Silent, InTry
  <2>6. CASE /\ \/ Moves(r, {"release"}, {"handback"})
                \/ Moves(r, {"finally"}, {"handback"}) /\ told
             /\ Records(r, FALSE, count)
    BY <1>0, <2>6 DEF Moves, Records, Said, Silent, InTry
  <2> QED
    BY <1>0, <2>1, <2>2, <2>3, <2>4, <2>5, <2>6 DEF Tells
<1>2. ASSUME NEW q \in Prompts, q # r
      PROVE  Said(turn'[q].at, log'[q].dones, sess'[req'[q].to].terminal)
  <2>1. Said(turn[q].at, log[q].dones, sess[req[q].to].terminal)
    BY DEF FrameInv, DonesInv
  <2>2. turn'[q] = turn[q] /\ req'[q] = req[q] /\ log'[q].dones = log[q].dones
    BY <1>0, <1>2 DEF Tells, Records
  <2>3. CASE sess'[req[q].to].terminal = sess[req[q].to].terminal
    BY <2>1, <2>2, <2>3
  <2>4. CASE sess'[req[q].to].terminal # sess[req[q].to].terminal
            /\ turn[q].at \in Holding
    <3>1. req[q].to \in Sessions
      BY <1>0, <2>4 DEF TypeInv, ReqInv, Holding, InTry
    <3>2. req[q].to = req[r].to /\ sess'[req[r].to].terminal # told
      BY <1>0, <2>4, <3>1 DEF Tells, Records
    <3>3. turn[r].at \in Holding
      BY <1>0, <3>2 DEF Tells, Records, Moves, Silent, Holding
    <3>4. Occupies(r, req[r].to) /\ Occupies(q, req[r].to)
      BY <2>4, <3>2, <3>3 DEF Occupies, Holds
    <3>5. q = r
      BY <1>0, <3>4 DEF FrameInv, OccInv, OccupantInv
    <3> QED
      BY <1>2, <3>5
  <2>5. CASE turn[q].at \notin Holding
    BY <2>1, <2>2, <2>5 DEF Said, Silent, Holding, InTry
  <2> QED
    BY <2>3, <2>4, <2>5
<1> QED
  BY <1>0, <1>1, <1>2 DEF DonesInv

LEMMA DonesFrameStep == ASSUME FrameInv, FrameStep PROVE DonesInv'
<1>0. TypeInv /\ Minds
  BY FrameMinds DEF FrameInv, OccInv
<1>1. ASSUME NEW q \in Prompts
      PROVE  Said(turn'[q].at, log'[q].dones, sess'[req'[q].to].terminal)
  <2>1. /\ Said(turn[q].at, log[q].dones, sess[req[q].to].terminal)
        /\ log'[q].dones = log[q].dones
    BY <1>0 DEF FrameInv, DonesInv, Minds
  <2>2. CASE Stands(q) /\ turn[q].at # "idle"
    <3>1. req'[q] = req[q] /\ req[q].to \in Sessions
      BY <1>0, <2>2 DEF Stands, TypeInv, ReqInv
    <3> QED
      BY <1>0, <2>1, <2>2, <3>1 DEF Stands, Minds
  <2>3. CASE Awoken(q) \/ (Stands(q) /\ turn[q].at = "idle")
    BY <2>1, <2>3 DEF Awoken, Stands, Said, Silent, InTry
  <2> QED
    BY <1>0, <2>2, <2>3 DEF Minds
<1> QED
  BY <1>1 DEF DonesInv

LEMMA FrameInvStep == FrameInv /\ [Next]_vars => FrameInv'
<1> SUFFICES ASSUME FrameInv, [Next]_vars PROVE FrameInv'
  OBVIOUS
<1>1. OccInv' /\ PromptInv'
  BY OccStep, PromptStep DEF FrameInv, OccInv
<1>2. CASE UNCHANGED vars
  BY <1>1, <1>2 DEF vars, FrameInv, DonesInv
<1> QED
  BY <1>1, <1>2, DonesTurnStep, DonesFrameStep DEF FrameInv, Next, FrameStep

LEMMA FrameInvariant == Spec => []FrameInv
  BY FrameInit, FrameInvStep, PTL DEF Spec

\* A turn says its terminal frame once: the frame recorded for the session is
\* its own while it holds the session, so the finally of the wrapper fills in
\* a missing one and never repeats one.
THEOREM OneTerminal == Spec => []OneTerminalFrame
<1>1. FrameInv => OneTerminalFrame
  BY DEF FrameInv, DonesInv, Said, OneTerminalFrame
<1> QED
  BY <1>1, FrameInvariant, PTL

-----------------------------------------------------------------------------
(* The server of a queue.                                                  *)

\* Only a turn that was cut off has a place it was cut off at.
CutInv == \A r \in Prompts : log[r].cut # "idle" => turn[r].at = "dead"

\* r will look at the queue of s, or was cut off before it did.
Server(r, s) ==
    \/ Holds(r, s) \/ Leaked(r, s)
    \/ req[r].to = s /\ (turn[r].at = "handback" \/ log[r].cut = "handback")

ServerInv == FrameInv /\ CutInv /\ QueueHasServer

LEMMA ServerInit == Init => ServerInv
<1> SUFFICES ASSUME Init PROVE ServerInv
  OBVIOUS
<1>1. (\A r \in Prompts : log[r].cut = "idle")
      /\ \A s \in Sessions : sess[s].pending = <<>>
  BY DEF Init
<1> QED
  BY <1>1, FrameInit DEF ServerInv, CutInv, QueueHasServer

\* A turn that leaves "handback" alive has emptied the queue.
LEMMA HandBackEmpties ==
    ASSUME TypeInv, NEW r \in Prompts, TurnStep(r), turn[r].at = "handback",
           turn'[r].at # "dead"
    PROVE  sess'[req[r].to].pending = <<>>
<1>0. /\ req[r].to \in Sessions /\ sess \in [Sessions -> SessionState]
      /\ turn \in [Prompts -> TurnState]
  BY Acting DEF TypeInv, TypeOK
<1>1. \A p : Runs(r, p) => p = "handback"
  BY DEF Runs
<1>2. \A p : Hit(r, p) => p = "handback"
  BY DEF Hit
<1>3. ~(\/ Start(r) \/ EnterLoop(r) \/ InjectNext(r) \/ InjectDone(r)
        \/ BudgetSpent(r) \/ BudgetRenewed(r) \/ RoundCancelled(r)
        \/ RoundSteered(r) \/ RoundPlain(r) \/ InjectedAsk(r))
  BY <1>1 DEF Start, EnterLoop, InjectNext, InjectDone, BudgetSpent,
              BudgetRenewed, RoundCancelled, RoundSteered, RoundPlain,
              InjectedAsk
<1>4. ~(\/ Compacted(r) \/ StreamCut(r) \/ StreamRepair(r) \/ Repaired(r)
        \/ StreamFailed(r) \/ ErrorDone(r) \/ AnswerSteered(r)
        \/ AnswerFinal(r) \/ ToolCalls(r) \/ ToolsDone(r) \/ Return(r)
        \/ Raise(r))
  BY <1>1 DEF Compacted, StreamCut, StreamRepair, Repaired, StreamFailed,
              ErrorDone, AnswerSteered, AnswerFinal, ToolCalls, ToolsDone,
              Return, Raise
<1>5. ~(\/ FinallyCancelled(r) \/ FinallyFailed(r) \/ FallbackDone(r)
        \/ Release(r) \/ Exit(r))
  BY <1>1 DEF FinallyCancelled, FinallyFailed, FallbackDone, Release, Exit
<1>6. ~HitInStream(r) /\ ~HitInLoop(r)
  BY <1>2 DEF HitInStream, HitInLoop, InTry
<1>7. ~HitOutside(r)
  BY <1>0 DEF HitOutside, NewTurn
<1>8. HandBack(r)
  BY <1>3, <1>4, <1>5, <1>6, <1>7 DEF TurnStep
<1> QED
  BY <1>0, <1>8 DEF HandBack, Unqueued, SessionState

LEMMA ServerTurnStep ==
    ASSUME ServerInv, NEW r \in Prompts, TurnStep(r)
    PROVE  CutInv' /\ QueueHasServer'
<1>0. /\ TypeInv /\ Serves(r) /\ req' = req /\ turn[r].at # "idle"
      /\ \A q \in Prompts \ {r} : turn'[q] = turn[q]
      /\ Works(r) \/ Releases(r) \/ Leaves(r) \/ Dies(r)
      /\ turn[r].at # "dead"
  <2>1. TypeInv /\ PromptInv
    BY DEF ServerInv, FrameInv, OccInv
  <2>2. Works(r) \/ Releases(r) \/ Leaves(r) \/ Dies(r)
    BY <2>1, TurnEffect
  <2>3. turn[r].at # "dead"
    BY <2>2 DEF Works, Releases, Leaves, Dies, Holding, InTry
  <2> QED
    BY <2>1, <2>2, <2>3, TurnServes, TurnShape, Acting
<1>1. CutInv'
  <2>1. ASSUME NEW q \in Prompts, log'[q].cut # "idle"
        PROVE  turn'[q].at = "dead"
    <3>1. log'[q].cut = log[q].cut \/ (q = r /\ turn'[r].at = "dead")
      BY <1>0 DEF Works, Releases, Leaves, Dies, SameCuts, SameCut
    <3>2. log[q].cut # "idle" => turn[q].at = "dead"
      BY DEF ServerInv, CutInv
    <3> QED
      BY <1>0, <2>1, <3>1, <3>2
  <2> QED
    BY <2>1 DEF CutInv
<1>2. ASSUME NEW s \in Sessions, sess'[s].pending # <<>>
      PROVE  \E q \in Prompts : Server(q, s)'
  <2>1. PICK q \in Prompts : Server(q, s)
    BY <1>0, <1>2 DEF Serves, ServerInv, QueueHasServer, Server
  <2>2. CASE q # r
    <3>1. turn'[q] = turn[q] /\ req'[q] = req[q] /\ log'[q].cut = log[q].cut
      BY <1>0, <2>2 DEF Works, Releases, Leaves, Dies, SameCuts, SameCut
    <3>2. Server(q, s)'
      BY <2>1, <3>1 DEF Server, Holds, Leaked
    <3> QED
      BY <3>2
  <2>3. CASE q = r
    <3>1. req'[r].to = s /\ req[r].to = s /\ turn[r].at \in Holding \cup {"handback"}
      BY <1>0, <2>1, <2>3 DEF Server, Holds, Leaked, ServerInv, CutInv
    <3>2. CASE turn[r].at # "handback"
      <4>1. turn[r].at \in Holding /\ turn[r].at # "exit"
        BY <3>1, <3>2 DEF Holding, InTry
      <4>2. CASE Works(r)
        BY <3>1, <4>2 DEF Works, Server, Holds
      <4>3. CASE Releases(r)
        BY <3>1, <4>3 DEF Releases, Server
      <4>4. CASE Dies(r)
        BY <3>1, <4>1, <4>4, <3>2 DEF Dies, Server, Leaked
      <4> QED
        BY <1>0, <3>2, <4>1, <4>2, <4>3, <4>4 DEF Leaves
    <3>3. CASE turn[r].at = "handback"
      <4>1. turn'[r].at = "dead"
        BY <1>0, <1>2, <3>1, <3>3, HandBackEmpties
      <4>2. log'[r].cut = "handback"
        BY <1>0, <3>3, <4>1 DEF Works, Releases, Leaves, Dies, Holding, InTry
      <4> QED
        BY <3>1, <4>2 DEF Server
    <3> QED
      BY <3>2, <3>3
  <2> QED
    BY <2>2, <2>3
<1>3. QueueHasServer'
  BY <1>2 DEF QueueHasServer, Server
<1> QED
  BY <1>1, <1>3

LEMMA ServerFrameStep ==
    ASSUME ServerInv, FrameStep PROVE CutInv' /\ QueueHasServer'
<1>0. /\ Minds
      /\ SameCuts
      /\ \A q \in Prompts : log[q].cut # "idle" => turn[q].at = "dead"
  <2>1. TypeInv /\ PromptInv /\ UnsentInv
    BY DEF ServerInv, FrameInv, OccInv
  <2>2. SameCuts
    BY <2>1, FrameEffect DEF Passes, Begins
  <2> QED
    BY <2>1, <2>2, FrameMinds DEF ServerInv, CutInv
<1>1. CutInv'
  BY <1>0 DEF Minds, Stands, Awoken, SameCuts, SameCut, CutInv
<1>2. ASSUME NEW s \in Sessions, sess'[s].pending # <<>>
      PROVE  \E q \in Prompts : Server(q, s)'
  <2>1. \E q \in Prompts : Server(q, s)
    <3>1. CASE sess'[s].pending = sess[s].pending
      BY <1>2, <3>1 DEF ServerInv, QueueHasServer, Server
    <3>2. CASE Joined(s)
      BY <3>2 DEF Joined, ServerInv, FrameInv, OccInv, BusyMeansHeld, Server
    <3> QED
      BY <1>0, <1>2, <3>1, <3>2 DEF Minds
  <2>2. PICK q \in Prompts : Server(q, s)
    BY <2>1
  <2>3. turn[q].at # "idle"
    BY <1>0, <2>2 DEF Server, Holds, Leaked, Holding, InTry
  <2>4. Stands(q) /\ req'[q] = req[q]
    BY <1>0, <2>3 DEF Minds, Stands, Awoken
  <2>5. Server(q, s)'
    BY <1>0, <2>2, <2>4 DEF Server, Holds, Leaked, Stands, SameCuts, SameCut
  <2> QED
    BY <2>5
<1>3. QueueHasServer'
  BY <1>2 DEF QueueHasServer, Server
<1> QED
  BY <1>1, <1>3

LEMMA ServerStep == ServerInv /\ [Next]_vars => ServerInv'
<1> SUFFICES ASSUME ServerInv, [Next]_vars PROVE ServerInv'
  OBVIOUS
<1>1. FrameInv'
  BY FrameInvStep DEF ServerInv
<1>2. CASE UNCHANGED vars
  BY <1>1, <1>2
     DEF vars, ServerInv, CutInv, QueueHasServer, Holds, Leaked
<1> QED
  BY <1>1, <1>2, ServerTurnStep, ServerFrameStep DEF ServerInv, Next, FrameStep

\* What stands in a queue has a turn that will look there again, or one that
\* was cut off on its way: no interleaving of the last answer, the release
\* and a new prompt strands a queued prompt.
THEOREM QueueServed == Spec => []QueueHasServer
<1>1. ServerInv => QueueHasServer
  BY DEF ServerInv
<1>2. Spec => []ServerInv
  BY ServerInit, ServerStep, PTL DEF Spec
<1> QED
  BY <1>1, <1>2, PTL

-----------------------------------------------------------------------------
(* The calm daemon: no socket fills while a frame is sent, and a task is   *)
(* stepped before the next frame is read.                                  *)

Calm == SlowConns = {} /\ EarlyFrames = FALSE

\* Where a turn is only while it holds the loop: a broadcast that does not
\* suspend is no place to be cancelled at.
Brief == {"loop", "fallback", "release", "handback", "exit"}

\* A turn is cancelled neither before its first step nor outside the try of
\* its wrapper: it is never cut off.
QuietInv ==
    \A r \in Prompts :
        /\ turn[r].at = "created" => ~turn[r].kill
        /\ turn[r].at \in Brief => loop = r
        /\ turn[r].at # "dead"

\* While a turn hands its queue back no other has its session.
AloneInv ==
    \A r, q \in Prompts :
        turn[r].at = "handback" => ~Holds(q, req[r].to)

CalmInv == ServerInv /\ QuietInv /\ AloneInv /\ FramesKeepToDirectory

LEMMA CalmBroadcast ==
    ASSUME Calm, NEW r, NEW s, NEW cwd, Broadcast(r, s, cwd)
    PROVE  loop' = r
<1>1. Targets(s, cwd) \cap SlowConns = {}
  BY DEF Calm
<1> QED
  BY <1>1 DEF Broadcast

\* What a step of r does to the directories and to the loop.
SameCwds == \A s \in Sessions : sess'[s].cwd = sess[s].cwd

Directs(r) ==
    \A s \in Sessions :
        \/ /\ sess'[s].cwd = sess[s].cwd
           /\ turn[r].at # "created" \/ s # req[r].to
        \/ /\ s = req[r].to /\ turn[r].at = "created"
           /\ sess'[s].cwd = Cwd[req[r].from]
        \/ s = req[r].to /\ turn[r].at = "handback"

Steady(r) ==
    /\ loop \in {r, None}
    /\ turn'[r].at \in Brief => loop' = r
    /\ turn'[r].at # "dead"
    /\ Directs(r)

LEMMA CwdsKept ==
    ASSUME TypeOK, NEW t \in Sessions
    PROVE  /\ sess' = sess => SameCwds
           /\ sess' = [sess EXCEPT ![t].terminal = TRUE] => SameCwds
           /\ sess' = Unqueued(t) => SameCwds
           /\ \A r \in Prompts : sess' = Released(t, r) => SameCwds
           /\ \A r \in Prompts : sess' = Queued(r, t) => SameCwds
           /\ \A r \in Prompts :
                sess' = [sess EXCEPT ![t].busy = TRUE, ![t].event = r] => SameCwds
           /\ \A r \in Prompts :
                sess' = [sess EXCEPT ![t].busy = TRUE, ![t].event = r, ![t].task = r]
                  => SameCwds
<1>0. sess \in [Sessions -> SessionState] /\ \A s \in Sessions : sess[s] \in SessionState
  BY DEF TypeOK
<1>1. sess' = sess => SameCwds
  BY DEF SameCwds
<1>2. sess' = [sess EXCEPT ![t].terminal = TRUE] => SameCwds
  BY <1>0 DEF SameCwds, SessionState
<1>3. sess' = Unqueued(t) => SameCwds
  BY <1>0 DEF SameCwds, SessionState, Unqueued
<1>4. \A r \in Prompts : sess' = Released(t, r) => SameCwds
  BY <1>0 DEF SameCwds, SessionState, Released
<1>5. \A r \in Prompts : sess' = Queued(r, t) => SameCwds
  BY <1>0 DEF SameCwds, SessionState, Queued
<1>6. \A r \in Prompts :
        sess' = [sess EXCEPT ![t].busy = TRUE, ![t].event = r] => SameCwds
  BY <1>0 DEF SameCwds, SessionState
<1>7. \A r \in Prompts :
        sess' = [sess EXCEPT ![t].busy = TRUE, ![t].event = r, ![t].task = r]
          => SameCwds
  BY <1>0 DEF SameCwds, SessionState
<1> QED
  BY <1>1, <1>2, <1>3, <1>4, <1>5, <1>6, <1>7

LEMMA TurnSteady ==
    ASSUME Calm, TypeInv, QuietInv, NEW r \in Prompts, TurnStep(r)
    PROVE  Steady(r)
<1> DEFINE to == req[r].to
           Onward == turn'[r].at \notin Brief \cup {"dead"}
<1>0. /\ TypeOK /\ to \in Sessions
      /\ turn \in [Prompts -> TurnState] /\ turn[r] \in TurnState
      /\ sess \in [Sessions -> SessionState] /\ sess[to] \in SessionState
  BY Acting DEF TypeInv, TypeOK
<1>a. \A p : Runs(r, p) => turn[r].at = p /\ loop \in {r, None}
  BY DEF Runs
<1>b. \A p : Hit(r, p) => turn[r].at = p /\ loop \in {r, None}
  BY DEF Hit
<1>1. ASSUME turn[r].at # "created", loop \in {r, None}, SameCwds,
             Onward \/ (loop' = r /\ turn'[r].at # "dead")
      PROVE  Steady(r)
  BY <1>1 DEF Steady, Directs, SameCwds
<1>2. CASE Start(r)
  <2>1. turn[r].at = "created" /\ loop \in {r, None}
    BY <1>2, <1>a DEF Start
  <2>2. turn'[r].at = "loop"
    BY <1>0, <1>2 DEF Start, TurnState
  <2>3. loop' = r
    BY <1>2, CalmBroadcast DEF Start
  <2>4. sess'[to].cwd = Cwd[req[r].from]
        /\ \A s \in Sessions \ {to} : sess'[s] = sess[s]
    BY <1>0, <1>2 DEF Start, SessionState
  <2> QED
    BY <2>1, <2>2, <2>3, <2>4 DEF Steady, Directs
<1>3. CASE EnterLoop(r) \/ InjectNext(r) \/ InjectDone(r) \/ ToolsDone(r)
  <2>1. turn[r].at \in {"loop", "inject", "tools"} /\ loop \in {r, None}
    BY <1>3, <1>a DEF EnterLoop, InjectNext, InjectDone, ToolsDone
  <2>2. turn'[r].at \in {"round", "inject"}
    BY <1>0, <1>3, <2>1
       DEF EnterLoop, InjectNext, InjectDone, ToolsDone, TurnState, Runs
  <2>3. sess' = sess
    BY <1>3 DEF EnterLoop, InjectNext, InjectDone, ToolsDone
  <2>4. Onward
    BY <2>2 DEF Brief
  <2> QED
    BY <1>0, <1>1, <2>1, <2>3, <2>4, CwdsKept
<1>4. ASSUME NEW p \in {"answered", "return", "release"}, SayDone(r, p),
             turn[r].at # "created", loop \in {r, None}
      PROVE  Steady(r)
  <2>1. turn'[r].at = p
    BY <1>0, <1>4 DEF SayDone, TurnState
  <2>2. loop' = r
    BY <1>4, CalmBroadcast DEF SayDone, Speak
  <2>3. SameCwds
    BY <1>0, <1>4, CwdsKept DEF SayDone
  <2> QED
    BY <1>1, <1>4, <2>1, <2>2, <2>3
<1>5. ASSUME NEW n, Take(r, n), turn[r].at # "created", loop \in {r, None}
      PROVE  Steady(r)
  <2>1. turn'[r].at = "inject"
    BY <1>0, <1>5 DEF Take, TurnState
  <2>2. Onward
    BY <2>1 DEF Brief
  <2> QED
    BY <1>0, <1>1, <1>5, <2>2, CwdsKept DEF Take
<1>6. ASSUME Ask(r), turn[r].at # "created", loop \in {r, None}
      PROVE  Steady(r)
  <2>1. PICK place \in {"compact", "stream"} :
            turn' = [turn EXCEPT ![r].at = place, ![r].next = "round"]
    BY <1>6 DEF Ask
  <2>2. turn'[r].at = place
    BY <1>0, <2>1 DEF TurnState
  <2>3. Onward
    BY <2>2 DEF Brief
  <2> QED
    BY <1>0, <1>1, <1>6, <2>3, CwdsKept DEF Ask
<1>7. ASSUME NEW p \in {"stream", "round", "errdone", "tools", "fallback"},
             MoveTo(r, p), p = "fallback" => Speak(r),
             turn[r].at # "created", loop \in {r, None}
      PROVE  Steady(r)
  <2>1. turn'[r].at = p
    BY <1>0, <1>7 DEF MoveTo, TurnState
  <2>2. p = "fallback" => loop' = r
    BY <1>7, CalmBroadcast DEF Speak
  <2>3. Onward \/ (loop' = r /\ turn'[r].at # "dead")
    BY <2>1, <2>2 DEF Brief
  <2> QED
    BY <1>0, <1>1, <1>7, <2>3, CwdsKept DEF MoveTo
<1>8. CASE \/ BudgetSpent(r) \/ RoundCancelled(r) \/ StreamCut(r)
           \/ ErrorDone(r) \/ AnswerFinal(r) \/ FinallyCancelled(r)
           \/ FallbackDone(r) \/ HitInStream(r)
  <2>1. turn[r].at # "created" /\ loop \in {r, None}
    BY <1>8, <1>a, <1>b
       DEF BudgetSpent, RoundCancelled, StreamCut, ErrorDone, AnswerFinal,
           FinallyCancelled, FallbackDone, HitInStream
  <2> QED
    BY <1>4, <1>8, <2>1
       DEF BudgetSpent, RoundCancelled, StreamCut, ErrorDone, AnswerFinal,
           FinallyCancelled, FallbackDone, HitInStream
<1>9. CASE BudgetRenewed(r) \/ RoundSteered(r) \/ AnswerSteered(r)
  BY <1>5, <1>9, <1>a DEF BudgetRenewed, RoundSteered, AnswerSteered
<1>10. CASE RoundPlain(r) \/ InjectedAsk(r)
  BY <1>6, <1>10, <1>a DEF RoundPlain, InjectedAsk
<1>11. CASE \/ Compacted(r) \/ Repaired(r) \/ StreamFailed(r) \/ ToolCalls(r)
            \/ FinallyFailed(r)
  <2>1. turn[r].at # "created" /\ loop \in {r, None}
    BY <1>11, <1>a DEF Compacted, Repaired, StreamFailed, ToolCalls, FinallyFailed
  <2> QED
    BY <1>7, <1>11, <2>1
       DEF Compacted, Repaired, StreamFailed, ToolCalls, FinallyFailed
<1>12. CASE StreamRepair(r)
  <2>1. turn[r].at # "created" /\ loop \in {r, None}
    BY <1>12, <1>a DEF StreamRepair
  <2>2. PICK k \in turn[r].retries :
            turn' = [turn EXCEPT ![r].at = "repair", ![r].retries = @ \ {k}]
    BY <1>12 DEF StreamRepair
  <2>3. turn'[r].at = "repair"
    BY <1>0, <2>2 DEF TurnState
  <2>4. Onward
    BY <2>3 DEF Brief
  <2> QED
    BY <1>0, <1>1, <1>12, <2>1, <2>4, CwdsKept DEF StreamRepair
<1>13. ASSUME NEW n, NEW f, turn' = [turn EXCEPT ![r] = Leaving(r, n, f)],
              sess' = sess, turn[r].at # "created", loop \in {r, None}
       PROVE  Steady(r)
  <2>1. turn'[r].at = "finally"
    BY <1>0, <1>13 DEF Leaving, NewTurn
  <2>2. Onward
    BY <2>1 DEF Brief
  <2> QED
    BY <1>0, <1>1, <1>13, <2>2, CwdsKept
<1>14. CASE Return(r)
  <2>1. turn[r].at # "created" /\ loop \in {r, None}
    BY <1>14, <1>a DEF Return
  <2>2. turn' = [turn EXCEPT ![r] = Leaving(r, TRUE, "none")] /\ sess' = sess
    BY <1>14 DEF Return
  <2> QED
    BY <1>13, <2>1, <2>2
<1>15. CASE Raise(r) \/ HitInLoop(r)
  <2>1. turn[r].at # "created" /\ loop \in {r, None}
    BY <1>15, <1>a, <1>b DEF Raise, HitInLoop, InTry
  <2>2. PICK f \in {"cancelled", "failed"} : Unwind(r, f)
    BY <1>15 DEF Raise, HitInLoop
  <2>3. turn' = [turn EXCEPT ![r] = Leaving(r, FALSE, f)] /\ sess' = sess
    BY <2>2 DEF Unwind
  <2> QED
    BY <1>13, <2>1, <2>3
<1>16. CASE Release(r)
  <2>1. turn[r].at # "created" /\ loop \in {r, None}
    BY <1>16, <1>a DEF Release
  <2>2. turn'[r].at = "handback" /\ sess' = Released(to, r)
    BY <1>0, <1>16 DEF Release, TurnState
  <2>3. loop' = r
    BY <1>16, CalmBroadcast DEF Release, Speak
  <2> QED
    BY <1>0, <1>1, <2>1, <2>2, <2>3, CwdsKept
<1>17. CASE HandBack(r)
  <2>1. turn[r].at = "handback" /\ loop \in {r, None}
    BY <1>17, <1>a DEF HandBack
  <2>2. \A s \in Sessions \ {to} : sess'[s] = sess[s]
    BY <1>0, <1>17 DEF HandBack, Unqueued
  <2>3. CASE Finish(r)
    <3>1. turn'[r].at = "finished"
      BY <1>0, <2>3 DEF Finish, NewTurn
    <3> QED
      BY <2>1, <2>2, <3>1 DEF Steady, Directs, Brief
  <2>4. CASE Broadcast(r, to, None) /\ turn' = [turn EXCEPT ![r].at = "exit"]
    <3>1. turn'[r].at = "exit"
      BY <1>0, <2>4 DEF TurnState
    <3>2. loop' = r
      BY <2>4, CalmBroadcast
    <3> QED
      BY <2>1, <2>2, <3>1, <3>2 DEF Steady, Directs
  <2> QED
    BY <1>17, <2>3, <2>4 DEF HandBack
<1>18. CASE Exit(r)
  <2>1. turn[r].at = "exit" /\ loop \in {r, None}
    BY <1>18, <1>a DEF Exit
  <2>2. turn'[r].at = "finished"
    BY <1>0, <1>18 DEF Exit, Finish, NewTurn
  <2>3. Onward
    BY <2>2 DEF Brief
  <2> QED
    BY <1>0, <1>1, <1>18, <2>1, <2>3, CwdsKept DEF Exit
<1>19. CASE HitOutside(r)
  <2>1. loop = None /\ turn[r].kill
    BY <1>19 DEF HitOutside, Hit
  <2>2. turn[r].at = "created" \/ turn[r].at \in Brief
    BY <1>19 DEF HitOutside, Hit, Brief
  <2>3. r # None
    BY NoneAssumption
  <2> QED
    BY <2>1, <2>2, <2>3 DEF QuietInv
<1> QED
  BY <1>2, <1>3, <1>8, <1>9, <1>10, <1>11, <1>12, <1>14, <1>15, <1>16, <1>17,
     <1>18, <1>19 DEF TurnStep

\* What a frame, or the tick, does: it comes while nobody holds the loop,
\* and leaves the directories as they are.
LEMMA FrameSteady ==
    ASSUME Calm, TypeInv, QuietInv, FrameStep
    PROVE  /\ loop = None /\ SameCwds
           /\ \A q \in Prompts : turn'[q].at = "created" => ~turn'[q].kill
<1> DEFINE Fresh == \A q \in Prompts : turn'[q].at = "created" => ~turn'[q].kill
           Goal == loop = None /\ SameCwds /\ Fresh
<1>0. /\ TypeOK
      /\ turn \in [Prompts -> TurnState] /\ sess \in [Sessions -> SessionState]
  BY DEF TypeInv, TypeOK
<1>1. turn' = turn => Fresh
  BY DEF QuietInv
<1>2. ASSUME NEW c \in Conns, FrameReady(c)
      PROVE  loop = None /\ \A q \in Prompts : turn[q].at # "created"
  BY <1>2 DEF FrameReady, Calm
<1>3. ASSUME NEW e, NEW t, turn' = Stopped(turn, e, t),
             \A q \in Prompts : turn[q].at # "created"
      PROVE  Fresh
  BY <1>0, <1>3, StoppedSame
<1>4. ASSUME NEW c \in Conns, ClientStep(c) PROVE Goal
  <2>1. CASE CancelAwaited(c) \/ Closed(c)
    BY <1>0, <1>1, <2>1 DEF CancelAwaited, Closed, SameCwds
  <2>2. CASE Disconnect(c)
    BY <1>2, <1>3, <2>2 DEF Disconnect, SameCwds
  <2>3. CASE \E s \in Sessions : Open(c, s)
    BY <1>1, <1>2, <2>3 DEF Open, SameCwds
  <2>4. ASSUME NEW s \in Sessions, ClearQueue(c, s) PROVE Goal
    BY <1>0, <1>1, <1>2, <2>4, CwdsKept DEF ClearQueue
  <2>5. CASE \E n \in Sessions \cup {None} : CancelFrame(c, n)
    BY <1>2, <1>3, <2>5 DEF CancelFrame, SameCwds
  <2>6. ASSUME NEW r \in Prompts, NEW s \in Sessions, QueueTask(c, r, s)
        PROVE  Goal
    BY <1>0, <1>1, <1>2, <2>6, CwdsKept DEF QueueTask
  <2>7. ASSUME NEW r \in Prompts, NEW s \in Sessions, StartTask(c, r, s)
        PROVE  Goal
    <3>1. loop = None /\ \A q \in Prompts : turn[q].at # "created"
      BY <1>2, <2>7 DEF StartTask
    <3>2. SameCwds
      BY <1>0, <2>7, CwdsKept DEF StartTask
    <3>3. PICK e : turn' = [Stopped(turn, e, e) EXCEPT ![r] = NewTurn]
      BY <2>7 DEF StartTask
    <3>4. turn'[r] = NewTurn
      BY <1>0, <3>3, StoppedType
    <3>5. \A q \in Prompts \ {r} : turn'[q] = Stopped(turn, e, e)[q]
      BY <1>0, <3>3, StoppedType
    <3>6. Fresh
      <4>1. ASSUME NEW q \in Prompts, q # r PROVE turn'[q].at # "created"
        BY <1>0, <3>1, <3>5, <4>1, StoppedSame
      <4>2. ~turn'[r].kill
        BY <3>4 DEF NewTurn
      <4> QED
        BY <4>1, <4>2
    <3> QED
      BY <3>1, <3>2, <3>6
  <2> QED
    BY <1>4, <2>1, <2>2, <2>3, <2>4, <2>5, <2>6, <2>7 DEF ClientStep
<1>5. ASSUME NEW r \in Prompts, NEW s \in Sessions, TickQueues(r, s) PROVE Goal
  BY <1>0, <1>1, <1>5, CwdsKept DEF TickQueues, TickReady
<1>6. ASSUME NEW r \in Prompts, NEW s \in Sessions, TickStarts(r, s) PROVE Goal
  <2>1. turn'[r] = NewTurn /\ \A q \in Prompts \ {r} : turn'[q] = turn[q]
    BY <1>0, <1>6 DEF TickStarts
  <2>2. Fresh
    BY <2>1 DEF QuietInv, NewTurn
  <2>3. SameCwds
    BY <1>0, <1>6, CwdsKept DEF TickStarts
  <2> QED
    BY <1>6, <2>2, <2>3 DEF TickStarts, TickReady
<1> QED
  BY <1>4, <1>5, <1>6 DEF FrameStep, TickStep

LEMMA CalmInit == Init => CalmInv
<1> SUFFICES ASSUME Init PROVE CalmInv
  OBVIOUS
<1>1. \A r \in Prompts : turn[r].at = "idle"
  BY DEF Init, NewTurn
<1> QED
  BY <1>1, ServerInit
     DEF CalmInv, QuietInv, AloneInv, FramesKeepToDirectory, Brief, Holds,
         Holding, InTry

LEMMA CalmTurnStep ==
    ASSUME Calm, CalmInv, NEW r \in Prompts, TurnStep(r)
    PROVE  QuietInv' /\ AloneInv' /\ FramesKeepToDirectory'
<1>0. /\ TypeInv /\ OccInv /\ QuietInv /\ AloneInv /\ FramesKeepToDirectory
      /\ Steady(r) /\ req' = req /\ req[r].to \in Sessions
      /\ \A q \in Prompts \ {r} : turn'[q] = turn[q]
      /\ turn'[r].at \notin {"idle", "created"}
      /\ Works(r) \/ Releases(r) \/ Leaves(r) \/ Dies(r)
      /\ turn'[r].at # "dead"
  <2>1. TypeInv /\ OccInv /\ QuietInv /\ AloneInv /\ FramesKeepToDirectory
    BY DEF CalmInv, ServerInv, FrameInv, OccInv
  <2> QED
    BY <2>1, TurnSteady, TurnShape, TurnEffect, Acting DEF Steady
<1>1. \A q \in Prompts \ {r} : turn[q].at \notin Brief
  BY <1>0, NoneAssumption DEF QuietInv, Steady
<1>2. QuietInv'
  BY <1>0, <1>1 DEF QuietInv, Steady
<1>3. \A q \in Prompts \ {r}, s \in Sessions : Holds(q, s)' <=> Holds(q, s)
  BY <1>0 DEF Holds
<1>4. AloneInv'
  <2>1. ASSUME NEW p \in Prompts, NEW q \in Prompts, turn'[p].at = "handback",
               Holds(q, req[p].to)'
        PROVE  FALSE
    <3>1. p = r
      BY <1>0, <1>1, <2>1 DEF Brief
    <3>2. turn[r].at \in Holding
      BY <1>0, <2>1, <3>1 DEF Works, Releases, Leaves, Holding, InTry, Dies
    <3>3. Occupies(r, req[r].to)
      BY <3>2 DEF Occupies, Holds
    <3>4. q # r
      BY <2>1, <3>1 DEF Holds, Holding, InTry
    <3>5. Occupies(q, req[r].to)
      BY <1>3, <1>0, <2>1, <3>1, <3>4 DEF Occupies
    <3> QED
      BY <1>0, <3>3, <3>4, <3>5 DEF OccInv, OccupantInv
  <2> QED
    BY <1>0, <2>1 DEF AloneInv, Holds
<1>5. ASSUME NEW q \in Prompts, NEW s \in Sessions, Holds(q, s)',
             turn'[q].at # "created"
      PROVE  sess'[s].cwd = Cwd[req'[q].from]
  <2>1. CASE q = r
    <3>1. req[r].to = s /\ turn[r].at \in Holding
      BY <1>0, <1>5, <2>1
         DEF Works, Releases, Leaves, Dies, Holds, Holding, InTry
    <3>2. turn[r].at # "handback"
      BY <3>1 DEF Holding, InTry
    <3>3. CASE turn[r].at = "created"
      BY <1>0, <2>1, <3>1, <3>2, <3>3 DEF Steady, Directs
    <3>4. CASE turn[r].at # "created"
      <4>1. sess'[s].cwd = sess[s].cwd
        BY <1>0, <3>2, <3>4 DEF Steady, Directs
      <4> QED
        BY <1>0, <2>1, <3>1, <3>4, <4>1 DEF FramesKeepToDirectory, Holds
    <3> QED
      BY <3>3, <3>4
  <2>2. CASE q # r
    <3>1. Holds(q, s) /\ turn[q].at # "created"
      BY <1>0, <1>3, <1>5, <2>2
    <3>2. ~Holds(r, s)
      BY <1>0, <2>2, <3>1 DEF OccInv, OccupantInv, Occupies
    <3>3. ~(s = req[r].to /\ turn[r].at \in {"created", "handback"})
      BY <1>0, <3>1, <3>2 DEF Holds, Holding, AloneInv
    <3>4. sess'[s].cwd = sess[s].cwd
      BY <1>0, <3>3 DEF Steady, Directs
    <3> QED
      BY <1>0, <3>1, <3>4 DEF FramesKeepToDirectory
  <2> QED
    BY <2>1, <2>2
<1>6. FramesKeepToDirectory'
  BY <1>5 DEF FramesKeepToDirectory
<1> QED
  BY <1>2, <1>4, <1>6

LEMMA CalmFrameStep ==
    ASSUME Calm, CalmInv, FrameStep
    PROVE  QuietInv' /\ AloneInv' /\ FramesKeepToDirectory'
<1>0. /\ TypeInv /\ UnsentInv /\ QuietInv /\ FramesKeepToDirectory
      /\ loop = None /\ SameCwds
      /\ \A q \in Prompts : turn'[q].at = "created" => ~turn'[q].kill
      /\ \A q \in Prompts : turn[q].at \notin Brief
  <2>1. TypeInv /\ UnsentInv /\ QuietInv /\ FramesKeepToDirectory
    BY DEF CalmInv, ServerInv, FrameInv, OccInv
  <2>2. loop = None
    BY <2>1, FrameSteady
  <2>3. \A q \in Prompts : turn[q].at \notin Brief
    BY <2>1, <2>2, NoneAssumption DEF QuietInv
  <2> QED
    BY <2>1, <2>2, <2>3, FrameSteady
<1>1. \A q \in Prompts :
        \/ turn'[q].at = "created"
        \/ turn'[q].at = turn[q].at /\ (turn[q].at # "idle" => req'[q] = req[q])
  BY <1>0, FrameEffect DEF Passes, Begins
<1>2. \A q \in Prompts : turn'[q].at \notin Brief
  BY <1>0, <1>1 DEF Brief
<1>3. QuietInv'
  BY <1>0, <1>1, <1>2 DEF QuietInv
<1>4. AloneInv'
  BY <1>2 DEF AloneInv, Brief
<1>5. ASSUME NEW q \in Prompts, NEW s \in Sessions, Holds(q, s)',
             turn'[q].at # "created"
      PROVE  sess'[s].cwd = Cwd[req'[q].from]
  <2>1. turn[q].at # "idle"
    BY <1>1, <1>5 DEF Holds, Holding, InTry
  <2>2. turn'[q].at = turn[q].at /\ req'[q] = req[q]
    BY <1>1, <1>5, <2>1
  <2> QED
    BY <1>0, <1>5, <2>2 DEF Holds, FramesKeepToDirectory, SameCwds
<1>6. FramesKeepToDirectory'
  BY <1>5 DEF FramesKeepToDirectory
<1> QED
  BY <1>3, <1>4, <1>6

LEMMA CalmStep ==
    ASSUME Calm PROVE CalmInv /\ [Next]_vars => CalmInv'
<1> SUFFICES ASSUME CalmInv, [Next]_vars PROVE CalmInv'
  OBVIOUS
<1>1. ServerInv'
  BY ServerStep DEF CalmInv
<1>2. CASE UNCHANGED vars
  BY <1>1, <1>2
     DEF vars, CalmInv, QuietInv, AloneInv, FramesKeepToDirectory, Holds
<1>3. CASE Next
  BY <1>1, <1>3, CalmTurnStep, CalmFrameStep DEF CalmInv, Next, FrameStep
<1> QED
  BY <1>2, <1>3

LEMMA CalmInvariant == ASSUME Calm PROVE Spec => []CalmInv
<1>1. CalmInv /\ [Next]_vars => CalmInv'
  BY CalmStep
<1> QED
  BY <1>1, CalmInit, PTL DEF Spec

\* In the calm daemon a busy session has a live turn: `Run _run_tool_loop and
\* release the session busy lock on exit' holds outright.
THEOREM LockReleased == ASSUME Calm PROVE Spec => []LockReleasedOnExit
<1>1. CalmInv => LockReleasedOnExit
  BY DEF CalmInv, ServerInv, FrameInv, OccInv, BusyMeansHeld, Leaked, QuietInv,
         LockReleasedOnExit
<1> QED
  BY <1>1, CalmInvariant, PTL

\* In the calm daemon a working turn's frames go to its own directory's
\* subscribers: no hand-back of an earlier turn takes the directory from it.
THEOREM FramesKept == ASSUME Calm PROVE Spec => []FramesKeepToDirectory
<1>1. CalmInv => FramesKeepToDirectory
  BY DEF CalmInv
<1> QED
  BY <1>1, CalmInvariant, PTL

=============================================================================
