----------------------- MODULE PromptDelivery_proofs -----------------------
(***************************************************************************)
(* The turn lifecycle implements PromptDelivery: whatever turns, cancels   *)
(* and hang-ups a prompt meets, it is written to the history at most once, *)
(* and only from the daemon's hands, and the prompts of one session in the *)
(* order in which it took them.                                            *)
(***************************************************************************)
EXTENDS SessionTurns_proofs

-----------------------------------------------------------------------------
(* The prompts in the daemon's hands.                                      *)

Opening == {"created", "loop"}

Distinct(w) == \A i, j \in DOMAIN w : w[i] = w[j] => i = j

\* A prompt stands in one place only, and is not written while it does.
HandInv ==
    /\ \A s \in Sessions : Distinct(sess[s].pending)
    /\ \A r \in Prompts :
         /\ Distinct(turn[r].batch)
         /\ turn[r].at # "inject" => turn[r].batch = <<>>
         /\ \A q \in ToSet(turn[r].batch) : log[q].fate = "taken"
         /\ turn[r].at \in Opening => log[r].fate = "opening"
         /\ log[r].fate \in Waiting \cup {"opening", "taken"}
              => log[r].commits = 0
    /\ \A q, r \in Prompts : q # r =>
         ToSet(turn[q].batch) \cap ToSet(turn[r].batch) = {}

DeliveryInv == TypeInv /\ PromptInv /\ HandInv

LEMMA DistinctFacts ==
    /\ Distinct(<<>>)
    /\ \A w \in Seq(Prompts) : Distinct(w) =>
         /\ w # <<>> => /\ Distinct(Tail(w))
                        /\ ToSet(Tail(w)) = ToSet(w) \ {Head(w)}
         /\ \A r \in Prompts \ ToSet(w) :
              Distinct(Append(w, r)) /\ ToSet(Append(w, r)) = ToSet(w) \cup {r}
<1>1. Distinct(<<>>)
  BY DEF Distinct
<1>2. ASSUME NEW w \in Seq(Prompts), Distinct(w), w # <<>>
      PROVE  Distinct(Tail(w)) /\ ToSet(Tail(w)) = ToSet(w) \ {Head(w)}
  <2>1. /\ Len(w) \in Nat /\ Len(w) # 0 /\ Head(w) = w[1]
        /\ DOMAIN w = 1..Len(w) /\ DOMAIN Tail(w) = 1..(Len(w) - 1)
        /\ \A i \in 1..(Len(w) - 1) : Tail(w)[i] = w[i + 1]
    BY <1>2
  <2>2. Distinct(Tail(w))
    BY <1>2, <2>1 DEF Distinct
  <2>3. ASSUME NEW q \in ToSet(Tail(w)) PROVE q \in ToSet(w) \ {Head(w)}
    <3>1. PICK i \in 1..(Len(w) - 1) : q = w[i + 1]
      BY <2>1, <2>3 DEF ToSet
    <3> QED
      BY <1>2, <2>1, <3>1 DEF ToSet, Distinct
  <2>4. ASSUME NEW q \in ToSet(w) \ {Head(w)} PROVE q \in ToSet(Tail(w))
    <3>1. PICK i \in 1..Len(w) : q = w[i]
      BY <2>1, <2>4 DEF ToSet
    <3>2. i # 1 /\ i - 1 \in 1..(Len(w) - 1) /\ (i - 1) + 1 = i
      BY <2>1, <2>4, <3>1
    <3>3. q = Tail(w)[i - 1]
      BY <2>1, <3>1, <3>2
    <3> QED
      BY <2>1, <3>2, <3>3 DEF ToSet
  <2> QED
    BY <2>2, <2>3, <2>4
<1>3. ASSUME NEW w \in Seq(Prompts), Distinct(w), NEW r \in Prompts \ ToSet(w)
      PROVE  Distinct(Append(w, r)) /\ ToSet(Append(w, r)) = ToSet(w) \cup {r}
  <2>1. /\ Len(w) \in Nat
        /\ DOMAIN w = 1..Len(w) /\ DOMAIN Append(w, r) = 1..(Len(w) + 1)
        /\ \A i \in 1..Len(w) : Append(w, r)[i] = w[i]
        /\ Append(w, r)[Len(w) + 1] = r
    BY <1>3
  <2>2. \A i \in 1..Len(w) : w[i] # r
    BY <1>3, <2>1 DEF ToSet
  <2>3. Distinct(Append(w, r))
    BY <1>3, <2>1, <2>2 DEF Distinct
  <2>4. ToSet(w) \cup {r} \subseteq ToSet(Append(w, r))
    BY <2>1 DEF ToSet
  <2> QED
    BY <2>3, <2>4, ToSetFacts
<1> QED
  BY <1>1, <1>2, <1>3

\* What a step may leave as it was.
SameQueues == \A s \in Sessions : sess'[s].pending = sess[s].pending

SamePrompts(P) ==
    /\ \A q \in Prompts \ P : log'[q].fate = log[q].fate
    /\ \A q \in Prompts : log'[q].commits = log[q].commits

SameHands(P) ==
    \A q \in Prompts \ P :
        turn'[q].at = turn[q].at /\ turn'[q].batch = turn[q].batch

\* The queue of s is emptied; its prompts fare as F says.
Empties(s, F) ==
    /\ sess'[s].pending = <<>>
    /\ \A t \in Sessions \ {s} : sess'[t].pending = sess[t].pending
    /\ SamePrompts(ToSet(sess[s].pending))
    /\ \A q \in ToSet(sess[s].pending) : log'[q].fate \in F

\* What a step of r can be for the prompts in hand.
Idles(r) ==
    /\ SameQueues /\ SamePrompts({})
    /\ turn'[r].batch = turn[r].batch
    /\ turn'[r].at # "inject" => turn'[r].batch = <<>>
    /\ turn'[r].at \in Opening <=> turn[r].at \in Opening

Writes(r, q) ==
    /\ SameQueues
    /\ \A x \in Prompts \ {q} : log'[x] = log[x]
    /\ log'[q].fate = "committed" /\ log'[q].commits = log[q].commits + 1

OpensWith(r) ==
    /\ Writes(r, r)
    /\ turn[r].at = "loop" /\ turn'[r].at = "round"
    /\ turn'[r].batch = turn[r].batch

Injects(r) ==
    /\ turn[r].batch # <<>> /\ Writes(r, Head(turn[r].batch))
    /\ turn[r].at = "inject" /\ turn'[r].at = "inject"
    /\ turn'[r].batch = Tail(turn[r].batch)

Takes(r) ==
    /\ Empties(req[r].to, {"taken"})
    /\ turn[r].at \in {"round", "stream"} /\ turn'[r].at = "inject"
    /\ turn'[r].batch = sess[req[r].to].pending

Carries(r) ==
    ToSet(turn[r].batch) \cup (IF turn[r].at \in Opening THEN {r} ELSE {})

Drops(r) ==
    /\ SameQueues /\ SamePrompts(Carries(r))
    /\ \A q \in Carries(r) : log'[q].fate \in {"failed", "lost", "dropped"}
    /\ turn'[r].at \in {"finally", "dead"} /\ turn'[r].batch = <<>>

Hands(r) ==
    /\ Empties(req[r].to, {"requeued", "cancelled"})
    /\ turn[r].at = "handback" /\ turn'[r].at \in {"exit", "finished"}
    /\ turn'[r].batch = <<>>

LEMMA TurnHands ==
    ASSUME DeliveryInv, NEW r \in Prompts, TurnStep(r)
    PROVE  \/ Idles(r) \/ OpensWith(r) \/ Injects(r) \/ Takes(r)
           \/ Drops(r) \/ Hands(r)
<1> DEFINE to == req[r].to
<1>0. /\ TypeOK /\ to \in Sessions
      /\ turn \in [Prompts -> TurnState] /\ turn[r] \in TurnState
      /\ sess \in [Sessions -> SessionState] /\ sess[to] \in SessionState
      /\ log \in [Prompts -> LogState] /\ log[r] \in LogState
      /\ turn[r].batch \in Seq(Prompts) /\ sess[to].pending \in Seq(Prompts)
      /\ turn[r].at # "inject" => turn[r].batch = <<>>
  <2>1. TypeOK /\ to \in Sessions
    BY Acting DEF DeliveryInv, TypeInv
  <2>2. turn[r] \in TurnState /\ sess[to] \in SessionState
    BY <2>1 DEF TypeOK
  <2>3. turn[r].batch \in Seq(Prompts) /\ sess[to].pending \in Seq(Prompts)
    BY <2>2 DEF TurnState, SessionState
  <2> QED
    BY <2>1, <2>2, <2>3 DEF TypeOK, DeliveryInv, HandInv
<1>1. \A P : log' = log => SamePrompts(P)
  BY DEF SamePrompts
<1>2. \A p : turn' = [turn EXCEPT ![r].at = p]
           => turn'[r].at = p /\ turn'[r].batch = turn[r].batch
  BY <1>0 DEF TurnState
<1>3. sess' = sess => SameQueues
  BY DEF SameQueues
\* A step that keeps the history and the batch, away from "inject".
<1>4. ASSUME SameQueues, SamePrompts({}), turn'[r].batch = turn[r].batch,
             turn[r].at \notin Opening \cup {"inject"}, turn'[r].at \notin Opening
      PROVE  Idles(r)
  BY <1>0, <1>4 DEF Idles
<1>5. ASSUME NEW p \in {"answered", "return", "release"}, SayDone(r, p),
             turn[r].at \notin Opening \cup {"inject"}
      PROVE  Idles(r)
  <2>1. turn'[r].at = p /\ turn'[r].batch = turn[r].batch
    BY <1>0, <1>5 DEF SayDone, TurnState
  <2>2. SameQueues
    BY <1>0, <1>5 DEF SayDone, SameQueues, SessionState
  <2>3. SamePrompts({})
    BY <1>0, <1>5 DEF SayDone, SamePrompts, LogState
  <2> QED
    BY <1>4, <1>5, <2>1, <2>2, <2>3 DEF Opening
<1>6. CASE \/ BudgetSpent(r) \/ RoundCancelled(r) \/ StreamCut(r)
           \/ ErrorDone(r) \/ AnswerFinal(r) \/ HitInStream(r)
           \/ FinallyCancelled(r) \/ FallbackDone(r)
  <2>1. PICK p \in {"answered", "return", "release"} : SayDone(r, p)
    BY <1>6
       DEF BudgetSpent, RoundCancelled, StreamCut, ErrorDone, AnswerFinal,
           HitInStream, FinallyCancelled, FallbackDone
  <2>2. turn[r].at \notin Opening \cup {"inject"}
    BY <1>6
       DEF BudgetSpent, RoundCancelled, StreamCut, ErrorDone, AnswerFinal,
           HitInStream, FinallyCancelled, FallbackDone, Runs, Hit, Opening
  <2> QED
    BY <1>5, <2>1, <2>2
<1>7. ASSUME NEW n, Take(r, n), turn[r].at \in {"round", "stream"}
      PROVE  Takes(r)
  <2> DEFINE left == sess[to].pending
  <2>1. turn'[r].at = "inject" /\ turn'[r].batch = left
    BY <1>0, <1>7 DEF Take, TurnState
  <2>2. /\ sess'[to].pending = <<>>
        /\ \A t \in Sessions \ {to} : sess'[t].pending = sess[t].pending
    BY <1>0, <1>7 DEF Take, Unqueued, SessionState
  <2>3. log' = Mark(left, "taken")
    BY <1>7 DEF Take
  <2>4. SamePrompts(ToSet(left)) /\ \A q \in ToSet(left) : log'[q].fate = "taken"
    BY <1>0, <2>3, ToSetFacts DEF Mark, SamePrompts, LogState
  <2> QED
    BY <1>7, <2>1, <2>2, <2>4 DEF Takes, Empties
<1>8. CASE BudgetRenewed(r) \/ RoundSteered(r) \/ AnswerSteered(r)
  BY <1>7, <1>8 DEF BudgetRenewed, RoundSteered, AnswerSteered, Runs
<1>9. CASE Start(r)
  <2>1. /\ turn'[r].at = "loop" /\ turn[r].at = "created"
        /\ turn'[r].batch = turn[r].batch
    BY <1>2, <1>9 DEF Start, Runs
  <2>2. SameQueues
    BY <1>0, <1>9 DEF Start, SameQueues, SessionState
  <2> QED
    BY <1>0, <1>1, <1>9, <2>1, <2>2 DEF Start, Idles, Opening
<1>10. ASSUME NEW q \in Prompts, log' = Committed(q), sess' = sess
       PROVE  Writes(r, q)
  <2>1. log'[q].fate = "committed" /\ log'[q].commits = log[q].commits + 1
    BY <1>0, <1>10 DEF Committed, LogState
  <2>2. \A x \in Prompts \ {q} : log'[x] = log[x]
    BY <1>0, <1>10 DEF Committed
  <2> QED
    BY <1>3, <1>10, <2>1, <2>2 DEF Writes
<1>11. CASE EnterLoop(r)
  <2>1. /\ turn'[r].at = "round" /\ turn[r].at = "loop"
        /\ turn'[r].batch = turn[r].batch
    BY <1>2, <1>11 DEF EnterLoop, Runs
  <2> QED
    BY <1>10, <1>11, <2>1 DEF EnterLoop, OpensWith
<1>12. CASE InjectNext(r)
  <2> DEFINE h == Head(turn[r].batch)
  <2>1. h \in Prompts /\ turn[r].batch # <<>>
    BY <1>0, <1>12, ToSetFacts DEF InjectNext
  <2>2. /\ turn'[r].at = "inject" /\ turn[r].at = "inject"
        /\ turn'[r].batch = Tail(turn[r].batch)
    BY <1>0, <1>12 DEF InjectNext, Runs, TurnState
  <2>3. log' = Committed(h) /\ sess' = sess
    BY <1>12 DEF InjectNext
  <2> QED
    BY <1>10, <2>1, <2>2, <2>3 DEF Injects
\* A step from "inject" with an empty batch.
<1>13. ASSUME turn[r].batch = <<>>, turn'[r].batch = turn[r].batch,
              turn[r].at \notin Opening, turn'[r].at \notin Opening,
              sess' = sess, log' = log
       PROVE  Idles(r)
  BY <1>1, <1>3, <1>13 DEF Idles
<1>14. CASE InjectDone(r)
  <2>1. /\ turn'[r].at = "round" /\ turn[r].at = "inject"
        /\ turn'[r].batch = turn[r].batch
    BY <1>0, <1>14 DEF InjectDone, Runs, TurnState
  <2> QED
    BY <1>13, <1>14, <2>1 DEF InjectDone, Opening
<1>15. CASE RoundPlain(r) \/ InjectedAsk(r)
  <2>1. /\ turn[r].at \in {"round", "inject"} /\ Ask(r)
        /\ turn[r].batch = <<>>
    BY <1>0, <1>15 DEF RoundPlain, InjectedAsk, Runs
  <2>2. PICK p \in {"compact", "stream"} :
            turn' = [turn EXCEPT ![r].at = p, ![r].next = "round"]
    BY <2>1 DEF Ask
  <2>3. turn'[r].at = p /\ turn'[r].batch = turn[r].batch
    BY <1>0, <2>2 DEF TurnState
  <2> QED
    BY <1>13, <2>1, <2>3 DEF Ask, Opening
<1>16. CASE \/ Compacted(r) \/ Repaired(r) \/ StreamFailed(r) \/ ToolCalls(r)
            \/ FinallyFailed(r)
  <2>1. PICK p \in {"stream", "round", "errdone", "tools", "fallback"} :
            MoveTo(r, p)
    BY <1>16 DEF Compacted, Repaired, StreamFailed, ToolCalls, FinallyFailed
  <2>2. turn[r].at \notin Opening \cup {"inject"}
    BY <1>16 DEF Compacted, Repaired, StreamFailed, ToolCalls, FinallyFailed,
                 Runs, Opening
  <2> QED
    BY <1>0, <1>2, <1>13, <2>1, <2>2 DEF MoveTo, Opening
<1>17. CASE StreamRepair(r)
  <2>1. PICK k \in turn[r].retries :
            turn' = [turn EXCEPT ![r].at = "repair", ![r].retries = @ \ {k}]
    BY <1>17 DEF StreamRepair
  <2>2. turn'[r].at = "repair" /\ turn'[r].batch = turn[r].batch
    BY <1>0, <2>1 DEF TurnState
  <2> QED
    BY <1>0, <1>13, <1>17, <2>2 DEF StreamRepair, Runs, Opening
<1>18. CASE ToolsDone(r)
  <2>1. /\ turn'[r].at = "round" /\ turn[r].at = "tools"
        /\ turn'[r].batch = turn[r].batch
    BY <1>0, <1>18 DEF ToolsDone, Runs, TurnState
  <2> QED
    BY <1>0, <1>13, <1>18, <2>1 DEF ToolsDone, Opening
<1>19. ASSUME NEW n, NEW f, turn' = [turn EXCEPT ![r] = Leaving(r, n, f)]
       PROVE  turn'[r].at = "finally" /\ turn'[r].batch = <<>>
  BY <1>0, <1>19 DEF Leaving, NewTurn
<1>20. CASE Return(r)
  <2>1. /\ turn'[r].at = "finally" /\ turn[r].at \in {"answered", "return"}
        /\ turn'[r].batch = <<>>
    BY <1>19, <1>20 DEF Return, Runs
  <2> QED
    BY <1>0, <1>13, <1>20, <2>1 DEF Return, Opening
<1>21. CASE Raise(r) \/ HitInLoop(r)
  <2>1. PICK f \in {"cancelled", "failed"} : Unwind(r, f)
    BY <1>21 DEF Raise, HitInLoop
  <2>2. turn[r].at # "created"
    BY <1>21 DEF Raise, HitInLoop, Runs, Hit, InTry
  <2>3. Carries(r) = ToSet(turn[r].batch)
                     \cup (IF turn[r].at = "loop" THEN {r} ELSE {})
    BY <2>2 DEF Carries, Opening
  <2>4. /\ log' = Abandoned(r, f) /\ sess' = sess
        /\ turn'[r].at = "finally" /\ turn'[r].batch = <<>>
    BY <1>19, <2>1 DEF Unwind
  <2>5. SamePrompts(Carries(r))
    BY <1>0, <2>3, <2>4 DEF Abandoned, SamePrompts, LogState
  <2>6. \A q \in Carries(r) : log'[q].fate \in {"failed", "lost"}
    <3>1. Carries(r) \subseteq Prompts
      BY <1>0, <2>3, ToSetFacts
    <3> QED
      BY <1>0, <2>3, <2>4, <3>1 DEF Abandoned, LogState
  <2> QED
    BY <1>3, <2>4, <2>5, <2>6 DEF Drops
<1>22. CASE Release(r)
  <2>1. /\ turn'[r].at = "handback" /\ turn'[r].batch = turn[r].batch
        /\ turn[r].at \in {"release", "finally"}
    BY <1>2, <1>22 DEF Release, Runs
  <2>2. SameQueues
    <3>1. \A s \in Sessions \ {to} : sess'[s].pending = sess[s].pending
      BY <1>0, <1>22 DEF Release, Released
    <3>2. sess'[to].pending = sess[to].pending
      BY <1>0, <1>22 DEF Release, Released, SessionState
    <3> QED
      BY <3>1, <3>2 DEF SameQueues
  <2> QED
    BY <1>1, <1>4, <1>22, <2>1, <2>2 DEF Release, Opening
<1>23. CASE HandBack(r)
  <2> DEFINE left == sess[to].pending
  <2>1. /\ sess'[to].pending = <<>>
        /\ \A s \in Sessions \ {to} : sess'[s].pending = sess[s].pending
    BY <1>0, <1>23 DEF HandBack, Unqueued, SessionState
  <2>2. turn[r].at = "handback" /\ turn[r].batch = <<>>
    BY <1>0, <1>23 DEF HandBack, Runs
  <2>3. turn'[r].at \in {"exit", "finished"} /\ turn'[r].batch = <<>>
    <3>1. \/ turn' = [turn EXCEPT ![r].at = "exit"]
          \/ turn' = [turn EXCEPT ![r] = [NewTurn EXCEPT !.at = "finished"]]
      BY <1>23 DEF HandBack, Finish
    <3> QED
      BY <1>0, <2>2, <3>1 DEF NewTurn, TurnState
  <2>4. PICK f \in {"requeued", "cancelled"} : log' = Mark(left, f)
    BY <1>23 DEF HandBack
  <2>5. SamePrompts(ToSet(left)) /\ \A q \in ToSet(left) : log'[q].fate = f
    BY <1>0, <2>4, ToSetFacts DEF Mark, SamePrompts, LogState
  <2> QED
    BY <2>1, <2>2, <2>3, <2>5 DEF Hands, Empties
<1>24. CASE Exit(r)
  <2>1. /\ turn'[r].at = "finished" /\ turn'[r].batch = <<>>
        /\ turn[r].at = "exit"
    BY <1>0, <1>24 DEF Exit, Finish, NewTurn, Runs
  <2> QED
    BY <1>0, <1>13, <1>24, <2>1 DEF Exit, Opening
<1>25. CASE HitOutside(r)
  <2>1. turn'[r].at = "dead" /\ turn'[r].batch = <<>>
    BY <1>0, <1>25 DEF HitOutside, NewTurn
  <2>2. turn[r].batch = <<>>
    BY <1>0, <1>25 DEF HitOutside, Hit
  <2>3. Carries(r) = IF turn[r].at \in Opening THEN {r} ELSE {}
    BY <2>2, ToSetFacts DEF Carries
  <2>4. /\ \A q \in Prompts \ {r} : log'[q] = log[q]
        /\ log'[r].commits = log[r].commits
        /\ log'[r].fate = (IF turn[r].at \in Opening THEN "dropped"
                           ELSE log[r].fate)
    BY <1>0, <1>25 DEF HitOutside, LogState, Opening
  <2> QED
    BY <1>3, <1>25, <2>1, <2>3, <2>4 DEF HitOutside, Drops, SamePrompts
<1> QED
  BY <1>6, <1>8, <1>9, <1>11, <1>12, <1>14, <1>15, <1>16, <1>17, <1>18,
     <1>20, <1>21, <1>22, <1>23, <1>24, <1>25 DEF TurnStep

\* What a frame, or the tick, can be for the prompts in hand.
Queues(r, s) ==
    /\ SameHands({})
    /\ sess'[s].pending = Append(sess[s].pending, r)
    /\ \A t \in Sessions \ {s} : sess'[t].pending = sess[t].pending
    /\ log[r].fate \in {"unsent", "requeued"} /\ log'[r].fate = "queued"
    /\ SamePrompts({r})

Creates(r) ==
    /\ SameHands({r}) /\ SameQueues
    /\ turn[r].at = "idle"
    /\ turn'[r].at = "created" /\ turn'[r].batch = <<>>
    /\ log[r].fate \in {"unsent", "requeued"} /\ log'[r].fate = "opening"
    /\ SamePrompts({r})

LEMMA FrameHands ==
    ASSUME DeliveryInv, FrameStep
    PROVE  \/ SameHands({}) /\ SameQueues /\ SamePrompts({})
           \/ \E r \in Prompts, s \in Sessions : Queues(r, s)
           \/ \E r \in Prompts : Creates(r)
           \/ \E s \in Sessions : SameHands({}) /\ Empties(s, {"cancelled"})
<1> DEFINE Passive == SameHands({}) /\ SameQueues /\ SamePrompts({})
           Goal == \/ Passive
                   \/ \E r \in Prompts, s \in Sessions : Queues(r, s)
                   \/ \E r \in Prompts : Creates(r)
                   \/ \E s \in Sessions : SameHands({}) /\ Empties(s, {"cancelled"})
<1>0. /\ turn \in [Prompts -> TurnState]
      /\ sess \in [Sessions -> SessionState] /\ log \in [Prompts -> LogState]
      /\ TypeOK
      /\ \A q \in Prompts : log[q].fate \in Waiting => turn[q].at = "idle"
  BY DEF DeliveryInv, TypeInv, TypeOK, PromptInv, FateInv
<1>1. ASSUME turn' = turn \/ (\E e, t : turn' = Stopped(turn, e, t)),
             log' = log, sess' = sess
      PROVE  Passive
  <2>1. SameHands({})
    BY <1>0, <1>1, StoppedSame DEF SameHands
  <2> QED
    BY <1>1, <2>1 DEF SameQueues, SamePrompts
<1>2. ASSUME NEW r \in Prompts, NEW f \in Fates,
             log' = [log EXCEPT ![r].fate = f]
      PROVE  log'[r].fate = f /\ SamePrompts({r})
  BY <1>0, <1>2 DEF SamePrompts, LogState
<1>3. ASSUME NEW r \in Prompts, NEW s \in Sessions, turn' = turn,
             sess' = Queued(r, s), log' = [log EXCEPT ![r].fate = "queued"],
             log[r].fate \in {"unsent", "requeued"}
      PROVE  Queues(r, s)
  <2>1. /\ sess'[s].pending = Append(sess[s].pending, r)
        /\ \A t \in Sessions \ {s} : sess'[t].pending = sess[t].pending
    BY <1>0, <1>3 DEF Queued, SessionState
  <2> QED
    BY <1>2, <1>3, <2>1 DEF Queues, SameHands, Fates
<1>4. ASSUME NEW r \in Prompts, turn'[r] = NewTurn, SameHands({r}), SameQueues,
             log' = [log EXCEPT ![r].fate = "opening"],
             log[r].fate \in {"unsent", "requeued"}
      PROVE  Creates(r)
  <2>1. log'[r].fate = "opening" /\ SamePrompts({r})
    BY <1>2, <1>4 DEF Fates
  <2>2. turn'[r].at = "created" /\ turn'[r].batch = <<>>
    BY <1>4 DEF NewTurn
  <2>3. turn[r].at = "idle"
    BY <1>0, <1>4 DEF Waiting
  <2> QED
    BY <1>4, <2>1, <2>2, <2>3 DEF Creates
<1>5. ASSUME NEW c \in Conns, ClientStep(c) PROVE Goal
  <2>1. CASE \/ CancelAwaited(c) \/ Closed(c) \/ Disconnect(c)
             \/ \E s \in Sessions : Open(c, s)
             \/ \E n \in Sessions \cup {None} : CancelFrame(c, n)
    BY <1>1, <2>1 DEF CancelAwaited, Closed, Disconnect, Open, CancelFrame
  <2>2. ASSUME NEW s \in Sessions, ClearQueue(c, s)
        PROVE  SameHands({}) /\ Empties(s, {"cancelled"})
    <3> DEFINE left == sess[s].pending
    <3>1. turn' = turn /\ sess' = Unqueued(s) /\ log' = Mark(left, "cancelled")
      BY <2>2 DEF ClearQueue
    <3>2. /\ sess'[s].pending = <<>>
          /\ \A t \in Sessions \ {s} : sess'[t].pending = sess[t].pending
      BY <1>0, <3>1 DEF Unqueued, SessionState
    <3>3. ToSet(left) \subseteq Prompts
      BY <1>0, ToSetFacts DEF SessionState
    <3>4. /\ SamePrompts(ToSet(left))
          /\ \A q \in ToSet(left) : log'[q].fate = "cancelled"
      BY <1>0, <3>1, <3>3 DEF Mark, SamePrompts, LogState
    <3> QED
      BY <3>1, <3>2, <3>4 DEF SameHands, Empties
  <2>3. ASSUME NEW r \in Prompts, NEW s \in Sessions, QueueTask(c, r, s)
        PROVE  Queues(r, s)
    BY <1>3, <2>3 DEF QueueTask, Sendable
  <2>4. ASSUME NEW r \in Prompts, NEW s \in Sessions, StartTask(c, r, s)
        PROVE  Creates(r)
    <3>1. PICK e : turn' = [Stopped(turn, e, e) EXCEPT ![r] = NewTurn]
      BY <2>4 DEF StartTask
    <3>2. turn'[r] = NewTurn
      BY <1>0, <3>1, StoppedType
    <3>3. SameHands({r})
      <4>1. \A q \in Prompts \ {r} : turn'[q] = Stopped(turn, e, e)[q]
        BY <1>0, <3>1, StoppedType
      <4> QED
        BY <1>0, <4>1, StoppedSame DEF SameHands
    <3>4. SameQueues
      BY <1>0, <2>4 DEF StartTask, SameQueues, SessionState
    <3> QED
      BY <1>4, <2>4, <3>2, <3>3, <3>4 DEF StartTask, Sendable
  <2> QED
    BY <1>5, <2>1, <2>2, <2>3, <2>4 DEF ClientStep
<1>6. ASSUME NEW r \in Prompts, NEW s \in Sessions, TickQueues(r, s)
      PROVE  Queues(r, s)
  BY <1>3, <1>6 DEF TickQueues, TickReady
<1>7. ASSUME NEW r \in Prompts, NEW s \in Sessions, TickStarts(r, s)
      PROVE  Creates(r)
  <2>1. turn'[r] = NewTurn /\ SameHands({r})
    BY <1>0, <1>7 DEF TickStarts, SameHands
  <2>2. SameQueues
    BY <1>0, <1>7 DEF TickStarts, SameQueues, SessionState
  <2> QED
    BY <1>4, <1>7, <2>1, <2>2 DEF TickStarts, TickReady
<1> QED
  BY <1>5, <1>6, <1>7 DEF FrameStep, TickStep

-----------------------------------------------------------------------------
(* A prompt stands in one place only.                                      *)

LEMMA HandInit == Init => HandInv
<1> SUFFICES ASSUME Init PROVE HandInv
  OBVIOUS
<1>1. /\ \A s \in Sessions : sess[s].pending = <<>>
      /\ \A r \in Prompts : /\ turn[r].at = "idle" /\ turn[r].batch = <<>>
                            /\ log[r].commits = 0
  BY DEF Init, NewTurn
<1> QED
  BY <1>1, DistinctFacts, ToSetFacts DEF HandInv, Opening

\* The parts of HandInv, for one turn and for the queues.
Hand(r) ==
    /\ Distinct(turn[r].batch)
    /\ turn[r].at # "inject" => turn[r].batch = <<>>
    /\ \A q \in ToSet(turn[r].batch) : log[q].fate = "taken"
    /\ turn[r].at \in Opening => log[r].fate = "opening"

InHand == Waiting \cup {"opening", "taken"}

LEMMA HandParts ==
    HandInv <=>
        /\ \A s \in Sessions : Distinct(sess[s].pending)
        /\ \A r \in Prompts : Hand(r)
        /\ \A r \in Prompts : log[r].fate \in InHand => log[r].commits = 0
        /\ \A q, r \in Prompts : q # r =>
             ToSet(turn[q].batch) \cap ToSet(turn[r].batch) = {}
  BY DEF HandInv, Hand, InHand

\* What a prompt's fate says of where it may stand.
LEMMA Whereabouts ==
    ASSUME DeliveryInv, NEW q \in Prompts
    PROVE  /\ \A s \in Sessions : q \in ToSet(sess[s].pending) =>
                log[q].fate = "queued" /\ req[q].to = s
           /\ \A r \in Prompts : q \in ToSet(turn[r].batch) =>
                log[q].fate = "taken" /\ turn[r].at = "inject"
           /\ turn[q].at \in Opening => log[q].fate = "opening"
<1>1. \A r \in Prompts : turn[r].at # "inject" => ToSet(turn[r].batch) = {}
  BY ToSetFacts DEF DeliveryInv, HandInv
<1> QED
  BY <1>1 DEF DeliveryInv, HandInv, PromptInv, QueueInv

LEMMA HandTurnStep ==
    ASSUME DeliveryInv, NEW r \in Prompts, TurnStep(r) PROVE HandInv'
<1> DEFINE to == req[r].to
           Apart == \A q, x \in Prompts : q # x =>
                      ToSet(turn'[q].batch) \cap ToSet(turn'[x].batch) = {}
           Unwritten == \A q \in Prompts : log'[q].fate \in InHand
                                            => log'[q].commits = 0
           Lined == \A s \in Sessions : Distinct(sess'[s].pending)
<1>0. /\ \A q \in Prompts \ {r} : turn'[q] = turn[q]
      /\ to \in Sessions
      /\ turn[r].batch \in Seq(Prompts) /\ sess[to].pending \in Seq(Prompts)
      /\ HandInv /\ TypeInv
  <2>1. TypeInv /\ to \in Sessions
    BY Acting DEF DeliveryInv
  <2>2. turn[r] \in TurnState /\ sess[to] \in SessionState
    BY <2>1 DEF TypeInv, TypeOK
  <2> QED
    BY <2>1, <2>2, TurnShape DEF TurnState, SessionState, DeliveryInv
<1>h. /\ \A s \in Sessions : Distinct(sess[s].pending)
      /\ \A q \in Prompts : Hand(q)
      /\ \A q \in Prompts : log[q].fate \in InHand => log[q].commits = 0
      /\ \A q, x \in Prompts : q # x =>
             ToSet(turn[q].batch) \cap ToSet(turn[x].batch) = {}
  BY <1>0, HandParts
<1>d. Lined /\ (\A q \in Prompts : Hand(q)') /\ Unwritten /\ Apart => HandInv'
  BY HandParts DEF HandInv, Hand, InHand
\* The others keep their batches, as long as no prompt of theirs moves.
<1>1. ASSUME \A q \in Prompts : log[q].fate \in {"taken", "opening"}
                => log'[q].fate = log[q].fate \/ q \in Carries(r)
      PROVE  \A q \in Prompts \ {r} : Hand(q)'
  <2>1. ASSUME NEW q \in Prompts \ {r} PROVE Hand(q)'
    <3>1. Hand(q) /\ turn'[q] = turn[q]
      BY <1>0, <1>h
    <3>2. ASSUME NEW x \in ToSet(turn[q].batch) PROVE log'[x].fate = "taken"
      <4>1. x \in Prompts /\ log[x].fate = "taken"
        <5>1. turn[q].batch \in Seq(Prompts)
          BY <1>0 DEF TypeInv, TypeOK, TurnState
        <5> QED
          BY <3>1, <3>2, <5>1, ToSetFacts DEF Hand
      <4>2. x \notin ToSet(turn[r].batch)
        BY <1>h, <3>2
      <4>3. x = r => turn[r].at \notin Opening
        BY <1>h, <4>1 DEF Hand
      <4> QED
        BY <1>1, <4>1, <4>2, <4>3 DEF Carries
    <3>3. turn[q].at \in Opening => log'[q].fate = "opening"
      <4>1. SUFFICES ASSUME turn[q].at \in Opening PROVE log'[q].fate = "opening"
        OBVIOUS
      <4>2. log[q].fate = "opening"
        BY <3>1, <4>1 DEF Hand
      <4>3. q \notin ToSet(turn[r].batch)
        BY <1>h, <4>2 DEF Hand
      <4> QED
        BY <1>1, <4>2, <4>3 DEF Carries
    <3> QED
      BY <3>1, <3>2, <3>3 DEF Hand
  <2> QED
    BY <2>1
<1>2. ASSUME SameQueues PROVE Lined
  BY <1>2, <1>h DEF SameQueues
<1>3. ASSUME NEW F, Empties(to, F) PROVE Lined
  BY <1>3, <1>h, DistinctFacts DEF Empties
<1>4. ASSUME NEW P, SamePrompts(P),
             \A q \in Prompts \cap P : log[q].fate \in InHand
      PROVE  Unwritten
  BY <1>4, <1>h DEF SamePrompts
<1>5. ASSUME ToSet(turn'[r].batch) \subseteq ToSet(turn[r].batch) PROVE Apart
  BY <1>0, <1>5, <1>h
<1>6. CASE Idles(r)
  <2>1. Hand(r)'
    <3>1. \A q \in ToSet(turn[r].batch) : q \in Prompts /\ log'[q].fate = "taken"
      BY <1>0, <1>6, <1>h, ToSetFacts DEF Idles, Hand, SamePrompts
    <3>2. turn'[r].at \in Opening => log'[r].fate = "opening"
      BY <1>6, <1>h DEF Idles, Hand, SamePrompts
    <3> QED
      BY <1>6, <1>h, <3>1, <3>2 DEF Idles, Hand
  <2>2. \A q \in Prompts : Hand(q)'
    BY <1>1, <1>6, <2>1 DEF Idles, SamePrompts
  <2> QED
    BY <1>2, <1>4, <1>5, <1>6, <1>d, <2>2 DEF Idles
<1>7. ASSUME NEW q \in Prompts, Writes(r, q) PROVE Unwritten /\ Lined
  BY <1>2, <1>7, <1>h DEF Writes, InHand, Waiting
<1>8. CASE OpensWith(r)
  <2>1. turn'[r].batch = <<>> /\ turn[r].batch = <<>>
    BY <1>8, <1>h DEF OpensWith, Hand
  <2>2. Hand(r)'
    BY <1>8, <2>1, DistinctFacts, ToSetFacts DEF OpensWith, Hand, Opening
  <2>3. \A q \in Prompts : Hand(q)'
    BY <1>1, <1>8, <2>2 DEF OpensWith, Writes, Carries, Opening
  <2> QED
    BY <1>5, <1>7, <1>8, <1>d, <2>1, <2>3 DEF OpensWith
<1>9. CASE Injects(r)
  <2> DEFINE h == Head(turn[r].batch)
  <2>1. /\ h \in ToSet(turn[r].batch) /\ h \in Prompts
        /\ Distinct(Tail(turn[r].batch))
        /\ ToSet(turn'[r].batch) = ToSet(turn[r].batch) \ {h}
    <3>1. turn[r].batch # <<>> /\ Distinct(turn[r].batch)
      BY <1>9, <1>h DEF Injects, Hand
    <3> QED
      BY <1>0, <1>9, <3>1, DistinctFacts, ToSetFacts DEF Injects
  <2>2. Hand(r)'
    <3>1. \A q \in ToSet(turn'[r].batch) : log'[q].fate = "taken"
      <4>1. ASSUME NEW q \in ToSet(turn'[r].batch) PROVE log'[q].fate = "taken"
        <5>1. q \in ToSet(turn[r].batch) /\ q # h /\ q \in Prompts
          BY <1>0, <2>1, <4>1, ToSetFacts
        <5> QED
          BY <1>9, <1>h, <5>1 DEF Injects, Writes, Hand
      <4> QED
        BY <4>1
    <3> QED
      BY <1>9, <2>1, <3>1 DEF Injects, Hand, Opening
  <2>3. \A q \in Prompts : log[q].fate \in {"taken", "opening"}
                => log'[q].fate = log[q].fate \/ q \in Carries(r)
    BY <1>9, <2>1 DEF Injects, Writes, Carries
  <2>4. Unwritten /\ Lined
    BY <1>7, <1>9, <2>1 DEF Injects
  <2> QED
    BY <1>1, <1>5, <1>d, <2>1, <2>2, <2>3, <2>4
<1>10. CASE Takes(r)
  <2> DEFINE left == sess[to].pending
  <2>1. /\ Empties(to, {"taken"})
        /\ turn'[r].batch = left /\ turn'[r].at = "inject"
    BY <1>10 DEF Takes
  <2>2. \A q \in ToSet(left) : q \in Prompts /\ log[q].fate = "queued"
                               /\ log'[q].fate = "taken"
    BY <1>0, <2>1, Whereabouts, ToSetFacts DEF Empties
  <2>3. Hand(r)'
    <3>1. Distinct(left)
      BY <1>0, <1>h
    <3> QED
      BY <2>1, <2>2, <3>1 DEF Hand, Opening
  <2>4. \A q \in Prompts : Hand(q)'
    BY <1>1, <2>1, <2>2, <2>3 DEF Empties, SamePrompts
  <2>5. Unwritten
    BY <1>4, <2>1, <2>2 DEF Empties, InHand, Waiting
  <2>6. Apart
    <3>1. ASSUME NEW q \in Prompts \ {r}
          PROVE  ToSet(turn[q].batch) \cap ToSet(left) = {}
      BY <1>h, <2>2, <3>1 DEF Hand
    <3>2. \A q \in Prompts \ {r} : turn'[q].batch = turn[q].batch
      BY <1>0
    <3>3. ASSUME NEW q \in Prompts, NEW x \in Prompts, q # x
          PROVE  ToSet(turn'[q].batch) \cap ToSet(turn'[x].batch) = {}
      <4>1. CASE q = r
        BY <2>1, <3>1, <3>2, <3>3, <4>1
      <4>2. CASE x = r
        BY <2>1, <3>1, <3>2, <3>3, <4>2
      <4>3. CASE q # r /\ x # r
        BY <1>h, <3>2, <3>3, <4>3
      <4> QED
        BY <4>1, <4>2, <4>3
    <3> QED
      BY <3>3
  <2> QED
    BY <1>3, <1>d, <2>1, <2>4, <2>5, <2>6
<1>11. CASE Drops(r)
  <2>1. /\ SameQueues /\ SamePrompts(Carries(r))
        /\ turn'[r].batch = <<>> /\ turn'[r].at \in {"finally", "dead"}
    BY <1>11 DEF Drops
  <2>2. Hand(r)'
    BY <2>1, DistinctFacts, ToSetFacts DEF Hand, Opening
  <2>3. \A q \in Prompts : Hand(q)'
    BY <1>1, <2>1, <2>2 DEF SamePrompts
  <2>4. \A q \in Carries(r) : log[q].fate \in InHand
    BY <1>h DEF Carries, Hand, InHand
  <2> QED
    BY <1>2, <1>4, <1>5, <1>d, <2>1, <2>3, <2>4, ToSetFacts
<1>12. CASE Hands(r)
  <2>1. /\ Empties(to, {"requeued", "cancelled"})
        /\ turn'[r].batch = <<>> /\ turn'[r].at \in {"exit", "finished"}
    BY <1>12 DEF Hands
  <2>2. \A q \in ToSet(sess[to].pending) :
           q \in Prompts /\ log[q].fate = "queued"
    BY <1>0, Whereabouts, ToSetFacts
  <2>3. Hand(r)'
    BY <2>1, DistinctFacts, ToSetFacts DEF Hand, Opening
  <2>4. \A q \in Prompts : Hand(q)'
    BY <1>1, <2>1, <2>2, <2>3 DEF Empties, SamePrompts
  <2>5. Unwritten
    BY <1>4, <2>1, <2>2 DEF Empties, InHand, Waiting
  <2> QED
    BY <1>3, <1>5, <1>d, <2>1, <2>4, <2>5, ToSetFacts
<1> QED
  BY <1>6, <1>8, <1>9, <1>10, <1>11, <1>12, TurnHands

LEMMA HandFrameStep == ASSUME DeliveryInv, FrameStep PROVE HandInv'
<1>0. /\ HandInv /\ TypeInv
      /\ \A q \in Prompts : turn[q].batch \in Seq(Prompts)
      /\ \A s \in Sessions : sess[s].pending \in Seq(Prompts)
  BY DEF DeliveryInv, TypeInv, TypeOK, TurnState, SessionState
<1>h. /\ \A s \in Sessions : Distinct(sess[s].pending)
      /\ \A q \in Prompts : Hand(q)
      /\ \A q \in Prompts : log[q].fate \in InHand => log[q].commits = 0
      /\ \A q, x \in Prompts : q # x =>
             ToSet(turn[q].batch) \cap ToSet(turn[x].batch) = {}
  BY <1>0, HandParts
<1>1. ASSUME \A q \in Prompts : turn'[q].at = turn[q].at \/ turn'[q].at = "created",
             \A q \in Prompts : turn'[q].at = turn[q].at => turn'[q].batch = turn[q].batch,
             \A q \in Prompts : turn'[q].at # turn[q].at
                => turn'[q].batch = <<>> /\ log'[q].fate = "opening",
             NEW P, SamePrompts(P),
             \A q \in Prompts \cap P : log[q].fate \in Waiting,
             \A s \in Sessions : Distinct(sess'[s].pending)
      PROVE  HandInv'
  <2>1. \A q \in Prompts : ToSet(turn'[q].batch) \subseteq ToSet(turn[q].batch)
    BY <1>1, ToSetFacts
  <2>2. ASSUME NEW q \in Prompts PROVE Hand(q)'
    <3>1. CASE turn'[q].at = turn[q].at
      <4>1. \A x \in ToSet(turn[q].batch) : log'[x].fate = "taken"
        BY <1>0, <1>1, <1>h, ToSetFacts DEF Hand, SamePrompts, Waiting
      <4>2. turn[q].at \in Opening => log'[q].fate = "opening"
        BY <1>1, <1>h DEF Hand, SamePrompts, Waiting
      <4> QED
        BY <1>1, <1>h, <3>1, <4>1, <4>2 DEF Hand
    <3>2. CASE turn'[q].at # turn[q].at
      BY <1>1, <3>2, DistinctFacts, ToSetFacts DEF Hand
    <3> QED
      BY <3>1, <3>2
  <2>3. \A q \in Prompts : log'[q].fate \in InHand => log'[q].commits = 0
    BY <1>1, <1>h DEF SamePrompts, InHand
  <2>4. \A q, x \in Prompts : q # x =>
           ToSet(turn'[q].batch) \cap ToSet(turn'[x].batch) = {}
    BY <1>h, <2>1
  <2> QED
    BY <1>1, <2>2, <2>3, <2>4, HandParts DEF HandInv, Hand, InHand
<1>2. CASE SameHands({}) /\ SameQueues /\ SamePrompts({})
  BY <1>1, <1>2, <1>h DEF SameHands, SameQueues
<1>3. ASSUME NEW r \in Prompts, NEW s \in Sessions, Queues(r, s) PROVE HandInv'
  <2>1. r \notin ToSet(sess[s].pending)
    BY <1>3, Whereabouts DEF Queues
  <2>2. \A t \in Sessions : Distinct(sess'[t].pending)
    <3>1. Distinct(Append(sess[s].pending, r))
      BY <1>0, <1>h, <2>1, DistinctFacts
    <3> QED
      BY <1>3, <1>h, <3>1 DEF Queues
  <2> QED
    BY <1>1, <1>3, <2>2 DEF Queues, SameHands, Waiting
<1>4. ASSUME NEW r \in Prompts, Creates(r) PROVE HandInv'
  <2>1. \A t \in Sessions : Distinct(sess'[t].pending)
    BY <1>4, <1>h DEF Creates, SameQueues
  <2>2. \A q \in Prompts :
          IF q = r THEN /\ turn'[q].at = "created" /\ turn[q].at = "idle"
                        /\ turn'[q].batch = <<>> /\ log'[q].fate = "opening"
          ELSE turn'[q].at = turn[q].at /\ turn'[q].batch = turn[q].batch
    BY <1>4 DEF Creates, SameHands
  <2> QED
    BY <1>1, <1>4, <2>1, <2>2 DEF Creates, Waiting
<1>5. ASSUME NEW s \in Sessions, SameHands({}), Empties(s, {"cancelled"})
      PROVE  HandInv'
  <2>1. \A t \in Sessions : Distinct(sess'[t].pending)
    BY <1>5, <1>h, DistinctFacts DEF Empties
  <2>2. \A q \in Prompts \cap ToSet(sess[s].pending) : log[q].fate \in Waiting
    BY Whereabouts DEF Waiting
  <2> QED
    BY <1>1, <1>5, <2>1, <2>2 DEF SameHands, Empties
<1> QED
  BY <1>2, <1>3, <1>4, <1>5, FrameHands

LEMMA DeliveryStep == DeliveryInv /\ [Next]_vars => DeliveryInv'
<1> SUFFICES ASSUME DeliveryInv, [Next]_vars PROVE DeliveryInv'
  OBVIOUS
<1>1. TypeInv' /\ PromptInv'
  BY TypeStep, PromptStep DEF DeliveryInv
<1>2. CASE UNCHANGED vars
  BY <1>1, <1>2 DEF vars, DeliveryInv, HandInv
<1> QED
  BY <1>1, <1>2, HandTurnStep, HandFrameStep DEF DeliveryInv, Next, FrameStep

LEMMA DeliveryInvariant == Spec => []DeliveryInv
<1>1. Init => DeliveryInv
  BY TypeInit, PromptInit, HandInit DEF DeliveryInv
<1> QED
  BY <1>1, DeliveryStep, PTL DEF Spec

-----------------------------------------------------------------------------
(* The refinement.                                                         *)

\* The daemon's hands, and the history, as PromptDelivery sees them.
Held ==
    UNION ({ToSet(sess[s].pending) : s \in Sessions}
           \cup {ToSet(turn[r].batch) : r \in Prompts}
           \cup {{r \in Prompts : turn[r].at \in {"created", "loop"}}})

Written == [r \in Prompts |-> log[r].commits]

\* q is held, in this state.
Has(q) ==
    \/ \E s \in Sessions : q \in ToSet(sess[s].pending)
    \/ \E r \in Prompts : q \in ToSet(turn[r].batch)
    \/ turn[q].at \in Opening

LEMMA HeldIs == TypeOK => \A q : q \in Held <=> q \in Prompts /\ Has(q)
<1> SUFFICES ASSUME TypeOK, NEW q
             PROVE  q \in Held <=> q \in Prompts /\ Has(q)
  OBVIOUS
<1>1. q \in Held <=>
        \/ \E s \in Sessions : q \in ToSet(sess[s].pending)
        \/ \E r \in Prompts : q \in ToSet(turn[r].batch)
        \/ q \in Prompts /\ turn[q].at \in Opening
  BY DEF Held, Opening
<1>2. \A s \in Sessions : ToSet(sess[s].pending) \subseteq Prompts
  BY ToSetFacts DEF TypeOK, SessionState
<1>3. \A r \in Prompts : ToSet(turn[r].batch) \subseteq Prompts
  BY ToSetFacts DEF TypeOK, TurnState
<1> QED
  BY <1>1, <1>2, <1>3 DEF Has

\* A step of the abstract specification, or none.
Delivers ==
    \/ Held' = Held /\ Written' = Written
    \/ \E p \in Prompts :
         \/ /\ p \notin Held /\ Written[p] = 0
            /\ Held' = Held \cup {p} /\ Written' = Written
         \/ /\ p \in Held /\ Held' = Held \ {p}
            /\ Written' = [Written EXCEPT ![p] = @ + 1]
    \/ \E P \in SUBSET Prompts :
         P \subseteq Held /\ Held' = Held \ P /\ Written' = Written

LEMMA Refines ==
    /\ Init => Delivery!Init
    /\ Delivers => [Delivery!Next]_<<Held, Written>>
<1>1. ASSUME Init PROVE Delivery!Init
  <2>1. /\ \A s \in Sessions : ToSet(sess[s].pending) = {}
        /\ \A r \in Prompts : ToSet(turn[r].batch) = {}
        /\ \A r \in Prompts : turn[r].at = "idle" /\ log[r].commits = 0
    BY <1>1, ToSetFacts DEF Init, NewTurn
  <2>2. Held = {} /\ Written = [r \in Prompts |-> 0]
    BY <2>1 DEF Held, Written
  <2> QED
    BY <2>2 DEF Delivery!Init, Held, Written
<1>2. ASSUME Delivers PROVE [Delivery!Next]_<<Held, Written>>
  BY <1>2 DEF Delivers, Delivery!Next, Delivery!Accept, Delivery!Write,
              Delivery!GiveUp, Held, Written
<1> QED
  BY <1>1, <1>2

LEMMA HeldNext ==
    ASSUME TypeOK, TypeOK'
    PROVE  /\ \A q : q \in Held <=> q \in Prompts /\ Has(q)
           /\ \A q : q \in Held' <=> q \in Prompts /\ Has(q)'
<1>1. (TypeOK => \A q : q \in Held <=> q \in Prompts /\ Has(q))'
  BY HeldIs, PTL
<1> QED
  BY <1>1, HeldIs

LEMMA HeldSteps ==
    ASSUME TypeOK, TypeOK'
    PROVE  /\ (\A q \in Prompts : Has(q)' <=> Has(q)) => Held' = Held
           /\ \A q \in Prompts : Has(q) <=> q \in Held
           /\ \A p \in Prompts :
                /\ (\A q \in Prompts : Has(q)' <=> Has(q) /\ q # p)
                     => Held' = Held \ {p}
                /\ (\A q \in Prompts : Has(q)' <=> Has(q) \/ q = p)
                     => Held' = Held \cup {p}
<1>1. (\A q \in Prompts : Has(q)' <=> Has(q)) => Held' = Held
  BY HeldNext
<1>2. ASSUME NEW p \in Prompts, \A q \in Prompts : Has(q)' <=> Has(q) /\ q # p
      PROVE  Held' = Held \ {p}
  BY <1>2, HeldNext
<1>3. ASSUME NEW p \in Prompts, \A q \in Prompts : Has(q)' <=> Has(q) \/ q = p
      PROVE  Held' = Held \cup {p}
  BY <1>3, HeldNext
<1> QED
  BY <1>1, <1>2, <1>3, HeldNext

LEMMA HeldGivesUp ==
    ASSUME TypeOK, TypeOK', NEW P, P \subseteq Prompts, \A q \in P : Has(q),
           \A q \in Prompts : Has(q)' <=> Has(q) /\ q \notin P
    PROVE  P \subseteq Held /\ Held' = Held \ P
  BY HeldNext

LEMMA WrittenSteps ==
    ASSUME TypeOK, TypeOK'
    PROVE  /\ (\A q \in Prompts : log'[q].commits = log[q].commits)
                => Written' = Written
           /\ \A p \in Prompts :
                /\ log'[p].commits = log[p].commits + 1
                /\ \A q \in Prompts \ {p} : log'[q] = log[q]
                => Written' = [Written EXCEPT ![p] = @ + 1]
  BY DEF Written

LEMMA TurnDelivers ==
    ASSUME DeliveryInv, TypeOK', NEW r \in Prompts, TurnStep(r) PROVE Delivers
<1> DEFINE to == req[r].to
           left == sess[to].pending
<1>0. /\ TypeOK /\ to \in Sessions
      /\ \A q \in Prompts \ {r} : turn'[q] = turn[q]
      /\ turn[r].batch \in Seq(Prompts) /\ ToSet(turn[r].batch) \subseteq Prompts
      /\ Distinct(turn[r].batch)
      /\ left \in Seq(Prompts) /\ ToSet(left) \subseteq Prompts
      /\ turn[r].at # "inject" => turn[r].batch = <<>>
      /\ \A q \in Prompts \ {r} :
            ToSet(turn[q].batch) \cap ToSet(turn[r].batch) = {}
  <2>1. TypeInv /\ TypeOK /\ to \in Sessions
    BY Acting DEF DeliveryInv, TypeInv
  <2>2. turn[r] \in TurnState /\ sess[to] \in SessionState
    BY <2>1 DEF TypeOK
  <2>3. turn[r].batch \in Seq(Prompts) /\ left \in Seq(Prompts)
    BY <2>2 DEF TurnState, SessionState
  <2> QED
    BY <2>1, <2>3, TurnShape, ToSetFacts DEF DeliveryInv, HandInv
<1>1. CASE Idles(r)
  <2>1. \A q \in Prompts : Has(q)' <=> Has(q)
    BY <1>0, <1>1 DEF Idles, SameQueues, Has
  <2> QED
    BY <1>0, <1>1, <2>1, HeldSteps, WrittenSteps
       DEF Idles, SamePrompts, Delivers
<1>2. CASE OpensWith(r)
  <2>1. ~(\E s \in Sessions : r \in ToSet(sess[s].pending))
        /\ ~(\E x \in Prompts : r \in ToSet(turn[x].batch))
    BY <1>2, Whereabouts DEF OpensWith, Opening
  <2>2. \A q \in Prompts : Has(q)' <=> Has(q) /\ q # r
    BY <1>0, <1>2, <2>1 DEF OpensWith, Writes, SameQueues, Has, Opening
  <2>3. r \in Held
    BY <1>0, <1>2, HeldSteps DEF OpensWith, Has, Opening
  <2>4. Held' = Held \ {r}
    BY <1>0, <2>2, HeldSteps
  <2> QED
    BY <1>0, <1>2, <2>3, <2>4, WrittenSteps DEF OpensWith, Writes, Delivers
<1>3. CASE Injects(r)
  <2> DEFINE h == Head(turn[r].batch)
  <2>1. /\ h \in ToSet(turn[r].batch) /\ h \in Prompts
        /\ ToSet(turn'[r].batch) = ToSet(turn[r].batch) \ {h}
    BY <1>0, <1>3, ToSetFacts, DistinctFacts DEF Injects
  <2>2. /\ ~(\E s \in Sessions : h \in ToSet(sess[s].pending))
        /\ turn[h].at \notin Opening
    BY <2>1, Whereabouts
  <2>3. \A q \in Prompts : Has(q)' <=> Has(q) /\ q # h
    <3>1. ASSUME NEW q \in Prompts
          PROVE  turn'[q].at \in Opening <=> turn[q].at \in Opening
      BY <1>0, <1>3, <3>1 DEF Injects
    <3>2. ASSUME NEW q \in Prompts
          PROVE  (\E x \in Prompts : q \in ToSet(turn'[x].batch))
                 <=> (\E x \in Prompts : q \in ToSet(turn[x].batch)) /\ q # h
      <4>1. \A x \in Prompts :
              q \in ToSet(turn'[x].batch) <=> q \in ToSet(turn[x].batch) /\ q # h
        BY <1>0, <2>1
      <4> QED
        BY <4>1
    <3> QED
      BY <1>3, <2>1, <2>2, <3>1, <3>2 DEF Injects, Writes, SameQueues, Has
  <2>4. h \in Held
    BY <1>0, <2>1, HeldSteps DEF Has
  <2>5. Held' = Held \ {h}
    BY <1>0, <2>1, <2>3, HeldSteps
  <2>6. Written' = [Written EXCEPT ![h] = @ + 1]
    BY <1>0, <1>3, <2>1, WrittenSteps DEF Injects, Writes
  <2> QED
    BY <2>1, <2>4, <2>5, <2>6 DEF Delivers
<1>4. CASE Takes(r)
  <2>1. /\ sess'[to].pending = <<>>
        /\ \A t \in Sessions \ {to} : sess'[t].pending = sess[t].pending
        /\ turn'[r].batch = left /\ ToSet(turn[r].batch) = {}
        /\ turn[r].at \notin Opening /\ turn'[r].at \notin Opening
    BY <1>0, <1>4, ToSetFacts DEF Takes, Empties, Opening
  <2>2. \A q \in Prompts : Has(q)' <=> Has(q)
    BY <1>0, <2>1, ToSetFacts DEF Has
  <2> QED
    BY <1>0, <1>4, <2>2, HeldSteps, WrittenSteps
       DEF Takes, Empties, SamePrompts, Delivers
<1>5. CASE Drops(r)
  <2> DEFINE P == Carries(r)
  <2>1. /\ ToSet(turn'[r].batch) = {} /\ turn'[r].at \notin Opening
        /\ SameQueues
    BY <1>5, ToSetFacts DEF Drops, Opening
  <2>2. P \subseteq Prompts /\ \A q \in P : Has(q)
    BY <1>0 DEF Carries, Has
  <2>3. \A q \in P : ~(\E s \in Sessions : q \in ToSet(sess[s].pending))
    BY <2>2, Whereabouts DEF Carries
  <2>4. \A q \in P, x \in Prompts \ {r} :
           q \notin ToSet(turn[x].batch) /\ (q = x => turn[x].at \notin Opening)
    <3>1. ASSUME NEW q \in P, NEW x \in Prompts \ {r}
          PROVE  q \notin ToSet(turn[x].batch) /\ (q = x => turn[x].at \notin Opening)
      <4>1. CASE q \in ToSet(turn[r].batch)
        BY <1>0, <4>1, Whereabouts
      <4>2. CASE q = r /\ turn[r].at \in Opening
        BY <4>2, Whereabouts
      <4> QED
        BY <4>1, <4>2 DEF Carries
    <3> QED
      BY <3>1
  <2>5. \A q \in Prompts : Has(q)' <=> Has(q) /\ q \notin P
    <3>1. ASSUME NEW q \in Prompts, q \in P PROVE ~Has(q)'
      BY <1>0, <2>1, <2>3, <2>4, <3>1 DEF Has, SameQueues
    <3>2. ASSUME NEW q \in Prompts, q \notin P PROVE Has(q)' <=> Has(q)
      BY <1>0, <2>1, <3>2 DEF Has, SameQueues, Carries
    <3> QED
      BY <3>1, <3>2, <2>2
  <2> QED
    <3>1. P \subseteq Held /\ Held' = Held \ P
      BY <1>0, <2>2, <2>5, HeldGivesUp
    <3>2. Written' = Written
      BY <1>0, <1>5, WrittenSteps DEF Drops, SamePrompts
    <3> QED
      BY <2>2, <3>1, <3>2 DEF Delivers
<1>6. CASE Hands(r)
  <2> DEFINE P == ToSet(left)
  <2>1. /\ sess'[to].pending = <<>>
        /\ \A t \in Sessions \ {to} : sess'[t].pending = sess[t].pending
        /\ ToSet(turn'[r].batch) = {} /\ ToSet(turn[r].batch) = {}
        /\ turn[r].at \notin Opening /\ turn'[r].at \notin Opening
    BY <1>0, <1>6, ToSetFacts DEF Hands, Empties, Opening
  <2>2. \A q \in P : /\ ~(\E t \in Sessions \ {to} : q \in ToSet(sess[t].pending))
                    /\ ~(\E x \in Prompts : q \in ToSet(turn[x].batch))
                    /\ turn[q].at \notin Opening
    BY <1>0, Whereabouts
  <2>3. \A q \in Prompts : Has(q)' <=> Has(q) /\ q \notin P
    <3>1. ASSUME NEW q \in Prompts, q \in P PROVE ~Has(q)'
      BY <1>0, <2>1, <2>2, <3>1, ToSetFacts DEF Has
    <3>2. ASSUME NEW q \in Prompts, q \notin P PROVE Has(q)' <=> Has(q)
      BY <1>0, <2>1, <3>2, ToSetFacts DEF Has
    <3> QED
      BY <3>1, <3>2
  <2>4. \A q \in P : Has(q)
    BY <1>0 DEF Has
  <2> QED
    <3>1. P \subseteq Held /\ Held' = Held \ P
      BY <1>0, <2>3, <2>4, HeldGivesUp
    <3>2. Written' = Written
      BY <1>0, <1>6, WrittenSteps DEF Hands, Empties, SamePrompts
    <3> QED
      BY <1>0, <3>1, <3>2 DEF Delivers
<1> QED
  BY <1>1, <1>2, <1>3, <1>4, <1>5, <1>6, TurnHands

LEMMA FrameDelivers ==
    ASSUME DeliveryInv, TypeOK', FrameStep PROVE Delivers
<1>0. /\ TypeOK
      /\ \A s \in Sessions : /\ sess[s].pending \in Seq(Prompts)
                             /\ Distinct(sess[s].pending)
      /\ \A q \in Prompts : log[q].fate \in Waiting => log[q].commits = 0
  BY DEF DeliveryInv, TypeInv, TypeOK, SessionState, HandInv
<1>1. CASE SameHands({}) /\ SameQueues /\ SamePrompts({})
  <2>1. \A q \in Prompts : Has(q)' <=> Has(q)
    BY <1>1 DEF SameHands, SameQueues, Has
  <2> QED
    BY <1>0, <1>1, <2>1, HeldSteps, WrittenSteps DEF SamePrompts, Delivers
<1>2. ASSUME NEW r \in Prompts, log[r].fate \in {"unsent", "requeued"},
             SamePrompts({r}), \A q \in Prompts : Has(q)' <=> Has(q) \/ q = r
      PROVE  Delivers
  <2>1. ~Has(r)
    BY <1>2, Whereabouts DEF Has
  <2>2. r \notin Held /\ Held' = Held \cup {r}
    BY <1>0, <1>2, <2>1, HeldSteps
  <2>3. Written' = Written
    BY <1>0, <1>2, WrittenSteps DEF SamePrompts
  <2>4. Written[r] = 0
    BY <1>0, <1>2 DEF Written, Waiting
  <2> QED
    BY <2>2, <2>3, <2>4 DEF Delivers
<1>3. ASSUME NEW r \in Prompts, NEW s \in Sessions, Queues(r, s) PROVE Delivers
  <2>1. r \notin ToSet(sess[s].pending)
    BY <1>3, Whereabouts DEF Queues
  <2>2. ToSet(sess'[s].pending) = ToSet(sess[s].pending) \cup {r}
    BY <1>0, <1>3, <2>1, DistinctFacts DEF Queues
  <2>3. \A q \in Prompts : Has(q)' <=> Has(q) \/ q = r
    <3>1. \A q : (\E x \in Prompts : q \in ToSet(turn'[x].batch))
                 <=> (\E x \in Prompts : q \in ToSet(turn[x].batch))
      BY <1>3 DEF Queues, SameHands
    <3>2. \A q \in Prompts : turn'[q].at = turn[q].at
      BY <1>3 DEF Queues, SameHands
    <3>3. \A q : (\E t \in Sessions : q \in ToSet(sess'[t].pending))
                 <=> (\E t \in Sessions : q \in ToSet(sess[t].pending)) \/ q = r
      <4>1. \A t \in Sessions \ {s} : sess'[t].pending = sess[t].pending
        BY <1>3 DEF Queues
      <4> QED
        BY <2>2, <4>1
    <3> QED
      BY <3>1, <3>2, <3>3 DEF Has
  <2> QED
    BY <1>2, <1>3, <2>3 DEF Queues
<1>4. ASSUME NEW r \in Prompts, Creates(r) PROVE Delivers
  <2>1. ToSet(turn[r].batch) = {} /\ ToSet(turn'[r].batch) = {}
    BY <1>4, ToSetFacts DEF Creates, DeliveryInv, HandInv
  <2>2. \A q \in Prompts : Has(q)' <=> Has(q) \/ q = r
    <3>1. \A x \in Prompts : ToSet(turn'[x].batch) = ToSet(turn[x].batch)
      BY <1>4, <2>1 DEF Creates, SameHands
    <3>2. \A q \in Prompts :
             turn'[q].at \in Opening <=> turn[q].at \in Opening \/ q = r
      BY <1>4 DEF Creates, SameHands, Opening
    <3>3. \A q : (\E x \in Prompts : q \in ToSet(turn'[x].batch))
                 <=> (\E x \in Prompts : q \in ToSet(turn[x].batch))
      BY <3>1
    <3>4. \A q : (\E s \in Sessions : q \in ToSet(sess'[s].pending))
                 <=> (\E s \in Sessions : q \in ToSet(sess[s].pending))
      BY <1>4 DEF Creates, SameQueues
    <3> QED
      BY <3>2, <3>3, <3>4 DEF Has
  <2> QED
    BY <1>2, <1>4, <2>2 DEF Creates
<1>5. ASSUME NEW s \in Sessions, SameHands({}), Empties(s, {"cancelled"})
      PROVE  Delivers
  <2> DEFINE P == ToSet(sess[s].pending)
  <2>1. P \subseteq Prompts /\ \A q \in P : Has(q)
    BY <1>0, ToSetFacts DEF Has
  <2>2. \A q \in P : /\ ~(\E t \in Sessions \ {s} : q \in ToSet(sess[t].pending))
                    /\ ~(\E x \in Prompts : q \in ToSet(turn[x].batch))
                    /\ turn[q].at \notin Opening
    BY <2>1, Whereabouts
  <2>3. \A q \in Prompts : Has(q)' <=> Has(q) /\ q \notin P
    <3>1. ASSUME NEW q \in Prompts, q \in P PROVE ~Has(q)'
      BY <1>5, <2>2, <3>1, ToSetFacts DEF Has, SameHands, Empties
    <3>2. ASSUME NEW q \in Prompts, q \notin P PROVE Has(q)' <=> Has(q)
      BY <1>5, <3>2, ToSetFacts DEF Has, SameHands, Empties
    <3> QED
      BY <3>1, <3>2
  <2> QED
    <3>1. P \subseteq Held /\ Held' = Held \ P
      BY <1>0, <2>1, <2>3, HeldGivesUp
    <3>2. Written' = Written
      BY <1>0, <1>5, WrittenSteps DEF Empties, SamePrompts
    <3> QED
      BY <2>1, <3>1, <3>2 DEF Delivers
<1> QED
  BY <1>1, <1>3, <1>4, <1>5, FrameHands

LEMMA StepDelivers == DeliveryInv /\ [Next]_vars => Delivers
<1> SUFFICES ASSUME DeliveryInv, [Next]_vars PROVE Delivers
  OBVIOUS
<1>1. TypeOK'
  BY TypeStep DEF DeliveryInv, TypeInv
<1>2. CASE UNCHANGED vars
  BY <1>2 DEF vars, Delivers, Held, Written
<1> QED
  BY <1>1, <1>2, TurnDelivers, FrameDelivers DEF Next, FrameStep

\* No interleaving of turns, cancels, hang-ups and clears writes a prompt
\* twice, writes one the daemon has handed back, or takes one it has written:
\* every step of the lifecycle is a step of PromptDelivery or none.
THEOREM Delivered == Spec => PromptsDelivered
<1>1. Init => Delivery!Init
  BY Refines
<1>2. DeliveryInv /\ [Next]_vars => [Delivery!Next]_<<Held, Written>>
  BY StepDelivers, Refines
<1>3. Spec => Delivery!Init /\ [][Delivery!Next]_<<Held, Written>>
  BY <1>1, <1>2, DeliveryInvariant, PTL DEF Spec
<1> QED
  BY <1>3, PTL DEF PromptsDelivered, Delivery!Spec, Held, Written


-----------------------------------------------------------------------------
(* The order of the prompts in hand.                                       *)

OrderInv == ServerInv /\ DeliveryInv

LEMMA PrecedesFacts ==
    /\ \A w : \A q, r : Precedes(q, r, w) => q \in ToSet(w) /\ r \in ToSet(w)
    /\ \A w \in Seq(Prompts), r \in Prompts :
         /\ \A q, x : Precedes(q, x, w) => Precedes(q, x, Append(w, r))
         /\ \A q \in ToSet(w) : Precedes(q, r, Append(w, r))
    /\ \A w \in Seq(Prompts) : w # <<>> /\ Distinct(w) =>
         /\ \A q : ~Precedes(q, Head(w), w)
         /\ \A q, r : Precedes(q, r, w) /\ q # Head(w) => Precedes(q, r, Tail(w))
<1>1. \A w : \A q, r : Precedes(q, r, w) => q \in ToSet(w) /\ r \in ToSet(w)
  BY DEF Precedes, ToSet
<1>2. ASSUME NEW w \in Seq(Prompts), NEW r \in Prompts
      PROVE  /\ \A q, x : Precedes(q, x, w) => Precedes(q, x, Append(w, r))
             /\ \A q \in ToSet(w) : Precedes(q, r, Append(w, r))
  <2>1. /\ Len(w) \in Nat
        /\ DOMAIN w = 1..Len(w) /\ DOMAIN Append(w, r) = 1..(Len(w) + 1)
        /\ \A i \in 1..Len(w) : Append(w, r)[i] = w[i]
        /\ Append(w, r)[Len(w) + 1] = r
    BY <1>2
  <2>2. ASSUME NEW q, NEW x, Precedes(q, x, w)
        PROVE  Precedes(q, x, Append(w, r))
    BY <2>1, <2>2 DEF Precedes
  <2>3. ASSUME NEW q \in ToSet(w) PROVE Precedes(q, r, Append(w, r))
    <3>1. PICK i \in 1..Len(w) : q = w[i]
      BY <2>1 DEF ToSet
    <3>2. /\ i \in DOMAIN Append(w, r) /\ Len(w) + 1 \in DOMAIN Append(w, r)
          /\ i < Len(w) + 1 /\ Append(w, r)[i] = q
      BY <2>1, <3>1
    <3> QED
      BY <2>1, <3>2 DEF Precedes
  <2> QED
    BY <2>2, <2>3
<1>3. ASSUME NEW w \in Seq(Prompts), w # <<>>, Distinct(w)
      PROVE  /\ \A q : ~Precedes(q, Head(w), w)
             /\ \A q, r : Precedes(q, r, w) /\ q # Head(w)
                            => Precedes(q, r, Tail(w))
  <2>1. /\ Len(w) \in Nat /\ Len(w) # 0 /\ Head(w) = w[1]
        /\ DOMAIN w = 1..Len(w) /\ DOMAIN Tail(w) = 1..(Len(w) - 1)
        /\ \A i \in 1..(Len(w) - 1) : Tail(w)[i] = w[i + 1]
    BY <1>3
  <2>2. ASSUME NEW q, Precedes(q, Head(w), w) PROVE FALSE
    <3>1. PICK i \in 1..Len(w), j \in 1..Len(w) : i < j /\ w[j] = w[1]
      BY <2>1, <2>2 DEF Precedes
    <3>2. j = 1
      BY <1>3, <2>1, <3>1 DEF Distinct
    <3> QED
      BY <2>1, <3>1, <3>2
  <2>3. ASSUME NEW q, NEW r, Precedes(q, r, w), q # Head(w)
        PROVE  Precedes(q, r, Tail(w))
    <3>1. PICK i \in 1..Len(w), j \in 1..Len(w) :
             i < j /\ w[i] = q /\ w[j] = r
      BY <2>1, <2>3 DEF Precedes
    <3>2. i # 1
      BY <2>1, <2>3, <3>1
    <3>3. /\ i - 1 \in 1..(Len(w) - 1) /\ j - 1 \in 1..(Len(w) - 1)
          /\ i - 1 < j - 1 /\ (i - 1) + 1 = i /\ (j - 1) + 1 = j
      BY <2>1, <3>1, <3>2
    <3>4. Tail(w)[i - 1] = q /\ Tail(w)[j - 1] = r
      BY <2>1, <3>1, <3>3
    <3> QED
      BY <2>1, <3>3, <3>4 DEF Precedes
  <2> QED
    BY <2>2, <2>3
<1> QED
  BY <1>1, <1>2, <1>3

\* Who stands before whom stands in one of four ways.
LEMMA BeforeParts ==
    ASSUME NEW q, NEW r, NEW s
    PROVE  Before(q, r, s) =>
             /\ InHands(q, s) /\ InHands(r, s)
             /\ Popped(r, s) \/ Waits(r, s)
<1>1. Precedes(q, r, sess[s].pending) => Waits(q, s) /\ Waits(r, s)
  BY PrecedesFacts DEF Waits
<1>2. (\E t \in Prompts : req[t].to = s /\ Precedes(q, r, turn[t].batch))
        => Popped(q, s) /\ Popped(r, s)
  BY PrecedesFacts DEF Popped
<1> QED
  BY <1>1, <1>2 DEF Before, InHands

\* A prompt stands in one way only, and what a session's turns have popped or
\* open is one turn's.
LEMMA OneWay ==
    ASSUME OrderInv, NEW s \in Sessions, NEW q \in Prompts
    PROVE  /\ Waits(q, s) => log[q].fate = "queued"
           /\ Popped(q, s) => log[q].fate = "taken"
           /\ Opens(q, s) => log[q].fate = "opening" /\ Holds(q, s)
           /\ turn[q].at # "inject" => turn[q].batch = <<>>
           /\ req[q].to = s /\ turn[q].batch # <<>> => Holds(q, s)
           /\ \A t \in Prompts : Holds(q, s) /\ Holds(t, s) => q = t
<1>1. /\ DeliveryInv /\ OccupantInv /\ HandInv
  BY DEF OrderInv, ServerInv, FrameInv, OccInv, DeliveryInv
<1>2. Waits(q, s) => log[q].fate = "queued"
  BY <1>1, Whereabouts DEF Waits
<1>3. Popped(q, s) => log[q].fate = "taken"
  BY <1>1, Whereabouts DEF Popped
<1>4. Opens(q, s) => log[q].fate = "opening" /\ Holds(q, s)
  BY <1>1, Whereabouts DEF Opens, Opening, Holds, Holding
<1>5. turn[q].at # "inject" => turn[q].batch = <<>>
  BY <1>1 DEF HandInv
<1>6. req[q].to = s /\ turn[q].batch # <<>> => Holds(q, s)
  BY <1>5 DEF Holds, Holding, InTry
<1>7. \A t \in Prompts : Holds(q, s) /\ Holds(t, s) => q = t
  BY <1>1 DEF OccupantInv, Occupies
<1> QED
  BY <1>2, <1>3, <1>4, <1>5, <1>6, <1>7

\* A step that takes nothing in and moves nothing that stays.
Stays(s) ==
    \A q \in Prompts :
        /\ Opens(q, s)' => Opens(q, s)
        /\ Popped(q, s)' => Popped(q, s)
        /\ Waits(q, s)' => Waits(q, s)
        /\ \A r \in Prompts : InHands(q, s)' /\ InHands(r, s)' =>
             /\ Precedes(q, r, sess[s].pending)
                  => Precedes(q, r, sess'[s].pending)
             /\ (\E t \in Prompts : req[t].to = s
                                    /\ Precedes(q, r, turn[t].batch))
                  => \E t \in Prompts : req'[t].to = s
                                        /\ Precedes(q, r, turn'[t].batch)

\* The two halves of WrittenInTurn, for one session.
Ordered(s) ==
    \A q, r \in Prompts : Before(q, r, s) =>
        /\ log'[r].commits = log[r].commits
        /\ InHands(q, s)' /\ InHands(r, s)' => Before(q, r, s)'

Joins(s) ==
    \A q, r \in Prompts :
        /\ InHands(q, s) /\ ~InHands(r, s)
        /\ InHands(q, s)' /\ InHands(r, s)'
        => Before(q, r, s)' \/ HandingBack(s)

LEMMA Staying ==
    ASSUME OrderInv, NEW s \in Sessions, Stays(s),
           \A q, r \in Prompts : Before(q, r, s)
               => log'[r].commits = log[r].commits
    PROVE  Ordered(s) /\ Joins(s)
<1>1. ASSUME NEW q \in Prompts, InHands(q, s)' PROVE InHands(q, s)
  BY <1>1 DEF Stays, InHands
<1>2. ASSUME NEW q \in Prompts, InHands(q, s)'
      PROVE  /\ Opens(q, s) => Opens(q, s)'
             /\ Popped(q, s) => Popped(q, s)'
             /\ Waits(q, s) => Waits(q, s)'
  <2>1. /\ Opens(q, s)' => Opens(q, s)
        /\ Popped(q, s)' => Popped(q, s)
        /\ Waits(q, s)' => Waits(q, s)
    BY DEF Stays
  <2>2. /\ Waits(q, s) => ~Popped(q, s) /\ ~Opens(q, s)
        /\ Popped(q, s) => ~Opens(q, s)
    BY OneWay
  <2> QED
    BY <1>2, <2>1, <2>2 DEF InHands
<1>3. ASSUME NEW q \in Prompts, NEW r \in Prompts, Before(q, r, s),
             InHands(q, s)', InHands(r, s)'
      PROVE  Before(q, r, s)'
  <2>1. CASE Opens(q, s) /\ (Popped(r, s) \/ Waits(r, s))
    BY <1>2, <1>3, <2>1 DEF Before
  <2>2. CASE Popped(q, s) /\ Waits(r, s)
    BY <1>2, <1>3, <2>2 DEF Before
  <2>3. CASE Precedes(q, r, sess[s].pending)
    BY <1>3, <2>3 DEF Stays, Before
  <2>4. CASE \E t \in Prompts : req[t].to = s /\ Precedes(q, r, turn[t].batch)
    BY <1>3, <2>4 DEF Stays, Before
  <2> QED
    BY <1>3, <2>1, <2>2, <2>3, <2>4 DEF Before
<1> QED
  BY <1>1, <1>3 DEF Ordered, Joins

\* No more is written than the one prompt a turn opens with or injects, and
\* that one stands first.
LEMMA FirstWritten ==
    ASSUME OrderInv, NEW t \in Prompts, TurnStep(t), NEW s \in Sessions,
           NEW q \in Prompts, NEW r \in Prompts, Before(q, r, s)
    PROVE  log'[r].commits = log[r].commits
<1>0. DeliveryInv /\ (Popped(r, s) \/ Waits(r, s))
  BY BeforeParts DEF OrderInv
<1>1. CASE OpensWith(t)
  <2>1. t # r
    BY <1>0, <1>1, Whereabouts, OneWay DEF OpensWith, Opening
  <2> QED
    BY <1>1, <2>1 DEF OpensWith, Writes
<1>2. CASE Injects(t)
  <2> DEFINE h == Head(turn[t].batch)
  <2>1. /\ turn[t].batch \in Seq(Prompts) /\ turn[t].batch # <<>>
        /\ Distinct(turn[t].batch) /\ h \in ToSet(turn[t].batch)
        /\ \A x \in Prompts \ {t} :
             ToSet(turn[x].batch) \cap ToSet(turn[t].batch) = {}
    <3>1. turn[t].batch \in Seq(Prompts) /\ turn[t].batch # <<>>
      BY <1>0, <1>2 DEF Injects, DeliveryInv, TypeInv, TypeOK, TurnState
    <3> QED
      BY <1>0, <3>1, ToSetFacts DEF DeliveryInv, HandInv
  <2>2. h \in Prompts /\ log[h].fate = "taken"
    BY <1>0, <2>1, ToSetFacts, Whereabouts
  <2>3. ASSUME r = h PROVE FALSE
    <3>1. ~Waits(r, s)
      BY <2>2, <2>3, OneWay
    <3>2. ~Precedes(q, r, sess[s].pending)
      BY <3>1, PrecedesFacts DEF Waits
    <3>3. ~(Opens(q, s) /\ Popped(r, s))
      <4>1. SUFFICES ASSUME Opens(q, s), Popped(r, s) PROVE FALSE
        OBVIOUS
      <4>2. PICK x \in Prompts : req[x].to = s /\ r \in ToSet(turn[x].batch)
        BY <4>1 DEF Popped
      <4>3. turn[x].batch # <<>>
        BY <4>2, ToSetFacts
      <4>4. x = q
        BY <4>1, <4>2, <4>3, OneWay
      <4> QED
        BY <4>1, <4>3, <4>4, OneWay DEF Opens
    <3>4. PICK x \in Prompts : Precedes(q, r, turn[x].batch)
      BY <3>1, <3>2, <3>3 DEF Before
    <3>5. x = t
      BY <2>1, <2>3, <3>4, PrecedesFacts
    <3> QED
      BY <2>1, <2>3, <3>4, <3>5, PrecedesFacts
  <2> QED
    BY <1>2, <2>3 DEF Injects, Writes
<1> QED
  BY <1>0, <1>1, <1>2, TurnHands
     DEF Idles, Takes, Drops, Hands, Empties, SamePrompts

LEMMA TurnKeepsOrder ==
    ASSUME OrderInv, NEW t \in Prompts, TurnStep(t), NEW s \in Sessions
    PROVE  Ordered(s) /\ Joins(s)
<1> DEFINE to == req[t].to
<1>0. /\ DeliveryInv /\ HandInv /\ to \in Sessions /\ req' = req
      /\ \A x \in Prompts \ {t} : turn'[x] = turn[x]
      /\ turn[t].batch \in Seq(Prompts) /\ sess[to].pending \in Seq(Prompts)
      /\ Distinct(turn[t].batch)
      /\ \A x \in Prompts \ {t} :
             ToSet(turn[x].batch) \cap ToSet(turn[t].batch) = {}
  <2>1. DeliveryInv /\ TypeInv /\ HandInv
    BY DEF OrderInv, DeliveryInv
  <2>2. to \in Sessions
    BY <2>1, Acting
  <2>3. turn[t] \in TurnState /\ sess[to] \in SessionState
    BY <2>1, <2>2 DEF TypeInv, TypeOK
  <2> QED
    BY <2>1, <2>2, <2>3, TurnShape DEF TurnState, SessionState, HandInv
<1>1. \A q, r \in Prompts : Before(q, r, s) => log'[r].commits = log[r].commits
  BY FirstWritten
<1>2. Stays(s) => Ordered(s) /\ Joins(s)
  BY <1>1, Staying
\* What of the batches the other turns keep.
<1>3. \A q \in Prompts \ {t} : Opens(q, s)' <=> Opens(q, s)
  BY <1>0 DEF Opens
<1>4. ASSUME turn'[t].batch = turn[t].batch
      PROVE  /\ \A q : Popped(q, s)' <=> Popped(q, s)
             /\ \A q, r : (\E x \in Prompts : req[x].to = s
                                  /\ Precedes(q, r, turn[x].batch))
                  => \E x \in Prompts : req'[x].to = s
                                  /\ Precedes(q, r, turn'[x].batch)
  <2>1. \A x \in Prompts : turn'[x].batch = turn[x].batch
    BY <1>0, <1>4
  <2> QED
    BY <1>0, <2>1 DEF Popped
<1>5. ASSUME sess'[s].pending = sess[s].pending
      PROVE  \A q : Waits(q, s)' <=> Waits(q, s)
  BY <1>5 DEF Waits
<1>6. CASE Idles(t)
  <2>1. /\ sess'[s].pending = sess[s].pending
        /\ turn'[t].batch = turn[t].batch
        /\ Opens(t, s)' <=> Opens(t, s)
    BY <1>0, <1>6 DEF Idles, SameQueues, Opens, Opening
  <2> QED
    BY <1>2, <1>3, <1>4, <1>5, <2>1 DEF Stays
<1>7. CASE OpensWith(t)
  <2>1. /\ sess'[s].pending = sess[s].pending
        /\ turn'[t].batch = turn[t].batch
        /\ ~Opens(t, s)'
    BY <1>0, <1>7 DEF OpensWith, Writes, SameQueues, Opens
  <2> QED
    BY <1>2, <1>3, <1>4, <1>5, <2>1 DEF Stays
\* The batch of t loses some of its prompts, and the rest keep their order.
<1>8. ASSUME sess'[s].pending = sess[s].pending, Opens(t, s)' => Opens(t, s),
             ToSet(turn'[t].batch) \subseteq ToSet(turn[t].batch),
             \A q, r \in Prompts : /\ Precedes(q, r, turn[t].batch)
                                   /\ InHands(q, s)'
                                   => Precedes(q, r, turn'[t].batch)
      PROVE  Stays(s)
  <2>1. \A q : Popped(q, s)' => Popped(q, s)
    <3>1. \A x \in Prompts : ToSet(turn'[x].batch) \subseteq ToSet(turn[x].batch)
      BY <1>0, <1>8
    <3> QED
      BY <1>0, <3>1 DEF Popped
  <2>2. ASSUME NEW q \in Prompts, NEW r \in Prompts, InHands(q, s)',
               NEW x \in Prompts, req[x].to = s, Precedes(q, r, turn[x].batch)
        PROVE  req'[x].to = s /\ Precedes(q, r, turn'[x].batch)
    BY <1>0, <1>8, <2>2
  <2> QED
    BY <1>3, <1>5, <1>8, <2>1, <2>2 DEF Stays
\* What t carries and gives up is in hand no more.
<1>9. ASSUME NEW q \in ToSet(turn[t].batch), q \notin ToSet(turn'[t].batch),
             sess'[s].pending = sess[s].pending,
             turn'[t].at \in Opening => turn[t].at \in Opening
      PROVE  ~InHands(q, s)'
  <2>1. q \in Prompts /\ log[q].fate = "taken"
    BY <1>0, ToSetFacts, Whereabouts
  <2>2. ~Waits(q, s) /\ turn[q].at \notin Opening
    BY <1>0, <2>1, Whereabouts DEF Waits
  <2>3. ~Waits(q, s)' /\ ~Opens(q, s)'
    BY <1>0, <1>9, <2>1, <2>2 DEF Waits, Opens, Opening
  <2>4. ~Popped(q, s)'
    BY <1>0, <1>9 DEF Popped
  <2> QED
    BY <2>3, <2>4 DEF InHands
<1>10. CASE Injects(t)
  <2>0. PICK h : h = Head(turn[t].batch)
    OBVIOUS
  <2>1. /\ turn[t].batch # <<>> /\ turn'[t].batch = Tail(turn[t].batch)
        /\ turn[t].at = "inject" /\ turn'[t].at = "inject"
        /\ sess'[s].pending = sess[s].pending
    BY <1>10 DEF Injects, Writes, SameQueues
  <2>2. h \in ToSet(turn[t].batch) /\ ToSet(turn'[t].batch) = ToSet(turn[t].batch) \ {h}
    BY <1>0, <2>0, <2>1, ToSetFacts, DistinctFacts
  <2>3. ~InHands(h, s)'
    BY <1>9, <2>1, <2>2 DEF Opening
  <2>4. \A q, r \in Prompts :
           Precedes(q, r, turn[t].batch) /\ InHands(q, s)'
           => Precedes(q, r, turn'[t].batch)
    BY <1>0, <2>0, <2>1, <2>3, PrecedesFacts
  <2> QED
    BY <1>2, <1>8, <2>1, <2>2, <2>4 DEF Opens
<1>11. CASE Drops(t)
  <2>1. /\ sess'[s].pending = sess[s].pending
        /\ turn'[t].at \notin Opening /\ ToSet(turn'[t].batch) = {}
    BY <1>11, ToSetFacts DEF Drops, SameQueues, Opening
  <2>2. \A q \in ToSet(turn[t].batch) : ~InHands(q, s)'
    BY <1>9, <2>1
  <2>3. \A q, r \in Prompts :
           Precedes(q, r, turn[t].batch) /\ InHands(q, s)'
           => Precedes(q, r, turn'[t].batch)
    BY <2>2, PrecedesFacts
  <2> QED
    BY <1>2, <1>8, <2>1, <2>3 DEF Opens, Opening
<1>12. CASE Hands(t)
  <2>1. /\ turn[t].batch = <<>> /\ turn'[t].batch = turn[t].batch
        /\ ~Opens(t, s)'
        /\ \/ sess'[s].pending = sess[s].pending
           \/ sess'[s].pending = <<>>
    BY <1>0, <1>12 DEF Hands, Empties, HandInv, Opens
  <2>2. CASE sess'[s].pending = sess[s].pending
    BY <1>2, <1>3, <1>4, <1>5, <2>1, <2>2 DEF Stays
  <2>3. CASE sess'[s].pending = <<>>
    <3>1. \A q : ~Waits(q, s)'
      BY <2>3, ToSetFacts DEF Waits
    <3>2. ASSUME NEW q \in Prompts, NEW r, InHands(q, s)'
          PROVE  ~Precedes(q, r, sess[s].pending)
      <4>1. Opens(q, s) \/ Popped(q, s)
        BY <1>3, <1>4, <2>1, <3>1, <3>2 DEF InHands
      <4>2. ~Waits(q, s)
        BY <4>1, OneWay
      <4> QED
        BY <4>2, PrecedesFacts DEF Waits
    <3> QED
      BY <1>2, <1>3, <1>4, <2>1, <3>1, <3>2 DEF Stays
  <2> QED
    BY <2>1, <2>2, <2>3
<1>13. CASE Takes(t) /\ s # to
  <2>1. /\ sess'[s].pending = sess[s].pending
        /\ \A x \in Prompts : req[x].to = s => turn'[x] = turn[x]
    BY <1>0, <1>13 DEF Takes, Empties
  <2>2. ~Opens(t, s)' /\ \A q : Popped(q, s)' <=> Popped(q, s)
    BY <1>0, <1>13, <2>1 DEF Opens, Popped
  <2> QED
    BY <1>0, <1>2, <1>3, <1>5, <2>1, <2>2 DEF Stays
<1>14. CASE Takes(t) /\ s = to
  <2> DEFINE left == sess[to].pending
  <2>1. /\ sess'[s].pending = <<>> /\ turn'[t].batch = left
        /\ turn[t].at \in {"round", "stream"} /\ turn'[t].at = "inject"
    BY <1>14 DEF Takes, Empties
  <2>2. Holds(t, s) /\ turn[t].batch = <<>>
    BY <1>0, <1>14, <2>1 DEF Holds, Holding, InTry, HandInv
  <2>3. \A q \in Prompts : ~Opens(q, s) /\ ~Popped(q, s)
    <3>1. ASSUME NEW q \in Prompts, Opens(q, s) PROVE FALSE
      <4>1. q = t
        BY <2>2, <3>1, OneWay
      <4> QED
        BY <2>1, <3>1, <4>1 DEF Opens
    <3>2. ASSUME NEW q \in Prompts, NEW x \in Prompts, req[x].to = s
          PROVE  q \notin ToSet(turn[x].batch)
      <4>1. turn[x].batch = <<>>
        BY <2>2, <3>2, OneWay
      <4> QED
        BY <4>1, ToSetFacts
    <3> QED
      BY <3>1, <3>2 DEF Popped
  <2>4. \A q \in Prompts : ~Opens(q, s)' /\ ~Waits(q, s)'
    <3>1. ~Opens(t, s)' /\ \A q : ~Waits(q, s)'
      BY <2>1, ToSetFacts DEF Opens, Waits
    <3> QED
      BY <1>3, <2>3, <3>1
  <2>5. \A q \in Prompts : Popped(q, s)' <=> Waits(q, s)
    <3>1. \A q \in Prompts, x \in Prompts \ {t} :
             req[x].to = s => q \notin ToSet(turn'[x].batch)
      BY <1>0, <2>3 DEF Popped
    <3> QED
      BY <1>0, <1>14, <2>1, <3>1 DEF Popped, Waits
  <2>6. ASSUME NEW q \in Prompts, NEW r \in Prompts, Before(q, r, s)
        PROVE  Before(q, r, s)'
    <3>1. ~(\E x \in Prompts : req[x].to = s /\ Precedes(q, r, turn[x].batch))
      BY <2>3, PrecedesFacts DEF Popped
    <3>2. Precedes(q, r, turn'[t].batch)
      BY <1>14, <2>1, <2>3, <2>6, <3>1 DEF Before
    <3> QED
      BY <1>0, <1>14, <3>2 DEF Before
  <2>7. \A q \in Prompts : InHands(q, s)' => InHands(q, s)
    BY <2>4, <2>5 DEF InHands
  <2> QED
    BY <1>1, <2>6, <2>7 DEF Ordered, Joins
<1> QED
  BY <1>0, <1>6, <1>7, <1>10, <1>11, <1>12, <1>13, <1>14, TurnHands

\* A frame, or the tick, appends a prompt, opens a turn with one, clears a
\* queue or leaves all of them where they are.
LEMMA FrameKeepsOrder ==
    ASSUME OrderInv, FrameStep, NEW s \in Sessions
    PROVE  Ordered(s) /\ Joins(s)
<1>0. /\ DeliveryInv /\ TypeInv /\ HandInv
      /\ \A x \in Prompts : turn[x].at # "idle" => req'[x] = req[x]
      /\ \A x \in Prompts : turn[x].at = "idle" => turn[x].batch = <<>>
      /\ \A x \in Sessions : sess[x].pending \in Seq(Prompts)
      /\ Passes \/ \E x \in Prompts, y \in Sessions, p \in Producers :
                      Begins(x, y, p)
  <2>1. DeliveryInv /\ TypeInv /\ HandInv /\ UnsentInv /\ PromptInv
    BY DEF OrderInv, DeliveryInv, ServerInv, FrameInv, OccInv
  <2>2. \A x \in Prompts : turn[x].at # "idle" => req'[x] = req[x]
    BY <2>1, FrameMinds DEF Minds, Stands, Awoken
  <2>3. \A x \in Sessions : sess[x].pending \in Seq(Prompts)
    BY <2>1 DEF TypeInv, TypeOK, SessionState
  <2>4. Passes \/ \E x \in Prompts, y \in Sessions, p \in Producers :
                      Begins(x, y, p)
    BY <2>1, FrameEffect
  <2> QED
    BY <2>1, <2>2, <2>3, <2>4 DEF HandInv
\* Nothing is written.
<1>1. ASSUME Stays(s), NEW P, SamePrompts(P) PROVE Ordered(s) /\ Joins(s)
  BY <1>1, Staying DEF SamePrompts
\* Turns that stand keep what they carry.
<1>2. ASSUME NEW P \in SUBSET Prompts, SameHands(P),
             \A x \in P : turn[x].at = "idle" /\ turn'[x].batch = <<>>
      PROVE  /\ \A q \in Prompts \ P : Opens(q, s)' <=> Opens(q, s)
             /\ \A q : Popped(q, s)' <=> Popped(q, s)
             /\ \A q, r : (\E x \in Prompts : req'[x].to = s
                                  /\ Precedes(q, r, turn'[x].batch))
                  <=> \E x \in Prompts : req[x].to = s
                                  /\ Precedes(q, r, turn[x].batch)
  <2>1. \A q \in Prompts \ P : Opens(q, s)' <=> Opens(q, s)
    BY <1>0, <1>2 DEF SameHands, Opens
  <2>2. \A x \in Prompts : /\ turn'[x].batch = turn[x].batch
                           /\ turn[x].batch # <<>> => req'[x] = req[x]
    BY <1>0, <1>2 DEF SameHands
  <2>3. \A q : \A x \in Prompts :
           /\ q \in ToSet(turn[x].batch) => turn[x].batch # <<>>
           /\ \A r : Precedes(q, r, turn[x].batch) => turn[x].batch # <<>>
    BY ToSetFacts, PrecedesFacts
  <2>4. \A q : \A x \in Prompts :
           /\ req'[x].to = s /\ q \in ToSet(turn'[x].batch)
                <=> req[x].to = s /\ q \in ToSet(turn[x].batch)
           /\ \A r : req'[x].to = s /\ Precedes(q, r, turn'[x].batch)
                <=> req[x].to = s /\ Precedes(q, r, turn[x].batch)
    BY <2>2, <2>3
  <2> QED
    BY <2>1, <2>4 DEF Popped
<1>3. ASSUME sess'[s].pending = sess[s].pending
      PROVE  \A q : Waits(q, s)' <=> Waits(q, s)
  BY <1>3 DEF Waits
<1>4. ASSUME SameHands({})
      PROVE  /\ \A q \in Prompts : Opens(q, s)' <=> Opens(q, s)
             /\ \A q : Popped(q, s)' <=> Popped(q, s)
             /\ \A q, r : (\E x \in Prompts : req'[x].to = s
                                  /\ Precedes(q, r, turn'[x].batch))
                  <=> \E x \in Prompts : req[x].to = s
                                  /\ Precedes(q, r, turn[x].batch)
  <2>1. PICK P \in SUBSET Prompts : P = {}
    OBVIOUS
  <2>2. SameHands(P) /\ \A x \in P : turn[x].at = "idle" /\ turn'[x].batch = <<>>
    BY <1>4, <2>1
  <2>3. Prompts \ P = Prompts
    BY <2>1
  <2> HIDE <2>1
  <2> QED
    BY <1>2, <2>2, <2>3
<1>5. ASSUME SameHands({}), sess'[s].pending = sess[s].pending PROVE Stays(s)
  BY <1>3, <1>4, <1>5 DEF Stays
<1>6. CASE SameHands({}) /\ SameQueues /\ SamePrompts({})
  BY <1>1, <1>5, <1>6 DEF SameQueues
<1>7. ASSUME NEW y \in Sessions, SameHands({}), Empties(y, {"cancelled"})
      PROVE  Ordered(s) /\ Joins(s)
  <2>1. CASE s # y
    BY <1>1, <1>5, <1>7, <2>1 DEF Empties
  <2>2. CASE s = y
    <3>1. \A q : ~Waits(q, s)'
      BY <1>7, <2>2, ToSetFacts DEF Empties, Waits
    <3>2. ASSUME NEW q \in Prompts, NEW r, InHands(q, s)'
          PROVE  ~Precedes(q, r, sess[s].pending)
      <4>1. Opens(q, s) \/ Popped(q, s)
        BY <1>4, <1>7, <3>1, <3>2 DEF InHands
      <4>2. ~Waits(q, s)
        BY <4>1, OneWay
      <4> QED
        BY <4>2, PrecedesFacts DEF Waits
    <3>3. Stays(s)
      BY <1>4, <1>7, <3>1, <3>2 DEF Stays
    <3> QED
      BY <1>1, <1>7, <3>3 DEF Empties
  <2> QED
    BY <2>1, <2>2
<1>8. ASSUME NEW n \in Prompts, NEW y \in Sessions, Queues(n, y)
      PROVE  Ordered(s) /\ Joins(s)
  <2>1. CASE s # y
    BY <1>1, <1>5, <1>8, <2>1 DEF Queues
  <2>2. CASE s = y
    <3>1. /\ sess'[s].pending = Append(sess[s].pending, n)
          /\ SameHands({}) /\ SamePrompts({n})
      BY <1>8, <2>2 DEF Queues
    <3>2. \A q \in Prompts : /\ Waits(q, s) => Waits(q, s)'
                             /\ Waits(q, s)' => Waits(q, s) \/ q = n
                             /\ Waits(n, s)'
      <4>1. n \notin ToSet(sess[s].pending) /\ Distinct(sess[s].pending)
        BY <1>0, <1>8, Whereabouts DEF Queues, HandInv
      <4>2. ToSet(sess'[s].pending) = ToSet(sess[s].pending) \cup {n}
        BY <1>0, <3>1, <4>1, DistinctFacts
      <4> QED
        BY <4>2 DEF Waits
    <3>3. ASSUME NEW q \in Prompts, NEW r \in Prompts, Before(q, r, s)
          PROVE  Before(q, r, s)'
      <4>1. Precedes(q, r, sess[s].pending) => Precedes(q, r, sess'[s].pending)
        BY <1>0, <3>1, PrecedesFacts
      <4> QED
        BY <1>4, <3>1, <3>2, <3>3, <4>1 DEF Before
    <3>4. ASSUME NEW q \in Prompts, InHands(q, s) PROVE Before(q, n, s)'
      <4>1. CASE Opens(q, s) \/ Popped(q, s)
        BY <1>4, <3>1, <3>2, <4>1 DEF Before
      <4>2. CASE Waits(q, s)
        <5>1. Precedes(q, n, sess'[s].pending)
          BY <1>0, <3>1, <4>2, PrecedesFacts DEF Waits
        <5> QED
          BY <5>1 DEF Before
      <4> QED
        BY <3>4, <4>1, <4>2 DEF InHands
    <3>5. ASSUME NEW r \in Prompts, InHands(r, s)', ~InHands(r, s) PROVE r = n
      BY <1>4, <3>1, <3>2, <3>5 DEF InHands
    <3> QED
      BY <3>1, <3>3, <3>4, <3>5 DEF Ordered, Joins, SamePrompts
  <2> QED
    BY <2>1, <2>2
<1>9. ASSUME NEW n \in Prompts, Creates(n) PROVE Ordered(s) /\ Joins(s)
  <2>1. /\ SameHands({n}) /\ sess'[s].pending = sess[s].pending
        /\ turn[n].at = "idle" /\ turn'[n].at = "created"
        /\ turn'[n].batch = <<>> /\ SamePrompts({n})
    BY <1>9 DEF Creates, SameQueues
  <2>2. /\ \A q \in Prompts \ {n} : Opens(q, s)' <=> Opens(q, s)
        /\ \A q : Popped(q, s)' <=> Popped(q, s)
        /\ \A q, r : (\E x \in Prompts : req'[x].to = s
                             /\ Precedes(q, r, turn'[x].batch))
             <=> \E x \in Prompts : req[x].to = s
                             /\ Precedes(q, r, turn[x].batch)
        /\ \A q : Waits(q, s)' <=> Waits(q, s)
    BY <1>2, <1>3, <2>1
  <2>3. ~Opens(n, s)
    BY <2>1 DEF Opens
  <2>4. ASSUME NEW q \in Prompts, NEW r \in Prompts, Before(q, r, s)
        PROVE  Before(q, r, s)'
    BY <2>1, <2>2, <2>3, <2>4 DEF Before
  <2>5. ASSUME NEW r \in Prompts, InHands(r, s)', ~InHands(r, s) PROVE Opens(n, s)'
    BY <2>2, <2>5 DEF InHands
  <2>6. ASSUME Opens(n, s)', NEW q \in Prompts, InHands(q, s)
        PROVE  HandingBack(s)
    <3>1. ~sess[s].busy
      <4>1. PICK x \in Prompts, y \in Sessions, p \in Producers :
                Begins(x, y, p)
        BY <1>0, <2>1 DEF Passes
      <4>2. x = n
        BY <2>1, <4>1 DEF Begins
      <4>3. y = s
        BY <2>6, <4>1, <4>2 DEF Begins, Opens
      <4> QED
        BY <4>1, <4>3 DEF Begins
    <3>2. \A x \in Prompts : ~Holds(x, s) /\ ~Leaked(x, s)
      BY <3>1 DEF OrderInv, ServerInv, FrameInv, OccInv, BusyMeansHeld
    <3>3. ~Opens(q, s)
      BY <3>2, OneWay
    <3>4. ~Popped(q, s)
      <4>1. \A x \in Prompts : req[x].to = s => turn[x].batch = <<>>
        BY <3>2, OneWay
      <4> QED
        BY <4>1, ToSetFacts DEF Popped
    <3>5. sess[s].pending # <<>>
      BY <2>6, <3>3, <3>4, ToSetFacts DEF InHands, Waits
    <3>6. PICK x \in Prompts :
            \/ req[x].to = s /\ turn[x].at = "handback"
            \/ req[x].to = s /\ log[x].cut = "handback"
      BY <3>2, <3>5 DEF OrderInv, ServerInv, QueueHasServer
    <3> QED
      BY <3>6 DEF HandingBack
  <2> QED
    BY <2>1, <2>4, <2>5, <2>6 DEF Ordered, Joins, SamePrompts
<1> QED
  BY <1>0, <1>6, <1>7, <1>8, <1>9, FrameHands

\* The prompts of a session are written in the order the daemon took them in;
\* only one that opens a turn while an earlier turn has yet to hand its queue
\* back passes those in that queue.
THEOREM InOrder == Spec => WrittenInTurn
<1>1. ASSUME OrderInv, [Next]_vars
      PROVE  [\A s \in Sessions, q, r \in Prompts :
                /\ Before(q, r, s) =>
                     /\ log'[r].commits = log[r].commits
                     /\ InHands(q, s)' /\ InHands(r, s)' => Before(q, r, s)'
                /\ /\ InHands(q, s) /\ ~InHands(r, s)
                   /\ InHands(q, s)' /\ InHands(r, s)'
                   => Before(q, r, s)' \/ HandingBack(s)]_vars
  <2>1. CASE UNCHANGED vars
    BY <2>1
  <2>2. CASE Next
    <3>1. ASSUME NEW s \in Sessions PROVE Ordered(s) /\ Joins(s)
      BY <1>1, <2>2, TurnKeepsOrder, FrameKeepsOrder DEF Next, FrameStep
    <3> QED
      BY <3>1 DEF Ordered, Joins
  <2> QED
    BY <1>1, <2>1, <2>2
<1>2. Spec => []OrderInv
  <2>1. Spec => []ServerInv
    BY ServerInit, ServerStep, PTL DEF Spec
  <2> QED
    BY <2>1, DeliveryInvariant, PTL DEF OrderInv
<1> QED
  BY <1>1, <1>2, PTL DEF Spec, WrittenInTurn
=============================================================================
