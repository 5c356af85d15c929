--------------------------- MODULE Approval_proofs ---------------------------
(***************************************************************************)
(* What Approval promises, for any number of calls, sessions and clients:  *)
(* the first answer decides, nobody hears two endings, every asker that    *)
(* stayed is told, and the table of questions is exact.                    *)
(***************************************************************************)
EXTENDS Approval, TLAPS

Words == Outcomes

\* Only words of W have been announced for q.
Heard(q, W) == \A c \in Clients : hist[q].heard[c] \subseteq W

\* Client c knows how q ended and does not show it.
Told(q, c) == hist[q].heard[c] # {} /\ client[c].shown # q

\* The word of a decided question.
WordOf(future) == IF future = "dead" THEN "timed_out" ELSE OutcomeOf(future)

-----------------------------------------------------------------------------
(* The inductive invariant: what holds of one question.                    *)

TableGood(q) == q \in table <=> call[q].at \in Suspended

\* Nothing is said before the end of the wait, and one word after it.
WordGood(q) ==
    /\ call[q].at \in {"idle", "asking", "waiting"} => Heard(q, {})
    /\ call[q].at = "telling" => /\ call[q].future # "open"
                                 /\ Heard(q, {WordOf(call[q].future)})
    /\ call[q].at = "cancelling" => Heard(q, {"cancelled"})
    /\ \A c \in Clients :
         /\ \A v, w \in hist[q].heard[c] : v = w
         /\ "approved" \in hist[q].heard[c] => hist[q].first = "yes"
         /\ "refused" \in hist[q].heard[c] => hist[q].first \in {"no", "odd"}

\* The future holds the first answer, or none.
AnswerGood(q) ==
    /\ call[q].future \in Answers => hist[q].first = call[q].future
    /\ call[q].future = "open" => hist[q].first = None

\* The turn's cancellation is on its way until the coroutine has taken it.
EscGood(q) ==
    /\ call[q].at = "idle" => ~call[q].esc
    /\ call[q].esc => "esc" \in call[q].kill \/ call[q].at \in {"cancelling", "done"}
    /\ call[q].ran = "wide" => /\ call[q].at = "done"
                               /\ hist[q].first = "yes"
                               /\ ~call[q].esc

\* The askers are subscribers, and are told or still to be told.
AskedGood(q) ==
    /\ \A c \in hist[q].asked : client[c].sub = Session[q] /\ client[c].here
    /\ call[q].at = "idle" => hist[q].asked = {}
    /\ call[q].at \in {"telling", "cancelling"} =>
         \A c \in hist[q].asked : c \in call[q].left \/ Told(q, c)
    /\ call[q].at = "done" /\ ~hist[q].cut => \A c \in hist[q].asked : Told(q, c)

Good(q) == /\ TableGood(q)
           /\ WordGood(q)
           /\ AnswerGood(q)
           /\ EscGood(q)
           /\ AskedGood(q)

ApprovalInv == TypeOK /\ \A q \in Calls : Good(q)

-----------------------------------------------------------------------------
(* What a step does.                                                       *)

\* What a broadcast, or a step of a coroutine, leaves alone: the clients'
\* subscriptions, and the other questions.
SameSubs == \A c \in Clients :
              client'[c].sub = client[c].sub /\ client'[c].here = client[c].here

\* Call q is untouched, and whoever was asked and stayed is as it was.
Bystander(q) ==
    /\ call'[q] = call[q]
    /\ q \in table' <=> q \in table
    /\ hist'[q].first = hist[q].first
    /\ hist'[q].heard = hist[q].heard
    /\ hist'[q].cut = hist[q].cut
    /\ hist'[q].asked \subseteq hist[q].asked
    /\ \A c \in hist'[q].asked : /\ client'[c].sub = client[c].sub
                                 /\ client'[c].here = client[c].here
                                 /\ client'[c].shown = q => client[c].shown = q

\* A question no step touches stays good.
LEMMA BystanderGood ==
    ASSUME TypeOK, NEW q \in Calls, Good(q), Bystander(q)
    PROVE  Good(q)'
<1>1. hist[q].asked \subseteq Clients
  BY DEF TypeOK, HistState
<1>2. TableGood(q)'
  BY DEF Good, TableGood, Bystander
<1>3. WordGood(q)'
  BY DEF Good, WordGood, Bystander, Heard
<1>4. AnswerGood(q)'
  BY DEF Good, AnswerGood, Bystander
<1>5. EscGood(q)'
  BY DEF Good, EscGood, Bystander
<1>6. AskedGood(q)'
  BY <1>1 DEF Good, AskedGood, Bystander, Told
<1> QED
  BY <1>2, <1>3, <1>4, <1>5, <1>6 DEF Good

\* One call's record changes to a record of the same shape.
LEMMA CallUpdate ==
    ASSUME TypeOK, NEW q \in Calls, NEW x \in CallState,
           call' = [call EXCEPT ![q] = x]
    PROVE  /\ call' \in [Calls -> CallState]
           /\ call'[q] = x
           /\ \A p \in Calls \ {q} : call'[p] = call[p]
BY DEF TypeOK

\* The updates of a call's record keep its shape.
LEMMA RecordUpdates ==
    ASSUME NEW c \in CallState
    PROVE  /\ \A left \in SUBSET Clients, at \in Places :
                [c EXCEPT !.left = left, !.at = at] \in CallState
           /\ \A left \in SUBSET Clients, at \in Places :
                [c EXCEPT !.at = at, !.left = left] \in CallState
           /\ \A ran \in {"none", "refused", "wide"} : Ended(c, ran) \in CallState
           /\ CutOff(c) \in CallState
           /\ [c EXCEPT !.kill = {}] \in CallState
           /\ [c EXCEPT !.kill = {}, !.future = "dead"] \in CallState
           /\ \A b \in BOOLEAN : [c EXCEPT !.armed = b] \in CallState
           /\ [c EXCEPT !.esc = TRUE] \in CallState
           /\ \A a \in Answers : [c EXCEPT !.future = a] \in CallState
           /\ \A why \in {"esc", "outer", "inner"} : Struck(c, why) \in CallState
<1>1. \A ran \in {"none", "refused", "wide"} : Ended(c, ran) \in CallState
  BY DEF CallState, Ended, Places
<1>2. CutOff(c) \in CallState
  BY <1>1 DEF CutOff
<1>3. \A why \in {"esc", "outer", "inner"} : Struck(c, why) \in CallState
  BY DEF CallState, Struck
<1>4. /\ [c EXCEPT !.kill = {}] \in CallState
      /\ \A b \in BOOLEAN : [c EXCEPT !.armed = b] \in CallState
      /\ [c EXCEPT !.esc = TRUE] \in CallState
  BY DEF CallState
<1>5. /\ [c EXCEPT !.kill = {}, !.future = "dead"] \in CallState
      /\ \A a \in Answers : [c EXCEPT !.future = a] \in CallState
  BY DEF CallState, Answers
<1>6. \A left \in SUBSET Clients, at \in Places :
        /\ [c EXCEPT !.left = left, !.at = at] \in CallState
        /\ [c EXCEPT !.at = at, !.left = left] \in CallState
  BY DEF CallState
<1> QED
  BY <1>1, <1>2, <1>3, <1>4, <1>5, <1>6

-----------------------------------------------------------------------------
(* Broadcasts.                                                             *)

LEMMA WritesFacts ==
    ASSUME NEW T \in SUBSET Clients, NEW w \in Writes(T)
    PROVE  /\ w.sent \in SUBSET T /\ w.left = T \ w.sent
           /\ w.waits \in BOOLEAN /\ (~w.waits => w.sent = T)
<1>1. CASE \E D \in SUBSET T :
             w = [sent |-> D, left |-> T \ D, waits |-> TRUE]
  BY <1>1
<1>2. CASE w = [sent |-> T, left |-> {}, waits |-> FALSE]
  BY <1>2
<1> QED
  BY <1>1, <1>2 DEF Writes

\* The question is put: nothing is announced, and whoever is added to the
\* askers is a target.
Puts(q, c) ==
    /\ \E left \in SUBSET Clients, at \in {"asking", "waiting"} :
         call' = [call EXCEPT ![q] = [c EXCEPT !.left = left, !.at = at]]
    /\ client' \in [Clients -> ClientState] /\ SameSubs
    /\ hist' \in [Calls -> HistState]
    /\ \A p \in Calls : /\ hist'[p].first = hist[p].first
                        /\ hist'[p].heard = hist[p].heard
                        /\ hist'[p].cut = hist[p].cut
    /\ hist'[q].asked \subseteq hist[q].asked \cup Targets(q)
    /\ \A p \in Calls \ {q} :
         /\ hist'[p].asked = hist[p].asked
         /\ \A d \in Clients : client'[d].shown = p => client[d].shown = p

LEMMA PutQuestionPuts ==
    ASSUME TypeOK, NEW q \in Calls, NEW T \in SUBSET Clients,
           NEW c \in CallState, PutQuestion(q, T, c)
    PROVE  Puts(q, c)
<1>1. PICK w \in Writes(T) :
        /\ client' = [d \in Clients |->
                        IF d \in Reached(q, w)
                        THEN [client[d] EXCEPT !.shown = q] ELSE client[d]]
        /\ hist' = [hist EXCEPT ![q].asked = @ \cup (Reached(q, w) \cap Targets(q))]
        /\ call' = [call EXCEPT ![q] =
                      [c EXCEPT !.left = w.left,
                                !.at = IF w.waits THEN "asking" ELSE "waiting"]]
  BY DEF PutQuestion
<1>2. w.sent \in SUBSET T /\ w.left \in SUBSET Clients
  BY WritesFacts
<1>3. client' \in [Clients -> ClientState]
  <2>1. \A d \in Clients : [client[d] EXCEPT !.shown = q] \in ClientState
    BY DEF TypeOK, ClientState
  <2> QED
    BY <1>1, <2>1 DEF TypeOK
<1>4. /\ \A d \in Clients : client'[d] = IF d \in Reached(q, w)
                                         THEN [client[d] EXCEPT !.shown = q]
                                         ELSE client[d]
      /\ \A d \in Clients : client[d] \in ClientState
  BY <1>1 DEF TypeOK
<1>5. SameSubs /\ \A p \in Calls \ {q}, d \in Clients :
                     client'[d].shown = p => client[d].shown = p
  BY <1>4 DEF SameSubs, ClientState
<1>6. Reached(q, w) \cap Targets(q) \subseteq Clients
  BY DEF Targets, Subscribers
<1>7. hist[q] \in HistState /\ \A p \in Calls : hist[p] \in HistState
  BY DEF TypeOK
<1>8. /\ hist'[q] = [hist[q] EXCEPT !.asked = @ \cup (Reached(q, w) \cap Targets(q))]
      /\ \A p \in Calls \ {q} : hist'[p] = hist[p]
  BY <1>1 DEF TypeOK
<1>9. hist'[q] \in HistState
  BY <1>6, <1>7, <1>8 DEF HistState
<1>10. hist' \in [Calls -> HistState]
  BY <1>1, <1>7, <1>8, <1>9 DEF TypeOK
<1>11. /\ \A p \in Calls : /\ hist'[p].first = hist[p].first
                           /\ hist'[p].heard = hist[p].heard
                           /\ hist'[p].cut = hist[p].cut
       /\ hist'[q].asked \subseteq hist[q].asked \cup Targets(q)
       /\ \A p \in Calls \ {q} : hist'[p].asked = hist[p].asked
  BY <1>7, <1>8 DEF HistState
<1>12. \E left \in SUBSET Clients, at \in {"asking", "waiting"} :
         call' = [call EXCEPT ![q] = [c EXCEPT !.left = left, !.at = at]]
  BY <1>1, <1>2
<1> QED
  BY <1>3, <1>5, <1>10, <1>11, <1>12 DEF Puts

\* The outcome is told: whoever of T is a subscriber is told or still to be
\* told, and whoever was told stays so.
Tells(q, T, word, place, c, end) ==
    /\ client' \in [Clients -> ClientState] /\ SameSubs
    /\ hist' \in [Calls -> HistState]
    /\ \A p \in Calls : /\ hist'[p].first = hist[p].first
                        /\ hist'[p].asked = hist[p].asked
                        /\ hist'[p].cut = hist[p].cut
    /\ \A p \in Calls \ {q} :
         /\ hist'[p].heard = hist[p].heard
         /\ \A d \in Clients : client'[d].shown = p => client[d].shown = p
    /\ \A d \in Clients : /\ hist'[q].heard[d] \subseteq hist[q].heard[d] \cup {word}
                          /\ Told(q, d) => Told(q, d)'
    /\ \/ /\ \E left \in SUBSET Clients :
               /\ call' = [call EXCEPT ![q] = [c EXCEPT !.at = place, !.left = left]]
               /\ \A d \in T \cap Subscribers(q) : d \in left \/ Told(q, d)'
          /\ table' = table
       \/ /\ call' = [call EXCEPT ![q] = end]
          /\ \A d \in T \cap Subscribers(q) : Told(q, d)'
          /\ table' = table \ {q}

LEMMA TellTells ==
    ASSUME TypeOK, ApprovalAssumption, NEW q \in Calls, NEW T \in SUBSET Clients,
           NEW word \in Words, NEW place, NEW c, NEW end,
           Tell(q, T, word, place, c, end)
    PROVE  Tells(q, T, word, place, c, end)
<1>1. PICK w \in Writes(T) :
        /\ client' = [d \in Clients |->
                        IF d \in Reached(q, w)
                        THEN [client[d] EXCEPT
                                !.shown = Closes(client[d].shown, q)]
                        ELSE client[d]]
        /\ hist' = [hist EXCEPT ![q].heard =
                      [d \in Clients |->
                         IF d \in Reached(q, w)
                         THEN hist[q].heard[d] \cup {word}
                         ELSE hist[q].heard[d]]]
        /\ IF w.waits
           THEN /\ call' = [call EXCEPT ![q] = [c EXCEPT !.at = place,
                                                         !.left = w.left]]
                /\ UNCHANGED table
           ELSE /\ call' = [call EXCEPT ![q] = end]
                /\ table' = table \ {q}
  BY DEF Tell
<1>2. /\ w.sent \in SUBSET T /\ w.left \in SUBSET Clients /\ w.left = T \ w.sent
      /\ w.waits \in BOOLEAN /\ (~w.waits => w.sent = T)
  BY WritesFacts
<1>3. \A d \in Clients : Closes(client[d].shown, q) \in Calls \cup {None}
  BY DEF TypeOK, ClientState, Closes
<1>4. client' \in [Clients -> ClientState]
  <2>1. \A d \in Clients :
          [client[d] EXCEPT !.shown = Closes(client[d].shown, q)] \in ClientState
    BY <1>3 DEF TypeOK, ClientState
  <2> QED
    BY <1>1, <2>1 DEF TypeOK
<1>5. /\ \A d \in Clients : client'[d] =
            IF d \in Reached(q, w)
            THEN [client[d] EXCEPT !.shown = Closes(client[d].shown, q)]
            ELSE client[d]
      /\ \A d \in Clients : client[d] \in ClientState
  BY <1>1 DEF TypeOK
<1>6. SameSubs
  BY <1>5 DEF SameSubs, ClientState
<1>7. /\ \A d \in Clients : client'[d].shown =
            IF d \in Reached(q, w) THEN Closes(client[d].shown, q)
            ELSE client[d].shown
  BY <1>5 DEF ClientState
<1>8. None \notin Calls
  BY DEF ApprovalAssumption
<1>9. \A p \in Calls \ {q}, d \in Clients :
         client'[d].shown = p => client[d].shown = p
  BY <1>7, <1>8 DEF Closes
<1>10. \A d \in Clients : /\ d \in Reached(q, w) => client'[d].shown # q
                          /\ client[d].shown # q => client'[d].shown # q
  BY <1>7, <1>8 DEF Closes
<1> DEFINE said == [d \in Clients |-> IF d \in Reached(q, w)
                                      THEN hist[q].heard[d] \cup {word}
                                      ELSE hist[q].heard[d]]
<1>11. \A p \in Calls : hist[p] \in HistState
  BY DEF TypeOK
<1>12. /\ hist'[q] = [hist[q] EXCEPT !.heard = said]
       /\ \A p \in Calls \ {q} : hist'[p] = hist[p]
  BY <1>1 DEF TypeOK
<1>13. said \in [Clients -> SUBSET Outcomes]
  BY <1>11 DEF HistState, Words
<1>14. hist'[q] \in HistState
  BY <1>11, <1>12, <1>13 DEF HistState
<1>15. hist' \in [Calls -> HistState]
  BY <1>1, <1>11, <1>12, <1>14 DEF TypeOK
<1>16. /\ \A p \in Calls : /\ hist'[p].first = hist[p].first
                           /\ hist'[p].asked = hist[p].asked
                           /\ hist'[p].cut = hist[p].cut
       /\ \A p \in Calls \ {q} : hist'[p].heard = hist[p].heard
       /\ hist'[q].heard = said
  BY <1>11, <1>12 DEF HistState
<1>17. \A d \in Clients : /\ hist'[q].heard[d] \subseteq hist[q].heard[d] \cup {word}
                          /\ Told(q, d) => Told(q, d)'
                          /\ d \in Reached(q, w) => Told(q, d)'
  BY <1>10, <1>16 DEF Told
<1>18. \A d \in T \cap Subscribers(q) : d \in w.left \/ Told(q, d)'
  BY <1>2, <1>17 DEF Reached
<1>19. ~w.waits => \A d \in T \cap Subscribers(q) : Told(q, d)'
  BY <1>2, <1>17 DEF Reached
<1>20. CASE w.waits
  <2>1. /\ call' = [call EXCEPT ![q] = [c EXCEPT !.at = place, !.left = w.left]]
        /\ table' = table
    BY <1>1, <1>20
  <2> QED
    BY <2>1, <1>2, <1>4, <1>6, <1>9, <1>15, <1>16, <1>17, <1>18 DEF Tells
<1>21. CASE ~w.waits
  <2>1. call' = [call EXCEPT ![q] = end] /\ table' = table \ {q}
    BY <1>1, <1>21
  <2> QED
    BY <2>1, <1>4, <1>6, <1>9, <1>15, <1>16, <1>17, <1>19, <1>21 DEF Tells
<1> QED
  BY <1>20, <1>21, <1>2

-----------------------------------------------------------------------------
(* The questions after a broadcast.                                        *)

LEMMA PutsGood ==
    ASSUME ApprovalInv, NEW q \in Calls, NEW c \in CallState, Puts(q, c),
           q \in table', table' \subseteq Calls,
           \A p \in Calls \ {q} : p \in table' <=> p \in table,
           Heard(q, {}), c.future = call[q].future, c.ran # "wide", ~c.esc,
           UNCHANGED mail
    PROVE  ApprovalInv'
<1> USE DEF ApprovalInv
<1>1. PICK left \in SUBSET Clients, at \in {"asking", "waiting"} :
        call' = [call EXCEPT ![q] = [c EXCEPT !.left = left, !.at = at]]
  BY DEF Puts
<1> DEFINE x == [c EXCEPT !.left = left, !.at = at]
<1>2. x \in CallState
  BY RecordUpdates DEF Places, Suspended
<1>3. /\ call' \in [Calls -> CallState] /\ call'[q] = x
      /\ \A p \in Calls \ {q} : call'[p] = call[p]
  BY <1>1, <1>2, CallUpdate
<1>4. TypeOK'
  BY <1>3 DEF TypeOK, Puts
<1>5. ASSUME NEW p \in Calls \ {q} PROVE Good(p)'
  <2>1. hist[p] \in HistState
    BY DEF TypeOK
  <2>2. Bystander(p)
    BY <1>3, <2>1 DEF Bystander, Puts, SameSubs, HistState
  <2> QED
    BY <2>2, BystanderGood
<1>6. /\ x.at \in {"asking", "waiting"} /\ x.future = c.future /\ x.esc = c.esc
      /\ x.ran = c.ran
  BY DEF CallState
<1>7. hist'[q].first = hist[q].first /\ hist'[q].heard = hist[q].heard
  BY DEF Puts
<1>8. TableGood(q)'
  BY <1>3, <1>6 DEF TableGood, Suspended
<1>9. \A d \in Clients : hist'[q].heard[d] = {}
  BY <1>7 DEF Heard
<1>10. WordGood(q)'
  BY <1>3, <1>6, <1>9 DEF WordGood, Heard
<1>11. AnswerGood(q)'
  BY <1>3, <1>6, <1>7 DEF AnswerGood, Good
<1>12. EscGood(q)'
  BY <1>3, <1>6 DEF EscGood
<1>13. \A d \in hist'[q].asked : /\ d \in Clients
                                 /\ client[d].sub = Session[q] /\ client[d].here
  <2>1. hist[q] \in HistState
    BY DEF TypeOK
  <2> QED
    BY <2>1 DEF Puts, Targets, Subscribers, Good, AskedGood, HistState
<1>14. AskedGood(q)'
  BY <1>3, <1>6, <1>13 DEF AskedGood, Puts, SameSubs
<1> QED
  BY <1>4, <1>5, <1>8, <1>10, <1>11, <1>12, <1>14 DEF Good

\* The outcome a coroutine is about to tell, and the record it ends with, are
\* those of its answer or of its cancellation.
Tellable(q, T, word, place, c, end) ==
    /\ q \in table /\ Heard(q, {word}) /\ UNCHANGED mail
    /\ c.future \in Answers => hist[q].first = c.future
    /\ c.future = "open" => hist[q].first = None
    /\ word = "approved" => hist[q].first = "yes"
    /\ word = "refused" => hist[q].first \in {"no", "odd"}
    /\ place = "telling" => c.future # "open" /\ word = WordOf(c.future)
    /\ place = "cancelling" => word = "cancelled"
    /\ c.esc => place = "cancelling"
    /\ c.ran # "wide"
    /\ end.at = "done" /\ end.future = c.future /\ end.esc = c.esc
    /\ end.ran = "wide" => hist[q].first = "yes" /\ ~end.esc
    /\ \A d \in hist[q].asked : d \in T \cap Subscribers(q) \/ Told(q, d)

LEMMA TellsGood ==
    ASSUME ApprovalInv, NEW q \in Calls, NEW T \in SUBSET Clients,
           NEW word \in Words, NEW place \in {"telling", "cancelling"},
           NEW c \in CallState, NEW end \in CallState,
           Tells(q, T, word, place, c, end), Tellable(q, T, word, place, c, end)
    PROVE  ApprovalInv'
<1> USE DEF Tellable
<1> USE DEF ApprovalInv
<1>1. PICK left \in SUBSET Clients, x \in CallState :
        /\ call' = [call EXCEPT ![q] = x]
        /\ \/ /\ x = [c EXCEPT !.at = place, !.left = left]
              /\ \A d \in T \cap Subscribers(q) : d \in left \/ Told(q, d)'
              /\ table' = table
           \/ /\ x = end
              /\ \A d \in T \cap Subscribers(q) : Told(q, d)'
              /\ table' = table \ {q}
  <2>1. CASE /\ \E left \in SUBSET Clients :
                  /\ call' = [call EXCEPT ![q] = [c EXCEPT !.at = place, !.left = left]]
                  /\ \A d \in T \cap Subscribers(q) : d \in left \/ Told(q, d)'
             /\ table' = table
    <3>1. PICK left \in SUBSET Clients :
            /\ call' = [call EXCEPT ![q] = [c EXCEPT !.at = place, !.left = left]]
            /\ \A d \in T \cap Subscribers(q) : d \in left \/ Told(q, d)'
      BY <2>1
    <3>2. [c EXCEPT !.at = place, !.left = left] \in CallState
      BY RecordUpdates DEF Places, Suspended
    <3> QED
      BY <2>1, <3>1, <3>2
  <2>2. CASE /\ call' = [call EXCEPT ![q] = end]
             /\ \A d \in T \cap Subscribers(q) : Told(q, d)'
             /\ table' = table \ {q}
    BY <2>2
  <2> QED
    BY <2>1, <2>2 DEF Tells
<1>2. /\ call' \in [Calls -> CallState] /\ call'[q] = x
      /\ \A p \in Calls \ {q} : call'[p] = call[p]
  BY <1>1, CallUpdate
<1>3. TypeOK'
  BY <1>1, <1>2 DEF TypeOK, Tells
<1>4. ASSUME NEW p \in Calls \ {q} PROVE Good(p)'
  <2>1. hist[p] \in HistState
    BY DEF TypeOK
  <2>2. p \in table' <=> p \in table
    BY <1>1
  <2>3. Bystander(p)
    BY <1>2, <2>1, <2>2 DEF Bystander, Tells, SameSubs, HistState
  <2> QED
    BY <2>3, BystanderGood
<1>5. /\ x.future = c.future /\ x.esc = c.esc
      /\ \/ x.at = place /\ x.ran = c.ran /\ x.left = left /\ table' = table
         \/ x.at = "done" /\ x.ran = end.ran /\ table' = table \ {q}
  BY <1>1 DEF CallState
<1>6. hist'[q].first = hist[q].first
  BY DEF Tells
<1>7. TableGood(q)'
  BY <1>2, <1>5 DEF TableGood, Suspended
<1>8. \A d \in Clients : hist'[q].heard[d] \subseteq {word}
  BY DEF Tells, Heard
<1>9. WordGood(q)'
  <2>1. Heard(q, {word})'
    BY <1>8 DEF Heard
  <2>2. /\ x.at \notin {"idle", "asking", "waiting"}
        /\ x.at = "telling" => x.future # "open" /\ WordOf(x.future) = word
        /\ x.at = "cancelling" => word = "cancelled"
    BY <1>5
  <2>3. \A d \in Clients :
          /\ \A v, w \in hist'[q].heard[d] : v = w
          /\ "approved" \in hist'[q].heard[d] => hist'[q].first = "yes"
          /\ "refused" \in hist'[q].heard[d] => hist'[q].first \in {"no", "odd"}
    BY <1>6, <1>8
  <2>4. (WordOf(call[q].future))' = WordOf(x.future)
    BY <1>2 DEF WordOf, OutcomeOf
  <2> QED
    BY <1>2, <2>1, <2>2, <2>3, <2>4 DEF WordGood
<1>10. AnswerGood(q)'
  BY <1>2, <1>5, <1>6 DEF AnswerGood
<1>11. EscGood(q)'
  BY <1>2, <1>5, <1>6 DEF EscGood
<1>12. AskedGood(q)'
  <2>1. hist[q] \in HistState /\ hist'[q].asked = hist[q].asked
    BY DEF TypeOK, Tells
  <2>2. \A d \in hist'[q].asked :
          /\ d \in Clients
          /\ client'[d].sub = Session[q] /\ client'[d].here
    <3>1. \A d \in hist[q].asked : /\ d \in Clients
                                   /\ client[d].sub = Session[q] /\ client[d].here
      BY <2>1 DEF Good, AskedGood, HistState
    <3>2. SameSubs
      BY DEF Tells
    <3> QED
      BY <2>1, <3>1, <3>2 DEF SameSubs
  <2>3. \A d \in hist[q].asked : Told(q, d) => Told(q, d)'
    BY <2>1 DEF Tells, HistState
  <2>4. CASE x.at = place /\ x.left = left /\ table' = table
    <3>1. \A d \in T \cap Subscribers(q) : d \in left \/ Told(q, d)'
      BY <1>1, <2>4
    <3>2. \A d \in hist'[q].asked : d \in x.left \/ Told(q, d)'
      BY <2>1, <2>3, <2>4, <3>1
    <3> QED
      BY <1>2, <2>2, <2>4, <3>2 DEF AskedGood
  <2>5. CASE x.at = "done" /\ table' = table \ {q}
    <3>1. \A d \in T \cap Subscribers(q) : Told(q, d)'
      BY <1>1, <2>5
    <3>2. \A d \in hist'[q].asked : Told(q, d)'
      BY <2>1, <2>3, <3>1
    <3> QED
      BY <1>2, <2>2, <2>5, <3>2 DEF AskedGood
  <2> QED
    BY <1>5, <2>4, <2>5
<1> QED
  BY <1>3, <1>4, <1>7, <1>9, <1>10, <1>11, <1>12 DEF Good

-----------------------------------------------------------------------------
(* The actions.                                                            *)

LEMMA InitInv == Init => ApprovalInv
<1> SUFFICES ASSUME Init PROVE ApprovalInv
  OBVIOUS
<1>1. TypeOK
  BY DEF Init, TypeOK, CallState, ClientState, HistState, Places, Answers
<1>2. ASSUME NEW q \in Calls PROVE Good(q)
  BY <1>2 DEF Init, Good, TableGood, WordGood, AnswerGood, EscGood, AskedGood,
              Heard, Suspended, Answers
<1> QED
  BY <1>1, <1>2 DEF ApprovalInv

\* A step of call q that touches no client and no history: the others stay
\* good.
LEMMA OwnStep ==
    ASSUME ApprovalInv, NEW q \in Calls, NEW x \in CallState,
           call' = [call EXCEPT ![q] = x], UNCHANGED <<table, client, mail, hist>>
    PROVE  /\ TypeOK' /\ call'[q] = x
           /\ \A p \in Calls \ {q} : Good(p)'
<1> USE DEF ApprovalInv
<1>1. /\ call' \in [Calls -> CallState] /\ call'[q] = x
      /\ \A p \in Calls \ {q} : call'[p] = call[p]
  BY CallUpdate
<1>2. TypeOK'
  BY <1>1 DEF TypeOK
<1>3. ASSUME NEW p \in Calls \ {q} PROVE Good(p)'
  <2>1. Bystander(p)
    BY <1>1 DEF Bystander
  <2> QED
    BY <2>1, BystanderGood
<1> QED
  BY <1>1, <1>2, <1>3

\* The call is refused and nobody was asked.
LEMMA RefusedGood ==
    ASSUME ApprovalInv, NEW q \in Calls, Reject(q) \/ NobodyThere(q)
    PROVE  ApprovalInv'
<1> DEFINE x == Ended(call[q], "refused")
<1>1. /\ call[q].at = "idle" /\ UNCHANGED <<table, client, mail, hist>>
      /\ call' = [call EXCEPT ![q] = x]
  BY DEF Reject, NobodyThere, Comes
<1>2. call[q] \in CallState /\ x \in CallState
  BY RecordUpdates DEF ApprovalInv, TypeOK
<1>3. /\ TypeOK' /\ call'[q] = x
      /\ \A p \in Calls \ {q} : Good(p)'
  BY <1>1, <1>2, OwnStep
<1>4. /\ x.at = "done" /\ x.future = call[q].future /\ x.esc = call[q].esc
      /\ x.ran = "refused"
  BY <1>2 DEF Ended, CallState
<1>5. Good(q)
  BY DEF ApprovalInv
<1>6. TableGood(q)'
  BY <1>1, <1>3, <1>4, <1>5 DEF Good, TableGood, Suspended
<1>7. WordGood(q)'
  BY <1>1, <1>3, <1>4, <1>5 DEF Good, WordGood
<1>8. AnswerGood(q)'
  BY <1>1, <1>3, <1>4, <1>5 DEF Good, AnswerGood
<1>9. EscGood(q)'
  BY <1>1, <1>3, <1>4, <1>5 DEF Good, EscGood
<1>10. AskedGood(q)'
  BY <1>1, <1>3, <1>4, <1>5 DEF Good, AskedGood, Told
<1> QED
  BY <1>3, <1>6, <1>7, <1>8, <1>9, <1>10 DEF ApprovalInv, Good

LEMMA RequestGood ==
    ASSUME ApprovalInv, NEW q \in Calls, Request(q)
    PROVE  ApprovalInv'
<1> DEFINE c == [call[q] EXCEPT !.armed = q \in Channelled]
<1>1. /\ call[q].at = "idle" /\ table' = table \cup {q} /\ UNCHANGED mail
      /\ PutQuestion(q, Targets(q), c)
  BY DEF Request, Comes
<1>2. call[q] \in CallState /\ c \in CallState /\ Good(q) /\ TypeOK
  <2>1. call[q] \in CallState /\ Good(q) /\ TypeOK
    BY DEF ApprovalInv, TypeOK
  <2>2. (q \in Channelled) \in BOOLEAN
    OBVIOUS
  <2>3. c \in CallState
    BY <2>1, <2>2, RecordUpdates
  <2> QED
    BY <2>1, <2>3
<1>3. /\ c.future = call[q].future /\ c.ran = call[q].ran /\ c.esc = call[q].esc
      /\ c.kill = call[q].kill
  BY <1>2 DEF CallState
<1>4. Targets(q) \in SUBSET Clients
  BY DEF Targets, Subscribers
<1>5. Puts(q, c)
  BY <1>1, <1>2, <1>4, PutQuestionPuts
<1>6. table' \subseteq Calls /\ \A p \in Calls \ {q} : p \in table' <=> p \in table
  BY <1>1, <1>2 DEF TypeOK
<1>7. Heard(q, {}) /\ c.ran # "wide"
  BY <1>1, <1>2, <1>3 DEF Good, WordGood, EscGood
<1>8. ~c.esc
  BY <1>1, <1>2, <1>3 DEF Good, EscGood
<1> QED
  BY <1>1, <1>2, <1>3, <1>5, <1>6, <1>7, <1>8, PutsGood

LEMMA RequestOnGood ==
    ASSUME ApprovalInv, NEW q \in Calls, RequestOn(q)
    PROVE  ApprovalInv'
<1>1. /\ call[q].at = "asking" /\ call[q].kill = {} /\ UNCHANGED <<table, mail>>
      /\ PutQuestion(q, call[q].left, call[q])
  BY DEF RequestOn
<1>2. call[q] \in CallState /\ Good(q) /\ TypeOK
  BY DEF ApprovalInv, TypeOK
<1>3. call[q].left \in SUBSET Clients
  BY <1>2 DEF CallState
<1>4. Puts(q, call[q])
  BY <1>1, <1>2, <1>3, PutQuestionPuts
<1>5. q \in table' /\ table' \subseteq Calls
  BY <1>1, <1>2 DEF TypeOK, Good, TableGood, Suspended
<1>6. Heard(q, {}) /\ call[q].ran # "wide" /\ ~call[q].esc
  BY <1>1, <1>2 DEF Good, WordGood, EscGood
<1> QED
  BY <1>1, <1>2, <1>4, <1>5, <1>6, PutsGood

LEMMA AnsweredGood ==
    ASSUME ApprovalInv, ApprovalAssumption, NEW q \in Calls, Answered(q)
    PROVE  ApprovalInv'
<1> DEFINE word == OutcomeOf(call[q].future)
           end == Ended(call[q], Granted(call[q].future))
<1>1. /\ call[q].at = "waiting" /\ call[q].kill = {} /\ UNCHANGED mail
      /\ call[q].future \in Answers
      /\ Tell(q, Targets(q), word, "telling", call[q], end)
  BY DEF Answered
<1>2. call[q] \in CallState /\ Good(q) /\ TypeOK
  BY DEF ApprovalInv, TypeOK
<1>3. end \in CallState /\ word \in Words /\ Targets(q) \in SUBSET Clients
  BY <1>2, RecordUpdates DEF Granted, OutcomeOf, Words, Outcomes, Targets, Subscribers
<1>4. Tells(q, Targets(q), word, "telling", call[q], end)
  BY <1>1, <1>2, <1>3, TellTells
<1>5. /\ end.at = "done" /\ end.future = call[q].future /\ end.esc = call[q].esc
      /\ end.ran = Granted(call[q].future)
  BY <1>2 DEF Ended, CallState
<1>6. q \in table /\ Heard(q, {word})
  BY <1>1, <1>2 DEF Good, TableGood, WordGood, Suspended, Heard
<1>7. hist[q].first = call[q].future /\ ~call[q].esc /\ call[q].ran # "wide"
  BY <1>1, <1>2 DEF Good, AnswerGood, EscGood
<1>8. /\ call[q].future # "open" /\ word = WordOf(call[q].future)
      /\ word = "approved" => hist[q].first = "yes"
      /\ word = "refused" => hist[q].first \in {"no", "odd"}
      /\ end.ran = "wide" => hist[q].first = "yes" /\ ~end.esc
  BY <1>1, <1>5, <1>7 DEF Answers, WordOf, OutcomeOf, Granted
<1>9. \A d \in hist[q].asked : d \in Targets(q) \cap Subscribers(q)
  <2>1. hist[q] \in HistState
    BY <1>2 DEF TypeOK
  <2> QED
    BY <1>2, <2>1 DEF Good, AskedGood, Targets, Subscribers, HistState
<1> HIDE DEF word, end
<1>10. Tellable(q, Targets(q), word, "telling", call[q], end)
  BY <1>1, <1>5, <1>6, <1>7, <1>8, <1>9 DEF Tellable
<1> QED
  BY <1>2, <1>3, <1>4, <1>10, TellsGood

LEMMA TimedOutGood ==
    ASSUME ApprovalInv, ApprovalAssumption, NEW q \in Calls, TimedOut(q)
    PROVE  ApprovalInv'
<1> DEFINE c == [call[q] EXCEPT !.kill = {}, !.future = "dead"]
           end == Ended(c, "refused")
<1>1. /\ call[q].at = "waiting" /\ call[q].kill = {"inner"} /\ UNCHANGED mail
      /\ Tell(q, Targets(q), "timed_out", "telling", c, end)
  BY DEF TimedOut
<1>2. call[q] \in CallState /\ Good(q) /\ TypeOK
  BY DEF ApprovalInv, TypeOK
<1>3. c \in CallState /\ "timed_out" \in Words /\ Targets(q) \in SUBSET Clients
  BY <1>2, RecordUpdates DEF Words, Outcomes, Targets, Subscribers
<1>4. end \in CallState
  BY <1>3, RecordUpdates
<1>5. Tells(q, Targets(q), "timed_out", "telling", c, end)
  BY <1>1, <1>2, <1>3, <1>4, TellTells
<1>6. /\ c.future = "dead" /\ c.esc = call[q].esc /\ c.ran = call[q].ran
      /\ end.at = "done" /\ end.future = "dead" /\ end.esc = c.esc
      /\ end.ran = "refused"
  BY <1>2 DEF Ended, CallState
<1>7. q \in table /\ Heard(q, {"timed_out"})
  BY <1>1, <1>2 DEF Good, TableGood, WordGood, Suspended, Heard
<1>8. ~c.esc /\ c.ran # "wide"
  BY <1>1, <1>2, <1>6 DEF Good, EscGood
<1>9. \A d \in hist[q].asked : d \in Targets(q) \cap Subscribers(q)
  <2>1. hist[q] \in HistState
    BY <1>2 DEF TypeOK
  <2> QED
    BY <1>2, <2>1 DEF Good, AskedGood, Targets, Subscribers, HistState
<1>10. c.future \notin Answers /\ "timed_out" = WordOf(c.future)
  BY <1>6 DEF Answers, WordOf
<1> HIDE DEF c, end
<1>11. Tellable(q, Targets(q), "timed_out", "telling", c, end)
  BY <1>1, <1>6, <1>7, <1>8, <1>9, <1>10 DEF Tellable
<1> QED
  BY <1>3, <1>4, <1>5, <1>11, TellsGood

LEMMA TellOnGood ==
    ASSUME ApprovalInv, ApprovalAssumption, NEW q \in Calls, TellOn(q)
    PROVE  ApprovalInv'
<1> DEFINE word == WordOf(call[q].future)
           end == Ended(call[q], Granted(call[q].future))
<1>1. /\ call[q].at = "telling" /\ call[q].kill = {} /\ UNCHANGED mail
      /\ Tell(q, call[q].left, word, "telling", call[q], end)
  BY DEF TellOn, WordOf
<1>2. call[q] \in CallState /\ Good(q) /\ TypeOK
  BY DEF ApprovalInv, TypeOK
<1>3. call[q].left \in SUBSET Clients /\ end \in CallState /\ word \in Words
  <2>1. call[q].left \in SUBSET Clients
    BY <1>2 DEF CallState
  <2>2. end \in CallState
    BY <1>2, RecordUpdates DEF Granted
  <2>3. word \in Words
    BY DEF WordOf, OutcomeOf, Words, Outcomes
  <2> QED
    BY <2>1, <2>2, <2>3
<1>4. Tells(q, call[q].left, word, "telling", call[q], end)
  BY <1>1, <1>2, <1>3, TellTells
<1>5. /\ end.at = "done" /\ end.future = call[q].future /\ end.esc = call[q].esc
      /\ end.ran = Granted(call[q].future)
  BY <1>2 DEF Ended, CallState
<1>6. q \in table /\ Heard(q, {word}) /\ call[q].future # "open"
  BY <1>1, <1>2 DEF Good, TableGood, WordGood, Suspended
<1>7. call[q].future \in Answers \cup {"dead"}
  BY <1>2, <1>6 DEF CallState
<1>8. /\ call[q].future \in Answers => hist[q].first = call[q].future
      /\ ~call[q].esc /\ call[q].ran # "wide"
  BY <1>1, <1>2 DEF Good, AnswerGood, EscGood
<1>9. /\ word = "approved" => hist[q].first = "yes"
      /\ word = "refused" => hist[q].first \in {"no", "odd"}
      /\ end.ran = "wide" => hist[q].first = "yes" /\ ~end.esc
  BY <1>5, <1>7, <1>8 DEF Answers, WordOf, OutcomeOf, Granted
<1>10. \A d \in hist[q].asked : d \in call[q].left \cap Subscribers(q) \/ Told(q, d)
  <2>1. hist[q] \in HistState
    BY <1>2 DEF TypeOK
  <2> QED
    BY <1>1, <1>2, <2>1 DEF Good, AskedGood, Subscribers, HistState
<1> HIDE DEF word, end
<1>11. Tellable(q, call[q].left, word, "telling", call[q], end)
  BY <1>1, <1>2, <1>5, <1>6, <1>8, <1>9, <1>10
     DEF Tellable, word, Good, AnswerGood
<1> QED
  BY <1>2, <1>3, <1>4, <1>11, TellsGood

\* A cancellation of a question that was not announced.
LEMMA CancelledGood ==
    ASSUME ApprovalInv, ApprovalAssumption, NEW q \in Calls, Cancelled(q)
    PROVE  ApprovalInv'
<1> DEFINE c == [call[q] EXCEPT !.kill = {}]
           end == CutOff(c)
<1>1. /\ call[q].at \in {"asking", "waiting"} /\ UNCHANGED mail
      /\ Tell(q, Targets(q), "cancelled", "cancelling", c, end)
  BY DEF Cancelled, Unannounced
<1>2. call[q] \in CallState /\ Good(q) /\ TypeOK
  BY DEF ApprovalInv, TypeOK
<1>3. c \in CallState /\ "cancelled" \in Words /\ Targets(q) \in SUBSET Clients
  BY <1>2, RecordUpdates DEF Words, Outcomes, Targets, Subscribers
<1>4. end \in CallState
  BY <1>3, RecordUpdates
<1>5. Tells(q, Targets(q), "cancelled", "cancelling", c, end)
  BY <1>1, <1>2, <1>3, <1>4, TellTells
<1>6. /\ c.future = call[q].future /\ c.ran = call[q].ran
      /\ end.at = "done" /\ end.future = c.future /\ end.esc = c.esc
      /\ end.ran # "wide"
  BY <1>2 DEF CutOff, Ended, CallState
<1>7. q \in table /\ Heard(q, {"cancelled"})
  BY <1>1, <1>2 DEF Good, TableGood, WordGood, Suspended, Heard
<1>8. /\ c.future \in Answers => hist[q].first = c.future
      /\ c.future = "open" => hist[q].first = None
      /\ c.ran # "wide"
  BY <1>1, <1>2, <1>6 DEF Good, AnswerGood, EscGood
<1>9. \A d \in hist[q].asked : d \in Targets(q) \cap Subscribers(q)
  <2>1. hist[q] \in HistState
    BY <1>2 DEF TypeOK
  <2> QED
    BY <1>2, <2>1 DEF Good, AskedGood, Targets, Subscribers, HistState
<1>10. /\ "cancelling" \in {"telling", "cancelling"}
       /\ "cancelled" = "approved" => hist[q].first = "yes"
       /\ "cancelled" = "refused" => hist[q].first \in {"no", "odd"}
       /\ "cancelling" = "telling" =>
            c.future # "open" /\ "cancelled" = WordOf(c.future)
       /\ end.ran = "wide" => hist[q].first = "yes" /\ ~end.esc
  BY <1>6
<1>11. /\ c.esc => "cancelling" = "cancelling"
       /\ \A d \in hist[q].asked :
            d \in Targets(q) \cap Subscribers(q) \/ Told(q, d)
  BY <1>9
<1>12. UNCHANGED mail
  BY <1>1
<1> HIDE DEF c, end
<1>13. Tellable(q, Targets(q), "cancelled", "cancelling", c, end)
  BY <1>6, <1>7, <1>8, <1>10, <1>11, <1>12 DEF Tellable
<1> QED
  BY <1>3, <1>4, <1>5, <1>13, TellsGood

LEMMA CancelOnGood ==
    ASSUME ApprovalInv, ApprovalAssumption, NEW q \in Calls, CancelOn(q)
    PROVE  ApprovalInv'
<1> DEFINE end == CutOff(call[q])
<1>1. /\ call[q].at = "cancelling" /\ UNCHANGED mail
      /\ Tell(q, call[q].left, "cancelled", "cancelling", call[q], end)
  BY DEF CancelOn
<1>2. call[q] \in CallState /\ Good(q) /\ TypeOK
  BY DEF ApprovalInv, TypeOK
<1>3. /\ call[q].left \in SUBSET Clients /\ end \in CallState
      /\ "cancelled" \in Words
  <2>1. call[q].left \in SUBSET Clients
    BY <1>2 DEF CallState
  <2>2. end \in CallState
    BY <1>2, RecordUpdates
  <2> QED
    BY <2>1, <2>2 DEF Words, Outcomes
<1>4. Tells(q, call[q].left, "cancelled", "cancelling", call[q], end)
  BY <1>1, <1>2, <1>3, TellTells
<1>5. /\ end.at = "done" /\ end.future = call[q].future /\ end.esc = call[q].esc
      /\ end.ran # "wide"
  BY <1>2 DEF CutOff, Ended, CallState
<1>6. q \in table /\ Heard(q, {"cancelled"})
  BY <1>1, <1>2 DEF Good, TableGood, WordGood, Suspended
<1>7. /\ call[q].future \in Answers => hist[q].first = call[q].future
      /\ call[q].future = "open" => hist[q].first = None
      /\ call[q].ran # "wide"
  BY <1>1, <1>2 DEF Good, AnswerGood, EscGood
<1>8. \A d \in hist[q].asked : d \in call[q].left \cap Subscribers(q) \/ Told(q, d)
  <2>1. hist[q] \in HistState
    BY <1>2 DEF TypeOK
  <2> QED
    BY <1>1, <1>2, <2>1 DEF Good, AskedGood, Subscribers, HistState
<1>9. /\ "cancelling" \in {"telling", "cancelling"}
      /\ "cancelled" = "approved" => hist[q].first = "yes"
      /\ "cancelled" = "refused" => hist[q].first \in {"no", "odd"}
      /\ "cancelling" = "telling" =>
           call[q].future # "open" /\ "cancelled" = WordOf(call[q].future)
      /\ end.ran = "wide" => hist[q].first = "yes" /\ ~end.esc
  BY <1>5
<1> HIDE DEF end
<1>10. Tellable(q, call[q].left, "cancelled", "cancelling", call[q], end)
  BY <1>1, <1>5, <1>6, <1>7, <1>8, <1>9 DEF Tellable
<1> QED
  BY <1>2, <1>3, <1>4, <1>10, TellsGood

\* A cancellation of the announcement itself.
LEMMA CancelledAgainGood ==
    ASSUME ApprovalInv, NEW q \in Calls, CancelledAgain(q)
    PROVE  ApprovalInv'
<1> DEFINE x == CutOff(call[q])
<1>1. /\ call[q].at \in {"telling", "cancelling"}
      /\ call' = [call EXCEPT ![q] = x]
      /\ hist' = [hist EXCEPT ![q].cut = TRUE]
      /\ table' = table \ {q} /\ UNCHANGED <<client, mail>>
  <2>1. call[q].at \in {"telling", "cancelling"}
    BY DEF CancelledAgain, Unannounced, Suspended
  <2> QED
    BY <2>1 DEF CancelledAgain, Forget
<1>2. call[q] \in CallState /\ x \in CallState /\ Good(q) /\ TypeOK
  BY RecordUpdates DEF ApprovalInv, TypeOK
<1>3. /\ call' \in [Calls -> CallState] /\ call'[q] = x
      /\ \A p \in Calls \ {q} : call'[p] = call[p]
  BY <1>1, <1>2, CallUpdate
<1>4. /\ \A p \in Calls : hist[p] \in HistState
      /\ \A p \in Calls \ {q} : hist'[p] = hist[p]
      /\ hist'[q] = [hist[q] EXCEPT !.cut = TRUE]
  BY <1>1, <1>2 DEF TypeOK
<1>5. /\ hist'[q] \in HistState /\ hist'[q].cut
      /\ hist'[q].first = hist[q].first /\ hist'[q].heard = hist[q].heard
      /\ hist'[q].asked = hist[q].asked
  BY <1>4 DEF HistState
<1>6. hist' \in [Calls -> HistState]
  BY <1>1, <1>2, <1>4, <1>5 DEF TypeOK
<1>7. TypeOK'
  BY <1>1, <1>2, <1>3, <1>6 DEF TypeOK
<1>8. ASSUME NEW p \in Calls \ {q} PROVE Good(p)'
  <2>1. Bystander(p)
    BY <1>1, <1>3, <1>4 DEF Bystander
  <2> QED
    BY <1>2, <2>1, BystanderGood DEF ApprovalInv
<1>9. /\ x.at = "done" /\ x.future = call[q].future /\ x.esc = call[q].esc
      /\ x.ran # "wide"
  BY <1>2 DEF CutOff, Ended, CallState
<1>10. TableGood(q)'
  BY <1>1, <1>3, <1>9 DEF TableGood, Suspended
<1>11. WordGood(q)'
  BY <1>2, <1>3, <1>5, <1>9 DEF Good, WordGood
<1>12. AnswerGood(q)'
  BY <1>2, <1>3, <1>5, <1>9 DEF Good, AnswerGood
<1>13. EscGood(q)'
  BY <1>3, <1>9 DEF EscGood
<1>14. AskedGood(q)'
  BY <1>1, <1>2, <1>3, <1>5, <1>9 DEF Good, AskedGood
<1> QED
  BY <1>7, <1>8, <1>10, <1>11, <1>12, <1>13, <1>14 DEF ApprovalInv, Good

\* A timer or an interrupt: what the record of a question keeps.
LEMMA StruckGood ==
    ASSUME ApprovalInv, NEW q \in Calls, NEW x \in CallState,
           call' = [call EXCEPT ![q] = x], UNCHANGED <<table, client, mail, hist>>,
           x.at = call[q].at, x.left = call[q].left, x.ran = call[q].ran,
           call[q].kill \subseteq x.kill,
           \/ x.future = call[q].future
           \/ call[q].future = "open" /\ x.future = "dead" /\ x.at = "waiting",
           x.esc # call[q].esc => "esc" \in x.kill /\ x.at \in Suspended
    PROVE  ApprovalInv'
<1>1. /\ TypeOK' /\ call'[q] = x
      /\ \A p \in Calls \ {q} : Good(p)'
  BY OwnStep
<1>2. Good(q)
  BY DEF ApprovalInv
<1>3. TableGood(q)'
  BY <1>1, <1>2 DEF Good, TableGood
<1>4. WordGood(q)'
  BY <1>1, <1>2 DEF Good, WordGood, Heard, WordOf, OutcomeOf
<1>5. AnswerGood(q)'
  BY <1>1, <1>2 DEF Good, AnswerGood, Answers
<1>6. EscGood(q)'
  BY <1>1, <1>2 DEF Good, EscGood, Suspended
<1>7. AskedGood(q)'
  BY <1>1, <1>2 DEF Good, AskedGood, Told
<1> QED
  BY <1>1, <1>3, <1>4, <1>5, <1>6, <1>7 DEF ApprovalInv, Good

LEMMA StruckFacts ==
    ASSUME NEW c \in CallState, NEW why \in {"esc", "outer", "inner"}
    PROVE  /\ Struck(c, why) \in CallState
           /\ Struck(c, why).at = c.at /\ Struck(c, why).left = c.left
           /\ Struck(c, why).ran = c.ran /\ Struck(c, why).esc = c.esc
           /\ Struck(c, why).kill = c.kill \cup {why}
           /\ \/ Struck(c, why).future = c.future
              \/ c.future = "open" /\ Struck(c, why).future = "dead" /\ c.at = "waiting"
<1>1. Struck(c, why) \in CallState
  BY RecordUpdates
<1> QED
  BY <1>1 DEF Struck, CallState

LEMMA TimersGood ==
    ASSUME ApprovalInv, NEW q \in Calls, OuterTimer(q) \/ InnerTimer(q) \/ Esc(q)
    PROVE  ApprovalInv'
<1>1. call[q] \in CallState
  BY DEF ApprovalInv, TypeOK
<1>2. CASE OuterTimer(q)
  <2> DEFINE c == Struck(call[q], "outer")
             x == [c EXCEPT !.armed = FALSE]
  <2>1. call' = [call EXCEPT ![q] = x] /\ UNCHANGED <<table, client, mail, hist>>
    BY <1>2 DEF OuterTimer
  <2>2. /\ c \in CallState /\ c.at = call[q].at /\ c.left = call[q].left
        /\ c.ran = call[q].ran /\ c.esc = call[q].esc
        /\ c.kill = call[q].kill \cup {"outer"}
        /\ \/ c.future = call[q].future
           \/ call[q].future = "open" /\ c.future = "dead" /\ c.at = "waiting"
    BY <1>1, StruckFacts
  <2> HIDE DEF c
  <2>3. /\ x \in CallState /\ x.at = c.at /\ x.left = c.left /\ x.ran = c.ran
        /\ x.esc = c.esc /\ x.kill = c.kill /\ x.future = c.future
    BY <2>2 DEF CallState
  <2> HIDE DEF x
  <2> QED
    BY <2>1, <2>2, <2>3, StruckGood
<1>3. CASE InnerTimer(q)
  <2> DEFINE x == Struck(call[q], "inner")
  <2>1. call' = [call EXCEPT ![q] = x] /\ UNCHANGED <<table, client, mail, hist>>
    BY <1>3 DEF InnerTimer
  <2>2. /\ x \in CallState /\ x.at = call[q].at /\ x.left = call[q].left
        /\ x.ran = call[q].ran /\ x.esc = call[q].esc
        /\ x.kill = call[q].kill \cup {"inner"}
        /\ \/ x.future = call[q].future
           \/ call[q].future = "open" /\ x.future = "dead" /\ x.at = "waiting"
    BY <1>1, StruckFacts
  <2> HIDE DEF x
  <2> QED
    BY <2>1, <2>2, StruckGood
<1>4. CASE Esc(q)
  <2> DEFINE c == Struck(call[q], "esc")
             x == [c EXCEPT !.esc = TRUE]
  <2>1. /\ call' = [call EXCEPT ![q] = x] /\ UNCHANGED <<table, client, mail, hist>>
        /\ call[q].at \in Suspended
    BY <1>4 DEF Esc
  <2>2. /\ c \in CallState /\ c.at = call[q].at /\ c.left = call[q].left
        /\ c.ran = call[q].ran
        /\ c.kill = call[q].kill \cup {"esc"}
        /\ \/ c.future = call[q].future
           \/ call[q].future = "open" /\ c.future = "dead" /\ c.at = "waiting"
    BY <1>1, StruckFacts
  <2> HIDE DEF c
  <2>3. /\ x \in CallState /\ x.at = c.at /\ x.left = c.left /\ x.ran = c.ran
        /\ x.kill = c.kill /\ x.future = c.future
    BY <2>2 DEF CallState
  <2> HIDE DEF x
  <2> QED
    BY <2>1, <2>2, <2>3, StruckGood
<1> QED
  BY <1>2, <1>3, <1>4

\* An answer arrives.
LEMMA ResolveGood ==
    ASSUME ApprovalInv, NEW q \in Calls, NEW answer \in Answers, Resolve(q, answer)
    PROVE  ApprovalInv'
<1>1. /\ TypeOK /\ Good(q) /\ call[q] \in CallState
      /\ UNCHANGED <<table, client>> /\ mail' \subseteq (Calls \X Answers)
      /\ \A p \in Calls : hist[p] \in HistState
  BY DEF ApprovalInv, TypeOK, Resolve
<1>2. CASE ~Decidable(q)
  <2>1. UNCHANGED <<call, hist, table, client>>
    BY <1>1, <1>2 DEF Resolve
  <2>2. TypeOK'
    BY <1>1, <2>1 DEF TypeOK
  <2>3. ASSUME NEW p \in Calls PROVE Good(p)'
    <3>1. Bystander(p)
      BY <2>1 DEF Bystander
    <3> QED
      BY <1>1, <3>1, BystanderGood DEF ApprovalInv
  <2> QED
    BY <2>2, <2>3 DEF ApprovalInv
<1>3. CASE Decidable(q)
  <2> DEFINE x == [call[q] EXCEPT !.future = answer]
  <2>1. /\ call[q].future = "open" /\ hist[q].first = None
        /\ q \in table
    BY <1>1, <1>3 DEF Decidable, Good, AnswerGood
  <2>2. /\ call' = [call EXCEPT ![q] = x]
        /\ hist' = [hist EXCEPT ![q].first = answer]
    BY <1>1, <1>3, <2>1 DEF Resolve, TypeOK
  <2>3. x \in CallState
    BY <1>1, RecordUpdates
  <2>4. /\ call' \in [Calls -> CallState] /\ call'[q] = x
        /\ \A p \in Calls \ {q} : call'[p] = call[p]
    BY <1>1, <2>2, <2>3, CallUpdate
  <2>5. /\ \A p \in Calls \ {q} : hist'[p] = hist[p]
        /\ hist'[q] = [hist[q] EXCEPT !.first = answer]
    BY <1>1, <2>2 DEF TypeOK
  <2>6. /\ hist'[q] \in HistState /\ hist'[q].first = answer
        /\ hist'[q].heard = hist[q].heard /\ hist'[q].asked = hist[q].asked
        /\ hist'[q].cut = hist[q].cut
    BY <1>1, <2>5 DEF HistState
  <2>7. hist' \in [Calls -> HistState]
    BY <1>1, <2>2, <2>5, <2>6 DEF TypeOK
  <2>8. TypeOK'
    BY <1>1, <2>4, <2>7 DEF TypeOK
  <2>9. ASSUME NEW p \in Calls \ {q} PROVE Good(p)'
    <3>1. Bystander(p)
      BY <1>1, <2>4, <2>5 DEF Bystander
    <3> QED
      BY <1>1, <3>1, BystanderGood DEF ApprovalInv
  <2>10. /\ x.at = call[q].at /\ x.future = answer /\ x.left = call[q].left
         /\ x.esc = call[q].esc /\ x.kill = call[q].kill /\ x.ran = call[q].ran
    BY <1>1 DEF CallState
  <2>11. call[q].at \in Suspended /\ call[q].at # "telling"
    BY <1>1, <2>1 DEF Good, TableGood, WordGood
  <2>12. TableGood(q)'
    BY <1>1, <2>4, <2>10 DEF Good, TableGood
  <2>13. WordGood(q)'
    <3>1. \A c \in Clients : hist[q].heard[c] \subseteq {"cancelled"}
      BY <1>1, <2>11 DEF Good, WordGood, Heard, Suspended
    <3> QED
      BY <1>1, <2>4, <2>6, <2>10, <2>11, <3>1 DEF Good, WordGood, Heard
  <2>14. AnswerGood(q)'
    BY <2>4, <2>6, <2>10 DEF AnswerGood, Answers
  <2>15. EscGood(q)'
    BY <1>1, <2>4, <2>6, <2>10, <2>11 DEF Good, EscGood, Suspended
  <2>16. AskedGood(q)'
    BY <1>1, <2>4, <2>6, <2>10 DEF Good, AskedGood, Told
  <2> QED
    BY <2>8, <2>9, <2>12, <2>13, <2>14, <2>15, <2>16 DEF ApprovalInv, Good
<1> QED
  BY <1>2, <1>3

\* A client's own step: whoever stays among the askers is as it was.
LEMMA ClientStep ==
    ASSUME ApprovalInv, NEW c \in Clients, NEW y \in ClientState,
           client' = [client EXCEPT ![c] = y], UNCHANGED <<call, table>>,
           mail' \subseteq (Calls \X Answers),
           \/ hist' = Left(c)
           \/ UNCHANGED hist /\ y.sub = client[c].sub /\ y.here = client[c].here,
           \A q \in Calls : y.shown = q => client[c].shown = q
    PROVE  ApprovalInv'
<1>1. /\ TypeOK /\ \A q \in Calls : Good(q) /\ hist[q] \in HistState
      /\ client'[c] = y /\ \A d \in Clients \ {c} : client'[d] = client[d]
      /\ client' \in [Clients -> ClientState]
  BY DEF ApprovalInv, TypeOK
<1>2. ASSUME NEW q \in Calls
      PROVE  /\ hist'[q] \in HistState
             /\ hist'[q].first = hist[q].first /\ hist'[q].heard = hist[q].heard
             /\ hist'[q].cut = hist[q].cut
             /\ hist'[q].asked \subseteq hist[q].asked
             /\ hist' = Left(c) => c \notin hist'[q].asked
  <2>1. CASE hist' = Left(c)
    <3>1. hist'[q] = [hist[q] EXCEPT !.asked = @ \ {c}]
      BY <2>1 DEF Left
    <3> QED
      BY <1>1, <3>1 DEF HistState
  <2>2. CASE UNCHANGED hist /\ hist' # Left(c)
    BY <1>1, <2>2
  <2> QED
    BY <2>1, <2>2
<1>3. hist' \in [Calls -> HistState]
  <2>1. CASE hist' = Left(c)
    BY <1>2, <2>1 DEF Left
  <2>2. CASE UNCHANGED hist
    BY <1>1, <2>2 DEF TypeOK
  <2> QED
    BY <2>1, <2>2
<1>4. TypeOK'
  BY <1>1, <1>3 DEF TypeOK
<1>5. ASSUME NEW q \in Calls PROVE Good(q)'
  <2>1. \A d \in hist'[q].asked : d \in Clients
    BY <1>2 DEF HistState
  <2>2. ASSUME NEW d \in hist'[q].asked
        PROVE  /\ client'[d].sub = client[d].sub /\ client'[d].here = client[d].here
               /\ client'[d].shown = q => client[d].shown = q
    <3>1. CASE d = c
      BY <1>1, <1>2, <2>2, <3>1
    <3>2. CASE d # c
      BY <1>1, <2>1, <2>2, <3>2
    <3> QED
      BY <3>1, <3>2
  <2>3. Bystander(q)
    BY <1>2, <2>2 DEF Bystander
  <2> QED
    BY <1>1, <2>3, BystanderGood
<1> QED
  BY <1>4, <1>5 DEF ApprovalInv

LEMMA ClientsGood ==
    ASSUME ApprovalInv, ApprovalAssumption, NEW c \in Clients,
           \/ \E s \in Sessions, here \in BOOLEAN : Name(c, s, here)
           \/ \E shown \in Calls \cup {None} : Hangup(c, shown)
           \/ \E answer \in Answers : Answer(c, answer)
           \/ Expired(c)
    PROVE  ApprovalInv'
<1>1. /\ TypeOK /\ client[c] \in ClientState /\ mail \subseteq (Calls \X Answers)
      /\ None \notin Calls
  BY DEF ApprovalInv, TypeOK, ApprovalAssumption
<1>2. CASE \E s \in Sessions, here \in BOOLEAN : Name(c, s, here)
  <2>1. PICK s \in Sessions, here \in BOOLEAN : Name(c, s, here)
    BY <1>2
  <2> DEFINE y == [client[c] EXCEPT !.sub = s, !.here = here]
  <2>2. y \in ClientState /\ y.shown = client[c].shown
    BY <1>1 DEF ClientState
  <2>3. /\ client' = [client EXCEPT ![c] = y] /\ hist' = Left(c)
        /\ UNCHANGED <<call, table>> /\ mail' \subseteq (Calls \X Answers)
    BY <1>1, <2>1 DEF Name, TypeOK
  <2> HIDE DEF y
  <2> QED
    BY <2>2, <2>3, ClientStep
<1>3. CASE \E shown \in Calls \cup {None} : Hangup(c, shown)
  <2>1. PICK shown \in {client[c].shown, None} : Hangup(c, shown)
    BY <1>3 DEF Hangup
  <2> DEFINE y == [sub |-> None, here |-> FALSE, shown |-> shown]
  <2>2. y \in ClientState /\ y.shown = shown
    BY <1>1 DEF ClientState
  <2>3. /\ client' = [client EXCEPT ![c] = y] /\ hist' = Left(c)
        /\ UNCHANGED <<call, table>> /\ mail' \subseteq (Calls \X Answers)
    BY <1>1, <2>1 DEF Hangup
  <2>4. \A q \in Calls : y.shown = q => client[c].shown = q
    BY <1>1, <2>1, <2>2
  <2> HIDE DEF y
  <2> QED
    BY <2>2, <2>3, <2>4, ClientStep
<1> DEFINE z == [client[c] EXCEPT !.shown = None]
<1>4. /\ z \in ClientState /\ z.shown = None /\ z.sub = client[c].sub
      /\ z.here = client[c].here
  BY <1>1 DEF ClientState
<1>5. ASSUME client' = [client EXCEPT ![c] = z], UNCHANGED <<call, table, hist>>,
             mail' \subseteq (Calls \X Answers)
      PROVE  ApprovalInv'
  <2>1. \A q \in Calls : z.shown = q => client[c].shown = q
    BY <1>1, <1>4
  <2>2. UNCHANGED <<call, table>> /\ UNCHANGED hist
    BY <1>5
  <2> HIDE DEF z
  <2> QED
    BY <1>1, <1>4, <1>5, <2>1, <2>2, ClientStep
<1>6. CASE \E answer \in Answers : Answer(c, answer)
  <2>1. PICK answer \in Answers : Answer(c, answer)
    BY <1>6
  <2>2. client[c].shown \in Calls
    BY <1>1, <2>1 DEF Answer, ClientState
  <2>3. /\ client' = [client EXCEPT ![c] = z] /\ UNCHANGED <<call, table, hist>>
        /\ mail' \subseteq (Calls \X Answers)
    BY <1>1, <2>1, <2>2 DEF Answer, TypeOK
  <2> QED
    BY <1>5, <2>3
<1>7. CASE Expired(c)
  <2>1. /\ client' = [client EXCEPT ![c] = z] /\ UNCHANGED <<call, table, hist>>
        /\ mail' \subseteq (Calls \X Answers)
    BY <1>1, <1>7 DEF Expired, TypeOK
  <2> QED
    BY <1>5, <2>1
<1> QED
  BY <1>2, <1>3, <1>6, <1>7

LEMMA NextInv == ApprovalInv /\ ApprovalAssumption /\ [Next]_vars => ApprovalInv'
<1> SUFFICES ASSUME ApprovalInv, ApprovalAssumption, [Next]_vars
             PROVE  ApprovalInv'
  OBVIOUS
<1>1. CASE UNCHANGED vars
  <2>1. TypeOK' <=> TypeOK
    BY <1>1 DEF vars, TypeOK
  <2>2. ASSUME NEW q \in Calls PROVE Good(q)'
    <3>1. Bystander(q)
      BY <1>1 DEF vars, Bystander
    <3> QED
      BY <3>1, BystanderGood DEF ApprovalInv
  <2> QED
    BY <2>1, <2>2 DEF ApprovalInv
<1>2. ASSUME NEW q \in Calls, Resume(q) PROVE ApprovalInv'
  BY <1>2, RequestOnGood, AnsweredGood, TimedOutGood, TellOnGood, CancelledGood,
     CancelOnGood, CancelledAgainGood DEF Resume
<1>3. ASSUME NEW q \in Calls,
             \/ Reject(q) \/ NobodyThere(q) \/ Request(q) \/ Resume(q)
             \/ OuterTimer(q) \/ InnerTimer(q) \/ Esc(q)
             \/ \E answer \in Answers : Resolve(q, answer)
      PROVE  ApprovalInv'
  BY <1>2, <1>3, RefusedGood, RequestGood, TimersGood, ResolveGood
<1>4. ASSUME NEW c \in Clients,
             \/ \E s \in Sessions, here \in BOOLEAN : Name(c, s, here)
             \/ \E shown \in Calls \cup {None} : Hangup(c, shown)
             \/ \E answer \in Answers : Answer(c, answer)
             \/ Expired(c)
      PROVE  ApprovalInv'
  BY <1>4, ClientsGood
<1> QED
  BY <1>1, <1>3, <1>4 DEF Next

\* The invariant holds in every reachable state.
THEOREM ApprovalInvariant == Spec => []ApprovalInv
<1>1. ApprovalInv /\ [Next]_vars => ApprovalInv'
  BY NextInv, ApprovalAssumption
<1> QED
  BY InitInv, <1>1, PTL DEF Spec

-----------------------------------------------------------------------------
(* What it is for.                                                         *)

\* Every coroutine and client keeps the shape of its record.
THEOREM ApprovalTyped == Spec => []TypeOK
<1>1. ApprovalInv => TypeOK
  BY DEF ApprovalInv
<1> QED
  BY <1>1, ApprovalInvariant, PTL

\* The first answer decides (request_approval, _resolve_approval).
THEOREM FirstAnswerAlwaysDecides == Spec => []FirstAnswerDecides
<1>1. ApprovalInv => FirstAnswerDecides
  BY DEF ApprovalInv, Good, WordGood, EscGood, FirstAnswerDecides
<1> QED
  BY <1>1, ApprovalInvariant, PTL

\* Nobody hears two endings of one question (the `announced' flag).
THEOREM OneOutcomeOnly == Spec => []OneOutcome
<1>1. ApprovalInv => OneOutcome
  BY DEF ApprovalInv, Good, WordGood, OneOutcome
<1> QED
  BY <1>1, ApprovalInvariant, PTL

\* Whoever was asked and stayed is told, unless the announcement itself was
\* cancelled (request_approval's handler around the whole exchange).
THEOREM AskersAlwaysTold == Spec => []AskersTold
<1>1. ApprovalInv => AskersTold
  BY DEF ApprovalInv, Good, AskedGood, AskersTold, Told
<1> QED
  BY <1>1, ApprovalInvariant, PTL

\* The table holds the questions whose coroutine is alive, and no others (the
\* finally of request_approval).
THEOREM TableIsExact == Spec => []TableFollowsQuestions
<1>1. ApprovalInv => TableFollowsQuestions
  BY DEF ApprovalInv, Good, TypeOK, TableGood, TableFollowsQuestions
<1> QED
  BY <1>1, ApprovalInvariant, PTL
=============================================================================
