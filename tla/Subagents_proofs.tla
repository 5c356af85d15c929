-------------------------- MODULE Subagents_proofs ---------------------------
(***************************************************************************)
(* What Subagents promises, for any number of calls, slots and clients:    *)
(* slots are neither shared nor leaked, a directory is emptied under       *)
(* nobody but a reflection nobody waits for any more, and the owner's      *)
(* window is closed only by a call that got an answer or failed.           *)
(***************************************************************************)
EXTENDS Subagents, WellFoundedInduction, TLAPS

Active == {"waiting", "settling"}

\* A client's turn came to the session of call q.
Excused(q) == \E t \in ClientTurns : user[t].sess = call[q].slot

-----------------------------------------------------------------------------
(* The inductive invariant.                                                *)

\* No slot is missing from the order.
Ordered == \A s \in Slots : \E i \in 1..NSlots : pool.order[i] = s

Idlers == \A t \in ClientTurns : user[t].at = "idle" => user[t].sess = None

\* A call holds a session from its start, and its runner lives at least as
\* long as the child's task.
PlaceGood(q) ==
    /\ call[q].run = "idle" =>
          call[q].child = "none" /\ ~call[q].hit /\ ~call[q].raised
    /\ call[q].child \in {"none", "acquire"} => call[q].slot = None
    /\ q \in BossCalls => call[q].slot \in {Boss, None}
    /\ q \in Delegations => call[q].slot \in Slots \cup {None}
    /\ call[q].child \in Running => call[q].slot # None
    /\ call[q].child \in Running \cup {"acquire"} => call[q].run \in Active

\* Nobody cancels a child whose runner waits: it answers or fails.
CalmGood(q) ==
    call[q].run = "waiting" =>
        /\ ~call[q].hit /\ ~call[q].raised
        /\ call[q].child = "over" /\ call[q].slot = Boss =>
              call[q].result \in {"text", "failed"}

\* A reflection of q that runs is on the table, awaited, or out of its
\* runner's sight for a reason.
ReflGood(q) ==
    /\ call[q].child \in {"none", "acquire", "starting", "turn", "ending"} =>
          refl[q] = "none"
    /\ q \in Delegations /\ refl[q] = "running" =>
         /\ call[q].child = "leaving" =>
              sess[call[q].slot].task = q \/ Excused(q)
         /\ call[q].child = "reflect" => call[q].waits = q \/ Excused(q)
         /\ call[q].child = "over" =>
              call[q].slot # None /\ (call[q].cut \/ Excused(q))
    /\ q \in Delegations /\ q \in wiped =>
         call[q].slot # None /\ (call[q].cut \/ Excused(q))

\* The clock is that of the call that asked.
StampGood(q) ==
    q \in BossCalls =>
        /\ stamp = q => call[q].slot = Boss
        /\ call[q].slot = Boss /\ call[q].run \in Active => stamp = q
        /\ stamp = q /\ call[q].run = "done" =>
              call[q].result \in {"text", "failed"} \/ call[q].twice

Good(q) == PlaceGood(q) /\ CalmGood(q) /\ ReflGood(q) /\ StampGood(q)

SubInv ==
    /\ TypeOK
    /\ Ordered
    /\ Idlers
    /\ SlotsHeld
    /\ \A q \in Calls : Good(q)

-----------------------------------------------------------------------------
(* Facts about calls and slots.                                            *)

LEMMA Kinds ==
    ASSUME SubagentAssumption
    PROVE  /\ None \notin Turns /\ None \notin Children /\ Boss \notin Slots
           /\ \A q \in Calls : q \in Delegations <=> q \notin BossCalls
           /\ Slots \subseteq Children /\ Boss \in Children
           /\ \A q \in Calls : q \in Turns
BY DEF SubagentAssumption, Children, Slots, Boss, Turns, Calls

LEMMA CallUpdate ==
    ASSUME TypeOK, NEW q \in Calls, NEW x \in CallState,
           call' = [call EXCEPT ![q] = x]
    PROVE  /\ call' \in [Calls -> CallState]
           /\ call'[q] = x
           /\ \A p \in Calls \ {q} : call'[p] = call[p]
BY DEF TypeOK

LEMMA LeastNumber ==
    ASSUME NEW S, S \subseteq Nat, S # {}
    PROVE  \E n \in S : \A m \in S : n <= m
<1> DEFINE R == OpToRel(<, Nat)
<1>1. PICK n \in S : \A m \in S : ~ (<<m, n>> \in R)
  <2>1. IsWellFoundedOn(R, Nat)
    BY NatLessThanWellFounded
  <2> HIDE DEF R
  <2> QED
    BY <2>1, WFMin
<1>2. \A m \in S : ~ (m < n)
  BY <1>1 DEF OpToRel
<1> QED
  BY <1>2

\* A free slot is found (_subagent_acquire).
LEMMA FirstFreeIsFree ==
    ASSUME SubInv, pool.busy # Slots
    PROVE  FirstFree(pool.busy) \in Slots \ pool.busy
<1> DEFINE free == {i \in 1..NSlots : pool.order[i] \notin pool.busy}
<1>1. pool.busy \subseteq Slots /\ pool.order \in [1..NSlots -> Slots]
  BY DEF SubInv, TypeOK, PoolState
<1>2. PICK s \in Slots : s \notin pool.busy
  BY <1>1
<1>3. PICK i \in 1..NSlots : pool.order[i] = s
  BY DEF SubInv, Ordered
<1>4. free \in SUBSET Nat /\ free # {}
  BY <1>2, <1>3
<1>5. \E n \in free : \A m \in free : n <= m
  BY <1>4, LeastNumber
<1>6. (CHOOSE n \in free : \A m \in free : n <= m) \in free
  BY <1>5
<1>7. FirstFree(pool.busy) = pool.order[CHOOSE n \in free : \A m \in free : n <= m]
  BY DEF FirstFree
<1> QED
  BY <1>1, <1>6, <1>7

\* Its close leaves the slots in an order (_subagent_release).
LEMMA ClosedOrders ==
    ASSUME SubagentAssumption, TypeOK, Ordered, NEW slot \in Slots
    PROVE  /\ Closed(slot) \in [1..NSlots -> Slots]
           /\ \A s \in Slots : \E i \in 1..NSlots : Closed(slot)[i] = s
<1> DEFINE at == CHOOSE i \in 1..NSlots : pool.order[i] = slot
<1>1. pool.order \in [1..NSlots -> Slots] /\ NSlots \in Nat \ {0}
  BY DEF TypeOK, PoolState, SubagentAssumption
<1>2. at \in 1..NSlots /\ pool.order[at] = slot
  BY DEF Ordered
<1>3. Closed(slot) = [i \in 1..NSlots |->
                        IF i < at THEN pool.order[i]
                        ELSE IF i < NSlots THEN pool.order[i + 1] ELSE slot]
  BY DEF Closed
<1> HIDE DEF at
<1>4. Closed(slot) \in [1..NSlots -> Slots]
  BY <1>1, <1>2, <1>3
<1>5. ASSUME NEW s \in Slots PROVE \E i \in 1..NSlots : Closed(slot)[i] = s
  <2>1. PICK i \in 1..NSlots : pool.order[i] = s
    BY DEF Ordered
  <2>2. CASE s = slot
    <3>1. NSlots \in 1..NSlots /\ Closed(slot)[NSlots] = slot
      BY <1>1, <1>2, <1>3
    <3> QED
      BY <2>2, <3>1
  <2>3. CASE s # slot /\ i < at
    BY <1>1, <1>2, <1>3, <2>1, <2>3
  <2>4. CASE s # slot /\ ~(i < at)
    <3>1. i # at
      BY <1>2, <2>1, <2>4
    <3>2. /\ i - 1 \in 1..NSlots /\ ~(i - 1 < at) /\ i - 1 < NSlots
          /\ (i - 1) + 1 = i
      BY <1>1, <1>2, <2>4, <3>1
    <3>3. Closed(slot)[i - 1] = s
      BY <1>3, <2>1, <3>2
    <3> QED
      BY <3>2, <3>3
  <2> QED
    BY <2>2, <2>3, <2>4
<1> QED
  BY <1>4, <1>5

\* No other delegation is in the session of a call that runs.
LEMMA OwnSlot ==
    ASSUME SubagentAssumption, SubInv, NEW q \in Calls, call[q].child \in Running,
           NEW p \in Delegations, p # q, call[p].child \in Running
    PROVE  call[p].slot # call[q].slot
<1>1. p \in Calls /\ Good(p) /\ Good(q)
  BY DEF SubInv, Calls
<1>2. call[p].slot \in Slots
  BY <1>1 DEF Good, PlaceGood
<1>3. CASE q \in Delegations
  BY <1>3 DEF SubInv, SlotsHeld
<1>4. CASE q \notin Delegations
  <2>1. call[q].slot \in {Boss, None}
    BY <1>1, <1>4 DEF Good, PlaceGood, Calls
  <2> QED
    BY <1>2, <2>1, Kinds DEF Children
<1> QED
  BY <1>3, <1>4

\* A step that leaves call p alone keeps what is known of it.
LEMMA Bystander ==
    ASSUME NEW p \in Calls, Good(p), call'[p] = call[p],
           refl'[p] = refl[p] \/ (refl[p] = "running" /\ refl'[p] = "done"),
           call[p].slot # None /\ Excused(p) => Excused(p)',
           p \in Delegations /\ call[p].child = "leaving" /\ refl'[p] = "running" =>
             Excused(p)' \/ sess'[call[p].slot].task = sess[call[p].slot].task,
           \/ stamp' = stamp
           \/ stamp' # p /\ ~(call[p].slot = Boss /\ call[p].run \in Active),
           p \in Delegations /\ p \in wiped' =>
             p \in wiped \/ (call[p].slot # None /\ (call[p].cut \/ Excused(p)))
    PROVE  Good(p)'
<1>1. PlaceGood(p)' /\ CalmGood(p)'
  BY DEF Good, PlaceGood, CalmGood
<1>2. StampGood(p)'
  BY DEF Good, StampGood
<1>3. ReflGood(p)'
  <2>1. PlaceGood(p) /\ ReflGood(p)
    BY DEF Good
  <2>2. call[p].child \in {"leaving", "reflect"} => call[p].slot # None
    BY <2>1 DEF PlaceGood, Running
  <2>3. refl'[p] = "running" => refl[p] = "running"
    OBVIOUS
  <2>4. /\ call[p].child \in {"none", "acquire", "starting", "turn", "ending"} =>
             refl'[p] = "none"
        /\ p \in Delegations /\ refl'[p] = "running" =>
             /\ call[p].child = "leaving" =>
                  sess'[call[p].slot].task = p \/ Excused(p)'
             /\ call[p].child = "reflect" => call[p].waits = p \/ Excused(p)'
    BY <2>1, <2>2, <2>3 DEF ReflGood
  <2>5. /\ p \in Delegations /\ refl'[p] = "running" /\ call[p].child = "over" =>
             call[p].slot # None /\ (call[p].cut \/ Excused(p)')
        /\ p \in Delegations /\ p \in wiped' =>
             call[p].slot # None /\ (call[p].cut \/ Excused(p)')
    BY <2>1, <2>2, <2>3 DEF ReflGood
  <2> QED
    BY <2>4, <2>5 DEF ReflGood
<1> QED
  BY <1>1, <1>2, <1>3 DEF Good

-----------------------------------------------------------------------------
(* What a step of one call keeps.                                          *)

\* The slots stay held if nobody takes or returns one.
LEMMA HeldSame ==
    ASSUME SlotsHeld, pool'.busy = pool.busy,
           \A d \in Delegations :
              /\ call'[d].child \in Running <=> call[d].child \in Running
              /\ call[d].child \in Running => call'[d].slot = call[d].slot
    PROVE  SlotsHeld'
<1>1. {call'[q].slot : q \in {d \in Delegations : call'[d].child \in Running}}
      = {call[q].slot : q \in {d \in Delegations : call[d].child \in Running}}
  OBVIOUS
<1>2. \A p, q \in Delegations :
         call'[p].child \in Running /\ call'[q].child \in Running
           /\ call'[p].slot = call'[q].slot => p = q
  BY DEF SlotsHeld
<1> QED
  BY <1>1, <1>2 DEF SlotsHeld

\* A free slot is taken by a call that had none.
LEMMA HeldTaken ==
    ASSUME SubagentAssumption, SubInv, NEW q \in Delegations, NEW s \in Slots \ pool.busy,
           call[q].child \notin Running,
           call'[q].child \in Running, call'[q].slot = s,
           \A d \in Calls \ {q} : call'[d] = call[d],
           pool'.busy = pool.busy \cup {s}
    PROVE  SlotsHeld'
<1>1. Delegations \subseteq Calls
  BY DEF Calls
<1>2. \A d \in Delegations \ {q} : call'[d] = call[d]
  BY <1>1
<1>3. pool.busy = {call[d].slot : d \in {e \in Delegations : call[e].child \in Running}}
  BY DEF SubInv, SlotsHeld
<1>4. {call'[d].slot : d \in {e \in Delegations : call'[e].child \in Running}}
      = pool.busy \cup {s}
  BY <1>2, <1>3
<1>5. \A p \in Delegations \ {q} : call[p].child \in Running => call[p].slot # s
  BY <1>3
<1>6. \A p, r \in Delegations :
         call'[p].child \in Running /\ call'[r].child \in Running
           /\ call'[p].slot = call'[r].slot => p = r
  BY <1>2, <1>5 DEF SubInv, SlotsHeld
<1> QED
  BY <1>4, <1>6 DEF SlotsHeld

\* The slot of a child that ends is returned (_subagent_release).
LEMMA HeldReleased ==
    ASSUME SubagentAssumption, SubInv, NEW q \in Calls,
           call[q].child \in Running, call'[q].child = "over",
           \A d \in Calls \ {q} : call'[d] = call[d],
           Release(q)
    PROVE  SlotsHeld' /\ Ordered' /\ pool' \in PoolState
<1>1. /\ Delegations \subseteq Calls /\ PlaceGood(q) /\ TypeOK /\ Ordered
      /\ pool \in PoolState
  BY DEF SubInv, Good, Calls, TypeOK
<1>2. \A d \in Delegations \ {q} : call'[d] = call[d]
  BY <1>1
<1>3. CASE q \in Delegations
  <2>1. call[q].slot \in Slots
    BY <1>1, <1>3 DEF PlaceGood
  <2>2. pool' = [busy |-> pool.busy \ {call[q].slot}, order |-> Closed(call[q].slot)]
    BY <2>1 DEF Release, Freed
  <2>3. pool' \in PoolState /\ Ordered'
    <3>1. /\ Closed(call[q].slot) \in [1..NSlots -> Slots]
          /\ \A t \in Slots : \E i \in 1..NSlots : Closed(call[q].slot)[i] = t
      BY <1>1, <2>1, ClosedOrders
    <3>2. pool.busy \ {call[q].slot} \in SUBSET Slots
      BY <1>1 DEF PoolState
    <3>3. pool'.order = Closed(call[q].slot)
      BY <2>2
    <3> QED
      BY <2>2, <3>1, <3>2, <3>3 DEF PoolState, Ordered
  <2>4. pool.busy = {call[d].slot : d \in {e \in Delegations : call[e].child \in Running}}
    BY DEF SubInv, SlotsHeld
  <2>5. \A d \in Delegations \ {q} : call[d].child \in Running => call[d].slot # call[q].slot
    BY <1>3 DEF SubInv, SlotsHeld
  <2>6. "over" \notin Running
    BY DEF Running
  <2>7. {call'[d].slot : d \in {e \in Delegations : call'[e].child \in Running}}
        = pool.busy \ {call[q].slot}
    BY <1>2, <1>3, <2>4, <2>5, <2>6
  <2>8. \A p, r \in Delegations :
         call'[p].child \in Running /\ call'[r].child \in Running
           /\ call'[p].slot = call'[r].slot => p = r
    BY <1>2, <2>6 DEF SubInv, SlotsHeld
  <2> QED
    BY <2>2, <2>3, <2>7, <2>8 DEF SlotsHeld
<1>4. CASE q \notin Delegations
  <2>1. call[q].slot \notin Slots
    BY <1>1, <1>4, Kinds DEF PlaceGood, Calls, Children
  <2>2. pool' = pool
    BY <2>1 DEF Release
  <2>3. \A d \in Delegations : call'[d] = call[d]
    BY <1>2, <1>4
  <2>4. SlotsHeld'
    BY <2>2, <2>3, HeldSame DEF SubInv
  <2> QED
    BY <1>1, <2>2, <2>4 DEF Ordered
<1> QED
  BY <1>3, <1>4

\* A step of one call keeps the invariant if what the others look at stays.
LEMMA CallStep ==
    ASSUME SubagentAssumption, SubInv, NEW q \in Calls, NEW x \in CallState,
           call' = [call EXCEPT ![q] = x],
           UNCHANGED user,
           refl' \in [Turns -> {"none", "running", "done"}],
           \A p \in Calls \ {q} : refl'[p] = refl[p],
           sess' \in [Children -> SessState],
           \A p \in Delegations \ {q} :
              call[p].child = "leaving" =>
                sess'[call[p].slot].task = sess[call[p].slot].task,
           stamp' \in BossCalls \cup {None},
           \A p \in Calls \ {q} :
              \/ stamp' = stamp
              \/ stamp' # p /\ ~(call[p].slot = Boss /\ call[p].run \in Active),
           wiped' \subseteq Turns,
           \A p \in Delegations \ {q} :
              p \in wiped' =>
                p \in wiped \/ (call[p].slot # None /\ (call[p].cut \/ Excused(p))),
           pool' \in PoolState, Ordered', SlotsHeld', Good(q)'
    PROVE  SubInv'
<1>1. /\ call' \in [Calls -> CallState] /\ call'[q] = x
      /\ \A p \in Calls \ {q} : call'[p] = call[p]
  BY CallUpdate DEF SubInv
<1>2. TypeOK'
  BY <1>1 DEF SubInv, TypeOK
<1>3. Idlers'
  BY DEF SubInv, Idlers
<1>4. ASSUME NEW p \in Calls \ {q} PROVE Good(p)'
  <2>1. call'[p] = call[p] /\ refl'[p] = refl[p] /\ Good(p)
    BY <1>1 DEF SubInv
  <2>2. Excused(p) => Excused(p)'
    BY <2>1 DEF Excused
  <2>3. p \in Delegations /\ call[p].child = "leaving" /\ refl'[p] = "running" =>
          Excused(p)' \/ sess'[call[p].slot].task = sess[call[p].slot].task
    OBVIOUS
  <2>4. /\ \/ stamp' = stamp
           \/ stamp' # p /\ ~(call[p].slot = Boss /\ call[p].run \in Active)
        /\ p \in Delegations /\ p \in wiped' =>
             p \in wiped \/ (call[p].slot # None /\ (call[p].cut \/ Excused(p)))
    OBVIOUS
  <2> QED
    BY <2>1, <2>2, <2>3, <2>4, Bystander
<1> QED
  BY <1>2, <1>3, <1>4 DEF SubInv

\* The step of a call that changes nothing else and keeps its session.
LEMMA QuietStep ==
    ASSUME SubagentAssumption, SubInv, NEW q \in Calls, NEW x \in CallState,
           call' = [call EXCEPT ![q] = x],
           UNCHANGED <<pool, sess, refl, user, wiped>>,
           stamp' \in BossCalls \cup {None},
           \A p \in Calls \ {q} :
              \/ stamp' = stamp
              \/ stamp' # p /\ ~(call[p].slot = Boss /\ call[p].run \in Active),
           x.slot = call[q].slot, x.child \in Running <=> call[q].child \in Running,
           Good(q)'
    PROVE  SubInv'
<1>1. /\ call'[q] = x /\ \A p \in Calls \ {q} : call'[p] = call[p]
      /\ Delegations \subseteq Calls
  BY CallUpdate DEF SubInv, Calls
<1>2. SlotsHeld'
  <2>1. \A d \in Delegations :
              /\ call'[d].child \in Running <=> call[d].child \in Running
              /\ call[d].child \in Running => call'[d].slot = call[d].slot
    BY <1>1
  <2> QED
    BY <2>1, HeldSame DEF SubInv
<1>3. Ordered'
  BY DEF SubInv, Ordered
<1>4. /\ refl' \in [Turns -> {"none", "running", "done"}]
      /\ sess' \in [Children -> SessState] /\ wiped' \subseteq Turns
      /\ pool' \in PoolState
  BY DEF SubInv, TypeOK
<1> QED
  BY <1>2, <1>3, <1>4, CallStep

-----------------------------------------------------------------------------
(* Steps that leave the sessions alone.                                    *)

\* What is known of a call that keeps its session.
LEMMA OwnQuiet ==
    ASSUME SubagentAssumption, NEW q \in Calls, Good(q), call'[q].slot = call[q].slot,
           call'[q].cut = call[q].cut, call'[q].waits = call[q].waits,
           call'[q].twice = call[q].twice \/ call'[q].twice,
           UNCHANGED <<sess, refl, user, wiped, stamp>>,
           \/ call'[q].child = call[q].child
           \/ call[q].child = "none" /\ call'[q].child = "acquire"
           \/ call[q].child = "acquire" /\ call'[q].child = "over"
           \/ call[q].child = "starting" /\ call'[q].child = "turn",
           call'[q].run # "idle",
           call'[q].child \in Running \cup {"acquire"} => call'[q].run \in Active,
           CalmGood(q)',
           call'[q].run \in Active => call[q].run \in Active \/ call[q].slot # Boss,
           call[q].slot = Boss /\ stamp = q /\ call'[q].run = "done" =>
              call'[q].result \in {"text", "failed"} \/ call'[q].twice
    PROVE  Good(q)'
<1>1. PlaceGood(q) /\ ReflGood(q) /\ StampGood(q)
  BY DEF Good
<1>2. PlaceGood(q)'
  BY <1>1 DEF PlaceGood, Running
<1>3. StampGood(q)'
  BY <1>1 DEF StampGood
<1>4. Excused(q)' <=> Excused(q)
  BY DEF Excused
<1>5. ReflGood(q)'
  BY <1>1, <1>4 DEF ReflGood
<1> QED
  BY <1>2, <1>3, <1>5 DEF Good

LEMMA BeginInv ==
    ASSUME SubagentAssumption, SubInv, NEW q \in Calls, Begin(q)
    PROVE  SubInv'
<1> DEFINE x == [call[q] EXCEPT !.run = "waiting", !.child = "acquire"]
<1>1. call \in [Calls -> CallState] /\ call[q] \in CallState /\ Good(q)
      /\ call[q].run = "idle"
  BY DEF SubInv, TypeOK, Begin
<1>2. x \in CallState /\ call' = [call EXCEPT ![q] = x]
  BY <1>1 DEF CallState, Begin
<1>3. call'[q] = x /\ UNCHANGED <<pool, sess, refl, stamp, user, wiped>>
  BY <1>1, <1>2, CallUpdate DEF Begin, SubInv
<1>4. /\ call'[q].slot = call[q].slot /\ call'[q].cut = call[q].cut
      /\ call'[q].waits = call[q].waits /\ call'[q].twice = call[q].twice
      /\ call'[q].hit = call[q].hit /\ call'[q].raised = call[q].raised
      /\ call'[q].run = "waiting" /\ call'[q].child = "acquire"
  BY <1>1, <1>3 DEF CallState
<1>5. call[q].child = "none" /\ ~call[q].hit /\ ~call[q].raised /\ call[q].slot = None
  BY <1>1 DEF Good, PlaceGood
<1>6. call[q].slot # Boss
  BY <1>5, Kinds
<1>7. CalmGood(q)'
  BY <1>4, <1>5 DEF CalmGood
<1>8. Good(q)'
  BY <1>1, <1>3, <1>4, <1>5, <1>6, <1>7, OwnQuiet DEF Active
<1>9. x.slot = call[q].slot /\ (x.child \in Running <=> call[q].child \in Running)
  BY <1>3, <1>4, <1>5 DEF Running
<1> HIDE DEF x
<1> QED
  BY <1>2, <1>3, <1>8, <1>9, QuietStep DEF SubInv, TypeOK

LEMMA ChildDoneInv ==
    ASSUME SubagentAssumption, SubInv, NEW q \in Calls, ChildDone(q)
    PROVE  SubInv'
<1> DEFINE x == [call[q] EXCEPT !.run = "done", !.raised = FALSE]
<1>1. call \in [Calls -> CallState] /\ call[q] \in CallState /\ Good(q)
      /\ call[q].run = "waiting" /\ call[q].child = "over"
  BY DEF SubInv, TypeOK, ChildDone
<1>2. x \in CallState /\ call' = [call EXCEPT ![q] = x]
  BY <1>1 DEF CallState, ChildDone
<1>3. call'[q] = x /\ UNCHANGED <<pool, sess, refl, stamp, user, wiped>>
  BY <1>1, <1>2, CallUpdate DEF ChildDone, SubInv
<1>4. /\ call'[q].slot = call[q].slot /\ call'[q].cut = call[q].cut
      /\ call'[q].waits = call[q].waits /\ call'[q].twice = call[q].twice
      /\ call'[q].result = call[q].result
      /\ call'[q].run = "done" /\ call'[q].child = call[q].child
  BY <1>1, <1>3 DEF CallState
<1>5. call[q].slot = Boss => call[q].result \in {"text", "failed"}
  BY <1>1 DEF Good, CalmGood
<1>6. "over" \notin Running \cup {"acquire"}
  BY DEF Running
<1>7. CalmGood(q)'
  BY <1>4 DEF CalmGood
<1>8. Good(q)'
  BY <1>1, <1>3, <1>4, <1>5, <1>6, <1>7, OwnQuiet DEF Active
<1>9. x.slot = call[q].slot /\ x.child = call[q].child
  BY <1>3, <1>4
<1> HIDE DEF x
<1> QED
  BY <1>2, <1>3, <1>8, <1>9, QuietStep DEF SubInv, TypeOK

\* The runner's wait is ended, once or twice.
LEMMA StruckInv ==
    ASSUME SubagentAssumption, SubInv, NEW q \in Calls,
           Timeout(q) \/ Esc(q) \/ EscAgain(q)
    PROVE  SubInv'
<1>1. call \in [Calls -> CallState] /\ call[q] \in CallState /\ Good(q)
      /\ call[q].run \in Active
  BY DEF SubInv, TypeOK, Timeout, Esc, EscAgain, Active
<1>2. PICK x \in CallState :
        /\ call' = [call EXCEPT ![q] = x]
        /\ x.run = "settling" /\ x.child = call[q].child /\ x.slot = call[q].slot
        /\ x.cut = call[q].cut /\ x.waits = call[q].waits
        /\ x.twice = call[q].twice \/ x.twice
  <2> DEFINE c == Struck(call[q])
  <2>1. /\ c \in CallState /\ c.child = call[q].child /\ c.slot = call[q].slot
        /\ c.cut = call[q].cut /\ c.waits = call[q].waits
        /\ c.twice = call[q].twice /\ c.run = call[q].run
    <3> DEFINE h == call[q].child \in Running \cup {"acquire"}
    <3>1. c = [call[q] EXCEPT !.hit = h] /\ h \in BOOLEAN
      BY DEF Struck
    <3> HIDE DEF h, c
    <3> QED
      BY <1>1, <3>1 DEF CallState
  <2>2. CASE Timeout(q)
    <3> DEFINE x == [c EXCEPT !.run = "settling", !.why = "timeout"]
    <3>1. call' = [call EXCEPT ![q] = x]
      BY <2>2 DEF Timeout
    <3> HIDE DEF c
    <3>2. /\ x \in CallState /\ x.run = "settling" /\ x.child = c.child /\ x.slot = c.slot
          /\ x.cut = c.cut /\ x.waits = c.waits /\ x.twice = c.twice
      BY <2>1 DEF CallState
    <3> HIDE DEF x
    <3> QED
      BY <2>1, <3>1, <3>2
  <2>3. CASE Esc(q)
    <3> DEFINE x == [c EXCEPT !.run = "settling", !.why = "esc"]
    <3>1. call' = [call EXCEPT ![q] = x]
      BY <2>3 DEF Esc
    <3> HIDE DEF c
    <3>2. /\ x \in CallState /\ x.run = "settling" /\ x.child = c.child /\ x.slot = c.slot
          /\ x.cut = c.cut /\ x.waits = c.waits /\ x.twice = c.twice
      BY <2>1 DEF CallState
    <3> HIDE DEF x
    <3> QED
      BY <2>1, <3>1, <3>2
  <2>4. CASE EscAgain(q)
    <3> DEFINE x == [c EXCEPT !.twice = TRUE]
    <3>1. call' = [call EXCEPT ![q] = x] /\ call[q].run = "settling"
      BY <2>4 DEF EscAgain
    <3> HIDE DEF c
    <3>2. /\ x \in CallState /\ x.run = c.run /\ x.child = c.child /\ x.slot = c.slot
          /\ x.cut = c.cut /\ x.waits = c.waits /\ x.twice
      BY <2>1 DEF CallState
    <3> HIDE DEF x
    <3> QED
      BY <2>1, <3>1, <3>2
  <2> QED
    BY <2>2, <2>3, <2>4
<1>3. call'[q] = x /\ UNCHANGED <<pool, sess, refl, stamp, user, wiped>>
  BY <1>1, <1>2, CallUpdate DEF Timeout, Esc, EscAgain, SubInv
<1>4. CalmGood(q)'
  BY <1>2, <1>3 DEF CalmGood
<1>5. Good(q)'
  BY <1>1, <1>2, <1>3, <1>4, OwnQuiet DEF Active
<1> QED
  BY <1>2, <1>3, <1>5, QuietStep DEF SubInv, TypeOK

\* A child that never had a session ends, and one that had to wait goes on.
LEMMA ChildQuietInv ==
    ASSUME SubagentAssumption, SubInv, NEW q \in Calls,
           BossBusy(q) \/ Refuse(q) \/ NeverStarted(q) \/ StartOn(q)
    PROVE  SubInv'
<1>1. call \in [Calls -> CallState] /\ call[q] \in CallState /\ Good(q)
      /\ UNCHANGED <<pool, sess, refl, stamp, user, wiped>>
  BY DEF SubInv, TypeOK, BossBusy, Refuse, NeverStarted, StartOn
<1>2. PICK x \in CallState :
        /\ call' = [call EXCEPT ![q] = x]
        /\ x.run = call[q].run /\ x.slot = call[q].slot
        /\ x.cut = call[q].cut /\ x.waits = call[q].waits /\ x.twice = call[q].twice
        /\ \/ call[q].child = "acquire" /\ x.child = "over" /\ ~x.hit
              /\ (x.raised => call[q].raised \/ call[q].hit)
           \/ call[q].child = "starting" /\ x.child = "turn" /\ x.hit = call[q].hit
              /\ x.raised = call[q].raised
  <2>1. ASSUME NEW r \in {"busy", "error", "failed"}, Ends(q, r), call[q].child = "acquire",
               ~call[q].hit
        PROVE  \E x \in CallState :
        /\ call' = [call EXCEPT ![q] = x]
        /\ x.run = call[q].run /\ x.slot = call[q].slot
        /\ x.cut = call[q].cut /\ x.waits = call[q].waits /\ x.twice = call[q].twice
        /\ x.child = "over" /\ ~x.hit /\ x.raised = call[q].raised
    <3> DEFINE x == [call[q] EXCEPT !.child = "over", !.hit = FALSE, !.result = r]
    <3>1. call' = [call EXCEPT ![q] = x]
      BY <1>1, <2>1 DEF Ends
    <3>2. /\ x \in CallState
          /\ x.run = call[q].run /\ x.slot = call[q].slot
          /\ x.cut = call[q].cut /\ x.waits = call[q].waits /\ x.twice = call[q].twice
          /\ x.child = "over" /\ ~x.hit /\ x.raised = call[q].raised
      BY <1>1 DEF CallState
    <3> HIDE DEF x
    <3> QED
      BY <3>1, <3>2
  <2>2. CASE BossBusy(q)
    <3>1. Ends(q, "busy") /\ call[q].child = "acquire" /\ ~call[q].hit
      BY <2>2 DEF BossBusy
    <3> QED
      BY <2>1, <3>1
  <2>3. CASE Refuse(q)
    <3>1. /\ Ends(q, "error") \/ Ends(q, "failed")
          /\ call[q].child = "acquire" /\ ~call[q].hit
      BY <2>3 DEF Refuse
    <3> QED
      BY <2>1, <3>1
  <2>4. CASE NeverStarted(q)
    <3> DEFINE x == [call[q] EXCEPT !.child = "over", !.hit = FALSE, !.raised = TRUE]
    <3>1. call' = [call EXCEPT ![q] = x] /\ call[q].child = "acquire" /\ call[q].hit
      BY <1>1, <2>4 DEF NeverStarted
    <3>2. /\ x \in CallState
          /\ x.run = call[q].run /\ x.slot = call[q].slot
          /\ x.cut = call[q].cut /\ x.waits = call[q].waits /\ x.twice = call[q].twice
          /\ x.child = "over" /\ ~x.hit /\ x.raised = TRUE
      BY <1>1 DEF CallState
    <3> HIDE DEF x
    <3> QED
      BY <3>1, <3>2
  <2>5. CASE StartOn(q)
    <3> DEFINE x == [call[q] EXCEPT !.child = "turn"]
    <3>1. call' = [call EXCEPT ![q] = x] /\ call[q].child = "starting"
      BY <1>1, <2>5 DEF StartOn
    <3>2. x \in CallState
      BY <1>1 DEF CallState, Running
    <3>3. /\ x.run = call[q].run /\ x.slot = call[q].slot
          /\ x.cut = call[q].cut /\ x.waits = call[q].waits /\ x.twice = call[q].twice
          /\ x.child = "turn" /\ x.hit = call[q].hit /\ x.raised = call[q].raised
      BY <1>1 DEF CallState
    <3> HIDE DEF x
    <3> QED
      BY <3>1, <3>2, <3>3
  <2> QED
    BY <2>2, <2>3, <2>4, <2>5
<1>3. call'[q] = x
  BY <1>1, <1>2, CallUpdate DEF SubInv
<1>4. call[q].run \in Active
  BY <1>1, <1>2 DEF Good, PlaceGood, Running
<1>5. call[q].child = "acquire" => call[q].slot = None /\ call[q].slot # Boss
  BY <1>1, Kinds DEF Good, PlaceGood
<1>6. CalmGood(q)'
  BY <1>1, <1>2, <1>3, <1>5 DEF Good, CalmGood
<1>7. Good(q)'
  BY <1>1, <1>2, <1>3, <1>4, <1>5, <1>6, OwnQuiet DEF Active
<1>8. CASE call[q].child = "acquire"
  <2>1. x.child \in Running <=> call[q].child \in Running
    BY <1>2, <1>8 DEF Running
  <2> QED
    BY <1>1, <1>2, <1>7, <2>1, QuietStep DEF SubInv, TypeOK
<1>9. CASE call[q].child = "starting"
  <2>1. x.child \in Running <=> call[q].child \in Running
    BY <1>2, <1>9 DEF Running
  <2> QED
    BY <1>1, <1>2, <1>7, <2>1, QuietStep DEF SubInv, TypeOK
<1> QED
  BY <1>2, <1>8, <1>9

\* The runner has seen its child end (_unconsume_the_window).
LEMMA SettledInv ==
    ASSUME SubagentAssumption, SubInv, NEW q \in Calls, Settled(q)
    PROVE  SubInv'
<1> DEFINE r == IF call[q].why = "timeout" /\ ~call[q].twice THEN "error" ELSE "cancelled"
           x == [call[q] EXCEPT !.run = "done", !.why = "none", !.result = r]
<1>1. call \in [Calls -> CallState] /\ call[q] \in CallState /\ Good(q)
      /\ call[q].run = "settling" /\ call[q].child = "over"
      /\ UNCHANGED <<pool, sess, refl, user, wiped>>
  BY DEF SubInv, TypeOK, Settled
<1>2. call' = [call EXCEPT ![q] = x] /\ r \in {"error", "cancelled"}
  BY <1>1 DEF Settled
<1>3. /\ x \in CallState /\ x.run = "done" /\ x.child = call[q].child
      /\ x.slot = call[q].slot /\ x.cut = call[q].cut /\ x.waits = call[q].waits
      /\ x.twice = call[q].twice
  <2> HIDE DEF r
  <2> QED
    BY <1>1, <1>2 DEF CallState
<1> HIDE DEF x
<1>4. call'[q] = x
  BY <1>2, <1>3, CallUpdate DEF SubInv
<1>5. /\ call'[q].run = "done" /\ call'[q].child = "over"
      /\ call'[q].slot = call[q].slot /\ call'[q].cut = call[q].cut
      /\ call'[q].waits = call[q].waits /\ call'[q].twice = call[q].twice
  BY <1>1, <1>3, <1>4
<1>6. PlaceGood(q)' /\ CalmGood(q)'
  BY <1>1, <1>5 DEF Good, PlaceGood, CalmGood, Running
<1>7. ReflGood(q)'
  <2>1. Excused(q)' <=> Excused(q)
    BY <1>1, <1>5 DEF Excused
  <2> QED
    BY <1>1, <1>5, <2>1 DEF Good, ReflGood
<1>8. stamp' = IF call[q].slot = Boss /\ ~call[q].twice THEN None ELSE stamp
  BY DEF Settled, Unconsumed
<1>9. stamp' \in BossCalls \cup {None}
  BY <1>8 DEF SubInv, TypeOK
<1>10. StampGood(q)'
  <2>1. q # None
    BY Kinds DEF Turns
  <2>2. StampGood(q)
    BY <1>1 DEF Good
  <2> QED
    BY <1>1, <1>5, <1>8, <2>1, <2>2 DEF StampGood, Active
<1>11. ASSUME NEW p \in Calls \ {q}
       PROVE  \/ stamp' = stamp
              \/ stamp' # p /\ ~(call[p].slot = Boss /\ call[p].run \in Active)
  <2>1. CASE call[q].slot = Boss /\ ~call[q].twice
    <3>1. Good(p) /\ Good(q) /\ q \in BossCalls
      <4>1. q \notin Delegations
        BY <1>1, <2>1, Kinds DEF Good, PlaceGood
      <4> QED
        BY <4>1, Kinds DEF SubInv
    <3>2. stamp = q
      BY <1>1, <2>1, <3>1 DEF Good, StampGood, Active
    <3>3. ~(call[p].slot = Boss /\ call[p].run \in Active)
      <4>1. CASE p \in BossCalls
        BY <3>1, <3>2, <4>1 DEF Good, StampGood
      <4>2. CASE p \notin BossCalls
        BY <3>1, <4>2, Kinds DEF Good, PlaceGood
      <4> QED
        BY <4>1, <4>2
    <3>4. p # None
      BY Kinds DEF Turns
    <3> QED
      BY <1>8, <2>1, <3>3, <3>4
  <2>2. CASE ~(call[q].slot = Boss /\ ~call[q].twice)
    BY <1>8, <2>2
  <2> QED
    BY <2>1, <2>2
<1>12. Good(q)'
  BY <1>6, <1>7, <1>10 DEF Good
<1> QED
  BY <1>1, <1>2, <1>3, <1>9, <1>11, <1>12, QuietStep

-----------------------------------------------------------------------------
(* Steps that open a session.                                              *)

LEMMA StartFacts ==
    ASSUME SubagentAssumption, TypeOK, NEW q \in Calls, NEW s \in Children, Start(q, s)
    PROVE  /\ sess' \in [Children -> SessState]
           /\ \A t \in Children : sess'[t].task = sess[t].task
           /\ \E x \in CallState :
                /\ call' = [call EXCEPT ![q] = x]
                /\ x.child \in {"starting", "turn"} /\ x.slot = s
                /\ x.run = call[q].run /\ x.hit = call[q].hit
                /\ x.raised = call[q].raised
<1>1. /\ sess \in [Children -> SessState] /\ call \in [Calls -> CallState]
      /\ call[q] \in CallState /\ sess[s] \in SessState /\ q \in Turns
  BY Kinds DEF TypeOK
<1> DEFINE y == [sess[s] EXCEPT !.busy = TRUE, !.event = q]
<1>2. sess' = [sess EXCEPT ![s] = y]
  BY <1>1 DEF Start
<1>3. y \in SessState /\ y.task = sess[s].task
  BY <1>1 DEF SessState
<1> HIDE DEF y
<1>4. sess' \in [Children -> SessState] /\ \A t \in Children : sess'[t].task = sess[t].task
  BY <1>1, <1>2, <1>3
<1>5. PICK place \in {"starting", "turn"} :
        call' = [call EXCEPT ![q].child = place, ![q].slot = s]
  BY DEF Start
<1> DEFINE x == [call[q] EXCEPT !.child = place, !.slot = s]
<1>6. call' = [call EXCEPT ![q] = x]
  BY <1>1, <1>5
<1>7. /\ x.child \in {"starting", "turn"} /\ x.slot = s
      /\ x.run = call[q].run /\ x.hit = call[q].hit /\ x.raised = call[q].raised
  BY <1>1 DEF CallState
<1>8. x \in CallState
  BY <1>1 DEF CallState, Running
<1> HIDE DEF x
<1> QED
  BY <1>4, <1>6, <1>7, <1>8

\* What is at work in a free slot is there for a reason.
LEMMA WorkExcused ==
    ASSUME SubagentAssumption, SubInv, NEW s \in Slots \ pool.busy,
           NEW p \in Delegations, p \in AtWork(s)
    PROVE  /\ call[p].child = "over" /\ call[p].slot # None
           /\ call[p].cut \/ Excused(p)
<1>1. p \in Calls /\ p \notin ClientTurns /\ Good(p) /\ call[p] \in CallState
  BY DEF SubInv, Calls, SubagentAssumption, TypeOK
<1>2. /\ call[p].slot = s
      /\ call[p].child \in Running \/ refl[p] = "running"
  BY <1>1 DEF AtWork
<1>3. call[p].child \notin Running
  BY <1>2 DEF SubInv, SlotsHeld
<1>4. call[p].child \notin {"none", "acquire", "starting", "turn", "ending"}
  BY <1>1, <1>2, <1>3 DEF Good, ReflGood
<1>5. call[p].child = "over"
  BY <1>1, <1>3, <1>4 DEF CallState, Running
<1> QED
  BY <1>1, <1>2, <1>3, <1>5 DEF Good, ReflGood

LEMMA TakeSlotInv ==
    ASSUME SubagentAssumption, SubInv, NEW q \in Calls, TakeSlot(q)
    PROVE  SubInv'
<1> DEFINE s == FirstFree(pool.busy)
<1>1. /\ call \in [Calls -> CallState] /\ call[q] \in CallState /\ Good(q)
      /\ q \in Delegations /\ call[q].child = "acquire" /\ ~call[q].hit
      /\ UNCHANGED <<refl, stamp, user>>
  BY DEF SubInv, TypeOK, TakeSlot, MayTake
<1>2. /\ s \in Slots \ pool.busy
      /\ pool' = [pool EXCEPT !.busy = @ \cup {s}]
      /\ wiped' = wiped \cup AtWork(s) /\ Start(q, s)
  BY FirstFreeIsFree DEF TakeSlot, MayTake
<1> HIDE DEF s
<1>3. s \in Children /\ s # None /\ s # Boss
  BY <1>2, Kinds
<1>4. PICK x \in CallState :
        /\ call' = [call EXCEPT ![q] = x]
        /\ x.child \in {"starting", "turn"} /\ x.slot = s
        /\ x.run = call[q].run /\ x.hit = call[q].hit /\ x.raised = call[q].raised
  BY <1>2, <1>3, StartFacts DEF SubInv
<1>5. /\ sess' \in [Children -> SessState]
      /\ \A t \in Children : sess'[t].task = sess[t].task
  BY <1>2, <1>3, StartFacts DEF SubInv
<1>6. call'[q] = x /\ \A p \in Calls \ {q} : call'[p] = call[p]
  BY <1>4, CallUpdate DEF SubInv
<1>7. /\ pool' \in PoolState /\ pool'.busy = pool.busy \cup {s}
      /\ pool'.order = pool.order
  BY <1>2 DEF SubInv, TypeOK, PoolState
<1>8. Ordered'
  BY <1>7 DEF SubInv, Ordered
<1>9. SlotsHeld'
  <2>1. call[q].child \notin Running /\ call'[q].child \in Running /\ call'[q].slot = s
    BY <1>1, <1>4, <1>6 DEF Running
  <2> QED
    BY <1>1, <1>2, <1>6, <1>7, <2>1, HeldTaken
<1>10. ASSUME NEW p \in Delegations, p \in AtWork(s)
       PROVE  p # q /\ call[p].slot # None /\ (call[p].cut \/ Excused(p))
  <2>1. /\ call[p].child = "over" /\ call[p].slot # None
        /\ call[p].cut \/ Excused(p)
    BY <1>2, <1>10, WorkExcused
  <2> QED
    BY <1>1, <2>1
<1>11. q \notin wiped'
  <2>1. call[q].slot = None
    BY <1>1 DEF Good, PlaceGood
  <2> QED
    BY <1>1, <1>2, <1>10, <2>1 DEF Good, ReflGood
<1>12. wiped' \subseteq Turns
  <2>1. AtWork(s) \subseteq Turns
    BY DEF AtWork, Turns
  <2> QED
    BY <1>2, <2>1 DEF SubInv, TypeOK
<1>13. Good(q)'
  <2>1. /\ call'[q].child \in {"starting", "turn"} /\ call'[q].slot = s
        /\ call'[q].run = call[q].run /\ call'[q].hit = call[q].hit
        /\ call'[q].raised = call[q].raised
    BY <1>4, <1>6
  <2>2. PlaceGood(q) /\ CalmGood(q) /\ ReflGood(q) /\ q \notin BossCalls
        /\ call[q].run \in Active
    BY <1>1, Kinds DEF Good, PlaceGood
  <2>3. PlaceGood(q)'
    BY <1>2, <1>3, <2>1, <2>2 DEF PlaceGood, Active
  <2>4. CalmGood(q)'
    BY <2>1, <2>2 DEF CalmGood
  <2>5. ReflGood(q)'
    BY <1>1, <1>11, <2>1, <2>2 DEF ReflGood
  <2>6. StampGood(q)'
    BY <2>2 DEF StampGood
  <2> QED
    BY <2>3, <2>4, <2>5, <2>6 DEF Good
<1>14. \A p \in Delegations \ {q} :
          call[p].child = "leaving" =>
            sess'[call[p].slot].task = sess[call[p].slot].task
  <2>1. \A p \in Delegations : call[p].child = "leaving" => call[p].slot \in Slots
    BY DEF SubInv, Good, PlaceGood, Running, Calls
  <2> QED
    BY <1>5, <2>1, Kinds
<1>15. \A p \in Delegations \ {q} :
          p \in wiped' =>
            p \in wiped \/ (call[p].slot # None /\ (call[p].cut \/ Excused(p)))
  BY <1>2, <1>10
<1> QED
  BY <1>1, <1>4, <1>5, <1>7, <1>8, <1>9, <1>12, <1>13, <1>14, <1>15, CallStep
     DEF SubInv, TypeOK

LEMMA AskBossInv ==
    ASSUME SubagentAssumption, SubInv, NEW q \in Calls, AskBoss(q)
    PROVE  SubInv'
<1>1. /\ call \in [Calls -> CallState] /\ call[q] \in CallState /\ Good(q)
      /\ q \in BossCalls /\ q \notin Delegations /\ call[q].child = "acquire"
      /\ ~call[q].hit /\ stamp = None /\ stamp' = q /\ Start(q, Boss)
      /\ UNCHANGED <<pool, refl, user, wiped>>
  BY Kinds DEF SubInv, TypeOK, AskBoss, MayAsk
<1>2. PICK x \in CallState :
        /\ call' = [call EXCEPT ![q] = x]
        /\ x.child \in {"starting", "turn"} /\ x.slot = Boss
        /\ x.run = call[q].run /\ x.hit = call[q].hit /\ x.raised = call[q].raised
  BY <1>1, StartFacts, Kinds DEF SubInv
<1>3. /\ sess' \in [Children -> SessState]
      /\ \A t \in Children : sess'[t].task = sess[t].task
  BY <1>1, StartFacts, Kinds DEF SubInv
<1>4. call'[q] = x /\ \A p \in Calls \ {q} : call'[p] = call[p]
  BY <1>2, CallUpdate DEF SubInv
<1>5. pool' \in PoolState /\ Ordered'
  BY <1>1 DEF SubInv, TypeOK, Ordered
<1>6. SlotsHeld'
  <2>1. \A d \in Delegations : call'[d] = call[d]
    BY <1>1, <1>4 DEF Calls
  <2> QED
    BY <1>1, <2>1, HeldSame DEF SubInv
<1>7. Good(q)'
  <2>1. /\ call'[q].child \in {"starting", "turn"} /\ call'[q].slot = Boss
        /\ call'[q].run = call[q].run /\ call'[q].hit = call[q].hit
        /\ call'[q].raised = call[q].raised
    BY <1>2, <1>4
  <2>2. PlaceGood(q) /\ CalmGood(q) /\ ReflGood(q) /\ call[q].run \in Active
    BY <1>1 DEF Good, PlaceGood
  <2>3. Boss # None
    BY Kinds
  <2>4. PlaceGood(q)'
    BY <1>1, <2>1, <2>2, <2>3 DEF PlaceGood, Active
  <2>5. CalmGood(q)'
    BY <2>1, <2>2 DEF CalmGood
  <2>6. ReflGood(q)'
    BY <1>1, <2>1, <2>2 DEF ReflGood
  <2>7. StampGood(q)'
    BY <1>1, <2>1, <2>2 DEF StampGood, Active
  <2> QED
    BY <2>4, <2>5, <2>6, <2>7 DEF Good
<1>8. \A p \in Delegations \ {q} :
          call[p].child = "leaving" =>
            sess'[call[p].slot].task = sess[call[p].slot].task
  <2>1. \A p \in Delegations : call[p].child = "leaving" => call[p].slot \in Slots
    BY DEF SubInv, Good, PlaceGood, Running, Calls
  <2> QED
    BY <1>3, <2>1, Kinds
<1>9. ASSUME NEW p \in Calls \ {q}
      PROVE  stamp' # p /\ ~(call[p].slot = Boss /\ call[p].run \in Active)
  <2>1. Good(p) /\ p # None
    BY Kinds DEF SubInv, Turns
  <2>2. CASE p \in BossCalls
    BY <1>1, <2>1, <2>2 DEF Good, StampGood
  <2>3. CASE p \notin BossCalls
    BY <1>1, <2>1, <2>3, Kinds DEF Good, PlaceGood
  <2> QED
    BY <2>2, <2>3
<1>10. /\ refl' \in [Turns -> {"none", "running", "done"}] /\ wiped' \subseteq Turns
       /\ stamp' \in BossCalls \cup {None}
  BY <1>1 DEF SubInv, TypeOK
<1> QED
  BY <1>1, <1>2, <1>3, <1>5, <1>6, <1>7, <1>8, <1>9, <1>10, CallStep

\* The child fails before its turn begins.
LEMMA FailsFacts ==
    ASSUME TypeOK, NEW q \in Calls, NEW s \in Children, Fails(q, s)
    PROVE  \E x \in CallState :
             /\ call' = [call EXCEPT ![q] = x]
             /\ x.child = "over" /\ x.slot = s /\ x.result = "failed"
             /\ x.run = call[q].run /\ x.hit = call[q].hit
             /\ x.raised = call[q].raised
<1>1. call \in [Calls -> CallState] /\ call[q] \in CallState
  BY DEF TypeOK
<1> DEFINE x == [call[q] EXCEPT !.child = "over", !.slot = s, !.result = "failed"]
<1>2. call' = [call EXCEPT ![q] = x]
  BY <1>1 DEF Fails
<1>3. x \in CallState
  BY <1>1 DEF CallState
<1>4. /\ x.child = "over" /\ x.slot = s /\ x.result = "failed"
      /\ x.run = call[q].run /\ x.hit = call[q].hit /\ x.raised = call[q].raised
  BY <1>1 DEF CallState
<1> HIDE DEF x
<1> QED
  BY <1>2, <1>3, <1>4

LEMMA TakeSlotFailsInv ==
    ASSUME SubagentAssumption, SubInv, NEW q \in Calls, TakeSlotFails(q)
    PROVE  SubInv'
<1> DEFINE s == FirstFree(pool.busy)
<1>1. /\ call \in [Calls -> CallState] /\ Good(q) /\ pool \in PoolState /\ Ordered
      /\ q \in Delegations /\ call[q].child = "acquire" /\ ~call[q].hit
      /\ UNCHANGED <<sess, refl, stamp, user>>
  BY DEF SubInv, TypeOK, TakeSlotFails, MayTake
<1>2. /\ s \in Slots \ pool.busy
      /\ pool' = [pool EXCEPT !.order = Closed(s)]
      /\ wiped' \in {wiped, wiped \cup AtWork(s)} /\ Fails(q, s)
  BY FirstFreeIsFree DEF TakeSlotFails, MayTake
<1> HIDE DEF s
<1>3. s \in Children /\ s # None /\ s # Boss
  BY <1>2, Kinds
<1>4. PICK x \in CallState :
        /\ call' = [call EXCEPT ![q] = x]
        /\ x.child = "over" /\ x.slot = s /\ x.result = "failed"
        /\ x.run = call[q].run /\ x.hit = call[q].hit /\ x.raised = call[q].raised
  BY <1>2, <1>3, FailsFacts DEF SubInv
<1>5. call'[q] = x /\ \A p \in Calls \ {q} : call'[p] = call[p]
  BY <1>4, CallUpdate DEF SubInv
<1>6. /\ Closed(s) \in [1..NSlots -> Slots]
      /\ \A t \in Slots : \E i \in 1..NSlots : Closed(s)[i] = t
  <2>1. s \in Slots /\ TypeOK
    BY <1>2 DEF SubInv
  <2> QED
    BY <1>1, <2>1, ClosedOrders
<1>7. /\ pool' \in PoolState /\ pool'.busy = pool.busy /\ pool'.order = Closed(s)
  BY <1>1, <1>2, <1>6 DEF PoolState
<1>8. Ordered'
  BY <1>6, <1>7 DEF Ordered
<1>9. SlotsHeld'
  <2>1. call[q].child \notin Running /\ call'[q].child \notin Running
    BY <1>1, <1>4, <1>5 DEF Running
  <2>2. \A d \in Delegations \ {q} : call'[d] = call[d]
    BY <1>5 DEF Calls
  <2> QED
    BY <1>7, <2>1, <2>2, HeldSame DEF SubInv
<1>10. ASSUME NEW p \in Delegations, p \in wiped'
       PROVE  p \in wiped \/ (p # q /\ call[p].slot # None /\ (call[p].cut \/ Excused(p)))
  <2>1. CASE p \in AtWork(s)
    <3>1. /\ call[p].child = "over" /\ call[p].slot # None
          /\ call[p].cut \/ Excused(p)
      BY <1>2, <2>1, WorkExcused
    <3> QED
      BY <1>1, <3>1
  <2> QED
    BY <1>2, <1>10, <2>1
<1>11. q \notin wiped'
  <2>1. call[q].slot = None
    BY <1>1 DEF Good, PlaceGood
  <2> QED
    BY <1>1, <1>10, <2>1 DEF Good, ReflGood
<1>12. wiped' \subseteq Turns
  <2>1. AtWork(s) \subseteq Turns
    BY DEF AtWork, Turns
  <2> QED
    BY <1>2, <2>1 DEF SubInv, TypeOK
<1>13. Good(q)'
  <2>1. /\ call'[q].child = "over" /\ call'[q].slot = s
        /\ call'[q].run = call[q].run /\ call'[q].hit = call[q].hit
        /\ call'[q].raised = call[q].raised
    BY <1>4, <1>5
  <2>2. PlaceGood(q) /\ CalmGood(q) /\ ReflGood(q) /\ q \notin BossCalls
        /\ call[q].run \in Active
    BY <1>1, Kinds DEF Good, PlaceGood
  <2>3. PlaceGood(q)'
    BY <1>2, <1>3, <2>1, <2>2 DEF PlaceGood, Active, Running
  <2>4. CalmGood(q)'
    BY <1>3, <2>1, <2>2 DEF CalmGood
  <2>5. ReflGood(q)'
    BY <1>1, <1>11, <2>1, <2>2 DEF ReflGood
  <2>6. StampGood(q)'
    BY <2>2 DEF StampGood
  <2> QED
    BY <2>3, <2>4, <2>5, <2>6 DEF Good
<1>14. /\ refl' \in [Turns -> {"none", "running", "done"}]
       /\ sess' \in [Children -> SessState] /\ stamp' \in BossCalls \cup {None}
  BY <1>1 DEF SubInv, TypeOK
<1>15. \A p \in Delegations \ {q} :
          p \in wiped' =>
            p \in wiped \/ (call[p].slot # None /\ (call[p].cut \/ Excused(p)))
  BY <1>10
<1> QED
  BY <1>1, <1>4, <1>7, <1>8, <1>9, <1>12, <1>13, <1>14, <1>15, CallStep

LEMMA AskBossFailsInv ==
    ASSUME SubagentAssumption, SubInv, NEW q \in Calls, AskBossFails(q)
    PROVE  SubInv'
<1>1. /\ call \in [Calls -> CallState] /\ Good(q)
      /\ q \in BossCalls /\ q \notin Delegations /\ call[q].child = "acquire"
      /\ ~call[q].hit /\ stamp = None /\ stamp' = q /\ Fails(q, Boss)
      /\ UNCHANGED <<pool, sess, refl, user, wiped>>
  BY Kinds DEF SubInv, TypeOK, AskBossFails, MayAsk
<1>2. PICK x \in CallState :
        /\ call' = [call EXCEPT ![q] = x]
        /\ x.child = "over" /\ x.slot = Boss /\ x.result = "failed"
        /\ x.run = call[q].run /\ x.hit = call[q].hit /\ x.raised = call[q].raised
  BY <1>1, FailsFacts, Kinds DEF SubInv
<1>3. call'[q] = x /\ \A p \in Calls \ {q} : call'[p] = call[p]
  BY <1>2, CallUpdate DEF SubInv
<1>4. pool' \in PoolState /\ Ordered'
  BY <1>1 DEF SubInv, TypeOK, Ordered
<1>5. SlotsHeld'
  <2>1. \A d \in Delegations : call'[d] = call[d]
    BY <1>1, <1>3 DEF Calls
  <2> QED
    BY <1>1, <2>1, HeldSame DEF SubInv
<1>6. Good(q)'
  <2>1. /\ call'[q].child = "over" /\ call'[q].slot = Boss
        /\ call'[q].result = "failed"
        /\ call'[q].run = call[q].run /\ call'[q].hit = call[q].hit
        /\ call'[q].raised = call[q].raised
    BY <1>2, <1>3
  <2>2. PlaceGood(q) /\ CalmGood(q) /\ ReflGood(q) /\ call[q].run \in Active
    BY <1>1 DEF Good, PlaceGood
  <2>3. PlaceGood(q)'
    BY <1>1, <2>1, <2>2 DEF PlaceGood, Active, Running
  <2>4. CalmGood(q)'
    BY <2>1, <2>2 DEF CalmGood
  <2>5. ReflGood(q)'
    BY <1>1, <2>1, <2>2 DEF ReflGood
  <2>6. StampGood(q)'
    BY <1>1, <2>1, <2>2 DEF StampGood, Active
  <2> QED
    BY <2>3, <2>4, <2>5, <2>6 DEF Good
<1>7. ASSUME NEW p \in Calls \ {q}
      PROVE  stamp' # p /\ ~(call[p].slot = Boss /\ call[p].run \in Active)
  <2>1. Good(p) /\ p # None
    BY Kinds DEF SubInv, Turns
  <2>2. CASE p \in BossCalls
    BY <1>1, <2>1, <2>2 DEF Good, StampGood
  <2>3. CASE p \notin BossCalls
    BY <1>1, <2>1, <2>3, Kinds DEF Good, PlaceGood
  <2> QED
    BY <2>2, <2>3
<1>8. /\ refl' \in [Turns -> {"none", "running", "done"}] /\ wiped' \subseteq Turns
      /\ stamp' \in BossCalls \cup {None} /\ sess' \in [Children -> SessState]
  BY <1>1 DEF SubInv, TypeOK
<1> QED
  BY <1>1, <1>2, <1>4, <1>5, <1>6, <1>7, <1>8, CallStep

-----------------------------------------------------------------------------
(* Steps that end a turn in a session.                                     *)

\* What the last steps of a child may change.
Ending(q, x) ==
    /\ call[q].child \in Running
    /\ call' = [call EXCEPT ![q] = x]
    /\ x.slot = call[q].slot /\ x.run = call[q].run
    /\ (call[q].cut => x.cut)
    /\ (call[q].run = "waiting" => ~x.hit /\ ~x.raised)
    /\ UNCHANGED <<stamp, user, wiped>>
    /\ refl' \in [Turns -> {"none", "running", "done"}]
    /\ \A p \in Calls \ {q} : refl'[p] = refl[p]
    /\ sess' \in [Children -> SessState]
    /\ \A t \in Children \ {call[q].slot} : sess'[t] = sess[t]

LEMMA EndingFacts ==
    ASSUME SubagentAssumption, SubInv, NEW q \in Calls, NEW x \in CallState, Ending(q, x)
    PROVE  /\ call'[q] = x /\ \A p \in Calls \ {q} : call'[p] = call[p]
           /\ \A p \in Delegations \ {q} :
                call[p].child = "leaving" =>
                  sess'[call[p].slot].task = sess[call[p].slot].task
           /\ call[q].run \in Active /\ call[q].slot # None
           /\ (Excused(q)' <=> Excused(q))
           /\ StampGood(q)'
           /\ stamp' \in BossCalls \cup {None} /\ wiped' \subseteq Turns
<1>1. call'[q] = x /\ \A p \in Calls \ {q} : call'[p] = call[p]
  BY CallUpdate DEF SubInv, Ending
<1>2. PlaceGood(q) /\ StampGood(q) /\ call[q].child \in Running
  BY DEF SubInv, Good, Ending
<1>3. ASSUME NEW p \in Delegations \ {q}, call[p].child = "leaving"
      PROVE  sess'[call[p].slot].task = sess[call[p].slot].task
  <2>1. call[p].child \in Running
    BY <1>3 DEF Running
  <2>2. call[p].slot \in Slots
    BY <2>1, Kinds DEF SubInv, Good, PlaceGood, Calls
  <2>3. call[p].slot # call[q].slot
    BY <1>2, <2>1, OwnSlot
  <2> QED
    BY <2>2, <2>3, Kinds DEF Ending
<1>4. call[q].run \in Active /\ call[q].slot # None
  BY <1>2 DEF PlaceGood
<1>5. x.slot = call[q].slot /\ x.run = call[q].run /\ UNCHANGED <<stamp, user, wiped>>
  BY DEF Ending
<1>6. Excused(q)' <=> Excused(q)
  BY <1>1, <1>5 DEF Excused
<1>7. StampGood(q)'
  BY <1>1, <1>2, <1>4, <1>5 DEF StampGood, Active
<1>8. stamp' \in BossCalls \cup {None} /\ wiped' \subseteq Turns
  BY <1>5 DEF SubInv, TypeOK
<1> QED
  BY <1>1, <1>3, <1>4, <1>6, <1>7, <1>8

\* The child waits for its terminal frame, its turn_end, or the reflection.
LEMMA StaysInv ==
    ASSUME SubagentAssumption, SubInv, NEW q \in Calls, NEW x \in CallState, Ending(q, x),
           UNCHANGED pool, x.child \in {"ending", "leaving", "reflect"},
           x.child = "ending" => refl'[q] = "none",
           q \in Delegations /\ refl'[q] = "running" =>
             /\ x.child = "leaving" => sess'[x.slot].task = q \/ Excused(q)
             /\ x.child = "reflect" => x.waits = q \/ Excused(q)
    PROVE  SubInv'
<1>1. /\ call'[q] = x /\ \A p \in Calls \ {q} : call'[p] = call[p]
      /\ \A p \in Delegations \ {q} :
           call[p].child = "leaving" =>
             sess'[call[p].slot].task = sess[call[p].slot].task
      /\ call[q].run \in Active /\ call[q].slot # None
      /\ (Excused(q)' <=> Excused(q)) /\ StampGood(q)'
      /\ stamp' \in BossCalls \cup {None} /\ wiped' \subseteq Turns
  BY EndingFacts
<1>2. /\ x.slot = call[q].slot /\ x.run = call[q].run /\ (call[q].cut => x.cut)
      /\ (call[q].run = "waiting" => ~x.hit /\ ~x.raised)
      /\ call[q].child \in Running /\ UNCHANGED <<stamp, user, wiped>>
      /\ call' = [call EXCEPT ![q] = x]
      /\ refl' \in [Turns -> {"none", "running", "done"}]
      /\ \A p \in Calls \ {q} : refl'[p] = refl[p]
      /\ sess' \in [Children -> SessState]
  BY DEF Ending
<1>3. Good(q)'
  <2>1. PlaceGood(q) /\ ReflGood(q)
    BY DEF SubInv, Good
  <2>2. PlaceGood(q)'
    BY <1>1, <1>2, <2>1 DEF PlaceGood, Running, Active
  <2>3. CalmGood(q)'
    BY <1>1, <1>2 DEF CalmGood
  <2>4. q \in Delegations /\ q \in wiped =>
          call'[q].slot # None /\ (call'[q].cut \/ Excused(q)')
    BY <1>1, <1>2, <2>1 DEF ReflGood
  <2>5. ReflGood(q)'
    BY <1>1, <1>2, <2>4 DEF ReflGood
  <2> QED
    BY <1>1, <2>2, <2>3, <2>5 DEF Good
<1>4. SlotsHeld'
  <2>1. \A d \in Delegations :
              /\ call'[d].child \in Running <=> call[d].child \in Running
              /\ call[d].child \in Running => call'[d].slot = call[d].slot
    BY <1>1, <1>2 DEF Running, Calls
  <2> QED
    BY <2>1, HeldSame DEF SubInv
<1>5. Ordered' /\ pool' \in PoolState
  BY DEF SubInv, Ordered, TypeOK
<1> QED
  BY <1>1, <1>2, <1>3, <1>4, <1>5, CallStep

\* The child ends.
LEMMA EndsInv ==
    ASSUME SubagentAssumption, SubInv, NEW q \in Calls, NEW x \in CallState, Ending(q, x),
           Release(q), x.child = "over",
           x.run = "waiting" => x.result \in {"text", "failed"},
           q \in Delegations /\ refl'[q] = "running" => x.cut \/ Excused(q)
    PROVE  SubInv'
<1>1. /\ call'[q] = x /\ \A p \in Calls \ {q} : call'[p] = call[p]
      /\ \A p \in Delegations \ {q} :
           call[p].child = "leaving" =>
             sess'[call[p].slot].task = sess[call[p].slot].task
      /\ call[q].run \in Active /\ call[q].slot # None
      /\ (Excused(q)' <=> Excused(q)) /\ StampGood(q)'
      /\ stamp' \in BossCalls \cup {None} /\ wiped' \subseteq Turns
  BY EndingFacts
<1>2. /\ x.slot = call[q].slot /\ x.run = call[q].run /\ (call[q].cut => x.cut)
      /\ (call[q].run = "waiting" => ~x.hit /\ ~x.raised)
      /\ call[q].child \in Running /\ UNCHANGED <<stamp, user, wiped>>
      /\ call' = [call EXCEPT ![q] = x]
      /\ refl' \in [Turns -> {"none", "running", "done"}]
      /\ \A p \in Calls \ {q} : refl'[p] = refl[p]
      /\ sess' \in [Children -> SessState]
  BY DEF Ending
<1>3. Good(q)'
  <2>1. PlaceGood(q) /\ ReflGood(q)
    BY DEF SubInv, Good
  <2>2. PlaceGood(q)'
    BY <1>1, <1>2, <2>1 DEF PlaceGood, Running, Active
  <2>3. CalmGood(q)'
    BY <1>1, <1>2 DEF CalmGood
  <2>4. q \in Delegations /\ q \in wiped =>
          call'[q].slot # None /\ (call'[q].cut \/ Excused(q)')
    BY <1>1, <1>2, <2>1 DEF ReflGood
  <2>5. ReflGood(q)'
    BY <1>1, <1>2, <2>4 DEF ReflGood
  <2> QED
    BY <1>1, <2>2, <2>3, <2>5 DEF Good
<1>4. SlotsHeld' /\ Ordered' /\ pool' \in PoolState
  BY <1>1, <1>2, HeldReleased
<1> QED
  BY <1>1, <1>2, <1>3, <1>4, CallStep

\* The child's finally, from any of the places it is reached from.
LEMMA CloseInv ==
    ASSUME SubagentAssumption, SubInv, NEW q \in Calls, call[q].child \in Running,
           NEW table \in Turns \cup {None}, NEW raised \in BOOLEAN,
           Close(q, call[q].slot, table, raised),
           call[q].run = "waiting" => ~raised,
           UNCHANGED <<stamp, user, wiped>>,
           refl' \in [Turns -> {"none", "running", "done"}],
           \A p \in Calls \ {q} : refl'[p] = refl[p],
           q \in Delegations /\ refl'[q] = "running" => Excused(q)
    PROVE  SubInv'
<1>0. PICK text \in IF raised THEN {"none"} ELSE {"text", "failed"} :
        call' = [call EXCEPT ![q].child = "over", ![q].hit = FALSE,
                             ![q].waits = None, ![q].raised = raised,
                             ![q].result = text]
  BY DEF Close
<1> DEFINE x == [call[q] EXCEPT !.child = "over", !.hit = FALSE, !.waits = None,
                                !.raised = raised, !.result = text]
           y == [busy |-> FALSE, event |-> None, task |-> table]
<1>1. /\ call[q] \in CallState /\ call \in [Calls -> CallState]
      /\ sess \in [Children -> SessState]
      /\ text \in {"none", "text", "failed"}
      /\ (~raised => text \in {"text", "failed"})
  BY <1>0 DEF SubInv, TypeOK
<1>2. call' = [call EXCEPT ![q] = x] /\ sess' = [sess EXCEPT ![call[q].slot] = y]
      /\ Release(q)
  BY <1>0, <1>1 DEF Close
<1>3. x \in CallState /\ y \in SessState
  BY <1>1 DEF CallState, SessState
<1>4. /\ x.slot = call[q].slot /\ x.run = call[q].run /\ x.cut = call[q].cut
      /\ ~x.hit /\ x.raised = raised /\ x.child = "over" /\ x.result = text
  BY <1>1 DEF CallState
<1> HIDE DEF x, y
<1>5. /\ sess' \in [Children -> SessState]
      /\ \A t \in Children \ {call[q].slot} : sess'[t] = sess[t]
  BY <1>1, <1>2, <1>3
<1>6. Ending(q, x)
  BY <1>2, <1>4, <1>5 DEF Ending
<1> QED
  BY <1>1, <1>2, <1>3, <1>4, <1>6, EndsInv

LEMMA ReflectInv ==
    ASSUME SubagentAssumption, SubInv, NEW q \in Calls, call[q].child \in Running,
           NEW busy \in BOOLEAN, NEW event \in Turns \cup {None},
           NEW table \in Turns \cup {None}, NEW raised \in BOOLEAN,
           Reflect(q, busy, event, table, raised),
           call[q].run = "waiting" => ~raised,
           UNCHANGED <<stamp, user, wiped>>,
           refl' \in [Turns -> {"none", "running", "done"}],
           \A p \in Calls \ {q} : refl'[p] = refl[p],
           q \in Delegations /\ refl'[q] = "running" => table = q \/ Excused(q)
    PROVE  SubInv'
<1>1. CASE table = None
  <2>1. Close(q, call[q].slot, None, raised)
    BY <1>1 DEF Reflect, Pending
  <2>2. q # None
    BY Kinds
  <2> QED
    BY <1>1, <2>1, <2>2, CloseInv
<1>2. CASE table # None
  <2> DEFINE x == [call[q] EXCEPT !.child = "reflect", !.hit = FALSE, !.waits = table,
                                  !.raised = raised]
             y == [busy |-> busy, event |-> event, task |-> None]
  <2>1. /\ call[q] \in CallState /\ call \in [Calls -> CallState]
        /\ sess \in [Children -> SessState]
    BY DEF SubInv, TypeOK
  <2>2. call' = [call EXCEPT ![q] = x] /\ sess' = [sess EXCEPT ![call[q].slot] = y]
        /\ UNCHANGED pool
    BY <1>2, <2>1 DEF Reflect, Pending
  <2>3. x \in CallState
    BY <2>1 DEF CallState, Running
  <2>4. y \in SessState
    BY DEF SessState
  <2>5. /\ x.slot = call[q].slot /\ x.run = call[q].run /\ x.cut = call[q].cut
        /\ ~x.hit /\ x.raised = raised /\ x.child = "reflect" /\ x.waits = table
    BY <2>1 DEF CallState
  <2> HIDE DEF x, y
  <2>6. /\ sess' \in [Children -> SessState]
        /\ \A t \in Children \ {call[q].slot} : sess'[t] = sess[t]
    BY <2>1, <2>2, <2>4
  <2>7. Ending(q, x)
    BY <2>2, <2>5, <2>6 DEF Ending
  <2> QED
    BY <2>2, <2>3, <2>5, <2>7, StaysInv
<1> QED
  BY <1>1, <1>2

\* What is known of a call whose child runs.
LEMMA RunningFacts ==
    ASSUME SubagentAssumption, SubInv, NEW q \in Calls, call[q].child \in Running
    PROVE  /\ call[q] \in CallState /\ call[q].slot \in Children
           /\ sess[call[q].slot] \in SessState
           /\ refl \in [Turns -> {"none", "running", "done"}] /\ q \in Turns
           /\ (call[q].run = "waiting" => ~call[q].hit /\ ~call[q].raised)
           /\ PlaceGood(q) /\ ReflGood(q)
<1>1. call[q] \in CallState /\ Good(q) /\ sess \in [Children -> SessState]
      /\ refl \in [Turns -> {"none", "running", "done"}] /\ q \in Turns
  BY Kinds DEF SubInv, TypeOK
<1>2. call[q].slot \in Children
  BY <1>1 DEF CallState, Good, PlaceGood
<1> QED
  BY <1>1, <1>2 DEF Good, CalmGood

LEMMA WrapperCutInv ==
    ASSUME SubagentAssumption, SubInv, NEW q \in Calls, WrapperCut(q)
    PROVE  SubInv'
<1> DEFINE s == call[q].slot
<1>1. call[q].child \in Running /\ call[q].child \in Unreleased /\ call[q].hit
      /\ UNCHANGED <<refl, stamp, user, wiped>>
      /\ Reflect(q, sess[s].busy, sess[s].event, sess[s].task, TRUE)
  BY DEF WrapperCut, Unreleased, Running
<1>2. sess[s] \in SessState /\ refl[q] = "none" /\ q \in Turns
      /\ refl \in [Turns -> {"none", "running", "done"}]
      /\ (call[q].run = "waiting" => ~TRUE)
  BY <1>1, RunningFacts DEF ReflGood, Unreleased
<1>3. sess[s].busy \in BOOLEAN /\ sess[s].event \in Turns \cup {None}
      /\ sess[s].task \in Turns \cup {None}
  BY <1>2 DEF SessState
<1> HIDE DEF s
<1> QED
  BY <1>1, <1>2, <1>3, ReflectInv

LEMMA LeaveInv ==
    ASSUME SubagentAssumption, SubInv, NEW q \in Calls, Leave(q)
    PROVE  SubInv'
<1> DEFINE s == call[q].slot
           raised == call[q].raised \/ call[q].hit
<1>1. call[q].child \in Running /\ call[q].child = "leaving"
      /\ UNCHANGED <<refl, stamp, user, wiped>>
      /\ Reflect(q, sess[s].busy, sess[s].event, sess[s].task, raised)
  BY DEF Leave, Running
<1>2. /\ call[q] \in CallState /\ sess[s] \in SessState
      /\ refl \in [Turns -> {"none", "running", "done"}]
      /\ (call[q].run = "waiting" => ~raised)
  BY <1>1, RunningFacts
<1>3. q \in Delegations /\ refl[q] = "running" => sess[s].task = q \/ Excused(q)
  BY <1>1, RunningFacts DEF ReflGood
<1>4. sess[s].busy \in BOOLEAN /\ sess[s].event \in Turns \cup {None}
      /\ sess[s].task \in Turns \cup {None}
  BY <1>2 DEF SessState
<1>5. raised \in BOOLEAN
  BY <1>2 DEF CallState
<1> HIDE DEF s, raised
<1> QED
  BY <1>1, <1>2, <1>3, <1>4, <1>5, ReflectInv

\* The release of the session, from the two places it is reached from.
LEMMA ReleasesInv ==
    ASSUME SubagentAssumption, SubInv, NEW q \in Calls, call[q].child \in Running,
           NEW table \in Turns \cup {None}, NEW raised \in BOOLEAN,
           Releases(q, table, raised),
           call[q].run = "waiting" => ~raised,
           UNCHANGED <<stamp, user, wiped>>,
           refl' \in [Turns -> {"none", "running", "done"}],
           \A p \in Calls \ {q} : refl'[p] = refl[p],
           refl'[q] = "running" => table = q
    PROVE  SubInv'
<1> DEFINE s == call[q].slot
           event == IF sess[s].event = q THEN None ELSE sess[s].event
<1>1. call[q] \in CallState /\ sess[s] \in SessState /\ s \in Children /\ q \in Turns
  BY RunningFacts
<1>2. event \in Turns \cup {None}
  BY <1>1 DEF SessState
<1>3. \/ /\ call' = [call EXCEPT ![q].child = "leaving",
                                  ![q].hit = FALSE, ![q].raised = raised]
         /\ sess' = [sess EXCEPT ![s] = [busy |-> FALSE, event |-> event,
                                         task |-> table]]
         /\ UNCHANGED pool
      \/ Reflect(q, FALSE, event, table, raised)
  BY DEF Releases
<1> HIDE DEF s, event
<1>4. CASE /\ call' = [call EXCEPT ![q].child = "leaving",
                                   ![q].hit = FALSE, ![q].raised = raised]
           /\ sess' = [sess EXCEPT ![s] = [busy |-> FALSE, event |-> event,
                                           task |-> table]]
           /\ UNCHANGED pool
  <2> DEFINE x == [call[q] EXCEPT !.child = "leaving", !.hit = FALSE, !.raised = raised]
             y == [busy |-> FALSE, event |-> event, task |-> table]
  <2>1. call \in [Calls -> CallState] /\ sess \in [Children -> SessState]
    BY DEF SubInv, TypeOK
  <2>2. call' = [call EXCEPT ![q] = x] /\ sess' = [sess EXCEPT ![s] = y] /\ UNCHANGED pool
    BY <1>4, <2>1
  <2>3. x \in CallState
    BY <1>1 DEF CallState, Running
  <2>4. y \in SessState /\ y.task = table
    BY <1>2 DEF SessState
  <2>5. /\ x.slot = call[q].slot /\ x.run = call[q].run /\ x.cut = call[q].cut
        /\ ~x.hit /\ x.raised = raised /\ x.child = "leaving"
    BY <1>1 DEF CallState
  <2> HIDE DEF x, y
  <2>6. /\ sess' \in [Children -> SessState] /\ sess'[s].task = table
        /\ \A t \in Children \ {s} : sess'[t] = sess[t]
    BY <1>1, <2>1, <2>2, <2>4
  <2>7. Ending(q, x) /\ sess'[x.slot].task = table
    BY <2>2, <2>5, <2>6 DEF Ending, s
  <2> QED
    BY <2>2, <2>3, <2>5, <2>7, StaysInv
<1>5. CASE Reflect(q, FALSE, event, table, raised)
  <2>1. PICK busy \in BOOLEAN : Reflect(q, busy, event, table, raised)
    BY <1>5
  <2>2. q \in Delegations /\ refl'[q] = "running" => table = q \/ Excused(q)
    OBVIOUS
  <2> QED
    BY <1>2, <2>1, <2>2, ReflectInv
<1> QED
  BY <1>3, <1>4, <1>5

LEMMA TurnEndsInv ==
    ASSUME SubagentAssumption, SubInv, NEW q \in Calls, TurnEnds(q)
    PROVE  SubInv'
<1> DEFINE task == sess[call[q].slot].task
<1>1. call[q].child \in Running /\ call[q].child = "turn"
      /\ UNCHANGED <<stamp, user, wiped>>
  BY DEF TurnEnds, Running
<1>2. PICK raised \in IF call[q].hit THEN BOOLEAN ELSE {FALSE} :
         \/ Releases(q, task, raised) /\ UNCHANGED refl
         \/ Releases(q, q, raised) /\ refl' = [refl EXCEPT ![q] = "running"]
         \/ /\ call' = [call EXCEPT ![q].child = "ending", ![q].hit = FALSE,
                                     ![q].raised = raised]
            /\ UNCHANGED <<pool, sess, refl>>
  BY DEF TurnEnds
<1>3. /\ call[q] \in CallState /\ task \in Turns \cup {None} /\ q \in Turns
      /\ refl \in [Turns -> {"none", "running", "done"}] /\ refl[q] = "none"
      /\ call[q].run = "waiting" => ~call[q].hit
  BY <1>1, RunningFacts DEF ReflGood, SessState
<1>4. raised \in BOOLEAN /\ (call[q].run = "waiting" => ~raised)
  BY <1>2, <1>3 DEF CallState
<1> HIDE DEF task
<1>5. CASE Releases(q, task, raised) /\ UNCHANGED refl
  <2>1. /\ refl' \in [Turns -> {"none", "running", "done"}]
        /\ \A p \in Calls \ {q} : refl'[p] = refl[p]
        /\ refl'[q] = "running" => task = q
    BY <1>3, <1>5
  <2> QED
    BY <1>1, <1>3, <1>4, <1>5, <2>1, ReleasesInv
<1>6. CASE Releases(q, q, raised) /\ refl' = [refl EXCEPT ![q] = "running"]
  <2>1. /\ refl' \in [Turns -> {"none", "running", "done"}]
        /\ \A p \in Calls \ {q} : refl'[p] = refl[p]
    BY <1>3, <1>6, Kinds
  <2>2. PICK table \in Turns \cup {None} : table = q
    BY <1>3
  <2>3. Releases(q, table, raised) /\ (refl'[q] = "running" => table = q)
    BY <1>6, <2>2
  <2> QED
    BY <1>1, <1>4, <2>1, <2>3, ReleasesInv
<1>7. CASE /\ call' = [call EXCEPT ![q].child = "ending", ![q].hit = FALSE,
                                   ![q].raised = raised]
           /\ UNCHANGED <<pool, sess, refl>>
  <2> DEFINE x == [call[q] EXCEPT !.child = "ending", !.hit = FALSE, !.raised = raised]
  <2>1. call \in [Calls -> CallState] /\ sess \in [Children -> SessState]
    BY DEF SubInv, TypeOK
  <2>2. call' = [call EXCEPT ![q] = x]
    BY <1>7, <2>1
  <2>3. x \in CallState
    BY <1>3, <1>4 DEF CallState, Running
  <2>4. /\ x.slot = call[q].slot /\ x.run = call[q].run /\ x.cut = call[q].cut
        /\ ~x.hit /\ x.raised = raised /\ x.child = "ending"
    BY <1>3 DEF CallState
  <2> HIDE DEF x
  <2>5. Ending(q, x)
    BY <1>1, <1>3, <1>4, <1>7, <2>1, <2>2, <2>4 DEF Ending
  <2>6. refl'[q] = "none"
    BY <1>3, <1>7
  <2> QED
    BY <1>7, <2>3, <2>4, <2>5, <2>6, StaysInv
<1> QED
  BY <1>2, <1>5, <1>6, <1>7

LEMMA EndOnInv ==
    ASSUME SubagentAssumption, SubInv, NEW q \in Calls, EndOn(q)
    PROVE  SubInv'
<1> DEFINE task == sess[call[q].slot].task
           raised == call[q].raised
<1>1. /\ call[q].child \in Running /\ call[q].child = "ending"
      /\ UNCHANGED <<refl, stamp, user, wiped>>
      /\ Releases(q, task, raised)
  BY DEF EndOn, Running
<1>2. /\ call[q] \in CallState /\ task \in Turns \cup {None}
      /\ refl \in [Turns -> {"none", "running", "done"}] /\ refl[q] = "none"
      /\ (call[q].run = "waiting" => ~raised)
  BY <1>1, RunningFacts DEF ReflGood, SessState
<1>3. raised \in BOOLEAN
  BY <1>2 DEF CallState
<1>4. /\ refl' \in [Turns -> {"none", "running", "done"}]
      /\ \A p \in Calls \ {q} : refl'[p] = refl[p]
      /\ refl'[q] = "running" => task = q
  BY <1>1, <1>2
<1> HIDE DEF task, raised
<1> QED
  BY <1>1, <1>2, <1>3, <1>4, ReleasesInv

LEMMA ReflectedInv ==
    ASSUME SubagentAssumption, SubInv, NEW q \in Calls, Reflected(q)
    PROVE  SubInv'
<1> DEFINE table == sess[call[q].slot].task
<1>1. /\ call[q].child \in Running /\ call[q].child = "reflect"
      /\ refl[call[q].waits] = "done"
      /\ UNCHANGED <<refl, stamp, user, wiped>>
      /\ Close(q, call[q].slot, table, call[q].raised)
  BY DEF Reflected, Running
<1>2. /\ call[q] \in CallState /\ table \in Turns \cup {None}
      /\ refl \in [Turns -> {"none", "running", "done"}]
      /\ (call[q].run = "waiting" => ~call[q].raised)
      /\ (q \in Delegations /\ refl[q] = "running" => Excused(q))
  BY <1>1, RunningFacts DEF SessState, ReflGood
<1>3. call[q].raised \in BOOLEAN
  BY <1>2 DEF CallState
<1> HIDE DEF table
<1> QED
  BY <1>1, <1>2, <1>3, CloseInv

LEMMA ReflectCutInv ==
    ASSUME SubagentAssumption, SubInv, NEW q \in Calls, ReflectCut(q)
    PROVE  SubInv'
<1> DEFINE x == [call[q] EXCEPT !.child = "over", !.hit = FALSE, !.waits = None,
                                !.raised = TRUE, !.cut = TRUE]
<1>1. /\ call[q].child \in Running /\ call[q].hit
      /\ UNCHANGED <<sess, refl, stamp, user, wiped>> /\ Release(q)
  BY DEF ReflectCut, Running
<1>2. /\ call[q] \in CallState /\ call \in [Calls -> CallState]
      /\ refl \in [Turns -> {"none", "running", "done"}]
      /\ call[q].run # "waiting" /\ sess \in [Children -> SessState]
  BY <1>1, RunningFacts DEF SubInv, TypeOK
<1>3. call' = [call EXCEPT ![q] = x]
  BY <1>2 DEF ReflectCut
<1>4. x \in CallState
  BY <1>2 DEF CallState
<1>5. /\ x.slot = call[q].slot /\ x.run = call[q].run /\ x.cut /\ x.child = "over"
  BY <1>2 DEF CallState
<1> HIDE DEF x
<1>6. Ending(q, x)
  BY <1>1, <1>2, <1>3, <1>5 DEF Ending
<1> QED
  BY <1>1, <1>2, <1>4, <1>5, <1>6, EndsInv

-----------------------------------------------------------------------------
(* What else goes on.                                                      *)

LEMMA ReflectionEndsInv ==
    ASSUME SubagentAssumption, SubInv, NEW t \in Turns, ReflectionEnds(t)
    PROVE  SubInv'
<1>1. /\ UNCHANGED <<call, pool, stamp, user, wiped>> /\ refl[t] = "running"
      /\ refl' = [refl EXCEPT ![t] = "done"]
      /\ sess' = [s \in Children |->
                  IF sess[s].task = t THEN [sess[s] EXCEPT !.task = None]
                  ELSE sess[s]]
  BY DEF ReflectionEnds
<1>2. /\ sess \in [Children -> SessState]
      /\ refl \in [Turns -> {"none", "running", "done"}]
  BY DEF SubInv, TypeOK
<1>3. \A s \in Children : [sess[s] EXCEPT !.task = None] \in SessState
  BY <1>2 DEF SessState
<1>4. /\ refl' \in [Turns -> {"none", "running", "done"}]
      /\ refl'[t] = "done" /\ \A u \in Turns \ {t} : refl'[u] = refl[u]
      /\ sess' \in [Children -> SessState]
      /\ \A s \in Children : sess[s].task # t => sess'[s] = sess[s]
  BY <1>1, <1>2, <1>3
<1>5. TypeOK'
  BY <1>1, <1>4 DEF SubInv, TypeOK
<1>6. Ordered' /\ Idlers' /\ SlotsHeld'
  BY <1>1 DEF SubInv, Ordered, Idlers, SlotsHeld
<1>7. ASSUME NEW p \in Calls PROVE Good(p)'
  <2>1. Good(p) /\ call'[p] = call[p] /\ (Excused(p)' <=> Excused(p)) /\ p \in Turns
    BY <1>1, Kinds DEF SubInv, Excused
  <2>2. PlaceGood(p)' /\ CalmGood(p)' /\ StampGood(p)'
    BY <1>1, <2>1 DEF Good, PlaceGood, CalmGood, StampGood
  <2>3. ReflGood(p) /\ PlaceGood(p)
    BY <2>1 DEF Good
  <2>4. ReflGood(p)'
    <3>1. CASE p = t
      BY <1>1, <1>4, <2>1, <2>3, <3>1 DEF ReflGood
    <3>2. CASE p # t
      <4>1. refl'[p] = refl[p]
        BY <1>4, <2>1, <3>2
      <4>2. p \in Delegations /\ call[p].child = "leaving" => call[p].slot \in Children
        BY <2>3, Kinds DEF PlaceGood, Running
      <4>3. p \in Delegations /\ call[p].child = "leaving"
              /\ sess[call[p].slot].task = p => sess'[call[p].slot].task = p
        BY <1>4, <3>2, <4>2
      <4> QED
        BY <1>1, <2>1, <2>3, <4>1, <4>3 DEF ReflGood
    <3> QED
      BY <3>1, <3>2
  <2> QED
    BY <2>2, <2>4 DEF Good
<1> QED
  BY <1>5, <1>6, <1>7 DEF SubInv

LEMMA ClientStartsInv ==
    ASSUME SubagentAssumption, SubInv, NEW t \in ClientTurns, NEW s \in Children,
           ClientStarts(t, s)
    PROVE  SubInv'
<1> DEFINE u == [at |-> "turn", sess |-> s]
           y == [sess[s] EXCEPT !.busy = TRUE, !.event = t]
<1>1. /\ UNCHANGED <<call, pool, refl, stamp, wiped>> /\ user[t].at = "idle"
      /\ user' = [user EXCEPT ![t] = u]
  BY DEF ClientStarts
<1>2. /\ sess \in [Children -> SessState] /\ user \in [ClientTurns -> UserState]
      /\ t \in Turns
  BY DEF SubInv, TypeOK, Turns
<1>3. sess' = [sess EXCEPT ![s] = y]
  BY <1>2 DEF ClientStarts
<1>4. y \in SessState /\ y.task = sess[s].task /\ u \in UserState /\ u.at # "idle"
  <2>1. sess[s] \in SessState
    BY <1>2
  <2>2. y \in SessState /\ y.task = sess[s].task
    BY <1>2, <2>1 DEF SessState
  <2>3. u \in UserState /\ u.at # "idle"
    BY DEF UserState
  <2> QED
    BY <2>2, <2>3
<1> HIDE DEF u, y
<1>5. /\ sess' \in [Children -> SessState] /\ user' \in [ClientTurns -> UserState]
      /\ \A c \in Children : sess'[c].task = sess[c].task
      /\ user'[t] = u /\ \A c \in ClientTurns \ {t} : user'[c] = user[c]
  BY <1>1, <1>2, <1>3, <1>4
<1>6. TypeOK'
  BY <1>1, <1>5 DEF SubInv, TypeOK
<1>7. Idlers'
  BY <1>4, <1>5 DEF SubInv, Idlers
<1>8. Ordered' /\ SlotsHeld'
  BY <1>1 DEF SubInv, Ordered, SlotsHeld
<1>9. user[t].sess = None
  BY <1>1 DEF SubInv, Idlers
<1>10. ASSUME NEW p \in Calls PROVE Good(p)'
  <2>1. Good(p) /\ call'[p] = call[p] /\ refl'[p] = refl[p] /\ stamp' = stamp
        /\ wiped' = wiped
    BY <1>1 DEF SubInv
  <2>2. call[p].slot # None /\ Excused(p) => Excused(p)'
    BY <1>5, <1>9, <2>1 DEF Excused
  <2>3. p \in Delegations /\ call[p].child = "leaving" =>
          sess'[call[p].slot].task = sess[call[p].slot].task
    BY <1>5, <2>1, Kinds DEF Good, PlaceGood, Running
  <2> QED
    BY <2>1, <2>2, <2>3, Bystander
<1> QED
  BY <1>6, <1>7, <1>8, <1>10 DEF SubInv

LEMMA ClientEndsInv ==
    ASSUME SubagentAssumption, SubInv, NEW t \in ClientTurns, ClientEnds(t)
    PROVE  SubInv'
<1> DEFINE s == user[t].sess
           u == [user[t] EXCEPT !.at = "done"]
<1>1. /\ UNCHANGED <<call, pool, stamp, wiped>> /\ user[t].at = "turn"
      /\ user' = [user EXCEPT ![t] = u]
  BY DEF ClientEnds, SubInv, TypeOK
<1>2. /\ sess \in [Children -> SessState] /\ user \in [ClientTurns -> UserState]
      /\ user[t] \in UserState /\ t \in Turns /\ t \notin Calls
      /\ refl \in [Turns -> {"none", "running", "done"}]
  BY DEF SubInv, TypeOK, Turns, SubagentAssumption
<1>3. u \in UserState /\ u.at = "done" /\ u.sess = s /\ s \in Children \cup {None}
  BY <1>2 DEF UserState
<1>4. PICK reflects \in BOOLEAN :
         /\ refl' = IF reflects THEN [refl EXCEPT ![t] = "running"] ELSE refl
         /\ sess' = [sess EXCEPT
              ![s] = [busy |-> FALSE,
                      event |-> IF sess[s].event = t THEN None ELSE sess[s].event,
                      task |-> IF reflects THEN t ELSE sess[s].task]]
  BY DEF ClientEnds
<1> HIDE DEF s, u
<1>5. /\ refl' \in [Turns -> {"none", "running", "done"}]
      /\ \A p \in Calls : refl'[p] = refl[p]
      /\ user' \in [ClientTurns -> UserState] /\ user'[t] = u
      /\ \A c \in ClientTurns \ {t} : user'[c] = user[c]
  BY <1>1, <1>2, <1>3, <1>4, Kinds
<1>6. /\ sess' \in [Children -> SessState]
      /\ \A c \in Children \ {s} : sess'[c] = sess[c]
  <2>1. CASE s \in Children
    <3> DEFINE y == [busy |-> FALSE,
                     event |-> IF sess[s].event = t THEN None ELSE sess[s].event,
                     task |-> IF reflects THEN t ELSE sess[s].task]
    <3>1. sess[s] \in SessState
      BY <1>2, <2>1
    <3>2. y \in SessState
      BY <1>2, <3>1 DEF SessState
    <3>3. sess' = [sess EXCEPT ![s] = y]
      BY <1>4
    <3> HIDE DEF y
    <3> QED
      BY <1>2, <2>1, <3>2, <3>3
  <2>2. CASE s \notin Children
    <3>1. sess' = sess
      BY <1>2, <1>4, <2>2
    <3> QED
      BY <1>2, <3>1
  <2> QED
    BY <2>1, <2>2
<1>7. TypeOK'
  BY <1>1, <1>5, <1>6 DEF SubInv, TypeOK
<1>8. Idlers'
  BY <1>3, <1>5 DEF SubInv, Idlers
<1>9. Ordered' /\ SlotsHeld'
  BY <1>1 DEF SubInv, Ordered, SlotsHeld
<1>10. ASSUME NEW p \in Calls PROVE Good(p)'
  <2>1. Good(p) /\ call'[p] = call[p] /\ refl'[p] = refl[p] /\ stamp' = stamp
        /\ wiped' = wiped
    BY <1>1, <1>5 DEF SubInv
  <2>2. Excused(p) => Excused(p)'
    <3>1. user'[t].sess = user[t].sess
      BY <1>3, <1>5 DEF s
    <3> QED
      BY <1>5, <2>1, <3>1 DEF Excused
  <2>3. p \in Delegations /\ call[p].child = "leaving" =>
          Excused(p)' \/ sess'[call[p].slot].task = sess[call[p].slot].task
    <3>1. p \in Delegations /\ call[p].child = "leaving" => call[p].slot \in Children
      BY <2>1, Kinds DEF Good, PlaceGood, Running
    <3>2. call[p].slot = s => Excused(p)'
      BY <1>3, <1>5, <2>1 DEF Excused
    <3> QED
      BY <1>6, <3>1, <3>2
  <2> QED
    BY <2>1, <2>2, <2>3, Bystander
<1> QED
  BY <1>7, <1>8, <1>9, <1>10 DEF SubInv

LEMMA WindowPassesInv ==
    ASSUME SubagentAssumption, SubInv, WindowPasses
    PROVE  SubInv'
<1>1. /\ UNCHANGED <<call, pool, sess, refl, user, wiped>> /\ stamp' = None
      /\ \A q \in BossCalls : call[q].run \notin Active
  BY DEF WindowPasses, Active
<1>2. TypeOK' /\ Ordered' /\ Idlers' /\ SlotsHeld'
  BY <1>1 DEF SubInv, TypeOK, Ordered, Idlers, SlotsHeld
<1>3. ASSUME NEW p \in Calls PROVE Good(p)'
  <2>1. Good(p) /\ p # None
    BY Kinds DEF SubInv
  <2>2. PlaceGood(p)' /\ CalmGood(p)'
    BY <1>1, <2>1 DEF Good, PlaceGood, CalmGood
  <2>3. Excused(p)' <=> Excused(p)
    BY <1>1 DEF Excused
  <2>4. ReflGood(p)'
    BY <1>1, <2>1, <2>3 DEF Good, ReflGood
  <2>5. StampGood(p)'
    BY <1>1, <2>1 DEF StampGood, Active
  <2> QED
    BY <2>2, <2>4, <2>5 DEF Good
<1> QED
  BY <1>2, <1>3 DEF SubInv

-----------------------------------------------------------------------------
(* The specification.                                                      *)

LEMMA InitInv == SubagentAssumption /\ Init => SubInv
<1> SUFFICES ASSUME SubagentAssumption, Init PROVE SubInv
  OBVIOUS
<1>1. PICK plan \in Plans :
         call = [q \in Calls |->
                   [run |-> IF q \in plan THEN "idle" ELSE "done",
                    why |-> "none", twice |-> FALSE, child |-> "none",
                    hit |-> FALSE, slot |-> None, waits |-> None,
                    raised |-> FALSE, cut |-> FALSE, result |-> "none"]]
  BY DEF Init
<1>2. ASSUME NEW q \in Calls
      PROVE  /\ call[q] \in CallState
             /\ call[q].run \in {"idle", "done"} /\ call[q].child = "none"
             /\ ~call[q].hit /\ ~call[q].raised /\ call[q].slot = None
  <2>1. call[q] = [run |-> IF q \in plan THEN "idle" ELSE "done",
                    why |-> "none", twice |-> FALSE, child |-> "none",
                    hit |-> FALSE, slot |-> None, waits |-> None,
                    raised |-> FALSE, cut |-> FALSE, result |-> "none"]
    BY <1>1
  <2>2. (IF q \in plan THEN "idle" ELSE "done") \in {"idle", "done"}
    OBVIOUS
  <2> QED
    BY <2>1, <2>2 DEF CallState
<1>3. call \in [Calls -> CallState]
  BY <1>1, <1>2
<1>4. /\ pool = [busy |-> {}, order |-> [i \in 1..NSlots |-> i]]
      /\ sess = [s \in Children |-> [busy |-> FALSE, event |-> None, task |-> None]]
      /\ refl = [t \in Turns |-> "none"] /\ stamp = None /\ wiped = {}
      /\ user = [t \in ClientTurns |-> [at |-> "idle", sess |-> None]]
  BY DEF Init
<1>5. pool \in PoolState /\ Ordered
  BY <1>4 DEF PoolState, Ordered, Slots
<1>6. sess \in [Children -> SessState] /\ user \in [ClientTurns -> UserState] /\ Idlers
  BY <1>4 DEF SessState, UserState, Idlers
<1>7. TypeOK
  BY <1>3, <1>4, <1>5, <1>6 DEF TypeOK
<1>8. SlotsHeld
  <2>1. \A d \in Delegations : call[d].child \notin Running
    BY <1>2 DEF Running, Calls
  <2> QED
    BY <1>4, <2>1 DEF SlotsHeld
<1>9. ASSUME NEW q \in Calls PROVE Good(q)
  <2>1. PlaceGood(q) /\ CalmGood(q)
    BY <1>2 DEF PlaceGood, CalmGood, Running
  <2>2. ReflGood(q)
    BY <1>2, <1>4, Kinds DEF ReflGood
  <2>3. q # None /\ Boss # None
    BY Kinds
  <2>4. StampGood(q)
    BY <1>2, <1>4, <2>3 DEF StampGood
  <2> QED
    BY <2>1, <2>2, <2>4 DEF Good
<1> QED
  BY <1>5, <1>6, <1>7, <1>8, <1>9 DEF SubInv

LEMMA NextInv == SubagentAssumption /\ SubInv /\ [Next]_vars => SubInv'
<1> SUFFICES ASSUME SubagentAssumption, SubInv, [Next]_vars PROVE SubInv'
  OBVIOUS
<1>1. CASE UNCHANGED vars
  <2>1. UNCHANGED <<call, pool, sess, refl, stamp, user, wiped>>
    BY <1>1 DEF vars
  <2>2. TypeOK' /\ Ordered' /\ Idlers' /\ SlotsHeld'
    BY <2>1 DEF SubInv, TypeOK, Ordered, Idlers, SlotsHeld
  <2>3. ASSUME NEW p \in Calls PROVE Good(p)'
    <3>1. Good(p)
      BY DEF SubInv
    <3>2. Excused(p)' <=> Excused(p)
      BY <2>1 DEF Excused
    <3> QED
      BY <2>1, <3>1, <3>2, Bystander
  <2> QED
    BY <2>2, <2>3 DEF SubInv
<1>2. ASSUME NEW q \in Calls,
             \/ Begin(q) \/ TakeSlot(q) \/ TakeSlotFails(q) \/ BossBusy(q)
             \/ AskBoss(q) \/ AskBossFails(q) \/ Refuse(q)
             \/ (~call[q].hit /\ TurnEnds(q)) \/ ChildStep(q) \/ RunnerStep(q)
             \/ Esc(q) \/ EscAgain(q)
      PROVE  SubInv'
  <2>1. CASE Begin(q) \/ RunnerStep(q) \/ Esc(q) \/ EscAgain(q)
    BY <2>1, BeginInv, ChildDoneInv, StruckInv, SettledInv DEF RunnerStep
  <2>2. CASE \/ TakeSlot(q) \/ TakeSlotFails(q) \/ AskBoss(q) \/ AskBossFails(q)
             \/ BossBusy(q) \/ Refuse(q)
    BY <2>2, TakeSlotInv, TakeSlotFailsInv, AskBossInv, AskBossFailsInv, ChildQuietInv
  <2>3. CASE (~call[q].hit /\ TurnEnds(q)) \/ ChildStep(q)
    BY <2>3, TurnEndsInv, EndOnInv, ChildQuietInv, WrapperCutInv, LeaveInv, ReflectedInv,
       ReflectCutInv DEF ChildStep
  <2> QED
    BY <1>2, <2>1, <2>2, <2>3
<1>3. CASE \E t \in Turns : ReflectionEnds(t)
  BY <1>3, ReflectionEndsInv
<1>4. CASE \E t \in ClientTurns : (\E s \in Children : ClientStarts(t, s)) \/ ClientEnds(t)
  BY <1>4, ClientStartsInv, ClientEndsInv
<1>5. CASE WindowPasses
  BY <1>5, WindowPassesInv
<1> QED
  BY <1>1, <1>2, <1>3, <1>4, <1>5 DEF Next

\* The inductive invariant of the delegations of one parent.
THEOREM SubInvariant == Spec => []SubInv
BY SubagentAssumption, InitInv, NextInv, PTL DEF Spec

\* Every variable keeps its type, whatever the calls do.
THEOREM SubagentsTyped == Spec => []TypeOK
<1>1. SubInv => TypeOK
  BY DEF SubInv
<1> QED
  BY <1>1, SubInvariant, PTL

\* The pool neither leaks a slot nor lends one twice, for any number of slots
\* and of calls in play (_subagent_acquire, _subagent_release).
THEOREM SlotsAlwaysHeld == Spec => []SlotsHeld
<1>1. SubInv => SlotsHeld
  BY DEF SubInv
<1> QED
  BY <1>1, SubInvariant, PTL

\* A directory is emptied under an earlier delegation only if nobody waits for
\* its reflection any more (_run_subagent_child, _await_memory_reflection).
THEOREM WipedOnlyUnderTheCut == Spec => []WipedOnlyAfterCut
<1>1. SubInv => WipedOnlyAfterCut
  <2> SUFFICES ASSUME SubInv, NEW q \in wiped \cap Delegations
               PROVE  call[q].cut \/ Excused(q)
    BY DEF WipedOnlyAfterCut, Excused
  <2> QED
    BY DEF SubInv, Good, ReflGood, Calls
<1> QED
  BY <1>1, SubInvariant, PTL

\* The owner's window is closed by the call that asks it and stays closed only
\* after an answer, an exception, or Esc twice (_unconsume_the_window).
THEOREM WindowAlwaysHasAnAnswer == Spec => []WindowHasAnAnswer
<1>1. SubInv => WindowHasAnAnswer
  <2> SUFFICES ASSUME SubInv, NEW q \in BossCalls
               PROVE  /\ stamp = q /\ call[q].run = "done" =>
                           call[q].result \in {"text", "failed"} \/ call[q].twice
                      /\ call[q].child \in Running => stamp = q
    BY DEF WindowHasAnAnswer
  <2>1. q \in Calls /\ PlaceGood(q) /\ StampGood(q)
    BY DEF SubInv, Good, Calls
  <2> QED
    BY <2>1 DEF PlaceGood, StampGood
<1> QED
  BY <1>1, SubInvariant, PTL
=============================================================================
