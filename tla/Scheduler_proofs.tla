-------------------------- MODULE Scheduler_proofs ---------------------------
(***************************************************************************)
(* What Scheduler promises, for any records, any day and any bound on the  *)
(* waits: a marker tells how a cycle ended, a wake-up runs, a cycle that   *)
(* was announced is not put off, and no wait outlives the cadence it was   *)
(* made from.                                                              *)
(***************************************************************************)
EXTENDS Scheduler, WellOrder

-----------------------------------------------------------------------------
(* The inductive invariant, one part per property.                         *)

\* A record that is about to be applied is there.
GotGood == h.pc \in {"apply", "reapply"} => h.got \in Records

\* The marker of a cycle that runs is the cycle's own.
MarkerGood ==
    /\ MarkerTells
    /\ h.pc = "cycle" => untold = "none" /\ disk.mark = "running"

\* A wake-up that was taken is an event still set, or the handler is on its way
\* from it to a cycle.
WakeGood ==
    asked = "yes" => /\ h.pc \notin {"none", "cycle", "ended"}
                     /\ h.event \/ h.pc \in {"reread", "reapply"}

\* What was announced, with the floor of a wait.
Floor == Max2(promise, 1)

\* A time that was announced is kept: by the file, and by the handler, in the
\* instant it waits for or, before its first wait, in what it read of the file.
PromiseGood ==
    promise # None =>
        /\ h.pc \notin {"cycle", "ended"}
        /\ disk.slot # None /\ disk.slot <= Floor
        /\ h.pc # "none" /\ h.due # None => h.due <= Floor
        /\ h.pc # "none" /\ h.due = None => h.resume # None /\ h.resume <= Floor

\* The instant of a wait, whether the handler is in it or in a poll of it.
CadenceGood ==
    /\ h.pc = "wait" => h.due # None
    /\ h.due # None =>
         /\ h.made # None
         /\ h.made.windows # {} => h.due <= Boundary(h.made, tod)
         /\ ~h.slack => h.due <= Effective(h.made, tod)

SchedInv ==
    /\ TypeOK
    /\ GotGood
    /\ MarkerGood
    /\ WakeGood
    /\ PromiseGood
    /\ CadenceGood

-----------------------------------------------------------------------------
(* The cadence of a record.                                                *)

\* The next tick of the day.
Later(t) == (t + 1) % Day

LEMMA LaterIs ==
    ASSUME SchedulerAssumption, NEW t \in 0..(Day - 1)
    PROVE  /\ Later(t) \in 0..(Day - 1)
           /\ t + 1 < Day => Later(t) = t + 1
           /\ t + 1 = Day => Later(t) = 0
PROOF
  BY DEF SchedulerAssumption, Later

\* The windows of a record are windows.
LEMMA WindowTypes ==
    ASSUME SchedulerAssumption, NEW r \in Records
    PROVE  /\ r.every \in 1..MaxWait /\ r.poll \in 0..MaxWait
           /\ \A w \in r.windows : /\ w.from \in 0..Day /\ w.to \in 1..Day
                                   /\ w.every \in 1..MaxWait
PROOF
<1>1. r \in RecordType
  BY DEF SchedulerAssumption
<1>2. QED
  BY <1>1 DEF RecordType

\* There is always an interval in force, and it is one of the record.
LEMMA EffectiveType ==
    ASSUME SchedulerAssumption, NEW r \in Records, NEW t
    PROVE  Effective(r, t) \in 1..MaxWait
PROOF
<1>1. CASE InForce(r, t) = {}
  BY <1>1, WindowTypes DEF Effective
<1>2. CASE InForce(r, t) # {}
  <2>1. (CHOOSE w \in InForce(r, t) : TRUE) \in r.windows
    BY <1>2 DEF InForce
  <2>2. QED
    BY <1>2, <2>1, WindowTypes DEF Effective
<1>3. QED
  BY <1>1, <1>2

LEMMA EdgeTypes ==
    ASSUME SchedulerAssumption, NEW r \in Records
    PROVE  /\ Edges(r) \subseteq 0..Day
           /\ \A w \in r.windows : w.from \in Edges(r) /\ w.to \in Edges(r)
PROOF
<1>1. ASSUME NEW e \in Edges(r)
      PROVE  e \in 0..Day
  <2>1. PICK w \in r.windows : e \in {w.from, w.to}
    BY DEF Edges
  <2>2. QED
    BY <2>1, WindowTypes DEF SchedulerAssumption
<1>2. QED
  BY <1>1 DEF Edges

\* A record with windows has a next edge, and it is the nearest.
LEMMA BoundaryIs ==
    ASSUME SchedulerAssumption, NEW r \in Records, NEW t \in 0..(Day - 1),
           r.windows # {}
    PROVE  /\ Boundary(r, t) \in Ahead(r, t)
           /\ Boundary(r, t) \in 1..Day
           /\ \A d \in Ahead(r, t) : Boundary(r, t) <= d
PROOF
<1>1. Ahead(r, t) # {}
  <2>1. PICK w \in r.windows : TRUE
    OBVIOUS
  <2>2. w.to \in Edges(r) /\ w.to \in 1..Day
    BY EdgeTypes, WindowTypes
  <2>3. CASE w.to > t
    <3>1. w.to - t \in 1..Day /\ t + (w.to - t) = w.to
      BY <2>2, <2>3 DEF SchedulerAssumption
    <3>2. QED
      BY <2>2, <3>1 DEF Ahead
  <2>4. CASE ~(w.to > t)
    <3>1. w.to + Day - t \in 1..Day /\ t + (w.to + Day - t) = w.to + Day
      BY <2>2, <2>4 DEF SchedulerAssumption
    <3>2. QED
      BY <2>2, <3>1 DEF Ahead
  <2>5. QED
    BY <2>3, <2>4
<1>2. Ahead(r, t) \subseteq 1..Day /\ Ahead(r, t) \subseteq Nat
  BY DEF Ahead, SchedulerAssumption
<1>3. \E d \in Ahead(r, t) : \A e \in Ahead(r, t) : d <= e
  BY <1>1, <1>2, LeastNatural
<1>4. QED
  BY <1>2, <1>3 DEF Boundary

\* A tick brings the next edge nearer by one.
LEMMA BoundaryLater ==
    ASSUME SchedulerAssumption, NEW r \in Records, NEW t \in 0..(Day - 1),
           r.windows # {}
    PROVE  Boundary(r, t) <= Boundary(r, Later(t)) + 1
PROOF
<1> DEFINE b == Boundary(r, t)
           c == Boundary(r, Later(t))
<1>1. Later(t) \in 0..(Day - 1) /\ Day \in Nat
  BY LaterIs DEF SchedulerAssumption
<1>2. c \in Ahead(r, Later(t)) /\ c \in 1..Day
  BY <1>1, BoundaryIs
<1>3. b \in 1..Day /\ \A d \in Ahead(r, t) : b <= d
  BY BoundaryIs
<1>4. PICK e \in Edges(r) : Later(t) + c \in {e, e + Day}
  BY <1>2 DEF Ahead
<1>5. e \in 0..Day
  BY EdgeTypes
<1> HIDE DEF b, c
<1>6. CASE c = Day
  BY <1>1, <1>3, <1>6 DEF b, c
<1>7. CASE c # Day /\ t + 1 < Day
  <2>1. c + 1 \in 1..Day /\ t + (c + 1) \in {e, e + Day}
    BY <1>1, <1>2, <1>4, <1>5, <1>7, LaterIs
  <2>2. QED
    BY <1>2, <1>3, <2>1 DEF Ahead, b, c
<1>8. CASE c # Day /\ t + 1 = Day
  <2>1. c + 1 \in 1..Day /\ t + (c + 1) \in {e, e + Day}
    BY <1>1, <1>2, <1>4, <1>5, <1>8, LaterIs
  <2>2. QED
    BY <1>2, <1>3, <2>1 DEF Ahead, b, c
<1>9. QED
  BY <1>1, <1>6, <1>7, <1>8 DEF b, c

\* Away from an edge the interval in force stays.
LEMMA EffectiveLater ==
    ASSUME SchedulerAssumption, NEW r \in Records, NEW t \in 0..(Day - 1),
           r.windows # {} => Boundary(r, t) # 1
    PROVE  Effective(r, Later(t)) = Effective(r, t)
PROOF
<1>1. Later(t) \in 0..(Day - 1) /\ Day \in Nat \ {0}
  BY LaterIs DEF SchedulerAssumption
<1>2. ASSUME NEW e \in Edges(r)
      PROVE  t + 1 \notin {e, e + Day}
  <2>1. r.windows # {}
    BY DEF Edges
  <2>2. 1 \notin Ahead(r, t)
    BY <2>1, BoundaryIs
  <2>3. QED
    BY <1>1, <2>2 DEF Ahead
<1>3. ASSUME NEW w \in r.windows
      PROVE  (w.from <= t /\ t < w.to) <=> (w.from <= Later(t) /\ Later(t) < w.to)
  <2>1. t + 1 \notin {w.from, w.to, w.from + Day, w.to + Day}
    BY <1>2, EdgeTypes
  <2>2. w.from \in 0..Day /\ w.to \in 1..Day
    BY WindowTypes
  <2>3. CASE t + 1 < Day
    BY <1>1, <2>1, <2>2, <2>3, LaterIs
  <2>4. CASE t + 1 = Day
    BY <1>1, <2>1, <2>2, <2>4, LaterIs
  <2>5. QED
    BY <1>1, <2>3, <2>4
<1>4. InForce(r, t) = InForce(r, Later(t))
  BY <1>3 DEF InForce
<1>5. QED
  BY <1>4 DEF Effective

-----------------------------------------------------------------------------
(* The wait a handler makes.                                               *)

LEMMA SlowedType ==
    ASSUME SchedulerAssumption, NEW every \in 1..MaxWait
    PROVE  Slowed(every) \in 1..MaxWait
PROOF
<1>1. every * SlowFactor \in Nat \ {0}
  BY DEF SchedulerAssumption
<1>2. SlowCap \in 1..MaxWait /\ MaxWait \in Nat
  BY DEF SchedulerAssumption
<1>3. QED
  BY <1>1, <1>2 DEF Slowed, Max2, Min2

LEMMA BackoffType ==
    ASSUME SchedulerAssumption, NEW every \in 1..MaxWait, NEW fails \in 0..MaxFails
    PROVE  Backoff(every, fails) \in 1..MaxWait
PROOF
<1>1. /\ fails \in Nat /\ BackCap \in 1..MaxWait /\ MaxWait \in Nat
      /\ BackFloor \in 1..BackCap
  BY DEF SchedulerAssumption
<1>2. 2 ^ fails \in Nat /\ 2 ^ fails >= 1
  BY <1>1, PowerPositive
<1> DEFINE power == 2 ^ fails
<1> HIDE DEF power
<1>3. power \in Nat /\ power >= 1
  BY <1>2 DEF power
<1>4. every * power \in Nat /\ every * power >= 1
  BY <1>1, <1>3
<1>5. QED
  BY <1>1, <1>4 DEF Backoff, Min2, Max2, power

\* A new wait is at most the time on disk, at most the way to the next edge,
\* and at most the interval in force unless the pace was slowed down.
LEMMA WaitBounds ==
    ASSUME SchedulerAssumption, TypeOK, NEW r \in Records
    PROVE  /\ NaturalWait(r) \in Times
           /\ h.resume # None => NaturalWait(r) <= h.resume
           /\ r.windows # {} => NaturalWait(r) <= Boundary(r, tod)
           /\ ~(h.slow \/ h.fails > 0) => NaturalWait(r) <= Effective(r, tod)
PROOF
<1> DEFINE every == Effective(r, tod)
           paced == IF h.slow THEN Slowed(every) ELSE Backoff(every, h.fails)
           wait == Resumed(paced)
<1>1. /\ h.slow \in BOOLEAN /\ h.fails \in 0..MaxFails
      /\ h.resume \in Times \cup {None} /\ tod \in 0..(Day - 1)
  BY DEF TypeOK, HandlerState
<1>2. every \in 1..MaxWait
  BY EffectiveType
<1>3. paced \in 1..MaxWait
  <2> HIDE DEF every
  <2>1. QED
    BY <1>1, <1>2, SlowedType, BackoffType DEF paced
<1>4. ~(h.slow \/ h.fails > 0) => paced = every
  BY <1>1 DEF Backoff, SchedulerAssumption
<1>5. /\ wait \in Times /\ wait <= paced
      /\ h.resume # None => wait <= h.resume
  <2> HIDE DEF paced
  <2>1. QED
    BY <1>1, <1>3 DEF Resumed, Min2, Times, SchedulerAssumption, wait
<1>6. r.windows # {} => Boundary(r, tod) \in 1..Day
  BY <1>1, BoundaryIs
<1>7. NaturalWait(r) = Cut(r, wait)
  BY DEF NaturalWait, Effective
<1> HIDE DEF every, paced, wait
<1>8. /\ Cut(r, wait) \in Times /\ Cut(r, wait) <= wait
      /\ r.windows # {} => Cut(r, wait) <= Boundary(r, tod)
  BY <1>1, <1>5, <1>6 DEF Cut, Min2, Times, SchedulerAssumption
<1>9. Cut(r, wait) \in Nat /\ wait \in Nat /\ paced \in Nat /\ every \in Nat
  BY <1>2, <1>3, <1>5, <1>8 DEF Times, SchedulerAssumption
<1>10. h.resume # None => h.resume \in Nat
  BY <1>1 DEF Times, SchedulerAssumption
<1>11. QED
  BY <1>4, <1>5, <1>7, <1>8, <1>9, <1>10 DEF every

-----------------------------------------------------------------------------
(* What the steps are made of.                                             *)

LEMMA NobodyType == SchedulerAssumption => Nobody \in HandlerState
PROOF
  BY DEF Nobody, HandlerState, SchedulerAssumption, Times

LEMMA SeededType ==
    ASSUME SchedulerAssumption, TypeOK
    PROVE  /\ Seeded \in [state : {"ok", "torn", "missing"}, rec : Records \cup {None}]
           /\ Seeded.state \in {"ok", "torn"}
           /\ Usable(Seeded) => Seeded.rec \in Records
           /\ Seeded.state = "torn" <=> table.state = "torn"
PROOF
  BY DEF Seeded, TypeOK, SchedulerAssumption, Usable, Runnable

LEMMA LessType ==
    ASSUME SchedulerAssumption, NEW t \in Times \cup {None}
    PROVE  /\ Less(t) \in Times \cup {None}
           /\ Less(t) = None <=> t = None
           /\ t # None /\ t # 0 => t \in Nat /\ Less(t) = t - 1
           /\ t = 0 => Less(t) = 0
           /\ t # None => t \in Nat
PROOF
  BY DEF Less, Times, SchedulerAssumption

-----------------------------------------------------------------------------
(* Type correctness.                                                       *)

\* The handler a step of its own leads to; GotGood comes with the types.
TypeInv == TypeOK /\ GotGood

HandlerGood(x) ==
    /\ x \in HandlerState
    /\ x.pc \in {"apply", "reapply"} => x.got \in Records

LEMMA ReconcileType ==
    ASSUME SchedulerAssumption, TypeInv, NEW t, Reconcile(t)
    PROVE  /\ HandlerGood(h')
           /\ disk' \in [slot : Times \cup {None}, slow : BOOLEAN,
                         mark : {"none", "running", "loud"}]
           /\ promise' \in Times \cup {None}
           /\ untold' \in {"none", "running", "loud"}
PROOF
<1>1. /\ disk.slot \in Times \cup {None} /\ disk.slow \in BOOLEAN
      /\ None \in Times \cup {None}
      /\ (IF disk.slot = 0 THEN None ELSE disk.slot) \in Times \cup {None}
      /\ (disk.slot = 0) \in BOOLEAN
  BY DEF TypeInv, TypeOK
<1>2. NewHandler \in HandlerState /\ NewHandler.pc = "read"
  BY <1>1, NobodyType, ZenonT(60)
     DEF NewHandler, LastPace, LastSlot, Nobody, HandlerState
<1>3. CASE h.pc = "none" /\ Usable(t)
  BY <1>1, <1>2, <1>3 DEF Reconcile, Reported, HandlerGood, TypeInv, TypeOK
<1>4. CASE ~(h.pc = "none" /\ Usable(t))
  BY <1>4 DEF Reconcile, HandlerGood, TypeInv, TypeOK, GotGood
<1>5. QED
  BY <1>3, <1>4

LEMMA RetireType ==
    ASSUME SchedulerAssumption, TypeInv, Retire
    PROVE  /\ HandlerGood(h')
           /\ disk' \in [slot : Times \cup {None}, slow : BOOLEAN,
                         mark : {"none", "running", "loud"}]
           /\ promise' \in Times \cup {None}
           /\ untold' \in {"none", "running", "loud"}
           /\ asked' \in {"no", "yes", "torn"}
PROOF
<1>1. h' \in HandlerState /\ h'.pc = "ended"
  BY NobodyType DEF Retire, Nobody, HandlerState
<1>2. QED
  BY <1>1 DEF Retire, HandlerGood, TypeInv, TypeOK

LEMMA EndCycleType ==
    ASSUME SchedulerAssumption, TypeInv,
           NEW fails \in 0..MaxFails, NEW slow \in BOOLEAN, NEW mark \in {"none", "loud"},
           EndCycle(fails, slow, mark)
    PROVE  TypeInv'
PROOF
<1>1. h' \in HandlerState /\ h'.pc = "read"
  BY DEF EndCycle, TypeInv, TypeOK, HandlerState
<1>2. QED
  BY <1>1 DEF EndCycle, TypeInv, TypeOK, GotGood

\* Handler x in its cycle.
AtCycle(x, slow) ==
    [x EXCEPT !.pc = "cycle", !.got = None, !.own = x.got, !.made = None,
              !.slack = FALSE, !.due = None, !.polled = FALSE,
              !.slow = slow, !.late = FALSE]

LEMMA AtCycleType ==
    ASSUME NEW x \in HandlerState, x.got \in Records, NEW slow \in BOOLEAN
    PROVE  /\ AtCycle(x, slow) \in HandlerState
           /\ AtCycle(x, slow).pc = "cycle" /\ AtCycle(x, slow).due = None
PROOF
  BY ZenonT(60) DEF HandlerState, AtCycle

\* Handler x in its wait.
AtWait(x, own, made, slack, due, polled, until, resume) ==
    [x EXCEPT !.pc = "wait", !.got = None, !.own = own, !.made = made,
              !.slack = slack, !.due = due, !.polled = polled,
              !.until = until, !.resume = resume, !.manual = FALSE]

LEMMA AtWaitType ==
    ASSUME NEW x \in HandlerState, NEW own \in Records, NEW made \in Records \cup {None},
           NEW slack \in BOOLEAN, NEW due \in Times, NEW polled \in BOOLEAN,
           NEW until \in Times \cup {None}, NEW resume \in Times \cup {None}
    PROVE  AtWait(x, own, made, slack, due, polled, until, resume) \in HandlerState
PROOF
  BY ZenonT(60) DEF HandlerState, AtWait

LEMMA AtWaitFields ==
    ASSUME NEW x \in HandlerState, NEW own, NEW made, NEW slack, NEW due,
           NEW polled, NEW until, NEW resume
    PROVE  /\ AtWait(x, own, made, slack, due, polled, until, resume).pc = "wait"
           /\ AtWait(x, own, made, slack, due, polled, until, resume).made = made
           /\ AtWait(x, own, made, slack, due, polled, until, resume).slack = slack
           /\ AtWait(x, own, made, slack, due, polled, until, resume).due = due
           /\ AtWait(x, own, made, slack, due, polled, until, resume).event = x.event
PROOF
  BY ZenonT(60) DEF HandlerState, AtWait

\* What a wait is made of: a new instant, or the one kept over a poll.
LEMMA BeginWaitEffect ==
    ASSUME SchedulerAssumption, TypeInv, BeginWait
    PROVE  /\ TypeInv'
           /\ h'.pc = "wait" /\ h'.event = h.event
           /\ h.got \in Records /\ h'.due = Kept(h.got)
           /\ h.due = None => /\ h'.made = h.got /\ disk'.slot = h'.due
                              /\ h'.slack = (h.slow \/ h.fails > 0)
           /\ h.due # None => /\ h'.made = h.made /\ h'.slack = h.slack
                              /\ disk'.slot \in {h'.due, Max2(1, h'.due)}
           /\ disk'.mark = disk.mark
           /\ promise' = IF promise = None THEN disk'.slot ELSE Min2(promise, disk'.slot)
           /\ UNCHANGED <<up, tod, table, untold, asked>>
PROOF
<1> DEFINE r == h.got
           due == Kept(r)
           wait == IF h.due = None THEN due ELSE Max2(1, due)
           polled == r.poll # 0 /\ r.poll < wait
           slot == IF polled THEN due ELSE wait
<1>1. r \in Records /\ r.poll \in Times /\ h.due \in Times \cup {None}
  BY WindowTypes DEF BeginWait, TypeInv, TypeOK, GotGood, HandlerState, Times
<1>2. due \in Times
  BY <1>1, WaitBounds DEF Kept, TypeInv
<1>3. wait \in Times
  <2> HIDE DEF due
  <2>1. QED
    BY <1>2 DEF Max2, Times, SchedulerAssumption
<1>4. slot \in Times /\ polled \in BOOLEAN
  <2> HIDE DEF due, wait
  <2>1. QED
    BY <1>2, <1>3
<1> DEFINE made == IF h.due = None THEN r ELSE h.made
           slack == IF h.due = None THEN h.slow \/ h.fails > 0 ELSE h.slack
           until == IF polled THEN r.poll ELSE wait
           resume == IF h.due = None THEN None ELSE h.resume
<1>5. /\ made \in Records \cup {None} /\ slack \in BOOLEAN
      /\ until \in Times \cup {None} /\ resume \in Times \cup {None}
  <2> HIDE DEF due, wait, polled
  <2>1. QED
    BY <1>1, <1>3, <1>4 DEF TypeInv, TypeOK, HandlerState
<1>6. /\ h' = AtWait(h, r, made, slack, due, polled, until, resume)
      /\ disk' = [disk EXCEPT !.slot = slot]
      /\ promise' = IF promise = None THEN slot ELSE Min2(promise, slot)
      /\ UNCHANGED <<up, tod, table, untold, asked>>
  BY Zenon DEF BeginWait, AtWait
<1> HIDE DEF due, wait, polled, slot, made, slack, until, resume
<1>7. h' \in HandlerState /\ h'.pc = "wait"
  <2>1. h \in HandlerState
    BY DEF TypeInv, TypeOK
  <2>2. h' \in HandlerState
    BY <1>1, <1>2, <1>4, <1>5, <1>6, <2>1, AtWaitType, Zenon
  <2>3. h'.pc = "wait"
    BY <1>6, <2>1, AtWaitFields
  <2>4. QED
    BY <2>2, <2>3
<1>8. /\ disk' \in [slot : Times \cup {None}, slow : BOOLEAN,
                    mark : {"none", "running", "loud"}]
      /\ disk'.slot = slot /\ disk'.mark = disk.mark
  BY <1>4, <1>6 DEF TypeInv, TypeOK
<1>9. promise' \in Times \cup {None}
  BY <1>4, <1>6 DEF TypeInv, TypeOK, Min2
<1>10. TypeInv'
  BY <1>6, <1>7, <1>8, <1>9 DEF TypeInv, TypeOK, GotGood
<1>11. /\ h'.made = made /\ h'.slack = slack /\ h'.due = due /\ h'.event = h.event
  BY <1>6, AtWaitFields DEF TypeInv, TypeOK
<1>12. h.due = None => made = r /\ slack = (h.slow \/ h.fails > 0) /\ slot = due
  BY DEF made, slack, slot, wait
<1>13. h.due # None => made = h.made /\ slack = h.slack /\ slot \in {due, Max2(1, due)}
  BY DEF made, slack, slot, wait
<1>14. QED
  BY <1>1, <1>6, <1>7, <1>8, <1>10, <1>11, <1>12, <1>13 DEF due

\* The pieces of the state a step may leave alone.
DiskType == [slot : Times \cup {None}, slow : BOOLEAN, mark : {"none", "running", "loud"}]
TableType == [state : {"ok", "torn", "missing"}, rec : Records \cup {None}]

LEMMA SchedulerTypes ==
    ASSUME SchedulerAssumption, TypeInv, [Next]_vars
    PROVE  TypeInv'
PROOF
<1> USE DEF TypeInv
<1>1. /\ h \in HandlerState /\ table \in TableType /\ disk \in DiskType
      /\ tod \in 0..(Day - 1)
  BY DEF TypeOK, DiskType, TableType
<1>2. ASSUME h' \in HandlerState, h'.pc \in {"apply", "reapply"} => h'.got \in Records,
             UNCHANGED <<up, tod, table, disk, promise, untold>>,
             asked' \in {"no", "yes", "torn"}
      PROVE  TypeInv'
  BY <1>2 DEF TypeOK, GotGood
<1>3. Seeded \in TableType
  BY SeededType DEF TableType
<1>4. ASSUME Start PROVE TypeInv'
  <2>1. Reconcile(Seeded)
    BY <1>4 DEF Start
  <2>2. QED
    BY <1>3, <1>4, <2>1, ReconcileType DEF Start, TypeOK, GotGood, HandlerGood, TableType
<1>5. ASSUME Round PROVE TypeInv'
  <2>1. Reconcile(Seeded)
    BY <1>5 DEF Round
  <2>2. QED
    BY <1>3, <1>5, <2>1, ReconcileType DEF Round, TypeOK, GotGood, HandlerGood, TableType
<1>6. ASSUME HostEdits PROVE TypeInv'
  <2>1. PICK r \in Records \cup {None} : /\ table' = [state |-> "ok", rec |-> r]
                                         /\ Reconcile(table')
    BY <1>6 DEF HostEdits
  <2>2. QED
    BY <1>6, <2>1, ReconcileType DEF HostEdits, TypeOK, GotGood, HandlerGood
<1>7. ASSUME Trigger PROVE TypeInv'
  <2>1. h' \in HandlerState /\ h'.pc = h.pc /\ h'.got = h.got
    BY <1>1, <1>7 DEF Trigger, HandlerState
  <2>2. QED
    BY <1>2, <1>7, <2>1 DEF Trigger, TypeOK, GotGood
<1>8. ASSUME Stop PROVE TypeInv'
  <2>1. h' \in HandlerState /\ h'.pc = "none"
    BY <1>8, NobodyType DEF Stop, Nobody
  <2>2. disk' \in DiskType /\ untold' \in {"none", "running", "loud"}
    BY <1>1, <1>8 DEF Stop, DiskType, TypeOK
  <2>3. QED
    BY <1>8, <2>1, <2>2 DEF Stop, TypeOK, GotGood, DiskType
<1>9. ASSUME Kill PROVE TypeInv'
  <2>1. h' \in HandlerState /\ h'.pc = "none"
    BY <1>9, NobodyType DEF Kill, Nobody
  <2>2. QED
    BY <1>9, <2>1 DEF Kill, TypeOK, GotGood
<1>10. ASSUME Forget PROVE TypeInv'
  <2>1. h' \in HandlerState /\ h'.pc = "none"
    BY <1>10, NobodyType DEF Forget, Nobody
  <2>2. QED
    BY <1>2, <1>10, <2>1 DEF Forget, TypeOK
<1>11. ASSUME Read PROVE TypeInv'
  <2>1. CASE Usable(Seeded)
    <3>1. Seeded.rec \in Records
      BY <2>1, SeededType
    <3>2. h' \in HandlerState /\ h'.got \in Records
      <4>1. PICK pc \in {"apply", "reapply"} :
              h' = [h EXCEPT !.pc = pc, !.got = Seeded.rec]
        BY <1>11, <2>1 DEF Read
      <4>2. QED
        BY <1>1, <3>1, <4>1 DEF HandlerState
    <3>3. UNCHANGED <<disk, promise, untold, asked, up, tod>> /\ table' = Seeded
      BY <1>11, <2>1 DEF Read
    <3>4. QED
      BY <1>3, <3>2, <3>3 DEF TypeOK, GotGood, TableType
  <2>2. CASE ~Usable(Seeded) /\ Seeded.state = "torn"
    <3>1. h' \in HandlerState /\ h'.pc = "retry"
      <4>1. h' = [h EXCEPT !.pc = "retry", !.manual = FALSE]
        BY <1>11, <2>2 DEF Read
      <4>2. QED
        BY <1>1, <4>1 DEF HandlerState
    <3>2. /\ UNCHANGED <<disk, promise, untold, up, tod>> /\ table' = Seeded
          /\ asked' \in {"torn", asked}
      BY <1>11, <2>2 DEF Read
    <3>3. QED
      BY <1>3, <3>1, <3>2 DEF TypeOK, GotGood, TableType
  <2>3. CASE ~Usable(Seeded) /\ Seeded.state # "torn"
    <3>1. Retire /\ UNCHANGED <<up, tod>> /\ table' = Seeded
      BY <1>11, <2>3 DEF Read
    <3>2. QED
      BY <1>3, <3>1, RetireType DEF TypeOK, GotGood, HandlerGood, TableType
  <2>4. QED
    BY <2>1, <2>2, <2>3
<1>12. ASSUME Retry PROVE TypeInv'
  <2>1. h' \in HandlerState /\ h'.pc = "read"
    BY <1>1, <1>12 DEF Retry, HandlerState
  <2>2. QED
    BY <1>2, <1>12, <2>1 DEF Retry, TypeOK
<1>13. ASSUME WakeByHost PROVE TypeInv'
  <2>1. h' \in HandlerState /\ h'.pc = "reread"
    BY <1>1, <1>13 DEF WakeByHost, Woken, HandlerState
  <2>2. QED
    BY <1>2, <1>13, <2>1 DEF WakeByHost, TypeOK
<1>14. ASSUME WakeByTime PROVE TypeInv'
  <2>1. h' \in HandlerState /\ h'.pc \in {"poll", "reread"}
    BY <1>1, <1>14, ZenonT(60) DEF WakeByTime, HandlerState
  <2>2. QED
    BY <1>2, <1>14, <2>1 DEF WakeByTime, TypeOK
<1>15. ASSUME Poll PROVE TypeInv'
  <2>1. h' \in HandlerState /\ h'.pc \in {"read", "reread"}
    BY <1>1, <1>15 DEF Poll, HandlerState
  <2>2. QED
    BY <1>2, <1>15, <2>1 DEF Poll, TypeOK
<1>16. ASSUME BeginCycle PROVE TypeInv'
  <2>1. h.got \in Records
    BY <1>16 DEF BeginCycle, GotGood
  <2>2. h' \in HandlerState /\ h'.pc = "cycle"
    <3>1. PICK slow \in BOOLEAN : h' = AtCycle(h, slow)
      BY <1>16, Zenon DEF BeginCycle, AtCycle
    <3>2. QED
      BY <1>1, <2>1, <3>1, AtCycleType
  <2>3. disk' \in DiskType
    BY <1>1, <1>16 DEF BeginCycle, DiskType
  <2>4. QED
    BY <1>16, <2>2, <2>3 DEF BeginCycle, Reported, TypeOK, GotGood, DiskType
<1>17. ASSUME NotStarted PROVE TypeInv'
  <2>1. /\ Min2(h.fails + 1, MaxFails) \in 0..MaxFails /\ h.slow \in BOOLEAN
        /\ EndCycle(Min2(h.fails + 1, MaxFails), h.slow, "none")
    BY <1>1, <1>17 DEF NotStarted, Min2, HandlerState, SchedulerAssumption
  <2>2. QED
    BY <2>1, EndCycleType
<1>18. ASSUME Finished PROVE TypeInv'
  <2>1. h.slow \in BOOLEAN /\ 0 \in 0..MaxFails
    BY <1>1 DEF HandlerState, SchedulerAssumption
  <2>2. PICK slow \in BOOLEAN : EndCycle(0, slow, "none")
    BY <1>18, <2>1 DEF Finished
  <2>3. QED
    BY <2>1, <2>2, EndCycleType
<1>19. ASSUME Aborted PROVE TypeInv'
  <2>1. h.slow \in BOOLEAN /\ {0, h.fails} \subseteq 0..MaxFails
    BY <1>1 DEF HandlerState, SchedulerAssumption
  <2>2. PICK fails \in 0..MaxFails : EndCycle(fails, h.slow, "loud")
    BY <1>19, <2>1 DEF Aborted
  <2>3. QED
    BY <2>1, <2>2, EndCycleType
<1>20. ASSUME HandEdits PROVE TypeInv'
  <2>1. table' \in TableType
    BY <1>1, <1>20 DEF HandEdits, TableType
  <2>2. QED
    BY <1>20, <2>1 DEF HandEdits, TypeOK, GotGood, TableType
<1>21. ASSUME Tick PROVE TypeInv'
  <2>1. /\ Less(h.due) \in Times \cup {None} /\ Less(h.until) \in Times \cup {None}
        /\ Less(h.resume) \in Times \cup {None} /\ Less(disk.slot) \in Times \cup {None}
        /\ Less(promise) \in Times \cup {None}
    BY <1>1, LessType DEF TypeOK, HandlerState, DiskType
  <2>2. h' \in HandlerState /\ h'.pc = h.pc /\ h'.got = h.got
    BY <1>1, <1>21, <2>1 DEF Tick, HandlerState
  <2>3. disk' \in DiskType
    BY <1>1, <1>21, <2>1 DEF Tick, DiskType
  <2>4. tod' \in 0..(Day - 1)
    BY <1>1, <1>21, LaterIs DEF Tick, Later
  <2>5. QED
    BY <1>21, <2>1, <2>2, <2>3, <2>4 DEF Tick, TypeOK, GotGood, DiskType
<1>22. CASE UNCHANGED vars
  BY <1>22 DEF vars, TypeOK, GotGood
<1>23. QED
  BY <1>4, <1>5, <1>6, <1>7, <1>8, <1>9, <1>10, <1>11, <1>12, <1>13, <1>14, <1>15,
     <1>16, <1>17, <1>18, <1>19, <1>20, <1>21, <1>22, BeginWaitEffect
     DEF Next, HandlerStep

-----------------------------------------------------------------------------
(* What a step does to the handler, as far as the properties see it.       *)

\* The handler keeps its wait, whatever else it does.
KeepsWait == /\ h'.due = h.due /\ h'.made = h.made /\ h'.slack = h.slack
             /\ h'.resume = h.resume

LEMMA Moves ==
    ASSUME SchedulerAssumption, TypeInv
    PROVE  /\ Trigger => h'.pc = h.pc /\ h'.event = TRUE /\ KeepsWait
           /\ Retry => h'.pc = "read" /\ h'.event = h.event /\ KeepsWait
           /\ WakeByHost => h'.pc = "reread" /\ KeepsWait
           /\ WakeByTime => h'.pc \in {"poll", "reread"} /\ h'.event = h.event /\ KeepsWait
           /\ Poll => h'.pc \in {"read", "reread"} /\ h'.event = h.event /\ KeepsWait
           /\ BeginCycle => h'.pc = "cycle" /\ h'.due = None
PROOF
<1>1. h \in HandlerState
  BY DEF TypeInv, TypeOK
<1>2. Trigger => h'.pc = h.pc /\ h'.event = TRUE /\ KeepsWait
  BY <1>1 DEF Trigger, KeepsWait, HandlerState
<1>3. Retry => h'.pc = "read" /\ h'.event = h.event /\ KeepsWait
  BY <1>1 DEF Retry, KeepsWait, HandlerState
<1>4. WakeByHost => h'.pc = "reread" /\ KeepsWait
  BY <1>1 DEF WakeByHost, Woken, KeepsWait, HandlerState
<1>5. WakeByTime => h'.pc \in {"poll", "reread"} /\ h'.event = h.event /\ KeepsWait
  BY <1>1 DEF WakeByTime, KeepsWait, HandlerState
<1>6. Poll => h'.pc \in {"read", "reread"} /\ h'.event = h.event /\ KeepsWait
  BY <1>1 DEF Poll, KeepsWait, HandlerState
<1>7. BeginCycle => h'.pc = "cycle" /\ h'.due = None
  <2>1. SUFFICES ASSUME BeginCycle PROVE h'.pc = "cycle" /\ h'.due = None
    OBVIOUS
  <2>2. h.got \in Records
    BY <2>1 DEF BeginCycle, TypeInv, GotGood
  <2>3. PICK slow \in BOOLEAN : h' = AtCycle(h, slow)
    BY <2>1, Zenon DEF BeginCycle, AtCycle
  <2>4. QED
    BY <1>1, <2>2, <2>3, AtCycleType
<1>8. QED
  BY <1>2, <1>3, <1>4, <1>5, <1>6, <1>7

\* Reading the record: it is applied next, or the handler retires or retries.
LEMMA ReadMoves ==
    ASSUME SchedulerAssumption, TypeInv, Read
    PROVE  /\ h.pc \in {"read", "reread"}
           /\ \/ /\ Usable(Seeded)
                 /\ h'.pc = (IF h.pc = "read" THEN "apply" ELSE "reapply")
                 /\ h'.event = h.event /\ KeepsWait
                 /\ UNCHANGED <<tod, disk, promise, untold, asked>>
              \/ /\ Seeded.state = "torn" /\ ~Usable(Seeded)
                 /\ h'.pc = "retry" /\ h'.event = h.event /\ KeepsWait
                 /\ asked' = IF h.pc = "reread" /\ asked = "yes" /\ ~h.event
                             THEN "torn" ELSE asked
                 /\ UNCHANGED <<tod, disk, promise, untold>>
              \/ /\ Seeded.state # "torn" /\ ~Usable(Seeded)
                 /\ Retire /\ UNCHANGED tod
PROOF
<1>1. h \in HandlerState
  BY DEF TypeInv, TypeOK
<1>2. CASE Usable(Seeded)
  <2>1. PICK pc \in {"apply", "reapply"} :
          /\ pc = (IF h.pc = "read" THEN "apply" ELSE "reapply")
          /\ h' = [h EXCEPT !.pc = pc, !.got = Seeded.rec]
    BY <1>2 DEF Read
  <2>2. h'.pc = pc /\ h'.event = h.event /\ KeepsWait
    BY <1>1, <2>1 DEF HandlerState, KeepsWait
  <2>3. UNCHANGED <<tod, disk, promise, untold, asked>> /\ h.pc \in {"read", "reread"}
    BY <1>2 DEF Read
  <2>4. QED
    BY <1>2, <2>1, <2>2, <2>3
<1>3. CASE ~Usable(Seeded) /\ Seeded.state = "torn"
  <2>1. h' = [h EXCEPT !.pc = "retry", !.manual = FALSE]
    BY <1>3 DEF Read
  <2>2. h'.pc = "retry" /\ h'.event = h.event /\ KeepsWait
    BY <1>1, <2>1 DEF HandlerState, KeepsWait
  <2>3. QED
    BY <1>3, <2>2 DEF Read
<1>4. CASE ~Usable(Seeded) /\ Seeded.state # "torn"
  BY <1>4 DEF Read
<1>5. QED
  BY <1>2, <1>3, <1>4

LEMMA NobodyFields ==
    /\ Nobody.pc = "none" /\ Nobody.due = None
PROOF
  BY DEF Nobody

LEMMA RetireMoves ==
    ASSUME Retire, TypeInv
    PROVE  /\ h'.pc = "ended" /\ h'.due = None
           /\ disk'.mark = "none" /\ disk'.slot = None
           /\ promise' = None /\ untold' = "none" /\ asked' = "no"
PROOF
  BY DEF Retire, Nobody, TypeInv, TypeOK

\* A round of the scheduler: a handler is made, or nothing changes.
LEMMA ReconcileMoves ==
    ASSUME SchedulerAssumption, TypeInv, NEW t, Reconcile(t)
    PROVE  \/ /\ h.pc = "none" /\ h'.pc = "read" /\ h'.due = None
              /\ h'.resume = (IF disk.slot = 0 THEN None ELSE disk.slot)
              /\ disk'.mark = "none" /\ disk'.slot = disk.slot /\ untold' = "none"
              /\ promise' = (IF disk.slot = 0 THEN None ELSE promise)
           \/ UNCHANGED <<h, disk, untold, promise>>
PROOF
<1>1. /\ NewHandler.pc = "read" /\ NewHandler.due = None
      /\ NewHandler.resume = (IF disk.slot = 0 THEN None ELSE disk.slot)
  BY DEF NewHandler, LastSlot, Nobody
<1>2. QED
  BY <1>1 DEF Reconcile, Reported, TypeInv, TypeOK

LEMMA EndCycleMoves ==
    ASSUME SchedulerAssumption, TypeInv, NotStarted \/ Finished \/ Aborted
    PROVE  /\ h.pc = "cycle" /\ h'.pc = "read" /\ h'.event = FALSE /\ KeepsWait
           /\ \/ disk'.mark = "none" /\ untold' = untold
              \/ disk'.mark = "loud" /\ untold' = "loud"
           /\ disk'.slot = disk.slot /\ UNCHANGED <<up, tod, table, promise, asked>>
PROOF
<1>1. h \in HandlerState /\ disk \in DiskType
  BY DEF TypeInv, TypeOK, DiskType
<1>2. PICK fails \in 0..MaxFails, slow \in BOOLEAN, mark \in {"none", "loud"} :
        EndCycle(fails, slow, mark)
  <2>1. h.slow \in BOOLEAN /\ {0, h.fails, Min2(h.fails + 1, MaxFails)} \subseteq 0..MaxFails
    BY <1>1 DEF HandlerState, SchedulerAssumption, Min2
  <2>2. QED
    BY <2>1 DEF NotStarted, Finished, Aborted
<1>3. h'.pc = "read" /\ h'.event = FALSE /\ KeepsWait
  BY <1>1, <1>2 DEF EndCycle, HandlerState, KeepsWait
<1>4. disk'.mark = mark /\ disk'.slot = disk.slot
  BY <1>1, <1>2 DEF EndCycle, DiskType
<1>5. QED
  BY <1>2, <1>3, <1>4 DEF EndCycle

\* The scheduler's own steps, Stop and Kill: a round, or the daemon's end.
Rounds == Start \/ Round \/ HostEdits

LEMMA RoundsMove ==
    ASSUME SchedulerAssumption, TypeInv, Rounds
    PROVE  /\ \/ /\ h.pc = "none" /\ h'.pc = "read" /\ h'.due = None
                 /\ h'.resume = (IF disk.slot = 0 THEN None ELSE disk.slot)
                 /\ disk'.mark = "none" /\ disk'.slot = disk.slot /\ untold' = "none"
                 /\ promise' = (IF disk.slot = 0 THEN None ELSE promise)
              \/ UNCHANGED <<h, disk, untold, promise>>
           /\ UNCHANGED <<tod, asked>>
PROOF
<1>1. PICK t : Reconcile(t)
  BY DEF Rounds, Start, Round, HostEdits
<1>2. UNCHANGED <<tod, asked>>
  BY DEF Rounds, Start, Round, HostEdits
<1>3. QED
  BY <1>1, <1>2, ReconcileMoves

-----------------------------------------------------------------------------
(* The invariant is kept.                                                  *)

LEMMA MarkerStep ==
    ASSUME SchedulerAssumption, TypeInv, MarkerGood, [Next]_vars
    PROVE  MarkerGood'
PROOF
<1> USE DEF MarkerGood, MarkerTells
<1>1. h.pc \in {"none", "read", "apply", "wait", "poll", "reread", "reapply", "retry",
                "cycle", "ended"} /\ disk \in DiskType
  BY DEF TypeInv, TypeOK, HandlerState, DiskType
<1>2. ASSUME Rounds PROVE MarkerGood'
  BY <1>2, RoundsMove
<1>3. ASSUME Trigger PROVE MarkerGood'
  BY <1>3, Moves DEF Trigger
<1>4. ASSUME Stop PROVE MarkerGood'
  BY <1>1, <1>4, NobodyFields DEF Stop, DiskType
<1>5. ASSUME Kill PROVE MarkerGood'
  BY <1>5, NobodyFields DEF Kill
<1>6. ASSUME Forget PROVE MarkerGood'
  BY <1>6, NobodyFields DEF Forget
<1>7. ASSUME Read PROVE MarkerGood'
  BY <1>7, ReadMoves, RetireMoves
<1>8. ASSUME Retry PROVE MarkerGood'
  BY <1>8, Moves DEF Retry
<1>9. ASSUME BeginWait PROVE MarkerGood'
  BY <1>9, BeginWaitEffect DEF BeginWait
<1>10. ASSUME WakeByHost PROVE MarkerGood'
  BY <1>10, Moves DEF WakeByHost
<1>11. ASSUME WakeByTime PROVE MarkerGood'
  BY <1>11, Moves DEF WakeByTime
<1>12. ASSUME Poll PROVE MarkerGood'
  BY <1>12, Moves DEF Poll
<1>13. ASSUME BeginCycle PROVE MarkerGood'
  <2>1. h'.pc = "cycle"
    BY <1>13, Moves
  <2>2. disk'.mark = "running" /\ untold' = "none"
    BY <1>13 DEF BeginCycle, Reported
  <2>3. QED
    BY <2>1, <2>2
<1>14. ASSUME NotStarted \/ Finished \/ Aborted PROVE MarkerGood'
  BY <1>14, EndCycleMoves
<1>15. ASSUME HandEdits PROVE MarkerGood'
  BY <1>15 DEF HandEdits
<1>16. ASSUME Tick PROVE MarkerGood'
  <2>1. h'.pc = h.pc /\ disk'.mark = disk.mark /\ untold' = untold
    BY <1>1, <1>16 DEF Tick, TypeInv, TypeOK, HandlerState, DiskType
  <2>2. QED
    BY <2>1
<1>17. CASE UNCHANGED vars
  BY <1>17 DEF vars
<1>18. QED
  BY <1>2, <1>3, <1>4, <1>5, <1>6, <1>7, <1>8, <1>9, <1>10, <1>11, <1>12, <1>13,
     <1>14, <1>15, <1>16, <1>17 DEF Next, HandlerStep, Rounds

LEMMA WakeStep ==
    ASSUME SchedulerAssumption, TypeInv, WakeGood, [Next]_vars
    PROVE  WakeGood'
PROOF
<1> USE DEF WakeGood
<1>1. h \in HandlerState
  BY DEF TypeInv, TypeOK
<1>2. ASSUME Rounds PROVE WakeGood'
  BY <1>2, RoundsMove
<1>3. ASSUME Trigger PROVE WakeGood'
  <2>1. h.pc \notin {"none", "cycle"} /\ asked' = (IF h.pc = "ended" THEN asked ELSE "yes")
    BY <1>3 DEF Trigger
  <2>2. QED
    BY <1>3, <2>1, Moves
<1>4. ASSUME Stop PROVE WakeGood'
  BY <1>4 DEF Stop
<1>5. ASSUME Kill PROVE WakeGood'
  BY <1>5 DEF Kill
<1>6. ASSUME Forget PROVE WakeGood'
  BY <1>6 DEF Forget
<1>7. ASSUME Read PROVE WakeGood'
  BY <1>7, ReadMoves, RetireMoves
<1>8. ASSUME Retry PROVE WakeGood'
  BY <1>8, Moves DEF Retry
<1>9. ASSUME BeginWait PROVE WakeGood'
  <2>1. h.pc = "apply" /\ h'.pc = "wait" /\ h'.event = h.event /\ asked' = asked
    BY <1>9, BeginWaitEffect DEF BeginWait
  <2>2. QED
    BY <2>1
<1>10. ASSUME WakeByHost PROVE WakeGood'
  BY <1>10, Moves DEF WakeByHost
<1>11. ASSUME WakeByTime PROVE WakeGood'
  BY <1>11, Moves DEF WakeByTime
<1>12. ASSUME Poll PROVE WakeGood'
  <2>1. h.pc = "poll" /\ h'.event = h.event
    BY <1>12, Moves DEF Poll
  <2>2. \/ h'.pc = "reread"
        \/ h'.pc = "read" /\ asked' = asked
    BY <1>1, <1>12 DEF Poll, HandlerState
  <2>3. QED
    BY <2>1, <2>2
<1>13. ASSUME BeginCycle PROVE WakeGood'
  BY <1>13 DEF BeginCycle
<1>14. ASSUME NotStarted \/ Finished \/ Aborted PROVE WakeGood'
  BY <1>14, EndCycleMoves
<1>15. ASSUME HandEdits PROVE WakeGood'
  BY <1>15 DEF HandEdits
<1>16. ASSUME Tick PROVE WakeGood'
  <2>1. h'.pc = h.pc /\ h'.event = h.event /\ asked' = asked
    BY <1>1, <1>16 DEF Tick, HandlerState
  <2>2. QED
    BY <2>1
<1>17. CASE UNCHANGED vars
  BY <1>17 DEF vars
<1>18. QED
  BY <1>2, <1>3, <1>4, <1>5, <1>6, <1>7, <1>8, <1>9, <1>10, <1>11, <1>12, <1>13,
     <1>14, <1>15, <1>16, <1>17 DEF Next, HandlerStep, Rounds

\* A tick takes a kept time and the promise down together.
LEMMA FloorTick ==
    ASSUME SchedulerAssumption, NEW p \in Times, NEW t \in Times, t <= Max2(p, 1)
    PROVE  Less(t) <= Max2(Less(p), 1)
PROOF
<1>1. p \in Nat /\ t \in Nat /\ p # None /\ t # None
  BY DEF Times, SchedulerAssumption
<1>2. QED
  BY <1>1 DEF Less, Max2

\* A new wait announced, the promise is what it was or that wait.
LEMMA FloorWait ==
    ASSUME SchedulerAssumption, NEW p \in Times \cup {None}, NEW due \in Times,
           NEW slot \in Times, slot \in {due, Max2(1, due)},
           p # None => due <= Max2(p, 1),
           NEW q, q = (IF p = None THEN slot ELSE Min2(p, slot))
    PROVE  q \in Nat /\ due <= Max2(q, 1) /\ slot <= Max2(q, 1)
PROOF
<1>1. due \in Nat /\ slot \in Nat /\ (p # None => p \in Nat)
  BY DEF Times, SchedulerAssumption
<1>2. CASE p = None
  BY <1>1, <1>2 DEF Max2
<1>3. CASE p # None
  BY <1>1, <1>3 DEF Max2, Min2
<1>4. QED
  BY <1>2, <1>3

LEMMA PromiseStep ==
    ASSUME SchedulerAssumption, TypeInv, PromiseGood, [Next]_vars
    PROVE  PromiseGood'
PROOF
<1> USE DEF PromiseGood, Floor
<1>1. /\ h \in HandlerState /\ disk \in DiskType /\ promise \in Times \cup {None}
      /\ disk.slot \in Times \cup {None} /\ h.due \in Times \cup {None}
      /\ h.resume \in Times \cup {None}
  BY DEF TypeInv, TypeOK, DiskType, HandlerState
<1>2. ASSUME Rounds PROVE PromiseGood'
  <2>1. CASE UNCHANGED <<h, disk, promise>>
    BY <2>1
  <2>2. CASE /\ h.pc = "none" /\ h'.pc = "read" /\ h'.due = None
             /\ h'.resume = (IF disk.slot = 0 THEN None ELSE disk.slot)
             /\ disk'.slot = disk.slot
             /\ promise' = (IF disk.slot = 0 THEN None ELSE promise)
    <3>1. CASE disk.slot = 0
      BY <2>2, <3>1
    <3>2. CASE disk.slot # 0
      BY <2>2, <3>2
    <3>3. QED
      BY <3>1, <3>2
  <2>3. QED
    BY <1>2, <2>1, <2>2, RoundsMove
<1>3. ASSUME Trigger PROVE PromiseGood'
  BY <1>3, Moves DEF Trigger, KeepsWait
<1>4. ASSUME Stop PROVE PromiseGood'
  <2>1. h'.pc = "none" /\ disk'.slot = disk.slot /\ promise' = promise
    BY <1>1, <1>4, NobodyFields DEF Stop, DiskType
  <2>2. QED
    BY <2>1
<1>5. ASSUME Kill PROVE PromiseGood'
  BY <1>5, NobodyFields DEF Kill
<1>6. ASSUME Forget PROVE PromiseGood'
  BY <1>6, NobodyFields DEF Forget
<1>7. ASSUME Read PROVE PromiseGood'
  BY <1>7, ReadMoves, RetireMoves DEF KeepsWait
<1>8. ASSUME Retry PROVE PromiseGood'
  BY <1>8, Moves DEF Retry, KeepsWait
<1>9. ASSUME BeginWait PROVE PromiseGood'
  <2>1. h.pc = "apply" /\ h'.pc = "wait"
    BY <1>9, BeginWaitEffect DEF BeginWait
  <2>2. h'.due = Kept(h.got) /\ h.got \in Records
    BY <1>9, BeginWaitEffect
  <2>3. h'.due \in Times
    BY <1>1, <2>2, WaitBounds DEF Kept, TypeInv
  <2>4. promise # None => h'.due <= Max2(promise, 1)
    <3>1. CASE h.due # None
      BY <2>1, <2>2, <3>1 DEF Kept
    <3>2. CASE h.due = None /\ promise # None
      <4>1. h'.due <= h.resume /\ h.resume <= Max2(promise, 1) /\ h.resume # None
        BY <2>1, <2>2, <3>2, WaitBounds DEF Kept, TypeInv
      <4>2. h'.due \in Nat /\ h.resume \in Nat /\ Max2(promise, 1) \in Nat
        BY <1>1, <2>3, <3>2, <4>1 DEF Times, Max2, SchedulerAssumption
      <4>3. QED
        BY <4>1, <4>2
    <3>3. QED
      BY <3>1, <3>2
  <2>5. /\ disk'.slot \in {h'.due, Max2(1, h'.due)}
        /\ promise' = IF promise = None THEN disk'.slot ELSE Min2(promise, disk'.slot)
    BY <1>9, BeginWaitEffect
  <2>6. TypeInv'
    BY <1>9, BeginWaitEffect
  <2>7. disk'.slot \in Times \cup {None}
    BY <2>6 DEF TypeInv, TypeOK
  <2>8. disk'.slot \in Times /\ disk'.slot # None /\ h'.due # None
    BY <2>3, <2>5, <2>7 DEF Times, Max2, SchedulerAssumption
  <2>9. h'.due <= Max2(promise', 1) /\ disk'.slot <= Max2(promise', 1)
    BY <1>1, <2>3, <2>4, <2>5, <2>8, FloorWait
  <2>10. QED
    BY <2>1, <2>8, <2>9
<1>10. ASSUME WakeByHost PROVE PromiseGood'
  BY <1>10, Moves DEF WakeByHost, KeepsWait
<1>11. ASSUME WakeByTime PROVE PromiseGood'
  BY <1>11, Moves DEF WakeByTime, KeepsWait
<1>12. ASSUME Poll PROVE PromiseGood'
  BY <1>12, Moves DEF Poll, KeepsWait
<1>13. ASSUME BeginCycle PROVE PromiseGood'
  BY <1>13 DEF BeginCycle
<1>14. ASSUME NotStarted \/ Finished \/ Aborted PROVE PromiseGood'
  BY <1>14, EndCycleMoves
<1>15. ASSUME HandEdits PROVE PromiseGood'
  BY <1>15 DEF HandEdits
<1>16. ASSUME Tick PROVE PromiseGood'
  <2>1. /\ h'.pc = h.pc /\ h'.due = Less(h.due) /\ h'.resume = Less(h.resume)
        /\ disk'.slot = Less(disk.slot) /\ promise' = Less(promise)
    BY <1>1, <1>16 DEF Tick, HandlerState, DiskType
  <2>2. /\ h'.due = None <=> h.due = None
        /\ h'.resume = None <=> h.resume = None
        /\ disk'.slot = None <=> disk.slot = None
        /\ promise' = None <=> promise = None
    BY <1>1, <2>1, LessType
  <2>3. SUFFICES ASSUME promise # None PROVE PromiseGood'
    BY <2>2
  <2>4. disk'.slot # None /\ disk'.slot <= Max2(promise', 1)
    BY <1>1, <2>1, <2>2, <2>3, FloorTick
  <2>5. h.pc # "none" /\ h.due # None => h'.due <= Max2(promise', 1)
    BY <1>1, <2>1, <2>3, FloorTick
  <2>6. h.pc # "none" /\ h.due = None =>
          h'.resume # None /\ h'.resume <= Max2(promise', 1)
    BY <1>1, <2>1, <2>2, <2>3, FloorTick
  <2>7. QED
    BY <2>1, <2>2, <2>3, <2>4, <2>5, <2>6
<1>17. CASE UNCHANGED vars
  BY <1>17 DEF vars
<1>18. QED
  BY <1>2, <1>3, <1>4, <1>5, <1>6, <1>7, <1>8, <1>9, <1>10, <1>11, <1>12, <1>13,
     <1>14, <1>15, <1>16, <1>17 DEF Next, HandlerStep, Rounds

LEMMA CadenceStep ==
    ASSUME SchedulerAssumption, TypeInv, CadenceGood, [Next]_vars
    PROVE  CadenceGood'
PROOF
<1> USE DEF CadenceGood
<1>1. /\ h \in HandlerState /\ tod \in 0..(Day - 1)
      /\ h.due \in Times \cup {None} /\ h.made \in Records \cup {None}
  BY DEF TypeInv, TypeOK, HandlerState
<1>2. ASSUME KeepsWait, UNCHANGED tod, h'.pc # "wait" \/ h.pc = "wait"
      PROVE  CadenceGood'
  BY <1>2 DEF KeepsWait
<1>3. ASSUME h'.due = None, h'.pc # "wait" PROVE CadenceGood'
  BY <1>3
<1>4. ASSUME Rounds PROVE CadenceGood'
  BY <1>4, RoundsMove
<1>5. ASSUME Trigger PROVE CadenceGood'
  BY <1>2, <1>5, Moves DEF Trigger
<1>6. ASSUME Stop \/ Kill \/ Forget PROVE CadenceGood'
  BY <1>3, <1>6, NobodyFields DEF Stop, Kill, Forget
<1>7. ASSUME Read PROVE CadenceGood'
  BY <1>2, <1>3, <1>7, ReadMoves, RetireMoves
<1>8. ASSUME Retry PROVE CadenceGood'
  BY <1>2, <1>8, Moves DEF Retry
<1>9. ASSUME BeginWait PROVE CadenceGood'
  <2>1. /\ h'.pc = "wait" /\ h'.due = Kept(h.got) /\ h.got \in Records /\ tod' = tod
    BY <1>9, BeginWaitEffect
  <2>2. CASE h.due = None
    <3>1. h'.made = h.got /\ h'.slack = (h.slow \/ h.fails > 0)
      BY <1>9, <2>2, BeginWaitEffect
    <3>2. h'.due = NaturalWait(h.got)
      BY <2>1, <2>2 DEF Kept
    <3>3. /\ h'.due \in Times
          /\ h.got.windows # {} => h'.due <= Boundary(h.got, tod)
          /\ ~(h.slow \/ h.fails > 0) => h'.due <= Effective(h.got, tod)
      BY <2>1, <3>2, WaitBounds DEF TypeInv
    <3>4. h'.due # None /\ h.got # None
      BY <2>1, <3>3, LessType DEF Times, SchedulerAssumption
    <3>5. QED
      BY <2>1, <3>1, <3>3, <3>4
  <2>3. CASE h.due # None
    <3>1. h'.made = h.made /\ h'.slack = h.slack
      BY <1>9, <2>3, BeginWaitEffect
    <3>2. h'.due = h.due
      BY <2>1, <2>3 DEF Kept
    <3>3. QED
      BY <2>1, <2>3, <3>1, <3>2
  <2>4. QED
    BY <2>2, <2>3
<1>10. ASSUME WakeByHost PROVE CadenceGood'
  BY <1>2, <1>10, Moves DEF WakeByHost
<1>11. ASSUME WakeByTime PROVE CadenceGood'
  BY <1>2, <1>11, Moves DEF WakeByTime
<1>12. ASSUME Poll PROVE CadenceGood'
  BY <1>2, <1>12, Moves DEF Poll
<1>13. ASSUME BeginCycle PROVE CadenceGood'
  BY <1>3, <1>13, Moves
<1>14. ASSUME NotStarted \/ Finished \/ Aborted PROVE CadenceGood'
  <2>1. UNCHANGED tod
    BY <1>14 DEF NotStarted, Finished, Aborted, EndCycle
  <2>2. QED
    BY <1>2, <1>14, <2>1, EndCycleMoves
<1>15. ASSUME HandEdits PROVE CadenceGood'
  BY <1>15 DEF HandEdits
<1>16. ASSUME Tick PROVE CadenceGood'
  <2>1. /\ h'.pc = h.pc /\ h'.due = Less(h.due) /\ h'.made = h.made /\ h'.slack = h.slack
        /\ tod' = Later(tod)
    BY <1>1, <1>16 DEF Tick, HandlerState, Later
  <2>2. h'.due = None <=> h.due = None
    BY <1>1, <2>1, LessType
  <2>3. SUFFICES ASSUME h.due # None PROVE CadenceGood'
    BY <2>1, <2>2
  <2>4. /\ h.due \in Nat /\ h'.due \in Nat /\ h'.due <= h.due
        /\ h.due > 0 => h'.due = h.due - 1
        /\ h.due = 0 => h'.due = 0
    BY <1>1, <2>1, <2>3, LessType
  <2>5. h.made \in Records
    BY <1>1, <2>3
  <2>6. tod' \in 0..(Day - 1)
    BY <1>1, <2>1, LaterIs
  <2>7. h.made.windows # {} => h'.due <= Boundary(h.made, tod')
    <3>1. SUFFICES ASSUME h.made.windows # {} PROVE h'.due <= Boundary(h.made, tod')
      OBVIOUS
    <3>2. h.due <= Boundary(h.made, tod)
      BY <2>3, <3>1
    <3>3. Boundary(h.made, tod) <= Boundary(h.made, tod') + 1
      BY <1>1, <2>1, <2>5, <3>1, BoundaryLater
    <3>4. Boundary(h.made, tod) \in Nat /\ Boundary(h.made, tod') \in Nat
      BY <1>1, <2>5, <2>6, <3>1, BoundaryIs DEF SchedulerAssumption
    <3>5. QED
      BY <2>4, <3>2, <3>3, <3>4
  <2>8. ~h.slack => h'.due <= Effective(h.made, tod')
    <3>1. SUFFICES ASSUME ~h.slack PROVE h'.due <= Effective(h.made, tod')
      OBVIOUS
    <3>2. h.due <= Effective(h.made, tod)
      BY <2>3, <3>1
    <3>3. /\ Effective(h.made, tod) \in Nat /\ Effective(h.made, tod') \in Nat
          /\ Effective(h.made, tod') >= 1
      BY <2>5, EffectiveType DEF SchedulerAssumption
    <3>4. CASE h.made.windows # {} /\ Boundary(h.made, tod) = 1
      <4>1. h.due <= 1
        BY <2>3, <3>4
      <4>2. QED
        BY <2>4, <3>3, <4>1
    <3>5. CASE h.made.windows # {} => Boundary(h.made, tod) # 1
      <4>1. Effective(h.made, tod') = Effective(h.made, tod)
        BY <1>1, <2>1, <2>5, <3>5, EffectiveLater
      <4>2. QED
        BY <2>4, <3>2, <3>3, <4>1
    <3>6. QED
      BY <3>4, <3>5
  <2>9. QED
    BY <2>1, <2>2, <2>3, <2>5, <2>7, <2>8
<1>17. CASE UNCHANGED vars
  BY <1>17 DEF vars
<1>18. QED
  BY <1>4, <1>5, <1>6, <1>7, <1>8, <1>9, <1>10, <1>11, <1>12, <1>13,
     <1>14, <1>15, <1>16, <1>17 DEF Next, HandlerStep, Rounds

-----------------------------------------------------------------------------
(* The theorems.                                                           *)

LEMMA SchedInit ==
    ASSUME SchedulerAssumption, Init
    PROVE  SchedInv
PROOF
<1>1. TypeOK
  <2>1. table \in TableType /\ disk \in DiskType
    BY DEF Init, TableType, DiskType
  <2>2. h \in HandlerState /\ tod \in 0..(Day - 1)
    BY NobodyType DEF Init, SchedulerAssumption
  <2>3. QED
    BY <2>1, <2>2 DEF Init, TypeOK, TableType, DiskType
<1>2. h.pc = "none" /\ h.due = None /\ asked = "no"
  BY NobodyFields DEF Init
<1>3. GotGood /\ WakeGood /\ CadenceGood
  BY <1>2 DEF GotGood, WakeGood, CadenceGood
<1>4. MarkerGood /\ PromiseGood
  BY <1>2 DEF Init, MarkerGood, MarkerTells, PromiseGood
<1>5. QED
  BY <1>1, <1>3, <1>4 DEF SchedInv

LEMMA SchedStep ==
    ASSUME SchedulerAssumption, SchedInv, [Next]_vars
    PROVE  SchedInv'
PROOF
<1>1. TypeInv
  BY DEF SchedInv, TypeInv
<1>2. TypeInv'
  BY <1>1, SchedulerTypes
<1>3. MarkerGood' /\ WakeGood' /\ PromiseGood' /\ CadenceGood'
  BY <1>1, MarkerStep, WakeStep, PromiseStep, CadenceStep DEF SchedInv
<1>4. QED
  BY <1>2, <1>3 DEF SchedInv, TypeInv

\* The invariant the rest follows from.
THEOREM SchedulerInvariant == Spec => []SchedInv
PROOF
<1>1. Init => SchedInv
  BY SchedInit, SchedulerAssumption
<1>2. SchedInv /\ [Next]_vars => SchedInv'
  BY SchedStep, SchedulerAssumption
<1>3. QED
  BY <1>1, <1>2, PTL DEF Spec

\* Every variable keeps its shape and every wait its bound, whatever the
\* windows, the failures, the slowdown and the edits.
THEOREM SchedulerTyped == Spec => []TypeOK
PROOF
<1>1. SchedInv => TypeOK
  BY DEF SchedInv
<1>2. QED
  BY <1>1, SchedulerInvariant, PTL

\* The wait of a handler ends by the next edge of a window and is at most one
\* interval away at every moment of it, by the interval then in force
\* (_natural_wait, effective_interval, seconds_to_next_boundary).
THEOREM CadenceAlwaysHolds == Spec => []CadenceHolds
PROOF
<1>1. SchedInv => CadenceHolds
  BY DEF SchedInv, CadenceGood, CadenceHolds
<1>2. QED
  BY <1>1, SchedulerInvariant, PTL

\* A cycle that was announced for some time is not put off: not by polls, not
\* by a torn table, not by a restart before that time (_save_next_run_state,
\* _resume_wait_timeout).
THEOREM NeverPutOffAnnounced == Spec => []NeverPutOff
PROOF
<1>1. SchedInv => NeverPutOff
  BY DEF SchedInv, CadenceGood, PromiseGood, Floor, NeverPutOff
<1>2. QED
  BY <1>1, SchedulerInvariant, PTL

\* How a cycle ended badly stays on disk until it was reported, through any
\* kills and restarts (_report_interrupted_cycle, _end_heartbeat).
THEOREM MarkersAlwaysTell == Spec => []MarkerTells
PROOF
<1>1. SchedInv => MarkerTells
  BY DEF SchedInv, MarkerGood
<1>2. QED
  BY <1>1, SchedulerInvariant, PTL

\* A wake-up that was taken is not lost on the way to its cycle (trigger,
\* _condition_wake, _refresh_record).
THEOREM WakeUpsAlwaysRun == Spec => []WakeUpRuns
PROOF
<1>1. SchedInv => WakeUpRuns
  BY DEF SchedInv, WakeGood, WakeUpRuns
<1>2. QED
  BY <1>1, SchedulerInvariant, PTL

=============================================================================
