------------------------- MODULE SessionStore_proofs -------------------------
(***************************************************************************)
(* What SessionStore promises, for any handlers, any titles and tiers, any *)
(* number of records kept and any sets of messages a provider refuses: the *)
(* title given last is lost by the thread of a scrub only, and no rewrite  *)
(* of the history that was not raced loses what was said without a mark.   *)
(***************************************************************************)
EXTENDS SessionStore, SequenceTheorems, WellOrder

-----------------------------------------------------------------------------
(* The positions of a history that are kept, counted.                      *)

LEMMA UpToType ==
    ASSUME NEW kept \in SUBSET Nat, IsFiniteSet(kept), NEW i \in kept
    PROVE  UpTo(kept, i) \in 1..Cardinality(kept) /\ Cardinality(kept) \in Nat
PROOF
<1> DEFINE low == {j \in kept : j <= i}
<1>1. low \subseteq kept /\ low # {}
  <2>1. i \in low
    OBVIOUS
  <2>2. QED
    BY <2>1
<1>2. IsFiniteSet(low) /\ Cardinality(low) <= Cardinality(kept)
  BY <1>1, FS_Subset
<1>3. Cardinality(low) \in Nat /\ Cardinality(kept) \in Nat
  BY <1>2, FS_CardinalityType
<1>4. Cardinality(low) # 0
  BY <1>1, <1>2, FS_EmptySet
<1>5. UpTo(kept, i) = Cardinality(low)
  BY DEF UpTo
<1> HIDE DEF low
<1>6. QED
  BY <1>2, <1>3, <1>4, <1>5

LEMMA UpToGrows ==
    ASSUME NEW kept \in SUBSET Nat, IsFiniteSet(kept), NEW i \in kept, NEW j \in kept,
           i < j
    PROVE  UpTo(kept, i) # UpTo(kept, j)
PROOF
<1> DEFINE low(m) == {n \in kept : n <= m}
<1>1. low(i) \subseteq low(j) /\ low(i) # low(j)
  <2>1. j \in low(j) /\ j \notin low(i)
    OBVIOUS
  <2>2. \A n \in kept : n <= i => n <= j
    OBVIOUS
  <2>3. QED
    BY <2>1, <2>2
<1>2. IsFiniteSet(low(j))
  <2>1. low(j) \subseteq kept
    OBVIOUS
  <2>2. QED
    BY <2>1, FS_Subset
<1>3. UpTo(kept, i) = Cardinality(low(i)) /\ UpTo(kept, j) = Cardinality(low(j))
  BY DEF UpTo
<1> HIDE DEF low
<1>4. QED
  BY <1>1, <1>2, <1>3, FS_Subset

\* Every count up to the number kept is the count of exactly one position.
LEMMA UpToCounts ==
    ASSUME NEW kept \in SUBSET Nat, IsFiniteSet(kept)
    PROVE  /\ Cardinality(kept) \in Nat
           /\ \A k \in 1..Cardinality(kept) : \E i \in kept : UpTo(kept, i) = k
           /\ \A i, j \in kept : UpTo(kept, i) = UpTo(kept, j) => i = j
PROOF
<1> DEFINE n == Cardinality(kept)
           f == [i \in kept |-> UpTo(kept, i)]
<1>1. n \in Nat
  BY FS_CardinalityType
<1>2. \A i, j \in kept : UpTo(kept, i) = UpTo(kept, j) => i = j
  <2>1. SUFFICES ASSUME NEW i \in kept, NEW j \in kept, i # j
                 PROVE  UpTo(kept, i) # UpTo(kept, j)
    OBVIOUS
  <2>2. i < j \/ j < i
    BY <2>1
  <2>3. QED
    BY <2>2, UpToGrows
<1>3. f \in Injection(kept, 1..n)
  <2>1. \A i \in kept : f[i] \in 1..n
    BY UpToType
  <2>2. QED
    BY <1>2, <2>1 DEF Injection, IsInjective
<1>4. IsFiniteSet(1..n) /\ Cardinality(1..n) = n
  BY <1>1, FS_Interval
<1>5. f \in Surjection(kept, 1..n)
  <2> HIDE DEF f
  <2>1. QED
    BY <1>3, <1>4, FS_Injection DEF n
<1>6. \A k \in 1..n : \E i \in kept : UpTo(kept, i) = k
  BY <1>5 DEF Surjection
<1>7. QED
  BY <1>1, <1>2, <1>6

-----------------------------------------------------------------------------
(* What a history says, and what is left of it.                            *)

LEMMA SaidType ==
    ASSUME NEW s \in Seq(Record)
    PROVE  Said(s) \subseteq 1..MaxMessage
PROOF
<1>1. ASSUME NEW i \in DOMAIN s
      PROVE  s[i].says \subseteq 1..MaxMessage
  <2>1. s[i] \in Record
    OBVIOUS
  <2>2. QED
    BY <2>1 DEF Record
<1>2. QED
  BY <1>1 DEF Said

\* Without keeps the records at the other positions, and only those.
LEMMA WithoutIs ==
    ASSUME NEW s \in Seq(Record), NEW positions
    PROVE  /\ Without(s, positions) \in Seq(Record)
           /\ \A i \in DOMAIN s \ positions :
                s[i].says \subseteq Said(Without(s, positions))
PROOF
<1> DEFINE kept == Kept(s, positions)
           n == Cardinality(kept)
           nth(k) == CHOOSE i \in kept : UpTo(kept, i) = k
           rest == Without(s, positions)
<1>1. kept \subseteq DOMAIN s /\ DOMAIN s = 1..Len(s) /\ Len(s) \in Nat
  BY DEF Kept
<1>2. IsFiniteSet(kept) /\ kept \in SUBSET Nat
  <2> HIDE DEF kept
  <2>1. IsFiniteSet(1..Len(s)) /\ 1..Len(s) \subseteq Nat
    BY <1>1, FS_Interval
  <2>2. QED
    BY <1>1, <2>1, FS_Subset
<1>3. rest = [k \in 1..n |-> s[nth(k)]]
  BY DEF Without
<1> HIDE DEF kept
<1>4. /\ n \in Nat
      /\ \A k \in 1..n : nth(k) \in kept /\ UpTo(kept, nth(k)) = k
      /\ \A i, j \in kept : UpTo(kept, i) = UpTo(kept, j) => i = j
  BY <1>2, UpToCounts
<1> HIDE DEF nth, n
<1>5. \A k \in 1..n : s[nth(k)] \in Record
  BY <1>1, <1>4
<1>6. rest \in Seq(Record) /\ DOMAIN rest = 1..n
  BY <1>3, <1>4, <1>5
<1>7. ASSUME NEW i \in DOMAIN s \ positions
      PROVE  s[i].says \subseteq Said(rest)
  <2>1. i \in kept
    BY <1>7 DEF kept, Kept
  <2>2. UpTo(kept, i) \in 1..n
    BY <1>2, <2>1, UpToType DEF n
  <2>3. nth(UpTo(kept, i)) = i
    BY <1>4, <2>1, <2>2
  <2>4. rest[UpTo(kept, i)] = s[i]
    BY <1>3, <2>2, <2>3
  <2> HIDE DEF rest
  <2>5. QED
    BY <1>6, <2>2, <2>4 DEF Said
<1>8. QED
  BY <1>6, <1>7

-----------------------------------------------------------------------------
(* The descent of the probe: it ends, at a record of the history.          *)

\* One step of the descent about a half, the rest of it given by g.
Descent(records, g, half) ==
  IF half[1] >= half[2] THEN half[1] ELSE g[Narrower(records, half)]

LEMMA NarrowerIs ==
    ASSUME NEW records, NEW n \in Nat, NEW half \in Halves(n), half[1] < half[2]
    PROVE  LET less == Narrower(records, half)
           IN  /\ less \in Halves(n) /\ half[1] <= less[1] /\ less[1] <= less[2]
               /\ less[2] <= half[2] /\ less[2] - less[1] < half[2] - half[1]
PROOF
<1> DEFINE mid == half[1] + (half[2] - half[1] + 1) \div 2 - 1
<1>1. /\ half[1] \in 1..n /\ half[2] \in 1..n
  BY DEF Halves
<1>2. /\ mid \in 1..n /\ mid + 1 \in 1..n
      /\ half[1] <= mid /\ mid < half[2]
  <2>1. ASSUME NEW lo \in 1..n, NEW hi \in 1..n, lo < hi,
               NEW m, m = lo + (hi - lo + 1) \div 2 - 1
        PROVE  m \in 1..n /\ m + 1 \in 1..n /\ lo <= m /\ m < hi
    BY <2>1
  <2>2. QED
    BY <1>1, <2>1
<1> DEFINE refused == Refuses(SubSeq(records, half[1], mid))
<1>3. Narrower(records, half) = IF refused THEN <<half[1], mid>> ELSE <<mid + 1, half[2]>>
  BY DEF Narrower
<1> HIDE DEF mid, refused
<1>4. CASE Narrower(records, half) = <<half[1], mid>>
  BY <1>1, <1>2, <1>4 DEF Halves
<1>5. CASE Narrower(records, half) = <<mid + 1, half[2]>>
  BY <1>1, <1>2, <1>5 DEF Halves
<1>6. QED
  BY <1>3, <1>4, <1>5

LEMMA DescentAgrees ==
    ASSUME NEW records, NEW n \in Nat, NEW g, NEW h, NEW half \in Halves(n),
           \A a \in Halves(n) : a[2] - a[1] < half[2] - half[1] => g[a] = h[a]
    PROVE  Descent(records, g, half) = Descent(records, h, half)
PROOF
<1>1. half[1] \in 1..n /\ half[2] \in 1..n
  BY DEF Halves
<1>2. CASE half[1] >= half[2]
  BY <1>2 DEF Descent
<1>3. CASE half[1] < half[2]
  <2> DEFINE less == Narrower(records, half)
  <2>1. less \in Halves(n) /\ less[2] - less[1] < half[2] - half[1]
    BY <1>3, NarrowerIs
  <2>2. ~(half[1] >= half[2])
    BY <1>1, <1>3
  <2>3. Descent(records, g, half) = g[less] /\ Descent(records, h, half) = h[less]
    BY <2>2 DEF Descent
  <2> HIDE DEF less
  <2>4. QED
    BY <2>1, <2>3
<1>4. QED
  BY <1>1, <1>2, <1>3

LEMMA DescentExists ==
    ASSUME NEW records, NEW n \in Nat
    PROVE  \E g : g = [half \in Halves(n) |-> Descent(records, g, half)]
PROOF
<1> DEFINE H == Halves(n)
           size(a) == a[2] - a[1]
           Once(g) == [half \in H |-> Descent(records, g, half)]
           Right(g, m) == \A a \in H : size(a) < m => g[a] = Descent(records, g, a)
           S == {m \in Nat : \E g : Right(g, m)}
<1>1. \A a \in H : size(a) \in Int /\ size(a) < n /\ a[1] \in Int /\ a[2] \in Int
  BY DEF Halves
<1> HIDE DEF H
<1>2. 0 \in S
  <2> DEFINE g == [half \in H |-> half[1]]
  <2>1. ASSUME NEW a \in H, size(a) < 0
        PROVE  g[a] = Descent(records, g, a)
    <3>1. a[1] >= a[2]
      BY <1>1, <2>1
    <3>2. g[a] = a[1]
      OBVIOUS
    <3> HIDE DEF g
    <3>3. QED
      BY <3>1, <3>2 DEF Descent
  <2> HIDE DEF g
  <2>2. Right(g, 0)
    BY <2>1
  <2>3. QED
    BY <2>2
<1>3. ASSUME NEW m \in Nat, m \in S
      PROVE  m + 1 \in S
  <2>1. PICK g : Right(g, m)
    BY <1>3
  <2> DEFINE h == Once(g)
  <2>2. \A a \in H : h[a] = Descent(records, g, a)
    OBVIOUS
  <2> HIDE DEF h
  <2>3. ASSUME NEW half \in H, size(half) < m + 1
        PROVE  h[half] = Descent(records, h, half)
    <3>1. \A a \in H : size(a) < size(half) => g[a] = h[a]
      <4>1. \A a \in H : size(a) < size(half) => size(a) < m
        BY <1>1, <2>3
      <4>2. QED
        BY <4>1, <2>1, <2>2
    <3>2. Descent(records, g, half) = Descent(records, h, half)
      BY <3>1, DescentAgrees DEF H
    <3>3. QED
      BY <3>2, <2>2
  <2>4. Right(h, m + 1)
    BY <2>3
  <2>5. QED
    BY <2>4
<1>4. n \in S
  <2> HIDE DEF S
  <2>1. QED
    BY <1>2, <1>3, SetInduction
<1>5. PICK g : Right(g, n)
  BY <1>4
<1>6. \A a \in H : g[a] = Descent(records, g, a)
  BY <1>1, <1>5
<1> DEFINE h == Once(g)
<1>7. \A a \in H : g[a] = h[a]
  BY <1>6
<1>8. h = Once(g)
  OBVIOUS
<1> HIDE DEF h
<1>9. \A half \in H : Descent(records, g, half) = Descent(records, h, half)
  BY <1>7, DescentAgrees DEF H
<1>10. h = Once(h)
  BY <1>8, <1>9
<1>11. QED
  BY <1>10 DEF H

\* The recursion of Halving is well founded: the equation that defines it has a
\* solution, and Halving is one.
LEMMA HalvingIs ==
    ASSUME NEW records \in Seq(Record), NEW half \in Halves(Len(records))
    PROVE  Halving(records)[half] = Descent(records, Halving(records), half)
PROOF
<1> DEFINE H == Halves(Len(records))
<1>1. Len(records) \in Nat
  OBVIOUS
<1>2. PICK g : g = [a \in H |-> Descent(records, g, a)]
  BY <1>1, DescentExists
<1>3. Halving(records) = CHOOSE h : h = [a \in H |-> IF a[1] >= a[2] THEN a[1]
                                                    ELSE h[Narrower(records, a)]]
  BY Zenon DEF Halving
<1>4. Halving(records) = CHOOSE h : h = [a \in H |-> Descent(records, h, a)]
  BY <1>3, Zenon DEF Descent
<1>5. Halving(records) = [a \in H |-> Descent(records, Halving(records), a)]
  BY <1>2, <1>4, Zenon
<1> HIDE DEF H
<1>6. half \in H
  BY DEF H
<1> DEFINE h == Halving(records)
<1>7. h = [a \in H |-> Descent(records, h, a)]
  BY <1>5
<1> HIDE DEF h
<1>8. h[half] = Descent(records, h, half)
  BY <1>6, <1>7
<1>9. QED
  BY <1>8 DEF h

\* The descent from a half ends at a record of that half.
LEMMA HalvingWithin ==
    ASSUME NEW records \in Seq(Record), NEW half \in Halves(Len(records)),
           half[1] <= half[2]
    PROVE  Halving(records)[half] \in half[1]..half[2]
PROOF
<1> DEFINE n == Len(records)
           H == Halves(n)
           h == Halving(records)
           Within(a) == h[a] \in a[1]..a[2]
           S == {m \in Nat : \A a \in H : a[1] <= a[2] /\ a[2] - a[1] < m => Within(a)}
<1>1. \A a \in H : a[1] \in 1..n /\ a[2] \in 1..n
  BY DEF Halves
<1>2. n \in Nat /\ half \in H
  OBVIOUS
<1>3. \A a \in H : h[a] = Descent(records, h, a)
  BY HalvingIs
<1>4. \A a \in H : a[1] < a[2] =>
        LET less == Narrower(records, a)
        IN  /\ less \in H /\ a[1] <= less[1] /\ less[1] <= less[2]
            /\ less[2] <= a[2] /\ less[2] - less[1] < a[2] - a[1]
  BY <1>2, NarrowerIs
<1> HIDE DEF H, h, n
<1>5. 0 \in S
  BY <1>1, <1>2
<1>6. ASSUME NEW m \in Nat, m \in S
      PROVE  m + 1 \in S
  <2>1. ASSUME NEW a \in H, a[1] <= a[2], a[2] - a[1] < m + 1
        PROVE  Within(a)
    <3>1. CASE a[1] = a[2]
      <4>1. Descent(records, h, a) = a[1]
        BY <1>1, <1>2, <3>1 DEF Descent
      <4>2. QED
        BY <1>1, <1>2, <1>3, <3>1, <4>1
    <3>2. CASE a[1] < a[2]
      <4> DEFINE less == Narrower(records, a)
      <4>1. /\ less \in H /\ a[1] <= less[1] /\ less[1] <= less[2]
            /\ less[2] <= a[2] /\ less[2] - less[1] < a[2] - a[1]
        BY <1>4, <3>2
      <4>2. ~(a[1] >= a[2])
        BY <1>1, <1>2, <3>2
      <4>3. h[a] = h[less]
        BY <1>3, <4>2 DEF Descent
      <4> HIDE DEF less
      <4>4. /\ a[1] \in Int /\ a[2] \in Int /\ less[1] \in Int /\ less[2] \in Int
        BY <1>1, <1>2, <4>1
      <4>5. less[2] - less[1] < m
        BY <4>1, <4>4, <2>1
      <4>6. Within(less)
        BY <1>6, <4>1, <4>5
      <4>7. QED
        BY <4>1, <4>3, <4>4, <4>6
    <3>3. QED
      BY <1>1, <1>2, <2>1, <3>1, <3>2
  <2>2. QED
    BY <2>1
<1>7. Nat \subseteq S
  <2> HIDE DEF S
  <2>1. QED
    BY <1>5, <1>6, SetInduction
<1>8. n + 1 \in S
  BY <1>2, <1>7
<1>9. half[2] - half[1] < n + 1
  BY <1>1, <1>2
<1>10. Within(half)
  BY <1>2, <1>8, <1>9
<1>11. QED
  BY <1>10 DEF h

\* Who is blamed is a record of the history, and refused by itself.
LEMMA OffenderIs ==
    ASSUME NEW records \in Seq(Record), Offender(records) # 0
    PROVE  /\ Offender(records) \in DOMAIN records
           /\ Refuses(<<records[Offender(records)]>>)
PROOF
<1> DEFINE found == Halving(records)[<<1, Len(records)>>]
<1>1. records # <<>>
  BY Zenon DEF Offender
<1>2. Offender(records) = IF Refuses(<<records[found]>>) THEN found ELSE 0
  BY Zenon DEF Offender
<1>3. found \in 1..Len(records)
  <2> DEFINE whole == <<1, Len(records)>>
  <2>1. Len(records) \in Nat /\ Len(records) >= 1
    BY <1>1
  <2>2. whole \in Halves(Len(records)) /\ whole[1] = 1 /\ whole[2] = Len(records)
    BY <2>1 DEF Halves
  <2> HIDE DEF whole
  <2>3. Halving(records)[whole] \in 1..Len(records)
    BY <2>1, <2>2, HalvingWithin
  <2>4. QED
    BY <2>3 DEF whole
<1> HIDE DEF found
<1>4. Refuses(<<records[found]>>) /\ Offender(records) = found
  BY <1>2, Zenon
<1>5. QED
  BY <1>3, <1>4

-----------------------------------------------------------------------------
(* The invariant.                                                          *)

\* What a job may be doing.
Allowed(j, r) ==
  /\ j = "turn" => r.doing \in {"idle", "begun", "turn", "probed", "summary", "chunks"}
  /\ j = "thread" => r.doing \in {"idle", "probe", "drop", "wrote", "save"}
  /\ j \in Commands => r.doing \in {"idle", "summary", "chunks", "title"}

\* The thread writes only when it found whom to blame, and while it is under
\* way the turn may wait for it.
JobsInPlace ==
  /\ job \in [Jobs -> JobState]
  /\ \A j \in Jobs : Allowed(j, job[j])
  /\ job["turn"].doing = "probed" => job["thread"].doing # "idle"
  /\ job["thread"].doing = "drop" => Offender(job["thread"].read) # 0

FilesTyped ==
  /\ hist \in Seq(Record) /\ meta \in Meta \cup {Gone}
  /\ said \in 0..MaxMessage /\ asked \in 0..MaxAsked /\ told \in Tiers \cup {None}
  /\ meta = Gone => hist = <<>>

\* A session that is gone has no title.
NameInPlace ==
  /\ named \in Titles \cup {None}
  /\ meta = Gone => named = None

StoreInv == JobsInPlace /\ FilesTyped /\ NameInPlace

\* What a step does to the title.
TitleGoesOn == TitleKept => TitleKept' \/ SavesOldTitle

\* A step leaves the files as they should be.
FilesGoOn == FilesTyped' /\ NameInPlace' /\ TitleGoesOn

LEMMA StoreInvTyped == StoreInv => TypeOK
PROOF
<1>1. "turn" \in Jobs /\ "thread" \in Jobs /\ Commands \subseteq Jobs
  BY DEF Jobs
<1>2. QED
  BY <1>1 DEF StoreInv, JobsInPlace, FilesTyped, NameInPlace, TypeOK, Allowed

-----------------------------------------------------------------------------
(* The parts the actions are made of.                                      *)

LEMMA MetaThere ==
    ASSUME NEW m \in Meta
    PROVE  m # Gone
PROOF
<1>1. DOMAIN m = {"title", "tier"} /\ DOMAIN Gone = {"title"}
  BY DEF Meta, Gone
<1>2. "tier" \in DOMAIN m /\ "tier" \notin DOMAIN Gone
  BY <1>1
<1>3. QED
  BY <1>2

LEMMA OpenedIs ==
    ASSUME FilesTyped, NameInPlace
    PROVE  /\ Opened \in Meta /\ Opened.tier \in Tiers \cup {None} /\ Opened # Gone
           /\ TitleKept => Opened.title = named
PROOF
<1>1. CASE meta = Gone
  <2>1. Opened = Fresh /\ named = None
    BY <1>1 DEF Opened, NameInPlace
  <2>2. Fresh \in Meta /\ Fresh.title = None /\ Fresh.tier = None
    BY DEF Fresh, Meta
  <2>3. QED
    BY <2>1, <2>2, MetaThere
<1>2. CASE meta # Gone
  <2>1. Opened = meta /\ meta \in Meta
    BY <1>2 DEF Opened, FilesTyped
  <2>2. meta.tier \in Tiers \cup {None}
    BY <2>1 DEF Meta
  <2>3. TitleKept => Opened.title = named
    BY <1>2, <2>1 DEF TitleKept
  <2>4. QED
    BY <1>2, <2>1, <2>2, <2>3
<1>3. QED
  BY <1>1, <1>2

LEMMA SavedIs ==
    ASSUME NEW tier \in Tiers \cup {None}, NEW m \in Meta
    PROVE  Saved(tier, m) \in Meta /\ Saved(tier, m).title = m.title /\ Saved(tier, m) # Gone
PROOF
<1>1. Saved(tier, m) \in Meta /\ Saved(tier, m).title = m.title
  BY DEF Saved, Meta
<1>2. QED
  BY <1>1, MetaThere

LEMMA RenamedIs ==
    ASSUME NEW tier \in Tiers \cup {None}, NEW t \in Titles
    PROVE  Renamed(tier, t) \in Meta /\ Renamed(tier, t).title = t /\ Renamed(tier, t) # Gone
PROOF
<1>1. Renamed(tier, t) \in Meta /\ Renamed(tier, t).title = t
  BY DEF Renamed, Meta
<1>2. QED
  BY <1>1, MetaThere

\* A meta that a save or a rename wrote keeps the title.
LEMMA TitleWritten ==
    ASSUME meta' \in Meta, named' \in Titles \cup {None},
           TitleKept => meta'.title = named' \/ SavesOldTitle
    PROVE  NameInPlace' /\ TitleGoesOn
PROOF
<1>1. meta' # Gone
  BY MetaThere
<1>2. Gone' = Gone
  BY DEF Gone
<1>3. NameInPlace'
  BY <1>1, <1>2 DEF NameInPlace
<1>4. meta'.title = named' => TitleKept'
  BY DEF TitleKept
<1>5. QED
  BY <1>3, <1>4 DEF TitleGoesOn

LEMMA TitleUntouched ==
    ASSUME NameInPlace, UNCHANGED <<meta, named>>
    PROVE  NameInPlace' /\ TitleGoesOn
PROOF
<1>1. NameInPlace' /\ (TitleKept => TitleKept')
  BY DEF NameInPlace, TitleKept, Gone
<1>2. QED
  BY <1>1 DEF TitleGoesOn

LEMMA IdleType == Idle \in JobState /\ \A j \in Jobs : Allowed(j, Idle)
PROOF
<1>1. Idle \in JobState
  <2>1. <<>> \in Seq(Record) /\ 0 \in 0..MaxMessage
    BY StoreAssumption
  <2>2. QED
    BY <2>1 DEF Idle, JobState
<1>2. QED
  BY <1>1 DEF Idle, Allowed

-----------------------------------------------------------------------------
(* What the jobs do.                                                       *)

LEMMA JobsApart ==
  /\ "turn" \in Jobs /\ "thread" \in Jobs
  /\ \A c \in Commands : c \in Jobs /\ c # "turn" /\ c # "thread"
  /\ \A j \in Jobs : j = "turn" \/ j = "thread" \/ j \in Commands
PROOF
BY StoreAssumption DEF Jobs

LEMMA JobsUntouched ==
    ASSUME JobsInPlace, UNCHANGED job
    PROVE  JobsInPlace'
PROOF
BY DEF JobsInPlace

\* Waiting for a summary is never the thread's.
LEMMA WaitsNotThread ==
    ASSUME JobsInPlace, NEW j \in Jobs, job[j].doing \in {"summary", "chunks", "title"}
    PROVE  j # "thread"
PROOF
BY DEF JobsInPlace, Allowed

\* The turn or a handler goes on to something of its own.
LEMMA GoesInPlace ==
    ASSUME JobsInPlace, NEW j \in Jobs, j # "thread", NEW r \in JobState,
           Allowed(j, r), r.doing # "probed", Goes(j, r)
    PROVE  JobsInPlace'
PROOF
<1>1. /\ job \in [Jobs -> JobState]
      /\ \A k \in Jobs : Allowed(k, job[k])
      /\ job["turn"].doing = "probed" => job["thread"].doing # "idle"
      /\ job["thread"].doing = "drop" => Offender(job["thread"].read) # 0
  BY DEF JobsInPlace
<1>2. job' = [job EXCEPT ![j] = r]
  BY DEF Goes
<1>3. job' \in [Jobs -> JobState]
  BY <1>1, <1>2
<1>4. job'[j] = r /\ \A k \in Jobs \ {j} : job'[k] = job[k]
  BY <1>1, <1>2
<1>5. \A k \in Jobs : Allowed(k, job'[k])
  <2>1. ASSUME NEW k \in Jobs
        PROVE  Allowed(k, job'[k])
    <3>1. CASE k = j
      BY <3>1, <1>4
    <3>2. CASE k # j
      <4>1. job'[k] = job[k]
        BY <3>2, <1>4
      <4>2. QED
        BY <4>1, <1>1
    <3>3. QED
      BY <3>1, <3>2
  <2>2. QED
    BY <2>1
<1>6. job'["thread"] = job["thread"]
  BY <1>4, JobsApart
<1>7. job'["turn"].doing = "probed" => job["turn"].doing = "probed"
  BY <1>4, JobsApart
<1>8. QED
  BY <1>1, <1>3, <1>5, <1>6, <1>7 DEF JobsInPlace

LEMMA ReturnsInPlace ==
    ASSUME JobsInPlace, NEW j \in Jobs, j # "thread", Returns(j)
    PROVE  JobsInPlace'
PROOF
<1>1. job[j] \in JobState
  BY DEF JobsInPlace
<1>2. CASE j = "turn"
  <2> DEFINE r == [Idle EXCEPT !.doing = "turn", !.tier = job[j].tier]
  <2>1. Goes(j, r)
    BY <1>2 DEF Returns
  <2>2. r \in JobState /\ r.doing = "turn"
    <3>1. job[j].tier \in Tiers \cup {None}
      BY <1>1 DEF JobState
    <3>2. QED
      BY <3>1, IdleType DEF JobState
  <2> HIDE DEF r
  <2>3. Allowed(j, r)
    BY <1>2, <2>2, JobsApart DEF Allowed
  <2>4. QED
    BY <2>1, <2>2, <2>3, GoesInPlace
<1>3. CASE j # "turn"
  <2>1. Goes(j, Idle)
    BY <1>3 DEF Returns
  <2>2. Idle.doing # "probed"
    BY DEF Idle
  <2>3. QED
    BY <2>1, <2>2, IdleType, GoesInPlace
<1>4. QED
  BY <1>2, <1>3

LEMMA HoldingType ==
    ASSUME NEW read \in Seq(Record), NEW tier \in Tiers \cup {None},
           NEW doing \in {"summary", "title", "probe"}
    PROVE  /\ Holding(doing, tier, read) \in JobState
           /\ Holding(doing, tier, read).doing = doing
PROOF
BY IdleType DEF Holding, JobState

LEMMA ThreadEndsInPlace ==
    ASSUME JobsInPlace, ThreadEnds
    PROVE  JobsInPlace'
PROOF
<1> DEFINE doing == IF job["turn"].doing = "probed" THEN "turn" ELSE job["turn"].doing
           turn == [job["turn"] EXCEPT !.doing = doing]
<1>1. /\ job \in [Jobs -> JobState]
      /\ \A k \in Jobs : Allowed(k, job[k])
  BY DEF JobsInPlace
<1>2. job["turn"] \in JobState /\ Allowed("turn", job["turn"])
  BY <1>1, JobsApart
<1>3. doing \in {"idle", "begun", "turn", "summary", "chunks"}
  BY <1>2 DEF Allowed
<1>5. job' = [[job EXCEPT !["thread"] = Idle] EXCEPT !["turn"] = turn]
  <2>1. [job EXCEPT !["thread"] = Idle]["turn"] = job["turn"]
    BY <1>1, JobsApart
  <2>2. job' = [[job EXCEPT !["thread"] = Idle] EXCEPT
                  !["turn"].doing = IF @ = "probed" THEN "turn" ELSE @]
    BY DEF ThreadEnds
  <2>3. QED
    BY <2>1, <2>2
<1> HIDE DEF doing
<1>6. turn \in JobState /\ turn.doing = doing
  BY <1>2, <1>3 DEF JobState
<1> HIDE DEF turn
<1>7. Allowed("turn", turn)
  BY <1>3, <1>6, JobsApart DEF Allowed
<1>8. job' \in [Jobs -> JobState]
  BY <1>1, <1>5, <1>6, IdleType
<1>9. /\ job'["turn"] = turn /\ job'["thread"] = Idle
      /\ \A k \in Jobs : k # "turn" /\ k # "thread" => job'[k] = job[k]
  BY <1>1, <1>5, JobsApart
<1>10. ASSUME NEW k \in Jobs
       PROVE  Allowed(k, job'[k])
  <2>1. CASE k = "turn"
    BY <2>1, <1>7, <1>9
  <2>2. CASE k = "thread"
    BY <2>2, <1>9, IdleType
  <2>3. CASE k # "turn" /\ k # "thread"
    <3>1. job'[k] = job[k]
      BY <2>3, <1>9
    <3>2. QED
      BY <3>1, <1>1
  <2>4. QED
    BY <2>1, <2>2, <2>3
<1>11. job'["turn"].doing # "probed" /\ job'["thread"].doing # "drop"
  BY <1>3, <1>6, <1>9 DEF Idle
<1>12. QED
  BY <1>8, <1>10, <1>11 DEF JobsInPlace

\* The thread goes on to the next step of its write.
LEMMA ThreadGoesInPlace ==
    ASSUME JobsInPlace, NEW r \in JobState, r.doing \in {"drop", "wrote", "save"},
           r.doing = "drop" => Offender(r.read) # 0, Goes("thread", r)
    PROVE  JobsInPlace'
PROOF
<1>1. /\ job \in [Jobs -> JobState]
      /\ \A k \in Jobs : Allowed(k, job[k])
  BY DEF JobsInPlace
<1>2. job' = [job EXCEPT !["thread"] = r]
  BY DEF Goes
<1>3. /\ job'["thread"] = r /\ \A k \in Jobs : k # "thread" => job'[k] = job[k]
      /\ job' \in [Jobs -> JobState]
  BY <1>1, <1>2, JobsApart
<1>4. ASSUME NEW k \in Jobs
      PROVE  Allowed(k, job'[k])
  <2>1. CASE k = "thread"
    BY <2>1, <1>3, JobsApart DEF Allowed
  <2>2. CASE k # "thread"
    <3>1. job'[k] = job[k]
      BY <2>2, <1>3
    <3>2. QED
      BY <3>1, <1>1
  <2>3. QED
    BY <2>1, <2>2
<1>5. job'["thread"].doing # "idle"
  BY <1>3
<1>6. job'["thread"].doing = "drop" => Offender(job'["thread"].read) # 0
  BY <1>3
<1>7. QED
  BY <1>3, <1>4, <1>5, <1>6 DEF JobsInPlace

LEMMA TurnAppendsInPlace ==
    ASSUME JobsInPlace, NEW rs, NEW round \in 0..MaxMessage, TurnAppends(rs, round)
    PROVE  JobsInPlace'
PROOF
<1>1. job["turn"] \in JobState
  BY JobsApart DEF JobsInPlace
<1>2. CASE Goes("turn", Idle)
  <2>1. Idle.doing # "probed"
    BY DEF Idle
  <2>2. QED
    BY <1>2, <2>1, IdleType, JobsApart, GoesInPlace
<1>3. CASE Goes("turn", [job["turn"] EXCEPT !.doing = "turn", !.round = round])
  <2> DEFINE r == [job["turn"] EXCEPT !.doing = "turn", !.round = round]
  <2>1. r \in JobState /\ r.doing = "turn"
    BY <1>1 DEF JobState
  <2>2. Goes("turn", r)
    BY <1>3
  <2> HIDE DEF r
  <2>3. Allowed("turn", r)
    BY <2>1, JobsApart DEF Allowed
  <2>4. QED
    BY <2>1, <2>2, <2>3, JobsApart, GoesInPlace
<1>4. QED
  BY <1>2, <1>3 DEF TurnAppends

LEMMA TurnBeginsInPlace ==
    ASSUME StoreInv, TurnBegins
    PROVE  JobsInPlace'
PROOF
<1> DEFINE r == [Idle EXCEPT !.doing = "begun", !.tier = Opened.tier]
<1>1. Opened.tier \in Tiers \cup {None}
  BY OpenedIs DEF StoreInv
<1>2. r \in JobState /\ r.doing = "begun"
  BY <1>1, IdleType DEF JobState
<1>3. Goes("turn", r)
  BY DEF TurnBegins
<1> HIDE DEF r
<1>4. Allowed("turn", r)
  BY <1>2, JobsApart DEF Allowed
<1>5. QED
  BY <1>2, <1>3, <1>4, JobsApart, GoesInPlace DEF StoreInv

LEMMA TurnCompactsInPlace ==
    ASSUME StoreInv, TurnCompacts
    PROVE  JobsInPlace'
PROOF
<1> DEFINE r == [job["turn"] EXCEPT !.doing = "summary", !.read = hist]
<1>1. hist \in Seq(Record) /\ job["turn"] \in JobState
  BY JobsApart DEF StoreInv, FilesTyped, JobsInPlace
<1>2. r \in JobState /\ r.doing = "summary"
  BY <1>1 DEF JobState
<1>3. Goes("turn", r)
  BY DEF TurnCompacts
<1> HIDE DEF r
<1>4. Allowed("turn", r)
  BY <1>2, JobsApart DEF Allowed
<1>5. QED
  BY <1>2, <1>3, <1>4, JobsApart, GoesInPlace DEF StoreInv

LEMMA WaitsInPlace ==
    ASSUME StoreInv, NEW c \in Commands, NEW doing \in {"summary", "title"},
           NEW read \in Seq(Record), Waits(c, doing, read)
    PROVE  JobsInPlace'
PROOF
<1> DEFINE r == Holding(doing, Opened.tier, read)
<1>1. Opened.tier \in Tiers \cup {None}
  BY OpenedIs DEF StoreInv
<1>2. r \in JobState /\ r.doing = doing
  BY <1>1, HoldingType
<1>3. Goes(c, r)
  BY DEF Waits
<1> HIDE DEF r
<1>4. Allowed(c, r)
  BY <1>2, JobsApart DEF Allowed
<1>5. QED
  BY <1>2, <1>3, <1>4, JobsApart, GoesInPlace DEF StoreInv

LEMMA TooLongInPlace ==
    ASSUME JobsInPlace, NEW j \in Jobs, TooLong(j)
    PROVE  JobsInPlace'
PROOF
<1> DEFINE r == [job[j] EXCEPT !.doing = "chunks"]
<1>1. job[j].doing = "summary" /\ Goes(j, r)
  BY DEF TooLong
<1>2. job[j] \in JobState
  BY DEF JobsInPlace
<1>3. r \in JobState /\ r.doing = "chunks"
  BY <1>2 DEF JobState
<1> HIDE DEF r
<1>4. j # "thread"
  BY <1>1, WaitsNotThread
<1>5. Allowed(j, r)
  BY <1>3, <1>4 DEF Allowed
<1>6. QED
  BY <1>1, <1>3, <1>4, <1>5, GoesInPlace

LEMMA TurnScrubsInPlace ==
    ASSUME StoreInv, TurnScrubs
    PROVE  JobsInPlace'
PROOF
<1> DEFINE turn == [job["turn"] EXCEPT !.doing = "probed"]
           thread == Holding("probe", job["turn"].tier, hist)
<1>1. /\ job \in [Jobs -> JobState]
      /\ \A k \in Jobs : Allowed(k, job[k])
      /\ hist \in Seq(Record)
  BY DEF StoreInv, JobsInPlace, FilesTyped
<1>2. job["turn"] \in JobState
  BY <1>1, JobsApart
<1>3. turn \in JobState /\ turn.doing = "probed"
  BY <1>2 DEF JobState
<1>4. thread \in JobState /\ thread.doing = "probe"
  <2>1. job["turn"].tier \in Tiers \cup {None}
    BY <1>2 DEF JobState
  <2>2. QED
    BY <1>1, <2>1, HoldingType
<1>5. job' = [[job EXCEPT !["turn"] = turn] EXCEPT !["thread"] = thread]
  <2>1. job' = [[job EXCEPT !["turn"].doing = "probed"] EXCEPT !["thread"] = thread]
    BY DEF TurnScrubs
  <2> HIDE DEF thread
  <2>2. [job EXCEPT !["turn"].doing = "probed"] = [job EXCEPT !["turn"] = turn]
    BY <1>1, JobsApart
  <2>3. QED
    BY <2>1, <2>2
<1> HIDE DEF turn, thread
<1>6. job' \in [Jobs -> JobState]
  BY <1>1, <1>3, <1>4, <1>5
<1>7. /\ job'["turn"] = turn /\ job'["thread"] = thread
      /\ \A k \in Jobs : k # "turn" /\ k # "thread" => job'[k] = job[k]
  BY <1>1, <1>5, JobsApart
<1>8. ASSUME NEW k \in Jobs
      PROVE  Allowed(k, job'[k])
  <2>1. CASE k = "turn"
    BY <2>1, <1>3, <1>7, JobsApart DEF Allowed
  <2>2. CASE k = "thread"
    BY <2>2, <1>4, <1>7, JobsApart DEF Allowed
  <2>3. CASE k # "turn" /\ k # "thread"
    <3>1. job'[k] = job[k]
      BY <2>3, <1>7
    <3>2. QED
      BY <3>1, <1>1
  <2>4. QED
    BY <2>1, <2>2, <2>3
<1>9. QED
  BY <1>4, <1>6, <1>7, <1>8 DEF JobsInPlace

LEMMA ResolvedInPlace ==
    ASSUME StoreInv, Resolved
    PROVE  JobsInPlace'
PROOF
<1> DEFINE r == [job["thread"] EXCEPT !.doing = "drop", !.again = hist]
<1>1. job["thread"] \in JobState /\ hist \in Seq(Record)
  BY JobsApart DEF StoreInv, JobsInPlace, FilesTyped
<1>2. Offender(job["thread"].read) # 0
  BY DEF Resolved
<1>3. CASE ThreadEnds
  BY <1>3, ThreadEndsInPlace DEF StoreInv
<1>4. CASE Goes("thread", r)
  <2>1. r \in JobState /\ r.doing = "drop" /\ r.read = job["thread"].read
    BY <1>1 DEF JobState
  <2> HIDE DEF r
  <2>2. QED
    BY <1>2, <1>4, <2>1, ThreadGoesInPlace DEF StoreInv
<1>5. QED
  BY <1>3, <1>4 DEF Resolved

LEMMA DropsInPlace ==
    ASSUME StoreInv, Drops
    PROVE  JobsInPlace'
PROOF
<1> DEFINE r == [Idle EXCEPT !.doing = "wrote", !.tier = job["thread"].tier]
<1>1. job["thread"].tier \in Tiers \cup {None}
  BY JobsApart DEF StoreInv, JobsInPlace, JobState
<1>2. CASE ThreadEnds
  BY <1>2, ThreadEndsInPlace DEF StoreInv
<1>3. CASE Goes("thread", r)
  <2>1. r \in JobState /\ r.doing = "wrote"
    BY <1>1, IdleType DEF JobState
  <2> HIDE DEF r
  <2>2. QED
    BY <1>3, <2>1, ThreadGoesInPlace DEF StoreInv
<1>4. QED
  BY <1>2, <1>3 DEF Drops

LEMMA ReadsTitleInPlace ==
    ASSUME StoreInv, ReadsTitle
    PROVE  JobsInPlace'
PROOF
<1> DEFINE r == [job["thread"] EXCEPT !.doing = "save", !.title = meta.title]
<1>1. job["thread"] \in JobState
  BY JobsApart DEF StoreInv, JobsInPlace
<1>2. meta.title \in Titles \cup {None}
  BY DEF StoreInv, FilesTyped, Meta, Gone
<1>3. r \in JobState /\ r.doing = "save"
  BY <1>1, <1>2 DEF JobState
<1>4. Goes("thread", r)
  BY DEF ReadsTitle
<1> HIDE DEF r
<1>5. QED
  BY <1>3, <1>4, ThreadGoesInPlace DEF StoreInv

LEMMA JobsStep ==
    ASSUME StoreInv, Next
    PROVE  JobsInPlace'
PROOF
<1>1. JobsInPlace
  BY DEF StoreInv
<1>2. ASSUME NEW j \in Jobs, job[j].doing \in {"summary", "chunks"}, Returns(j)
      PROVE  JobsInPlace'
  BY <1>1, <1>2, WaitsNotThread, ReturnsInPlace
<1>3. ASSUME NEW j \in Jobs, j # "thread", Goes(j, Idle)
      PROVE  JobsInPlace'
  <2>1. Idle.doing # "probed"
    BY DEF Idle
  <2>2. QED
    BY <1>1, <1>3, <2>1, IdleType, GoesInPlace
<1>4. said + 1 \in 1..MaxMessage \/ ~(said < MaxMessage)
  BY StoreAssumption DEF StoreInv, FilesTyped
<1>5. ASSUME NEW rs, TurnAppends(rs, 0)
      PROVE  JobsInPlace'
  <2>1. 0 \in 0..MaxMessage
    BY StoreAssumption
  <2>2. QED
    BY <1>1, <1>5, <2>1, TurnAppendsInPlace
<1>6. CASE TurnBegins
  BY <1>6, TurnBeginsInPlace
<1>7. CASE TurnPrompts
  BY <1>5, <1>7 DEF TurnPrompts
<1>8. CASE TurnSays
  BY <1>5, <1>8 DEF TurnSays
<1>9. CASE TurnCalls
  <2>1. said < MaxMessage
    BY <1>9 DEF TurnCalls, TurnAppends
  <2>2. said + 1 \in 0..MaxMessage
    BY <1>4, <2>1, StoreAssumption
  <2>3. QED
    BY <1>1, <1>9, <2>2, TurnAppendsInPlace DEF TurnCalls
<1>10. CASE TurnResult
  BY <1>5, <1>10 DEF TurnResult
<1>11. CASE TurnEnds
  BY <1>3, <1>11, JobsApart DEF TurnEnds
<1>12. CASE TurnCompacts
  BY <1>12, TurnCompactsInPlace
<1>13. CASE TurnScrubs
  BY <1>13, TurnScrubsInPlace
<1>14. CASE Unresolved \/ SavesMeta
  BY <1>1, <1>14, ThreadEndsInPlace DEF Unresolved, SavesMeta
<1>15. CASE Resolved
  BY <1>15, ResolvedInPlace
<1>16. ASSUME NEW c \in Commands, HostCompacts(c) \/ AsksTitle(c)
       PROVE  JobsInPlace'
  <2>1. <<>> \in Seq(Record) /\ hist \in Seq(Record)
    BY DEF StoreInv, FilesTyped
  <2>2. QED
    BY <1>16, <2>1, WaitsInPlace DEF HostCompacts, AsksTitle
<1>17. ASSUME NEW c \in Commands, NEW t \in Titles, Titled(c, t)
       PROVE  JobsInPlace'
  BY <1>3, <1>17, JobsApart DEF Titled
<1>18. ASSUME NEW j \in Jobs, TooLong(j)
       PROVE  JobsInPlace'
  BY <1>1, <1>18, TooLongInPlace
<1>19. ASSUME NEW j \in Jobs, Fails(j)
       PROVE  JobsInPlace'
  BY <1>2, <1>19 DEF Fails
<1>20. ASSUME NEW j \in Jobs, NEW over, NEW left, Compacts(j, over, left)
       PROVE  JobsInPlace'
  BY <1>2, <1>20 DEF Compacts
<1>21. CASE UNCHANGED job
  BY <1>1, <1>21, JobsUntouched
<1>22. CASE Drops
  BY <1>22, DropsInPlace
<1>23. CASE ReadsTitle
  BY <1>23, ReadsTitleInPlace
<1>24. QED
  BY <1>6, <1>7, <1>8, <1>9, <1>10, <1>11, <1>12, <1>13, <1>14, <1>15, <1>16, <1>17,
     <1>18, <1>19, <1>20, <1>21, <1>22, <1>23
  DEF Next, Rename, SetSandbox, Rewind, Clear, Opens, Delete

-----------------------------------------------------------------------------
(* What is written to the files.                                           *)

LEMMA SpokenTypes ==
    ASSUME said < MaxMessage, FilesTyped, NEW round \in 0..MaxMessage
    PROVE  /\ said + 1 \in 0..MaxMessage /\ 0 \in 0..MaxMessage
           /\ Message(said + 1) \in Record /\ Context \in Record /\ Note \in Record
           /\ Uncut("message", {said + 1}, said + 1) \in Record
           /\ Uncut("tool_result", {said + 1}, round) \in Record
PROOF
<1>1. said + 1 \in 1..MaxMessage /\ said + 1 \in 0..MaxMessage /\ 0 \in 0..MaxMessage
  BY StoreAssumption DEF FilesTyped
<1>2. {said + 1} \subseteq 1..MaxMessage
  BY <1>1
<1>3. ASSUME NEW type \in Types, NEW says \in SUBSET (1..MaxMessage), NEW n \in 0..MaxMessage
      PROVE  Uncut(type, says, n) \in Record
  BY <1>3 DEF Uncut, Record
<1>4. Message(said + 1) \in Record /\ Context \in Record /\ Note \in Record
  BY <1>1, <1>2, <1>3 DEF Message, Context, Note, Types
<1>5. /\ Uncut("message", {said + 1}, said + 1) \in Record
      /\ Uncut("tool_result", {said + 1}, round) \in Record
  BY <1>1, <1>2, <1>3 DEF Types
<1>6. QED
  BY <1>1, <1>4, <1>5

\* The last records, at their places from the end.
LEMMA RecentIs ==
    ASSUME NEW s \in Seq(Record)
    PROVE  /\ Recent(s) \in Seq(Record)
           /\ \A i \in DOMAIN s : i > Len(s) - Keep =>
                LET k == Len(Recent(s)) + i - Len(s)
                IN  k \in 1..Len(Recent(s)) /\ Recent(s)[k] = s[i]
PROOF
<1>1. Keep \in Nat /\ Len(s) \in Nat /\ DOMAIN s = 1..Len(s)
  BY StoreAssumption
<1>2. CASE Len(s) <= Keep
  <2>1. Recent(s) = s
    BY <1>2 DEF Recent
  <2>2. \A i \in DOMAIN s : Len(s) + i - Len(s) = i /\ i \in 1..Len(s)
    BY <1>1
  <2>3. QED
    BY <2>1, <2>2
<1>3. CASE ~(Len(s) <= Keep)
  <2> DEFINE m == Len(s) - Keep + 1
             t == SubSeq(s, m, Len(s))
  <2>1. Recent(s) = t
    BY <1>3 DEF Recent
  <2>2. m \in 1..Len(s) /\ m <= Len(s) /\ Len(s) - m + 1 = Keep
    BY <1>1, <1>3, StoreAssumption
  <2>3. \A i \in m..Len(s) : s[i] \in Record
    BY <1>1, <2>2
  <2> HIDE DEF m
  <2>4. /\ t \in Seq(Record) /\ Len(t) = Keep
        /\ \A k \in 1..Keep : t[k] = s[m + k - 1]
    BY <1>1, <2>2, <2>3, SubSeqProperties
  <2> HIDE DEF t
  <2>5. ASSUME NEW i \in DOMAIN s, i > Len(s) - Keep
        PROVE  Keep + i - Len(s) \in 1..Keep /\ t[Keep + i - Len(s)] = s[i]
    <3> DEFINE k == Keep + i - Len(s)
    <3>1. k \in 1..Keep /\ m + k - 1 = i
      <4>1. ASSUME NEW n \in Nat, NEW keep \in Nat, NEW q \in 1..n, q > n - keep
            PROVE  keep + q - n \in 1..keep /\ (n - keep + 1) + (keep + q - n) - 1 = q
        BY <4>1
      <4>2. i \in 1..Len(s)
        BY <1>1
      <4>3. QED
        BY <1>1, <2>5, <4>1, <4>2 DEF m
    <3> HIDE DEF k
    <3>2. t[k] = s[i]
      BY <2>4, <3>1
    <3>3. QED
      BY <3>1, <3>2 DEF k
  <2>6. QED
    BY <2>1, <2>4, <2>5
<1>4. QED
  BY <1>2, <1>3

\* Trimming marks a record or leaves it as it is.
LEMMA FittedIs ==
    ASSUME NEW s \in Seq(Record), NEW over, NEW left \in Trims(s, over)
    PROVE  /\ Fitted(s, over, left) \in Seq(Record)
           /\ Len(Fitted(s, over, left)) = Len(s)
           /\ \A k \in 1..Len(s) :
                /\ Fitted(s, over, left)[k].type = s[k].type
                /\ Fitted(s, over, left)[k].cut \/ Fitted(s, over, left)[k] = s[k]
PROOF
<1> DEFINE trimmed(k) == [s[k] EXCEPT !.says = left[k], !.cut = TRUE]
           new == Fitted(s, over, left)
<1>1. Len(s) \in Nat /\ DOMAIN s = 1..Len(s)
  OBVIOUS
<1>2. ASSUME NEW k \in 1..Len(s)
      PROVE  trimmed(k) \in Record /\ trimmed(k).type = s[k].type /\ trimmed(k).cut
  <2>1. PICK r \in Record : r = s[k]
    BY <1>1
  <2>2. PICK says \in SUBSET (1..MaxMessage) : says = left[k]
    <3>1. left[k] \subseteq s[k].says
      BY <1>1 DEF Trims
    <3>2. s[k].says \subseteq 1..MaxMessage
      BY <2>1 DEF Record
    <3>3. QED
      BY <3>1, <3>2
  <2>3. trimmed(k) = [r EXCEPT !.says = says, !.cut = TRUE]
    BY <2>1, <2>2
  <2>4. [r EXCEPT !.says = says, !.cut = TRUE] \in Record
    BY DEF Record
  <2>5. [r EXCEPT !.says = says, !.cut = TRUE].type = r.type
    BY DEF Record
  <2>6. [r EXCEPT !.says = says, !.cut = TRUE].cut
    BY DEF Record
  <2>7. QED
    BY <2>1, <2>3, <2>4, <2>5, <2>6
<1>3. new = [k \in 1..Len(s) |-> IF k \in over THEN trimmed(k) ELSE s[k]]
  BY <1>1 DEF Fitted
<1> HIDE DEF trimmed
<1>4. \A k \in 1..Len(s) : new[k] \in Record /\ new[k].type = s[k].type
                           /\ (new[k].cut \/ new[k] = s[k])
  BY <1>1, <1>2, <1>3
<1>5. new \in Seq(Record) /\ Len(new) = Len(s)
  <2>1. \A k \in 1..Len(s) : (IF k \in over THEN trimmed(k) ELSE s[k]) \in Record
    BY <1>1, <1>2
  <2>2. QED
    BY <1>1, <1>3, <2>1
<1> HIDE DEF new
<1>6. QED
  BY <1>4, <1>5 DEF new

LEMMA PrefixIs ==
    ASSUME NEW s \in Seq(Record), NEW n \in 0..Len(s)
    PROVE  /\ SubSeq(s, 1, n) \in Seq(Record) /\ Len(SubSeq(s, 1, n)) = n
           /\ \A i \in 1..n : SubSeq(s, 1, n)[i] = s[i]
PROOF
<1>1. Len(s) \in Nat /\ n \in Int
  OBVIOUS
<1>2. \A i \in 1..n : s[i] \in Record
  BY <1>1
<1>3. /\ SubSeq(s, 1, n) \in Seq(Record)
      /\ Len(SubSeq(s, 1, n)) = IF 1 <= n THEN n - 1 + 1 ELSE 0
      /\ \A i \in 1..(n - 1 + 1) : SubSeq(s, 1, n)[i] = s[1 + i - 1]
  BY <1>1, <1>2, SubSeqProperties
<1>4. QED
  BY <1>1, <1>3

LEMMA SummarisedType ==
    ASSUME JobsInPlace, NEW j \in Jobs
    PROVE  Summarised(j) \subseteq 1..MaxMessage
PROOF
<1> DEFINE read == job[j].read
           early == SubSeq(read, 1, Len(read) - Keep)
<1>1. read \in Seq(Record)
  BY DEF JobsInPlace, JobState
<1>2. Len(read) \in Nat /\ Keep \in Nat
  BY <1>1, StoreAssumption
<1>3. early \in Seq(Record)
  <2> HIDE DEF read
  <2>1. CASE Len(read) - Keep >= 0
    <3>1. PICK m \in 0..Len(read) : m = Len(read) - Keep
      BY <1>2, <2>1
    <3>2. SubSeq(read, 1, m) \in Seq(Record)
      BY <1>1, PrefixIs
    <3>3. early = SubSeq(read, 1, m)
      BY <3>1
    <3> HIDE DEF early
    <3>4. QED
      BY <3>2, <3>3
  <2>2. CASE Len(read) - Keep < 0
    <3>1. Len(read) - Keep \in Int /\ Len(read) - Keep < 1
      BY <1>2, <2>2
    <3>2. early = <<>>
      BY <3>1, SubSeqEmpty
    <3> HIDE DEF early
    <3>3. QED
      BY <3>2
  <2>3. QED
    BY <1>2, <2>1, <2>2
<1>4. Summarised(j) = IF job[j].doing = "summary" THEN Said(read) ELSE Said(early)
  BY DEF Summarised
<1> HIDE DEF read, early
<1>5. QED
  BY <1>1, <1>3, <1>4, SaidType

\* Which of the recent records are over their share, what is left of them.
Trimming(over, left) ==
  over \subseteq DOMAIN Recent(hist) /\ left \in Trims(Recent(hist), over)

\* The history after a compaction.
Compacted(j, over, left) ==
  <<Uncut("summary", Summarised(j), 0)>> \o Fitted(Recent(hist), over, left)

LEMMA CompactedIs ==
    ASSUME StoreInv, NEW j \in Jobs, NEW over, NEW left, Trimming(over, left)
    PROVE  LET new == Compacted(j, over, left)
           IN  /\ new \in Seq(Record) /\ Summarised(j) \subseteq Said(new)
               /\ \A i \in DOMAIN hist : i > Len(hist) - Keep =>
                    LET k == Len(new) + i - Len(hist)
                    IN  /\ k \in DOMAIN new /\ new[k].type = hist[i].type
                        /\ new[k].cut \/ new[k] = hist[i]
PROOF
<1> DEFINE summary == Uncut("summary", Summarised(j), 0)
           t == Recent(hist)
           f == Fitted(t, over, left)
           new == <<summary>> \o f
<1>1. hist \in Seq(Record) /\ Summarised(j) \subseteq 1..MaxMessage
  BY SummarisedType DEF StoreInv, FilesTyped
<1>2. summary \in Record /\ summary.says = Summarised(j)
  BY <1>1, StoreAssumption DEF Uncut, Record, Types
<1>3. /\ t \in Seq(Record)
      /\ \A i \in DOMAIN hist : i > Len(hist) - Keep =>
           Len(t) + i - Len(hist) \in 1..Len(t) /\ t[Len(t) + i - Len(hist)] = hist[i]
  BY <1>1, RecentIs
<1>4. new = Compacted(j, over, left)
  BY DEF Compacted
<1>5. /\ f \in Seq(Record) /\ Len(f) = Len(t)
      /\ \A k \in 1..Len(t) : f[k].type = t[k].type /\ (f[k].cut \/ f[k] = t[k])
  <2>1. left \in Trims(t, over)
    BY DEF Trimming
  <2> HIDE DEF t
  <2>2. QED
    BY <1>3, <2>1, FittedIs
<1> HIDE DEF summary, f, t
<1>6. <<summary>> \in Seq(Record) /\ Len(<<summary>>) = 1 /\ <<summary>>[1] = summary
  BY <1>2
<1>7. new \in Seq(Record)
  BY <1>5, <1>6
<1>8. /\ DOMAIN new = 1..(1 + Len(t)) /\ new[1] = summary /\ Len(new) = 1 + Len(t)
      /\ \A k \in 1..Len(t) : k + 1 \in DOMAIN new /\ new[k + 1] = f[k]
  BY <1>3, <1>5, <1>6
<1> HIDE DEF new
<1>9. summary.says \subseteq Said(new)
  <2>1. 1 \in DOMAIN new
    BY <1>3, <1>8
  <2>2. QED
    BY <1>8, <2>1 DEF Said
<1>10. ASSUME NEW i \in DOMAIN hist, i > Len(hist) - Keep
       PROVE  /\ Len(new) + i - Len(hist) \in DOMAIN new
              /\ new[Len(new) + i - Len(hist)].type = hist[i].type
              /\ new[Len(new) + i - Len(hist)].cut \/ new[Len(new) + i - Len(hist)] = hist[i]
  <2> DEFINE k == Len(t) + i - Len(hist)
  <2>1. k \in 1..Len(t) /\ t[k] = hist[i]
    BY <1>3, <1>10
  <2>2. Len(new) + i - Len(hist) = k + 1
    BY <1>1, <1>3, <1>8
  <2> HIDE DEF k
  <2>3. k + 1 \in DOMAIN new /\ new[k + 1] = f[k]
    BY <1>8, <2>1
  <2>4. f[k].type = hist[i].type /\ (f[k].cut \/ f[k] = hist[i])
    BY <1>5, <2>1
  <2>5. QED
    BY <2>2, <2>3, <2>4
<1>11. QED
  BY <1>2, <1>4, <1>7, <1>9, <1>10

-----------------------------------------------------------------------------
(* The files after a step.                                                 *)

Bounds == said' \in 0..MaxMessage /\ asked' \in 0..MaxAsked /\ told' \in Tiers \cup {None}

\* A step that writes both files, or creates the meta.
LEMMA Written ==
    ASSUME Bounds, hist' \in Seq(Record), meta' \in Meta, named' \in Titles \cup {None},
           TitleKept => meta'.title = named' \/ SavesOldTitle
    PROVE  FilesGoOn
PROOF
<1>1. meta' # Gone /\ Gone' = Gone
  BY MetaThere DEF Gone
<1>2. FilesTyped'
  BY <1>1 DEF FilesTyped, Bounds
<1>3. QED
  BY <1>2, TitleWritten DEF FilesGoOn

\* A step that writes neither.
LEMMA Untouched ==
    ASSUME StoreInv, Bounds, UNCHANGED <<hist, meta, named>>
    PROVE  FilesGoOn
PROOF
<1>1. FilesTyped'
  BY DEF FilesTyped, Bounds, Gone, StoreInv
<1>2. QED
  BY <1>1, TitleUntouched DEF StoreInv, FilesGoOn

LEMMA BoundsKept ==
    ASSUME FilesTyped
    PROVE  /\ UNCHANGED <<said, asked, told>> => Bounds
           /\ Asks /\ UNCHANGED <<said, told>> => Bounds
PROOF
<1>1. Asks => asked' \in 0..MaxAsked
  BY StoreAssumption DEF Asks, FilesTyped
<1>2. QED
  BY <1>1 DEF Bounds, FilesTyped

\* A save of the session that is there.
LEMMA SavedByJob ==
    ASSUME StoreInv, meta # Gone, NEW j \in Jobs
    PROVE  /\ Saved(job[j].tier, meta) \in Meta
           /\ TitleKept => Saved(job[j].tier, meta).title = named
PROOF
<1>1. meta \in Meta /\ (TitleKept => meta.title = named)
  BY DEF StoreInv, FilesTyped, TitleKept
<1>2. job[j].tier \in Tiers \cup {None}
  BY DEF StoreInv, JobsInPlace, JobState
<1>3. QED
  BY <1>1, <1>2, SavedIs

LEMMA TurnAppendsFiles ==
    ASSUME StoreInv, NEW rs \in Seq(Record), NEW round, TurnAppends(rs, round)
    PROVE  FilesGoOn
PROOF
<1>1. Bounds
  <2>1. said' \in 0..MaxMessage
    BY StoreAssumption DEF TurnAppends, StoreInv, FilesTyped
  <2>2. QED
    BY <2>1 DEF TurnAppends, Bounds, StoreInv, FilesTyped
<1>2. CASE meta = Gone
  BY <1>1, <1>2, Untouched DEF TurnAppends
<1>3. CASE meta # Gone
  <2>1. hist' = hist \o rs /\ meta' = Saved(job["turn"].tier, meta) /\ named' = named
    BY <1>3 DEF TurnAppends
  <2>2. hist' \in Seq(Record)
    BY <2>1 DEF StoreInv, FilesTyped
  <2>3. /\ meta' \in Meta /\ named' \in Titles \cup {None}
        /\ TitleKept => meta'.title = named'
    BY <1>3, <2>1, SavedByJob, JobsApart DEF StoreInv, NameInPlace
  <2>4. QED
    BY <1>1, <2>2, <2>3, Written
<1>4. QED
  BY <1>2, <1>3

LEMMA CompactsFiles ==
    ASSUME StoreInv, NEW j \in Jobs, NEW over, NEW left, Trimming(over, left),
           Compacts(j, over, left)
    PROVE  FilesGoOn
PROOF
<1>1. Bounds
  BY BoundsKept DEF Compacts, StoreInv
<1>2. CASE UNCHANGED <<hist, meta>>
  BY <1>1, <1>2, Untouched DEF Compacts
<1>3. CASE ~UNCHANGED <<hist, meta>>
  <2>1. hist' = Compacted(j, over, left) /\ meta' = Saved(job[j].tier, meta) /\ named' = named
    BY <1>3 DEF Compacts, Compacted
  <2>2. hist # <<>>
    <3>1. ~(Len(hist) <= Keep) \/ over # {}
      BY <1>3 DEF Compacts
    <3>2. over \subseteq DOMAIN Recent(hist)
      BY DEF Trimming
    <3>3. Len(<<>>) <= Keep /\ DOMAIN <<>> = {}
      BY StoreAssumption
    <3>4. Recent(<<>>) = <<>>
      BY <3>3 DEF Recent
    <3>5. QED
      BY <3>1, <3>2, <3>3, <3>4
  <2>3. meta # Gone
    BY <2>2 DEF StoreInv, FilesTyped
  <2>4. /\ meta' \in Meta /\ named' \in Titles \cup {None}
        /\ TitleKept => meta'.title = named'
    BY <2>1, <2>3, SavedByJob DEF StoreInv, NameInPlace
  <2>5. hist' \in Seq(Record)
    BY <2>1, CompactedIs
  <2>6. QED
    BY <1>1, <2>4, <2>5, Written
<1>4. QED
  BY <1>2, <1>3

\* The thread writes a history where there is a session.
LEMMA DropsFiles ==
    ASSUME StoreInv, Drops
    PROVE  FilesGoOn
PROOF
<1>1. Bounds /\ UNCHANGED <<meta, named>>
  BY BoundsKept DEF Drops, StoreInv
<1>2. CASE meta = Gone
  BY <1>1, <1>2, Untouched DEF Drops
<1>3. CASE meta # Gone
  <2>1. hist' = Without(job["thread"].again, Blamed)
    BY <1>3 DEF Drops
  <2>2. hist' \in Seq(Record)
    <3>1. job["thread"].again \in Seq(Record)
      BY JobsApart DEF StoreInv, JobsInPlace, JobState
    <3>2. QED
      BY <2>1, <3>1, WithoutIs
  <2>3. meta' \in Meta /\ named' \in Titles \cup {None}
    BY <1>1, <1>3 DEF StoreInv, FilesTyped, NameInPlace
  <2>4. TitleKept => meta'.title = named'
    BY <1>1, <1>3 DEF TitleKept
  <2>5. QED
    BY <1>1, <2>2, <2>3, <2>4, Written
<1>4. QED
  BY <1>2, <1>3

\* The thread saves the title it read; the last one, or it saves an old one.
LEMMA SavesMetaFiles ==
    ASSUME StoreInv, SavesMeta
    PROVE  FilesGoOn
PROOF
<1>1. Bounds /\ UNCHANGED <<hist, named>>
  BY BoundsKept DEF SavesMeta, StoreInv
<1>2. CASE meta = Gone
  BY <1>1, <1>2, Untouched DEF SavesMeta
<1>3. CASE meta # Gone
  <2> DEFINE thread == job["thread"]
  <2>1. thread.tier \in Tiers \cup {None} /\ thread.title \in Titles \cup {None}
    BY JobsApart DEF StoreInv, JobsInPlace, JobState
  <2>2. meta' = [title |-> thread.title, tier |-> thread.tier]
    BY <1>3 DEF SavesMeta, Saved
  <2>3. thread.doing = "save" /\ job'["thread"].doing = "idle"
    <3>1. thread.doing = "save" /\ ThreadEnds
      BY DEF SavesMeta
    <3>2. job \in [Jobs -> JobState]
      BY DEF StoreInv, JobsInPlace
    <3>3. PICK r : job' = [[job EXCEPT !["thread"] = Idle] EXCEPT !["turn"] = r]
      BY <3>1 DEF ThreadEnds
    <3>4. job'["thread"] = Idle
      BY <3>2, <3>3, JobsApart
    <3>5. QED
      BY <3>1, <3>4 DEF Idle
  <2> HIDE DEF thread
  <2>4. meta' \in Meta /\ meta'.title = thread.title
    BY <2>1, <2>2 DEF Meta
  <2>5. thread.title # named => SavesOldTitle
    BY <2>3 DEF SavesOldTitle, thread
  <2>6. hist' \in Seq(Record) /\ named' \in Titles \cup {None}
    BY <1>1 DEF StoreInv, FilesTyped, NameInPlace
  <2>7. meta'.title = named' \/ SavesOldTitle
    BY <1>1, <2>4, <2>5
  <2>8. QED
    BY <1>1, <2>4, <2>6, <2>7, Written
<1>4. QED
  BY <1>2, <1>3

LEMMA TitledFiles ==
    ASSUME StoreInv, NEW c \in Commands, NEW t \in Titles, Titled(c, t)
    PROVE  FilesGoOn
PROOF
<1>1. Bounds
  BY BoundsKept DEF Titled, StoreInv
<1>2. CASE meta = Gone
  BY <1>1, <1>2, Untouched DEF Titled
<1>3. CASE meta # Gone
  <2>1. meta' = Renamed(job[c].tier, t) /\ named' = t /\ hist' = hist
    BY <1>3 DEF Titled
  <2>2. job[c].tier \in Tiers \cup {None}
    BY JobsApart DEF StoreInv, JobsInPlace, JobState
  <2>3. meta' \in Meta /\ meta'.title = named' /\ named' \in Titles \cup {None}
    BY <2>1, <2>2, RenamedIs
  <2>4. hist' \in Seq(Record)
    BY <2>1 DEF StoreInv, FilesTyped
  <2>5. QED
    BY <1>1, <2>3, <2>4, Written
<1>4. QED
  BY <1>2, <1>3

\* Loading the session creates its meta where there is none, and no more.
LEMMA OpenedFiles ==
    ASSUME StoreInv, Bounds, meta' = Opened, hist' \in Seq(Record), named' = named
    PROVE  FilesGoOn
PROOF
<1>1. meta' \in Meta /\ (TitleKept => meta'.title = named')
  BY OpenedIs DEF StoreInv
<1>2. named' \in Titles \cup {None}
  BY DEF StoreInv, NameInPlace
<1>3. QED
  BY <1>1, <1>2, Written

LEMMA RewindFiles ==
    ASSUME StoreInv, NEW index, Rewind(index)
    PROVE  FilesGoOn
PROOF
<1>1. Bounds
  BY BoundsKept DEF Rewind, StoreInv
<1>2. hist' = SubSeq(hist, 1, index) /\ meta' = Opened /\ named' = named
      /\ index \in 0..(Len(hist) - 1)
  BY DEF Rewind
<1>3. hist \in Seq(Record)
  BY DEF StoreInv, FilesTyped
<1>4. index \in 0..Len(hist)
  BY <1>2, <1>3
<1>5. hist' \in Seq(Record)
  BY <1>2, <1>3, <1>4, PrefixIs
<1>6. QED
  BY <1>1, <1>2, <1>5, OpenedFiles

LEMMA TurnFiles ==
    ASSUME StoreInv, TurnPrompts \/ TurnSays \/ TurnCalls \/ TurnResult
    PROVE  FilesGoOn
PROOF
<1>1. PICK rs, round : TurnAppends(rs, round) /\ rs \in Seq(Record)
  <2>1. said < MaxMessage
    BY DEF TurnPrompts, TurnSays, TurnCalls, TurnResult, TurnAppends
  <2>2. job["turn"].round \in 0..MaxMessage
    BY JobsApart DEF StoreInv, JobsInPlace, JobState
  <2>3. FilesTyped
    BY DEF StoreInv
  <2>4. /\ Message(said + 1) \in Record /\ Context \in Record
        /\ Uncut("message", {said + 1}, said + 1) \in Record
        /\ Uncut("tool_result", {said + 1}, job["turn"].round) \in Record
    BY <2>1, <2>2, <2>3, SpokenTypes
  <2>5. CASE TurnPrompts
    <3>1. <<Context, Message(said + 1)>> \in Seq(Record)
      BY <2>4
    <3>2. QED
      BY <2>5, <3>1 DEF TurnPrompts
  <2>6. CASE TurnSays
    <3>1. <<Message(said + 1)>> \in Seq(Record)
      BY <2>4
    <3>2. QED
      BY <2>6, <3>1 DEF TurnSays
  <2>7. CASE TurnCalls
    <3> DEFINE call == Uncut("message", {said + 1}, said + 1)
    <3>1. call \in Record /\ TurnAppends(<<call>>, said + 1)
      BY <2>4, <2>7 DEF TurnCalls
    <3> HIDE DEF call
    <3>2. <<call>> \in Seq(Record)
      BY <3>1
    <3>3. QED
      BY <3>1, <3>2
  <2>8. CASE TurnResult
    <3> DEFINE result == Uncut("tool_result", {said + 1}, job["turn"].round)
    <3>1. result \in Record /\ TurnAppends(<<result>>, 0)
      BY <2>4, <2>8 DEF TurnResult
    <3> HIDE DEF result
    <3>2. <<result>> \in Seq(Record)
      BY <3>1
    <3>3. QED
      BY <3>1, <3>2
  <2>9. QED
    BY <2>5, <2>6, <2>7, <2>8
<1>2. QED
  BY <1>1, TurnAppendsFiles

LEMMA FilesStep ==
    ASSUME StoreInv, Next
    PROVE  FilesGoOn
PROOF
<1>1. FilesTyped /\ NameInPlace /\ hist \in Seq(Record)
  BY DEF StoreInv, FilesTyped
<1>2. CASE TurnPrompts \/ TurnSays \/ TurnCalls \/ TurnResult
  BY <1>2, TurnFiles
<1>3. CASE TurnBegins
  <2>1. Bounds /\ hist' \in Seq(Record)
    BY <1>1, <1>3, BoundsKept DEF TurnBegins
  <2>2. QED
    BY <1>3, <2>1, OpenedFiles DEF TurnBegins
<1>4. CASE TurnEnds \/ TurnCompacts \/ TurnScrubs \/ Unresolved \/ Resolved \/ ReadsTitle
  <2>1. Bounds
    BY <1>1, <1>4, BoundsKept
    DEF TurnEnds, TurnCompacts, TurnScrubs, Unresolved, Resolved, ReadsTitle
  <2>2. UNCHANGED <<hist, meta, named>>
    BY <1>4 DEF TurnEnds, TurnCompacts, TurnScrubs, Unresolved, Resolved, ReadsTitle
  <2>3. QED
    BY <2>1, <2>2, Untouched
<1>5. CASE Drops \/ SavesMeta
  BY <1>5, DropsFiles, SavesMetaFiles
<1>6. ASSUME NEW c \in Commands, HostCompacts(c) \/ AsksTitle(c)
      PROVE  FilesGoOn
  <2>1. PICK doing, read : Waits(c, doing, read)
    BY <1>6 DEF HostCompacts, AsksTitle
  <2>2. Bounds /\ hist' \in Seq(Record)
    BY <1>1, <2>1, BoundsKept DEF Waits
  <2>3. QED
    BY <2>1, <2>2, OpenedFiles DEF Waits
<1>7. ASSUME NEW c \in Commands, NEW t \in Titles, Titled(c, t)
      PROVE  FilesGoOn
  BY <1>7, TitledFiles
<1>8. ASSUME NEW j \in Jobs, TooLong(j) \/ Fails(j)
      PROVE  FilesGoOn
  <2>1. Bounds
    BY <1>1, <1>8, BoundsKept DEF TooLong, Fails
  <2>2. UNCHANGED <<hist, meta, named>>
    BY <1>8 DEF TooLong, Fails
  <2>3. QED
    BY <2>1, <2>2, Untouched
<1>9. ASSUME NEW j \in Jobs, NEW over, NEW left, Trimming(over, left),
             Compacts(j, over, left)
      PROVE  FilesGoOn
  BY <1>9, CompactsFiles
<1>10. ASSUME NEW t \in Titles, Rename(t)
       PROVE  FilesGoOn
  <2>1. Bounds
    BY <1>1, <1>10, BoundsKept DEF Rename
  <2>2. Opened.tier \in Tiers \cup {None}
    BY <1>1, OpenedIs
  <2>3. meta' \in Meta /\ meta'.title = named' /\ named' \in Titles \cup {None}
    BY <1>10, <2>2, RenamedIs DEF Rename
  <2>4. hist' \in Seq(Record)
    BY <1>1, <1>10 DEF Rename
  <2>5. QED
    BY <2>1, <2>3, <2>4, Written
<1>11. ASSUME NEW tier \in Tiers, SetSandbox(tier)
       PROVE  FilesGoOn
  <2>1. Bounds
    BY <1>11, StoreAssumption DEF SetSandbox, Asks, Bounds, StoreInv, FilesTyped
  <2>2. Opened \in Meta /\ (TitleKept => Opened.title = named)
    BY <1>1, OpenedIs
  <2>3. /\ meta' \in Meta /\ named' \in Titles \cup {None}
        /\ TitleKept => meta'.title = named'
    BY <1>1, <1>11, <2>2, SavedIs DEF SetSandbox, NameInPlace
  <2>4. hist' \in Seq(Record)
    BY <1>1, <1>11 DEF SetSandbox
  <2>5. QED
    BY <2>1, <2>3, <2>4, Written
<1>12. ASSUME NEW index \in 0..Len(hist), Rewind(index)
       PROVE  FilesGoOn
  BY <1>12, RewindFiles
<1>13. CASE Clear
  <2>1. Bounds
    BY <1>1, <1>13, BoundsKept DEF Clear
  <2>2. Note \in Record
    BY StoreAssumption DEF Note, Uncut, Record, Types
  <2>3. hist' \in Seq(Record)
    BY <1>13, <2>2 DEF Clear
  <2>4. QED
    BY <1>13, <2>1, <2>3, OpenedFiles DEF Clear
<1>14. CASE Opens
  <2>1. Bounds /\ hist' \in Seq(Record)
    BY <1>1, <1>14, BoundsKept DEF Opens
  <2>2. QED
    BY <1>14, <2>1, OpenedFiles DEF Opens
<1>15. CASE Delete
  <2>1. /\ meta' = Gone /\ hist' = <<>> /\ named' = None /\ told' = None
        /\ said' = said /\ asked' \in 0..MaxAsked /\ Gone' = Gone
    BY <1>1, <1>15, StoreAssumption DEF Delete, Asks, FilesTyped, Gone
  <2>2. FilesTyped'
    BY <1>1, <2>1 DEF FilesTyped
  <2>3. NameInPlace' /\ TitleKept'
    BY <2>1 DEF NameInPlace, TitleKept
  <2>4. QED
    BY <2>2, <2>3 DEF FilesGoOn, TitleGoesOn
<1>16. QED
  BY <1>2, <1>3, <1>4, <1>5, <1>6, <1>7, <1>8, <1>9, <1>10, <1>11, <1>12, <1>13, <1>14,
     <1>15 DEF Next, Trimming

LEMMA StoreInit == Init => StoreInv
PROOF
<1>1. SUFFICES ASSUME Init PROVE StoreInv
  OBVIOUS
<1>2. job = [j \in Jobs |-> Idle]
  BY <1>1 DEF Init
<1>3. JobsInPlace
  <2>1. \A j \in Jobs : job[j] = Idle
    BY <1>2
  <2>2. Idle.doing = "idle"
    BY DEF Idle
  <2>3. job \in [Jobs -> JobState]
    BY <1>2, IdleType
  <2>4. \A j \in Jobs : Allowed(j, job[j])
    BY <2>1, IdleType
  <2>5. job["turn"].doing = "idle" /\ job["thread"].doing = "idle"
    BY <2>1, <2>2, JobsApart
  <2>6. QED
    BY <2>3, <2>4, <2>5 DEF JobsInPlace
<1>4. FilesTyped
  BY <1>1, StoreAssumption DEF Init, FilesTyped
<1>5. NameInPlace
  BY <1>1 DEF Init, NameInPlace
<1>6. QED
  BY <1>3, <1>4, <1>5 DEF StoreInv

LEMMA StoreStep == StoreInv /\ [Next]_vars => StoreInv'
PROOF
<1>1. ASSUME StoreInv, Next
      PROVE  StoreInv'
  BY <1>1, JobsStep, FilesStep DEF StoreInv, FilesGoOn
<1>2. ASSUME StoreInv, UNCHANGED vars
      PROVE  StoreInv'
  <2>1. JobsInPlace'
    BY <1>2, JobsUntouched DEF StoreInv, vars
  <2>2. Bounds
    BY <1>2, BoundsKept DEF StoreInv, vars
  <2>3. FilesGoOn
    BY <1>2, <2>2, Untouched DEF vars
  <2>4. QED
    BY <2>1, <2>3 DEF StoreInv, FilesGoOn
<1>3. QED
  BY <1>1, <1>2

\* The invariant of the session store.
THEOREM StoreInvariant == Spec => []StoreInv
PROOF
<1>1. Init => StoreInv
  BY StoreInit
<1>2. StoreInv /\ [Next]_vars => StoreInv'
  BY StoreStep
<1>3. QED
  BY <1>1, <1>2, PTL DEF Spec

\* The state is of its types, whoever waits for what, and a session that is
\* gone has no history (session.py, daemon.py, content_risk_probe.py).
THEOREM StoreTyped == Spec => []TypeOK
PROOF
<1>1. StoreInv => TypeOK
  BY StoreInvTyped
<1>2. QED
  BY <1>1, StoreInvariant, PTL

\* Whoever saves the meta, an older title comes back only from the thread of a
\* scrub, and only if the title was changed since that thread read it, however
\* many jobs hold an object they loaded before a rename (session.py:1261-1306).
THEOREM OldTitleOnlyFromScrub == Spec => TitleLostOnlyByScrub
PROOF
<1>1. StoreInv /\ [Next]_vars => (TitleKept => TitleKept' \/ SavesOldTitle)
  <2>1. ASSUME StoreInv, Next
        PROVE  TitleGoesOn
    BY <2>1, FilesStep DEF FilesGoOn
  <2>2. ASSUME UNCHANGED vars, TitleKept
        PROVE  TitleKept'
    BY <2>2 DEF vars, TitleKept, Gone
  <2>3. QED
    BY <2>1, <2>2 DEF TitleGoesOn
<1>2. QED
  BY <1>1, StoreInvariant, PTL DEF Spec, TitleLostOnlyByScrub

-----------------------------------------------------------------------------
(* What a rewrite that was not raced loses.                                *)

LEMMA PrefixAgrees ==
    ASSUME NEW s \in Seq(Record), NEW t \in Seq(Record), IsPrefix(s, t)
    PROVE  Len(s) <= Len(t) /\ \A i \in 1..Len(s) : s[i] = t[i]
PROOF
<1>1. Len(s) <= Len(t) /\ SubSeq(s, 1, Len(s)) = SubSeq(t, 1, Len(s))
  BY DEF IsPrefix
<1>2. Len(s) \in 0..Len(s) /\ Len(s) \in 0..Len(t)
  BY <1>1
<1>3. \A i \in 1..Len(s) : SubSeq(s, 1, Len(s))[i] = s[i]
  BY <1>2, PrefixIs
<1>4. \A i \in 1..Len(s) : SubSeq(t, 1, Len(s))[i] = t[i]
  BY <1>2, PrefixIs
<1>5. QED
  BY <1>1, <1>3, <1>4

LEMMA UnracedIs ==
    ASSUME NEW j, Unraced(j)
    PROVE  \/ /\ job[j].doing = "summary"
              /\ IsPrefix(job[j].read, hist) /\ Len(hist) <= Len(job[j].read) + Keep
           \/ job[j].doing = "chunks" /\ job[j].read = hist
           \/ /\ job[j].doing = "drop"
              /\ IsPrefix(job[j].read, hist) /\ job[j].again = hist
PROOF
BY DEF Unraced

\* What a job that was not raced loses when it is done.
Lost(j) == \E lost \in MayLose(j) \cup {{}} : Said(hist) \ Said(hist') \subseteq lost

\* What a compaction takes out is in its summary, or in a record it marks.
LEMMA CompactionKeeps ==
    ASSUME StoreInv, NEW j \in Jobs, Unraced(j), job[j].doing \in {"summary", "chunks"},
           NEW over, NEW left, Trimming(over, left), hist' = Compacted(j, over, left)
    PROVE  Lost(j)
PROOF
<1> DEFINE read == job[j].read
<1>1. hist \in Seq(Record) /\ read \in Seq(Record)
  BY DEF StoreInv, FilesTyped, JobsInPlace, JobState
<1>2. Len(hist) \in Nat /\ Len(read) \in Nat /\ Keep \in Nat /\ DOMAIN hist = 1..Len(hist)
  BY <1>1, StoreAssumption
<1>3. ASSUME NEW i \in DOMAIN hist, i <= Len(hist) - Keep
      PROVE  hist[i].says \subseteq Summarised(j)
  <2>1. CASE job[j].doing = "summary"
    <3>1. IsPrefix(read, hist) /\ Len(hist) <= Len(read) + Keep
      BY <2>1, UnracedIs
    <3>2. \A k \in 1..Len(read) : read[k] = hist[k]
      BY <1>1, <3>1, PrefixAgrees
    <3>3. Summarised(j) = Said(read)
      BY <2>1 DEF Summarised
    <3> HIDE DEF read
    <3>4. i \in 1..Len(read)
      BY <1>2, <1>3, <3>1
    <3>5. i \in DOMAIN read /\ read[i] = hist[i]
      BY <1>1, <3>2, <3>4
    <3>6. QED
      BY <3>3, <3>5 DEF Said
  <2>2. CASE job[j].doing = "chunks"
    <3>1. read = hist
      BY <2>2, UnracedIs
    <3> DEFINE early == SubSeq(hist, 1, Len(hist) - Keep)
    <3>2. Summarised(j) = Said(early)
      BY <2>2, <3>1 DEF Summarised
    <3>3. PICK m \in 0..Len(hist) : m = Len(hist) - Keep
      <4>1. ASSUME NEW n \in Nat, NEW keep \in Nat, NEW k \in 1..n, k <= n - keep
            PROVE  n - keep \in 0..n
        BY <4>1
      <4>2. Len(hist) - Keep \in 0..Len(hist)
        BY <1>2, <1>3, <4>1
      <4>3. QED
        BY <4>2
    <3>4. early = SubSeq(hist, 1, m)
      BY <3>3
    <3> HIDE DEF early
    <3>5. early \in Seq(Record) /\ Len(early) = m /\ \A k \in 1..m : early[k] = hist[k]
      BY <1>1, <3>4, PrefixIs
    <3>6. i \in DOMAIN early /\ early[i] = hist[i]
      BY <1>2, <1>3, <3>3, <3>5
    <3>7. QED
      BY <3>2, <3>6 DEF Said
  <2>3. QED
    BY <2>1, <2>2
<1> DEFINE marked == {i \in DOMAIN hist : MarkedNow(i)}
           unread == IF job[j].doing = "summary" THEN Said(read) ELSE {}
           gone == Said([i \in marked |-> hist[i]])
<1>4. /\ Summarised(j) \subseteq Said(hist')
      /\ \A i \in DOMAIN hist : i > Len(hist) - Keep =>
           LET k == Len(hist') + i - Len(hist)
           IN  /\ k \in DOMAIN hist' /\ hist'[k].type = hist[i].type
               /\ hist'[k].cut \/ hist'[k] = hist[i]
  BY CompactedIs
<1>5. unread \subseteq Summarised(j)
  BY DEF Summarised
<1>6. ASSUME NEW m \in Said(hist), m \notin Said(hist')
      PROVE  m \in gone \ unread
  <2>1. PICK i \in DOMAIN hist : m \in hist[i].says
    BY <1>6 DEF Said
  <2>2. m \notin Summarised(j)
    BY <1>4, <1>6
  <2>3. i > Len(hist) - Keep
    BY <1>2, <1>3, <2>1, <2>2
  <2> DEFINE k == Len(hist') + i - Len(hist)
  <2>4. /\ k \in DOMAIN hist' /\ hist'[k].type = hist[i].type
        /\ hist'[k].cut \/ hist'[k] = hist[i]
    BY <1>4, <2>3
  <2>5. hist'[k] # hist[i]
    BY <1>6, <2>1, <2>4 DEF Said
  <2>6. i \in marked
    BY <2>4, <2>5 DEF MarkedNow
  <2> DEFINE cuts == [n \in marked |-> hist[n]]
  <2>7. i \in DOMAIN cuts /\ cuts[i] = hist[i]
    BY <2>6
  <2> HIDE DEF cuts
  <2>8. m \in Said(cuts)
    BY <2>1, <2>7 DEF Said
  <2>9. QED
    BY <1>5, <2>2, <2>8 DEF cuts
<1>7. gone \ unread \in MayLose(j)
  <2>1. job[j].doing # "drop"
    OBVIOUS
  <2>2. MayLose(j) = {gone \ unread}
    BY <2>1, Zenon DEF MayLose
  <2>3. QED
    BY <2>2
<1> HIDE DEF gone, unread
<1>8. Said(hist) \ Said(hist') \subseteq gone \ unread
  BY <1>6
<1>9. QED
  BY <1>7, <1>8 DEF Lost

\* What a scrub takes out is the record it blames and its tool round, in the
\* history as it is: new records came after what the thread read.
LEMMA ScrubTakes ==
    ASSUME StoreInv, Unraced("thread"), job["thread"].doing = "drop"
    PROVE  \E i \in DOMAIN hist :
             /\ Refuses(<<hist[i]>>)
             /\ Said(hist) \ Said(Without(job["thread"].again, Blamed))
                  \subseteq Said([k \in Companions(hist, i) |-> hist[k]])
PROOF
<1> DEFINE read == job["thread"].read
           i == Offender(read)
           lost == Companions(hist, i)
           rest == Without(hist, Blamed)
<1>1. hist \in Seq(Record) /\ read \in Seq(Record)
  BY JobsApart DEF StoreInv, FilesTyped, JobsInPlace, JobState
<1>2. IsPrefix(read, hist) /\ job["thread"].again = hist
  BY UnracedIs
<1>3. i # 0
  BY DEF StoreInv, JobsInPlace
<1>4. i \in DOMAIN read /\ Refuses(<<read[i]>>)
  BY <1>1, <1>3, OffenderIs
<1>5. Blamed = Companions(read, i)
  BY DEF Blamed
<1> HIDE DEF read, i
<1>6. Len(read) <= Len(hist) /\ \A k \in 1..Len(read) : read[k] = hist[k]
  BY <1>1, <1>2, PrefixAgrees
<1>7. \A k \in DOMAIN read : k \in DOMAIN hist /\ read[k] = hist[k]
  BY <1>1, <1>6
<1>8. i \in DOMAIN hist /\ Refuses(<<hist[i]>>)
  BY <1>4, <1>7
<1>9. Blamed \subseteq lost
  BY <1>4, <1>5, <1>7 DEF Companions
<1>10. lost \subseteq DOMAIN hist
  BY <1>8 DEF Companions
<1>11. \A k \in DOMAIN hist \ Blamed : hist[k].says \subseteq Said(rest)
  BY <1>1, WithoutIs
<1> HIDE DEF rest, lost
<1>12. ASSUME NEW m \in Said(hist), m \notin Said(rest)
       PROVE  m \in Said([k \in lost |-> hist[k]])
  <2>1. PICK k \in DOMAIN hist : m \in hist[k].says
    BY <1>12 DEF Said
  <2>2. k \in lost
    BY <1>9, <1>11, <1>12, <2>1
  <2> DEFINE taken == [n \in lost |-> hist[n]]
  <2>3. k \in DOMAIN taken /\ taken[k] = hist[k]
    BY <2>2
  <2> HIDE DEF taken
  <2>4. m \in Said(taken)
    BY <2>1, <2>3 DEF Said
  <2>5. QED
    BY <2>4 DEF taken
<1>13. Said(hist) \ Said(rest) \subseteq Said([k \in lost |-> hist[k]])
  BY <1>12
<1>14. rest = Without(job["thread"].again, Blamed)
  BY <1>2 DEF rest
<1>15. QED
  BY <1>8, <1>13, <1>14 DEF lost

CompactedNow(j) ==
  \E over, left : Trimming(over, left) /\ hist' = Compacted(j, over, left)

\* The steps that change the history leave the other jobs alone.
LEMMA RewriteCases ==
    ASSUME StoreInv, Next, hist' # hist
    PROVE  \/ job' = job
           \/ /\ job["turn"].doing \in {"begun", "turn"}
              /\ \A k \in Jobs \ {"turn"} : job'[k] = job[k]
           \/ \E k \in Jobs :
                /\ job[k].doing \in {"summary", "chunks"} /\ CompactedNow(k)
                /\ \A j \in Jobs \ {k} : job'[j] = job[j]
           \/ /\ job["thread"].doing = "drop"
              /\ hist' = Without(job["thread"].again, Blamed)
              /\ \A k \in Jobs \ {"thread"} : job'[k] = job[k]
PROOF
<1>1. job \in [Jobs -> JobState]
  BY DEF StoreInv, JobsInPlace
<1>2. ASSUME NEW k \in Jobs, NEW r, Goes(k, r)
      PROVE  \A j \in Jobs \ {k} : job'[j] = job[j]
  BY <1>1, <1>2 DEF Goes
<1>3. CASE TurnPrompts \/ TurnSays \/ TurnCalls \/ TurnResult
  <2>1. job["turn"].doing \in {"begun", "turn"}
    BY <1>3 DEF TurnPrompts, TurnSays, TurnCalls, TurnResult, InRound
  <2>2. PICK rs, round : TurnAppends(rs, round)
    BY <1>3 DEF TurnPrompts, TurnSays, TurnCalls, TurnResult
  <2>3. \E r : Goes("turn", r)
    BY <2>2 DEF TurnAppends
  <2>4. QED
    BY <1>2, <2>1, <2>3, JobsApart
<1>4. ASSUME NEW k \in Jobs, NEW over, NEW left, Trimming(over, left),
             Compacts(k, over, left)
      PROVE  /\ job[k].doing \in {"summary", "chunks"} /\ CompactedNow(k)
             /\ \A j \in Jobs \ {k} : job'[j] = job[j]
  <2>1. job[k].doing \in {"summary", "chunks"} /\ hist' = Compacted(k, over, left)
    BY <1>4 DEF Compacts, Compacted
  <2>2. Returns(k)
    BY <1>4 DEF Compacts
  <2>3. \E r : Goes(k, r)
    BY <2>2 DEF Returns
  <2>4. QED
    BY <1>2, <1>4, <2>1, <2>3 DEF CompactedNow
<1>5. CASE Drops
  <2>1. job["thread"].doing = "drop" /\ hist' = Without(job["thread"].again, Blamed)
    BY <1>5 DEF Drops
  <2>2. \E r : Goes("thread", r)
    BY <1>5 DEF Drops
  <2>3. QED
    BY <1>2, <2>1, <2>2, JobsApart
<1>6. CASE \E index \in 0..Len(hist) : Rewind(index)
  BY <1>6 DEF Rewind
<1>7. CASE Clear \/ Delete
  BY <1>7 DEF Clear, Delete
<1>8. CASE UNCHANGED hist
  BY <1>8
<1>9. QED
  <2>1. ASSUME NEW c \in Commands, HostCompacts(c) \/ AsksTitle(c)
        PROVE  UNCHANGED hist
    BY <2>1 DEF HostCompacts, AsksTitle, Waits
  <2>2. ASSUME NEW c \in Commands, NEW t \in Titles, Titled(c, t)
        PROVE  UNCHANGED hist
    BY <2>2 DEF Titled
  <2>3. ASSUME NEW j \in Jobs, TooLong(j) \/ Fails(j)
        PROVE  UNCHANGED hist
    BY <2>3 DEF TooLong, Fails
  <2>4. ASSUME \/ TurnBegins \/ TurnEnds \/ TurnCompacts \/ TurnScrubs \/ Unresolved
               \/ Resolved \/ ReadsTitle \/ SavesMeta \/ Opens
               \/ \E t \in Titles : Rename(t)
               \/ \E tier \in Tiers : SetSandbox(tier)
        PROVE  UNCHANGED hist
    BY <2>4 DEF TurnBegins, TurnEnds, TurnCompacts, TurnScrubs, Unresolved, Resolved,
                ReadsTitle, SavesMeta, Opens, Rename, SetSandbox
  <2>5. QED
    BY <1>3, <1>4, <1>5, <1>6, <1>7, <1>8, <2>1, <2>2, <2>3, <2>4
    DEF Next, Trimming

LEMMA RewriteStep ==
    ASSUME StoreInv, [Next]_vars, NEW j \in Jobs, Unraced(j), job'[j].doing # job[j].doing
    PROVE  Lost(j)
PROOF
<1>1. ASSUME Said(hist) \subseteq Said(hist')
      PROVE  Lost(j)
  <2>1. Said(hist) \ Said(hist') \subseteq {}
    BY <1>1
  <2>2. QED
    BY <2>1 DEF Lost
<1>2. CASE hist' = hist
  <2>1. Said(hist') = Said(hist)
    BY <1>2, Zenon
  <2>2. QED
    BY <1>1, <2>1
<1>3. CASE hist' # hist
  <2>1. Next
    BY <1>3 DEF vars
  <2>2. job[j].doing \in {"summary", "chunks", "drop"}
    BY UnracedIs
  <2>3. \/ job[j].doing \in {"summary", "chunks"} /\ CompactedNow(j)
        \/ /\ j = "thread" /\ job["thread"].doing = "drop"
           /\ hist' = Without(job["thread"].again, Blamed)
    <3>1. job' # job
      OBVIOUS
    <3>2. CASE job["turn"].doing \in {"begun", "turn"}
               /\ \A k \in Jobs \ {"turn"} : job'[k] = job[k]
      BY <2>2, <3>2
    <3>3. ASSUME NEW k \in Jobs, job[k].doing \in {"summary", "chunks"},
                 CompactedNow(k), \A i \in Jobs \ {k} : job'[i] = job[i]
          PROVE  job[j].doing \in {"summary", "chunks"} /\ CompactedNow(j)
      <4>1. k = j
        BY <3>3
      <4>2. QED
        BY <3>3, <4>1
    <3>4. ASSUME job["thread"].doing = "drop",
                 hist' = Without(job["thread"].again, Blamed),
                 \A k \in Jobs \ {"thread"} : job'[k] = job[k]
          PROVE  j = "thread"
      BY <2>2, <3>4
    <3>5. QED
      BY <1>3, <2>1, <3>1, <3>2, <3>3, <3>4, RewriteCases
  <2>4. CASE job[j].doing \in {"summary", "chunks"} /\ CompactedNow(j)
    BY <2>4, CompactionKeeps DEF CompactedNow
  <2>5. CASE /\ j = "thread" /\ job["thread"].doing = "drop"
             /\ hist' = Without(job["thread"].again, Blamed)
    <3>1. PICK i \in DOMAIN hist :
            /\ Refuses(<<hist[i]>>)
            /\ Said(hist) \ Said(Without(job["thread"].again, Blamed))
                 \subseteq Said([k \in Companions(hist, i) |-> hist[k]])
      BY <2>5, ScrubTakes
    <3> DEFINE lost == Said([k \in Companions(hist, i) |-> hist[k]])
    <3>2. lost \in MayLose(j)
      BY <2>5, <3>1 DEF MayLose
    <3>3. Said(hist') = Said(Without(job["thread"].again, Blamed))
      BY <2>5, Zenon
    <3>4. Said(hist) \ Said(hist') \subseteq lost
      BY <3>1, <3>3
    <3> HIDE DEF lost
    <3>5. QED
      BY <3>2, <3>4 DEF Lost
  <2>6. QED
    BY <2>3, <2>4, <2>5
<1>4. QED
  BY <1>2, <1>3

\* A rewrite of the history that was not raced loses nothing that was said, but
\* what a record that now says it was truncated held, or one record the provider
\* refuses by itself and its tool round; for any history, any trimming, any
\* number of records kept and any sets of messages the provider refuses
\* (session.py:1085-1247, content_risk_probe.py:146-316).
THEOREM RewritesLoseOnlySeen == Spec => RewritesLoseNothingUnseen
PROOF
<1>1. StoreInv /\ [Next]_vars =>
        \A j \in Jobs : Unraced(j) /\ job'[j].doing # job[j].doing =>
          \E lost \in MayLose(j) \cup {{}} : Said(hist) \ Said(hist') \subseteq lost
  BY RewriteStep DEF Lost
<1>2. QED
  BY <1>1, StoreInvariant, PTL DEF Spec, RewritesLoseNothingUnseen
=============================================================================
