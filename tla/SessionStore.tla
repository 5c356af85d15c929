---------------------------- MODULE SessionStore ----------------------------
(***************************************************************************)
(* One session's files (session.py) and everyone who writes them: the      *)
(* running turn, the worker thread of a content-risk scrub, and the        *)
(* handlers of the control messages.  Each of them loads a Session object  *)
(* of its own; the object caches meta.json (the title excepted), and every *)
(* save writes all that it caches: the tier stands for the cached fields   *)
(* (grants, withheld defaults, depth, counts).  A handler that asks the model for a    *)
(* summary or a title, and a turn, hold their object across awaits; the    *)
(* other handlers load, change and save in one stretch of the event loop.  *)
(*                                                                         *)
(* A record is what it says (a set of message numbers), its type, the tool *)
(* round it belongs to (0: none), and whether it is marked truncated.      *)
(***************************************************************************)
EXTENDS Naturals, Sequences, FiniteSets, SequencesExt

CONSTANTS
  Commands,   \* connections whose handler may wait for the model
  Tiers,      \* sandbox tiers a client may set
  Titles,     \* titles a client or the model may give
  None,       \* the value of a title or a tier nobody gave
  Keep,       \* records a compaction keeps (5 in the code)
  Refused,    \* sets of messages the provider refuses when sent together
  MaxMessage, \* bound: messages a behaviour may say
  MaxAsked    \* bound: control messages, compactions and scrubs of a behaviour

ASSUME StoreAssumption ==
  /\ Keep \in Nat \ {0} /\ MaxMessage \in Nat /\ MaxAsked \in Nat
  /\ None \notin Tiers \cup Titles
  /\ Refused \subseteq SUBSET (1..MaxMessage)
  /\ {"turn", "thread"} \cap Commands = {}

VARIABLES
  hist,   \* history.jsonl: its records
  meta,   \* meta.json: title and tier; Gone when there is none
  job,    \* what the turn, the scrub's thread and each waiting handler do
  said,   \* number of the last message said
  asked,  \* how many of MaxAsked were spent
  named,  \* history variable: the title the session was last given
  told    \* history variable: the tier the clients were last told

vars == <<hist, meta, job, said, asked, named, told>>

Jobs == {"turn", "thread"} \cup Commands
Types == {"message", "context", "tool_result", "summary"}
Record == [type : Types, says : SUBSET (1..MaxMessage), round : 0..MaxMessage, cut : BOOLEAN]
JobState ==
  [doing : {"idle", "begun", "turn", "probed", "summary", "chunks", "title",
            "probe", "drop", "wrote", "save"},
   tier : Tiers \cup {None}, title : Titles \cup {None},
   read : Seq(Record), again : Seq(Record), round : 0..MaxMessage]
Meta == [title : Titles \cup {None}, tier : Tiers \cup {None}]
Gone == [title |-> None]
Fresh == [title |-> None, tier |-> None]
Idle == [doing |-> "idle", tier |-> None, title |-> None,
         read |-> <<>>, again |-> <<>>, round |-> 0]

Said(records) == UNION {records[i].says : i \in DOMAIN records}
Uncut(type, says, round) == [type |-> type, says |-> says, round |-> round, cut |-> FALSE]
Message(n) == Uncut("message", {n}, 0)
Context == Uncut("context", {}, 0)
Note == Uncut("message", {}, 0)

Init ==
  /\ hist = <<>> /\ meta = Gone /\ said = 0 /\ asked = 0
  /\ job = [j \in Jobs |-> Idle]
  /\ named = None /\ told = None

----------------------------------------------------------------------------
(* Session objects.                                                        *)

\* _get_or_create_session: the meta on disk, a fresh one where there is none.
Opened == IF meta = Gone THEN Fresh ELSE meta

SlipSaved(tier, old) == [title |-> None, tier |-> tier]   \* the title is not read back

\* _save_meta: the tier the object caches; the title is read back.
Saved(tier, old) == [title |-> old.title, tier |-> tier]

\* What a job holds over its wait: the object it loaded, the history it read.
Holding(doing, tier, read) ==
  [Idle EXCEPT !.doing = doing, !.tier = tier, !.read = read]

Asks == asked < MaxAsked /\ asked' = asked + 1
Goes(j, r) == job' = [job EXCEPT ![j] = r]
\* What a job does once it has stopped waiting for the model.
Returns(j) ==
  Goes(j, IF j = "turn" THEN [Idle EXCEPT !.doing = "turn", !.tier = job[j].tier]
          ELSE Idle)

----------------------------------------------------------------------------
(* The turn: the context and the prompt, then answers, tool calls and      *)
(* their results, steered prompts.                                         *)

\* The message loop loads the object when the prompt arrives.
TurnBegins ==
  /\ job["turn"].doing = "idle" /\ said < MaxMessage
  /\ meta' = Opened
  /\ Goes("turn", [Idle EXCEPT !.doing = "begun", !.tier = Opened.tier])
  /\ UNCHANGED <<hist, said, asked, named, told>>

\* append_message in a session that was deleted raises: the turn is over.
TurnAppends(rs, round) ==
  /\ said < MaxMessage /\ said' = said + 1 /\ UNCHANGED <<asked, named, told>>
  /\ IF meta = Gone
     THEN Goes("turn", Idle) /\ UNCHANGED <<hist, meta>>
     ELSE /\ hist' = hist \o rs /\ meta' = Saved(job["turn"].tier, meta)
          /\ Goes("turn", [job["turn"] EXCEPT !.doing = "turn", !.round = round])

InRound(round) == job["turn"].doing = "turn" /\ job["turn"].round = round

TurnPrompts ==
  job["turn"].doing = "begun" /\ TurnAppends(<<Context, Message(said + 1)>>, 0)

\* An answer, or a steered prompt.
TurnSays == InRound(0) /\ TurnAppends(<<Message(said + 1)>>, 0)

TurnCalls ==
  InRound(0) /\ TurnAppends(<<Uncut("message", {said + 1}, said + 1)>>, said + 1)

TurnResult ==
  LET round == job["turn"].round
      result == Uncut("tool_result", {said + 1}, round)
  IN  round # 0 /\ InRound(round) /\ TurnAppends(<<result>>, 0)

\* The end of a turn, ESC included.  A scrub's thread is not stopped by it.
TurnEnds ==
  /\ job["turn"].doing # "idle" /\ Goes("turn", Idle)
  /\ UNCHANGED <<hist, meta, said, asked, named, told>>

----------------------------------------------------------------------------
(* Compaction: the automatic one and the one after an overlong request are *)
(* the turn's, /compact is a handler's.  The summary is of what was read   *)
(* before the wait; compact() reads the history again.                     *)

\* The gate of a turn reads the history as it is, however short.
TurnCompacts ==
  /\ InRound(0)
  /\ Goes("turn", [job["turn"] EXCEPT !.doing = "summary", !.read = hist])
  /\ Asks /\ UNCHANGED <<hist, meta, said, named, told>>

\* A handler that waits for the model.
Waits(c, doing, read) ==
  /\ job[c].doing = "idle" /\ meta' = Opened
  /\ Goes(c, Holding(doing, Opened.tier, read))
  /\ Asks /\ UNCHANGED <<hist, said, named, told>>

HostCompacts(c) == Len(hist) > Keep /\ Waits(c, "summary", hist)

\* _compact_with_fallback: only a context that is too long goes to chunks.
TooLong(j) ==
  /\ job[j].doing = "summary" /\ Goes(j, [job[j] EXCEPT !.doing = "chunks"])
  /\ UNCHANGED <<hist, meta, said, asked, named, told>>

\* A whole summary says all that was read, chunks leave out the recent ones.
Summarised(j) ==
  IF job[j].doing = "summary" THEN Said(job[j].read)
  ELSE Said(SubSeq(job[j].read, 1, Len(job[j].read) - Keep))

SlipRecent(records) ==        \* keeps one record less than the chunks leave out
  IF Len(records) < Keep THEN records
  ELSE SubSeq(records, Len(records) - Keep + 2, Len(records))

\* What compact() keeps.
Recent(records) ==
  IF Len(records) <= Keep THEN records
  ELSE SubSeq(records, Len(records) - Keep + 1, Len(records))

\* What the records still say when those over their share are trimmed.
Trims(records, over) ==
  {left \in [DOMAIN records -> SUBSET Said(records)] :
     \A i \in DOMAIN records : IF i \in over THEN left[i] \subseteq records[i].says
                               ELSE left[i] = records[i].says}

SlipFitted(records, over, left) ==  \* trimmed without the mark
  [i \in DOMAIN records |->
     IF i \in over THEN [records[i] EXCEPT !.says = left[i]] ELSE records[i]]

\* _fit_tail: those over their share of the budget are trimmed and marked.
Fitted(records, over, left) ==
  [i \in DOMAIN records |->
     IF i \in over THEN [records[i] EXCEPT !.says = left[i], !.cut = TRUE] ELSE records[i]]

\* Session.compact.  A short history is left alone, unless one of its records
\* is over its share: then that is trimmed in place, below a summary.
Compacts(j, over, left) ==
  LET summary == Uncut("summary", Summarised(j), 0)
  IN  /\ job[j].doing \in {"summary", "chunks"}
      /\ IF Len(hist) <= Keep /\ over = {}
         THEN UNCHANGED <<hist, meta>>
         ELSE /\ hist' = <<summary>> \o Fitted(Recent(hist), over, left)
              /\ meta' = Saved(job[j].tier, meta)
      /\ Returns(j)
      /\ UNCHANGED <<said, asked, named, told>>

\* The model's answer is an error: nothing is written.
Fails(j) ==
  /\ job[j].doing \in {"summary", "chunks"} /\ Returns(j)
  /\ UNCHANGED <<hist, meta, said, asked, named, told>>

----------------------------------------------------------------------------
(* The content-risk scrub: a thread reads the history, asks the provider   *)
(* about halves of it, and drops the record it blames.                     *)

Refuses(records) == \E set \in Refused : set \subseteq Said(records)

\* One question of the descent: on to the first half of what is left if the
\* provider refuses it, to the other half if not.
Narrower(records, half) ==
  LET mid == half[1] + (half[2] - half[1] + 1) \div 2 - 1
  IN  IF Refuses(SubSeq(records, half[1], mid)) THEN <<half[1], mid>>
      ELSE <<mid + 1, half[2]>>

\* The parts of a history of n records, by their first and last positions.
Halves(n) == (1..n) \X (1..n)

\* The record the descent ends at, from each part of the history.
Halving(records) ==
  LET halve[half \in Halves(Len(records))] ==
        IF half[1] >= half[2] THEN half[1] ELSE halve[Narrower(records, half)]
  IN  halve

SlipOffender(records) ==      \* the record found is not asked about alone
  IF records = <<>> \/ ~Refuses(records) THEN 0 ELSE Halving(records)[<<1, Len(records)>>]

\* find_offending_index: halving, then the one record alone; 0 for nobody.
Offender(records) ==
  IF records = <<>> \/ ~Refuses(records) THEN 0
  ELSE LET found == Halving(records)[<<1, Len(records)>>]
       IN  IF Refuses(<<records[found]>>) THEN found ELSE 0

\* records_to_remove: a record of a tool round goes with its round.
Companions(records, i) ==
  {i} \cup {k \in DOMAIN records : records[i].round # 0
                                   /\ records[k].round = records[i].round}

\* drop_history_records: the kept positions in their order, the k-th of them
\* having k of them up to itself.
Kept(records, positions) == DOMAIN records \ positions

UpTo(kept, i) == Cardinality({j \in kept : j <= i})

Without(records, positions) ==
  LET kept == Kept(records, positions)
  IN  [k \in 1..Cardinality(kept) |-> records[CHOOSE i \in kept : UpTo(kept, i) = k]]

\* Bound: one thread at a time.
TurnScrubs ==
  /\ InRound(0)
  /\ job["thread"].doing = "idle"
  /\ job' = [job EXCEPT
       !["turn"].doing = "probed",
       !["thread"] = Holding("probe", job["turn"].tier, hist)]
  /\ Asks /\ UNCHANGED <<hist, meta, said, named, told>>

SlipThreadEnds ==             \* the turn is not woken
  job' = [job EXCEPT !["thread"] = Idle]

\* The turn that waits for the thread goes on.
ThreadEnds ==
  job' = [job EXCEPT !["thread"] = Idle,
            !["turn"].doing = IF @ = "probed" THEN "turn" ELSE @]

\* An error of a probe, a budget spent, or nobody to blame.
Unresolved ==
  /\ job["thread"].doing = "probe" /\ ThreadEnds
  /\ UNCHANGED <<hist, meta, said, asked, named, told>>

Blamed == Companions(job["thread"].read, Offender(job["thread"].read))

\* The record is found; drop_history_records reads the history again.
Resolved ==
  /\ job["thread"].doing = "probe" /\ Offender(job["thread"].read) # 0
  /\ IF Blamed \cap DOMAIN hist = {}
     THEN ThreadEnds
     ELSE Goes("thread", [job["thread"] EXCEPT !.doing = "drop", !.again = hist])
  /\ UNCHANGED <<hist, meta, said, asked, named, told>>

\* ... and writes what it read without the positions blamed; in a session that
\* was deleted, the write raises.
Drops ==
  /\ job["thread"].doing = "drop"
  /\ IF meta = Gone THEN ThreadEnds /\ UNCHANGED hist
     ELSE /\ hist' = Without(job["thread"].again, Blamed)
          /\ Goes("thread", [Idle EXCEPT !.doing = "wrote", !.tier = job["thread"].tier])
  /\ UNCHANGED <<meta, said, asked, named, told>>

\* _save_meta in the thread: the event loop may act after the title is read
\* back ...
ReadsTitle ==
  /\ job["thread"].doing = "wrote"
  /\ Goes("thread", [job["thread"] EXCEPT !.doing = "save", !.title = meta.title])
  /\ UNCHANGED <<hist, meta, said, asked, named, told>>

\* ... and before it is written.
SavesMeta ==
  /\ job["thread"].doing = "save" /\ ThreadEnds
  /\ meta' = IF meta = Gone THEN Gone ELSE Saved(job["thread"].tier, job["thread"])
  /\ UNCHANGED <<hist, said, asked, named, told>>

----------------------------------------------------------------------------
(* The handlers of the other control messages.                             *)

\* rename_session without a title asks the model for one.
AsksTitle(c) == Waits(c, "title", <<>>)

\* Session.rename: the one save that writes a title.
Renamed(tier, t) == [title |-> t, tier |-> tier]

Titled(c, t) ==
  /\ job[c].doing = "title" /\ Goes(c, Idle)
  /\ IF meta = Gone THEN UNCHANGED <<meta, named>>
     ELSE meta' = Renamed(job[c].tier, t) /\ named' = t
  /\ UNCHANGED <<hist, said, asked, told>>

Rename(t) ==
  /\ meta' = Renamed(Opened.tier, t) /\ named' = t
  /\ Asks /\ UNCHANGED <<hist, job, said, told>>

SetSandbox(tier) ==
  /\ meta' = Saved(tier, Opened) /\ told' = tier
  /\ Asks /\ UNCHANGED <<hist, job, said, named>>

Rewind(index) ==
  /\ index \in 0..(Len(hist) - 1)
  /\ hist' = SubSeq(hist, 1, index) /\ meta' = Opened
  /\ Asks /\ UNCHANGED <<job, said, named, told>>

Clear ==
  /\ hist' = <<Note>> /\ meta' = Opened
  /\ Asks /\ UNCHANGED <<job, said, named, told>>

\* Any handler that loads the session and finds nothing else to do.
Opens ==
  /\ meta = Gone /\ meta' = Opened
  /\ UNCHANGED <<hist, job, said, asked, named, told>>

Delete ==
  /\ meta # Gone /\ meta' = Gone /\ hist' = <<>>
  /\ named' = None /\ told' = None
  /\ Asks /\ UNCHANGED <<job, said>>

----------------------------------------------------------------------------
Next ==
  \/ TurnBegins \/ TurnPrompts \/ TurnSays \/ TurnCalls \/ TurnResult \/ TurnEnds
  \/ TurnCompacts \/ TurnScrubs \/ Unresolved \/ Resolved
  \/ Drops \/ ReadsTitle \/ SavesMeta
  \/ \E c \in Commands : HostCompacts(c) \/ AsksTitle(c)
  \/ \E c \in Commands, t \in Titles : Titled(c, t)
  \/ \E j \in Jobs : TooLong(j) \/ Fails(j)
  \/ \E j \in Jobs, over \in SUBSET DOMAIN Recent(hist) :
       \E left \in Trims(Recent(hist), over) : Compacts(j, over, left)
  \/ \E t \in Titles : Rename(t)
  \/ \E tier \in Tiers : SetSandbox(tier)
  \/ \E index \in 0..Len(hist) : Rewind(index)
  \/ Clear \/ Opens \/ Delete

Spec == Init /\ [][Next]_vars

----------------------------------------------------------------------------
(* Properties.                                                             *)

\* The state is of its types; only the turn and a handler wait for a summary,
\* only the thread probes, and the turn waits for a probe that is under way.
TypeOK ==
  /\ hist \in Seq(Record) /\ meta \in Meta \cup {Gone}
  /\ said \in 0..MaxMessage /\ asked \in 0..MaxAsked
  /\ named \in Titles \cup {None} /\ told \in Tiers \cup {None}
  /\ job \in [Jobs -> JobState]
  /\ job["turn"].doing \in {"idle", "begun", "turn", "probed", "summary", "chunks"}
  /\ job["thread"].doing \in {"idle", "probe", "drop", "wrote", "save"}
  /\ \A c \in Commands : job[c].doing \in {"idle", "summary", "chunks", "title"}
  /\ job["turn"].doing = "probed" => job["thread"].doing # "idle"
  /\ meta = Gone => hist = <<>>

\* "Preserve existing title if present" (session.py:1296): the title of a
\* session is the last one it was given, whoever saved the meta since.
TitleKept == meta # Gone => meta.title = named

\* The thread of a scrub saves a title that was changed since it was read.
SavesOldTitle ==
  /\ job["thread"].doing = "save" /\ job'["thread"].doing = "idle"
  /\ job["thread"].title # named

\* ... and it alone brings an older title back: a turn or a handler that loaded
\* its object before the rename, and waited since, does not, nor does it drop
\* the title; nor does the thread, unless the session was renamed or deleted
\* while it saved (session.py:1261-1306).
TitleLostOnlyByScrub == [][TitleKept => TitleKept' \/ SavesOldTitle]_vars

\* Nobody wrote to the history in a way the rewrite of job j cannot know of:
\* for a whole summary it grew by no more than is kept, for one made of chunks
\* it did not change, for a scrub it grew before the second reading only.
Unraced(j) ==
  LET read == job[j].read
  IN  CASE job[j].doing = "summary" -> IsPrefix(read, hist) /\ Len(hist) <= Len(read) + Keep
        [] job[j].doing = "chunks" -> read = hist
        [] job[j].doing = "drop" -> IsPrefix(read, hist) /\ job[j].again = hist
        [] OTHER -> FALSE

\* Record i of the history is, after the step, at its place from the end and
\* marked truncated.
MarkedNow(i) ==
  LET k == Len(hist') + i - Len(hist)
  IN  k \in DOMAIN hist' /\ hist'[k].cut /\ hist'[k].type = hist[i].type

\* What a rewrite may lose: a compaction, only what a record that stays and is
\* marked said, and of that nothing a whole summary was made of; a scrub, what
\* a record said that the provider refuses by itself, and its tool round.
MayLose(j) ==
  IF job[j].doing # "drop"
  THEN {Said([i \in {i \in DOMAIN hist : MarkedNow(i)} |-> hist[i]])
          \ (IF job[j].doing = "summary" THEN Said(job[j].read) ELSE {})}
  ELSE {Said([k \in Companions(hist, i) |-> hist[k]]) :
          i \in {i \in DOMAIN hist : Refuses(<<hist[i]>>)}}

\* A rewrite of the history that was not raced loses nothing unseen: a message
\* a compaction takes out is in its summary or stood in a record that now says
\* it was truncated, whether the summary was made whole or of chunks, which
\* leave the trimmed records out; and a scrub takes out one refused record and
\* its tool round, never one of several that are refused together
\* (session.py:1085-1247, daemon.py:6447-6474, content_risk_probe.py:146-316).
RewritesLoseNothingUnseen ==
  [][\A j \in Jobs : Unraced(j) /\ job'[j].doing # job[j].doing =>
       \E lost \in MayLose(j) \cup {{}} : Said(hist) \ Said(hist') \subseteq lost]_vars

\* "A stored tier that every later turn inherits", persisted and broadcast
\* (daemon.py:6934-6945): what the clients were told is what the meta holds.
TierStays == meta # Gone => meta.tier = told
=============================================================================
