--------------------------- MODULE MCSessionTurns ---------------------------
(* Small instances of SessionTurns: every client works in one directory,   *)
(* the upgrade tick in another.                                            *)
EXTENDS SessionTurns, TLC

CONSTANTS ClientDir, UpgradeDir

MCCwd == [p \in Producers |-> IF p = Tick THEN UpgradeDir ELSE ClientDir]

\* Prompts are interchangeable: no definition compares two of them but for
\* equality.
PromptSymmetry == Permutations(Prompts)

\* States that differ only in what nothing reads any more are one: a
\* connection's handle of a turn that has ended stops nothing, like none,
\* and nobody asks who sent a prompt that is settled, or how it was.
Settled(r) ==
    /\ turn[r].at \in {"idle", "finished"}
    /\ log[r].fate \in {"committed", "cancelled", "failed", "lost"}

LiveView ==
    <<loop, sess, turn,
      [c \in Conns |-> IF conn[c].own # None /\ ~Live(conn[c].own)
                       THEN [conn[c] EXCEPT !.own = None] ELSE conn[c]],
      [r \in Prompts |-> IF Settled(r) THEN <<>> ELSE <<req[r], log[r]>>]>>
=============================================================================
