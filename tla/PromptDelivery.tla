---------------------------- MODULE PromptDelivery ----------------------------
(***************************************************************************)
(* What the daemon promises of the prompts sent to it, whatever turns they *)
(* meet: a prompt it has accepted is in its hands until it is written to   *)
(* the session's history, once, or given up -- handed back to its client   *)
(* or dropped.  A prompt written is never taken again, and a prompt not in *)
(* its hands is never written.                                             *)
(***************************************************************************)
EXTENDS Naturals

CONSTANT Prompts

VARIABLES
    held,       \* the prompts accepted and not yet written or given up
    written     \* how often each prompt has been written to the history

Init ==
    /\ held = {}
    /\ written = [p \in Prompts |-> 0]

Accept(p) ==
    /\ p \notin held
    /\ written[p] = 0
    /\ held' = held \cup {p}
    /\ UNCHANGED written

Write(p) ==
    /\ p \in held
    /\ held' = held \ {p}
    /\ written' = [written EXCEPT ![p] = @ + 1]

GiveUp(P) ==
    /\ P \subseteq held
    /\ held' = held \ P
    /\ UNCHANGED written

Next ==
    \/ \E p \in Prompts : Accept(p) \/ Write(p)
    \/ \E P \in SUBSET Prompts : GiveUp(P)

Spec == Init /\ [][Next]_<<held, written>>
===============================================================================
