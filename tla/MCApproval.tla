----------------------------- MODULE MCApproval -----------------------------
(***************************************************************************)
(* An instance of Approval for TLC: two calls of two sessions, of which    *)
(* one goes through approve_escalation, and two clients.  All together are *)
(* out of TLC's reach, so a behaviour has one of the casts below: one call *)
(* and both clients, or both calls and one client.                         *)
(***************************************************************************)
EXTENDS Approval, TLC

CONSTANTS q1, q2, s1, s2, c1, c2

TwoSessions == (q1 :> s1) @@ (q2 :> s2)

Casts == {[calls |-> {q1}, clients |-> {c1, c2}],
          [calls |-> {q2}, clients |-> {c1, c2}],
          [calls |-> {q1, q2}, clients |-> {c1}]}

VARIABLE cast     \* bound: the calls made and the clients that come

InCast ==
    /\ \A q \in Calls : call[q].at # "idle" => q \in cast.calls
    /\ \A c \in Clients : client[c].sub # None => c \in cast.clients

CastInit == Init /\ cast \in Casts

CastNext == Next /\ UNCHANGED cast /\ InCast'

\* The steps a cast leaves out are a client's and a turn's, and no fairness
\* is asked of those.
CastSpec == CastInit /\ [][CastNext]_<<vars, cast>> /\ Fairness
=============================================================================
