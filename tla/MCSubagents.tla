---------------------------- MODULE MCSubagents -----------------------------
(***************************************************************************)
(* Instances of Subagents for TLC: two delegations that contend for one    *)
(* slot, two calls to the owner, and one the depth limit refuses.          *)
(***************************************************************************)
EXTENDS Subagents

CONSTANTS d1, d2, d3, b1, b2

MCPlans == {{d1, d2}, {b1, b2}, {d3}}
=============================================================================
