--------------------------- MODULE MCSessionStore ---------------------------
(* SessionStore with one waiting handler, one tier, two titles and records  *)
(* of which one is refused by itself and two only together.                 *)
EXTENDS SessionStore

CONSTANTS c1, none

MCRefused == {{2}, {1, 3}}
=============================================================================
