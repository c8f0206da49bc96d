--------------------------- MODULE MCKeyRotation ---------------------------
(* Three keys shared by two calls: one blocked, one in flight, one left. *)
EXTENDS KeyRotation
CONSTANTS c1, c2
MCCalls == {c1, c2}
=============================================================================
