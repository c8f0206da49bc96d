----------------------------- MODULE MCDagEngine -----------------------------
(* A diamond on one graph; on the other a chain, whose first node competes  *)
(* for the slots with the diamond and whose second has no handler.          *)
EXTENDS DagEngine, TLC

CONSTANTS a, b, c, e, x, y, z, d1, d2

MCNodes == {a, b, c, e, x, y, z}
MCDags == {d1, d2}
MCDeps == (a :> {}) @@ (b :> {a}) @@ (c :> {a}) @@ (e :> {b, c})
          @@ (x :> {}) @@ (y :> {x}) @@ (z :> {y})
MCDagOf == [n \in MCNodes |-> IF n \in {x, y, z} THEN d2 ELSE d1]
MCHandled == {a, b, c, e, x, z}
=============================================================================
