-------------------------- MODULE MCMissionRecovery --------------------------
(* One mission: a node and one that depends on it, and, in the larger      *)
(* graph, a third beside the two.                                          *)
EXTENDS MissionRecovery, TLC

CONSTANTS a, b, c, m1

MCDags == {m1}

ChainNodes == {a, b}
ChainDeps == (a :> {}) @@ (b :> {a})
ChainDagOf == [n \in ChainNodes |-> m1]

ForkNodes == {a, b, c}
ForkDeps == ChainDeps @@ (c :> {})
ForkDagOf == [n \in ForkNodes |-> m1]
=============================================================================
