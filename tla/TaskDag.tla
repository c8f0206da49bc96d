------------------------------- MODULE TaskDag -------------------------------
(***************************************************************************)
(* The task graph of core/orchestration/dag.py: nodes, their dependencies, *)
(* the statuses a node takes, and the queries the orchestrator makes of a  *)
(* graph (get_ready_nodes, is_completed, is_failed, _cascade_skip).  The   *)
(* queries take the map of statuses as a parameter, so that the engine can *)
(* ask them of the statuses it is about to write.                          *)
(***************************************************************************)
EXTENDS Integers, FiniteSets

CONSTANTS
  Nodes,   (* the task identifiers of every graph in play           *)
  Deps     (* Deps[n]: the identifiers in DAGNode.dependencies of n *)

(***************************************************************************)
(* TaskDAG.validate refuses a missing dependency, a self-dependency and a  *)
(* cycle: what it accepts is a map into Nodes that some ranking orders.    *)
(***************************************************************************)
Validated ==
  /\ Deps \in [Nodes -> SUBSET Nodes]
  /\ \E rank \in [Nodes -> 0 .. Cardinality(Nodes)] :
       \A n \in Nodes : \A d \in Deps[n] : rank[d] < rank[n]

ASSUME GraphAssumption == IsFiniteSet(Nodes) /\ Validated

-----------------------------------------------------------------------------
(* DAGExecutionStatus *)
Status == {"PENDING", "READY", "RUNNING", "COMPLETED", "FAILED", "SKIPPED",
           "BLOCKED", "OUTCOME_UNKNOWN"}

(* Seeded fault: one COMPLETED dependency is enough. *)
ReadyOnAnyDep(st, N) ==
  {n \in N : st[n] = "PENDING" /\ (Deps[n] = {} \/ \E d \in Deps[n] : st[d] = "COMPLETED")}

(* get_ready_nodes: PENDING nodes whose dependencies are all COMPLETED. *)
Ready(st, N) ==
  {n \in N : st[n] = "PENDING" /\ \A d \in Deps[n] : st[d] = "COMPLETED"}

(* Seeded fault: a failed node counts as settled. *)
CompletedDespiteFailure(st, N) ==
  N # {} /\ \A n \in N : st[n] \in {"COMPLETED", "SKIPPED", "FAILED"}

(* is_completed: an empty graph is not; a SKIPPED node counts as done. *)
IsCompleted(st, N) == N # {} /\ \A n \in N : st[n] \in {"COMPLETED", "SKIPPED"}

(* is_failed *)
IsFailed(st, N) == \E n \in N : st[n] = "FAILED"

Dependents(m) == {n \in Nodes : m \in Deps[n]}

Pending(st) == {n \in Nodes : st[n] = "PENDING"}

(* S holds the pending dependents of f and of its own members. *)
ClosedDownstream(st, f, S) ==
  \A n \in Pending(st) : (f \in Deps[n] \/ \E m \in S : m \in Deps[n]) => n \in S

(* Seeded fault: only the direct dependents are reached. *)
DirectDownstream(st, f) == Dependents(f) \cap Pending(st)

(***************************************************************************)
(* The nodes _cascade_skip marks when f fails: its worklist starts with    *)
(* the pending dependents of f and follows pending dependents only, so it  *)
(* computes the least set closed in that sense.                            *)
(***************************************************************************)
Downstream(st, f) ==
  {n \in Pending(st) : \A S \in SUBSET Pending(st) :
                          ClosedDownstream(st, f, S) => n \in S}

=============================================================================
