------------------------------ MODULE DagEngine ------------------------------
(***************************************************************************)
(* DAGOrchestrator.execute_dag of core/orchestration/engine.py.            *)
(*                                                                         *)
(* The orchestrator is a singleton: several graphs run at once on one      *)
(* event loop and share its semaphore.  For each graph a loop launches the *)
(* ready nodes as a wave of asyncio tasks, gathers them, checkpoints the   *)
(* graph and looks again.  Between two awaits a coroutine runs alone, so   *)
(* everything from the end of a gather to the next one is a single step    *)
(* (EndWave), as is everything a node's coroutine does before or after its *)
(* await of the handler.                                                   *)
(***************************************************************************)
EXTENDS TaskDag

CONSTANTS
  Dags,            (* the graphs handed to execute_dag                        *)
  DagOf,           (* DagOf[n]: the graph that holds node n                   *)
  Handled,         (* nodes whose action_type has a handler (or the default)  *)
  MaxRetries,      (* DAGNode.max_retries                                     *)
  MaxConcurrency,  (* slots of the orchestrator's semaphore                   *)
  MaxReruns        (* bound: times a cancelled graph is executed again        *)

ASSUME EngineAssumption ==
  /\ DagOf \in [Nodes -> Dags]
  /\ \A n \in Nodes : \A d \in Deps[n] : DagOf[d] = DagOf[n]
  /\ Handled \subseteq Nodes
  /\ MaxRetries \in Nat
  /\ MaxConcurrency \in Nat \ {0}
  /\ MaxReruns \in Nat

VARIABLES
  status,      (* node.status                                                 *)
  retries,     (* node.retry_count                                            *)
  task,        (* a node's coroutine: none, waiting for a slot, in its handler *)
  phase,       (* execute_dag of each graph                                   *)
  verdict,     (* the final DAG_COMPLETED / DAG_FAILED audit event            *)
  checkpoint,  (* what mission_registry.checkpoint_dag was last given         *)
  saved,       (* the graphs checkpointed at least once                       *)
  starts,      (* history: times the node entered its handler                 *)
  reruns       (* history: times the graph was executed after a cancellation  *)

engineVars == <<status, retries, task, phase, verdict, checkpoint, saved,
                starts, reruns>>

NodesOf(d) == {n \in Nodes : DagOf[n] = d}

InHandler == {n \in Nodes : task[n] = "handling"}

SlotFree == Cardinality(InHandler) < MaxConcurrency

(* Seeded fault: the wait returns with the first task that is done. *)
FirstDone(d) == \E n \in NodesOf(d) : task[n] = "none" /\ status[n] # "PENDING"

WaveDone(d) == \A n \in NodesOf(d) : task[n] = "none"

-----------------------------------------------------------------------------
(* A graph as TaskDAG.add_node builds it. *)
Init ==
  /\ status = [n \in Nodes |-> "PENDING"]
  /\ retries = [n \in Nodes |-> 0]
  /\ task = [n \in Nodes |-> "none"]
  /\ phase = [d \in Dags |-> "idle"]
  /\ verdict = [d \in Dags |-> "none"]
  /\ checkpoint = [status |-> status, retries |-> retries]
  /\ saved = {}
  /\ starts = [n \in Nodes |-> 0]
  /\ reruns = [d \in Dags |-> 0]

(* The while loop ends: every node is settled, or one has failed. *)
Finish(d, st) ==
  /\ IsCompleted(st, NodesOf(d)) \/ IsFailed(st, NodesOf(d))
  /\ status' = st
  /\ phase' = [phase EXCEPT ![d] = "ended"]
  /\ verdict' = [verdict EXCEPT ![d] = IF IsCompleted(st, NodesOf(d))
                                       THEN "COMPLETED" ELSE "FAILED"]
  /\ UNCHANGED task

(* Nothing is ready and nothing runs: what is left PENDING is BLOCKED. *)
Block(d, st) ==
  /\ ~IsCompleted(st, NodesOf(d)) /\ ~IsFailed(st, NodesOf(d))
  /\ Ready(st, NodesOf(d)) = {}
  /\ status' = [n \in Nodes |-> IF DagOf[n] = d /\ st[n] = "PENDING"
                                THEN "BLOCKED" ELSE st[n]]
  /\ phase' = [phase EXCEPT ![d] = "ended"]
  /\ verdict' = [verdict EXCEPT ![d] = "FAILED"]
  /\ UNCHANGED task

(* One asyncio task per ready node; the loop then awaits the gather. *)
LaunchWave(d, st) ==
  /\ ~IsCompleted(st, NodesOf(d)) /\ ~IsFailed(st, NodesOf(d))
  /\ Ready(st, NodesOf(d)) # {}
  /\ status' = st
  /\ task' = [n \in Nodes |-> IF n \in Ready(st, NodesOf(d)) THEN "waiting" ELSE task[n]]
  /\ phase' = [phase EXCEPT ![d] = "gather"]
  /\ UNCHANGED verdict

LoopPass(d, st) == Finish(d, st) \/ Block(d, st) \/ LaunchWave(d, st)

(* Seeded fault: the nodes a cancelled execution left RUNNING are kept. *)
ResetNothing(d) == status

(* Nodes an interrupted execution left RUNNING become PENDING again. *)
ResetRunning(d) ==
  [n \in Nodes |-> IF DagOf[n] = d /\ status[n] = "RUNNING" THEN "PENDING" ELSE status[n]]

(* execute_dag up to its first await: on a new graph, or on one that an    *)
(* earlier, cancelled execution left behind.                               *)
Begin(d) ==
  /\ \/ phase[d] = "idle" /\ UNCHANGED reruns
     \/ /\ phase[d] = "cancelled" /\ reruns[d] < MaxReruns
        /\ reruns' = [reruns EXCEPT ![d] = @ + 1]
  /\ LoopPass(d, ResetRunning(d))
  /\ UNCHANGED <<retries, checkpoint, saved, starts>>

(* to_dict of the graph, as checkpoint_dag stores it. *)
Snapshot(d) ==
  [status  |-> [n \in Nodes |-> IF DagOf[n] = d THEN status[n] ELSE checkpoint.status[n]],
   retries |-> [n \in Nodes |-> IF DagOf[n] = d THEN retries[n] ELSE checkpoint.retries[n]]]

(* The gather returns: the wave is checkpointed and the loop goes round. *)
EndWave(d) ==
  /\ phase[d] = "gather" /\ WaveDone(d)
  /\ checkpoint' = Snapshot(d)
  /\ saved' = saved \cup {d}
  /\ LoopPass(d, status)
  /\ UNCHANGED <<retries, starts, reruns>>

(* The gather raises CancelledError: tasks not yet done are cancelled, a   *)
(* node inside its handler stays RUNNING, one still waiting stays PENDING. *)
Cancel(d) ==
  /\ phase[d] = "gather"
  /\ phase' = [phase EXCEPT ![d] = "cancelled"]
  /\ task' = [n \in Nodes |-> IF DagOf[n] = d THEN "none" ELSE task[n]]
  /\ UNCHANGED <<status, retries, verdict, checkpoint, saved, starts, reruns>>

(* _execute_node takes a slot and enters the handler. *)
StartNode(n) ==
  /\ task[n] = "waiting" /\ SlotFree
  /\ n \in Handled
  /\ status' = [status EXCEPT ![n] = "RUNNING"]
  /\ task' = [task EXCEPT ![n] = "handling"]
  /\ starts' = [starts EXCEPT ![n] = @ + 1]
  /\ UNCHANGED <<retries, phase, verdict, checkpoint, saved, reruns>>

(* Seeded fault: a node without a handler waits for one to be registered. *)
WaitForHandler(n) == FALSE /\ UNCHANGED engineVars

(* _execute_node finds no handler: FAILED, and the dependents are left. *)
NoHandler(n) ==
  /\ task[n] = "waiting" /\ SlotFree
  /\ n \notin Handled
  /\ status' = [status EXCEPT ![n] = "FAILED"]
  /\ task' = [task EXCEPT ![n] = "none"]
  /\ UNCHANGED <<retries, phase, verdict, checkpoint, saved, starts, reruns>>

HandlerReturns(n) ==
  /\ task[n] = "handling"
  /\ status' = [status EXCEPT ![n] = "COMPLETED"]
  /\ task' = [task EXCEPT ![n] = "none"]
  /\ UNCHANGED <<retries, phase, verdict, checkpoint, saved, starts, reruns>>

(* Seeded fault: the budget is compared before it is charged. *)
RetriesLeftOffByOne(n) == retries[n] <= MaxRetries

RetriesLeft(n) == retries[n] + 1 <= MaxRetries

(* The handler raises and the node has a retry left. *)
HandlerRetries(n) ==
  /\ task[n] = "handling" /\ RetriesLeft(n)
  /\ retries' = [retries EXCEPT ![n] = @ + 1]
  /\ status' = [status EXCEPT ![n] = "PENDING"]
  /\ task' = [task EXCEPT ![n] = "none"]
  /\ UNCHANGED <<phase, verdict, checkpoint, saved, starts, reruns>>

(* The handler raises for the last time: FAILED, and _cascade_skip. *)
HandlerFails(n) ==
  /\ task[n] = "handling" /\ ~RetriesLeft(n)
  /\ retries' = [retries EXCEPT ![n] = @ + 1]
  /\ LET failed == [status EXCEPT ![n] = "FAILED"]
     IN  status' = [m \in Nodes |-> IF m \in Downstream(failed, n)
                                    THEN "SKIPPED" ELSE failed[m]]
  /\ task' = [task EXCEPT ![n] = "none"]
  /\ UNCHANGED <<phase, verdict, checkpoint, saved, starts, reruns>>

NodeStep(n) ==
  StartNode(n) \/ NoHandler(n) \/ HandlerReturns(n) \/ HandlerRetries(n) \/ HandlerFails(n)

Next ==
  \/ \E d \in Dags : Begin(d) \/ EndWave(d) \/ Cancel(d)
  \/ \E n \in Nodes : NodeStep(n)

(***************************************************************************)
(* The event loop runs every coroutine that can run, and a handler is      *)
(* assumed to return or raise (execute_dag puts no timeout around it).     *)
(* Nobody is obliged to execute or to cancel a graph.                      *)
(***************************************************************************)
Fairness ==
  /\ \A d \in Dags : WF_engineVars(EndWave(d))
  /\ \A n \in Nodes : WF_engineVars(NodeStep(n))

Spec == Init /\ [][Next]_engineVars /\ Fairness

-----------------------------------------------------------------------------
TypeOK ==
  /\ status \in [Nodes -> Status]
  /\ retries \in [Nodes -> Nat]
  /\ task \in [Nodes -> {"none", "waiting", "handling"}]
  /\ phase \in [Dags -> {"idle", "gather", "ended", "cancelled"}]
  /\ verdict \in [Dags -> {"none", "COMPLETED", "FAILED"}]
  /\ checkpoint \in [status : [Nodes -> Status], retries : [Nodes -> Nat]]
  /\ saved \subseteq Dags
  /\ starts \in [Nodes -> Nat]
  /\ reruns \in [Dags -> Nat]

(* A node is launched, runs or is done only if everything it depends on is *)
(* COMPLETED, whatever failed, was retried or was cancelled on the way.    *)
DependencyOrder ==
  \A n \in Nodes :
    (task[n] # "none" \/ status[n] \in {"RUNNING", "COMPLETED"}) =>
       \A d \in Deps[n] : status[d] = "COMPLETED"

(* What a restart would resume from is consistent on its own: no node is   *)
(* caught RUNNING in it, and a COMPLETED node has COMPLETED dependencies.  *)
CheckpointConsistent ==
  \A n \in Nodes :
    /\ checkpoint.status[n] # "RUNNING"
    /\ checkpoint.status[n] = "COMPLETED" =>
         \A d \in Deps[n] : checkpoint.status[d] = "COMPLETED"

(* is_completed lets SKIPPED nodes count as done, yet a graph audited      *)
(* DAG_COMPLETED has run every one of its nodes; one audited DAG_FAILED    *)
(* has a FAILED node.                                                      *)
VerdictSound ==
  \A d \in Dags :
    /\ verdict[d] = "COMPLETED" => \A n \in NodesOf(d) : status[n] = "COMPLETED"
    /\ verdict[d] = "FAILED" /\ NodesOf(d) # {} => IsFailed(status, NodesOf(d))

(* A node is skipped only downstream of a failure, and a failure of a      *)
(* handler leaves no transitive dependent that could still be run.         *)
SkipsFollowFailures ==
  /\ \A n \in Nodes : status[n] = "SKIPPED" =>
       \E d \in Deps[n] : status[d] \in {"FAILED", "SKIPPED"}
  /\ \A n \in Nodes : \A d \in Deps[n] :
       (status[d] = "SKIPPED" \/ (status[d] = "FAILED" /\ d \in Handled)) =>
          status[n] = "SKIPPED"

(* A node enters its handler at most once per retry it was granted, plus   *)
(* once for every execution that was cancelled under it.                   *)
RetryBudget ==
  \A n \in Nodes : starts[n] <= MaxRetries + 1 + reruns[DagOf[n]]

(* A settled node is never touched again: not replayed by a later wave or  *)
(* by a second execution, not skipped by another node's failure.           *)
SettledIsFinal ==
  [][\A n \in Nodes : status[n] \in {"COMPLETED", "FAILED", "SKIPPED"} =>
        status'[n] = status[n] /\ starts'[n] = starts[n]]_engineVars

(* Implements: with a RUNNING node read as one being worked on, a FAILED,  *)
(* SKIPPED or BLOCKED one as dead, every step of the engine is a step of   *)
(* the contract of DagContract or changes nothing the contract speaks of.  *)
ViewOf(st) ==
  IF st = "PENDING" THEN "todo"
  ELSE IF st = "RUNNING" THEN "active"
  ELSE IF st = "COMPLETED" THEN "done"
  ELSE "dead"

OutcomeOf(v) ==
  IF v = "none" THEN "open" ELSE IF v = "COMPLETED" THEN "success" ELSE "failure"

NodeView == [n \in Nodes |-> ViewOf(status[n])]
OutcomeView == [d \in Dags |-> OutcomeOf(verdict[d])]

Contract == INSTANCE DagContract WITH node <- NodeView, outcome <- OutcomeView

ImplementsContract == Contract!Spec

(* An execution that is gathering ends, with a verdict or by cancellation: *)
(* no wave is lost and no node waits for a slot for ever.                  *)
ExecutionEnds ==
  \A d \in Dags : phase[d] = "gather" ~> phase[d] \in {"ended", "cancelled"}

=============================================================================
