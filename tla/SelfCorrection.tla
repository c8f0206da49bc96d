--------------------------- MODULE SelfCorrection ---------------------------
(***************************************************************************)
(* The two retry loops around a node's work: execute_with_self_correction  *)
(* of core/orchestration/self_correction.py inside the dag_handler of      *)
(* core/ezzio_master.py, and the retries of engine.py around that handler. *)
(* orchestrate_multi_agent_mission gives both loops the same bound, and    *)
(* both write node.retry_count.                                            *)
(*                                                                         *)
(* Waves, dependencies and the semaphore are in DagEngine: here nodes are  *)
(* independent, and a PENDING one may be launched at any time.             *)
(***************************************************************************)
EXTENDS Integers, FiniteSets

CONSTANTS
  Nodes,
  MaxRetries,   (* bounded_retries: max_retries and max_repair_retries      *)
  MaxCount      (* bound: executions are counted up to here                 *)

ASSUME CorrectionAssumption ==
  /\ MaxRetries \in Nat
  /\ MaxCount \in Nat

VARIABLES
  status,      (* node.status                                               *)
  retries,     (* node.retry_count                                          *)
  attempt,     (* attempt of the handler's run in progress                  *)
  executions,  (* history: calls of _single_execution since the node last   *)
               (* relapsed, up to MaxCount                                  *)
  relapsed     (* history: the node's last run ended in a relapse           *)

vars == <<status, retries, attempt, executions, relapsed>>

Executed(n) ==
  executions' = [executions EXCEPT ![n] = IF @ < MaxCount THEN @ + 1 ELSE @]

Init ==
  /\ status = [n \in Nodes |-> "PENDING"]
  /\ retries = [n \in Nodes |-> 0]
  /\ attempt = [n \in Nodes |-> 0]
  /\ executions = [n \in Nodes |-> 0]
  /\ relapsed = [n \in Nodes |-> FALSE]

(* _execute_node calls the handler; _single_execution starts, with no plan. *)
Launch(n) ==
  /\ status[n] = "PENDING"
  /\ status' = [status EXCEPT ![n] = "RUNNING"]
  /\ attempt' = [attempt EXCEPT ![n] = 0]
  /\ relapsed' = [relapsed EXCEPT ![n] = FALSE]
  /\ Executed(n)
  /\ UNCHANGED retries

(* The execution returns and validate_proof accepts its output. *)
Validated(n) ==
  /\ status[n] = "RUNNING"
  /\ status' = [status EXCEPT ![n] = "COMPLETED"]
  /\ UNCHANGED <<retries, attempt, executions, relapsed>>

RepairLeft(n) == attempt[n] < MaxRetries

(* Seeded fault: the plan carries the number of the attempt that failed. *)
PreviousAttempt(n) == attempt[n]

(* BoundedRepairPlan.attempt, the number of the attempt that starts. *)
PlanAttempt(n) == attempt[n] + 1

(* A repairable failure: the next attempt starts at once, with a plan, and *)
(* its first statement sets the node's retry count to the plan's number.   *)
Repair(n) ==
  /\ status[n] = "RUNNING" /\ RepairLeft(n)
  /\ attempt' = [attempt EXCEPT ![n] = @ + 1]
  /\ retries' = [retries EXCEPT ![n] = PlanAttempt(n)]
  /\ Executed(n)
  /\ UNCHANGED <<status, relapsed>>

(* A failure beyond repair after a repair, with repairs left: the run ends *)
(* with the count that the repair has written, not with one more than it   *)
(* had begun with.                                                         *)
Relapse(n) == attempt[n] > 0 /\ RepairLeft(n)

(* The handler raises: a failure that is not repairable (a policy denial), *)
(* at any attempt, or a repairable one at the last.  The engine charges a  *)
(* retry and gives the node back or fails it.                              *)
GiveUp(n) ==
  /\ status[n] = "RUNNING"
  /\ retries' = [retries EXCEPT ![n] = @ + 1]
  /\ status' = [status EXCEPT ![n] = IF retries[n] + 1 <= MaxRetries THEN "PENDING" ELSE "FAILED"]
  /\ relapsed' = [relapsed EXCEPT ![n] = Relapse(n)]
  /\ executions' = [executions EXCEPT ![n] = IF Relapse(n) THEN 0 ELSE @]
  /\ UNCHANGED attempt

NodeStep(n) == Launch(n) \/ Validated(n) \/ Repair(n) \/ GiveUp(n)

Next == \E n \in Nodes : NodeStep(n)

(* A launched node runs, and an execution returns or raises in the end.    *)
Spec == Init /\ [][Next]_vars /\ \A n \in Nodes : WF_vars(NodeStep(n))

-----------------------------------------------------------------------------
Settled(n) == status[n] \in {"COMPLETED", "FAILED"}

TypeOK ==
  /\ status \in [Nodes -> {"PENDING", "RUNNING", "COMPLETED", "FAILED"}]
  /\ retries \in [Nodes -> 0 .. MaxRetries + 1]
  /\ attempt \in [Nodes -> 0 .. MaxRetries]
  /\ executions \in [Nodes -> 0 .. MaxCount]
  /\ relapsed \in [Nodes -> BOOLEAN]

(* The two loops add up, although they share a counter: between two        *)
(* relapses a node's work is executed once for each retry and once for     *)
(* each attempt of its last run, and not their product.  A relapse is the  *)
(* only way past the bound, since it gives back retries that were spent.   *)
WorkBounded == \A n \in Nodes : executions[n] <= 2 * MaxRetries + 1

(* What keeps a node from ending up COMPLETED or FAILED is nothing but     *)
(* relapses without end.                                                   *)
SettlesUnlessRelapsing == \A n \in Nodes : <>Settled(n) \/ []<>relapsed[n]

(* long_running_harness.py:7, "Strict bounded retries and repairs (no      *)
(* infinite loops)": every node ends up COMPLETED or FAILED.               *)
EveryNodeSettles == \A n \in Nodes : <>Settled(n)

=============================================================================
