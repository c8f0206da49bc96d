--------------------------- MODULE DagEngineProofs ---------------------------
(***************************************************************************)
(* Proofs about DagEngine, for every graph, number of graphs, retry budget *)
(* and semaphore size, and, in the second half, about MissionRecovery: the *)
(* missions around the graphs, for every number of crashes.                *)
(***************************************************************************)
EXTENDS MissionRecovery, FiniteSetTheorems, WellFoundedInduction, TLAPS

-----------------------------------------------------------------------------
(* The nodes _cascade_skip reaches. *)

(* They are pending, and they contain every pending dependent of the       *)
(* failed node and of one another: the worklist loop misses nobody.        *)
LEMMA DownstreamClosed ==
  ASSUME NEW st, NEW f
  PROVE  /\ Downstream(st, f) \subseteq Pending(st)
         /\ ClosedDownstream(st, f, Downstream(st, f))
  <1>1. Downstream(st, f) \subseteq Pending(st)
    BY DEF Downstream
  <1>2. ASSUME NEW n \in Pending(st),
               f \in Deps[n] \/ \E m \in Downstream(st, f) : m \in Deps[n]
        PROVE  n \in Downstream(st, f)
    <2>1. SUFFICES ASSUME NEW S \in SUBSET Pending(st), ClosedDownstream(st, f, S)
                   PROVE  n \in S
      BY DEF Downstream
    <2>2. Downstream(st, f) \subseteq S
      BY <2>1 DEF Downstream
    <2>3. QED
      BY <1>2, <2>1, <2>2 DEF ClosedDownstream
  <1>3. QED
    BY <1>1, <1>2 DEF ClosedDownstream

(* Nothing else is reached: each of them waits for the failed node or for  *)
(* another of them.                                                        *)
LEMMA DownstreamCaused ==
  ASSUME NEW st, NEW f, NEW n \in Downstream(st, f)
  PROVE  f \in Deps[n] \/ \E m \in Downstream(st, f) : m \in Deps[n]
  <1> DEFINE D == Downstream(st, f)
             C == {k \in D : f \in Deps[k] \/ \E m \in D : m \in Deps[k]}
  <1>1. C \in SUBSET Pending(st)
    BY DownstreamClosed
  <1>2. ClosedDownstream(st, f, C)
    BY DownstreamClosed DEF ClosedDownstream
  <1>3. D \subseteq C
    <2> HIDE DEF C
    <2> QED BY <1>1, <1>2 DEF Downstream
  <1>4. QED
    BY <1>3

(* Dependencies never cross graphs, so neither does the cascade. *)
LEMMA DownstreamLocal ==
  ASSUME NEW st, NEW f \in Nodes, NEW n \in Downstream(st, f)
  PROVE  DagOf[n] = DagOf[f]
  <1> DEFINE L == {k \in Downstream(st, f) : DagOf[k] = DagOf[f]}
  <1>1. L \in SUBSET Pending(st)
    BY DownstreamClosed
  <1>2. ClosedDownstream(st, f, L)
    <2>1. SUFFICES ASSUME NEW k \in Pending(st),
                          f \in Deps[k] \/ \E m \in L : m \in Deps[k]
                   PROVE  k \in L
      BY DEF ClosedDownstream
    <2>2. k \in Downstream(st, f)
      BY <2>1, DownstreamClosed DEF ClosedDownstream
    <2>3. k \in Nodes /\ \E m \in Deps[k] : DagOf[m] = DagOf[f]
      BY <2>1 DEF Pending
    <2>4. QED
      BY <2>2, <2>3, EngineAssumption
  <1>3. n \in L
    <2> HIDE DEF L
    <2> QED BY <1>1, <1>2 DEF Downstream
  <1>4. QED
    BY <1>3

-----------------------------------------------------------------------------
(* Type correctness. *)

LEMMA LoopPassType ==
  ASSUME TypeOK, NEW d \in Dags, NEW st \in [Nodes -> Status], LoopPass(d, st)
  PROVE  /\ status' \in [Nodes -> Status]
         /\ task' \in [Nodes -> {"none", "waiting", "handling"}]
         /\ phase' \in [Dags -> {"idle", "gather", "ended", "cancelled"}]
         /\ verdict' \in [Dags -> {"none", "COMPLETED", "FAILED"}]
  <1>1. CASE Finish(d, st)
    BY <1>1 DEF Finish, TypeOK
  <1>2. CASE Block(d, st)
    BY <1>2 DEF Block, TypeOK, Status
  <1>3. CASE LaunchWave(d, st)
    BY <1>3 DEF LaunchWave, TypeOK
  <1>4. QED
    BY <1>1, <1>2, <1>3 DEF LoopPass

LEMMA ResetType ==
  ASSUME TypeOK, NEW d \in Dags
  PROVE  ResetRunning(d) \in [Nodes -> Status]
  BY DEF TypeOK, ResetRunning, Status

LEMMA TypeStep == TypeOK /\ [Next]_engineVars => TypeOK'
  <1> SUFFICES ASSUME TypeOK, [Next]_engineVars PROVE TypeOK'
    OBVIOUS
  <1>1. ASSUME NEW d \in Dags, Begin(d) PROVE TypeOK'
    BY <1>1, ResetType, LoopPassType DEF Begin, TypeOK
  <1>2. ASSUME NEW d \in Dags, EndWave(d) PROVE TypeOK'
    <2>1. checkpoint' \in [status : [Nodes -> Status], retries : [Nodes -> Nat]]
      BY <1>2 DEF EndWave, Snapshot, TypeOK
    <2>2. QED
      BY <1>2, <2>1, LoopPassType DEF EndWave, TypeOK
  <1>3. ASSUME NEW d \in Dags, Cancel(d) PROVE TypeOK'
    BY <1>3 DEF Cancel, TypeOK
  <1>4. ASSUME NEW n \in Nodes, NodeStep(n) PROVE TypeOK'
    BY <1>4 DEF NodeStep, StartNode, NoHandler, HandlerReturns, HandlerRetries,
                HandlerFails, TypeOK, Status
  <1>5. CASE UNCHANGED engineVars
    BY <1>5 DEF engineVars, TypeOK
  <1>6. QED
    BY <1>1, <1>2, <1>3, <1>4, <1>5 DEF Next

(* Every variable of the engine keeps its type. *)
THEOREM TypeCorrect == Spec => []TypeOK
  <1>1. Init => TypeOK
    BY DEF Init, TypeOK, Status
  <1>2. QED
    BY <1>1, TypeStep, PTL DEF Spec

-----------------------------------------------------------------------------
(* The order of dependencies. *)

(* Coroutines and statuses agree: a node waiting for a slot is PENDING and *)
(* one in its handler is RUNNING; both belong to a gathering graph, and a  *)
(* RUNNING node without a coroutine was left by a cancellation.            *)
Coroutines ==
  \A n \in Nodes :
    /\ task[n] = "waiting" => status[n] = "PENDING"
    /\ task[n] = "handling" => status[n] = "RUNNING"
    /\ task[n] # "none" => phase[DagOf[n]] = "gather"
    /\ status[n] = "RUNNING" => task[n] = "handling" \/ phase[DagOf[n]] = "cancelled"

(* DependencyOrder is not inductive alone: a launched node could have been *)
(* skipped, or a RUNNING one forgotten, if Coroutines did not hold.        *)
OrderInv == TypeOK /\ Coroutines /\ DependencyOrder

(* A pass of the loop over statuses that agree with the coroutines of the  *)
(* other graphs, when the graph it looks at has none and none RUNNING.     *)
LEMMA LoopPassOrder ==
  ASSUME OrderInv, NEW d \in Dags, NEW st \in [Nodes -> Status], LoopPass(d, st),
         WaveDone(d),
         \A n \in Nodes : IF DagOf[n] = d THEN st[n] # "RUNNING" ELSE st[n] = status[n],
         \A n \in Nodes : st[n] = "COMPLETED" <=> status[n] = "COMPLETED"
  PROVE  Coroutines' /\ DependencyOrder'
  <1>1. \A n \in Nodes : DagOf[n] = d => task[n] = "none"
    BY DEF WaveDone, NodesOf
  <1>2. \A n \in Nodes : Deps[n] \subseteq Nodes
    BY GraphAssumption DEF Validated
  <1>3. CASE Finish(d, st)
    BY <1>1, <1>2, <1>3 DEF Finish, OrderInv, TypeOK, Coroutines, DependencyOrder
  <1>4. CASE Block(d, st)
    BY <1>1, <1>2, <1>4 DEF Block, OrderInv, TypeOK, Coroutines, DependencyOrder
  <1>5. CASE LaunchWave(d, st)
    <2>1. \A n \in Nodes : task'[n] # task[n] =>
             /\ DagOf[n] = d /\ task'[n] = "waiting" /\ st[n] = "PENDING"
             /\ \A m \in Deps[n] : st[m] = "COMPLETED"
      BY <1>5 DEF LaunchWave, Ready, NodesOf, OrderInv, TypeOK
    <2>2. Coroutines'
      BY <1>1, <1>5, <2>1, EngineAssumption DEF LaunchWave, OrderInv, TypeOK, Coroutines
    <2>3. DependencyOrder'
      BY <1>1, <1>2, <1>5, <2>1 DEF LaunchWave, OrderInv, TypeOK, DependencyOrder
    <2>4. QED
      BY <2>2, <2>3
  <1>6. QED
    BY <1>3, <1>4, <1>5 DEF LoopPass

(* The cascade of a failing node touches no node that was launched.        *)
LEMMA CascadeSparesLaunched ==
  ASSUME OrderInv, NEW n \in Nodes, HandlerFails(n)
  PROVE  \A m \in Nodes :
           /\ m # n => status'[m] = status[m] \/ (status[m] = "PENDING" /\ status'[m] = "SKIPPED")
           /\ task[m] = "waiting" => status'[m] = status[m]
           /\ status'[n] = "FAILED" /\ status[n] = "RUNNING"
  <1> DEFINE failed == [status EXCEPT ![n] = "FAILED"]
  <1>1. status[n] = "RUNNING" /\ failed \in [Nodes -> Status]
    BY DEF HandlerFails, OrderInv, Coroutines, TypeOK, Status
  <1>2. status' = [m \in Nodes |-> IF m \in Downstream(failed, n) THEN "SKIPPED" ELSE failed[m]]
    BY DEF HandlerFails
  <1>3. \A m \in Downstream(failed, n) : m \in Nodes /\ failed[m] = "PENDING"
    BY DownstreamClosed DEF Pending
  <1>4. ASSUME NEW m \in Nodes, task[m] = "waiting", m \in Downstream(failed, n)
        PROVE  FALSE
    <2>1. \A k \in Deps[m] : k \in Nodes /\ status[k] = "COMPLETED"
      BY <1>4, GraphAssumption DEF OrderInv, DependencyOrder, Validated
    <2>2. \E k \in Deps[m] : k = n \/ k \in Downstream(failed, n)
      BY <1>4, DownstreamCaused
    <2>3. QED
      BY <1>1, <1>3, <2>1, <2>2 DEF OrderInv, TypeOK
  <1>5. QED
    <2> HIDE DEF failed
    <2>1. \A m \in Nodes : m # n => failed[m] = status[m]
      BY DEF failed, OrderInv, TypeOK
    <2>2. failed[n] = "FAILED"
      BY DEF failed, OrderInv, TypeOK
    <2>3. \A m \in Nodes : m \notin Downstream(failed, n) => status'[m] = failed[m]
      BY <1>2
    <2>4. \A m \in Nodes : m \in Downstream(failed, n) => status'[m] = "SKIPPED"
      BY <1>2
    <2>5. n \notin Downstream(failed, n)
      BY <1>3, <2>2
    <2>6. \A m \in Nodes : task[m] = "waiting" => m # n /\ m \notin Downstream(failed, n)
      BY <1>1, <1>4 DEF OrderInv, Coroutines
    <2>7. QED
      BY <1>1, <1>3, <2>1, <2>2, <2>3, <2>4, <2>5, <2>6

LEMMA OrderStep == OrderInv /\ [Next]_engineVars => OrderInv'
  <1> SUFFICES ASSUME OrderInv, [Next]_engineVars PROVE OrderInv'
    OBVIOUS
  <1>0. TypeOK' /\ (\A n \in Nodes : Deps[n] \subseteq Nodes)
    BY TypeStep, GraphAssumption DEF OrderInv, Validated
  <1>1. ASSUME NEW d \in Dags, Begin(d) PROVE OrderInv'
    <2>1. WaveDone(d)
      BY <1>1 DEF Begin, WaveDone, NodesOf, OrderInv, Coroutines, TypeOK
    <2>2. ResetRunning(d) \in [Nodes -> Status]
      BY ResetType DEF OrderInv
    <2>3. /\ \A n \in Nodes : IF DagOf[n] = d THEN ResetRunning(d)[n] # "RUNNING"
                                             ELSE ResetRunning(d)[n] = status[n]
          /\ \A n \in Nodes : ResetRunning(d)[n] = "COMPLETED" <=> status[n] = "COMPLETED"
      BY DEF ResetRunning
    <2>4. LoopPass(d, ResetRunning(d))
      BY <1>1 DEF Begin
    <2>5. QED
      BY <1>0, <2>1, <2>2, <2>3, <2>4, LoopPassOrder DEF OrderInv
  <1>2. ASSUME NEW d \in Dags, EndWave(d) PROVE OrderInv'
    <2>1. \A n \in Nodes : DagOf[n] = d => status[n] # "RUNNING"
      BY <1>2 DEF EndWave, WaveDone, NodesOf, OrderInv, Coroutines
    <2>2. status \in [Nodes -> Status] /\ WaveDone(d) /\ LoopPass(d, status)
      BY <1>2 DEF EndWave, OrderInv, TypeOK
    <2>3. QED
      BY <1>0, <2>1, <2>2, LoopPassOrder DEF OrderInv
  <1>3. ASSUME NEW d \in Dags, Cancel(d) PROVE OrderInv'
    BY <1>0, <1>3, EngineAssumption
       DEF Cancel, OrderInv, TypeOK, Coroutines, DependencyOrder
  <1>4. ASSUME NEW n \in Nodes, StartNode(n) PROVE OrderInv'
    BY <1>0, <1>4 DEF StartNode, OrderInv, TypeOK, Coroutines, DependencyOrder
  <1>5. ASSUME NEW n \in Nodes, NoHandler(n) PROVE OrderInv'
    BY <1>0, <1>5 DEF NoHandler, OrderInv, TypeOK, Coroutines, DependencyOrder
  <1>6. ASSUME NEW n \in Nodes, HandlerReturns(n) PROVE OrderInv'
    BY <1>0, <1>6 DEF HandlerReturns, OrderInv, TypeOK, Coroutines, DependencyOrder
  <1>7. ASSUME NEW n \in Nodes, HandlerRetries(n) PROVE OrderInv'
    BY <1>0, <1>7 DEF HandlerRetries, OrderInv, TypeOK, Coroutines, DependencyOrder
  <1>8. ASSUME NEW n \in Nodes, HandlerFails(n) PROVE OrderInv'
    <2>1. task' = [task EXCEPT ![n] = "none"] /\ UNCHANGED phase
      BY <1>8 DEF HandlerFails
    <2>2. Coroutines'
      BY <1>8, <2>1, CascadeSparesLaunched DEF OrderInv, TypeOK, Coroutines
    <2>3. DependencyOrder'
      BY <1>0, <1>8, <2>1, CascadeSparesLaunched DEF OrderInv, TypeOK, DependencyOrder
    <2>4. QED
      BY <1>0, <2>2, <2>3 DEF OrderInv
  <1>9. CASE UNCHANGED engineVars
    BY <1>0, <1>9 DEF engineVars, OrderInv, Coroutines, DependencyOrder
  <1>10. QED
    BY <1>1, <1>2, <1>3, <1>4, <1>5, <1>6, <1>7, <1>8, <1>9 DEF Next, NodeStep

LEMMA OrderInvariant == Spec => []OrderInv
  <1>1. Init => OrderInv
    BY DEF Init, OrderInv, TypeOK, Status, Coroutines, DependencyOrder
  <1>2. QED
    BY <1>1, OrderStep, PTL DEF Spec

(* No node is launched, runs or is done before everything it depends on.   *)
THEOREM DependencyOrderHolds == Spec => []DependencyOrder
  BY OrderInvariant, PTL DEF OrderInv

-----------------------------------------------------------------------------
(* Checkpoints. *)

LEMMA CheckpointStep ==
  OrderInv /\ CheckpointConsistent /\ [Next]_engineVars => CheckpointConsistent'
  <1> SUFFICES ASSUME OrderInv, CheckpointConsistent, [Next]_engineVars
               PROVE  CheckpointConsistent'
    OBVIOUS
  <1>1. ASSUME NEW d \in Dags, EndWave(d) PROVE CheckpointConsistent'
    <2>1. \A n \in Nodes : checkpoint'.status[n] = IF DagOf[n] = d THEN status[n]
                                                   ELSE checkpoint.status[n]
      BY <1>1 DEF EndWave, Snapshot
    <2>2. \A n \in Nodes : DagOf[n] = d => status[n] # "RUNNING"
      BY <1>1 DEF EndWave, WaveDone, NodesOf, OrderInv, Coroutines
    <2>3. \A n \in Nodes : \A m \in Deps[n] : m \in Nodes /\ DagOf[m] = DagOf[n]
      BY GraphAssumption, EngineAssumption DEF Validated
    <2>4. QED
      BY <2>1, <2>2, <2>3 DEF CheckpointConsistent, OrderInv, DependencyOrder
  <1>2. ASSUME UNCHANGED checkpoint PROVE CheckpointConsistent'
    BY <1>2 DEF CheckpointConsistent
  <1>3. ASSUME NEW d \in Dags, Begin(d) \/ Cancel(d) PROVE UNCHANGED checkpoint
    BY <1>3 DEF Begin, Cancel
  <1>4. ASSUME NEW n \in Nodes, NodeStep(n) PROVE UNCHANGED checkpoint
    BY <1>4 DEF NodeStep, StartNode, NoHandler, HandlerReturns, HandlerRetries, HandlerFails
  <1>5. CASE UNCHANGED engineVars
    BY <1>2, <1>5 DEF engineVars
  <1>6. QED
    BY <1>1, <1>2, <1>3, <1>4, <1>5 DEF Next

(* A checkpoint never holds a RUNNING node, and is closed under            *)
(* dependencies: it is a state the engine can resume from.                 *)
THEOREM CheckpointAlwaysConsistent == Spec => []CheckpointConsistent
  <1>1. Init => CheckpointConsistent
    BY DEF Init, CheckpointConsistent
  <1>2. QED
    BY <1>1, OrderInvariant, CheckpointStep, PTL DEF Spec

-----------------------------------------------------------------------------
(* Settled nodes. *)

LEMMA LoopPassKeepsSettled ==
  ASSUME OrderInv, NEW d \in Dags, NEW st \in [Nodes -> Status], LoopPass(d, st),
         NEW n \in Nodes, status[n] \in {"COMPLETED", "FAILED", "SKIPPED"},
         st[n] = status[n]
  PROVE  status'[n] = status[n]
  BY DEF LoopPass, Finish, Block, LaunchWave

(* A COMPLETED, FAILED or SKIPPED node keeps its status and is never       *)
(* handed to a handler again, in whatever execution of its graph.          *)
THEOREM SettledNodesAreFinal == Spec => SettledIsFinal
  <1> DEFINE Kept == \A n \in Nodes : status[n] \in {"COMPLETED", "FAILED", "SKIPPED"} =>
                        status'[n] = status[n] /\ starts'[n] = starts[n]
  <1>1. ASSUME OrderInv, Next PROVE Kept
    <2>1. ASSUME NEW d \in Dags, Begin(d) PROVE Kept
      BY <1>1, <2>1, ResetType, LoopPassKeepsSettled DEF Begin, ResetRunning, OrderInv
    <2>2. ASSUME NEW d \in Dags, EndWave(d) PROVE Kept
      BY <1>1, <2>2, LoopPassKeepsSettled DEF EndWave, OrderInv, TypeOK
    <2>3. ASSUME NEW d \in Dags, Cancel(d) PROVE Kept
      BY <2>3 DEF Cancel
    <2>4. ASSUME NEW n \in Nodes,
                 StartNode(n) \/ NoHandler(n) \/ HandlerReturns(n) \/ HandlerRetries(n)
          PROVE  Kept
      BY <1>1, <2>4 DEF StartNode, NoHandler, HandlerReturns, HandlerRetries,
                        OrderInv, TypeOK, Coroutines
    <2>5. ASSUME NEW n \in Nodes, HandlerFails(n) PROVE Kept
      BY <1>1, <2>5, CascadeSparesLaunched DEF HandlerFails
    <2>6. QED
      BY <1>1, <2>1, <2>2, <2>3, <2>4, <2>5 DEF Next, NodeStep
  <1>2. OrderInv /\ [Next]_engineVars => [Kept]_engineVars
    BY <1>1
  <1>3. QED
    BY <1>2, OrderInvariant, PTL DEF Spec, SettledIsFinal

-----------------------------------------------------------------------------
(* Retries. *)

(* What one pass of the loop does to a node: at most it blocks a PENDING one. *)
LEMMA LoopPassEffect ==
  ASSUME OrderInv, NEW d \in Dags, NEW st \in [Nodes -> Status], LoopPass(d, st), NEW n \in Nodes
  PROVE  \/ status'[n] = st[n]
         \/ DagOf[n] = d /\ st[n] = "PENDING" /\ status'[n] = "BLOCKED" /\ phase'[d] = "ended"
  BY DEF LoopPass, Finish, Block, LaunchWave, OrderInv, TypeOK

(* What a node has cost so far: a start for every retry it was charged and *)
(* every cancelled execution, and one more while it runs or when it is done. *)
BudgetInv ==
  \A n \in Nodes :
    /\ retries[n] <= MaxRetries + 1
    /\ status[n] # "FAILED" => retries[n] <= MaxRetries
    /\ starts[n] <= retries[n] + reruns[DagOf[n]] + 1
    /\ status[n] \notin {"RUNNING", "COMPLETED"} => starts[n] <= retries[n] + reruns[DagOf[n]]

LEMMA BudgetStep == OrderInv /\ BudgetInv /\ [Next]_engineVars => BudgetInv'
  <1> SUFFICES ASSUME OrderInv, BudgetInv, [Next]_engineVars PROVE BudgetInv'
    OBVIOUS
  <1> USE EngineAssumption
  <1>0. TypeOK /\ TypeOK'
    BY TypeStep DEF OrderInv
  <1>1. ASSUME NEW d \in Dags, Begin(d) PROVE BudgetInv'
    <2>1. ResetRunning(d) \in [Nodes -> Status] /\ LoopPass(d, ResetRunning(d))
      BY <1>0, <1>1, ResetType DEF Begin
    <2>2. SUFFICES ASSUME NEW n \in Nodes
                   PROVE  /\ retries'[n] <= MaxRetries + 1
                          /\ status'[n] # "FAILED" => retries'[n] <= MaxRetries
                          /\ starts'[n] <= retries'[n] + reruns'[DagOf[n]] + 1
                          /\ status'[n] \notin {"RUNNING", "COMPLETED"} =>
                               starts'[n] <= retries'[n] + reruns'[DagOf[n]]
      BY DEF BudgetInv
    <2>3. UNCHANGED <<retries, starts>>
      BY <1>1 DEF Begin
    <2>4. \/ reruns'[DagOf[n]] = reruns[DagOf[n]] /\ (DagOf[n] = d => phase[d] = "idle")
          \/ DagOf[n] = d /\ reruns'[DagOf[n]] = reruns[DagOf[n]] + 1
      BY <1>0, <1>1 DEF Begin, TypeOK
    <2>5. status[n] = "RUNNING" /\ DagOf[n] = d => phase[d] # "idle"
      BY DEF OrderInv, Coroutines
    <2>6. \/ status'[n] = status[n]
          \/ status[n] = "PENDING" /\ status'[n] = "BLOCKED"
          \/ DagOf[n] = d /\ status[n] = "RUNNING" /\ status'[n] \in {"PENDING", "BLOCKED"}
      BY <2>1, LoopPassEffect DEF ResetRunning
    <2>7. /\ retries[n] \in Nat /\ starts[n] \in Nat /\ reruns[DagOf[n]] \in Nat
      BY <1>0 DEF TypeOK
    <2>8. QED
      BY <2>3, <2>4, <2>5, <2>6, <2>7 DEF BudgetInv
  <1>2. ASSUME NEW d \in Dags, EndWave(d) PROVE BudgetInv'
    <2>1. status \in [Nodes -> Status] /\ LoopPass(d, status)
      BY <1>0, <1>2 DEF EndWave, TypeOK
    <2>2. UNCHANGED <<retries, starts, reruns>>
      BY <1>2 DEF EndWave
    <2>3. \A n \in Nodes : \/ status'[n] = status[n]
                           \/ status[n] = "PENDING" /\ status'[n] = "BLOCKED"
      BY <2>1, LoopPassEffect
    <2>4. QED
      BY <2>2, <2>3 DEF BudgetInv
  <1>3. ASSUME NEW d \in Dags, Cancel(d) PROVE BudgetInv'
    BY <1>3 DEF Cancel, BudgetInv
  <1>4. ASSUME NEW n \in Nodes, StartNode(n) PROVE BudgetInv'
    <2>1. status[n] = "PENDING"
      BY <1>4 DEF StartNode, OrderInv, Coroutines
    <2>2. QED
      BY <1>0, <1>4, <2>1 DEF StartNode, BudgetInv, TypeOK
  <1>5. ASSUME NEW n \in Nodes, NoHandler(n) PROVE BudgetInv'
    <2>1. status[n] = "PENDING"
      BY <1>5 DEF NoHandler, OrderInv, Coroutines
    <2>2. QED
      BY <1>0, <1>5, <2>1 DEF NoHandler, BudgetInv, TypeOK
  <1>6. ASSUME NEW n \in Nodes, HandlerReturns(n) PROVE BudgetInv'
    <2>1. status[n] = "RUNNING"
      BY <1>6 DEF HandlerReturns, OrderInv, Coroutines
    <2>2. QED
      BY <1>0, <1>6, <2>1 DEF HandlerReturns, BudgetInv, TypeOK
  <1>7. ASSUME NEW n \in Nodes, HandlerRetries(n) PROVE BudgetInv'
    <2>1. status[n] = "RUNNING"
      BY <1>7 DEF HandlerRetries, OrderInv, Coroutines
    <2>2. QED
      BY <1>0, <1>7, <2>1 DEF HandlerRetries, RetriesLeft, BudgetInv, TypeOK
  <1>8. ASSUME NEW n \in Nodes, HandlerFails(n) PROVE BudgetInv'
    <2>1. /\ retries' = [retries EXCEPT ![n] = @ + 1] /\ UNCHANGED <<starts, reruns>>
          /\ status[n] = "RUNNING" /\ status'[n] = "FAILED"
      BY <1>8, CascadeSparesLaunched DEF HandlerFails
    <2>2. \A m \in Nodes \ {n} : \/ status'[m] = status[m]
                                 \/ status[m] = "PENDING" /\ status'[m] = "SKIPPED"
      BY <1>8, CascadeSparesLaunched
    <2>3. QED
      BY <1>0, <2>1, <2>2 DEF BudgetInv, TypeOK
  <1>9. CASE UNCHANGED engineVars
    BY <1>9 DEF engineVars, BudgetInv
  <1>10. QED
    BY <1>1, <1>2, <1>3, <1>4, <1>5, <1>6, <1>7, <1>8, <1>9 DEF Next, NodeStep

(* A node's handler is entered at most once per retry granted, and once    *)
(* more for each execution that was cancelled under it.                    *)
THEOREM RetryBudgetHolds == Spec => []RetryBudget
  <1>1. Init => BudgetInv
    BY EngineAssumption DEF Init, BudgetInv
  <1>2. OrderInv /\ BudgetInv => RetryBudget
    BY EngineAssumption DEF OrderInv, TypeOK, BudgetInv, RetryBudget
  <1>3. QED
    BY <1>1, <1>2, OrderInvariant, BudgetStep, PTL DEF Spec

-----------------------------------------------------------------------------
(* Skipped nodes. *)

(* What the cascade has to find: a failed node had all its dependencies,   *)
(* and nothing is blocked before its graph has ended.                      *)
SettledInv ==
  \A n \in Nodes :
    /\ status[n] = "FAILED" => \A d \in Deps[n] : status[d] = "COMPLETED"
    /\ status[n] = "BLOCKED" => phase[DagOf[n]] = "ended"
    /\ status[n] \notin {"READY", "OUTCOME_UNKNOWN"}

SkipInv == OrderInv /\ SettledInv /\ SkipsFollowFailures

(* A step that changes no status to or from FAILED or SKIPPED, and touches *)
(* no COMPLETED node, leaves the skipped nodes as they should be.          *)
LEMMA UntouchedSkips ==
  ASSUME SkipInv,
         \A n \in Nodes :
            \/ status'[n] = status[n]
            \/ /\ status[n] \notin {"FAILED", "SKIPPED", "COMPLETED"}
               /\ status'[n] \in {"PENDING", "RUNNING", "COMPLETED", "BLOCKED"}
         PROVE SkipsFollowFailures'
  BY GraphAssumption DEF SkipInv, SkipsFollowFailures, Validated

LEMMA LoopPassSkips ==
  ASSUME SkipInv, NEW d \in Dags, NEW st \in [Nodes -> Status], LoopPass(d, st),
         phase[d] # "ended",
         \A n \in Nodes : \/ st[n] = status[n]
                          \/ DagOf[n] = d /\ status[n] = "RUNNING" /\ st[n] = "PENDING"
  PROVE  SettledInv' /\ SkipsFollowFailures'
  <1>1. \A n \in Nodes : \/ status'[n] = st[n]
                         \/ DagOf[n] = d /\ st[n] = "PENDING" /\ status'[n] = "BLOCKED" /\ phase'[d] = "ended"
    BY LoopPassEffect DEF SkipInv
  <1>2. \A e \in Dags : e # d => phase'[e] = phase[e]
    BY DEF LoopPass, Finish, Block, LaunchWave, SkipInv, OrderInv, TypeOK
  <1>3. \A n \in Nodes : Deps[n] \subseteq Nodes /\ DagOf[n] \in Dags
    BY GraphAssumption, EngineAssumption DEF Validated
  <1>4. SkipsFollowFailures'
    BY <1>1, UntouchedSkips
  <1>5. SettledInv'
    BY <1>1, <1>2, <1>3 DEF SkipInv, SettledInv
  <1>6. QED
    BY <1>4, <1>5

(* The cascade of a failing node skips every node that waits for it, for   *)
(* such a node can only be PENDING or skipped already.                     *)
LEMMA CascadeSkips ==
  ASSUME SkipInv, NEW n \in Nodes, HandlerFails(n)
  PROVE  SettledInv' /\ SkipsFollowFailures'
  <1> DEFINE failed == [status EXCEPT ![n] = "FAILED"]
             D == Downstream(failed, n)
  <1>1. /\ status[n] = "RUNNING" /\ task[n] = "handling" /\ phase[DagOf[n]] = "gather"
        /\ status \in [Nodes -> Status]
    BY DEF HandlerFails, SkipInv, OrderInv, Coroutines, TypeOK
  <1>2. \A m \in Nodes : Deps[m] \subseteq Nodes /\ \A k \in Deps[m] : DagOf[k] = DagOf[m]
    BY GraphAssumption, EngineAssumption DEF Validated
  <1>3. /\ failed[n] = "FAILED"
        /\ \A m \in Nodes : m # n => failed[m] = status[m]
    BY <1>1
  <1>4. status' = [m \in Nodes |-> IF m \in D THEN "SKIPPED" ELSE failed[m]] /\ UNCHANGED phase
    BY DEF HandlerFails
  <1>5. \A m \in D : m \in Nodes /\ failed[m] = "PENDING" /\ DagOf[m] = DagOf[n]
    BY DownstreamClosed, DownstreamLocal DEF Pending
  <1>6. \A m \in Nodes : failed[m] = "PENDING" /\ (n \in Deps[m] \/ \E k \in D : k \in Deps[m])
                            => m \in D
    BY DownstreamClosed DEF ClosedDownstream, Pending
  <1>7. \A m \in D : n \in Deps[m] \/ \E k \in D : k \in Deps[m]
    BY DownstreamCaused
  <1> HIDE DEF failed, D
  <1>8. /\ n \notin D /\ status'[n] = "FAILED"
        /\ \A m \in D : m # n /\ status[m] = "PENDING" /\ status'[m] = "SKIPPED"
        /\ \A m \in Nodes \ (D \cup {n}) : status'[m] = status[m]
    BY <1>3, <1>4, <1>5
  <1>9. SettledInv'
    <2>1. \A k \in Nodes : status[k] = "COMPLETED" => status'[k] = "COMPLETED"
      BY <1>1, <1>8
    <2>2. \A k \in Deps[n] : status[k] = "COMPLETED"
      BY <1>1 DEF SkipInv, OrderInv, DependencyOrder
    <2>3. ASSUME NEW m \in Nodes, status'[m] = "FAILED"
          PROVE  \A k \in Deps[m] : status'[k] = "COMPLETED"
      BY <1>2, <1>8, <2>1, <2>2, <2>3 DEF SkipInv, SettledInv
    <2>4. ASSUME NEW m \in Nodes
          PROVE  /\ status'[m] = "BLOCKED" => phase'[DagOf[m]] = "ended"
                 /\ status'[m] \notin {"READY", "OUTCOME_UNKNOWN"}
      BY <1>4, <1>8 DEF SkipInv, SettledInv
    <2>5. QED
      BY <2>3, <2>4 DEF SettledInv
  <1>10. ASSUME NEW m \in Nodes, status'[m] = "SKIPPED"
         PROVE  \E k \in Deps[m] : status'[k] \in {"FAILED", "SKIPPED"}
    <2>1. CASE m \in D
      BY <1>7, <1>8, <2>1
    <2>2. CASE m \notin D
      <3>1. PICK k \in Deps[m] : status[k] \in {"FAILED", "SKIPPED"}
        BY <1>8, <1>10, <2>2 DEF SkipInv, SkipsFollowFailures
      <3>2. QED
        BY <1>1, <1>2, <1>8, <3>1
    <2>3. QED
      BY <2>1, <2>2
  <1>11. ASSUME NEW m \in Nodes, NEW k \in Deps[m],
                status'[k] = "SKIPPED" \/ (status'[k] = "FAILED" /\ k \in Handled)
         PROVE  status'[m] = "SKIPPED"
    <2>1. CASE k \in D \/ k = n
      <3>1. status[k] # "COMPLETED" /\ DagOf[m] = DagOf[n]
        BY <1>1, <1>2, <1>5, <1>8, <2>1
      <3>2. status[m] \in {"PENDING", "SKIPPED"}
        BY <1>1, <3>1 DEF SkipInv, OrderInv, DependencyOrder, SettledInv, Status
      <3>3. m # n
        BY <1>1, <3>2
      <3>4. QED
        BY <1>3, <1>6, <1>8, <2>1, <3>2, <3>3
    <2>2. CASE k \notin D \cup {n}
      <3>1. status[m] = "SKIPPED"
        BY <1>2, <1>8, <1>11, <2>2 DEF SkipInv, SkipsFollowFailures
      <3>2. QED
        BY <1>1, <1>8, <3>1
    <2>3. QED
      BY <2>1, <2>2
  <1>12. QED
    BY <1>9, <1>10, <1>11 DEF SkipsFollowFailures

LEMMA SkipStep == SkipInv /\ [Next]_engineVars => SkipInv'
  <1> SUFFICES ASSUME SkipInv, [Next]_engineVars PROVE SkipInv'
    OBVIOUS
  <1>0. OrderInv /\ OrderInv' /\ TypeOK /\ \A n \in Nodes : Deps[n] \subseteq Nodes
    BY OrderStep, GraphAssumption DEF SkipInv, OrderInv, Validated
  <1>1. ASSUME NEW d \in Dags, Begin(d) PROVE SkipInv'
    BY <1>0, <1>1, ResetType, LoopPassSkips DEF Begin, ResetRunning, SkipInv
  <1>2. ASSUME NEW d \in Dags, EndWave(d) PROVE SkipInv'
    BY <1>0, <1>2, LoopPassSkips DEF EndWave, SkipInv, TypeOK
  <1>3. ASSUME NEW d \in Dags, Cancel(d) PROVE SkipInv'
    <2>1. status' = status /\ \A e \in Dags : phase[e] = "ended" => phase'[e] = "ended"
      BY <1>0, <1>3 DEF Cancel, TypeOK
    <2>2. QED
      BY <1>0, <2>1, EngineAssumption DEF SkipInv, SettledInv, SkipsFollowFailures
  <1>4. ASSUME NEW n \in Nodes,
               StartNode(n) \/ NoHandler(n) \/ HandlerReturns(n) \/ HandlerRetries(n)
        PROVE  SkipInv'
    <2>1. /\ phase' = phase /\ status[n] \in {"PENDING", "RUNNING"}
          /\ \A m \in Nodes \ {n} : status'[m] = status[m]
          /\ \A k \in Deps[n] : status[k] = "COMPLETED"
          /\ status'[n] \in {"PENDING", "RUNNING", "COMPLETED", "FAILED"}
          /\ status'[n] = "FAILED" => n \notin Handled
      BY <1>0, <1>4 DEF StartNode, NoHandler, HandlerReturns, HandlerRetries, OrderInv,
                        Coroutines, DependencyOrder, TypeOK
    <2>2. SettledInv'
      BY <1>0, <2>1 DEF SkipInv, SettledInv
    <2>3. SkipsFollowFailures'
      BY <1>0, <2>1 DEF SkipInv, SkipsFollowFailures
    <2>4. QED
      BY <1>0, <2>2, <2>3 DEF SkipInv
  <1>5. ASSUME NEW n \in Nodes, HandlerFails(n) PROVE SkipInv'
    BY <1>0, <1>5, CascadeSkips DEF SkipInv
  <1>6. CASE UNCHANGED engineVars
    BY <1>0, <1>6 DEF engineVars, SkipInv, SettledInv, SkipsFollowFailures
  <1>7. QED
    BY <1>1, <1>2, <1>3, <1>4, <1>5, <1>6 DEF Next, NodeStep

LEMMA SkipInvariant == Spec => []SkipInv
  <1>1. Init => SkipInv
    <2>1. Init => OrderInv
      BY DEF Init, OrderInv, TypeOK, Status, Coroutines, DependencyOrder
    <2>2. Init => SettledInv /\ SkipsFollowFailures
      BY GraphAssumption DEF Init, SettledInv, SkipsFollowFailures, Validated
    <2>3. QED
      BY <2>1, <2>2 DEF SkipInv
  <1>2. QED
    BY <1>1, SkipStep, PTL DEF Spec

(* Only what depends on a failure is skipped, and after the failure of a   *)
(* handler nothing that depends on it is left to be run.                   *)
THEOREM SkipsFollowFailuresHolds == Spec => []SkipsFollowFailures
  BY SkipInvariant, PTL DEF SkipInv

-----------------------------------------------------------------------------
(* Verdicts. *)

LEMMA LeastNatural ==
  ASSUME NEW T, T \subseteq Nat, T # {}
  PROVE  \E x \in T : \A y \in T : x <= y
  <1> DEFINE R == {p \in Nat \X Nat : p[1] < p[2]}
  <1>1. IsWellFoundedOn(R, Nat)
    <2>1. R = OpToRel(<, Nat)
      BY DEF OpToRel
    <2>2. QED
      BY <2>1, NatLessThanWellFounded DEF OpToRel
  <1>2. \A x, y \in Nat : y < x => <<y, x>> \in R
    OBVIOUS
  <1> HIDE DEF R
  <1>3. PICK x \in T : \A y \in T : <<y, x>> \notin R
    BY <1>1, WFMin
  <1>4. \A y \in T : ~(y < x)
    BY <1>2, <1>3
  <1>5. \A y \in T : x <= y
    BY <1>4
  <1>6. QED
    BY <1>5

(* Some node of any set depends on none of the set: validate accepts no    *)
(* cycle.                                                                  *)
LEMMA FirstNode ==
  ASSUME NEW S \in SUBSET Nodes, S # {}
  PROVE  \E n \in S : \A k \in Deps[n] : k \notin S
  <1>1. PICK rank \in [Nodes -> 0 .. Cardinality(Nodes)] :
           \A n \in Nodes : \A d \in Deps[n] : rank[d] < rank[n]
    BY GraphAssumption DEF Validated
  <1>2. Cardinality(Nodes) \in Nat
    BY GraphAssumption, FS_CardinalityType
  <1> DEFINE T == {rank[n] : n \in S}
  <1>3. T \subseteq Nat /\ T # {}
    BY <1>2
  <1>4. PICK x \in T : \A y \in T : x <= y
    <2> HIDE DEF T
    <2> QED BY <1>3, LeastNatural
  <1>5. PICK n \in S : rank[n] = x
    BY <1>4
  <1>6. ASSUME NEW k \in Deps[n], k \in S PROVE FALSE
    <2>1. rank[k] < rank[n] /\ rank[n] <= rank[k] /\ rank[k] \in Nat /\ rank[n] \in Nat
      BY <1>1, <1>2, <1>4, <1>5, <1>6
    <2>2. QED
      BY <2>1
  <1>7. QED
    BY <1>6

(* A graph whose nodes are all COMPLETED or SKIPPED has none SKIPPED: the  *)
(* first of these would depend on a FAILED node.                           *)
LEMMA AllCompleted ==
  ASSUME SkipInv, NEW d \in Dags, IsCompleted(status, NodesOf(d))
  PROVE  \A n \in NodesOf(d) : status[n] = "COMPLETED"
  <1> DEFINE S == {n \in NodesOf(d) : status[n] = "SKIPPED"}
  <1>1. SUFFICES ASSUME S # {} PROVE FALSE
    BY DEF IsCompleted
  <1>2. PICK n \in S : \A k \in Deps[n] : k \notin S
    BY <1>1, FirstNode DEF NodesOf
  <1>3. \A k \in Deps[n] : k \in NodesOf(d)
    BY GraphAssumption, EngineAssumption DEF Validated, NodesOf
  <1>4. QED
    BY <1>2, <1>3 DEF NodesOf, IsCompleted, SkipInv, SkipsFollowFailures

(* A graph without a FAILED node, that waits for nobody, has a node ready  *)
(* unless it is done: the first node that is not done is.                  *)
LEMMA SomethingReady ==
  ASSUME SkipInv, NEW d \in Dags, phase[d] # "ended",
         NEW st \in [Nodes -> Status],
         \A n \in NodesOf(d) : \/ st[n] = status[n] /\ st[n] # "RUNNING"
                               \/ status[n] = "RUNNING" /\ st[n] = "PENDING",
         NodesOf(d) # {}, ~IsCompleted(st, NodesOf(d)), ~IsFailed(st, NodesOf(d))
  PROVE  Ready(st, NodesOf(d)) # {}
  <1> DEFINE S == {n \in NodesOf(d) : st[n] \notin {"COMPLETED", "SKIPPED"}}
  <1>1. S # {} /\ S \in SUBSET Nodes
    BY DEF IsCompleted, NodesOf
  <1>2. PICK n \in S : \A k \in Deps[n] : k \notin S
    BY <1>1, FirstNode
  <1>3. st[n] = "PENDING"
    BY <1>2 DEF IsFailed, NodesOf, SkipInv, SettledInv, Status
  <1>4. \A k \in Deps[n] : k \in NodesOf(d) /\ k \in Nodes
    BY <1>2, GraphAssumption, EngineAssumption DEF Validated, NodesOf
  <1>5. ASSUME NEW k \in Deps[n] PROVE st[k] = "COMPLETED"
    <2>1. st[k] = "SKIPPED" => status[k] = "SKIPPED"
      BY <1>4
    <2>2. status[k] = "SKIPPED" => status[n] = "SKIPPED"
      BY <1>2, <1>4 DEF SkipInv, SkipsFollowFailures, NodesOf
    <2>3. st[n] # "SKIPPED" /\ (status[n] = "SKIPPED" => st[n] = "SKIPPED")
      BY <1>2, <1>3
    <2>4. QED
      BY <1>2, <1>4, <2>1, <2>2, <2>3
  <1>6. QED
    BY <1>2, <1>3, <1>5 DEF Ready, NodesOf

VerdictInv == SkipInv /\ VerdictSound /\ \A d \in Dags : verdict[d] # "none" => phase[d] = "ended"

(* The end of the loop writes a verdict that the statuses bear out. *)
LEMMA LoopPassVerdict ==
  ASSUME VerdictInv, NEW d \in Dags, phase[d] # "ended", WaveDone(d),
         NEW st \in [Nodes -> Status], LoopPass(d, st),
         \A n \in Nodes : \/ st[n] = status[n] /\ (DagOf[n] = d => st[n] # "RUNNING")
                          \/ DagOf[n] = d /\ status[n] = "RUNNING" /\ st[n] = "PENDING"
  PROVE  VerdictSound' /\ \A e \in Dags : verdict'[e] # "none" => phase'[e] = "ended"
  <1>0. TypeOK /\ verdict[d] = "none"
    BY DEF VerdictInv, SkipInv, OrderInv, TypeOK
  <1>1. ASSUME NEW e \in Dags, e # d
        PROVE  /\ verdict'[e] = verdict[e] /\ phase'[e] = phase[e]
               /\ \A n \in NodesOf(e) : status'[n] = status[n]
    BY <1>0, <1>1 DEF LoopPass, Finish, Block, LaunchWave, NodesOf, TypeOK
  <1>2. ASSUME NEW e \in Dags, e # d
        PROVE  /\ verdict'[e] = "COMPLETED" => \A n \in NodesOf(e) : status'[n] = "COMPLETED"
               /\ verdict'[e] = "FAILED" /\ NodesOf(e) # {} => IsFailed(status', NodesOf(e))
    BY <1>1, <1>2 DEF VerdictInv, VerdictSound, IsFailed
  <1>3. CASE Finish(d, st)
    <2>1. IsCompleted(st, NodesOf(d)) =>
             \A n \in NodesOf(d) : st[n] = status[n]
      BY DEF IsCompleted, NodesOf
    <2>2. IsCompleted(st, NodesOf(d)) => \A n \in NodesOf(d) : st[n] = "COMPLETED"
      <3>1. IsCompleted(st, NodesOf(d)) => IsCompleted(status, NodesOf(d))
        BY <2>1 DEF IsCompleted
      <3>2. QED
        BY <2>1, <3>1, AllCompleted DEF VerdictInv
    <2>3. /\ status' = st
          /\ phase'[d] = "ended"
          /\ verdict'[d] = IF IsCompleted(st, NodesOf(d)) THEN "COMPLETED" ELSE "FAILED"
          /\ IsCompleted(st, NodesOf(d)) \/ IsFailed(st, NodesOf(d))
      BY <1>0, <1>3 DEF Finish, TypeOK
    <2>4. /\ verdict'[d] = "COMPLETED" => \A n \in NodesOf(d) : status'[n] = "COMPLETED"
          /\ verdict'[d] = "FAILED" => IsFailed(status', NodesOf(d))
      BY <2>2, <2>3
    <2>5. VerdictSound'
      BY <1>2, <2>4 DEF VerdictSound
    <2>6. ASSUME NEW e \in Dags, verdict'[e] # "none" PROVE phase'[e] = "ended"
      BY <1>1, <2>3, <2>6 DEF VerdictInv
    <2>7. QED
      BY <2>5, <2>6
  <1>4. CASE Block(d, st)
    <2>1. NodesOf(d) = {}
      <3>1. ~IsCompleted(st, NodesOf(d)) /\ ~IsFailed(st, NodesOf(d)) /\ Ready(st, NodesOf(d)) = {}
        BY <1>4 DEF Block
      <3>2. QED
        BY <3>1, SomethingReady DEF VerdictInv, NodesOf
    <2>2. verdict'[d] = "FAILED" /\ phase'[d] = "ended"
      BY <1>0, <1>4 DEF Block, TypeOK
    <2>3. VerdictSound'
      BY <1>2, <2>1, <2>2 DEF VerdictSound
    <2>4. ASSUME NEW e \in Dags, verdict'[e] # "none" PROVE phase'[e] = "ended"
      BY <1>1, <2>2, <2>4 DEF VerdictInv
    <2>5. QED
      BY <2>3, <2>4
  <1>5. CASE LaunchWave(d, st)
    <2>1. verdict'[d] = "none"
      BY <1>0, <1>5 DEF LaunchWave
    <2>2. VerdictSound'
      BY <1>2, <2>1 DEF VerdictSound
    <2>3. ASSUME NEW e \in Dags, verdict'[e] # "none" PROVE phase'[e] = "ended"
      BY <1>1, <2>1, <2>3 DEF VerdictInv
    <2>4. QED
      BY <2>2, <2>3
  <1>6. QED
    BY <1>3, <1>4, <1>5 DEF LoopPass

LEMMA VerdictStep == VerdictInv /\ [Next]_engineVars => VerdictInv'
  <1> SUFFICES ASSUME VerdictInv, [Next]_engineVars PROVE VerdictInv'
    OBVIOUS
  <1>0. SkipInv /\ SkipInv' /\ OrderInv /\ TypeOK
    BY SkipStep DEF VerdictInv, SkipInv, OrderInv
  <1>1. ASSUME NEW d \in Dags, Begin(d) PROVE VerdictInv'
    <2>1. WaveDone(d) /\ phase[d] # "ended"
      BY <1>0, <1>1 DEF Begin, WaveDone, NodesOf, OrderInv, Coroutines
    <2>2. ResetRunning(d) \in [Nodes -> Status] /\ LoopPass(d, ResetRunning(d))
      BY <1>0, <1>1, ResetType DEF Begin
    <2>3. \A n \in Nodes :
             \/ ResetRunning(d)[n] = status[n] /\ (DagOf[n] = d => ResetRunning(d)[n] # "RUNNING")
             \/ DagOf[n] = d /\ status[n] = "RUNNING" /\ ResetRunning(d)[n] = "PENDING"
      BY DEF ResetRunning
    <2>4. QED
      BY <1>0, <2>1, <2>2, <2>3, LoopPassVerdict DEF VerdictInv
  <1>2. ASSUME NEW d \in Dags, EndWave(d) PROVE VerdictInv'
    <2>1. WaveDone(d) /\ phase[d] # "ended" /\ LoopPass(d, status) /\ status \in [Nodes -> Status]
      BY <1>0, <1>2 DEF EndWave, TypeOK
    <2>2. \A n \in Nodes : DagOf[n] = d => status[n] # "RUNNING"
      BY <1>0, <1>2 DEF EndWave, WaveDone, NodesOf, OrderInv, Coroutines
    <2>3. QED
      BY <1>0, <2>1, <2>2, LoopPassVerdict DEF VerdictInv
  <1>3. ASSUME NEW d \in Dags, Cancel(d) PROVE VerdictInv'
    BY <1>0, <1>3 DEF Cancel, VerdictInv, VerdictSound, TypeOK, IsFailed
  <1>4. ASSUME NEW n \in Nodes, NodeStep(n) PROVE VerdictInv'
    <2>1. UNCHANGED <<phase, verdict>> /\ task[n] # "none"
      BY <1>4 DEF NodeStep, StartNode, NoHandler, HandlerReturns, HandlerRetries, HandlerFails
    <2>2. phase[DagOf[n]] = "gather"
      BY <1>0, <2>1 DEF OrderInv, Coroutines
    <2>3. \A m \in Nodes : DagOf[m] # DagOf[n] => status'[m] = status[m]
      BY <1>0, <1>4, DownstreamLocal
         DEF NodeStep, StartNode, NoHandler, HandlerReturns, HandlerRetries, HandlerFails, TypeOK
    <2>4. \A d \in Dags : verdict[d] # "none" => \A m \in NodesOf(d) : status'[m] = status[m]
      BY <2>2, <2>3 DEF VerdictInv, NodesOf
    <2>5. QED
      BY <1>0, <2>1, <2>4 DEF VerdictInv, VerdictSound, IsFailed, NodesOf
  <1>5. CASE UNCHANGED engineVars
    BY <1>0, <1>5 DEF engineVars, VerdictInv, VerdictSound, IsFailed
  <1>6. QED
    BY <1>1, <1>2, <1>3, <1>4, <1>5 DEF Next

LEMMA VerdictInvariant == Spec => []VerdictInv
  <1>1. Init => OrderInv
    BY DEF Init, OrderInv, TypeOK, Status, Coroutines, DependencyOrder
  <1>2. Init => VerdictInv
    BY <1>1, GraphAssumption
       DEF Init, VerdictInv, VerdictSound, SkipInv, SettledInv, SkipsFollowFailures, Validated
  <1>3. QED
    BY <1>2, VerdictStep, PTL DEF Spec

(* A graph declared completed has run all of its nodes, although skipped   *)
(* ones count as done; one declared failed has a failed node.              *)
THEOREM VerdictSoundHolds == Spec => []VerdictSound
  BY VerdictInvariant, PTL DEF VerdictInv

-----------------------------------------------------------------------------
(* The engine implements DagContract. *)

LEMMA LoopPassSettles ==
  ASSUME VerdictInv, NEW d \in Dags, phase[d] # "ended", WaveDone(d),
         NEW st \in [Nodes -> Status], LoopPass(d, st),
         \A n \in Nodes : \/ st[n] = status[n] /\ (DagOf[n] = d => st[n] # "RUNNING")
                          \/ DagOf[n] = d /\ status[n] = "RUNNING" /\ st[n] = "PENDING"
  PROVE  Contract!Settle(d)
  <1> DEFINE back == {n \in NodesOf(d) : NodeView[n] = "active"}
  <1>0. TypeOK /\ verdict[d] = "none"
    BY DEF VerdictInv, SkipInv, OrderInv, TypeOK
  <1>1. OutcomeView[d] = "open"
    BY <1>0 DEF OutcomeView, OutcomeOf
  <1>2. \A n \in Nodes : NodeView[n] = ViewOf(status[n])
    BY DEF NodeView
  <1>3. \A n \in Nodes : ViewOf(st[n]) = IF n \in back THEN "todo" ELSE NodeView[n]
    BY <1>0, <1>2 DEF NodesOf, ViewOf, TypeOK, Status
  <1>4. Block(d, st) => NodesOf(d) = {}
    BY SomethingReady DEF Block, VerdictInv, NodesOf
  <1>5. \A n \in Nodes : status'[n] = st[n]
    BY <1>4 DEF LoopPass, Finish, Block, LaunchWave, NodesOf
  <1>6. NodeView' = [n \in Nodes |-> IF n \in back THEN "todo" ELSE NodeView[n]]
    <2> HIDE DEF back
    <2> QED BY <1>3, <1>5 DEF NodeView
  <1>7. Contract!Of(d) = NodesOf(d)
    BY DEF Contract!Of, NodesOf
  <1>8. ASSUME NEW e \in Dags, e # d PROVE OutcomeView'[e] = OutcomeView[e]
    BY <1>0, <1>8 DEF LoopPass, Finish, Block, LaunchWave, OutcomeView, TypeOK
  <1>9. \/ OutcomeView' = OutcomeView
        \/ /\ Contract!Of(d) # {} /\ \A n \in Contract!Of(d) : NodeView[n] = "done"
           /\ OutcomeView' = [OutcomeView EXCEPT ![d] = "success"]
        \/ /\ Contract!Of(d) = {} \/ \E n \in Contract!Of(d) : NodeView[n] = "dead"
           /\ OutcomeView' = [OutcomeView EXCEPT ![d] = "failure"]
    <2>1. CASE LaunchWave(d, st)
      BY <2>1 DEF LaunchWave, OutcomeView
    <2>2. CASE Block(d, st)
      <3>1. OutcomeView'[d] = "failure"
        BY <1>0, <2>2 DEF Block, OutcomeView, OutcomeOf, TypeOK
      <3>2. OutcomeView' = [OutcomeView EXCEPT ![d] = "failure"]
        BY <1>8, <3>1 DEF OutcomeView
      <3>3. QED
        BY <1>4, <1>7, <2>2, <3>2
    <2>3. CASE Finish(d, st) /\ IsCompleted(st, NodesOf(d))
      <3>1. \A n \in NodesOf(d) : st[n] = status[n]
        BY <2>3 DEF IsCompleted, NodesOf
      <3>2. IsCompleted(status, NodesOf(d))
        BY <2>3, <3>1 DEF IsCompleted
      <3>3. NodesOf(d) # {} /\ \A n \in NodesOf(d) : status[n] = "COMPLETED"
        BY <3>2, AllCompleted DEF VerdictInv, IsCompleted
      <3>4. \A n \in NodesOf(d) : NodeView[n] = "done"
        BY <1>2, <3>3 DEF NodesOf, ViewOf
      <3>5. OutcomeView'[d] = "success"
        BY <1>0, <2>3 DEF Finish, OutcomeView, OutcomeOf, TypeOK
      <3>6. OutcomeView' = [OutcomeView EXCEPT ![d] = "success"]
        BY <1>8, <3>5 DEF OutcomeView
      <3>7. QED
        BY <1>7, <3>3, <3>4, <3>6
    <2>4. CASE Finish(d, st) /\ ~IsCompleted(st, NodesOf(d))
      <3>1. PICK n \in NodesOf(d) : st[n] = "FAILED"
        BY <2>4 DEF Finish, IsFailed
      <3>2. NodeView[n] = "dead"
        BY <1>2, <3>1 DEF NodesOf, ViewOf
      <3>3. OutcomeView'[d] = "failure"
        BY <1>0, <2>4 DEF Finish, OutcomeView, OutcomeOf, TypeOK
      <3>4. OutcomeView' = [OutcomeView EXCEPT ![d] = "failure"]
        BY <1>8, <3>3 DEF OutcomeView
      <3>5. QED
        BY <1>7, <3>1, <3>2, <3>4
    <2>5. QED
      BY <2>1, <2>2, <2>3, <2>4 DEF LoopPass
  <1>10. QED
    <2> HIDE DEF back
    <2>1. back = {n \in Contract!Of(d) : NodeView[n] = "active"}
      BY <1>7 DEF back
    <2>2. QED
      BY <1>1, <1>6, <1>9, <2>1 DEF Contract!Settle, Contract!Moved

(* A step of a node's coroutine moves the node, and perhaps its cascade, in *)
(* a graph that is open.                                                   *)
LEMMA NodeStepImplements ==
  ASSUME VerdictInv, NEW n \in Nodes, NodeStep(n)
  PROVE  Contract!Next
  <1>0. /\ OrderInv /\ TypeOK /\ \A m \in Nodes : Deps[m] \subseteq Nodes
        /\ DagOf[n] \in Dags
    BY GraphAssumption, EngineAssumption DEF VerdictInv, SkipInv, OrderInv, Validated
  <1>1. task[n] # "none" /\ UNCHANGED <<phase, verdict>>
    BY DEF NodeStep, StartNode, NoHandler, HandlerReturns, HandlerRetries, HandlerFails
  <1>2. Contract!Open(n) /\ OutcomeView' = OutcomeView
    BY <1>0, <1>1 DEF Contract!Open, OutcomeView, OutcomeOf, VerdictInv, OrderInv, Coroutines
  <1>3. \A m \in Nodes : NodeView[m] = ViewOf(status[m]) /\ NodeView'[m] = ViewOf(status'[m])
    BY DEF NodeView
  <1>4. task[n] = "handling" => NodeView[n] = "active"
    BY <1>0, <1>3 DEF OrderInv, Coroutines, ViewOf
  <1>5. task[n] = "waiting" => Contract!Enabled(n)
    BY <1>0, <1>3 DEF OrderInv, Coroutines, DependencyOrder, Contract!Enabled, ViewOf
  <1>6. ASSUME NEW to, NodeView'[n] = to, \A m \in Nodes \ {n} : status'[m] = status[m]
        PROVE  NodeView' = Contract!Moved({n}, to)
    BY <1>6, <1>3 DEF Contract!Moved, NodeView
  <1>7. CASE StartNode(n)
    <2>1. NodeView' = Contract!Moved({n}, "active")
      BY <1>0, <1>3, <1>6, <1>7 DEF StartNode, TypeOK, ViewOf
    <2>2. Contract!Activate(n)
      BY <1>2, <1>5, <1>7, <2>1 DEF StartNode, Contract!Activate
    <2>3. QED
      BY <2>2 DEF Contract!Next
  <1>8. CASE NoHandler(n)
    <2>1. NodeView' = Contract!Moved({} \cup {n}, "dead")
      BY <1>0, <1>3, <1>6, <1>8 DEF NoHandler, TypeOK, ViewOf
    <2>2. Contract!GiveUp(n, {})
      BY <1>2, <1>5, <1>8, <2>1 DEF NoHandler, Contract!GiveUp
    <2>3. QED
      BY <2>2 DEF Contract!Next
  <1>9. CASE HandlerReturns(n)
    <2>1. NodeView' = Contract!Moved({n}, "done")
      BY <1>0, <1>3, <1>6, <1>9 DEF HandlerReturns, TypeOK, ViewOf
    <2>2. Contract!Complete(n)
      BY <1>2, <1>4, <1>9, <2>1 DEF HandlerReturns, Contract!Complete
    <2>3. QED
      BY <2>2 DEF Contract!Next
  <1>10. CASE HandlerRetries(n)
    <2>1. NodeView' = Contract!Moved({n}, "todo")
      BY <1>0, <1>3, <1>6, <1>10 DEF HandlerRetries, TypeOK, ViewOf
    <2>2. Contract!GiveBack(n)
      BY <1>2, <1>4, <1>10, <2>1 DEF HandlerRetries, Contract!GiveBack
    <2>3. QED
      BY <2>2 DEF Contract!Next
  <1>11. CASE HandlerFails(n)
    <2> DEFINE failed == [status EXCEPT ![n] = "FAILED"]
               S == Downstream(failed, n)
    <2>1. \A m \in S : /\ m \in Nodes /\ failed[m] = "PENDING" /\ DagOf[m] = DagOf[n]
                      /\ \E k \in Deps[m] : k \in S \cup {n}
      BY DownstreamClosed, DownstreamCaused, DownstreamLocal DEF Pending
    <2>2. status' = [m \in Nodes |-> IF m \in S THEN "SKIPPED" ELSE failed[m]]
      BY <1>11 DEF HandlerFails
    <2>3. failed[n] = "FAILED" /\ \A m \in Nodes \ {n} : failed[m] = status[m]
      BY <1>0 DEF TypeOK
    <2> HIDE DEF failed, S
    <2>4. S \in SUBSET Contract!Waiting(DagOf[n])
      BY <1>3, <2>1, <2>3 DEF Contract!Waiting, Contract!Of, ViewOf
    <2>5. NodeView' = Contract!Moved(S \cup {n}, "dead")
      BY <1>3, <2>2, <2>3 DEF Contract!Moved, NodeView, ViewOf
    <2>6. Contract!GiveUp(n, S)
      BY <1>2, <1>4, <1>11, <2>1, <2>5 DEF HandlerFails, Contract!GiveUp
    <2>7. QED
      BY <2>4, <2>6 DEF Contract!Next
  <1>12. QED
    BY <1>7, <1>8, <1>9, <1>10, <1>11 DEF NodeStep

(* execute_dag, with its waves, slots, retries, cascades, cancellations and *)
(* re-executions, implements DagContract.                                  *)
THEOREM EngineImplementsContract == Spec => ImplementsContract
  <1>1. Init => Contract!Init
    BY DEF Init, Contract!Init, NodeView, ViewOf, OutcomeView, OutcomeOf
  <1>2. VerdictInv /\ [Next]_engineVars => [Contract!Next]_(Contract!contractVars)
    <2> SUFFICES ASSUME VerdictInv, [Next]_engineVars
                 PROVE  Contract!Next \/ UNCHANGED <<NodeView, OutcomeView>>
      BY DEF Contract!contractVars
    <2>0. SkipInv /\ OrderInv /\ TypeOK
      BY DEF VerdictInv, SkipInv, OrderInv
    <2>1. ASSUME NEW d \in Dags, Begin(d) PROVE Contract!Next
      <3>1. WaveDone(d) /\ phase[d] # "ended"
        BY <2>0, <2>1 DEF Begin, WaveDone, NodesOf, OrderInv, Coroutines
      <3>2. ResetRunning(d) \in [Nodes -> Status] /\ LoopPass(d, ResetRunning(d))
        BY <2>0, <2>1, ResetType DEF Begin
      <3>3. \A n \in Nodes :
               \/ ResetRunning(d)[n] = status[n] /\ (DagOf[n] = d => ResetRunning(d)[n] # "RUNNING")
               \/ DagOf[n] = d /\ status[n] = "RUNNING" /\ ResetRunning(d)[n] = "PENDING"
        BY DEF ResetRunning
      <3>4. QED
        BY <3>1, <3>2, <3>3, LoopPassSettles DEF Contract!Next
    <2>2. ASSUME NEW d \in Dags, EndWave(d) PROVE Contract!Next
      <3>1. WaveDone(d) /\ phase[d] # "ended" /\ LoopPass(d, status) /\ status \in [Nodes -> Status]
        BY <2>0, <2>2 DEF EndWave, TypeOK
      <3>2. \A n \in Nodes : DagOf[n] = d => status[n] # "RUNNING"
        BY <2>0, <2>2 DEF EndWave, WaveDone, NodesOf, OrderInv, Coroutines
      <3>3. QED
        BY <3>1, <3>2, LoopPassSettles DEF Contract!Next
    <2>3. ASSUME NEW d \in Dags, Cancel(d) PROVE UNCHANGED <<NodeView, OutcomeView>>
      BY <2>3 DEF Cancel, NodeView, OutcomeView
    <2>4. ASSUME NEW n \in Nodes, NodeStep(n) PROVE Contract!Next
      BY <2>4, NodeStepImplements
    <2>5. CASE UNCHANGED engineVars
      BY <2>5 DEF engineVars, NodeView, OutcomeView
    <2>6. QED
      BY <2>1, <2>2, <2>3, <2>4, <2>5 DEF Next
  <1>3. QED
    BY <1>1, <1>2, VerdictInvariant, PTL DEF Spec, ImplementsContract, Contract!Spec

-----------------------------------------------------------------------------
(* A save writes a row as a whole, or not at all, and of one mission only. *)
LEMMA SaveEffect ==
  ASSUME RecoveryTypeOK, NEW d \in Dags, NEW m \in [Dags -> MissionStatus],
         NEW ck \in Graphs, NEW sv \in SUBSET Dags, SaveRecord(d, m, ck, sv)
  PROVE  /\ db' \in [mission : [Dags -> MissionStatus], checkpoint : Graphs, saved : SUBSET Dags]
         /\ \A n \in Nodes : \/ db'.checkpoint.status[n] = db.checkpoint.status[n]
                             \/ DagOf[n] = d /\ db'.checkpoint.status[n] = ck.status[n]
         /\ ~DbMayFail => \A n \in Nodes : db'.checkpoint.status[n] =
              IF DagOf[n] = d /\ d \in sv THEN ck.status[n] ELSE db.checkpoint.status[n]
         /\ \A e \in Dags : db'.mission[e] = db.mission[e] \/ (e = d /\ db'.mission[e] = m[e])
<1>1. CASE UNCHANGED db /\ DbMayFail
  BY <1>1 DEF RecoveryTypeOK
<1>2. CASE ~(UNCHANGED db /\ DbMayFail)
  <2> DEFINE G == [status  |-> [n \in Nodes |-> IF DagOf[n] = d /\ d \in sv THEN ck.status[n]
                                            ELSE db.checkpoint.status[n]],
                   retries |-> [n \in Nodes |-> IF DagOf[n] = d /\ d \in sv THEN ck.retries[n]
                                            ELSE db.checkpoint.retries[n]]]
  <2>1. db' = [mission |-> [db.mission EXCEPT ![d] = m[d]],
               saved   |-> IF d \in sv THEN db.saved \cup {d} ELSE db.saved, checkpoint |-> G]
    BY <1>2 DEF SaveRecord
  <2>2. /\ db.checkpoint.status \in [Nodes -> Status] /\ db.checkpoint.retries \in [Nodes -> Nat]
        /\ ck.status \in [Nodes -> Status] /\ ck.retries \in [Nodes -> Nat]
        /\ db.mission \in [Dags -> MissionStatus] /\ db.saved \in SUBSET Dags
    BY DEF RecoveryTypeOK, Graphs
  <2>3. G \in Graphs
    BY <2>2 DEF Graphs
  <2>4. \A n \in Nodes : G.status[n] =
           IF DagOf[n] = d /\ d \in sv THEN ck.status[n] ELSE db.checkpoint.status[n]
    OBVIOUS
  <2> HIDE DEF G
  <2> QED BY <2>1, <2>2, <2>3, <2>4
<1> QED BY <1>1, <1>2 DEF SaveRecord

(* checkpoint_dag replaces the entries of one graph. *)
LEMMA SnapshotType ==
  ASSUME TypeOK, NEW d \in Dags
  PROVE  /\ Snapshot(d) \in Graphs
         /\ \A n \in Nodes : Snapshot(d).status[n] = IF DagOf[n] = d THEN status[n] ELSE checkpoint.status[n]
BY DEF Snapshot, Graphs, TypeOK

LEMMA RecoveryTypeStep == RecoveryTypeOK /\ [RNext]_vars => RecoveryTypeOK'
<1> SUFFICES ASSUME RecoveryTypeOK, [RNext]_vars PROVE RecoveryTypeOK'
  OBVIOUS
<1> USE RecoveryAssumption, EngineAssumption
<1>0. TypeOK /\ checkpoint \in Graphs /\ saved \in SUBSET Dags /\ mission \in [Dags -> MissionStatus]
  BY DEF RecoveryTypeOK, TypeOK, Graphs
<1>1. ASSUME NEW d \in Dags, RBegin(d) PROVE RecoveryTypeOK'
  <2>1. TypeOK'
    BY <1>0, <1>1, TypeStep DEF RBegin, Next
  <2> QED BY <1>1, <2>1 DEF RBegin, registryVars, RecoveryTypeOK
<1>2. ASSUME NEW d \in Dags, REndWave(d) PROVE RecoveryTypeOK'
  <2>1. TypeOK'
    BY <1>0, <1>2, TypeStep DEF REndWave, Next
  <2>2. checkpoint' \in Graphs /\ saved' \in SUBSET Dags
    BY <2>1 DEF TypeOK, Graphs
  <2>3. SaveRecord(d, mission, checkpoint', saved')
    BY <1>2 DEF REndWave
  <2>4. db' \in [mission : [Dags -> MissionStatus], checkpoint : Graphs, saved : SUBSET Dags]
    BY <1>0, <2>2, <2>3, SaveEffect
  <2> QED BY <1>2, <2>1, <2>4 DEF REndWave, RecoveryTypeOK
<1>3. ASSUME NEW n \in Nodes, RNodeStep(n) PROVE RecoveryTypeOK'
  <2>1. CASE HandlerRepairs(n)
    <3>1. attempt' \in [Nodes -> Nat] /\ retries' \in [Nodes -> Nat]
      BY <2>1 DEF HandlerRepairs, RecoveryTypeOK, TypeOK
    <3>2. TypeOK'
      BY <1>0, <2>1, <3>1 DEF HandlerRepairs, TypeOK
    <3>3. applied' \subseteq External
      BY <1>3 DEF RNodeStep, MaybeEffectOf, EffectOf, RecoveryTypeOK
    <3> QED BY <1>3, <3>1, <3>2, <3>3 DEF RNodeStep, RecoveryTypeOK
  <2>2. CASE ~HandlerRepairs(n)
    <3>1. TypeOK'
      BY <1>0, <1>3, <2>2, TypeStep DEF RNodeStep, Next, NodeStep
    <3>2. applied' \subseteq External /\ attempt' \in [Nodes -> Nat]
      BY <1>3, <2>2 DEF RNodeStep, MaybeEffectOf, EffectOf, RecoveryTypeOK
    <3> QED BY <1>3, <3>1, <3>2 DEF RNodeStep, RecoveryTypeOK
  <2> QED BY <2>1, <2>2
<1>4. ASSUME NEW d \in Dags, Conclude(d) PROVE RecoveryTypeOK'
  BY <1>4 DEF Conclude, engineVars, RecoveryTypeOK, TypeOK, MissionStatus
<1>5. ASSUME NEW d \in Dags, NEW to \in MissionStatus, mission' = [mission EXCEPT ![d] = to],
             SaveRecord(d, mission', checkpoint, saved)
      PROVE  /\ mission' \in [Dags -> MissionStatus]
             /\ db' \in [mission : [Dags -> MissionStatus], checkpoint : Graphs, saved : SUBSET Dags]
  <2>1. mission' \in [Dags -> MissionStatus]
    BY <1>0, <1>5
  <2> QED BY <1>0, <1>5, <2>1, SaveEffect
<1>6. ASSUME NEW d \in Dags, CancelMission(d) PROVE RecoveryTypeOK'
  <2>1. /\ mission' \in [Dags -> MissionStatus]
        /\ db' \in [mission : [Dags -> MissionStatus], checkpoint : Graphs, saved : SUBSET Dags]
    BY <1>5, <1>6 DEF CancelMission, MissionStatus
  <2>2. /\ phase' \in [Dags -> {"idle", "gather", "ended", "cancelled"}]
        /\ task' \in [Nodes -> {"none", "waiting", "handling"}] /\ mastered' \subseteq Dags
    BY <1>6 DEF CancelMission, RecoveryTypeOK, TypeOK
  <2> QED BY <1>6, <2>1, <2>2 DEF CancelMission, RecoveryTypeOK, TypeOK
<1>7. ASSUME NEW d \in Dags, NEW to \in {"PAUSED", "RUNNING"}, SetStatus(d, to) PROVE RecoveryTypeOK'
  <2>1. /\ mission' \in [Dags -> MissionStatus]
        /\ db' \in [mission : [Dags -> MissionStatus], checkpoint : Graphs, saved : SUBSET Dags]
    BY <1>5, <1>7 DEF SetStatus, MissionStatus
  <2> QED BY <1>7, <2>1 DEF SetStatus, engineVars, RecoveryTypeOK, TypeOK
<1>8. ASSUME NEW d \in Dags, CheckpointNow(d) PROVE RecoveryTypeOK'
  <2>1. checkpoint' \in Graphs /\ saved' \in SUBSET Dags
    BY <1>0, <1>8, SnapshotType DEF CheckpointNow
  <2>2. db' \in [mission : [Dags -> MissionStatus], checkpoint : Graphs, saved : SUBSET Dags]
    BY <1>0, <1>8, <2>1, SaveEffect DEF CheckpointNow
  <2> QED BY <1>8, <2>1, <2>2 DEF CheckpointNow, RecoveryTypeOK, TypeOK, Graphs
<1>9. ASSUME NEW d \in Dags, ResumeGraph(d) PROVE RecoveryTypeOK'
  <2>1. \A n \in Nodes : ResumedStatus(n) \in Status
    BY <1>0 DEF ResumedStatus, Graphs, Status
  <2>2. /\ status' \in [Nodes -> Status] /\ retries' \in [Nodes -> Nat]
        /\ phase' \in [Dags -> {"idle", "gather", "ended", "cancelled"}]
        /\ held' \subseteq Dags
    BY <1>0, <1>9, <2>1 DEF ResumeGraph, RecoveryTypeOK, TypeOK, Graphs, NodesOf
  <2> QED BY <1>9, <2>2 DEF ResumeGraph, RecoveryTypeOK, TypeOK
<1>10. ASSUME NEW n \in Nodes, Reconcile(n) PROVE RecoveryTypeOK'
  <2>1. status' \in [Nodes -> Status]
    BY <1>10 DEF Reconcile, Probed, RecoveryTypeOK, TypeOK, Status
  <2>2. interrupted' \subseteq External /\ caught' \subseteq External
    BY <1>10 DEF Reconcile, RecoveryTypeOK
  <2> QED BY <1>10, <2>1, <2>2 DEF Reconcile, RecoveryTypeOK, TypeOK
<1>11. CASE Crash
  <2>1. applied' \subseteq External /\ caught' \subseteq External
    BY <1>11 DEF Crash, RecoveryTypeOK
  <2>2. /\ task' \in [Nodes -> {"none", "waiting", "handling"}]
        /\ phase' \in [Dags -> {"idle", "gather", "ended", "cancelled"}]
        /\ verdict' \in [Dags -> {"none", "COMPLETED", "FAILED"}]
        /\ crashes' \in 0 .. MaxCrashes /\ interrupted' \subseteq External
    BY <1>11 DEF Crash, RecoveryTypeOK
  <2> QED BY <1>11, <2>1, <2>2 DEF Crash, RecoveryTypeOK, TypeOK
<1>12. CASE Restart
  BY <1>12 DEF Restart, RecoveryTypeOK, TypeOK, Graphs, Status
<1>13. CASE UNCHANGED vars
  BY <1>13 DEF vars, engineVars, registryVars, RecoveryTypeOK, TypeOK
<1> QED BY <1>1, <1>2, <1>3, <1>4, <1>6, <1>7, <1>8, <1>9, <1>10, <1>11, <1>12, <1>13 DEF RNext

-----------------------------------------------------------------------------
(* A process that is down holds nothing; a mission that is driven and a    *)
(* graph that executes are held; a coroutine belongs to a gathering graph  *)
(* and to a node still to be done.                                         *)
Alive ==
  /\ (~up => held = {}) /\ mastered \subseteq held
  /\ \A d \in Dags : phase[d] # "idle" => d \in held
  /\ \A n \in Nodes : task[n] # "none" =>
       phase[DagOf[n]] = "gather" /\ status[n] \in {"PENDING", "RUNNING", "SKIPPED"}

(* One pass of the loop: a node is left as it is, blocked or launched. *)
LEMMA PassEffect ==
  ASSUME RecoveryTypeOK, Alive, NEW d \in Dags, d \in held, NEW st \in [Nodes -> Status], LoopPass(d, st),
         \A n \in Nodes : st[n] = status[n] \/ (DagOf[n] = d /\ status[n] = "RUNNING" /\ st[n] = "PENDING"),
         \A n \in NodesOf(d) : task[n] = "none", UNCHANGED <<up, held, mastered>>
  PROVE  /\ Alive'
         /\ \A n \in Nodes : \/ status'[n] = status[n]
                             \/ status[n] \in {"PENDING", "RUNNING"} /\ status'[n] \in {"PENDING", "BLOCKED"}
         /\ \A e \in Dags \ {d} : phase'[e] = phase[e]
<1> USE EngineAssumption DEF RecoveryTypeOK, TypeOK, NodesOf
<1>1. CASE Finish(d, st)
  BY <1>1 DEF Finish, Alive
<1>2. CASE Block(d, st)
  BY <1>2 DEF Block, Alive
<1>3. CASE LaunchWave(d, st)
  BY <1>3 DEF LaunchWave, Alive, Ready
<1> QED BY <1>1, <1>2, <1>3 DEF LoopPass

(* What the engine does in a live process. *)
LEMMA EngineEffect ==
  ASSUME RecoveryTypeOK, Alive,
         (\E d \in Dags : RBegin(d) \/ REndWave(d)) \/ (\E n \in Nodes : RNodeStep(n))
  PROVE  /\ Alive'
         /\ \A n \in Nodes : \/ status'[n] = status[n]
                             \/ /\ status[n] \in {"PENDING", "RUNNING", "SKIPPED"}
                                /\ status'[n] # "OUTCOME_UNKNOWN"
         /\ \A d \in Dags : phase[d] = "ended" => phase'[d] = "ended"
         /\ UNCHANGED <<up, held, mastered, mission, caught>>
<1> USE EngineAssumption
<1>1. ASSUME NEW d \in Dags, RBegin(d)
      PROVE  /\ Alive'
             /\ \A n \in Nodes : \/ status'[n] = status[n]
                                 \/ /\ status[n] \in {"PENDING", "RUNNING", "SKIPPED"}
                                    /\ status'[n] # "OUTCOME_UNKNOWN"
             /\ \A e \in Dags : phase[e] = "ended" => phase'[e] = "ended"
  <2>1. /\ LoopPass(d, ResetRunning(d)) /\ phase[d] \in {"idle", "cancelled"} /\ d \in held
        /\ UNCHANGED <<up, held, mastered>>
    BY <1>1 DEF RBegin, Begin, registryVars
  <2>2. /\ ResetRunning(d) \in [Nodes -> Status]
        /\ \A n \in Nodes : \/ ResetRunning(d)[n] = status[n]
                            \/ DagOf[n] = d /\ status[n] = "RUNNING" /\ ResetRunning(d)[n] = "PENDING"
    BY DEF ResetRunning, RecoveryTypeOK, TypeOK, Status
  <2>3. \A n \in NodesOf(d) : task[n] = "none"
    BY <2>1 DEF Alive, NodesOf
  <2> QED BY <2>1, <2>2, <2>3, PassEffect
<1>2. ASSUME NEW d \in Dags, REndWave(d)
      PROVE  /\ Alive'
             /\ \A n \in Nodes : \/ status'[n] = status[n]
                                 \/ /\ status[n] \in {"PENDING", "RUNNING", "SKIPPED"}
                                    /\ status'[n] # "OUTCOME_UNKNOWN"
             /\ \A e \in Dags : phase[e] = "ended" => phase'[e] = "ended"
  <2>1. /\ LoopPass(d, status) /\ phase[d] = "gather" /\ WaveDone(d) /\ UNCHANGED <<up, held, mastered>>
    BY <1>2 DEF REndWave, EndWave
  <2>2. d \in held /\ status \in [Nodes -> Status] /\ \A n \in NodesOf(d) : task[n] = "none"
    BY <2>1 DEF Alive, WaveDone, RecoveryTypeOK, TypeOK
  <2> QED BY <2>1, <2>2, PassEffect
<1>3. ASSUME NEW n \in Nodes, RNodeStep(n)
      PROVE  /\ Alive'
             /\ \A m \in Nodes : \/ status'[m] = status[m]
                                 \/ /\ status[m] \in {"PENDING", "RUNNING", "SKIPPED"}
                                    /\ status'[m] # "OUTCOME_UNKNOWN"
             /\ UNCHANGED phase
  <2>0. /\ UNCHANGED <<up, held, mastered, phase>> /\ task[n] # "none"
        /\ \/ StartNode(n) \/ NoHandler(n) \/ HandlerReturns(n) \/ HandlerRetries(n) \/ HandlerFails(n)
           \/ HandlerRepairs(n)
    BY <1>3 DEF RNodeStep, StartNode, NoHandler, HandlerReturns, HandlerRetries, HandlerFails, HandlerRepairs
  <2>1. CASE StartNode(n) \/ NoHandler(n) \/ HandlerReturns(n) \/ HandlerRetries(n)
    BY <2>0, <2>1 DEF StartNode, NoHandler, HandlerReturns, HandlerRetries, Alive, RecoveryTypeOK, TypeOK
  <2>2. CASE HandlerFails(n)
    <3> DEFINE failed == [status EXCEPT ![n] = "FAILED"]
               D == Downstream(failed, n)
    <3>1. /\ status' = [m \in Nodes |-> IF m \in D THEN "SKIPPED" ELSE failed[m]]
          /\ task' = [task EXCEPT ![n] = "none"] /\ status[n] \in {"PENDING", "RUNNING", "SKIPPED"}
      BY <2>0, <2>2 DEF HandlerFails, Alive
    <3>2. \A m \in D : m \in Nodes /\ failed[m] = "PENDING"
      BY DownstreamClosed DEF Pending
    <3>3. \A m \in Nodes : failed[m] = IF m = n THEN "FAILED" ELSE status[m]
      BY DEF RecoveryTypeOK, TypeOK
    <3> HIDE DEF failed, D
    <3> QED BY <2>0, <3>1, <3>2, <3>3 DEF Alive, RecoveryTypeOK, TypeOK
  <2>3. CASE HandlerRepairs(n)
    BY <2>0, <2>3 DEF HandlerRepairs, Alive
  <2> QED BY <2>0, <2>1, <2>2, <2>3
<1>4. UNCHANGED <<up, held, mastered, mission, caught>>
  BY DEF RBegin, REndWave, RNodeStep, registryVars
<1> QED BY <1>1, <1>2, <1>3, <1>4

(* Crashes, restarts and resumptions keep the coroutines to live graphs.   *)
LEMMA AliveStep == RecoveryTypeOK /\ Alive /\ [RNext]_vars => Alive'
<1> SUFFICES ASSUME RecoveryTypeOK, Alive, [RNext]_vars PROVE Alive'
  OBVIOUS
<1> USE EngineAssumption
<1>1. ASSUME NEW d \in Dags,
             Conclude(d) \/ SetStatus(d, "PAUSED") \/ SetStatus(d, "RUNNING") \/ CheckpointNow(d)
      PROVE  Alive'
  <2>1. UNCHANGED <<up, held, phase, task, status>> /\ mastered' \subseteq mastered
    BY <1>1 DEF Conclude, SetStatus, CheckpointNow, engineVars
  <2> QED BY <2>1 DEF Alive
<1>2. ASSUME NEW d \in Dags, CancelMission(d) PROVE Alive'
  <2>1. /\ UNCHANGED <<up, held, status>> /\ mastered' \subseteq mastered /\ up
        /\ \/ UNCHANGED <<phase, task>>
           \/ /\ d \in mastered /\ phase' = [phase EXCEPT ![d] = "cancelled"]
              /\ task' = [n \in Nodes |-> IF DagOf[n] = d THEN "none" ELSE task[n]]
    BY <1>2 DEF CancelMission, OwnsTask
  <2>2. CASE UNCHANGED <<phase, task>>
    BY <2>1, <2>2 DEF Alive
  <2>3. CASE ~UNCHANGED <<phase, task>>
    BY <2>1, <2>3 DEF Alive, RecoveryTypeOK, TypeOK
  <2> QED BY <2>2, <2>3
<1>3. ASSUME NEW d \in Dags, ResumeGraph(d) PROVE Alive'
  <2>1. \A n \in Nodes : DagOf[n] = d => task[n] = "none"
    BY <1>3 DEF ResumeGraph, Alive
  <2>2. \A n \in Nodes : DagOf[n] # d => status'[n] = status[n]
    BY <1>3 DEF ResumeGraph
  <2>3. /\ UNCHANGED <<up, mastered, task>> /\ up /\ held' = held \cup {d}
        /\ phase' = [phase EXCEPT ![d] = "idle"]
    BY <1>3 DEF ResumeGraph
  <2> QED BY <2>1, <2>2, <2>3 DEF Alive, RecoveryTypeOK, TypeOK
<1>4. ASSUME NEW n \in Nodes, Reconcile(n) PROVE Alive'
  BY <1>4 DEF Reconcile, Alive, RecoveryTypeOK, TypeOK
<1>5. CASE Crash \/ Restart
  BY <1>5 DEF Crash, Restart, Alive
<1>6. CASE UNCHANGED vars
  BY <1>6 DEF vars, engineVars, registryVars, Alive
<1> QED BY <1>1, <1>2, <1>3, <1>4, <1>5, <1>6, EngineEffect DEF RNext

-----------------------------------------------------------------------------
(* What is COMPLETED in the database is so in the registry's memory, and   *)
(* what is there is so in the graph, as long as there is one.              *)
Kept ==
  \A n \in Nodes :
    /\ db.checkpoint.status[n] = "COMPLETED" => checkpoint.status[n] = "COMPLETED"
    /\ checkpoint.status[n] = "COMPLETED" /\ DagOf[n] \in held => status[n] = "COMPLETED"

Progress ==
  \A n \in Nodes : db.checkpoint.status[n] = "COMPLETED" => db'.checkpoint.status[n] = "COMPLETED"

(* A save with the graph as it is, or as it was last checkpointed. *)
LEMMA SaveKeeps ==
  ASSUME RecoveryTypeOK, Kept, NEW d \in Dags, NEW m \in [Dags -> MissionStatus],
         NEW ck \in Graphs, NEW sv \in SUBSET Dags, SaveRecord(d, m, ck, sv),
         ck = checkpoint \/ (ck = Snapshot(d) /\ d \in held), checkpoint' = ck
  PROVE  /\ Progress
         /\ \A n \in Nodes :
              /\ db'.checkpoint.status[n] = "COMPLETED" => checkpoint'.status[n] = "COMPLETED"
              /\ checkpoint'.status[n] = "COMPLETED" /\ DagOf[n] \in held => status[n] = "COMPLETED"
<1>1. \A n \in Nodes : \/ ck.status[n] = checkpoint.status[n]
                       \/ d \in held /\ DagOf[n] = d /\ ck.status[n] = status[n]
  BY SnapshotType DEF RecoveryTypeOK
<1>2. \A n \in Nodes : \/ db'.checkpoint.status[n] = db.checkpoint.status[n]
                       \/ DagOf[n] = d /\ db'.checkpoint.status[n] = ck.status[n]
  BY SaveEffect
<1> QED BY <1>1, <1>2 DEF Kept, Progress

LEMMA KeptStep == RecoveryTypeOK /\ Alive /\ Kept /\ [RNext]_vars => Kept' /\ Progress
<1> SUFFICES ASSUME RecoveryTypeOK, Alive, Kept, [RNext]_vars PROVE Kept' /\ Progress
  OBVIOUS
<1> USE EngineAssumption
<1>0. /\ TypeOK /\ checkpoint \in Graphs /\ saved \in SUBSET Dags /\ mission \in [Dags -> MissionStatus]
      /\ RecoveryTypeOK'
  BY RecoveryTypeStep DEF RecoveryTypeOK, TypeOK, Graphs
<1>00. checkpoint' \in Graphs /\ saved' \in SUBSET Dags /\ mission' \in [Dags -> MissionStatus]
  BY <1>0 DEF RecoveryTypeOK, TypeOK, Graphs
<1>1. ASSUME NEW d \in Dags, RBegin(d) PROVE Kept' /\ Progress
  <2>1. UNCHANGED <<db, checkpoint, held>>
    BY <1>1 DEF RBegin, Begin, registryVars
  <2> QED BY <1>1, <2>1, EngineEffect DEF Kept, Progress
<1>2. ASSUME NEW n \in Nodes, RNodeStep(n) PROVE Kept' /\ Progress
  <2>1. UNCHANGED <<db, checkpoint, held>>
    BY <1>2 DEF RNodeStep, StartNode, NoHandler, HandlerReturns, HandlerRetries, HandlerFails, HandlerRepairs
  <2> QED BY <1>2, <2>1, EngineEffect DEF Kept, Progress
<1>3. ASSUME NEW d \in Dags, REndWave(d) PROVE Kept' /\ Progress
  <2>1. /\ SaveRecord(d, mission, checkpoint', saved') /\ checkpoint' = Snapshot(d) /\ d \in held
        /\ UNCHANGED held
    BY <1>3 DEF REndWave, EndWave, Alive
  <2>2. /\ Progress
        /\ \A n \in Nodes :
              /\ db'.checkpoint.status[n] = "COMPLETED" => checkpoint'.status[n] = "COMPLETED"
              /\ checkpoint'.status[n] = "COMPLETED" /\ DagOf[n] \in held => status[n] = "COMPLETED"
    BY <1>0, <1>00, <2>1, SaveKeeps
  <2> QED BY <1>3, <2>1, <2>2, EngineEffect DEF Kept
<1>4. ASSUME NEW d \in Dags, CheckpointNow(d) PROVE Kept' /\ Progress
  <2>1. /\ SaveRecord(d, mission, checkpoint', saved') /\ checkpoint' = Snapshot(d) /\ d \in held
        /\ UNCHANGED <<held, status>>
    BY <1>4 DEF CheckpointNow
  <2> QED BY <1>0, <1>00, <2>1, SaveKeeps DEF Kept
<1>5. ASSUME NEW d \in Dags,
             CancelMission(d) \/ SetStatus(d, "PAUSED") \/ SetStatus(d, "RUNNING")
      PROVE  Kept' /\ Progress
  <2>1. /\ SaveRecord(d, mission', checkpoint, saved) /\ UNCHANGED <<held, status, checkpoint>>
    BY <1>5 DEF CancelMission, SetStatus, engineVars
  <2> QED BY <1>0, <1>00, <2>1, SaveKeeps DEF Kept
<1>6. ASSUME NEW d \in Dags, ResumeGraph(d) PROVE Kept' /\ Progress
  <2>1. /\ UNCHANGED <<db, checkpoint>> /\ held' = held \cup {d}
        /\ status' = [n \in Nodes |-> IF DagOf[n] = d THEN ResumedStatus(n) ELSE status[n]]
    BY <1>6 DEF ResumeGraph
  <2>2. \A n \in Nodes : checkpoint.status[n] = "COMPLETED" => ResumedStatus(n) = "COMPLETED"
    BY DEF ResumedStatus
  <2>3. \A n \in Nodes : DagOf[n] = d /\ checkpoint.status[n] = "COMPLETED" => status'[n] = "COMPLETED"
    BY <2>1, <2>2
  <2>4. \A n \in Nodes : DagOf[n] # d => status'[n] = status[n]
    BY <2>1
  <2> QED BY <2>1, <2>3, <2>4 DEF Kept, Progress
<1>7. ASSUME NEW n \in Nodes, Reconcile(n) PROVE Kept' /\ Progress
  <2>1. /\ UNCHANGED <<db, checkpoint, held>> /\ status[n] = "OUTCOME_UNKNOWN"
        /\ \A m \in Nodes \ {n} : status'[m] = status[m]
    BY <1>7 DEF Reconcile, RecoveryTypeOK, TypeOK
  <2> QED BY <2>1 DEF Kept, Progress
<1>8. ASSUME NEW d \in Dags, Conclude(d) PROVE Kept' /\ Progress
  BY <1>8 DEF Conclude, engineVars, Kept, Progress
<1>9. CASE Crash
  BY <1>9 DEF Crash, Kept, Progress
<1>10. CASE Restart
  BY <1>10 DEF Restart, Alive, Kept, Progress
<1>11. CASE UNCHANGED vars
  BY <1>11 DEF vars, engineVars, registryVars, Kept, Progress
<1> QED BY <1>1, <1>2, <1>3, <1>4, <1>5, <1>6, <1>7, <1>8, <1>9, <1>10, <1>11 DEF RNext

(* A handler is entered by a launched node of a graph that is held. *)
LEMMA Started ==
  ASSUME RecoveryTypeOK, Alive, [RNext]_vars, NEW n \in Nodes, starts'[n] # starts[n]
  PROVE  DagOf[n] \in held /\ status[n] \in {"PENDING", "RUNNING", "SKIPPED"}
<1> USE EngineAssumption
<1>1. PICK m \in Nodes : RNodeStep(m) /\ StartNode(m)
  BY DEF RNext, RBegin, REndWave, Conclude, CancelMission, SetStatus, CheckpointNow, ResumeGraph,
     RNodeStep, Reconcile, Crash, Restart, vars, engineVars, Begin, EndWave, NoHandler, HandlerReturns,
     HandlerRetries, HandlerFails, HandlerRepairs
<1>2. m = n
  BY <1>1 DEF StartNode, RecoveryTypeOK, TypeOK
<1> QED BY <1>1, <1>2 DEF StartNode, Alive

RecoveryInv == RecoveryTypeOK /\ Alive /\ Kept

LEMMA RecoveryInvariant == RSpec => []RecoveryInv
<1>1. RInit => RecoveryInv
  BY RecoveryAssumption DEF RInit, Init, RecoveryInv, RecoveryTypeOK, TypeOK, Graphs, Status, MissionStatus, Alive, Kept
<1>2. RecoveryInv /\ [RNext]_vars => RecoveryInv'
  BY RecoveryTypeStep, AliveStep, KeptStep DEF RecoveryInv
<1> QED BY <1>1, <1>2, PTL DEF RSpec

(* Types, over crashes: what _load_from_db and resume_mission rebuild is a *)
(* graph again, and a process never crashes more often than MaxCrashes.    *)
THEOREM RecoveryTypeCorrect == RSpec => []RecoveryTypeOK
<1>1. RecoveryInv => RecoveryTypeOK
  BY DEF RecoveryInv
<1> QED BY <1>1, RecoveryInvariant, PTL

(* A node recorded COMPLETED in the database is never dispatched again: it *)
(* is so in the checkpoint too, and in any graph resumed from it.          *)
THEOREM DurableWorkIsKept == RSpec => DurableWorkKept
<1> DEFINE A == \A n \in Nodes : (DagOf[n] \in db.saved /\ db.checkpoint.status[n] = "COMPLETED") =>
                  starts'[n] = starts[n]
<1>1. RecoveryInv /\ [RNext]_vars => [A]_vars
  <2> SUFFICES ASSUME RecoveryInv, [RNext]_vars, NEW n \in Nodes,
                      db.checkpoint.status[n] = "COMPLETED", starts'[n] # starts[n]
               PROVE  FALSE
    OBVIOUS
  <2>1. DagOf[n] \in held /\ status[n] \in {"PENDING", "RUNNING", "SKIPPED"}
    BY Started DEF RecoveryInv
  <2> QED BY <2>1 DEF RecoveryInv, Kept
<1> QED BY <1>1, RecoveryInvariant, PTL DEF RSpec, DurableWorkKept

(* No save, of a wave, a cancellation, a pause or a resumed graph, writes  *)
(* an older status over COMPLETED in the database.                         *)
THEOREM DurableProgressHolds == RSpec => DurableProgress
<1>1. RecoveryInv /\ [RNext]_vars => [Progress]_vars
  BY KeptStep DEF RecoveryInv
<1>2. RSpec => [][Progress]_vars
  BY <1>1, RecoveryInvariant, PTL DEF RSpec
<1> QED BY <1>2 DEF Progress, DurableProgress

-----------------------------------------------------------------------------
(* External nodes that a crash caught RUNNING, as far as the database knows. *)
(* Every copy of the graph says that the node was running, or that its      *)
(* outcome is unknown: no save, whether it goes through or is lost, and no  *)
(* resumption makes anything else of it.                                    *)
InDoubt == {"RUNNING", "OUTCOME_UNKNOWN"}

CaughtInv ==
  \A n \in caught :
    /\ n \in External
    /\ db.checkpoint.status[n] \in InDoubt
    /\ up => checkpoint.status[n] \in InDoubt
    /\ DagOf[n] \in held => status[n] = "OUTCOME_UNKNOWN"

LEMMA CaughtStep ==
  ASSUME RecoveryTypeOK, Alive, CaughtInv, [RNext]_vars
  PROVE  CaughtInv'
<1> USE EngineAssumption, RecoveryAssumption
<1>0. /\ TypeOK /\ checkpoint \in Graphs /\ saved \in SUBSET Dags /\ mission \in [Dags -> MissionStatus]
      /\ caught \subseteq Nodes
  BY DEF RecoveryTypeOK, TypeOK, Graphs
<1>00. checkpoint' \in Graphs /\ saved' \in SUBSET Dags /\ mission' \in [Dags -> MissionStatus]
  BY RecoveryTypeStep DEF RecoveryTypeOK, TypeOK, Graphs
<1>1. ASSUME NEW d \in Dags, RBegin(d) PROVE CaughtInv'
  <2>1. UNCHANGED <<db, checkpoint>>
    BY <1>1 DEF RBegin, Begin, registryVars
  <2> QED BY <1>0, <1>1, <2>1, EngineEffect DEF CaughtInv
<1>2. ASSUME NEW n \in Nodes, RNodeStep(n) PROVE CaughtInv'
  <2>1. UNCHANGED <<db, checkpoint>>
    BY <1>2 DEF RNodeStep, StartNode, NoHandler, HandlerReturns, HandlerRetries, HandlerFails, HandlerRepairs
  <2> QED BY <1>0, <1>2, <2>1, EngineEffect DEF CaughtInv
<1>3. ASSUME NEW d \in Dags, up, d \in held, SaveRecord(d, mission, checkpoint', saved'),
             checkpoint' = Snapshot(d), UNCHANGED <<up, held, caught>>,
             \A n \in caught : DagOf[n] \in held => status'[n] = status[n]
      PROVE  CaughtInv'
  <2>1. \A n \in Nodes : checkpoint'.status[n] = IF DagOf[n] = d THEN status[n] ELSE checkpoint.status[n]
    BY <1>0, <1>3, SnapshotType
  <2>2. \A n \in Nodes : \/ db'.checkpoint.status[n] = db.checkpoint.status[n]
                        \/ db'.checkpoint.status[n] = checkpoint'.status[n]
    BY <1>0, <1>00, <1>3, SaveEffect
  <2> QED BY <1>0, <1>3, <2>1, <2>2 DEF CaughtInv, InDoubt
<1>4. ASSUME NEW d \in Dags, REndWave(d) PROVE CaughtInv'
  <2>1. /\ SaveRecord(d, mission, checkpoint', saved') /\ checkpoint' = Snapshot(d)
        /\ d \in held /\ up /\ UNCHANGED <<up, held, caught>>
    BY <1>4 DEF REndWave, EndWave, Alive
  <2>2. \A n \in caught : DagOf[n] \in held => status'[n] = status[n]
    BY <1>0, <1>4, EngineEffect DEF CaughtInv
  <2> QED BY <1>3, <2>1, <2>2
<1>5. ASSUME NEW d \in Dags, CheckpointNow(d) PROVE CaughtInv'
  BY <1>3, <1>5 DEF CheckpointNow
<1>6. ASSUME NEW d \in Dags,
             CancelMission(d) \/ SetStatus(d, "PAUSED") \/ SetStatus(d, "RUNNING")
      PROVE  CaughtInv'
  <2>1. /\ SaveRecord(d, mission', checkpoint, saved) /\ up
        /\ UNCHANGED <<up, held, status, checkpoint, caught>>
    BY <1>6 DEF CancelMission, SetStatus, engineVars
  <2>2. \A n \in Nodes : \/ db'.checkpoint.status[n] = db.checkpoint.status[n]
                        \/ db'.checkpoint.status[n] = checkpoint.status[n]
    BY <1>0, <1>00, <2>1, SaveEffect
  <2> QED BY <1>0, <2>1, <2>2 DEF CaughtInv
<1>7. ASSUME NEW d \in Dags, ResumeGraph(d) PROVE CaughtInv'
  <2>1. /\ UNCHANGED <<db, checkpoint, up, caught>> /\ up /\ held' = held \cup {d}
        /\ \A n \in Nodes : status'[n] = IF DagOf[n] = d THEN ResumedStatus(n) ELSE status[n]
    BY <1>7 DEF ResumeGraph
  <2>2. \A n \in caught : ResumedStatus(n) = "OUTCOME_UNKNOWN"
    BY <2>1 DEF ResumedStatus, CaughtInv, InDoubt
  <2>3. \A n \in caught : DagOf[n] \in held' => status'[n] = "OUTCOME_UNKNOWN"
    BY <1>0, <2>1, <2>2 DEF CaughtInv
  <2> QED BY <2>1, <2>3 DEF CaughtInv
<1>8. ASSUME NEW n \in Nodes, Reconcile(n) PROVE CaughtInv'
  <2>1. /\ UNCHANGED <<db, checkpoint, held, up>> /\ caught' = caught \ {n}
        /\ \A m \in Nodes \ {n} : status'[m] = status[m]
    BY <1>8 DEF Reconcile, RecoveryTypeOK, TypeOK
  <2> QED BY <1>0, <2>1 DEF CaughtInv
<1>9. ASSUME NEW d \in Dags, Conclude(d) PROVE CaughtInv'
  BY <1>9 DEF Conclude, engineVars, CaughtInv
<1>10. CASE Crash
  BY <1>10 DEF Crash, CaughtInv, InDoubt
<1>11. CASE Restart
  BY <1>0, <1>11 DEF Restart, Alive, CaughtInv
<1>12. CASE UNCHANGED vars
  BY <1>12 DEF vars, engineVars, registryVars, CaughtInv
<1> QED BY <1>1, <1>2, <1>4, <1>5, <1>6, <1>7, <1>8, <1>9, <1>10, <1>11, <1>12 DEF RNext

(* An external node that a crash caught in its handler, and whose start     *)
(* had reached the database, is not dispatched before it is reconciled,     *)
(* over any number of crashes and whatever later writes are lost.           *)
THEOREM CaughtIsReconciledHolds == RSpec => []CaughtIsReconciled
<1>1. RInit => CaughtInv
  BY DEF RInit, CaughtInv
<1>2. RecoveryInv /\ CaughtInv /\ [RNext]_vars => CaughtInv'
  BY CaughtStep DEF RecoveryInv
<1>3. RecoveryInv /\ CaughtInv => CaughtIsReconciled
  BY RecoveryAssumption, EngineAssumption
     DEF RecoveryInv, RecoveryTypeOK, TypeOK, Alive, CaughtInv, CaughtIsReconciled
<1> QED BY <1>1, <1>2, <1>3, RecoveryInvariant, PTL DEF RSpec

-----------------------------------------------------------------------------
(* A cancelled background mission has no coroutine; a verdict is in memory *)
(* only, of a graph that has ended, and never in the database.             *)
CancelInv ==
  /\ \A d \in Background : mission[d] = "CANCELLED" => d \notin mastered
  /\ \A d \in Dags : up /\ mission[d] \in {"SUCCEEDED", "FAILED"} => phase[d] = "ended"
  /\ \A d \in Dags : db.mission[d] \notin {"SUCCEEDED", "FAILED"}

LEMMA CancelStep == RecoveryTypeOK /\ Alive /\ CancelInv /\ [RNext]_vars => CancelInv'
<1> SUFFICES ASSUME RecoveryTypeOK, Alive, CancelInv, [RNext]_vars PROVE CancelInv'
  OBVIOUS
<1> USE EngineAssumption, RecoveryAssumption
<1>0. /\ TypeOK /\ checkpoint \in Graphs /\ saved \in SUBSET Dags /\ mission \in [Dags -> MissionStatus]
      /\ checkpoint' \in Graphs /\ saved' \in SUBSET Dags /\ mission' \in [Dags -> MissionStatus]
  BY RecoveryTypeStep DEF RecoveryTypeOK, TypeOK, Graphs
<1>1. ASSUME NEW d \in Dags, RBegin(d) PROVE CancelInv'
  <2>1. UNCHANGED db
    BY <1>1 DEF RBegin, registryVars
  <2> QED BY <1>1, <2>1, EngineEffect DEF CancelInv
<1>2. ASSUME NEW n \in Nodes, RNodeStep(n) PROVE CancelInv'
  <2>1. UNCHANGED db
    BY <1>2 DEF RNodeStep
  <2> QED BY <1>2, <2>1, EngineEffect DEF CancelInv
<1>3. ASSUME NEW d \in Dags, REndWave(d) PROVE CancelInv'
  <2>1. SaveRecord(d, mission, checkpoint', saved') /\ mission[d] \notin {"SUCCEEDED", "FAILED"}
    BY <1>3 DEF REndWave, EndWave, CancelInv
  <2>2. \A e \in Dags : db'.mission[e] = db.mission[e] \/ (e = d /\ db'.mission[e] = mission[d])
    BY <1>0, <2>1, SaveEffect
  <2> QED BY <1>3, <2>1, <2>2, EngineEffect DEF CancelInv
<1>4. ASSUME NEW d \in Dags, Conclude(d) PROVE CancelInv'
  BY <1>0, <1>4 DEF Conclude, engineVars, CancelInv
<1>5. ASSUME NEW d \in Dags, CancelMission(d) PROVE CancelInv'
  <2>1. /\ SaveRecord(d, mission', checkpoint, saved) /\ mission' = [mission EXCEPT ![d] = "CANCELLED"]
        /\ UNCHANGED up /\ mastered' \subseteq mastered
        /\ d \in Background => d \notin mastered'
        /\ \A e \in Dags \ {d} : phase'[e] = phase[e]
    BY <1>5 DEF CancelMission, OwnsTask, RecoveryTypeOK, TypeOK
  <2>0. SaveRecord(d, mission', checkpoint, saved)
    BY <2>1
  <2>2. \A e \in Dags : db'.mission[e] = db.mission[e] \/ (e = d /\ db'.mission[e] = mission'[e])
    BY <1>0, <2>0, SaveEffect
  <2> QED BY <1>0, <2>1, <2>2 DEF CancelInv
<1>6. ASSUME NEW d \in Dags, NEW to \in {"PAUSED", "RUNNING"}, SetStatus(d, to) PROVE CancelInv'
  <2>1. /\ SaveRecord(d, mission', checkpoint, saved) /\ mission' = [mission EXCEPT ![d] = to]
        /\ UNCHANGED <<up, mastered, phase>>
    BY <1>6 DEF SetStatus, engineVars
  <2>0. SaveRecord(d, mission', checkpoint, saved)
    BY <2>1
  <2>2. \A e \in Dags : db'.mission[e] = db.mission[e] \/ (e = d /\ db'.mission[e] = mission'[e])
    BY <1>0, <2>0, SaveEffect
  <2> QED BY <1>0, <2>1, <2>2 DEF CancelInv
<1>7. ASSUME NEW d \in Dags, CheckpointNow(d) PROVE CancelInv'
  <2>1. /\ SaveRecord(d, mission, checkpoint', saved') /\ mission[d] \notin {"SUCCEEDED", "FAILED"}
        /\ UNCHANGED <<up, mastered, mission, phase>>
    BY <1>7 DEF CheckpointNow, CancelInv
  <2>2. \A e \in Dags : db'.mission[e] = db.mission[e] \/ (e = d /\ db'.mission[e] = mission[d])
    BY <1>0, <2>1, SaveEffect
  <2> QED BY <2>1, <2>2 DEF CancelInv
<1>8. ASSUME NEW d \in Dags, ResumeGraph(d) PROVE CancelInv'
  <2>1. /\ UNCHANGED <<up, mastered, mission, db>> /\ up /\ phase' = [phase EXCEPT ![d] = "idle"]
        /\ d \notin held \/ phase[d] = "cancelled"
    BY <1>8 DEF ResumeGraph
  <2>2. mission[d] \notin {"SUCCEEDED", "FAILED"}
    BY <2>1 DEF CancelInv, Alive
  <2> QED BY <2>1, <2>2 DEF CancelInv, RecoveryTypeOK, TypeOK
<1>9. ASSUME NEW n \in Nodes, Reconcile(n) PROVE CancelInv'
  BY <1>9 DEF Reconcile, CancelInv
<1>10. CASE Crash
  BY <1>10 DEF Crash, CancelInv
<1>11. CASE Restart
  BY <1>11 DEF Restart, Alive, CancelInv
<1>12. CASE UNCHANGED vars
  BY <1>12 DEF vars, engineVars, registryVars, CancelInv
<1> QED BY <1>1, <1>2, <1>3, <1>4, <1>5, <1>6, <1>7, <1>8, <1>9, <1>10, <1>11, <1>12 DEF RNext

(* A cancelled background mission is never reported as finished, whatever  *)
(* crashes and restarts follow: its coroutine is gone, and the verdict of  *)
(* an earlier life is not in the database.                                 *)
THEOREM CancelIsSticky == RSpec => CancelSticks
<1> DEFINE A == \A d \in Background : mission[d] = "CANCELLED" => mission'[d] \notin {"SUCCEEDED", "FAILED"}
<1>1. RInit => CancelInv
  BY DEF RInit, CancelInv
<1>2. RecoveryInv /\ CancelInv /\ [RNext]_vars => CancelInv'
  BY CancelStep DEF RecoveryInv
<1>3. RecoveryInv /\ CancelInv /\ [RNext]_vars => [A]_vars
  <2> SUFFICES ASSUME RecoveryInv, CancelInv, RNext, NEW d \in Background, mission[d] = "CANCELLED"
               PROVE  mission'[d] \notin {"SUCCEEDED", "FAILED"}
    BY DEF vars
  <2>0. mission \in [Dags -> MissionStatus] /\ d \in Dags
    BY RecoveryAssumption DEF RecoveryInv, RecoveryTypeOK
  <2>1. ASSUME NEW e \in Dags, Conclude(e) PROVE mission'[d] = mission[d]
    BY <2>0, <2>1 DEF Conclude, CancelInv
  <2>2. ASSUME NEW e \in Dags, CancelMission(e) \/ SetStatus(e, "PAUSED") \/ SetStatus(e, "RUNNING")
        PROVE  mission'[d] \in {mission[d], "CANCELLED", "PAUSED", "RUNNING"}
    BY <2>0, <2>2 DEF CancelMission, SetStatus
  <2>3. CASE Restart
    BY <2>0, <2>3 DEF Restart, CancelInv
  <2>4. CASE UNCHANGED mission
    BY <2>4
  <2> QED BY <2>1, <2>2, <2>3, <2>4 DEF RNext, RBegin, REndWave, RNodeStep, CheckpointNow, ResumeGraph,
        Reconcile, Crash, registryVars
<1> QED BY <1>1, <1>2, <1>3, RecoveryInvariant, PTL DEF RSpec, CancelSticks

-----------------------------------------------------------------------------
(* The order of dependencies and the skipped nodes, over crashes and       *)
(* resumptions.  What keeps them is that a graph is saved and resumed as a *)
(* whole.  A node that runs, is done, or was running when the process died *)
(* had its dependencies, so that reconciliation may complete it.           *)
Ordered(st) ==
  \A n \in Nodes : st[n] \in {"RUNNING", "COMPLETED", "OUTCOME_UNKNOWN"} =>
     \A m \in Deps[n] : st[m] = "COMPLETED"

(* What a cascade finds of the graph: the nodes that wait for a running    *)
(* one are PENDING or skipped, for a failed or a READY node had its        *)
(* dependencies, and so had a BLOCKED one unless its graph has come to a   *)
(* stop.                                                                   *)
AtRest(st, n) == \A m \in Nodes : DagOf[m] = DagOf[n] => st[m] \notin {"PENDING", "RUNNING"}

SkippedWith(st) ==
  /\ \A n \in Nodes : st[n] = "SKIPPED" => \E m \in Deps[n] : st[m] \in {"FAILED", "SKIPPED"}
  /\ \A n \in Nodes : \A m \in Deps[n] :
       (st[m] = "SKIPPED" \/ (st[m] = "FAILED" /\ m \in Handled)) => st[n] = "SKIPPED"

Cascaded(st) ==
  /\ SkippedWith(st)
  /\ \A n \in Nodes : st[n] \in {"FAILED", "READY"} => \A m \in Deps[n] : st[m] = "COMPLETED"
  /\ \A n \in Nodes : st[n] = "BLOCKED" => AtRest(st, n) \/ \A m \in Deps[n] : st[m] = "COMPLETED"

Coherent(st) == Ordered(st) /\ Cascaded(st)

ResumableInv ==
  /\ RecoveryTypeOK /\ Alive
  /\ IF up THEN Coroutines ELSE \A n \in Nodes : task[n] = "none"
  /\ DependencyOrder
  /\ Coherent(status) /\ Coherent(checkpoint.status) /\ Coherent(db.checkpoint.status)

(* Dependencies are nodes of the same graph. *)
LEMMA DepsTyped ==
  \A n \in Nodes : Deps[n] \subseteq Nodes /\ \A m \in Deps[n] : DagOf[m] = DagOf[n]
BY GraphAssumption, EngineAssumption DEF Validated

(* What takes whole graphs from either of two coherent maps is coherent.   *)
LEMMA CoherentByGraph ==
  ASSUME NEW a, NEW b, NEW c, NEW D, Coherent(a), Coherent(b),
         \A n \in Nodes : c[n] = IF DagOf[n] \in D THEN a[n] ELSE b[n]
  PROVE  Coherent(c)
<1>1. \A n \in Nodes : \/ DagOf[n] \in D /\ \A m \in Nodes : DagOf[m] = DagOf[n] => c[m] = a[m]
                       \/ DagOf[n] \notin D /\ \A m \in Nodes : DagOf[m] = DagOf[n] => c[m] = b[m]
  OBVIOUS
<1>2. \A n \in Nodes : \/ /\ c[n] = a[n] /\ \A m \in Deps[n] : c[m] = a[m]
                          /\ AtRest(a, n) => AtRest(c, n)
                       \/ /\ c[n] = b[n] /\ \A m \in Deps[n] : c[m] = b[m]
                          /\ AtRest(b, n) => AtRest(c, n)
  BY <1>1, DepsTyped DEF AtRest
<1>3. Ordered(c)
  BY <1>2 DEF Coherent, Ordered
<1>4. SkippedWith(c)
  BY <1>2 DEF Coherent, Cascaded, SkippedWith
<1>5. \A n \in Nodes : c[n] \in {"FAILED", "READY"} => \A m \in Deps[n] : c[m] = "COMPLETED"
  BY <1>2 DEF Coherent, Cascaded
<1>6. \A n \in Nodes : c[n] = "BLOCKED" => AtRest(c, n) \/ \A m \in Deps[n] : c[m] = "COMPLETED"
  BY <1>2 DEF Coherent, Cascaded
<1> QED BY <1>3, <1>4, <1>5, <1>6 DEF Coherent, Cascaded

(* A resumption keeps the graph coherent: what ran waits again, or its     *)
(* outcome is unknown.                                                     *)
LEMMA RelabelCoherent ==
  ASSUME NEW k, NEW r, Coherent(k),
         \A n \in Nodes : \/ r[n] = k[n] /\ r[n] # "RUNNING"
                          \/ k[n] = "RUNNING" /\ r[n] \in {"PENDING", "OUTCOME_UNKNOWN"}
  PROVE  Coherent(r)
<1>1. \A n \in Nodes : r[n] = "COMPLETED" <=> k[n] = "COMPLETED"
  OBVIOUS
<1>2. \A n \in Nodes : r[n] \in {"FAILED", "SKIPPED", "READY", "BLOCKED"} \/
                       k[n] \in {"FAILED", "SKIPPED", "READY", "BLOCKED"} => r[n] = k[n]
  OBVIOUS
<1>3. \A n \in Nodes : AtRest(k, n) => AtRest(r, n)
  BY DEF AtRest
<1>4. Ordered(r)
  BY <1>1, DepsTyped DEF Coherent, Ordered
<1>5. SkippedWith(r)
  BY <1>2, DepsTyped DEF Coherent, Cascaded, SkippedWith
<1>6. \A n \in Nodes : r[n] \in {"FAILED", "READY"} => \A m \in Deps[n] : r[m] = "COMPLETED"
  BY <1>1, <1>2, DepsTyped DEF Coherent, Cascaded
<1>7. \A n \in Nodes : r[n] = "BLOCKED" => AtRest(r, n) \/ \A m \in Deps[n] : r[m] = "COMPLETED"
  BY <1>1, <1>2, <1>3, DepsTyped DEF Coherent, Cascaded
<1> QED BY <1>4, <1>5, <1>6, <1>7 DEF Coherent, Cascaded

(* So does what reconciliation concludes of one unknown outcome. *)
LEMMA ReconcileCoherent ==
  ASSUME NEW k, NEW r, NEW n \in Nodes, Coherent(k), k[n] = "OUTCOME_UNKNOWN",
         r[n] \in {"COMPLETED", "BLOCKED", "READY"}, \A m \in Nodes \ {n} : r[m] = k[m]
  PROVE  Coherent(r)
<1>1. \A m \in Nodes : k[m] = "COMPLETED" => r[m] = "COMPLETED"
  OBVIOUS
<1>2. \A m \in Deps[n] : r[m] = "COMPLETED"
  BY <1>1, DepsTyped DEF Coherent, Ordered
<1>3. \A m \in Nodes : r[m] \in {"FAILED", "SKIPPED"} \/ k[m] \in {"FAILED", "SKIPPED"} => r[m] = k[m]
  OBVIOUS
<1>4. \A m \in Nodes : AtRest(k, m) => AtRest(r, m)
  BY DEF AtRest
<1>5. Ordered(r)
  BY <1>1, <1>2, DepsTyped DEF Coherent, Ordered
<1>6. SkippedWith(r)
  BY <1>3, DepsTyped DEF Coherent, Cascaded, SkippedWith
<1>7. \A m \in Nodes : r[m] \in {"FAILED", "READY"} => \A l \in Deps[m] : r[l] = "COMPLETED"
  BY <1>1, <1>2, DepsTyped DEF Coherent, Cascaded
<1>8. \A m \in Nodes : r[m] = "BLOCKED" => AtRest(r, m) \/ \A l \in Deps[m] : r[l] = "COMPLETED"
  BY <1>1, <1>2, <1>4, DepsTyped DEF Coherent, Cascaded
<1> QED BY <1>5, <1>6, <1>7, <1>8 DEF Coherent, Cascaded

(* A save takes the graph as a whole or leaves it. *)
LEMMA SaveWhole ==
  ASSUME RecoveryTypeOK, NEW d \in Dags, NEW m \in [Dags -> MissionStatus],
         NEW ck \in Graphs, NEW sv \in SUBSET Dags, SaveRecord(d, m, ck, sv)
  PROVE  \E D \in SUBSET {d} : \A n \in Nodes :
            db'.checkpoint.status[n] = IF DagOf[n] \in D THEN ck.status[n] ELSE db.checkpoint.status[n]
<1>1. CASE UNCHANGED db
  <2> WITNESS {} \in SUBSET {d}
  <2> QED BY <1>1
<1>2. CASE ~UNCHANGED db
  <2> DEFINE G == [n \in Nodes |-> IF DagOf[n] = d /\ d \in sv THEN ck.status[n]
                                   ELSE db.checkpoint.status[n]]
             D == IF d \in sv THEN {d} ELSE {}
  <2>1. db'.checkpoint.status = G
    BY <1>2 DEF SaveRecord
  <2>2. \A n \in Nodes : G[n] = IF DagOf[n] \in D THEN ck.status[n] ELSE db.checkpoint.status[n]
    OBVIOUS
  <2> QED BY <2>1, <2>2
<1> QED BY <1>1, <1>2

(* So the database stays coherent if the memory is. *)
LEMMA SaveCoherent ==
  ASSUME RecoveryTypeOK, NEW d \in Dags, NEW m \in [Dags -> MissionStatus],
         NEW ck \in Graphs, NEW sv \in SUBSET Dags, SaveRecord(d, m, ck, sv),
         Coherent(ck.status), Coherent(db.checkpoint.status)
  PROVE  Coherent(db'.checkpoint.status)
<1> DEFINE a == ck.status
           b == db.checkpoint.status
           c == db'.checkpoint.status
           Mixed(x, y, z) == \E D \in SUBSET {d} : \A n \in Nodes :
                                z[n] = IF DagOf[n] \in D THEN x[n] ELSE y[n]
<1>1. Mixed(a, b, c)
  BY SaveWhole
<1> HIDE DEF a, b, c
<1>2. Coherent(a) /\ Coherent(b)
  BY DEF a, b
<1>3. \A x, y, z : Coherent(x) /\ Coherent(y) /\ Mixed(x, y, z) => Coherent(z)
  BY CoherentByGraph
<1>4. Coherent(c)
  <2> HIDE DEF Mixed
  <2> QED BY <1>1, <1>2, <1>3
<1> QED BY <1>4 DEF c

(* One pass of the loop: a node is left as it is or, if it was running     *)
(* before a cancellation, pending; or the whole graph is blocked.          *)
LEMMA PassCascaded ==
  ASSUME ResumableInv, NEW d \in Dags, NEW st \in [Nodes -> Status], LoopPass(d, st),
         \A n \in Nodes : \/ st[n] = status[n] /\ (DagOf[n] = d => st[n] # "RUNNING")
                          \/ DagOf[n] = d /\ status[n] = "RUNNING" /\ st[n] = "PENDING"
  PROVE  Cascaded(status')
<1>1. \/ \A n \in Nodes : status'[n] = st[n]
      \/ \A n \in Nodes : status'[n] = IF DagOf[n] = d /\ st[n] = "PENDING" THEN "BLOCKED" ELSE st[n]
  BY DEF LoopPass, Finish, Block, LaunchWave
<1> DEFINE s == status
           t == status'
<1>2. /\ Cascaded(s)
      /\ \A n \in Nodes : \/ t[n] = s[n]
                          \/ s[n] \in {"PENDING", "RUNNING"} /\ t[n] \in {"PENDING", "BLOCKED"}
      /\ \A n \in Nodes : \/ t[n] = "BLOCKED" /\ s[n] # "BLOCKED" => AtRest(t, n)
  <2>1. \A n \in Nodes : t[n] = "BLOCKED" /\ s[n] # "BLOCKED" => AtRest(t, n)
    <3>1. CASE \A n \in Nodes : status'[n] = st[n]
      BY <3>1
    <3>2. CASE \A n \in Nodes :
                  status'[n] = IF DagOf[n] = d /\ st[n] = "PENDING" THEN "BLOCKED" ELSE st[n]
      BY <3>2 DEF AtRest
    <3> QED BY <1>1, <3>1, <3>2
  <2>2. \A n \in Nodes : \/ t[n] = s[n]
                         \/ s[n] \in {"PENDING", "RUNNING"} /\ t[n] \in {"PENDING", "BLOCKED"}
    BY <1>1
  <2>3. Cascaded(s)
    BY DEF ResumableInv, Coherent
  <2> QED BY <2>1, <2>2, <2>3
<1> HIDE DEF s, t
<1>3. \A n \in Nodes : s[n] = "COMPLETED" => t[n] = "COMPLETED"
  BY <1>2
<1>4. \A n \in Nodes : s[n] \in {"FAILED", "SKIPPED", "READY"} \/ t[n] \in {"FAILED", "SKIPPED", "READY"}
                          => t[n] = s[n]
  BY <1>2
<1>5. \A n \in Nodes : AtRest(s, n) => AtRest(t, n)
  BY <1>2 DEF AtRest
<1>6. SkippedWith(t)
  BY <1>2, <1>4, DepsTyped DEF Cascaded, SkippedWith
<1>7. \A n \in Nodes : t[n] \in {"FAILED", "READY"} => \A m \in Deps[n] : t[m] = "COMPLETED"
  BY <1>2, <1>3, <1>4, DepsTyped DEF Cascaded
<1>8. \A n \in Nodes : t[n] = "BLOCKED" => AtRest(t, n) \/ \A m \in Deps[n] : t[m] = "COMPLETED"
  BY <1>2, <1>3, <1>5, DepsTyped DEF Cascaded
<1> QED BY <1>6, <1>7, <1>8 DEF Cascaded, t

(* A node that starts, ends or is to be tried again had its dependencies,  *)
(* and no blocked node of its graph relied on the graph being at a stop.   *)
LEMMA NodeCascaded ==
  ASSUME ResumableInv, up, NEW n \in Nodes,
         StartNode(n) \/ NoHandler(n) \/ HandlerReturns(n) \/ HandlerRetries(n)
  PROVE  Cascaded(status')
<1> DEFINE s == status
           t == status'
<1>1. /\ s[n] \in {"PENDING", "RUNNING"} /\ \A m \in Nodes \ {n} : t[m] = s[m]
      /\ t[n] \in {"PENDING", "RUNNING", "COMPLETED", "FAILED"}
      /\ t[n] = "FAILED" => n \notin Handled
      /\ \A k \in Deps[n] : s[k] = "COMPLETED"
      /\ Cascaded(s)
  BY DEF StartNode, NoHandler, HandlerReturns, HandlerRetries, ResumableInv, Coroutines,
         DependencyOrder, RecoveryTypeOK, TypeOK, Coherent
<1> HIDE DEF s, t
<1>2. \A m \in Nodes : s[m] = "COMPLETED" => t[m] = "COMPLETED"
  BY <1>1
<1>3. \A m \in Nodes : AtRest(s, m) => AtRest(t, m)
  BY <1>1 DEF AtRest
<1>4. SkippedWith(t)
  BY <1>1, DepsTyped DEF Cascaded, SkippedWith
<1>5. \A m \in Nodes : t[m] \in {"FAILED", "READY"} => \A k \in Deps[m] : t[k] = "COMPLETED"
  BY <1>1, <1>2, DepsTyped DEF Cascaded
<1>6. \A m \in Nodes : t[m] = "BLOCKED" => AtRest(t, m) \/ \A k \in Deps[m] : t[k] = "COMPLETED"
  BY <1>1, <1>2, <1>3, DepsTyped DEF Cascaded
<1> QED BY <1>4, <1>5, <1>6 DEF Cascaded, t

(* The cascade of a node that fails for good finds whoever waits for it,   *)
(* in a graph that was resumed as well.                                    *)
LEMMA FailureCascaded ==
  ASSUME ResumableInv, up, NEW n \in Nodes, HandlerFails(n)
  PROVE  Cascaded(status')
<1> DEFINE failed == [status EXCEPT ![n] = "FAILED"]
           D == Downstream(failed, n)
           s == status
           t == status'
<1>1. /\ s[n] = "RUNNING" /\ s \in [Nodes -> Status] /\ Cascaded(s) /\ Ordered(s)
  BY DEF HandlerFails, ResumableInv, Coroutines, RecoveryTypeOK, TypeOK, Coherent
<1>2. /\ failed[n] = "FAILED"
      /\ \A m \in Nodes : m # n => failed[m] = s[m]
  BY <1>1
<1>3. t = [m \in Nodes |-> IF m \in D THEN "SKIPPED" ELSE failed[m]]
  BY DEF HandlerFails
<1>4. \A m \in D : m \in Nodes /\ failed[m] = "PENDING" /\ DagOf[m] = DagOf[n]
  BY DownstreamClosed, DownstreamLocal DEF Pending
<1>5. \A m \in Nodes : failed[m] = "PENDING" /\ (n \in Deps[m] \/ \E k \in D : k \in Deps[m]) => m \in D
  BY DownstreamClosed DEF ClosedDownstream, Pending
<1>6. \A m \in D : n \in Deps[m] \/ \E k \in D : k \in Deps[m]
  BY DownstreamCaused
<1> HIDE DEF failed, D, s, t
<1>7. /\ n \notin D /\ t[n] = "FAILED"
      /\ \A m \in D : m # n /\ s[m] = "PENDING" /\ t[m] = "SKIPPED"
      /\ \A m \in Nodes \ (D \cup {n}) : t[m] = s[m]
  BY <1>2, <1>3, <1>4
<1>8. /\ \A k \in Nodes : s[k] = "COMPLETED" => t[k] = "COMPLETED"
      /\ \A m \in Nodes : AtRest(s, m) => AtRest(t, m)
  BY <1>1, <1>7 DEF AtRest
<1>9. \A k \in Deps[n] : k \in Nodes /\ s[k] = "COMPLETED"
  BY <1>1, DepsTyped DEF Ordered
<1>10. ASSUME NEW m \in Nodes, t[m] = "SKIPPED"
       PROVE  \E k \in Deps[m] : t[k] \in {"FAILED", "SKIPPED"}
  <2>1. CASE m \in D
    BY <1>6, <1>7, <2>1
  <2>2. CASE m \notin D
    <3>1. PICK k \in Deps[m] : s[k] \in {"FAILED", "SKIPPED"}
      BY <1>1, <1>7, <1>10, <2>2 DEF Cascaded, SkippedWith
    <3> QED BY <1>1, <1>7, <3>1, DepsTyped
  <2> QED BY <2>1, <2>2
<1>11. ASSUME NEW m \in Nodes, NEW k \in Deps[m],
              t[k] = "SKIPPED" \/ (t[k] = "FAILED" /\ k \in Handled)
       PROVE  t[m] = "SKIPPED"
  <2>1. CASE k \in D \/ k = n
    <3>1. s[k] # "COMPLETED" /\ DagOf[m] = DagOf[n]
      BY <1>1, <1>4, <1>7, <2>1, DepsTyped
    <3>2. s[m] \notin {"RUNNING", "COMPLETED", "OUTCOME_UNKNOWN", "FAILED", "READY"}
      BY <1>1, <3>1 DEF Ordered, Cascaded
    <3>3. s[m] # "BLOCKED"
      BY <1>1, <3>1 DEF Cascaded, AtRest
    <3>4. s[m] \in {"PENDING", "SKIPPED"} /\ m # n
      BY <1>1, <3>2, <3>3 DEF Status
    <3> QED BY <1>2, <1>5, <1>7, <2>1, <3>4
  <2>2. CASE k \notin D \cup {n}
    <3>1. t[k] = s[k]
      BY <1>7, <2>2, DepsTyped
    <3>2. s[m] = "SKIPPED"
      BY <1>1, <1>11, <3>1 DEF Cascaded, SkippedWith
    <3> QED BY <1>1, <1>7, <3>2
  <2> QED BY <2>1, <2>2
<1>12. \A m \in Nodes : t[m] \in {"FAILED", "READY"} => \A k \in Deps[m] : t[k] = "COMPLETED"
  BY <1>1, <1>7, <1>8, <1>9, DepsTyped DEF Cascaded
<1>13. \A m \in Nodes : t[m] = "BLOCKED" => AtRest(t, m) \/ \A k \in Deps[m] : t[k] = "COMPLETED"
  BY <1>1, <1>7, <1>8, DepsTyped DEF Cascaded
<1>14. SkippedWith(t)
  BY <1>10, <1>11 DEF SkippedWith
<1> QED BY <1>12, <1>13, <1>14 DEF Cascaded, t

(* The engine keeps what it runs coherent, in a live process. *)
LEMMA EngineCoherent ==
  ASSUME ResumableInv,
         (\E d \in Dags : RBegin(d) \/ REndWave(d)) \/ (\E n \in Nodes : RNodeStep(n))
  PROVE  up' /\ Coroutines' /\ DependencyOrder' /\ Coherent(status')
<1>1. up /\ up' = up /\ OrderInv /\ status \in [Nodes -> Status]
  BY DEF RBegin, REndWave, RNodeStep, registryVars, ResumableInv, OrderInv, RecoveryTypeOK, TypeOK
<1>2. Next \/ (UNCHANGED <<status, task, phase>> /\ \E n \in Nodes : RNodeStep(n))
  BY DEF RBegin, REndWave, RNodeStep, Next, NodeStep, HandlerRepairs
<1>3. Coroutines' /\ DependencyOrder'
  <2>1. CASE Next
    BY <1>1, <2>1, OrderStep DEF OrderInv
  <2>2. CASE UNCHANGED <<status, task, phase>>
    BY <1>1, <2>2 DEF OrderInv, Coroutines, DependencyOrder
  <2> QED BY <1>2, <2>1, <2>2
<1>4. \A n \in Nodes : \/ status'[n] = status[n]
                       \/ /\ status[n] \in {"PENDING", "RUNNING", "SKIPPED"}
                          /\ status'[n] # "OUTCOME_UNKNOWN"
  BY EngineEffect DEF ResumableInv
<1>5. Ordered(status')
  BY <1>3, <1>4, DepsTyped DEF Coherent, Ordered, DependencyOrder, ResumableInv
<1>6. Cascaded(status')
  <2>1. ASSUME NEW d \in Dags, RBegin(d) PROVE Cascaded(status')
    <3>1. LoopPass(d, ResetRunning(d)) /\ ResetRunning(d) \in [Nodes -> Status]
      BY <1>1, <2>1, ResetType DEF RBegin, Begin, OrderInv
    <3>2. \A n \in Nodes :
             \/ ResetRunning(d)[n] = status[n] /\ (DagOf[n] = d => ResetRunning(d)[n] # "RUNNING")
             \/ DagOf[n] = d /\ status[n] = "RUNNING" /\ ResetRunning(d)[n] = "PENDING"
      BY DEF ResetRunning
    <3> QED BY <3>1, <3>2, PassCascaded
  <2>2. ASSUME NEW d \in Dags, REndWave(d) PROVE Cascaded(status')
    <3>1. LoopPass(d, status)
      BY <2>2 DEF REndWave, EndWave
    <3>2. \A n \in Nodes : DagOf[n] = d => status[n] # "RUNNING"
      BY <1>1, <2>2 DEF REndWave, EndWave, WaveDone, NodesOf, OrderInv, Coroutines
    <3> QED BY <1>1, <3>1, <3>2, PassCascaded
  <2>3. ASSUME NEW n \in Nodes, RNodeStep(n) PROVE Cascaded(status')
    <3>1. CASE HandlerRepairs(n)
      BY <3>1 DEF HandlerRepairs, ResumableInv, Coherent
    <3>2. CASE ~HandlerRepairs(n)
      BY <1>1, <2>3, <3>2, NodeCascaded, FailureCascaded DEF RNodeStep
    <3> QED BY <3>1, <3>2
  <2> QED BY <2>1, <2>2, <2>3
<1> QED BY <1>1, <1>3, <1>5, <1>6 DEF Coherent

(* What a checkpoint takes of a coherent graph is coherent, and a graph.   *)
LEMMA CheckpointCoherent ==
  ASSUME ResumableInv, NEW d \in Dags
  PROVE  Snapshot(d) \in Graphs /\ Coherent(Snapshot(d).status)
<1> DEFINE a == status
           b == checkpoint.status
           c == Snapshot(d).status
<1>1. Snapshot(d) \in Graphs /\ \A n \in Nodes : c[n] = IF DagOf[n] \in {d} THEN a[n] ELSE b[n]
  BY SnapshotType DEF ResumableInv, RecoveryTypeOK
<1>2. Coherent(a) /\ Coherent(b)
  BY DEF ResumableInv
<1> HIDE DEF a, b, c
<1>3. Coherent(c)
  BY <1>1, <1>2, CoherentByGraph
<1> QED BY <1>1, <1>3 DEF c

(* Every step keeps the order and the cascade.  A resumption takes the     *)
(* saved graph whole, and a node whose unknown outcome is reconciled had   *)
(* its dependencies.                                                       *)
LEMMA ResumableStep == ResumableInv /\ [RNext]_vars => ResumableInv'
<1> SUFFICES ASSUME ResumableInv, [RNext]_vars PROVE ResumableInv'
  OBVIOUS
<1> USE EngineAssumption
<1>0. /\ TypeOK /\ RecoveryTypeOK /\ Alive /\ RecoveryTypeOK' /\ Alive' /\ checkpoint \in Graphs
      /\ saved \in SUBSET Dags /\ mission \in [Dags -> MissionStatus]
      /\ DependencyOrder /\ Coherent(status) /\ Coherent(checkpoint.status) /\ Coherent(db.checkpoint.status)
  BY RecoveryTypeStep, AliveStep DEF ResumableInv, RecoveryTypeOK, TypeOK, Graphs
<1>1. checkpoint' \in Graphs /\ saved' \in SUBSET Dags /\ mission' \in [Dags -> MissionStatus]
  BY <1>0 DEF RecoveryTypeOK, TypeOK, Graphs
<1>2. ASSUME (\E d \in Dags : RBegin(d)) \/ (\E n \in Nodes : RNodeStep(n)) PROVE ResumableInv'
  <2>1. UNCHANGED <<checkpoint, db>>
    BY <1>2 DEF RBegin, Begin, RNodeStep, registryVars, StartNode, NoHandler, HandlerReturns,
                HandlerRetries, HandlerFails, HandlerRepairs
  <2> QED BY <1>0, <1>2, <2>1, EngineCoherent DEF ResumableInv
<1>3. ASSUME NEW d \in Dags, REndWave(d) PROVE ResumableInv'
  <2>1. SaveRecord(d, mission, checkpoint', saved') /\ checkpoint' = Snapshot(d)
    BY <1>3 DEF REndWave, EndWave
  <2>2. Coherent(checkpoint'.status)
    BY <2>1, CheckpointCoherent
  <2>3. Coherent(db'.checkpoint.status)
    BY <1>0, <1>1, <2>1, <2>2, SaveCoherent
  <2> QED BY <1>0, <1>3, <2>2, <2>3, EngineCoherent DEF ResumableInv
<1>4. ASSUME NEW d \in Dags, CheckpointNow(d) PROVE ResumableInv'
  <2>1. /\ SaveRecord(d, mission, checkpoint', saved') /\ checkpoint' = Snapshot(d)
        /\ UNCHANGED <<status, task, phase, up>>
    BY <1>4 DEF CheckpointNow
  <2>2. Coherent(checkpoint'.status)
    BY <2>1, CheckpointCoherent
  <2>3. Coherent(db'.checkpoint.status)
    BY <1>0, <1>1, <2>1, <2>2, SaveCoherent
  <2> QED BY <1>0, <2>1, <2>2, <2>3 DEF ResumableInv, Coroutines, DependencyOrder
<1>5. ASSUME NEW d \in Dags, SetStatus(d, "PAUSED") \/ SetStatus(d, "RUNNING") PROVE ResumableInv'
  <2>1. SaveRecord(d, mission', checkpoint, saved) /\ UNCHANGED <<status, task, phase, up, checkpoint>>
    BY <1>5 DEF SetStatus, engineVars
  <2>2. Coherent(db'.checkpoint.status)
    BY <1>0, <1>1, <2>1, SaveCoherent
  <2> QED BY <1>0, <2>1, <2>2 DEF ResumableInv, Coroutines, DependencyOrder
<1>6. ASSUME NEW d \in Dags, CancelMission(d) PROVE ResumableInv'
  <2>1. /\ SaveRecord(d, mission', checkpoint, saved) /\ UNCHANGED <<status, checkpoint, up>> /\ up
        /\ \/ UNCHANGED <<phase, task>>
           \/ /\ phase' = [phase EXCEPT ![d] = "cancelled"]
              /\ task' = [n \in Nodes |-> IF DagOf[n] = d THEN "none" ELSE task[n]]
    BY <1>6 DEF CancelMission
  <2>2. Coherent(db'.checkpoint.status)
    BY <1>0, <1>1, <2>1, SaveCoherent
  <2>3. Coroutines' /\ DependencyOrder'
    <3>1. CASE UNCHANGED <<phase, task>>
      BY <1>0, <2>1, <3>1 DEF ResumableInv, Coroutines, DependencyOrder
    <3>2. CASE ~UNCHANGED <<phase, task>>
      BY <1>0, <2>1, <3>2 DEF ResumableInv, Coroutines, DependencyOrder, TypeOK
    <3> QED BY <3>1, <3>2
  <2> QED BY <1>0, <2>1, <2>2, <2>3 DEF ResumableInv
<1>7. ASSUME NEW d \in Dags, ResumeGraph(d) PROVE ResumableInv'
  <2> DEFINE r == [n \in Nodes |-> ResumedStatus(n)]
             s == status
             t == status'
  <2>1. /\ t = [n \in Nodes |-> IF DagOf[n] = d THEN ResumedStatus(n) ELSE status[n]]
        /\ UNCHANGED <<task, checkpoint, db, up>> /\ up /\ phase' = [phase EXCEPT ![d] = "idle"]
        /\ d \notin held \/ phase[d] = "cancelled"
    BY <1>7 DEF ResumeGraph
  <2>2. \A n \in Nodes : \/ r[n] = checkpoint.status[n] /\ r[n] # "RUNNING"
                         \/ checkpoint.status[n] = "RUNNING" /\ r[n] \in {"PENDING", "OUTCOME_UNKNOWN"}
    BY DEF ResumedStatus
  <2>3. Coherent(r)
    <3> DEFINE k == checkpoint.status
    <3>1. Coherent(k) /\ \A n \in Nodes : \/ r[n] = k[n] /\ r[n] # "RUNNING"
                                          \/ k[n] = "RUNNING" /\ r[n] \in {"PENDING", "OUTCOME_UNKNOWN"}
      BY <1>0, <2>2
    <3> HIDE DEF r, k
    <3> QED BY <3>1, RelabelCoherent
  <2>4. \A n \in Nodes : t[n] = IF DagOf[n] \in {d} THEN r[n] ELSE s[n]
    BY <2>1
  <2> HIDE DEF r
  <2>5. Coherent(t)
    <3>1. Coherent(s)
      BY <1>0
    <3> HIDE DEF s, t
    <3> QED BY <2>3, <2>4, <3>1, CoherentByGraph
  <2>6. \A n \in Nodes : DagOf[n] = d => task[n] = "none"
    BY <1>0, <2>1 DEF Alive
  <2>7. Coroutines'
    BY <1>0, <2>1, <2>2, <2>4, <2>6 DEF ResumableInv, Coroutines, TypeOK
  <2>8. DependencyOrder'
    <3>1. ASSUME NEW n \in Nodes, task'[n] # "none" PROVE \A m \in Deps[n] : status'[m] = "COMPLETED"
      BY <1>0, <2>1, <2>4, <2>6, <3>1, DepsTyped DEF DependencyOrder
    <3> QED BY <2>5, <3>1 DEF DependencyOrder, Coherent, Ordered
  <2> QED BY <1>0, <2>1, <2>5, <2>7, <2>8 DEF ResumableInv
<1>8. ASSUME NEW n \in Nodes, Reconcile(n) PROVE ResumableInv'
  <2>1. /\ UNCHANGED <<task, checkpoint, db, up, phase>> /\ up /\ status[n] = "OUTCOME_UNKNOWN"
        /\ \A m \in Nodes \ {n} : status'[m] = status[m]
        /\ status'[n] \in {"COMPLETED", "BLOCKED", "READY"}
    BY <1>0, <1>8 DEF Reconcile, Probed, TypeOK
  <2>2. \A m \in Nodes : status[m] = "COMPLETED" => status'[m] = "COMPLETED"
    BY <2>1
  <2>3. Coherent(status')
    BY <1>0, <2>1, ReconcileCoherent
  <2>4. DependencyOrder' /\ Coroutines'
    BY <1>0, <2>1, <2>2, <2>3, DepsTyped DEF ResumableInv, Coherent, Ordered, DependencyOrder, Coroutines
  <2> QED BY <1>0, <2>1, <2>3, <2>4 DEF ResumableInv
<1>9. CASE Crash
  <2>1. UNCHANGED <<status, checkpoint, db>> /\ ~up' /\ \A n \in Nodes : task'[n] = "none"
    BY <1>9 DEF Crash
  <2> QED BY <1>0, <2>1 DEF ResumableInv, DependencyOrder
<1>10. CASE Restart
  <2>1. /\ up' /\ UNCHANGED <<task, db>> /\ checkpoint' = db.checkpoint
        /\ \A n \in Nodes : status'[n] = "PENDING" /\ task[n] = "none"
    BY <1>10 DEF Restart, ResumableInv
  <2>2. DependencyOrder' /\ Coroutines'
    BY <1>0, <2>1 DEF DependencyOrder, Coroutines
  <2>3. Coherent(status')
    BY <2>1, DepsTyped DEF Coherent, Ordered, Cascaded, SkippedWith
  <2>4. Coherent(checkpoint'.status) /\ Coherent(db'.checkpoint.status)
    BY <1>0, <2>1
  <2> QED BY <1>0, <2>1, <2>2, <2>3, <2>4 DEF ResumableInv
<1>11. CASE (\E d \in Dags : Conclude(d)) \/ UNCHANGED vars
  <2>1. UNCHANGED <<status, task, phase, up, checkpoint, db>>
    BY <1>11 DEF Conclude, engineVars, vars, registryVars
  <2> QED BY <1>0, <2>1 DEF ResumableInv, DependencyOrder, Coroutines
<1> QED BY <1>2, <1>3, <1>4, <1>5, <1>6, <1>7, <1>8, <1>9, <1>10, <1>11 DEF RNext

LEMMA ResumableInvariant == RSpec => []ResumableInv
<1>1. RInit => ResumableInv
  <2>1. RInit => RecoveryTypeOK /\ Alive
    BY RecoveryAssumption DEF RInit, Init, RecoveryTypeOK, TypeOK, Graphs, Status, MissionStatus, Alive
  <2>2. RInit => up /\ Coroutines /\ DependencyOrder
    BY DEF RInit, Init, Coroutines, DependencyOrder
  <2>3. ASSUME RInit PROVE Coherent(status) /\ Coherent(checkpoint.status) /\ Coherent(db.checkpoint.status)
    <3>1. /\ \A n \in Nodes : status[n] = "PENDING"
          /\ checkpoint.status = status /\ db.checkpoint.status = status
      BY <2>3 DEF RInit, Init
    <3>2. Coherent(status)
      BY <3>1, DepsTyped DEF Coherent, Ordered, Cascaded, SkippedWith
    <3> QED BY <3>1, <3>2
  <2> QED BY <2>1, <2>2, <2>3 DEF ResumableInv
<1> QED BY <1>1, ResumableStep, PTL DEF RSpec

(* No node is launched, runs or is done before everything it depends on,   *)
(* in a graph that was resumed, and resumed again, after crashes, lost     *)
(* writes and reconciliations as in one that was never interrupted.        *)
THEOREM OrderSurvivesCrashes == RSpec => []DependencyOrder
<1>1. ResumableInv => DependencyOrder
  BY DEF ResumableInv
<1> QED BY <1>1, ResumableInvariant, PTL

(* Nor is a node ever skipped without a failure above it, or left to be    *)
(* run below one.                                                          *)
THEOREM SkipsSurviveCrashes == RSpec => []SkipsFollowFailures
<1>1. ResumableInv => SkipsFollowFailures
  BY DEF ResumableInv, Coherent, Cascaded, SkippedWith, SkipsFollowFailures
<1> QED BY <1>1, ResumableInvariant, PTL

-----------------------------------------------------------------------------
(* The success of a mission, over crashes. *)

(* A verdict that stands is borne out by the nodes.  A cancellation during *)
(* the synthesis and a resumption leave an old one behind, which the loop  *)
(* overwrites before the graph has ended again.                            *)
StandingVerdicts ==
  \A d \in Dags : verdict[d] = "COMPLETED" /\ phase[d] = "ended" =>
                    \A n \in NodesOf(d) : status[n] = "COMPLETED"

(* is_completed lets skipped nodes pass, and a coherent graph that passes  *)
(* has none: the first of them would depend on a failed node.              *)
LEMMA CompletedThroughout ==
  ASSUME NEW st, SkippedWith(st), NEW d \in Dags, IsCompleted(st, NodesOf(d))
  PROVE  \A n \in NodesOf(d) : st[n] = "COMPLETED"
<1> DEFINE S == {n \in NodesOf(d) : st[n] = "SKIPPED"}
<1>1. SUFFICES ASSUME S # {} PROVE FALSE
  BY DEF IsCompleted
<1>2. PICK n \in S : \A k \in Deps[n] : k \notin S
  BY <1>1, FirstNode DEF NodesOf
<1>3. \A k \in Deps[n] : k \in NodesOf(d)
  BY DepsTyped DEF NodesOf
<1> QED BY <1>2, <1>3 DEF NodesOf, IsCompleted, SkippedWith

(* The pass of the loop that ends a graph. *)
LEMMA PassVerdict ==
  ASSUME ResumableInv, StandingVerdicts, NEW d \in Dags, NEW st \in [Nodes -> Status], LoopPass(d, st),
         \A n \in Nodes : \/ st[n] = status[n]
                          \/ DagOf[n] = d /\ status[n] = "RUNNING" /\ st[n] = "PENDING"
  PROVE  StandingVerdicts'
<1>0. /\ phase \in [Dags -> {"idle", "gather", "ended", "cancelled"}] /\ SkippedWith(status)
      /\ verdict \in [Dags -> {"none", "COMPLETED", "FAILED"}]
  BY DEF ResumableInv, RecoveryTypeOK, TypeOK, Coherent, Cascaded
<1>1. ASSUME NEW e \in Dags \ {d}
      PROVE  /\ verdict'[e] = verdict[e] /\ phase'[e] = phase[e]
             /\ \A n \in NodesOf(e) : status'[n] = status[n]
  BY <1>0 DEF LoopPass, Finish, Block, LaunchWave, NodesOf
<1>2. ASSUME verdict'[d] = "COMPLETED", phase'[d] = "ended"
      PROVE  \A n \in NodesOf(d) : status'[n] = "COMPLETED"
  <2>1. status' = st /\ IsCompleted(st, NodesOf(d))
    BY <1>0, <1>2 DEF LoopPass, Finish, Block, LaunchWave
  <2>2. \A n \in NodesOf(d) : st[n] = status[n]
    BY <2>1 DEF IsCompleted, NodesOf
  <2>3. IsCompleted(status, NodesOf(d))
    BY <2>1, <2>2 DEF IsCompleted
  <2> QED BY <1>0, <2>1, <2>2, <2>3, CompletedThroughout
<1> QED BY <1>1, <1>2 DEF StandingVerdicts

LEMMA StandingStep == ResumableInv /\ StandingVerdicts /\ [RNext]_vars => StandingVerdicts'
<1> SUFFICES ASSUME ResumableInv, StandingVerdicts, [RNext]_vars PROVE StandingVerdicts'
  OBVIOUS
<1>0. TypeOK /\ Alive /\ status \in [Nodes -> Status]
  BY DEF ResumableInv, RecoveryTypeOK, TypeOK
<1>1. ASSUME NEW d \in Dags, RBegin(d) PROVE StandingVerdicts'
  <2>1. LoopPass(d, ResetRunning(d)) /\ ResetRunning(d) \in [Nodes -> Status]
    BY <1>0, <1>1, ResetType DEF RBegin, Begin
  <2>2. \A n \in Nodes : \/ ResetRunning(d)[n] = status[n]
                         \/ DagOf[n] = d /\ status[n] = "RUNNING" /\ ResetRunning(d)[n] = "PENDING"
    BY DEF ResetRunning
  <2> QED BY <2>1, <2>2, PassVerdict
<1>2. ASSUME NEW d \in Dags, REndWave(d) PROVE StandingVerdicts'
  BY <1>0, <1>2, PassVerdict DEF REndWave, EndWave
<1>3. ASSUME NEW n \in Nodes, RNodeStep(n) PROVE StandingVerdicts'
  <2>1. /\ UNCHANGED <<phase, verdict>> /\ task[n] # "none"
        /\ \/ StartNode(n) \/ NoHandler(n) \/ HandlerReturns(n) \/ HandlerRetries(n) \/ HandlerFails(n)
           \/ HandlerRepairs(n)
    BY <1>3 DEF RNodeStep, StartNode, NoHandler, HandlerReturns, HandlerRetries, HandlerFails, HandlerRepairs
  <2>2. phase[DagOf[n]] = "gather"
    BY <1>0, <2>1 DEF Alive
  <2>3. \A m \in Nodes : DagOf[m] # DagOf[n] => status'[m] = status[m]
    BY <1>0, <2>1, DownstreamLocal
       DEF StartNode, NoHandler, HandlerReturns, HandlerRetries, HandlerFails, HandlerRepairs
  <2> QED BY <2>1, <2>2, <2>3 DEF StandingVerdicts, NodesOf
<1>4. ASSUME NEW d \in Dags, CancelMission(d) PROVE StandingVerdicts'
  <2>1. /\ UNCHANGED <<status, verdict>>
        /\ phase' = phase \/ phase' = [phase EXCEPT ![d] = "cancelled"]
    BY <1>4 DEF CancelMission
  <2> QED BY <1>0, <2>1 DEF StandingVerdicts, TypeOK
<1>5. ASSUME NEW d \in Dags, ResumeGraph(d) PROVE StandingVerdicts'
  <2>1. /\ phase' = [phase EXCEPT ![d] = "idle"] /\ UNCHANGED verdict
        /\ \A n \in Nodes : DagOf[n] # d => status'[n] = status[n]
    BY <1>5 DEF ResumeGraph
  <2> QED BY <1>0, <2>1 DEF StandingVerdicts, NodesOf, TypeOK
<1>6. ASSUME NEW n \in Nodes, Reconcile(n) PROVE StandingVerdicts'
  <2>1. /\ UNCHANGED <<phase, verdict>> /\ phase[DagOf[n]] = "idle"
        /\ \A m \in Nodes \ {n} : status'[m] = status[m]
    BY <1>0, <1>6 DEF Reconcile
  <2> QED BY <2>1 DEF StandingVerdicts, NodesOf
<1>7. CASE Crash
  BY <1>7 DEF Crash, StandingVerdicts
<1>8. CASE Restart
  <2>1. ~up /\ UNCHANGED phase
    BY <1>8 DEF Restart
  <2> QED BY <1>0, <2>1 DEF Alive, StandingVerdicts
<1>9. CASE UNCHANGED <<status, phase, verdict>>
  BY <1>9 DEF StandingVerdicts
<1> QED BY <1>1, <1>2, <1>3, <1>4, <1>5, <1>6, <1>7, <1>8, <1>9
        DEF RNext, Conclude, SetStatus, CheckpointNow, engineVars, vars

(* A mission reported SUCCEEDED has had every node of its graph completed, *)
(* in this life of the process or in an earlier one.                       *)
THEOREM SuccessIsEarned == RSpec => SuccessMeansDone
<1> DEFINE A == \A d \in Dags : mission[d] # "SUCCEEDED" /\ mission'[d] = "SUCCEEDED" =>
                                  \A n \in NodesOf(d) : status[n] = "COMPLETED"
<1>1. RInit => CancelInv /\ StandingVerdicts
  BY DEF RInit, Init, CancelInv, StandingVerdicts
<1>2. ResumableInv /\ CancelInv /\ [RNext]_vars => CancelInv'
  BY CancelStep DEF ResumableInv
<1>3. ResumableInv /\ CancelInv /\ StandingVerdicts /\ [RNext]_vars => [A]_vars
  <2> SUFFICES ASSUME ResumableInv, CancelInv, StandingVerdicts, RNext, NEW d \in Dags,
                      mission[d] # "SUCCEEDED", mission'[d] = "SUCCEEDED"
               PROVE  \A n \in NodesOf(d) : status[n] = "COMPLETED"
    BY DEF vars
  <2>0. mission \in [Dags -> MissionStatus]
    BY DEF ResumableInv, RecoveryTypeOK
  <2>1. ASSUME NEW e \in Dags, Conclude(e) PROVE e = d /\ verdict[d] = "COMPLETED" /\ phase[d] = "ended"
    BY <2>0, <2>1 DEF Conclude
  <2>2. ASSUME NEW e \in Dags, CancelMission(e) \/ SetStatus(e, "PAUSED") \/ SetStatus(e, "RUNNING")
        PROVE  FALSE
    BY <2>0, <2>2 DEF CancelMission, SetStatus
  <2>3. CASE Restart
    BY <2>3 DEF Restart, CancelInv
  <2>4. CASE UNCHANGED mission
    BY <2>4
  <2> QED BY <2>1, <2>2, <2>3, <2>4 DEF StandingVerdicts, RNext, RBegin, REndWave, RNodeStep,
        CheckpointNow, ResumeGraph, Reconcile, Crash, registryVars
<1> QED BY <1>1, <1>2, <1>3, ResumableInvariant, StandingStep, PTL DEF RSpec, SuccessMeansDone
=============================================================================
