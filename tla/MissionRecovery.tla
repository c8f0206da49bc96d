--------------------------- MODULE MissionRecovery ---------------------------
(***************************************************************************)
(* A mission around its graph: the orchestrator (DagEngine) composed with  *)
(* MissionRegistry (core/agent/mission_controller.py), the master that     *)
(* closes the mission (core/ezzio_master.py), the operator's cancel, pause *)
(* and resume, crashes of the process, LongRunningMissionHarness           *)
(* .resume_mission and ReconciliationEngine.reconcile_node.                *)
(*                                                                         *)
(* A mission and its graph share one identifier (dag_id = "dag-" plus the  *)
(* mission's), so missions are indexed by Dags.                            *)
(***************************************************************************)
EXTENDS DagEngine

CONSTANTS
  External,        (* nodes with is_external                                    *)
  Background,      (* missions started in background, that own an asyncio task  *)
  MidWave,         (* TRUE: a caller also checkpoints while nodes are running   *)
  DbMayFail,       (* TRUE: a write of the registry may raise, and be swallowed *)
  Commands,        (* the statuses the operator's commands in play write        *)
  MaxCrashes,      (* bound on crashes of the process                           *)
  MaxRepairing     (* bound: a handler repairs in this many runs of its node    *)

ASSUME RecoveryAssumption ==
  /\ External \subseteq Nodes
  /\ Background \subseteq Dags
  /\ MidWave \in BOOLEAN /\ DbMayFail \in BOOLEAN
  /\ Commands \subseteq {"CANCELLED", "PAUSED", "RUNNING"}
  /\ MaxCrashes \in Nat /\ MaxRepairing \in Nat

VARIABLES
  up,           (* the process is running                                      *)
  held,         (* graphs that exist as TaskDAG objects in the process         *)
  mastered,     (* missions orchestrate_multi_agent_mission is still driving   *)
  mission,      (* record.status in memory                                     *)
  db,           (* the mission_records rows: status and dag_json               *)
  attempt,      (* repairs of the handler's run in progress, or of the last    *)
  applied,      (* history: external nodes with an effect on the outside world *)
  interrupted,  (* history: external nodes caught in their handler by a crash, *)
                (* and not reconciled since                                    *)
  caught,       (* history: those whose row in the database said RUNNING then  *)
  crashes

registryVars == <<up, held, mastered, mission, db, attempt, applied, interrupted, caught, crashes>>
vars == <<engineVars, registryVars>>

MissionStatus == {"RUNNING", "PAUSED", "CANCELLED", "SUCCEEDED", "FAILED"}

-----------------------------------------------------------------------------
(* register() stores the record before the graph exists: no dag_json yet. *)
RInit ==
  /\ Init
  /\ up = TRUE
  /\ held = Dags /\ mastered = Dags
  /\ mission = [d \in Dags |-> "RUNNING"]
  /\ db = [mission |-> mission, checkpoint |-> checkpoint, saved |-> {}]
  /\ attempt = [n \in Nodes |-> 0]
  /\ applied = {} /\ interrupted = {} /\ caught = {}
  /\ crashes = 0

(* _save_record_to_db of d's record, with the graph of the checkpoint map  *)
(* when there is one; an exception is swallowed and the row stays as it was. *)
SaveRecord(d, m, ck, sv) ==
  \/ db' = [mission |-> [db.mission EXCEPT ![d] = m[d]],
            saved   |-> IF d \in sv THEN db.saved \cup {d} ELSE db.saved,
            checkpoint |->
              [status  |-> [n \in Nodes |-> IF DagOf[n] = d /\ d \in sv THEN ck.status[n]
                                            ELSE db.checkpoint.status[n]],
               retries |-> [n \in Nodes |-> IF DagOf[n] = d /\ d \in sv THEN ck.retries[n]
                                            ELSE db.checkpoint.retries[n]]]]
  \/ DbMayFail /\ UNCHANGED db

EffectOf(n) == applied \cup ({n} \cap External)

(* An external call whose handler then raises may or may not have landed.  *)
MaybeEffectOf(n) == applied' \in {applied, EffectOf(n)}

(* The engine's own steps, in a live process and on a graph it holds. *)
RBegin(d) ==
  /\ up /\ d \in held
  /\ Begin(d)
  /\ UNCHANGED registryVars

REndWave(d) ==
  /\ up /\ EndWave(d)
  /\ SaveRecord(d, mission, checkpoint', saved')
  /\ UNCHANGED <<up, held, mastered, mission, attempt, applied, interrupted, caught, crashes>>

(* The self-correction loop inside dag_handler finds a failure it can      *)
(* repair: the next attempt writes its number to the counter that the      *)
(* engine charges its retries to.                                          *)
HandlerRepairs(n) ==
  /\ task[n] = "handling" /\ attempt[n] < MaxRetries
  /\ starts[n] <= MaxRepairing
  /\ attempt' = [attempt EXCEPT ![n] = @ + 1]
  /\ retries' = [retries EXCEPT ![n] = attempt[n] + 1]
  /\ UNCHANGED <<status, task, phase, verdict, checkpoint, saved, starts, reruns>>

RNodeStep(n) ==
  /\ up
  /\ \/ StartNode(n) /\ attempt' = [attempt EXCEPT ![n] = 0] /\ UNCHANGED applied
     \/ NoHandler(n) /\ UNCHANGED <<attempt, applied>>
     \/ HandlerReturns(n) /\ applied' = EffectOf(n) /\ UNCHANGED attempt
     \/ HandlerRepairs(n) /\ MaybeEffectOf(n)
     \/ (HandlerRetries(n) \/ HandlerFails(n)) /\ MaybeEffectOf(n) /\ UNCHANGED attempt
  /\ UNCHANGED <<up, held, mastered, mission, db, interrupted, caught, crashes>>

(* The master closes the mission, in memory only, whatever its status.     *)
Conclude(d) ==
  /\ up /\ d \in mastered /\ phase[d] = "ended"
  /\ mission' = [mission EXCEPT ![d] = IF verdict[d] = "COMPLETED" THEN "SUCCEEDED" ELSE "FAILED"]
  /\ mastered' = mastered \ {d}
  /\ UNCHANGED <<engineVars, up, held, db, attempt, applied, interrupted, caught, crashes>>

(* Seeded fault: the record's asyncio task is never found. *)
OwnsNoTask(d) == FALSE

OwnsTask(d) == d \in Background /\ d \in mastered

(* MissionRegistry.cancel: the record, then the asyncio task if there is   *)
(* one and it is not done.  A foreground mission has none.                 *)
CancelMission(d) ==
  /\ up /\ "CANCELLED" \in Commands /\ mission[d] # "CANCELLED"
  /\ mission' = [mission EXCEPT ![d] = "CANCELLED"]
  /\ SaveRecord(d, mission', checkpoint, saved)
  /\ IF OwnsTask(d)
     THEN /\ phase' = [phase EXCEPT ![d] = "cancelled"]
          /\ task' = [n \in Nodes |-> IF DagOf[n] = d THEN "none" ELSE task[n]]
          /\ mastered' = mastered \ {d}
     ELSE UNCHANGED <<phase, task, mastered>>
  /\ UNCHANGED <<status, retries, verdict, checkpoint, saved, starts, reruns,
                 up, held, attempt, applied, interrupted, caught, crashes>>

(* MissionRegistry.pause and .resume write the status and nothing else.    *)
SetStatus(d, to) ==
  /\ up /\ to \in Commands /\ mission[d] # to
  /\ mission' = [mission EXCEPT ![d] = to]
  /\ SaveRecord(d, mission', checkpoint, saved)
  /\ UNCHANGED <<engineVars, up, held, mastered, attempt, applied, interrupted, caught, crashes>>

(* A caller of checkpoint_dag outside the engine, as the recovery tests do: *)
(* nodes may be RUNNING in what it saves.                                   *)
CheckpointNow(d) ==
  /\ MidWave /\ up /\ d \in held /\ phase[d] = "gather"
  /\ checkpoint' = Snapshot(d)
  /\ saved' = saved \cup {d}
  /\ SaveRecord(d, mission, checkpoint', saved')
  /\ UNCHANGED <<status, retries, task, phase, verdict, starts, reruns,
                 up, held, mastered, mission, attempt, applied, interrupted, caught, crashes>>

(* The process dies: memory is gone; an external call in flight may have   *)
(* landed.                                                                 *)
Crash ==
  /\ up /\ crashes < MaxCrashes
  /\ crashes' = crashes + 1
  /\ up' = FALSE /\ held' = {} /\ mastered' = {}
  /\ \E landed \in SUBSET (InHandler \cap External) : applied' = applied \cup landed
  /\ interrupted' = interrupted \cup (InHandler \cap External)
  /\ caught' = caught \cup {n \in InHandler \cap External :
                              DagOf[n] \in db.saved /\ db.checkpoint.status[n] = "RUNNING"}
  /\ task' = [n \in Nodes |-> "none"]
  /\ phase' = [d \in Dags |-> "idle"]
  /\ verdict' = [d \in Dags |-> "none"]
  /\ UNCHANGED <<status, retries, checkpoint, saved, starts, reruns, mission, db, attempt>>

(* A new MissionRegistry loads every row (_load_from_db). *)
Restart ==
  /\ ~up /\ up' = TRUE
  /\ mission' = db.mission
  /\ checkpoint' = db.checkpoint
  /\ saved' = db.saved
  /\ status' = [n \in Nodes |-> "PENDING"]
  /\ retries' = [n \in Nodes |-> 0]
  /\ UNCHANGED <<task, phase, verdict, starts, reruns, held, mastered, db, attempt, applied,
                 interrupted, caught, crashes>>

(* Seeded fault: the graph restarts from its first wave. *)
ResumeFromScratch(n) == "PENDING"

(* Seeded fault: an external node is treated as any other. *)
ResumeBlindly(n) == IF checkpoint.status[n] # "RUNNING" THEN checkpoint.status[n] ELSE "PENDING"

(* What resume_mission makes of a node of the checkpoint. *)
ResumedStatus(n) ==
  IF checkpoint.status[n] # "RUNNING" THEN checkpoint.status[n]
  ELSE IF n \in External THEN "OUTCOME_UNKNOWN" ELSE "PENDING"

(* LongRunningMissionHarness.resume_mission, after a restart or after a    *)
(* cancellation: a new graph, from the registry's checkpoint.              *)
ResumeGraph(d) ==
  /\ up /\ d \in saved
  /\ d \notin held \/ phase[d] = "cancelled"
  /\ status' = [n \in Nodes |-> IF DagOf[n] = d THEN ResumedStatus(n) ELSE status[n]]
  /\ retries' = [n \in Nodes |-> IF DagOf[n] = d THEN checkpoint.retries[n] ELSE retries[n]]
  /\ phase' = [phase EXCEPT ![d] = "idle"]
  /\ held' = held \cup {d}
  /\ UNCHANGED <<task, verdict, checkpoint, saved, starts, reruns,
                 up, mastered, mission, db, attempt, applied, interrupted, caught, crashes>>

(* What a truthful probe, or none, lets reconcile_node conclude. *)
Probed(n) == IF n \in applied THEN {"COMPLETED", "BLOCKED"} ELSE {"READY", "BLOCKED"}

(* ReconciliationEngine.reconcile_node, before the graph is executed again. *)
Reconcile(n) ==
  /\ up /\ DagOf[n] \in held /\ phase[DagOf[n]] = "idle"
  /\ status[n] = "OUTCOME_UNKNOWN"
  /\ \E to \in Probed(n) : status' = [status EXCEPT ![n] = to]
  /\ interrupted' = interrupted \ {n} /\ caught' = caught \ {n}
  /\ UNCHANGED <<retries, task, phase, verdict, checkpoint, saved, starts, reruns,
                 up, held, mastered, mission, db, attempt, applied, crashes>>

RNext ==
  \/ \E d \in Dags :
       \/ RBegin(d) \/ REndWave(d) \/ Conclude(d) \/ CancelMission(d)
       \/ SetStatus(d, "PAUSED") \/ SetStatus(d, "RUNNING")
       \/ CheckpointNow(d) \/ ResumeGraph(d)
  \/ \E n \in Nodes : RNodeStep(n) \/ Reconcile(n)
  \/ Crash \/ Restart

RSpec == RInit /\ [][RNext]_vars

-----------------------------------------------------------------------------
(* A graph as checkpoint_dag records it (TaskDAG.to_dict). *)
Graphs == [status : [Nodes -> Status], retries : [Nodes -> Nat]]

(* Types of a mission around its graph: the registry's records, in memory  *)
(* and in the database, and the history of external effects.               *)
RecoveryTypeOK ==
  /\ TypeOK
  /\ up \in BOOLEAN
  /\ held \subseteq Dags /\ mastered \subseteq Dags
  /\ mission \in [Dags -> MissionStatus]
  /\ db \in [mission : [Dags -> MissionStatus], checkpoint : Graphs, saved : SUBSET Dags]
  /\ attempt \in [Nodes -> Nat]
  /\ applied \subseteq External /\ interrupted \subseteq External /\ caught \subseteq External
  /\ crashes \in 0 .. MaxCrashes

(* Completed work that reached the database is never done again, whatever  *)
(* crashes, lost writes, cancellations and resumptions follow.             *)
DurableWorkKept ==
  [][\A n \in Nodes : (DagOf[n] \in db.saved /\ db.checkpoint.status[n] = "COMPLETED") =>
        starts'[n] = starts[n]]_vars

(* An external node that a crash caught in its handler, after a checkpoint *)
(* that found it RUNNING had reached the database, is not dispatched again *)
(* before it is reconciled, whatever later writes are lost and however     *)
(* many crashes follow.  (A caller other than the engine took that         *)
(* checkpoint: see NoBlindReplay.)                                         *)
CaughtIsReconciled == \A n \in caught : task[n] = "none"

(* A background mission that was cancelled is never reported as finished:  *)
(* its coroutine dies with the cancellation, even during the synthesis.    *)
CancelSticks ==
  [][\A d \in Background :
        mission[d] = "CANCELLED" => mission'[d] \notin {"SUCCEEDED", "FAILED"}]_vars

(* A node recorded COMPLETED in the database stays so: no later save, of a *)
(* resumed graph, a pause or a cancellation, puts an older graph over it.  *)
DurableProgress ==
  [][\A n \in Nodes : db.checkpoint.status[n] = "COMPLETED" =>
                      db'.checkpoint.status[n] = "COMPLETED"]_vars

(* A mission is reported SUCCEEDED only when every node of its graph is    *)
(* COMPLETED, in whichever life of the process, resumed or reconciled, the *)
(* nodes were completed: none is skipped, blocked or left READY.           *)
SuccessMeansDone ==
  [][\A d \in Dags : mission[d] # "SUCCEEDED" /\ mission'[d] = "SUCCEEDED" =>
                       \A n \in NodesOf(d) : status[n] = "COMPLETED"]_vars

-----------------------------------------------------------------------------
(* What the repository says, and the code does not do.                     *)

(* long_running_harness.py:182, "RUNNING sur noeud externe sans completion *)
(* -> OUTCOME_UNKNOWN (reconciliation requise)": an external node caught   *)
(* in its handler by a crash is reconciled before it is run again.         *)
NoBlindReplay == \A n \in interrupted : task[n] # "handling"

=============================================================================
