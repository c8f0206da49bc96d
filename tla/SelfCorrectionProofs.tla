------------------------ MODULE SelfCorrectionProofs ------------------------
(* The work a node costs between two relapses is bounded, for every number *)
(* of retries; with the default of two, nothing bounds the relapses (see   *)
(* EveryNodeSettles).                                                      *)
EXTENDS SelfCorrection, TLAPS

(* A node that may still run has a retry left, and each of its runs an     *)
(* attempt.                                                                *)
RetryInv ==
  \A n \in Nodes : status[n] \in {"PENDING", "RUNNING"} => retries[n] <= MaxRetries

(* The two loops keep node.retry_count within one of their bound, for any  *)
(* bound, although both write it.                                          *)
THEOREM TypeCorrect == Spec => []TypeOK
<1> DEFINE TInv == TypeOK /\ RetryInv
<1> USE CorrectionAssumption DEF TypeOK, RetryInv
<1>1. Init => TInv
  BY DEF Init
<1>2. ASSUME TInv, [Next]_vars PROVE TInv'
  <2>1. ASSUME NEW n \in Nodes, Launch(n) PROVE TInv'
    BY <1>2, <2>1 DEF Launch, Executed
  <2>2. ASSUME NEW n \in Nodes, Validated(n) PROVE TInv'
    BY <1>2, <2>2 DEF Validated
  <2>3. ASSUME NEW n \in Nodes, Repair(n) PROVE TInv'
    BY <1>2, <2>3 DEF Repair, RepairLeft, PlanAttempt, Executed
  <2>4. ASSUME NEW n \in Nodes, GiveUp(n) PROVE TInv'
    BY <1>2, <2>4 DEF GiveUp, Relapse, RepairLeft
  <2>5. CASE UNCHANGED vars
    BY <1>2, <2>5 DEF vars
  <2> QED BY <1>2, <2>1, <2>2, <2>3, <2>4, <2>5 DEF Next, NodeStep
<1>3. TInv => TypeOK
  OBVIOUS
<1> QED BY <1>1, <1>2, <1>3, PTL DEF Spec

-----------------------------------------------------------------------------
(* A retry pays for a run that failed at its first attempt; a repair sets  *)
(* the count to the attempt, whatever it was, so the runs before the       *)
(* current one are at most MaxRetries.                                     *)
CostInv ==
  \A n \in Nodes :
    /\ executions[n] <= 2 * MaxRetries + 1
    /\ status[n] = "PENDING" => executions[n] <= retries[n] /\ retries[n] <= MaxRetries
    /\ status[n] = "RUNNING" /\ attempt[n] = 0 =>
         executions[n] <= retries[n] + 1 /\ retries[n] <= MaxRetries
    /\ status[n] = "RUNNING" /\ attempt[n] # 0 =>
         executions[n] <= MaxRetries + 1 + attempt[n] /\ retries[n] = attempt[n]

Inv == TypeOK /\ CostInv

(* Between two relapses a node's work is executed at most 2 MaxRetries + 1 *)
(* times, whatever fails and in whichever way, for every MaxRetries.       *)
THEOREM WorkBoundedHolds == Spec => []WorkBounded
<1> USE CorrectionAssumption DEF Inv, TypeOK, CostInv
<1>1. Init => Inv
  BY DEF Init
<1>2. ASSUME Inv, [Next]_vars PROVE Inv'
  <2>1. ASSUME NEW n \in Nodes, Launch(n) PROVE Inv'
    BY <1>2, <2>1 DEF Launch, Executed
  <2>2. ASSUME NEW n \in Nodes, Validated(n) PROVE Inv'
    BY <1>2, <2>2 DEF Validated
  <2>3. ASSUME NEW n \in Nodes, Repair(n) PROVE Inv'
    BY <1>2, <2>3 DEF Repair, RepairLeft, PlanAttempt, Executed
  <2>4. ASSUME NEW n \in Nodes, GiveUp(n) PROVE Inv'
    BY <1>2, <2>4 DEF GiveUp, Relapse, RepairLeft
  <2>5. CASE UNCHANGED vars
    BY <1>2, <2>5 DEF vars
  <2> QED BY <1>2, <2>1, <2>2, <2>3, <2>4, <2>5 DEF Next, NodeStep
<1>3. Inv => WorkBounded
  BY DEF WorkBounded
<1> QED BY <1>1, <1>2, <1>3, PTL DEF Spec
=============================================================================
