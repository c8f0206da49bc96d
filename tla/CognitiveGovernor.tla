-------------------------- MODULE CognitiveGovernor --------------------------
(***************************************************************************)
(* core/cognition/cognitive_governor.py: the ledger of the cognitive       *)
(* budget, a hash chain in one file, and the manifest that attests its     *)
(* length and its head in another.  Its lock is a class attribute: one per *)
(* process.  The requests come from the runtime contract, directly or      *)
(* through the universal gateway.                                          *)
(***************************************************************************)
EXTENDS Integers, Sequences

CONSTANTS
  Callers,           (* threads that call into the governor                  *)
  Costs,             (* estimated costs in play                              *)
  MaxSessionBudget   (* max_session_budget                                   *)

ASSUME GovernorAssumption ==
  Costs \subseteq Nat /\ MaxSessionBudget \in Nat

VARIABLES
  processOf,  (* the process of each caller: fixed by the deployment         *)
  budget,     (* cognitive_budget_ledger.jsonl                               *)
  manifest,   (* ledger_manifest.json: [blocks, head], or one of those below *)
  stage,      (* where each caller is in evaluate_and_record                 *)
  verdict,    (* the block it is drawing up                                  *)
  minted,     (* hashes computed so far, in this ledger and in others        *)
  met         (* history: a call went on although a caller of another        *)
              (* process was between the same two locks                      *)

governorVars == <<processOf, budget, manifest, stage, verdict, minted, met>>

ZeroHash == 0
NoManifest == [blocks |-> -1, head |-> ZeroHash]  (* the file does not exist  *)
TornManifest == [blocks |-> -2, head |-> ZeroHash]  (* truncated, not rewritten *)

Decisions == {"ALLOW", "EMERGENCY_ALLOW", "DENY"}
Request == [cost : Costs, priority : {"normal", "critical"}, risk : {"low", "high"}]
Wholeness == {"yes", "cut", "glued"}  (* cut short, or glued to one cut short *)
Block == [prev : Nat, hash : Nat, decision : Decisions, cost : Nat, whole : Wholeness]
Stages == {"idle", "weighing", "linking", "appending", "attesting", "checking",
           "answered", "refused"}

NoVerdict ==
  [prev |-> ZeroHash, hash |-> ZeroHash, decision |-> "DENY", cost |-> 0, whole |-> "yes"]
CutBlock == [NoVerdict EXCEPT !.whole = "cut"]

-----------------------------------------------------------------------------
(* Files of lines, this one and the decisions'. *)

(* A line written after one that was cut short continues it. *)
Written(chain, line) ==
  IF chain # <<>> /\ chain[Len(chain)].whole = "cut"
  THEN [chain EXCEPT ![Len(chain)].whole = "glued"]
  ELSE Append(chain, line)

(* The hash of the last line of a chain. *)
HeadOf(chain) == IF chain = <<>> THEN ZeroHash ELSE chain[Len(chain)].hash

(* The n-th line names the hash of the line before it. *)
Linked(chain, n) == chain[n].prev = (IF n = 1 THEN ZeroHash ELSE chain[n - 1].hash)

(* The first n lines were written whole. *)
WholeUpTo(chain, n) == \A i \in 1 .. n : chain[i].whole = "yes"
Whole(chain) == WholeUpTo(chain, Len(chain))

Chained(chain) == Whole(chain) /\ \A n \in 1 .. Len(chain) : Linked(chain, n)

-----------------------------------------------------------------------------
(* Seeded fault: a manifest of the right length is enough. *)
Counted == manifest = NoManifest \/ manifest.blocks = Len(budget)

(* verify_ledger_chain: a ledger that does not exist is not compared with  *)
(* the manifest.                                                           *)
Verified ==
  /\ Chained(budget)
  /\ budget = <<>> \/ manifest = NoManifest
       \/ manifest = [blocks |-> Len(budget), head |-> HeadOf(budget)]

Granted == {"ALLOW", "EMERGENCY_ALLOW"}

(* _calculate_current_spend: over the whole file, whatever the session. *)
SpendOf(block) == IF block.decision \in Granted THEN block.cost ELSE 0
SpendUpTo[n \in 0 .. Len(budget)] ==
  IF n = 0 THEN 0 ELSE SpendUpTo[n - 1] + SpendOf(budget[n])
CurrentSpend == SpendUpTo[Len(budget)]

(* Seeded fault: what is spent already is compared, not what will be. *)
DecideLate(r) ==
  IF r.risk = "high" /\ r.priority # "critical" THEN "DENY"
  ELSE IF CurrentSpend <= MaxSessionBudget THEN "ALLOW"
  ELSE IF r.priority = "critical" THEN "EMERGENCY_ALLOW" ELSE "DENY"

Decide(r) ==
  IF r.risk = "high" /\ r.priority # "critical" THEN "DENY"
  ELSE IF CurrentSpend + r.cost <= MaxSessionBudget THEN "ALLOW"
  ELSE IF r.priority = "critical" THEN "EMERGENCY_ALLOW" ELSE "DENY"

GovernorInit ==
  /\ budget = <<>>
  /\ manifest = NoManifest
  /\ stage = [c \in Callers |-> "idle"]
  /\ verdict = [c \in Callers |-> NoVerdict]
  /\ minted = 0
  /\ met = FALSE

Inside == {"weighing", "linking", "appending", "attesting", "checking"}
InGovernor(c) == stage[c] \in Inside

(* Seeded fault: a lock of each governor object. *)
ObjectLockFree(c) == ~InGovernor(c)

(* The lock is a class attribute: it keeps the threads of a process apart. *)
ClassLockFree(c) ==
  \A d \in Callers : processOf[d] = processOf[c] => ~InGovernor(d)

(* evaluate_and_record begins, and verifies the ledger.                    *)
Evaluate(c) ==
  /\ stage[c] = "idle" /\ ClassLockFree(c)
  /\ stage' = [stage EXCEPT ![c] = IF Verified THEN "weighing" ELSE "refused"]
  /\ met' = (met \/ \E d \in Callers : processOf[d] # processOf[c] /\ InGovernor(d))
  /\ UNCHANGED <<processOf, budget, manifest, verdict, minted>>

(* The ledger is read again for what was spent: a line that is not whole   *)
(* refuses the request.                                                    *)
Weigh(c, r) ==
  /\ stage[c] = "weighing"
  /\ IF Whole(budget)
     THEN /\ verdict' = [verdict EXCEPT ![c] =
               [@ EXCEPT !.decision = Decide(r), !.cost = r.cost]]
          /\ stage' = [stage EXCEPT ![c] = "linking"]
     ELSE stage' = [stage EXCEPT ![c] = "refused"] /\ UNCHANGED verdict
  /\ UNCHANGED <<processOf, budget, manifest, minted, met>>

(* ... and once more for its head. *)
Link(c) ==
  /\ stage[c] = "linking"
  /\ IF Whole(budget)
     THEN /\ minted' = minted + 1
          /\ verdict' = [verdict EXCEPT ![c] =
               [@ EXCEPT !.prev = HeadOf(budget), !.hash = minted']]
          /\ stage' = [stage EXCEPT ![c] = "appending"]
     ELSE stage' = [stage EXCEPT ![c] = "refused"] /\ UNCHANGED <<verdict, minted>>
  /\ UNCHANGED <<processOf, budget, manifest, met>>

(* The line is written and synchronised. *)
AppendBlock(c) ==
  /\ stage[c] = "appending"
  /\ budget' = Written(budget, verdict[c])
  /\ stage' = [stage EXCEPT ![c] = "attesting"]
  /\ UNCHANGED <<processOf, manifest, verdict, minted, met>>

(* _update_manifest: the lines are counted again.  Another process that    *)
(* looks between the count and the last byte refuses what it is asked.     *)
Attest(c) ==
  /\ stage[c] = "attesting"
  /\ manifest' = [blocks |-> Len(budget), head |-> verdict[c].hash]
  /\ stage' = [stage EXCEPT ![c] = "checking"]
  /\ UNCHANGED <<processOf, budget, verdict, minted, met>>

(* The last verification, which may still refuse what was recorded. *)
CheckAgain(c) ==
  /\ stage[c] = "checking"
  /\ stage' = [stage EXCEPT ![c] = IF Verified THEN "answered" ELSE "refused"]
  /\ UNCHANGED <<processOf, budget, manifest, verdict, minted, met>>

(* The caller has its answer, and what it drew up is gone. *)
Answered(c) ==
  /\ stage' = [stage EXCEPT ![c] = "idle"]
  /\ verdict' = [verdict EXCEPT ![c] = NoVerdict]
  /\ UNCHANGED <<processOf, budget, manifest, minted, met>>

GovernorStep(c) == Link(c) \/ AppendBlock(c) \/ Attest(c) \/ CheckAgain(c)

(* What the callers' process leaves in the two files when it dies in the   *)
(* middle of an evaluation: a line cut short, or a manifest that was       *)
(* opened and is empty.                                                    *)
GovernorCrash(dead) ==
  /\ stage' = [c \in Callers |-> IF c \in dead THEN "idle" ELSE stage[c]]
  /\ IF \E c \in dead : stage[c] = "appending"
     THEN budget' \in {budget, Written(budget, CutBlock)}
     ELSE UNCHANGED budget
  /\ IF \E c \in dead : stage[c] = "attesting"
     THEN manifest' \in {manifest, TornManifest}
     ELSE UNCHANGED manifest
  /\ verdict' = [c \in Callers |-> IF c \in dead THEN NoVerdict ELSE verdict[c]]
  /\ UNCHANGED <<processOf, minted, met>>

-----------------------------------------------------------------------------
GovernorTypeOK ==
  /\ budget \in Seq(Block)
  /\ manifest \in [blocks : Int, head : Nat]
  /\ stage \in [Callers -> Stages]
  /\ verdict \in [Callers -> Block]
  /\ minted \in Nat
  /\ met \in BOOLEAN

(* The budget's chain survives every crash, and the threads of a process:  *)
(* as long as no two processes met in the governor, no two whole blocks    *)
(* name the same predecessor.                                              *)
BudgetChained ==
  ~met => \A n \in 1 .. Len(budget) : WholeUpTo(budget, n) => Linked(budget, n)

(* What was allowed without an emergency was within the budget, counting   *)
(* everything allowed before it, as long as no two processes met.          *)
WithinBudget ==
  ~met => \A n \in 1 .. Len(budget) :
            budget[n].decision = "ALLOW" => SpendUpTo[n] <= MaxSessionBudget

(* What was allowed without an emergency, as far as the n-th block. *)
AllowedUpTo[n \in 0 .. Len(budget)] ==
  IF n = 0 THEN 0
  ELSE AllowedUpTo[n - 1] + (IF budget[n].decision = "ALLOW" THEN budget[n].cost ELSE 0)

(* Fail closed: a ledger that a crash left ahead of its manifest is never  *)
(* written again, so that at most one block was ever recorded without its  *)
(* attestation (before the first manifest there is nothing to compare).    *)
AttestedButOne ==
  ~met /\ manifest \notin {NoManifest, TornManifest}
    => Len(budget) - manifest.blocks \in {0, 1}

=============================================================================
