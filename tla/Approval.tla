------------------------------ MODULE Approval ------------------------------
(***************************************************************************)
(* Human approval of sensitive actions: ApprovalManager (core/governance/  *)
(* approval/manager.py) over SqliteApprovalStore (store.py), the governed  *)
(* task of each request (core/tasks/manager.py) and the audit trail.       *)
(*                                                                         *)
(* The web server, the command line tool and the gateway of the worker are *)
(* processes of their own on the same databases: a caller runs one         *)
(* operation at a time, and operations interleave between statements.      *)
(* A transaction of the store takes the write lock (BEGIN IMMEDIATE), reads *)
(* the row and the clock, and commits; a read outside a transaction sees   *)
(* what was last committed.                                                *)
(***************************************************************************)
EXTENDS Integers, FiniteSets

CONSTANTS
  Callers,      (* processes that use an ApprovalManager          *)
  Approvals,    (* approval_id of the requests, each with its task *)
  NoCaller,
  MaxFailures,  (* bound: failures of an executor, per request    *)
  MaxCrashes    (* bound: processes that die in mid-operation     *)

ASSUME ApprovalAssumption ==
  /\ NoCaller \notin Callers
  /\ MaxFailures \in Nat /\ MaxCrashes \in Nat

VARIABLES
  status,    (* row.status; NONE before save_request                        *)
  exec,      (* row.execution_state                                         *)
  expired,   (* requests whose expires_at has passed                        *)
  lock,      (* the caller inside a write transaction of the store          *)
  task,      (* state of the governed task                                  *)
  audit,     (* audit events recorded about the request                     *)
  pc, on,    (* each caller's place in its operation, and its request       *)
  aim,       (* what the operation is about to make of the request or task  *)
  fresh,     (* now < expires_at, as the caller's transaction evaluated it  *)
  done,      (* history: executors that returned                            *)
  failures, crashes

rowVars == <<status, exec>>
callVars == <<pc, on, aim, fresh>>
vars == <<status, exec, expired, lock, task, audit, pc, on, aim, fresh,
          done, failures, crashes>>

Decisions == {"APPROVED", "REJECTED"}
Closed == {"REJECTED", "EXPIRED", "CANCELLED"}
Aims == Decisions \cup {"EXPIRED", "CANCELLED", "POLICY_CHECKED", "AWAITING_APPROVAL",
                     "REQUESTED", "RUNNING", "VERIFYING", "FAILED", "none"}
TaskStates == {"PLANNED", "POLICY_CHECKED", "AWAITING_APPROVAL", "RUNNING",
               "VERIFYING", "CANCELLED"}

(* ALLOWED_TRANSITIONS, between the states this module reaches. *)
Allowed(from) ==
  IF from = "PLANNED" THEN {"POLICY_CHECKED", "CANCELLED"}
  ELSE IF from = "POLICY_CHECKED" THEN {"AWAITING_APPROVAL", "RUNNING", "CANCELLED"}
  ELSE IF from = "AWAITING_APPROVAL" THEN {"RUNNING", "CANCELLED"}
  ELSE IF from = "RUNNING" THEN {"VERIFYING", "CANCELLED"}
  ELSE {}

(* The state an operation asks transition_task for. *)
Target(c) == IF aim[c] \in {"REJECTED", "EXPIRED"} THEN "CANCELLED" ELSE aim[c]

Goto(c, place) == pc' = [pc EXCEPT ![c] = place]

Start(c, a, place, goal) ==
  /\ pc[c] = "idle"
  /\ Goto(c, place)
  /\ on' = [on EXCEPT ![c] = a]
  /\ aim' = [aim EXCEPT ![c] = goal]

-----------------------------------------------------------------------------
Init ==
  /\ status = [a \in Approvals |-> "NONE"]
  /\ exec = [a \in Approvals |-> "NOT_STARTED"]
  /\ expired = {}
  /\ lock = NoCaller
  /\ task \in [Approvals -> {"PLANNED", "POLICY_CHECKED"}]
  /\ audit = [a \in Approvals |-> {}]
  /\ pc = [c \in Callers |-> "idle"]
  /\ on \in [Callers -> Approvals] /\ \A c, e \in Callers : on[c] = on[e]
  /\ aim = [c \in Callers |-> "none"]
  /\ fresh = [c \in Callers |-> FALSE]
  /\ done = [a \in Approvals |-> 0]
  /\ failures = [a \in Approvals |-> 0]
  /\ crashes = 0

(* The TTL of a request runs out. *)
Expires(a) ==
  /\ status[a] # "NONE" /\ a \notin expired
  /\ expired' = expired \cup {a}
  /\ UNCHANGED <<rowVars, lock, task, audit, callVars, done, failures, crashes>>

(* request_approval: save_request, then the task is led to                 *)
(* AWAITING_APPROVAL, then APPROVAL_REQUESTED is recorded.                 *)
Request(c, a) ==
  /\ status[a] = "NONE" /\ lock = NoCaller
  /\ Start(c, a, "read", "POLICY_CHECKED")
  /\ status' = [status EXCEPT ![a] = "PENDING"]
  /\ UNCHANGED <<exec, expired, lock, task, audit, fresh, done, failures, crashes>>

(* decide enters update_decision_atomic at once. *)
Decide(c, a, choice) ==
  /\ status[a] # "NONE"
  /\ Start(c, a, "found", choice)
  /\ UNCHANGED <<rowVars, expired, lock, task, audit, fresh, done, failures, crashes>>

(* get and get_pending find a PENDING request past its TTL, and call       *)
(* expire; cancel finds a PENDING request.                                 *)
Find(c, a, goal) ==
  /\ status[a] = "PENDING" /\ (goal = "EXPIRED" => a \in expired)
  /\ Start(c, a, "found", goal)
  /\ UNCHANGED <<rowVars, expired, lock, task, audit, fresh, done, failures, crashes>>

(* resume_execution passes its checks on an APPROVED row still in its TTL. *)
Resume(c, a) ==
  /\ status[a] = "APPROVED" /\ a \notin expired
  /\ Start(c, a, "cleared", "RUNNING")
  /\ UNCHANGED <<rowVars, expired, lock, task, audit, fresh, done, failures, crashes>>

(* BEGIN IMMEDIATE; the row and the clock are read. *)
BeginTransaction(c) ==
  /\ pc[c] \in {"found", "cleared"} /\ lock = NoCaller
  /\ lock' = c
  /\ fresh' = [fresh EXCEPT ![c] = on[c] \notin expired]
  /\ Goto(c, IF pc[c] = "found" THEN "update" ELSE "claim")
  /\ UNCHANGED <<rowVars, expired, task, audit, on, aim, done, failures, crashes>>

(* Seeded fault: the decision is written over whatever the row holds. *)
UpdatedRegardless(c) == IF fresh[c] THEN aim[c] ELSE "EXPIRED"

(* What update_decision_atomic leaves in the row. *)
Updated(c) ==
  IF status[on[c]] # "PENDING" THEN status[on[c]] ELSE IF fresh[c] THEN aim[c] ELSE "EXPIRED"

(* update_decision_atomic commits.  decide raises if the update did not go *)
(* through, after recording an expiry it caused; expire ignores the result *)
(* and records an expiry whatever the row says; cancel only returns.       *)
CommitUpdate(c) ==
  LET pending == status[on[c]] = "PENDING"
  IN  /\ pc[c] = "update"
      /\ status' = [status EXCEPT ![on[c]] = Updated(c)]
      /\ lock' = NoCaller
      /\ \/ aim[c] = "EXPIRED" /\ Goto(c, "audit")
         \/ aim[c] \in Decisions /\ pending /\ Goto(c, IF fresh[c] THEN "audit" ELSE "late")
         \/ aim[c] \in Decisions /\ ~pending /\ Goto(c, "idle")
         \/ aim[c] = "CANCELLED" /\ Goto(c, "idle")
      /\ UNCHANGED <<exec, expired, task, audit, on, aim, fresh, done, failures, crashes>>

(* decide, refused for lateness, records APPROVAL_EXPIRED and raises. *)
AuditLate(c) ==
  /\ pc[c] = "late"
  /\ audit' = [audit EXCEPT ![on[c]] = @ \cup {"EXPIRED"}]
  /\ Goto(c, "idle")
  /\ UNCHANGED <<rowVars, expired, lock, task, on, aim, fresh, done, failures, crashes>>

(* Seeded fault: only a consumed approval is refused. *)
ClaimableUnlessConsumed(a) == exec[a] # "CONSUMED"

(* Seeded fault: only a running execution is refused. *)
ClaimableUnlessRunning(a) == exec[a] # "RUNNING"

Claimable(a) == exec[a] \notin {"CONSUMED", "RUNNING"}

(* claim_execution_atomic commits: the claim goes through, or the row      *)
(* expires, or nothing changes and resume_execution returns the cached     *)
(* result or raises.                                                       *)
CommitClaim(c) ==
  LET a == on[c]
      wins == status[a] = "APPROVED" /\ fresh[c] /\ Claimable(a)
  IN  /\ pc[c] = "claim"
      /\ lock' = NoCaller
      /\ status' = [status EXCEPT ![a] = IF @ = "APPROVED" /\ ~fresh[c] THEN "EXPIRED" ELSE @]
      /\ exec' = [exec EXCEPT ![a] = IF wins THEN "RUNNING" ELSE @]
      /\ Goto(c, IF wins THEN "audit" ELSE "idle")
      /\ UNCHANGED <<expired, task, audit, on, aim, fresh, done, failures, crashes>>

(* An audit event; then the task follows, if the operation moves it.       *)
Audit(c) ==
  /\ pc[c] = "audit"
  /\ audit' = [audit EXCEPT ![on[c]] = @ \cup {aim[c]}]
  /\ \/ aim[c] \in {"REJECTED", "EXPIRED", "RUNNING", "VERIFYING"} /\ Goto(c, "read")
     \/ aim[c] = "FAILED" /\ Goto(c, "finalize")
     \/ aim[c] \in {"APPROVED", "REQUESTED"} /\ Goto(c, "idle")
  /\ UNCHANGED <<rowVars, expired, lock, task, on, aim, fresh, done, failures, crashes>>

(* What the operation does after its transition_task. *)
Continue(c) ==
  \/ /\ aim[c] = "POLICY_CHECKED" /\ Goto(c, "read")
     /\ aim' = [aim EXCEPT ![c] = "AWAITING_APPROVAL"]
  \/ /\ aim[c] = "AWAITING_APPROVAL" /\ Goto(c, "audit")
     /\ aim' = [aim EXCEPT ![c] = "REQUESTED"]
  \/ aim[c] = "RUNNING" /\ Goto(c, "execute") /\ UNCHANGED aim
  \/ aim[c] = "VERIFYING" /\ Goto(c, "finalize") /\ UNCHANGED aim
  \/ aim[c] \in {"REJECTED", "EXPIRED"} /\ Goto(c, "idle") /\ UNCHANGED aim

(* transition_task reads the task; a transition that is not allowed raises, *)
(* and the manager goes on.                                                *)
ReadTask(c) ==
  /\ pc[c] = "read"
  /\ IF Target(c) \in Allowed(task[on[c]])
     THEN Goto(c, "write") /\ UNCHANGED aim
     ELSE Continue(c)
  /\ UNCHANGED <<rowVars, expired, lock, task, audit, on, fresh, done, failures, crashes>>

(* The UPDATE of transition_task: it does not look at the state again.     *)
WriteTask(c) ==
  /\ pc[c] = "write"
  /\ task' = [task EXCEPT ![on[c]] = Target(c)]
  /\ Continue(c)
  /\ UNCHANGED <<rowVars, expired, lock, audit, on, fresh, done, failures, crashes>>

(* The awaited executor returns, or raises.                                *)
ExecutorReturns(c) ==
  /\ pc[c] = "execute"
  /\ done' = [done EXCEPT ![on[c]] = @ + 1]
  /\ aim' = [aim EXCEPT ![c] = "VERIFYING"]
  /\ Goto(c, "audit")
  /\ UNCHANGED <<rowVars, expired, lock, task, audit, on, fresh, failures, crashes>>

ExecutorFails(c) ==
  /\ pc[c] = "execute" /\ failures[on[c]] < MaxFailures
  /\ failures' = [failures EXCEPT ![on[c]] = @ + 1]
  /\ aim' = [aim EXCEPT ![c] = "FAILED"]
  /\ Goto(c, "audit")
  /\ UNCHANGED <<rowVars, expired, lock, task, audit, on, fresh, done, crashes>>

(* Seeded fault: the claim is given back whatever the executor did. *)
FinalFailed(c) == "FAILED_DURING_EXECUTION"

(* Seeded fault: a failed execution is reset, to be started again. *)
FinalReset(c) == IF aim[c] = "VERIFYING" THEN "CONSUMED" ELSE "NOT_STARTED"

FinalState(c) == IF aim[c] = "VERIFYING" THEN "CONSUMED" ELSE "FAILED_DURING_EXECUTION"

(* finalize_execution_atomic, whatever the row holds by then. *)
Finalize(c) ==
  /\ pc[c] = "finalize" /\ lock = NoCaller
  /\ exec' = [exec EXCEPT ![on[c]] = FinalState(c)]
  /\ Goto(c, "idle")
  /\ UNCHANGED <<status, expired, lock, task, audit, on, aim, fresh, done, failures, crashes>>

(* The process dies; its open transaction is rolled back. *)
Crash(c) ==
  /\ pc[c] # "idle" /\ crashes < MaxCrashes
  /\ crashes' = crashes + 1
  /\ Goto(c, "idle")
  /\ lock' = IF lock = c THEN NoCaller ELSE lock
  /\ UNCHANGED <<rowVars, expired, task, audit, on, aim, fresh, done, failures>>

Call(c, a) ==
  \/ Request(c, a) \/ Resume(c, a)
  \/ \E choice \in Decisions : Decide(c, a, choice)
  \/ \E goal \in {"EXPIRED", "CANCELLED"} : Find(c, a, goal)

Step(c) ==
  \/ BeginTransaction(c) \/ CommitUpdate(c) \/ CommitClaim(c)
  \/ AuditLate(c) \/ Audit(c) \/ ReadTask(c) \/ WriteTask(c)
  \/ ExecutorReturns(c) \/ ExecutorFails(c) \/ Finalize(c) \/ Crash(c)

Next ==
  \/ \E a \in Approvals : Expires(a)
  \/ \E c \in Callers, a \in Approvals : Call(c, a)
  \/ \E c \in Callers : Step(c)

Spec == Init /\ [][Next]_vars

-----------------------------------------------------------------------------
TypeOK ==
  /\ status \in [Approvals -> Closed \cup {"NONE", "PENDING", "APPROVED"}]
  /\ exec \in [Approvals -> {"NOT_STARTED", "RUNNING", "CONSUMED", "FAILED_DURING_EXECUTION"}]
  /\ expired \subseteq Approvals
  /\ lock \in Callers \cup {NoCaller}
  /\ task \in [Approvals -> TaskStates]
  /\ pc \in [Callers -> {"idle", "found", "cleared", "update", "claim", "late", "audit",
                         "read", "write", "execute", "finalize"}]
  /\ on \in [Callers -> Approvals]
  /\ aim \in [Callers -> Aims]
  /\ fresh \in [Callers -> BOOLEAN]
  /\ done \in [Approvals -> Nat]

(* The caller holds a claim: from the commit of the claim to finalization. *)
Holds(c) ==
  \/ pc[c] \in {"execute", "finalize"}
  \/ pc[c] \in {"audit", "read", "write"} /\ aim[c] \in {"RUNNING", "VERIFYING", "FAILED"}

(* One winner under concurrency: two callers never execute the same        *)
(* approval at once, even if executors fail, claims expire or holders die. *)
OneWinner ==
  \A c, e \in Callers : Holds(c) /\ Holds(e) /\ on[c] = on[e] => c = e

(* An approved action takes effect once: no executor returns a second time *)
(* for a request, whether its holder finalized, failed before or died.     *)
ConsumedOnce == \A a \in Approvals : done[a] <= 1

(* What runs was approved: a claim is held only on a row that was approved, *)
(* and a rejected or cancelled one has had no effect.                      *)
RunsOnlyApproved ==
  /\ \A c \in Callers : Holds(c) => status[on[c]] \in {"APPROVED", "EXPIRED"}
  /\ \A a \in Approvals : status[a] \in {"REJECTED", "CANCELLED"} => exec[a] = "NOT_STARTED"

(* A task runs only under a claimed approval, although its transitions     *)
(* race with those of a rejection, an expiry or the request itself.        *)
TaskRunsOnlyClaimed ==
  \A a \in Approvals : task[a] \in {"RUNNING", "VERIFYING"} => exec[a] # "NOT_STARTED"

(* A closed request stays closed and a consumed one stays consumed, and    *)
(* an approval is taken back by expiry alone.                              *)
DecisionIsFinal ==
  [][\A a \in Approvals :
       /\ status[a] \in Closed => status'[a] = status[a]
       /\ status[a] = "APPROVED" => status'[a] \in {"APPROVED", "EXPIRED"}
       /\ exec[a] = "CONSUMED" => exec'[a] = "CONSUMED"]_vars

=============================================================================
