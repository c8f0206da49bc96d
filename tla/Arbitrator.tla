----------------------------- MODULE Arbitrator -----------------------------
(***************************************************************************)
(* Several missions and a pool of workers: MultiMissionArbitrator          *)
(* (core/operations/multi_mission_arbitrator.py) ranks the missions, gives *)
(* workers, preempts, replaces failed workers and cancels; a mission runs  *)
(* in AutonomousE2EEngine (core/agent/autonomous_e2e_engine.py); and       *)
(* ContinuousOperationsControlLoop                                         *)
(* (core/operations/continuous_operations_loop.py) arbitrates, executes    *)
(* and recovers in cycles.  All three are synchronous: a cycle is not      *)
(* interrupted, and calls come between cycles.                             *)
(***************************************************************************)
EXTENDS Integers, Sequences, SequencesExt, FiniteSets

CONSTANTS
  Missions,       (* the contracts that may be registered                   *)
  WorkerCount,    (* total_worker_slots                                     *)
  Terms,          (* m -> the terms m may be registered on: base, its score *)
                  (* at each time but for the boost of waiting; urgent, its *)
                  (* priority is CRITICAL or HIGH; preemptible; and parent, *)
                  (* the set with the parent's identifier if there is one   *)
  Approval,       (* missions with approval_requirements                    *)
  Keys,           (* the missions that are keys of a plan's dependencies,   *)
                  (* in its order: the sequences there may be               *)
  Costs,          (* the costs of a plan's nodes: the sequences there may be*)
  Budget,         (* execution_budget                                       *)
  MaxRecoveries,  (* MAX_RECOVERY_ATTEMPTS                                  *)
  MaxReplans,     (* MAX_REPLANS                                            *)
  MaxCalls,       (* bound: calls between cycles, registrations apart       *)
  MaxTime         (* bound: ticks of the clock                              *)

ASSUME ArbitratorAssumption ==
  /\ {WorkerCount, Budget} \subseteq Nat \ {0} /\ Approval \subseteq Missions
  /\ \A m \in Missions : Terms[m] \subseteq
       [base : [0 .. MaxTime -> Nat], urgent : BOOLEAN, preemptible : BOOLEAN,
        parent : SUBSET (Missions \ {m})]
  /\ Keys \subseteq Seq(Missions) /\ Costs \subseteq Seq(Nat)
  /\ {MaxRecoveries, MaxReplans, MaxCalls, MaxTime} \subseteq Nat

VARIABLES
  deps,          (* the keys of the contracts' dependencies                 *)
  plan,          (* the costs of their plan_nodes                           *)
  order,         (* the managed missions, in the order of the dictionary    *)
  terms,         (* what they were registered on, the last time             *)
  state,         (* contract.current_state                                  *)
  blocked,       (* missions whose health is BLOCKED                        *)
  created, wait, (* created_at, wait_time_seconds                           *)
  children,      (* child_mission_ids                                       *)
  assigned,      (* assigned_worker_ids                                     *)
  worker,        (* status and current_mission_id of each worker            *)
  spent,         (* budget_used                                             *)
  resumable,     (* missions with a checkpoint                              *)
  at,            (* where the call in progress is                           *)
  run,           (* its mission, whether it is of a cycle, and the locals   *)
                 (* of execute_mission_e2e                                  *)
  now, calls

contracts == <<deps, plan>>
registry == <<order, terms, created, children>>
missions == <<state, blocked, assigned>>
engine == <<spent, resumable>>
bounds == <<now, calls>>
vars == <<contracts, registry, missions, wait, worker, engine, at, run, bounds>>

Workers == 1 .. WorkerCount
NoMission == <<>>
Managed == ToSet(order)
NoTerms == [base |-> [t \in 0 .. MaxTime |-> 0], urgent |-> FALSE, preemptible |-> FALSE,
            parent |-> {}]
NoRun == [of |-> NoMission, cycle |-> FALSE, step |-> 0, recoveries |-> 0, replans |-> 0]

MinOf(S) == CHOOSE n \in S : \A k \in S : n <= k
Available == {w \in Workers : worker[w].status = "AVAILABLE"}

Init ==
  /\ deps = [m \in Missions |-> <<>>] /\ plan = [m \in Missions |-> <<>>]
  /\ order = <<>> /\ terms = [m \in Missions |-> NoTerms]
  /\ state = [m \in Missions |-> "RECEIVED"]
  /\ blocked = {}
  /\ created = [m \in Missions |-> 0] /\ wait = [m \in Missions |-> 0]
  /\ children = [m \in Missions |-> {}]
  /\ assigned = [m \in Missions |-> {}]
  /\ worker = [w \in Workers |-> [status |-> "AVAILABLE", current |-> NoMission]]
  /\ spent = [m \in Missions |-> 0] /\ resumable = {}
  /\ at = "idle" /\ run = NoRun
  /\ now = 0 /\ calls = 0

Called == at = "idle" /\ calls < MaxCalls /\ calls' = calls + 1

(* register_mission.  A mission that is known gets a new record in its     *)
(* place, without its workers, which stay busy, and without its children.  *)
Register(m) ==
  /\ at = "idle"
  /\ IF m \in Managed THEN Called /\ UNCHANGED order
     ELSE order' = Append(order, m) /\ UNCHANGED calls
  /\ \E t \in Terms[m] :
       /\ terms' = [terms EXCEPT ![m] = t]
       /\ children' = [p \in Missions |->
                         (IF p = m THEN {} ELSE children[p]) \cup
                         (IF p \in t.parent \cap Managed THEN {m} ELSE {})]
  /\ created' = [created EXCEPT ![m] = now] /\ wait' = [wait EXCEPT ![m] = 0]
  /\ assigned' = [assigned EXCEPT ![m] = {}]
  /\ blocked' = blocked \ {m}
  /\ UNCHANGED <<contracts, state, worker, engine, at, run, now>>

(* build_execution_plan, before the contract is registered or at any time  *)
(* later: a plan whose nodes depend on each other in a circle is refused.  *)
Plan(m) ==
  /\ Called
  /\ \/ /\ \E keys \in Keys : deps' = [deps EXCEPT ![m] = keys]
        /\ \E costs \in Costs : plan' = [plan EXCEPT ![m] = costs]
        /\ state' = [state EXCEPT ![m] = "PREPARING"]
     \/ /\ state' = [state EXCEPT ![m] = "FAILED"]
        /\ UNCHANGED contracts
  /\ UNCHANGED <<registry, blocked, assigned, wait, worker, engine, at, run, now>>

-----------------------------------------------------------------------------
(* detect_multi_mission_deadlock: a depth-first search from each mission   *)
(* that no search has visited.  One that finds a cycle reports the mission *)
(* it started from, and leaves its path on the stack.                      *)

(* A search: what it has visited, the missions of the path it is on, those *)
(* it has still to look at from the last of them, whether it has found a   *)
(* cycle; and the missions that were reported.                             *)
Search == [visited : SUBSET Missions, stack : SUBSET Missions, ahead : Seq(Missions),
           found : BOOLEAN, reported : SUBSET Missions]

From(m) ==
  [s \in Search |-> [s EXCEPT !.visited = @ \cup {m}, !.stack = @ \cup {m}, !.ahead = deps[m]]]

(* Seeded fault: no mission ever leaves the stack. *)
StillOn(m) == [s \in Search |-> s]

Left(m) == [s \in Search |-> IF s.found THEN s ELSE [s EXCEPT !.stack = @ \ {m}]]

(* dfs, as far as what lies ahead of s: each mission in turn, with what    *)
(* its own dependencies lead to, until a cycle is found.                   *)
Follow[s \in Search] ==
  IF s.ahead = <<>> \/ s.found THEN s
  ELSE LET m == Head(s.ahead)
           t == IF m \notin Managed THEN s
                ELSE IF m \in s.visited THEN [s EXCEPT !.found = m \in s.stack]
                ELSE Left(m)[Follow[From(m)[s]]]
       IN  Follow[[t EXCEPT !.ahead = Tail(s.ahead)]]

Unsearched ==
  [visited |-> {}, stack |-> {}, ahead |-> <<>>, found |-> FALSE, reported |-> {}]

Reporting(m) ==
  [s \in Search |-> [s EXCEPT !.found = FALSE, !.reported = IF s.found THEN @ \cup {m} ELSE @]]

(* What the searches from the first i missions leave. *)
Searched[i \in 0 .. Len(order)] ==
  IF i = 0 THEN Unsearched
  ELSE LET m == order[i]
           Launch == [s \in Search |-> IF m \in s.visited THEN s
                                       ELSE Reporting(m)[Left(m)[Follow[From(m)[s]]]]]
       IN  Launch[Searched[i - 1]]

Deadlocked == Searched[Len(order)].reported

-----------------------------------------------------------------------------
(* The score of a mission, once the waiting times are brought up to date. *)
Score(m) == terms[m].base[now] + wait'[m]

(* The first of S, in the order of registration, whose score no other's    *)
(* exceeds; Lowest likewise.                                               *)
Position(m) == CHOOSE i \in 1 .. Len(order) : order[i] = m
Highest(S) ==
  CHOOSE m \in S : \A n \in S \ {m} :
     Score(m) > Score(n) \/ (Score(m) = Score(n) /\ Position(m) < Position(n))
Lowest(S) ==
  CHOOSE m \in S : \A n \in S \ {m} :
     Score(m) < Score(n) \/ (Score(m) = Score(n) /\ Position(m) < Position(n))

Waits(m) == state[m] \in {"RECEIVED", "PREPARING"}

Eligible(bad) == {m \in Managed \ bad : Waits(m)}

Waited == [m \in Missions |-> IF m \in Managed /\ Waits(m) THEN now - created[m] ELSE wait[m]]

(* Seeded fault: the workers keep their place in the mission's list. *)
FreedOnly(S) ==
  /\ worker' = [w \in Workers |-> IF \E m \in S : w \in assigned[m]
                                  THEN [status |-> "AVAILABLE", current |-> NoMission]
                                  ELSE worker[w]]
  /\ assigned' = assigned

(* The missions in S give their workers back. *)
Release(S) ==
  /\ worker' = [w \in Workers |-> IF \E m \in S : w \in assigned[m]
                                  THEN [status |-> "AVAILABLE", current |-> NoMission]
                                  ELSE worker[w]]
  /\ assigned' = [m \in Missions |-> IF m \in S THEN {} ELSE assigned[m]]

(* The mission that top may preempt, if there is one. *)
Victims(top) ==
  LET running == {m \in Managed : terms[m].preemptible /\ state[m] = "EXECUTING"}
  IN  IF Available = {} /\ terms[top].urgent /\ running # {}
         /\ Score(Lowest(running)) < Score(top)
      THEN {Lowest(running)} ELSE {}

(* top takes the first worker that is free once the victims' are. *)
Allocate(top, victims) ==
  \E freed \in {UNION {assigned[v] : v \in victims}} :
  \E given \in {IF Available \cup freed = {} THEN {} ELSE {MinOf(Available \cup freed)}} :
     /\ worker' = [w \in Workers |->
                     IF w \in given THEN [status |-> "BUSY", current |-> top]
                     ELSE IF w \in freed THEN [status |-> "AVAILABLE", current |-> NoMission]
                     ELSE worker[w]]
     /\ assigned' = [m \in Missions |->
                       IF m \in victims THEN {}
                       ELSE IF m = top /\ given # {} THEN given
                       ELSE assigned[m]]
     /\ state' = [m \in Missions |->
                    IF m \in victims THEN "PREPARING"
                    ELSE IF m = top /\ given # {} THEN "EXECUTING"
                    ELSE state[m]]

(* The first of the pending missions is selected, with a worker or without. *)
Select(pending, bad, cycle) ==
  \E top \in {Highest(pending)} : \E victims \in {Victims(top)} :
     /\ Allocate(top, victims)
     /\ blocked' = bad \ victims
     /\ resumable' = resumable \cup victims
     /\ at' = IF cycle THEN "execute" ELSE "idle"
     /\ run' = IF cycle THEN [NoRun EXCEPT !.of = top, !.cycle = TRUE] ELSE NoRun

(* arbitrate_and_schedule, called for itself or by a cycle. *)
Arbitrate(cycle) ==
  \E bad \in {blocked \cup Deadlocked} : \E pending \in {Eligible(bad)} :
     /\ wait' = Waited
     /\ \/ pending # {} /\ Select(pending, bad, cycle)
        \/ /\ pending = {}
           /\ blocked' = bad
           /\ at' = IF cycle THEN "recover" ELSE "idle"
           /\ UNCHANGED <<state, assigned, worker, resumable, run>>
     /\ UNCHANGED <<contracts, registry, spent, now>>

Schedule == Called /\ Arbitrate(FALSE)

Cycle == at = "idle" /\ Arbitrate(TRUE) /\ UNCHANGED calls

-----------------------------------------------------------------------------
(* The calls on a mission. *)

Preempt(m) ==
  /\ Called /\ m \in Managed /\ state[m] = "EXECUTING"
  /\ Release({m})
  /\ state' = [state EXCEPT ![m] = "PREPARING"]
  /\ blocked' = blocked \ {m}
  /\ resumable' = resumable \cup {m}
  /\ UNCHANGED <<contracts, registry, wait, spent, at, run, now>>

(* Whatever the mission's state, and without a worker. *)
Resume(m) ==
  /\ Called /\ m \in Managed \cap resumable
  /\ state' = [state EXCEPT ![m] = "EXECUTING"]
  /\ blocked' = blocked \ {m}
  /\ UNCHANGED <<contracts, registry, assigned, worker, wait, engine, at, run, now>>

(* The mission that the worker last served, which may have ended, gets the *)
(* first available worker; without one it waits again.                     *)
FailWorker(w) ==
  LET m == worker[w].current
      degraded == [worker EXCEPT ![w].status = "DEGRADED"]
      others == Available \ {w}
  IN  /\ Called
      /\ IF m \notin Managed
         THEN worker' = degraded /\ UNCHANGED missions
         ELSE /\ blocked' = blocked \ {m}
              /\ \/ /\ others # {}
                    /\ worker' = [degraded EXCEPT ![MinOf(others)] =
                                    [status |-> "BUSY", current |-> m]]
                    /\ assigned' = [assigned EXCEPT ![m] = (@ \ {w}) \cup {MinOf(others)}]
                    /\ state' = state
                 \/ /\ others = {}
                    /\ worker' = degraded
                    /\ assigned' = [assigned EXCEPT ![m] = @ \ {w}]
                    /\ state' = [state EXCEPT ![m] = "PREPARING"]
      /\ UNCHANGED <<contracts, registry, wait, engine, at, run, now>>

(* The mission, its children, theirs, and so on. *)
Family(m) ==
  {n \in Missions : \A S \in SUBSET Missions :
     m \in S /\ (\A p \in S : children[p] \subseteq S) => n \in S}

Cancel(m) ==
  /\ Called /\ m \in Managed
  /\ Release(Family(m))
  /\ state' = [n \in Missions |-> IF n \in Family(m) THEN "CANCELLED" ELSE state[n]]
  /\ blocked' = blocked \ Family(m)
  /\ UNCHANGED <<contracts, registry, wait, engine, at, run, now>>

(* execute_managed_mission, called for itself. *)
Execute(m) ==
  /\ Called /\ m \in Managed
  /\ at' = "execute" /\ run' = [NoRun EXCEPT !.of = m]
  /\ UNCHANGED <<contracts, registry, missions, wait, worker, engine, now>>

-----------------------------------------------------------------------------
(* execute_mission_e2e, and what its answer does to the mission. *)

Answered == /\ at' = IF run.cycle THEN "recover" ELSE "idle"
            /\ run' = NoRun

Executed(m, as) ==
  /\ state' = [state EXCEPT ![m] = as]
  /\ IF as = "COMPLETED"
     THEN Release({m}) /\ blocked' = blocked \ {m}
     ELSE /\ blocked' = IF as = "FAILED" THEN blocked \ {m} ELSE blocked
          /\ UNCHANGED <<worker, assigned>>
  /\ Answered

Begin(m) ==
  /\ at = "execute" /\ m = run.of
  /\ \/ m \in Approval /\ Executed(m, "BLOCKED")
     \/ /\ m \notin Approval /\ at' = "run"
        /\ state' = [state EXCEPT ![m] = "EXECUTING"]
        /\ UNCHANGED <<blocked, worker, assigned, run>>
  /\ UNCHANGED <<contracts, registry, wait, engine, bounds>>

(* Seeded fault: the budget is looked at when the run begins only. *)
OverdrawnAtFirst(m) == run.step = 0 /\ spent[m] >= Budget

Overdrawn(m) == spent[m] >= Budget

MayRecover == run.recoveries < MaxRecoveries

(* A node: its capability may be beyond reach, and its result may not      *)
(* verify; the engine then recovers, which is to go on with the next node. *)
Node(m) ==
  /\ at = "run" /\ m = run.of /\ run.step < Len(plan[m])
  /\ resumable' = resumable \cup {m}
  /\ \/ /\ Overdrawn(m)
        /\ Executed(m, "FAILED") /\ spent' = spent
     \/ /\ ~Overdrawn(m)
        /\ \/ /\ MayRecover /\ run.replans < MaxReplans
              /\ run' = [run EXCEPT !.step = @ + 1, !.recoveries = @ + 1, !.replans = @ + 1]
              /\ UNCHANGED <<missions, worker, at>>
           \/ /\ ~(MayRecover /\ run.replans < MaxReplans)
              /\ Executed(m, "FAILED")
        /\ spent' = spent
     \/ /\ ~Overdrawn(m)
        /\ spent' = [spent EXCEPT ![m] = @ + plan[m][run.step + 1]]
        /\ \/ /\ run' = [run EXCEPT !.step = @ + 1]
              /\ UNCHANGED <<missions, worker, at>>
           \/ /\ MayRecover
              /\ run' = [run EXCEPT !.step = @ + 1, !.recoveries = @ + 1]
              /\ UNCHANGED <<missions, worker, at>>
           \/ ~MayRecover /\ Executed(m, "FAILED")
  /\ UNCHANGED <<contracts, registry, wait, bounds>>

Finish(m) ==
  /\ at = "run" /\ m = run.of /\ run.step = Len(plan[m])
  /\ Executed(m, "COMPLETED")
  /\ UNCHANGED <<contracts, registry, wait, engine, bounds>>

(* The end of a cycle resets the degraded workers. *)
Recover ==
  /\ at = "recover" /\ at' = "idle"
  /\ worker' = [w \in Workers |-> IF worker[w].status = "DEGRADED"
                                  THEN [worker[w] EXCEPT !.status = "AVAILABLE"]
                                  ELSE worker[w]]
  /\ UNCHANGED <<contracts, registry, missions, wait, engine, run, bounds>>

Tick ==
  /\ at = "idle" /\ now < MaxTime /\ now' = now + 1
  /\ UNCHANGED <<contracts, registry, missions, wait, worker, engine, at, run, calls>>

-----------------------------------------------------------------------------
Step ==
  \/ Cycle \/ Recover
  \/ \E m \in Missions : Begin(m) \/ Node(m) \/ Finish(m)

Call ==
  \/ \E m \in Missions : Register(m) \/ Plan(m) \/ Preempt(m) \/ Resume(m) \/ Cancel(m) \/ Execute(m)
  \/ \E w \in Workers : FailWorker(w)
  \/ Schedule

Next == Step \/ Call \/ Tick

Spec == Init /\ [][Next]_vars

-----------------------------------------------------------------------------
States == {"RECEIVED", "PREPARING", "EXECUTING", "BLOCKED", "COMPLETED", "FAILED", "CANCELLED"}

(* The arbitrator's state keeps its kinds of value, and a run's recoveries *)
(* never exceed their maximum.                                             *)
ArbitratorTypeOK ==
  /\ deps \in [Missions -> Seq(Missions)] /\ plan \in [Missions -> Costs \cup {<<>>}]
  /\ terms \in [Missions -> [base : [0 .. MaxTime -> Nat], urgent : BOOLEAN,
                             preemptible : BOOLEAN, parent : SUBSET Missions]]
  /\ order \in Seq(Missions) /\ Len(order) = Cardinality(Managed)
  /\ state \in [Missions -> States] /\ blocked \subseteq Managed
  /\ created \in [Missions -> 0 .. MaxTime] /\ wait \in [Missions -> 0 .. MaxTime]
  /\ children \in [Missions -> SUBSET Missions] /\ assigned \in [Missions -> SUBSET Workers]
  /\ worker \in [Workers -> [status : {"AVAILABLE", "BUSY", "DEGRADED"},
                             current : Missions \cup {NoMission}]]
  /\ spent \in [Missions -> Nat] /\ resumable \subseteq Managed
  /\ at \in {"idle", "execute", "run", "recover"}
  /\ run \in [of : Missions \cup {NoMission}, cycle : BOOLEAN, step : Nat,
              recoveries : 0 .. MaxRecoveries, replans : 0 .. MaxReplans]

(* A worker in a mission's list is busy with that mission: no worker       *)
(* serves two missions, and none that failed serves any, however often     *)
(* missions are preempted, resumed, cancelled and given other workers.     *)
Exclusive ==
  \A m \in Missions : \A w \in assigned[m] :
     worker[w].status = "BUSY" /\ worker[w].current = m

(* A mission overdraws its budget by less than the cost of one node, over  *)
(* all its plans and runs, those that were preempted, resumed or repeated  *)
(* included.                                                               *)
BudgetRespected ==
  \A m \in Missions : \E c \in {0} \cup UNION {ToSet(costs) : costs \in Costs} :
     spent[m] < Budget + c

(* The keys of some of the missions in S lead in a circle: each of them    *)
(* has another as a key, or itself.                                        *)
CircleOfKeys(S) ==
  \E C \in SUBSET S : C # {} /\ \A m \in C : \E n \in C : n \in ToSet(deps[m])

(* The search is right about the relation that it follows, whatever paths  *)
(* earlier searches left on its stack: it reports a mission exactly when   *)
(* keys lead in a circle among the managed missions.  Keys are what the    *)
(* code follows; the contract's comment makes them the dependents, so this *)
(* says nothing of missions that wait for each other.                      *)
SearchExact == Deadlocked # {} <=> CircleOfKeys(Managed)

=============================================================================
