# E-ZZIO in TLA+

E-ZZIO is a Python service that runs *missions*: a prompt is decomposed into a
graph of tasks, the tasks are executed by agents with retries and self-repair,
sensitive actions wait for a human's approval, and everything is recorded in a
hash-chained audit ledger. This directory holds TLA+ models of the parts of it
that are hard to test, the TLC runs that check them on small instances, and
TLAPS proofs of their central properties for every instance.

Paths below are relative to the root of the repository. `core/` (57,000 lines of
Python) is the implementation; `routers/`, `web_server.py`, `ezzio_cli.py` and
`tools/` are entry points to it; `_archive/`, `docs/`, `scripts/`, `android/`,
`projects/`, `forge/` are not part of the running core.

## 1. Inventory

| part | state it keeps | operations | what is hard |
|---|---|---|---|
| **Task graph** `core/orchestration/dag.py` | nodes: dependencies, status, retry count | validate, get_ready_nodes, is_completed, is_failed, to_dict/from_dict | SKIPPED counts as completed; READY is a status nothing selects |
| **DAG orchestrator** `core/orchestration/engine.py` | singleton: a semaphore shared by all graphs, handlers | execute_dag, _execute_node, _cascade_skip | waves of asyncio tasks, retries and failures in the middle of a wave, cancellation, re-execution |
| **Mission registry** `core/agent/mission_controller.py` | mission records and graph checkpoints, in memory and in SQLite | register, checkpoint_dag, cancel, pause, resume, reload | swallowed write errors, memory and database that disagree, crashes |
| **Master** `core/ezzio_master.py` | one coroutine per mission | process_command, orchestrate_multi_agent_mission, dag_handler | the final status overwrites an operator's command; two retry loops on one counter |
| **Long-running harness** `core/orchestration/long_running_harness.py` | counters | resume_mission, record_checkpoint, execute_wave | what to do after a crash with a node that was running |
| **Reconciliation** `core/reliability/` | receipts by operation | reconcile_node, register_dispatch, mark_completed | effects whose outcome is unknown |
| **Self-correction** `core/orchestration/self_correction.py` | attempts of one run | diagnose, repair, validate, the loop | termination of nested loops |
| **Human approval** `core/governance/approval/` | a SQLite row per request | request, decide, get, expire, cancel, resume_execution | several processes, expiry against decision, claim against crash |
| **Governed tasks** `core/tasks/manager.py` | a state per task | create_task, transition_task | read, check and update in separate connections |
| **Audit ledger** `core/security/audit_ledger.py` | an append-only table, a hash chain | record_event, verify_chain_integrity | writers with different locks |
| **Worker leases** `core/orchestration/worker_lease.py` | a table of leases | acquire, renew, release, recover | stale clock readings, expiry at the boundary |
| **Cognitive governor** `core/cognition/cognitive_governor.py` | a hash-chained budget ledger and a manifest that attests it | evaluate_and_record | a crash between two files; a lock per process |
| **Decision ledger** `core/cognition/decision_ledger.py` | the ledger, its trusted head, its monotonic floor: three files | record_decision, query_decisions, rotate_secret_key | one transaction over three files, a file lock that is given up, crashes between the writes, rotation of the key |
| **Provider keys** `core/cognition/providers/key_pool.py`, `core/providers/groq_provider.py` | a slot per key with a status and a cooldown, a rotating index | get_next_key, mark_*, generate, health, stream, availability | answers that come late, concurrent rotations |
| **Complex tasks** `core/agent/complex_task_orchestrator.py`, `patch_engine.py`, `agent_guard.py`, `core/routing/circuit_breaker.py` | files, snapshots, a persistent breaker, counters, evidence | execute_complex_task, apply_patch, rollback, run_self_repair | what is left when a step fails or the process dies; evidence that agrees with the disk |
| **Multi-mission arbitrator** `core/operations/multi_mission_arbitrator.py`, `continuous_operations_loop.py`, `core/agent/autonomous_e2e_engine.py` | missions, workers, preemptions, a budget per mission | register, arbitrate, preempt, resume, cancel, worker failure, cycles, execution | two records of one assignment, identifiers registered again, circles of dependencies |
| **Other pools and breakers** `core/models/key_pool.py`, `core/runtime/circuit_breaker.py`, `core/runtime/backend_supervisor.py` | cooldowns, failure counts | acquire, mark, allow, record | check and act in separate steps |
| **Budget and retry governors** `core/governance/` | spent and reserved amounts | preflight, postflight, evaluate_retry | concurrent reservations |

The rest (providers and model routing, capabilities, memory, identity,
constitution, desktop control, voice, chat, routers) is listed with its reason
in `PROJECT.json`.

How the parts interact. The master registers a mission, builds a `TaskDAG` and
awaits `DAGOrchestrator.execute_dag`; the engine calls the master's
`dag_handler` for each node, which runs the self-correction loop, and after each
wave calls `mission_registry.checkpoint_dag`. Operators reach the registry
through the routers. The approval manager, used by the web server, by a command
line tool and by the worker's gateway, moves governed tasks and records audit
events. The engine, the approval manager and the self-correction engine each
own an `AuditLedger` object on the same file. `resume_mission`,
`reconcile_node`, the leases and the arbitrator's loop are called by the tests
of the repository only: the models compose them as those tests do. A decision is
recorded through the universal gateway, which asks the cognitive governor while
the decision ledger's locks are held: one of the process, one of the file that a
writer may give up, and inside them the governor's, which is of the process.
The complex task engine consults a breaker that lives in a file and outlives it.

Correctness, part by part, is stated in section 4; every hazard found in the
source is in `PROJECT.json` under `hazards`, with the properties that cover it
or the reason why none does.

## 2. Plan

Done:

1. `TaskDag`, `DagEngine` with the contract it implements, `DagEngineProofs`;
2. `MissionRecovery`, which composes the engine with the registry, the master,
   crashes, resumption and reconciliation; proved in `DagEngineProofs` as well;
3. `SelfCorrection`, `Approval`, `AuditLedger`, `WorkerLease`, with proofs;
4. `CognitiveGovernor` and `DecisionLedger`, which composes the two through the
   gateway, with proofs;
5. `KeyRotation`, `ComplexTask`, with proofs;
6. `Arbitrator`: the multi-mission arbitrator, its loop and its engine, with
   proofs, which cover its deadlock detector;
7. the order of dependencies, the skipped nodes and the success of a mission over
   crashes and resumptions, proved about `MissionRecovery`.

Next, in order of importance:

8. the life of the engine's contract over crashes: `MissionRecovery` as an
   implementation of a `DagContract` in which a process may forget what it has
   not saved;
9. `Budget`: preflight and postflight of calls in flight;
10. `ActionLog`: operation identities and receipts, composed with
    reconciliation: a receipt never stands for another node's work;
11. the desktop controller's safe actions (`core/safe_actions.py`).

## 3. Modules

| module | models | abstraction |
|---|---|---|
| `TaskDag` | `dag.py` and the set `_cascade_skip` computes | identifiers are model values; a graph is a function `Deps` that some ranking orders, which is what `validate` accepts; the worklist of `_cascade_skip` is the least closed set |
| `DagContract` | the abstract specification | a node is todo, active, done or dead; a graph is open, a success or a failure |
| `DagEngine` | `execute_dag`, `_execute_node` | below |
| `MissionRecovery` | `DagEngine` with the registry, master, crash, restart, `resume_mission`, `reconcile_node` | below |
| `SelfCorrection` | `execute_with_self_correction` inside the engine's retries | nodes are independent; validity and repairability are choices |
| `Approval` | approval manager and store, task transitions | below |
| `AuditLedger` | `record_event` by instance and writer | a hash is a number never used before |
| `WorkerLease` | the four operations of the lease manager | a clock in ticks; a call reads it, then acts under the lock |
| `CognitiveGovernor` | `evaluate_and_record` by threads of several processes | a hash is a number never used before; a cost is a number |
| `DecisionLedger` | `record_decision` through the gateway and the governor, `rotate_secret_key`, the checks of `query_decisions` | below |
| `KeyRotation` | the pool of one provider and the calls that share it | time is what is left of each cooldown |
| `ComplexTask` | the engine, its patches, tests, repairs and evidence | below |
| `Arbitrator` | arbitration, the calls on missions and workers, cycles, execution of a mission | below |
| `MC*` | instances for TLC | model values, the shape of the graph |
| `*Proofs` | theorems | |

**DagEngine.** Python runs a coroutine alone between two awaits, so what lies
between two awaits is one action. `Begin` is `execute_dag` up to its first
gather; `EndWave` is the return of the gather, the checkpoint and the next turn
of the loop (`LoopPass`: `Finish`, `Block` or `LaunchWave`); `Cancel` is the
cancellation of a gather; `StartNode` and `NoHandler` are `_execute_node` from
the semaphore to the await of the handler, `HandlerReturns`, `HandlerRetries`
and `HandlerFails` what follows the handler. Variables: `status`, `retries` are
the node's fields, `task` the place of its coroutine, `phase` and `verdict` the
execution of each graph, `checkpoint` what the registry was last given, `starts`
and `reruns` count for the properties. The branch that polls while a node is
RUNNING outside of a wave cannot be reached: `Begin` resets such nodes. The
failures of audit events and of the checkpoint are swallowed by the code and
left out. The handlers' results, which no property distinguishes, are too.

**MissionRecovery.** A mission and its graph share an identifier. `mission`,
`checkpoint` and `saved` are the registry in memory, `db` its rows. `SaveRecord`
is `_save_record_to_db`, which writes the status and the last checkpoint
(COALESCE keeps the old graph if there is none) and may fail silently. `Crash`
forgets the memory and lets any subset of the external calls in flight land;
`Restart` is `_load_from_db`; `ResumeGraph` is `resume_mission`; `Reconcile` is
`reconcile_node` with a truthful probe or none, before the graph is executed
again. `MidWave` says whether some caller checkpoints while nodes run, as the
harness and the recovery tests do and the engine does not. `Conclude` is the
master's last step, in memory only. `HandlerRepairs` is the self-correction loop
inside the handler, which writes the number of its attempt (`attempt`) over the
node's retry count. `interrupted` and `caught` are histories: external nodes that a
crash caught in their handler, and those of them whose row in the database said
RUNNING at that moment, until they are reconciled.

**Approval.** A caller is a process that runs one operation at a time; `pc` is
its place, `on` its request, `aim` what it is about to make of the request or
task. A transaction is `BeginTransaction` (write lock, row and clock read) and
`CommitUpdate` or `CommitClaim`. Checks outside a transaction (`Find`,
`Resume`) read committed rows and may be stale by the time the transaction
starts. `ReadTask` and `WriteTask` are the two halves of `transition_task`; a
transition that raises is swallowed and the operation goes on. `Audit` records
an event, `Finalize` writes the final state. The TTL is a set of requests that
have `expired`. A process may die anywhere; its open transaction is rolled back
by SQLite. The integrity and context checks of `resume_execution` only raise
before anything changes, and are left out; so is `list_pending`'s order.

**AuditLedger.** `SelectLast` takes the lock of the writer's instance and reads the
last hash, `Insert` commits the row, `Lose` is a write that raises or a process that
dies. `InstanceOf` spreads the writers over `AuditLedger` objects, and a row remembers
which object wrote it. **WorkerLease.** `Call` reads the clock, `Acquire`, `Renew`,
`Release` and `Recover` are the bodies under the lock. A worker knows the last lease
it was given; the table and the worker share the lease object, as in the code.
**SelfCorrection.** `Repair` contains the assignment of the plan's number to
`node.retry_count`, `GiveUp` the engine's `retry_count += 1` and its test. A run
*relapses* when it fails beyond repair after a repair, with repairs left: only then
does the repair's write give back retries that the engine had charged.

**CognitiveGovernor and DecisionLedger.** A caller is a thread, and `processOf` says
in which process it lives. `Evaluate`, `Weigh`, `Link`, `AppendBlock`, `Attest` and
`CheckAgain` are `evaluate_and_record`, cut where it reads or writes a file, since
another process may come in between: verification, the spend, the last hash, the
line, the manifest, and verification again. The lock is a class attribute
(`ClassLockFree`: one per process). `EnterRecord` takes the transaction lock
(`TakeLock`): it waits for the lock of the process, and goes on with the lock of the
file or, after a hundred attempts, without. `met` remembers that a call went on while
a caller of another process was between the same two locks; what holds only as long
as this has not happened says so. `AskGovernor` goes through the gateway;
`AppendLine`, `CommitHead`, `CommitFloor` and `Leave` are `commit_decision` and
`_commit_head_and_monotonic_state`; `Raise` is a denial or an error on the way out.
`EnterRotate`, `Reseal` and `Replace` are `rotate_secret_key`, which reads the ledger,
signs and links every line again in a file of one name for all rotations, and puts it
in the ledger's place. `AskDirectly` is a caller of the governor that records no
decision, in any process. Each caller has an engine and a key of its own. `Crash`
kills a process between any two writes: a line of either ledger may be cut short
(`whole`), and the next line continues it (`Written`); a manifest being rewritten may
be left empty; the other files are replaced by `os.replace`. A last line that cannot
be parsed makes the index start again at 0 (`NextIndex`). A process restarts with any
key chosen so far. The lock is that of Windows, where the service runs; section 4 says
what differs elsewhere.

**KeyRotation.** The calls are coroutines of one loop, so each runs alone between
two awaits: `Send` is `get_next_key` up to the request, `Refused`, `Succeeded` and
`Unmarked` what follows the answer, with `mark_*` written without a look at what
the slot has become. `generate` has one attempt per slot, `health` and `stream`
one, and a stream marks nothing. `owed` is a history variable for `RoundRobin`.

**ComplexTask.** A step ends where a crash or an exception would leave something
different on the disk: `Snapshot`, `Open` (the file is truncated), `Write`,
`Accept` or `Reject` and `Rollback` for each patch; then the tests (`Passes`,
`Fails`), the repair (`Consult` of the breaker, `Attempt`, `Exhausted`), `Conclude`
with the evidence. `Abort` is an exception or a crash at any place. A text is
numbered by its file and its place among all texts written; a patch makes a new
text, the one it found, or the one the task found (`Patched`); a file that is being
written is `Torn`. The review reads the file through a tool that answers with the
text of an exception when it fails: such a text is no Python, and passes for any other
file (`Accept`). `Restored` finds the latest snapshot by the prefix of its
name, as `rollback` does, so another file's snapshot can shadow it (`Shadow`);
two snapshots in one millisecond have one name (`Snapped`). That the engine's
counters of files and commands are exceeded is a choice, since they only grow
over an engine's life; the tests related to the targets and `auto_repair` are
chosen where they are first read.

**Arbitrator.** `Register` adds a mission, or replaces the record of one that is
known: its list of workers and its children are gone, and the workers stay busy.
`Plan` is `build_execution_plan`, at any time, which replaces the nodes and the
dependencies of a contract or fails it. `Arbitrate` is
`arbitrate_and_schedule`, called for itself (`Schedule`) or by a `Cycle` of the
loop: waiting times, deadlock check, the score, preemption and the allocation in
one step, as in the code. `Preempt`, `Resume`, `FailWorker`, `Cancel` are the
calls; `Begin`, `Node` and `Finish` are `execute_mission_e2e` node by node, with
its budget, recoveries and replans; `Recover` is the end of a cycle. `state`,
`assigned` and `blocked` belong to the missions, `worker` to the workers, which
keep a status and a current mission of their own. A score is a number per mission
and time (in its `Terms`) plus the waiting time. `deps` holds the keys of a contract's
`dependencies`, which are what the detector follows. The depth-first search
of the detector is the recursive function `Follow` on states of the search
(`Search`: what is visited, on the stack and ahead), `Reporting` collects what a
launch of it reports, and `Deadlocked` is the sweep over all missions; they leave
a path on the stack where the code returns early. `Family` is the least set that
`cancel` reaches through the children.

Operators marked *Seeded fault* are altered forms of the operator that follows
them. They are used only to show that the properties can fail.

## 4. Runs

All bounds are constants of the configurations. Deadlock is checked in
`key_rotation` and `arbitrator`, whose systems never stop. It is off in the others:
executions, missions, tasks and requests end, and nothing obliges a caller to
start another (the bounded counters stop as well).

| run | instance | shows |
|---|---|---|
| `dag_engine` | a diamond of four nodes, and a chain of three whose second node has no handler; 2 slots, 1 retry, 1 re-execution; 264,936 states | `DependencyOrder`, `CheckpointConsistent`, `VerdictSound`, `SkipsFollowFailures`, `RetryBudget`; `ExecutionEnds`; the engine implements `DagContract` |
| `recovery` | a node and an external one that depends on it, background mission, the default 2 retries and repairs in one run of a node, checkpoints at any time, all commands, writes that may be lost, 2 crashes; 3,491,950 states | `CaughtIsReconciled`, `DurableWorkKept`, `DurableProgress`, `CancelSticks`, `SuccessMeansDone` |
| `blind_replay` | three nodes, the second external, checkpoints between waves only, 1 retry, 2 crashes, no command | `NoBlindReplay` is violated |
| `self_correction` | 3 nodes, the default 2 retries; 24,389 states | `WorkBounded`, `SettlesUnlessRelapsing` |
| `relapse_forever` | 1 node, the default 2 retries | `EveryNodeSettles` is violated |
| `approval` | 3 interchangeable processes, 1 request, 1 failure, 1 death; 511,052 states | `OneWinner`, `ConsumedOnce`, `RunsOnlyApproved`, `TaskRunsOnlyClaimed`, `DecisionIsFinal` |
| `audit_ledger` | 2 writers on one `AuditLedger` and one on another, 6 events; 182,327 states | `OwnRowsChained` |
| `worker_lease` | 2 workers, 1 task, lifetimes of 1 and 3 ticks, 6 ticks; 176,130 states | `Exclusive`, `NotTakenOver` |
| `decision_ledger` | 2 callers, in one process or in one each, who record, rotate and ask directly; 3 hashes, 1 rotation, 1 crash, a budget of 3; 1,032,618 states | `BudgetChained`, `WithinBudget`, `LedgerChained`, `RecordedIsReadable`, `NoFalseRollback`, `OverspendBounded`, `BrokenChainStops`, `CallsReturn` |
| `key_rotation` | 3 keys, 2 calls, cooldowns of 2 ticks; 204,289 states | `RoundRobin`, `QuietKeyStaysBlocked`, `CallsEnd` |
| `complex_task` | 3 files (one protected, one that shadows another and is no Python), 2 patches, 2 tests, 1 repair attempt, a threshold of 1, at most 3 writes; 2,445,965 states | `ValidatedSound`, `EvidenceComplete`, `Recoverable`, `TaskEnds` |
| `arbitrator` | 3 missions, 2 workers, plans of 2 nodes whose keys make a diamond or circles, 1 recovery, 1 replan, 1 tick, 3 calls; 8,399,483 states | `Exclusive`, `BudgetRespected`, `SearchExact` |

Type invariants are proved for every instance (section 5) and not repeated in the
runs. Nor are `AvailabilityTruthful` of `KeyRotation`, which follows from the types
alone, `AttestedButOne` of the governor, `DependencyOrder` over crashes, and
`SettledIsFinal` of the engine, which is part of the contract that `dag_engine`
checks.

**Why the bounds are enough.** The diamond has a join, a fork and a transitive
dependent, so a failure can race a sibling, a retry can follow a sibling's completion,
and a skip can reach a node through two paths; the second graph competes for the slots
and then fails without a cascade, leaving a dependent. One retry reaches both sides of
the retry test; two slots are fewer than the three nodes that may be launched
together. One re-execution reaches every status a cancelled graph can be left in.
Where the handler's repairs meet the engine's retries (`recovery`, `self_correction`,
`relapse_forever`) the bound is the default of two, since with one a repair cannot
give a retry back. `recovery` lets a handler repair in one run of its node
(`MaxRepairing`), because runs that relapse may follow each other for ever. Two
crashes let the recovery itself be interrupted. In the approval run a third process
can interfere with a race of two; requests share no state, so one is enough. Two
threads of one `AuditLedger` race each other while a foreign object inserts between
them. Six ticks let a lease of three expire, be taken over and expire again. Three
hashes, counted where a call starts, are a decision with its budget block and another
that began before them, or a crash in the middle of one and its repair by the next, or
a decision and its rotation; a call that has started may compute more. A budget of 3
allows one request of cost 2 and denies, or grants in an emergency, the second, which
two processes may both be allowed. Three keys and two calls let one call rotate past
the key on which the other waits. One repair attempt passes or fails and trips the
breaker; a file can be patched twice in one task, with a text that there was or a new
one, while a second snapshot replaces the first. Two workers for three missions make a
mission wait, be preempted and lose its worker to a failure; three calls let a call
undo what two others did (preempt, register again and resume; plan anew and execute
again).

**Fairness.** `dag_engine` assumes weak fairness of `EndWave` and of each node's
coroutine: the event loop runs every coroutine that is ready, the semaphore serves its
waiters in order, and a handler is assumed to return or raise (the engine sets no
timeout). Nobody is obliged to execute or cancel a graph. `SelfCorrection` assumes
weak fairness of each node. `DecisionLedger` assumes weak fairness of a thread's own
steps and strong fairness of `AskGovernor`: the governor's lock is held for a few
writes and is granted to a thread that keeps asking for it. `KeyRotation` assumes weak
fairness of asking and answering (the event loop runs what is ready; that a provider
answers is an assumption about the environment, since httpx's timeouts are per read
and a stream also waits for its consumer) and of `Tick`. `ComplexTask` assumes weak
fairness of the engine's steps: it is one synchronous function, and the commands it
runs have timeouts. The other runs check safety only; nothing is assumed of the
arbitrator's loop, which no caller in the program runs repeatedly.

**What the violations say.** The harness marks a RUNNING external node
OUTCOME_UNKNOWN when it resumes, to be reconciled. But the engine checkpoints
between waves, where nothing runs, so the interrupted node is PENDING in the
checkpoint and is executed again although its effect may have landed
(`blind_replay`). `CaughtIsReconciled` is what does hold: a node that a durable
checkpoint found RUNNING is reconciled first, even if later writes are lost. It does
not forbid that a node be dispatched again once its reconciliation has shown that
nothing had happened, which `reconciliation.py:139` calls a safe retry.

`long_running_harness.py:7` promises "Strict bounded retries and repairs (no infinite
loops)." The repair loop writes `node.retry_count` (`ezzio_master.py:831`), which the
engine counts in (`engine.py:212`): with the default of two retries, a run that
repairs once and then fails beyond repair leaves the counter at 2, never exhausted, and
the node is launched again, for ever (`relapse_forever`). What holds at the default is
that nothing but such relapses keeps a node from settling, and that between two of them
the loops add up. `RetryBudget` and `ExecutionEnds` of `dag_engine` are about the
engine alone, whose counter nobody else writes there.

**What the limited properties leave out.** `TaskRunsOnlyClaimed` is about a task with
one approval. `QuietKeyStaysBlocked` speaks of a key on which no request is in flight;
one that is in flight revives its key when it is answered late. `NoFalseRollback`,
`LedgerChained`, `RecordedIsReadable`, `BudgetChained` and `WithinBudget` hold as long
as no two processes met without the file lock; `OverspendBounded` and
`BrokenChainStops` say what is left when they did. `EvidenceComplete` exempts a file
whose snapshots another file's shadow, and lets the list name files that a patch left
as they were. `SearchExact` is about the keys of the dependencies, see below.

**Read in the source, and given no run.** What follows was met while modelling. It
is either visible in a line or two, or follows from a property of the models with
one assumption removed.

*Missions.* `pause` and `resume` write a status that nothing reads
(`mission_controller.py:302`). A foreground mission that is cancelled runs on and
its status is overwritten (`ezzio_master.py:1064`), where a background one stops
(`CancelSticks`); the final status is never written to the database. A node that
reconciliation proves not dispatched becomes READY for a safe retry
(`reconciliation.py:8`, `:139`), but `get_ready_nodes` selects PENDING nodes only
(`dag.py:236`), so the retry never comes and the graph ends FAILED. Two calls of
`execute_dag` on one graph at once would reset each other's RUNNING nodes
(`engine.py:70`).

*Approval and audit.* `expire` ignores whether its update went through
(`approval/manager.py:247`): an approval that won is followed by an
APPROVAL_EXPIRED event and a cancelled task. `save_request` of an identifier that
exists resets it (`store.py:79`). `transition_task` (`core/tasks/manager.py:174`)
can overwrite a cancellation committed between its read and its update. Two
`AuditLedger` objects on one file have different locks
(`audit_ledger.py:33`, `:92`), and the program makes several (`audit_ledger.py:183`,
`approval/manager.py:74`, the engine, self-correction, the command line): they can
read the same last hash and fork the chain, which then fails its verification for ever,
where `audit_ledger.py:25` says "protégé contre les écritures concurrentes".
`AuditLedger` has this interleaving in its run; `OwnRowsChained` is the part of the
claim that survives it.

*Budget and decisions.* A crash between the budget's append and its manifest makes
every later evaluation refuse, and with it every decision, for ever: safe, and proved
(`AttestationSafe`), but without a way back in the code. The "session" budget is
summed over the whole file. EMERGENCY_ALLOW is counted as spent, and then the gateway
lets nothing but ALLOW run. `decision_ledger.py:95` promises an interprocess lock, but
on Windows the file lock is given up after a second, or at once if its file cannot be
opened (`decision_ledger.py:106`), and nothing tells the caller: two processes can
then fork the ledger, and be allowed more than the budget. A last line that cannot be
read starts the numbering again at 0 (`decision_ledger.py:232`): the head then falls
below the floor, and an honest ledger is taken for one rolled back. On POSIX the
rotation locks a file its own process already holds through another descriptor, and
waits for ever (`decision_ledger.py:501`). Nobody calls `rotate_secret_key`; if
somebody did, the other engine of the same process (`ezzio_kernel.py:33`,
`hardware_resource_governor.py:80`) would keep the old key and could not read the
ledger any more. `web_provider.py:70` calls the budget governor with arguments it does
not have, and catches the error as a permission, where `budget_governor.py:6` promises
to fail closed.

*Keys.* A success or a 429 that arrives late revives a key that was refused for good
in between (`key_pool.py:125` marks the slot whatever it has become). Concurrent
rotations may report that all keys are exhausted though one was never tried by that
call (`groq_provider.py:351`). `restore_state` has no caller. There are three
different `CircuitBreaker` classes; that of `core/runtime` admits any number of probes
when half open, and `HybridLLMClient` records in one it never consults.
`core/models/key_pool.py` chooses a key and marks it in separate steps, and has no
caller in production.

*Complex tasks.* `rollback_applied` is reported although earlier patches of the same
task stay. A patch that changes nothing (an empty search and replace, or equal ones,
`patch_engine.py:80`) reports SUCCESS and is listed as a changed file. A file that is
not Python passes its review when it cannot be read: the text reviewed is then "[TOOL
EXCEPTION] ..." (`tools_registry.py:291`, `agent_guard.py:136`). An in-place save of
the breaker that is interrupted (`routing/circuit_breaker.py:33`) forgets every
failure counted before, so no number of restarts is bounded by it. A rollback finds
its snapshot by a prefix of the name, and may restore another file's text (`Shadow`).
A self-repair changes nothing and runs the test again. `modified_files` is never reset
(`agent_guard.py:183`), so an engine that lives long refuses every task.
`record_failure` does not reload the breaker's file (`routing/circuit_breaker.py:67`),
so two processes forget each other's failures.

*Arbitrator.* The detector takes the keys of a contract's dependencies for the
missions it waits for (`multi_mission_arbitrator.py:191`), where
`autonomous_e2e_engine.py:64` says "node_id -> amont dependencies" and
`tests/test_v10_10_autonomous_operations.py:158` writes `{c1: [c2]}`: a contract A
with `{A: [B]}` is reported although nothing waits in a circle, and circles of the
values are not looked at. `SearchExact` shows the search right about the keys and no
more. Dependencies are compared with identifiers of missions, so only contracts whose
nodes bear such identifiers, as in the tests, are ever looked at. Registering an
identifier again, or assigning a mission another worker, leaves the worker it had BUSY
with it, and no release finds it any more (`multi_mission_arbitrator.py:137`). No
caller in the program runs the control loop repeatedly, so nothing says that a mission
which waits is ever served. A mission that reaches a circle is reported with it only
if the search started there, and its BLOCKED health is cleared only by another call. A
mission that failed or waits for approval keeps its workers until it is cancelled.
`resume` gives no worker and accepts missions that have ended; the failure of a worker
revives the mission it last served, even a completed or cancelled one, and an
assignment overwrites the list of workers that preceded it. A mission is COMPLETED
although nodes failed verification, up to the number of recoveries.
`max_concurrent_missions` and the operating mode are never read.

*Routers.* `routers/tasks.py:89` creates a generator that nothing iterates, so
every task it starts ends FAILED.

## 5. Proofs

For every value of the constants that satisfies the assumptions (checked with
`tlapm`):

* `DagEngineProofs`, about the engine: `TypeCorrect`, `DependencyOrderHolds`,
  `CheckpointAlwaysConsistent`, `SettledNodesAreFinal`, `RetryBudgetHolds`,
  `SkipsFollowFailuresHolds`, `VerdictSoundHolds`, `EngineImplementsContract`.
  Assumptions: the graph is what `validate` accepts, dependencies stay within a
  graph. `DependencyOrder` is inductive with the type invariant: a launched node
  keeps its COMPLETED dependencies, because only `ResetRunning`, a handler, a skip
  or a block change a status, and none of them touches a COMPLETED node. The
  checkpoint is consistent because it is taken when the wave is done, and then no
  node runs; the strengthening says that a RUNNING node has a coroutine or a
  cancelled graph. `BudgetInv` counts a node's starts against its retries and the
  executions of its graph. `SkipInv` needs that the set `_cascade_skip` reaches is
  closed (`DownstreamClosed`) and caused (`DownstreamCaused`). `VerdictInv` needs
  that a finite graph which some ranking orders has a first unfinished node
  (`FirstNode`, by well-founded induction), so that a graph in which nothing is
  ready and nothing failed is completed. The refinement maps initial states to
  initial states and every step to a step of `DagContract` or a stutter.
* `DagEngineProofs`, about `MissionRecovery`: `RecoveryTypeCorrect`,
  `DurableWorkIsKept`, `DurableProgressHolds`, `CancelIsSticky`,
  `OrderSurvivesCrashes`, `SkipsSurviveCrashes`, `SuccessIsEarned`,
  `CaughtIsReconciledHolds`, for any number of crashes, lost writes and repairs.
  `Alive` says that a coroutine belongs to a graph that is held and gathering and
  to a node still to be done, which is what lets the engine's steps be summed up in
  one lemma (`EngineEffect`). `Kept` ties the three copies of a graph: COMPLETED in
  the database implies COMPLETED in the registry's memory, which implies COMPLETED
  in the graph if there is one; no single copy is inductive, since a save copies
  memory to the database and a resumption copies memory to the graph. `CaughtInv`
  says of an external node that a crash caught after a durable RUNNING that every copy
  of its graph says RUNNING or OUTCOME_UNKNOWN, so that neither a save, lost or not,
  nor a resumption makes anything else of it before it is reconciled; memory and
  database need not agree. `CancelInv`: a cancelled background mission has no coroutine,
  and no verdict is ever in the database, so a restart cannot bring one back.
  `ResumableInv` says of each of the three copies of a graph that it is `Coherent`: a
  node that runs, is done, or whose outcome is unknown had its dependencies
  (`Ordered`, which is why reconciliation may complete it), skips follow failures,
  a FAILED or READY node had its dependencies, and a BLOCKED one had too unless its
  graph has come to rest (`Cascaded`, which is why a cascade in a resumed graph
  finds every dependent PENDING or skipped). It is inductive because saves and
  resumptions take a graph as a whole (`SaveWhole`, `CoherentByGraph`).
  `DependencyOrder` and `SkipsFollowFailures` follow over any number of crashes,
  and so does `SuccessMeansDone`, with `StandingVerdicts` (a verdict that stands is
  borne out by the nodes) and the fact that no verdict is in the database. The
  other half of `VerdictSound` does not survive: a graph with a READY or a BLOCKED
  node ends FAILED without a failed node.
* `ApprovalProofs`: type correctness, and from one inductive invariant, all five
  properties. The invariant ties the claim to the row: a caller between claim
  and finalization implies that `exec` is RUNNING and that the caller is the
  only one; a CONSUMED row has had one executor return; a transaction belongs to
  the holder of the lock. It is needed because the properties say nothing of
  callers between their check and their transaction.
  The module also holds the proofs about `AuditLedger`: `AuditTypeCorrect`, and
  `OwnRowsChainedHolds` for any spreading of the writers over ledger objects. The
  invariant: a writer between its read and its insert holds the lock of its object
  (`LockInv`), and what it read is at or after the last row of that object (`ReadInv`),
  which the insert of another object leaves true.
* `WorkerLeaseProofs`: `ExclusiveHolds`, `NotTakenOverHolds`. The invariant: a
  lease that is valid for a worker is the one in the table, and a time read by a
  call is not later than the clock. Also `TypeCorrect`.
* `SelfCorrectionProofs`: `WorkBoundedHolds`, for any number of retries. The
  invariant pays for every execution (`CostInv`): a run that failed at its first
  attempt cost a retry that is still counted, and a repair sets the count to its
  attempt, so the executions since the last relapse stay within the two limits
  together. Also `TypeCorrect`.
* `DecisionLedgerProofs`: `TypeSafe`, `ChainSafe`, `RollbackSafe`, `ReadableSafe`,
  `BudgetSafe`, `SpendSafe`, `AttestationSafe`, `BrokenChainSafe`, for any callers,
  deployments, costs, crashes and rotations. All but the first and the last hold as long
  as no two processes met, so their invariants have the form `met \/ ...`. `LedgerInv`:
  whoever is inside is alone (`Alone`), what it has prepared fits the ledger it read
  (`DraftFits`, `WorkFits`, `RekeyFits`), the lines carry their places (`Numbered`), and
  head and floor are not ahead of them (`HeadWithin`, `FloorWithin`). `GovernorInv`:
  one caller is in the governor (`OneInGovernor`), and what it weighed, linked and
  wrote fits (`Prepared`, `BlockFits`, `ManifestFits`, `BlocksLinked`, `AllowedFits`,
  `Within`); the sums need only their last step, since the ledger grows at its end.
  `BrokenChainSafe` needs no condition. Its invariant counts (`Stopping`): the blocks
  after a bad one and the processes that still owe a write (`Owed`) are fewer than the
  processes, because a class lock admits one thread of each (`OnePerProcess`), and once
  the chain is bad verification refuses, so that nobody joins them.
* `KeyRotationProofs`: `TypeSafe`, `RotationFair`, `AvailabilitySafe`,
  `QuietKeySafe`, for any number of keys and calls. Round
  robin follows from `MetBefore`: a key owed since another was handed out can still
  be had, and the search meets it before it meets the other again.
* `ComplexTaskProofs`: `TypeSafe`, `ValidatedSafe`, `EvidenceSafe`, `RecoverySafe`, for
  any files, patches, tests and bounds. The invariant has a part
  for each of the records that must agree: the texts on disk (`TextsReal`,
  `Reviewed`), the evidence (`Evidenced`), the patches accepted or undone
  (`Settled`), the tests still owed (`Owing`, `Validated`).
* `ArbitratorProofs`: `ArbitratorTypeCorrect`, `WorkersExclusive`, `BudgetHolds`,
  `SearchRight`, for any missions, keys, workers, plans, terms and bounds.
  `ArbitratorInv` strengthens exclusion with what a choice needs: only managed
  missions have workers or run, and none was created in the future, so the score
  of every candidate is a number and some candidate has the highest
  (`HighestThere`, `ChoicesThere`). Exclusion is a matter of two records, of the
  mission and of the worker: a release clears both (`ReleaseExclusive`), and an
  assignment takes an AVAILABLE worker of nobody (`AllocateFits`). `SearchRight`
  says that the search reports a mission exactly when the managed missions have a
  circle of keys. That the recursive function exists (`FollowExists`) is shown by iterating
  its body from the identity (`Iterates`): the first search on which the iterates
  never settle would be settled by those after it, since each call visits a new
  mission or shortens what lies ahead (`Before`, `FirstSearch`).
  What it computes is shown of a first counterexample in the same order
  (`FollowSound`): a mission visited and no longer on the stack leads to no circle
  (`Sound`), and the stack is a path (`OnPath`), although the code leaves it behind
  after a circle was found. `AllSearched` then goes through the missions one launch
  after another.

Model-checked only: liveness (`ExecutionEnds`, `SettlesUnlessRelapsing`,
`CallsReturn`, `CallsEnd`, `TaskEnds`), which is out of the prover's reach, and
`OverspendBounded`, whose proof would add up a recursive sum over the requests of each
process. Every other property of the passing runs is stated by a theorem.
`NoBlindReplay` and `EveryNodeSettles` are what the code does not do.

## 6. Not modelled

The contents of prompts, results, payloads and audit events; logging; HTTP; time,
except as expiry and ticks (clocks are assumed not to go back); disks that lose what
was synchronised, and an `os.replace` that fails; an `execute_dag` called twice at
once on one graph, and an approval identifier requested twice, which no caller in the
repository does; two complex task engines in one workspace; the components that
`PROJECT.json` lists as not modelled.

## 7. Running

    tlc -workers 2 -config MCDagEngine.cfg MCDagEngine
    tlc -workers 2 -config Recovery.cfg MCMissionRecovery
    tlc -workers 2 -config Approval.cfg MCApproval
    tlc -workers 2 -config DecisionLedger.cfg MCDecisionLedger
    tlc -workers 2 -config KeyRotation.cfg MCKeyRotation
    tlc -workers 2 -config ComplexTask.cfg MCComplexTask
    tlc -workers 2 -config Arbitrator.cfg MCArbitrator
    tlapm DagEngineProofs.tla
    tlapm ArbitratorProofs.tla

The other configurations are named after their runs in `PROJECT.json`.
