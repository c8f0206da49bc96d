---------------------------- MODULE ComplexTask ----------------------------
(***************************************************************************)
(* The coding agent's complex tasks: ComplexTaskEngine                     *)
(* (core/agent/complex_task_orchestrator.py) patches files with            *)
(* PatchEngine (core/agent/patch_engine.py), reviews each patch and rolls  *)
(* a rejected one back, runs the related tests, repairs under a persistent *)
(* circuit breaker (core/routing/circuit_breaker.py) and a budget          *)
(* (core/agent/agent_guard.py), and records evidence.                      *)
(*                                                                         *)
(* One engine works on the workspace.  A step of the model ends where a    *)
(* crash or an exception leaves something different on the disk.           *)
(***************************************************************************)
EXTENDS Integers, Sequences, FiniteSets

CONSTANTS
  Paths,        (* the files of the workspace                               *)
  Protected,    (* those that the policy guard lets nobody modify           *)
  Python,       (* those whose names end with ".py"                         *)
  Shadow,       (* p -> the files whose snapshots' names begin with p's     *)
                (* name and sort after p's own: "m.pyi" for "m.py"          *)
  Tests,        (* the test files                                           *)
  Key,          (* p -> the breaker of p: its base name                     *)
  MaxPatches,   (* bound: patches of a task                                 *)
  MaxAttempts,  (* max_attempts of run_self_repair                          *)
  Threshold,    (* failure_threshold of the breaker                         *)
  Timeout,      (* its recovery_timeout_sec                                 *)
  MaxWrites     (* bound: times that a file is written                      *)

ASSUME TaskAssumption ==
  /\ Protected \subseteq Paths /\ Python \subseteq Paths
  /\ Shadow \in [Paths -> SUBSET Paths] /\ \A p \in Paths : p \notin Shadow[p]
  /\ DOMAIN Key = Paths
  /\ MaxPatches \in Nat
  /\ {MaxAttempts, Threshold, Timeout, MaxWrites} \subseteq Nat \ {0}

VARIABLES
  file,       (* the text of each file                                      *)
  latest,     (* the snapshot of each file with the latest stamp, or none   *)
  older,      (* the other snapshots of each file                           *)
  breaker,    (* circuit_breakers.json: failures of each key, and the time  *)
              (* left of its timeout                                        *)
  at,         (* where execute_complex_task is                              *)
  todo,       (* paths of the patches still to apply                        *)
  applied,    (* applied_patches, which is files_changed as well            *)
  suite,      (* tests still to run                                         *)
  failing,    (* the test under repair, if there is one                     *)
  auto,       (* auto_repair                                                *)
  attempt,    (* attempts made by this repair                               *)
  allPassed,  (* all_passed                                                 *)
  evidence,   (* what the task recorded when it ended                       *)
  (* history *)
  written,    (* times that a file was written, the originals counted as one *)
  unsound,    (* those that do not parse, or are too long                   *)
  before,     (* the files when the task began                              *)
  prev,       (* the text before the patch of each file whose last patch    *)
              (* was neither accepted nor undone, none for the others       *)
  owed        (* tests of the task that have not passed since its last patch *)

disk == <<file, latest, older>>
patching == <<todo, applied>>
testing == <<suite, failing, auto, attempt, allPassed>>
texts == <<written, unsound>>
vars == <<disk, breaker, at, patching, testing, evidence, texts, before,
          prev, owed>>

Keys == {Key[p] : p \in Paths}
Closed == [failures |-> 0, rest |-> 0]

(* What the n-th write writes, unless it is a text that there was already. *)
None(p) == <<p, -1>>
Torn(p) == <<p, 0>>
Original(p) == <<p, 1>>
Fresh(p) == <<p, written + 1>>

NoEvidence == [result |-> "PENDING", rollback |-> FALSE, files |-> {}]

ToSet(s) == {s[i] : i \in 1 .. Len(s)}

-----------------------------------------------------------------------------
Init ==
  /\ file = [p \in Paths |-> Original(p)]
  /\ latest = [p \in Paths |-> None(p)]
  /\ older = [p \in Paths |-> {}]
  /\ breaker = [k \in Keys |-> Closed]
  /\ at = "idle"
  /\ todo = <<>> /\ applied = <<>>
  /\ suite = {} /\ failing = {} /\ auto = FALSE /\ attempt = 0 /\ allPassed = TRUE
  /\ evidence = NoEvidence
  /\ written = 1 /\ unsound = {}
  /\ before = file /\ prev = latest
  /\ owed = {}

(* The call returns, and its variables are gone. *)
Return ==
  /\ at' = "idle"
  /\ todo' = <<>> /\ applied' = <<>>
  /\ suite' = {} /\ failing' = {} /\ auto' = FALSE /\ attempt' = 0 /\ allPassed' = TRUE
  /\ UNCHANGED before

(* The task ends: evidence.complete and record_evidence. *)
End(result, rollback) ==
  /\ Return
  /\ evidence' = [result |-> result, rollback |-> rollback, files |-> ToSet(applied)]

(* Steps 1 and 2: the targets are counted.  The engine's set of counted    *)
(* files only grows, so a task with targets may find its budget exceeded.  *)
Start(patches) ==
  /\ at = "idle"
  /\ written + Len(patches) <= MaxWrites
  /\ before' = file /\ owed' = {}
  /\ \/ /\ at' = "patch" /\ evidence' = NoEvidence /\ todo' = patches
        /\ UNCHANGED <<applied, testing>>
     \/ /\ evidence' = [result |-> "FAILED", rollback |-> TRUE, files |-> {}]
        /\ UNCHANGED <<at, patching, testing>>
  /\ UNCHANGED <<disk, breaker, texts, prev>>

-----------------------------------------------------------------------------
(* Step 3: one patch after the other.                                      *)

Denied ==
  /\ at = "patch" /\ todo # <<>> /\ Head(todo) \in Protected
  /\ End("FAILED", FALSE)
  /\ UNCHANGED <<disk, breaker, texts, prev, owed>>

NotFound ==
  /\ at = "patch" /\ todo # <<>> /\ Head(todo) \notin Protected
  /\ End("FAILED", TRUE)
  /\ UNCHANGED <<disk, breaker, texts, prev, owed>>

(* Seeded fault: a snapshot's name has no time in it. *)
Undated(p, text) ==
  /\ latest' = [latest EXCEPT ![p] = text]
  /\ older' = older

(* Two snapshots of a file in one millisecond have one name: the second    *)
(* replaces the first.  A task takes longer than that to begin.            *)
Snapped(p, text) ==
  /\ latest' = [latest EXCEPT ![p] = text]
  /\ \/ older' = [older EXCEPT ![p] = @ \cup ({latest[p]} \ {None(p)})]
     \/ p \in ToSet(applied) /\ older' = older

(* create_snapshot; the file is opened for writing, which empties it. *)
Snapshot(p) ==
  /\ at = "patch" /\ todo # <<>> /\ p = Head(todo) /\ p \notin Protected
  /\ Snapped(p, file[p])
  /\ at' = "open"
  /\ UNCHANGED <<file, breaker, patching, testing, evidence, texts, before, prev, owed>>

Open(p) ==
  /\ at = "open" /\ p = Head(todo)
  /\ file' = [file EXCEPT ![p] = Torn(p)]
  /\ prev' = [prev EXCEPT ![p] = file[p]]
  /\ at' = "write"
  /\ UNCHANGED <<latest, older, breaker, patching, testing, evidence, texts, before, owed>>

(* What a patch makes of a text: a text that there was not, the same one   *)
(* (an empty search and replace, or equal ones), or the one the task found *)
(* (a patch that undoes an earlier one).                                   *)
Patched(p) == {Fresh(p), prev[p], before[p]}

Write(p) ==
  /\ at = "write" /\ p = Head(todo)
  /\ \E text \in Patched(p) :
       /\ file' = [file EXCEPT ![p] = text]
       /\ unsound' \in {unsound, unsound \cup ({text} \cap {Fresh(p)})}
  /\ written' = written + 1
  /\ at' = "review"
  /\ UNCHANGED <<latest, older, breaker, patching, testing, evidence, before, prev, owed>>

(* The text reviewed is what read_file answers: the file's, or the message *)
(* of an exception, which is no Python but passes for any other file.      *)
Accept(p) ==
  /\ at = "review" /\ p = Head(todo)
  /\ file[p] \notin unsound \/ p \notin Python
  /\ applied' = Append(applied, p) /\ todo' = Tail(todo)
  /\ prev' = [prev EXCEPT ![p] = None(p)]
  /\ at' = "patch"
  /\ UNCHANGED <<disk, breaker, testing, evidence, texts, before, owed>>

Reject(p) ==
  /\ at = "review" /\ p = Head(todo)
  /\ file[p] \in unsound \/ p \in Python
  /\ file' = [file EXCEPT ![p] = Torn(p)]
  /\ at' = "restore"
  /\ UNCHANGED <<latest, older, breaker, patching, testing, evidence, texts, before,
                 prev, owed>>

(* Seeded fault: any of the file's own snapshots is taken. *)
Earliest(p) == {latest[p]} \cup older[p]

(* The snapshot that rollback takes for the latest one of p. *)
Restored(p) ==
  LET shadows == {q \in Shadow[p] : latest[q] # None(q)}
  IN  IF shadows = {} THEN {latest[p]} ELSE {latest[q] : q \in shadows}

Rollback(p) ==
  /\ at = "restore" /\ p = Head(todo)
  /\ \E text \in Restored(p) : file' = [file EXCEPT ![p] = text]
  /\ prev' = [prev EXCEPT ![p] = None(p)]
  /\ End("ROLLBACK", TRUE)
  /\ UNCHANGED <<latest, older, breaker, texts, owed>>

(* The tests that the analysis of step 1 related to the targets, and       *)
(* auto_repair, which nothing reads before.                                *)
PatchesDone(tests, repair) ==
  /\ at = "patch" /\ todo = <<>>
  /\ at' = "test" /\ suite' = tests /\ owed' = tests /\ auto' = repair
  /\ UNCHANGED <<disk, breaker, patching, failing, attempt, allPassed, evidence, texts, before,
                 prev>>

-----------------------------------------------------------------------------
(* Step 4: the tests, each with its repair.                                *)

Passes(t) ==
  /\ at = "test" /\ t \in suite
  /\ owed' = owed \ {t} /\ suite' = suite \ {t}
  /\ UNCHANGED <<disk, breaker, at, patching, failing, auto, attempt, allPassed,
                 evidence, texts, before, prev>>

Fails(t) ==
  /\ at = "test" /\ t \in suite
  /\ suite' = suite \ {t} /\ allPassed' = FALSE
  /\ IF auto /\ applied # <<>>
     THEN at' = "consult" /\ failing' = {t}
     ELSE at' = "test" /\ failing' = {}
  /\ UNCHANGED <<disk, breaker, patching, auto, attempt, evidence, texts, before,
                 prev, owed>>

(* The breaker of the repair: that of the first patched file. *)
Mine == Key[applied[1]]

Tripped(k) == breaker[k].failures >= Threshold

(* is_open, before it closes a breaker whose timeout is over. *)
IsOpen(k) == Tripped(k) /\ breaker[k].rest > 0

(* Seeded fault: the other tests are still run, and repaired. *)
NextTest == at' = "test" /\ suite' = suite /\ failing' = {} /\ attempt' = 0

(* Seeded fault: the repair is asked for again. *)
RepairAgain == at' = "consult" /\ suite' = suite /\ failing' = failing /\ attempt' = 0

(* run_self_repair returned False: the break of the test loop. *)
Unrepaired == at' = "test" /\ suite' = {} /\ failing' = {} /\ attempt' = 0

Consult ==
  /\ at = "consult"
  /\ \/ /\ IsOpen(Mine)
        /\ Unrepaired
        /\ UNCHANGED breaker
     \/ /\ ~IsOpen(Mine)
        /\ breaker' = IF Tripped(Mine) THEN [breaker EXCEPT ![Mine] = Closed] ELSE breaker
        /\ at' = "repair"
        /\ UNCHANGED <<suite, failing, attempt>>
  /\ UNCHANGED <<disk, patching, auto, allPassed, evidence, texts, before,
                 prev, owed>>

(* record_failure *)
Failed(k) ==
  [breaker EXCEPT ![k] =
     [failures |-> @.failures + 1,
      rest |-> IF @.failures + 1 >= Threshold THEN Timeout ELSE @.rest]]

AttemptsLeft == attempt < MaxAttempts

(* An attempt: it exceeds the engine's budget of commands, which only      *)
(* shrinks, or it runs the test again, which passes or fails.              *)
Attempt ==
  /\ at = "repair" /\ AttemptsLeft
  /\ \/ /\ breaker' = Failed(Mine)
        /\ Unrepaired
        /\ UNCHANGED <<allPassed, owed>>
     \/ /\ breaker' = [breaker EXCEPT ![Mine] = Closed]
        /\ owed' = owed \ failing /\ allPassed' = TRUE
        /\ at' = "test" /\ failing' = {} /\ attempt' = 0
        /\ UNCHANGED suite
     \/ /\ breaker' = Failed(Mine)
        /\ attempt' = attempt + 1
        /\ UNCHANGED <<at, suite, failing, allPassed, owed>>
  /\ UNCHANGED <<disk, patching, auto, evidence, texts, before, prev>>

Exhausted ==
  /\ at = "repair" /\ ~AttemptsLeft
  /\ Unrepaired
  /\ UNCHANGED <<disk, breaker, patching, auto, allPassed, evidence, texts, before, prev, owed>>

(* Steps 4 to 6: the verdict on the tests, the security scripts, the end.  *)
Conclude ==
  /\ at = "test" /\ suite = {}
  /\ End("FAILED", FALSE) \/ (allPassed /\ End("SUCCESS", FALSE))
  /\ UNCHANGED <<disk, breaker, texts, prev, owed>>

-----------------------------------------------------------------------------
(* An exception ends the task without evidence, and with a crash the       *)
(* engine is gone too.  A snapshot that was being copied is torn; a        *)
(* breaker file that was being saved reads as an empty one.                *)
Abort ==
  /\ at # "idle"
  /\ Return /\ evidence' = NoEvidence
  /\ \/ UNCHANGED <<latest, older, breaker>>
     \/ /\ at = "patch" /\ todo # <<>> /\ Head(todo) \notin Protected
        /\ Snapped(Head(todo), Torn(Head(todo)))
        /\ UNCHANGED breaker
     \/ /\ at = "repair" \/ (at = "consult" /\ Tripped(Mine))
        /\ breaker' = [k \in Keys |-> Closed]
        /\ UNCHANGED <<latest, older>>
  /\ owed' = {}
  /\ UNCHANGED <<file, texts, prev>>

Tick ==
  /\ \E k \in Keys : breaker[k].rest > 0
  /\ breaker' = [k \in Keys |-> [breaker[k] EXCEPT !.rest = IF @ > 0 THEN @ - 1 ELSE 0]]
  /\ UNCHANGED <<disk, at, patching, testing, evidence, texts, before, prev, owed>>

PatchStep ==
  \/ Denied \/ NotFound
  \/ \E tests \in SUBSET Tests, repair \in BOOLEAN : PatchesDone(tests, repair)
  \/ \E p \in Paths : Snapshot(p) \/ Open(p) \/ Write(p) \/ Accept(p) \/ Reject(p) \/ Rollback(p)

TestStep ==
  \/ \E t \in Tests : Passes(t) \/ Fails(t)
  \/ Consult \/ Attempt \/ Exhausted \/ Conclude

Patches == UNION {[1 .. n -> Paths] : n \in 0 .. MaxPatches}

Next ==
  \/ \E patches \in Patches : Start(patches)
  \/ PatchStep \/ TestStep
  \/ Abort \/ Tick

(* The engine is a synchronous function whose commands have timeouts.      *)
Spec == Init /\ [][Next]_vars /\ WF_vars(PatchStep \/ TestStep)

-----------------------------------------------------------------------------
Places == {"idle", "patch", "open", "write", "review", "restore", "test", "consult", "repair"}

(* The engine's state keeps its kinds of value; an attempt never exceeds   *)
(* max_attempts, and a file is only ever in the middle of a patch while    *)
(* the patch is there to continue.                                         *)
TaskTypeOK ==
  /\ file \in [Paths -> Paths \X Nat] /\ latest \in [Paths -> Paths \X Int]
  /\ \A p \in Paths : older[p] \subseteq Paths \X Int
  /\ breaker \in [Keys -> [failures : Nat, rest : 0 .. Timeout]]
  /\ at \in Places
  /\ todo \in Seq(Paths) /\ applied \in Seq(Paths)
  /\ at \in {"open", "write", "review", "restore"} => todo # <<>>
  /\ at \in {"consult", "repair"} => applied # <<>>
  /\ suite \subseteq Tests /\ failing \subseteq Tests /\ owed \subseteq Tests
  /\ auto \in BOOLEAN /\ attempt \in 0 .. MaxAttempts /\ allPassed \in BOOLEAN

(* A task that reports CHANGE_VALIDATED ran every test that it had to      *)
(* after its last patch, and each passed in the end; every Python file it  *)
(* lists has a text that the review accepts, and no file is left half      *)
(* written that was not so when the task began.                            *)
ValidatedSound ==
  (at = "idle" /\ evidence.result = "SUCCESS") =>
     /\ owed = {}
     /\ \A p \in evidence.files :
          /\ p \in Python => file[p] \notin unsound
          /\ file[p] = Torn(p) => before[p] = Torn(p)

(* Every file that a task leaves changed is in the evidence's list,        *)
(* whichever patch failed or was rolled back, and whatever the evidence    *)
(* says of a rollback; except for a file whose snapshots another file's    *)
(* shadow.  A listed file may be unchanged: a patch may change nothing.    *)
EvidenceComplete ==
  (at = "idle" /\ evidence.result # "PENDING") =>
     \A p \in Paths : (Shadow[p] = {} /\ file[p] # before[p]) => p \in evidence.files

(* A file that a crash left half patched, or patched and not reviewed, has *)
(* a snapshot of the text it had before that patch.                        *)
Recoverable == \A p \in Paths : prev[p] # None(p) => prev[p] \in {latest[p]} \cup older[p]

(* A task ends, whatever its tests answer.                                 *)
TaskEnds == at # "idle" ~> at = "idle"

=============================================================================
