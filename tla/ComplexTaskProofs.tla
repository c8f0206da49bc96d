------------------------- MODULE ComplexTaskProofs -------------------------
(* The coding agent's complex tasks, for any files, tests and bounds: what *)
(* the evidence lists, what a crash leaves recoverable, and what a         *)
(* validated task has run.                                                 *)
EXTENDS ComplexTask, TLAPS

USE TaskAssumption DEF TaskAssumption

(* The texts there have been. *)
Real == Paths \X (0 .. written)

(* The files, their snapshots and the task's texts are texts that were     *)
(* written, and a patch begins with a snapshot of its file.                *)
TextsReal ==
  /\ TaskTypeOK
  /\ written \in Nat \ {0}
  /\ file \in [Paths -> Real] /\ before \in [Paths -> Real]
  /\ \A p \in Paths : latest[p] \in Real \cup {None(p)}
  /\ older \in [Paths -> SUBSET Real]
  /\ prev \in [Paths -> Paths \X Int]
  /\ unsound \subseteq Real
  /\ at \in {"open", "write", "review", "restore"} => latest[Head(todo)] \in Real
  /\ at = "write" => prev[Head(todo)] \in Real

(* p's patch has begun to change the file and is not finished. *)
InMiddle(p) == at \in {"write", "review", "restore"} /\ p = Head(todo)

(* If p is half written, it was so when the task began. *)
WholeNow(p) == file[p] = Torn(p) => before[p] = Torn(p)

(* Only a patch that is being applied leaves a file half written, and no   *)
(* call has patches of another.                                            *)
Reviewed ==
  /\ at = "idle" => applied = <<>>
  /\ at = "open" => latest[Head(todo)] = file[Head(todo)]
  /\ at = "write" => (prev[Head(todo)] = Torn(Head(todo)) => before[Head(todo)] = Torn(Head(todo)))
  /\ at = "review" => WholeNow(Head(todo))
  /\ at # "idle" => \A p \in Paths : ~InMiddle(p) => WholeNow(p)

(* Between two patches every changed file is applied; during one, its      *)
(* snapshot says whether the file was changed already.                     *)
Evidenced ==
  /\ EvidenceComplete
  /\ \A p \in Paths : Shadow[p] = {} =>
       /\ at # "idle" /\ ~InMiddle(p) /\ file[p] # before[p] => p \in ToSet(applied)
       /\ InMiddle(p) /\ latest[p] # before[p] => p \in ToSet(applied)

(* A file that the task has patched is not half patched. *)
Settled ==
  /\ Recoverable
  /\ at # "idle" => \A p \in ToSet(applied) : ~InMiddle(p) => prev[p] = None(p)

(* The tests that still owe an answer are the ones still to run, and the   *)
(* one under repair; after a failure that nothing repaired no test runs    *)
(* whose success could hide it.                                            *)
Owing ==
  /\ at \in {"idle", "patch", "open", "write", "review", "restore"} => allPassed
  /\ at = "test" /\ allPassed => owed \subseteq suite
  /\ at = "test" /\ ~allPassed => suite = {} \/ ~auto \/ applied = <<>>
  /\ at \in {"consult", "repair"} => ~allPassed /\ owed \subseteq suite \cup failing

Validated ==
  /\ ValidatedSound
  /\ at # "idle" => \A p \in ToSet(applied) :
                       ~InMiddle(p) /\ p \in Python => file[p] \notin unsound

-----------------------------------------------------------------------------
LEMMA ToSetEmpty == ToSet(<<>>) = {}
BY DEF ToSet

LEMMA ToSetAppend ==
  ASSUME NEW S, NEW s \in Seq(S), NEW x \in S
  PROVE  ToSet(Append(s, x)) = ToSet(s) \cup {x}
<1>1. Len(Append(s, x)) = Len(s) + 1 /\ Append(s, x)[Len(s) + 1] = x
  OBVIOUS
<1>2. \A i \in 1 .. Len(s) : Append(s, x)[i] = s[i]
  OBVIOUS
<1>3. Len(s) \in Nat
  OBVIOUS
<1> QED BY <1>1, <1>2, <1>3 DEF ToSet

LEMMA ToSetIn ==
  ASSUME NEW S, NEW s \in Seq(S)
  PROVE  ToSet(s) \subseteq S
BY DEF ToSet

(* Head and Tail of a task's patches. *)
LEMMA HeadTail ==
  ASSUME NEW S, NEW s \in Seq(S), s # <<>>
  PROVE  Head(s) \in S /\ Tail(s) \in Seq(S)
OBVIOUS

(* What is written stays written, and the next text is a new one. *)
LEMMA FreshText ==
  ASSUME written \in Nat \ {0}, NEW p \in Paths
  PROVE  /\ Fresh(p) \in Paths \X (0 .. written + 1) /\ Fresh(p) \notin Real
         /\ Real \subseteq Paths \X (0 .. written + 1)
         /\ Fresh(p) # Torn(p) /\ Torn(p) \in Real /\ None(p) \notin Real
BY DEF Fresh, Real, Torn, None

(* The tests and the breaker leave the texts alone. *)
LEMMA TextsFrame ==
  ASSUME TextsReal, TaskTypeOK', UNCHANGED <<disk, texts, prev, before>>,
         at' \notin {"open", "write", "review", "restore"}
  PROVE  TextsReal'
BY DEF TextsReal, disk, texts, Real, None

LEMMA TypeOfReturn ==
  ASSUME TaskTypeOK, Return
  PROVE  /\ at' \in Places /\ at' \notin {"open", "write", "review", "restore", "consult", "repair"}
         /\ todo' \in Seq(Paths) /\ applied' \in Seq(Paths)
         /\ suite' \subseteq Tests /\ failing' \subseteq Tests
         /\ auto' \in BOOLEAN /\ attempt' \in 0 .. MaxAttempts /\ allPassed' \in BOOLEAN
         /\ before' = before
<1>1. MaxAttempts \in Nat
  OBVIOUS
<1>2. attempt' \in 0 .. MaxAttempts
  BY <1>1 DEF Return
<1>3. todo' \in Seq(Paths) /\ applied' \in Seq(Paths)
  BY DEF Return
<1> QED BY <1>2, <1>3 DEF Return, Places

(* Every step keeps the kinds of the engine's values. *)
LEMMA TextsInductive == TextsReal /\ [Next]_vars => TextsReal'
<1> SUFFICES ASSUME TextsReal, [Next]_vars PROVE TextsReal'
  OBVIOUS
<1>0. TaskTypeOK
  BY DEF TextsReal
<1>a. /\ Threshold \in Nat /\ Timeout \in Nat /\ MaxAttempts \in Nat /\ written \in Nat
  BY DEF TextsReal
<1>b. breaker \in [Keys -> [failures : Nat, rest : 0 .. Timeout]]
  BY <1>0 DEF TaskTypeOK
<1>c. ASSUME NEW k \in Keys PROVE Failed(k) \in [Keys -> [failures : Nat, rest : 0 .. Timeout]]
  BY <1>a, <1>b DEF Failed
<1>d. [k \in Keys |-> Closed] \in [Keys -> [failures : Nat, rest : 0 .. Timeout]]
  BY <1>a DEF Closed
<1>e. applied # <<>> => Mine \in Keys
  <2>1. applied \in Seq(Paths)
    BY <1>0 DEF TaskTypeOK
  <2>2. applied # <<>> => applied[1] \in Paths
    BY <2>1
  <2> QED BY <2>2 DEF Mine, Keys
<1>1. ASSUME NEW patches \in Patches, Start(patches) PROVE TextsReal'
  <2>1. patches \in Seq(Paths)
    BY DEF Patches
  <2>2. TaskTypeOK'
    BY <1>0, <1>1, <2>1 DEF Start, TaskTypeOK, Places, disk, patching, testing
  <2> QED BY <1>1, <2>2 DEF Start, TextsReal, disk, texts, Real, None
<1>2. CASE Denied \/ NotFound \/ Conclude
  <2>1. Return /\ UNCHANGED <<disk, breaker, texts, prev, owed>>
    BY <1>2 DEF Denied, NotFound, Conclude, End
  <2>2. TaskTypeOK'
    BY <1>0, <2>1, TypeOfReturn DEF TaskTypeOK, disk
  <2> QED BY <2>1, <2>2, <1>0, TypeOfReturn, TextsFrame
<1>3. ASSUME NEW tests \in SUBSET Tests, NEW repair \in BOOLEAN, PatchesDone(tests, repair) PROVE TextsReal'
  <2>1. TaskTypeOK'
    BY <1>0, <1>3 DEF PatchesDone, TaskTypeOK, Places, disk, patching
  <2> QED BY <1>3, <2>1, TextsFrame DEF PatchesDone
<1>4. ASSUME NEW p \in Paths, Snapshot(p) PROVE TextsReal'
  <2>1. file[p] \in Real /\ p = Head(todo) /\ todo # <<>>
    BY <1>4 DEF TextsReal, Snapshot
  <2>2. file[p] \in Paths \X Int
    BY <2>1 DEF Real
  <2>3. TaskTypeOK'
    <3>1. older' \in [Paths -> SUBSET (Paths \X Int)]
      BY <1>4 DEF Snapshot, Snapped, TextsReal, Real, None
    <3>2. latest' \in [Paths -> Paths \X Int]
      BY <1>4, <1>0, <2>2 DEF Snapshot, Snapped, TaskTypeOK
    <3> QED BY <1>0, <1>4, <2>1, <3>1, <3>2 DEF Snapshot, TaskTypeOK, Places, patching, testing
  <2>4. older' \in [Paths -> SUBSET Real]
    <3>1. latest[p] \in Real \cup {None(p)} /\ older \in [Paths -> SUBSET Real]
      BY DEF TextsReal
    <3>2. older' = older \/ older' = [older EXCEPT ![p] = older[p] \cup ({latest[p]} \ {None(p)})]
      BY <1>4 DEF Snapshot, Snapped
    <3> QED BY <3>1, <3>2
  <2>5. latest' = [latest EXCEPT ![p] = file[p]]
    BY <1>4 DEF Snapshot, Snapped
  <2> QED BY <1>4, <1>0, <2>1, <2>3, <2>4, <2>5 DEF Snapshot, TextsReal, TaskTypeOK, texts, Real, None, patching
<1>5. ASSUME NEW p \in Paths, Open(p) PROVE TextsReal'
  <2>1. Torn(p) \in Real /\ file[p] \in Real
    BY <1>a, FreshText DEF TextsReal
  <2>2. TaskTypeOK'
    BY <1>0, <1>5 DEF Open, TaskTypeOK, Places, patching, testing, Torn
  <2>3. prev'[p] \in Real
    BY <1>5, <2>1 DEF Open, TextsReal
  <2> QED BY <1>5, <2>1, <2>2, <2>3 DEF Open, TextsReal, texts, Real, None, patching
<1>6. ASSUME NEW p \in Paths, Write(p) PROVE TextsReal'
  <2>1. /\ Fresh(p) \in Real' /\ Real \subseteq Real' /\ written' \in Nat \ {0}
    BY <1>6, <1>a, FreshText DEF TextsReal, Write, Real
  <2>2. PICK text \in Patched(p) :
          /\ file' = [file EXCEPT ![p] = text]
          /\ unsound' \in {unsound, unsound \cup ({text} \cap {Fresh(p)})}
    BY <1>6 DEF Write
  <2>3. text \in Real' /\ text \in Paths \X Nat
    <3>1. text \in {Fresh(p), prev[p], before[p]} /\ prev[p] \in Real /\ before[p] \in Real
      BY <1>6, <2>2 DEF Patched, Write, TextsReal
    <3>2. text \in Real'
      BY <2>1, <3>1
    <3>3. Real \subseteq Paths \X Nat /\ Fresh(p) \in Paths \X Nat
      BY <1>a DEF Real, Fresh
    <3> QED BY <3>1, <3>2, <3>3
  <2>4. TaskTypeOK'
    BY <1>0, <1>6, <2>2, <2>3 DEF Write, TaskTypeOK, Places, patching, testing
  <2>5. file' \in [Paths -> Real'] /\ before' \in [Paths -> Real']
    BY <1>6, <2>1, <2>2, <2>3 DEF Write, TextsReal
  <2>6. older' \in [Paths -> SUBSET Real']
    BY <1>6, <2>1 DEF Write, TextsReal
  <2>7. unsound' \subseteq Real'
    BY <2>1, <2>2 DEF TextsReal
  <2> QED BY <1>6, <2>1, <2>4, <2>5, <2>6, <2>7 DEF Write, TextsReal, None, patching
<1>7. ASSUME NEW p \in Paths, Accept(p) PROVE TextsReal'
  <2>1. todo' \in Seq(Paths) /\ applied' \in Seq(Paths)
    BY <1>0, <1>7 DEF Accept, TaskTypeOK
  <2>2. TaskTypeOK'
    BY <1>0, <1>7, <2>1 DEF Accept, TaskTypeOK, Places, disk, testing
  <2> QED BY <1>7, <2>2 DEF Accept, TextsReal, disk, texts, Real, None
<1>8. ASSUME NEW p \in Paths, Reject(p) PROVE TextsReal'
  <2>1. Torn(p) \in Real
    BY <1>a, FreshText DEF TextsReal
  <2>2. TaskTypeOK'
    BY <1>0, <1>8 DEF Reject, TaskTypeOK, Places, patching, testing, Torn
  <2> QED BY <1>8, <2>1, <2>2 DEF Reject, TextsReal, texts, Real, None, patching
<1>9. ASSUME NEW p \in Paths, Rollback(p) PROVE TextsReal'
  <2>1. PICK text \in Restored(p) : file' = [file EXCEPT ![p] = text]
    BY <1>9 DEF Rollback
  <2>2. text \in Real
    BY <1>9, <1>0 DEF Rollback, Restored, TextsReal
  <2>3. Return /\ prev' = [prev EXCEPT ![p] = None(p)] /\ UNCHANGED <<latest, older, breaker, texts, owed>>
    BY <1>9 DEF Rollback, End
  <2>4. file' \in [Paths -> Real]
    BY <2>1, <2>2 DEF TextsReal
  <2>5. file' \in [Paths -> Paths \X Nat]
    BY <2>4 DEF Real
  <2>6. TaskTypeOK'
    BY <1>0, <2>3, <2>5, TypeOfReturn DEF TaskTypeOK
  <2>7. prev' \in [Paths -> Paths \X Int]
    BY <2>3 DEF TextsReal, None
  <2>8. at' \notin {"open", "write", "review", "restore"} /\ before' = before
    BY <1>0, <2>3, TypeOfReturn
  <2> QED BY <2>3, <2>4, <2>6, <2>7, <2>8 DEF TextsReal, texts, Real, None
<1>10. ASSUME NEW t \in Tests, Passes(t) \/ Fails(t) PROVE TextsReal'
  <2>1. TaskTypeOK'
    BY <1>0, <1>10 DEF Passes, Fails, TaskTypeOK, Places, disk, patching
  <2>2. UNCHANGED <<disk, texts, prev, before>> /\ at' \notin {"open", "write", "review", "restore"}
    BY <1>10 DEF Passes, Fails
  <2> QED BY <2>1, <2>2, TextsFrame
<1>11. CASE Consult
  <2>1. Mine \in Keys
    BY <1>0, <1>11, <1>e DEF Consult, TaskTypeOK
  <2>2. breaker' \in [Keys -> [failures : Nat, rest : 0 .. Timeout]]
    BY <1>11, <1>a, <1>b, <2>1 DEF Consult, Closed
  <2>3. TaskTypeOK'
    BY <1>0, <1>11, <2>2 DEF Consult, Unrepaired, TaskTypeOK, Places, disk, patching
  <2> QED BY <1>11, <2>3, TextsFrame DEF Consult, Unrepaired
<1>12. CASE Attempt
  <2>1. Mine \in Keys
    BY <1>0, <1>12, <1>e DEF Attempt, TaskTypeOK
  <2>2. breaker' \in [Keys -> [failures : Nat, rest : 0 .. Timeout]]
    <3>1. Closed \in [failures : Nat, rest : 0 .. Timeout]
      BY <1>a DEF Closed
    <3>2. breaker' = Failed(Mine) \/ breaker' = [breaker EXCEPT ![Mine] = Closed]
      BY <1>12 DEF Attempt
    <3>3. [breaker EXCEPT ![Mine] = Closed] \in [Keys -> [failures : Nat, rest : 0 .. Timeout]]
      BY <1>b, <2>1, <3>1
    <3>4. Failed(Mine) \in [Keys -> [failures : Nat, rest : 0 .. Timeout]]
      BY <1>c, <2>1
    <3> QED BY <3>2, <3>3, <3>4
  <2>3. attempt' \in 0 .. MaxAttempts
    BY <1>0, <1>12, <1>a DEF Attempt, AttemptsLeft, Unrepaired, TaskTypeOK
  <2>4. TaskTypeOK'
    BY <1>0, <1>12, <2>2, <2>3 DEF Attempt, Unrepaired, TaskTypeOK, Places, disk, patching
  <2> QED BY <1>12, <2>4, TextsFrame DEF Attempt, Unrepaired
<1>13. CASE Exhausted
  <2>1. TaskTypeOK'
    BY <1>0, <1>13, <1>a DEF Exhausted, Unrepaired, TaskTypeOK, Places, disk, patching
  <2> QED BY <1>13, <2>1, TextsFrame DEF Exhausted, Unrepaired
<1>14. CASE Abort
  <2>0. Return /\ owed' = {} /\ UNCHANGED <<file, texts, prev>>
    BY <1>14 DEF Abort
  <2>1. breaker' \in [Keys -> [failures : Nat, rest : 0 .. Timeout]]
    BY <1>14, <1>b, <1>d DEF Abort
  <2>2. /\ latest' \in [Paths -> Paths \X Int] /\ older' \in [Paths -> SUBSET Real]
        /\ \A p \in Paths : latest'[p] \in Real \cup {None(p)}
    <3>1. CASE UNCHANGED <<latest, older>>
      BY <1>0, <3>1 DEF TaskTypeOK, TextsReal
    <3>2. CASE at = "patch" /\ todo # <<>> /\ Snapped(Head(todo), Torn(Head(todo)))
      <4> DEFINE p == Head(todo)
      <4>1. p \in Paths
        BY <1>0, <3>2 DEF TaskTypeOK
      <4> HIDE DEF p
      <4>2. Torn(p) \in Real /\ Torn(p) \in Paths \X Int
        BY <4>1, FreshText DEF TextsReal, Torn
      <4>3. Snapped(p, Torn(p))
        BY <3>2 DEF p
      <4>4. latest' = [latest EXCEPT ![p] = Torn(p)]
        BY <4>3 DEF Snapped
      <4>5. older' \in [Paths -> SUBSET Real]
        BY <4>3, <4>1 DEF Snapped, TextsReal
      <4> QED BY <1>0, <4>1, <4>2, <4>4, <4>5 DEF TaskTypeOK, TextsReal
    <3> QED BY <1>14, <3>1, <3>2 DEF Abort
  <2>3. \A p \in Paths : older'[p] \subseteq Paths \X Int
    BY <2>2 DEF Real
  <2>4. TaskTypeOK'
    BY <1>0, <2>0, <2>1, <2>2, <2>3, TypeOfReturn DEF TaskTypeOK
  <2> QED BY <1>0, <2>0, <2>2, <2>4, TypeOfReturn DEF TextsReal, texts, Real, None
<1>15. CASE Tick
  <2>1. breaker' \in [Keys -> [failures : Nat, rest : 0 .. Timeout]]
    BY <1>15, <1>a, <1>b DEF Tick
  <2>2. TaskTypeOK'
    BY <1>0, <1>15, <2>1 DEF Tick, TaskTypeOK, disk, patching, testing
  <2> QED BY <1>15, <2>2 DEF Tick, TextsReal, disk, texts, Real, None, patching
<1>16. CASE UNCHANGED vars
  <2>1. TaskTypeOK'
    BY <1>0, <1>16 DEF vars, TaskTypeOK, disk, patching, testing
  <2> QED BY <1>16, <2>1 DEF vars, TextsReal, disk, texts, Real, None, patching
<1> QED
  BY <1>1, <1>2, <1>3, <1>4, <1>5, <1>6, <1>7, <1>8, <1>9, <1>10, <1>11, <1>12, <1>13,
     <1>14, <1>15, <1>16 DEF Next, PatchStep, TestStep

(* Initially nothing has been patched. *)
LEMMA TextsInit == Init => TextsReal
<1> SUFFICES ASSUME Init PROVE TextsReal
  OBVIOUS
<1>1. MaxAttempts \in Nat /\ Timeout \in Nat
  OBVIOUS
<1>2. breaker \in [Keys -> [failures : Nat, rest : 0 .. Timeout]]
  BY <1>1 DEF Init, Closed
<1>3. file \in [Paths -> Paths \X Nat] /\ latest \in [Paths -> Paths \X Int]
  BY DEF Init, Original, None
<1>4. todo \in Seq(Paths) /\ applied \in Seq(Paths) /\ attempt \in 0 .. MaxAttempts
  BY <1>1 DEF Init
<1>5. TaskTypeOK
  BY <1>2, <1>3, <1>4 DEF Init, TaskTypeOK, Places
<1> QED BY <1>3, <1>5 DEF Init, TextsReal, Real, Original, None

(* The engine keeps its types, whatever is patched, tested and crashes. *)
THEOREM TypeSafe == Spec => []TaskTypeOK
<1>1. TextsReal => TaskTypeOK
  BY DEF TextsReal
<1> QED
  BY <1>1, TextsInit, TextsInductive, PTL DEF Spec

-----------------------------------------------------------------------------
(* The steps that touch no file, and leave what the task applied alone. *)
Quiet ==
  \/ \E tests \in SUBSET Tests, repair \in BOOLEAN : PatchesDone(tests, repair)
  \/ \E t \in Tests : Passes(t) \/ Fails(t)
  \/ Consult \/ Attempt \/ Exhausted
  \/ Tick
  \/ UNCHANGED vars

LEMMA QuietFrame ==
  ASSUME Quiet
  PROVE  /\ UNCHANGED <<disk, patching, texts, before, prev, evidence>>
         /\ \/ at' = at
            \/ /\ at \in {"patch", "test", "consult", "repair"}
               /\ at' \in {"test", "consult", "repair"}
<1>1. ASSUME NEW tests \in SUBSET Tests, NEW repair \in BOOLEAN, PatchesDone(tests, repair)
      PROVE  /\ UNCHANGED <<disk, patching, texts, before, prev, evidence>>
             /\ at = "patch" /\ at' = "test"
  BY <1>1 DEF PatchesDone
<1>2. ASSUME NEW t \in Tests, Passes(t) \/ Fails(t)
      PROVE  /\ UNCHANGED <<disk, patching, texts, before, prev, evidence>>
             /\ at = "test" /\ at' \in {"test", "consult"}
  BY <1>2 DEF Passes, Fails
<1>3. CASE Consult \/ Attempt \/ Exhausted
  BY <1>3 DEF Consult, Attempt, Exhausted, Unrepaired
<1>4. CASE Tick \/ UNCHANGED vars
  BY <1>4 DEF Tick, vars
<1> QED BY <1>1, <1>2, <1>3, <1>4 DEF Quiet

(* The other steps, by name. *)
LEMMA Steps ==
  ASSUME [Next]_vars
  PROVE  \/ \E patches \in Patches : Start(patches)
         \/ Denied \/ NotFound \/ Conclude \/ Abort
         \/ \E p \in Paths : Snapshot(p) \/ Open(p) \/ Write(p) \/ Accept(p) \/ Reject(p) \/ Rollback(p)
         \/ Quiet
BY DEF Next, PatchStep, TestStep, Quiet

(* Only the patch in hand leaves its file half written. *)
LEMMA ReviewedInductive == TextsReal /\ Reviewed /\ [Next]_vars => Reviewed'
<1> SUFFICES ASSUME TextsReal, Reviewed, [Next]_vars PROVE Reviewed'
  OBVIOUS
<1>0. /\ TaskTypeOK /\ file \in [Paths -> Real] /\ prev \in [Paths -> Paths \X Int]
      /\ todo \in Seq(Paths)
  BY DEF TextsReal, TaskTypeOK
<1>1. ASSUME NEW patches \in Patches, Start(patches) PROVE Reviewed'
  <2>1. /\ applied' = <<>> /\ before' = file' /\ at' \in {"idle", "patch"}
    BY <1>1 DEF Start, Reviewed, disk, patching
  <2> QED BY <2>1 DEF Reviewed, WholeNow, Torn
<1>2. CASE Denied \/ NotFound \/ Conclude \/ Abort \/ \E p \in Paths : Rollback(p)
  BY <1>2 DEF Denied, NotFound, Conclude, Abort, Rollback, End, Return, Reviewed
<1>3. ASSUME NEW p \in Paths, Snapshot(p) PROVE Reviewed'
  <2>1. latest' = [latest EXCEPT ![p] = file[p]] /\ latest \in [Paths -> Paths \X Int]
    BY <1>0, <1>3 DEF Snapshot, Snapped, TaskTypeOK
  <2>2. /\ at = "patch" /\ at' = "open" /\ p = Head(todo) /\ UNCHANGED <<file, before, applied, todo>>
    BY <1>3 DEF Snapshot, patching
  <2> QED BY <2>1, <2>2 DEF Reviewed, WholeNow, InMiddle, Torn
<1>4. ASSUME NEW p \in Paths, Open(p) PROVE Reviewed'
  <2>1. /\ at = "open" /\ at' = "write" /\ p = Head(todo) /\ UNCHANGED <<before, applied, todo>>
        /\ prev'[p] = file[p] /\ \A q \in Paths \ {p} : file'[q] = file[q]
    BY <1>0, <1>4 DEF Open, patching
  <2>2. WholeNow(p)
    BY <2>1 DEF Reviewed, InMiddle
  <2> QED BY <2>1, <2>2 DEF Reviewed, WholeNow, InMiddle, Torn
<1>5. ASSUME NEW p \in Paths, Write(p) PROVE Reviewed'
  <2>1. /\ at = "write" /\ at' = "review" /\ p = Head(todo) /\ UNCHANGED <<before, applied, todo>>
        /\ file'[p] \in Patched(p) /\ \A q \in Paths \ {p} : file'[q] = file[q]
    BY <1>0, <1>5 DEF Write, patching
  <2>2. Fresh(p) # Torn(p)
    BY FreshText DEF TextsReal
  <2>3. file'[p] = Torn(p) => before[p] = Torn(p)
    BY <2>1, <2>2 DEF Patched, Reviewed
  <2> QED BY <2>1, <2>3 DEF Reviewed, WholeNow, InMiddle, Torn
<1>6. ASSUME NEW p \in Paths, Accept(p) PROVE Reviewed'
  <2>1. /\ at = "review" /\ at' = "patch" /\ p = Head(todo) /\ UNCHANGED <<file, before>>
    BY <1>6 DEF Accept, disk
  <2> QED BY <2>1 DEF Reviewed, WholeNow, InMiddle, Torn
<1>7. ASSUME NEW p \in Paths, Reject(p) PROVE Reviewed'
  <2>1. /\ at = "review" /\ at' = "restore" /\ p = Head(todo) /\ UNCHANGED <<before, applied, todo>>
        /\ \A q \in Paths \ {p} : file'[q] = file[q]
    BY <1>0, <1>7 DEF Reject, patching
  <2> QED BY <2>1 DEF Reviewed, WholeNow, InMiddle, Torn
<1>8. CASE Quiet
  <2>1. UNCHANGED <<file, latest, before, prev, applied, todo>>
    BY <1>8, QuietFrame DEF disk, patching
  <2>2. \/ at' = at
        \/ at \in {"patch", "test", "consult", "repair"} /\ at' \in {"test", "consult", "repair"}
    BY <1>8, QuietFrame
  <2> QED BY <2>1, <2>2 DEF Reviewed, WholeNow, InMiddle, Torn
<1> QED BY <1>1, <1>2, <1>3, <1>4, <1>5, <1>6, <1>7, <1>8, Steps

LEMMA ReviewedInit == Init => Reviewed
BY DEF Init, Reviewed

-----------------------------------------------------------------------------
(* The evidence stays complete: a step that changes a file has the patch   *)
(* that lists it, or the snapshot that undoes it.                          *)
LEMMA EvidencedInductive ==
  TextsReal /\ Reviewed /\ Evidenced /\ [Next]_vars => Evidenced'
<1> SUFFICES ASSUME TextsReal, Reviewed, Evidenced, [Next]_vars PROVE Evidenced'
  OBVIOUS
<1>0. /\ TaskTypeOK /\ file \in [Paths -> Real] /\ latest \in [Paths -> Paths \X Int]
      /\ todo \in Seq(Paths) /\ applied \in Seq(Paths)
  BY DEF TextsReal, TaskTypeOK
<1>1. ASSUME NEW patches \in Patches, Start(patches) PROVE Evidenced'
  <2>1. applied = <<>> /\ applied' = <<>> /\ ToSet(applied') = {}
    BY <1>1, ToSetEmpty DEF Start, Reviewed, patching
  <2>2. at' \in {"idle", "patch"} /\ before' = file' /\ (at' = "idle" => evidence'.files = {})
    BY <1>1 DEF Start, disk
  <2> QED BY <2>1, <2>2 DEF Evidenced, EvidenceComplete, InMiddle
<1>2. CASE Denied \/ NotFound \/ Conclude
  <2>1. /\ at' = "idle" /\ UNCHANGED <<file, before>> /\ evidence'.files = ToSet(applied)
        /\ at \in {"patch", "test"}
    BY <1>2 DEF Denied, NotFound, Conclude, End, Return, disk
  <2> QED BY <2>1 DEF Evidenced, EvidenceComplete, InMiddle
<1>3. CASE Abort
  BY <1>3 DEF Abort, Return, NoEvidence, Evidenced, EvidenceComplete, InMiddle
<1>4. ASSUME NEW p \in Paths, Snapshot(p) PROVE Evidenced'
  <2>1. at = "patch" /\ at' = "open" /\ UNCHANGED <<file, before, applied, todo>>
    BY <1>4 DEF Snapshot, patching
  <2> QED BY <2>1 DEF Evidenced, EvidenceComplete, InMiddle
<1>5. ASSUME NEW p \in Paths, Open(p) PROVE Evidenced'
  <2>1. /\ at = "open" /\ at' = "write" /\ p = Head(todo) /\ UNCHANGED <<latest, before, applied, todo>>
        /\ \A q \in Paths \ {p} : file'[q] = file[q]
    BY <1>0, <1>5 DEF Open, patching
  <2>2. latest[p] = file[p]
    BY <2>1 DEF Reviewed
  <2> QED BY <2>1, <2>2 DEF Evidenced, EvidenceComplete, InMiddle
<1>6. ASSUME NEW p \in Paths, Write(p) \/ Reject(p) PROVE Evidenced'
  <2>1. /\ at \in {"write", "review"} /\ at' \in {"review", "restore"} /\ p = Head(todo)
        /\ UNCHANGED <<latest, before, applied, todo>>
        /\ \A q \in Paths \ {p} : file'[q] = file[q]
    BY <1>0, <1>6 DEF Write, Reject, patching
  <2> QED BY <2>1 DEF Evidenced, EvidenceComplete, InMiddle
<1>7. ASSUME NEW p \in Paths, Accept(p) PROVE Evidenced'
  <2>1. /\ at = "review" /\ at' = "patch" /\ p = Head(todo) /\ UNCHANGED <<file, before>>
        /\ applied' = Append(applied, p)
    BY <1>7 DEF Accept, disk
  <2>2. ToSet(applied') = ToSet(applied) \cup {p}
    BY <1>0, <2>1, ToSetAppend
  <2> QED BY <2>1, <2>2 DEF Evidenced, EvidenceComplete, InMiddle
<1>8. ASSUME NEW p \in Paths, Rollback(p) PROVE Evidenced'
  <2>1. /\ at = "restore" /\ at' = "idle" /\ p = Head(todo) /\ UNCHANGED before
        /\ evidence'.files = ToSet(applied)
        /\ \A q \in Paths \ {p} : file'[q] = file[q]
    BY <1>0, <1>8 DEF Rollback, End, Return
  <2>2. Shadow[p] = {} => file'[p] = latest[p]
    BY <1>0, <1>8 DEF Rollback, Restored
  <2> QED BY <2>1, <2>2 DEF Evidenced, EvidenceComplete, InMiddle
<1>9. CASE Quiet
  BY <1>9, QuietFrame DEF Evidenced, EvidenceComplete, InMiddle, disk, patching
<1> QED BY <1>1, <1>2, <1>3, <1>4, <1>5, <1>6, <1>7, <1>8, <1>9, Steps

(* A task's evidence lists every file it left changed, for any patches,    *)
(* any review and any rollback, but for a file whose snapshots another's   *)
(* shadow.                                                                 *)
THEOREM EvidenceSafe == Spec => []EvidenceComplete
<1>1. Init => Evidenced
  BY DEF Init, NoEvidence, Evidenced, EvidenceComplete, InMiddle
<1>2. Evidenced => EvidenceComplete
  BY DEF Evidenced
<1> QED
  BY <1>1, <1>2, TextsInit, TextsInductive, ReviewedInit, ReviewedInductive, EvidencedInductive,
     PTL DEF Spec

-----------------------------------------------------------------------------
(* A snapshot keeps those there are, unless the task patched the file      *)
(* already and takes two in one millisecond.                               *)
LEMMA SnapshotsKept ==
  ASSUME TextsReal, NEW p \in Paths, NEW text, Snapped(p, text)
  PROVE  /\ \A q \in Paths \ {p} : latest'[q] = latest[q] /\ older'[q] = older[q]
         /\ \/ older[p] \cup ({latest[p]} \ {None(p)}) \subseteq older'[p]
            \/ p \in ToSet(applied)
<1>1. latest \in [Paths -> Paths \X Int] /\ older \in [Paths -> SUBSET Real]
  BY DEF TextsReal, TaskTypeOK
<1> QED BY <1>1 DEF Snapped

(* Every step keeps the text that a half patched file had. *)
LEMMA SettledInductive ==
  TextsReal /\ Reviewed /\ Settled /\ [Next]_vars => Settled'
<1> SUFFICES ASSUME TextsReal, Reviewed, Settled, [Next]_vars PROVE Settled'
  OBVIOUS
<1>0. /\ TaskTypeOK /\ prev \in [Paths -> Paths \X Int]
      /\ todo \in Seq(Paths) /\ applied \in Seq(Paths) /\ ToSet(applied) \subseteq Paths
  BY ToSetIn DEF TextsReal, TaskTypeOK
<1>1. ASSUME NEW patches \in Patches, Start(patches) PROVE Settled'
  <2>1. UNCHANGED <<latest, older, prev>> /\ ToSet(applied') = {}
    BY <1>1, ToSetEmpty DEF Start, Reviewed, patching, disk
  <2> QED BY <2>1 DEF Settled, Recoverable, None
<1>2. CASE Denied \/ NotFound \/ Conclude
  <2>1. at' = "idle" /\ UNCHANGED <<latest, older, prev>>
    BY <1>2 DEF Denied, NotFound, Conclude, End, Return, disk
  <2> QED BY <2>1 DEF Settled, Recoverable, None
<1>3. ASSUME NEW p \in Paths, NEW text, at = "patch", p = Head(todo), Snapped(p, text), prev' = prev
      PROVE  Recoverable'
  <2>1. p \in ToSet(applied) => prev[p] = None(p)
    BY <1>3 DEF Settled, InMiddle
  <2> QED BY <1>3, <2>1, SnapshotsKept DEF Settled, Recoverable, None
<1>4. CASE Abort
  <2>1. at' = "idle" /\ prev' = prev
    BY <1>4 DEF Abort, Return
  <2>2. CASE UNCHANGED <<latest, older>>
    BY <2>1, <2>2 DEF Settled, Recoverable, None
  <2>3. CASE at = "patch" /\ todo # <<>> /\ Snapped(Head(todo), Torn(Head(todo)))
    <3>1. Head(todo) \in Paths
      BY <1>0, <2>3
    <3> QED BY <1>3, <2>1, <2>3, <3>1 DEF Settled
  <2> QED BY <1>4, <2>2, <2>3 DEF Abort
<1>5. ASSUME NEW p \in Paths, Snapshot(p) PROVE Settled'
  <2>1. /\ at = "patch" /\ at' = "open" /\ p = Head(todo) /\ Snapped(p, file[p])
        /\ UNCHANGED <<prev, applied, todo>>
    BY <1>5 DEF Snapshot, patching
  <2>2. Recoverable'
    BY <1>3, <2>1
  <2> QED BY <2>1, <2>2 DEF Settled, InMiddle, None
<1>6. ASSUME NEW p \in Paths, Open(p) PROVE Settled'
  <2>1. /\ at = "open" /\ at' = "write" /\ p = Head(todo)
        /\ UNCHANGED <<latest, older, applied, todo>>
        /\ prev'[p] = file[p] /\ \A q \in Paths \ {p} : prev'[q] = prev[q]
    BY <1>0, <1>6 DEF Open, patching
  <2>2. latest[p] = file[p]
    BY <2>1 DEF Reviewed
  <2> QED BY <1>0, <2>1, <2>2 DEF Settled, Recoverable, InMiddle, None
<1>7. ASSUME NEW p \in Paths, Write(p) \/ Reject(p) PROVE Settled'
  <2>1. /\ at \in {"write", "review"} /\ at' \in {"review", "restore"} /\ p = Head(todo)
        /\ UNCHANGED <<latest, older, prev, applied, todo>>
    BY <1>7 DEF Write, Reject, patching
  <2> QED BY <2>1 DEF Settled, Recoverable, InMiddle, None
<1>8. ASSUME NEW p \in Paths, Accept(p) PROVE Settled'
  <2>1. /\ at = "review" /\ at' = "patch" /\ p = Head(todo) /\ UNCHANGED <<latest, older>>
        /\ applied' = Append(applied, p)
        /\ prev'[p] = None(p) /\ \A q \in Paths \ {p} : prev'[q] = prev[q]
    BY <1>0, <1>8 DEF Accept, disk
  <2>2. ToSet(applied') = ToSet(applied) \cup {p}
    BY <1>0, <2>1, ToSetAppend
  <2> QED BY <1>0, <2>1, <2>2 DEF Settled, Recoverable, InMiddle, None
<1>9. ASSUME NEW p \in Paths, Rollback(p) PROVE Settled'
  <2>1. /\ at' = "idle" /\ UNCHANGED <<latest, older>>
        /\ prev'[p] = None(p) /\ \A q \in Paths \ {p} : prev'[q] = prev[q]
    BY <1>0, <1>9 DEF Rollback, End, Return
  <2> QED BY <2>1 DEF Settled, Recoverable, None
<1>10. CASE Quiet
  BY <1>10, QuietFrame DEF Settled, Recoverable, InMiddle, disk, patching, None
<1> QED BY <1>1, <1>2, <1>4, <1>5, <1>6, <1>7, <1>8, <1>9, <1>10, Steps

(* Whatever a crash leaves half patched has a snapshot of its text. *)
THEOREM RecoverySafe == Spec => []Recoverable
<1>1. Init => Settled
  BY DEF Init, Settled, Recoverable
<1>2. Settled => Recoverable
  BY DEF Settled
<1> QED
  BY <1>1, <1>2, TextsInit, TextsInductive, ReviewedInit, ReviewedInductive, SettledInductive,
     PTL DEF Spec

-----------------------------------------------------------------------------
(* Which tests owe an answer, step by step. *)
LEMMA OwingInductive == TextsReal /\ Owing /\ [Next]_vars => Owing'
<1> SUFFICES ASSUME TextsReal, Owing, [Next]_vars PROVE Owing'
  OBVIOUS
<1>0. at \in Places /\ allPassed \in BOOLEAN
  BY DEF TextsReal, TaskTypeOK
<1>1. ASSUME NEW patches \in Patches, Start(patches) PROVE Owing'
  <2>1. at = "idle" /\ at' \in {"idle", "patch"} /\ allPassed' = allPassed
    BY <1>1 DEF Start, testing
  <2>2. allPassed'
    BY <2>1 DEF Owing
  <2> QED BY <2>1, <2>2 DEF Owing
<1>2. CASE Denied \/ NotFound \/ Conclude \/ Abort \/ \E p \in Paths : Rollback(p)
  BY <1>2 DEF Denied, NotFound, Conclude, Abort, Rollback, End, Return, Owing
<1>3. ASSUME NEW p \in Paths, Snapshot(p) \/ Open(p) \/ Write(p) \/ Accept(p) \/ Reject(p)
      PROVE  Owing'
  BY <1>3 DEF Snapshot, Open, Write, Accept, Reject, Owing, testing
<1>4. ASSUME NEW tests \in SUBSET Tests, NEW repair \in BOOLEAN, PatchesDone(tests, repair)
      PROVE  Owing'
  BY <1>4 DEF PatchesDone, Owing
<1>5. ASSUME NEW t \in Tests, Passes(t) PROVE Owing'
  BY <1>5 DEF Passes, Owing, patching
<1>6. ASSUME NEW t \in Tests, Fails(t) PROVE Owing'
  <2>1. CASE auto /\ applied # <<>>
    <3>1. at' = "consult" /\ failing' = {t} /\ suite' = suite \ {t} /\ ~allPassed' /\ owed' = owed
      BY <1>6, <2>1 DEF Fails
    <3>2. owed \subseteq suite
      BY <1>6, <2>1, <1>0 DEF Fails, Owing
    <3> QED BY <3>1, <3>2 DEF Owing
  <2>2. CASE ~(auto /\ applied # <<>>)
    BY <1>6, <2>2 DEF Fails, Owing, patching
  <2> QED BY <2>1, <2>2
<1>7. CASE Consult
  BY <1>7 DEF Consult, Unrepaired, Owing, patching
<1>8. CASE Attempt
  BY <1>8 DEF Attempt, Unrepaired, Owing, patching
<1>9. CASE Exhausted
  BY <1>9 DEF Exhausted, Unrepaired, Owing, patching
<1>10. CASE Tick \/ UNCHANGED vars
  BY <1>10 DEF Tick, vars, Owing, patching, testing
<1> QED
  BY <1>1, <1>2, <1>3, <1>4, <1>5, <1>6, <1>7, <1>8, <1>9, <1>10 DEF Next, PatchStep, TestStep

LEMMA OwingInit == Init => Owing
BY DEF Init, Owing

(* The applied files stand as they were reviewed, and a task that succeeds *)
(* owes nothing.                                                           *)
LEMMA ValidatedInductive ==
  TextsReal /\ Reviewed /\ Owing /\ Validated /\ [Next]_vars => Validated'
<1> SUFFICES ASSUME TextsReal, Reviewed, Owing, Validated, [Next]_vars PROVE Validated'
  OBVIOUS
<1>0. /\ TaskTypeOK /\ file \in [Paths -> Real]
      /\ todo \in Seq(Paths) /\ applied \in Seq(Paths) /\ ToSet(applied) \subseteq Paths
  BY ToSetIn DEF TextsReal, TaskTypeOK
<1>1. ASSUME NEW patches \in Patches, Start(patches) PROVE Validated'
  <2>1. ToSet(applied') = {}
    BY <1>1, ToSetEmpty DEF Start, Reviewed, patching
  <2>2. at' = "idle" => evidence'.result = "FAILED"
    BY <1>1 DEF Start
  <2> QED BY <2>1, <2>2 DEF Validated, ValidatedSound
<1>2. CASE Denied \/ NotFound \/ \E p \in Paths : Rollback(p)
  BY <1>2 DEF Denied, NotFound, Rollback, End, Return, Validated, ValidatedSound
<1>3. CASE Conclude
  <2>1. /\ at = "test" /\ at' = "idle" /\ suite = {} /\ UNCHANGED <<file, unsound, owed>>
        /\ evidence'.result = "SUCCESS" => allPassed /\ evidence'.files = ToSet(applied)
    BY <1>3 DEF Conclude, End, Return, disk, texts
  <2>2. allPassed => owed = {}
    BY <2>1 DEF Owing
  <2>3. \A p \in Paths : file[p] = Torn(p) => before[p] = Torn(p)
    BY <2>1 DEF Reviewed, WholeNow, InMiddle
  <2>4. before' = before
    BY <1>3 DEF Conclude, End, Return
  <2> QED BY <1>0, <2>1, <2>2, <2>3, <2>4 DEF Validated, ValidatedSound, InMiddle, Torn
<1>4. CASE Abort
  BY <1>4 DEF Abort, Return, NoEvidence, Validated, ValidatedSound
<1>5. ASSUME NEW p \in Paths, Snapshot(p) PROVE Validated'
  <2>1. at = "patch" /\ at' = "open" /\ UNCHANGED <<file, unsound, applied, todo>>
    BY <1>5 DEF Snapshot, patching, texts
  <2> QED BY <2>1 DEF Validated, ValidatedSound, InMiddle, Torn
<1>6. ASSUME NEW p \in Paths, Open(p) \/ Reject(p) PROVE Validated'
  <2>1. /\ at \in {"open", "review"} /\ at' \in {"write", "restore"} /\ p = Head(todo)
        /\ UNCHANGED <<unsound, applied, todo>>
        /\ \A q \in Paths \ {p} : file'[q] = file[q]
    BY <1>0, <1>6 DEF Open, Reject, patching, texts
  <2> QED BY <1>0, <2>1 DEF Validated, ValidatedSound, InMiddle, Torn
<1>7. ASSUME NEW p \in Paths, Write(p) PROVE Validated'
  <2>1. /\ at = "write" /\ at' = "review" /\ p = Head(todo) /\ UNCHANGED <<applied, todo>>
        /\ \A q \in Paths \ {p} : file'[q] = file[q]
        /\ unsound' \subseteq unsound \cup {Fresh(p)}
    BY <1>0, <1>7 DEF Write, patching
  <2>2. \A q \in Paths : file[q] # Fresh(p)
    BY <1>0, FreshText DEF TextsReal
  <2>3. \A q \in ToSet(applied) \ {p} : q \in Paths /\ (q \in Python => file[q] \notin unsound)
    BY <1>0, <2>1 DEF Validated, InMiddle
  <2>4. \A q \in ToSet(applied) \ {p} : q \in Python => file'[q] \notin unsound'
    BY <2>1, <2>2, <2>3
  <2> QED BY <2>1, <2>4 DEF Validated, ValidatedSound, InMiddle, Torn
<1>8. ASSUME NEW p \in Paths, Accept(p) PROVE Validated'
  <2>1. /\ at = "review" /\ at' = "patch" /\ p = Head(todo) /\ UNCHANGED <<file, unsound>>
        /\ applied' = Append(applied, p) /\ (p \in Python => file[p] \notin unsound)
    BY <1>8 DEF Accept, disk, texts
  <2>2. ToSet(applied') = ToSet(applied) \cup {p}
    BY <1>0, <2>1, ToSetAppend
  <2> QED BY <2>1, <2>2 DEF Validated, ValidatedSound, InMiddle, Torn
<1>9. CASE Quiet
  <2>1. /\ UNCHANGED <<file, unsound, applied, todo, evidence, before>>
        /\ \/ at' = at
           \/ at \in {"patch", "test", "consult", "repair"} /\ at' \in {"test", "consult", "repair"}
    BY <1>9, QuietFrame DEF disk, texts, patching
  <2>2. at = "idle" => owed' = owed
    BY <1>9 DEF Quiet, PatchesDone, Passes, Fails, Consult, Attempt, Exhausted, Tick, vars
  <2> QED BY <2>1, <2>2 DEF Validated, ValidatedSound, InMiddle, Torn
<1> QED BY <1>1, <1>2, <1>3, <1>4, <1>5, <1>6, <1>7, <1>8, <1>9, Steps

(* CHANGE_VALIDATED means that every test the task owed passed, that every *)
(* Python file it lists has a text the review accepts, and that it left no *)
(* file half written, whatever was repaired.                               *)
THEOREM ValidatedSafe == Spec => []ValidatedSound
<1>1. Init => Validated
  BY DEF Init, NoEvidence, Validated, ValidatedSound
<1>2. Validated => ValidatedSound
  BY DEF Validated
<1> QED
  BY <1>1, <1>2, TextsInit, TextsInductive, ReviewedInit, ReviewedInductive, OwingInit,
     OwingInductive, ValidatedInductive, PTL DEF Spec

=============================================================================
