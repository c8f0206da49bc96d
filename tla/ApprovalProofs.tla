--------------------------- MODULE ApprovalProofs ---------------------------
(* Theorems of Approval, for any processes, requests and bounds, and of    *)
(* the ledger its operations are recorded in.                              *)
EXTENDS Approval, AuditLedger, SequenceTheorems, TLAPS

(* Where an operation is, it carries an aim that fits the place. *)
AimFits ==
  \A c \in Callers :
    /\ pc[c] \in {"found", "update"} => aim[c] \in Decisions \cup {"EXPIRED", "CANCELLED"}
    /\ pc[c] \in {"read", "write"} =>
         aim[c] \in {"REJECTED", "EXPIRED", "POLICY_CHECKED", "AWAITING_APPROVAL",
                     "RUNNING", "VERIFYING"}
    /\ pc[c] \in {"cleared", "claim", "execute"} => aim[c] = "RUNNING"
    /\ pc[c] = "finalize" => aim[c] \in {"VERIFYING", "FAILED"}

(* A held claim is written in the row. *)
ClaimsMarked == \A c \in Callers : Holds(c) => exec[on[c]] = "RUNNING"

(* After an executor returned, the row is consumed or still claimed, and   *)
(* whoever holds the claim is past its executor.                           *)
ReturnSealed ==
  \A a \in Approvals :
    /\ done[a] \in {0, 1}
    /\ done[a] = 1 =>
         /\ exec[a] \in {"CONSUMED", "RUNNING"}
         /\ \A c \in Callers : Holds(c) /\ on[c] = a => aim[c] = "VERIFYING"

(* A row that was never approved was never claimed. *)
Untouched ==
  \A a \in Approvals : status[a] \notin {"APPROVED", "EXPIRED"} => exec[a] = "NOT_STARTED"

TypeInv == TypeOK /\ AimFits
ClaimInv == ClaimsMarked /\ OneWinner /\ ReturnSealed
ApprovedInv == Untouched /\ TaskRunsOnlyClaimed
Inv == TypeInv /\ ClaimInv /\ ApprovedInv

-----------------------------------------------------------------------------
LEMMA TypeInit == Init => TypeInv
  BY ApprovalAssumption DEF Init, TypeInv, TypeOK, AimFits, TaskStates, Aims, Decisions

(* Every action leaves the state typed, and aims where they belong. *)
LEMMA TypeStep == TypeInv /\ [Next]_vars => TypeInv'
<1> SUFFICES ASSUME TypeInv, [Next]_vars PROVE TypeInv'
  OBVIOUS
<1> USE DEF TypeInv, TypeOK, AimFits
<1>1. CASE \E a \in Approvals : Expires(a)
  BY <1>1 DEF Expires, rowVars, callVars
<1>2. ASSUME NEW c \in Callers, NEW a \in Approvals, Call(c, a) PROVE TypeInv'
  BY <1>2 DEF Call, Request, Resume, Decide, Find, Start, Goto, rowVars, Aims, Decisions
<1>3. ASSUME NEW c \in Callers, Step(c) PROVE TypeInv'
  <2>1. CASE BeginTransaction(c)
    BY <2>1 DEF BeginTransaction, Goto, rowVars
  <2>2. CASE CommitUpdate(c)
    BY <2>2 DEF CommitUpdate, Updated, Goto, Decisions, Closed
  <2>3. CASE CommitClaim(c)
    BY <2>3 DEF CommitClaim, Goto, Closed
  <2>4. CASE AuditLate(c) \/ Audit(c)
    BY <2>4 DEF AuditLate, Audit, Goto, rowVars, Aims
  <2>5. CASE ReadTask(c)
    BY <2>5 DEF ReadTask, Continue, Goto, rowVars, Aims
  <2>6. CASE WriteTask(c)
    BY <2>6 DEF WriteTask, Continue, Goto, Target, TaskStates, rowVars, Aims
  <2>7. CASE ExecutorReturns(c) \/ ExecutorFails(c)
    BY <2>7 DEF ExecutorReturns, ExecutorFails, Goto, rowVars, Aims
  <2>8. CASE Finalize(c)
    BY <2>8 DEF Finalize, FinalState, Goto
  <2>9. CASE Crash(c)
    BY <2>9 DEF Crash, Goto, rowVars
  <2> QED BY <1>3, <2>1, <2>2, <2>3, <2>4, <2>5, <2>6, <2>7, <2>8, <2>9 DEF Step
<1>4. CASE UNCHANGED vars
  BY <1>4 DEF vars
<1> QED BY <1>1, <1>2, <1>3, <1>4 DEF Next

-----------------------------------------------------------------------------
LEMMA ClaimInit == Init => ClaimInv
  BY DEF Init, ClaimInv, ClaimsMarked, OneWinner, ReturnSealed, Holds

(* A step after which a caller holds a claim it did not hold is CommitClaim, *)
(* and nothing but the holder's own steps touches what it holds.           *)
LEMMA ClaimStep == Inv /\ [Next]_vars => ClaimInv'
<1> SUFFICES ASSUME Inv, [Next]_vars PROVE ClaimInv'
  OBVIOUS
<1> USE DEF Inv, TypeInv, TypeOK, AimFits, ClaimInv, ClaimsMarked, OneWinner, ReturnSealed, Holds
<1>1. CASE \E a \in Approvals : Expires(a)
  BY <1>1 DEF Expires, rowVars, callVars
<1>2. ASSUME NEW c \in Callers, NEW a \in Approvals, Call(c, a)
      PROVE ClaimInv'
  BY <1>2 DEF Call, Request, Resume, Decide, Find, Start, Goto, rowVars
<1>3. ASSUME NEW c \in Callers, Step(c)
      PROVE ClaimInv'
  <2>1. CASE BeginTransaction(c) \/ AuditLate(c) \/ Crash(c)
    BY <2>1 DEF BeginTransaction, AuditLate, Crash, Goto, rowVars
  <2>2. CASE CommitUpdate(c)
    BY <2>2 DEF CommitUpdate, Goto, Decisions
  <2>3. CASE CommitClaim(c)
    BY <2>3 DEF CommitClaim, Claimable, Goto
  <2>4. CASE Audit(c)
    BY <2>4 DEF Audit, Goto, rowVars
  <2>5. CASE ReadTask(c) \/ WriteTask(c)
    BY <2>5 DEF ReadTask, WriteTask, Continue, Goto, rowVars
  <2>6. CASE ExecutorReturns(c)
    BY <2>6 DEF ExecutorReturns, Goto, rowVars
  <2>7. CASE ExecutorFails(c)
    BY <2>7 DEF ExecutorFails, Goto, rowVars
  <2>8. CASE Finalize(c)
    BY <2>8 DEF Finalize, FinalState, Goto
  <2> QED BY <1>3, <2>1, <2>2, <2>3, <2>4, <2>5, <2>6, <2>7, <2>8 DEF Step
<1>4. CASE UNCHANGED vars
  BY <1>4 DEF vars
<1> QED BY <1>1, <1>2, <1>3, <1>4 DEF Next

LEMMA ApprovedInit == Init => ApprovedInv
  BY DEF Init, ApprovedInv, Untouched, TaskRunsOnlyClaimed

(* A row is claimed once approved, and its task runs once it is claimed.   *)
LEMMA ApprovedStep == Inv /\ [Next]_vars => ApprovedInv'
<1> SUFFICES ASSUME Inv, [Next]_vars PROVE ApprovedInv'
  OBVIOUS
<1> USE DEF Inv, TypeInv, TypeOK, AimFits, ClaimInv, ClaimsMarked, Holds,
            ApprovedInv, Untouched, TaskRunsOnlyClaimed
<1>1. CASE \E a \in Approvals : Expires(a)
  BY <1>1 DEF Expires, rowVars
<1>2. ASSUME NEW c \in Callers, NEW a \in Approvals, Call(c, a) PROVE ApprovedInv'
  BY <1>2 DEF Call, Request, Resume, Decide, Find, rowVars
<1>3. ASSUME NEW c \in Callers, Step(c) PROVE ApprovedInv'
  <2>1. CASE BeginTransaction(c) \/ AuditLate(c) \/ Audit(c) \/ ReadTask(c)
             \/ ExecutorReturns(c) \/ ExecutorFails(c) \/ Crash(c)
    BY <2>1 DEF BeginTransaction, AuditLate, Audit, ReadTask, ExecutorReturns,
                ExecutorFails, Crash, rowVars
  <2>2. CASE CommitUpdate(c)
    BY <2>2 DEF CommitUpdate, Updated
  <2>3. CASE CommitClaim(c)
    BY <2>3 DEF CommitClaim
  <2>4. CASE WriteTask(c)
    BY <2>4 DEF WriteTask, Target, rowVars
  <2>5. CASE Finalize(c)
    BY <2>5 DEF Finalize, FinalState
  <2> QED BY <1>3, <2>1, <2>2, <2>3, <2>4, <2>5 DEF Step
<1>4. CASE UNCHANGED vars
  BY <1>4 DEF vars
<1> QED BY <1>1, <1>2, <1>3, <1>4 DEF Next

LEMMA Invariance == Spec => []Inv
<1>1. Init => Inv
  BY TypeInit, ClaimInit, ApprovedInit DEF Inv
<1>2. Inv /\ [Next]_vars => Inv'
  BY TypeStep, ClaimStep, ApprovedStep DEF Inv
<1> QED BY <1>1, <1>2, PTL DEF Spec

(* Every reachable state is well typed. *)
THEOREM TypeCorrect == Spec => []TypeOK
<1>1. Inv => TypeOK
  BY DEF Inv, TypeInv
<1> QED BY <1>1, Invariance, PTL

(* However many processes resume an approval at once, one executes it:     *)
(* the barrier of claim_execution_atomic.                                  *)
THEOREM OneWinnerHolds == Spec => []OneWinner
<1>1. Inv => OneWinner
  BY DEF Inv, ClaimInv
<1> QED BY <1>1, Invariance, PTL

(* An approved action takes effect at most once, through failures of the   *)
(* executor, expiries during the execution and deaths of the holder.       *)
THEOREM ConsumedOnceHolds == Spec => []ConsumedOnce
<1>1. Inv => ConsumedOnce
  BY DEF Inv, ClaimInv, ReturnSealed, ConsumedOnce
<1> QED BY <1>1, Invariance, PTL

(* Nothing runs that was not approved, and a request that was rejected or  *)
(* cancelled was never executed.                                           *)
THEOREM RunsOnlyApprovedHolds == Spec => []RunsOnlyApproved
<1>1. Inv => RunsOnlyApproved
  BY DEF Inv, TypeInv, TypeOK, ClaimInv, ClaimsMarked, ApprovedInv, Untouched, RunsOnlyApproved
<1> QED BY <1>1, Invariance, PTL

(* No race of transition_task starts a task whose approval is not claimed. *)
THEOREM TaskRunsOnlyClaimedHolds == Spec => []TaskRunsOnlyClaimed
<1>1. Inv => TaskRunsOnlyClaimed
  BY DEF Inv, ApprovedInv
<1> QED BY <1>1, Invariance, PTL

(* Decisions are final: closed stays closed, consumed stays consumed, and  *)
(* only expiry takes an approval back.                                     *)
THEOREM DecisionIsFinalHolds == Spec => DecisionIsFinal
<1> DEFINE Final ==
      \A a \in Approvals :
         /\ status[a] \in Closed => status'[a] = status[a]
         /\ status[a] = "APPROVED" => status'[a] \in {"APPROVED", "EXPIRED"}
         /\ exec[a] = "CONSUMED" => exec'[a] = "CONSUMED"
<1>1. Inv /\ [Next]_vars => [Final]_vars
  <2> SUFFICES ASSUME Inv, [Next]_vars PROVE Final
    OBVIOUS
  <2> USE DEF Inv, TypeInv, TypeOK, ClaimInv, ClaimsMarked, Holds, Closed
  <2>1. CASE \E a \in Approvals : Expires(a)
    BY <2>1 DEF Expires, rowVars
  <2>2. ASSUME NEW c \in Callers, NEW a \in Approvals, Call(c, a) PROVE Final
    BY <2>2 DEF Call, Request, Resume, Decide, Find, rowVars
  <2>3. ASSUME NEW c \in Callers, Step(c) PROVE Final
    BY <2>3 DEF Step, BeginTransaction, CommitUpdate, Updated, CommitClaim, Claimable,
                AuditLate, Audit, ReadTask, WriteTask, ExecutorReturns, ExecutorFails,
                Finalize, FinalState, Crash, rowVars
  <2>4. CASE UNCHANGED vars
    BY <2>4 DEF vars
  <2> QED BY <2>1, <2>2, <2>3, <2>4 DEF Next
<1> QED BY <1>1, Invariance, PTL DEF Spec, DecisionIsFinal

-----------------------------------------------------------------------------
(* The audit ledger: the lock of each instance orders the rows it writes.  *)
LEMMA LastHashIsNatural == ASSUME AuditTypeOK PROVE LastHash \in Nat
<1>1. CASE trail = <<>>
  BY <1>1 DEF LastHash, GENESIS_HASH
<1>2. CASE trail # <<>>
  <2>1. Len(trail) \in 1 .. Len(trail)
    BY <1>2 DEF AuditTypeOK
  <2>2. trail[Len(trail)] \in Rows
    BY <2>1, ElementOfSeq DEF AuditTypeOK
  <2> QED BY <1>2, <2>2 DEF LastHash, Rows
<1> QED BY <1>1, <1>2

(* Every row is a pair of hashes that were computed, for any number of     *)
(* instances.                                                              *)
THEOREM AuditTypeCorrect == AuditSpec => []AuditTypeOK
<1>1. AuditInit => AuditTypeOK
  BY DEF AuditInit, AuditTypeOK, GENESIS_HASH
<1>2. ASSUME AuditTypeOK, [AuditNext]_auditVars PROVE AuditTypeOK'
  <2>1. ASSUME NEW w \in Writers, SelectLast(w) PROVE AuditTypeOK'
    <3>1. InstanceOf[w] \in Instances
      BY DEF Instances
    <3> QED BY <1>2, <2>1, <3>1, LastHashIsNatural DEF SelectLast, AuditTypeOK
  <2>2. ASSUME NEW w \in Writers, Insert(w) PROVE AuditTypeOK'
    <3> DEFINE row == [prev |-> prev[w], current |-> minted', by |-> InstanceOf[w]]
    <3>1. minted' \in Nat /\ row \in Rows
      BY <1>2, <2>2 DEF Insert, AuditTypeOK, Rows, Instances
    <3>2. trail' \in Seq(Rows)
      BY <1>2, <2>2, <3>1 DEF Insert, AuditTypeOK
    <3> QED BY <1>2, <2>2, <3>1, <3>2 DEF Insert, Leave, AuditTypeOK
  <2>3. ASSUME NEW w \in Writers, Lose(w) PROVE AuditTypeOK'
    BY <1>2, <2>3 DEF Lose, Leave, AuditTypeOK
  <2>4. CASE UNCHANGED auditVars
    BY <1>2, <2>4 DEF auditVars, AuditTypeOK
  <2> QED BY <1>2, <2>1, <2>2, <2>3, <2>4 DEF AuditNext
<1> QED BY <1>1, <1>2, PTL DEF AuditSpec

-----------------------------------------------------------------------------
(* A writer holds its instance's lock.                                     *)
LockInv ==
  /\ \A w \in writing : InstanceOf[w] \in held
  /\ \A v, w \in writing : InstanceOf[v] = InstanceOf[w] => v = w

(* What a writer has read is at or after the last row of its instance.     *)
ReadInv ==
  \A w \in writing : \A i \in 1 .. Len(trail) :
    trail[i].by = InstanceOf[w] => \E k \in i .. Len(trail) : prev[w] = trail[k].current

AuditInv == AuditTypeOK /\ LockInv /\ ReadInv /\ OwnRowsChained

LEMMA AuditInductive ==
  /\ AuditInit => AuditInv
  /\ AuditInv /\ [AuditNext]_auditVars => AuditInv'
<1>1. AuditInit => AuditInv
  BY DEF AuditInit, AuditInv, AuditTypeOK, LockInv, ReadInv, OwnRowsChained, GENESIS_HASH
<1>2. ASSUME AuditInv, [AuditNext]_auditVars PROVE AuditInv'
  <2>0. AuditTypeOK /\ Len(trail) \in Nat
    BY <1>2 DEF AuditInv, AuditTypeOK
  <2>1. ASSUME NEW w \in Writers, SelectLast(w) PROVE AuditInv'
    <3>1. InstanceOf[w] \notin held /\ LastHash \in Nat
      BY <2>0, <2>1, LastHashIsNatural DEF SelectLast, Free
    <3>2. /\ trail' = trail /\ minted' = minted /\ writing' = writing \cup {w}
          /\ prev' = [prev EXCEPT ![w] = LastHash] /\ prev'[w] = LastHash
          /\ held' = held \cup {InstanceOf[w]} /\ InstanceOf[w] \in Instances
      BY <2>0, <2>1 DEF SelectLast, AuditTypeOK, Instances
    <3>3. AuditTypeOK'
      BY <2>0, <3>1, <3>2 DEF AuditTypeOK
    <3>4. LockInv'
      BY <1>2, <3>1, <3>2 DEF AuditInv, LockInv
    <3>5. ReadInv'
      <4> SUFFICES ASSUME NEW v \in writing', NEW i \in 1 .. Len(trail), trail[i].by = InstanceOf[v]
                   PROVE  \E k \in i .. Len(trail) : prev'[v] = trail[k].current
        BY <3>2 DEF ReadInv
      <4>1. CASE v = w
        <5>1. trail # <<>> /\ Len(trail) \in i .. Len(trail)
          BY <2>0
        <5> QED BY <3>2, <4>1, <5>1 DEF LastHash
      <4>2. CASE v # w
        <5>1. v \in writing /\ prev'[v] = prev[v]
          BY <2>0, <3>2, <4>2 DEF AuditTypeOK
        <5> QED BY <1>2, <5>1 DEF AuditInv, ReadInv
      <4> QED BY <4>1, <4>2
    <3>6. OwnRowsChained'
      BY <1>2, <3>2 DEF AuditInv, OwnRowsChained
    <3> QED BY <3>3, <3>4, <3>5, <3>6 DEF AuditInv
  <2>2. ASSUME NEW w \in Writers, Insert(w) PROVE AuditInv'
    <3> DEFINE row == [prev |-> prev[w], current |-> minted', by |-> InstanceOf[w]]
    <3>1. row \in Rows /\ minted' \in Nat
      BY <2>0, <2>2 DEF Insert, AuditTypeOK, Rows, Instances
    <3>2. /\ trail' \in Seq(Rows)
          /\ Len(trail') = Len(trail) + 1
          /\ trail'[Len(trail) + 1] = row
          /\ \A i \in 1 .. Len(trail) : trail'[i] = trail[i]
      BY <2>0, <2>2, <3>1 DEF Insert, AuditTypeOK
    <3>3. w \in writing /\ writing' = writing \ {w} /\ held' = held \ {InstanceOf[w]} /\ prev' = prev
      BY <2>2 DEF Insert, Leave
    <3>4. LockInv'
      BY <1>2, <3>3 DEF AuditInv, LockInv
    <3>5. ReadInv'
      <4> SUFFICES ASSUME NEW v \in writing', NEW i \in 1 .. Len(trail'), trail'[i].by = InstanceOf[v]
                   PROVE  \E k \in i .. Len(trail') : prev[v] = trail'[k].current
        BY <3>3 DEF ReadInv
      <4>1. v \in writing /\ InstanceOf[v] # InstanceOf[w]
        BY <1>2, <3>3 DEF AuditInv, LockInv
      <4>2. i \in 1 .. Len(trail)
        BY <2>0, <3>2, <4>1
      <4>3. PICK k \in i .. Len(trail) : prev[v] = trail[k].current
        BY <1>2, <3>2, <4>1, <4>2 DEF AuditInv, ReadInv
      <4>4. k \in i .. Len(trail') /\ trail'[k] = trail[k]
        BY <2>0, <3>2, <4>2
      <4> QED BY <4>3, <4>4
    <3>6. OwnRowsChained'
      <4> SUFFICES ASSUME NEW j \in 1 .. Len(trail'), NEW i \in 1 .. (j - 1), trail'[i].by = trail'[j].by
                   PROVE  \E k \in i .. (j - 1) : trail'[j].prev = trail'[k].current
        BY DEF OwnRowsChained
      <4>1. i \in 1 .. Len(trail) /\ trail'[i] = trail[i]
        BY <2>0, <3>2
      <4>2. CASE j = Len(trail) + 1
        <5>1. trail[i].by = InstanceOf[w] /\ trail'[j].prev = prev[w]
          BY <3>2, <4>1, <4>2
        <5>2. PICK k \in i .. Len(trail) : prev[w] = trail[k].current
          BY <1>2, <3>3, <4>1, <5>1 DEF AuditInv, ReadInv
        <5>3. k \in i .. (j - 1) /\ trail'[k] = trail[k]
          BY <2>0, <3>2, <4>1, <4>2
        <5> QED BY <5>1, <5>2, <5>3
      <4>3. CASE j # Len(trail) + 1
        <5>1. j \in 1 .. Len(trail) /\ trail'[j] = trail[j]
          BY <2>0, <3>2, <4>3
        <5>2. PICK k \in i .. (j - 1) : trail[j].prev = trail[k].current
          BY <1>2, <4>1, <5>1 DEF AuditInv, OwnRowsChained
        <5>3. trail'[k] = trail[k]
          BY <2>0, <3>2, <4>1, <5>1
        <5> QED BY <5>1, <5>2, <5>3
      <4> QED BY <4>2, <4>3
    <3>7. AuditTypeOK'
      BY <2>0, <3>1, <3>2, <3>3 DEF AuditTypeOK
    <3> QED BY <3>4, <3>5, <3>6, <3>7 DEF AuditInv
  <2>3. ASSUME NEW w \in Writers, Lose(w) PROVE AuditInv'
    BY <1>2, <2>3 DEF Lose, Leave, AuditInv, AuditTypeOK, LockInv, ReadInv, OwnRowsChained
  <2>4. CASE UNCHANGED auditVars
    BY <1>2, <2>4 DEF auditVars, AuditInv, AuditTypeOK, LockInv, ReadInv, OwnRowsChained
  <2> QED BY <1>2, <2>1, <2>2, <2>3, <2>4 DEF AuditNext
<1> QED BY <1>1, <1>2

(* A row names a row at or after the last one its own instance wrote, for  *)
(* any number of instances, writers and lost events.                       *)
THEOREM OwnRowsChainedHolds == AuditSpec => []OwnRowsChained
<1>1. AuditInv => OwnRowsChained
  BY DEF AuditInv
<1> QED BY <1>1, AuditInductive, PTL DEF AuditSpec
=============================================================================
