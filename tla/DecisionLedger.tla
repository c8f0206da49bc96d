---------------------------- MODULE DecisionLedger ----------------------------
(***************************************************************************)
(* core/cognition/decision_ledger.py on Windows: the decisions' ledger,    *)
(* its trusted head and its monotonic floor, three files written under a   *)
(* transaction lock: one of the process, which is waited for, and one of   *)
(* the file, which is given up after a second.  A decision is recorded     *)
(* through the universal gateway, which asks the cognitive governor first. *)
(* Hashes are fresh numbers; a key is the number of the rotation that      *)
(* brought it.                                                             *)
(***************************************************************************)
EXTENDS CognitiveGovernor, FiniteSets

CONSTANTS
  Processes,     (* processes of the host                                    *)
  Deployments,   (* how the callers may be spread over the processes         *)
  Rationales,    (* lengths of the rationales: the cost of a decision        *)
  MaxBlocks,     (* bound: no call starts once so many hashes are computed   *)
  MaxRotations,  (* bound: rotations of the key                              *)
  MaxCrashes     (* bound: crashes of a process                              *)

ASSUME DecisionAssumption ==
  /\ Deployments \subseteq [Callers -> Processes] /\ Rationales \subseteq Nat
  /\ IsFiniteSet(Callers) /\ MaxBlocks \in Nat /\ MaxRotations \in Nat /\ MaxCrashes \in Nat

VARIABLES
  lines,      (* unified_decision_ledger.jsonl                               *)
  head,       (* .ledger_head.json                                           *)
  floor,      (* .ledger_monotonic_state.json                                *)
  rekey,      (* unified_decision_ledger.rekey.tmp; empty: no such file      *)
  key,        (* hmac_key of each caller's engine                            *)
  pc,         (* where each caller is in record_decision or rotate_secret_key*)
  draft,      (* the last line it is to write, or has written                *)
  rotations,  (* keys chosen so far                                          *)
  crashes

ledgerVars == <<lines, head, floor, rekey, key, pc, draft, rotations, crashes>>
vars == <<governorVars, ledgerVars>>

Keys == 0 .. MaxRotations
NoHead == [index |-> -1, hash |-> ZeroHash, key |-> 0]
NoFloor == [highest |-> -1, epoch |-> 0, key |-> 0]
Line == [index : Nat, prev : Nat, hash : Nat, key : Keys, whole : Wholeness]
NoLine == [index |-> 0, prev |-> ZeroHash, hash |-> ZeroHash, key |-> 0, whole |-> "yes"]
CutLine == [NoLine EXCEPT !.whole = "cut"]
Points == {"out", "deciding", "heading", "flooring", "recorded", "resealing", "replacing"}

-----------------------------------------------------------------------------
Init ==
  /\ processOf \in Deployments
  /\ GovernorInit
  /\ lines = <<>> /\ head = NoHead /\ floor = NoFloor /\ rekey = <<>>
  /\ key = [c \in Callers |-> 0]
  /\ pc = [c \in Callers |-> "out"]
  /\ draft = [c \in Callers |-> NoLine]
  /\ rotations = 0 /\ crashes = 0

(* Seeded fault: the file lock alone, which is given up. *)
Unlocked(c) == TRUE

(* TransactionLock waits for the lock of its process only. *)
ProcessLockFree(c) == \A d \in Callers : processOf[d] = processOf[c] => pc[d] = "out"

(* It gives the file lock up after a hundred attempts, or when the file    *)
(* cannot be opened, and goes on beside the other process.                 *)
TakeLock(c) ==
  /\ pc[c] = "out" /\ stage[c] = "idle" /\ ProcessLockFree(c)
  /\ met' = (met \/ \E d \in Callers : processOf[d] # processOf[c] /\ pc[d] # "out")

(* It releases what it holds. *)
Return(c) ==
  /\ pc' = [pc EXCEPT ![c] = "out"]
  /\ draft' = [draft EXCEPT ![c] = NoLine]

(* _get_last_block_state: the last line is read and nothing is verified;   *)
(* one that cannot be parsed counts as none.                               *)
NextIndex ==
  IF lines = <<>> \/ lines[Len(lines)].whole # "yes" THEN 0 ELSE lines[Len(lines)].index + 1

(* record_decision, as far as the sealed line. *)
EnterRecord(c) ==
  /\ TakeLock(c) /\ minted < MaxBlocks
  /\ pc' = [pc EXCEPT ![c] = "deciding"]
  /\ minted' = minted + 1
  /\ draft' = [draft EXCEPT ![c] = [index |-> NextIndex, prev |-> HeadOf(lines),
                                    hash |-> minted', key |-> key[c], whole |-> "yes"]]
  /\ UNCHANGED <<processOf, budget, manifest, stage, verdict,
                 lines, head, floor, rekey, key, rotations, crashes>>

(* The gateway asks the governor. *)
AskGovernor(c) == pc[c] = "deciding" /\ Evaluate(c) /\ UNCHANGED ledgerVars

(* execute_via_gateway: nothing but ALLOW lets the action run. *)
Cleared(c) == stage[c] = "answered" /\ verdict[c].decision = "ALLOW"

(* commit_decision appends the line. *)
AppendLine(c) ==
  /\ pc[c] = "deciding" /\ Cleared(c)
  /\ lines' = Written(lines, draft[c])
  /\ pc' = [pc EXCEPT ![c] = "heading"]
  /\ Answered(c)
  /\ UNCHANGED <<head, floor, rekey, key, draft, rotations, crashes>>

(* Seeded fault: the governor is asked again, with the lock held. *)
AskAgain(c) ==
  /\ stage[c] \in {"answered", "refused"} /\ (pc[c] = "deciding" => ~Cleared(c))
  /\ Answered(c)
  /\ UNCHANGED ledgerVars

(* A denial, or a governor that refuses to answer, is raised to the caller *)
(* and the lock released; the caller of the governor alone has its answer. *)
Raise(c) ==
  /\ stage[c] \in {"answered", "refused"} /\ (pc[c] = "deciding" => ~Cleared(c))
  /\ Answered(c) /\ Return(c)
  /\ UNCHANGED <<lines, head, floor, rekey, key, rotations, crashes>>

(* Seeded fault: the head advances by one from where it was. *)
NextHead(c) == [index |-> head.index + 1, hash |-> draft[c].hash, key |-> key[c]]

(* What _commit_head_and_monotonic_state writes, for the caller's line. *)
SealedHead(c) == [index |-> draft[c].index, hash |-> draft[c].hash, key |-> key[c]]
SealedFloor(c) ==
  [highest |-> IF floor.highest > draft[c].index THEN floor.highest ELSE draft[c].index,
   epoch |-> floor.epoch + 1, key |-> key[c]]

(* Seeded fault: the floor is replaced before the head. *)
FloorFirst(c) ==
  /\ pc[c] = "heading"
  /\ floor' = SealedFloor(c)
  /\ pc' = [pc EXCEPT ![c] = "flooring"]
  /\ UNCHANGED <<governorVars, lines, head, rekey, key, draft, rotations, crashes>>

(* _commit_head_and_monotonic_state: the head is replaced ... *)
CommitHead(c) ==
  /\ pc[c] = "heading"
  /\ head' = SealedHead(c)
  /\ pc' = [pc EXCEPT ![c] = "flooring"]
  /\ UNCHANGED <<governorVars, lines, floor, rekey, key, draft, rotations, crashes>>

(* ... and then the floor, whose signature is not verified. *)
CommitFloor(c) ==
  /\ pc[c] = "flooring"
  /\ floor' = SealedFloor(c)
  /\ pc' = [pc EXCEPT ![c] = "recorded"]
  /\ UNCHANGED <<governorVars, lines, head, rekey, key, draft, rotations, crashes>>

Leave(c) ==
  /\ pc[c] = "recorded" /\ Return(c)
  /\ UNCHANGED <<governorVars, lines, head, floor, rekey, key, rotations, crashes>>

-----------------------------------------------------------------------------
(* The n-th line has its place in the sequence. *)
InPlace(n) == lines[n].index = n - 1 /\ Linked(lines, n)

SignedWith(k) == \A n \in 1 .. Len(lines) : lines[n].key = k

(* query_decisions, by an engine that has the key k: the checks of the     *)
(* head, of the floor if its signature is good, of the lines, and of the   *)
(* end of the chain against the head.                                      *)
Readable(k) ==
  lines # <<>> =>
    /\ head # NoHead /\ head.key = k
    /\ (floor # NoFloor /\ floor.key = k) => head.index >= floor.highest
    /\ Whole(lines) /\ SignedWith(k) /\ \A n \in 1 .. Len(lines) : InPlace(n)
    /\ head.index = Len(lines) - 1 /\ head.hash = HeadOf(lines)

(* rotate_secret_key: an empty ledger takes the new key at once, one that  *)
(* cannot be read refuses the rotation; what was read is kept.             *)
EnterRotate(c) ==
  /\ TakeLock(c) /\ rotations < MaxRotations
  /\ rotations' = rotations + 1
  /\ IF lines = <<>>
     THEN key' = [key EXCEPT ![c] = rotations'] /\ UNCHANGED <<pc, draft>>
     ELSE /\ Readable(key[c])
          /\ pc' = [pc EXCEPT ![c] = "resealing"]
          /\ draft' = [draft EXCEPT ![c] =
               [@ EXCEPT !.index = Len(lines) - 1, !.key = rotations']]
          /\ UNCHANGED key
  /\ UNCHANGED <<processOf, budget, manifest, stage, verdict, minted,
                 lines, head, floor, rekey, crashes>>

(* Seeded fault: only the signatures are renewed, not the links. *)
ResignedLines(n, k) ==
  [i \in 1 .. n |-> [index |-> i - 1, prev |-> lines[i].prev,
                     hash |-> minted + i, key |-> k, whole |-> "yes"]]

(* The lines that were read, numbered as they were. *)
ResealedLines(n, k) ==
  [i \in 1 .. n |-> [index |-> i - 1, prev |-> IF i = 1 THEN ZeroHash ELSE minted + i - 1,
                     hash |-> minted + i, key |-> k, whole |-> "yes"]]

(* They are signed and linked again in a file of their own, which every    *)
(* rotation calls by the same name ...                                     *)
Reseal(c) ==
  /\ pc[c] = "resealing"
  /\ rekey' = ResealedLines(draft[c].index + 1, draft[c].key)
  /\ minted' = minted + draft[c].index + 1
  /\ draft' = [draft EXCEPT ![c] = [@ EXCEPT !.hash = minted']]
  /\ pc' = [pc EXCEPT ![c] = "replacing"]
  /\ UNCHANGED <<processOf, budget, manifest, stage, verdict, met,
                 lines, head, floor, key, rotations, crashes>>

(* ... and which takes the place of the ledger, unless another process     *)
(* has taken it away.                                                      *)
Replace(c) ==
  /\ pc[c] = "replacing"
  /\ IF rekey = <<>>
     THEN Return(c) /\ UNCHANGED <<lines, rekey, key>>
     ELSE /\ lines' = rekey /\ rekey' = <<>>
          /\ key' = [key EXCEPT ![c] = draft[c].key]
          /\ pc' = [pc EXCEPT ![c] = "heading"] /\ UNCHANGED draft
  /\ UNCHANGED <<governorVars, head, floor, rotations, crashes>>

-----------------------------------------------------------------------------
(* A caller that goes to the governor without recording a decision. *)
AskDirectly(c) == pc[c] = "out" /\ minted < MaxBlocks /\ Evaluate(c) /\ UNCHANGED ledgerVars

(* A decision costs its rationale; who asks directly asks anything. *)
RequestOf(c) ==
  IF pc[c] = "deciding" THEN [cost : Rationales, priority : {"normal"}, risk : {"low"}]
  ELSE Request

InTheGovernor(c) ==
  /\ GovernorStep(c) \/ \E r \in RequestOf(c) : Weigh(c, r)
  /\ UNCHANGED ledgerVars

(* A process dies, with the locks it holds; a line that it was writing may *)
(* be cut short.  It starts again with whatever key its environment has.   *)
Crash(p) ==
  LET dead == {c \in Callers : processOf[c] = p}
  IN /\ crashes < MaxCrashes
     /\ \E c \in dead : pc[c] # "out" \/ InGovernor(c)
     /\ crashes' = crashes + 1
     /\ GovernorCrash(dead)
     /\ pc' = [c \in Callers |-> IF c \in dead THEN "out" ELSE pc[c]]
     /\ \E k \in 0 .. rotations : key' = [c \in Callers |-> IF c \in dead THEN k ELSE key[c]]
     /\ IF \E c \in dead : pc[c] = "deciding" /\ Cleared(c)
        THEN lines' \in {lines, Written(lines, CutLine)}
        ELSE UNCHANGED lines
     /\ draft' = [c \in Callers |-> IF c \in dead THEN NoLine ELSE draft[c]]
     /\ UNCHANGED <<head, floor, rekey, rotations>>

RecordStep(c) ==
  \/ AppendLine(c) \/ Raise(c) \/ CommitHead(c) \/ CommitFloor(c) \/ Leave(c)
  \/ Reseal(c) \/ Replace(c)

Next ==
  \/ \E c \in Callers :
       \/ EnterRecord(c) \/ AskGovernor(c) \/ InTheGovernor(c) \/ RecordStep(c)
       \/ EnterRotate(c) \/ AskDirectly(c)
  \/ \E p \in Processes : Crash(p)

(* A thread keeps running, and the governor's lock, which is held for a    *)
(* few writes, is granted to one that keeps asking.                        *)
Fairness ==
  \A c \in Callers :
    WF_vars(InTheGovernor(c)) /\ WF_vars(RecordStep(c)) /\ SF_vars(AskGovernor(c))

Spec == Init /\ [][Next]_vars /\ Fairness

-----------------------------------------------------------------------------
DecisionTypeOK ==
  /\ GovernorTypeOK
  /\ processOf \in [Callers -> Processes]
  /\ lines \in Seq(Line) /\ rekey \in Seq(Line)
  /\ head \in [index : Int, hash : Nat, key : Keys]
  /\ floor \in [highest : Int, epoch : Nat, key : Keys]
  /\ key \in [Callers -> Keys]
  /\ pc \in [Callers -> Points]
  /\ draft \in [Callers -> Line]
  /\ rotations \in Keys /\ crashes \in 0 .. MaxCrashes

(* Whatever callers of one process, or of several that never met, record,  *)
(* rotate or lose in a crash: as far as the first line that was cut short, *)
(* the lines form one chain, numbered without a gap.                       *)
LedgerChained ==
  ~met => \A n \in 1 .. Len(lines) : WholeUpTo(lines, n) => InPlace(n)

(* A decision that was recorded can be read back by whoever recorded it,   *)
(* with everything before it, also what an earlier writer's death left     *)
(* without a head: provided no two processes met, no line was cut short    *)
(* and no other engine has signed with another key.                        *)
RecordedIsReadable ==
  \A c \in Callers :
    pc[c] = "recorded" /\ ~met /\ Whole(lines) /\ SignedWith(key[c]) => Readable(key[c])

(* The ledger is never taken for one rolled back: the floor is not above   *)
(* the head, even between the two writes or after a crash there, as long   *)
(* as no two processes met and no line was cut short.                      *)
NoFalseRollback == ~met /\ Whole(lines) => floor.highest <= head.index

ProcessesInUse == Cardinality({processOf[c] : c \in Callers})

(* Whatever the processes do to each other, what they were allowed without *)
(* an emergency exceeds the budget by at most one request for each of them *)
(* but the first.                                                          *)
OverspendBounded ==
  \E most \in Costs \cup Rationales :
    AllowedUpTo[Len(budget)] <= MaxSessionBudget + (ProcessesInUse - 1) * most

(* Fail closed: after a block that is not whole or names the wrong one,    *)
(* each process adds at most the block that it was about to write.         *)
BrokenChainStops ==
  \A n \in 1 .. Len(budget) :
    (budget[n].whole = "yes" /\ Linked(budget, n)) \/ Len(budget) - n < ProcessesInUse

(* Every call returns, unless its process dies: nobody waits for a lock    *)
(* that nobody releases.                                                   *)
CallsReturn == \A c \in Callers : (pc[c] # "out" ~> pc[c] = "out")

=============================================================================
