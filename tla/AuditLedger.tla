----------------------------- MODULE AuditLedger -----------------------------
(***************************************************************************)
(* The hash chain of core/security/audit_ledger.py.  Every AuditLedger     *)
(* object has a lock of its own, and the program makes several on the same *)
(* database: the orchestrator's, the approval manager's, the self-         *)
(* correction engine's, and those of the command line tools.               *)
(***************************************************************************)
EXTENDS Integers, Sequences

CONSTANTS
  Writers,     (* threads and processes that call record_event          *)
  InstanceOf,  (* the AuditLedger object each of them uses              *)
  MaxEvents    (* bound: events computed                                *)

Instances == {InstanceOf[w] : w \in Writers}

ASSUME LedgerAssumption == MaxEvents \in Nat

VARIABLES
  trail,    (* rows of audit_trail in id order: prev_hash, current_hash, *)
            (* and, for the properties, the instance that wrote it      *)
  held,     (* instances whose _write_lock is held                      *)
  prev,     (* what a writer between its SELECT and its INSERT has read *)
  writing,  (* the writers between their SELECT and their INSERT        *)
  minted    (* hashes computed so far; SHA-256 never repeats one        *)

auditVars == <<trail, held, prev, writing, minted>>

GENESIS_HASH == 0

LastHash == IF trail = <<>> THEN GENESIS_HASH ELSE trail[Len(trail)].current

AuditInit ==
  /\ trail = <<>>
  /\ held = {}
  /\ prev = [w \in Writers |-> GENESIS_HASH]
  /\ writing = {}
  /\ minted = 0

(* Seeded fault: record_event does not take the lock. *)
Unlocked(w) == TRUE

Free(w) == InstanceOf[w] \notin held

(* record_event takes the lock and selects the last hash, outside of any   *)
(* write transaction.                                                      *)
SelectLast(w) ==
  /\ w \notin writing /\ Free(w) /\ minted < MaxEvents
  /\ held' = held \cup {InstanceOf[w]}
  /\ prev' = [prev EXCEPT ![w] = LastHash]
  /\ writing' = writing \cup {w}
  /\ UNCHANGED <<trail, minted>>

Leave(w) ==
  /\ writing' = writing \ {w}
  /\ held' = held \ {InstanceOf[w]}

(* INSERT and commit.  Another instance may have inserted since the SELECT: *)
(* the chain then forks.                                                   *)
Insert(w) ==
  /\ w \in writing
  /\ minted' = minted + 1
  /\ trail' = Append(trail,
       [prev |-> prev[w], current |-> minted', by |-> InstanceOf[w]])
  /\ Leave(w)
  /\ UNCHANGED prev

(* The INSERT raises (the database stays busy past the timeout), or the    *)
(* process dies: the event is lost, its callers go on.                     *)
Lose(w) ==
  /\ w \in writing
  /\ minted' = minted + 1
  /\ Leave(w)
  /\ UNCHANGED <<trail, prev>>

AuditNext == \E w \in Writers : SelectLast(w) \/ Insert(w) \/ Lose(w)

AuditSpec == AuditInit /\ [][AuditNext]_auditVars

-----------------------------------------------------------------------------
Rows == [prev : Nat, current : Nat, by : Instances]

AuditTypeOK ==
  /\ trail \in Seq(Rows)
  /\ held \subseteq Instances
  /\ prev \in [Writers -> Nat]
  /\ writing \subseteq Writers
  /\ minted \in Nat

(* A row names a row at or after the last one that its own instance wrote, *)
(* however its writers race and whatever events are lost: two rows of one  *)
(* instance never name the same predecessor.  With one instance this is    *)
(* what verify_chain_integrity checks; rows of two instances may name the  *)
(* same predecessor, and verification fails from then on.                  *)
OwnRowsChained ==
  \A j \in 1 .. Len(trail) : \A i \in 1 .. (j - 1) :
    trail[i].by = trail[j].by =>
      \E k \in i .. (j - 1) : trail[j].prev = trail[k].current

=============================================================================
