----------------------------- MODULE WorkerLease -----------------------------
(***************************************************************************)
(* WorkerLeaseManager of core/orchestration/worker_lease.py: leases of     *)
(* tasks, kept in a table under a lock, with a time to live.  Each method  *)
(* reads the clock before it takes the lock, so it may act on a time that  *)
(* has passed.  The clock is assumed not to go back (time.time() can).     *)
(***************************************************************************)
EXTENDS Integers

CONSTANTS
  Workers,   (* owner_id of the workers                       *)
  Tasks,     (* task_id of the units of work                  *)
  Nobody,
  TTLs,      (* lifetimes in use, in ticks                    *)
  MaxClock   (* bound: the clock stops here                   *)

ASSUME LeaseAssumption ==
  /\ Nobody \notin Workers
  /\ TTLs \subseteq Nat
  /\ MaxClock \in Nat

VARIABLES
  clock,     (* time.time()                                                 *)
  owner,     (* owner of the lease in the table, or Nobody                  *)
  expires,   (* expires_at of the lease a worker was last given for a task; *)
             (* the table and the worker share the object                   *)
  pc, now,   (* a worker's call in progress, and the time it has read       *)
  on

vars == <<clock, owner, expires, pc, now, on>>

Init ==
  /\ clock = 0
  /\ owner = [t \in Tasks |-> Nobody]
  /\ expires = [w \in Workers |-> [t \in Tasks |-> 0]]
  /\ pc = [w \in Workers |-> "idle"]
  /\ now = [w \in Workers |-> 0]
  /\ on \in [Workers -> Tasks]

Tick ==
  /\ clock < MaxClock /\ clock' = clock + 1
  /\ UNCHANGED <<owner, expires, pc, now, on>>

(* A call starts: it reads the clock. *)
Call(w, t, method) ==
  /\ pc[w] = "idle"
  /\ pc' = [pc EXCEPT ![w] = method]
  /\ now' = [now EXCEPT ![w] = clock]
  /\ on' = [on EXCEPT ![w] = t]
  /\ UNCHANGED <<clock, owner, expires>>

Return(w) == pc' = [pc EXCEPT ![w] = "idle"] /\ UNCHANGED <<clock, now, on>>

(* Seeded fault: any lease found in the table may be taken over. *)
TakeAny(t, at) == TRUE

(* WorkerLease.is_valid, of the lease w holds for t. *)
IsValid(w, t, at) == at < expires[w][t]

(* No lease, or a stale one. *)
Takable(t, at) == \A w \in Workers : owner[t] = w => ~IsValid(w, t, at)

Granted(w, t, until) == expires' = [expires EXCEPT ![w][t] = until]

(* acquire_lease: a free or stale lease is granted, one's own is renewed,  *)
(* another's is denied.                                                    *)
Acquire(w) ==
  LET t == on[w]
  IN  /\ pc[w] = "acquire"
      /\ \/ /\ owner[t] # w => Takable(t, now[w])
            /\ owner' = [owner EXCEPT ![t] = w]
            /\ \E ttl \in TTLs : Granted(w, t, now[w] + ttl)
         \/ /\ ~Takable(t, now[w]) /\ owner[t] # w
            /\ UNCHANGED <<owner, expires>>
      /\ Return(w)

(* renew_lease with the lease_id of the lease w was given, if it is still  *)
(* in the table and valid.                                                 *)
Renew(w) ==
  LET t == on[w]
  IN  /\ pc[w] = "renew"
      /\ IF owner[t] = w /\ IsValid(w, t, now[w])
         THEN \E ttl \in TTLs : Granted(w, t, now[w] + ttl)
         ELSE UNCHANGED expires
      /\ UNCHANGED owner
      /\ Return(w)

(* release_lease: whoever releases gives its lease up, found or not. *)
Release(w) ==
  LET t == on[w]
  IN  /\ pc[w] = "release"
      /\ owner' = [owner EXCEPT ![t] = IF @ = w THEN Nobody ELSE @]
      /\ Granted(w, t, 0)
      /\ Return(w)

(* recover_stale_leases: the stale leases leave the table. *)
Recover(w) ==
  /\ pc[w] = "recover"
  /\ owner' = [t \in Tasks |-> IF Takable(t, now[w]) THEN Nobody ELSE owner[t]]
  /\ UNCHANGED expires
  /\ Return(w)

Next ==
  \/ Tick
  \/ \E w \in Workers, t \in Tasks :
       Call(w, t, "acquire") \/ Call(w, t, "renew") \/ Call(w, t, "release")
  \/ \E w \in Workers :
       \/ Call(w, on[w], "recover")
       \/ Acquire(w) \/ Renew(w) \/ Release(w) \/ Recover(w)

Spec == Init /\ [][Next]_vars

-----------------------------------------------------------------------------
TypeOK ==
  /\ clock \in Nat
  /\ owner \in [Tasks -> Workers \cup {Nobody}]
  /\ expires \in [Workers -> [Tasks -> Nat]]
  /\ pc \in [Workers -> {"idle", "acquire", "renew", "release", "recover"}]
  /\ now \in [Workers -> Nat]
  /\ on \in [Workers -> Tasks]

(* Ownership is mutually exclusive: two workers never hold leases of the   *)
(* same task that are both valid, however stale the times they act on.     *)
Exclusive ==
  \A t \in Tasks : \A v, w \in Workers :
    IsValid(v, t, clock) /\ IsValid(w, t, clock) => v = w

(* A valid lease is not taken away: as long as it is valid and its holder  *)
(* does not release it, no other call touches it.                          *)
NotTakenOver ==
  [][\A t \in Tasks : \A w \in Workers :
       (IsValid(w, t, clock) /\ pc[w] # "release") =>
          owner'[t] = w]_vars

=============================================================================
