-------------------------- MODULE WorkerLeaseProofs --------------------------
(* Mutual exclusion of leases, for any workers, tasks and lifetimes. *)
EXTENDS WorkerLease, TLAPS

(* Whatever a call has read of the clock has passed, and a valid lease is  *)
(* in the table.                                                           *)
Inv ==
  /\ TypeOK
  /\ \A w \in Workers : now[w] <= clock
  /\ \A t \in Tasks : \A w \in Workers : expires[w][t] > clock => owner[t] = w

LEMMA Inductive == Init /\ [][Next]_vars => []Inv
<1>1. Init => Inv
  BY LeaseAssumption DEF Init, Inv, TypeOK
<1>2. ASSUME Inv, [Next]_vars PROVE Inv'
  <2> USE <1>2 DEF Inv, TypeOK
  <2>1. CASE Tick
    BY <2>1 DEF Tick
  <2>2. ASSUME NEW w \in Workers, NEW t \in Tasks,
               NEW m \in {"acquire", "renew", "release", "recover"}, Call(w, t, m)
        PROVE Inv'
    BY <2>2 DEF Call
  <2>3. ASSUME NEW w \in Workers, Acquire(w) PROVE Inv'
    <3> DEFINE t == on[w]
    <3>1. CASE UNCHANGED <<owner, expires>>
      BY <2>3, <3>1 DEF Acquire, Return
    <3>2. CASE ~UNCHANGED <<owner, expires>>
      <4>1. PICK ttl \in TTLs : Granted(w, t, now[w] + ttl)
        BY <2>3, <3>2 DEF Acquire
      <4>2. /\ owner[t] # w => Takable(t, now[w])
            /\ owner' = [owner EXCEPT ![t] = w]
        BY <2>3, <3>2 DEF Acquire
      <4>3. ttl \in Nat /\ now[w] \in Nat /\ now[w] <= clock /\ t \in Tasks
        BY LeaseAssumption
      <4>4. expires' = [expires EXCEPT ![w] = [expires[w] EXCEPT ![t] = now[w] + ttl]]
        BY <4>1 DEF Granted
      <4>5. \A v \in Workers : v # w => expires[v][t] <= clock
        BY <4>2, <4>3 DEF Takable, IsValid
      <4> QED BY <2>3, <4>2, <4>3, <4>4, <4>5 DEF Acquire, Return
    <3> QED BY <3>1, <3>2
  <2>4. ASSUME NEW w \in Workers, Renew(w) PROVE Inv'
    <3> DEFINE t == on[w]
    <3>1. CASE UNCHANGED expires
      BY <2>4, <3>1 DEF Renew, Return
    <3>2. CASE ~UNCHANGED expires
      <4>1. PICK ttl \in TTLs : Granted(w, t, now[w] + ttl)
        BY <2>4, <3>2 DEF Renew
      <4>2. ttl \in Nat /\ now[w] \in Nat /\ t \in Tasks /\ owner[t] = w /\ owner' = owner
        BY <2>4, <3>2, LeaseAssumption DEF Renew
      <4>3. expires' = [expires EXCEPT ![w] = [expires[w] EXCEPT ![t] = now[w] + ttl]]
        BY <4>1 DEF Granted
      <4> QED BY <2>4, <4>2, <4>3 DEF Renew, Return
    <3> QED BY <3>1, <3>2
  <2>5. ASSUME NEW w \in Workers, Release(w) PROVE Inv'
    BY <2>5, LeaseAssumption DEF Release, Granted, Return
  <2>6. ASSUME NEW w \in Workers, Recover(w) PROVE Inv'
    BY <2>6, LeaseAssumption DEF Recover, Takable, IsValid, Return
  <2>7. CASE UNCHANGED vars
    BY <2>7 DEF vars
  <2> QED BY <2>1, <2>2, <2>3, <2>4, <2>5, <2>6, <2>7 DEF Next
<1> QED BY <1>1, <1>2, PTL

(* Every variable keeps its type: no lifetime, stale or not, makes an      *)
(* expiry that is not a time.                                              *)
THEOREM TypeCorrect == Spec => []TypeOK
<1>1. Inv => TypeOK
  BY DEF Inv
<1> QED BY <1>1, Inductive, PTL DEF Spec

(* Leases are mutually exclusive: worker_lease.py:4. *)
THEOREM ExclusiveHolds == Spec => []Exclusive
<1>1. Inv => Exclusive
  BY DEF Inv, TypeOK, Exclusive, IsValid
<1> QED BY <1>1, Inductive, PTL DEF Spec

(* A takeover is refused while the lease is active (worker_lease.py:8): no *)
(* call but its holder's release moves a valid lease.                      *)
THEOREM NotTakenOverHolds == Spec => NotTakenOver
<1> DEFINE Kept == \A t \in Tasks : \A w \in Workers :
                     (IsValid(w, t, clock) /\ pc[w] # "release") => owner'[t] = w
<1>1. Inv /\ [Next]_vars => [Kept]_vars
  <2> SUFFICES ASSUME Inv, [Next]_vars,
                      NEW t \in Tasks, NEW w \in Workers,
                      IsValid(w, t, clock), pc[w] # "release"
               PROVE owner'[t] = w
    OBVIOUS
  <2>1. owner[t] = w /\ \A v \in Workers : IsValid(w, t, now[v])
    BY DEF Inv, TypeOK, IsValid
  <2>2. ASSUME NEW v \in Workers, Acquire(v) PROVE owner'[t] = w
    BY <2>1, <2>2 DEF Acquire, Takable, Inv, TypeOK
  <2>3. ASSUME NEW v \in Workers, Release(v) PROVE owner'[t] = w
    BY <2>1, <2>3 DEF Release, Inv, TypeOK
  <2>4. ASSUME NEW v \in Workers, Recover(v) PROVE owner'[t] = w
    BY <2>1, <2>4 DEF Recover, Takable, Inv, TypeOK
  <2>5. UNCHANGED owner => owner'[t] = w
    BY <2>1
  <2> QED BY <2>2, <2>3, <2>4, <2>5 DEF Next, Tick, Call, Renew, vars
<1> QED BY <1>1, Inductive, PTL DEF Spec, NotTakenOver
=============================================================================
