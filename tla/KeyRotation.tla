---------------------------- MODULE KeyRotation ----------------------------
(***************************************************************************)
(* The keys of one cloud provider and the calls that share them:           *)
(* SovereignKeyPool (core/cognition/providers/key_pool.py) under           *)
(* GroqProvider.generate, health, stream and availability                  *)
(* (core/providers/groq_provider.py).                                      *)
(*                                                                         *)
(* The calls are coroutines: each runs alone from one await to the next,   *)
(* and the awaits are the request and the closing of its client.  Time is  *)
(* relative: rest[s] is what is left of blocked_until.                     *)
(***************************************************************************)
EXTENDS Integers

CONSTANTS
  Calls,   (* calls that may be in progress at once *)
  N,       (* number of keys                        *)
  Ttl      (* ttl_seconds of mark_rate_limited      *)

ASSUME KeyAssumption == N \in Nat \ {0} /\ Ttl \in Nat \ {0}

VARIABLES
  status,   (* slot.status                                                  *)
  rest,     (* time until slot.blocked_until, 0 where nothing reads it: in  *)
            (* a slot that is not RATE_LIMITED                              *)
  index,    (* current_index: where the next search starts                  *)
  call,     (* the locals of each call: where it is, its operation, the     *)
            (* slot whose key it sent and the attempts it has left          *)
  owed      (* history: slot s -> the slots that were obtainable ever since *)
            (* s was last handed out, and were not handed out themselves    *)

vars == <<status, rest, index, call, owed>>

Slots == 0 .. N - 1
Kinds == {"generate", "health", "stream"}
SlotStatus == {"AVAILABLE", "RATE_LIMITED", "AUTH_FAILED"}

NoCall == [at |-> "idle", kind |-> "generate", slot |-> 0, tries |-> 0]

-----------------------------------------------------------------------------
Succ(s) == IF s = N - 1 THEN 0 ELSE s + 1

(* A slot get_next_key would give: available, or cooled down. *)
Obtainable(s) == status[s] = "AVAILABLE" \/ (status[s] = "RATE_LIMITED" /\ rest[s] = 0)

(* Steps of the circular search from index to s. *)
Distance(s) == IF s >= index THEN s - index ELSE s - index + N

(* Seeded fault: the search starts at the first slot, whatever was given last. *)
FirstOfAll(s) == Obtainable(s) /\ \A t \in Slots : Obtainable(t) => s <= t

(* The slot get_next_key gives: the first obtainable one from index on.    *)
First(s) == Obtainable(s) /\ \A t \in Slots : Obtainable(t) => Distance(s) <= Distance(t)

(* GroqProvider.availability *)
Availability ==
  IF \E s \in Slots : Obtainable(s) THEN "AVAILABLE"
  ELSE IF \E s \in Slots : status[s] = "RATE_LIMITED" THEN "RATE_LIMITED"
  ELSE IF \A s \in Slots : status[s] = "AUTH_FAILED" THEN "UNAUTHORIZED"
  ELSE "UNAVAILABLE"

-----------------------------------------------------------------------------
Init ==
  /\ status = [s \in Slots |-> "AVAILABLE"]
  /\ rest = [s \in Slots |-> 0]
  /\ index = 0
  /\ call = [c \in Calls |-> NoCall]
  /\ owed = [s \in Slots |-> {}]

(* What stays owed once the slots in gone cannot be had any more. *)
StillOwed(gone) == [s \in Slots |-> owed[s] \ gone]

(* A call begins.  generate has one attempt per slot, the others have one. *)
Begin(c, k) ==
  /\ call[c].at = "idle"
  /\ call' = [call EXCEPT ![c] = [at |-> "asking", kind |-> k, slot |-> 0,
                                 tries |-> IF k = "generate" THEN N ELSE 1]]
  /\ UNCHANGED <<status, rest, index, owed>>

(* get_next_key gives a slot and the request leaves. *)
Send(c, s) ==
  /\ call[c].at = "asking" /\ call[c].tries > 0 /\ First(s)
  /\ status' = [status EXCEPT ![s] = "AVAILABLE"]
  /\ rest' = [rest EXCEPT ![s] = 0]
  /\ index' = Succ(s)
  /\ call' = [call EXCEPT ![c].at = "sent", ![c].slot = s, ![c].tries = @ - 1]
  /\ owed' = [StillOwed({s}) EXCEPT ![s] = {t \in Slots \ {s} : Obtainable(t)}]

(* No key, or no attempt left: the call reports that the keys are exhausted. *)
GiveUp(c) ==
  /\ call[c].at = "asking"
  /\ call[c].tries = 0 \/ \A s \in Slots : ~Obtainable(s)
  /\ call' = [call EXCEPT ![c] = NoCall]
  /\ UNCHANGED <<status, rest, index, owed>>

(* mark_rate_limited, mark_auth_failed and mark_success write the slot,    *)
(* whatever its status has become since the request left.                  *)
Mark(s, as, for) ==
  /\ status' = [status EXCEPT ![s] = as]
  /\ rest' = [rest EXCEPT ![s] = for]

Marking(c) == call[c].at = "sent" /\ call[c].kind \in {"generate", "health"}

(* A 429, 401 or 403: generate goes on to its next attempt, health ends.   *)
Refused(c) ==
  /\ Marking(c)
  /\ \/ Mark(call[c].slot, "RATE_LIMITED", Ttl)
     \/ Mark(call[c].slot, "AUTH_FAILED", 0)
  /\ owed' = StillOwed({call[c].slot})
  /\ call' = [call EXCEPT ![c] = IF call[c].kind = "generate"
                                 THEN [call[c] EXCEPT !.at = "asking"] ELSE NoCall]
  /\ UNCHANGED index

(* Seeded fault: the success is credited to the slot the pool is at. *)
CreditsCurrent(c) ==
  /\ Marking(c)
  /\ Mark(index, "AVAILABLE", 0)
  /\ call' = [call EXCEPT ![c] = NoCall]
  /\ UNCHANGED <<index, owed>>

(* A 200 *)
Succeeded(c) ==
  /\ Marking(c)
  /\ Mark(call[c].slot, "AVAILABLE", 0)
  /\ call' = [call EXCEPT ![c] = NoCall]
  /\ UNCHANGED <<index, owed>>

(* Seeded fault: generate tries again after an error, its attempts uncounted. *)
RetriesErrors(c) ==
  /\ call[c].at = "sent"
  /\ call' = [call EXCEPT ![c].at = "asking", ![c].tries = @ + 1]
  /\ UNCHANGED <<status, rest, index, owed>>

(* A timeout, another answer or an exception; any end of a stream.         *)
Unmarked(c) ==
  /\ call[c].at = "sent"
  /\ call' = [call EXCEPT ![c] = NoCall]
  /\ UNCHANGED <<status, rest, index, owed>>

Tick ==
  /\ \E s \in Slots : rest[s] > 0
  /\ rest' = [s \in Slots |-> IF rest[s] > 0 THEN rest[s] - 1 ELSE 0]
  /\ UNCHANGED <<status, index, call, owed>>

Answer(c) == Refused(c) \/ Succeeded(c) \/ Unmarked(c)
Ask(c) == (\E s \in Slots : Send(c, s)) \/ GiveUp(c)

Next ==
  \/ \E c \in Calls : Ask(c) \/ Answer(c) \/ \E k \in Kinds : Begin(c, k)
  \/ Tick

(* The loop runs every ready coroutine, httpx ends every request by its    *)
(* timeout, and time passes.  Nobody has to call.                          *)
Fairness ==
  /\ \A c \in Calls : WF_vars(Ask(c)) /\ WF_vars(Answer(c))
  /\ WF_vars(Tick)

Spec == Init /\ [][Next]_vars /\ Fairness

-----------------------------------------------------------------------------
(* The pool's slots and the calls' fields keep their kinds of value, and   *)
(* current_index always designates a slot.                                 *)
KeyTypeOK ==
  /\ status \in [Slots -> SlotStatus]
  /\ rest \in [Slots -> 0 .. Ttl]
  /\ index \in Slots
  /\ call \in [Calls -> [at : {"idle", "asking", "sent"}, kind : Kinds,
                          slot : Slots, tries : 0 .. N]]
  /\ owed \in [Slots -> SUBSET Slots]

(* Round robin under concurrent calls: no key is handed out twice while    *)
(* another one, obtainable all the time in between, is left out.           *)
RoundRobin == \A s \in Slots : First(s) => owed[s] = {}

(* availability, written apart from the pool, says what get_next_key would *)
(* do: a key can be had when it says AVAILABLE, waiting brings one back    *)
(* when it says RATE_LIMITED, and it never falls to UNAVAILABLE.           *)
AvailabilityTruthful ==
  /\ Availability = "AVAILABLE" <=> \E s \in Slots : First(s)
  /\ Availability = "RATE_LIMITED" => \E s \in Slots : status[s] = "RATE_LIMITED" /\ rest[s] > 0
  /\ Availability # "UNAVAILABLE"

InFlight(s) == {c \in Calls : call[c].at = "sent" /\ call[c].slot = s}

(* A blocked key on which no request is in flight stays blocked until its  *)
(* cooldown ends, and for good after a 401: only a late answer to a call   *)
(* sent on that very key can bring it back.                                *)
QuietKeyStaysBlocked ==
  [][\A s \in Slots :
        (~Obtainable(s) /\ InFlight(s) = {}) =>
          \/ ~Obtainable(s)'
          \/ status[s] = "RATE_LIMITED" /\ rest[s] = 1]_vars

(* A call that rotates over the keys ends, whatever the other calls do.    *)
CallsEnd == \A c \in Calls : call[c].at # "idle" ~> call[c].at = "idle"

=============================================================================
