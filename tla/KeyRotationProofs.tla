------------------------- MODULE KeyRotationProofs -------------------------
(* The key pool, for any number of keys and calls and any cooldown: the    *)
(* rotation is fair and availability tells the truth.                      *)
EXTENDS KeyRotation, WellFoundedInduction, TLAPS

USE KeyAssumption DEF KeyAssumption

(* Obtainable depends on the slots' fields alone. *)
LEMMA ObtainableFrame ==
  ASSUME NEW s \in Slots, status'[s] = status[s], rest'[s] = rest[s]
  PROVE  Obtainable(s)' <=> Obtainable(s)
BY DEF Obtainable

(* A call's record with other fields is a call's record. *)
LEMMA CallUpdate ==
  ASSUME NEW A, NEW K, NEW S, NEW T, NEW r \in [at : A, kind : K, slot : S, tries : T],
         NEW a \in A, NEW s \in S, NEW n \in T
  PROVE  /\ [r EXCEPT !.at = a] \in [at : A, kind : K, slot : S, tries : T]
         /\ [r EXCEPT !.at = a, !.slot = s, !.tries = n] \in [at : A, kind : K, slot : S, tries : T]
OBVIOUS

(* Every step keeps the kinds of the pool's and the calls' values: the     *)
(* index never leaves the slots.                                           *)
LEMMA TypeInductive == KeyTypeOK /\ [Next]_vars => KeyTypeOK'
<1> SUFFICES ASSUME KeyTypeOK, [Next]_vars PROVE KeyTypeOK'
  OBVIOUS
<1> DEFINE CallRecords == [at : {"idle", "asking", "sent"}, kind : Kinds, slot : Slots, tries : 0 .. N]
<1> USE DEF KeyTypeOK, Slots, Kinds, SlotStatus
<1>1. ASSUME NEW c \in Calls, NEW s \in Slots, Send(c, s) PROVE KeyTypeOK'
  <2>1. owed' \in [Slots -> SUBSET Slots]
    BY <1>1 DEF Send, StillOwed
  <2>2. index' \in Slots
    <3>1. index' = IF s = N - 1 THEN 0 ELSE s + 1
      BY <1>1 DEF Send, Succ
    <3> QED BY <3>1
  <2>3. status' \in [Slots -> SlotStatus]
    BY <1>1 DEF Send
  <2>4. rest' \in [Slots -> 0 .. Ttl]
    BY <1>1 DEF Send
  <2>5. call' \in [Calls -> CallRecords]
    <3>1. /\ call[c] \in CallRecords /\ call[c].tries > 0
          /\ call' = [call EXCEPT ![c] = [call[c] EXCEPT !.at = "sent", !.slot = s, !.tries = call[c].tries - 1]]
      BY <1>1 DEF Send
    <3> DEFINE r == call[c]
    <3> HIDE DEF r
    <3>2. r \in CallRecords /\ r.tries > 0
      BY <3>1 DEF r
    <3>4. r.tries - 1 \in 0 .. N
      BY <3>2
    <3>5. [r EXCEPT !.at = "sent", !.slot = s, !.tries = r.tries - 1] \in CallRecords
      BY <3>2, <3>4, CallUpdate
    <3> QED BY <3>1, <3>5 DEF r
  <2> QED BY <2>1, <2>2, <2>3, <2>4, <2>5
<1>2. ASSUME NEW c \in Calls, GiveUp(c) PROVE KeyTypeOK'
  BY <1>2 DEF GiveUp, NoCall
<1>3. ASSUME NEW c \in Calls, Refused(c) PROVE KeyTypeOK'
  <2>1. owed' \in [Slots -> SUBSET Slots] /\ index' = index
    BY <1>3 DEF Refused, StillOwed
  <2>2. PICK as \in SlotStatus, for \in {0, Ttl} : Mark(call[c].slot, as, for)
    BY <1>3 DEF Refused
  <2>3. status' \in [Slots -> SlotStatus]
    BY <2>2 DEF Mark
  <2>4. rest' \in [Slots -> 0 .. Ttl]
    BY <2>2 DEF Mark
  <2>5. call' \in [Calls -> CallRecords]
    <3> DEFINE r == call[c]
    <3>1. call' = [call EXCEPT ![c] = IF r.kind = "generate" THEN [r EXCEPT !.at = "asking"] ELSE NoCall]
      BY <1>3 DEF Refused
    <3>2. r \in CallRecords
      OBVIOUS
    <3> HIDE DEF r
    <3>4. [r EXCEPT !.at = "asking"] \in CallRecords
      <4>1. r.slot \in Slots /\ r.tries \in 0 .. N
        BY <3>2
      <4> QED BY <3>2, <4>1, CallUpdate
    <3>5. NoCall \in CallRecords
      BY DEF NoCall
    <3> QED BY <3>1, <3>4, <3>5
  <2> QED BY <2>1, <2>3, <2>4, <2>5
<1>4. ASSUME NEW c \in Calls, Succeeded(c) PROVE KeyTypeOK'
  BY <1>4 DEF Succeeded, Marking, Mark, NoCall
<1>5. ASSUME NEW c \in Calls, Unmarked(c) PROVE KeyTypeOK'
  BY <1>5 DEF Unmarked, NoCall
<1>6. ASSUME NEW c \in Calls, NEW k \in Kinds, Begin(c, k) PROVE KeyTypeOK'
  BY <1>6 DEF Begin
<1>7. CASE Tick
  BY <1>7 DEF Tick
<1>8. CASE UNCHANGED vars
  BY <1>8 DEF vars
<1> QED
  BY <1>1, <1>2, <1>3, <1>4, <1>5, <1>6, <1>7, <1>8 DEF Next, Ask, Answer

(* The pool keeps its types, whatever the calls do. *)
THEOREM TypeSafe == Spec => []KeyTypeOK
<1>1. Init => KeyTypeOK
  BY DEF Init, KeyTypeOK, Slots, Kinds, SlotStatus, NoCall
<1> QED
  BY <1>1, TypeInductive, PTL DEF Spec

-----------------------------------------------------------------------------
(* What makes the rotation fair: a slot owed since s was handed out can    *)
(* still be had, and the search meets it before it meets s again.          *)
MetBefore ==
  \A s \in Slots : \A t \in owed[s] :
     t \in Slots /\ Obtainable(t) /\ Distance(t) < Distance(s)

(* Handing x out turns the circle: the slots beyond x come one step past x *)
(* nearer, and x becomes the farthest.                                     *)
LEMMA Turned ==
  ASSUME index \in Slots, NEW x \in Slots, index' = Succ(x)
  PROVE  /\ Distance(x)' = N - 1
         /\ \A s \in Slots : Distance(x) < Distance(s) =>
               Distance(s)' = Distance(s) - Distance(x) - 1
         /\ \A s \in Slots : s # x => Distance(s)' < N - 1
BY SMTT(60) DEF Slots, Succ, Distance

(* MetBefore is kept by every step: only a hand-out turns the circle, and  *)
(* only a refusal makes a slot unobtainable, which then is owed no more.   *)
LEMMA MetInductive == KeyTypeOK /\ MetBefore /\ [Next]_vars => MetBefore'
<1> SUFFICES ASSUME KeyTypeOK, MetBefore, [Next]_vars PROVE MetBefore'
  OBVIOUS
<1>0. index \in Slots /\ owed \in [Slots -> SUBSET Slots] /\ status \in [Slots -> SlotStatus]
      /\ rest \in [Slots -> 0 .. Ttl]
  BY DEF KeyTypeOK
<1>1. ASSUME NEW c \in Calls, NEW x \in Slots, Send(c, x) PROVE MetBefore'
  <2> SUFFICES ASSUME NEW s \in Slots, NEW t \in owed'[s]
               PROVE  t \in Slots /\ Obtainable(t)' /\ Distance(t)' < Distance(s)'
    BY DEF MetBefore, Slots
  <2>1. index' = Succ(x)
    BY <1>1 DEF Send
  <2>2. /\ Distance(x)' = N - 1
        /\ \A u \in Slots : Distance(x) < Distance(u) => Distance(u)' = Distance(u) - Distance(x) - 1
        /\ \A u \in Slots : u # x => Distance(u)' < N - 1
    BY <1>0, <2>1, Turned
  <2>3. CASE s = x
    <3>1. t \in Slots \ {x} /\ Obtainable(t)
      BY <1>0, <1>1, <2>3 DEF Send, StillOwed
    <3>2. Obtainable(t)'
      BY <1>0, <1>1, <3>1 DEF Send, Obtainable
    <3> QED BY <2>2, <2>3, <3>1, <3>2
  <2>4. CASE s # x
    <3>1. t \in owed[s] /\ t # x
      BY <1>0, <1>1, <2>4 DEF Send, StillOwed
    <3>2. t \in Slots /\ Obtainable(t) /\ Distance(t) < Distance(s)
      BY <3>1 DEF MetBefore
    <3>3. Distance(x) <= Distance(t)
      BY <1>1, <3>2 DEF Send, First
    <3>4. Distance(x) # Distance(t)
      BY <1>0, <3>1, <3>2 DEF Distance, Slots
    <3>5. Distance(x) \in Int /\ Distance(t) \in Int /\ Distance(s) \in Int
      BY <1>0, <3>2 DEF Distance, Slots
    <3>6. Distance(t)' < Distance(s)'
      BY <2>2, <3>2, <3>3, <3>4, <3>5
    <3>7. Obtainable(t)'
      BY <1>0, <1>1, <3>1, <3>2 DEF Send, Obtainable
    <3> QED BY <3>2, <3>6, <3>7
  <2> QED BY <2>3, <2>4
<1>2. ASSUME NEW c \in Calls, Refused(c) PROVE MetBefore'
  <2> SUFFICES ASSUME NEW s \in Slots, NEW t \in owed'[s]
               PROVE  t \in Slots /\ Obtainable(t)' /\ Distance(t)' < Distance(s)'
    BY DEF MetBefore, Slots
  <2>1. t \in owed[s] /\ t # call[c].slot
    BY <1>0, <1>2 DEF Refused, StillOwed
  <2>2. t \in Slots /\ Obtainable(t) /\ Distance(t) < Distance(s)
    BY <2>1 DEF MetBefore
  <2>3. Obtainable(t)'
    BY <1>0, <1>2, <2>1, <2>2 DEF Refused, Mark, Obtainable
  <2>4. index' = index
    BY <1>2 DEF Refused
  <2> QED BY <2>2, <2>3, <2>4 DEF Distance
<1>3. ASSUME NEW c \in Calls, Succeeded(c) PROVE MetBefore'
  <2>1. \A t \in Slots : Obtainable(t) => Obtainable(t)'
    BY <1>0, <1>3 DEF Succeeded, Mark, Obtainable
  <2>2. index' = index /\ owed' = owed
    BY <1>3 DEF Succeeded
  <2> QED BY <2>1, <2>2 DEF MetBefore, Distance, Slots
<1>4. CASE Tick
  <2>1. \A t \in Slots : Obtainable(t) => Obtainable(t)'
    BY <1>0, <1>4 DEF Tick, Obtainable
  <2>2. index' = index /\ owed' = owed
    BY <1>4 DEF Tick
  <2> QED BY <2>1, <2>2 DEF MetBefore, Distance, Slots
<1>5. CASE UNCHANGED <<status, rest, index, owed>>
  BY <1>5 DEF MetBefore, Distance, Obtainable, Slots
<1> QED
  BY <1>1, <1>2, <1>3, <1>4, <1>5 DEF Next, Ask, Answer, GiveUp, Unmarked, Begin, vars

(* RoundRobin for any number of keys and of concurrent calls: no key is    *)
(* handed out twice while another, obtainable in between, is left out.     *)
THEOREM RotationFair == Spec => []RoundRobin
<1>1. Init => MetBefore
  BY DEF Init, MetBefore, Slots
<1>2. KeyTypeOK /\ MetBefore => RoundRobin
  <2> SUFFICES ASSUME KeyTypeOK, MetBefore, NEW s \in Slots, First(s), owed[s] # {}
               PROVE  FALSE
    BY DEF RoundRobin
  <2>1. PICK t \in owed[s] : TRUE
    OBVIOUS
  <2>2. t \in Slots /\ Obtainable(t) /\ Distance(t) < Distance(s)
    BY <2>1 DEF MetBefore
  <2>3. Distance(s) <= Distance(t)
    BY <2>2 DEF First
  <2> QED BY <2>2, <2>3 DEF Distance, Slots, KeyTypeOK
<1> QED
  BY <1>1, <1>2, TypeSafe, MetInductive, PTL DEF Spec

-----------------------------------------------------------------------------
(* If a slot can be had, the search from index finds one.                  *)
LEMMA SearchFinds ==
  ASSUME index \in Slots, NEW s \in Slots, Obtainable(s)
  PROVE  \E t \in Slots : First(t)
<1> DEFINE D == {Distance(t) : t \in {u \in Slots : Obtainable(u)}}
           R == {p \in Nat \X Nat : p[1] < p[2]}
<1>1. IsWellFoundedOn(R, Nat)
  BY NatLessThanWellFounded DEF OpToRel
<1>2. D \subseteq Nat /\ D # {}
  BY DEF Distance, Slots
<1> HIDE DEF R
<1>3. PICK d \in D : \A e \in D : ~ (<<e, d>> \in R)
  BY <1>1, <1>2, WFMin
<1>4. ASSUME NEW e \in D PROVE d <= e
  <2>1. d \in Nat /\ e \in Nat
    BY <1>2, <1>3
  <2>2. ~ (<<e, d>> \in R)
    BY <1>3
  <2>3. ~ (e < d)
    BY <2>1, <2>2 DEF R
  <2> QED BY <2>1, <2>3
<1>5. PICK t \in Slots : Obtainable(t) /\ d = Distance(t)
  BY <1>3
<1> QED BY <1>4, <1>5 DEF First

(* AvailabilityTruthful for any number of keys and of concurrent calls.    *)
THEOREM AvailabilitySafe == Spec => []AvailabilityTruthful
<1>1. KeyTypeOK => AvailabilityTruthful
  <2> SUFFICES ASSUME KeyTypeOK PROVE AvailabilityTruthful
    OBVIOUS
  <2>0. index \in Slots /\ status \in [Slots -> SlotStatus] /\ rest \in [Slots -> 0 .. Ttl]
    BY DEF KeyTypeOK
  <2>1. Availability = "AVAILABLE" <=> \E s \in Slots : Obtainable(s)
    BY DEF Availability
  <2>2. (\E s \in Slots : Obtainable(s)) <=> \E s \in Slots : First(s)
    BY <2>0, SearchFinds DEF First
  <2>3. Availability = "RATE_LIMITED" => \E s \in Slots : status[s] = "RATE_LIMITED" /\ rest[s] > 0
    BY <2>0 DEF Availability, Obtainable
  <2>4. Availability # "UNAVAILABLE"
    BY <2>0 DEF Availability, Obtainable, SlotStatus
  <2> QED BY <2>1, <2>2, <2>3, <2>4 DEF AvailabilityTruthful
<1> QED BY <1>1, TypeSafe, PTL

(* QuietKeyStaysBlocked for any number of keys and calls: without a        *)
(* request in flight on it, only the end of its cooldown frees a key.      *)
THEOREM QuietKeySafe == Spec => QuietKeyStaysBlocked
<1> DEFINE Quiet(s) == (~Obtainable(s) /\ InFlight(s) = {}) =>
                          \/ ~Obtainable(s)'
                          \/ status[s] = "RATE_LIMITED" /\ rest[s] = 1
<1>1. KeyTypeOK /\ [Next]_vars => [\A s \in Slots : Quiet(s)]_vars
  <2> SUFFICES ASSUME KeyTypeOK, Next, NEW s \in Slots, ~Obtainable(s), InFlight(s) = {}
               PROVE  ~Obtainable(s)' \/ (status[s] = "RATE_LIMITED" /\ rest[s] = 1)
    OBVIOUS
  <2>0. status \in [Slots -> SlotStatus] /\ rest \in [Slots -> 0 .. Ttl]
    BY DEF KeyTypeOK
  <2>1. ASSUME NEW c \in Calls, NEW x \in Slots, Send(c, x) PROVE ~Obtainable(s)'
    <3>1. x # s
      BY <2>1 DEF Send, First
    <3> QED BY <2>0, <2>1, <3>1 DEF Send, Obtainable
  <2>2. ASSUME NEW c \in Calls, Refused(c) PROVE ~Obtainable(s)'
    <3>1. call[c].slot # s
      BY <2>2 DEF Refused, Marking, InFlight
    <3> QED BY <2>0, <2>2, <3>1 DEF Refused, Mark, Obtainable
  <2>3. ASSUME NEW c \in Calls, Succeeded(c) PROVE ~Obtainable(s)'
    <3>1. call[c].slot # s
      BY <2>3 DEF Succeeded, Marking, InFlight
    <3> QED BY <2>0, <2>3, <3>1 DEF Succeeded, Mark, Obtainable
  <2>4. CASE Tick
    BY <2>0, <2>4 DEF Tick, Obtainable
  <2>5. CASE UNCHANGED <<status, rest>>
    BY <2>5 DEF Obtainable
  <2> QED
    BY <2>1, <2>2, <2>3, <2>4, <2>5 DEF Next, Ask, Answer, GiveUp, Unmarked, Begin
<1> QED BY <1>1, TypeSafe, PTL DEF Spec, QuietKeyStaysBlocked

=============================================================================
