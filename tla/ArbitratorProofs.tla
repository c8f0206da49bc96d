-------------------------- MODULE ArbitratorProofs --------------------------
(* Theorems of Arbitrator, for any missions, workers, plans and bounds. *)
EXTENDS Arbitrator, SequenceTheorems, FiniteSetTheorems, WellFoundedInduction, TLAPS

(* A set of naturals has a least member. *)
LEMMA LeastNatural ==
  ASSUME NEW T, T \subseteq Nat, T # {}
  PROVE  \E x \in T : \A y \in T : x <= y
<1> DEFINE R == {p \in Nat \X Nat : p[1] < p[2]}
<1>1. IsWellFoundedOn(R, Nat)
  <2>1. R = OpToRel(<, Nat)
    BY DEF OpToRel
  <2> QED BY <2>1, NatLessThanWellFounded DEF OpToRel
<1>2. \A x, y \in Nat : y < x => <<y, x>> \in R
  OBVIOUS
<1> HIDE DEF R
<1>3. PICK x \in T : \A y \in T : <<y, x>> \notin R
  BY <1>1, WFMin
<1>4. \A y \in T : ~(y < x)
  BY <1>2, <1>3
<1> QED BY <1>4

(* f iterates h from a, as far as n. *)
Iterated(f, a, h, n) == f[0] = a /\ \A i \in 1 .. n : f[i] = h[i][f[i - 1]]

(* What is defined from one number to the next is defined for all. *)
LEMMA Iterates ==
  ASSUME NEW S, NEW a \in S, NEW h \in [Nat -> [S -> S]]
  PROVE  \E f \in [Nat -> S] : f[0] = a /\ \A i \in Nat \ {0} : f[i] = h[i][f[i - 1]]
<1> DEFINE Upto(n) == \E f \in [0 .. n -> S] : Iterated(f, a, h, n)
           T == {n \in Nat : ~Upto(n)}
<1>1. Upto(0)
  <2>1. [i \in 0 .. 0 |-> a] \in [0 .. 0 -> S] /\ Iterated([i \in 0 .. 0 |-> a], a, h, 0)
    BY DEF Iterated
  <2> QED BY <2>1
<1>2. ASSUME NEW n \in Nat \ {0}, Upto(n - 1) PROVE Upto(n)
  <2>1. PICK f \in [0 .. n - 1 -> S] : Iterated(f, a, h, n - 1)
    BY <1>2
  <2> DEFINE g == [i \in 0 .. n |-> IF i = n THEN h[n][f[n - 1]] ELSE f[i]]
  <2>2. f[n - 1] \in S /\ h[n] \in [S -> S]
    OBVIOUS
  <2>3. h[n][f[n - 1]] \in S
    BY <2>2
  <2>4. g \in [0 .. n -> S]
    BY <2>3
  <2>5. g[0] = a /\ \A i \in 1 .. n - 1 : g[i] = h[i][g[i - 1]]
    BY <2>1 DEF Iterated
  <2>6. g[n] = h[n][g[n - 1]]
    OBVIOUS
  <2> HIDE DEF g
  <2>7. Iterated(g, a, h, n)
    BY <2>5, <2>6 DEF Iterated
  <2> QED BY <2>4, <2>7
<1> HIDE DEF Upto
<1>3. T = {}
  <2> SUFFICES ASSUME T # {} PROVE FALSE
    OBVIOUS
  <2>1. PICK x \in T : \A y \in T : x <= y
    <3>1. T # {} /\ T \subseteq Nat
      OBVIOUS
    <3> HIDE DEF T
    <3> QED BY <3>1, LeastNatural
  <2>2. x \in Nat \ {0} /\ x - 1 \in Nat /\ x - 1 \notin T
    BY <1>1, <2>1
  <2> QED BY <1>2, <2>1, <2>2
<1>4. \A n \in Nat : \E f \in [0 .. n -> S] : Iterated(f, a, h, n)
  BY <1>3 DEF Upto
<1> DEFINE part(n) == CHOOSE f \in [0 .. n -> S] : Iterated(f, a, h, n)
<1>5. \A n \in Nat : part(n) \in [0 .. n -> S] /\ Iterated(part(n), a, h, n)
  BY <1>4
<1> HIDE DEF part
<1>6. ASSUME NEW n \in Nat \ {0}
      PROVE  \A i \in 0 .. n - 1 : part(n)[i] = part(n - 1)[i]
  <2> DEFINE U == {i \in 0 .. n - 1 : part(n)[i] # part(n - 1)[i]}
  <2> SUFFICES ASSUME U # {} PROVE FALSE
    OBVIOUS
  <2>1. PICK x \in U : \A y \in U : x <= y
    <3>1. U # {} /\ U \subseteq Nat
      OBVIOUS
    <3> HIDE DEF U
    <3> QED BY <3>1, LeastNatural
  <2>2. part(n)[0] = a /\ part(n - 1)[0] = a
    BY <1>5, <1>6 DEF Iterated
  <2>3. x \in 1 .. n - 1 /\ x - 1 \in 0 .. n - 1 /\ x - 1 \notin U
    BY <2>1, <2>2
  <2>4. part(n)[x - 1] = part(n - 1)[x - 1]
    BY <2>3
  <2>5. part(n)[x] = part(n - 1)[x]
    BY <1>5, <2>3, <2>4 DEF Iterated
  <2> QED BY <2>1, <2>5
<1> DEFINE f == [n \in Nat |-> part(n)[n]]
<1>7. f \in [Nat -> S]
  BY <1>5
<1>8. f[0] = a
  BY <1>5 DEF Iterated
<1>9. ASSUME NEW i \in Nat \ {0} PROVE f[i] = h[i][f[i - 1]]
  <2>1. part(i)[i] = h[i][part(i)[i - 1]]
    BY <1>5 DEF Iterated
  <2>2. part(i)[i - 1] = part(i - 1)[i - 1]
    BY <1>6
  <2> QED BY <2>1, <2>2
<1> HIDE DEF f
<1> QED BY <1>7, <1>8, <1>9

-----------------------------------------------------------------------------
(* The search comes to an end: the missions that it has not visited become *)
(* fewer, or those that lie ahead.                                         *)
Graph == order \in Seq(Missions) /\ deps \in [Missions -> Seq(Missions)]

Rest(s) == Cardinality(Managed \ s.visited)
Before(s, t) == Rest(s) < Rest(t) \/ (Rest(s) = Rest(t) /\ Len(s.ahead) < Len(t.ahead))

(* The managed missions are finitely many. *)
LEMMA ManagedFinite == Graph => IsFiniteSet(Managed) /\ Managed \subseteq Missions
<1> SUFFICES ASSUME Graph PROVE IsFiniteSet(Managed) /\ Managed \subseteq Missions
  OBVIOUS
<1>1. Managed = {order[i] : i \in 1 .. Len(order)} /\ Len(order) \in Nat
  BY DEF Managed, ToSet, Graph
<1>2. IsFiniteSet(1 .. Len(order))
  BY <1>1, FS_Interval
<1>3. order \in Surjection(1 .. Len(order), Managed)
  BY <1>1 DEF Graph, Surjection
<1> QED BY <1>1, <1>2, <1>3, FS_Surjection DEF Graph

(* What more has been visited leaves no more to visit. *)
LEMMA RestIsNatural ==
  ASSUME Graph, NEW s, NEW t, s.visited \subseteq t.visited
  PROVE  Rest(s) \in Nat /\ Rest(t) \in Nat /\ Rest(t) <= Rest(s)
<1>1. Managed \ t.visited \subseteq Managed \ s.visited
  OBVIOUS
<1>2. IsFiniteSet(Managed \ s.visited) /\ IsFiniteSet(Managed \ t.visited)
  BY ManagedFinite, FS_Subset
<1> QED BY <1>1, <1>2, FS_CardinalityType, FS_Subset DEF Rest

(* In any set of searches one has no other before it. *)
LEMMA FirstSearch ==
  ASSUME Graph, NEW B, B \subseteq Search, B # {}
  PROVE  \E s \in B : \A t \in B : ~Before(t, s)
<1> DEFINE R == {Rest(s) : s \in B}
<1>1. \A s \in Search : Rest(s) \in Nat /\ Len(s.ahead) \in Nat
  BY RestIsNatural DEF Search
<1>2. PICK x \in R : \A y \in R : x <= y
  <2>1. R \subseteq Nat /\ R # {}
    BY <1>1
  <2> HIDE DEF R
  <2> QED BY <2>1, LeastNatural
<1> DEFINE L == {Len(s.ahead) : s \in {t \in B : Rest(t) = x}}
<1>3. PICK l \in L : \A y \in L : l <= y
  <2>1. L \subseteq Nat /\ L # {}
    BY <1>1, <1>2
  <2> HIDE DEF L
  <2> QED BY <2>1, LeastNatural
<1>4. PICK s \in B : Rest(s) = x /\ Len(s.ahead) = l
  BY <1>3
<1>5. ASSUME NEW t \in B, Before(t, s) PROVE FALSE
  <2>1. x <= Rest(t) /\ Rest(t) \in Nat /\ Len(t.ahead) \in Nat /\ x \in Nat /\ l \in Nat
    BY <1>1, <1>2, <1>4
  <2>2. Rest(t) = x /\ Len(t.ahead) < l
    BY <1>4, <1>5, <2>1 DEF Before
  <2>3. l <= Len(t.ahead)
    BY <1>3, <2>2
  <2> QED BY <2>1, <2>2, <2>3
<1> QED BY <1>4, <1>5

-----------------------------------------------------------------------------
(* What a search becomes past the first mission that lies ahead, when f    *)
(* goes on with what the dependencies of the mission lead to.              *)
Past(f, s, m) ==
  IF m \notin Managed THEN s
  ELSE IF m \in s.visited THEN [s EXCEPT !.found = m \in s.stack]
  ELSE Left(m)[f[From(m)[s]]]
Gone(f, s) == [Past(f, s, Head(s.ahead)) EXCEPT !.ahead = Tail(s.ahead)]
Body(f, s) == IF s.ahead = <<>> \/ s.found THEN s ELSE f[Gone(f, s)]

(* The functions that go on from a search: they forget nothing visited and *)
(* report nothing.                                                         *)
Onward(s, t) == s.visited \subseteq t.visited /\ t.reported = s.reported
Growing == {f \in [Search -> Search] : \A s \in Search : Onward(s, f[s])}

(* To enter a mission is a step forward. *)
LEMMA FromFits ==
  ASSUME Graph, NEW m \in Managed, NEW s \in Search
  PROVE  /\ From(m)[s] \in Search
         /\ From(m)[s] = [visited |-> s.visited \cup {m}, stack |-> s.stack \cup {m},
                          ahead |-> deps[m], found |-> s.found, reported |-> s.reported]
         /\ m \notin s.visited => Before(From(m)[s], s)
<1>1. m \in Missions /\ deps[m] \in Seq(Missions)
  BY ManagedFinite DEF Graph
<1>2. From(m)[s] = [visited |-> s.visited \cup {m}, stack |-> s.stack \cup {m},
                    ahead |-> deps[m], found |-> s.found, reported |-> s.reported]
  BY DEF From, Search
<1>3. From(m)[s] \in Search
  BY <1>1, <1>2 DEF Search
<1>4. ASSUME m \notin s.visited PROVE Rest(From(m)[s]) < Rest(s)
  <2> DEFINE U == Managed \ s.visited
             V == Managed \ From(m)[s].visited
  <2>1. V = U \ {m} /\ m \in U
    BY <1>2, <1>4
  <2>2. IsFiniteSet(U)
    BY ManagedFinite, FS_Subset
  <2> HIDE DEF U, V
  <2>3. Cardinality(V) = Cardinality(U) - 1 /\ Cardinality(U) \in Nat
    BY <2>1, <2>2, FS_RemoveElement, FS_CardinalityType
  <2> QED BY <2>3 DEF Rest, U, V
<1> QED BY <1>2, <1>3, <1>4 DEF Before

(* To leave one takes nothing back but the stack. *)
LEMMA LeftFits ==
  ASSUME NEW m, NEW s \in Search
  PROVE  /\ Left(m)[s] = IF s.found THEN s ELSE [s EXCEPT !.stack = @ \ {m}]
         /\ Left(m)[s] \in Search /\ Left(m)[s].visited = s.visited
         /\ Left(m)[s].reported = s.reported
BY DEF Left, Search

(* Past a mission, the search is a search still, and further on. *)
LEMMA PastFits ==
  ASSUME Graph, NEW f \in Growing, NEW s \in Search, NEW m
  PROVE  Past(f, s, m) \in Search /\ Onward(s, Past(f, s, m))
<1>1. CASE m \in Managed \ s.visited
  <2> DEFINE u == From(m)[s]
             r == f[u]
  <2>1. m \in Managed /\ m \notin s.visited
    BY <1>1
  <2>2. Past(f, s, m) = Left(m)[r]
    BY <2>1 DEF Past
  <2>3. /\ u \in Search
        /\ u = [visited |-> s.visited \cup {m}, stack |-> s.stack \cup {m},
                ahead |-> deps[m], found |-> s.found, reported |-> s.reported]
    BY <2>1, FromFits
  <2> HIDE DEF u
  <2>4. Onward(s, u)
    BY <2>3 DEF Onward
  <2>5. r \in Search /\ Onward(u, r)
    BY <2>3 DEF Growing
  <2> HIDE DEF r
  <2>6. Left(m)[r] \in Search /\ Left(m)[r].visited = r.visited /\ Left(m)[r].reported = r.reported
    BY <2>5, LeftFits
  <2> QED BY <2>2, <2>4, <2>5, <2>6 DEF Onward
<1>2. CASE m \notin Managed
  BY <1>2 DEF Past, Onward
<1>3. CASE m \in Managed /\ m \in s.visited
  <2> DEFINE b == m \in s.stack
  <2>1. Past(f, s, m) = [s EXCEPT !.found = b] /\ b \in BOOLEAN
    BY <1>3 DEF Past
  <2> HIDE DEF b
  <2> QED BY <2>1 DEF Search, Onward
<1> QED BY <1>1, <1>2, <1>3

(* Each step of a search comes before the last. *)
LEMMA GoneFits ==
  ASSUME Graph, NEW f \in Growing, NEW s \in Search, s.ahead # <<>>
  PROVE  /\ Gone(f, s) \in Search /\ Onward(s, Gone(f, s))
         /\ Before(Gone(f, s), s)
<1>1. /\ s.ahead \in Seq(Missions) /\ Tail(s.ahead) \in Seq(Missions)
      /\ Len(Tail(s.ahead)) < Len(s.ahead)
  BY DEF Search
<1> DEFINE t == Past(f, s, Head(s.ahead))
<1>2. t \in Search /\ Onward(s, t)
  BY PastFits
<1>3. Gone(f, s) = [t EXCEPT !.ahead = Tail(s.ahead)]
  BY DEF Gone
<1> HIDE DEF t
<1>4. /\ Gone(f, s) \in Search /\ Onward(s, Gone(f, s)) /\ Gone(f, s).ahead = Tail(s.ahead)
  BY <1>1, <1>2, <1>3 DEF Search, Onward
<1>5. Rest(Gone(f, s)) \in Nat /\ Rest(s) \in Nat /\ Rest(Gone(f, s)) <= Rest(s)
  BY <1>4, RestIsNatural DEF Onward
<1> QED BY <1>1, <1>2, <1>4, <1>5 DEF Before

(* One more step of such a function is such a function. *)
LEMMA BodyGrows ==
  ASSUME Graph, NEW f \in Growing
  PROVE  [s \in Search |-> Body(f, s)] \in Growing
<1>1. ASSUME NEW s \in Search PROVE Body(f, s) \in Search /\ Onward(s, Body(f, s))
  <2>1. CASE s.ahead = <<>> \/ s.found
    BY <2>1 DEF Body, Onward
  <2>2. CASE ~(s.ahead = <<>> \/ s.found)
    <3>1. Gone(f, s) \in Search /\ Onward(s, Gone(f, s))
      BY <2>2, GoneFits
    <3>2. f[Gone(f, s)] \in Search /\ Onward(Gone(f, s), f[Gone(f, s)])
      BY <3>1 DEF Growing
    <3> QED BY <2>2, <3>1, <3>2 DEF Body, Onward
  <2> QED BY <2>1, <2>2
<1> QED BY <1>1 DEF Growing

-----------------------------------------------------------------------------
(* Functions that agree on what comes before a search take the same step.  *)
LEMMA GoneAgrees ==
  ASSUME Graph, NEW f, NEW g, NEW s \in Search, s.ahead # <<>>,
         \A t \in Search : Before(t, s) => f[t] = g[t]
  PROVE  Gone(f, s) = Gone(g, s)
<1> DEFINE m == Head(s.ahead)
<1>1. Past(f, s, m) = Past(g, s, m)
  <2>1. CASE m \in Managed /\ m \notin s.visited
    <3>1. From(m)[s] \in Search /\ Before(From(m)[s], s)
      BY <2>1, FromFits
    <3>2. f[From(m)[s]] = g[From(m)[s]]
      BY <3>1
    <3> HIDE DEF m
    <3> QED BY <3>2 DEF Past
  <2>2. CASE ~(m \in Managed /\ m \notin s.visited)
    <3> HIDE DEF m
    <3> QED BY <2>2 DEF Past
  <2> QED BY <2>1, <2>2
<1> QED BY <1>1 DEF Gone

(* The search ends: some function takes every one of its steps. *)
LEMMA FollowExists ==
  ASSUME Graph
  PROVE  \E g \in Growing : \A s \in Search : g[s] = Body(g, s)
<1> DEFINE next == [f \in Growing |-> [s \in Search |-> Body(f, s)]]
           id == [s \in Search |-> s]
<1>1. id \in Growing /\ next \in [Growing -> Growing]
  BY BodyGrows DEF Growing, Onward
<1>2. PICK F \in [Nat -> Growing] :
        F[0] = id /\ \A n \in Nat \ {0} : F[n] = next[F[n - 1]]
  <2> DEFINE h == [i \in Nat |-> next]
  <2>1. h \in [Nat -> [Growing -> Growing]]
    BY <1>1
  <2> HIDE DEF h, id, next
  <2>2. id \in Growing
    BY <1>1
  <2>3. \E F \in [Nat -> Growing] : F[0] = id /\ \A n \in Nat \ {0} : F[n] = h[n][F[n - 1]]
    <3> DEFINE Iterable(S) ==
          \A a \in S : \A k \in [Nat -> [S -> S]] :
            \E F \in [Nat -> S] : F[0] = a /\ \A n \in Nat \ {0} : F[n] = k[n][F[n - 1]]
    <3>1. \A S : Iterable(S)
      BY Iterates
    <3> HIDE DEF Iterable
    <3>2. Iterable(Growing)
      BY <3>1
    <3> QED BY <2>1, <2>2, <3>2 DEF Iterable
  <2>4. \A n \in Nat \ {0} : h[n] = next
    BY DEF h
  <2> QED BY <2>3, <2>4
<1>3. \A n \in Nat : F[n] \in Growing
  OBVIOUS
<1>4. \A n \in Nat, s \in Search : F[n + 1][s] = Body(F[n], s)
  <2> SUFFICES ASSUME NEW n \in Nat, NEW s \in Search PROVE F[n + 1][s] = Body(F[n], s)
    OBVIOUS
  <2>1. n + 1 \in Nat \ {0} /\ (n + 1) - 1 = n
    OBVIOUS
  <2>2. F[n + 1] = next[F[n]]
    BY <1>2, <2>1
  <2> QED BY <1>3, <2>2
<1>5. \A s \in Search : F[0][s] = s
  BY <1>2
<1> HIDE DEF next, id
<1> DEFINE Settled(s, n) == \A k \in Nat : k >= n => F[k][s] = F[n][s]
           B == {s \in Search : ~\E n \in Nat : Settled(s, n)}
<1>6. ASSUME NEW s \in Search, s.ahead = <<>> \/ s.found
      PROVE  \A k \in Nat : F[k][s] = s
  <2> SUFFICES ASSUME NEW k \in Nat PROVE F[k][s] = s
    OBVIOUS
  <2>1. CASE k = 0
    BY <1>5, <2>1
  <2>2. CASE k # 0
    <3>1. k - 1 \in Nat /\ (k - 1) + 1 = k
      BY <2>2
    <3>2. F[k][s] = Body(F[k - 1], s)
      BY <1>4, <3>1
    <3> QED BY <1>6, <3>2 DEF Body
  <2> QED BY <2>1, <2>2
(* What is needed of f to know the step from s is one of its values. *)
<1>7. ASSUME NEW s \in Search, s.ahead # <<>>, ~s.found,
             \A t \in Search : Before(t, s) => \E n \in Nat : Settled(t, n)
      PROVE  \E n \in Nat : \A k \in Nat : k >= n => Gone(F[k], s) = Gone(F[n], s)
  <2> DEFINE m == Head(s.ahead)
             u == From(m)[s]
  <2>1. CASE m \in Managed /\ m \notin s.visited
    <3>1. u \in Search /\ Before(u, s)
      BY <2>1, FromFits
    <3>2. PICK n \in Nat : Settled(u, n)
      BY <1>7, <3>1
    <3>3. ASSUME NEW k \in Nat, k >= n PROVE Gone(F[k], s) = Gone(F[n], s)
      <4>1. F[k][u] = F[n][u]
        BY <3>2, <3>3
      <4>2. Past(F[k], s, m) = Past(F[n], s, m)
        BY <4>1 DEF Past
      <4> QED BY <4>2 DEF Gone
    <3> QED BY <3>3
  <2>2. CASE ~(m \in Managed /\ m \notin s.visited)
    <3>1. \A k \in Nat : Past(F[k], s, m) = Past(F[0], s, m)
      BY <2>2 DEF Past
    <3>2. \A k \in Nat : Gone(F[k], s) = Gone(F[0], s)
      BY <3>1 DEF Gone
    <3> QED BY <3>2
  <2> QED BY <2>1, <2>2
<1>8. B = {}
  <2> SUFFICES ASSUME B # {} PROVE FALSE
    OBVIOUS
  <2>1. PICK s \in B : \A t \in B : ~Before(t, s)
    <3>1. B # {} /\ B \subseteq Search
      OBVIOUS
    <3> HIDE DEF B
    <3> QED BY <3>1, FirstSearch
  <2>2. \A t \in Search : Before(t, s) => \E n \in Nat : Settled(t, n)
    BY <2>1
  <2> HIDE DEF Settled
  <2>3. CASE s.ahead = <<>> \/ s.found
    <3>1. Settled(s, 0)
      BY <1>6, <2>3 DEF Settled
    <3> QED BY <3>1
  <2>4. CASE s.ahead # <<>> /\ ~s.found
    <3>1. PICK n \in Nat : \A k \in Nat : k >= n => Gone(F[k], s) = Gone(F[n], s)
      BY <1>7, <2>2, <2>4
    <3> DEFINE t == Gone(F[n], s)
    <3>2. t \in Search /\ Before(t, s)
      BY <1>3, <2>4, GoneFits
    <3>3. PICK l \in Nat : Settled(t, l)
      BY <2>2, <3>2
    <3>4. ASSUME NEW k \in Nat, k >= n, k >= l PROVE F[k + 1][s] = F[l][t]
      <4>1. F[k + 1][s] = F[k][t]
        BY <1>4, <2>4, <3>1, <3>4 DEF Body
      <4> HIDE DEF t
      <4> QED BY <3>3, <3>4, <4>1 DEF Settled
    <3> HIDE DEF t
    <3> DEFINE j == (IF n >= l THEN n ELSE l) + 1
    <3>5. j \in Nat /\ \A k \in Nat :
             k >= j => k - 1 \in Nat /\ k - 1 >= n /\ k - 1 >= l /\ (k - 1) + 1 = k
      OBVIOUS
    <3> HIDE DEF j
    <3>6. \A k \in Nat : k >= j => F[k][s] = F[l][t]
      BY <3>4, <3>5
    <3>7. Settled(s, j)
      BY <3>5, <3>6 DEF Settled
    <3> QED BY <3>5, <3>7
  <2> QED BY <2>3, <2>4
<1>9. \A s \in Search : \E n \in Nat : Settled(s, n)
  BY <1>8
<1> DEFINE last(s) == CHOOSE n \in Nat : Settled(s, n)
           g == [s \in Search |-> F[last(s)][s]]
<1>10. \A s \in Search : last(s) \in Nat /\ Settled(s, last(s))
  BY <1>9
<1>11. \A s \in Search, k \in Nat : k >= last(s) => F[k][s] = g[s]
  BY <1>10
<1>12. g \in Growing
  <2>1. ASSUME NEW s \in Search PROVE g[s] \in Search /\ Onward(s, g[s])
    <3>1. F[last(s)] \in Growing /\ g[s] = F[last(s)][s]
      BY <1>3, <1>10
    <3> HIDE DEF last, g
    <3> QED BY <3>1 DEF Growing
  <2> QED BY <2>1 DEF Growing
<1> HIDE DEF Settled, last, g
<1>13. ASSUME NEW s \in Search PROVE g[s] = Body(g, s)
  <2>1. CASE s.ahead = <<>> \/ s.found
    BY <1>6, <1>10, <1>11, <2>1 DEF Body
  <2>2. CASE s.ahead # <<>> /\ ~s.found
    <3>1. \A t \in Search : Before(t, s) => \E n \in Nat : Settled(t, n)
      BY <1>9
    <3> DEFINE m == Head(s.ahead)
               u == IF m \in Managed /\ m \notin s.visited THEN From(m)[s] ELSE s
               t == Gone(g, s)
    <3>2. u \in Search
      BY FromFits
    <3>3. t \in Search
      BY <1>12, <2>2, GoneFits
    <3>4. PICK k \in Nat : k >= last(s) /\ k >= last(u) /\ k >= last(t)
      <4>1. last(s) \in Nat /\ last(u) \in Nat /\ last(t) \in Nat
        BY <1>10, <3>2, <3>3
      <4> HIDE DEF u, t
      <4>2. \E k \in Nat : k >= last(s) /\ k >= last(u) /\ k >= last(t)
        <5> DEFINE k == last(s) + last(u) + last(t)
        <5>1. k \in Nat /\ k >= last(s) /\ k >= last(u) /\ k >= last(t)
          BY <4>1
        <5> QED BY <5>1
      <4> QED BY <4>2
    <3>5. F[k][u] = g[u]
      BY <1>11, <3>2, <3>4
    <3>6. Gone(F[k], s) = t
      <4>1. Past(F[k], s, m) = Past(g, s, m)
        BY <3>5 DEF Past
      <4> QED BY <4>1 DEF Gone
    <3> HIDE DEF u, t
    <3>7. F[k + 1][s] = F[k][t]
      BY <1>4, <2>2, <3>6 DEF Body
    <3>8. F[k + 1][s] = g[s]
      <4>1. last(s) \in Nat /\ k + 1 \in Nat /\ k + 1 >= last(s)
        BY <1>10, <3>4
      <4> QED BY <1>11, <4>1
    <3>9. F[k][t] = g[t]
      BY <1>11, <3>3, <3>4
    <3> QED BY <2>2, <3>7, <3>8, <3>9 DEF Body, t
  <2> QED BY <2>1, <2>2
<1> QED BY <1>12, <1>13

(* The detector's search is that function. *)
LEMMA FollowFits ==
  ASSUME Graph
  PROVE  Follow \in Growing /\ \A s \in Search : Follow[s] = Body(Follow, s)
<1> DEFINE Takes(f) == f = [s \in Search |->
      IF s.ahead = <<>> \/ s.found THEN s
      ELSE LET m == Head(s.ahead)
               t == IF m \notin Managed THEN s
                    ELSE IF m \in s.visited THEN [s EXCEPT !.found = m \in s.stack]
                    ELSE Left(m)[f[From(m)[s]]]
           IN  f[[t EXCEPT !.ahead = Tail(s.ahead)]]]
<1>1. PICK g \in Growing : \A s \in Search : g[s] = Body(g, s)
  BY FollowExists
<1>2. g = [s \in Search |-> Body(g, s)]
  BY <1>1 DEF Growing
<1>3. Takes(g)
  BY <1>2 DEF Body, Gone, Past
<1>4. Takes(Follow)
  BY <1>3 DEF Follow
<1>5. Follow = [s \in Search |-> Body(Follow, s)]
  BY <1>4 DEF Body, Gone, Past
<1> HIDE DEF Takes
<1>6. \A s \in Search : Follow[s] = Body(Follow, s)
  BY <1>5
<1> DEFINE B == {s \in Search : Follow[s] # g[s]}
<1>7. B = {}
  <2> SUFFICES ASSUME B # {} PROVE FALSE
    OBVIOUS
  <2>1. PICK s \in B : \A t \in B : ~Before(t, s)
    <3>1. B # {} /\ B \subseteq Search
      OBVIOUS
    <3> HIDE DEF B
    <3> QED BY <3>1, FirstSearch
  <2>2. \A t \in Search : Before(t, s) => Follow[t] = g[t]
    BY <2>1
  <2>3. CASE s.ahead = <<>> \/ s.found
    BY <1>1, <1>6, <2>1, <2>3 DEF Body
  <2>4. CASE s.ahead # <<>> /\ ~s.found
    <3>1. Gone(Follow, s) = Gone(g, s)
      BY <2>1, <2>2, <2>4, GoneAgrees
    <3>2. Gone(g, s) \in Search /\ Before(Gone(g, s), s)
      BY <2>4, GoneFits
    <3>3. Follow[Gone(g, s)] = g[Gone(g, s)]
      BY <2>2, <3>2
    <3> QED BY <1>1, <1>6, <2>1, <2>4, <3>1, <3>3 DEF Body
  <2> QED BY <2>3, <2>4
<1>8. Follow = g
  BY <1>2, <1>5, <1>7
<1> QED BY <1>6, <1>8

-----------------------------------------------------------------------------
(* What the search finds.  The missions it is done with depend on none but *)
(* each other, and on no circle.                                           *)
Done(s) == s.visited \ s.stack
Sound(s) ==
  /\ s.stack \subseteq s.visited /\ s.visited \subseteq Managed
  /\ \A m \in Done(s) : ToSet(deps[m]) \cap Managed \subseteq Done(s)
  /\ ~CircleOfKeys(Done(s))

(* Every mission on the stack is on a path, along it, to those that lie    *)
(* ahead.                                                                  *)
Led(s, P) ==
  \A p \in P : (\E q \in P : q \in ToSet(deps[p])) \/ ToSet(s.ahead) \subseteq ToSet(deps[p])
OnPath(s) == \A y \in s.stack : \E P \in SUBSET s.stack : y \in P /\ Led(s, P)

(* What a search answers: a circle is found only where there is one, and   *)
(* without one what lay ahead is done.                                     *)
Right(s, r) ==
  IF r.found THEN CircleOfKeys(Managed)
  ELSE r.stack = s.stack /\ Sound(r) /\ ToSet(s.ahead) \cap Managed \subseteq Done(r)

(* What lies ahead is the first mission and the others. *)
LEMMA HeadAndTail ==
  ASSUME NEW s \in Search, s.ahead # <<>>
  PROVE  ToSet(s.ahead) = {Head(s.ahead)} \cup ToSet(Tail(s.ahead))
<1> DEFINE q == s.ahead
<1>1. q \in Seq(Missions) /\ Len(q) \in Nat /\ q # <<>>
  BY DEF Search
<1> HIDE DEF q
<1>2. /\ Len(q) >= 1 /\ Head(q) = q[1] /\ Len(Tail(q)) = Len(q) - 1
      /\ \A i \in 1 .. Len(Tail(q)) : Tail(q)[i] = q[i + 1]
      /\ DOMAIN q = 1 .. Len(q) /\ DOMAIN Tail(q) = 1 .. Len(Tail(q))
  BY <1>1, HeadTailProperties, LenProperties, EmptySeq
<1>3. ASSUME NEW i \in 1 .. Len(q) PROVE q[i] \in {Head(q)} \cup ToSet(Tail(q))
  <2>1. CASE i = 1
    BY <1>2, <2>1
  <2>2. CASE i # 1
    <3>1. i - 1 \in 1 .. Len(Tail(q)) /\ (i - 1) + 1 = i
      BY <1>1, <1>2, <2>2
    <3>2. Tail(q)[i - 1] = q[i]
      BY <1>2, <3>1
    <3> QED BY <1>2, <3>1, <3>2 DEF ToSet
  <2> QED BY <2>1, <2>2
<1>4. ASSUME NEW i \in 1 .. Len(Tail(q)) PROVE Tail(q)[i] \in ToSet(q)
  <2>1. i + 1 \in 1 .. Len(q)
    BY <1>1, <1>2
  <2> QED BY <1>2, <2>1 DEF ToSet
<1>5. ToSet(q) = {Head(q)} \cup ToSet(Tail(q))
  BY <1>1, <1>2, <1>3, <1>4 DEF ToSet
<1> QED BY <1>5 DEF q

(* A circle among missions that are done, and one more whose dependencies  *)
(* are done, would be among those that are done.                           *)
LEMMA NoNewCircle ==
  ASSUME NEW D, NEW m, m \notin D, m \in Managed, D \subseteq Managed, ~CircleOfKeys(D),
         \A n \in D : ToSet(deps[n]) \cap Managed \subseteq D,
         ToSet(deps[m]) \cap Managed \subseteq D
  PROVE  ~CircleOfKeys(D \cup {m})
<1> SUFFICES ASSUME CircleOfKeys(D \cup {m}) PROVE FALSE
  OBVIOUS
<1>1. PICK C \in SUBSET (D \cup {m}) :
        C # {} /\ \A p \in C : \E n \in C : n \in ToSet(deps[p])
  BY DEF CircleOfKeys
<1> DEFINE C1 == C \cap D
<1>2. \A p \in C : \E n \in C1 : n \in ToSet(deps[p])
  <2> SUFFICES ASSUME NEW p \in C PROVE \E n \in C1 : n \in ToSet(deps[p])
    OBVIOUS
  <2>1. PICK n \in C : n \in ToSet(deps[p])
    BY <1>1
  <2>2. n \in Managed /\ (p \in D \/ p = m)
    BY <1>1
  <2>3. n \in D
    BY <2>1, <2>2
  <2> QED BY <2>1, <2>3
<1>3. C1 # {}
  BY <1>1, <1>2
<1>4. CircleOfKeys(D)
  BY <1>2, <1>3 DEF CircleOfKeys
<1> QED BY <1>4

(* A mission is entered with the missions on its path. *)
LEMMA EnterFits ==
  ASSUME Graph, NEW s \in Search, ~s.found, Sound(s), NEW m \in Managed, m \notin s.visited,
         s.stack = {} \/ (OnPath(s) /\ m \in ToSet(s.ahead))
  PROVE  From(m)[s] \in Search /\ ~From(m)[s].found /\ Sound(From(m)[s]) /\ OnPath(From(m)[s])
<1> DEFINE w == From(m)[s]
<1>1. /\ w \in Search
      /\ w = [visited |-> s.visited \cup {m}, stack |-> s.stack \cup {m},
              ahead |-> deps[m], found |-> s.found, reported |-> s.reported]
  BY FromFits
<1> HIDE DEF w
<1>2. ~w.found /\ w.visited = s.visited \cup {m} /\ w.stack = s.stack \cup {m} /\ w.ahead = deps[m]
  BY <1>1
<1>3. Done(w) = Done(s)
  BY <1>2 DEF Done, Sound
<1>4. Sound(w)
  BY <1>2, <1>3 DEF Sound
<1>5. OnPath(w)
  <2> SUFFICES ASSUME NEW y \in w.stack
               PROVE  \E P \in SUBSET w.stack : y \in P /\ Led(w, P)
    BY DEF OnPath
  <2>1. CASE y = m
    <3>1. {m} \in SUBSET w.stack /\ Led(w, {m})
      BY <1>2 DEF Led
    <3> QED BY <2>1, <3>1
  <2>2. CASE y \in s.stack
    <3>1. PICK P \in SUBSET s.stack : y \in P /\ Led(s, P)
      BY <2>2 DEF OnPath
    <3>2. m \in ToSet(s.ahead)
      BY <2>2
    <3> DEFINE Q == P \cup {m}
    <3>3. Led(w, Q)
      BY <1>2, <3>1, <3>2 DEF Led
    <3>4. Q \in SUBSET w.stack /\ y \in Q
      BY <1>2, <3>1
    <3> QED BY <3>3, <3>4
  <2> QED BY <1>2, <2>1, <2>2
<1> QED BY <1>1, <1>2, <1>4, <1>5 DEF w

(* ... and is left with what it leads to done. *)
LEMMA LeaveFits ==
  ASSUME Graph, NEW s \in Search, ~s.found, Sound(s), NEW m \in Managed, m \notin s.visited,
         NEW r \in Search, Right(From(m)[s], r)
  PROVE  LET t == Left(m)[r]
         IN  IF t.found THEN CircleOfKeys(Managed)
             ELSE t.stack = s.stack /\ Sound(t) /\ m \in Done(t)
<1> DEFINE w == From(m)[s]
           t == Left(m)[r]
<1>1. t = IF r.found THEN r ELSE [r EXCEPT !.stack = @ \ {m}]
  BY LeftFits
<1>2. /\ w = [visited |-> s.visited \cup {m}, stack |-> s.stack \cup {m},
              ahead |-> deps[m], found |-> s.found, reported |-> s.reported]
  BY FromFits
<1> HIDE DEF w, t
<1>3. CASE r.found
  BY <1>1, <1>3 DEF Right, w, t
<1>4. CASE ~r.found
  <2>1. /\ t.found = r.found /\ t.visited = r.visited /\ t.stack = r.stack \ {m}
    BY <1>1, <1>4 DEF Search
  <2>2. /\ r.stack = s.stack \cup {m} /\ Sound(r)
        /\ ToSet(deps[m]) \cap Managed \subseteq Done(r)
    BY <1>2, <1>4 DEF Right, w
  <2>3. m \notin s.stack
    BY DEF Sound
  <2>4. t.stack = s.stack /\ Done(t) = Done(r) \cup {m} /\ m \notin Done(r)
    BY <2>1, <2>2, <2>3 DEF Done, Sound
  <2>5. ~CircleOfKeys(Done(r) \cup {m})
    <3>1. Done(r) \subseteq Managed
      BY <2>2 DEF Done, Sound
    <3> DEFINE D == Done(r)
    <3>2. /\ m \notin D /\ D \subseteq Managed /\ ~CircleOfKeys(D)
          /\ \A n \in D : ToSet(deps[n]) \cap Managed \subseteq D
          /\ ToSet(deps[m]) \cap Managed \subseteq D
      BY <2>2, <2>4, <3>1 DEF Sound
    <3> HIDE DEF D
    <3>3. ~CircleOfKeys(D \cup {m})
      BY <3>2, NoNewCircle
    <3> QED BY <3>3 DEF D
  <2>6. Sound(t)
    BY <2>1, <2>2, <2>4, <2>5 DEF Sound
  <2> QED BY <1>4, <2>1, <2>4, <2>6 DEF t
<1> QED BY <1>3, <1>4

(* A search answers right. *)
LEMMA FollowSound ==
  ASSUME Graph
  PROVE  \A s \in Search : ~s.found /\ Sound(s) /\ OnPath(s) => Right(s, Follow[s])
<1> DEFINE B == {s \in Search : ~s.found /\ Sound(s) /\ OnPath(s) /\ ~Right(s, Follow[s])}
<1> SUFFICES ASSUME B # {} PROVE FALSE
  OBVIOUS
<1>1. PICK s \in B : \A t \in B : ~Before(t, s)
  <2>1. B # {} /\ B \subseteq Search
    OBVIOUS
  <2> HIDE DEF B
  <2> QED BY <2>1, FirstSearch
<1>2. /\ s \in Search /\ ~s.found /\ Sound(s) /\ OnPath(s) /\ ~Right(s, Follow[s])
      /\ \A t \in Search :
           Before(t, s) /\ ~t.found /\ Sound(t) /\ OnPath(t) => Right(t, Follow[t])
  BY <1>1
<1> HIDE DEF B
<1>3. Follow \in Growing /\ \A t \in Search : Follow[t] = Body(Follow, t)
  BY FollowFits
<1>4. CASE s.ahead = <<>>
  <2>1. Follow[s] = s /\ ToSet(s.ahead) = {}
    BY <1>2, <1>3, <1>4 DEF Body, ToSet
  <2> QED BY <1>2, <2>1 DEF Right
<1>5. CASE s.ahead # <<>>
  <2> DEFINE m == Head(s.ahead)
             t == Past(Follow, s, m)
             u == Gone(Follow, s)
             r == Follow[u]
  <2>1. ToSet(s.ahead) = {m} \cup ToSet(Tail(s.ahead))
    BY <1>2, <1>5, HeadAndTail
  <2> HIDE DEF m
  <2>2. t \in Search
    BY <1>2, <1>3, PastFits
  <2>3. IF t.found THEN CircleOfKeys(Managed)
        ELSE t.stack = s.stack /\ Sound(t) /\ (m \in Managed => m \in Done(t))
    <3>1. CASE m \notin Managed
      BY <1>2, <3>1 DEF Past
    <3>2. CASE m \in Managed /\ m \in s.visited
      <4> DEFINE b == m \in s.stack
      <4>1. t = [s EXCEPT !.found = b] /\ b \in BOOLEAN
        BY <3>2 DEF Past
      <4> HIDE DEF t, b
      <4>2. /\ t.found = b /\ t.stack = s.stack /\ t.visited = s.visited
        BY <1>2, <4>1 DEF Search
      <4>3. CASE m \in s.stack
        <5>1. PICK P \in SUBSET s.stack : m \in P /\ Led(s, P)
          BY <1>2, <4>3 DEF OnPath
        <5>2. \A p \in P : \E q \in P : q \in ToSet(deps[p])
          BY <2>1, <5>1 DEF Led
        <5>3. P \in SUBSET Managed /\ P # {}
          BY <1>2, <5>1 DEF Sound
        <5>4. CircleOfKeys(Managed)
          BY <5>2, <5>3 DEF CircleOfKeys
        <5> QED BY <4>2, <4>3, <5>4 DEF b
      <4>4. CASE m \notin s.stack
        <5>1. Done(t) = Done(s) /\ m \in Done(s)
          BY <3>2, <4>2, <4>4 DEF Done
        <5>2. Sound(t)
          BY <1>2, <4>2, <5>1 DEF Sound
        <5> QED BY <4>2, <4>4, <5>1, <5>2 DEF b
      <4> QED BY <4>3, <4>4
    <3>3. CASE m \in Managed /\ m \notin s.visited
      <4> DEFINE w == From(m)[s]
      <4>1. m \in ToSet(s.ahead)
        BY <2>1
      <4>2. w \in Search /\ ~w.found /\ Sound(w) /\ OnPath(w) /\ Before(w, s)
        BY <1>2, <3>3, <4>1, EnterFits, FromFits
      <4>3. Right(w, Follow[w]) /\ Follow[w] \in Search
        BY <1>2, <1>3, <4>2 DEF Growing
      <4>4. t = Left(m)[Follow[w]]
        BY <3>3 DEF Past
      <4> HIDE DEF t
      <4> QED BY <1>2, <3>3, <4>3, <4>4, LeaveFits
    <3> QED BY <3>1, <3>2, <3>3
  <2>4. u = [t EXCEPT !.ahead = Tail(s.ahead)] /\ u \in Search /\ Before(u, s)
    BY <1>2, <1>3, <1>5, GoneFits DEF Gone, m
  <2> HIDE DEF t, u
  <2>5. /\ u.found = t.found /\ u.stack = t.stack /\ u.visited = t.visited
        /\ u.ahead = Tail(s.ahead)
    BY <2>2, <2>4 DEF Search
  <2>6. Follow[s] = r
    BY <1>2, <1>3, <1>5 DEF Body, u
  <2>7. r \in Search /\ Onward(u, r)
    BY <1>3, <2>4 DEF Growing
  <2>8. CASE u.found
    <3>1. r = u
      BY <1>3, <2>4, <2>8 DEF Body
    <3> QED BY <1>2, <2>3, <2>5, <2>6, <2>8, <3>1 DEF Right
  <2>9. CASE ~u.found
    <3>1. u.stack = s.stack /\ Done(u) = Done(t) /\ Sound(u) /\ (m \in Managed => m \in Done(u))
      BY <2>3, <2>5, <2>9 DEF Done, Sound
    <3>2. OnPath(u)
      <4> SUFFICES ASSUME NEW y \in u.stack
                   PROVE  \E P \in SUBSET u.stack : y \in P /\ Led(u, P)
        BY DEF OnPath
      <4>1. PICK P \in SUBSET s.stack : y \in P /\ Led(s, P)
        BY <1>2, <3>1 DEF OnPath
      <4>2. Led(u, P)
        BY <2>1, <2>5, <4>1 DEF Led
      <4> QED BY <3>1, <4>1, <4>2
    <3>3. Right(u, r)
      BY <1>2, <2>4, <2>9, <3>1, <3>2
    <3> HIDE DEF r
    <3>4. CASE r.found
      BY <1>2, <2>6, <3>3, <3>4 DEF Right
    <3>5. CASE ~r.found
      <4>1. r.stack = s.stack /\ Sound(r) /\ ToSet(Tail(s.ahead)) \cap Managed \subseteq Done(r)
        BY <2>5, <3>1, <3>3, <3>5 DEF Right
      <4>2. Done(u) \subseteq Done(r)
        BY <2>7, <3>1, <4>1 DEF Done, Onward
      <4>3. ToSet(s.ahead) \cap Managed \subseteq Done(r)
        BY <2>1, <3>1, <4>1, <4>2
      <4> QED BY <1>2, <2>6, <3>5, <4>1, <4>3 DEF Right
    <3> QED BY <3>4, <3>5
  <2> QED BY <2>8, <2>9
<1> QED BY <1>4, <1>5

-----------------------------------------------------------------------------
(* The searches from the managed missions, one after the other. *)
Launched(m, s) ==
  IF m \in s.visited THEN s ELSE Reporting(m)[Left(m)[Follow[From(m)[s]]]]

(* Until a mission is reported, nothing is left on the stack. *)
Swept(s) ==
  IF s.reported = {} THEN s.stack = {} /\ Sound(s) ELSE CircleOfKeys(Managed)

(* A launch visits its mission and reports none but it. *)
LEMMA LaunchFits ==
  ASSUME Graph, NEW s \in Search, NEW m \in Managed
  PROVE  /\ Launched(m, s) \in Search
         /\ s.found = FALSE => Launched(m, s).found = FALSE
         /\ s.visited \subseteq Launched(m, s).visited /\ m \in Launched(m, s).visited
         /\ Launched(m, s).reported \in {s.reported, s.reported \cup {m}}
<1>1. CASE m \in s.visited
  BY <1>1 DEF Launched
<1>2. CASE m \notin s.visited
  <2> DEFINE w == From(m)[s]
             f == Follow[w]
             t == Left(m)[f]
             l == Reporting(m)[t]
  <2>1. /\ w \in Search
        /\ w = [visited |-> s.visited \cup {m}, stack |-> s.stack \cup {m},
                ahead |-> deps[m], found |-> s.found, reported |-> s.reported]
    BY FromFits
  <2> HIDE DEF w
  <2>2. w.visited = s.visited \cup {m} /\ w.reported = s.reported
    BY <2>1
  <2>3. f \in Search /\ Onward(w, f)
    BY <2>1, FollowFits DEF Growing
  <2> HIDE DEF f
  <2>4. t \in Search /\ Onward(w, t)
    <3>1. /\ Left(m)[f] \in Search /\ Left(m)[f].visited = f.visited
          /\ Left(m)[f].reported = f.reported
      BY <2>3, LeftFits
    <3> QED BY <2>3, <3>1 DEF Onward
  <2> HIDE DEF t
  <2>5. m \in Missions
    BY ManagedFinite
  <2>6. /\ l \in Search /\ l.found = FALSE /\ l.visited = t.visited
        /\ l.reported = IF t.found THEN t.reported \cup {m} ELSE t.reported
    BY <2>4, <2>5 DEF Reporting, Search
  <2>7. Launched(m, s) = l
    BY <1>2 DEF Launched, l, t, f, w
  <2> HIDE DEF l
  <2> QED BY <2>2, <2>4, <2>6, <2>7 DEF Onward
<1> QED BY <1>1, <1>2

(* What a launch reports, it reports for a circle. *)
LEMMA LaunchSound ==
  ASSUME Graph, NEW s \in Search, ~s.found, Swept(s), NEW m \in Managed
  PROVE  Swept(Launched(m, s))
<1>1. CASE m \in s.visited
  BY <1>1 DEF Launched
<1>2. CASE m \notin s.visited
  <2> DEFINE w == From(m)[s]
             f == Follow[w]
             t == Left(m)[f]
             l == Reporting(m)[t]
  <2>1. /\ w \in Search
        /\ w = [visited |-> s.visited \cup {m}, stack |-> s.stack \cup {m},
                ahead |-> deps[m], found |-> s.found, reported |-> s.reported]
    BY FromFits
  <2>2. f \in Search /\ Onward(w, f)
    <3> HIDE DEF w
    <3> QED BY <2>1, FollowFits DEF Growing
  <2>3. t \in Search /\ t.reported = s.reported
    <3> HIDE DEF f
    <3>1. Left(m)[f] \in Search /\ Left(m)[f].reported = f.reported
      BY <2>2, LeftFits
    <3>2. w.reported = s.reported
      BY <2>1
    <3> QED BY <2>2, <3>1, <3>2 DEF Onward
  <2>4. m \in Missions
    BY ManagedFinite
  <2>5. /\ l.visited = t.visited /\ l.stack = t.stack
        /\ l.reported = IF t.found THEN s.reported \cup {m} ELSE s.reported
    <3> HIDE DEF t
    <3> QED BY <2>3, <2>4 DEF Reporting, Search
  <2>6. Launched(m, s) = l
    BY <1>2 DEF Launched
  <2>7. CASE s.reported # {}
    <3> HIDE DEF l, t
    <3>1. l.reported # {}
      BY <2>5, <2>7
    <3> QED BY <2>6, <2>7, <3>1 DEF Swept
  <2>8. CASE s.reported = {}
    <3>1. s.stack = {} /\ Sound(s)
      BY <2>8 DEF Swept
    <3>2. w \in Search /\ ~w.found /\ Sound(w) /\ OnPath(w)
      BY <1>2, <3>1, EnterFits
    <3>3. Right(w, f)
      <4> HIDE DEF w
      <4> QED BY <3>2, FollowSound
    <3>4. IF t.found THEN CircleOfKeys(Managed) ELSE t.stack = s.stack /\ Sound(t) /\ m \in Done(t)
      <4> DEFINE Leaving(r) == LET u == Left(m)[r]
                               IN  IF u.found THEN CircleOfKeys(Managed)
                                   ELSE u.stack = s.stack /\ Sound(u) /\ m \in Done(u)
      <4>1. ASSUME NEW r \in Search, Right(From(m)[s], r) PROVE Leaving(r)
        BY <1>2, <3>1, <4>1, LeaveFits
      <4> HIDE DEF Leaving
      <4>2. Leaving(f)
        BY <2>2, <3>3, <4>1
      <4> QED BY <4>2 DEF Leaving
    <3> HIDE DEF l, t
    <3>5. CASE t.found
      BY <2>5, <2>6, <3>4, <3>5 DEF Swept
    <3>6. CASE ~t.found
      <4>1. l.reported = {} /\ l.stack = {} /\ Sound(t)
        BY <2>5, <2>8, <3>1, <3>4, <3>6
      <4>2. Sound(l)
        BY <2>5, <4>1 DEF Sound, Done
      <4> QED BY <2>6, <4>1, <4>2 DEF Swept
    <3> QED BY <3>5, <3>6
  <2> QED BY <2>7, <2>8
<1> QED BY <1>1, <1>2

(* The searches from the managed missions, each upon what the last left.   *)
LEMMA SearchedFits ==
  ASSUME Graph
  PROVE  /\ Searched[0] = Unsearched
         /\ \A i \in 1 .. Len(order) :
              Searched[i - 1] \in Search => Searched[i] = Launched(order[i], Searched[i - 1])
<1> DEFINE launch(m) == [s \in Search |-> IF m \in s.visited THEN s
                                          ELSE Reporting(m)[Left(m)[Follow[From(m)[s]]]]]
           h == [i \in Nat |-> IF i \in 1 .. Len(order) THEN launch(order[i])
                               ELSE [s \in Search |-> s]]
           step(f, i) == IF i = 0 THEN Unsearched ELSE launch(order[i])[f[i - 1]]
           Is(f) == f = [i \in 0 .. Len(order) |-> step(f, i)]
<1>1. Len(order) \in Nat /\ \A i \in 1 .. Len(order) : order[i] \in Managed
  BY DEF Graph, Managed, ToSet
<1>2. ASSUME NEW m \in Managed PROVE launch(m) \in [Search -> Search]
  <2> SUFFICES ASSUME NEW s \in Search
               PROVE  (IF m \in s.visited THEN s
                       ELSE Reporting(m)[Left(m)[Follow[From(m)[s]]]]) \in Search
    OBVIOUS
  <2>1. Launched(m, s) \in Search
    BY LaunchFits
  <2> QED BY <2>1 DEF Launched
<1>3. ASSUME NEW m, NEW s \in Search PROVE launch(m)[s] = Launched(m, s)
  BY DEF Launched
<1> HIDE DEF launch
<1>4. h \in [Nat -> [Search -> Search]]
  BY <1>1, <1>2
<1>5. \A i \in 1 .. Len(order) : h[i] = launch(order[i])
  BY <1>1
<1> HIDE DEF h
<1>6. Unsearched \in Search
  <2>1. <<>> \in Seq(Missions)
    OBVIOUS
  <2> QED BY <2>1 DEF Unsearched, Search
<1>7. PICK g \in [Nat -> Search] : g[0] = Unsearched /\ \A i \in Nat \ {0} : g[i] = h[i][g[i - 1]]
  <2> DEFINE Iterable(S) ==
        \A a \in S : \A k \in [Nat -> [S -> S]] :
          \E F \in [Nat -> S] : F[0] = a /\ \A n \in Nat \ {0} : F[n] = k[n][F[n - 1]]
  <2>1. \A S : Iterable(S)
    BY Iterates
  <2> HIDE DEF Iterable
  <2>2. Iterable(Search)
    BY <2>1
  <2> QED BY <1>4, <1>6, <2>2 DEF Iterable
<1> DEFINE part == [i \in 0 .. Len(order) |-> g[i]]
<1>8. Is(part)
  <2>1. ASSUME NEW i \in 0 .. Len(order) PROVE g[i] = step(part, i)
    <3>1. CASE i = 0
      BY <1>7, <3>1
    <3>2. CASE i # 0
      <4>1. i \in 1 .. Len(order) /\ i - 1 \in 0 .. Len(order) /\ i \in Nat \ {0}
        BY <1>1, <3>2
      <4>2. part[i - 1] = g[i - 1]
        BY <4>1
      <4> QED BY <1>5, <1>7, <3>2, <4>1, <4>2
    <3> QED BY <3>1, <3>2
  <2> QED BY <2>1
<1>9. Searched = CHOOSE f : Is(f)
  BY DEF Searched, launch
<1>10. Is(Searched)
  <2> HIDE DEF Is
  <2> QED BY <1>8, <1>9
<1>11. \A i \in 0 .. Len(order) : Searched[i] = step(Searched, i)
  <2> HIDE DEF step
  <2> QED BY <1>10
<1>12. Searched[0] = Unsearched
  BY <1>1, <1>11
<1>13. ASSUME NEW i \in 1 .. Len(order), Searched[i - 1] \in Search
       PROVE  Searched[i] = Launched(order[i], Searched[i - 1])
  <2>1. i \in 0 .. Len(order) /\ i # 0
    BY <1>1
  <2> QED BY <1>3, <1>11, <1>13, <2>1
<1> QED BY <1>12, <1>13

(* What holds after the first i searches. *)
Upto(i) ==
  /\ Searched[i] \in Search /\ ~Searched[i].found /\ Swept(Searched[i])
  /\ Searched[i].reported \subseteq Managed
  /\ \A k \in 1 .. i : order[k] \in Searched[i].visited

(* After the first searches the first missions have been visited. *)
LEMMA AllSearched ==
  ASSUME Graph
  PROVE  \A i \in 0 .. Len(order) : Upto(i)
<1>1. Len(order) \in Nat /\ \A i \in 1 .. Len(order) : order[i] \in Managed
  BY DEF Graph, Managed, ToSet
<1>2. Upto(0)
  <2>1. <<>> \in Seq(Missions)
    OBVIOUS
  <2>2. Unsearched \in Search /\ ~Unsearched.found /\ Unsearched.reported = {}
        /\ Unsearched.stack = {} /\ Unsearched.visited = {}
    BY <2>1 DEF Unsearched, Search
  <2>3. Done(Unsearched) = {} /\ ~CircleOfKeys({})
    BY <2>2 DEF Done, CircleOfKeys
  <2>4. Sound(Unsearched)
    BY <2>2, <2>3 DEF Sound
  <2> QED BY <2>2, <2>4, SearchedFits DEF Upto, Swept
<1>3. ASSUME NEW i \in 1 .. Len(order), Upto(i - 1) PROVE Upto(i)
  <2> DEFINE s == Searched[i - 1]
             m == order[i]
             t == Launched(m, s)
  <2>1. s \in Search /\ ~s.found /\ Swept(s) /\ s.reported \subseteq Managed /\ m \in Managed
    BY <1>1, <1>3 DEF Upto
  <2>2. Searched[i] = t
    BY <2>1, SearchedFits
  <2>3. \A k \in 1 .. i - 1 : order[k] \in s.visited
    BY <1>3 DEF Upto
  <2> HIDE DEF s
  <2>4. /\ t \in Search /\ t.found = FALSE /\ s.visited \subseteq t.visited /\ m \in t.visited
        /\ t.reported \in {s.reported, s.reported \cup {m}} /\ Swept(t)
    <3>1. s.found = FALSE
      BY <2>1 DEF Search
    <3>2. ASSUME NEW x \in Search, ~x.found, Swept(x), NEW n \in Managed, x.found = FALSE
          PROVE  /\ Launched(n, x) \in Search /\ Launched(n, x).found = FALSE
                 /\ x.visited \subseteq Launched(n, x).visited /\ n \in Launched(n, x).visited
                 /\ Launched(n, x).reported \in {x.reported, x.reported \cup {n}}
                 /\ Swept(Launched(n, x))
      BY <3>2, LaunchFits, LaunchSound
    <3> HIDE DEF m
    <3> QED BY <2>1, <3>1, <3>2
  <2> HIDE DEF t
  <2>5. ASSUME NEW k \in 1 .. i PROVE order[k] \in t.visited
    <3>1. k = i \/ k \in 1 .. i - 1
      BY <1>1
    <3> QED BY <2>3, <2>4, <3>1
  <2>6. t.reported \subseteq Managed
    BY <2>1, <2>4
  <2> QED BY <2>2, <2>4, <2>5, <2>6 DEF Upto
<1> DEFINE B == {i \in 0 .. Len(order) : ~Upto(i)}
<1> SUFFICES ASSUME B # {} PROVE FALSE
  OBVIOUS
<1>4. PICK x \in B : \A y \in B : x <= y
  <2>1. B \subseteq Nat /\ B # {}
    BY <1>1
  <2> HIDE DEF B
  <2> QED BY <2>1, LeastNatural
<1>5. x \in 1 .. Len(order) /\ x - 1 \in 0 .. Len(order) /\ x - 1 \notin B
  BY <1>1, <1>2, <1>4
<1> QED BY <1>3, <1>4, <1>5

(* The detector is right, whatever the graph. *)
LEMMA SearchFits == Graph => Deadlocked \subseteq Managed /\ SearchExact
<1> SUFFICES ASSUME Graph PROVE Deadlocked \subseteq Managed /\ SearchExact
  OBVIOUS
<1> DEFINE s == Searched[Len(order)]
<1>1. Len(order) \in Nat
  BY DEF Graph
<1>2. Upto(Len(order))
  BY <1>1, AllSearched
<1>3. /\ s \in Search /\ ~s.found /\ Swept(s) /\ s.reported \subseteq Managed
      /\ Managed \subseteq s.visited /\ Deadlocked = s.reported
  <2>1. /\ s \in Search /\ ~s.found /\ Swept(s) /\ s.reported \subseteq Managed
        /\ \A k \in 1 .. Len(order) : order[k] \in s.visited
    BY <1>2 DEF Upto
  <2>2. Deadlocked = s.reported
    BY DEF Deadlocked
  <2> HIDE DEF s
  <2>3. Managed = {order[k] : k \in 1 .. Len(order)}
    BY DEF Managed, ToSet, Graph
  <2>4. Managed \subseteq s.visited
    BY <2>1, <2>3
  <2> QED BY <2>1, <2>2, <2>4
<1> HIDE DEF s
<1>4. CASE s.reported = {}
  <2>1. Done(s) = Managed /\ ~CircleOfKeys(Done(s))
    BY <1>3, <1>4 DEF Swept, Sound, Done
  <2> QED BY <1>3, <1>4, <2>1 DEF SearchExact
<1>5. CASE s.reported # {}
  BY <1>3, <1>5 DEF Swept, SearchExact
<1> QED BY <1>3, <1>4, <1>5

-----------------------------------------------------------------------------
(* Of several managed missions, one is before all others whatever their    *)
(* scores, from the highest down as from the lowest up.                    *)
LEMMA PositionsDiffer ==
  ASSUME Graph, NEW m \in Managed
  PROVE  Position(m) \in Nat /\ order[Position(m)] = m
<1>1. Managed = {order[i] : i \in 1 .. Len(order)} /\ Len(order) \in Nat
  BY DEF Managed, ToSet, Graph
<1>2. \E i \in 1 .. Len(order) : order[i] = m
  BY <1>1
<1> QED BY <1>1, <1>2 DEF Position

LEMMA LowestThere ==
  ASSUME Graph, NEW score, NEW S, S \subseteq Managed, S # {}, \A m \in S : score[m] \in Nat
  PROVE  \E m \in S : \A n \in S \ {m} :
            score[m] < score[n] \/ (score[m] = score[n] /\ Position(m) < Position(n))
<1> DEFINE R == {score[m] : m \in S}
<1>1. PICK x \in R : \A y \in R : x <= y
  <2>1. R \subseteq Nat /\ R # {}
    OBVIOUS
  <2> HIDE DEF R
  <2> QED BY <2>1, LeastNatural
<1> DEFINE P == {Position(m) : m \in {n \in S : score[n] = x}}
<1>2. PICK p \in P : \A y \in P : p <= y
  <2>1. P \subseteq Nat /\ P # {}
    BY <1>1, PositionsDiffer
  <2> HIDE DEF P
  <2> QED BY <2>1, LeastNatural
<1>3. PICK m \in S : score[m] = x /\ Position(m) = p
  BY <1>2
<1>4. ASSUME NEW n \in S \ {m}
      PROVE  score[m] < score[n] \/ (score[m] = score[n] /\ Position(m) < Position(n))
  <2>1. score[n] \in Nat /\ x \in Nat /\ x <= score[n]
    BY <1>1, <1>3
  <2>2. Position(n) \in Nat /\ Position(m) \in Nat /\ Position(n) # Position(m)
    BY PositionsDiffer
  <2>3. CASE score[n] = x
    <3>1. Position(n) \in P
      BY <2>3
    <3> HIDE DEF P
    <3>2. p <= Position(n)
      BY <1>2, <3>1
    <3> QED BY <1>3, <2>2, <2>3, <3>2
  <2>4. CASE score[n] # x
    BY <1>3, <2>1, <2>4
  <2> QED BY <2>3, <2>4
<1> QED BY <1>4

(* Finitely many scores have a bound, and below it the highest is lowest.  *)
LEMMA ScoresBounded ==
  ASSUME Graph, NEW score, \A m \in Managed : score[m] \in Nat
  PROVE  \E b \in Nat : \A m \in Managed : score[m] <= b
<1> DEFINE Bounded(i) == \E b \in Nat : \A k \in 1 .. i : score[order[k]] <= b
           B == {i \in 0 .. Len(order) : ~Bounded(i)}
<1>1. Managed = {order[i] : i \in 1 .. Len(order)} /\ Len(order) \in Nat
  BY DEF Managed, ToSet, Graph
<1>2. Bounded(0)
  OBVIOUS
<1>3. ASSUME NEW i \in 1 .. Len(order), Bounded(i - 1) PROVE Bounded(i)
  <2>1. PICK b \in Nat : \A k \in 1 .. i - 1 : score[order[k]] <= b
    BY <1>3
  <2>2. \A k \in 1 .. i : score[order[k]] \in Nat
    BY <1>1
  <2> DEFINE c == IF score[order[i]] <= b THEN b ELSE score[order[i]]
  <2>3. c \in Nat /\ b <= c /\ score[order[i]] <= c
    BY <1>1, <2>2
  <2> HIDE DEF c
  <2>4. ASSUME NEW k \in 1 .. i PROVE score[order[k]] <= c
    <3>1. CASE k = i
      BY <2>3, <3>1
    <3>2. CASE k # i
      <4>1. k \in 1 .. i - 1
        BY <1>1, <3>2
      <4> QED BY <2>1, <2>2, <2>3, <4>1
    <3> QED BY <3>1, <3>2
  <2> QED BY <2>3, <2>4
<1> HIDE DEF Bounded
<1>4. B = {}
  <2> SUFFICES ASSUME B # {} PROVE FALSE
    OBVIOUS
  <2>1. PICK x \in B : \A y \in B : x <= y
    <3>1. B \subseteq Nat /\ B # {}
      BY <1>1
    <3> HIDE DEF B
    <3> QED BY <3>1, LeastNatural
  <2>2. x \in 1 .. Len(order) /\ x - 1 \in 0 .. Len(order) /\ x - 1 \notin B
    BY <1>1, <1>2, <2>1
  <2> QED BY <1>3, <2>1, <2>2
<1>5. Bounded(Len(order))
  BY <1>1, <1>4
<1> QED BY <1>1, <1>5 DEF Bounded

LEMMA HighestThere ==
  ASSUME Graph, NEW score, NEW S, S \subseteq Managed, S # {}, \A m \in Managed : score[m] \in Nat
  PROVE  \E m \in S : \A n \in S \ {m} :
            score[m] > score[n] \/ (score[m] = score[n] /\ Position(m) < Position(n))
<1>1. PICK b \in Nat : \A m \in Managed : score[m] <= b
  BY ScoresBounded
<1> DEFINE below == [m \in Managed |-> b - score[m]]
<1>2. \A m \in Managed : below[m] \in Nat /\ below[m] = b - score[m]
  BY <1>1
<1>3. PICK m \in S : \A n \in S \ {m} :
         below[m] < below[n] \/ (below[m] = below[n] /\ Position(m) < Position(n))
  <2> HIDE DEF below
  <2>1. \A n \in S : below[n] \in Nat
    BY <1>2
  <2> QED BY <2>1, LowestThere
<1> HIDE DEF below
<1>4. \A n \in S : score[n] \in Nat /\ below[n] = b - score[n]
  BY <1>2
<1> QED BY <1>3, <1>4

-----------------------------------------------------------------------------
(* Only managed missions are run or have workers, and none was created in  *)
(* the future.                                                             *)
Typed ==
  /\ ArbitratorTypeOK
  /\ now \in 0 .. MaxTime
  /\ \A m \in Missions : created[m] <= now /\ (assigned[m] # {} => m \in Managed)
  /\ at \in {"execute", "run"} => run.of \in Managed

ArbitratorInv == Typed /\ Exclusive /\ BudgetRespected

(* The type invariant gives the graph its kind. *)
LEMMA GraphTyped == ArbitratorTypeOK => Graph
BY DEF ArbitratorTypeOK, Graph

(* The first of some workers is one of them. *)
LEMMA FirstWorker ==
  ASSUME NEW S, S \subseteq Workers, S # {}
  PROVE  MinOf(S) \in S
<1>1. S \subseteq Nat
  BY ArbitratorAssumption DEF Workers
<1> QED BY <1>1, LeastNatural DEF MinOf

(* An arbitration chooses among the missions it looks at. *)
LEMMA ScoresTyped ==
  ASSUME Typed, wait' = Waited
  PROVE  wait' \in [Missions -> 0 .. MaxTime] /\ \A m \in Missions : Score(m) \in Nat
<1>1. ASSUME NEW m \in Missions
      PROVE  (IF m \in Managed /\ Waits(m) THEN now - created[m] ELSE wait[m]) \in 0 .. MaxTime
  <2>1. created[m] \in 0 .. MaxTime /\ wait[m] \in 0 .. MaxTime /\ now \in 0 .. MaxTime
        /\ created[m] <= now
    BY DEF Typed, ArbitratorTypeOK
  <2> QED BY <2>1, ArbitratorAssumption
<1>2. wait' \in [Missions -> 0 .. MaxTime]
  BY <1>1 DEF Waited
<1>3. ASSUME NEW m \in Missions PROVE Score(m) \in Nat
  <2>1. now \in 0 .. MaxTime /\ terms[m].base \in [0 .. MaxTime -> Nat]
    BY DEF Typed, ArbitratorTypeOK
  <2>2. terms[m].base[now] \in Nat /\ wait'[m] \in Nat
    BY <1>2, <2>1, ArbitratorAssumption
  <2> QED BY <2>2 DEF Score
<1> QED BY <1>2, <1>3

(* The mission it picks is one of those it picks from. *)
LEMMA ChoicesThere ==
  ASSUME Typed, wait' = Waited
  PROVE  \A S \in SUBSET Managed : S # {} => Highest(S) \in S /\ Lowest(S) \in S
<1> DEFINE score == [m \in Missions |-> Score(m)]
           Best(f, S) == /\ \E m \in S : \A n \in S \ {m} :
                              f[m] > f[n] \/ (f[m] = f[n] /\ Position(m) < Position(n))
                         /\ \E m \in S : \A n \in S \ {m} :
                              f[m] < f[n] \/ (f[m] = f[n] /\ Position(m) < Position(n))
           AllBest(f) == \A S \in SUBSET Managed : S # {} => Best(f, S)
           Valued(f) == \A m \in Managed : f[m] \in Nat
<1>1. Graph /\ Managed \subseteq Missions
  BY GraphTyped, ManagedFinite DEF Typed
<1>2. \A f : Valued(f) => AllBest(f)
  <2> SUFFICES ASSUME NEW f, Valued(f), NEW S \in SUBSET Managed, S # {}
               PROVE  Best(f, S)
    OBVIOUS
  <2>1. \A m \in S : f[m] \in Nat
    OBVIOUS
  <2> QED BY <1>1, <2>1, HighestThere, LowestThere
<1>3. \A m \in Missions : score[m] = Score(m) /\ score[m] \in Nat
  BY ScoresTyped
<1> HIDE DEF score, AllBest
<1>4. Valued(score)
  BY <1>1, <1>3
<1>5. AllBest(score)
  <2> HIDE DEF Valued
  <2> QED BY <1>2, <1>4
<1>6. ASSUME NEW S \in SUBSET Managed, S # {}
      PROVE  Highest(S) \in S /\ Lowest(S) \in S
  <2>1. Best(score, S)
    BY <1>5, <1>6 DEF AllBest
  <2>2. \A m \in S : score[m] = Score(m)
    BY <1>1, <1>3
  <2>3. \E m \in S : \A n \in S \ {m} :
           Score(m) > Score(n) \/ (Score(m) = Score(n) /\ Position(m) < Position(n))
    BY <2>1, <2>2
  <2>4. \E m \in S : \A n \in S \ {m} :
           Score(m) < Score(n) \/ (Score(m) = Score(n) /\ Position(m) < Position(n))
    BY <2>1, <2>2
  <2>5. Highest(S) \in S
    BY <2>3 DEF Highest
  <2>6. Lowest(S) \in S
    BY <2>4 DEF Lowest
  <2> QED BY <2>5, <2>6
<1> QED BY <1>6

(* A mission that is preempted is a managed one. *)
LEMMA VictimsFit ==
  ASSUME Typed, wait' = Waited, NEW top
  PROVE  Victims(top) \subseteq Managed
<1> DEFINE running == {m \in Managed : terms[m].preemptible /\ state[m] = "EXECUTING"}
<1>1. running # {} => Lowest(running) \in running
  BY ChoicesThere
<1> QED BY <1>1 DEF Victims

-----------------------------------------------------------------------------
(* The kinds of the values, action by action. *)
WorkerStates == [status : {"AVAILABLE", "BUSY", "DEGRADED"}, current : Missions \cup {NoMission}]

Staffed ==
  /\ worker \in [Workers -> WorkerStates] /\ assigned \in [Missions -> SUBSET Workers]
  /\ \A m \in Missions : assigned[m] # {} => m \in Managed

TermKinds == [base : [0 .. MaxTime -> Nat], urgent : BOOLEAN, preemptible : BOOLEAN,
              parent : SUBSET Missions]

TimesTyped ==
  /\ deps \in [Missions -> Seq(Missions)] /\ plan \in [Missions -> Costs \cup {<<>>}]
  /\ terms \in [Missions -> TermKinds]
  /\ order \in Seq(Missions) /\ Len(order) = Cardinality(Managed)
  /\ created \in [Missions -> 0 .. MaxTime] /\ wait \in [Missions -> 0 .. MaxTime]
  /\ children \in [Missions -> SUBSET Missions]
  /\ now \in 0 .. MaxTime /\ \A m \in Missions : created[m] <= now

RunTyped ==
  /\ spent \in [Missions -> Nat] /\ resumable \subseteq Managed
  /\ at \in {"idle", "execute", "run", "recover"}
  /\ run \in [of : Missions \cup {NoMission}, cycle : BOOLEAN, step : Nat,
              recoveries : 0 .. MaxRecoveries, replans : 0 .. MaxReplans]
  /\ at \in {"execute", "run"} => run.of \in Managed

Rated == state \in [Missions -> States] /\ blocked \subseteq Managed

(* The parts make up the whole, before a step ... *)
LEMMA TypedParts == Typed <=> Staffed /\ TimesTyped /\ RunTyped /\ Rated
BY DEF Typed, Staffed, TimesTyped, TermKinds, RunTyped, Rated, ArbitratorTypeOK, WorkerStates

(* ... and after it. *)
LEMMA PartsTyped == Typed' <=> Staffed' /\ TimesTyped' /\ RunTyped' /\ Rated'
BY DEF Typed, Staffed, TimesTyped, TermKinds, RunTyped, Rated, ArbitratorTypeOK, WorkerStates

(* The idle engine's record is of the kind of a run's. *)
LEMMA NoRunTyped ==
  NoRun \in [of : Missions \cup {NoMission}, cycle : BOOLEAN, step : Nat,
             recoveries : 0 .. MaxRecoveries, replans : 0 .. MaxReplans]
BY ArbitratorAssumption DEF NoRun

(* The invariant holds at first. *)
LEMMA InitTyped == Init => ArbitratorInv
<1> SUFFICES ASSUME Init PROVE ArbitratorInv
  OBVIOUS
<1>1. Managed = {}
  BY DEF Init, Managed, ToSet
<1>2. Staffed /\ Rated
  BY DEF Init, Staffed, Rated, WorkerStates, States
<1>3. TimesTyped
  <2>1. order = <<>> /\ <<>> \in Seq(Missions) /\ Len(order) = 0
    BY DEF Init
  <2>2. NoTerms \in TermKinds
    BY DEF NoTerms, TermKinds
  <2>3. deps \in [Missions -> Seq(Missions)]
    BY <2>1 DEF Init
  <2>4. terms \in [Missions -> TermKinds]
    BY <2>2 DEF Init
  <2> QED BY <1>1, <2>1, <2>3, <2>4, FS_EmptySet, ArbitratorAssumption DEF Init, TimesTyped
<1>4. RunTyped
  BY <1>1, NoRunTyped DEF Init, RunTyped
<1>5. Exclusive
  BY DEF Init, Exclusive
<1>6. BudgetRespected
  <2>1. Budget > 0 /\ Budget \in Nat
    BY ArbitratorAssumption
  <2>2. \A m \in Missions : spent[m] < Budget + 0
    BY <2>1 DEF Init
  <2> QED BY <2>2 DEF BudgetRespected
<1> QED BY <1>2, <1>3, <1>4, <1>5, <1>6, TypedParts DEF ArbitratorInv

(* A registration makes room for its mission, which loses its workers. *)
LEMMA RegisterFits ==
  ASSUME Typed, NEW m \in Missions, Register(m)
  PROVE  Typed' /\ (Exclusive => Exclusive') /\ spent' = spent
<1>1. Staffed /\ TimesTyped /\ RunTyped /\ Rated /\ Graph
  BY TypedParts, GraphTyped DEF Typed
<1>2. order \in Seq(Missions) /\ (m \in Managed => order' = order)
      /\ (m \notin Managed => order' = Append(order, m))
  BY <1>1 DEF Register, Graph
<1>3. Managed' = Managed \cup {m} /\ order' \in Seq(Missions) /\ Len(order') = Cardinality(Managed')
  <2>1. CASE m \in Managed
    <3>1. order' = order
      BY <1>2, <2>1
    <3>2. Managed' = Managed
      BY <3>1 DEF Managed
    <3> QED BY <1>1, <2>1, <3>1, <3>2 DEF TimesTyped
  <2>2. CASE m \notin Managed
    <3>1. /\ Len(order') = Len(order) + 1 /\ order'[Len(order) + 1] = m
          /\ \A i \in 1 .. Len(order) : order'[i] = order[i]
          /\ order' \in Seq(Missions) /\ Len(order) \in Nat
      BY <1>2, <2>2
    <3>2. Managed' = {order'[i] : i \in 1 .. Len(order) + 1}
      BY <3>1 DEF Managed, ToSet
    <3>3. Managed = {order[i] : i \in 1 .. Len(order)}
      BY <1>2 DEF Managed, ToSet
    <3>4. Managed' = Managed \cup {m}
      BY <3>1, <3>2, <3>3
    <3>5. Cardinality(Managed \cup {m}) = Cardinality(Managed) + 1
      BY <1>1, <2>2, ManagedFinite, FS_AddElement
    <3> QED BY <1>1, <3>1, <3>4, <3>5 DEF TimesTyped
  <2> QED BY <2>1, <2>2
<1>4. PICK t \in Terms[m] :
        /\ terms' = [terms EXCEPT ![m] = t]
        /\ children' = [p \in Missions |->
                          (IF p = m THEN {} ELSE children[p]) \cup
                          (IF p \in t.parent \cap Managed THEN {m} ELSE {})]
  BY DEF Register
<1>5. t \in TermKinds
  <2>1. t \in [base : [0 .. MaxTime -> Nat], urgent : BOOLEAN, preemptible : BOOLEAN,
               parent : SUBSET (Missions \ {m})]
    BY ArbitratorAssumption
  <2> QED BY <2>1 DEF TermKinds
<1>6. TimesTyped'
  <2>1. /\ created' \in [Missions -> 0 .. MaxTime] /\ \A n \in Missions : created'[n] <= now
        /\ wait' \in [Missions -> 0 .. MaxTime]
    BY <1>1, ArbitratorAssumption DEF Register, TimesTyped
  <2>2. children' \in [Missions -> SUBSET Missions]
    BY <1>1, <1>4 DEF TimesTyped
  <2>3. terms' \in [Missions -> TermKinds]
    BY <1>1, <1>4, <1>5 DEF TimesTyped
  <2>4. UNCHANGED <<deps, plan, now>>
    BY DEF Register, contracts
  <2> QED BY <1>1, <1>3, <2>1, <2>2, <2>3, <2>4 DEF TimesTyped
<1>7. /\ assigned' = [assigned EXCEPT ![m] = {}] /\ blocked' = blocked \ {m}
      /\ UNCHANGED <<state, worker, spent, resumable, at, run>>
  BY DEF Register, engine
<1>8. Staffed' /\ RunTyped' /\ Rated'
  BY <1>1, <1>3, <1>7 DEF Staffed, RunTyped, Rated
<1>9. Exclusive => Exclusive'
  <2>1. \A n \in Missions : assigned'[n] \subseteq assigned[n]
    BY <1>1, <1>7 DEF Staffed
  <2> QED BY <1>7, <2>1 DEF Exclusive
<1> QED BY <1>6, <1>7, <1>8, <1>9, PartsTyped

(* A plan replaces the mission's plan and what its nodes depend on. *)
LEMMA PlanFits ==
  ASSUME Typed, NEW m \in Missions, Plan(m)
  PROVE  Typed' /\ (Exclusive => Exclusive') /\ spent' = spent
<1>1. Staffed /\ TimesTyped /\ RunTyped /\ Rated
  BY TypedParts
<1>2. /\ UNCHANGED <<order, terms, created, children, blocked, assigned, wait, worker,
                    spent, resumable, at, run, now>>
      /\ Managed' = Managed
  BY DEF Plan, registry, engine, Managed
<1>3. deps' \in [Missions -> Seq(Missions)] /\ plan' \in [Missions -> Costs \cup {<<>>}]
  BY <1>1, ArbitratorAssumption DEF Plan, TimesTyped, contracts
<1>4. state' \in [Missions -> States]
  BY <1>1 DEF Plan, Rated, States
<1>5. Staffed' /\ RunTyped' /\ Rated' /\ (Exclusive => Exclusive')
  BY <1>1, <1>2, <1>4 DEF Staffed, RunTyped, Rated, Exclusive
<1>6. TimesTyped'
  BY <1>1, <1>2, <1>3 DEF TimesTyped
<1> QED BY <1>2, <1>5, <1>6, PartsTyped

(* What the calls that leave the registry alone need not show again. *)
LEMMA RegistryKept ==
  ASSUME Typed, UNCHANGED <<contracts, registry, wait>>, now' = now
  PROVE  TimesTyped' /\ Managed' = Managed
BY TypedParts DEF TimesTyped, registry, contracts, Managed

(* Workers given back keep the staff's kinds, and their places apart. *)
LEMMA ReleaseTyped ==
  ASSUME Staffed, NEW S, Release(S), Managed' = Managed
  PROVE  Staffed'
<1>1. worker' \in [Workers -> WorkerStates]
  <2>1. [status |-> "AVAILABLE", current |-> NoMission] \in WorkerStates
    BY DEF WorkerStates
  <2> QED BY <2>1 DEF Release, Staffed
<1>2. /\ assigned' \in [Missions -> SUBSET Workers]
      /\ \A m \in Missions : assigned'[m] # {} => assigned[m] # {}
  BY DEF Release, Staffed
<1> QED BY <1>1, <1>2 DEF Staffed

(* The answer of a run keeps the kinds of what it changes. *)
LEMMA ExecutedTyped ==
  ASSUME Staffed, Rated, NEW m \in Missions, NEW as \in States, Executed(m, as), Managed' = Managed
  PROVE  Staffed' /\ Rated' /\ run' = NoRun /\ at' \in {"idle", "recover"}
<1>1. Staffed'
  <2>1. CASE as = "COMPLETED"
    BY <2>1, ReleaseTyped DEF Executed
  <2>2. CASE as # "COMPLETED"
    BY <2>2 DEF Executed, Staffed
  <2> QED BY <2>1, <2>2
<1>2. state' \in [Missions -> States] /\ blocked' \subseteq Managed
  BY DEF Executed, Rated
<1> QED BY <1>1, <1>2 DEF Rated, Executed, Answered

(* Who is given a worker, and who gives it back, keeps their places.       *)
LEMMA AllocateFits ==
  ASSUME Staffed, Rated, NEW top \in Managed, NEW victims \in SUBSET Managed,
         Managed \subseteq Missions, Allocate(top, victims), Managed' = Managed
  PROVE  /\ Staffed' /\ state' \in [Missions -> States]
         /\ Exclusive => Exclusive'
<1> DEFINE freed == UNION {assigned[v] : v \in victims}
           given == IF Available \cup freed = {} THEN {} ELSE {MinOf(Available \cup freed)}
<1>1. freed \subseteq Workers /\ given \subseteq Available \cup freed /\ given \subseteq Workers
  <2>1. freed \subseteq Workers /\ Available \subseteq Workers
    BY DEF Staffed, Available
  <2> HIDE DEF freed
  <2> QED BY <2>1, FirstWorker
<1>2. \A w \in Workers : w \in freed <=> \E v \in victims : w \in assigned[v]
  OBVIOUS
<1>3. /\ worker' = [w \in Workers |->
                     IF w \in given THEN [status |-> "BUSY", current |-> top]
                     ELSE IF w \in freed THEN [status |-> "AVAILABLE", current |-> NoMission]
                     ELSE worker[w]]
      /\ assigned' = [m \in Missions |->
                       IF m \in victims THEN {}
                       ELSE IF m = top /\ given # {} THEN given
                       ELSE assigned[m]]
      /\ state' = [m \in Missions |->
                    IF m \in victims THEN "PREPARING"
                    ELSE IF m = top /\ given # {} THEN "EXECUTING"
                    ELSE state[m]]
  BY DEF Allocate
<1> HIDE DEF freed, given
<1>4. Staffed'
  <2>1. /\ [status |-> "BUSY", current |-> top] \in WorkerStates
        /\ [status |-> "AVAILABLE", current |-> NoMission] \in WorkerStates
    BY DEF WorkerStates
  <2>2. worker' \in [Workers -> WorkerStates]
    BY <1>3, <2>1 DEF Staffed
  <2>3. assigned' \in [Missions -> SUBSET Workers]
    BY <1>1, <1>3 DEF Staffed
  <2>4. \A m \in Missions : assigned'[m] # {} => m \in Managed
    BY <1>3 DEF Staffed
  <2> QED BY <2>2, <2>3, <2>4 DEF Staffed
<1>5. state' \in [Missions -> States]
  BY <1>3 DEF Rated, States
<1>6. ASSUME Exclusive, NEW m \in Missions, NEW w \in assigned'[m]
      PROVE  worker'[w].status = "BUSY" /\ worker'[w].current = m
  <2>1. m \notin victims /\ w \in Workers
    BY <1>3, <1>4, <1>6 DEF Staffed
  <2>2. CASE m = top /\ given # {}
    BY <1>3, <1>6, <2>1, <2>2
  <2>3. CASE ~(m = top /\ given # {})
    <3>1. w \in assigned[m]
      BY <1>3, <1>6, <2>1, <2>3
    <3>2. worker[w].status = "BUSY" /\ worker[w].current = m
      BY <1>6, <3>1 DEF Exclusive
    <3>3. w \notin freed
      BY <1>2, <1>6, <2>1, <3>2 DEF Exclusive
    <3>4. w \notin given
      BY <1>1, <3>2, <3>3 DEF Available
    <3> QED BY <1>3, <2>1, <3>2, <3>3, <3>4
  <2> QED BY <2>2, <2>3
<1> QED BY <1>4, <1>5, <1>6 DEF Exclusive

(* An arbitration keeps the kinds and the places. *)
LEMMA ArbitrateFits ==
  ASSUME Typed, NEW cycle \in BOOLEAN, at = "idle", Arbitrate(cycle)
  PROVE  Typed' /\ (Exclusive => Exclusive') /\ spent' = spent
<1>1. Staffed /\ TimesTyped /\ RunTyped /\ Rated /\ Graph /\ Managed \subseteq Missions
  BY TypedParts, GraphTyped, ManagedFinite DEF Typed
<1> DEFINE Decided(bad, pending) ==
             /\ wait' = Waited
             /\ \/ pending # {} /\ Select(pending, bad, cycle)
                \/ /\ pending = {}
                   /\ blocked' = bad
                   /\ at' = IF cycle THEN "recover" ELSE "idle"
                   /\ UNCHANGED <<state, assigned, worker, resumable, run>>
             /\ UNCHANGED <<contracts, registry, spent, now>>
<1>2. PICK bad \in {blocked \cup Deadlocked} :
        \E pending \in {Eligible(bad)} : Decided(bad, pending)
  BY DEF Arbitrate
<1>3. PICK pending \in {Eligible(bad)} : Decided(bad, pending)
  BY <1>2
<1>4. bad \subseteq Managed /\ pending \subseteq Managed
  BY <1>1, SearchFits DEF Rated, Eligible
<1>5. TimesTyped' /\ Managed' = Managed /\ spent' = spent
  <2>1. wait' \in [Missions -> 0 .. MaxTime]
    BY <1>3, ScoresTyped
  <2>2. UNCHANGED <<deps, plan, order, terms, created, children, now, spent>>
    BY <1>3 DEF registry, contracts
  <2> QED BY <1>1, <2>1, <2>2 DEF TimesTyped, Managed
<1>6. CASE pending # {} /\ Select(pending, bad, cycle)
  <2> DEFINE Taken(top, victims) ==
               /\ Allocate(top, victims)
               /\ blocked' = bad \ victims
               /\ resumable' = resumable \cup victims
               /\ at' = IF cycle THEN "execute" ELSE "idle"
               /\ run' = IF cycle THEN [NoRun EXCEPT !.of = top, !.cycle = TRUE] ELSE NoRun
  <2>1. PICK top \in {Highest(pending)} : \E victims \in {Victims(top)} : Taken(top, victims)
    BY <1>6 DEF Select
  <2>2. PICK victims \in {Victims(top)} : Taken(top, victims)
    BY <2>1
  <2>3. top \in Managed /\ top \in Missions
    BY <1>1, <1>3, <1>4, <1>6, ChoicesThere
  <2>4. victims \subseteq Managed
    BY <1>3, VictimsFit
  <2>5. Staffed' /\ state' \in [Missions -> States] /\ (Exclusive => Exclusive')
    BY <1>1, <1>5, <2>2, <2>3, <2>4, AllocateFits
  <2>6. Rated'
    BY <1>4, <1>5, <2>2, <2>5 DEF Rated
  <2>7. RunTyped'
    <3>1. [NoRun EXCEPT !.of = top, !.cycle = TRUE]
             \in [of : Missions \cup {NoMission}, cycle : BOOLEAN, step : Nat,
                  recoveries : 0 .. MaxRecoveries, replans : 0 .. MaxReplans]
      BY <2>3, NoRunTyped
    <3>2. [NoRun EXCEPT !.of = top, !.cycle = TRUE].of = top
      BY DEF NoRun
    <3>3. spent' \in [Missions -> Nat] /\ resumable' \subseteq Managed'
      BY <1>1, <1>5, <2>2, <2>4 DEF RunTyped
    <3>4. CASE cycle
      <4>1. at' = "execute" /\ run' = [NoRun EXCEPT !.of = top, !.cycle = TRUE]
        BY <2>2, <3>4
      <4> QED BY <1>5, <2>3, <3>1, <3>2, <3>3, <4>1 DEF RunTyped
    <3>5. CASE ~cycle
      <4>1. at' = "idle" /\ run' = NoRun
        BY <2>2, <3>5
      <4> QED BY <3>3, <4>1, NoRunTyped DEF RunTyped
    <3> QED BY <3>4, <3>5
  <2> QED BY <1>5, <2>5, <2>6, <2>7, PartsTyped
<1>7. CASE pending = {} /\ blocked' = bad /\ at' = (IF cycle THEN "recover" ELSE "idle")
           /\ UNCHANGED <<state, assigned, worker, resumable, run>>
  <2>1. Staffed' /\ Rated' /\ RunTyped'
    BY <1>1, <1>4, <1>5, <1>7 DEF Staffed, Rated, RunTyped
  <2>2. Exclusive => Exclusive'
    BY <1>7 DEF Exclusive
  <2> QED BY <1>5, <2>1, <2>2, PartsTyped
<1> QED BY <1>3, <1>5, <1>6, <1>7

(* To give workers back takes them from their missions only. *)
LEMMA ReleaseExclusive ==
  ASSUME Staffed, Exclusive, NEW S \in SUBSET Missions, Release(S)
  PROVE  Exclusive'
<1> SUFFICES ASSUME NEW m \in Missions, NEW w \in assigned'[m]
             PROVE  worker'[w].status = "BUSY" /\ worker'[w].current = m
  BY DEF Exclusive
<1>1. m \notin S /\ w \in assigned[m] /\ w \in Workers
  BY DEF Release, Staffed
<1>2. worker[w].status = "BUSY" /\ worker[w].current = m
  BY <1>1 DEF Exclusive
<1>3. ~\E n \in S : w \in assigned[n]
  BY <1>1, <1>2 DEF Exclusive
<1> QED BY <1>1, <1>2, <1>3 DEF Release

(* A run's answer gives its workers back, or leaves them. *)
LEMMA ExecutedExclusive ==
  ASSUME Staffed, Exclusive, NEW m \in Missions, NEW as, Executed(m, as)
  PROVE  Exclusive'
<1>1. CASE as = "COMPLETED"
  BY <1>1, ReleaseExclusive DEF Executed
<1>2. CASE as # "COMPLETED"
  BY <1>2 DEF Executed, Exclusive
<1> QED BY <1>1, <1>2

(* A worker that fails is given up, and the one that replaces it was free. *)
LEMMA FailWorkerFits ==
  ASSUME Typed, NEW w \in Workers, FailWorker(w)
  PROVE  Typed' /\ (Exclusive => Exclusive') /\ spent' = spent
<1> DEFINE m == worker[w].current
           degraded == [worker EXCEPT ![w].status = "DEGRADED"]
           others == Available \ {w}
           other == MinOf(others)
<1>1. Staffed /\ TimesTyped /\ RunTyped /\ Rated /\ Managed \subseteq Missions
  BY TypedParts, GraphTyped, ManagedFinite DEF Typed
<1>2. /\ UNCHANGED <<order, terms, created, children, wait, spent, resumable, deps, plan, at, run, now>>
      /\ TimesTyped' /\ Managed' = Managed /\ RunTyped'
  <2>1. UNCHANGED <<order, terms, created, children, wait, spent, resumable, deps, plan, at, run, now>>
    BY DEF FailWorker, registry, contracts, engine
  <2>2. TimesTyped' /\ Managed' = Managed
    BY <2>1, RegistryKept DEF registry, contracts
  <2>3. RunTyped'
    BY <1>1, <2>1, <2>2 DEF RunTyped
  <2> QED BY <2>1, <2>2, <2>3
<1>3. /\ \A x \in Workers : worker[x] \in WorkerStates
      /\ degraded = [x \in Workers |-> IF x = w THEN [worker[w] EXCEPT !.status = "DEGRADED"]
                                       ELSE worker[x]]
      /\ degraded \in [Workers -> WorkerStates]
  <2>1. \A x \in Workers : worker[x] \in WorkerStates
    BY <1>1 DEF Staffed
  <2>2. degraded = [x \in Workers |-> IF x = w THEN [worker[w] EXCEPT !.status = "DEGRADED"]
                                      ELSE worker[x]]
    BY <1>1 DEF Staffed
  <2>3. [worker[w] EXCEPT !.status = "DEGRADED"] \in WorkerStates
    BY <2>1 DEF WorkerStates
  <2> QED BY <2>1, <2>2, <2>3
<1>4. CASE m \notin Managed
  <2>1. worker' = degraded /\ UNCHANGED <<state, blocked, assigned>>
    BY <1>4 DEF FailWorker, missions
  <2> HIDE DEF degraded
  <2>2. Staffed' /\ Rated'
    BY <1>1, <1>2, <1>3, <2>1 DEF Staffed, Rated
  <2>3. ASSUME Exclusive PROVE Exclusive'
    <3> SUFFICES ASSUME NEW n \in Missions, NEW x \in assigned[n]
                 PROVE  worker'[x].status = "BUSY" /\ worker'[x].current = n
      BY <2>1 DEF Exclusive
    <3>1. x \in Workers /\ worker[x].status = "BUSY" /\ worker[x].current = n /\ n \in Managed
      BY <1>1, <2>3 DEF Exclusive, Staffed
    <3>2. x # w
      BY <1>4, <3>1
    <3> QED BY <1>3, <2>1, <3>1, <3>2
  <2> QED BY <1>2, <2>2, <2>3, PartsTyped
<1>5. CASE m \in Managed /\ others # {}
  <2>1. \/ /\ worker' = [degraded EXCEPT ![other] = [status |-> "BUSY", current |-> m]]
           /\ assigned' = [assigned EXCEPT ![m] = (@ \ {w}) \cup {other}]
           /\ state' = state /\ blocked' = blocked \ {m}
    BY <1>5 DEF FailWorker
  <2>2. other \in Available /\ other \in Workers /\ other # w
    <3>1. others \subseteq Workers
      BY DEF Available
    <3> HIDE DEF others
    <3>2. other \in others
      BY <1>5, <3>1, FirstWorker
    <3> QED BY <3>1, <3>2 DEF others
  <2> HIDE DEF degraded, other, others
  <2>3. [status |-> "BUSY", current |-> m] \in WorkerStates
    BY <1>1, <1>5 DEF WorkerStates
  <2> HIDE DEF m
  <2>4. worker' = [x \in Workers |-> IF x = other THEN [status |-> "BUSY", current |-> m]
                                     ELSE degraded[x]]
    BY <1>3, <2>1, <2>2
  <2>5. assigned' = [n \in Missions |-> IF n = m THEN (assigned[m] \ {w}) \cup {other}
                                        ELSE assigned[n]]
    BY <1>1, <1>5, <2>1 DEF Staffed
  <2>6. Staffed' /\ Rated'
    <3>1. worker' \in [Workers -> WorkerStates]
      BY <1>3, <2>3, <2>4
    <3>2. assigned' \in [Missions -> SUBSET Workers]
      BY <1>1, <2>2, <2>5 DEF Staffed
    <3>3. \A n \in Missions : assigned'[n] # {} => n \in Managed
      BY <1>1, <1>5, <2>5 DEF Staffed
    <3> QED BY <1>1, <1>2, <2>1, <3>1, <3>2, <3>3 DEF Staffed, Rated
  <2>7. ASSUME Exclusive PROVE Exclusive'
    <3> SUFFICES ASSUME NEW n \in Missions, NEW x \in assigned'[n]
                 PROVE  worker'[x].status = "BUSY" /\ worker'[x].current = n
      BY DEF Exclusive
    <3>1. CASE x = other
      <4>1. n = m
        <5> SUFFICES ASSUME n # m PROVE FALSE
          OBVIOUS
        <5>1. x \in assigned[n]
          BY <2>5
        <5> QED BY <2>2, <2>7, <3>1, <5>1 DEF Exclusive, Available
      <4> QED BY <2>2, <2>4, <3>1, <4>1
    <3>2. CASE x # other
      <4>1. x \in assigned[n] /\ ~(n = m /\ x = w)
        BY <2>5, <3>2
      <4>2. x \in Workers /\ worker[x].status = "BUSY" /\ worker[x].current = n
        BY <1>1, <2>7, <4>1 DEF Exclusive, Staffed
      <4>3. x # w
        BY <4>1, <4>2 DEF m
      <4> QED BY <1>3, <2>4, <3>2, <4>2, <4>3
    <3> QED BY <3>1, <3>2
  <2> QED BY <1>2, <2>6, <2>7, PartsTyped
<1>6. CASE m \in Managed /\ others = {}
  <2>1. /\ worker' = degraded
        /\ assigned' = [assigned EXCEPT ![m] = @ \ {w}]
        /\ state' = [state EXCEPT ![m] = "PREPARING"] /\ blocked' = blocked \ {m}
    BY <1>6 DEF FailWorker
  <2> HIDE DEF degraded, others, other
  <2>2. assigned' = [n \in Missions |-> IF n = m THEN assigned[m] \ {w} ELSE assigned[n]]
    BY <1>1, <1>6, <2>1 DEF Staffed
  <2>3. Staffed' /\ Rated'
    <3> HIDE DEF m
    <3>1. state' \in [Missions -> States] /\ blocked' \subseteq Managed
      BY <1>1, <2>1 DEF Rated, States
    <3>2. /\ assigned' \in [Missions -> SUBSET Workers]
          /\ \A n \in Missions : assigned'[n] # {} => n \in Managed
      BY <1>1, <1>6, <2>2 DEF Staffed
    <3> QED BY <1>2, <1>3, <2>1, <3>1, <3>2 DEF Staffed, Rated
  <2>4. ASSUME Exclusive PROVE Exclusive'
    <3> SUFFICES ASSUME NEW n \in Missions, NEW x \in assigned'[n]
                 PROVE  worker'[x].status = "BUSY" /\ worker'[x].current = n
      BY DEF Exclusive
    <3>1. x \in assigned[n] /\ ~(n = m /\ x = w)
      BY <2>2
    <3>2. x \in Workers /\ worker[x].status = "BUSY" /\ worker[x].current = n
      BY <1>1, <2>4, <3>1 DEF Exclusive, Staffed
    <3>3. x # w
      BY <3>1, <3>2
    <3> QED BY <1>3, <2>1, <3>2, <3>3
  <2> QED BY <1>2, <2>3, <2>4, PartsTyped
<1> QED BY <1>2, <1>4, <1>5, <1>6

(* The other calls on a mission. *)
LEMMA CallFits ==
  ASSUME Typed, NEW m \in Missions, Preempt(m) \/ Resume(m) \/ Cancel(m) \/ Execute(m)
  PROVE  Typed' /\ (Exclusive => Exclusive') /\ spent' = spent
<1>1. Staffed /\ TimesTyped /\ RunTyped /\ Rated /\ Managed \subseteq Missions
  BY TypedParts, GraphTyped, ManagedFinite DEF Typed
<1>2. m \in Managed /\ spent' = spent
  BY DEF Preempt, Resume, Cancel, Execute, engine
<1>3. TimesTyped' /\ Managed' = Managed
  <2>1. UNCHANGED <<contracts, registry, wait>> /\ now' = now
    BY DEF Preempt, Resume, Cancel, Execute
  <2> QED BY <2>1, RegistryKept
<1>4. CASE Preempt(m)
  <2>1. Staffed' /\ (Exclusive => Exclusive')
    BY <1>1, <1>3, <1>4, ReleaseTyped, ReleaseExclusive DEF Preempt
  <2>2. Rated' /\ RunTyped'
    BY <1>1, <1>2, <1>3, <1>4 DEF Preempt, Rated, RunTyped, States
  <2> QED BY <1>2, <1>3, <2>1, <2>2, PartsTyped
<1>5. CASE Resume(m)
  <2>1. Staffed' /\ (Exclusive => Exclusive')
    BY <1>1, <1>3, <1>5 DEF Resume, Staffed, Exclusive
  <2>2. Rated' /\ RunTyped'
    BY <1>1, <1>2, <1>3, <1>5 DEF Resume, Rated, RunTyped, States, engine
  <2> QED BY <1>2, <1>3, <2>1, <2>2, PartsTyped
<1>6. CASE Cancel(m)
  <2>1. Family(m) \in SUBSET Missions
    BY DEF Family
  <2>2. Staffed' /\ (Exclusive => Exclusive')
    BY <1>1, <1>3, <1>6, <2>1, ReleaseTyped, ReleaseExclusive DEF Cancel
  <2>3. Rated' /\ RunTyped'
    BY <1>1, <1>3, <1>6 DEF Cancel, Rated, RunTyped, States, engine
  <2> QED BY <1>2, <1>3, <2>2, <2>3, PartsTyped
<1>7. CASE Execute(m)
  <2>1. Staffed' /\ Rated' /\ (Exclusive => Exclusive')
    BY <1>1, <1>3, <1>7 DEF Execute, missions, Staffed, Rated, Exclusive
  <2>2. [NoRun EXCEPT !.of = m].of = m
        /\ [NoRun EXCEPT !.of = m]
             \in [of : Missions \cup {NoMission}, cycle : BOOLEAN, step : Nat,
                  recoveries : 0 .. MaxRecoveries, replans : 0 .. MaxReplans]
    BY NoRunTyped DEF NoRun
  <2>3. RunTyped'
    BY <1>1, <1>2, <1>3, <1>7, <2>2 DEF Execute, RunTyped, engine
  <2> QED BY <1>2, <1>3, <2>1, <2>3, PartsTyped
<1> QED BY <1>4, <1>5, <1>6, <1>7

(* A run ends or goes on, and takes from the budget what one node costs.   *)
LEMMA BeginFits ==
  ASSUME Typed, NEW m \in Missions, Begin(m) \/ Finish(m)
  PROVE  Typed' /\ (Exclusive => Exclusive') /\ spent' = spent
<1>1. Staffed /\ TimesTyped /\ RunTyped /\ Rated
  BY TypedParts
<1>2. spent' = spent /\ resumable' = resumable
  BY DEF Begin, Finish, engine
<1>3. TimesTyped' /\ Managed' = Managed
  <2>1. UNCHANGED <<contracts, registry, wait>> /\ now' = now
    BY DEF Begin, Finish, bounds
  <2> QED BY <2>1, RegistryKept
<1>4. ASSUME NEW as \in States, Executed(m, as) PROVE Typed' /\ (Exclusive => Exclusive')
  <2>1. Staffed' /\ Rated' /\ run' = NoRun /\ at' \in {"idle", "recover"}
    BY <1>1, <1>3, <1>4, ExecutedTyped
  <2>2. RunTyped'
    BY <1>1, <1>2, <1>3, <2>1, NoRunTyped DEF RunTyped
  <2>3. Exclusive => Exclusive'
    BY <1>1, <1>4, ExecutedExclusive
  <2> QED BY <1>3, <2>1, <2>2, <2>3, PartsTyped
<1>5. CASE Begin(m)
  <2>1. CASE Executed(m, "BLOCKED")
    BY <1>2, <1>4, <2>1 DEF States
  <2>2. CASE /\ at' = "run" /\ state' = [state EXCEPT ![m] = "EXECUTING"]
             /\ UNCHANGED <<blocked, worker, assigned, run>>
    <3>1. Staffed' /\ Rated' /\ (Exclusive => Exclusive')
      BY <1>1, <1>3, <2>2 DEF Staffed, Rated, States, Exclusive
    <3>2. RunTyped'
      BY <1>1, <1>2, <1>3, <1>5, <2>2 DEF Begin, RunTyped
    <3> QED BY <1>2, <1>3, <3>1, <3>2, PartsTyped
  <2> QED BY <1>5, <2>1, <2>2 DEF Begin
<1>6. CASE Finish(m)
  BY <1>2, <1>4, <1>6 DEF Finish, States
<1> QED BY <1>5, <1>6

(* A step that spends nothing respects the budget. *)
LEMMA SpentKept == spent' = spent /\ BudgetRespected => BudgetRespected'
BY DEF BudgetRespected

(* A node spends when the budget is not yet overdrawn. *)
LEMMA NodeFits ==
  ASSUME Typed, NEW m \in Missions, Node(m)
  PROVE  Typed' /\ (Exclusive => Exclusive') /\ (BudgetRespected => BudgetRespected')
<1> DEFINE c == plan[m][run.step + 1]
           Dear == {0} \cup UNION {ToSet(costs) : costs \in Costs}
<1>1. Staffed /\ TimesTyped /\ RunTyped /\ Rated
  BY TypedParts
<1>2. TimesTyped' /\ Managed' = Managed
  <2>1. UNCHANGED <<contracts, registry, wait>> /\ now' = now
    BY DEF Node, bounds
  <2> QED BY <2>1, RegistryKept
<1>3. m \in Managed /\ resumable' \subseteq Managed
  BY <1>1 DEF Node, RunTyped
<1>4. c \in Nat /\ c \in Dear
  <2>1. run.step \in Nat /\ run.step < Len(plan[m]) /\ plan[m] \in Costs \cup {<<>>}
    BY <1>1 DEF RunTyped, TimesTyped, Node
  <2>2. plan[m] \in Costs /\ plan[m] \in Seq(Nat)
    BY <2>1, ArbitratorAssumption
  <2>3. run.step + 1 \in 1 .. Len(plan[m])
    BY <2>1, <2>2
  <2>4. c \in Nat /\ c \in ToSet(plan[m])
    BY <2>2, <2>3 DEF ToSet
  <2> QED BY <2>2, <2>4
<1> HIDE DEF c, Dear
<1>5. /\ spent' \in [Missions -> Nat]
      /\ BudgetRespected => BudgetRespected'
  <2>1. CASE spent' = spent
    BY <1>1, <2>1, SpentKept DEF RunTyped
  <2>2. CASE ~Overdrawn(m) /\ spent' = [spent EXCEPT ![m] = @ + c]
    <3>1. /\ spent' \in [Missions -> Nat] /\ spent'[m] = spent[m] + c /\ spent[m] \in Nat
          /\ \A n \in Missions \ {m} : spent'[n] = spent[n]
      BY <1>1, <1>4, <2>2 DEF RunTyped
    <3>2. spent'[m] < Budget + c
      BY <1>4, <2>2, <3>1, ArbitratorAssumption DEF Overdrawn
    <3>3. \A n \in Missions : BudgetRespected =>
            \E k \in Dear : spent'[n] < Budget + k
      BY <1>4, <3>1, <3>2 DEF BudgetRespected, Dear
    <3> QED BY <3>1, <3>3 DEF BudgetRespected, Dear
  <2> QED BY <2>1, <2>2 DEF Node, c
<1>6. ASSUME Executed(m, "FAILED") PROVE Typed' /\ (Exclusive => Exclusive')
  <2>1. Staffed' /\ Rated' /\ run' = NoRun /\ at' \in {"idle", "recover"}
    BY <1>1, <1>2, <1>6, ExecutedTyped DEF States
  <2>2. RunTyped'
    BY <1>2, <1>3, <1>5, <2>1, NoRunTyped DEF RunTyped
  <2>3. Exclusive => Exclusive'
    BY <1>1, <1>6, ExecutedExclusive
  <2> QED BY <1>2, <2>1, <2>2, <2>3, PartsTyped
<1>7. ASSUME UNCHANGED <<missions, worker, at>>, run'.of = run.of,
             run' \in [of : Missions \cup {NoMission}, cycle : BOOLEAN, step : Nat,
                       recoveries : 0 .. MaxRecoveries, replans : 0 .. MaxReplans]
      PROVE  Typed' /\ (Exclusive => Exclusive')
  <2>1. Staffed' /\ Rated' /\ (Exclusive => Exclusive')
    BY <1>1, <1>2, <1>7 DEF Staffed, Rated, Exclusive, missions
  <2>2. RunTyped'
    BY <1>1, <1>2, <1>3, <1>5, <1>7 DEF RunTyped
  <2> QED BY <1>2, <2>1, <2>2, PartsTyped
<1>8. \/ Executed(m, "FAILED")
      \/ /\ UNCHANGED <<missions, worker, at>>
         /\ \/ /\ MayRecover /\ run.replans < MaxReplans
               /\ run' = [run EXCEPT !.step = @ + 1, !.recoveries = @ + 1, !.replans = @ + 1]
            \/ run' = [run EXCEPT !.step = @ + 1]
            \/ MayRecover /\ run' = [run EXCEPT !.step = @ + 1, !.recoveries = @ + 1]
  BY DEF Node
<1>9. ASSUME UNCHANGED <<missions, worker, at>>
             /\ \/ /\ MayRecover /\ run.replans < MaxReplans
                   /\ run' = [run EXCEPT !.step = @ + 1, !.recoveries = @ + 1, !.replans = @ + 1]
                \/ run' = [run EXCEPT !.step = @ + 1]
                \/ MayRecover /\ run' = [run EXCEPT !.step = @ + 1, !.recoveries = @ + 1]
      PROVE  Typed' /\ (Exclusive => Exclusive')
  <2>1. /\ run \in [of : Missions \cup {NoMission}, cycle : BOOLEAN, step : Nat,
                    recoveries : 0 .. MaxRecoveries, replans : 0 .. MaxReplans]
        /\ run.step + 1 \in Nat
        /\ run.recoveries \in 0 .. MaxRecoveries /\ run.replans \in 0 .. MaxReplans
    BY <1>1, <1>4 DEF RunTyped
  <2>2. /\ MayRecover => run.recoveries + 1 \in 0 .. MaxRecoveries
        /\ run.replans < MaxReplans => run.replans + 1 \in 0 .. MaxReplans
    BY <2>1, ArbitratorAssumption DEF MayRecover
  <2>3. /\ run'.of = run.of
        /\ run' \in [of : Missions \cup {NoMission}, cycle : BOOLEAN, step : Nat,
                     recoveries : 0 .. MaxRecoveries, replans : 0 .. MaxReplans]
    BY <1>9, <2>1, <2>2
  <2> QED BY <1>7, <1>9, <2>3
<1> QED BY <1>5, <1>6, <1>8, <1>9

(* Degraded workers have no mission, so their recovery disturbs none. *)
LEMMA RecoverFits ==
  ASSUME Typed, Recover \/ Tick
  PROVE  Typed' /\ (Exclusive => Exclusive') /\ spent' = spent
<1>1. Staffed /\ TimesTyped /\ RunTyped /\ Rated
  BY TypedParts
<1>2. CASE Recover
  <2>1. TimesTyped' /\ Managed' = Managed
    BY <1>2, RegistryKept DEF Recover, bounds
  <2>2. ASSUME NEW w \in Workers
        PROVE  (IF worker[w].status = "DEGRADED" THEN [worker[w] EXCEPT !.status = "AVAILABLE"]
                ELSE worker[w]) \in WorkerStates
    BY <1>1 DEF Staffed, WorkerStates
  <2>3. Staffed'
    BY <1>1, <1>2, <2>1, <2>2 DEF Recover, Staffed, missions
  <2>4. Rated' /\ RunTyped' /\ spent' = spent
    BY <1>1, <1>2, <2>1 DEF Recover, Rated, RunTyped, missions, engine
  <2>5. ASSUME Exclusive PROVE Exclusive'
    <3> SUFFICES ASSUME NEW m \in Missions, NEW w \in assigned[m]
                 PROVE  worker'[w].status = "BUSY" /\ worker'[w].current = m
      BY <1>2 DEF Recover, missions, Exclusive
    <3>1. w \in Workers /\ worker[w].status = "BUSY" /\ worker[w].current = m
      BY <1>1, <2>5 DEF Staffed, Exclusive
    <3> QED BY <1>2, <3>1 DEF Recover
  <2> QED BY <2>1, <2>3, <2>4, <2>5, PartsTyped
<1>3. CASE Tick
  <2>1. Managed' = Managed /\ TimesTyped'
    BY <1>1, <1>3, ArbitratorAssumption DEF Tick, TimesTyped, registry, contracts, Managed
  <2>2. Staffed' /\ Rated' /\ RunTyped' /\ (Exclusive => Exclusive') /\ spent' = spent
    BY <1>1, <1>3, <2>1 DEF Tick, Staffed, Rated, RunTyped, Exclusive, missions, engine
  <2> QED BY <2>1, <2>2, PartsTyped
<1> QED BY <1>2, <1>3

-----------------------------------------------------------------------------
(* Every step keeps the invariant ... *)
LEMMA ArbitratorInductive == ArbitratorInv /\ [Next]_vars => ArbitratorInv'
<1> SUFFICES ASSUME ArbitratorInv, [Next]_vars PROVE ArbitratorInv'
  OBVIOUS
<1>1. Typed /\ Exclusive /\ BudgetRespected
  BY DEF ArbitratorInv
<1>2. ASSUME Typed' /\ (Exclusive => Exclusive') /\ (spent' = spent) PROVE ArbitratorInv'
  BY <1>1, <1>2, SpentKept DEF ArbitratorInv
<1>3. CASE Cycle \/ Schedule
  <2>1. CASE Cycle
    BY <1>1, <1>2, <2>1, ArbitrateFits DEF Cycle
  <2>2. CASE Schedule
    BY <1>1, <1>2, <2>2, ArbitrateFits DEF Schedule, Called
  <2> QED BY <1>3, <2>1, <2>2
<1>4. CASE Recover \/ Tick
  BY <1>1, <1>2, <1>4, RecoverFits
<1>5. ASSUME NEW m \in Missions, Begin(m) \/ Finish(m) PROVE ArbitratorInv'
  BY <1>1, <1>2, <1>5, BeginFits
<1>6. ASSUME NEW m \in Missions, Node(m) PROVE ArbitratorInv'
  BY <1>1, <1>6, NodeFits DEF ArbitratorInv
<1>7. ASSUME NEW m \in Missions, Register(m) \/ Plan(m) PROVE ArbitratorInv'
  BY <1>1, <1>2, <1>7, RegisterFits, PlanFits
<1>8. ASSUME NEW m \in Missions, Preempt(m) \/ Resume(m) \/ Cancel(m) \/ Execute(m)
      PROVE  ArbitratorInv'
  BY <1>1, <1>2, <1>8, CallFits
<1>9. ASSUME NEW w \in Workers, FailWorker(w) PROVE ArbitratorInv'
  BY <1>1, <1>2, <1>9, FailWorkerFits
<1>10. CASE UNCHANGED vars
  <2>1. UNCHANGED <<deps, plan, order, terms, created, children, state, blocked, assigned, wait, worker,
                    spent, resumable, at, run, now>>
    BY <1>10 DEF vars, contracts, registry, missions, engine, bounds
  <2>2. Managed' = Managed
    BY <2>1 DEF Managed
  <2>3. Typed'
    BY <1>1, <2>1, <2>2 DEF Typed, ArbitratorTypeOK
  <2>4. Exclusive'
    BY <1>1, <2>1 DEF Exclusive
  <2> QED BY <1>2, <2>1, <2>3, <2>4
<1> QED
  BY <1>3, <1>4, <1>5, <1>6, <1>7, <1>8, <1>9, <1>10 DEF Next, Step, Call

(* ... which holds throughout. *)
LEMMA ArbitratorInvariant == Spec => []ArbitratorInv
<1>1. Init => ArbitratorInv
  BY InitTyped
<1>2. ArbitratorInv /\ [Next]_vars => ArbitratorInv'
  BY ArbitratorInductive
<1> QED BY <1>1, <1>2, PTL DEF Spec

(* The arbitrator's state keeps its kinds of value, and a run's recoveries *)
(* never exceed their maximum.                                             *)
THEOREM ArbitratorTypeCorrect == Spec => []ArbitratorTypeOK
<1>1. ArbitratorInv => ArbitratorTypeOK
  BY DEF ArbitratorInv, Typed
<1> QED BY <1>1, ArbitratorInvariant, PTL

(* No worker serves two missions and none that failed serves any, whatever *)
(* is preempted, resumed, cancelled and replaced.                          *)
THEOREM WorkersExclusive == Spec => []Exclusive
<1>1. ArbitratorInv => Exclusive
  BY DEF ArbitratorInv
<1> QED BY <1>1, ArbitratorInvariant, PTL

(* A mission overdraws its budget by less than one node costs, over all    *)
(* its runs.                                                               *)
THEOREM BudgetHolds == Spec => []BudgetRespected
<1>1. ArbitratorInv => BudgetRespected
  BY DEF ArbitratorInv
<1> QED BY <1>1, ArbitratorInvariant, PTL

(* The search of detect_multi_mission_deadlock is right about the relation *)
(* it follows, from a mission to the keys of its dependencies: it reports  *)
(* a mission exactly when keys lead in a circle among the managed ones,    *)
(* whatever the plans.  Whether keys are what a mission waits for is       *)
(* another matter: the contract's comment makes them those that wait.      *)
THEOREM SearchRight == Spec => []SearchExact
<1>1. ArbitratorInv => SearchExact
  BY GraphTyped, SearchFits DEF ArbitratorInv, Typed
<1> QED BY <1>1, ArbitratorInvariant, PTL

=============================================================================
