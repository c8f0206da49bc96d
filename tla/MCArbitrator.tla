---------------------------- MODULE MCArbitrator ----------------------------
(* Two workers and three missions: an urgent one, whose deadline comes     *)
(* near and which may be registered again as a low one; a low one that may *)
(* be preempted; and one that cannot, a child of the first.                *)
EXTENDS Arbitrator

CONSTANTS a, b, c

Term(early, late, urgent, preemptible, parent) ==
  [base |-> [t \in 0 .. MaxTime |-> IF t = 0 THEN early ELSE late],
   urgent |-> urgent, preemptible |-> preemptible, parent |-> parent]

MCTerms ==
  [m \in Missions |->
     CASE m = a -> {Term(2, 4, TRUE, TRUE, {}), Term(1, 1, FALSE, TRUE, {b})}
       [] m = b -> {Term(1, 1, FALSE, TRUE, {})}
       [] m = c -> {Term(2, 2, FALSE, FALSE, {a})}]

(* Two paths to one mission, and circles of one mission and of two. *)
MCKeys == {<<b, c>>, <<c>>}

MCCosts == {<<2, 2>>}

=============================================================================
