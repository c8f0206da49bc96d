----------------------------- MODULE DagContract -----------------------------
(***************************************************************************)
(* What an execution of task graphs promises, without waves, semaphore,    *)
(* coroutines, retry counters or checkpoints: a node is worked on only     *)
(* after its dependencies are done, may be given back and taken again,     *)
(* dies only because its work was given up or because something it depends *)
(* on died, and a graph is declared a success exactly when all is done.    *)
(***************************************************************************)
CONSTANTS Nodes, Deps, Dags, DagOf

VARIABLES
  node,     (* todo, active, done or dead *)
  outcome   (* of each graph: open, success or failure *)

contractVars == <<node, outcome>>

Of(d) == {n \in Nodes : DagOf[n] = d}
Open(n) == outcome[DagOf[n]] = "open"
Enabled(n) == node[n] = "todo" /\ \A d \in Deps[n] : node[d] = "done"
Waiting(d) == {n \in Of(d) : node[n] = "todo"}
Moved(S, to) == [n \in Nodes |-> IF n \in S THEN to ELSE node[n]]

Init ==
  /\ node = [n \in Nodes |-> "todo"]
  /\ outcome = [d \in Dags |-> "open"]

Activate(n) ==
  /\ Open(n) /\ Enabled(n)
  /\ node' = Moved({n}, "active")
  /\ UNCHANGED outcome

Complete(n) ==
  /\ Open(n) /\ node[n] = "active"
  /\ node' = Moved({n}, "done")
  /\ UNCHANGED outcome

(* The work on a node is given back, to be taken up again. *)
GiveBack(n) ==
  /\ Open(n) /\ node[n] = "active"
  /\ node' = Moved({n}, "todo")
  /\ UNCHANGED outcome

(* Node n is given up, and with it nodes that wait for n or for each other. *)
GiveUp(n, S) ==
  /\ Open(n) /\ (node[n] = "active" \/ Enabled(n))
  /\ \A m \in S : \E d \in Deps[m] : d \in S \cup {n}
  /\ node' = Moved(S \cup {n}, "dead")
  /\ UNCHANGED outcome

(* Everything of d still being worked on is given back; d may end with it, *)
(* and an empty graph ends in failure.                                     *)
Settle(d) ==
  LET back == {n \in Of(d) : node[n] = "active"}
  IN  /\ outcome[d] = "open"
      /\ node' = Moved(back, "todo")
      /\ \/ UNCHANGED outcome
         \/ /\ Of(d) # {} /\ \A n \in Of(d) : node[n] = "done"
            /\ outcome' = [outcome EXCEPT ![d] = "success"]
         \/ /\ Of(d) = {} \/ \E n \in Of(d) : node[n] = "dead"
            /\ outcome' = [outcome EXCEPT ![d] = "failure"]

Next ==
  \/ \E n \in Nodes : Activate(n) \/ Complete(n) \/ GiveBack(n)
  \/ \E n \in Nodes : \E S \in SUBSET Waiting(DagOf[n]) : GiveUp(n, S)
  \/ \E d \in Dags : Settle(d)

Spec == Init /\ [][Next]_contractVars
=============================================================================
