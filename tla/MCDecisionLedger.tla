--------------------------- MODULE MCDecisionLedger ---------------------------
(* Two callers, in one process or in one process each. *)
EXTENDS DecisionLedger, TLC

CONSTANTS kernel, resources, main, other

MCDeployments ==
  {[c \in Callers |-> main],
   (kernel :> main @@ resources :> other)}
=============================================================================
