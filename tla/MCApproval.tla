----------------------------- MODULE MCApproval -----------------------------
(* Three interchangeable processes on one request. *)
EXTENDS Approval, TLC

CONSTANTS p1, p2, p3, a1, nobody

Symmetry == Permutations({p1, p2, p3})
=============================================================================
