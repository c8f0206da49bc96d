---------------------------- MODULE MCAuditLedger ----------------------------
(* Two threads of one AuditLedger, and a process with another on the file. *)
EXTENDS AuditLedger

CONSTANTS w1, w2, w3, shared, other

MCWriters == {w1, w2, w3}
TwoLedgers == [w \in MCWriters |-> IF w = w3 THEN other ELSE shared]

=============================================================================
