--------------------------- MODULE MCComplexTask ---------------------------
(* src/m.py, and src/m.py_old/m.txt, whose snapshots shadow those of the   *)
(* first, and tools/m.py, which nobody may patch.                          *)
EXTENDS ComplexTask

CONSTANTS a, b, c, t1, t2

MCShadow == [p \in Paths |-> IF p = a THEN {b} ELSE {}]
MCKey == [p \in Paths |-> IF p = b THEN "m.txt" ELSE "m.py"]

=============================================================================
