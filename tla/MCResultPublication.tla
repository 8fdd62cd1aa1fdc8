------------------------ MODULE MCResultPublication ------------------------
(* An instance of ResultPublication: one finalizer, one verifier, one migration at a *)
(* time, and a graph whose later version has other closures.                         *)
EXTENDS ResultPublication

CONSTANTS j1

Moved == [n \in 0 .. MaxEdits |-> IF n = 0 THEN 0 ELSE 1]
=============================================================================
