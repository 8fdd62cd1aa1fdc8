-------------------------- MODULE MCProvenanceStore --------------------------
(* Instances of ProvenanceStore: one process with two worker threads; two     *)
(* processes with a thread each on one file; and both at once, two threads    *)
(* that share a process and one that is alone in another.                     *)
EXTENDS ProvenanceStore

CONSTANTS p1, p2, t1, t2, t3

OneProcess  == [t \in {t1, t2} |-> p1]
SharedAndAlone == [t \in {t1, t2, t3} |-> IF t = t3 THEN p2 ELSE p1]
TwoProcesses == [t \in {t1, t2} |-> IF t = t1 THEN p1 ELSE p2]
=============================================================================
