---------------------- MODULE MCPrerequisiteTraversal ----------------------
(***************************************************************************)
(* Every graph of at most MaxEdges edges over the first notes, and every   *)
(* graph over all of them whose edges lead to later notes: a search in     *)
(* another order goes wrong only with five notes, a cycle with fewer.      *)
(***************************************************************************)
EXTENDS PrerequisiteTraversal

CONSTANTS CycleNotes, MaxEdges

SomeLimits == {-1, 1, 2}

AnyGraphs     == {E \in SUBSET (CycleNotes \X CycleNotes) : Cardinality(E) <= MaxEdges}
LayeredGraphs == SUBSET {e \in Notes \X Notes : e[1] < e[2]}

MCInit == edges \in AnyGraphs \cup LayeredGraphs /\ Init
MCSpec == MCInit /\ [][Next]_vars /\ WF_vars(Next)
=============================================================================
