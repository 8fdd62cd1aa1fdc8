------------------------- MODULE MCGovernedWorkflow -------------------------
(* Instances of GovernedWorkflow: files that generator and validation go through *)
(* in the same order, and in the orders of the code.                             *)
EXTENDS GovernedWorkflow

CONSTANTS partners, orders, postings, day, eve, morrow, r1, r2

OneFile    == <<partners>>
ReadThree  == <<postings, partners, orders>>
WriteThree == <<partners, orders, postings>>
=============================================================================
