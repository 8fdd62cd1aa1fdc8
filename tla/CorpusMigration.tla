-------------------------- MODULE CorpusMigration --------------------------
(***************************************************************************)
(* scripts/migrate_benchmark_v1.py: one migration at a time turns the      *)
(* historical corpus and the prerequisite closures of the support graph    *)
(* into corpus v1, corpus v2 and a signed migration manifest, replaced one *)
(* after the other.  The process may die between any two steps.            *)
(*                                                                         *)
(* The support graph is known by its version, a corpus by the version of   *)
(* the closures it holds: that is all of it that changes.  The historical  *)
(* corpus is pinned by its digest and does not change.                     *)
(***************************************************************************)
EXTENDS Naturals, Sequences

CONSTANTS MaxEdits,   \* bound: edits of the graph in a behaviour
          ClosureOf,  \* the version of the closures of each version of the graph
          TooDeep     \* the versions of the graph whose closures exceed the depth bound

Versions == 0 .. MaxEdits
ASSUME EditsAssumption == MaxEdits \in Nat
ASSUME ClosureAssumption ==
  /\ ClosureOf \in [Versions -> Versions] /\ ClosureOf[0] = 0
  /\ \A i, j \in Versions : i <= j => ClosureOf[i] <= ClosureOf[j]
ASSUME DepthAssumption == TooDeep \subseteq Versions

VARIABLES disk,       \* graph, v1, v2, signed: the inputs that the results depend on
          stage,      \* the migration: where it is
          left,       \* the files it has still to replace
          hash,       \* GRAPH_SHA256, taken when the script was imported
          closures    \* closure_results, and with them what is about to be written

migration == <<stage, left, hash, closures>>

\* The repository as it is checked in: a migration from version 0 of the graph.
InitMigration ==
  /\ disk = [graph |-> 0, v1 |-> 0, v2 |-> 0, signed |-> [hash |-> 0, closures |-> 0]]
  /\ stage = "idle" /\ left = <<>> /\ hash = 0 /\ closures = 0
-----------------------------------------------------------------------------
\* Whoever maintains the graph commits another version of it.
EditGraph ==
  /\ disk.graph < MaxEdits
  /\ disk' = [disk EXCEPT !.graph = @ + 1]
  /\ UNCHANGED migration

\* _bounded_closure, _derive_closure: the closures of the graph on the disk, or ValueError.
Derivable == disk.graph \notin TooDeep
Derived   == ClosureOf[disk.graph]

\* The module is imported: GRAPH_SHA256.
Import ==
  /\ stage = "idle"
  /\ stage' = "imported" /\ hash' = disk.graph
  /\ UNCHANGED <<disk, left, closures>>

\* migrate_benchmark up to the documents it will write.
Derive ==
  /\ stage = "imported" /\ Derivable
  /\ stage' = "derived" /\ closures' = Derived
  /\ UNCHANGED <<disk, left, hash>>

\* validate_migration_manifest derives the closures again, from the graph as it is now.
Validate ==
  /\ stage = "derived" /\ Derivable /\ closures = Derived
  /\ stage' = "validated"
  /\ UNCHANGED <<disk, left, hash, closures>>

\* The faulty variant replaces the manifest before the corpora.
ManifestFirst == <<"signed", "v1", "v2">>
\* The order of the three atomic replacements: the manifest is last.
WriteOrder == <<"v1", "v2", "signed">>

\* The paths and the pinned inputs are tested once more, before the replacements.
Recheck ==
  /\ stage = "validated"
  /\ stage' = "writing" /\ left' = WriteOrder
  /\ UNCHANGED <<disk, hash, closures>>

\* The process ends; whatever it knew is forgotten.
Ends == stage' = "idle" /\ left' = <<>> /\ hash' = 0 /\ closures' = 0

\* _write_yaml: a temporary file, fsync, os.replace.
Output(file) == IF file = "signed" THEN [hash |-> hash, closures |-> closures] ELSE closures
Replace ==
  /\ stage = "writing"
  /\ disk' = [disk EXCEPT ![Head(left)] = Output(Head(left))]
  /\ IF Len(left) > 1 THEN left' = Tail(left) /\ UNCHANGED <<stage, hash, closures>> ELSE Ends

\* ValueError from a test that fails, or the process dies: what was replaced stays so.
Abandon == stage # "idle" /\ Ends /\ UNCHANGED disk

Migrate == Import \/ Derive \/ Validate \/ Recheck \/ Replace \/ Abandon
-----------------------------------------------------------------------------
\* Whenever a migration died, the manifest signs no closures that the corpora do not hold
\* yet: v1 is never behind v2, and v2 never behind the manifest (migrate_benchmark writes
\* the manifest last).
SignedNotAhead ==
  disk.signed.closures <= disk.v2 /\ disk.v2 <= disk.v1 /\ disk.v1 <= ClosureOf[disk.graph]
=============================================================================
