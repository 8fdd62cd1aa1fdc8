------------------------- MODULE ResultPublication -------------------------
(***************************************************************************)
(* research/benchmark_runner.py and the publication boundary of            *)
(* validation.py, over the inputs that CorpusMigration and the maintainers *)
(* of the graph change: a finalizer runs the benchmark in a child process  *)
(* and replaces results/latest_benchmark.json by its artifact, a verifier  *)
(* runs it again and compares.                                             *)
(*                                                                         *)
(* An artifact is what the benchmark read, in the order it reads: all that *)
(* it says is a function of it.  The graph stands for the validation       *)
(* assets, their generator and their pinned digests, which are committed   *)
(* together; the environment is the same everywhere.                       *)
(***************************************************************************)
EXTENDS CorpusMigration

CONSTANTS Jobs,          \* processes that finalize or verify, one call after the other
          Conforming,    \* versions of the graph that meet their shapes
          Absent, Half   \* no file; a file that is not written to its end

\* What a file may be read as: a version, or what a manifest signs.
Data == Versions \cup [hash : Versions, closures : Versions]
ASSUME AbsentAssumption == Absent # Half
ASSUME HalfAssumption == Half \notin Seq(Data)

VARIABLES published,   \* results/latest_benchmark.json
          task,        \* per job: "finalize", "verify", or "none"
          pc,          \* per job: where it is
          draft,       \* per job: what its child process has read
          temp,        \* per job: the file its benchmark writes
          seen,        \* per job: the inputs read for the manifest it builds itself
          claim,       \* per job: the published artifact it has loaded
          pinned,      \* per job: the version of the generator and the digests in its asset worker
          earlier,     \* history, per job: the artifact published when its verification began
          moments      \* history: every state the inputs have been in

jobs  == <<published, task, pc, draft, temp, seen, claim, pinned, earlier>>
world == <<disk, migration, moments>>
vars  == <<world, jobs>>

\* What a benchmark reads: the file, and what for.
Reads ==
  << <<"graph", "results">>, <<"v1", "results">>, <<"v2", "results">>,
     <<"v1", "dataset_sha256">>, <<"v2", "dataset_sha256">>,
     <<"graph", "hash_manifest">>, <<"v1", "hash_manifest">>, <<"v2", "hash_manifest">>,
     <<"signed", "hash_manifest">>, <<"graph", "validation">>, <<"graph", "data_sha256">> >>

\* The files of the manifest in their order, and what an artifact says of them there.
Covered   == <<"graph", "v1", "v2", "signed">>
InReads   == [i \in 1 .. Len(Covered) |-> i + 5]
Manifest(artifact) == [i \in 1 .. Len(Covered) |-> artifact[InReads[i]]]

Init ==
  /\ InitMigration /\ moments = {disk}
  /\ published = Absent
  /\ task = [j \in Jobs |-> "none"] /\ pc = [j \in Jobs |-> "idle"]
  /\ draft = [j \in Jobs |-> <<>>] /\ seen = draft
  /\ temp = [j \in Jobs |-> Absent] /\ claim = temp /\ earlier = temp
  /\ pinned = [j \in Jobs |-> 0]
-----------------------------------------------------------------------------
(***************************************************************************)
(* The child process: python -m semantic_layer.research --output <temp>.   *)
(***************************************************************************)
Goes(j, from, to) == pc[j] = from /\ pc' = [pc EXCEPT ![j] = to]

\* BenchmarkRunner._build_result: one more file is read.
ChildReads(j) ==
  /\ pc[j] = "benchmark" /\ Len(draft[j]) < Len(Reads)
  /\ draft' = [draft EXCEPT ![j] = Append(@, disk[Reads[Len(@) + 1][1]])]
  /\ UNCHANGED <<world, published, task, pc, temp, seen, claim, pinned, earlier>>

\* The faulty variant lets a finalizer name the canonical path as the output.
OpensAnything(j) ==
  /\ temp' = [temp EXCEPT ![j] = Half]
  /\ published' = IF task[j] = "finalize" THEN Half ELSE published
\* BenchmarkRunner.__init__ keeps off the canonical path; write_bytes truncates.
Opens(j) == temp' = [temp EXCEPT ![j] = Half] /\ UNCHANGED published

\* write_result_artifact.
ChildTruncates(j) ==
  /\ Len(draft[j]) = Len(Reads) /\ Goes(j, "benchmark", "writing") /\ Opens(j)
  /\ UNCHANGED <<world, task, draft, seen, claim, pinned, earlier>>

ChildWrites(j) ==
  /\ Goes(j, "writing", "finished")
  /\ temp' = [temp EXCEPT ![j] = draft[j]] /\ draft' = [draft EXCEPT ![j] = <<>>]
  /\ UNCHANGED <<world, published, task, seen, claim, pinned, earlier>>

\* A test fails, or parent or child die: TemporaryDirectory is removed, or never read again.
Fails(j) ==
  /\ pc[j] \notin {"idle", "passed"} /\ pc' = [pc EXCEPT ![j] = "idle"]
  /\ draft' = [draft EXCEPT ![j] = <<>>] /\ seen' = [seen EXCEPT ![j] = <<>>]
  /\ temp' = [temp EXCEPT ![j] = Absent] /\ claim' = [claim EXCEPT ![j] = Absent]
  /\ UNCHANGED <<world, published, task, pinned, earlier>>

\* build_hash_manifest: one more file is read; the child has ended well and has written.
BuildsManifest(j) ==
  /\ Len(seen[j]) < Len(Covered) /\ temp[j] \notin {Absent, Half}
  /\ seen' = [seen EXCEPT ![j] = Append(@, disk[Covered[Len(@) + 1]])]
  /\ UNCHANGED <<world, published, task, pc, draft, temp, claim, pinned, earlier>>

\* The faulty variant takes the artifact's word for it.
UncheckedManifest(artifact, actual) == Len(actual) = Len(Covered)
SameManifest(artifact, actual) == Len(actual) = Len(Covered) /\ Manifest(artifact) = actual
-----------------------------------------------------------------------------
(***************************************************************************)
(* finalize_research_artifact.                                             *)
(***************************************************************************)
Begins(j, what) == pc[j] \in {"idle", "passed"} /\ task' = [task EXCEPT ![j] = what]

Finalize(j) ==
  /\ Begins(j, "finalize") /\ pc' = [pc EXCEPT ![j] = "benchmark"]
  /\ claim' = [claim EXCEPT ![j] = Absent]
  /\ UNCHANGED <<world, published, draft, temp, seen, pinned, earlier>>

ManifestAgain(j) == task[j] = "finalize" /\ pc[j] = "finished" /\ BuildsManifest(j)

AcceptCandidate(j) ==
  /\ task[j] = "finalize" /\ Goes(j, "finished", "accepted")
  /\ SameManifest(temp[j], seen[j]) /\ seen' = [seen EXCEPT ![j] = <<>>]
  /\ UNCHANGED <<world, published, task, draft, temp, claim, pinned, earlier>>

\* os.replace.
Publish(j) ==
  /\ Goes(j, "accepted", "idle")
  /\ published' = temp[j] /\ temp' = [temp EXCEPT ![j] = Absent]
  /\ UNCHANGED <<world, task, draft, seen, claim, pinned, earlier>>
-----------------------------------------------------------------------------
(***************************************************************************)
(* run_research_verify, in the mode "final".                               *)
(***************************************************************************)
Verify(j) ==
  /\ Begins(j, "verify") /\ pc' = [pc EXCEPT ![j] = "assets"]
  /\ pinned' = [pinned EXCEPT ![j] = disk.graph]
  /\ earlier' = [earlier EXCEPT ![j] = published] /\ claim' = [claim EXCEPT ![j] = Absent]
  /\ UNCHANGED <<world, published, draft, temp, seen>>

\* The asset worker reads the graph again and again, and what for (_run_asset_checks).
AssetReads == <<"parity", "validation", "data_sha256", "digest">>

WorkerReads(j) ==
  /\ pc[j] = "assets" /\ Len(draft[j]) < Len(AssetReads)
  /\ draft' = [draft EXCEPT ![j] = Append(@, disk.graph)]
  /\ UNCHANGED <<world, published, task, pc, temp, seen, claim, pinned, earlier>>

\* assert_graph_isomorphic: the graph is the one that the generator makes.
Isomorphic(reads, version) == reads[1] = version
\* build_validation_metadata: what must conform does, what must not does not.
MatrixHolds(reads) == reads[2] \in Conforming
\* _validated_metadata: the bytes of the matrix are the pinned ones, and there still.
RowsFresh(reads, version) == reads[4] = reads[3] /\ reads[4] = version

\* The worker reports success, and the benchmark is started.
AssetsHold(j) ==
  /\ Len(draft[j]) = Len(AssetReads) /\ Goes(j, "assets", "benchmark")
  /\ Isomorphic(draft[j], pinned[j]) /\ MatrixHolds(draft[j]) /\ RowsFresh(draft[j], pinned[j])
  /\ draft' = [draft EXCEPT ![j] = <<>>]
  /\ UNCHANGED <<world, published, task, temp, seen, claim, pinned, earlier>>

LoadPublished(j) ==
  /\ task[j] = "verify" /\ Goes(j, "finished", "loaded")
  /\ published \notin {Absent, Half} /\ claim' = [claim EXCEPT ![j] = published]
  /\ UNCHANGED <<world, published, task, draft, temp, seen, pinned, earlier>>

\* compare_result_artifacts: the manifest of either artifact against the repository.
ComparesManifest(j) == pc[j] \in {"loaded", "recorded"} /\ BuildsManifest(j)

RecordedManifestHolds(j) ==
  /\ Goes(j, "loaded", "recorded")
  /\ SameManifest(claim[j], seen[j]) /\ seen' = [seen EXCEPT ![j] = <<>>]
  /\ UNCHANGED <<world, published, task, draft, temp, claim, pinned, earlier>>

\* The faulty variant compares the manifests and not the results.
SameManifests(a, b) == Manifest(a) = Manifest(b)
\* Everything but the environment.
SameContent(a, b) == a = b

Pass(j) ==
  /\ Goes(j, "recorded", "passed")
  /\ SameManifest(temp[j], seen[j]) /\ SameContent(claim[j], temp[j])
  /\ seen' = [seen EXCEPT ![j] = <<>>] /\ temp' = [temp EXCEPT ![j] = Absent]
  /\ UNCHANGED <<world, published, task, draft, claim, pinned, earlier>>
-----------------------------------------------------------------------------
Child(j)     == ChildReads(j) \/ ChildTruncates(j) \/ ChildWrites(j) \/ Fails(j)
Finalizer(j) == Finalize(j) \/ ManifestAgain(j) \/ AcceptCandidate(j) \/ Publish(j)
Verifier(j)  == Verify(j) \/ WorkerReads(j) \/ AssetsHold(j) \/ LoadPublished(j) \/ ComparesManifest(j)
                \/ RecordedManifestHolds(j) \/ Pass(j)
Change       == (Migrate \/ EditGraph) /\ moments' = moments \cup {disk'} /\ UNCHANGED jobs

Next == Change \/ \E j \in Jobs : Child(j) \/ Finalizer(j) \/ Verifier(j)
Spec == Init /\ [][Next]_vars
-----------------------------------------------------------------------------
\* Whoever reads the published artifact reads all of one: no run that fails or dies, in
\* whichever step, leaves half of one there (write_result_artifact is not atomic).
PublishedWhole == published # Half

\* The manifest of the published artifact is one state the inputs have been in, although
\* it was built file by file while they were changed (finalize_research_artifact).
PublishedWasOnDisk ==
  published \notin {Absent, Half} =>
     \E moment \in moments : Manifest(published) = [i \in 1 .. Len(Covered) |-> moment[Covered[i]]]

\* The results of an artifact are those of the bytes that its manifest names.
Reproducible(artifact) ==
  \A i, k \in 1 .. Len(Reads) : Reads[i][1] = Reads[k][1] => artifact[i] = artifact[k]

\* A verification that passes tells the truth: the artifact it was asked about has the results
\* of its inputs, and its graph meets the shapes, even if an input was edited while the
\* artifact was made, which the finalizer does not notice (compare_result_artifacts).
VerifiedReproducible ==
  \A j \in Jobs : pc[j] = "passed" /\ claim[j] = earlier[j] =>
     Reproducible(claim[j]) /\ claim[j][1] \in Conforming
=============================================================================
