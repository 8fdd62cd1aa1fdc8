# A verification project for the semantic layer

The repository (`src/`) is a reference implementation of a governed semantic
layer: a question is resolved against a registry of reviewed assets, planned,
authorized, executed on quality-checked local data, and answered with signed
evidence. Beside it stands a research prototype (AQR) that answers questions
over a synthetic knowledge graph with a bounded, fully logged repair loop.

This directory holds TLA+ models of the parts where order, concurrency, failure
or a long sequence of legal steps decides whether the program is right, the TLC
configurations that check them, and TLAPS proofs of what matters most.

Paths below are relative to `src/src/semantic_layer/`.

## 1. Inventory

| Component | Keeps | Operations | Talks to | What is hard | What makes it correct |
|---|---|---|---|---|---|
| Provenance store, `provenance/store.py` | a SQLite file: rows of a hash chain, one signed checkpoint; a process-local lock | constructor, `record`, `get` | signing authority; called by the workflow from worker threads | several threads and processes, crash between statements, busy file, edits from outside | the chain always verifies; what was returned is durable; a failed call leaves nothing; edits are detected |
| Signing authority, `control.py` | one cached key per process | `_sign`, `_verify`, `digest` | everything that issues a capability | restart with another key; first use by two threads | a chain keeps the key that sealed it; a capability of the process verifies in it |
| Governed workflow, `agents/workflow.py`, `agents/tools.py` | the store and the registry; per request the stage it is in | `answer`, read-only tools | all of the governed components, in order | many requests at once, a stage that refuses or fails late, a crash after commit | no answer without evidence; no trace of a refused request |
| Quality validation, `quality/checks.py` | nothing; issues a report holding copies of the files | `validate_curated_data`, `_matches`, `_source_bytes` | the curated CSV files | the files change while they are read one at a time | a result is computed from one state of the disk, all of it validated |
| DuckDB adapter, `adapters/duckdb.py` | nothing | `execute` | the report, the files, DuckDB | files changing between check and use | same |
| Data generator, `data_generation.py` | the CSV files | `generate_demo_data` | the file system | truncate and write are two steps; dies half way | readers never take a truncated file for data |
| Access policy, `governance/policy.py` | nothing | `authorize_discovery`, `authorize` | registry, planner | two procedures that must agree | what discovery allows the plan check allows, and neither allows more |
| Compiler, `compiler/` | nothing | `compile` | plan, decision, registry | a capability used with another plan, or after an edit | rows are within the caller's scope and answer the question recorded with them |
| Business planner, `query_planner/service.py` | nothing | `discover_question`, `build_plan` | registry | look-ups that search the whole text | a plan selects what its discovery selected; bounds as asked |
| Registry, `registry/service.py`, `models.py` | the reviewed assets, immutable once loaded | load and validate, look-ups, `relationship_path` | asset files | references between assets | no dangling reference is served |
| Reflective agent, `reasoning/reflective_agent.py` | per run: ledger, counters, current plan and query | `run` | linker, planner, compiler, knowledge graph | a loop with repairs and relaxations under one budget, errors in any order | bounded; strict answers answer the request; the ledger is the whole story |
| Prerequisite traversal, `reasoning/query_planner.py` | per call: distances, a depth-first stack | `evaluate_prerequisite_traversal` | the RDF graph | cycles, shared nodes, the depth limit | shortest distances; a cycle is reported iff there is one |
| Grounding and SPARQL compiler, `reasoning/schema_linker.py`, `reasoning/text_to_sparql.py` | nothing | `ground_or_abstain`, `compile` | -- | text matching | abstains rather than guesses |
| Knowledge graph, `kg/loader.py` | an RDF graph | `query_sparql` | RDFLib | -- | -- |
| Benchmark runner, `research/`, and publication, `validation.py` | an artifact file | `run`, `finalize_research_artifact`, `run_research_verify` | agent, corpora, repository files, a child process | files that change during a run, a crash while writing | a published artifact is whole and of one state of the repository; one that passes verification has the results of the bytes it names |
| Migration script, `scripts/migrate_benchmark_v1.py` | the corpora, a signed manifest | `migrate_benchmark`, `validate_migration_manifest` | graph, corpora | three files replaced one after the other; a closure of its own | the manifest signs nothing the corpora do not hold; its closures are the traversal's |
| API and CLI, `api/app.py`, `cli.py` | one agent per process | routes and commands | the workflow | worker threads | (through the workflow and the store) |
| Resolver, lineage, `resolver/`, `lineage/` | nothing | look-ups | registry | -- | -- |
| Legacy evaluation, SQLite and cloud adapters, SHACL validation, demos, graph generator | nothing that outlives a call | -- | -- | -- | -- |

Interaction in one line: `API/CLI -> answer -> resolve, discover, authorize,
plan, authorize, validate, compile, execute -> record -> answer`; and
`benchmark -> run -> ground, plan, compile, (query, repair | relax)* -> result`.

Everything in this code that is hard to test is listed with its line under
`hazards` in `PROJECT.json`, with the properties that would catch it.

## 2. What is modelled

### `ProvenanceLog`, `ProvenanceStore`: the provenance store

`ProvenanceLog` is what the store promises: one append-only log of identifiers;
`record` returns only what is in the log; `get` answers with the document
logged under the identifier asked for.

`ProvenanceStore` is `provenance/store.py`. `rows` and `checkpoint` are the two
tables as committed, `writer` and `tx` the SQLite write lock and the image its
holder has not committed, `lock` the `RLock` of each process, `pc`, `call` and
`seen` the local state of each thread's call. One action is one SQL statement:
outside a transaction each SELECT reads its own snapshot, the first write
statement takes the write lock, COMMIT publishes both tables at once, and a
crash undoes an open transaction. `__init__` is `Open...`/`Seal`, `record` and
`get` are `Enter` .. `ReturnRecord`/`SelectRow`; every `raise` is an action of
its own that leaves through `Raise`. Failing statements (`StatementFails`,
`BusyTimeout`, `SequenceTaken`, `OpenFails`), crashes and restarts are actions.
`Damage` edits the file from outside the way the unit tests do: a row deleted,
a document altered, one signed document copied under another identifier, the
tail cut off with the checkpoint wound back.

Cryptography is ideal: a signature is the pair of key and content, a hash is
the history it hashes. The columns are abstracted to what `_verify_chain`
compares. uuid4 is a fresh number.

### `RepairLoop`: the AQR repair loop

`reasoning/reflective_agent.py`, `run` and `_run_relaxation`. A query is what
the loop can change: the support-package bound, the component, the declared
prefixes. `operations`, `attempts`, `repairs`, `outcome`, `strict`, `relaxed`
and `recovery` are the local variables of `run`; `asked` is a history of what
the knowledge graph was sent. The graph may answer each query with rows, none,
or an error of either class whose diagnostic names any alias. The compiler may
declare any of a set of prefix sets: the shipped one declares all, so with it
every repair is a no-op; the tests use others.

The branch of `_run_relaxation` that logs a relaxation changing nothing cannot
be reached (each relaxation it tries has a filter to change) and is left out.

### `GovernedWorkflow`: requests, files and evidence

`agents/workflow.py` `answer` for several requests, the reading of the curated
files by `quality/checks.py` and `adapters/duckdb.py`, and the rewriting of
those files by `data_generation.py`. `pc` is a request's stage. The stages
before the data depend on the question and the caller alone, so a request
carries the name of the stage that refuses it, or `"none"`. `copies` are the
bytes the quality report holds; `ReadFile` takes them one file at a time;
`CompareFile` is one file of the comparison in `_matches` (pc `match`) and of
`_source_digests` (pc `digest`); `Execute` runs on the copies. The generator
truncates and writes one file after the other, and may die anywhere. What a run
writes depends on its date alone, so contents can come back. `SoundDates` are
the dates whose files pass the validation. The store is
`Store == INSTANCE ProvenanceLog`, whose implementation is `ProvenanceStore`.
Two histories serve `SnapshotWasOnDisk` alone: `sights`, the disk states seen
while a request reads, and `recurred`, whether a file went back meanwhile to
contents it had had (`WitnessReturn`).

Files are small enough to be written in one flush, so a reader sees a file
absent, empty or whole.

### `PrerequisiteTraversal`: reachable prerequisites and their cycles

`reasoning/query_planner.py`, `evaluate_prerequisite_traversal` and
`_detect_prerequisite_cycles`. `distances`, `discovery_order`, `frontier` are
the local variables of the breadth-first search, `visited`, `stack`,
`edge_path`, `cycle_edge_set` those of the depth-first one. One action is one
round of an inner loop: a node taken (`TakeNode`, `Backtrack`), a neighbour
discovered, skipped, descended into, or closing a cycle. `active_nodes` and
`active_positions` are pushed and popped together with the stack, so they are
operators on it (`Active`, `Place`). `cycle_edges` is kept as a set: its order
follows from the sorted neighbours and nothing depends on it. Notes are numbers
in the order of their identifiers, which is the order `sorted` gives, and there
are finitely many, since the graph is in memory. `Listed` is the comprehension
that makes `reachable_unique`, note by note. The two
searches share nothing but the graph; in the code the second starts when the
first has ended, and `pc` says so.

A prerequisite question uses neither search: the plan compiles a union of
property paths of lengths 1 to `MAX_PREREQUISITE_DEPTH`, orders the rows and
cuts them at 25 (`QueryRows`). The migration script has a third search, which
derives the gold notes of the corpora (`Rounds`, `MigrationClosure`): rounds of
neighbours up to the depth bound, and `for ... else` raises (`MigrationRefuses`).
The script then compares the closure with what its SPARQL query returns, and the
numbers of the notes with their format; both tests are left out: they can only
make it refuse more.
The module holds all three, to relate them.

### `SemanticRegistry`, `AccessPolicy`, `GovernedPlanning`: from question to rows

`SemanticRegistry` is `registry/service.py`, `resolver/service.py` and
`lineage/service.py` as operators on a record of the reviewed assets: the
products offered for an entity (`certified_products_for`, then those of its grain),
the products a plan needs, relationship paths, terms, lineage. `ReferencesResolve`
is the validation a loaded registry has passed, kind of asset by kind of asset; the
instance assumes it of every registry it uses.

`AccessPolicy` is `governance/policy.py`: `DiscoveryReason` and `PlanReason` are
the two procedures, test by test in the order of the code. The code writes the
rules down twice and so does the module; `WithinScope` says positively what both
are for.

`GovernedPlanning` is `query_planner/service.py`, `agents/tools.py`,
`compiler/duckdb.py` and the signing authority of `control.py`. A client holds
the latest discovery, permit, plan, grant, query and answer, and may call any
tool with them: `Discover`, `AuthorizeDiscovery`, `BuildPlan`, `Authorize`,
`Compile`, `Execute`. A capability is a record of what it is bound to: the
decision, the discovery or plan, the registry's value (its digest), and the key
that signed it. `CopyPlan` and `EditRegistry` are what the unit tests do between
two calls (`with_country`, `model_copy`, an asset changed in place); the source
itself never changes a loaded registry. A call that raises changes nothing and
is no step.

The signing authority is behind `lru_cache`, which does not lock: a client that
finds the cache empty makes an authority of its own (`MakeAuthority`), and what
it signs in that call carries that key even when another client's authority is
the one that stays cached. `OpenStore` is `ProvenanceStore.__init__` as far as it
takes part in this: a new file is sealed with the cached authority. A server
opens the store before it serves anybody (`Serving`), and that order is what
keeps the race harmless.

A question is what the grammar reads in it: country, product term, intent, the
words of its bounds. `CountOperator` and `LossNumber` are the look-ups of the
planner, which search the whole text.

### `CorpusMigration`, `ResultPublication`: corpora and published results

`CorpusMigration` is `scripts/migrate_benchmark_v1.py`: the hash taken at import
(`Import`), the closures derived (`Derive`), derived again by
`validate_migration_manifest` (`Validate`), the last tests (`Recheck`), and the
three replacements in `WriteOrder`, each atomic (`Replace`). It may die between
any two (`Abandon`), and the graph may change under it (`EditGraph`). The graph
is known by its version, a corpus by the version of the closures it holds; the
historical corpus is pinned by its digest and does not change.

`ResultPublication` extends it with the benchmark and the two entry points of
`validation.py`. An artifact is the sequence of what the benchmark read, in the
order of the code (`Reads`): the graph and both corpora for the results, again
for the hashes it records, again for the manifest. `Finalize` .. `Publish` is
`finalize_research_artifact`: child process, manifest built again file by file,
comparison, `os.replace`. `Verify` .. `Pass` is `run_research_verify` in the mode
"final": the asset worker (parity, shapes, data hash, digest), a benchmark, the
published artifact loaded, both manifests and the contents compared. `Fails` is
any test that fails, or the death of parent or child, at any step.

`graph` stands for the validation assets, their generator and the pinned digests,
which are committed together; the environment is the same everywhere. Versions
never go back: whoever edits commits something new.

## 3. Runs

| Run | Asks | Bounds, and why they are enough |
|---|---|---|
| `provenance_threads` | Two threads of one process and a second process: `TypeOK`, `FailedLeavesNothing`, `CallsReturn` | 3 calls, 2 starts: a thread waits for the lock that the other holds while that one waits for the write lock of the second process, gets it or gives up; a failed call and the next call's commit; with the second process not started, a crash and a restart of the first |
| `provenance_processes` | Two processes on one file: `ChainVerifies`, `AckedDurable`, `KeyNeverTakesOver`, `ImplementsLog` | 3 calls, 3 starts, key configured or drawn: both race to seal and to append, one restarts with another key |
| `provenance_damage` | One process, two threads, edits from outside: `DamageStopsCalls`, `ReadsFaithful`, `NoFalseAlarm` | 4 calls, 2 edits: two rows to exchange, and edits before and between the statements of a read |
| `provenance_false_alarm` | Violation of `NoFalseAlarm` with two processes | see findings |
| `repair_loop` | `TypeOK`, `BudgetKept`, `StrictAnswersRequest`, `RelaxationsAccumulate`, `LedgerComplete`, `OutcomeMatchesLedger`, `Terminates` | 3 prefixes; `max_repairs` 0 .. 4 on both sides of `MAX_REPAIRS = 3`; nothing else is bounded |
| `workflow` | `AnswersEvidenced`, `RefusedLeavesNothing`, `UsesLog` | 2 requests, every refusal, one file rewritten once with a sound or an unsound date |
| `workflow_rewrites` | `TypeOK`, `RowsFromSoundBytes`, `SnapshotWasOnDisk`, `RequestsEnd` | 1 request (requests share no state but the files), 3 files in the orders of the code, 2 rewritings with 2 dates, so contents recur |
| `prerequisite_graphs` | `TypeOK`, `SearchComplete`, `CycleEdgesOnCycles`, `EveryCycleHit`, `EvidenceExact`, `QueryAgrees`, `MigrationAgrees`, `Ends` | every graph of up to 6 edges over 4 notes (self-loops, cycles that share edges, diamonds) and every layered graph over 5 (a search in another order first gets a distance wrong there); limits below zero, 1 and 2 against paths of 1, 2 and longer; 2 rows, fewer than can be reached |
| `prerequisite_question` | Violation of `QueryReportsDepth` | see findings |
| `planning` | `GenuineAccepted`, `AnswersWithinScope`, `AnswersTheQuestion`, `PermitImpliesGrant` | The assets of the repository; 2 clients, so that both find the cache empty; one asks about two countries with a role for one and changes its plans, the other asks what no role may see; one edit of the registry out of three (classification, quality, rules); store new or sealed earlier, key configured or drawn |
| `planning_bounds` | Violation of `BoundsAsAsked` | see findings |
| `publication` | `PublishedWhole`, `PublishedWasOnDisk`, `VerifiedReproducible`, `SignedNotAhead` | One job that finalizes and verifies again and again (two jobs exceed 18 million states; the theorems cover any number), 3 versions of the graph, 2 of its closures, one version too deep and one that does not conform; migrations without a bound |

Deadlock is checked in `publication` only, whose jobs can always begin again.
Elsewhere (`CHECK_DEADLOCK FALSE`) the system stops when the bounds are used up,
the run is done, or, in `planning`, an edit of the registry has left nothing that
is not refused. That calls, runs, requests and traversals do end is `CallsReturn`, `Terminates`, `RequestsEnd` and `Ends`.

`SnapshotWasOnDisk` is the property least evident from the code: the copies are
taken one file at a time under a generator that rewrites them one at a time, and
yet they are one state the disk was in. Comparing every copy with its file after
the last copy was taken is what makes it so: a file whose copy was still right
then has not changed since it was read, unless it changed and changed back. That
is why the property excepts a request during which contents recurred. The
exception matters only far beyond any real run: with two files and two dates the
shortest mixture TLC found takes seven generator runs, each dying in a chosen
place, while one request reads; with up to six runs of two files the property
holds without it.

### Findings

* `provenance_false_alarm`: `_verify_chain` reads the checkpoint and the rows in
  two transactions. With a second process committing between them it raises
  "provenance chain checkpoint does not match stored rows" for an intact file.
  One process is not affected (`provenance_damage` checks the same property).
* `prerequisite_question`: section 26.6 of the hardening design says that the
  compiled union returns EMPTY_RESULT / PREREQUISITE_DEPTH_EXCEEDED when a
  prerequisite is more than 16 steps away. The query returns the notes within
  16 steps and the agent reports SUCCESS; only `evaluate_prerequisite_traversal`
  reports the depth, and the agent does not call it.

* `planning_bounds`: the operator of the count is ">" whenever "over" occurs
  anywhere in the question, and it occurs in "cover": "automotive cover ... at
  least three" is answered for more than three (`query_planner/service.py:255`).
  In the same text search, the loss is compared with the first number after
  "over", so "over 3 postings ..." compares it with 3.

Three more things are true of the code and contradict nothing it promises:
`GRAPH_SHA256` is taken when the migration script is imported and its closures
when it runs, so a manifest may sign the hash of another graph; and an artifact
may be published whose results are of other bytes than its manifest names (an
input edited between the two reads), which only a verification finds out
(`VerifiedReproducible`). And
`DamageStopsCalls`, like `NoFalseAlarm`, is a property of one process. With a
second one, a row that is appended and then deleted between the two reads of
`_verify_chain` passes that one verification; and if the other process had read
the head before the append, its own record takes the freed number and the loss
is not noticed later either, since the UPDATE of the checkpoint does not ask what
it replaces. TLC shows both with two calls or three and one edit.

### Fairness

`ProvenanceStore`: weak fairness of each thread's steps. A worker thread that
can run is scheduled; a wait for SQLite's write lock ends by getting it or by
`BusyTimeout`. Nobody has to call, start, crash or fail. `RepairLoop`: weak
fairness of `Next`: `run` is one sequential call and each query returns or
raises. `GovernedWorkflow`: weak fairness of each request's own steps; the
generator, failures and crashes owe nothing. `PrerequisiteTraversal`: weak
fairness of `Next`, one sequential call. The specifications of `GovernedPlanning`,
`CorpusMigration` and `ResultPublication` state none: nothing there has to happen.

## 4. Proofs

`ProvenanceStoreProofs` proves, for any number of processes, threads, calls,
starts and edits, from the assumptions on the constants alone:

* `TypeCorrect`: `Spec => []TypeOK`. `TypeOK` is not inductive: a thread past
  `Enter` must hold its process's lock, and a thread between INSERT and COMMIT
  must be the process holding the write lock (`LockInv`), or COMMIT would
  publish somebody else's image.
* `ChainAlwaysVerifies`: `Spec => []ChainVerifies`. The invariant `ChainInv`
  says that the committed image verifies under one key, that the open
  transaction's image extends it by exactly the row its writer built, and that a
  writer that has inserted has read the head the UNIQUE constraint lets it
  extend. The step lemmas (`InsertStep`, `UpdateStep`, `CommitStep`,
  `ReadHeadStep`) rest on `ChainGrows`: a verifying chain followed by a row
  built from its head verifies.
* `AckedAlwaysDurable` and `FailedAlwaysLeavesNothing`, from `IdsInv`: two
  calls never record one identifier; that of a call under way is neither failed
  nor in the file before its commit (`CallInv`); and the uncommitted image
  holds no identifier besides those of the file and of the one call that writes
  (`ImageInv`), so that nothing of a failed call can ride in with a later commit.
* `ReadsAlwaysFaithful`, from `SignInv`: every signature in the file or the open
  image signs a document as it was written. An edit can move a signature, not
  make one, and `get` tests the identifier inside the signed document.
* `KeyNeverChangesHands`, from `KeyInv`: what a call that is about to write read
  some steps before was signed with its own key, and whatever was committed since
  kept that key; a process that seals still finds no checkpoint.
* `AlwaysImplementsLog`: `MaxDamage = 0` gives `Spec => ImplementsLog`. The rows
  of a verifying chain have the numbers 1 .. n once each (`CountedIsNumbered`, by
  counting), so they are a sequence, and a commit appends to it (`LogGrows`,
  `CommitExtends`); that a returned or answered identifier is in it comes from
  `IdsInv` and `SignInv`.
* `DamageAlwaysStopsCalls` and `FalseAlarmNeedsTwo`, for one process
  (`SingleProcess`) with any number of threads, calls and edits, from `SoloInv`:
  the checkpoint a call has read is signed like the one in the file; and on an
  edited file fewer identifiers have their document anywhere (`Kept`) than the
  last signature counts. Each edit loses one row's document and brings in none
  that was not there (`EditLoses`); the first one makes the number smaller than
  the count (`KeptAtMost`), an append adds one to both (`CommitSolo`), and a file
  that passes has as many as it counts (`KeptAtLeast`, `EditedNeverMatches`): no
  sequence of edits undoes another.
* `CallsRunOut`, the safety half of `CallsReturn`, for any number of processes,
  threads and crashes: a call under way can take its next step, or it stands
  before the lock of its process and the thread that holds the lock can
  (`HolderInv`: a held lock is held by a thread of that process inside a call, so
  nobody waits for a waiter or for a call that is over). Each step leaves a call
  fewer steps, a failing statement included, and what other threads and processes
  do adds none.

`RepairLoopProofs` proves, for any allowlist, set of compilers and budgets, and
whatever the knowledge graph answers:

* `TypeCorrect`: `Spec => []TypeOK`. Inductive with `LedgerInv`: a second
  execution follows an error, a relaxation follows a first entry.
* `BudgetAlwaysKept`, `StrictAlwaysAnswersRequest`, `RelaxationsAlwaysAccumulate`,
  from one invariant, `LoopInv`: queries sent and entries logged count the
  repairs and relaxations made (`CountInv`); the query in hand is the request
  with exactly those relaxations applied (`QueryInv`); nothing is answered before
  the end (`UnansweredInv`); nothing sent was looser than the query in hand
  (`AskedInv`, with `Tighter`). None of the three is inductive alone: a strict
  answer is right only because a query that is executed without relaxations is
  still the requested one, which its count of relaxations says. `NextCount`,
  `NextQuery`, `NextAnswer` and `NextAsked` take the actions one by one.
* `OutcomeAlwaysMatchesLedger`, from `OutcomeInv`: while the loop executes and
  repairs, every entry of the ledger ends in an error, the last one in the error
  under repair; relaxations only begin after an empty result.
* `LedgerAlwaysComplete`, from `StoryInv`: each query sent stands in the ledger at
  its place, as executed, each entry begins where the one before ended, and the
  counters of the loop are the number of queries sent.
* `StepsRunOut`, the safety half of `Terminates`: twice the budget that is left
  and the way to the end of the stage is a natural number, every step makes it
  smaller, it is zero exactly when the run is done, and until then there is a
  step. It rests on `CountInv`, which bounds what has been spent.

`GovernedWorkflowProofs` proves, for any requests, files, dates and generator runs:

* `TypeCorrect`, `AnswersAlwaysEvidenced`, `RefusedAlwaysLeavesNothing`,
  `RowsAlwaysFromSoundBytes` and `SnapshotAlwaysWasOnDisk` from one invariant,
  `WorkflowInv`, which says of each request what its stage lets one conclude:
  which gates it has passed and that the gate that refuses it is not among them
  (`GateInv`), that what it has computed and recorded are its copies
  (`ResultInv`), and where its copies come from (`MomentInv`). The moment is the
  end of the validation: every file then held its copy, or has changed since it
  was copied; a comparison that succeeds rules the second out, unless the file
  came back to what it was, which is `recurred`.
* `AlwaysUsesLog`: `Spec => UsesLog`, the refinement of the log's use; each step
  is one of the log's or leaves it alone.
* `RequestsRunOut`, the safety half of `RequestsEnd`: a request that is served has
  a step to take (`Ready`), which leaves it fewer (`Left`), and no rewriting, crash
  or other request adds one. In particular the store can always take its evidence:
  only requests past `Record` are logged (`LoggedInv`). The comparisons of a file
  end whether or not it has changed, so a generator that never rests holds nobody up.

`PrerequisiteTraversalProofs` proves, for any finite set of notes, graph, target and
depth limit:

* `TypeCorrect`: `Spec => []TypeOK`, inductive as it stands.
* `SearchAlwaysComplete`: the search ends knowing exactly what can be reached.
  `SearchInv`: what is known can be reached, and a note that has left the
  frontier has only known neighbours, those still pending aside; with nothing
  pending what is known is closed, and the least closed set is what can be
  reached.
* `CycleEdgesAlwaysOnCycles` and `EveryCycleAlwaysHit`, from three invariants:
  the stack is a path of distinct notes whose edges are `edge_path` (`PathInv`);
  listed edges are on cycles (`ListedInv`); and every edge already looked at is
  listed, leads to a finished note, or is the stack's next one, while finished
  notes have no unlisted cycle and no unlisted edge leaves them (`FinishInv`). A
  note finishes when its unlisted edges all lead to finished notes, and a set
  stays acyclic when such a note joins it (`AcyclicGrows`).

`PrerequisiteEvidenceProofs` proves, for the same, what the evidence says and that
the three searches agree:

* `EvidenceAlwaysExact`: the notes listed are those within the limit, once each,
  nearest first, at their shortest distance; the list is truncated exactly if one
  is further; a cycle is reported exactly if there is one. `SearchInv` says nothing
  of distances, so `EvidenceInv` adds four parts: a distance is the length of a walk
  (`WalkInv`); the frontier is sorted by distance and spans at most one more than
  the node in hand (`WaveInv`), without which a note could be met by a longer way
  first; an edge looked at leads at most one further (`RelaxedInv`), so at the end
  no walk is shorter (`WalksNoShorter`); and the order of discovery is that of the
  distances (`OrderInv`).
* `QueryAlwaysAgrees` and `MigrationAlwaysAgrees`, from `DistanceExact` and two facts
  about the other searches: the property paths of up to d edges give the notes at
  distance up to d (`WithinIsNear`), and d rounds of neighbours give the same
  (`RoundsWithin`); a round that finds nothing new ends them all (`EmptyRound`).

Walks, rounds and lists are recursive functions, and the library's induction takes a
predicate as a parameter. `LeastNumber` goes around that: the library states of
well-founded relations that a set has a minimal element, sets are no operators, and
a property of numbers is a set of numbers. `Induction` and `Recursion` (a recurrence
has a solution) follow, and from them the equation of each recursive function
(`WalksEquation`, `RoundsEquation`, `ListedEquation`). Where no distance is involved,
what can be reached is defined by closed sets, and no argument is an induction.

`PrerequisiteEndingProofs` proves `StepsRunOut`, the safety half of `Ends`: a note
enters the frontier once and the stack once, and brings with it as many neighbours
as there are notes at most; the number this gives (`Rank`) becomes smaller with
every step, and until the evidence is there, or the call is rejected, there is a
step. Cycles keep neither search going, whatever the graph.

`GovernedPlanningProofs` proves, for any clients, questions, registries and edits:

* `AnswersAlwaysWithinScope`, `AnswersAlwaysTheQuestion`,
  `PermitAlwaysImpliesGrant`, from `DecisionInv`: a permit, grant or query says
  what the decision procedures said of the registry it is bound to (`PermitInv`,
  `GrantInv`, `QueryInv`). `AllowedWithinScope` shows that a plan the procedure
  lets pass is in scope, `PermitAgrees` that the two procedures agree on a plan
  built from its discovery, `PlanOfQuestion` that a plan the question resolves to
  has its country, product and metrics.
* `CapabilitiesAlwaysGenuine`, from `KeyInv`: nobody is served, and no key is
  made, before the store is open (`KeysInv`); and a store this process sealed
  with a drawn key was sealed by the authority that is cached, with which every
  capability was signed, since with a full cache nobody makes another one
  (`SealedInv`).

`ResultPublicationProofs` proves, for any number of jobs, versions, edits and
migrations:

* `SignedNeverAhead`, from `MigrationInv`: while a migration writes, the files it
  has replaced hold what is pending, and what is pending is neither behind the
  corpora nor ahead of the graph (`PendingInv`).
* `PublishedAlwaysWhole`, `PublishedAlwaysWasOnDisk`, `VerifiedAlwaysReproducible`,
  from `PublicationInv`. The inputs only move forward (`MigrationStep` proves
  `Before(disk, disk')`), so what was read is bounded by the disk (`IsDraft`).
  There is a moment between the artifact's own reads for its manifest and those
  of the second manifest (`Around`, `SeenAfter`); if the two agree, each input
  had the recorded value at that moment (`SameManifestOnDisk`). An artifact that
  was published before a verification began bounds all its benchmark reads from
  below (`Follows`); if the two are equal, every read of one input agrees
  (`SameTwice`), and the graph is the version whose shapes the worker checked.

Every safety property of a passing run is a theorem. What stays with TLC is
liveness (`CallsReturn`, `Terminates`, `RequestsEnd`, `Ends`): that fairness turns
"there is a step, and steps run out" into an end involves ENABLED, which the
prover does not handle. The other half of each of the four, that there is a step
and that steps run out, is a theorem. One more thing is left to TLC's instances:
that the waiting threads of the store are each let in, which `CallsReturn` checks
and `CallsRunOut`, a statement about the thread that can step, does not say.

## 5. Plan

1. (done) `ProvenanceLog`, `ProvenanceStore`, `RepairLoop`, `GovernedWorkflow`;
   types and chain integrity of the store, types, budget and answers of the loop
   proved.
2. (done) `PrerequisiteTraversal`, and its invariants proved, those about distances
   and the agreement of the three searches included.
3. (done) `SemanticRegistry`, `AccessPolicy`, `GovernedPlanning` with the signing
   authority; all four of its invariants proved.
4. (done) `CorpusMigration`, `ResultPublication`; all four of its invariants proved.
5. Grounding (`schema_linker.py`) and the projection validation of the SPARQL
   compiler.
6. (done) All safety properties of the store and its refinement, the whole
   ledger of the loop, and the workflow proved.
7. (done) That calls, runs, requests and searches run out of steps and are never
   without one, for every instance.

## 6. Not modelled

Text (the wording of questions beyond the look-ups of the planner, the SPARQL
templates and SQL strings, diagnostics), the evaluation of queries by DuckDB and
RDFLib, the loading of YAML, the rows of the CSV files, the scores of a benchmark
(functions of what it reads), the scans of the repository for secrets and
placeholders, SHACL, demos and scripts that only print. The legacy evaluation
runner is a sequential report without state. The API's routes add no state of
their own. The cloud compiler and adapter always raise.
