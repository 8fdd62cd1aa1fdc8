-------------------------- MODULE GovernedWorkflow --------------------------
(***************************************************************************)
(* agents/workflow.py and agents/tools.py: requests served by one agent    *)
(* while the curated CSV files are rewritten by data_generation.py.        *)
(*                                                                         *)
(* A request passes the governed stages in order.  Those before the data   *)
(* is touched (resolve, discover, authorize, plan, authorize again) depend *)
(* on the question and the caller alone, so a request carries the name of  *)
(* the stage that refuses it, if one does.  The stages that read the files *)
(* read them one at a time: quality/checks.py takes a copy of each, and    *)
(* adapters/duckdb.py compares the copies with the files again, twice,     *)
(* before it runs the query on the copies.                                 *)
(*                                                                         *)
(* The provenance store is the abstract log of ProvenanceLog, which        *)
(* ProvenanceStore implements.                                             *)
(***************************************************************************)
EXTENDS Naturals, Sequences

CONSTANTS Requests,     \* calls of answer()
          ReadOrder,    \* the curated files as quality and adapter go through them
          WriteOrder,   \* the same files as the generator writes them
          Absent, Empty,\* contents of a missing file and of one just truncated
          NoData,       \* no copy, no rows
          Refusals,     \* where a request may be refused ("none": nowhere)
          Dates,        \* values of the generator's argument as_of, which decides what it writes
          SoundDates,   \* those whose files pass the validation (no date in the future)
          MaxRewrites   \* bound: generator runs in a behaviour

Range(s) == {s[i] : i \in 1 .. Len(s)}
Files    == Range(ReadOrder)

ASSUME OrderAssumption == /\ ReadOrder \in Seq(Files) /\ WriteOrder \in Seq(Files)
                          /\ ReadOrder # <<>> /\ Range(WriteOrder) = Files
                          /\ Len(WriteOrder) = Len(ReadOrder)
ASSUME RewritesAssumption == MaxRewrites \in Nat
ASSUME DatesAssumption == SoundDates \subseteq Dates /\ {Absent, Empty, NoData} \cap Dates = {}
ASSUME NoDataAssumption == NoData \notin [Files -> Dates]
ASSUME RefusalsAssumption ==
  "none" \in Refusals /\ Refusals \subseteq
    {"resolve", "discover", "authorize_discovery", "plan", "authorize", "compile", "execute", "none"}

VARIABLES disk,         \* content of each curated file
          runs,         \* generator runs so far
          writing,      \* the generator: next file, whether it is truncated, its as_of
          pc,           \* per request: its stage
          refusal,      \* per request: the stage that refuses it, or "none"
          copies,       \* per request: the validated copies, QualityReport._source_snapshots
          position,     \* per request: files gone through in the present pass
          rows,         \* per request: the contents its result was computed from
          evidence,     \* per request: source contents named by its provenance row
          log, acked,   \* the provenance store (ProvenanceLog)
          sights,       \* history, per request: the disks seen since it began to read
          recurred      \* history, per request: a file got contents it had had since then

files    == <<disk, runs, writing>>
store    == <<log, acked, evidence>>
history  == <<sights, recurred>>
vars     == <<files, pc, refusal, copies, position, rows, store, history>>

Store == INSTANCE ProvenanceLog WITH Ids <- Requests, reads <- {}
-----------------------------------------------------------------------------
Count    == Len(ReadOrder)

FrontStages == <<"resolve", "discover", "authorize_discovery", "plan", "authorize", "validate">>
Reading     == {"validate", "compile", "match", "digest"}   \* from the first byte read to the last
Ended       == {"answered", "failed", "lost"}
Stages      == Range(FrontStages) \cup {"idle", "compile", "execute", "record", "respond"}
               \cup Reading \cup Ended

Idle == [next |-> 0, open |-> FALSE, as_of |-> NoData]

Init ==
  /\ disk \in {[f \in Files |-> d] : d \in Dates \cup {Absent}}
  /\ runs = 0 /\ writing = Idle
  /\ pc = [r \in Requests |-> "idle"]
  /\ refusal = [r \in Requests |-> "none"]
  /\ copies = [r \in Requests |-> [f \in Files |-> NoData]]
  /\ position = [r \in Requests |-> 0]
  /\ rows = [r \in Requests |-> NoData]
  /\ evidence = [r \in Requests |-> NoData]
  /\ log = <<>> /\ acked = {}
  /\ sights = [r \in Requests |-> {}] /\ recurred = [r \in Requests |-> FALSE]
-----------------------------------------------------------------------------
(***************************************************************************)
(* data_generation.py: generate_demo_data.  Each file is truncated by      *)
(* open("w") and written whole when it is closed.  What a run writes       *)
(* depends on its date alone, so two runs may well write the same.         *)
(***************************************************************************)
\* Every request that reads has now seen this disk as well.
Witness(d) ==
  sights' = [r \in Requests |-> IF pc[r] \in Reading THEN sights[r] \cup {d} ELSE sights[r]]

\* A file gets contents again that some request has seen it with.
WitnessReturn(f, c) ==
  recurred' = [r \in Requests |-> \/ recurred[r]
                                  \/ pc[r] \in Reading /\ \E d \in sights[r] : d[f] = c]

GeneratorStarts(date) ==
  /\ writing = Idle /\ runs < MaxRewrites
  /\ runs' = runs + 1
  /\ writing' = [next |-> 1, open |-> FALSE, as_of |-> date]
  /\ UNCHANGED <<disk, pc, refusal, copies, position, rows, store, history>>

GeneratorTruncates ==
  /\ writing # Idle /\ ~writing.open
  /\ disk' = [disk EXCEPT ![WriteOrder[writing.next]] = Empty]
  /\ writing' = [writing EXCEPT !.open = TRUE]
  /\ Witness(disk')
  /\ UNCHANGED <<runs, pc, refusal, copies, position, rows, store, recurred>>

\* The faulty variant goes past the last file.
NextAlways == [next |-> writing.next + 1, open |-> FALSE, as_of |-> writing.as_of]
NextFile == IF writing.next = Count THEN Idle
            ELSE [next |-> writing.next + 1, open |-> FALSE, as_of |-> writing.as_of]

GeneratorWrites ==
  /\ writing.open
  /\ disk' = [disk EXCEPT ![WriteOrder[writing.next]] = writing.as_of]
  /\ writing' = NextFile
  /\ Witness(disk') /\ WitnessReturn(WriteOrder[writing.next], writing.as_of)
  /\ UNCHANGED <<runs, pc, refusal, copies, position, rows, store>>

\* It dies and leaves the files as they are.
GeneratorDies ==
  /\ writing # Idle
  /\ writing' = Idle
  /\ UNCHANGED <<disk, runs, pc, refusal, copies, position, rows, store, history>>
-----------------------------------------------------------------------------
Goto(r, s) == pc' = [pc EXCEPT ![r] = s]
Fail(r) == Goto(r, "failed")

\* The next stage that reads the files begins with the first of them.
BeginPass(r, s) ==
  /\ Goto(r, s)
  /\ position' = [position EXCEPT ![r] = 0]

Begin(r, stage) ==
  /\ pc[r] = "idle"
  /\ refusal' = [refusal EXCEPT ![r] = stage]
  /\ Goto(r, "resolve")
  /\ UNCHANGED <<files, copies, position, rows, store, history>>

\* The faulty variant does not look at the decision on the discovery.
PassUnauthorized(r) ==
  /\ \E i \in 1 .. Len(FrontStages) - 1 :
        /\ pc[r] = FrontStages[i]
        /\ refusal[r] # FrontStages[i] \/ FrontStages[i] = "authorize_discovery"
        /\ Goto(r, FrontStages[i + 1])
        /\ sights' = IF FrontStages[i + 1] = "validate"
                     THEN [sights EXCEPT ![r] = {disk}] ELSE sights
  /\ UNCHANGED <<files, refusal, copies, position, rows, store, recurred>>

\* A stage before the data accepts the request; the second authorization is the last.
Pass(r) ==
  /\ \E i \in 1 .. Len(FrontStages) - 1 :
        /\ pc[r] = FrontStages[i] /\ refusal[r] # FrontStages[i]
        /\ Goto(r, FrontStages[i + 1])
        /\ sights' = IF FrontStages[i + 1] = "validate"
                     THEN [sights EXCEPT ![r] = {disk}] ELSE sights
  /\ UNCHANGED <<files, refusal, copies, position, rows, store, recurred>>

\* It refuses it: PermissionError or ValueError.  compile and execute refuse too: a plan
\* outside the trusted template, a result that is not finite.
Refuse(r) ==
  /\ pc[r] = refusal[r]
  /\ Fail(r)
  /\ UNCHANGED <<files, refusal, copies, position, rows, store, history>>

Current(r) == ReadOrder[position[r] + 1]
Advance(r) == position' = [position EXCEPT ![r] = @ + 1]
PassOver(r) == position[r] = Count

\* validate_curated_data: one file is read, and its bytes are kept.
ReadFile(r) ==
  /\ pc[r] = "validate" /\ ~PassOver(r)
  /\ copies' = [copies EXCEPT ![r][Current(r)] = disk[Current(r)]]
  /\ Advance(r)
  /\ UNCHANGED <<files, pc, refusal, rows, store, history>>

\* The faulty variant does not ask for rows in every file.
Exists(c) == c \in SoundDates \cup {Empty}
\* A missing or an empty dataset fails the validation, and so do dates in the future.
Sound(c) == c \in SoundDates

QualityPasses(r) ==
  /\ pc[r] = "validate" /\ PassOver(r)
  /\ \A f \in Files : Sound(copies[r][f])
  /\ Goto(r, "compile")
  /\ UNCHANGED <<files, refusal, copies, position, rows, store, history>>

QualityFails(r) ==
  /\ pc[r] = "validate" /\ PassOver(r)
  /\ ~\A f \in Files : Sound(copies[r][f])
  /\ Fail(r)
  /\ UNCHANGED <<files, refusal, copies, position, rows, store, history>>

Compile(r) ==
  /\ pc[r] = "compile" /\ refusal[r] # "compile"
  /\ BeginPass(r, "match")
  /\ UNCHANGED <<files, refusal, copies, rows, store, history>>

\* The faulty variant takes the report's word for the files.
Unchecked(r) == TRUE
Unchanged(r) == disk[Current(r)] = copies[r][Current(r)]

\* The faulty variant waits for the file to come back.
KeepWaiting(r) == FALSE
Mismatch(r) == pc[r] \in {"match", "digest"} /\ ~PassOver(r) /\ ~Unchanged(r)

\* QualityReport._matches, then _source_digests: each file is read again and compared.
CompareFile(r) ==
  /\ pc[r] \in {"match", "digest"} /\ ~PassOver(r) /\ Unchanged(r)
  /\ Advance(r)
  /\ UNCHANGED <<files, pc, refusal, copies, rows, store, history>>

CompareFails(r) ==
  /\ Mismatch(r)
  /\ Fail(r)
  /\ UNCHANGED <<files, refusal, copies, position, rows, store, history>>

Compared(r) ==
  /\ pc[r] \in {"match", "digest"} /\ PassOver(r)
  /\ BeginPass(r, IF pc[r] = "match" THEN "digest" ELSE "execute")
  /\ UNCHANGED <<files, refusal, copies, rows, store, history>>

\* The faulty variant lets the query read the files themselves.
FilesNow(r) == disk
Snapshot(r) == copies[r]

\* The query runs on private copies of the validated bytes.
Execute(r) ==
  /\ pc[r] = "execute" /\ refusal[r] # "execute"
  /\ rows' = [rows EXCEPT ![r] = Snapshot(r)]
  /\ Goto(r, "record")
  /\ UNCHANGED <<files, refusal, copies, position, store, history>>

\* The faulty variant answers even when no evidence could be written.
RecordOrSkip(r) ==
  /\ pc[r] = "record"
  /\ \/ Store!Extend(r) /\ evidence' = [evidence EXCEPT ![r] = copies[r]]
     \/ UNCHANGED store
  /\ Goto(r, "respond")
  /\ UNCHANGED <<files, refusal, copies, position, rows, history>>

\* ProvenanceStore.record: the row names the sources of the execution.
Record(r) ==
  /\ pc[r] = "record"
  /\ Store!Extend(r)
  /\ evidence' = [evidence EXCEPT ![r] = copies[r]]
  /\ Goto(r, "respond")
  /\ UNCHANGED <<files, refusal, copies, position, rows, history>>

\* It raises: a busy or broken store.
RecordFails(r) ==
  /\ pc[r] = "record"
  /\ Fail(r)
  /\ UNCHANGED <<files, refusal, copies, position, rows, store, history>>

Respond(r) ==
  /\ pc[r] = "respond"
  /\ acked' = acked \cup {r}
  /\ Goto(r, "answered")
  /\ UNCHANGED <<files, refusal, copies, position, rows, log, evidence, history>>

\* The process dies with every request it serves; what was recorded stays.
Crash ==
  /\ \E r \in Requests : pc[r] \notin Ended \cup {"idle"}
  /\ pc' = [r \in Requests |-> IF pc[r] \in Ended \cup {"idle"} THEN pc[r] ELSE "lost"]
  /\ UNCHANGED <<files, refusal, copies, position, rows, store, history>>
-----------------------------------------------------------------------------
Serve(r) == \/ Pass(r) \/ Refuse(r) \/ ReadFile(r) \/ QualityPasses(r) \/ QualityFails(r)
            \/ Compile(r) \/ CompareFile(r) \/ CompareFails(r) \/ Compared(r)
            \/ Execute(r) \/ Record(r) \/ Respond(r)

Generate == (\E date \in Dates : GeneratorStarts(date)) \/ GeneratorTruncates \/ GeneratorWrites \/ GeneratorDies

Next == \/ \E r \in Requests, stage \in Refusals : Begin(r, stage)
        \/ \E r \in Requests : Serve(r) \/ RecordFails(r)
        \/ Generate \/ Crash

\* A request that is being served goes on; nobody has to ask, to rewrite or to crash.
Spec == Init /\ [][Next]_vars /\ \A r \in Requests : WF_vars(Serve(r))
-----------------------------------------------------------------------------
Data == Dates \cup {Absent, Empty}

DiskTypeOK == /\ disk \in [Files -> Data]
              /\ runs \in 0 .. MaxRewrites
              /\ writing \in [next : 1 .. Count, open : BOOLEAN, as_of : Dates] \cup {Idle}

RequestTypeOK == /\ pc \in [Requests -> Stages] /\ refusal \in [Requests -> Refusals]
                 /\ copies \in [Requests -> [Files -> Data \cup {NoData}]]
                 /\ position \in [Requests -> 0 .. Count]
                 /\ rows \in [Requests -> [Files -> Data] \cup {NoData}]
                 /\ sights \in [Requests -> SUBSET [Files -> Data]]
                 /\ recurred \in [Requests -> BOOLEAN]

StoreTypeOK == /\ log \in Seq(Requests) /\ acked \subseteq Requests
               /\ evidence \in [Requests -> [Files -> Data] \cup {NoData}]

\* Every variable holds a value of its kind; a query never runs on a file not copied.
TypeOK == DiskTypeOK /\ RequestTypeOK /\ StoreTypeOK

Logged == {log[i] : i \in 1 .. Len(log)}

\* An answer is issued only after every governed stage: its evidence is durable, and the
\* sources the evidence names are the bytes the rows were computed from
\* (workflow.py AgentAnswer, "issued only after every governed workflow stage succeeds").
AnswersEvidenced ==
  \A r \in Requests : pc[r] = "answered" =>
    /\ r \in Logged /\ refusal[r] = "none"
    /\ rows[r] # NoData /\ evidence[r] = rows[r]

\* Rows are computed from validated bytes only, however the files are rewritten meanwhile:
\* never from a file that is missing, truncated or dated in the future (adapters/duckdb.py, "A source
\* replacement after the current-file checks cannot alter the rows").
RowsFromSoundBytes ==
  \A r \in Requests : rows[r] # NoData => \A f \in Files : rows[r][f] \in SoundDates

\* The bytes a result comes from were on disk together at one moment of the request:
\* copies taken one file at a time, under a generator that rewrites them one at a time,
\* never mix moments (QualityReport._matches and the digest comparison of execute),
\* unless a file went back to contents it had had while the request was reading.
SnapshotWasOnDisk ==
  \A r \in Requests : rows[r] # NoData /\ ~recurred[r] => rows[r] \in sights[r]

\* A refused request leaves no trace in the data or the evidence: nothing was read for
\* one that was denied, nothing was recorded for one that was refused anywhere
\* (docs/agent-architecture.md, "A denied request stops before final plan creation and
\* execution").
RefusedLeavesNothing ==
  \A r \in Requests :
    /\ refusal[r] # "none" => r \notin Logged /\ evidence[r] = NoData /\ rows[r] = NoData
    /\ refusal[r] \in Range(FrontStages) => \A f \in Files : copies[r][f] = NoData

\* A request that began is answered, fails, or is lost with the process.
RequestsEnd == \A r \in Requests : pc[r] # "idle" ~> pc[r] \in Ended

\* The store is used as its promise allows: nothing is acknowledged before it is logged.
UsesLog == Store!Spec
=============================================================================
