----------------------- MODULE GovernedWorkflowProofs -----------------------
(***************************************************************************)
(* For any number of requests, files, dates and generator runs: an answer  *)
(* has passed every stage and left its evidence, a refused request has     *)
(* left nothing, and what the rows were computed from was validated and,   *)
(* unless contents returned, on the disk at one moment.  A request that is *)
(* served runs out of steps, and is never without one.                     *)
(***************************************************************************)
EXTENDS GovernedWorkflow, TLAPS

\* The stages in which a request has not touched the data.
Fronts   == {"resolve", "discover", "authorize_discovery", "plan", "authorize"}
NoCopies == [f \in Files |-> NoData]
SoundCopies == [Files -> SoundDates]

\* A request has not been refused at any stage behind it, and has read nothing before the
\* last of the stages that do not touch the data.
GateInv(r) ==
  /\ pc[r] = "discover" => refusal[r] # "resolve"
  /\ pc[r] = "authorize_discovery" => refusal[r] \notin {"resolve", "discover"}
  /\ pc[r] = "plan" => refusal[r] \notin {"resolve", "discover", "authorize_discovery"}
  /\ pc[r] = "authorize" => refusal[r] \notin {"resolve", "discover", "authorize_discovery", "plan"}
  /\ pc[r] \in {"validate", "compile"} => refusal[r] \notin Fronts
  /\ pc[r] \in {"match", "digest", "execute"} => refusal[r] \notin Fronts \cup {"compile"}
  /\ pc[r] \in {"record", "respond", "answered"} => refusal[r] = "none"
  /\ copies[r] # NoCopies => refusal[r] \notin Fronts
  /\ pc[r] \in Fronts \cup {"idle"} => copies[r] = NoCopies

\* Rows and evidence appear in their stages, for requests nobody refuses.
ResultInv(r) ==
  /\ pc[r] \in Fronts \cup {"idle"} => rows[r] = NoData /\ evidence[r] = NoData /\ r \notin Logged
  /\ pc[r] \in {"compile", "match", "digest", "execute", "record"} => copies[r] \in SoundCopies
  /\ pc[r] = "record" => rows[r] = copies[r]
  /\ pc[r] \in {"respond", "answered"} => rows[r] # NoData /\ evidence[r] = rows[r] /\ r \in Logged
  /\ rows[r] # NoData => refusal[r] = "none" /\ rows[r] \in SoundCopies
  /\ evidence[r] # NoData \/ r \in Logged => refusal[r] = "none"

\* A disk the request has seen, such that a file whose copy it does not hold has changed
\* since that copy was taken; files compared after it hold their copies in it.
Moment(r, m) ==
  /\ \A f \in Files : m[f] = copies[r][f] \/ disk[f] # copies[r][f]
  /\ pc[r] = "match" =>
       \A i \in 1 .. position[r] : m[ReadOrder[i]] = copies[r][ReadOrder[i]]
  /\ pc[r] = "digest" => m = copies[r]

\* The end of the validation is such a moment, as long as no contents return.
MomentInv(r) ==
  /\ pc[r] \in Reading =>
       /\ disk \in sights[r]
       /\ \A f \in Files : copies[r][f] # NoData => \E d \in sights[r] : d[f] = copies[r][f]
  /\ pc[r] \in {"compile", "match", "digest"} /\ ~recurred[r] => \E m \in sights[r] : Moment(r, m)
  /\ pc[r] \in {"execute", "record"} /\ ~recurred[r] => copies[r] \in sights[r]
  /\ rows[r] # NoData /\ ~recurred[r] => rows[r] \in sights[r]

RequestInv(r) == GateInv(r) /\ ResultInv(r) /\ MomentInv(r)

WorkflowInv == TypeOK /\ \A r \in Requests : RequestInv(r)
-----------------------------------------------------------------------------
LEMMA OrderFacts ==
  /\ Count \in Nat /\ Count # 0
  /\ \A i \in 1 .. Count : ReadOrder[i] \in Files /\ WriteOrder[i] \in Files
  /\ \A f \in Files : \E i \in 1 .. Count : f = ReadOrder[i]
<1>1. ReadOrder \in Seq(Files) /\ WriteOrder \in Seq(Files) /\ Len(WriteOrder) = Count
  BY OrderAssumption DEF Count
<1>2. Len(ReadOrder) # 0
  BY <1>1, OrderAssumption
<1> QED BY <1>1, <1>2 DEF Count, Files, Range

LEMMA StagesAre ==
  Stages = Fronts \cup Reading \cup Ended \cup {"idle", "execute", "record", "respond"}
<1>1. Range(FrontStages) = Fronts \cup {"validate"}
  BY DEF Range, FrontStages, Fronts
<1> QED BY <1>1 DEF Stages, Reading, Ended

LEMMA InitEstablishes == Init => WorkflowInv
<1> SUFFICES ASSUME Init PROVE WorkflowInv
  OBVIOUS
<1> USE DEF Init
<1>1. DiskTypeOK
  BY OrderFacts, RewritesAssumption DEF DiskTypeOK, Data, Idle
<1>2. RequestTypeOK
  BY OrderFacts, RefusalsAssumption DEF RequestTypeOK, Data, Stages
<1>3. StoreTypeOK
  BY DEF StoreTypeOK
<1>4. ASSUME NEW r \in Requests PROVE RequestInv(r)
  <2>1. /\ pc[r] = "idle" /\ copies[r] = NoCopies /\ rows[r] = NoData
        /\ evidence[r] = NoData /\ refusal[r] = "none" /\ r \notin Logged
    BY DEF NoCopies, Logged
  <2>2. GateInv(r) /\ ResultInv(r)
    BY <2>1 DEF GateInv, ResultInv, Fronts
  <2>3. MomentInv(r)
    BY <2>1 DEF MomentInv, Reading
  <2> QED BY <2>2, <2>3 DEF RequestInv
<1> QED BY <1>1, <1>2, <1>3, <1>4 DEF WorkflowInv, TypeOK

\* What nobody touched stays as it was.
Untouched(q) ==
  /\ pc'[q] = pc[q] /\ refusal'[q] = refusal[q] /\ copies'[q] = copies[q]
  /\ position'[q] = position[q] /\ rows'[q] = rows[q] /\ evidence'[q] = evidence[q]
  /\ (q \in Logged') = (q \in Logged)
  /\ sights'[q] = sights[q] /\ recurred'[q] = recurred[q]

LEMMA OthersKeep ==
  ASSUME NEW q \in Requests, RequestInv(q), Untouched(q), disk' = disk
  PROVE  RequestInv(q)'
<1>1. GateInv(q)'
  BY DEF RequestInv, GateInv, Untouched
<1>2. ResultInv(q)'
  BY DEF RequestInv, ResultInv, Untouched
<1>3. MomentInv(q)'
  BY DEF RequestInv, MomentInv, Moment, Untouched
<1> QED BY <1>1, <1>2, <1>3 DEF RequestInv

\* A request's own step: its invariant, and nothing of the others.
LEMMA OneMoves ==
  ASSUME WorkflowInv, NEW r \in Requests, TypeOK', RequestInv(r)', disk' = disk,
         \A q \in Requests \ {r} : Untouched(q)
  PROVE  WorkflowInv'
<1>1. ASSUME NEW q \in Requests PROVE RequestInv(q)'
  <2>1. CASE q = r
    BY <2>1
  <2>2. CASE q # r
    BY <2>2, OthersKeep DEF WorkflowInv
  <2> QED BY <2>1, <2>2
<1> QED BY <1>1 DEF WorkflowInv

\* The parts of the invariant, for one request.
LEMMA Parts ==
  ASSUME WorkflowInv, NEW r \in Requests
  PROVE  /\ DiskTypeOK /\ RequestTypeOK /\ StoreTypeOK
         /\ GateInv(r) /\ ResultInv(r) /\ MomentInv(r)
         /\ disk \in [Files -> Data] /\ copies[r] \in [Files -> Data \cup {NoData}]
         /\ position[r] \in 0 .. Count /\ pc[r] \in Stages /\ refusal[r] \in Refusals
         /\ recurred[r] \in BOOLEAN
  BY DEF WorkflowInv, TypeOK, RequestInv, DiskTypeOK, RequestTypeOK

LEMMA BeginKeeps ==
  ASSUME WorkflowInv, NEW r \in Requests, NEW s \in Refusals, Begin(r, s)
  PROVE  WorkflowInv'
<1> USE DEF Begin, Goto, files, store, history
<1> USE Parts
<1>1. TypeOK'
  BY StagesAre DEF TypeOK, DiskTypeOK, RequestTypeOK, StoreTypeOK, Fronts
<1>2. \A q \in Requests \ {r} : Untouched(q)
  BY DEF Untouched, Logged, RequestTypeOK
<1>3. /\ pc[r] = "idle" /\ pc'[r] = "resolve" /\ copies'[r] = copies[r] /\ rows'[r] = rows[r]
      /\ evidence'[r] = evidence[r] /\ Logged' = Logged
  BY DEF RequestTypeOK, Logged
<1>4. GateInv(r)'
  BY <1>3 DEF GateInv, Fronts, NoCopies
<1>5. ResultInv(r)'
  BY <1>3 DEF ResultInv, Fronts
<1>6. MomentInv(r)'
  BY <1>3 DEF MomentInv, ResultInv, Reading, Fronts
<1> QED BY <1>1, <1>2, <1>4, <1>5, <1>6, OneMoves DEF RequestInv

LEMMA PassKeeps ==
  ASSUME WorkflowInv, NEW r \in Requests, Pass(r)
  PROVE  WorkflowInv'
<1> USE DEF Pass, Goto, files, store
<1> USE Parts
<1>0. PICK s \in Fronts \cup {"validate"} :
        /\ pc' = [pc EXCEPT ![r] = s]
        /\ sights' = IF s = "validate" THEN [sights EXCEPT ![r] = {disk}] ELSE sights
  <2>1. Len(FrontStages) - 1 = 5
    BY DEF FrontStages
  <2>2. PICK i \in 1 .. 5 :
          /\ pc' = [pc EXCEPT ![r] = FrontStages[i + 1]]
          /\ sights' = IF FrontStages[i + 1] = "validate"
                       THEN [sights EXCEPT ![r] = {disk}] ELSE sights
    BY <2>1
  <2>3. FrontStages[i + 1] \in Fronts \cup {"validate"}
    BY <2>2 DEF FrontStages, Fronts
  <2> QED BY <2>2, <2>3
<1>1. TypeOK'
  <2>1. s \in Stages
    BY StagesAre DEF Reading
  <2>2. pc' \in [Requests -> Stages]
    BY <1>0, <2>1 DEF RequestTypeOK
  <2>3. sights' \in [Requests -> SUBSET [Files -> Data]]
    BY <1>0 DEF RequestTypeOK
  <2> QED BY <2>2, <2>3 DEF TypeOK, DiskTypeOK, RequestTypeOK, StoreTypeOK
<1>2. \A q \in Requests \ {r} : Untouched(q)
  <2>1. \A q \in Requests \ {r} : pc'[q] = pc[q] /\ sights'[q] = sights[q]
    BY <1>0 DEF RequestTypeOK
  <2> QED BY <2>1 DEF Untouched, Logged
<1>3. /\ copies'[r] = copies[r] /\ rows'[r] = rows[r] /\ refusal'[r] = refusal[r]
      /\ evidence'[r] = evidence[r] /\ Logged' = Logged /\ disk' = disk
  BY DEF RequestTypeOK, Logged
<1>4. /\ pc[r] \in Fronts /\ pc'[r] \in Fronts \cup {"validate"}
      /\ pc'[r] = "validate" => sights'[r] = {disk}
      /\ refusal[r] # pc[r]
      /\ pc'[r] = "discover" => pc[r] = "resolve"
      /\ pc'[r] = "authorize_discovery" => pc[r] = "discover"
      /\ pc'[r] = "plan" => pc[r] = "authorize_discovery"
      /\ pc'[r] = "authorize" => pc[r] = "plan"
      /\ pc'[r] = "validate" => pc[r] = "authorize"
      /\ pc'[r] # "resolve"
  <2>1. PICK i \in 1 .. 5 :
          /\ pc[r] = FrontStages[i] /\ refusal[r] # FrontStages[i] /\ pc'[r] = FrontStages[i + 1]
          /\ sights' = IF FrontStages[i + 1] = "validate"
                       THEN [sights EXCEPT ![r] = {disk}] ELSE sights
    <3>1. Len(FrontStages) - 1 = 5
      BY DEF FrontStages
    <3> QED BY <3>1 DEF RequestTypeOK
  <2>2. pc'[r] = "validate" => sights'[r] = {disk}
    BY <2>1 DEF RequestTypeOK
  <2>3. i = 1 \/ i = 2 \/ i = 3 \/ i = 4 \/ i = 5
    OBVIOUS
  <2> QED BY <2>1, <2>2, <2>3 DEF FrontStages, Fronts
<1>5. copies[r] = NoCopies /\ rows[r] = NoData /\ evidence[r] = NoData /\ r \notin Logged
  BY <1>4 DEF GateInv, ResultInv
<1>6. GateInv(r)'
  BY <1>3, <1>4, <1>5 DEF GateInv, Fronts, NoCopies
<1>7. ResultInv(r)'
  BY <1>3, <1>4, <1>5 DEF ResultInv, Fronts
<1>8. MomentInv(r)'
  BY <1>3, <1>4, <1>5 DEF MomentInv, Reading, Fronts, NoCopies
<1> QED BY <1>1, <1>2, <1>3, <1>6, <1>7, <1>8, OneMoves DEF RequestInv

\* A request that gives up keeps what it has.
LEMMA FailKeeps ==
  ASSUME WorkflowInv, NEW r \in Requests, Fail(r), pc[r] \notin {"respond", "answered"},
         UNCHANGED <<files, refusal, copies, position, rows, store, history>>
  PROVE  WorkflowInv'
<1> USE DEF Fail, Goto, files, store, history
<1> USE Parts
<1>1. TypeOK'
  BY DEF TypeOK, DiskTypeOK, RequestTypeOK, StoreTypeOK, Stages, Ended
<1>2. \A q \in Requests \ {r} : Untouched(q)
  BY DEF Untouched, Logged, RequestTypeOK
<1>3. pc'[r] = "failed" /\ Logged' = Logged
  BY DEF RequestTypeOK, Logged
<1>4. GateInv(r)'
  BY <1>3 DEF GateInv, Fronts, NoCopies
<1>5. ResultInv(r)'
  BY <1>3 DEF ResultInv, Fronts
<1>6. MomentInv(r)'
  BY <1>3 DEF MomentInv, Reading
<1> QED BY <1>1, <1>2, <1>4, <1>5, <1>6, OneMoves DEF RequestInv

LEMMA FailuresKeep ==
  ASSUME WorkflowInv, NEW r \in Requests,
         Refuse(r) \/ QualityFails(r) \/ CompareFails(r) \/ RecordFails(r)
  PROVE  WorkflowInv'
<1>1. pc[r] \notin {"respond", "answered"}
  BY Parts, RefusalsAssumption DEF Refuse, QualityFails, CompareFails, Mismatch, RecordFails
<1> QED BY <1>1, FailKeeps DEF Refuse, QualityFails, CompareFails, RecordFails

\* The copy is of a disk the request sees.
LEMMA ReadFileKeeps ==
  ASSUME WorkflowInv, NEW r \in Requests, ReadFile(r)
  PROVE  WorkflowInv'
<1> USE DEF ReadFile, Advance, files, store, history
<1> USE Parts
<1> DEFINE f == Current(r)
<1>1. position[r] + 1 \in 1 .. Count /\ f \in Files
  BY OrderFacts DEF PassOver, Current
<1>2. /\ copies'[r] = [copies[r] EXCEPT ![f] = disk[f]] /\ position'[r] = position[r] + 1
      /\ pc'[r] = "validate" /\ pc[r] = "validate" /\ rows'[r] = rows[r] /\ disk' = disk
      /\ Logged' = Logged
  BY DEF RequestTypeOK, Logged
<1> HIDE DEF f
<1>3. copies'[r] \in [Files -> Data \cup {NoData}]
  <2>1. disk[f] \in Data /\ copies[r] \in [Files -> Data \cup {NoData}]
    BY <1>1
  <2> QED BY ONLY <1>1, <1>2, <2>1
<1>4. TypeOK'
  <2>1. copies' \in [Requests -> [Files -> Data \cup {NoData}]]
    BY <1>3 DEF RequestTypeOK
  <2>2. position' \in [Requests -> 0 .. Count]
    BY <1>1, OrderFacts DEF RequestTypeOK
  <2> QED BY <2>1, <2>2 DEF TypeOK, DiskTypeOK, RequestTypeOK, StoreTypeOK
<1>5. \A q \in Requests \ {r} : Untouched(q)
  BY DEF Untouched, Logged, RequestTypeOK
<1>6. GateInv(r)'
  BY <1>2 DEF GateInv, Fronts
<1>7. ResultInv(r)'
  BY <1>2 DEF ResultInv, Fronts
<1>8. MomentInv(r)'
  <2>1. disk \in sights[r]
    BY <1>2 DEF MomentInv, Reading
  <2>2. ASSUME NEW g \in Files, copies'[r][g] # NoData
        PROVE  \E d \in sights[r] : d[g] = copies'[r][g]
    <3>1. CASE g = f
      BY <3>1, <1>2, <2>1
    <3>2. CASE g # f
      BY <3>2, <1>2, <2>2 DEF MomentInv, Reading
    <3> QED BY <3>1, <3>2
  <2> QED BY <1>2, <2>1, <2>2 DEF MomentInv, Reading
<1> QED BY <1>2, <1>4, <1>5, <1>6, <1>7, <1>8, OneMoves DEF RequestInv

\* The moment is now: every file either holds its copy or has changed already.
LEMMA QualityPassesKeeps ==
  ASSUME WorkflowInv, NEW r \in Requests, QualityPasses(r)
  PROVE  WorkflowInv'
<1> USE DEF QualityPasses, Goto, files, store, history
<1> USE Parts
<1>1. TypeOK'
  BY StagesAre DEF TypeOK, DiskTypeOK, RequestTypeOK, StoreTypeOK, Reading
<1>2. \A q \in Requests \ {r} : Untouched(q)
  BY DEF Untouched, Logged, RequestTypeOK
<1>3. pc[r] = "validate" /\ pc'[r] = "compile" /\ Logged' = Logged
  BY DEF RequestTypeOK, Logged
<1>4. copies[r] \in SoundCopies
  BY DEF Sound, SoundCopies
<1>5. GateInv(r)'
  BY <1>3 DEF GateInv, Fronts, NoCopies
<1>6. ResultInv(r)'
  BY <1>3, <1>4 DEF ResultInv, Fronts, SoundCopies
<1>7. MomentInv(r)'
  <2>1. disk \in sights[r] /\ Moment(r, disk)'
    BY <1>3 DEF MomentInv, Reading, Moment
  <2> QED BY <1>3, <2>1 DEF MomentInv, Reading
<1> QED BY <1>1, <1>2, <1>5, <1>6, <1>7, OneMoves DEF RequestInv

LEMMA CompileKeeps ==
  ASSUME WorkflowInv, NEW r \in Requests, Compile(r)
  PROVE  WorkflowInv'
<1> USE DEF Compile, BeginPass, Goto, files, store, history
<1> USE Parts
<1>1. TypeOK'
  BY StagesAre, OrderFacts DEF TypeOK, DiskTypeOK, RequestTypeOK, StoreTypeOK, Reading
<1>2. \A q \in Requests \ {r} : Untouched(q)
  BY DEF Untouched, Logged, RequestTypeOK
<1>3. pc[r] = "compile" /\ pc'[r] = "match" /\ position'[r] = 0 /\ Logged' = Logged
  BY DEF RequestTypeOK, Logged
<1>4. GateInv(r)'
  BY <1>3 DEF GateInv, Fronts, NoCopies
<1>5. ResultInv(r)'
  BY <1>3 DEF ResultInv, Fronts, SoundCopies
<1>6. MomentInv(r)'
  <2>1. ASSUME NEW m, Moment(r, m) PROVE Moment(r, m)'
    BY <1>3, <2>1 DEF Moment
  <2> QED BY <1>3, <2>1 DEF MomentInv, Reading
<1> QED BY <1>1, <1>2, <1>4, <1>5, <1>6, OneMoves DEF RequestInv

\* A file that holds its copy now held it at the moment.
LEMMA CompareFileKeeps ==
  ASSUME WorkflowInv, NEW r \in Requests, CompareFile(r)
  PROVE  WorkflowInv'
<1> USE DEF CompareFile, Advance, files, store, history
<1> USE Parts
<1>1. position[r] + 1 \in 1 .. Count /\ ReadOrder[position[r] + 1] \in Files
  BY OrderFacts DEF PassOver
<1>2. /\ pc'[r] = pc[r] /\ pc[r] \in {"match", "digest"} /\ position'[r] = position[r] + 1
      /\ Logged' = Logged
  BY DEF RequestTypeOK, Logged
<1>3. TypeOK'
  BY <1>1, OrderFacts DEF TypeOK, DiskTypeOK, RequestTypeOK, StoreTypeOK
<1>4. \A q \in Requests \ {r} : Untouched(q)
  BY DEF Untouched, Logged, RequestTypeOK
<1>5. GateInv(r)'
  BY <1>2 DEF GateInv, Fronts, NoCopies
<1>6. ResultInv(r)'
  BY <1>2 DEF ResultInv, Fronts, SoundCopies
<1>7. MomentInv(r)'
  <2>1. ASSUME NEW m, Moment(r, m) PROVE Moment(r, m)'
    <3>1. m[ReadOrder[position[r] + 1]] = copies[r][ReadOrder[position[r] + 1]]
      BY <1>1, <2>1 DEF Moment, Unchanged, Current
    <3> QED BY <1>1, <1>2, <2>1, <3>1 DEF Moment
  <2> QED BY <1>2, <2>1 DEF MomentInv, Reading
<1> QED BY <1>3, <1>4, <1>5, <1>6, <1>7, OneMoves DEF RequestInv

\* A disk in which every compared file holds its copy is the copies, once all are compared.
LEMMA WholeMoment ==
  ASSUME WorkflowInv, NEW r \in Requests, pc[r] = "match", PassOver(r),
         NEW m \in sights[r], Moment(r, m)
  PROVE  m = copies[r]
<1>1. m \in [Files -> Data] /\ copies[r] \in SoundCopies
  BY Parts DEF RequestTypeOK, ResultInv
<1>2. ASSUME NEW f \in Files PROVE m[f] = copies[r][f]
  <2>1. PICK i \in 1 .. Count : f = ReadOrder[i]
    BY OrderFacts
  <2> QED BY <2>1 DEF Moment, PassOver
<1> QED BY <1>1, <1>2 DEF SoundCopies

LEMMA ComparedKeeps ==
  ASSUME WorkflowInv, NEW r \in Requests, Compared(r)
  PROVE  WorkflowInv'
<1> USE DEF Compared, BeginPass, Goto, files, store, history
<1> USE Parts
<1>1. TypeOK'
  BY StagesAre, OrderFacts DEF TypeOK, DiskTypeOK, RequestTypeOK, StoreTypeOK, Reading
<1>2. \A q \in Requests \ {r} : Untouched(q)
  BY DEF Untouched, Logged, RequestTypeOK
<1>3. /\ pc[r] = "match" => pc'[r] = "digest"
      /\ pc[r] = "digest" => pc'[r] = "execute"
      /\ pc[r] \in {"match", "digest"} /\ Logged' = Logged
  <2>1. CASE pc[r] = "match"
    BY <2>1 DEF RequestTypeOK, Logged
  <2>2. CASE pc[r] = "digest"
    BY <2>2 DEF RequestTypeOK, Logged
  <2> QED BY <2>1, <2>2
<1>4. GateInv(r)'
  BY <1>3 DEF GateInv, Fronts, NoCopies
<1>5. ResultInv(r)'
  BY <1>3 DEF ResultInv, Fronts, SoundCopies
<1>6. MomentInv(r)'
  <2>1. CASE pc[r] = "match"
    <3>1. ASSUME NEW m \in sights[r], Moment(r, m) PROVE Moment(r, m)'
      BY <1>3, <2>1, <3>1, WholeMoment DEF Moment
    <3> QED BY <1>3, <2>1, <3>1 DEF MomentInv, Reading
  <2>2. CASE pc[r] = "digest"
    <3>1. ASSUME NEW m \in sights[r], Moment(r, m) PROVE copies[r] \in sights[r]
      BY <2>2, <3>1 DEF Moment
    <3> QED BY <1>3, <2>2, <3>1 DEF MomentInv, Reading
  <2> QED BY <1>3, <2>1, <2>2
<1> QED BY <1>1, <1>2, <1>4, <1>5, <1>6, OneMoves DEF RequestInv

LEMMA ExecuteKeeps ==
  ASSUME WorkflowInv, NEW r \in Requests, Execute(r)
  PROVE  WorkflowInv'
<1> USE DEF Execute, Snapshot, Goto, files, store, history
<1> USE Parts
<1>1. /\ pc[r] = "execute" /\ pc'[r] = "record" /\ rows'[r] = copies[r] /\ Logged' = Logged
      /\ copies[r] \in SoundCopies
  BY DEF RequestTypeOK, Logged, ResultInv
<1>2. TypeOK'
  <2>1. copies[r] \in [Files -> Data]
    BY <1>1, DatesAssumption DEF SoundCopies, Data
  <2>2. rows' \in [Requests -> [Files -> Data] \cup {NoData}]
    BY <2>1 DEF RequestTypeOK
  <2> QED BY <2>2, StagesAre DEF TypeOK, DiskTypeOK, RequestTypeOK, StoreTypeOK
<1>3. \A q \in Requests \ {r} : Untouched(q)
  BY DEF Untouched, Logged, RequestTypeOK
<1>4. refusal[r] = "none"
  BY <1>1, RefusalsAssumption DEF GateInv, Fronts
<1>5. GateInv(r)'
  BY <1>1, <1>4 DEF GateInv, Fronts, NoCopies
<1>6. ResultInv(r)'
  BY <1>1, <1>4 DEF ResultInv, Fronts
<1>7. MomentInv(r)'
  BY <1>1 DEF MomentInv, Reading
<1> QED BY <1>2, <1>3, <1>5, <1>6, <1>7, OneMoves DEF RequestInv

\* What the log holds after one more.
LEMMA ExtendLogs ==
  ASSUME NEW r \in Requests, log \in Seq(Requests), Store!Extend(r)
  PROVE  log' \in Seq(Requests) /\ Logged' = Logged \cup {r}
<1>1. log' = Append(log, r) /\ log' \in Seq(Requests) /\ Len(log') = Len(log) + 1
  BY DEF Store!Extend
<1>2. /\ \A i \in 1 .. Len(log) : log'[i] = log[i]
      /\ log'[Len(log) + 1] = r
  BY <1>1
<1> QED BY <1>1, <1>2 DEF Logged

LEMMA RecordKeeps ==
  ASSUME WorkflowInv, NEW r \in Requests, Record(r)
  PROVE  WorkflowInv'
<1> USE DEF Record, Goto, files, history
<1> USE Parts
<1>1. /\ pc[r] = "record" /\ pc'[r] = "respond" /\ rows'[r] = copies[r] /\ rows[r] = copies[r]
      /\ copies[r] \in SoundCopies /\ evidence'[r] = copies[r] /\ refusal[r] = "none"
  BY DEF RequestTypeOK, StoreTypeOK, ResultInv, GateInv
<1>2. log' \in Seq(Requests) /\ Logged' = Logged \cup {r} /\ acked' = acked
  BY ExtendLogs DEF StoreTypeOK, Store!Extend
<1>3. TypeOK'
  <2>1. copies[r] \in [Files -> Data]
    BY <1>1, DatesAssumption DEF SoundCopies, Data
  <2>2. evidence' \in [Requests -> [Files -> Data] \cup {NoData}]
    BY <2>1 DEF StoreTypeOK
  <2> QED BY <1>2, <2>2, StagesAre DEF TypeOK, DiskTypeOK, RequestTypeOK, StoreTypeOK
<1>4. \A q \in Requests \ {r} : Untouched(q)
  BY <1>2 DEF Untouched, RequestTypeOK, StoreTypeOK
<1>5. copies[r] # NoData
  BY <1>1, DatesAssumption, NoDataAssumption DEF SoundCopies
<1>6. GateInv(r)'
  BY <1>1 DEF GateInv, Fronts, NoCopies
<1>7. ResultInv(r)'
  BY <1>1, <1>2, <1>5 DEF ResultInv, Fronts
<1>8. MomentInv(r)'
  BY <1>1 DEF MomentInv, Reading
<1> QED BY <1>3, <1>4, <1>6, <1>7, <1>8, OneMoves DEF RequestInv

LEMMA RespondKeeps ==
  ASSUME WorkflowInv, NEW r \in Requests, Respond(r)
  PROVE  WorkflowInv'
<1> USE DEF Respond, Goto, files, history
<1> USE Parts
<1>1. TypeOK'
  BY StagesAre DEF TypeOK, DiskTypeOK, RequestTypeOK, StoreTypeOK, Ended
<1>2. \A q \in Requests \ {r} : Untouched(q)
  BY DEF Untouched, Logged, RequestTypeOK
<1>3. pc[r] = "respond" /\ pc'[r] = "answered" /\ Logged' = Logged
  BY DEF RequestTypeOK, Logged
<1>4. GateInv(r)'
  BY <1>3 DEF GateInv, Fronts, NoCopies
<1>5. ResultInv(r)'
  BY <1>3 DEF ResultInv, Fronts, SoundCopies
<1>6. MomentInv(r)'
  BY <1>3 DEF MomentInv, Reading
<1> QED BY <1>1, <1>2, <1>4, <1>5, <1>6, OneMoves DEF RequestInv

\* Beginning or ending a generator run touches no file and no request.
LEMMA GeneratorIdlesKeeps ==
  ASSUME WorkflowInv, NEW date \in Dates, GeneratorStarts(date) \/ GeneratorDies
  PROVE  WorkflowInv'
<1> USE DEF GeneratorStarts, GeneratorDies, store, history
<1>1. DiskTypeOK'
  <2>1. DiskTypeOK
    BY DEF WorkflowInv, TypeOK
  <2>2. CASE GeneratorStarts(date)
    <3>1. runs' \in 0 .. MaxRewrites
      BY <2>1, <2>2, RewritesAssumption DEF DiskTypeOK
    <3>2. writing' \in [next : 1 .. Count, open : BOOLEAN, as_of : Dates]
      BY <2>2, OrderFacts
    <3> QED BY <2>1, <2>2, <3>1, <3>2 DEF DiskTypeOK
  <2>3. CASE GeneratorDies
    BY <2>1, <2>3 DEF DiskTypeOK
  <2> QED BY <2>2, <2>3
<1>2. /\ disk' = disk /\ UNCHANGED <<pc, refusal, copies, position, rows, log, acked, evidence>>
      /\ UNCHANGED <<sights, recurred>>
  OBVIOUS
<1>3. RequestTypeOK' /\ StoreTypeOK'
  BY <1>2 DEF WorkflowInv, TypeOK, RequestTypeOK, StoreTypeOK
<1>4. ASSUME NEW q \in Requests PROVE RequestInv(q)'
  <2>1. Untouched(q)
    BY <1>2 DEF Untouched, Logged
  <2> QED BY <1>2, <2>1, OthersKeep DEF WorkflowInv
<1> QED BY <1>1, <1>3, <1>4 DEF WorkflowInv, TypeOK

\* The file the generator is at, and what that run of it writes.
LEMMA AtFile ==
  ASSUME WorkflowInv, writing # Idle
  PROVE  /\ writing.next \in 1 .. Count /\ writing.as_of \in Dates
         /\ WriteOrder[writing.next] \in Files
         /\ writing \in [next : 1 .. Count, open : BOOLEAN, as_of : Dates]
  BY OrderFacts DEF WorkflowInv, TypeOK, DiskTypeOK

\* Whatever is written into a file, a request keeps its moment, if it has seen the disk before
\* and either this is no copy of its or contents have returned.
LEMMA DiskMoves ==
  ASSUME WorkflowInv, NEW r \in Requests, NEW f \in Files, NEW c \in Data,
         disk' = [disk EXCEPT ![f] = c], Witness(disk'),
         UNCHANGED <<pc, refusal, copies, position, rows, log, evidence>>,
         recurred'[r] \in BOOLEAN, recurred[r] => recurred'[r],
         /\ pc[r] \in {"compile", "match", "digest"} /\ ~recurred'[r]
            => copies[r][f] # c
  PROVE  RequestInv(r)'
<1> USE Parts
<1>1. GateInv(r)' /\ ResultInv(r)'
  BY DEF GateInv, ResultInv, Logged
<1>2. sights'[r] = IF pc[r] \in Reading THEN sights[r] \cup {disk'} ELSE sights[r]
  BY DEF Witness
<1>3. ASSUME NEW m, Moment(r, m), pc[r] \in {"compile", "match", "digest"}, ~recurred'[r]
      PROVE  Moment(r, m)'
  <2>1. ASSUME NEW g \in Files PROVE m[g] = copies[r][g] \/ disk'[g] # copies[r][g]
    <3>1. CASE g = f
      BY <3>1, <1>3
    <3>2. CASE g # f
      BY <3>2, <1>3 DEF Moment
    <3> QED BY <3>1, <3>2
  <2> QED BY <2>1, <1>3 DEF Moment
<1>4. MomentInv(r)'
  <2>1. (pc[r] \in Reading)' => disk' \in sights'[r] /\ sights[r] \subseteq sights'[r]
    BY <1>2
  <2>2. sights[r] \subseteq sights'[r]
    BY <1>2
  <2>3. pc[r] \in {"compile", "match", "digest"} /\ ~recurred'[r] => \E m \in sights'[r] : Moment(r, m)'
    BY <1>3, <2>2 DEF MomentInv
  <2>4. /\ pc[r] \in {"execute", "record"} /\ ~recurred'[r] => copies[r] \in sights'[r]
        /\ rows[r] # NoData /\ ~recurred'[r] => rows[r] \in sights'[r]
    BY <2>2 DEF MomentInv
  <2>5. pc[r] \in Reading =>
          \A g \in Files : copies[r][g] # NoData => \E d \in sights'[r] : d[g] = copies[r][g]
    BY <2>2 DEF MomentInv
  <2> QED BY <2>1, <2>3, <2>4, <2>5 DEF MomentInv
<1> QED BY <1>1, <1>4 DEF RequestInv

\* Types survive a write.
LEMMA WriteTypes ==
  ASSUME WorkflowInv, NEW f \in Files, NEW c \in Data,
         disk' = [disk EXCEPT ![f] = c], Witness(disk'), recurred' \in [Requests -> BOOLEAN],
         UNCHANGED <<pc, refusal, copies, position, rows, log, acked, evidence>>
  PROVE  disk' \in [Files -> Data] /\ RequestTypeOK' /\ StoreTypeOK'
<1>1. DiskTypeOK /\ RequestTypeOK /\ StoreTypeOK
  BY DEF WorkflowInv, TypeOK
<1>2. disk' \in [Files -> Data]
  BY <1>1 DEF DiskTypeOK
<1>3. sights' \in [Requests -> SUBSET [Files -> Data]]
  BY <1>1, <1>2 DEF Witness, RequestTypeOK
<1> QED BY <1>1, <1>2, <1>3 DEF RequestTypeOK, StoreTypeOK

LEMMA TruncatesKeeps ==
  ASSUME WorkflowInv, GeneratorTruncates
  PROVE  WorkflowInv'
<1> USE DEF GeneratorTruncates, store
<1> DEFINE f == WriteOrder[writing.next]
<1>1. f \in Files /\ Empty \in Data
  BY AtFile DEF Data
<1>2. disk' = [disk EXCEPT ![f] = Empty] /\ Witness(disk') /\ recurred' = recurred
      /\ UNCHANGED <<pc, refusal, copies, position, rows, log, acked, evidence>>
  OBVIOUS
<1> HIDE DEF f
<1>3. recurred' \in [Requests -> BOOLEAN]
  BY <1>2 DEF WorkflowInv, TypeOK, RequestTypeOK
<1>4. disk' \in [Files -> Data] /\ RequestTypeOK' /\ StoreTypeOK'
  BY <1>1, <1>2, <1>3, WriteTypes
<1>5. DiskTypeOK'
  <2>1. writing' \in [next : 1 .. Count, open : BOOLEAN, as_of : Dates]
    BY AtFile
  <2>2. runs' \in 0 .. MaxRewrites
    BY DEF WorkflowInv, TypeOK, DiskTypeOK
  <2> QED BY <1>4, <2>1, <2>2 DEF DiskTypeOK
<1>6. ASSUME NEW r \in Requests PROVE RequestInv(r)'
  <2>1. pc[r] \in {"compile", "match", "digest"} => copies[r][f] # Empty
    BY <1>1, Parts, DatesAssumption DEF ResultInv, SoundCopies
  <2>2. recurred'[r] \in BOOLEAN /\ recurred'[r] = recurred[r]
    BY <1>2, <1>3
  <2> QED BY <1>1, <1>2, <2>1, <2>2, DiskMoves
<1> QED BY <1>4, <1>5, <1>6 DEF WorkflowInv, TypeOK

\* A copy was seen on the disk: writing the same again is a return.
LEMMA WritesKeeps ==
  ASSUME WorkflowInv, GeneratorWrites
  PROVE  WorkflowInv'
<1> USE DEF GeneratorWrites, store
<1> DEFINE f == WriteOrder[writing.next]
           c == writing.as_of
<1>1. writing # Idle
  BY DEF Idle
<1>2. f \in Files /\ c \in Data
  BY <1>1, AtFile DEF Data
<1>3. /\ disk' = [disk EXCEPT ![f] = c] /\ Witness(disk') /\ WitnessReturn(f, c)
      /\ UNCHANGED <<pc, refusal, copies, position, rows, log, acked, evidence>>
  OBVIOUS
<1> HIDE DEF f, c
<1>4. /\ recurred' \in [Requests -> BOOLEAN]
      /\ \A r \in Requests : recurred'[r] = \/ recurred[r]
                                            \/ pc[r] \in Reading /\ \E d \in sights[r] : d[f] = c
  BY <1>3 DEF WorkflowInv, TypeOK, RequestTypeOK, WitnessReturn
<1>5. disk' \in [Files -> Data] /\ RequestTypeOK' /\ StoreTypeOK'
  BY <1>2, <1>3, <1>4, WriteTypes
<1>6. DiskTypeOK'
  <2>1. writing' \in [next : 1 .. Count, open : BOOLEAN, as_of : Dates] \cup {Idle}
    <3>1. CASE writing.next = Count
      BY <3>1 DEF NextFile
    <3>2. CASE writing.next # Count
      BY <3>2, <1>1, AtFile, OrderFacts DEF NextFile
    <3> QED BY <3>1, <3>2
  <2>2. runs' \in 0 .. MaxRewrites
    BY DEF WorkflowInv, TypeOK, DiskTypeOK
  <2> QED BY <1>5, <2>1, <2>2 DEF DiskTypeOK
<1>7. ASSUME NEW r \in Requests PROVE RequestInv(r)'
  <2>1. ASSUME pc[r] \in {"compile", "match", "digest"}, ~recurred'[r] PROVE copies[r][f] # c
    <3>1. pc[r] \in Reading
      BY <2>1 DEF Reading
    <3>2. copies[r][f] \in Dates /\ copies[r][f] # NoData
      BY <1>2, <2>1, Parts, DatesAssumption DEF ResultInv, SoundCopies
    <3>3. \E d \in sights[r] : d[f] = copies[r][f]
      BY <1>2, <3>1, <3>2, Parts DEF MomentInv
    <3> QED BY <1>4, <2>1, <3>1, <3>3
  <2>2. recurred'[r] \in BOOLEAN /\ (recurred[r] => recurred'[r])
    BY <1>4
  <2> QED BY <1>2, <1>3, <2>1, <2>2, DiskMoves
<1> QED BY <1>5, <1>6, <1>7 DEF WorkflowInv, TypeOK

LEMMA CrashKeeps ==
  ASSUME WorkflowInv, Crash
  PROVE  WorkflowInv'
<1> USE DEF Crash, files, store, history
<1>1. DiskTypeOK /\ RequestTypeOK /\ StoreTypeOK
  BY DEF WorkflowInv, TypeOK
<1>2. TypeOK'
  <2>1. \A r \in Requests : pc'[r] \in Stages
    BY <1>1, StagesAre DEF RequestTypeOK, Ended
  <2>2. pc' \in [Requests -> Stages]
    BY <2>1
  <2> QED BY <1>1, <2>2 DEF TypeOK, DiskTypeOK, RequestTypeOK, StoreTypeOK
<1>3. ASSUME NEW q \in Requests PROVE RequestInv(q)'
  <2>1. CASE pc'[q] = pc[q]
    <3>1. Untouched(q)
      BY <2>1 DEF Untouched, Logged
    <3> QED BY <3>1, OthersKeep DEF WorkflowInv
  <2>2. CASE pc'[q] # pc[q]
    <3>1. pc'[q] = "lost" /\ Logged' = Logged
      BY <2>2 DEF Logged
    <3>2. GateInv(q)'
      BY <3>1, Parts DEF GateInv, Fronts, NoCopies
    <3>3. ResultInv(q)'
      BY <3>1, Parts DEF ResultInv, Fronts
    <3>4. MomentInv(q)'
      BY <3>1, Parts DEF MomentInv, Reading
    <3> QED BY <3>2, <3>3, <3>4 DEF RequestInv
  <2> QED BY <2>1, <2>2
<1> QED BY <1>2, <1>3 DEF WorkflowInv

LEMMA NextKeeps == WorkflowInv /\ [Next]_vars => WorkflowInv'
<1> SUFFICES ASSUME WorkflowInv, [Next]_vars PROVE WorkflowInv'
  OBVIOUS
<1>1. ASSUME NEW r \in Requests, Serve(r) \/ RecordFails(r) PROVE WorkflowInv'
  BY <1>1, PassKeeps, FailuresKeep, ReadFileKeeps, QualityPassesKeeps, CompileKeeps,
     CompareFileKeeps, ComparedKeeps, ExecuteKeeps, RecordKeeps, RespondKeeps DEF Serve
<1>2. ASSUME NEW r \in Requests, NEW s \in Refusals, Begin(r, s) PROVE WorkflowInv'
  BY <1>2, BeginKeeps
<1>3. CASE Generate
  <2>1. ASSUME NEW date \in Dates, GeneratorStarts(date) PROVE WorkflowInv'
    BY <2>1, GeneratorIdlesKeeps
  <2>2. CASE GeneratorDies
    <3>1. writing.as_of \in Dates
      BY <2>2, AtFile DEF GeneratorDies
    <3> QED BY <2>2, <3>1, GeneratorIdlesKeeps
  <2> QED BY <1>3, <2>1, <2>2, TruncatesKeeps, WritesKeeps DEF Generate
<1>4. CASE Crash
  BY <1>4, CrashKeeps
<1>5. CASE UNCHANGED vars
  <2>1. /\ UNCHANGED <<disk, runs, writing, pc, refusal, copies, position, rows, log, acked, evidence>>
        /\ UNCHANGED <<sights, recurred>>
    BY <1>5 DEF vars, files, store, history
  <2>2. TypeOK'
    BY <2>1 DEF WorkflowInv, TypeOK, DiskTypeOK, RequestTypeOK, StoreTypeOK
  <2>3. ASSUME NEW q \in Requests PROVE RequestInv(q)'
    <3>1. Untouched(q)
      BY <2>1 DEF Untouched, Logged
    <3> QED BY <2>1, <3>1, OthersKeep DEF WorkflowInv
  <2> QED BY <2>2, <2>3 DEF WorkflowInv
<1> QED BY <1>1, <1>2, <1>3, <1>4, <1>5 DEF Next

LEMMA AlwaysWorkflowInv == Spec => []WorkflowInv
  BY InitEstablishes, NextKeeps, PTL DEF Spec

\* Every variable always holds a value of its kind.
THEOREM TypeCorrect == Spec => []TypeOK
<1>1. WorkflowInv => TypeOK
  BY DEF WorkflowInv
<1> QED BY <1>1, AlwaysWorkflowInv, PTL

\* An answer is issued only after every governed stage, with durable evidence that names the
\* bytes its rows were computed from.
THEOREM AnswersAlwaysEvidenced == Spec => []AnswersEvidenced
<1>1. WorkflowInv => AnswersEvidenced
  BY Parts DEF AnswersEvidenced, GateInv, ResultInv
<1> QED BY <1>1, AlwaysWorkflowInv, PTL

\* A request that is refused at any stage leaves neither rows nor evidence, and one refused
\* before the data has read nothing of it.
THEOREM RefusedAlwaysLeavesNothing == Spec => []RefusedLeavesNothing
<1>1. ASSUME WorkflowInv PROVE RefusedLeavesNothing
  <2>1. ASSUME NEW r \in Requests, refusal[r] \in Range(FrontStages)
        PROVE  copies[r] = NoCopies
    <3>1. refusal[r] \in Fronts
      BY <1>1, <2>1, Parts, RefusalsAssumption DEF Range, FrontStages, Fronts
    <3> QED BY <1>1, <3>1, Parts DEF GateInv
  <2>2. ASSUME NEW r \in Requests, refusal[r] # "none"
        PROVE  r \notin Logged /\ evidence[r] = NoData /\ rows[r] = NoData
    BY <1>1, <2>2, Parts DEF ResultInv
  <2> QED BY <2>1, <2>2 DEF RefusedLeavesNothing, NoCopies
<1> QED BY <1>1, AlwaysWorkflowInv, PTL

\* Rows are computed from validated bytes only, however often the files are rewritten.
THEOREM RowsAlwaysFromSoundBytes == Spec => []RowsFromSoundBytes
<1>1. WorkflowInv => RowsFromSoundBytes
  BY Parts DEF RowsFromSoundBytes, ResultInv, SoundCopies
<1> QED BY <1>1, AlwaysWorkflowInv, PTL

\* The bytes a result comes from were on disk together at one moment of the request, unless
\* a file went back to contents the request had seen it with.
THEOREM SnapshotAlwaysWasOnDisk == Spec => []SnapshotWasOnDisk
<1>1. WorkflowInv => SnapshotWasOnDisk
  BY Parts DEF SnapshotWasOnDisk, MomentInv
<1> QED BY <1>1, AlwaysWorkflowInv, PTL
-----------------------------------------------------------------------------
LEMMA SameLogged == Logged = Store!Logged
  BY DEF Logged, Store!Logged

\* Every step of the workflow is one of the log's, or none: recorded once, and
\* acknowledged after it was recorded.
LEMMA StepIsLogStep ==
  ASSUME WorkflowInv, [Next]_vars PROVE [Store!Next]_(Store!vars)
<1> USE DEF Store!vars
<1>1. ASSUME NEW r \in Requests, Record(r) PROVE Store!Next
  BY <1>1 DEF Record, Store!Next
<1>2. ASSUME NEW r \in Requests, Respond(r) PROVE Store!Next
  <2>1. r \in Store!Logged
    BY <1>2, Parts, SameLogged DEF Respond, ResultInv
  <2>2. Store!Acknowledge(r)
    BY <1>2, <2>1 DEF Respond, Store!Acknowledge
  <2> QED BY <2>2 DEF Store!Next
<1>3. ASSUME NEW r \in Requests, Serve(r) \/ RecordFails(r), ~Record(r), ~Respond(r)
      PROVE  UNCHANGED <<log, acked>>
  BY <1>3 DEF Serve, Pass, Refuse, ReadFile, QualityPasses, QualityFails, Compile, CompareFile,
     CompareFails, Compared, Execute, RecordFails, store
<1>4. ASSUME NEW r \in Requests, NEW s \in Refusals, Begin(r, s) PROVE UNCHANGED <<log, acked>>
  BY <1>4 DEF Begin, store
<1>5. CASE Generate
  BY <1>5 DEF Generate, GeneratorStarts, GeneratorTruncates, GeneratorWrites, GeneratorDies, store
<1>6. CASE Crash
  BY <1>6 DEF Crash, store
<1>7. CASE UNCHANGED vars
  BY <1>7 DEF vars, store
<1> QED BY <1>1, <1>2, <1>3, <1>4, <1>5, <1>6, <1>7 DEF Next

\* The workflow uses the provenance store as the abstract log allows.
THEOREM AlwaysUsesLog == Spec => UsesLog
<1>1. Init => Store!Init
  BY DEF Init, Store!Init
<1>2. WorkflowInv /\ [Next]_vars => [Store!Next]_(Store!vars)
  BY StepIsLogStep
<1> QED BY <1>1, <1>2, AlwaysWorkflowInv, PTL DEF Spec, UsesLog, Store!Spec
-----------------------------------------------------------------------------
(***************************************************************************)
(* The end of a request.                                                   *)
(***************************************************************************)
\* Steps a request at stage s that has gone through p files has left at most; each pass over
\* the files takes Count steps and one that ends it.
Steps(s, p) ==
  CASE s = "idle"                -> 13 + 3 * Count
    [] s = "resolve"             -> 12 + 3 * Count
    [] s = "discover"            -> 11 + 3 * Count
    [] s = "authorize_discovery" -> 10 + 3 * Count
    [] s = "plan"                -> 9 + 3 * Count
    [] s = "authorize"           -> 8 + 3 * Count
    [] s = "validate"            -> 7 + 2 * Count + (Count - p)
    [] s = "compile"             -> 6 + 2 * Count
    [] s = "match"               -> 5 + Count + (Count - p)
    [] s = "digest"              -> 4 + (Count - p)
    [] s = "execute"             -> 3
    [] s = "record"              -> 2
    [] s = "respond"             -> 1
    [] OTHER                     -> 0

Left(r) == Steps(pc[r], position[r])

Serving(r) == pc[r] \notin Ended \cup {"idle"}

\* The guard of one of the actions of Serve(r).
Ready(r) ==
  \/ pc[r] = refusal[r]                                         \* Refuse
  \/ \E i \in 1 .. Len(FrontStages) - 1 :                       \* Pass
        pc[r] = FrontStages[i] /\ refusal[r] # FrontStages[i]
  \/ pc[r] = "validate"                                         \* ReadFile, QualityPasses, QualityFails
  \/ pc[r] = "compile" /\ refusal[r] # "compile"                \* Compile
  \/ pc[r] \in {"match", "digest"}                              \* CompareFile, CompareFails, Compared
  \/ pc[r] = "execute" /\ refusal[r] # "execute"                \* Execute
  \/ pc[r] = "record" /\ r \notin Store!Logged                  \* Record
  \/ pc[r] = "respond"                                          \* Respond

\* Evidence is there only for a request that answers, has answered, or was lost after it.
LoggedInv == \A r \in Requests : r \in Logged => pc[r] \in {"respond", "answered", "lost"}

LEMMA StepsType ==
  ASSUME NEW s, NEW p \in 0 .. Count
  PROVE  Steps(s, p) \in Nat
BY OrderFacts DEF Steps

\* Where a request gets by a step of its own, and what the others keep.
LEMMA ServeMoves ==
  ASSUME WorkflowInv, NEW r \in Requests, Serve(r) \/ RecordFails(r)
  PROVE  /\ Left(r)' < Left(r)
         /\ \A q \in Requests \ {r} : pc'[q] = pc[q] /\ position'[q] = position[q]
         /\ Logged' = Logged \/ (pc'[r] = "respond" /\ Logged' = Logged \cup {r})
         /\ pc[r] \in {"respond", "answered", "lost"} => pc[r] = "respond" /\ pc'[r] = "answered"
<1> USE Parts, OrderFacts
<1>0. RequestTypeOK /\ pc[r] \in Stages /\ position[r] \in 0 .. Count
  OBVIOUS
<1> DEFINE Others == \A q \in Requests \ {r} : pc'[q] = pc[q] /\ position'[q] = position[q]
           Goal == /\ Left(r)' < Left(r)
                   /\ Others
                   /\ Logged' = Logged \/ (pc'[r] = "respond" /\ Logged' = Logged \cup {r})
                   /\ pc[r] \in {"respond", "answered", "lost"} => pc[r] = "respond" /\ pc'[r] = "answered"
<1>1. ASSUME Refuse(r) \/ QualityFails(r) \/ CompareFails(r) \/ RecordFails(r) PROVE Goal
  <2>1. /\ pc' = [pc EXCEPT ![r] = "failed"] /\ position' = position /\ log' = log
        /\ pc[r] \notin Ended \cup {"idle", "respond"}
    BY <1>1, RefusalsAssumption
       DEF Refuse, QualityFails, CompareFails, Mismatch, RecordFails, Fail, Goto, store, Ended
  <2>2. pc'[r] = "failed" /\ Others /\ Logged' = Logged
    BY <2>1 DEF RequestTypeOK, Logged
  <2>3. Left(r)' = 0 /\ Left(r) > 0
    BY <2>1, <2>2, StagesAre DEF Left, Steps, Ended, Fronts, Reading
  <2> QED
    BY <2>1, <2>2, <2>3 DEF Ended
<1>2. ASSUME Pass(r) PROVE Goal
  <2>1. PICK i \in 1 .. 5 : pc[r] = FrontStages[i] /\ pc' = [pc EXCEPT ![r] = FrontStages[i + 1]]
    <3>1. Len(FrontStages) - 1 = 5
      BY DEF FrontStages
    <3> QED
      BY <1>2, <3>1 DEF Pass, Goto
  <2>2. position' = position /\ log' = log
    BY <1>2 DEF Pass, files, store
  <2>3. pc'[r] = FrontStages[i + 1] /\ Others /\ Logged' = Logged
    BY <2>1, <2>2 DEF RequestTypeOK, Logged
  <2>4. i = 1 \/ i = 2 \/ i = 3 \/ i = 4 \/ i = 5
    OBVIOUS
  <2>5. \/ pc[r] = "resolve" /\ pc'[r] = "discover"
        \/ pc[r] = "discover" /\ pc'[r] = "authorize_discovery"
        \/ pc[r] = "authorize_discovery" /\ pc'[r] = "plan"
        \/ pc[r] = "plan" /\ pc'[r] = "authorize"
        \/ pc[r] = "authorize" /\ pc'[r] = "validate"
    BY <2>1, <2>3, <2>4 DEF FrontStages
  <2>6. Left(r)' < Left(r)
    BY <2>2, <2>5 DEF Left, Steps
  <2> QED
    BY <2>3, <2>5, <2>6
<1>3. ASSUME ReadFile(r) \/ CompareFile(r) PROVE Goal
  <2>1. /\ pc' = pc /\ position' = [position EXCEPT ![r] = position[r] + 1] /\ log' = log
        /\ pc[r] \in {"validate", "match", "digest"} /\ position[r] # Count
    BY <1>3 DEF ReadFile, CompareFile, Advance, PassOver, store
  <2>2. position'[r] = position[r] + 1 /\ Others /\ Logged' = Logged
    BY <2>1 DEF RequestTypeOK, Logged
  <2>3. Left(r)' < Left(r)
    BY <2>1, <2>2 DEF Left, Steps
  <2> QED
    BY <2>1, <2>2, <2>3
<1>4. ASSUME QualityPasses(r) PROVE Goal
  <2>1. /\ pc' = [pc EXCEPT ![r] = "compile"] /\ position' = position /\ log' = log
        /\ pc[r] = "validate" /\ position[r] = Count
    BY <1>4 DEF QualityPasses, Goto, PassOver, store
  <2>2. pc'[r] = "compile" /\ Others /\ Logged' = Logged
    BY <2>1 DEF RequestTypeOK, Logged
  <2>3. Left(r)' < Left(r)
    BY <2>1, <2>2 DEF Left, Steps
  <2> QED
    BY <2>1, <2>2, <2>3
<1>5. ASSUME Compile(r) \/ Compared(r) PROVE Goal
  <2>1. PICK s \in {"match", "digest", "execute"} :
          /\ pc' = [pc EXCEPT ![r] = s] /\ position' = [position EXCEPT ![r] = 0] /\ log' = log
          /\ \/ pc[r] = "compile" /\ s = "match"
             \/ pc[r] = "match" /\ s = "digest" /\ position[r] = Count
             \/ pc[r] = "digest" /\ s = "execute" /\ position[r] = Count
    BY <1>5 DEF Compile, Compared, BeginPass, Goto, PassOver, store
  <2>2. pc'[r] = s /\ position'[r] = 0 /\ Others /\ Logged' = Logged
    BY <2>1 DEF RequestTypeOK, Logged
  <2>3. Left(r)' < Left(r)
    BY <2>1, <2>2 DEF Left, Steps
  <2> QED
    BY <2>1, <2>2, <2>3
<1>6. ASSUME Execute(r) \/ Respond(r) PROVE Goal
  <2>1. PICK s \in {"record", "answered"} :
          /\ pc' = [pc EXCEPT ![r] = s] /\ position' = position /\ log' = log
          /\ \/ pc[r] = "execute" /\ s = "record"
             \/ pc[r] = "respond" /\ s = "answered"
    BY <1>6 DEF Execute, Respond, Goto, store
  <2>2. pc'[r] = s /\ Others /\ Logged' = Logged
    BY <2>1 DEF RequestTypeOK, Logged
  <2>3. Left(r)' < Left(r)
    BY <2>1, <2>2 DEF Left, Steps
  <2> QED
    BY <2>1, <2>2, <2>3
<1>7. ASSUME Record(r) PROVE Goal
  <2>1. /\ pc' = [pc EXCEPT ![r] = "respond"] /\ position' = position /\ pc[r] = "record"
    BY <1>7 DEF Record, Goto
  <2>2. pc'[r] = "respond" /\ Others
    BY <2>1 DEF RequestTypeOK
  <2>3. Logged' = Logged \cup {r}
    BY <1>7, ExtendLogs DEF Record, StoreTypeOK
  <2>4. Left(r)' < Left(r)
    BY <2>1, <2>2 DEF Left, Steps
  <2> QED
    BY <2>1, <2>2, <2>3, <2>4
<1> HIDE DEF Goal
<1>8. Goal
  BY <1>1, <1>2, <1>3, <1>4, <1>5, <1>6, <1>7 DEF Serve
<1> QED
  BY <1>8 DEF Goal

LEMMA OthersMove ==
  ASSUME WorkflowInv, [Next]_vars, ~\E r \in Requests : Serve(r) \/ RecordFails(r)
  PROVE  /\ Logged' = Logged /\ position' = position
         /\ \A r \in Requests :
              \/ pc'[r] = pc[r]
              \/ pc[r] = "idle" /\ pc'[r] = "resolve"
              \/ pc[r] \notin Ended \cup {"idle"} /\ pc'[r] = "lost"
<1> USE DEF WorkflowInv, TypeOK, RequestTypeOK
<1>1. ASSUME NEW r \in Requests, NEW s \in Refusals, Begin(r, s)
      PROVE  /\ log' = log /\ position' = position
             /\ \A q \in Requests : pc'[q] = pc[q] \/ (pc[q] = "idle" /\ pc'[q] = "resolve")
  BY <1>1 DEF Begin, Goto, store
<1>2. CASE Generate
  BY <1>2 DEF Generate, GeneratorStarts, GeneratorTruncates, GeneratorWrites, GeneratorDies, store, Logged
<1>3. CASE Crash
  BY <1>3 DEF Crash, store, Logged
<1>4. CASE UNCHANGED vars
  BY <1>4 DEF vars, store, Logged
<1> QED
  BY <1>1, <1>2, <1>3, <1>4 DEF Next, Logged

LEMMA LeftNext ==
  ASSUME WorkflowInv, [Next]_vars, NEW r \in Requests
  PROVE  Left(r)' <= Left(r) /\ (Serve(r) => Left(r)' < Left(r))
<1>1. Left(r) \in Nat
  BY Parts, StepsType DEF Left
<1>2. CASE Serve(r) \/ RecordFails(r)
  <2>1. Left(r)' < Left(r)
    BY <1>2, ServeMoves
  <2>2. Left(r)' \in Nat
    <3>1. WorkflowInv'
      BY NextKeeps
    <3>2. position'[r] \in 0 .. Count
      BY <3>1 DEF WorkflowInv, TypeOK, RequestTypeOK
    <3> QED
      BY <3>2, StepsType DEF Left
  <2> QED
    BY <1>1, <2>1, <2>2
<1>3. CASE ~(Serve(r) \/ RecordFails(r))
  <2>1. CASE \E q \in Requests : Serve(q) \/ RecordFails(q)
    <3>1. PICK q \in Requests : Serve(q) \/ RecordFails(q)
      BY <2>1
    <3>2. pc'[r] = pc[r] /\ position'[r] = position[r]
      BY <1>3, <3>1, ServeMoves
    <3> QED
      BY <1>1, <1>3, <3>2 DEF Left
  <2>2. CASE ~\E q \in Requests : Serve(q) \/ RecordFails(q)
    <3>1. /\ position'[r] = position[r]
          /\ \/ pc'[r] = pc[r]
             \/ pc[r] = "idle" /\ pc'[r] = "resolve"
             \/ pc'[r] = "lost"
      BY <2>2, OthersMove
    <3> QED
      BY <1>1, <1>3, <3>1, OrderFacts DEF Left, Steps
  <2> QED
    BY <2>1, <2>2
<1> QED
  BY <1>2, <1>3

LEMMA LoggedNext == WorkflowInv /\ LoggedInv /\ [Next]_vars => LoggedInv'
<1> SUFFICES ASSUME WorkflowInv, LoggedInv, [Next]_vars, NEW q \in Requests, q \in Logged'
             PROVE  pc'[q] \in {"respond", "answered", "lost"}
  BY DEF LoggedInv
<1>1. CASE \E r \in Requests : Serve(r) \/ RecordFails(r)
  <2>1. PICK r \in Requests : Serve(r) \/ RecordFails(r)
    BY <1>1
  <2> QED
    BY <2>1, ServeMoves DEF LoggedInv
<1>2. CASE ~\E r \in Requests : Serve(r) \/ RecordFails(r)
  BY <1>2, OthersMove DEF LoggedInv, Ended
<1> QED
  BY <1>1, <1>2

LEMMA AlwaysReady ==
  ASSUME WorkflowInv, LoggedInv, NEW r \in Requests, Serving(r)
  PROVE  Ready(r)
<1>1. pc[r] \in Fronts \cup Reading \cup {"execute", "record", "respond"}
  BY Parts, StagesAre DEF Serving
<1>2. CASE pc[r] \in Fronts
  <2>1. Len(FrontStages) - 1 = 5
    BY DEF FrontStages
  <2>2. \E i \in 1 .. 5 : pc[r] = FrontStages[i]
    <3>1. {1, 2, 3, 4, 5} \subseteq 1 .. 5
      OBVIOUS
    <3>2. \E i \in {1, 2, 3, 4, 5} : pc[r] = FrontStages[i]
      BY <1>2 DEF FrontStages, Fronts
    <3> QED
      BY <3>1, <3>2
  <2> QED
    BY <2>1, <2>2 DEF Ready
<1>3. CASE pc[r] = "record"
  <2>1. r \notin Logged
    BY <1>3 DEF LoggedInv
  <2> QED
    BY <1>3, <2>1, SameLogged DEF Ready
<1>4. CASE pc[r] \in Reading \cup {"execute", "respond"}
  BY <1>4 DEF Ready, Reading
<1> QED
  BY <1>1, <1>2, <1>3, <1>4

\* However often the files are rewritten and whatever fails: a request that is served has a
\* step to take, in particular its evidence can still be recorded; that step brings it
\* nearer to its end, and no step of anybody else takes it further away (workflow.py answer).
THEOREM RequestsRunOut ==
  Spec => /\ [](\A r \in Requests : Left(r) \in Nat /\ (Serving(r) => Ready(r)))
          /\ [][\A r \in Requests : Left(r)' <= Left(r) /\ (Serve(r) => Left(r)' < Left(r))]_vars
<1>1. Init => LoggedInv
  BY DEF Init, LoggedInv, Logged
<1>2. WorkflowInv /\ LoggedInv => \A r \in Requests : Left(r) \in Nat /\ (Serving(r) => Ready(r))
  BY AlwaysReady, Parts, StepsType DEF Left
<1>3. WorkflowInv /\ [Next]_vars
        => [\A r \in Requests : Left(r)' <= Left(r) /\ (Serve(r) => Left(r)' < Left(r))]_vars
  BY LeftNext
<1> QED
  BY <1>1, <1>2, <1>3, LoggedNext, AlwaysWorkflowInv, PTL DEF Spec
=============================================================================
