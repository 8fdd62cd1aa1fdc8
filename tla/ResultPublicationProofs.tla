---------------------- MODULE ResultPublicationProofs ----------------------
(***************************************************************************)
(* For any number of finalizers and verifiers: whatever dies, the corpora  *)
(* are never behind their manifest, and the published artifact is whole,   *)
(* of one state of the repository, and reproducible once it is verified.   *)
(*                                                                         *)
(* All of it rests on one fact: the inputs only ever move forward.         *)
(***************************************************************************)
EXTENDS ResultPublication, TLAPS

Disks == [graph : Versions, v1 : Versions, v2 : Versions,
          signed : [hash : Versions, closures : Versions]]

\* The inputs of one state are no newer than those of another.
Before(a, b) == a.graph <= b.graph /\ a.v1 <= b.v1 /\ a.v2 <= b.v2

\* The files a migration replaces.
Outputs == {"v1", "v2", "signed"}

\* What is about to be written: not behind the corpora, not ahead of the graph, and the
\* files that were replaced hold it.
PendingInv ==
  /\ closures <= ClosureOf[disk.graph]
  /\ disk.v1 <= closures
  /\ stage = "writing" =>
       \/ Len(left) = 3 /\ left[1] = "v1" /\ left[2] = "v2" /\ left[3] = "signed"
       \/ Len(left) = 2 /\ left[1] = "v2" /\ left[2] = "signed" /\ disk.v1 = closures
       \/ Len(left) = 1 /\ left[1] = "signed" /\ disk.v1 = closures /\ disk.v2 = closures

MigrationInv ==
  /\ disk \in Disks /\ left \in Seq(Outputs)
  /\ hash \in Versions /\ closures \in Versions
  /\ stage \in {"idle", "imported", "derived", "validated", "writing"}
  /\ SignedNotAhead
  /\ stage \in {"derived", "validated", "writing"} => PendingInv

LEMMA VersionsAreNumbers == 0 \in Versions /\ \A n \in Versions : n \in Nat
  BY EditsAssumption DEF Versions

LEMMA MigrationInit == InitMigration => MigrationInv
  BY VersionsAreNumbers, ClosureAssumption
  DEF InitMigration, MigrationInv, Disks, SignedNotAhead

\* What a migration reads and writes are versions, and versions are numbers.
LEMMA DiskNumbers ==
  ASSUME MigrationInv
  PROVE  /\ disk.graph \in Versions /\ disk.v1 \in Versions /\ disk.v2 \in Versions
         /\ disk.signed.hash \in Versions /\ disk.signed.closures \in Versions
         /\ disk.graph \in Nat /\ disk.v1 \in Nat /\ disk.v2 \in Nat /\ disk.signed.closures \in Nat
         /\ closures \in Nat
         /\ ClosureOf[disk.graph] \in Versions /\ ClosureOf[disk.graph] \in Nat
<1>1. /\ disk.graph \in Versions /\ disk.v1 \in Versions /\ disk.v2 \in Versions
      /\ disk.signed.hash \in Versions /\ disk.signed.closures \in Versions
      /\ closures \in Versions
  BY DEF MigrationInv, Disks
<1>2. ClosureOf[disk.graph] \in Versions
  BY <1>1, ClosureAssumption
<1> QED BY <1>1, <1>2, VersionsAreNumbers

\* Before is about numbers.
LEMMA DiskStays ==
  ASSUME MigrationInv, UNCHANGED disk
  PROVE  disk' \in Disks /\ SignedNotAhead' /\ Before(disk, disk')
<1>1. disk' \in Disks /\ SignedNotAhead'
  BY DEF MigrationInv, SignedNotAhead
<1> QED BY <1>1, DiskNumbers DEF Before

LEMMA EndsKeeps ==
  ASSUME Ends, disk' \in Disks, SignedNotAhead' PROVE MigrationInv'
<1>1. 0 \in Versions /\ <<>> \in Seq(Outputs)
  BY VersionsAreNumbers
<1> QED BY <1>1 DEF Ends, MigrationInv

LEMMA TailOf ==
  ASSUME NEW s \in Seq(Outputs), Len(s) > 1
  PROVE  /\ Head(s) = s[1] /\ Tail(s) \in Seq(Outputs) /\ Len(Tail(s)) = Len(s) - 1
         /\ \A i \in 1 .. Len(s) - 1 : Tail(s)[i] = s[i + 1]
  OBVIOUS

\* The last of the three files, and each of the others, moves forward to what is pending.
LEMMA ReplaceStep ==
  ASSUME MigrationInv, Replace
  PROVE  MigrationInv' /\ Before(disk, disk')
<1>0. PendingInv /\ stage = "writing" /\ left \in Seq(Outputs) /\ SignedNotAhead /\ disk \in Disks
      /\ closures \in Versions
  BY DEF Replace, MigrationInv
<1>n. /\ disk.graph \in Nat /\ disk.v1 \in Nat /\ disk.v2 \in Nat /\ disk.signed.closures \in Nat
      /\ closures \in Nat /\ ClosureOf[disk.graph] \in Nat
  BY DiskNumbers
<1>r. disk' = [disk EXCEPT ![Head(left)] = Output(Head(left))]
  BY DEF Replace
<1>s. ASSUME Len(left) > 1 PROVE left' = Tail(left) /\ UNCHANGED <<stage, hash, closures>>
  BY <1>s DEF Replace
<1>1. CASE Len(left) = 3
  <2>0. left[1] = "v1" /\ left[2] = "v2" /\ left[3] = "signed"
    BY <1>0, <1>1 DEF PendingInv
  <2>1. Head(left) = "v1" /\ Tail(left) \in Seq(Outputs) /\ Len(Tail(left)) = 2
        /\ Tail(left)[1] = "v2" /\ Tail(left)[2] = "signed"
    <3>1. /\ Head(left) = left[1] /\ Tail(left) \in Seq(Outputs) /\ Len(Tail(left)) = 2
          /\ \A i \in 1 .. 2 : Tail(left)[i] = left[i + 1]
      BY <1>0, <1>1, TailOf
    <3>2. Tail(left)[1] = left[2] /\ Tail(left)[2] = left[3]
      BY <3>1
    <3> QED BY <2>0, <3>1, <3>2
  <2>2. disk' = [disk EXCEPT !.v1 = closures]
    BY <1>r, <2>1 DEF Output
  <2>3. /\ disk' \in Disks /\ disk'.v1 = closures /\ disk'.graph = disk.graph
        /\ disk'.v2 = disk.v2 /\ disk'.signed = disk.signed
    BY <2>2, <1>0 DEF Disks
  <2>4. SignedNotAhead' /\ Before(disk, disk')
    BY <1>0, <1>n, <2>3 DEF SignedNotAhead, PendingInv, Before
  <2>5. Len(left') = 2 /\ left'[1] = "v2" /\ left'[2] = "signed"
        /\ closures' = closures /\ UNCHANGED <<stage, hash>>
    <3>1. left' = Tail(left) /\ UNCHANGED <<stage, hash, closures>>
      BY <1>s, <1>1
    <3> QED BY <3>1, <2>1
  <2>6. PendingInv'
    BY <1>0, <1>n, <2>3, <2>5 DEF PendingInv
  <2> QED BY <1>0, <1>s, <1>1, <2>1, <2>3, <2>4, <2>5, <2>6 DEF MigrationInv
<1>2. CASE Len(left) = 2
  <2>0. left[1] = "v2" /\ left[2] = "signed"
    BY <1>0, <1>2 DEF PendingInv
  <2>1. Head(left) = "v2" /\ Tail(left) \in Seq(Outputs) /\ Len(Tail(left)) = 1
        /\ Tail(left)[1] = "signed"
    BY <1>0, <1>2, <2>0, TailOf
  <2>2. disk' = [disk EXCEPT !.v2 = closures]
    BY <1>r, <2>1 DEF Output
  <2>3. /\ disk' \in Disks /\ disk'.v2 = closures /\ disk'.graph = disk.graph
        /\ disk'.v1 = disk.v1 /\ disk'.signed = disk.signed /\ disk.v1 = closures
    BY <2>2, <1>0, <1>2 DEF Disks, PendingInv
  <2>4. SignedNotAhead' /\ Before(disk, disk')
    BY <1>0, <1>n, <2>3 DEF SignedNotAhead, PendingInv, Before
  <2>5. Len(left') = 1 /\ left'[1] = "signed" /\ closures' = closures /\ UNCHANGED <<stage, hash>>
    <3>1. left' = Tail(left) /\ UNCHANGED <<stage, hash, closures>>
      BY <1>s, <1>2
    <3> QED BY <3>1, <2>1
  <2>6. PendingInv'
    BY <1>0, <1>n, <2>3, <2>5 DEF PendingInv
  <2> QED BY <1>0, <1>s, <1>2, <2>1, <2>3, <2>4, <2>5, <2>6 DEF MigrationInv
<1>3. CASE Len(left) = 1
  <2>1. Head(left) = "signed" /\ disk.v1 = closures /\ disk.v2 = closures
    BY <1>0, <1>3 DEF PendingInv
  <2>2. disk' = [disk EXCEPT !.signed = [hash |-> hash, closures |-> closures]]
    BY <1>r, <2>1 DEF Output
  <2>3. Ends
    BY <1>3 DEF Replace
  <2>4. hash \in Versions
    BY DEF MigrationInv
  <2>5. /\ disk' \in Disks /\ disk'.signed.closures = closures /\ disk'.graph = disk.graph
        /\ disk'.v1 = disk.v1 /\ disk'.v2 = disk.v2
    BY <2>2, <1>0, <2>4 DEF Disks
  <2>6. SignedNotAhead' /\ Before(disk, disk')
    BY <1>0, <1>n, <2>1, <2>5 DEF SignedNotAhead, Before
  <2> QED BY <2>3, <2>5, <2>6, EndsKeeps
<1> QED BY <1>0, <1>1, <1>2, <1>3 DEF PendingInv

\* The graph moves forward, and with it what its closures may be.
LEMMA EditStep ==
  ASSUME MigrationInv, EditGraph
  PROVE  MigrationInv' /\ Before(disk, disk')
<1>0. disk \in Disks /\ SignedNotAhead /\ UNCHANGED <<stage, left, hash, closures>>
  BY DEF EditGraph, MigrationInv, migration
<1>n. /\ disk.graph \in Nat /\ disk.v1 \in Nat /\ disk.v2 \in Nat /\ disk.signed.closures \in Nat
      /\ closures \in Nat /\ ClosureOf[disk.graph] \in Nat /\ disk.graph \in Versions
  BY DiskNumbers
<1>1. disk.graph + 1 \in Versions
  BY <1>n, EditsAssumption DEF EditGraph, Versions
<1>2. /\ disk' \in Disks /\ disk'.graph = disk.graph + 1
      /\ disk'.v1 = disk.v1 /\ disk'.v2 = disk.v2 /\ disk'.signed = disk.signed
  BY <1>0, <1>1 DEF EditGraph, Disks
<1>3. ClosureOf[disk.graph] <= ClosureOf[disk'.graph] /\ ClosureOf[disk'.graph] \in Nat
  <2>1. disk.graph <= disk.graph + 1
    BY <1>n
  <2> QED BY <2>1, <1>n, <1>1, <1>2, ClosureAssumption, VersionsAreNumbers
<1>4. SignedNotAhead' /\ Before(disk, disk')
  BY <1>0, <1>n, <1>2, <1>3 DEF SignedNotAhead, Before
<1>5. PendingInv => PendingInv'
  BY <1>0, <1>n, <1>2, <1>3 DEF PendingInv
<1> QED BY <1>0, <1>2, <1>4, <1>5 DEF MigrationInv

LEMMA MigrationStep ==
  ASSUME MigrationInv, Migrate \/ EditGraph
  PROVE  MigrationInv' /\ Before(disk, disk')
<1>n. disk.graph \in Versions /\ ClosureOf[disk.graph] \in Versions
      /\ disk.v1 \in Nat /\ ClosureOf[disk.graph] \in Nat
  BY DiskNumbers
<1>1. CASE Import
  <2>1. UNCHANGED disk
    BY <1>1 DEF Import
  <2> QED BY <1>1, <2>1, <1>n, DiskStays DEF Import, MigrationInv
<1>2. CASE Derive
  <2>1. UNCHANGED disk
    BY <1>2 DEF Derive
  <2>2. PendingInv'
    BY <1>2, <1>n DEF Derive, Derived, PendingInv, MigrationInv, SignedNotAhead
  <2> QED BY <1>2, <2>1, <2>2, <1>n, DiskStays DEF Derive, Derived, MigrationInv
<1>3. CASE Validate
  <2>1. UNCHANGED disk
    BY <1>3 DEF Validate
  <2>2. PendingInv'
    BY <1>3 DEF Validate, PendingInv, MigrationInv
  <2> QED BY <1>3, <2>1, <2>2, DiskStays DEF Validate, MigrationInv
<1>4. CASE Recheck
  <2>1. /\ Len(WriteOrder) = 3 /\ WriteOrder \in Seq(Outputs)
        /\ WriteOrder[1] = "v1" /\ WriteOrder[2] = "v2" /\ WriteOrder[3] = "signed"
    <3>1. Len(WriteOrder) = 3
      BY DEF WriteOrder
    <3>2. WriteOrder \in Seq(Outputs)
      BY DEF WriteOrder, Outputs
    <3>3. WriteOrder[1] = "v1"
      BY DEF WriteOrder
    <3>4. WriteOrder[2] = "v2"
      BY DEF WriteOrder
    <3>5. WriteOrder[3] = "signed"
      BY DEF WriteOrder
    <3> QED BY <3>1, <3>2, <3>3, <3>4, <3>5
  <2>2. UNCHANGED disk
    BY <1>4 DEF Recheck
  <2>3. PendingInv'
    BY <1>4, <2>1 DEF Recheck, PendingInv, MigrationInv
  <2> QED BY <1>4, <2>1, <2>2, <2>3, DiskStays DEF Recheck, MigrationInv
<1>5. CASE Abandon
  BY <1>5, DiskStays, EndsKeeps DEF Abandon
<1> QED BY <1>1, <1>2, <1>3, <1>4, <1>5, ReplaceStep, EditStep DEF Migrate
-----------------------------------------------------------------------------
(***************************************************************************)
(* What a job has read.                                                    *)
(***************************************************************************)
\* The inputs that are versions; the manifest of the migration is read once, and for one thing.
Ordered == {"graph", "v1", "v2"}

LEMMA ReadsFacts ==
  /\ Len(Reads) = 11
  /\ \A i \in 1 .. 11 : Reads[i][1] \in Ordered \/ (Reads[i][1] = "signed" /\ i = 9)
  /\ Reads[1][1] = "graph" /\ Reads[6][1] = "graph" /\ Reads[7][1] = "v1" /\ Reads[8][1] = "v2"
  /\ Reads[9][1] = "signed"
<1>1. Len(Reads) = 11
  BY DEF Reads
<1>2. /\ Reads[1] = <<"graph", "results">> /\ Reads[2] = <<"v1", "results">>
      /\ Reads[3] = <<"v2", "results">> /\ Reads[4] = <<"v1", "dataset_sha256">>
      /\ Reads[5] = <<"v2", "dataset_sha256">> /\ Reads[6] = <<"graph", "hash_manifest">>
      /\ Reads[7] = <<"v1", "hash_manifest">> /\ Reads[8] = <<"v2", "hash_manifest">>
      /\ Reads[9] = <<"signed", "hash_manifest">> /\ Reads[10] = <<"graph", "validation">>
      /\ Reads[11] = <<"graph", "data_sha256">>
  BY DEF Reads
<1>3. /\ Reads[1][1] = "graph" /\ Reads[2][1] = "v1" /\ Reads[3][1] = "v2" /\ Reads[4][1] = "v1"
      /\ Reads[5][1] = "v2" /\ Reads[6][1] = "graph" /\ Reads[7][1] = "v1" /\ Reads[8][1] = "v2"
      /\ Reads[9][1] = "signed" /\ Reads[10][1] = "graph" /\ Reads[11][1] = "graph"
  BY <1>2
<1>4. ASSUME NEW i \in 1 .. 11
      PROVE  Reads[i][1] \in Ordered \/ (Reads[i][1] = "signed" /\ i = 9)
  <2>1. i = 1 \/ i = 2 \/ i = 3 \/ i = 4 \/ i = 5 \/ i = 6 \/ i = 7 \/ i = 8 \/ i = 9 \/ i = 10 \/ i = 11
    OBVIOUS
  <2> QED BY <2>1, <1>3 DEF Ordered
<1> QED BY <1>1, <1>3, <1>4

LEMMA CoveredFacts ==
  /\ Len(Covered) = 4
  /\ Covered[1] = "graph" /\ Covered[2] = "v1" /\ Covered[3] = "v2" /\ Covered[4] = "signed"
<1>1. Len(Covered) = 4
  BY DEF Covered
<1>2. Covered[1] = "graph"
  BY DEF Covered
<1>3. Covered[2] = "v1"
  BY DEF Covered
<1>4. Covered[3] = "v2"
  BY DEF Covered
<1>5. Covered[4] = "signed"
  BY DEF Covered
<1> QED BY <1>1, <1>2, <1>3, <1>4, <1>5

LEMMA ManifestFacts ==
  ASSUME NEW a
  PROVE  Manifest(a) = [i \in 1 .. 4 |-> a[i + 5]]
<1>1. \A i \in 1 .. 4 : InReads[i] = i + 5
  BY CoveredFacts DEF InReads
<1> QED BY <1>1, CoveredFacts DEF Manifest

\* What was read is no newer than the inputs of a state.
Bounded(s, d) ==
  \A i \in 1 .. Len(s) : Reads[i][1] \in Ordered => s[i] \in Versions /\ s[i] <= d[Reads[i][1]]

\* What was read is no older than an artifact.
NoOlder(s, a) ==
  \A i \in 1 .. 11, k \in 1 .. Len(s) :
     Reads[i][1] \in Ordered /\ Reads[i][1] = Reads[k][1] => a[i] <= s[k]

IsDraft(s)    == s \in Seq(Data) /\ Len(s) <= 11 /\ Bounded(s, disk)
IsArtifact(a) == IsDraft(a) /\ Len(a) = 11

\* A state of the inputs between the first and the last read of an artifact's manifest.
Around(a, m) ==
  /\ m \in moments /\ Before(m, disk)
  /\ a[6] <= m.graph /\ a[7] <= m.v1 /\ a[8] <= m.v2 /\ a[9] = m.signed

\* The manifest the job builds itself is read after that state.
SeenAfter(s, m) ==
  /\ Len(s) >= 1 => m.graph <= s[1]
  /\ Len(s) >= 2 => m.v1 <= s[2]
  /\ Len(s) >= 3 => m.v2 <= s[3]

WasOnDisk(a) == \E m \in moments : Manifest(a) = [i \in 1 .. Len(Covered) |-> m[Covered[i]]]

\* What an artifact has to do with the one that is to be verified.
Follows(j, s) ==
  task[j] = "verify" =>
    /\ pinned[j] \in Conforming
    /\ earlier[j] # Absent => NoOlder(s, earlier[j])
    /\ Len(s) >= 1 => pinned[j] <= s[1]
-----------------------------------------------------------------------------
WorldInv ==
  /\ MigrationInv
  /\ moments \subseteq Disks /\ disk \in moments
  /\ published # Absent => IsArtifact(published) /\ WasOnDisk(published)

PcValues == {"idle", "assets", "benchmark", "writing", "finished", "accepted",
             "loaded", "recorded", "passed"}

TypeInv ==
  /\ task \in [Jobs -> {"none", "finalize", "verify"}]
  /\ pc \in [Jobs -> PcValues]
  /\ draft \in [Jobs -> Seq(Data)] /\ seen \in [Jobs -> Seq(Data)]
  /\ DOMAIN temp = Jobs /\ DOMAIN claim = Jobs /\ DOMAIN earlier = Jobs /\ DOMAIN pinned = Jobs

\* A job that reads nothing has read nothing.
IdleInv(j) ==
  /\ pc[j] \notin {"assets", "benchmark", "writing"} => Len(draft[j]) = 0
  /\ pc[j] \notin {"finished", "loaded", "recorded"} => Len(seen[j]) = 0
  /\ pc[j] \in {"idle", "assets", "benchmark", "passed"} => temp[j] = Absent

\* The asset worker reads versions of the graph, each no older than the one before.
WorkerInv(j) ==
  pc[j] = "assets" =>
    /\ task[j] = "verify" /\ Len(draft[j]) <= 4
    /\ \A i \in 1 .. Len(draft[j]) :
         /\ draft[j][i] \in Versions /\ draft[j][i] <= disk.graph
         /\ \A k \in 1 .. i : draft[j][k] <= draft[j][i]

DraftInv(j) ==
  pc[j] \in {"benchmark", "writing"} =>
    /\ IsDraft(draft[j]) /\ Follows(j, draft[j])
    /\ pc[j] = "writing" => Len(draft[j]) = 11
    /\ Len(draft[j]) >= 9 => \E m \in moments : Around(draft[j], m)

CandidateInv(j) ==
  /\ pc[j] \in {"finished", "accepted", "loaded", "recorded"} => IsArtifact(temp[j]) /\ Follows(j, temp[j])
  /\ pc[j] = "finished" => \E m \in moments : Around(temp[j], m) /\ SeenAfter(seen[j], m)
  /\ pc[j] = "accepted" => WasOnDisk(temp[j])

VerifierInv(j) ==
  /\ task[j] = "verify" =>
       /\ pinned[j] \in Versions /\ pinned[j] <= disk.graph
       /\ earlier[j] # Absent => IsArtifact(earlier[j]) /\ earlier[j][1] <= pinned[j]
  /\ pc[j] \in {"loaded", "recorded"} => task[j] = "verify" /\ claim[j] # Absent

PassedInv(j) ==
  pc[j] = "passed" /\ claim[j] = earlier[j] => Reproducible(claim[j]) /\ claim[j][1] \in Conforming

JobInv(j) == IdleInv(j) /\ WorkerInv(j) /\ DraftInv(j) /\ CandidateInv(j) /\ VerifierInv(j) /\ PassedInv(j)

PublicationInv == WorldInv /\ TypeInv /\ \A j \in Jobs : JobInv(j)
-----------------------------------------------------------------------------
(***************************************************************************)
(* The inputs move forward, and what was read of them stays in the past.   *)
(***************************************************************************)
LEMMA BeforeTransitive ==
  ASSUME NEW a \in Disks, NEW b \in Disks, NEW c \in Disks, Before(a, b), Before(b, c)
  PROVE  Before(a, c)
<1>1. /\ a.graph \in Nat /\ a.v1 \in Nat /\ a.v2 \in Nat /\ b.graph \in Nat /\ b.v1 \in Nat /\ b.v2 \in Nat
      /\ c.graph \in Nat /\ c.v1 \in Nat /\ c.v2 \in Nat
  BY VersionsAreNumbers DEF Disks
<1> QED BY <1>1 DEF Before

\* An input of a later state is no older.
LEMMA BeforeEach ==
  ASSUME NEW a \in Disks, NEW b \in Disks, Before(a, b), NEW f \in Ordered
  PROVE  a[f] \in Nat /\ b[f] \in Nat /\ a[f] <= b[f] /\ a[f] \in Versions /\ b[f] \in Versions
<1>1. /\ a.graph \in Versions /\ a.v1 \in Versions /\ a.v2 \in Versions
      /\ b.graph \in Versions /\ b.v1 \in Versions /\ b.v2 \in Versions
  BY DEF Disks
<1>2. CASE f = "graph"
  BY <1>1, <1>2, VersionsAreNumbers DEF Before
<1>3. CASE f = "v1"
  BY <1>1, <1>3, VersionsAreNumbers DEF Before
<1>4. CASE f = "v2"
  BY <1>1, <1>4, VersionsAreNumbers DEF Before
<1> QED BY <1>2, <1>3, <1>4 DEF Ordered

LEMMA BoundedStays ==
  ASSUME NEW s, Bounded(s, disk), disk \in Disks, disk' \in Disks, Before(disk, disk')
  PROVE  Bounded(s, disk')
<1> SUFFICES ASSUME NEW i \in 1 .. Len(s), Reads[i][1] \in Ordered
             PROVE  s[i] \in Versions /\ s[i] <= disk'[Reads[i][1]]
  BY DEF Bounded
<1>1. s[i] \in Versions /\ s[i] <= disk[Reads[i][1]]
  BY DEF Bounded
<1>2. disk[Reads[i][1]] \in Nat /\ disk'[Reads[i][1]] \in Nat
      /\ disk[Reads[i][1]] <= disk'[Reads[i][1]]
  BY BeforeEach
<1> QED BY <1>1, <1>2, VersionsAreNumbers

\* What a job has read does not change when only the inputs do, or only another job moves.
LEMMA JobStays ==
  ASSUME WorldInv, MigrationInv', Before(disk, disk'), moments \subseteq moments',
         moments \subseteq Disks, NEW j \in Jobs, JobInv(j),
         task'[j] = task[j], pc'[j] = pc[j], draft'[j] = draft[j], temp'[j] = temp[j],
         seen'[j] = seen[j], claim'[j] = claim[j], pinned'[j] = pinned[j], earlier'[j] = earlier[j]
  PROVE  JobInv(j)'
<1>0. disk \in Disks /\ disk' \in Disks
  BY DEF WorldInv, MigrationInv
<1>1. \A s : IsDraft(s) => IsDraft(s)'
  BY <1>0, BoundedStays DEF IsDraft
<1>2. \A s : IsArtifact(s) => IsArtifact(s)'
  BY <1>1 DEF IsArtifact
<1>3. \A s, m : Around(s, m) => Around(s, m)'
  BY <1>0, BeforeTransitive DEF Around
<1>4. \A s : Follows(j, s) => Follows(j, s)'
  BY DEF Follows
<1>5. \A s : WasOnDisk(s) => WasOnDisk(s)'
  BY DEF WasOnDisk
<1>6. disk.graph \in Nat /\ disk'.graph \in Nat /\ disk.graph <= disk'.graph
  BY <1>0, VersionsAreNumbers DEF Disks, Before
<1>7. \A n \in Versions : n <= disk.graph => n <= disk'.graph
  BY <1>6, VersionsAreNumbers
<1>a. IdleInv(j)'
  BY DEF JobInv, IdleInv
<1>b. WorkerInv(j)'
  BY <1>7 DEF JobInv, WorkerInv
<1>c. DraftInv(j)'
  BY <1>1, <1>3, <1>4 DEF JobInv, DraftInv
<1>d. CandidateInv(j)'
  BY <1>2, <1>3, <1>4, <1>5 DEF JobInv, CandidateInv
<1>e. VerifierInv(j)'
  BY <1>2, <1>7 DEF JobInv, VerifierInv
<1>f. PassedInv(j)'
  BY DEF JobInv, PassedInv
<1> QED BY <1>a, <1>b, <1>c, <1>d, <1>e, <1>f DEF JobInv

\* The published artifact stays what it is while it is not replaced.
LEMMA WorldStays ==
  ASSUME WorldInv, MigrationInv', Before(disk, disk'),
         moments \subseteq moments', moments' \subseteq Disks, disk' \in moments', UNCHANGED published
  PROVE  WorldInv'
<1>0. disk \in Disks /\ disk' \in Disks
  BY DEF WorldInv, MigrationInv
<1>1. published # Absent => IsArtifact(published)'
  BY <1>0, BoundedStays DEF WorldInv, IsArtifact, IsDraft
<1>2. published # Absent => WasOnDisk(published)'
  BY DEF WorldInv, WasOnDisk
<1> QED BY <1>1, <1>2 DEF WorldInv

LEMMA PublicationInit == Init => PublicationInv
<1> SUFFICES ASSUME Init PROVE PublicationInv  OBVIOUS
<1>1. disk \in Disks /\ MigrationInv
  BY MigrationInit DEF Init, MigrationInv
<1>2. WorldInv
  BY <1>1 DEF Init, WorldInv
<1>3. TypeInv
  BY DEF Init, TypeInv, PcValues
<1>4. ASSUME NEW j \in Jobs PROVE JobInv(j)
  <2>1. task[j] = "none" /\ pc[j] = "idle" /\ Len(draft[j]) = 0 /\ Len(seen[j]) = 0 /\ temp[j] = Absent
    BY DEF Init
  <2> QED BY <2>1 DEF JobInv, IdleInv, WorkerInv, DraftInv, CandidateInv, VerifierInv, PassedInv
<1> QED BY <1>2, <1>3, <1>4 DEF PublicationInv

\* The inputs change.
LEMMA ChangeStep == PublicationInv /\ Change => PublicationInv'
<1> SUFFICES ASSUME PublicationInv, Change PROVE PublicationInv'  OBVIOUS
<1>1. MigrationInv' /\ Before(disk, disk') /\ disk' \in Disks
  BY MigrationStep DEF PublicationInv, WorldInv, Change, MigrationInv
<1>2. moments' = moments \cup {disk'} /\ UNCHANGED jobs
  BY DEF Change
<1>3. WorldInv'
  BY <1>1, <1>2, WorldStays DEF PublicationInv, WorldInv, jobs
<1>4. TypeInv'
  BY <1>2 DEF PublicationInv, TypeInv, jobs
<1>5. ASSUME NEW j \in Jobs PROVE JobInv(j)'
  BY <1>1, <1>2, JobStays DEF PublicationInv, WorldInv, jobs
<1> QED BY <1>3, <1>4, <1>5 DEF PublicationInv
-----------------------------------------------------------------------------
(***************************************************************************)
(* The steps of a job.                                                     *)
(***************************************************************************)
LEMMA AppendFacts ==
  ASSUME NEW s \in Seq(Data), NEW x \in Data
  PROVE  /\ Append(s, x) \in Seq(Data) /\ Len(Append(s, x)) = Len(s) + 1 /\ Len(s) \in Nat
         /\ \A i \in 1 .. Len(s) : Append(s, x)[i] = s[i]
         /\ Append(s, x)[Len(s) + 1] = x
  OBVIOUS

\* A sequence that is not full yet.
LEMMA IndexBelow ==
  /\ \A s \in Seq(Data) : Len(s) < 4 => Len(s) \in 0 .. 3
  /\ \A s \in Seq(Data) : Len(s) < 11 => Len(s) \in 0 .. 10
<1>1. \A n \in Nat : (n < 4 => n \in 0 .. 3) /\ (n < 11 => n \in 0 .. 10)
  OBVIOUS
<1>2. \A s \in Seq(Data) : Len(s) \in Nat
  OBVIOUS
<1> HIDE DEF Data
<1> QED BY <1>1, <1>2

LEMMA DiskIsData ==
  ASSUME MigrationInv
  PROVE  /\ \A f \in Ordered : disk[f] \in Versions /\ disk[f] \in Data
         /\ disk["signed"] \in Data /\ disk.graph \in Data
<1>1. disk.graph \in Versions /\ disk.v1 \in Versions /\ disk.v2 \in Versions
      /\ disk.signed \in [hash : Versions, closures : Versions]
  BY DEF MigrationInv, Disks
<1> QED BY <1>1 DEF Ordered, Data

\* Another job holds what it held.
OthersSame(j) ==
  \A k \in Jobs \ {j} :
    /\ task'[k] = task[k] /\ pc'[k] = pc[k] /\ draft'[k] = draft[k] /\ temp'[k] = temp[k]
    /\ seen'[k] = seen[k] /\ claim'[k] = claim[k] /\ pinned'[k] = pinned[k]
    /\ earlier'[k] = earlier[k]

\* What a job reads are versions and the migration's manifest: the types hold.
LEMMA BuildsManifestType ==
  ASSUME PublicationInv, NEW j \in Jobs, BuildsManifest(j)
  PROVE  TypeInv' /\ OthersSame(j)
<1>1. Len(seen[j]) \in 0 .. 3 /\ seen[j] \in Seq(Data)
  <2>1. seen[j] \in Seq(Data) /\ Len(seen[j]) < 4
    BY CoveredFacts DEF BuildsManifest, PublicationInv, TypeInv
  <2> QED BY <2>1, IndexBelow
<1>2. disk[Covered[Len(seen[j]) + 1]] \in Data
  <2>1. Len(seen[j]) = 0 \/ Len(seen[j]) = 1 \/ Len(seen[j]) = 2 \/ Len(seen[j]) = 3
    BY <1>1
  <2>2. disk["graph"] \in Data /\ disk["v1"] \in Data /\ disk["v2"] \in Data /\ disk["signed"] \in Data
    BY DiskIsData DEF PublicationInv, WorldInv, Ordered
  <2>3. Covered[Len(seen[j]) + 1] \in {"graph", "v1", "v2", "signed"}
    <3> DEFINE n == Len(seen[j])
    <3>1. n = 0 \/ n = 1 \/ n = 2 \/ n = 3
      BY <2>1
    <3> HIDE DEF n
    <3>2. n + 1 = 1 \/ n + 1 = 2 \/ n + 1 = 3 \/ n + 1 = 4
      BY <3>1
    <3>3. Covered[n + 1] \in {"graph", "v1", "v2", "signed"}
      BY <3>2, CoveredFacts
    <3> QED BY <3>3 DEF n
  <2> QED BY <2>2, <2>3
<1>3. Append(seen[j], disk[Covered[Len(seen[j]) + 1]]) \in Seq(Data)
  BY <1>1, <1>2
<1> QED BY <1>3 DEF BuildsManifest, PublicationInv, TypeInv, OthersSame

LEMMA ChildReadsDisk ==
  ASSUME PublicationInv, NEW j \in Jobs, ChildReads(j)
  PROVE  /\ Len(draft[j]) \in 0 .. 10 /\ draft[j] \in Seq(Data)
         /\ disk[Reads[Len(draft[j]) + 1][1]] \in Data
<1>1. Len(draft[j]) \in 0 .. 10 /\ draft[j] \in Seq(Data)
  <2>1. draft[j] \in Seq(Data) /\ Len(draft[j]) < 11
    BY ReadsFacts DEF ChildReads, PublicationInv, TypeInv
  <2> QED BY <2>1, IndexBelow
<1>2. Reads[Len(draft[j]) + 1][1] \in Ordered \cup {"signed"}
  <2> DEFINE n == Len(draft[j])
  <2>1. n + 1 \in 1 .. 11
    <3>1. n \in 0 .. 10
      BY <1>1
    <3> HIDE DEF n
    <3> QED BY <3>1
  <2> QED BY <2>1, ReadsFacts
<1> QED BY <1>1, <1>2, DiskIsData DEF PublicationInv, WorldInv

LEMMA TypeStep ==
  ASSUME PublicationInv, NEW j \in Jobs, Child(j) \/ Finalizer(j) \/ Verifier(j)
  PROVE  TypeInv' /\ OthersSame(j) /\ UNCHANGED world
<1>0. TypeInv /\ <<>> \in Seq(Data)
  BY DEF PublicationInv
<1>1. CASE ChildReads(j)
  <2>1. Append(draft[j], disk[Reads[Len(draft[j]) + 1][1]]) \in Seq(Data)
    BY <1>1, ChildReadsDisk
  <2> QED BY <1>0, <1>1, <2>1 DEF ChildReads, TypeInv, OthersSame
<1>2. CASE ChildTruncates(j)
  <2>1. TypeInv'
    BY <1>0, <1>2 DEF ChildTruncates, Goes, Opens, PcValues, TypeInv
  <2>2. OthersSame(j) /\ UNCHANGED world
    BY <1>0, <1>2 DEF ChildTruncates, Goes, Opens, PcValues, TypeInv, OthersSame
  <2> QED BY <2>1, <2>2
<1>3. CASE ChildWrites(j)
  <2>1. TypeInv'
    BY <1>0, <1>3 DEF ChildWrites, Goes, PcValues, TypeInv
  <2>2. OthersSame(j) /\ UNCHANGED world
    BY <1>0, <1>3 DEF ChildWrites, Goes, PcValues, TypeInv, OthersSame
  <2> QED BY <2>1, <2>2
<1>4. CASE Fails(j)
  <2>1. TypeInv'
    BY <1>0, <1>4 DEF Fails, PcValues, TypeInv
  <2>2. OthersSame(j) /\ UNCHANGED world
    BY <1>0, <1>4 DEF Fails, PcValues, TypeInv, OthersSame
  <2> QED BY <2>1, <2>2
<1>5. CASE Finalize(j)
  <2>1. TypeInv'
    BY <1>0, <1>5 DEF Finalize, Begins, PcValues, TypeInv
  <2>2. OthersSame(j) /\ UNCHANGED world
    BY <1>0, <1>5 DEF Finalize, Begins, PcValues, TypeInv, OthersSame
  <2> QED BY <2>1, <2>2
<1>6. CASE AcceptCandidate(j)
  <2>1. TypeInv'
    BY <1>0, <1>6 DEF AcceptCandidate, Goes, PcValues, TypeInv
  <2>2. OthersSame(j) /\ UNCHANGED world
    BY <1>0, <1>6 DEF AcceptCandidate, Goes, PcValues, TypeInv, OthersSame
  <2> QED BY <2>1, <2>2
<1>7. CASE Publish(j)
  <2>1. TypeInv'
    BY <1>0, <1>7 DEF Publish, Goes, PcValues, TypeInv
  <2>2. OthersSame(j) /\ UNCHANGED world
    BY <1>0, <1>7 DEF Publish, Goes, PcValues, TypeInv, OthersSame
  <2> QED BY <2>1, <2>2
<1>8. CASE ManifestAgain(j) \/ ComparesManifest(j)
  <2>1. BuildsManifest(j)
    BY <1>8 DEF ManifestAgain, ComparesManifest
  <2> QED BY <2>1, BuildsManifestType DEF BuildsManifest
<1>9. CASE WorkerReads(j)
  <2>1. disk.graph \in Data
    BY DiskIsData DEF PublicationInv, WorldInv
  <2>2. Append(draft[j], disk.graph) \in Seq(Data)
    BY <1>0, <2>1 DEF TypeInv
  <2> QED BY <1>0, <1>9, <2>2 DEF WorkerReads, TypeInv, OthersSame
<1>10. CASE Verify(j)
  <2>1. TypeInv'
    BY <1>0, <1>10 DEF Verify, Begins, PcValues, TypeInv
  <2>2. OthersSame(j) /\ UNCHANGED world
    BY <1>0, <1>10 DEF Verify, Begins, PcValues, TypeInv, OthersSame
  <2> QED BY <2>1, <2>2
<1>11. CASE AssetsHold(j)
  <2>1. TypeInv'
    BY <1>0, <1>11 DEF AssetsHold, Goes, PcValues, TypeInv
  <2>2. OthersSame(j) /\ UNCHANGED world
    BY <1>0, <1>11 DEF AssetsHold, Goes, PcValues, TypeInv, OthersSame
  <2> QED BY <2>1, <2>2
<1>12. CASE LoadPublished(j)
  <2>1. TypeInv'
    BY <1>0, <1>12 DEF LoadPublished, Goes, PcValues, TypeInv
  <2>2. OthersSame(j) /\ UNCHANGED world
    BY <1>0, <1>12 DEF LoadPublished, Goes, PcValues, TypeInv, OthersSame
  <2> QED BY <2>1, <2>2
<1>13. CASE RecordedManifestHolds(j)
  <2>1. TypeInv'
    BY <1>0, <1>13 DEF RecordedManifestHolds, Goes, PcValues, TypeInv
  <2>2. OthersSame(j) /\ UNCHANGED world
    BY <1>0, <1>13 DEF RecordedManifestHolds, Goes, PcValues, TypeInv, OthersSame
  <2> QED BY <2>1, <2>2
<1>14. CASE Pass(j)
  <2>1. TypeInv'
    BY <1>0, <1>14 DEF Pass, Goes, PcValues, TypeInv
  <2>2. OthersSame(j) /\ UNCHANGED world
    BY <1>0, <1>14 DEF Pass, Goes, PcValues, TypeInv, OthersSame
  <2> QED BY <2>1, <2>2
<1> QED BY <1>1, <1>2, <1>3, <1>4, <1>5, <1>6, <1>7, <1>8, <1>9, <1>10, <1>11, <1>12, <1>13, <1>14 DEF Child, Finalizer, Verifier

\* While the inputs stay, so does what is said of them.
LEMMA WorldSame ==
  ASSUME UNCHANGED world
  PROVE  /\ \A s : IsDraft(s)' <=> IsDraft(s)
         /\ \A s : IsArtifact(s)' <=> IsArtifact(s)
         /\ \A s : WasOnDisk(s)' <=> WasOnDisk(s)
         /\ \A s, m : Around(s, m)' <=> Around(s, m)
         /\ MigrationInv <=> MigrationInv'
  BY DEF world, migration, IsDraft, IsArtifact, WasOnDisk, Around,
         MigrationInv, SignedNotAhead, PendingInv

\* It is enough to look at the job that moves, and at what is published.
LEMMA OneMoves ==
  ASSUME PublicationInv, NEW j \in Jobs, Child(j) \/ Finalizer(j) \/ Verifier(j), JobInv(j)',
         published' # Absent => IsArtifact(published') /\ WasOnDisk(published')
  PROVE  PublicationInv'
<1>1. TypeInv' /\ OthersSame(j) /\ UNCHANGED world
  BY TypeStep
<1>2. MigrationInv' /\ Before(disk, disk') /\ moments' = moments /\ moments \subseteq Disks
  <2>1. MigrationInv /\ moments \subseteq Disks /\ UNCHANGED <<disk, moments>>
    BY <1>1 DEF world, PublicationInv, WorldInv
  <2> QED BY <1>1, <2>1, WorldSame, DiskStays
<1>3. WorldInv'
  <2>1. published' # Absent => IsArtifact(published)' /\ WasOnDisk(published)'
    BY <1>1 DEF world, IsArtifact, IsDraft, WasOnDisk
  <2> QED BY <1>1, <1>2, <2>1 DEF world, PublicationInv, WorldInv
<1>4. ASSUME NEW k \in Jobs \ {j} PROVE JobInv(k)'
  BY <1>1, <1>2, JobStays DEF OthersSame, PublicationInv
<1> QED BY <1>1, <1>3, <1>4 DEF PublicationInv

\* Nothing was read yet.
LEMMA EmptyReads ==
  ASSUME NEW s \in Seq(Data), Len(s) = 0
  PROVE  IsDraft(s) /\ \A a : NoOlder(s, a)
  BY DEF IsDraft, Bounded, NoOlder

\* One more input is read: it is as the disk has it, so no older than what was read before.
LEMMA ReadOn ==
  ASSUME MigrationInv, NEW s \in Seq(Data), IsDraft(s), Len(s) \in 0 .. 10,
         NEW t \in Seq(Data), t = Append(s, disk[Reads[Len(s) + 1][1]]),
         disk[Reads[Len(s) + 1][1]] \in Data
  PROVE  /\ IsDraft(t) /\ Len(t) = Len(s) + 1
         /\ \A i \in 1 .. Len(s) : t[i] = s[i]
         /\ t[Len(s) + 1] = disk[Reads[Len(s) + 1][1]]
         /\ \A a : IsArtifact(a) /\ NoOlder(s, a) => NoOlder(t, a)
<1> DEFINE n == Len(s)
<1>1. /\ Len(t) = n + 1 /\ n \in 0 .. 10
      /\ \A i \in 1 .. n : t[i] = s[i]
      /\ t[n + 1] = disk[Reads[n + 1][1]]
  BY AppendFacts
<1>2. Bounded(s, disk) /\ Len(s) = n
  BY DEF IsDraft
<1> HIDE DEF n
<1>3. \A k \in 1 .. Len(t) : k \in 1 .. n \/ k = n + 1
  BY <1>1
<1>4. Bounded(t, disk)
  <2> SUFFICES ASSUME NEW k \in 1 .. Len(t), Reads[k][1] \in Ordered
               PROVE  t[k] \in Versions /\ t[k] <= disk[Reads[k][1]]
    BY DEF Bounded
  <2>1. CASE k \in 1 .. n
    BY <1>1, <1>2, <2>1 DEF Bounded
  <2>2. CASE k = n + 1
    BY <1>1, <2>2, DiskIsData, VersionsAreNumbers
  <2> QED BY <1>3, <2>1, <2>2
<1>5. ASSUME NEW a, IsArtifact(a), NoOlder(s, a) PROVE NoOlder(t, a)
  <2> SUFFICES ASSUME NEW i \in 1 .. 11, NEW k \in 1 .. Len(t),
                      Reads[i][1] \in Ordered, Reads[i][1] = Reads[k][1]
               PROVE  a[i] <= t[k]
    BY DEF NoOlder
  <2>1. CASE k \in 1 .. n
    BY <1>1, <1>2, <1>5, <2>1 DEF NoOlder
  <2>2. CASE k = n + 1
    <3>1. a[i] <= disk[Reads[i][1]]
      BY <1>5 DEF IsArtifact, IsDraft, Bounded
    <3> QED BY <1>1, <2>2, <3>1
  <2> QED BY <1>3, <2>1, <2>2
<1>6. IsDraft(t)
  BY <1>1, <1>4 DEF IsDraft
<1> QED BY <1>1, <1>5, <1>6 DEF n

\* The manifest is read between the state the inputs are in now and the ones they will be in.
LEMMA ReadAround ==
  ASSUME MigrationInv, disk \in moments, NEW t \in Seq(Data), IsDraft(t), Len(t) = 9,
         t[9] = disk["signed"]
  PROVE  Around(t, disk)
<1>1. 6 \in 1 .. Len(t) /\ 7 \in 1 .. Len(t) /\ 8 \in 1 .. Len(t)
  OBVIOUS
<1>2. t[6] <= disk[Reads[6][1]] /\ t[7] <= disk[Reads[7][1]] /\ t[8] <= disk[Reads[8][1]]
  BY <1>1, ReadsFacts DEF IsDraft, Bounded, Ordered
<1>3. Before(disk, disk)
  BY DiskNumbers DEF Before
<1> QED BY <1>2, <1>3, ReadsFacts DEF Around

LEMMA ChildReadsStep ==
  ASSUME PublicationInv, NEW j \in Jobs, ChildReads(j)
  PROVE  JobInv(j)'
<1> DEFINE s == draft[j]
           t == draft'[j]
<1>0. UNCHANGED world /\ UNCHANGED <<task, pc, temp, seen, claim, pinned, earlier>> /\ pc[j] = "benchmark"
  BY DEF ChildReads
<1>1. /\ s \in Seq(Data) /\ Len(s) \in 0 .. 10 /\ disk[Reads[Len(s) + 1][1]] \in Data
      /\ t = Append(s, disk[Reads[Len(s) + 1][1]])
  BY ChildReadsDisk DEF ChildReads, PublicationInv, TypeInv
<1>2. t \in Seq(Data)
  BY <1>1, AppendFacts
<1>3. /\ JobInv(j) /\ MigrationInv /\ disk \in moments /\ IsDraft(s) /\ Follows(j, s)
      /\ Len(s) >= 9 => \E m \in moments : Around(s, m)
  BY <1>0 DEF PublicationInv, WorldInv, JobInv, DraftInv
<1> HIDE DEF s, t
<1>4. /\ IsDraft(t) /\ Len(t) = Len(s) + 1
      /\ \A i \in 1 .. Len(s) : t[i] = s[i]
      /\ t[Len(s) + 1] = disk[Reads[Len(s) + 1][1]]
      /\ \A a : IsArtifact(a) /\ NoOlder(s, a) => NoOlder(t, a)
  BY <1>1, <1>2, <1>3, ReadOn
<1>5. Follows(j, t)
  <2> SUFFICES ASSUME task[j] = "verify" PROVE Follows(j, t)
    BY DEF Follows
  <2>1. /\ pinned[j] \in Conforming /\ pinned[j] <= disk.graph
        /\ earlier[j] # Absent => IsArtifact(earlier[j]) /\ NoOlder(s, earlier[j])
        /\ Len(s) >= 1 => pinned[j] <= s[1]
    BY <1>3 DEF Follows, JobInv, VerifierInv
  <2>2. earlier[j] # Absent => NoOlder(t, earlier[j])
    BY <1>4, <2>1
  <2>3. pinned[j] <= t[1]
    <3>1. CASE Len(s) = 0
      <4>1. t[1] = disk[Reads[1][1]]
        BY <1>4, <3>1
      <4> QED BY <2>1, <4>1, ReadsFacts
    <3>2. CASE Len(s) # 0
      <4>1. Len(s) >= 1 /\ 1 \in 1 .. Len(s)
        BY <1>1, <3>2
      <4> QED BY <1>4, <2>1, <4>1
    <3> QED BY <3>1, <3>2
  <2> QED BY <2>1, <2>2, <2>3 DEF Follows
<1>6. Len(t) >= 9 => \E m \in moments : Around(t, m)
  <2> SUFFICES ASSUME Len(t) >= 9 PROVE \E m \in moments : Around(t, m)
    OBVIOUS
  <2>1. CASE Len(s) = 8
    <3>1. t[9] = disk["signed"] /\ Len(t) = 9
      BY <1>4, <2>1, ReadsFacts
    <3> QED BY <1>2, <1>3, <1>4, <3>1, ReadAround
  <2>2. CASE Len(s) # 8
    <3>1. Len(s) >= 9
      <4> DEFINE n == Len(s)
      <4>1. n \in 0 .. 10 /\ n + 1 >= 9 /\ n # 8
        BY <1>1, <1>4, <2>2
      <4> HIDE DEF n
      <4>2. n >= 9
        BY <4>1
      <4> QED BY <4>2 DEF n
    <3>2. PICK m \in moments : Around(s, m)
      BY <1>3, <3>1
    <3>3. t[6] = s[6] /\ t[7] = s[7] /\ t[8] = s[8] /\ t[9] = s[9]
      BY <1>1, <1>4, <3>1
    <3> QED BY <3>2, <3>3 DEF Around
  <2> QED BY <2>1, <2>2
<1>7. DraftInv(j)'
  <2>1. IsDraft(draft[j])' /\ Follows(j, draft[j])'
    BY <1>0, <1>4, <1>5, WorldSame DEF Follows, t
  <2>2. (Len(draft[j]) >= 9 => \E m \in moments : Around(draft[j], m))'
    BY <1>0, <1>6, WorldSame DEF t, world
  <2> QED BY <1>0, <2>1, <2>2 DEF DraftInv
<1>8. IdleInv(j)' /\ WorkerInv(j)' /\ CandidateInv(j)' /\ PassedInv(j)'
  BY <1>0, <1>3 DEF JobInv, IdleInv, WorkerInv, CandidateInv, PassedInv
<1>9. VerifierInv(j)'
  BY <1>0, <1>3, WorldSame DEF JobInv, VerifierInv, world
<1> QED BY <1>7, <1>8, <1>9 DEF JobInv

\* What the job knows of its verification does not change while the inputs stay.
LEMMA VerifierStays ==
  ASSUME NEW j \in Jobs, JobInv(j), UNCHANGED world,
         task'[j] = task[j], pinned'[j] = pinned[j], earlier'[j] = earlier[j],
         pc'[j] \in {"loaded", "recorded"} => task[j] = "verify" /\ claim'[j] # Absent
  PROVE  VerifierInv(j)' /\ \A s : Follows(j, s)' <=> Follows(j, s)
<1>1. disk' = disk
  BY DEF world
<1>2. \A s : IsArtifact(s)' <=> IsArtifact(s)
  BY WorldSame
<1>3. VerifierInv(j)'
  BY <1>1, <1>2 DEF JobInv, VerifierInv
<1>4. \A s : Follows(j, s)' <=> Follows(j, s)
  BY DEF Follows
<1> QED BY <1>3, <1>4

\* The file is truncated, and then written whole.
LEMMA ChildWritesStep ==
  ASSUME PublicationInv, NEW j \in Jobs, ChildTruncates(j) \/ ChildWrites(j)
  PROVE  JobInv(j)'
<1>0. UNCHANGED world /\ UNCHANGED <<task, seen, claim, pinned, earlier>> /\ JobInv(j)
  BY DEF ChildTruncates, ChildWrites, PublicationInv
<1>1. CASE ChildTruncates(j)
  <2>1. /\ pc[j] = "benchmark" /\ pc'[j] = "writing" /\ draft' = draft /\ Len(draft[j]) = 11
    BY <1>1, ReadsFacts DEF ChildTruncates, Goes, PublicationInv, TypeInv
  <2>2. VerifierInv(j)' /\ \A s : Follows(j, s)' <=> Follows(j, s)
    BY <1>0, <2>1, VerifierStays
  <2>3. DraftInv(j)'
    BY <1>0, <2>1, <2>2, WorldSame DEF JobInv, DraftInv, world
  <2>4. IdleInv(j)' /\ WorkerInv(j)' /\ CandidateInv(j)' /\ PassedInv(j)'
    BY <1>0, <2>1 DEF JobInv, IdleInv, WorkerInv, CandidateInv, PassedInv
  <2> QED BY <2>2, <2>3, <2>4 DEF JobInv
<1>2. CASE ChildWrites(j)
  <2>1. /\ pc[j] = "writing" /\ pc'[j] = "finished" /\ temp'[j] = draft[j] /\ Len(draft'[j]) = 0
    BY <1>2 DEF ChildWrites, Goes, PublicationInv, TypeInv
  <2>2. VerifierInv(j)' /\ \A s : Follows(j, s)' <=> Follows(j, s)
    BY <1>0, <2>1, VerifierStays
  <2>3. /\ IsArtifact(draft[j]) /\ Follows(j, draft[j]) /\ Len(seen[j]) = 0
        /\ \E m \in moments : Around(draft[j], m)
    <3>1. /\ IsDraft(draft[j]) /\ Follows(j, draft[j]) /\ Len(draft[j]) = 11 /\ Len(seen[j]) = 0
          /\ Len(draft[j]) >= 9 => \E m \in moments : Around(draft[j], m)
      BY <1>0, <2>1 DEF JobInv, IdleInv, DraftInv
    <3>2. Len(draft[j]) >= 9
      BY <3>1
    <3> QED BY <3>1, <3>2 DEF IsArtifact
  <2>4. IsArtifact(temp[j])' /\ Follows(j, temp[j])'
    BY <2>1, <2>2, <2>3, <1>0, WorldSame
  <2>5. (\E m \in moments : Around(temp[j], m) /\ SeenAfter(seen[j], m))'
    <3>1. PICK m \in moments : Around(draft[j], m)
      BY <2>3
    <3>2. Around(temp[j], m)' /\ m \in moments'
      BY <1>0, <2>1, <3>1 DEF world, Around
    <3>3. SeenAfter(seen[j], m)'
      BY <1>0, <2>3 DEF SeenAfter
    <3> QED BY <3>2, <3>3
  <2>6. CandidateInv(j)'
    BY <2>1, <2>4, <2>5 DEF CandidateInv
  <2>7. IdleInv(j)' /\ WorkerInv(j)' /\ DraftInv(j)' /\ PassedInv(j)'
    BY <1>0, <2>1 DEF JobInv, IdleInv, WorkerInv, DraftInv, PassedInv
  <2> QED BY <2>2, <2>6, <2>7 DEF JobInv
<1> QED BY <1>1, <1>2

\* A job that is idle, or is to begin its benchmark, has read nothing.
LEMMA FailsStep ==
  ASSUME PublicationInv, NEW j \in Jobs, Fails(j)
  PROVE  JobInv(j)'
<1>0. UNCHANGED world /\ UNCHANGED <<task, pinned, earlier>> /\ JobInv(j)
  BY DEF Fails, PublicationInv
<1>1. /\ pc'[j] = "idle" /\ Len(draft'[j]) = 0 /\ Len(seen'[j]) = 0 /\ temp'[j] = Absent
  BY DEF Fails, PublicationInv, TypeInv
<1>2. VerifierInv(j)'
  BY <1>0, <1>1, VerifierStays
<1> QED BY <1>1, <1>2 DEF JobInv, IdleInv, WorkerInv, DraftInv, CandidateInv, PassedInv

LEMMA FinalizeStep ==
  ASSUME PublicationInv, NEW j \in Jobs, Finalize(j)
  PROVE  JobInv(j)'
<1>0. /\ UNCHANGED <<world, draft, temp, seen>> /\ JobInv(j)
      /\ task'[j] = "finalize" /\ pc[j] \in {"idle", "passed"} /\ pc'[j] = "benchmark"
  BY DEF Finalize, Begins, PublicationInv, TypeInv
<1>1. Len(draft[j]) = 0 /\ Len(seen[j]) = 0 /\ temp[j] = Absent /\ draft[j] \in Seq(Data)
  BY <1>0 DEF JobInv, IdleInv, PublicationInv, TypeInv
<1>2. IsDraft(draft[j])'
  BY <1>0, <1>1, EmptyReads, WorldSame
<1>3. DraftInv(j)'
  BY <1>0, <1>1, <1>2 DEF DraftInv, Follows
<1> QED BY <1>0, <1>1, <1>3 DEF JobInv, IdleInv, WorkerInv, CandidateInv, VerifierInv, PassedInv

\* The manifest is built again: each of its inputs is read after the candidate was written.
LEMMA ManifestStep ==
  ASSUME PublicationInv, NEW j \in Jobs, ManifestAgain(j) \/ ComparesManifest(j)
  PROVE  JobInv(j)'
<1>0. /\ UNCHANGED <<world, task, pc, draft, temp, claim, pinned, earlier>> /\ JobInv(j)
      /\ pc[j] \in {"finished", "loaded", "recorded"} /\ BuildsManifest(j)
  BY DEF ManifestAgain, ComparesManifest, BuildsManifest, PublicationInv
<1>1. VerifierInv(j)' /\ \A s : Follows(j, s)' <=> Follows(j, s)
  BY <1>0, VerifierStays DEF JobInv, VerifierInv
<1>2. ASSUME pc[j] = "finished"
      PROVE  (\E m \in moments : Around(temp[j], m) /\ SeenAfter(seen[j], m))'
  <2> DEFINE n == Len(seen[j])
  <2>1. PICK m \in moments : Around(temp[j], m) /\ SeenAfter(seen[j], m)
    BY <1>0, <1>2 DEF JobInv, CandidateInv
  <2>2. /\ seen[j] \in Seq(Data) /\ n < 4 /\ n \in Nat
        /\ seen'[j] = Append(seen[j], disk[Covered[n + 1]])
    BY <1>0, CoveredFacts DEF BuildsManifest, PublicationInv, TypeInv
  <2>3. /\ Len(seen'[j]) = n + 1 /\ seen'[j][n + 1] = disk[Covered[n + 1]]
        /\ \A i \in 1 .. n : seen'[j][i] = seen[j][i]
    BY <2>2
  <2>4. m.graph <= disk.graph /\ m.v1 <= disk.v1 /\ m.v2 <= disk.v2
    BY <2>1 DEF Around, Before
  <2>5. /\ n >= 1 => m.graph <= seen[j][1]
        /\ n >= 2 => m.v1 <= seen[j][2]
        /\ n >= 3 => m.v2 <= seen[j][3]
    BY <2>1 DEF SeenAfter
  <2> HIDE DEF n
  <2>6. n = 0 \/ n = 1 \/ n = 2 \/ n = 3
    BY <2>2
  <2>7. SeenAfter(seen'[j], m)
    BY <2>3, <2>4, <2>5, <2>6, CoveredFacts DEF SeenAfter
  <2>8. Around(temp[j], m)' /\ m \in moments'
    BY <1>0, <2>1, WorldSame DEF Around, world
  <2> QED BY <2>7, <2>8 DEF SeenAfter
<1>3. CandidateInv(j)'
  <2>1. pc[j] = "finished" => (\E m \in moments : Around(temp[j], m) /\ SeenAfter(seen[j], m))'
    BY <1>2
  <2>2. IsArtifact(temp[j])' /\ Follows(j, temp[j])'
    BY <1>0, <1>1, WorldSame DEF JobInv, CandidateInv
  <2> QED BY <1>0, <2>1, <2>2 DEF CandidateInv
<1>4. IdleInv(j)' /\ WorkerInv(j)' /\ DraftInv(j)' /\ PassedInv(j)'
  BY <1>0 DEF JobInv, IdleInv, WorkerInv, DraftInv, PassedInv
<1> QED BY <1>1, <1>3, <1>4 DEF JobInv

\* The manifest read before a state and the one read after it agree: it is of that state.
LEMMA SameManifestOnDisk ==
  ASSUME WorldInv, NEW a, NEW s, NEW m, IsArtifact(a), Around(a, m), SeenAfter(s, m), SameManifest(a, s)
  PROVE  WasOnDisk(a)
<1>1. Len(s) = 4 /\ s = [i \in 1 .. 4 |-> a[i + 5]]
  BY CoveredFacts, ManifestFacts DEF SameManifest
<1>2. s[1] = a[6] /\ s[2] = a[7] /\ s[3] = a[8]
  BY <1>1
<1>3. a[6] \in Nat /\ a[7] \in Nat /\ a[8] \in Nat
  <2>1. 6 \in 1 .. Len(a) /\ 7 \in 1 .. Len(a) /\ 8 \in 1 .. Len(a)
    BY DEF IsArtifact
  <2> QED BY <2>1, ReadsFacts, VersionsAreNumbers DEF IsArtifact, IsDraft, Bounded, Ordered
<1>4. m \in moments /\ m.graph \in Nat /\ m.v1 \in Nat /\ m.v2 \in Nat
  BY VersionsAreNumbers DEF Around, WorldInv, Disks
<1>5. m.graph = a[6] /\ m.v1 = a[7] /\ m.v2 = a[8] /\ m.signed = a[9]
  BY <1>1, <1>2, <1>3, <1>4 DEF Around, SeenAfter
<1>6. \A i \in 1 .. 4 : a[i + 5] = m[Covered[i]]
  <2>1. \A i \in 1 .. 4 : i = 1 \/ i = 2 \/ i = 3 \/ i = 4
    OBVIOUS
  <2>2. a[1 + 5] = a[6] /\ a[2 + 5] = a[7] /\ a[3 + 5] = a[8] /\ a[4 + 5] = a[9]
    OBVIOUS
  <2> QED BY <1>5, <2>1, <2>2, CoveredFacts
<1>7. Manifest(a) = [i \in 1 .. Len(Covered) |-> m[Covered[i]]]
  BY <1>6, ManifestFacts, CoveredFacts
<1> QED BY <1>4, <1>7 DEF WasOnDisk

LEMMA AcceptCandidateStep ==
  ASSUME PublicationInv, NEW j \in Jobs, AcceptCandidate(j)
  PROVE  JobInv(j)'
<1>0. /\ UNCHANGED <<world, task, draft, temp, claim, pinned, earlier>> /\ JobInv(j)
      /\ pc[j] = "finished" /\ pc'[j] = "accepted" /\ Len(seen'[j]) = 0 /\ SameManifest(temp[j], seen[j])
  BY DEF AcceptCandidate, Goes, PublicationInv, TypeInv
<1>1. VerifierInv(j)' /\ \A s : Follows(j, s)' <=> Follows(j, s)
  BY <1>0, VerifierStays
<1>2. PICK m \in moments : Around(temp[j], m) /\ SeenAfter(seen[j], m)
  BY <1>0 DEF JobInv, CandidateInv
<1>3. IsArtifact(temp[j]) /\ Follows(j, temp[j])
  BY <1>0 DEF JobInv, CandidateInv
<1>4. WasOnDisk(temp[j])
  BY <1>0, <1>2, <1>3, SameManifestOnDisk DEF PublicationInv
<1>5. CandidateInv(j)'
  <2>1. IsArtifact(temp[j])' /\ Follows(j, temp[j])' /\ WasOnDisk(temp[j])'
    BY <1>0, <1>1, <1>3, <1>4, WorldSame
  <2> QED BY <1>0, <2>1 DEF CandidateInv
<1>6. IdleInv(j)' /\ WorkerInv(j)' /\ DraftInv(j)' /\ PassedInv(j)'
  BY <1>0 DEF JobInv, IdleInv, WorkerInv, DraftInv, PassedInv
<1> QED BY <1>1, <1>5, <1>6 DEF JobInv

LEMMA PublishStep ==
  ASSUME PublicationInv, NEW j \in Jobs, Publish(j)
  PROVE  JobInv(j)' /\ IsArtifact(published') /\ WasOnDisk(published')
<1>0. /\ UNCHANGED <<world, task, draft, seen, claim, pinned, earlier>> /\ JobInv(j)
      /\ pc[j] = "accepted" /\ pc'[j] = "idle" /\ published' = temp[j] /\ temp'[j] = Absent
  BY DEF Publish, Goes, PublicationInv, TypeInv
<1>1. VerifierInv(j)'
  BY <1>0, VerifierStays
<1>2. IsArtifact(published') /\ WasOnDisk(published')
  BY <1>0 DEF JobInv, CandidateInv
<1>3. IdleInv(j)' /\ WorkerInv(j)' /\ DraftInv(j)' /\ CandidateInv(j)' /\ PassedInv(j)'
  BY <1>0 DEF JobInv, IdleInv, WorkerInv, DraftInv, CandidateInv, PassedInv
<1> QED BY <1>1, <1>2, <1>3 DEF JobInv

LEMMA VerifyStep ==
  ASSUME PublicationInv, NEW j \in Jobs, Verify(j)
  PROVE  JobInv(j)'
<1>0. /\ UNCHANGED <<world, draft, temp, seen>> /\ JobInv(j)
      /\ task'[j] = "verify" /\ pc[j] \in {"idle", "passed"} /\ pc'[j] = "assets"
      /\ pinned'[j] = disk.graph /\ earlier'[j] = published
  BY DEF Verify, Begins, PublicationInv, TypeInv
<1>1. Len(draft[j]) = 0 /\ Len(seen[j]) = 0 /\ temp[j] = Absent
  BY <1>0 DEF JobInv, IdleInv
<1>2. disk.graph \in Versions /\ disk.graph <= disk.graph
  BY DiskNumbers DEF PublicationInv, WorldInv
<1>3. published # Absent => IsArtifact(published) /\ published[1] <= disk.graph
  <2> SUFFICES ASSUME published # Absent PROVE IsArtifact(published) /\ published[1] <= disk.graph
    OBVIOUS
  <2>1. IsArtifact(published)
    BY DEF PublicationInv, WorldInv
  <2>2. 1 \in 1 .. Len(published) /\ Reads[1][1] \in Ordered
    BY <2>1, ReadsFacts DEF IsArtifact, Ordered
  <2> QED BY <2>1, <2>2, ReadsFacts DEF IsArtifact, IsDraft, Bounded
<1>4. VerifierInv(j)'
  <2>1. earlier'[j] # Absent => IsArtifact(earlier[j])' /\ earlier'[j][1] <= pinned'[j]
    BY <1>0, <1>3, WorldSame
  <2> QED BY <1>0, <1>2, <2>1 DEF VerifierInv, world
<1>5. WorkerInv(j)'
  BY <1>0, <1>1 DEF WorkerInv
<1> QED BY <1>0, <1>1, <1>4, <1>5 DEF JobInv, IdleInv, DraftInv, CandidateInv, PassedInv

LEMMA WorkerReadsStep ==
  ASSUME PublicationInv, NEW j \in Jobs, WorkerReads(j)
  PROVE  JobInv(j)'
<1> DEFINE n == Len(draft[j])
<1>0. /\ UNCHANGED <<world, task, pc, temp, seen, claim, pinned, earlier>> /\ JobInv(j)
      /\ pc[j] = "assets" /\ draft[j] \in Seq(Data) /\ draft'[j] = Append(draft[j], disk.graph)
      /\ Len(draft[j]) < 4
  <2>1. Len(AssetReads) = 4
    BY DEF AssetReads
  <2> QED BY <2>1 DEF WorkerReads, PublicationInv, TypeInv
<1>1. /\ Len(draft'[j]) = n + 1 /\ n \in Nat /\ draft'[j][n + 1] = disk.graph
      /\ \A i \in 1 .. n : draft'[j][i] = draft[j][i]
  BY <1>0
<1>2. /\ task[j] = "verify"
      /\ \A i \in 1 .. n : /\ draft[j][i] \in Versions /\ draft[j][i] <= disk.graph
                           /\ \A k \in 1 .. i : draft[j][k] <= draft[j][i]
  BY <1>0 DEF JobInv, WorkerInv
<1>3. disk.graph \in Versions /\ disk.graph <= disk.graph
  BY DiskNumbers DEF PublicationInv, WorldInv
<1>4. n < 4
  BY <1>0
<1> HIDE DEF n
<1>5. ASSUME NEW i \in 1 .. n + 1
      PROVE  /\ draft'[j][i] \in Versions /\ draft'[j][i] <= disk.graph
             /\ \A k \in 1 .. i : draft'[j][k] <= draft'[j][i]
  <2>1. CASE i \in 1 .. n
    <3>1. \A k \in 1 .. i : k \in 1 .. n
      BY <1>1, <2>1
    <3> QED BY <1>1, <1>2, <2>1, <3>1
  <2>2. CASE i = n + 1
    <3>1. \A k \in 1 .. i : k \in 1 .. n \/ k = n + 1
      BY <1>1, <2>2
    <3> QED BY <1>1, <1>2, <1>3, <2>2, <3>1
  <2> QED BY <1>1, <2>1, <2>2
<1>6. WorkerInv(j)'
  <2>1. Len(draft'[j]) <= 4
    BY <1>1, <1>4
  <2> QED BY <1>0, <1>1, <1>2, <1>5, <2>1 DEF WorkerInv, world
<1>7. VerifierInv(j)'
  BY <1>0, VerifierStays
<1> QED BY <1>0, <1>6, <1>7 DEF JobInv, IdleInv, DraftInv, CandidateInv, PassedInv

\* The worker ends well: the version of the graph it was started on meets the shapes.
LEMMA AssetsHoldStep ==
  ASSUME PublicationInv, NEW j \in Jobs, AssetsHold(j)
  PROVE  JobInv(j)'
<1>0. /\ UNCHANGED <<world, task, temp, seen, claim, pinned, earlier>> /\ JobInv(j)
      /\ pc[j] = "assets" /\ pc'[j] = "benchmark" /\ Len(draft'[j]) = 0 /\ draft'[j] \in Seq(Data)
      /\ Len(draft[j]) = 4 /\ draft[j][1] = pinned[j] /\ draft[j][2] \in Conforming
      /\ draft[j][4] = pinned[j]
  <2>1. Len(AssetReads) = 4
    BY DEF AssetReads
  <2> QED BY <2>1
          DEF AssetsHold, Goes, Isomorphic, MatrixHolds, RowsFresh, PublicationInv, TypeInv
<1>1. VerifierInv(j)' /\ \A s : Follows(j, s)' <=> Follows(j, s)
  BY <1>0, VerifierStays
<1>2. draft[j][2] = pinned[j]
  <2>1. \A i \in 1 .. 4 : draft[j][i] \in Versions /\ \A k \in 1 .. i : draft[j][k] <= draft[j][i]
    BY <1>0 DEF JobInv, WorkerInv
  <2>2. /\ draft[j][1] <= draft[j][2] /\ draft[j][2] <= draft[j][4]
        /\ draft[j][1] \in Versions /\ draft[j][2] \in Versions /\ draft[j][4] \in Versions
    BY <2>1
  <2> QED BY <1>0, <2>2, VersionsAreNumbers
<1>3. DraftInv(j)'
  <2>1. IsDraft(draft[j])' /\ \A a : NoOlder(draft'[j], a)
    BY <1>0, EmptyReads, WorldSame
  <2>2. Follows(j, draft[j])'
    BY <1>0, <1>2, <2>1 DEF Follows
  <2> QED BY <1>0, <2>1, <2>2 DEF DraftInv
<1>4. IdleInv(j)' /\ WorkerInv(j)' /\ CandidateInv(j)' /\ PassedInv(j)'
  BY <1>0 DEF JobInv, IdleInv, WorkerInv, CandidateInv, PassedInv
<1> QED BY <1>1, <1>3, <1>4 DEF JobInv

LEMMA LoadStep ==
  ASSUME PublicationInv, NEW j \in Jobs, LoadPublished(j) \/ RecordedManifestHolds(j)
  PROVE  JobInv(j)'
<1>0. /\ UNCHANGED <<world, task, draft, temp, pinned, earlier>> /\ JobInv(j)
      /\ pc[j] \in {"finished", "loaded"} /\ pc'[j] \in {"loaded", "recorded"}
      /\ task[j] = "verify" /\ claim'[j] # Absent
  BY DEF LoadPublished, RecordedManifestHolds, Goes, PublicationInv, TypeInv, JobInv, VerifierInv
<1>1. VerifierInv(j)' /\ \A s : Follows(j, s)' <=> Follows(j, s)
  BY <1>0, VerifierStays
<1>2. CandidateInv(j)'
  <2>1. IsArtifact(temp[j])' /\ Follows(j, temp[j])'
    BY <1>0, <1>1, WorldSame DEF JobInv, CandidateInv
  <2> QED BY <1>0, <2>1 DEF CandidateInv
<1>3. IdleInv(j)' /\ WorkerInv(j)' /\ DraftInv(j)' /\ PassedInv(j)'
  BY <1>0 DEF JobInv, IdleInv, WorkerInv, DraftInv, PassedInv
<1> QED BY <1>1, <1>2, <1>3 DEF JobInv

\* An artifact that was there first equals one that was read later: all its reads of one
\* input agree.
LEMMA SameTwice ==
  ASSUME NEW a, IsArtifact(a), NoOlder(a, a) PROVE Reproducible(a)
<1> SUFFICES ASSUME NEW i \in 1 .. 11, NEW k \in 1 .. 11, Reads[i][1] = Reads[k][1]
             PROVE  a[i] = a[k]
  BY ReadsFacts DEF Reproducible
<1>1. CASE Reads[i][1] \in Ordered
  <2>1. a[i] \in Nat /\ a[k] \in Nat
    BY <1>1, VersionsAreNumbers DEF IsArtifact, IsDraft, Bounded
  <2>2. a[i] <= a[k] /\ a[k] <= a[i]
    BY <1>1 DEF IsArtifact, NoOlder
  <2> QED BY <2>1, <2>2
<1>2. CASE Reads[i][1] \notin Ordered
  BY <1>2, ReadsFacts
<1> QED BY <1>1, <1>2

LEMMA PassStep ==
  ASSUME PublicationInv, NEW j \in Jobs, Pass(j)
  PROVE  JobInv(j)'
<1>0. /\ UNCHANGED <<world, task, draft, claim, pinned, earlier>> /\ JobInv(j)
      /\ pc[j] = "recorded" /\ pc'[j] = "passed" /\ claim[j] = temp[j]
      /\ temp'[j] = Absent /\ Len(seen'[j]) = 0
  BY DEF Pass, Goes, SameContent, PublicationInv, TypeInv
<1>1. VerifierInv(j)'
  BY <1>0, VerifierStays
<1>2. ASSUME claim[j] = earlier[j] PROVE Reproducible(claim[j]) /\ claim[j][1] \in Conforming
  <2>1. /\ task[j] = "verify" /\ IsArtifact(claim[j]) /\ Follows(j, claim[j]) /\ earlier[j] # Absent
        /\ pinned[j] \in Versions /\ earlier[j][1] <= pinned[j]
    BY <1>0, <1>2 DEF JobInv, CandidateInv, VerifierInv
  <2>2. /\ pinned[j] \in Conforming /\ NoOlder(claim[j], claim[j])
        /\ Len(claim[j]) >= 1 => pinned[j] <= claim[j][1]
    BY <1>2, <2>1 DEF Follows
  <2>3. pinned[j] <= claim[j][1] /\ claim[j][1] <= pinned[j] /\ claim[j][1] \in Versions
    <3>1. 1 \in 1 .. Len(claim[j]) /\ Len(claim[j]) >= 1
      BY <2>1 DEF IsArtifact
    <3> QED BY <1>2, <2>1, <2>2, <3>1, ReadsFacts DEF IsArtifact, IsDraft, Bounded, Ordered
  <2>4. claim[j][1] = pinned[j]
    BY <2>1, <2>3, VersionsAreNumbers
  <2> QED BY <2>1, <2>2, <2>4, SameTwice
<1>3. PassedInv(j)'
  BY <1>0, <1>2 DEF PassedInv, Reproducible
<1>4. IdleInv(j)' /\ WorkerInv(j)' /\ DraftInv(j)' /\ CandidateInv(j)'
  BY <1>0 DEF JobInv, IdleInv, WorkerInv, DraftInv, CandidateInv
<1> QED BY <1>1, <1>3, <1>4 DEF JobInv
-----------------------------------------------------------------------------
\* A step of one job.
LEMMA JobStep ==
  ASSUME PublicationInv, NEW j \in Jobs, Child(j) \/ Finalizer(j) \/ Verifier(j)
  PROVE  PublicationInv'
<1>1. CASE Publish(j)
  BY <1>1, PublishStep, OneMoves
<1>2. CASE ~Publish(j)
  <2>1. UNCHANGED world
    BY TypeStep
  <2>2. UNCHANGED published
    BY <1>2 DEF Child, Finalizer, Verifier, ChildReads, ChildTruncates, Opens, ChildWrites, Fails,
       Finalize, ManifestAgain, BuildsManifest, AcceptCandidate, Verify, WorkerReads, AssetsHold,
       LoadPublished, ComparesManifest, RecordedManifestHolds, Pass
  <2>3. published' # Absent => IsArtifact(published') /\ WasOnDisk(published')
    BY <2>2 DEF PublicationInv, WorldInv
  <2>4. JobInv(j)'
    BY <1>2, ChildReadsStep, ChildWritesStep, FailsStep, FinalizeStep, ManifestStep,
       AcceptCandidateStep, VerifyStep, WorkerReadsStep, AssetsHoldStep, LoadStep, PassStep
       DEF Child, Finalizer, Verifier
  <2> QED BY <2>3, <2>4, OneMoves
<1> QED BY <1>1, <1>2

LEMMA PublicationNext == PublicationInv /\ [Next]_vars => PublicationInv'
<1> SUFFICES ASSUME PublicationInv, [Next]_vars PROVE PublicationInv'  OBVIOUS
<1>1. CASE Next
  BY <1>1, ChangeStep, JobStep DEF Next
<1>2. CASE UNCHANGED vars
  <2>1. UNCHANGED <<world, jobs>>
    BY <1>2 DEF vars
  <2>2. MigrationInv' /\ Before(disk, disk') /\ UNCHANGED <<disk, moments>>
    BY <2>1, WorldSame, DiskStays DEF PublicationInv, WorldInv, world
  <2>3. WorldInv'
    BY <2>1, <2>2, WorldStays DEF PublicationInv, WorldInv, jobs
  <2>4. TypeInv'
    BY <2>1 DEF PublicationInv, TypeInv, jobs
  <2>5. ASSUME NEW j \in Jobs PROVE JobInv(j)'
    BY <2>1, <2>2, JobStays DEF PublicationInv, WorldInv, jobs
  <2> QED BY <2>3, <2>4, <2>5 DEF PublicationInv
<1> QED BY <1>1, <1>2

LEMMA PublicationAlways == Spec => []PublicationInv
  BY PublicationInit, PublicationNext, PTL DEF Spec

\* Whenever a migration dies, and whatever the graph has become since, the manifest signs no
\* closures that the corpora do not hold (migrate_benchmark writes the manifest last).
THEOREM SignedNeverAhead == Spec => []SignedNotAhead
<1>1. PublicationInv => SignedNotAhead
  BY DEF PublicationInv, WorldInv, MigrationInv
<1> QED BY <1>1, PublicationAlways, PTL

\* Half an artifact is never published, for any number of finalizers that die in any step
\* (write_result_artifact writes in place, but never there).
THEOREM PublishedAlwaysWhole == Spec => []PublishedWhole
<1>1. PublicationInv => PublishedWhole
  BY AbsentAssumption, HalfAssumption DEF PublicationInv, WorldInv, IsArtifact, IsDraft, PublishedWhole
<1> QED BY <1>1, PublicationAlways, PTL

\* The manifest of what is published is one state of the inputs, for any number of jobs and
\* edits (finalize_research_artifact).
THEOREM PublishedAlwaysWasOnDisk == Spec => []PublishedWasOnDisk
<1>1. PublicationInv => PublishedWasOnDisk
  BY DEF PublicationInv, WorldInv, WasOnDisk, PublishedWasOnDisk
<1> QED BY <1>1, PublicationAlways, PTL

\* A verification that passes tells the truth about the artifact it was asked about, for any
\* number of jobs, edits and migrations (run_research_verify, compare_result_artifacts).
THEOREM VerifiedAlwaysReproducible == Spec => []VerifiedReproducible
<1>1. PublicationInv => VerifiedReproducible
  BY DEF PublicationInv, JobInv, PassedInv, VerifiedReproducible
<1> QED BY <1>1, PublicationAlways, PTL
=============================================================================
