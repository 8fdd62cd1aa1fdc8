------------------------ MODULE ProvenanceStoreProofs ------------------------
(***************************************************************************)
(* For every number of processes, threads, calls, restarts and edits: the  *)
(* chain of a file nobody edited always verifies and keeps what was        *)
(* acknowledged, failed calls leave nothing, a checkpoint keeps its key,   *)
(* get answers with what was written, and the store implements the log.    *)
(* With one process every edit is detected, and nothing else is.  Calls    *)
(* run out of steps, and none waits for one that waits.                    *)
(***************************************************************************)
EXTENDS ProvenanceStore, FiniteSetTheorems, SequenceTheorems, TLAPS

\* Who is inside the lock, who holds SQLite's write lock and why.
LockInv ==
  /\ \A t \in Threads : pc[t] # "idle" => state[Home[t]] = "up" /\ call[t] # NoCall
  /\ \A t \in Threads : pc[t] \notin {"idle", "enter"} => lock[Home[t]] = t
  /\ \A t \in Threads : pc[t] \in {"update", "commit"} => writer = Home[t]
  /\ \A p \in Procs : state[p] = "committing" => writer = p
  /\ writer # Nobody =>
       \/ state[writer] = "committing"
       \/ \E t \in Threads : Home[t] = writer /\ pc[t] \in {"update", "commit"}

USE HomeAssumption, NobodyAssumption, BoundsAssumption, KeyModesAssumption
USE DEF TypeOK, FileTypeOK, ProcTypeOK, ThreadTypeOK, HistoryTypeOK

LEMMA NoCheckpointType ==
  /\ NoCheckpoint.seq = 0 /\ NoCheckpoint.hash \in Hashes
  /\ NoTx \in [rows : SUBSET Rows, checkpoint : Checkpoints]
<1>1. Genesis \in Hashes
  BY DEF Genesis, Hashes
<1>2. QED
  BY <1>1 DEF NoCheckpoint, NoTx, Checkpoints

LEMMA SignedCheckpointType ==
  ASSUME NEW k \in Keys, NEW seq \in Nat, NEW hash \in Hashes
  PROVE  SignedCheckpoint(k, seq, hash) \in Sealed
BY DEF SignedCheckpoint, SignHead, Sealed

LEMMA VisibleType ==
  ASSUME TypeOK, NEW p
  PROVE  /\ Visible(p) \in [rows : SUBSET Rows, checkpoint : Checkpoints]
         /\ Visible(p).rows \subseteq Rows
         /\ Visible(p).checkpoint \in Checkpoints
BY DEF TypeOK, Visible

LEMMA NewRowType ==
  ASSUME TypeOK, NEW t \in Threads, call[t] # NoCall
  PROVE  NewRow(t) \in Rows
<1> DEFINE q == call[t].id
           sig == SignDoc(key[Home[t]], Written(q))
           e == <<q, Written(q), sig, seen[t].seq + 1>>
<1>1. q \in Ids
  BY DEF TypeOK, Calls
<1>2. key[Home[t]] \in Keys /\ Written(q) \in Docs
  BY <1>1 DEF TypeOK, Docs, Written
<1>3. sig \in Keys \X Docs
  BY <1>2 DEF SignDoc
<1>4. seen[t].seq \in Nat /\ seen[t].hash \in Hashes
  BY NoCheckpointType DEF TypeOK, Checkpoints, Sealed
<1>5. e \in Ids \X Docs \X (Keys \X Docs) \X Nat
  BY <1>1, <1>2, <1>3, <1>4
<1>6. Append(seen[t].hash, e) \in Hashes
  BY <1>4, <1>5 DEF Hashes
<1>7. QED
  BY <1>1, <1>2, <1>3, <1>4, <1>6 DEF NewRow, Rows
-----------------------------------------------------------------------------
(***************************************************************************)
(* Types.                                                                  *)
(***************************************************************************)
LEMMA LeaveKeepsTypes ==
  ASSUME TypeOK, NEW t \in Threads, Leave(t)
  PROVE  ThreadTypeOK'
BY DEF TypeOK, ThreadTypeOK, Leave, Step, CallSteps, Checkpoints

LEMMA RaiseKeepsTypes ==
  ASSUME TypeOK, NEW t \in Threads, Raise(t)
  PROVE  ThreadTypeOK' /\ HistoryTypeOK'
<1>1. ThreadTypeOK'
  BY LeaveKeepsTypes DEF Raise
<1>2. call[t].kind = "record" => call[t].id \in Ids
  BY DEF TypeOK, Calls, NoCall
<1>3. QED
  BY <1>1, <1>2 DEF Raise, TypeOK, HistoryTypeOK

LEMMA FileSteps ==
  ASSUME TypeOK
  PROVE  /\ Publish => FileTypeOK'
         /\ \A p : Rollback(p) => FileTypeOK'
         /\ UNCHANGED file => FileTypeOK'
BY NoCheckpointType DEF TypeOK, FileTypeOK, Publish, Rollback, file

LEMMA OpeningKeepsTypes ==
  ASSUME TypeOK, NEW p \in Procs, Opening(p) \/ OpenFails(p)
  PROVE  TypeOK'
<1> USE DEF Goto, OpenSteps
<1>1. ThreadTypeOK' /\ HistoryTypeOK'
  BY DEF Opening, OpenFails, OpenSealed, OpenUnsealed, OpenEmpty, OpenOrphanRows, Seal,
         AlreadySealed, OpenCommit, thrVars, history, TypeOK, ThreadTypeOK, HistoryTypeOK
<1>2. ProcTypeOK'
  BY DEF Opening, OpenFails, OpenSealed, OpenUnsealed, OpenEmpty, OpenOrphanRows, Seal,
         AlreadySealed, OpenCommit, TypeOK, ProcTypeOK
<1>3. FileTypeOK'
  <2>1. CASE Seal(p)
    <3>1. SignedCheckpoint(key[p], 0, Genesis) \in Checkpoints
      <4>1. Genesis \in Hashes
        BY DEF Genesis, Hashes
      <4>2. QED
        BY <4>1, SignedCheckpointType DEF TypeOK, Checkpoints
    <3>2. QED
      BY <2>1, <3>1 DEF Seal, TypeOK, FileTypeOK
  <2>2. CASE OpenCommit(p)
    BY <2>2, FileSteps DEF OpenCommit
  <2>3. CASE OpenFails(p)
    BY <2>3, FileSteps DEF OpenFails
  <2>4. CASE UNCHANGED file
    BY <2>4, FileSteps
  <2>5. QED
    BY <2>1, <2>2, <2>3, <2>4 DEF Opening, OpenSealed, OpenUnsealed, OpenEmpty,
       OpenOrphanRows, AlreadySealed
<1>4. QED
  BY <1>1, <1>2, <1>3 DEF TypeOK

LEMMA ProcessKeepsTypes ==
  ASSUME TypeOK, NEW p \in Procs, Crash(p) \/ \E configured \in KeyModes : Start(p, configured)
  PROVE  TypeOK'
<1>1. CASE Crash(p)
  <2>1. FileTypeOK'
    BY <1>1, FileSteps DEF Crash
  <2>2. ThreadTypeOK'
    BY <1>1 DEF Crash, TypeOK, ThreadTypeOK, CallSteps, Checkpoints
  <2>3. ProcTypeOK' /\ HistoryTypeOK'
    BY <1>1 DEF Crash, Goto, TypeOK, ProcTypeOK, HistoryTypeOK, history
  <2>4. QED
    BY <2>1, <2>2, <2>3 DEF TypeOK
<1>2. ASSUME NEW configured \in KeyModes, Start(p, configured)
      PROVE  TypeOK'
  <2>1. FileTypeOK'
    BY <1>2, FileSteps DEF Start
  <2>2. ThreadTypeOK' /\ HistoryTypeOK'
    BY <1>2 DEF Start, TypeOK, ThreadTypeOK, HistoryTypeOK, thrVars, history
  <2>3. ProcTypeOK'
    BY <1>2 DEF Start, Goto, TypeOK, ProcTypeOK, OpenSteps, Keys
  <2>4. QED
    BY <2>1, <2>2, <2>3 DEF TypeOK
<1>3. QED
  BY <1>1, <1>2

LEMMA CallKeepsTypes ==
  ASSUME TypeOK, LockInv, NEW t \in Threads, Calling(t) \/ StatementFails(t)
  PROVE  TypeOK'
<1> USE DEF Step, At, CallSteps
<1>1. ASSUME Raise(t), UNCHANGED file \/ UndoTransaction(Home[t]),
             UNCHANGED <<state, key, starts, damage>>
      PROVE  TypeOK'
  BY <1>1, RaiseKeepsTypes, FileSteps DEF UndoTransaction
<1>2. CASE \/ CheckpointRejected(t) \/ RowsRejected(t) \/ RejectExecution(t)
           \/ HeadRejected(t) \/ SequenceTaken(t) \/ BusyTimeout(t)
           \/ StatementFails(t) \/ SelectRejected(t)
  BY <1>1, <1>2 DEF CheckpointRejected, RowsRejected, RejectExecution, HeadRejected,
     SequenceTaken, BusyTimeout, StatementFails, SelectRejected
<1>3. CASE Enter(t)
  BY <1>3, FileSteps DEF Enter, history
<1>4. CASE ReadCheckpoint(t) \/ ReadHead(t)
  BY <1>4, FileSteps, VisibleType DEF ReadCheckpoint, ReadHead, procVars, history
<1>5. CASE VerifyRows(t) \/ AcceptExecution(t)
  <2>1. CASE VerifyRows(t)
    BY <2>1, FileSteps DEF VerifyRows, procVars, history
  <2>2. CASE AcceptExecution(t)
    BY <2>2, FileSteps DEF AcceptExecution, procVars, history
  <2> QED
    BY <1>5, <2>1, <2>2
<1>6. CASE Insert(t)
  <2>1. NewRow(t) \in Rows
    BY <1>6, NewRowType DEF Insert, LockInv
  <2>2. tx' \in [rows : SUBSET Rows, checkpoint : Checkpoints]
    BY <1>6, <2>1, VisibleType DEF Insert
  <2>3. QED
    BY <1>6, <2>2 DEF Insert, procVars, history
<1>7. CASE Update(t)
  <2>1. NewRow(t) \in Rows
    BY <1>7, NewRowType DEF Update, LockInv
  <2>2. SignedCheckpoint(key[Home[t]], NewRow(t).seq, NewRow(t).hash) \in Checkpoints
    BY <2>1, SignedCheckpointType DEF Rows, Checkpoints
  <2>3. QED
    BY <1>7, <2>2 DEF Update, procVars, history
<1>8. CASE Commit(t)
  BY <1>8, FileSteps DEF Commit, procVars, history
<1>9. CASE ReturnRecord(t)
  <2>1. call[t].id \in Ids
    BY <1>9 DEF ReturnRecord, LockInv, Calls
  <2>2. QED
    BY <1>9, <2>1, LeaveKeepsTypes, FileSteps DEF ReturnRecord
<1>10. CASE SelectRow(t)
  <2>1. \A r \in Visible(Home[t]).rows : <<r.id, r.doc>> \in Ids \X Docs
    BY VisibleType DEF Rows
  <2>2. HistoryTypeOK'
    BY <1>10, <2>1 DEF SelectRow, Answers
  <2>3. QED
    BY <1>10, <2>2, LeaveKeepsTypes, FileSteps DEF SelectRow
<1>11. QED
  BY <1>2, <1>3, <1>4, <1>5, <1>6, <1>7, <1>8, <1>9, <1>10 DEF Calling

LEMMA BeginKeepsTypes ==
  ASSUME TypeOK, NEW t \in Threads,
         \/ \E valid \in BOOLEAN : BeginRecord(t, valid)
         \/ \E q \in Ids : BeginGet(t, q)
  PROVE  TypeOK'
<1>1. ASSUME NEW c \in Calls, Begin(t, c)
      PROVE  TypeOK'
  BY <1>1, FileSteps DEF Begin, Step, CallSteps, procVars, history
<1>2. ASSUME NEW valid \in BOOLEAN, BeginRecord(t, valid)
      PROVE  TypeOK'
  <2>1. [kind |-> "record", id |-> calls + 1, valid |-> valid] \in Calls
    BY <1>2 DEF BeginRecord, Begin, Calls, Ids
  <2>2. QED
    BY <1>1, <1>2, <2>1 DEF BeginRecord
<1>3. ASSUME NEW q \in Ids, BeginGet(t, q)
      PROVE  TypeOK'
  BY <1>1, <1>3 DEF BeginGet, Calls
<1>4. QED
  BY <1>2, <1>3

LEMMA DamageKeepsTypes ==
  ASSUME TypeOK, Damage
  PROVE  TypeOK'
<1>1. ASSUME NEW rs, NEW c, rs \subseteq Rows, c \in Checkpoints, Edit(rs, c)
      PROVE  TypeOK'
  BY <1>1 DEF Edit, procVars, thrVars, history
<1>2. ASSUME NEW r \in rows, DeleteRow(r)
      PROVE  TypeOK'
  <2>1. rows \ {r} \subseteq Rows
    OBVIOUS
  <2>2. QED
    BY <1>1, <1>2, <2>1 DEF DeleteRow
<1>3. ASSUME NEW r \in rows, NEW r2 \in Rows, Edit((rows \ {r}) \cup {r2}, checkpoint)
      PROVE  TypeOK'
  <2>1. (rows \ {r}) \cup {r2} \subseteq Rows
    OBVIOUS
  <2>2. QED
    BY <1>1, <1>3, <2>1
<1>4. ASSUME NEW r \in rows, AlterDocument(r)
      PROVE  TypeOK'
  <2>1. r.doc \in Docs /\ r \in Rows
    BY DEF Rows
  <2>2. <<r.doc[1], "altered">> \in Docs
    BY <2>1 DEF Docs
  <2>3. Holding(r, <<r.doc[1], "altered">>, r.sig) \in Rows
    BY <2>1, <2>2 DEF Rows, Holding
  <2>4. QED
    BY <1>3, <1>4, <2>3 DEF AlterDocument
<1>5. ASSUME NEW r \in rows, CutTail(r)
      PROVE  TypeOK'
  <2>1. r \in Rows
    OBVIOUS
  <2>2. r.seq - 1 \in Nat /\ r.prev \in Hashes
    BY <2>1 DEF Rows
  <2>3. checkpoint \in Sealed
    BY <1>5, <2>1 DEF CutTail, Checkpoints, NoCheckpoint, Rows
  <2>4. [seq |-> r.seq - 1, hash |-> r.prev, sig |-> checkpoint.sig] \in Checkpoints
    BY <2>2, <2>3 DEF Sealed, Checkpoints
  <2>5. rows \ {r} \subseteq Rows
    OBVIOUS
  <2>6. QED
    BY <1>1, <1>5, <2>4, <2>5 DEF CutTail
<1>6. ASSUME NEW r \in rows, NEW s \in rows, SubstituteDocument(r, s)
      PROVE  TypeOK'
  <2>1. r \in Rows /\ s \in Rows
    OBVIOUS
  <2>2. Holding(r, s.doc, s.sig) \in Rows
    BY <2>1 DEF Rows, Holding
  <2>3. QED
    BY <1>3, <1>6, <2>2 DEF SubstituteDocument
<1>7. QED
  BY <1>2, <1>4, <1>5, <1>6 DEF Damage
-----------------------------------------------------------------------------
(***************************************************************************)
(* Locks.                                                                  *)
(***************************************************************************)
LEMMA CallKeepsLocks ==
  ASSUME TypeOK, LockInv, NEW t \in Threads, Calling(t) \/ StatementFails(t)
  PROVE  LockInv'
<1> USE DEF LockInv, Step, At
<1>1. ASSUME Leave(t), pc[t] \notin {"idle", "enter"}, UNCHANGED state,
             \/ UNCHANGED writer /\ pc[t] \notin {"update", "commit"}
             \/ Rollback(Home[t])
      PROVE  LockInv'
  BY <1>1 DEF Leave, Rollback, CallSteps
<1>2. CASE \/ CheckpointRejected(t) \/ RowsRejected(t) \/ RejectExecution(t)
           \/ HeadRejected(t) \/ SequenceTaken(t) \/ BusyTimeout(t)
           \/ StatementFails(t) \/ SelectRejected(t) \/ SelectRow(t) \/ ReturnRecord(t)
  BY <1>1, <1>2 DEF CheckpointRejected, RowsRejected, RejectExecution, HeadRejected,
     SequenceTaken, BusyTimeout, StatementFails, SelectRejected, SelectRow, ReturnRecord,
     Raise, UndoTransaction, file
<1>3. CASE Enter(t)
  BY <1>3 DEF Enter, LockFree, file, CallSteps
<1>4. CASE \/ ReadCheckpoint(t) \/ VerifyRows(t) \/ AcceptExecution(t) \/ ReadHead(t)
  BY <1>4 DEF ReadCheckpoint, VerifyRows, AcceptExecution, ReadHead, file, procVars, CallSteps
<1>5. CASE Insert(t)
  BY <1>5 DEF Insert, Blocked, procVars
<1>6. CASE Update(t)
  BY <1>6 DEF Update, procVars
<1>7. CASE Commit(t)
  BY <1>7 DEF Commit, Publish, procVars
<1>8. QED
  BY <1>2, <1>3, <1>4, <1>5, <1>6, <1>7 DEF Calling

LEMMA ProcessKeepsLocks ==
  ASSUME TypeOK, LockInv, NEW p \in Procs,
         \/ Opening(p) \/ OpenFails(p) \/ Crash(p)
         \/ \E configured \in KeyModes : Start(p, configured)
  PROVE  LockInv'
<1> USE DEF LockInv, Goto
<1>1. CASE Crash(p)
  BY <1>1 DEF Crash, Rollback
<1>2. CASE OpenFails(p)
  BY <1>2 DEF OpenFails, Rollback, thrVars
<1>3. CASE Seal(p)
  BY <1>3 DEF Seal, thrVars
<1>4. CASE OpenCommit(p)
  BY <1>4 DEF OpenCommit, Publish, thrVars
<1>5. ASSUME NEW s \in {"opening", "unsealed", "sealing", "down", "up"},
             Goto(p, s), state[p] \notin {"up", "committing"}, UNCHANGED <<file, lock, thrVars>>
      PROVE  LockInv'
  BY <1>5 DEF file, thrVars
<1>6. QED
  BY <1>1, <1>2, <1>3, <1>4, <1>5 DEF Opening, OpenSealed, OpenUnsealed, OpenEmpty,
     OpenOrphanRows, AlreadySealed, Start

LEMMA OthersKeepLocks ==
  ASSUME TypeOK, LockInv,
         \/ \E t \in Threads, valid \in BOOLEAN : BeginRecord(t, valid)
         \/ \E t \in Threads, q \in Ids : BeginGet(t, q)
         \/ Damage
         \/ UNCHANGED vars
  PROVE  LockInv'
<1> USE DEF LockInv
<1>1. ASSUME NEW t \in Threads, NEW c, c # NoCall, Begin(t, c)
      PROVE  LockInv'
  BY <1>1 DEF Begin, At, Step, file, procVars
<1>2. ASSUME NEW t \in Threads, NEW valid \in BOOLEAN, BeginRecord(t, valid)
      PROVE  LockInv'
  BY <1>1, <1>2 DEF BeginRecord, NoCall
<1>3. ASSUME NEW t \in Threads, NEW q \in Ids, BeginGet(t, q)
      PROVE  LockInv'
  BY <1>1, <1>3 DEF BeginGet, NoCall
<1>4. CASE Damage
  BY <1>4 DEF Damage, DeleteRow, AlterDocument, SubstituteDocument, CutTail, Edit,
     procVars, thrVars
<1>5. CASE UNCHANGED vars
  BY <1>5 DEF vars, file, procVars, thrVars
<1>6. QED
  BY <1>2, <1>3, <1>4, <1>5

LEMMA InitTypes == Init => TypeOK /\ LockInv
BY NoCheckpointType DEF Init, LockInv, Keys, CallSteps, Checkpoints, NoTx

LEMMA NextTypes == TypeOK /\ LockInv /\ [Next]_vars => TypeOK' /\ LockInv'
<1> SUFFICES ASSUME TypeOK, LockInv, [Next]_vars
             PROVE  TypeOK' /\ LockInv'
  OBVIOUS
<1>1. ASSUME NEW p \in Procs,
             \/ Opening(p) \/ OpenFails(p) \/ Crash(p)
             \/ \E configured \in KeyModes : Start(p, configured)
      PROVE  TypeOK' /\ LockInv'
  BY <1>1, OpeningKeepsTypes, ProcessKeepsTypes, ProcessKeepsLocks
<1>2. ASSUME NEW t \in Threads, Calling(t) \/ StatementFails(t)
      PROVE  TypeOK' /\ LockInv'
  BY <1>2, CallKeepsTypes, CallKeepsLocks
<1>3. ASSUME NEW t \in Threads,
             \/ \E valid \in BOOLEAN : BeginRecord(t, valid)
             \/ \E q \in Ids : BeginGet(t, q)
      PROVE  TypeOK' /\ LockInv'
  BY <1>3, BeginKeepsTypes, OthersKeepLocks
<1>4. CASE Damage
  BY <1>4, DamageKeepsTypes, OthersKeepLocks
<1>5. CASE UNCHANGED vars
  <2>1. TypeOK'
    BY <1>5 DEF vars, file, procVars, thrVars, history
  <2>2. QED
    BY <1>5, <2>1, OthersKeepLocks
<1>6. QED
  BY <1>1, <1>2, <1>3, <1>4, <1>5 DEF Next

\* Every variable always holds a value of its kind, whatever the processes do.
THEOREM TypeCorrect == Spec => []TypeOK
<1>1. TypeOK /\ LockInv /\ [Next]_vars => (TypeOK /\ LockInv)'
  BY NextTypes
<1>2. QED
  BY InitTypes, <1>1, PTL DEF Spec
-----------------------------------------------------------------------------
(***************************************************************************)
(* The chain.  ChainVerifies alone is not inductive: it must say what an   *)
(* open transaction holds, and that a head read earlier either is still    *)
(* the head or has been passed, so that the UNIQUE constraint decides.     *)
(***************************************************************************)
Chained(rs, c) ==
  IF c = NoCheckpoint THEN rs = {}
  ELSE \E k \in Keys : CheckpointValid(c, k) /\ RowsMatch(rs, c, k)

\* The checkpoint thread t read verified under its key, and is the head or behind it.
HeadOrBehind(t) ==
  /\ CheckpointValid(seen[t], key[Home[t]])
  /\ checkpoint # NoCheckpoint
  /\ seen[t].seq <= checkpoint.seq
  /\ seen[t].seq = checkpoint.seq => seen[t] = checkpoint

WithRow(t) == rows \cup {NewRow(t)}
NextHead(t) == SignedCheckpoint(key[Home[t]], NewRow(t).seq, NewRow(t).hash)

ChainInv ==
  damage = 0 =>
    /\ IsFiniteSet(rows)
    /\ Chained(rows, checkpoint)
    /\ \A t \in Threads : pc[t] \in {"insert", "update", "commit"} => HeadOrBehind(t)
    /\ \A t \in Threads :
         pc[t] \in {"update", "commit"} => seen[t] = checkpoint /\ tx.rows = WithRow(t)
    /\ \A t \in Threads : pc[t] = "commit" => tx.checkpoint = NextHead(t)
    /\ \A p \in Procs : state[p] = "committing" =>
         /\ rows = {} /\ tx.rows = {} /\ checkpoint = NoCheckpoint
         /\ tx.checkpoint = SignedCheckpoint(key[p], 0, Genesis)

\* Appending the row record() builds from the true head, with the new head as the
\* checkpoint, keeps the chain verifiable.
LEMMA ChainGrows ==
  ASSUME TypeOK, NEW t \in Threads, call[t] # NoCall,
         IsFiniteSet(rows), Chained(rows, checkpoint),
         CheckpointValid(seen[t], key[Home[t]]), seen[t] = checkpoint
  PROVE  /\ IsFiniteSet(WithRow(t))
         /\ NextHead(t) # NoCheckpoint
         /\ NextHead(t).seq = checkpoint.seq + 1
         /\ Chained(WithRow(t), NextHead(t))
<1> DEFINE n == checkpoint.seq
           k == key[Home[t]]
           w == NewRow(t)
           rs == WithRow(t)
           c == NextHead(t)
<1>1. checkpoint # NoCheckpoint /\ checkpoint \in Sealed /\ n \in Nat /\ k \in Keys
  BY DEF CheckpointValid, Checkpoints, Sealed
<1>2. PICK j \in Keys : CheckpointValid(checkpoint, j) /\ RowsMatch(rows, checkpoint, j)
  BY <1>1 DEF Chained
<1>3. j = k
  BY <1>1, <1>2 DEF CheckpointValid, SignHead
<1>4. /\ w.id = call[t].id /\ w.doc = Written(w.id) /\ w.sig = SignDoc(k, w.doc)
      /\ w.seq = n + 1 /\ w.prev = checkpoint.hash
      /\ w.hash = RowHash(w)
  BY DEF NewRow, RowHash
<1>5. c.seq = n + 1 /\ c.hash = w.hash /\ c.sig = SignHead(k, n + 1, w.hash)
  BY <1>4 DEF NextHead, SignedCheckpoint
<1>6. c # NoCheckpoint /\ CheckpointValid(c, k)
  BY <1>1, <1>5 DEF CheckpointValid, NoCheckpoint
<1>7. /\ Cardinality(rows) = n /\ {r.seq : r \in rows} = 1 .. n
      /\ \A r \in rows : RowValid(r, k)
      /\ Linked(rows) /\ EndsAt(rows, checkpoint)
  BY <1>2, <1>3 DEF RowsMatch
<1>8. \A r \in rows : r.seq \in 1 .. n
  BY <1>7
<1>9. w \notin rows
  BY <1>1, <1>4, <1>8
<1>10. IsFiniteSet(rs) /\ Cardinality(rs) = n + 1
  BY <1>7, <1>9, FS_AddElement DEF WithRow
<1>11. {r.seq : r \in rs} = 1 .. n + 1
  <2>1. {r.seq : r \in rs} = {r.seq : r \in rows} \cup {w.seq}
    BY DEF WithRow
  <2>2. (1 .. n) \cup {n + 1} = 1 .. n + 1
    BY <1>1
  <2>3. QED
    BY <1>4, <1>7, <2>1, <2>2
<1>12. \A r \in rs : RowValid(r, k)
  BY <1>4, <1>7 DEF RowValid, WithRow, Written
<1>13. Linked(rs)
  <2>1. w.seq = 1 => w.prev = Genesis
    BY <1>1, <1>4, <1>7 DEF EndsAt
  <2>2. \A r \in rows : w.seq = r.seq + 1 => w.prev = r.hash
    BY <1>1, <1>4, <1>7, <1>8 DEF EndsAt
  <2>3. \A s \in rs : s.seq # w.seq + 1
    BY <1>1, <1>4, <1>8 DEF WithRow
  <2>4. QED
    BY <1>7, <2>1, <2>2, <2>3 DEF Linked, WithRow
<1>14. EndsAt(rs, c)
  BY <1>1, <1>4, <1>5, <1>8 DEF EndsAt, WithRow
<1>15. RowsMatch(rs, c, k)
  BY <1>5, <1>10, <1>11, <1>12, <1>13, <1>14 DEF RowsMatch
<1>16. Chained(rs, c)
  BY <1>1, <1>6, <1>15 DEF Chained
<1>17. QED
  BY <1>5, <1>6, <1>10, <1>16

LEMMA EmptyChain ==
  ASSUME NEW k \in Keys
  PROVE  /\ Chained({}, SignedCheckpoint(k, 0, Genesis))
         /\ SignedCheckpoint(k, 0, Genesis) # NoCheckpoint
         /\ SignedCheckpoint(k, 0, Genesis).seq = 0
<1> DEFINE c == SignedCheckpoint(k, 0, Genesis)
<1>1. c.seq = 0 /\ c.hash = Genesis /\ c.sig = SignHead(k, 0, Genesis)
  BY DEF SignedCheckpoint
<1>2. c # NoCheckpoint
  <2>1. Len(SignHead(k, 0, Genesis)) = 3 /\ Len(<<>>) = 0
    BY DEF SignHead
  <2>2. NoCheckpoint.sig = <<>>
    BY DEF NoCheckpoint
  <2>3. SignHead(k, 0, Genesis) # <<>>
    BY <2>1
  <2>4. QED
    BY <1>1, <2>2, <2>3
<1>3. RowsMatch({}, c, k)
  BY <1>1, FS_EmptySet DEF RowsMatch, Linked, EndsAt
<1>4. QED
  BY <1>1, <1>2, <1>3 DEF Chained, CheckpointValid

\* What every step of a process or a call that commits nothing has in common.
LEMMA QuietStep ==
  ASSUME TypeOK, LockInv, ChainInv, damage = 0, damage' = damage,
         UNCHANGED <<rows, checkpoint, key>>,
         \A t \in Threads : pc'[t] \in {"insert", "update", "commit"} =>
            pc[t] = pc'[t] /\ seen'[t] = seen[t] /\ call'[t] = call[t],
         \A t \in Threads : pc'[t] \in {"update", "commit"} => tx' = tx,
         \A p \in Procs : state'[p] = "committing" => state[p] = "committing" /\ tx' = tx
  PROVE  ChainInv'
<1>1. \A t \in Threads : pc'[t] \in {"insert", "update", "commit"} =>
        HeadOrBehind(t)' /\ NewRow(t)' = NewRow(t)
  BY DEF ChainInv, HeadOrBehind, NewRow
<1>2. \A t \in Threads : pc'[t] \in {"update", "commit"} =>
        WithRow(t)' = WithRow(t) /\ NextHead(t)' = NextHead(t)
  BY <1>1 DEF WithRow, NextHead
<1>3. QED
  BY <1>1, <1>2 DEF ChainInv

LEMMA CommitStep ==
  ASSUME TypeOK, LockInv, ChainInv, damage = 0, NEW t \in Threads, Commit(t)
  PROVE  ChainInv'
<1> USE DEF At, Step
<1>1. /\ pc[t] = "commit" /\ call[t] # NoCall
      /\ rows' = WithRow(t) /\ checkpoint' = NextHead(t)
      /\ seen[t] = checkpoint /\ CheckpointValid(seen[t], key[Home[t]])
      /\ UNCHANGED <<damage, key, seen, call, state>>
  BY DEF Commit, Publish, ChainInv, LockInv, HeadOrBehind, procVars
<1>2. /\ IsFiniteSet(rows') /\ Chained(rows', checkpoint')
      /\ checkpoint' # NoCheckpoint /\ checkpoint'.seq = checkpoint.seq + 1
  BY <1>1, ChainGrows DEF ChainInv
<1>3. \A u \in Threads : pc'[u] \notin {"update", "commit"}
  BY <1>1 DEF Commit, LockInv, CallSteps
<1>4. \A p \in Procs : state'[p] # "committing"
  BY <1>1 DEF LockInv
<1>5. ASSUME NEW u \in Threads, pc'[u] = "insert"
      PROVE  HeadOrBehind(u)'
  <2>1. pc[u] = "insert" /\ HeadOrBehind(u)
    BY <1>1, <1>5 DEF Commit, ChainInv
  <2>2. checkpoint.seq \in Nat /\ seen[u].seq \in Nat
    BY NoCheckpointType DEF Checkpoints, Sealed
  <2>3. QED
    BY <1>1, <1>2, <2>1, <2>2 DEF HeadOrBehind
<1>6. QED
  BY <1>1, <1>2, <1>3, <1>4, <1>5 DEF ChainInv

LEMMA InsertStep ==
  ASSUME TypeOK, LockInv, ChainInv, damage = 0, NEW t \in Threads, Insert(t)
  PROVE  ChainInv'
<1> USE DEF At, Step
<1>1. writer = Nobody
  <2>1. writer \in {Nobody, Home[t]} /\ pc[t] = "insert"
    BY DEF Insert, Blocked
  <2>2. Home[t] \in Procs /\ state[Home[t]] = "up" /\ lock[Home[t]] = t
    BY <2>1 DEF LockInv
  <2>3. \A u \in Threads : pc[u] \in {"update", "commit"} => Home[u] # Home[t]
    BY <2>1, <2>2 DEF LockInv
  <2>4. QED
    BY <2>1, <2>2, <2>3 DEF LockInv
<1>2. Visible(Home[t]) = [rows |-> rows, checkpoint |-> checkpoint]
  BY <1>1 DEF Visible
<1>3. tx'.rows = WithRow(t)
  BY <1>2 DEF Insert, WithRow
<1>4. HeadOrBehind(t)
  BY DEF Insert, ChainInv
<1>5. seen[t] = checkpoint
  <2>1. PICK k \in Keys : CheckpointValid(checkpoint, k) /\ RowsMatch(rows, checkpoint, k)
    BY <1>4 DEF ChainInv, Chained, HeadOrBehind
  <2>2. checkpoint.seq \in Nat /\ seen[t].seq \in Nat
    BY NoCheckpointType DEF Checkpoints, Sealed
  <2>3. \A r \in rows : r.seq # seen[t].seq + 1
    BY <1>2 DEF Insert, SequenceFree, NewRow
  <2>4. seen[t].seq + 1 \notin 1 .. checkpoint.seq
    BY <2>1, <2>3 DEF RowsMatch
  <2>5. QED
    BY <1>4, <2>2, <2>4 DEF HeadOrBehind
<1>6. \A u \in Threads : u # t => pc'[u] = pc[u] /\ pc[u] \notin {"update", "commit"}
  BY <1>1 DEF Insert, LockInv
<1>7. \A p \in Procs : state'[p] # "committing"
  BY <1>1 DEF Insert, LockInv, procVars
<1>8. pc'[t] = "update" /\ UNCHANGED <<rows, checkpoint, key, seen, call, damage>>
  BY DEF Insert, procVars
<1>9. \A u \in Threads : HeadOrBehind(u)' = HeadOrBehind(u) /\ WithRow(u)' = WithRow(u)
  BY <1>8 DEF HeadOrBehind, WithRow, NewRow
<1>10. QED
  BY <1>3, <1>4, <1>5, <1>6, <1>7, <1>8, <1>9 DEF ChainInv, Insert

LEMMA UpdateStep ==
  ASSUME TypeOK, LockInv, ChainInv, damage = 0, NEW t \in Threads, Update(t)
  PROVE  ChainInv'
<1> USE DEF At, Step
<1>1. pc[t] = "update" /\ writer = Home[t] /\ lock[Home[t]] = t
  BY DEF Update, LockInv
<1>2. \A u \in Threads : u # t => pc'[u] = pc[u] /\ pc[u] \notin {"update", "commit"}
  BY <1>1 DEF Update, LockInv
<1>3. \A p \in Procs : state'[p] # "committing"
  BY <1>1 DEF Update, LockInv, procVars
<1>4. pc'[t] = "commit" /\ UNCHANGED <<rows, checkpoint, key, seen, call, damage>>
  BY <1>1 DEF Update, procVars
<1>5. \A u \in Threads : /\ HeadOrBehind(u)' = HeadOrBehind(u)
                         /\ WithRow(u)' = WithRow(u) /\ NextHead(u)' = NextHead(u)
  BY <1>4 DEF HeadOrBehind, WithRow, NextHead, NewRow
<1>6. tx'.rows = tx.rows /\ tx'.checkpoint = NextHead(t)
  BY DEF Update, NextHead
<1>7. QED
  BY <1>1, <1>2, <1>3, <1>4, <1>5, <1>6 DEF ChainInv

LEMMA ReadHeadStep ==
  ASSUME TypeOK, LockInv, ChainInv, damage = 0, NEW t \in Threads, ReadHead(t)
  PROVE  ChainInv'
<1> USE DEF At, Step
<1>1. pc[t] = "head" /\ Home[t] \in Procs /\ state[Home[t]] = "up" /\ lock[Home[t]] = t
  BY DEF ReadHead, LockInv
<1>2. writer # Home[t]
  BY <1>1 DEF LockInv
<1>3. Visible(Home[t]).checkpoint = checkpoint
  BY <1>2 DEF Visible
<1>4. seen'[t] = checkpoint /\ CheckpointValid(checkpoint, key[Home[t]])
  BY <1>3 DEF ReadHead, TrustedCheckpoint
<1>5. /\ pc'[t] = "insert" /\ UNCHANGED <<rows, checkpoint, key, call, damage, tx, state>>
      /\ \A u \in Threads : u # t => pc'[u] = pc[u] /\ seen'[u] = seen[u]
  BY DEF ReadHead, file, procVars
<1>6. HeadOrBehind(t)'
  <2>1. checkpoint.seq \in Nat
    BY NoCheckpointType DEF Checkpoints, Sealed
  <2>2. QED
    BY <1>4, <1>5, <2>1 DEF HeadOrBehind, CheckpointValid
<1>7. \A u \in Threads : u # t =>
        /\ HeadOrBehind(u)' = HeadOrBehind(u)
        /\ WithRow(u)' = WithRow(u) /\ NextHead(u)' = NextHead(u)
  BY <1>5 DEF HeadOrBehind, WithRow, NextHead, NewRow
<1>8. QED
  BY <1>5, <1>6, <1>7 DEF ChainInv

LEMMA CallKeepsChain ==
  ASSUME TypeOK, LockInv, ChainInv, damage = 0, NEW t \in Threads,
         Calling(t) \/ StatementFails(t)
  PROVE  ChainInv'
<1> USE DEF At, Step
<1>1. ASSUME Leave(t), UNCHANGED <<rows, checkpoint, state, key, damage>>,
             UNCHANGED tx \/ (Rollback(Home[t]) /\ pc[t] \notin {"idle", "enter"})
      PROVE  ChainInv'
  <2>1. pc'[t] = "idle" /\ \A u \in Threads : u # t =>
          pc'[u] = pc[u] /\ seen'[u] = seen[u] /\ call'[u] = call[u]
    BY <1>1 DEF Leave
  <2>2. CASE UNCHANGED tx
    BY <1>1, <2>1, <2>2, QuietStep
  <2>3. CASE Rollback(Home[t]) /\ pc[t] \notin {"idle", "enter"}
    <3>1. lock[Home[t]] = t /\ state[Home[t]] = "up" /\ Home[t] \in Procs
      BY <2>3 DEF LockInv
    <3>2. \A u \in Threads : pc'[u] \in {"update", "commit"} => tx' = tx
      BY <2>1, <2>3, <3>1 DEF LockInv, Rollback
    <3>3. \A p \in Procs : state'[p] = "committing" => tx' = tx
      BY <1>1, <2>3, <3>1 DEF LockInv, Rollback
    <3>4. QED
      BY <1>1, <2>1, <3>2, <3>3, QuietStep
  <2>4. QED
    BY <1>1, <2>2, <2>3
<1>2. CASE \/ CheckpointRejected(t) \/ RowsRejected(t) \/ RejectExecution(t)
           \/ HeadRejected(t) \/ SequenceTaken(t) \/ BusyTimeout(t)
           \/ StatementFails(t) \/ SelectRejected(t) \/ SelectRow(t) \/ ReturnRecord(t)
  BY <1>1, <1>2 DEF CheckpointRejected, RowsRejected, RejectExecution, HeadRejected,
     SequenceTaken, BusyTimeout, StatementFails, SelectRejected, SelectRow, ReturnRecord,
     Raise, UndoTransaction, Rollback, file
<1>3. CASE Enter(t) \/ ReadCheckpoint(t) \/ VerifyRows(t) \/ AcceptExecution(t)
  <2>1. /\ pc'[t] \notin {"insert", "update", "commit"}
        /\ UNCHANGED <<rows, checkpoint, tx, key, state, damage, call>>
        /\ \A u \in Threads : u # t => pc'[u] = pc[u] /\ seen'[u] = seen[u]
    BY <1>3 DEF Enter, ReadCheckpoint, VerifyRows, AcceptExecution, file, procVars
  <2>2. QED
    BY <2>1, QuietStep
<1>4. QED
  BY <1>2, <1>3, ReadHeadStep, InsertStep, UpdateStep, CommitStep DEF Calling

LEMMA ProcessKeepsChain ==
  ASSUME TypeOK, LockInv, ChainInv, damage = 0, NEW p \in Procs,
         \/ Opening(p) \/ OpenFails(p) \/ Crash(p)
         \/ \E configured \in KeyModes : Start(p, configured)
  PROVE  ChainInv'
<1> USE DEF Goto
<1>1. \A t \in Threads : pc[t] \in {"insert", "update", "commit"} => state[Home[t]] = "up"
  BY DEF LockInv
<1>2. CASE Crash(p) \/ OpenFails(p)
  <2>1. /\ UNCHANGED <<rows, checkpoint, key, damage>> /\ Rollback(p)
        /\ state' = [state EXCEPT ![p] = "down"]
        /\ \A t \in Threads : \/ pc'[t] = pc[t] /\ seen'[t] = seen[t] /\ call'[t] = call[t]
                              \/ Home[t] = p /\ pc'[t] = "idle"
    <3>1. CASE Crash(p)
      BY <3>1 DEF Crash, Rollback, thrVars
    <3>2. CASE OpenFails(p)
      BY <3>2 DEF OpenFails, Rollback, thrVars
    <3> QED
      BY <1>2, <3>1, <3>2
  <2>2. \A t \in Threads : pc'[t] \in {"update", "commit"} => tx' = tx
    <3>1. CASE Crash(p)
      BY <3>1, <2>1 DEF Crash, LockInv, Rollback
    <3>2. CASE OpenFails(p)
      BY <3>2, <2>1, <1>1 DEF OpenFails, LockInv, Rollback, thrVars
    <3>3. QED
      BY <1>2, <3>1, <3>2
  <2>3. \A q \in Procs : state'[q] = "committing" => state[q] = "committing" /\ tx' = tx
    BY <2>1 DEF LockInv, Rollback
  <2>4. QED
    BY <2>1, <2>2, <2>3, QuietStep
<1>3. CASE Seal(p)
  <2>1. /\ pc' = pc /\ seen' = seen /\ call' = call
        /\ UNCHANGED <<rows, checkpoint, key, damage>>
        /\ writer = Nobody /\ checkpoint = NoCheckpoint
        /\ tx' = [rows |-> rows, checkpoint |-> SignedCheckpoint(key[p], 0, Genesis)]
        /\ state' = [state EXCEPT ![p] = "committing"]
    BY <1>3 DEF Seal, thrVars
  <2>2. rows = {}
    BY <2>1 DEF ChainInv, Chained
  <2>3. \A t \in Threads : pc[t] \notin {"insert", "update", "commit"}
    BY <2>1 DEF ChainInv, HeadOrBehind
  <2>4. \A q \in Procs : q # p => state'[q] # "committing"
    BY <2>1 DEF LockInv
  <2>5. QED
    BY <2>1, <2>2, <2>3, <2>4 DEF ChainInv
<1>4. CASE OpenCommit(p)
  <2>1. /\ pc' = pc /\ UNCHANGED <<damage, key>> /\ state[p] = "committing"
        /\ rows' = {} /\ checkpoint' = SignedCheckpoint(key[p], 0, Genesis)
        /\ state' = [state EXCEPT ![p] = "up"]
    BY <1>4 DEF OpenCommit, Publish, ChainInv, thrVars
  <2>2. Chained(rows', checkpoint') /\ IsFiniteSet(rows')
    BY <2>1, EmptyChain, FS_EmptySet
  <2>3. rows = {} /\ writer = p
    BY <2>1 DEF ChainInv, LockInv
  <2>4. checkpoint = NoCheckpoint
    BY <2>1 DEF ChainInv
  <2>5. \A t \in Threads : pc[t] \notin {"insert", "update", "commit"}
    BY <2>4 DEF ChainInv, HeadOrBehind
  <2>6. \A q \in Procs : state'[q] # "committing"
    BY <2>1, <2>3 DEF LockInv
  <2>7. QED
    BY <2>1, <2>2, <2>5, <2>6 DEF ChainInv
<1>5. CASE \E configured \in KeyModes : Start(p, configured)
  <2>1. PICK configured \in KeyModes : Start(p, configured)
    BY <1>5
  <2>2. /\ UNCHANGED <<rows, checkpoint, tx, pc, seen, call, damage>>
        /\ \A q \in Procs : q # p => key'[q] = key[q]
        /\ state[p] = "down" /\ state' = [state EXCEPT ![p] = "opening"]
    BY <2>1 DEF Start, file, thrVars
  <2>3. \A t \in Threads : pc[t] \in {"insert", "update", "commit"} =>
          key'[Home[t]] = key[Home[t]]
    BY <1>1, <2>2
  <2>4. \A t \in Threads : pc[t] \in {"insert", "update", "commit"} =>
          /\ HeadOrBehind(t)' = HeadOrBehind(t)
          /\ WithRow(t)' = WithRow(t) /\ NextHead(t)' = NextHead(t)
    BY <2>2, <2>3 DEF HeadOrBehind, WithRow, NextHead, NewRow
  <2>5. QED
    BY <2>2, <2>4 DEF ChainInv
<1>6. CASE \/ OpenSealed(p) \/ OpenUnsealed(p) \/ OpenEmpty(p) \/ OpenOrphanRows(p)
           \/ AlreadySealed(p)
  <2>1. /\ UNCHANGED <<rows, checkpoint, tx, key, pc, seen, call, damage>>
        /\ \A q \in Procs : state'[q] = "committing" => state[q] = "committing"
    BY <1>6 DEF OpenSealed, OpenUnsealed, OpenEmpty, OpenOrphanRows, AlreadySealed,
       file, thrVars
  <2>2. QED
    BY <2>1, QuietStep
<1>7. QED
  BY <1>2, <1>3, <1>4, <1>5, <1>6 DEF Opening

LEMMA NextKeepsChain == TypeOK /\ LockInv /\ ChainInv /\ [Next]_vars => ChainInv'
<1> SUFFICES ASSUME TypeOK, LockInv, ChainInv, [Next]_vars
             PROVE  ChainInv'
  OBVIOUS
<1>1. CASE damage # 0 \/ Damage
  <2>1. damage \in Nat
    BY BoundsAssumption DEF TypeOK, ProcTypeOK
  <2>2. CASE Damage
    <3>1. damage' = damage + 1
      BY <2>2 DEF Damage, DeleteRow, AlterDocument, SubstituteDocument, CutTail, Edit
    <3>2. QED
      BY <2>1, <3>1 DEF ChainInv
  <2>3. CASE damage # 0 /\ ~Damage
    <3>1. ASSUME NEW t \in Threads, Calling(t) \/ StatementFails(t)
          PROVE  damage' = damage
      BY <3>1 DEF Calling, StatementFails, Enter, ReadCheckpoint, CheckpointRejected,
         VerifyRows, RowsRejected, AcceptExecution, RejectExecution, ReadHead, HeadRejected,
         Insert, SequenceTaken, BusyTimeout, Update, Commit, ReturnRecord, SelectRow,
         SelectRejected
    <3>2. ASSUME NEW p \in Procs,
                 \/ Opening(p) \/ OpenFails(p) \/ Crash(p)
                 \/ \E configured \in KeyModes : Start(p, configured)
          PROVE  damage' = damage
      BY <3>2 DEF Opening, OpenFails, Crash, Start, OpenSealed, OpenUnsealed,
         OpenEmpty, OpenOrphanRows, Seal, AlreadySealed, OpenCommit
    <3>3. ASSUME NEW t \in Threads,
                 \/ \E valid \in BOOLEAN : BeginRecord(t, valid)
                 \/ \E q \in Ids : BeginGet(t, q)
          PROVE  damage' = damage
      BY <3>3 DEF BeginRecord, BeginGet, Begin
    <3>4. damage' = damage
      BY <2>3, <3>1, <3>2, <3>3 DEF Next, vars
    <3>5. QED
      BY <2>3, <3>4 DEF ChainInv
  <2>4. QED
    BY <1>1, <2>2, <2>3
<1>2. ASSUME damage = 0, NEW t \in Threads,
             \/ \E valid \in BOOLEAN : BeginRecord(t, valid)
             \/ \E q \in Ids : BeginGet(t, q)
      PROVE  ChainInv'
  <2>1. /\ UNCHANGED <<rows, checkpoint, tx, key, state, seen, damage>>
        /\ pc' = [pc EXCEPT ![t] = "enter"]
        /\ \A u \in Threads : u # t => call'[u] = call[u]
    BY <1>2 DEF BeginRecord, BeginGet, Begin, Step, file, procVars
  <2>2. QED
    BY <1>2, <2>1, QuietStep
<1>3. CASE damage = 0 /\ UNCHANGED vars
  BY <1>3, QuietStep DEF vars, file, procVars, thrVars
<1>4. QED
  BY <1>1, <1>2, <1>3, CallKeepsChain, ProcessKeepsChain DEF Next

LEMMA InitChain == Init => ChainInv
BY FS_EmptySet DEF Init, ChainInv, Chained

\* The chain of a file nobody edited verifies, in every committed state: whatever
\* processes and threads race, fail, crash and restart, with whatever keys.
THEOREM ChainAlwaysVerifies == Spec => []ChainVerifies
<1>1. TypeOK /\ LockInv /\ ChainInv /\ [Next]_vars => (TypeOK /\ LockInv /\ ChainInv)'
  BY NextTypes, NextKeepsChain
<1>2. ChainInv => ChainVerifies
  BY DEF ChainInv, Chained, ChainVerifies
<1>3. QED
  BY InitTypes, InitChain, <1>1, <1>2, PTL DEF Spec
-----------------------------------------------------------------------------
(***************************************************************************)
(* Identifiers: whose rows are in the file, and whose may come into it.    *)
(***************************************************************************)
RowIds(rs) == {r.id : r \in rs}
Recording(t) == call[t].kind = "record"
Writing(t) == pc[t] \in {"update", "commit"}

\* A call that records has an identifier of its own, which no failed call had and which is in
\* the file only once it is committed.
CallInv(t) ==
  /\ Recording(t) => /\ call[t].id \in 1 .. calls /\ call[t].id \notin failed
                     /\ pc[t] # "return" => call[t].id \notin RowIds(rows)
  /\ pc[t] \in {"accept", "head", "insert", "update", "commit", "return"} => Recording(t)
  /\ Writing(t) => call[t].id \in RowIds(tx.rows)
  /\ pc[t] = "return" /\ damage = 0 => call[t].id \in RowIds(rows)

\* The uncommitted image has the file's rows and at most that of the call which writes.
ImageInv ==
  /\ writer = Nobody => tx.rows = {}
  /\ writer # Nobody => RowIds(rows) \subseteq RowIds(tx.rows)
  /\ \A q \in RowIds(tx.rows) :
       q \in RowIds(rows) \/ \E t \in Threads : Recording(t) /\ Writing(t) /\ call[t].id = q

IdsInv ==
  /\ RowIds(rows) \cup failed \cup acked \subseteq 1 .. calls
  /\ FailedLeavesNothing /\ AckedDurable
  /\ \A t \in Threads : CallInv(t)
  /\ \A t, u \in Threads : t # u /\ Recording(t) /\ Recording(u) => call[t].id # call[u].id
  /\ ImageInv

LEMMA InitIds == Init => IdsInv
BY DEF Init, IdsInv, FailedLeavesNothing, AckedDurable, CallInv, ImageInv, RowIds, Recording,
       Writing, NoCall, NoTx

\* A thread writes alone in its process, and with the write lock.
LEMMA WritesAlone ==
  ASSUME LockInv, NEW t \in Threads, Writing(t)
  PROVE  /\ writer = Home[t] /\ writer # Nobody
         /\ \A u \in Threads : Home[u] = Home[t] /\ pc[u] \notin {"idle", "enter"} => u = t
         /\ \A u \in Threads : Writing(u) => u = t
  BY DEF LockInv, Writing

\* A step that leaves the rows, the image's rows and the histories alone.
LEMMA IdsStay ==
  ASSUME TypeOK, IdsInv, UNCHANGED <<rows, writer, calls, damage, failed, acked, call>>,
         tx'.rows = tx.rows,
         \A t \in Threads :
            \/ pc'[t] = pc[t]
            \/ Writing(t) /\ Writing(t)'
            \/ /\ pc[t] \notin {"update", "commit", "return"}
               /\ pc'[t] \notin {"update", "commit", "return"}
               /\ pc'[t] \in {"accept", "head", "insert"} => Recording(t)
  PROVE  IdsInv'
<1>1. \A t \in Threads : Recording(t)' = Recording(t) /\ Writing(t)' = Writing(t)
  BY DEF Recording, Writing
<1>2. \A t \in Threads : CallInv(t)'
  BY <1>1 DEF IdsInv, CallInv, Writing
<1>3. ImageInv'
  BY <1>1 DEF IdsInv, ImageInv
<1>4. FailedLeavesNothing' /\ AckedDurable'
  BY DEF IdsInv, FailedLeavesNothing, AckedDurable
<1> QED BY <1>1, <1>2, <1>3, <1>4 DEF IdsInv

\* Calls end, of themselves or with their process, and take their open transaction along.
LEMMA IdsEnd ==
  ASSUME TypeOK, LockInv, IdsInv, UNCHANGED <<rows, calls, damage>>,
         acked' = acked \/ \E q \in 1 .. calls : acked' = acked \cup {q}
                                                /\ (damage = 0 => q \in RowIds(rows)),
         failed' = failed \/ \E u \in Threads : /\ Recording(u) /\ pc[u] # "return"
                                               /\ failed' = failed \cup {call[u].id}
                                               /\ call'[u] = NoCall,
         \A t \in Threads : \/ pc'[t] = pc[t] /\ call'[t] = call[t]
                            \/ pc'[t] = "idle" /\ call'[t] = NoCall,
         \/ UNCHANGED <<writer, tx>> /\ \A t \in Threads : Writing(t) => pc'[t] = pc[t] /\ call'[t] = call[t]
         \/ writer' = Nobody /\ tx' = NoTx /\ \A t \in Threads : Writing(t) => pc'[t] = "idle"
  PROVE  IdsInv'
<1>1. ~(NoCall.kind = "record")
  BY DEF NoCall
<1>2. \A t \in Threads : Recording(t)' => Recording(t) /\ call'[t] = call[t] /\ pc'[t] = pc[t]
  BY <1>1 DEF Recording
<1>3. \A t \in Threads : Writing(t)' => Writing(t) /\ UNCHANGED <<writer, tx>> /\ pc'[t] = pc[t]
                                        /\ call'[t] = call[t]
  BY DEF Writing
<1>4. ASSUME NEW t \in Threads PROVE CallInv(t)'
  <2>1. Recording(t)' => call'[t].id \notin failed'
    BY <1>1, <1>2 DEF IdsInv, CallInv, Recording
  <2>2. pc'[t] \in {"accept", "head", "insert", "update", "commit", "return"} => Recording(t)'
    BY DEF IdsInv, CallInv, Recording
  <2> QED BY <1>2, <1>3, <2>1, <2>2 DEF IdsInv, CallInv
<1>5. ImageInv'
  <2>1. CASE writer' = Nobody /\ tx' = NoTx
    BY <2>1 DEF ImageInv, NoTx, RowIds
  <2>2. CASE /\ UNCHANGED <<writer, tx>>
             /\ \A t \in Threads : Writing(t) => pc'[t] = pc[t] /\ call'[t] = call[t]
    BY <2>2 DEF IdsInv, ImageInv, Recording, Writing
  <2> QED BY <2>1, <2>2
<1>6. FailedLeavesNothing' /\ AckedDurable' /\ failed' \cup acked' \subseteq 1 .. calls
  BY DEF IdsInv, FailedLeavesNothing, AckedDurable, CallInv, RowIds
<1>7. \A t, u \in Threads : t # u /\ Recording(t)' /\ Recording(u)' => call'[t].id # call'[u].id
  BY <1>2 DEF IdsInv
<1> QED BY <1>4, <1>5, <1>6, <1>7 DEF IdsInv

\* The INSERT adds the call's own row to an image that begins as the file.
LEMMA InsertIds ==
  ASSUME TypeOK, LockInv, IdsInv, NEW t \in Threads, Insert(t)
  PROVE  IdsInv'
<1>1. /\ pc[t] = "insert" /\ pc' = [pc EXCEPT ![t] = "update"] /\ writer' = Home[t]
      /\ UNCHANGED <<rows, calls, damage, failed, acked, call>>
      /\ tx' = [Visible(Home[t]) EXCEPT !.rows = @ \cup {NewRow(t)}]
      /\ writer \in {Nobody, Home[t]}
  BY DEF Insert, At, Step, Blocked, history
<1>2. \A u \in Threads : ~Writing(u)
  <2>1. ASSUME NEW u \in Threads, Writing(u) PROVE FALSE
    <3>1. Home[u] = Home[t] /\ u = t
      BY <1>1, <2>1, WritesAlone DEF LockInv
    <3> QED BY <1>1, <2>1, <3>1 DEF Writing
  <2> QED BY <2>1
<1>3. writer = Nobody
  BY <1>1, <1>2 DEF LockInv, Writing
<1>4. Visible(Home[t]) = [rows |-> rows, checkpoint |-> checkpoint]
  BY <1>3 DEF Visible
<1>5. tx'.rows = rows \cup {NewRow(t)} /\ NewRow(t).id = call[t].id
  BY <1>1, <1>4 DEF NewRow
<1>6. RowIds(tx'.rows) = RowIds(rows) \cup {call[t].id}
  BY <1>5 DEF RowIds
<1>7. Recording(t) /\ Recording(t)' /\ Writing(t)'
  BY <1>1 DEF IdsInv, CallInv, Recording, Writing
<1>8. \A u \in Threads : u # t => pc'[u] = pc[u]
  BY <1>1
<1>9. ASSUME NEW u \in Threads PROVE CallInv(u)'
  <2>1. CASE u = t
    BY <1>1, <1>6, <1>7, <2>1 DEF IdsInv, CallInv, Recording, Writing
  <2>2. CASE u # t
    BY <1>1, <1>2, <1>8, <2>2 DEF IdsInv, CallInv, Recording, Writing
  <2> QED BY <2>1, <2>2
<1>10. ImageInv'
  <2>1. Home[t] # Nobody /\ call'[t].id = call[t].id /\ RowIds(rows)' = RowIds(rows)
    BY <1>1
  <2>2. RowIds(tx.rows)' = RowIds(rows) \cup {call[t].id}
    BY <1>6
  <2>3. ASSUME NEW q \in RowIds(tx.rows)'
        PROVE  q \in RowIds(rows)' \/ \E u \in Threads : Recording(u)' /\ Writing(u)' /\ call'[u].id = q
    BY <1>7, <2>1, <2>2
  <2> QED BY <1>1, <2>1, <2>2, <2>3 DEF ImageInv
<1>11. FailedLeavesNothing' /\ AckedDurable'
  BY <1>1 DEF IdsInv, FailedLeavesNothing, AckedDurable
<1> QED BY <1>1, <1>9, <1>10, <1>11 DEF IdsInv, Recording

\* A commit brings the image's rows: those of the file and the committed call's.
LEMMA CommitIds ==
  ASSUME TypeOK, LockInv, IdsInv, NEW t \in Threads, Commit(t)
  PROVE  IdsInv'
<1>1. /\ pc[t] = "commit" /\ pc' = [pc EXCEPT ![t] = "return"]
      /\ UNCHANGED <<calls, damage, failed, acked, call>>
      /\ rows' = tx.rows /\ writer' = Nobody /\ tx' = NoTx
  BY DEF Commit, At, Step, Publish, history
<1>2. /\ writer = Home[t] /\ writer # Nobody
      /\ \A u \in Threads : Writing(u) => u = t
  BY <1>1, WritesAlone DEF Writing
<1>3. /\ Recording(t) /\ call[t].id \in RowIds(tx.rows)
      /\ RowIds(rows) \subseteq RowIds(tx.rows)
      /\ \A q \in RowIds(tx.rows) : q \in RowIds(rows) \/ q = call[t].id
  BY <1>1, <1>2 DEF IdsInv, CallInv, ImageInv, Writing
<1>4. RowIds(rows') = RowIds(rows) \cup {call[t].id}
  BY <1>1, <1>3
<1>5. \A u \in Threads : Recording(u)' = Recording(u)
  BY <1>1 DEF Recording
<1>6. ASSUME NEW u \in Threads PROVE CallInv(u)'
  <2>1. CASE u = t
    BY <1>1, <1>3, <1>4, <1>5, <2>1 DEF IdsInv, CallInv, Writing
  <2>2. CASE u # t
    <3>1. pc'[u] = pc[u] /\ ~Writing(u) /\ ~Writing(u)'
      BY <1>1, <1>2, <2>2 DEF Writing
    <3>2. Recording(u) => call[u].id # call[t].id
      BY <1>3, <2>2 DEF IdsInv
    <3> QED BY <1>1, <1>4, <1>5, <3>1, <3>2 DEF IdsInv, CallInv
  <2> QED BY <2>1, <2>2
<1>7. ImageInv'
  BY <1>1 DEF ImageInv, NoTx, RowIds
<1>8. FailedLeavesNothing' /\ AckedDurable'
  <2>1. call[t].id \notin failed
    BY <1>3 DEF IdsInv, CallInv
  <2>2. failed \cap RowIds(rows) = {} /\ (damage = 0 => acked \subseteq RowIds(rows))
    BY DEF IdsInv, FailedLeavesNothing, AckedDurable, RowIds
  <2>3. failed' \cap RowIds(rows') = {} /\ (damage' = 0 => acked' \subseteq RowIds(rows'))
    BY <1>1, <1>4, <2>1, <2>2
  <2> QED BY <2>3 DEF FailedLeavesNothing, AckedDurable, RowIds
<1>9. RowIds(rows') \cup failed' \cup acked' \subseteq 1 .. calls'
  BY <1>1, <1>3, <1>4 DEF IdsInv, CallInv
<1> QED BY <1>1, <1>5, <1>6, <1>7, <1>8, <1>9 DEF IdsInv

\* A raised exception: the transaction of the process is undone, and the call had no row in
\* the file.
LEMMA RaiseIds ==
  ASSUME TypeOK, LockInv, IdsInv, NEW t \in Threads, Raise(t),
         pc[t] \notin {"idle", "enter", "return"}, UNCHANGED damage,
         (UNCHANGED file /\ ~Writing(t)) \/ Rollback(Home[t])
  PROVE  IdsInv'
<1>1. /\ UNCHANGED <<rows, calls, damage, acked>>
      /\ pc' = [pc EXCEPT ![t] = "idle"] /\ call' = [call EXCEPT ![t] = NoCall]
  BY DEF Raise, Leave, Step, Rollback, file
<1>2. \/ failed' = failed
      \/ Recording(t) /\ pc[t] # "return" /\ failed' = failed \cup {call[t].id} /\ call'[t] = NoCall
  BY <1>1 DEF Raise, Recording
<1>3. \A u \in Threads : \/ pc'[u] = pc[u] /\ call'[u] = call[u]
                         \/ pc'[u] = "idle" /\ call'[u] = NoCall
  BY <1>1
<1>4. \/ UNCHANGED <<writer, tx>> /\ \A u \in Threads : Writing(u) => pc'[u] = pc[u] /\ call'[u] = call[u]
      \/ writer' = Nobody /\ tx' = NoTx /\ \A u \in Threads : Writing(u) => pc'[u] = "idle"
  <2>1. CASE UNCHANGED file /\ ~Writing(t)
    BY <1>1, <2>1 DEF file
  <2>2. CASE Rollback(Home[t]) /\ writer # Home[t]
    <3>1. ~Writing(t)
      BY <2>2, WritesAlone
    <3> QED BY <1>1, <2>2, <3>1 DEF Rollback
  <2>3. CASE Rollback(Home[t]) /\ writer = Home[t]
    <3>1. \A u \in Threads : Writing(u) => u = t
      <4>1. ASSUME NEW u \in Threads, Writing(u) PROVE u = t
        BY <2>3, <4>1, WritesAlone
      <4> QED BY <4>1
    <3> QED BY <1>1, <2>3, <3>1 DEF Rollback
  <2> QED BY <2>1, <2>2, <2>3
<1> QED BY <1>1, <1>2, <1>3, <1>4, IdsEnd

\* A call returns to its caller.
LEMMA LeaveIds ==
  ASSUME TypeOK, LockInv, IdsInv, NEW t \in Threads, SelectRow(t) \/ ReturnRecord(t)
  PROVE  IdsInv'
<1>1. /\ UNCHANGED <<rows, writer, tx, calls, damage, failed>>
      /\ pc' = [pc EXCEPT ![t] = "idle"] /\ call' = [call EXCEPT ![t] = NoCall]
      /\ ~Writing(t)
  BY DEF SelectRow, ReturnRecord, Leave, Step, At, file, Writing
<1>2. \/ acked' = acked
      \/ \E q \in 1 .. calls : acked' = acked \cup {q} /\ (damage = 0 => q \in RowIds(rows))
  <2>1. CASE SelectRow(t)
    BY <2>1 DEF SelectRow
  <2>2. CASE ReturnRecord(t)
    BY <2>2 DEF ReturnRecord, At, IdsInv, CallInv
  <2> QED BY <2>1, <2>2
<1>3. \A u \in Threads : \/ pc'[u] = pc[u] /\ call'[u] = call[u]
                         \/ pc'[u] = "idle" /\ call'[u] = NoCall
  BY <1>1
<1>4. \A u \in Threads : Writing(u) => pc'[u] = pc[u] /\ call'[u] = call[u]
  BY <1>1
<1> QED BY <1>1, <1>2, <1>3, <1>4, IdsEnd

LEMMA CallKeepsIds ==
  ASSUME TypeOK, LockInv, IdsInv, NEW t \in Threads, Calling(t) \/ StatementFails(t)
  PROVE  IdsInv'
<1>1. CASE \/ CheckpointRejected(t) \/ RowsRejected(t) \/ RejectExecution(t)
           \/ HeadRejected(t) \/ SequenceTaken(t) \/ BusyTimeout(t)
           \/ StatementFails(t) \/ SelectRejected(t)
  <2>1. /\ Raise(t) /\ pc[t] \notin {"idle", "enter", "return"} /\ UNCHANGED damage
        /\ (UNCHANGED file /\ ~Writing(t)) \/ Rollback(Home[t])
    BY <1>1 DEF CheckpointRejected, RowsRejected, RejectExecution, HeadRejected, SequenceTaken,
       BusyTimeout, StatementFails, SelectRejected, UndoTransaction, At, Writing
  <2> QED BY <2>1, RaiseIds
<1>2. CASE Enter(t) \/ ReadCheckpoint(t) \/ VerifyRows(t) \/ AcceptExecution(t) \/ ReadHead(t)
  <2>1. /\ UNCHANGED <<rows, writer, tx, calls, damage, failed, acked, call>>
        /\ pc[t] \notin {"update", "commit", "return"}
        /\ \E s \in {"checkpoint", "rows", "accept", "select", "head", "insert"} :
             /\ pc' = [pc EXCEPT ![t] = s]
             /\ s \in {"accept", "head", "insert"} => Recording(t)
    BY <1>2 DEF Enter, ReadCheckpoint, VerifyRows, AcceptExecution, ReadHead, At, Step, file,
       history, procVars, Recording, IdsInv, CallInv
  <2>2. \A u \in Threads :
            \/ pc'[u] = pc[u]
            \/ /\ pc[u] \notin {"update", "commit", "return"}
               /\ pc'[u] \notin {"update", "commit", "return"}
               /\ pc'[u] \in {"accept", "head", "insert"} => Recording(u)
    BY <2>1
  <2> QED BY <2>1, <2>2, IdsStay
<1>3. CASE Update(t)
  <2>1. /\ UNCHANGED <<rows, writer, calls, damage, failed, acked, call>> /\ tx'.rows = tx.rows
        /\ pc[t] = "update" /\ pc' = [pc EXCEPT ![t] = "commit"]
    BY <1>3 DEF Update, At, Step, history
  <2>2. \A u \in Threads : u # t => pc'[u] = pc[u]
    BY <2>1
  <2>3. pc[t] = "update" /\ pc'[t] = "commit"
    BY <2>1
  <2>4. Writing(t) /\ Writing(t)'
    BY <2>3 DEF Writing
  <2>5. \A u \in Threads : pc'[u] = pc[u] \/ (Writing(u) /\ Writing(u)')
    BY ONLY <2>2, <2>4, Zenon
  <2> QED BY <2>1, <2>5, IdsStay
<1>4. CASE SelectRow(t) \/ ReturnRecord(t)
  BY <1>4, LeaveIds
<1> QED BY <1>1, <1>2, <1>3, <1>4, InsertIds, CommitIds DEF Calling

LEMMA ProcessKeepsIds ==
  ASSUME TypeOK, LockInv, IdsInv, NEW p \in Procs,
         \/ Opening(p) \/ OpenFails(p) \/ Crash(p)
         \/ \E configured \in KeyModes : Start(p, configured)
  PROVE  IdsInv'
<1>1. CASE Crash(p) \/ OpenFails(p)
  <2>1. /\ UNCHANGED <<rows, calls, damage, acked, failed>> /\ Rollback(p)
        /\ \A t \in Threads : \/ pc'[t] = pc[t] /\ call'[t] = call[t]
                              \/ pc'[t] = "idle" /\ call'[t] = NoCall
    <3>1. CASE Crash(p)
      BY <3>1 DEF Crash, Rollback, history
    <3>2. CASE OpenFails(p)
      BY <3>2 DEF OpenFails, Rollback, history, thrVars
    <3> QED BY <1>1, <3>1, <3>2
  <2>2. \A t \in Threads : Writing(t) => state[Home[t]] = "up" /\ writer = Home[t]
    BY WritesAlone DEF LockInv, Writing
  <2>3. \/ UNCHANGED <<writer, tx>> /\ \A t \in Threads : Writing(t) => pc'[t] = pc[t] /\ call'[t] = call[t]
        \/ writer' = Nobody /\ tx' = NoTx /\ \A t \in Threads : Writing(t) => pc'[t] = "idle"
    <3>1. CASE writer # p
      <4>1. UNCHANGED <<writer, tx>>
        BY <2>1, <3>1 DEF Rollback
      <4>2. \A t \in Threads : Writing(t) => pc'[t] = pc[t] /\ call'[t] = call[t]
        <5>1. CASE Crash(p)
          BY <2>2, <3>1, <5>1 DEF Crash
        <5>2. CASE OpenFails(p)
          BY <5>2 DEF OpenFails, thrVars
        <5> QED BY <1>1, <5>1, <5>2
      <4> QED BY <4>1, <4>2
    <3>2. CASE writer = p
      <4>1. writer' = Nobody /\ tx' = NoTx
        BY <2>1, <3>2 DEF Rollback
      <4>2. \A t \in Threads : Writing(t) => pc'[t] = "idle"
        <5>1. CASE Crash(p)
          BY <2>2, <3>2, <5>1 DEF Crash
        <5>2. CASE OpenFails(p)
          BY <2>2, <3>2, <5>2 DEF OpenFails
        <5> QED BY <1>1, <5>1, <5>2
      <4> QED BY <4>1, <4>2
    <3> QED BY <3>1, <3>2
  <2> QED BY <2>1, <2>3, IdsEnd
<1>2. CASE Seal(p)
  <2>1. /\ UNCHANGED <<rows, calls, damage, acked, failed, pc, call>>
        /\ writer = Nobody /\ writer' = p /\ tx'.rows = rows
    BY <1>2 DEF Seal, thrVars, history
  <2>2. \A t \in Threads : ~Writing(t)
    BY <2>1, WritesAlone
  <2>3. \A t \in Threads : CallInv(t)'
    BY <2>1, <2>2 DEF IdsInv, CallInv, Recording, Writing
  <2>4. ImageInv'
    BY <2>1 DEF ImageInv
  <2>5. FailedLeavesNothing' /\ AckedDurable'
    BY <2>1 DEF IdsInv, FailedLeavesNothing, AckedDurable
  <2> QED BY <2>1, <2>3, <2>4, <2>5 DEF IdsInv, Recording
\* The image it commits has the rows the file had.
<1>3. CASE OpenCommit(p)
  <2>1. /\ UNCHANGED <<calls, damage, acked, failed, pc, call>>
        /\ writer = p /\ writer' = Nobody /\ tx' = NoTx /\ rows' = tx.rows
        /\ state[p] = "committing"
    BY <1>3 DEF OpenCommit, Publish, thrVars, history, LockInv
  <2>2. \A t \in Threads : ~Writing(t)
    <3>1. ASSUME NEW t \in Threads, Writing(t) PROVE FALSE
      <4>1. Home[t] = p /\ state[Home[t]] = "up"
        BY <2>1, <3>1, WritesAlone DEF LockInv, Writing
      <4> QED BY <2>1, <4>1
    <3> QED BY <3>1
  <2>3. RowIds(rows') = RowIds(rows)
    <3>1. RowIds(rows) \subseteq RowIds(tx.rows) /\ RowIds(tx.rows) \subseteq RowIds(rows)
      BY <2>1, <2>2 DEF IdsInv, ImageInv
    <3> QED BY <2>1, <3>1
  <2>4. \A t \in Threads : CallInv(t)'
    BY <2>1, <2>2, <2>3 DEF IdsInv, CallInv, Recording, Writing
  <2>5. ImageInv'
    BY <2>1 DEF ImageInv, NoTx, RowIds
  <2>6. FailedLeavesNothing' /\ AckedDurable'
    BY <2>1, <2>3 DEF IdsInv, FailedLeavesNothing, AckedDurable, RowIds
  <2> QED BY <2>1, <2>3, <2>4, <2>5, <2>6 DEF IdsInv, Recording
<1>4. CASE \/ OpenSealed(p) \/ OpenUnsealed(p) \/ OpenEmpty(p) \/ OpenOrphanRows(p)
           \/ AlreadySealed(p) \/ \E configured \in KeyModes : Start(p, configured)
  <2>1. UNCHANGED <<rows, writer, tx, calls, damage, failed, acked, call, pc>>
    BY <1>4 DEF OpenSealed, OpenUnsealed, OpenEmpty, OpenOrphanRows, AlreadySealed, Start,
       file, thrVars, history
  <2> QED BY <2>1, IdsStay
<1> QED BY <1>1, <1>2, <1>3, <1>4 DEF Opening

\* The identifier of a call that begins is a fresh one.
LEMMA BeginIds ==
  ASSUME TypeOK, LockInv, IdsInv, NEW t \in Threads,
         \/ \E valid \in BOOLEAN : BeginRecord(t, valid)
         \/ \E q \in Ids : BeginGet(t, q)
  PROVE  IdsInv'
<1>1. /\ UNCHANGED <<rows, writer, tx, damage, failed, acked>>
      /\ pc[t] = "idle" /\ pc' = [pc EXCEPT ![t] = "enter"] /\ calls' = calls + 1 /\ calls \in Nat
  BY DEF BeginRecord, BeginGet, Begin, At, Step, file, history
<1>2. PICK c : /\ call' = [call EXCEPT ![t] = c]
               /\ c.kind = "record" => c.id = calls + 1
  <2>1. CASE \E valid \in BOOLEAN : BeginRecord(t, valid)
    <3>1. PICK valid \in BOOLEAN : BeginRecord(t, valid)
      BY <2>1
    <3>2. [kind |-> "record", id |-> calls + 1, valid |-> valid].id = calls + 1
      OBVIOUS
    <3> QED BY <3>1, <3>2 DEF BeginRecord, Begin
  <2>2. CASE \E q \in Ids : BeginGet(t, q)
    <3>1. PICK q \in Ids : BeginGet(t, q)
      BY <2>2
    <3>2. [kind |-> "get", id |-> q, valid |-> TRUE].kind # "record"
      OBVIOUS
    <3> QED BY <3>1, <3>2 DEF BeginGet, Begin
  <2> QED BY <2>1, <2>2
<1>3. /\ \A u \in Threads : u # t => pc'[u] = pc[u] /\ call'[u] = call[u]
      /\ pc'[t] = "enter" /\ call'[t] = c
  BY <1>1, <1>2
<1>4. calls + 1 \notin RowIds(rows) /\ calls + 1 \notin failed
  BY <1>1 DEF IdsInv
<1>5. ASSUME NEW u \in Threads PROVE CallInv(u)'
  <2>1. CASE u = t
    BY <1>1, <1>2, <1>3, <1>4, <2>1 DEF CallInv, Recording, Writing
  <2>2. CASE u # t
    BY <1>1, <1>3, <2>2 DEF IdsInv, CallInv, Recording, Writing
  <2> QED BY <2>1, <2>2
<1>6. \A u, v \in Threads : u # v /\ Recording(u)' /\ Recording(v)' => call'[u].id # call'[v].id
  BY <1>1, <1>2, <1>3 DEF IdsInv, CallInv, Recording
<1>7. ImageInv'
  <2>1. \A u \in Threads : Writing(u) => u # t
    BY <1>1 DEF Writing
  <2> QED BY <1>1, <1>3, <2>1 DEF IdsInv, ImageInv, Recording, Writing
<1>8. FailedLeavesNothing' /\ AckedDurable'
  BY <1>1 DEF IdsInv, FailedLeavesNothing, AckedDurable
<1>9. RowIds(rows') \cup failed' \cup acked' \subseteq 1 .. calls'
  BY <1>1 DEF IdsInv
<1> QED BY <1>5, <1>6, <1>7, <1>8, <1>9 DEF IdsInv

\* An edit brings no identifier the file did not have.
LEMMA DamageIds ==
  ASSUME TypeOK, LockInv, IdsInv, Damage
  PROVE  IdsInv'
<1>1. /\ writer = Nobody /\ damage' = damage + 1 /\ damage \in Nat
      /\ UNCHANGED <<writer, tx, calls, call, pc, failed, acked>>
  <2>1. \E rs, c : Edit(rs, c)
    BY DEF Damage, DeleteRow, AlterDocument, SubstituteDocument, CutTail
  <2> QED BY <2>1 DEF Edit, thrVars, history
<1>2. RowIds(rows') \subseteq RowIds(rows)
  <2>1. \/ \E r \in rows : rows' = rows \ {r}
        \/ \E r \in rows : \E doc, sig : rows' = (rows \ {r}) \cup {Holding(r, doc, sig)}
    BY DEF Damage, DeleteRow, AlterDocument, SubstituteDocument, CutTail, Edit
  <2>2. \A r, doc, sig : Holding(r, doc, sig).id = r.id
    BY DEF Holding
  <2> QED BY <2>1, <2>2 DEF RowIds
<1>3. \A t \in Threads : ~Writing(t)
  BY <1>1, WritesAlone
<1>4. \A t \in Threads : CallInv(t)'
  BY <1>1, <1>2, <1>3 DEF IdsInv, CallInv, Recording, Writing
<1>5. ImageInv'
  BY <1>1 DEF IdsInv, ImageInv, RowIds
<1>6. FailedLeavesNothing' /\ AckedDurable'
  BY <1>1, <1>2 DEF IdsInv, FailedLeavesNothing, AckedDurable, RowIds
<1> QED BY <1>1, <1>2, <1>4, <1>5, <1>6 DEF IdsInv, Recording

LEMMA NextKeepsIds == TypeOK /\ LockInv /\ IdsInv /\ [Next]_vars => IdsInv'
<1> SUFFICES ASSUME TypeOK, LockInv, IdsInv, [Next]_vars PROVE IdsInv'
  OBVIOUS
<1>1. CASE UNCHANGED vars
  BY <1>1, IdsStay DEF vars, file, thrVars, history
<1> QED BY <1>1, CallKeepsIds, ProcessKeepsIds, BeginIds, DamageIds DEF Next

LEMMA AlwaysIdsInv == Spec => []IdsInv
<1>1. TypeOK /\ LockInv /\ IdsInv /\ [Next]_vars => (TypeOK /\ LockInv /\ IdsInv)'
  BY NextTypes, NextKeepsIds
<1> QED BY InitTypes, InitIds, <1>1, PTL DEF Spec

\* An identifier that record has returned stays in a file nobody edited, through the crashes,
\* restarts and failures of any number of processes and threads.
THEOREM AckedAlwaysDurable == Spec => []AckedDurable
<1>1. IdsInv => AckedDurable
  BY DEF IdsInv
<1> QED BY <1>1, AlwaysIdsInv, PTL

\* A record call that raised has no row in the file and never gets one, edits or not.
THEOREM FailedAlwaysLeavesNothing == Spec => []FailedLeavesNothing
<1>1. IdsInv => FailedLeavesNothing
  BY DEF IdsInv
<1> QED BY <1>1, AlwaysIdsInv, PTL
-----------------------------------------------------------------------------
(***************************************************************************)
(* Signatures: only documents as they were written are ever signed, so a   *)
(* row that passes the test of get holds one, whoever edited it.           *)
(***************************************************************************)
SignsWritten(r) == \E k, q : r.sig = SignDoc(k, Written(q))

SignInv == /\ \A r \in rows : SignsWritten(r)
           /\ \A r \in tx.rows : SignsWritten(r)
           /\ ReadsFaithful

LEMMA AnswerFaithful ==
  ASSUME NEW t \in Threads, NEW r, SignsWritten(r), Answers(t, r)
  PROVE  r.doc = Written(call[t].id)
<1>1. PICK k, q : r.sig = SignDoc(k, Written(q))
  BY DEF SignsWritten
<1>2. r.sig = SignDoc(key[Home[t]], r.doc) /\ r.doc[1] = call[t].id
  BY DEF Answers
<1>3. SignDoc(k, Written(q))[2] = Written(q) /\ SignDoc(key[Home[t]], r.doc)[2] = r.doc
  BY DEF SignDoc
<1>4. r.doc = Written(q)
  BY <1>1, <1>2, <1>3
<1>5. Written(q)[1] = q
  BY DEF Written
<1> QED BY <1>2, <1>4, <1>5

LEMMA InitSign == Init => SignInv
BY DEF Init, SignInv, ReadsFaithful, NoTx

LEMMA NextSign == TypeOK /\ SignInv /\ [Next]_vars => SignInv'
<1> SUFFICES ASSUME TypeOK, SignInv, [Next]_vars PROVE SignInv'
  OBVIOUS
<1>1. NoTx.rows = {}
  BY DEF NoTx
<1>2. ASSUME reads' = reads, rows' = rows \/ rows' = tx.rows,
             tx'.rows = tx.rows \/ tx'.rows = rows \/ tx' = NoTx
      PROVE  SignInv'
  <2>1. \A r \in rows' : SignsWritten(r)
    BY <1>2 DEF SignInv
  <2>2. \A r \in tx'.rows : SignsWritten(r)
    BY <1>1, <1>2 DEF SignInv
  <2> QED BY <1>2, <2>1, <2>2 DEF SignInv, ReadsFaithful, SignsWritten
<1>3. ASSUME NEW t \in Threads, Insert(t) PROVE SignInv'
  <2>1. SignsWritten(NewRow(t))
    BY DEF SignsWritten, NewRow
  <2>2. /\ rows' = rows /\ reads' = reads
        /\ tx'.rows = Visible(Home[t]).rows \cup {NewRow(t)}
    BY <1>3 DEF Insert, history, Visible
  <2>3. Visible(Home[t]).rows = tx.rows \/ Visible(Home[t]).rows = rows
    BY DEF Visible
  <2>4. \A r \in tx'.rows : SignsWritten(r)
    BY <2>1, <2>2, <2>3 DEF SignInv
  <2> QED BY <2>2, <2>4 DEF SignInv, ReadsFaithful, SignsWritten
<1>4. ASSUME NEW t \in Threads, SelectRow(t) PROVE SignInv'
  <2>1. PICK r \in Visible(Home[t]).rows : Answers(t, r) /\ reads' = reads \cup {<<call[t].id, r.doc>>}
    BY <1>4 DEF SelectRow
  <2>2. r.doc = Written(call[t].id)
    BY <2>1, AnswerFaithful DEF SignInv, Visible
  <2>3. rows' = rows /\ tx' = tx
    BY <1>4 DEF SelectRow, file
  <2> QED BY <2>1, <2>2, <2>3 DEF SignInv, ReadsFaithful, SignsWritten
<1>5. ASSUME NEW t \in Threads, Calling(t) \/ StatementFails(t), ~Insert(t), ~SelectRow(t)
      PROVE  SignInv'
  <2>1. reads' = reads
    BY <1>5 DEF Calling, StatementFails, Enter, ReadCheckpoint, CheckpointRejected, VerifyRows,
       RowsRejected, AcceptExecution, RejectExecution, ReadHead, HeadRejected, SequenceTaken,
       BusyTimeout, Update, Commit, ReturnRecord, SelectRejected, Raise, history
  <2>2. CASE Commit(t)
    BY <1>2, <2>1, <2>2 DEF Commit, Publish
  <2>3. CASE Update(t)
    <3>1. rows' = rows /\ tx'.rows = tx.rows
      BY <2>3 DEF Update
    <3> QED BY <1>2, <2>1, <3>1
  <2>4. CASE ~Commit(t) /\ ~Update(t)
    <3>1. rows' = rows /\ (tx' = tx \/ tx' = NoTx)
      BY <1>5, <2>4 DEF Calling, StatementFails, Enter, ReadCheckpoint, CheckpointRejected,
         VerifyRows, RowsRejected, AcceptExecution, RejectExecution, ReadHead, HeadRejected,
         SequenceTaken, BusyTimeout, ReturnRecord, SelectRejected, UndoTransaction, Rollback, file
    <3> QED BY <1>2, <2>1, <3>1
  <2> QED BY <2>2, <2>3, <2>4
<1>6. ASSUME NEW p \in Procs,
             \/ Opening(p) \/ OpenFails(p) \/ Crash(p)
             \/ \E configured \in KeyModes : Start(p, configured)
      PROVE  SignInv'
  <2>1. CASE Seal(p)
    <3>1. reads' = reads /\ rows' = rows
      BY <2>1 DEF Seal, history
    <3>2. tx' = [rows |-> rows, checkpoint |-> SignedCheckpoint(key[p], 0, Genesis)]
      BY <2>1 DEF Seal
    <3>3. tx'.rows = rows
      BY <3>2
    <3> QED BY <1>2, <3>1, <3>3
  <2>2. CASE OpenCommit(p)
    <3>1. reads' = reads /\ rows' = tx.rows /\ tx' = NoTx
      BY <2>2 DEF OpenCommit, Publish, history
    <3> QED BY <1>2, <3>1
  <2>3. CASE OpenFails(p) \/ Crash(p)
    <3>1. reads' = reads /\ rows' = rows /\ (tx' = tx \/ tx' = NoTx)
      BY <2>3 DEF OpenFails, Crash, Rollback, history
    <3> QED BY <1>2, <3>1
  <2>4. ASSUME \/ OpenSealed(p) \/ OpenUnsealed(p) \/ OpenEmpty(p)
               \/ OpenOrphanRows(p) \/ AlreadySealed(p)
               \/ \E configured \in KeyModes : Start(p, configured)
        PROVE  SignInv'
    <3>1. reads' = reads /\ rows' = rows /\ tx' = tx
      BY <2>4 DEF Start, OpenSealed, OpenUnsealed, OpenEmpty, OpenOrphanRows, AlreadySealed,
         file, history
    <3> QED BY <1>2, <3>1
  <2> QED BY <1>6, <2>1, <2>2, <2>3, <2>4 DEF Opening
<1>7. ASSUME NEW t \in Threads,
             \/ \E valid \in BOOLEAN : BeginRecord(t, valid)
             \/ \E q \in Ids : BeginGet(t, q)
      PROVE  SignInv'
  BY <1>2, <1>7 DEF BeginRecord, BeginGet, Begin, file, history
<1>8. CASE Damage
  <2>1. \E rs, c : Edit(rs, c)
    BY <1>8 DEF Damage, DeleteRow, AlterDocument, SubstituteDocument, CutTail
  <2>2. tx' = tx /\ reads' = reads
    BY <2>1 DEF Edit, history
  <2>3. \/ \E r \in rows : rows' = rows \ {r}
        \/ \E r, s \in rows : \E doc : rows' = (rows \ {r}) \cup {Holding(r, doc, s.sig)}
    BY <1>8 DEF Damage, DeleteRow, AlterDocument, SubstituteDocument, CutTail, Edit
  <2>4. \A r, doc, sig : Holding(r, doc, sig).sig = sig
    BY DEF Holding
  <2>5. \A r \in rows' : \E s \in rows : r.sig = s.sig
    BY <2>3, <2>4
  <2>6. \A r \in rows' : SignsWritten(r)
    BY <2>5 DEF SignInv, SignsWritten
  <2> QED BY <2>2, <2>6 DEF SignInv, ReadsFaithful, SignsWritten
<1>9. CASE UNCHANGED vars
  BY <1>2, <1>9 DEF vars, file, history
<1> QED BY <1>3, <1>4, <1>5, <1>6, <1>7, <1>8, <1>9 DEF Next

\* get answers with the document recorded under the identifier it was asked for, however often
\* the file is edited and whenever.
THEOREM ReadsAlwaysFaithful == Spec => []ReadsFaithful
<1>1. TypeOK /\ LockInv /\ SignInv /\ [Next]_vars => (TypeOK /\ LockInv /\ SignInv)'
  BY NextTypes, NextSign
<1>2. SignInv => ReadsFaithful
  BY DEF SignInv
<1> QED BY InitTypes, InitSign, <1>1, <1>2, PTL DEF Spec
-----------------------------------------------------------------------------
(***************************************************************************)
(* The key of the chain.  That a commit keeps it depends on what the call  *)
(* read some steps before: its head was signed with its own key then, and  *)
(* whatever was committed in between was signed with the same one.         *)
(***************************************************************************)
SealedBy(c, k) == c # NoCheckpoint /\ c.sig[1] = k

KeyInv ==
  /\ \A t \in Threads :
       pc[t] \in {"insert", "update", "commit"} => SealedBy(checkpoint, key[Home[t]])
  /\ \A t \in Threads : pc[t] = "commit" => SealedBy(tx.checkpoint, key[Home[t]])
  /\ \A p \in Procs : state[p] = "committing" => checkpoint = NoCheckpoint

KeepsKey == checkpoint # NoCheckpoint => checkpoint'.sig[1] = checkpoint.sig[1]

LEMMA SignedIsSealed ==
  ASSUME NEW k, NEW seq, NEW hash
  PROVE  SealedBy(SignedCheckpoint(k, seq, hash), k)
<1>1. SignedCheckpoint(k, seq, hash).sig = <<k, seq, hash>>
  BY DEF SignedCheckpoint, SignHead
<1>2. Len(SignedCheckpoint(k, seq, hash).sig) = 3 /\ SignedCheckpoint(k, seq, hash).sig[1] = k
  BY <1>1
<1>3. Len(NoCheckpoint.sig) = 0
  BY DEF NoCheckpoint
<1> QED BY <1>2, <1>3 DEF SealedBy

LEMMA ValidIsSealed ==
  ASSUME NEW c, NEW k, CheckpointValid(c, k)
  PROVE  SealedBy(c, k)
BY DEF CheckpointValid, SignHead, SealedBy

\* A stored checkpoint with a signature is one somebody made.
LEMMA SignatureTells ==
  ASSUME NEW c \in Checkpoints, NEW d \in Checkpoints, c # NoCheckpoint, d.sig = c.sig
  PROVE  d # NoCheckpoint
<1>1. c.sig \in Keys \X Nat \X Hashes
  BY DEF Checkpoints, Sealed
<1>2. ASSUME NEW sig \in Keys \X Nat \X Hashes PROVE sig # <<>>
  <2>1. Len(sig) = 3 /\ Len(<<>>) = 0
    OBVIOUS
  <2>2. Len(sig) # Len(<<>>)
    BY <2>1
  <2> QED BY <2>2, Zenon
<1>3. NoCheckpoint.sig = <<>>
  BY DEF NoCheckpoint
<1> QED BY <1>1, <1>2, <1>3

\* The steps that leave the stored checkpoint alone.
LEMMA QuietKey ==
  ASSUME TypeOK, KeyInv, checkpoint' = checkpoint,
         \A t \in Threads : pc'[t] \in {"insert", "update", "commit"} =>
            pc'[t] = pc[t] /\ key'[Home[t]] = key[Home[t]],
         \A t \in Threads : pc'[t] = "commit" => tx' = tx,
         \A p \in Procs : state'[p] = "committing" => state[p] = "committing"
  PROVE  KeyInv' /\ KeepsKey
BY DEF KeyInv, KeepsKey, SealedBy

LEMMA CallKeepsKey ==
  ASSUME TypeOK, LockInv, KeyInv, NEW t \in Threads, Calling(t) \/ StatementFails(t)
  PROVE  KeyInv' /\ KeepsKey
<1> USE DEF At, Step
<1>1. CASE Commit(t)
  <2>1. /\ checkpoint' = tx.checkpoint /\ pc[t] = "commit"
        /\ pc' = [pc EXCEPT ![t] = "return"] /\ key' = key /\ state' = state
    BY <1>1 DEF Commit, Publish, procVars
  <2>2. /\ SealedBy(checkpoint, key[Home[t]]) /\ SealedBy(tx.checkpoint, key[Home[t]])
        /\ writer = Home[t] /\ lock[Home[t]] = t /\ state[Home[t]] = "up"
    BY <2>1 DEF KeyInv, LockInv
  <2>3. \A u \in Threads : u # t => pc[u] # "commit"
    BY <2>2 DEF LockInv
  <2>4. \A p \in Procs : state[p] # "committing"
    BY <2>2 DEF LockInv
  <2>5. \A u \in Threads : pc'[u] \in {"insert", "update", "commit"} =>
          SealedBy(checkpoint', key'[Home[u]])
    BY <2>1, <2>2 DEF KeyInv, SealedBy
  <2> QED BY <2>1, <2>2, <2>3, <2>4, <2>5 DEF KeyInv, KeepsKey, SealedBy
<1>2. CASE Update(t)
  <2>1. /\ checkpoint' = checkpoint /\ pc[t] = "update" /\ lock[Home[t]] = t
        /\ pc' = [pc EXCEPT ![t] = "commit"] /\ key' = key /\ state' = state
        /\ writer = Home[t]
    BY <1>2 DEF Update, procVars, LockInv
  <2>2. tx'.checkpoint = SignedCheckpoint(key[Home[t]], NewRow(t).seq, NewRow(t).hash)
    BY <1>2 DEF Update
  <2>3. \A u \in Threads : u # t => pc[u] # "commit"
    BY <2>1 DEF LockInv
  <2>4. SealedBy(tx'.checkpoint, key[Home[t]])
    BY <2>2, SignedIsSealed
  <2> QED BY <2>1, <2>3, <2>4 DEF KeyInv, KeepsKey, SealedBy
<1>3. CASE Insert(t)
  <2>1. /\ checkpoint' = checkpoint /\ pc[t] = "insert" /\ ~Blocked(t) /\ lock[Home[t]] = t
        /\ pc' = [pc EXCEPT ![t] = "update"] /\ key' = key /\ state' = state
    BY <1>3 DEF Insert, procVars, LockInv
  <2>2. \A u \in Threads : pc[u] # "commit"
    BY <2>1 DEF LockInv, Blocked
  <2> QED BY <2>1, <2>2 DEF KeyInv, KeepsKey, SealedBy
<1>4. CASE ReadHead(t)
  <2>1. /\ pc[t] = "head" /\ checkpoint' = checkpoint /\ tx' = tx
        /\ pc' = [pc EXCEPT ![t] = "insert"] /\ key' = key /\ state' = state
        /\ CheckpointValid(Visible(Home[t]).checkpoint, key[Home[t]])
    BY <1>4 DEF ReadHead, TrustedCheckpoint, file, procVars
  <2>2. lock[Home[t]] = t /\ state[Home[t]] = "up"
    BY <2>1 DEF LockInv
  <2>3. writer # Home[t]
    BY <2>1, <2>2 DEF LockInv
  <2>4. SealedBy(checkpoint, key[Home[t]])
    BY <2>1, <2>3, ValidIsSealed DEF Visible
  <2> QED BY <2>1, <2>4 DEF KeyInv, KeepsKey, SealedBy
<1>5. CASE ~Commit(t) /\ ~Update(t) /\ ~Insert(t) /\ ~ReadHead(t)
  <2>1. /\ checkpoint' = checkpoint /\ key' = key /\ state' = state
        /\ pc'[t] \notin {"insert", "update", "commit"}
        /\ \A u \in Threads : u # t => pc'[u] = pc[u]
        /\ tx' = tx \/ (Rollback(Home[t]) /\ pc[t] \in {"insert", "update", "commit"})
    BY <1>5 DEF Calling, StatementFails, Enter, ReadCheckpoint, CheckpointRejected,
       VerifyRows, RowsRejected, AcceptExecution, RejectExecution, HeadRejected, SequenceTaken,
       BusyTimeout, ReturnRecord, SelectRow, SelectRejected, Raise, Leave, UndoTransaction,
       Rollback, file, procVars
  <2>2. \A u \in Threads : pc'[u] = "commit" => tx' = tx
    BY <2>1 DEF LockInv, Rollback
  <2> QED BY <2>1, <2>2, QuietKey
<1> QED BY <1>1, <1>2, <1>3, <1>4, <1>5

LEMMA ProcessKeepsKey ==
  ASSUME TypeOK, LockInv, KeyInv, NEW p \in Procs,
         \/ Opening(p) \/ OpenFails(p) \/ Crash(p)
         \/ \E configured \in KeyModes : Start(p, configured)
  PROVE  KeyInv' /\ KeepsKey
<1> USE DEF Goto
<1>1. \A t \in Threads : pc[t] \in {"insert", "update", "commit"} => state[Home[t]] = "up"
  BY DEF LockInv
<1>2. CASE Seal(p)
  <2>1. /\ checkpoint' = checkpoint /\ checkpoint = NoCheckpoint /\ pc' = pc
        /\ state' = [state EXCEPT ![p] = "committing"]
    BY <1>2 DEF Seal, thrVars
  <2>2. \A t \in Threads : pc[t] \notin {"insert", "update", "commit"}
    BY <2>1 DEF KeyInv, SealedBy
  <2> QED BY <2>1, <2>2 DEF KeyInv, KeepsKey
<1>3. CASE OpenCommit(p)
  <2>1. /\ state[p] = "committing" /\ pc' = pc /\ state' = [state EXCEPT ![p] = "up"]
    BY <1>3 DEF OpenCommit, thrVars
  <2>2. checkpoint = NoCheckpoint /\ writer = p
    BY <2>1 DEF KeyInv, LockInv
  <2>3. \A t \in Threads : pc[t] \notin {"insert", "update", "commit"}
    BY <2>2 DEF KeyInv, SealedBy
  <2>4. \A q \in Procs : state'[q] # "committing"
    BY <2>1, <2>2 DEF LockInv
  <2> QED BY <2>1, <2>2, <2>3, <2>4 DEF KeyInv, KeepsKey
<1>4. CASE OpenFails(p) \/ Crash(p)
  <2>1. /\ checkpoint' = checkpoint /\ key' = key /\ Rollback(p)
        /\ state' = [state EXCEPT ![p] = "down"]
        /\ \A t \in Threads : pc'[t] = pc[t] \/ pc'[t] = "idle"
    BY <1>4 DEF OpenFails, Crash, Rollback, thrVars
  <2>2. \A t \in Threads : pc'[t] = "commit" => tx' = tx
    <3>1. CASE OpenFails(p)
      BY <2>1, <3>1, <1>1 DEF OpenFails, LockInv, Rollback, thrVars
    <3>2. CASE Crash(p)
      BY <2>1, <3>2 DEF Crash, LockInv, Rollback
    <3> QED BY <1>4, <3>1, <3>2
  <2>3. \A q \in Procs : state'[q] = "committing" => state[q] = "committing"
    BY <2>1
  <2>4. \A t \in Threads : pc'[t] \in {"insert", "update", "commit"} =>
          pc'[t] = pc[t] /\ key'[Home[t]] = key[Home[t]]
    BY <2>1
  <2> QED BY <2>1, <2>2, <2>3, <2>4, QuietKey
<1>5. CASE \E configured \in KeyModes : Start(p, configured)
  <2>1. PICK configured \in KeyModes : Start(p, configured)
    BY <1>5
  <2>2. /\ checkpoint' = checkpoint /\ tx' = tx /\ pc' = pc
        /\ state[p] = "down" /\ state' = [state EXCEPT ![p] = "opening"]
        /\ \A q \in Procs : q # p => key'[q] = key[q]
    BY <2>1 DEF Start, file, thrVars
  <2>3. \A t \in Threads : pc'[t] \in {"insert", "update", "commit"} =>
          key'[Home[t]] = key[Home[t]]
    BY <1>1, <2>2
  <2>4. \A q \in Procs : state'[q] = "committing" => state[q] = "committing"
    BY <2>2
  <2> QED BY <2>2, <2>3, <2>4, QuietKey
<1>6. CASE \/ OpenSealed(p) \/ OpenUnsealed(p) \/ OpenEmpty(p) \/ OpenOrphanRows(p)
           \/ AlreadySealed(p)
  <2>1. /\ checkpoint' = checkpoint /\ tx' = tx /\ pc' = pc /\ key' = key
        /\ \A q \in Procs : state'[q] = "committing" => state[q] = "committing"
    BY <1>6 DEF OpenSealed, OpenUnsealed, OpenEmpty, OpenOrphanRows, AlreadySealed,
       file, thrVars
  <2> QED BY <2>1, QuietKey
<1> QED BY <1>2, <1>3, <1>4, <1>5, <1>6 DEF Opening

LEMMA NextKeepsKey == TypeOK /\ LockInv /\ KeyInv /\ [Next]_vars => KeyInv' /\ KeepsKey
<1> SUFFICES ASSUME TypeOK, LockInv, KeyInv, [Next]_vars PROVE KeyInv' /\ KeepsKey
  OBVIOUS
<1>1. CASE Damage
  <2>1. /\ writer = Nobody /\ pc' = pc /\ key' = key /\ state' = state /\ tx' = tx
        /\ checkpoint'.sig = checkpoint.sig
    <3>1. \A rs, c : Edit(rs, c) => /\ writer = Nobody /\ pc' = pc /\ key' = key
                                    /\ state' = state /\ tx' = tx /\ checkpoint' = c
      BY DEF Edit, procVars, thrVars
    <3>2. ASSUME NEW r, CutTail(r)
          PROVE  \E rs, c : Edit(rs, c) /\ c.sig = checkpoint.sig
      BY <3>2 DEF CutTail
    <3>3. ASSUME NEW rs, Edit(rs, checkpoint)
          PROVE  \E xs, c : Edit(xs, c) /\ c.sig = checkpoint.sig
      BY <3>3
    <3>4. \E rs, c : Edit(rs, c) /\ c.sig = checkpoint.sig
      BY <1>1, <3>2, <3>3 DEF Damage, DeleteRow, AlterDocument, SubstituteDocument
    <3> QED BY <3>1, <3>4
  <2>2. TypeOK'
    BY NextTypes
  <2>3. checkpoint \in Checkpoints /\ checkpoint' \in Checkpoints
    BY <2>2
  <2>4. checkpoint # NoCheckpoint => checkpoint' # NoCheckpoint
    BY <2>1, <2>3, SignatureTells
  <2>5. \A t \in Threads : pc[t] # "commit"
    BY <2>1 DEF LockInv
  <2>6. \A p \in Procs : state[p] # "committing"
    BY <2>1 DEF LockInv
  <2> QED BY <2>1, <2>4, <2>5, <2>6 DEF KeyInv, KeepsKey, SealedBy
<1>2. ASSUME NEW t \in Threads,
             \/ \E valid \in BOOLEAN : BeginRecord(t, valid)
             \/ \E q \in Ids : BeginGet(t, q)
      PROVE  KeyInv' /\ KeepsKey
  <2>1. /\ checkpoint' = checkpoint /\ tx' = tx /\ key' = key /\ state' = state
        /\ pc' = [pc EXCEPT ![t] = "enter"]
    BY <1>2 DEF BeginRecord, BeginGet, Begin, Step, file, procVars
  <2> QED BY <2>1, QuietKey
<1>3. CASE UNCHANGED vars
  BY <1>3, QuietKey DEF vars, file, procVars, thrVars
<1> QED BY <1>1, <1>2, <1>3, CallKeepsKey, ProcessKeepsKey DEF Next

LEMMA InitKey == Init => KeyInv
BY DEF Init, KeyInv

\* No step, of whatever process with whatever key and on whatever file, makes a checkpoint
\* of another authority out of the one that is there.
THEOREM KeyNeverChangesHands == Spec => KeyNeverTakesOver
<1>1. TypeOK /\ LockInv /\ KeyInv /\ [Next]_vars => (TypeOK /\ LockInv /\ KeyInv)'
  BY NextTypes, NextKeepsKey
<1>2. TypeOK /\ LockInv /\ KeyInv /\ [Next]_vars => [KeepsKey]_vars
  BY NextKeepsKey
<1>3. [KeepsKey]_vars => [checkpoint # NoCheckpoint => checkpoint'.sig[1] = checkpoint.sig[1]]_vars
  BY DEF KeepsKey
<1> QED BY InitTypes, InitKey, <1>1, <1>2, <1>3, PTL DEF Spec, KeyNeverTakesOver
-----------------------------------------------------------------------------
(***************************************************************************)
(* The store implements the log: on a file nobody edits the rows, in the   *)
(* order of their sequence numbers, are an append-only sequence.           *)
(***************************************************************************)
LogOf(rs, n) == [i \in 1 .. n |-> (CHOOSE r \in rs : r.seq = i).id]

\* n rows with the sequence numbers 1 .. n.
Numbered(rs, n) == /\ n \in Nat
                   /\ \A r \in rs : r.seq \in 1 .. n
                   /\ \A i \in 1 .. n : \E r \in rs : r.seq = i
                   /\ \A r, s \in rs : r.seq = s.seq => r = s

LEMMA CountedIsNumbered ==
  ASSUME NEW rs, NEW n \in Nat, IsFiniteSet(rs), Cardinality(rs) = n,
         {r.seq : r \in rs} = 1 .. n
  PROVE  Numbered(rs, n)
<1> DEFINE f == [r \in rs |-> r.seq]
<1>1. \A r \in rs : r.seq \in 1 .. n
  OBVIOUS
<1>2. \A i \in 1 .. n : \E r \in rs : r.seq = i
  OBVIOUS
<1>3. f \in Surjection(rs, 1 .. n)
  BY <1>1, <1>2 DEF Surjection
<1>4. Cardinality(1 .. n) = n
  BY FS_Interval
<1>5. f \in Injection(rs, 1 .. n)
  BY <1>3, <1>4, FS_SurjSameCardinalityImpliesInj
<1>6. \A r, s \in rs : r.seq = s.seq => r = s
  BY <1>5 DEF Injection, IsInjective
<1> QED BY <1>1, <1>2, <1>6 DEF Numbered

LEMMA LogEntries ==
  ASSUME NEW rs, NEW n, Numbered(rs, n)
  PROVE  /\ LogOf(rs, n) \in Seq(RowIds(rs)) /\ Len(LogOf(rs, n)) = n
         /\ \A r \in rs : r.seq \in 1 .. n /\ LogOf(rs, n)[r.seq] = r.id
         /\ {LogOf(rs, n)[i] : i \in 1 .. n} = RowIds(rs)
<1>1. n \in Nat
  BY DEF Numbered
<1>2. \A i \in 1 .. n : (CHOOSE r \in rs : r.seq = i) \in rs
  BY DEF Numbered
<1>3. LogOf(rs, n) \in [1 .. n -> RowIds(rs)]
  BY <1>2 DEF LogOf, RowIds
<1>4. LogOf(rs, n) \in Seq(RowIds(rs)) /\ Len(LogOf(rs, n)) = n
  BY <1>1, <1>3
<1>5. ASSUME NEW r \in rs PROVE r.seq \in 1 .. n /\ LogOf(rs, n)[r.seq] = r.id
  <2>1. r.seq \in 1 .. n
    BY DEF Numbered
  <2>2. (CHOOSE s \in rs : s.seq = r.seq) \in rs /\ (CHOOSE s \in rs : s.seq = r.seq).seq = r.seq
    OBVIOUS
  <2>3. (CHOOSE s \in rs : s.seq = r.seq) = r
    BY <2>2 DEF Numbered
  <2> QED BY <2>1, <2>3 DEF LogOf
<1>6. \A q \in RowIds(rs) : \E i \in 1 .. n : q = LogOf(rs, n)[i]
  BY <1>5 DEF RowIds
<1>7. \A i \in 1 .. n : LogOf(rs, n)[i] \in RowIds(rs)
  BY <1>3
<1> QED BY <1>4, <1>5, <1>6, <1>7

LEMMA LogGrows ==
  ASSUME NEW rs, NEW n, Numbered(rs, n), NEW w, w.seq = n + 1
  PROVE  LogOf(rs \cup {w}, n + 1) = Append(LogOf(rs, n), w.id)
<1> DEFINE grown == rs \cup {w}
<1>1. n \in Nat /\ \A r \in rs : r.seq \in 1 .. n
  BY DEF Numbered
<1>2. Numbered(grown, n + 1)
  <2>1. \A r \in grown : r.seq \in 1 .. n + 1
    BY <1>1
  <2>2. \A i \in 1 .. n + 1 : \E r \in grown : r.seq = i
    <3> SUFFICES ASSUME NEW i \in 1 .. n + 1 PROVE \E r \in grown : r.seq = i
      OBVIOUS
    <3>1. i \in 1 .. n \/ i = n + 1
      BY <1>1
    <3> QED BY <3>1 DEF Numbered
  <2>3. \A r, s \in grown : r.seq = s.seq => r = s
    <3>1. \A r \in rs : r.seq # w.seq
      BY <1>1
    <3> QED BY <3>1 DEF Numbered
  <2> QED BY <1>1, <2>1, <2>2, <2>3 DEF Numbered
<1>3. \A r \in grown : LogOf(grown, n + 1)[r.seq] = r.id
  BY <1>2, LogEntries
<1>4. \A r \in rs : LogOf(rs, n)[r.seq] = r.id
  BY LogEntries
<1>5. \A i \in 1 .. n : LogOf(grown, n + 1)[i] = LogOf(rs, n)[i]
  <2> SUFFICES ASSUME NEW i \in 1 .. n PROVE LogOf(grown, n + 1)[i] = LogOf(rs, n)[i]
    OBVIOUS
  <2>1. PICK r \in rs : r.seq = i
    BY DEF Numbered
  <2> QED BY <1>3, <1>4, <2>1
<1>6. LogOf(grown, n + 1)[n + 1] = w.id
  BY <1>3
<1>7. LogOf(rs, n) \in Seq(RowIds(rs)) /\ Len(LogOf(rs, n)) = n
  BY LogEntries
<1>8. LogOf(grown, n + 1) \in Seq(RowIds(grown)) /\ Len(LogOf(grown, n + 1)) = n + 1
  BY <1>2, LogEntries
<1>9. LogOf(rs, n) \in Seq(RowIds(grown)) /\ w.id \in RowIds(grown)
  BY <1>7 DEF RowIds
<1> HIDE DEF grown
<1>10. /\ Append(LogOf(rs, n), w.id) \in Seq(RowIds(grown))
       /\ Len(Append(LogOf(rs, n), w.id)) = n + 1
       /\ \A i \in 1 .. n : Append(LogOf(rs, n), w.id)[i] = LogOf(rs, n)[i]
       /\ Append(LogOf(rs, n), w.id)[n + 1] = w.id
  BY <1>1, <1>7, <1>9
<1>11. \A i \in 1 .. n + 1 : LogOf(grown, n + 1)[i] = Append(LogOf(rs, n), w.id)[i]
  <2> SUFFICES ASSUME NEW i \in 1 .. n + 1
               PROVE  LogOf(grown, n + 1)[i] = Append(LogOf(rs, n), w.id)[i]
    OBVIOUS
  <2>1. i \in 1 .. n \/ i = n + 1
    BY <1>1
  <2> QED BY <1>5, <1>6, <1>10, <2>1
<1>12. LogOf(grown, n + 1) = Append(LogOf(rs, n), w.id)
  BY <1>8, <1>10, <1>11, SeqEqual
<1> QED BY <1>12 DEF grown

Entries == LogOf(rows, checkpoint.seq)

LEMMA RowsAreNumbered ==
  ASSUME TypeOK, ChainInv, damage = 0
  PROVE  Numbered(rows, checkpoint.seq)
<1>1. IsFiniteSet(rows) /\ Chained(rows, checkpoint)
  BY DEF ChainInv
<1>2. CASE checkpoint = NoCheckpoint
  <2>1. rows = {} /\ checkpoint.seq = 0
    BY <1>1, <1>2, NoCheckpointType DEF Chained
  <2> QED BY <2>1 DEF Numbered
<1>3. CASE checkpoint # NoCheckpoint
  <2>1. Cardinality(rows) = checkpoint.seq /\ {r.seq : r \in rows} = 1 .. checkpoint.seq
    BY <1>1, <1>3 DEF Chained, RowsMatch
  <2>2. checkpoint.seq \in Nat
    BY <1>3 DEF Checkpoints, Sealed
  <2> QED BY <1>1, <2>1, <2>2, CountedIsNumbered
<1> QED BY <1>2, <1>3

LEMMA LoggedAreRows ==
  ASSUME TypeOK, ChainInv, damage = 0
  PROVE  Log!Logged = RowIds(rows)
<1>1. /\ {LogOf(rows, checkpoint.seq)[i] : i \in 1 .. checkpoint.seq} = RowIds(rows)
      /\ Len(LogOf(rows, checkpoint.seq)) = checkpoint.seq
  BY RowsAreNumbered, LogEntries
<1> QED BY <1>1 DEF Log!Logged, LogOf

\* Only a commit changes the log, by one entry at its end.
LEMMA CommitExtends ==
  ASSUME TypeOK, LockInv, ChainInv, IdsInv, damage = 0, NEW t \in Threads, Commit(t)
  PROVE  \E q \in Ids : Log!Extend(q)
<1>1. pc[t] = "commit" /\ rows' = tx.rows /\ checkpoint' = tx.checkpoint
  BY DEF Commit, Publish, At
<1>2. /\ rows' = rows \cup {NewRow(t)} /\ checkpoint' = NextHead(t)
      /\ seen[t] = checkpoint
  BY <1>1 DEF ChainInv, WithRow
<1>3. NewRow(t).id = call[t].id /\ NewRow(t).seq = checkpoint.seq + 1
  BY <1>2 DEF NewRow
<1>4. checkpoint'.seq = checkpoint.seq + 1
  BY <1>2, <1>3 DEF NextHead, SignedCheckpoint
<1>5. LogOf(rows', checkpoint'.seq) = Append(LogOf(rows, checkpoint.seq), call[t].id)
  <2>1. Numbered(rows, checkpoint.seq)
    BY RowsAreNumbered
  <2>2. LogOf(rows \cup {NewRow(t)}, checkpoint.seq + 1)
          = Append(LogOf(rows, checkpoint.seq), NewRow(t).id)
    BY <1>3, <2>1, LogGrows
  <2> QED BY <1>2, <1>3, <1>4, <2>2
<1>6. /\ call[t].id \notin RowIds(rows) /\ call[t].id \in 1 .. calls
  BY <1>1 DEF IdsInv, CallInv
<1>7. call[t].id \in Ids
  BY <1>6 DEF Ids
<1>8. UNCHANGED <<acked, reads>>
  BY DEF Commit, history
<1>9. call[t].id \notin Log!Logged
  BY <1>6, LoggedAreRows
<1> QED BY <1>5, <1>7, <1>8, <1>9 DEF Log!Extend, LogOf

LEMMA ReturnAcknowledges ==
  ASSUME TypeOK, LockInv, ChainInv, IdsInv, damage = 0, NEW t \in Threads, ReturnRecord(t)
  PROVE  Log!Acknowledge(call[t].id) /\ call[t].id \in Ids
<1>1. /\ pc[t] = "return" /\ acked' = acked \cup {call[t].id}
      /\ UNCHANGED <<rows, checkpoint, reads>>
  BY DEF ReturnRecord, At, file
<1>2. call[t].id \in RowIds(rows) /\ call[t].id \in 1 .. calls
  BY <1>1 DEF IdsInv, CallInv
<1>3. call[t].id \in Ids
  BY <1>2 DEF Ids
<1>4. call[t].id \in Log!Logged
  BY <1>2, LoggedAreRows
<1> QED BY <1>1, <1>3, <1>4 DEF Log!Acknowledge

LEMMA SelectAnswers ==
  ASSUME TypeOK, LockInv, ChainInv, IdsInv, SignInv, damage = 0,
         NEW t \in Threads, SelectRow(t)
  PROVE  Log!Answer(call[t].id) /\ call[t].id \in Ids
<1>1. pc[t] = "select" /\ UNCHANGED <<rows, checkpoint, acked>>
  BY DEF SelectRow, At, file
<1>2. writer # Home[t]
  BY <1>1 DEF LockInv
<1>3. PICK r \in rows : Answers(t, r) /\ reads' = reads \cup {<<call[t].id, r.doc>>}
  BY <1>2 DEF SelectRow, Visible
<1>4. r.doc = Written(call[t].id) /\ r.id = call[t].id
  BY <1>3, AnswerFaithful DEF SignInv, Answers
<1>5. call[t].id \in RowIds(rows)
  BY <1>4 DEF RowIds
<1>6. call[t].id \in Ids
  BY <1>5 DEF IdsInv, Ids
<1>7. call[t].id \in Log!Logged
  BY <1>5, LoggedAreRows
<1>8. reads' = reads \cup {<<call[t].id, Log!Document(call[t].id)>>}
  BY <1>3, <1>4 DEF Written, Log!Document
<1> QED BY <1>1, <1>6, <1>7, <1>8 DEF Log!Answer

LEMMA StepIsLogStep ==
  ASSUME TypeOK, LockInv, ChainInv, IdsInv, SignInv, damage = 0, damage' = 0, [Next]_vars
  PROVE  [Log!Next]_(Log!vars)
<1>1. ASSUME UNCHANGED <<rows, acked, reads>>, checkpoint'.seq = checkpoint.seq
      PROVE  UNCHANGED Log!vars
  BY <1>1 DEF Log!vars
<1>2. ASSUME NEW t \in Threads, Calling(t) \/ StatementFails(t)
      PROVE  Log!Next \/ UNCHANGED Log!vars
  <2>1. CASE Commit(t)
    <3>1. \E q \in Ids : Log!Extend(q)
      BY <2>1, CommitExtends
    <3> QED BY <3>1 DEF Log!Next
  <2>2. CASE ReturnRecord(t)
    <3>1. Log!Acknowledge(call[t].id) /\ call[t].id \in Ids
      BY <2>2, ReturnAcknowledges
    <3> QED BY <3>1 DEF Log!Next
  <2>3. CASE SelectRow(t)
    <3>1. Log!Answer(call[t].id) /\ call[t].id \in Ids
      BY <2>3, SelectAnswers
    <3> QED BY <3>1 DEF Log!Next
  <2>4. CASE ~Commit(t) /\ ~ReturnRecord(t) /\ ~SelectRow(t)
    <3>1. UNCHANGED <<rows, checkpoint, acked, reads>>
      BY <1>2, <2>4 DEF Calling, StatementFails, Enter, ReadCheckpoint, CheckpointRejected,
         VerifyRows, RowsRejected, AcceptExecution, RejectExecution, ReadHead, HeadRejected,
         Insert, SequenceTaken, BusyTimeout, Update, SelectRejected, Raise, UndoTransaction,
         Rollback, file, history
    <3> QED BY <1>1, <3>1
  <2> QED BY <2>1, <2>2, <2>3, <2>4
<1>3. ASSUME NEW p \in Procs,
             \/ Opening(p) \/ OpenFails(p) \/ Crash(p)
             \/ \E configured \in KeyModes : Start(p, configured)
      PROVE  UNCHANGED Log!vars
  <2>1. CASE OpenCommit(p)
    <3>1. UNCHANGED <<acked, reads>> /\ rows' = tx.rows /\ checkpoint' = tx.checkpoint
          /\ state[p] = "committing"
      BY <2>1 DEF OpenCommit, Publish, history
    <3>2. rows' = rows /\ checkpoint = NoCheckpoint
          /\ checkpoint' = SignedCheckpoint(key[p], 0, Genesis)
      BY <3>1 DEF ChainInv
    <3>3. checkpoint'.seq = checkpoint.seq
      BY <3>2 DEF SignedCheckpoint, NoCheckpoint
    <3> QED BY <1>1, <3>1, <3>2, <3>3
  <2>2. CASE OpenFails(p) \/ Crash(p)
    <3>1. UNCHANGED <<rows, checkpoint, acked, reads>>
      BY <2>2 DEF OpenFails, Crash, Rollback, history
    <3> QED BY <1>1, <3>1
  <2>3. ASSUME \/ OpenSealed(p) \/ OpenUnsealed(p) \/ OpenEmpty(p)
               \/ OpenOrphanRows(p) \/ AlreadySealed(p) \/ Seal(p)
               \/ \E configured \in KeyModes : Start(p, configured)
        PROVE  UNCHANGED Log!vars
    <3>1. UNCHANGED <<rows, checkpoint, acked, reads>>
      BY <2>3 DEF Start, OpenSealed, OpenUnsealed, OpenEmpty, OpenOrphanRows, AlreadySealed,
         Seal, file, history
    <3> QED BY <1>1, <3>1
  <2> QED BY <1>3, <2>1, <2>2, <2>3 DEF Opening
<1>4. ASSUME NEW t \in Threads,
             \/ \E valid \in BOOLEAN : BeginRecord(t, valid)
             \/ \E q \in Ids : BeginGet(t, q)
      PROVE  UNCHANGED Log!vars
  <2>1. UNCHANGED <<rows, checkpoint, acked, reads>>
    BY <1>4 DEF BeginRecord, BeginGet, Begin, file, history
  <2> QED BY <1>1, <2>1
<1>5. ~Damage
  BY DEF Damage, DeleteRow, AlterDocument, SubstituteDocument, CutTail, Edit
<1>6. CASE UNCHANGED vars
  <2>1. UNCHANGED <<rows, checkpoint, acked, reads>>
    BY <1>6 DEF vars, file, history
  <2> QED BY <1>1, <2>1
<1> QED BY <1>2, <1>3, <1>4, <1>5, <1>6 DEF Next

\* On a file nobody edits the store is the abstract log: what is recorded is appended once
\* and stays, an identifier is returned only when it is durable, and get answers with what
\* was logged, whatever processes and threads race, fail, crash and restart with whatever keys.
THEOREM AlwaysImplementsLog ==
  ASSUME MaxDamage = 0
  PROVE  Spec => ImplementsLog
<1>1. Init => Log!Init
  BY NoCheckpointType DEF Init, Log!Init
<1>2. TypeOK => damage = 0
  OBVIOUS
<1>3. TypeOK /\ TypeOK' /\ LockInv /\ ChainInv /\ IdsInv /\ SignInv /\ [Next]_vars
        => [Log!Next]_(Log!vars)
  BY <1>2, StepIsLogStep
<1>4. TypeOK /\ LockInv /\ ChainInv /\ IdsInv /\ SignInv /\ [Next]_vars
        => (TypeOK /\ LockInv /\ ChainInv /\ IdsInv /\ SignInv)'
  BY NextTypes, NextKeepsChain, NextKeepsIds, NextSign
<1> QED BY InitTypes, InitChain, InitIds, InitSign, <1>1, <1>3, <1>4, PTL
    DEF Spec, ImplementsLog, Log!Spec
-----------------------------------------------------------------------------
(***************************************************************************)
(* Edits, with one process.  The edits only ever lose documents: whatever  *)
(* is deleted, altered, copied over or cut off, fewer calls have theirs in *)
(* the file than its last signature counts, and appending adds one to both *)
(* sides.                                                                  *)
(***************************************************************************)
SingleProcess == \A p, q \in Procs : p = q

\* The identifiers whose document is in the file, in whichever row.
Kept(rs) == {q \in Ids : \E r \in rs : r.doc = Written(q)}

OneRowPerId(rs) == IsFiniteSet(rs) /\ \A r, s \in rs : r.id = s.id => r = s

Reader(s)  == s \in {"rows", "insert", "update", "commit"}
Checked(s) == s \in {"accept", "head", "insert", "update", "commit", "return", "select"}

SoloInv ==
  /\ \A t \in Threads : Reader(pc[t]) =>
       seen[t].sig = checkpoint.sig /\ CheckpointValid(seen[t], key[Home[t]])
  /\ \A t \in Threads : Writing(t) => tx.rows = WithRow(t)
  /\ \A t \in Threads : pc[t] = "commit" => tx.checkpoint = NextHead(t)
  /\ checkpoint = NoCheckpoint => rows = {} /\ damage = 0
  /\ OneRowPerId(rows)
  /\ damage > 0 => Cardinality(Kept(rows)) < checkpoint.sig[2]
  /\ \A t \in Threads : Checked(pc[t]) => clean[t]

Others == TypeOK /\ LockInv /\ ChainInv /\ IdsInv /\ SignInv /\ KeyInv

LEMMA WrittenIsOwn == \A q, s : Written(q) = Written(s) => q = s
<1> TAKE q, s
<1>1. Written(q)[1] = q /\ Written(s)[1] = s
  BY DEF Written
<1> QED BY <1>1

LEMMA KeptFinite ==
  ASSUME NEW rs
  PROVE  IsFiniteSet(Kept(rs)) /\ Cardinality(Kept(rs)) \in Nat
<1>1. IsFiniteSet(1 .. MaxCalls)
  BY FS_Interval
<1>2. Kept(rs) \subseteq 1 .. MaxCalls
  BY DEF Kept, Ids
<1>3. IsFiniteSet(Kept(rs))
  BY <1>1, <1>2, FS_Subset
<1> QED BY <1>3, FS_CardinalityType

LEMMA KeptAtMost ==
  ASSUME NEW rs, IsFiniteSet(rs)
  PROVE  Cardinality(Kept(rs)) <= Cardinality(rs)
<1> DEFINE f == [q \in Kept(rs) |-> CHOOSE r \in rs : r.doc = Written(q)]
<1>1. \A q \in Kept(rs) : f[q] \in rs /\ f[q].doc = Written(q)
  BY DEF Kept
<1>2. f \in [Kept(rs) -> rs]
  BY <1>1
<1>3. \A a, b \in Kept(rs) : f[a] = f[b] => a = b
  BY <1>1, WrittenIsOwn
<1> HIDE DEF f
<1>4. f \in Injection(Kept(rs), rs)
  BY <1>2, <1>3 DEF Injection, IsInjective
<1> QED BY <1>4, FS_Injection

LEMMA KeptAtLeast ==
  ASSUME NEW rs, OneRowPerId(rs), \A r \in rs : r.id \in Ids /\ r.doc = Written(r.id)
  PROVE  Cardinality(rs) <= Cardinality(Kept(rs))
<1> DEFINE g == [r \in rs |-> r.id]
<1>1. g \in [rs -> Kept(rs)]
  BY DEF Kept
<1>2. \A a, b \in rs : g[a] = g[b] => a = b
  BY DEF OneRowPerId
<1> HIDE DEF g
<1>3. g \in Injection(rs, Kept(rs))
  BY <1>1, <1>2 DEF Injection, IsInjective
<1> QED BY <1>3, KeptFinite, FS_Injection

\* A row that passes the test of _verify_chain holds the document of its own identifier.
LEMMA ValidIsWritten ==
  ASSUME NEW r, NEW k, SignsWritten(r), RowValid(r, k)
  PROVE  r.doc = Written(r.id)
<1>1. PICK j, q : r.sig = SignDoc(j, Written(q))
  BY DEF SignsWritten
<1>2. r.sig = SignDoc(k, r.doc) /\ r.doc[1] = r.id
  BY DEF RowValid
<1>3. SignDoc(j, Written(q))[2] = Written(q) /\ SignDoc(k, r.doc)[2] = r.doc
  BY DEF SignDoc
<1>4. r.doc = Written(q) /\ Written(q)[1] = q
  BY <1>1, <1>2, <1>3 DEF Written
<1> QED BY <1>2, <1>4

\* No edited file passes the verification, under whatever checkpoint that is signed alike.
LEMMA EditedNeverMatches ==
  ASSUME TypeOK, SignInv, SoloInv, damage > 0, NEW c, NEW k,
         c.sig = checkpoint.sig, CheckpointValid(c, k), RowsMatch(rows, c, k)
  PROVE  FALSE
<1>1. \A r \in rows : r.doc = Written(r.id)
  BY ValidIsWritten DEF RowsMatch, SignInv
<1>2. \A r \in rows : r.id \in Ids
  BY DEF Rows
<1>3. Cardinality(rows) <= Cardinality(Kept(rows))
  BY <1>1, <1>2, KeptAtLeast DEF SoloInv
<1>4. Cardinality(rows) = c.seq
  BY DEF RowsMatch
<1>5. c.sig = <<k, c.seq, c.hash>>
  BY DEF CheckpointValid, SignHead
<1>6. c.sig[2] = c.seq
  BY <1>5
<1>7. Cardinality(rows) \in Nat /\ Cardinality(Kept(rows)) \in Nat
  BY KeptFinite, FS_CardinalityType DEF SoloInv, OneRowPerId
<1>8. Cardinality(Kept(rows)) < checkpoint.sig[2]
  BY DEF SoloInv
<1> QED BY <1>3, <1>4, <1>6, <1>7, <1>8

\* On a file nobody edited the last signature counts the rows, and all are as written.
LEMMA IntactCounts ==
  ASSUME TypeOK, ChainInv, SignInv, damage = 0, checkpoint # NoCheckpoint
  PROVE  /\ Cardinality(rows) = checkpoint.sig[2]
         /\ \A r \in rows : r.doc = Written(r.id)
<1>1. PICK k \in Keys : CheckpointValid(checkpoint, k) /\ RowsMatch(rows, checkpoint, k)
  BY DEF ChainInv, Chained
<1>2. checkpoint.sig = <<k, checkpoint.seq, checkpoint.hash>>
  BY <1>1 DEF CheckpointValid, SignHead
<1>3. checkpoint.sig[2] = checkpoint.seq
  BY <1>2
<1>4. Cardinality(rows) = checkpoint.seq /\ \A r \in rows : RowValid(r, k)
  BY <1>1 DEF RowsMatch
<1> QED BY <1>3, <1>4, ValidIsWritten DEF SignInv

LEMMA QuietSolo ==
  ASSUME TypeOK, SoloInv, UNCHANGED <<rows, checkpoint, damage>>,
         \A t \in Threads : Reader(pc'[t]) =>
            Reader(pc[t]) /\ seen'[t] = seen[t] /\ call'[t] = call[t]
            /\ key'[Home[t]] = key[Home[t]],
         \A t \in Threads : pc'[t] \in {"update", "commit"} => pc'[t] = pc[t] /\ tx' = tx,
         \A t \in Threads : Checked(pc'[t]) => clean'[t]
  PROVE  SoloInv'
<1>1. \A t \in Threads : Reader(pc'[t]) =>
        seen'[t].sig = checkpoint'.sig /\ CheckpointValid(seen'[t], key'[Home[t]])
  BY DEF SoloInv
<1>2. ASSUME NEW t \in Threads, pc'[t] \in {"update", "commit"}
      PROVE  /\ tx' = tx /\ pc'[t] = pc[t]
             /\ WithRow(t)' = WithRow(t) /\ NextHead(t)' = NextHead(t)
  <2>1. /\ seen'[t] = seen[t] /\ call'[t] = call[t] /\ key'[Home[t]] = key[Home[t]]
        /\ tx' = tx /\ pc'[t] = pc[t]
    BY <1>2 DEF Reader
  <2> QED BY <2>1 DEF WithRow, NextHead, NewRow
<1>3. \A t \in Threads : Writing(t)' => tx'.rows = WithRow(t)'
  BY <1>2 DEF SoloInv, Writing
<1>4. \A t \in Threads : pc'[t] = "commit" => tx'.checkpoint = NextHead(t)'
  BY <1>2 DEF SoloInv
<1>5. OneRowPerId(rows)' /\ Kept(rows)' = Kept(rows)
  BY DEF SoloInv, OneRowPerId, Kept
<1> QED BY <1>1, <1>3, <1>4, <1>5 DEF SoloInv

\* With one process the others wait for the lock while a call is under way.
LEMMA Alone ==
  ASSUME SingleProcess, TypeOK, LockInv, NEW t \in Threads, pc[t] \notin {"idle", "enter"}
  PROVE  /\ \A u \in Threads : u # t => pc[u] \in {"idle", "enter"}
         /\ writer # Home[t] \/ Writing(t)
         /\ writer = Nobody \/ Writing(t)
<1>1. \A u \in Threads : Home[u] = Home[t]
  BY DEF SingleProcess
<1>2. lock[Home[t]] = t /\ state[Home[t]] = "up"
  BY DEF LockInv
<1>3. \A u \in Threads : u # t => pc[u] \in {"idle", "enter"}
  BY <1>1, <1>2 DEF LockInv
<1>4. writer = Nobody \/ writer = Home[t]
  BY DEF SingleProcess
<1>5. writer = Home[t] => Writing(t)
  BY <1>2, <1>3 DEF LockInv, Writing
<1> QED BY <1>3, <1>4, <1>5 DEF LockInv, Writing

LEMMA CommitSolo ==
  ASSUME SingleProcess, Others, SoloInv, NEW t \in Threads, Commit(t)
  PROVE  SoloInv'
<1> USE DEF Others
<1>1. /\ pc[t] = "commit" /\ pc' = [pc EXCEPT ![t] = "return"]
      /\ rows' = WithRow(t) /\ checkpoint' = NextHead(t)
      /\ UNCHANGED <<damage, clean, key>>
  BY DEF Commit, Publish, SoloInv, Writing, At, Step, procVars
<1>2. \A u \in Threads : pc'[u] \in {"idle", "enter", "return"}
  BY <1>1, Alone
<1>3. NewRow(t).id = call[t].id /\ call[t].id \notin RowIds(rows) /\ call[t].id \in 1 .. calls
  BY <1>1 DEF NewRow, IdsInv, CallInv
<1>4. OneRowPerId(rows')
  <2>1. IsFiniteSet(rows')
    BY <1>1, FS_AddElement DEF SoloInv, OneRowPerId, WithRow
  <2>2. \A r \in rows : r.id # NewRow(t).id
    BY <1>3 DEF RowIds
  <2>3. \A r, s \in rows' : r.id = s.id => r = s
    BY <1>1, <2>2 DEF SoloInv, OneRowPerId, WithRow
  <2> QED BY <2>1, <2>3 DEF OneRowPerId
<1>5. checkpoint' # NoCheckpoint
  BY <1>1, SignedIsSealed DEF NextHead, SealedBy
<1>6. ASSUME damage > 0 PROVE Cardinality(Kept(rows')) < checkpoint'.sig[2]
  <2>1. Kept(rows') \subseteq Kept(rows) \cup {call[t].id}
    <3>1. NewRow(t).doc = Written(call[t].id)
      BY DEF NewRow
    <3> QED BY <1>1, <3>1, WrittenIsOwn DEF Kept, WithRow
  <2>2. /\ IsFiniteSet(Kept(rows) \cup {call[t].id})
        /\ Cardinality(Kept(rows) \cup {call[t].id}) <= Cardinality(Kept(rows)) + 1
    <3>1. IsFiniteSet(Kept(rows)) /\ Cardinality(Kept(rows)) \in Nat
      BY KeptFinite
    <3>2. /\ IsFiniteSet(Kept(rows) \cup {call[t].id})
          /\ \/ Cardinality(Kept(rows) \cup {call[t].id}) = Cardinality(Kept(rows))
             \/ Cardinality(Kept(rows) \cup {call[t].id}) = Cardinality(Kept(rows)) + 1
      BY <3>1, FS_AddElement, Zenon
    <3> QED BY <3>1, <3>2
  <2>3. Cardinality(Kept(rows')) <= Cardinality(Kept(rows) \cup {call[t].id})
    BY <2>1, <2>2, FS_Subset
  <2>4. seen[t].sig = checkpoint.sig /\ CheckpointValid(seen[t], key[Home[t]])
    BY <1>1 DEF SoloInv, Reader
  <2>5. checkpoint.sig = <<key[Home[t]], seen[t].seq, seen[t].hash>>
    BY <2>4 DEF CheckpointValid, SignHead
  <2>6. checkpoint.sig[2] = seen[t].seq
    BY <2>5
  <2>7. checkpoint'.sig = <<key[Home[t]], seen[t].seq + 1, NewRow(t).hash>>
    BY <1>1 DEF NextHead, SignedCheckpoint, SignHead, NewRow
  <2>8. checkpoint'.sig[2] = seen[t].seq + 1
    BY <2>7
  <2>9. seen[t].seq \in Nat
    BY NoCheckpointType DEF Checkpoints, Sealed
  <2>10. Cardinality(Kept(rows)) < checkpoint.sig[2]
    BY <1>6 DEF SoloInv
  <2>11. /\ Cardinality(Kept(rows)) \in Nat /\ Cardinality(Kept(rows')) \in Nat
         /\ Cardinality(Kept(rows) \cup {call[t].id}) \in Nat
    BY <2>2, KeptFinite, FS_CardinalityType
  <2> QED BY <2>2, <2>3, <2>6, <2>8, <2>9, <2>10, <2>11
<1>7. \A u \in Threads : Checked(pc'[u]) => clean'[u]
  <2>1. clean[t]
    BY <1>1 DEF SoloInv, Checked
  <2>2. \A u \in Threads : u # t => pc'[u] \in {"idle", "enter"}
    BY <1>1, Alone
  <2> QED BY <1>1, <2>1, <2>2 DEF Checked
<1> QED BY <1>1, <1>2, <1>4, <1>5, <1>6, <1>7 DEF SoloInv, Reader, Writing, Kept, OneRowPerId

LEMMA InsertSolo ==
  ASSUME SingleProcess, Others, SoloInv, NEW t \in Threads, Insert(t) \/ Update(t)
  PROVE  SoloInv'
<1> USE DEF Others
<1>1. /\ pc[t] \in {"insert", "update"}
      /\ UNCHANGED <<rows, checkpoint, damage, key, seen, call, clean>>
      /\ pc' = [pc EXCEPT ![t] = IF pc[t] = "insert" THEN "update" ELSE "commit"]
  BY DEF Insert, Update, At, Step, procVars
<1>2. \A u \in Threads : u # t => pc'[u] \in {"idle", "enter"}
  BY <1>1, Alone
<1>3. \A u \in Threads : WithRow(u)' = WithRow(u) /\ NextHead(u)' = NextHead(u)
  BY <1>1 DEF WithRow, NextHead, NewRow
<1>4. tx'.rows = WithRow(t)
  <2>1. CASE Insert(t)
    <3>1. writer # Home[t]
      BY <2>1, Alone DEF Insert, At, Writing
    <3>2. tx'.rows = Visible(Home[t]).rows \cup {NewRow(t)}
      BY <2>1 DEF Insert, Visible
    <3> QED BY <3>1, <3>2 DEF Visible, WithRow
  <2>2. CASE Update(t)
    <3>1. tx'.rows = tx.rows /\ pc[t] = "update"
      BY <2>2 DEF Update, At
    <3> QED BY <3>1 DEF SoloInv, Writing
  <2> QED BY <2>1, <2>2
<1>5. pc'[t] = "commit" => tx'.checkpoint = NextHead(t)
  <2>1. CASE Update(t)
    BY <2>1 DEF Update, NextHead
  <2>2. CASE Insert(t)
    BY <1>1, <2>2 DEF Insert, At
  <2> QED BY <2>1, <2>2
<1>6. OneRowPerId(rows)' /\ Kept(rows)' = Kept(rows)
  BY <1>1 DEF SoloInv, OneRowPerId, Kept
<1> QED BY <1>1, <1>2, <1>3, <1>4, <1>5, <1>6 DEF SoloInv, Reader, Checked, Writing

LEMMA ReadSolo ==
  ASSUME SingleProcess, Others, SoloInv, NEW t \in Threads, ReadCheckpoint(t) \/ ReadHead(t)
  PROVE  SoloInv'
<1> USE DEF Others
<1>1. /\ pc[t] \in {"checkpoint", "head"}
      /\ UNCHANGED <<rows, checkpoint, damage, key, call, clean>>
      /\ pc' = [pc EXCEPT ![t] = IF pc[t] = "head" THEN "insert" ELSE "rows"]
      /\ seen' = [seen EXCEPT ![t] = Visible(Home[t]).checkpoint]
      /\ CheckpointValid(Visible(Home[t]).checkpoint, key[Home[t]])
  BY DEF ReadCheckpoint, ReadHead, TrustedCheckpoint, At, Step, file, procVars
<1>2. writer # Home[t] /\ \A u \in Threads : u # t => pc'[u] \in {"idle", "enter"}
  BY <1>1, Alone DEF Writing
<1>3. Visible(Home[t]).checkpoint = checkpoint
  BY <1>2 DEF Visible
<1>4. pc[t] = "head" => clean[t]
  BY DEF SoloInv, Checked
<1>5. OneRowPerId(rows)' /\ Kept(rows)' = Kept(rows)
  BY <1>1 DEF SoloInv, OneRowPerId, Kept
<1>6. seen'[t] = checkpoint
  BY <1>1, <1>3
<1>7. \A u \in Threads : Reader(pc'[u]) =>
        seen'[u].sig = checkpoint.sig /\ CheckpointValid(seen'[u], key[Home[u]])
  BY <1>1, <1>2, <1>3, <1>6 DEF Reader
<1>8. \A u \in Threads : ~Writing(u)' /\ pc'[u] # "commit"
  BY <1>1, <1>2 DEF Writing
<1>9. \A u \in Threads : Checked(pc'[u]) => clean'[u]
  BY <1>1, <1>2, <1>4 DEF Checked
<1> QED BY <1>1, <1>5, <1>7, <1>8, <1>9 DEF SoloInv

LEMMA VerifySolo ==
  ASSUME SingleProcess, Others, SoloInv, NEW t \in Threads, VerifyRows(t)
  PROVE  SoloInv'
<1> USE DEF Others
<1>1. /\ pc[t] = "rows"
      /\ UNCHANGED <<rows, checkpoint, damage, key, call, seen, tx>>
      /\ pc' = [pc EXCEPT ![t] = IF call[t].kind = "record" THEN "accept" ELSE "select"]
      /\ clean' = [clean EXCEPT ![t] = (damage = 0)]
      /\ RowsMatch(Visible(Home[t]).rows, seen[t], key[Home[t]])
  BY DEF VerifyRows, At, Step, file, procVars
<1>2. writer # Home[t] /\ \A u \in Threads : u # t => pc[u] \in {"idle", "enter"}
  BY <1>1, Alone DEF Writing
<1>3. RowsMatch(rows, seen[t], key[Home[t]])
  BY <1>1, <1>2 DEF Visible
<1>4. seen[t].sig = checkpoint.sig /\ CheckpointValid(seen[t], key[Home[t]])
  BY <1>1 DEF SoloInv, Reader
<1>5. ~(damage > 0)
  BY <1>3, <1>4, EditedNeverMatches
<1>6. damage = 0
  BY <1>5
<1> QED BY <1>1, <1>2, <1>6, QuietSolo DEF Reader, Checked

LEMMA CallKeepsSolo ==
  ASSUME SingleProcess, Others, SoloInv, NEW t \in Threads, Calling(t) \/ StatementFails(t)
  PROVE  SoloInv'
<1> USE DEF Others
<1>1. CASE Commit(t) \/ Insert(t) \/ Update(t) \/ ReadCheckpoint(t) \/ ReadHead(t) \/ VerifyRows(t)
  BY <1>1, CommitSolo, InsertSolo, ReadSolo, VerifySolo
<1>2. CASE Enter(t) \/ AcceptExecution(t)
  <2>1. /\ UNCHANGED <<rows, checkpoint, tx, damage, key, seen, call, clean>>
        /\ ~Reader(pc'[t]) /\ pc'[t] \in {"checkpoint", "head"}
        /\ pc'[t] = "head" => pc[t] = "accept"
        /\ \A u \in Threads : u # t => pc'[u] = pc[u]
    BY <1>2 DEF Enter, AcceptExecution, At, Step, file, procVars, Reader
  <2>2. \A u \in Threads : Checked(pc'[u]) => clean'[u]
    BY <2>1 DEF SoloInv, Checked
  <2> QED BY <2>1, <2>2, QuietSolo
<1>3. CASE \/ CheckpointRejected(t) \/ RowsRejected(t) \/ RejectExecution(t)
           \/ HeadRejected(t) \/ SequenceTaken(t) \/ BusyTimeout(t)
           \/ StatementFails(t) \/ SelectRejected(t) \/ SelectRow(t) \/ ReturnRecord(t)
  <2>1. /\ UNCHANGED <<rows, checkpoint, damage, key>> /\ pc[t] \notin {"idle", "enter"}
        /\ Leave(t)
    BY <1>3 DEF CheckpointRejected, RowsRejected, RejectExecution, HeadRejected,
       SequenceTaken, BusyTimeout, StatementFails, SelectRejected, SelectRow, ReturnRecord,
       Raise, UndoTransaction, Rollback, file, At
  <2>2. /\ pc'[t] = "idle"
        /\ \A u \in Threads : u # t => /\ pc'[u] = pc[u] /\ seen'[u] = seen[u]
                                       /\ call'[u] = call[u] /\ clean'[u] = clean[u]
    BY <2>1 DEF Leave, Step
  <2>3. \A u \in Threads : u # t => pc[u] \in {"idle", "enter"}
    BY <2>1, Alone
  <2> QED BY <2>1, <2>2, <2>3, QuietSolo DEF Reader, Checked
<1> QED BY <1>1, <1>2, <1>3 DEF Calling

LEMMA ProcessKeepsSolo ==
  ASSUME SingleProcess, Others, SoloInv, NEW p \in Procs,
         \/ Opening(p) \/ OpenFails(p) \/ Crash(p)
         \/ \E configured \in KeyModes : Start(p, configured)
  PROVE  SoloInv'
<1> USE DEF Others, Goto
<1>1. \A t \in Threads : Home[t] = p
  BY DEF SingleProcess
<1>2. state[p] # "up" => \A t \in Threads : pc[t] = "idle"
  BY <1>1 DEF LockInv
<1>3. CASE OpenCommit(p)
  <2>1. /\ state[p] = "committing" /\ rows' = tx.rows /\ checkpoint' = tx.checkpoint
        /\ UNCHANGED <<damage, pc>>
    BY <1>3 DEF OpenCommit, Publish, thrVars
  <2>2. checkpoint = NoCheckpoint
    BY <2>1 DEF KeyInv
  <2>3. damage = 0
    BY <2>2 DEF SoloInv
  <2>4. rows' = {} /\ checkpoint' = SignedCheckpoint(key[p], 0, Genesis)
    BY <2>1, <2>3 DEF ChainInv
  <2>5. checkpoint' # NoCheckpoint
    BY <2>4, SignedIsSealed DEF SealedBy
  <2>6. OneRowPerId(rows')
    BY <2>4, FS_EmptySet DEF OneRowPerId
  <2>7. \A t \in Threads : pc'[t] = "idle"
    BY <1>2, <2>1
  <2> QED BY <2>1, <2>3, <2>5, <2>6, <2>7 DEF SoloInv, Reader, Checked, Writing, OneRowPerId
<1>4. CASE Seal(p)
  <2>1. UNCHANGED <<rows, checkpoint, damage, pc>> /\ state[p] # "up"
    BY <1>4 DEF Seal, thrVars
  <2> QED BY <1>2, <2>1, QuietSolo DEF Reader, Checked
<1>5. CASE OpenFails(p)
  <2>1. UNCHANGED <<rows, checkpoint, damage, pc>> /\ state[p] # "up"
    BY <1>5 DEF OpenFails, Rollback, thrVars
  <2> QED BY <1>2, <2>1, QuietSolo DEF Reader, Checked
<1>6. CASE Crash(p)
  <2>1. UNCHANGED <<rows, checkpoint, damage>> /\ \A t \in Threads : pc'[t] = "idle"
    BY <1>1, <1>6 DEF Crash, Rollback
  <2> QED BY <2>1, QuietSolo DEF Reader, Checked
<1>7. ASSUME \/ OpenSealed(p) \/ OpenUnsealed(p) \/ OpenEmpty(p)
             \/ OpenOrphanRows(p) \/ AlreadySealed(p)
             \/ \E configured \in KeyModes : Start(p, configured)
      PROVE  SoloInv'
  <2>1. UNCHANGED <<rows, checkpoint, damage, pc>> /\ state[p] # "up"
    BY <1>7 DEF Start, OpenSealed, OpenUnsealed, OpenEmpty, OpenOrphanRows, AlreadySealed,
       file, thrVars
  <2> QED BY <1>2, <2>1, QuietSolo DEF Reader, Checked
<1> QED BY <1>3, <1>4, <1>5, <1>6, <1>7 DEF Opening

\* An edit takes one row's document away and brings in none that was not there.
LEMMA EditLoses ==
  ASSUME SignInv, Damage
  PROVE  /\ \E r \in rows : \A q : (\E x \in rows' : x.doc = Written(q))
                                     => \E s \in rows \ {r} : s.doc = Written(q)
         /\ OneRowPerId(rows) => OneRowPerId(rows')
<1>1. ASSUME NEW r \in rows, rows' = rows \ {r}
      PROVE  /\ \A q : (\E x \in rows' : x.doc = Written(q))
                         => \E s \in rows \ {r} : s.doc = Written(q)
             /\ OneRowPerId(rows) => OneRowPerId(rows')
  BY <1>1, FS_RemoveElement DEF OneRowPerId
<1>2. ASSUME NEW r \in rows, NEW doc, NEW sig,
             rows' = (rows \ {r}) \cup {Holding(r, doc, sig)},
             \A q : doc = Written(q) => \E s \in rows \ {r} : s.doc = Written(q)
      PROVE  /\ \A q : (\E x \in rows' : x.doc = Written(q))
                         => \E s \in rows \ {r} : s.doc = Written(q)
             /\ OneRowPerId(rows) => OneRowPerId(rows')
  <2> DEFINE h == Holding(r, doc, sig)
  <2>1. h.doc = doc /\ h.id = r.id
    BY DEF Holding
  <2>2. \A q : (\E x \in rows' : x.doc = Written(q)) => \E s \in rows \ {r} : s.doc = Written(q)
    BY <1>2, <2>1
  <2> HIDE DEF h
  <2>3. ASSUME OneRowPerId(rows) PROVE OneRowPerId(rows')
    <3>1. rows' = (rows \ {r}) \cup {h}
      BY <1>2 DEF h
    <3>2. IsFiniteSet(rows \ {r})
      BY <2>3, FS_RemoveElement DEF OneRowPerId
    <3>3. IsFiniteSet(rows')
      BY <3>1, <3>2, FS_AddElement
    <3>4. \A x, y \in rows' : x.id = y.id => x = y
      BY <2>1, <2>3, <3>1 DEF OneRowPerId
    <3> QED BY <3>3, <3>4 DEF OneRowPerId
  <2> QED BY <2>2, <2>3
<1>3. ASSUME NEW r \in rows, DeleteRow(r) \/ CutTail(r)
      PROVE  rows' = rows \ {r}
  BY <1>3 DEF DeleteRow, CutTail, Edit
<1>4. ASSUME NEW r \in rows, AlterDocument(r)
      PROVE  \E doc, sig :
               /\ rows' = (rows \ {r}) \cup {Holding(r, doc, sig)}
               /\ \A q : doc = Written(q) => \E s \in rows \ {r} : s.doc = Written(q)
  <2>1. rows' = (rows \ {r}) \cup {Holding(r, <<r.doc[1], "altered">>, r.sig)}
    BY <1>4 DEF AlterDocument, Edit
  <2>2. \A q : <<r.doc[1], "altered">> # Written(q)
    BY DEF Written
  <2> QED BY <2>1, <2>2
<1>5. ASSUME NEW r \in rows, NEW s \in rows, r # s, SubstituteDocument(r, s)
      PROVE  \E doc, sig :
               /\ rows' = (rows \ {r}) \cup {Holding(r, doc, sig)}
               /\ \A q : doc = Written(q) => \E x \in rows \ {r} : x.doc = Written(q)
  <2>1. rows' = (rows \ {r}) \cup {Holding(r, s.doc, s.sig)}
    BY <1>5 DEF SubstituteDocument, Edit
  <2>2. \A q : s.doc = Written(q) => \E x \in rows \ {r} : x.doc = Written(q)
    BY <1>5
  <2> QED BY <2>1, <2>2
<1>6. \/ \E r \in rows : DeleteRow(r) \/ AlterDocument(r) \/ CutTail(r)
      \/ \E r, s \in rows : r # s /\ SubstituteDocument(r, s)
  BY DEF Damage
<1>7. CASE \E r \in rows : DeleteRow(r) \/ CutTail(r)
  <2>1. PICK r \in rows : rows' = rows \ {r}
    BY <1>3, <1>7
  <2> QED BY <1>1, <2>1
<1>8. CASE \/ \E r \in rows : AlterDocument(r)
           \/ \E r, s \in rows : r # s /\ SubstituteDocument(r, s)
  <2>1. PICK r \in rows : \E doc, sig :
               /\ rows' = (rows \ {r}) \cup {Holding(r, doc, sig)}
               /\ \A q : doc = Written(q) => \E s \in rows \ {r} : s.doc = Written(q)
    BY <1>4, <1>5, <1>8
  <2>2. PICK doc, sig :
               /\ rows' = (rows \ {r}) \cup {Holding(r, doc, sig)}
               /\ \A q : doc = Written(q) => \E s \in rows \ {r} : s.doc = Written(q)
    BY <2>1
  <2> QED BY <1>2, <2>2
<1> QED BY <1>6, <1>7, <1>8

LEMMA DamageSolo ==
  ASSUME SingleProcess, Others, SoloInv, Damage
  PROVE  SoloInv'
<1> USE DEF Others
<1>1. /\ writer = Nobody /\ damage' = damage + 1 /\ checkpoint'.sig = checkpoint.sig
      /\ UNCHANGED <<tx, pc, key, call, seen, clean>>
  <2>1. \A rs, c : Edit(rs, c) =>
          /\ writer = Nobody /\ damage' = damage + 1 /\ checkpoint' = c
          /\ UNCHANGED <<tx, pc, key, call, seen, clean>>
    BY DEF Edit, procVars, thrVars
  <2>2. \E rs, c : Edit(rs, c) /\ c.sig = checkpoint.sig
    <3>1. ASSUME NEW r, CutTail(r)
          PROVE  \E rs, c : Edit(rs, c) /\ c.sig = checkpoint.sig
      BY <3>1 DEF CutTail
    <3>2. ASSUME NEW rs, Edit(rs, checkpoint)
          PROVE  \E xs, c : Edit(xs, c) /\ c.sig = checkpoint.sig
      BY <3>2
    <3> QED BY <3>1, <3>2 DEF Damage, DeleteRow, AlterDocument, SubstituteDocument
  <2> QED BY <2>1, <2>2
<1>2. PICK r \in rows : \A q : (\E x \in rows' : x.doc = Written(q))
                                => \E s \in rows \ {r} : s.doc = Written(q)
  BY EditLoses
<1>3. OneRowPerId(rows')
  BY EditLoses DEF SoloInv
<1>4. \A t \in Threads : ~Writing(t) /\ pc[t] # "commit"
  BY <1>1 DEF LockInv, Writing
<1>5. checkpoint # NoCheckpoint
  BY DEF SoloInv
<1>6. checkpoint' # NoCheckpoint
  <2>1. checkpoint \in Checkpoints /\ checkpoint' \in Checkpoints
    BY DamageKeepsTypes
  <2> QED BY <1>1, <1>5, <2>1, SignatureTells
<1>7. Cardinality(Kept(rows')) < checkpoint.sig[2]
  <2>1. Kept(rows') \subseteq Kept(rows)
    BY <1>2 DEF Kept
  <2>2. /\ Cardinality(Kept(rows')) <= Cardinality(Kept(rows))
        /\ Cardinality(Kept(rows)) = Cardinality(Kept(rows')) => Kept(rows) = Kept(rows')
    BY <2>1, KeptFinite, FS_Subset
  <2>3. Cardinality(Kept(rows)) \in Nat /\ Cardinality(Kept(rows')) \in Nat
    BY KeptFinite
  <2>4. checkpoint.sig[2] \in Nat
    BY <1>5 DEF Checkpoints, Sealed
  <2>5. CASE damage > 0
    BY <2>2, <2>3, <2>4, <2>5 DEF SoloInv
  <2>6. CASE damage = 0
    <3>1. Cardinality(rows) = checkpoint.sig[2] /\ \A s \in rows : s.doc = Written(s.id)
      BY <1>5, <2>6, IntactCounts
    <3>2. r.id \in Kept(rows)
      BY <3>1 DEF Kept, Rows
    <3>3. r.id \notin Kept(rows')
      <4>1. ASSUME NEW s \in rows, s # r PROVE s.doc # Written(r.id)
        BY <3>1, <4>1, WrittenIsOwn DEF SoloInv, OneRowPerId
      <4> QED BY <1>2, <4>1 DEF Kept
    <3>4. Cardinality(Kept(rows)) <= Cardinality(rows)
      BY KeptAtMost DEF SoloInv, OneRowPerId
    <3> QED BY <2>2, <2>3, <2>4, <3>1, <3>2, <3>3, <3>4
  <2> QED BY <2>5, <2>6
<1>8. \A t \in Threads : Reader(pc'[t]) =>
        seen'[t].sig = checkpoint'.sig /\ CheckpointValid(seen'[t], key'[Home[t]])
  BY <1>1 DEF SoloInv
<1>9. \A t \in Threads : Checked(pc'[t]) => clean'[t]
  BY <1>1 DEF SoloInv
<1> QED BY <1>1, <1>3, <1>4, <1>6, <1>7, <1>8, <1>9 DEF SoloInv, Writing, Kept, OneRowPerId

LEMMA NextKeepsSolo ==
  ASSUME SingleProcess
  PROVE  Others /\ SoloInv /\ [Next]_vars => SoloInv'
<1> SUFFICES ASSUME Others, SoloInv, [Next]_vars PROVE SoloInv'
  OBVIOUS
<1>1. ASSUME NEW t \in Threads,
             \/ \E valid \in BOOLEAN : BeginRecord(t, valid)
             \/ \E q \in Ids : BeginGet(t, q)
      PROVE  SoloInv'
  <2>1. /\ UNCHANGED <<rows, checkpoint, tx, damage, key, seen, clean>>
        /\ pc' = [pc EXCEPT ![t] = "enter"]
        /\ \A u \in Threads : u # t => call'[u] = call[u]
    BY <1>1 DEF BeginRecord, BeginGet, Begin, Step, file, procVars, Others
  <2>2. \A u \in Threads : Checked(pc'[u]) => clean'[u]
    BY <2>1 DEF SoloInv, Checked, Others
  <2> QED BY <2>1, <2>2, QuietSolo DEF Reader, Others
<1>2. CASE UNCHANGED vars
  <2>1. UNCHANGED <<rows, checkpoint, tx, damage, key, pc, call, seen, clean>>
    BY <1>2 DEF vars, file, procVars, thrVars
  <2>2. \A u \in Threads : Checked(pc'[u]) => clean'[u]
    BY <2>1 DEF SoloInv
  <2> QED BY <2>1, <2>2, QuietSolo DEF Others
<1> QED BY <1>1, <1>2, CallKeepsSolo, ProcessKeepsSolo, DamageSolo DEF Next

LEMMA InitSolo == Init => SoloInv
BY FS_EmptySet DEF Init, SoloInv, OneRowPerId, Reader, Checked, Writing

LEMMA AlwaysSolo ==
  ASSUME SingleProcess
  PROVE  Spec => [](Others /\ SoloInv)
<1>1. Others /\ SoloInv /\ [Next]_vars => (Others /\ SoloInv)'
  BY NextTypes, NextKeepsChain, NextKeepsIds, NextSign, NextKeepsKey, NextKeepsSolo DEF Others
<1>2. Init => Others /\ SoloInv
  BY InitTypes, InitChain, InitIds, InitSign, InitKey, InitSolo DEF Others
<1> QED BY <1>1, <1>2, PTL DEF Spec

\* With one process no call, of whatever thread, gets past the verification of a file that was
\* edited before it looked, in whatever ways, however often and between whatever statements.
THEOREM DamageAlwaysStopsCalls ==
  ASSUME SingleProcess
  PROVE  Spec => []DamageStopsCalls
<1>1. SoloInv => DamageStopsCalls
  BY DEF SoloInv, DamageStopsCalls, Checked
<1> QED BY <1>1, AlwaysSolo, PTL

\* With one process a call is turned away by the tests on the rows only when the file as it
\* is then does not verify.
THEOREM FalseAlarmNeedsTwo ==
  ASSUME SingleProcess
  PROVE  Spec => NoFalseAlarm
<1> DEFINE Alarm(t) == At(t, "rows") /\ At(t, "idle")' /\ state'[Home[t]] = "up"
           Verifies(t) == /\ CheckpointValid(checkpoint, key[Home[t]])
                          /\ RowsMatch(rows, checkpoint, key[Home[t]])
           Justified == \A t \in Threads : Alarm(t) => ~Verifies(t)
<1>1. ASSUME Others, SoloInv, Next PROVE Justified
  <2> SUFFICES ASSUME NEW t \in Threads, Alarm(t), Verifies(t) PROVE FALSE
    OBVIOUS
  <2>1. pc[t] = "rows" /\ pc'[t] = "idle" /\ state'[Home[t]] = "up"
    BY DEF At
  <2>2. ~RowsRejected(t)
    <3> SUFFICES ASSUME RowsRejected(t) PROVE FALSE
      OBVIOUS
    <3>1. writer # Home[t]
      BY <1>1, <2>1, Alone DEF Writing, Others
    <3>2. ~RowsMatch(rows, seen[t], key[Home[t]])
      BY <3>1 DEF RowsRejected, Visible
    <3>3. seen[t].sig = checkpoint.sig /\ CheckpointValid(seen[t], key[Home[t]])
      BY <1>1, <2>1 DEF SoloInv, Reader
    <3>4. /\ checkpoint.sig = <<key[Home[t]], checkpoint.seq, checkpoint.hash>>
          /\ seen[t].sig = <<key[Home[t]], seen[t].seq, seen[t].hash>>
      BY <3>3 DEF CheckpointValid, SignHead
    <3>5. seen[t].seq = checkpoint.seq /\ seen[t].hash = checkpoint.hash
      BY <3>3, <3>4
    <3>6. RowsMatch(rows, seen[t], key[Home[t]])
      BY <3>5 DEF RowsMatch, EndsAt
    <3> QED BY <3>2, <3>6
  <2>3. ASSUME NEW u \in Threads, Calling(u) \/ StatementFails(u) PROVE FALSE
    <3>1. CASE u # t
      <4>1. pc'[t] = pc[t]
        BY <1>1, <2>3, <3>1 DEF Calling, StatementFails, Enter, ReadCheckpoint, CheckpointRejected,
           VerifyRows, RowsRejected, AcceptExecution, RejectExecution, ReadHead, HeadRejected,
           Insert, SequenceTaken, BusyTimeout, Update, Commit, ReturnRecord, SelectRow,
           SelectRejected, Raise, Leave, Step, Others
      <4> QED BY <2>1, <4>1
    <3>2. CASE u = t
      BY <1>1, <2>1, <2>2, <2>3, <3>2 DEF Calling, StatementFails, Enter, ReadCheckpoint,
         CheckpointRejected, VerifyRows, AcceptExecution, RejectExecution, ReadHead,
         HeadRejected, Insert, SequenceTaken, BusyTimeout, Update, Commit, ReturnRecord,
         SelectRow, SelectRejected, At, Step, Others
    <3> QED BY <3>1, <3>2
  <2>4. ASSUME NEW p \in Procs,
               \/ Opening(p) \/ OpenFails(p) \/ Crash(p)
               \/ \E configured \in KeyModes : Start(p, configured)
        PROVE  FALSE
    <3>1. CASE Crash(p)
      BY <1>1, <2>1, <3>1 DEF Crash, Goto, Others
    <3>2. CASE ~Crash(p)
      <4>1. pc' = pc
        BY <2>4, <3>2 DEF Opening, OpenFails, Start, OpenSealed, OpenUnsealed, OpenEmpty,
           OpenOrphanRows, Seal, AlreadySealed, OpenCommit, thrVars
      <4> QED BY <2>1, <4>1
    <3> QED BY <3>1, <3>2
  <2>5. ASSUME NEW u \in Threads,
               \/ \E valid \in BOOLEAN : BeginRecord(u, valid)
               \/ \E q \in Ids : BeginGet(u, q)
        PROVE  FALSE
    <3>1. pc' = [pc EXCEPT ![u] = "enter"]
      BY <2>5 DEF BeginRecord, BeginGet, Begin, Step
    <3> QED BY <2>1, <3>1 DEF Others
  <2>6. CASE Damage
    <3>1. pc' = pc
      BY <2>6 DEF Damage, DeleteRow, AlterDocument, SubstituteDocument, CutTail, Edit, thrVars
    <3> QED BY <2>1, <3>1
  <2> QED BY <1>1, <2>3, <2>4, <2>5, <2>6 DEF Next
<1>2. Others /\ SoloInv /\ [Next]_vars => [Justified]_vars
  BY <1>1
<1>3. [Justified]_vars =>
        [\A t \in Threads :
           At(t, "rows") /\ At(t, "idle")' /\ state'[Home[t]] = "up"
             => LET k == key[Home[t]]
                IN  ~(CheckpointValid(checkpoint, k) /\ RowsMatch(rows, checkpoint, k))]_vars
  OBVIOUS
<1> HIDE DEF Justified
<1> QED BY <1>2, <1>3, AlwaysSolo, PTL DEF Spec, NoFalseAlarm
-----------------------------------------------------------------------------
(***************************************************************************)
(* The end of a call.  A lock that is held is held by a thread inside a    *)
(* call of the process it belongs to; so whoever waits for it waits for a  *)
(* thread that can take its next step, and every step is one of the few a  *)
(* call has left.                                                          *)
(***************************************************************************)
Inside(t) == pc[t] \notin {"idle", "enter"}

HolderInv ==
  \A p \in Procs : lock[p] # Nobody => Home[lock[p]] = p /\ Inside(lock[p])

\* The steps a call has before it at most when it stands at s.
StepsFrom(s) == CASE s = "idle"       -> 0
                  [] s = "return"     -> 1
                  [] s = "select"     -> 1
                  [] s = "commit"     -> 2
                  [] s = "update"     -> 3
                  [] s = "insert"     -> 4
                  [] s = "head"       -> 5
                  [] s = "accept"     -> 6
                  [] s = "rows"       -> 7
                  [] s = "checkpoint" -> 8
                  [] s = "enter"      -> 9
StepsLeft(t) == StepsFrom(pc[t])

\* The guard of a step of t: past Enter each SELECT, test and write has an action for
\* either of its outcomes.
CanStep(t) ==
  \/ At(t, "enter") /\ LockFree(Home[t])
  \/ At(t, "checkpoint") \/ At(t, "rows") \/ At(t, "accept") \/ At(t, "head")
  \/ At(t, "insert") \/ At(t, "update") \/ At(t, "commit")
  \/ At(t, "return") \/ At(t, "select")

\* t stands before the lock of its process, and a thread of that process holds it and can step.
WaitsForMover(t) ==
  At(t, "enter") /\ \E u \in Threads : lock[Home[t]] = u /\ Home[u] = Home[t] /\ CanStep(u)

LEMMA StepsFromType == \A s \in CallSteps : StepsFrom(s) \in 0 .. 9
BY DEF CallSteps, StepsFrom

\* A step of a call advances it, and either keeps the lock as it is or takes the free
\* lock on entering, or gives it up on leaving.
LEMMA CallMoves ==
  ASSUME TypeOK, NEW t \in Threads, Calling(t) \/ StatementFails(t)
  PROVE  /\ \A u \in Threads : u # t => pc'[u] = pc[u]
         /\ StepsFrom(pc'[t]) < StepsFrom(pc[t]) /\ pc'[t] \in CallSteps
         /\ \/ lock' = lock /\ pc'[t] \notin {"idle", "enter"} /\ Inside(t)
            \/ lock' = [lock EXCEPT ![Home[t]] = t] /\ pc'[t] = "checkpoint" /\ At(t, "enter")
                 /\ LockFree(Home[t])
            \/ lock' = [lock EXCEPT ![Home[t]] = Nobody] /\ pc'[t] = "idle" /\ Inside(t)
<1> USE DEF At, Step, StepsFrom, Inside, CallSteps
<1>1. CASE Enter(t)
  BY <1>1 DEF Enter
<1>2. CASE \/ ReadCheckpoint(t) \/ VerifyRows(t) \/ AcceptExecution(t) \/ ReadHead(t)
           \/ Insert(t) \/ Update(t) \/ Commit(t)
  BY <1>2 DEF ReadCheckpoint, VerifyRows, AcceptExecution, ReadHead, Insert, Update, Commit,
     procVars
<1>3. ASSUME Leave(t), pc[t] \in {"checkpoint", "rows", "accept", "head", "insert", "update",
                                  "commit", "return", "select"}
      PROVE  /\ \A u \in Threads : u # t => pc'[u] = pc[u]
             /\ StepsFrom(pc'[t]) < StepsFrom(pc[t]) /\ pc'[t] \in CallSteps
             /\ lock' = [lock EXCEPT ![Home[t]] = Nobody] /\ pc'[t] = "idle" /\ Inside(t)
  BY <1>3 DEF Leave
<1>4. CASE \/ CheckpointRejected(t) \/ RowsRejected(t) \/ RejectExecution(t)
           \/ HeadRejected(t) \/ SequenceTaken(t) \/ BusyTimeout(t)
           \/ StatementFails(t) \/ SelectRejected(t) \/ SelectRow(t) \/ ReturnRecord(t)
  <2>1. Leave(t) /\ pc[t] \in {"checkpoint", "rows", "accept", "head", "insert", "update",
                               "commit", "return", "select"}
    BY <1>4 DEF CheckpointRejected, RowsRejected, RejectExecution, HeadRejected,
       SequenceTaken, BusyTimeout, StatementFails, SelectRejected, SelectRow, ReturnRecord, Raise
  <2> QED
    BY <1>3, <2>1
<1> QED
  BY <1>1, <1>2, <1>4 DEF Calling

\* What the processes and the editor do ends the calls of one process or none.
LEMMA ProcessMoves ==
  ASSUME TypeOK, NEW p \in Procs,
         \/ Opening(p) \/ OpenFails(p) \/ Crash(p)
         \/ \E configured \in KeyModes : Start(p, configured)
  PROVE  \/ pc' = pc /\ lock' = lock
         \/ /\ pc' = [t \in Threads |-> IF Home[t] = p THEN "idle" ELSE pc[t]]
            /\ lock' = [lock EXCEPT ![p] = Nobody]
BY DEF Crash, Opening, OpenFails, Start, OpenSealed, OpenUnsealed, OpenEmpty, OpenOrphanRows,
   Seal, AlreadySealed, OpenCommit, thrVars

LEMMA BeginMoves ==
  ASSUME TypeOK, NEW t \in Threads,
         \/ \E valid \in BOOLEAN : BeginRecord(t, valid)
         \/ \E q \in Ids : BeginGet(t, q)
  PROVE  At(t, "idle") /\ pc' = [pc EXCEPT ![t] = "enter"] /\ lock' = lock
BY DEF BeginRecord, BeginGet, Begin, Step, procVars

LEMMA OtherMoves ==
  ASSUME Damage \/ UNCHANGED vars
  PROVE  pc' = pc /\ lock' = lock
BY DEF Damage, DeleteRow, AlterDocument, SubstituteDocument, CutTail, Edit, vars, procVars, thrVars

LEMMA NextHolder == TypeOK /\ LockInv /\ HolderInv /\ [Next]_vars => HolderInv'
<1> SUFFICES ASSUME TypeOK, LockInv, HolderInv, [Next]_vars, NEW q \in Procs, lock'[q] # Nobody
             PROVE  Home[lock'[q]] = q /\ pc'[lock'[q]] \notin {"idle", "enter"}
  BY DEF HolderInv, Inside
<1>0. lock \in [Procs -> Threads \cup {Nobody}] /\ pc \in [Threads -> CallSteps]
  OBVIOUS
<1>1. ASSUME NEW t \in Threads, Calling(t) \/ StatementFails(t)
      PROVE  Home[lock'[q]] = q /\ pc'[lock'[q]] \notin {"idle", "enter"}
  <2>1. Home[t] \in Procs
    OBVIOUS
  <2>2. CASE lock' = lock /\ pc'[t] \notin {"idle", "enter"}
    BY <1>0, <1>1, <2>2, CallMoves DEF HolderInv, Inside
  <2>3. CASE lock' = [lock EXCEPT ![Home[t]] = t] /\ pc'[t] = "checkpoint" /\ At(t, "enter")
    <3>1. CASE q = Home[t]
      <4>1. lock'[q] = t
        BY <1>0, <2>1, <2>3, <3>1
      <4> QED
        BY <2>3, <3>1, <4>1
    <3>2. CASE q # Home[t]
      <4>1. lock'[q] = lock[q] /\ lock[q] # Nobody
        BY <1>0, <2>3, <3>2
      <4>2. Home[lock[q]] = q /\ Inside(lock[q]) /\ lock[q] \in Threads
        BY <1>0, <4>1 DEF HolderInv
      <4>3. pc'[lock[q]] = pc[lock[q]]
        BY <1>1, <2>3, <4>2, CallMoves DEF At, Inside
      <4> QED
        BY <4>1, <4>2, <4>3 DEF Inside
    <3> QED
      BY <3>1, <3>2
  <2>4. CASE lock' = [lock EXCEPT ![Home[t]] = Nobody] /\ Inside(t)
    <3>1. lock[Home[t]] = t
      BY <2>4 DEF LockInv, Inside
    <3>2. q # Home[t] /\ lock'[q] = lock[q]
      BY <1>0, <2>1, <2>4
    <3>3. Home[lock[q]] = q /\ Inside(lock[q])
      BY <3>2 DEF HolderInv
    <3>4. lock[q] # t /\ lock[q] \in Threads
      BY <1>0, <3>2, <3>3
    <3> QED
      BY <1>1, <3>2, <3>3, <3>4, CallMoves DEF Inside
  <2> QED
    BY <1>1, <2>2, <2>3, <2>4, CallMoves
<1>2. ASSUME NEW p \in Procs,
             \/ Opening(p) \/ OpenFails(p) \/ Crash(p)
             \/ \E configured \in KeyModes : Start(p, configured)
      PROVE  Home[lock'[q]] = q /\ pc'[lock'[q]] \notin {"idle", "enter"}
  BY <1>0, <1>2, ProcessMoves DEF HolderInv, Inside
<1>3. ASSUME NEW t \in Threads,
             \/ \E valid \in BOOLEAN : BeginRecord(t, valid)
             \/ \E i \in Ids : BeginGet(t, i)
      PROVE  Home[lock'[q]] = q /\ pc'[lock'[q]] \notin {"idle", "enter"}
  BY <1>0, <1>3, BeginMoves DEF HolderInv, Inside, At
<1>4. CASE Damage \/ UNCHANGED vars
  BY <1>4, OtherMoves DEF HolderInv, Inside
<1> QED
  BY <1>1, <1>2, <1>3, <1>4 DEF Next

LEMMA NextShorter ==
  TypeOK /\ [Next]_vars =>
    \A t \in Threads : /\ pc[t] # "idle" => StepsLeft(t)' <= StepsLeft(t)
                       /\ Calling(t) \/ StatementFails(t) => StepsLeft(t)' < StepsLeft(t)
<1> SUFFICES ASSUME TypeOK, [Next]_vars, NEW t \in Threads
             PROVE  /\ pc[t] # "idle" => StepsFrom(pc'[t]) <= StepsFrom(pc[t])
                    /\ Calling(t) \/ StatementFails(t) => StepsFrom(pc'[t]) < StepsFrom(pc[t])
  BY DEF StepsLeft
<1>0. StepsFrom(pc[t]) \in 0 .. 9 /\ StepsFrom("idle") = 0
  BY StepsFromType DEF StepsFrom
<1>1. Calling(t) \/ StatementFails(t) => StepsFrom(pc'[t]) < StepsFrom(pc[t])
  BY CallMoves
<1>2. ASSUME NEW u \in Threads, Calling(u) \/ StatementFails(u)
      PROVE  StepsFrom(pc'[t]) <= StepsFrom(pc[t])
  <2>1. CASE u = t
    <3>1. StepsFrom(pc'[t]) < StepsFrom(pc[t]) /\ pc'[t] \in CallSteps
      BY <1>2, <2>1, CallMoves
    <3> QED
      BY <1>0, <3>1, StepsFromType
  <2>2. CASE u # t
    BY <1>0, <1>2, <2>2, CallMoves
  <2> QED
    BY <2>1, <2>2
<1>3. ASSUME NEW p \in Procs,
             \/ Opening(p) \/ OpenFails(p) \/ Crash(p)
             \/ \E configured \in KeyModes : Start(p, configured)
      PROVE  StepsFrom(pc'[t]) <= StepsFrom(pc[t])
  <2>1. pc'[t] \in {pc[t], "idle"}
    BY <1>3, ProcessMoves
  <2> QED
    BY <1>0, <2>1
<1>4. ASSUME NEW u \in Threads,
             \/ \E valid \in BOOLEAN : BeginRecord(u, valid)
             \/ \E i \in Ids : BeginGet(u, i)
      PROVE  pc[t] # "idle" => pc'[t] = pc[t]
  BY <1>4, BeginMoves DEF At
<1>5. ASSUME Damage \/ UNCHANGED vars
      PROVE  StepsFrom(pc'[t]) <= StepsFrom(pc[t])
  BY <1>0, <1>5, OtherMoves
<1>6. StepsFrom(pc[t]) <= StepsFrom(pc[t])
  BY <1>0
<1>7. pc[t] # "idle" => StepsFrom(pc'[t]) <= StepsFrom(pc[t])
  <2>1. CASE \E u \in Threads : Calling(u) \/ StatementFails(u)
    BY <1>2, <2>1
  <2>2. CASE \E p \in Procs : \/ Opening(p) \/ OpenFails(p) \/ Crash(p)
                             \/ \E configured \in KeyModes : Start(p, configured)
    BY <1>3, <2>2
  <2>3. CASE \E u \in Threads : \/ \E valid \in BOOLEAN : BeginRecord(u, valid)
                               \/ \E i \in Ids : BeginGet(u, i)
    <3>1. pc[t] # "idle" => pc'[t] = pc[t]
      BY <1>4, <2>3
    <3> QED
      BY <1>6, <3>1
  <2> QED
    BY <1>5, <2>1, <2>2, <2>3 DEF Next
<1> QED
  BY <1>1, <1>7

\* No call waits for a call that waits: one that is under way can take its next step, or it
\* stands before the lock of its process, held by a thread that can.  A step leaves it nearer
\* to its end, a failing statement and a rejected row included, and no step of another thread
\* or process takes it further away (store.py record and get, `with self._lock`).
THEOREM CallsRunOut ==
  Spec => /\ [](\A t \in Threads : /\ StepsLeft(t) \in 0 .. 9
                                   /\ pc[t] # "idle" => CanStep(t) \/ WaitsForMover(t))
          /\ [][\A t \in Threads :
                  /\ pc[t] # "idle" => StepsLeft(t)' <= StepsLeft(t)
                  /\ Calling(t) \/ StatementFails(t) => StepsLeft(t)' < StepsLeft(t)]_vars
<1>1. Init => HolderInv
  BY DEF Init, HolderInv
<1>2. TypeOK /\ HolderInv =>
        \A t \in Threads : /\ StepsLeft(t) \in 0 .. 9
                           /\ pc[t] # "idle" => CanStep(t) \/ WaitsForMover(t)
  <2> SUFFICES ASSUME TypeOK, HolderInv, NEW t \in Threads
               PROVE  /\ StepsLeft(t) \in 0 .. 9
                      /\ pc[t] # "idle" => CanStep(t) \/ WaitsForMover(t)
    OBVIOUS
  <2>1. \A u \in Threads : pc[u] \in CallSteps
    OBVIOUS
  <2>2. \A u \in Threads : Inside(u) => CanStep(u)
    BY <2>1 DEF Inside, CanStep, At, CallSteps
  <2>3. CASE At(t, "enter") /\ ~LockFree(Home[t])
    <3>1. lock[Home[t]] \in Threads /\ lock[Home[t]] # Nobody /\ Home[t] \in Procs
      BY <2>3 DEF LockFree
    <3>2. Home[lock[Home[t]]] = Home[t] /\ Inside(lock[Home[t]])
      BY <3>1 DEF HolderInv
    <3>3. WaitsForMover(t)
      BY <2>2, <2>3, <3>1, <3>2 DEF WaitsForMover
    <3> QED
      BY <2>1, <3>3, StepsFromType DEF StepsLeft
  <2>4. CASE ~(At(t, "enter") /\ ~LockFree(Home[t]))
    BY <2>1, <2>2, <2>4, StepsFromType DEF StepsLeft, CanStep, At, Inside
  <2> QED
    BY <2>3, <2>4
<1>3. TypeOK /\ [Next]_vars =>
        [\A t \in Threads :
           /\ pc[t] # "idle" => StepsLeft(t)' <= StepsLeft(t)
           /\ Calling(t) \/ StatementFails(t) => StepsLeft(t)' < StepsLeft(t)]_vars
  BY NextShorter
<1> QED
  BY InitTypes, NextTypes, NextHolder, <1>1, <1>2, <1>3, PTL DEF Spec
=============================================================================
