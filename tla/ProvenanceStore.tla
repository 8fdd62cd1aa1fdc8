--------------------------- MODULE ProvenanceStore ---------------------------
(***************************************************************************)
(* provenance/store.py: a tamper-evident chain of signed rows in a SQLite  *)
(* file, with a signed checkpoint naming the chain's head.  Several        *)
(* operating-system processes may open the same file; each has one store   *)
(* object, one connection and one lock shared by its worker threads.       *)
(*                                                                         *)
(* One action is one SQL statement (or the code between two): outside a    *)
(* transaction every SELECT is a read transaction of its own, so another   *)
(* process may commit between two of them.  The first write statement      *)
(* takes SQLite's write lock, and the rollback-journal makes commit atomic.*)
(*                                                                         *)
(* Signatures and hashes are ideal: a signature is the pair of the key and *)
(* what it signs, the hash of a row is the sequence of the contents of the *)
(* rows up to it.                                                          *)
(***************************************************************************)
EXTENDS Naturals, Sequences, FiniteSets

CONSTANTS Procs,        \* operating-system processes that open the file
          Threads,      \* worker threads
          Home,         \* the process of each thread
          KeyModes,     \* whether a start has a configured signing key: subset of BOOLEAN
          Nobody,       \* no process, no thread
          MaxCalls,     \* bound: record and get calls in a behaviour
          MaxStarts,    \* bound: process starts in a behaviour
          MaxDamage     \* bound: edits of the file from outside the store

ASSUME HomeAssumption  == Home \in [Threads -> Procs]
ASSUME NobodyAssumption == Nobody \notin Procs \cup Threads
ASSUME BoundsAssumption == {MaxCalls, MaxStarts, MaxDamage} \subseteq Nat
ASSUME KeyModesAssumption == KeyModes \subseteq BOOLEAN

VARIABLES rows,         \* committed rows of table provenance
          checkpoint,   \* committed row of table provenance_checkpoint
          writer,       \* the process holding SQLite's write lock
          tx,           \* the uncommitted image of both tables, when there is a writer
          state,        \* per process: down, up, or a step of ProvenanceStore.__init__
          key,          \* per process: the key of its signing authority
          lock,         \* per process: the thread inside ProvenanceStore._lock
          pc,           \* per thread: the next step of its call
          call,         \* per thread: the arguments of its call
          seen,         \* per thread: the checkpoint _checkpoint() returned last
          clean,        \* per thread, history: its _verify_chain read an undamaged file
          calls,        \* number of calls made; also the source of fresh identifiers
          starts,       \* number of process starts; also the source of fresh keys
          damage,       \* number of edits from outside
          acked,        \* history: identifiers returned by record
          failed,       \* history: identifiers of record calls that raised
          reads         \* history: <<asked, returned document>> of get calls

file     == <<rows, checkpoint, writer, tx>>
procVars == <<state, key, lock, starts>>
thrVars  == <<pc, call, seen, clean, calls>>
history  == <<acked, failed, reads>>
vars     == <<file, procVars, thrVars, damage, history>>
-----------------------------------------------------------------------------
Ids      == 1 .. MaxCalls
Keys     == 0 .. MaxStarts
Docs     == Ids \X {"written", "altered"}   \* a document: its query_id field and its text
Written(q) == <<q, "written">>

Genesis  == <<>>
SignId(k, doc)         == <<k, <<doc[1]>>>>   \* the faulty variant signs the identifier alone
SignDoc(k, doc)        == <<k, doc>>
SignHead(k, seq, hash) == <<k, seq, hash>>
RowHash(r) == Append(r.prev, <<r.id, r.doc, r.sig, r.seq>>)

NoCheckpoint == [seq |-> 0, hash |-> Genesis, sig |-> <<>>]
SignedCheckpoint(k, seq, hash) ==
  [seq |-> seq, hash |-> hash, sig |-> SignHead(k, seq, hash)]

NoTx    == [rows |-> {}, checkpoint |-> NoCheckpoint]
NoCall  == [kind |-> "none", id |-> 0, valid |-> FALSE]

\* What a statement of process p reads: its own open transaction, or the file.
Visible(p) ==
  IF writer = p THEN tx ELSE [rows |-> rows, checkpoint |-> checkpoint]

\* The test of _checkpoint.
CheckpointValid(c, k) == c # NoCheckpoint /\ c.sig = SignHead(k, c.seq, c.hash)

\* The tests of _verify_chain on one row, and on the rows as a chain.
RowValid(r, k) == /\ r.hash = RowHash(r)
                  /\ r.doc[1] = r.id
                  /\ r.sig = SignDoc(k, r.doc)

Linked(rs) == /\ \A r \in rs : r.seq = 1 => r.prev = Genesis
              /\ \A r, s \in rs : s.seq = r.seq + 1 => s.prev = r.hash

EndsAt(rs, c) == /\ c.seq = 0 => c.hash = Genesis
                 /\ \A r \in rs : r.seq = c.seq => r.hash = c.hash

RowsMatch(rs, c, k) == /\ Cardinality(rs) = c.seq
                       /\ {r.seq : r \in rs} = 1 .. c.seq
                       /\ \A r \in rs : RowValid(r, k)
                       /\ Linked(rs)
                       /\ EndsAt(rs, c)

\* The row record() builds from the head it read: uuid4, document, signature, hash.
NewRow(t) ==
  LET q    == call[t].id
      sig  == SignDoc(key[Home[t]], Written(q))
      seq  == seen[t].seq + 1
      prev == seen[t].hash
  IN  [id |-> q, doc |-> Written(q), sig |-> sig, seq |-> seq, prev |-> prev,
       hash |-> Append(prev, <<q, Written(q), sig, seq>>)]
-----------------------------------------------------------------------------
Init ==
  /\ rows = {} /\ checkpoint = NoCheckpoint
  /\ writer = Nobody /\ tx = NoTx
  /\ state = [p \in Procs |-> "down"]
  /\ key = [p \in Procs |-> 0]
  /\ lock = [p \in Procs |-> Nobody]
  /\ starts = 0
  /\ pc = [t \in Threads |-> "idle"]
  /\ call = [t \in Threads |-> NoCall]
  /\ seen = [t \in Threads |-> NoCheckpoint]
  /\ clean = [t \in Threads |-> FALSE]
  /\ calls = 0
  /\ damage = 0
  /\ acked = {} /\ failed = {} /\ reads = {}
-----------------------------------------------------------------------------
(***************************************************************************)
(* ProvenanceStore.__init__.  The CREATE TABLE IF NOT EXISTS statements    *)
(* and the column checks change nothing the properties see.                *)
(***************************************************************************)
Goto(p, s) == state' = [state EXCEPT ![p] = s]

\* The process starts: its signing authority takes the configured key, or draws one.
Start(p, configured) ==
  /\ state[p] = "down" /\ starts < MaxStarts
  /\ starts' = starts + 1
  /\ key' = [key EXCEPT ![p] = IF configured THEN 0 ELSE starts + 1]
  /\ Goto(p, "opening")
  /\ UNCHANGED <<file, lock, thrVars, damage, history>>

\* SELECT ... FROM provenance_checkpoint
OpenSealed(p) ==
  /\ state[p] = "opening" /\ checkpoint # NoCheckpoint
  /\ Goto(p, "up")
  /\ UNCHANGED <<file, key, lock, starts, thrVars, damage, history>>

OpenUnsealed(p) ==
  /\ state[p] = "opening" /\ checkpoint = NoCheckpoint
  /\ Goto(p, "unsealed")
  /\ UNCHANGED <<file, key, lock, starts, thrVars, damage, history>>

\* SELECT 1 FROM provenance: rows without a checkpoint raise, and no store is made.
OpenEmpty(p) ==
  /\ state[p] = "unsealed" /\ rows = {}
  /\ Goto(p, "sealing")
  /\ UNCHANGED <<file, key, lock, starts, thrVars, damage, history>>

OpenOrphanRows(p) ==
  /\ state[p] = "unsealed" /\ rows # {}
  /\ Goto(p, "down")
  /\ UNCHANGED <<file, key, lock, starts, thrVars, damage, history>>

\* The faulty variant replaces the row an earlier INSERT made.
SealOverwriting(p) ==
  /\ state[p] = "sealing" /\ writer = Nobody
  /\ writer' = p
  /\ tx' = [rows |-> rows, checkpoint |-> SignedCheckpoint(key[p], 0, Genesis)]
  /\ Goto(p, "committing")
  /\ UNCHANGED <<rows, checkpoint, key, lock, starts, thrVars, damage, history>>

\* INSERT INTO provenance_checkpoint: its PRIMARY KEY admits one row.
Seal(p) ==
  /\ state[p] = "sealing" /\ writer = Nobody
  /\ checkpoint = NoCheckpoint
  /\ writer' = p
  /\ tx' = [rows |-> rows, checkpoint |-> SignedCheckpoint(key[p], 0, Genesis)]
  /\ Goto(p, "committing")
  /\ UNCHANGED <<rows, checkpoint, key, lock, starts, thrVars, damage, history>>

AlreadySealed(p) ==
  /\ state[p] = "sealing" /\ writer = Nobody
  /\ checkpoint # NoCheckpoint
  /\ Goto(p, "down")
  /\ UNCHANGED <<file, key, lock, starts, thrVars, damage, history>>

\* The file takes the writer's image, and the write lock is free again.
Publish == /\ rows' = tx.rows /\ checkpoint' = tx.checkpoint
           /\ writer' = Nobody /\ tx' = NoTx

\* A process's open transaction is undone; another's is not touched.
Rollback(p) ==
  /\ UNCHANGED <<rows, checkpoint>>
  /\ IF writer = p THEN writer' = Nobody /\ tx' = NoTx ELSE UNCHANGED <<writer, tx>>

OpenCommit(p) ==
  /\ state[p] = "committing"
  /\ Publish
  /\ Goto(p, "up")
  /\ UNCHANGED <<key, lock, starts, thrVars, damage, history>>

\* Any statement of __init__ may raise sqlite3.OperationalError (a busy file, a full disk).
OpenFails(p) ==
  /\ state[p] \in {"opening", "unsealed", "sealing", "committing"}
  /\ Rollback(p)
  /\ Goto(p, "down")
  /\ UNCHANGED <<key, lock, starts, thrVars, damage, history>>

\* The process dies: its threads vanish, SQLite undoes its open transaction, and a
\* key that was not configured is lost.
Crash(p) ==
  /\ state[p] # "down"
  /\ Rollback(p)
  /\ Goto(p, "down")
  /\ lock' = [lock EXCEPT ![p] = Nobody]
  /\ pc' = [t \in Threads |-> IF Home[t] = p THEN "idle" ELSE pc[t]]
  /\ call' = [t \in Threads |-> IF Home[t] = p THEN NoCall ELSE call[t]]
  /\ seen' = [t \in Threads |-> IF Home[t] = p THEN NoCheckpoint ELSE seen[t]]
  /\ clean' = [t \in Threads |-> IF Home[t] = p THEN FALSE ELSE clean[t]]
  /\ UNCHANGED <<key, starts, calls, damage, history>>
-----------------------------------------------------------------------------
(***************************************************************************)
(* record and get.  Both take the lock, run _verify_chain, and release the *)
(* lock however they end.                                                  *)
(***************************************************************************)
At(t, s) == pc[t] = s
Step(t, s) == pc' = [pc EXCEPT ![t] = s]

\* The faulty variant keeps the lock.
LeaveLocked(t) ==
  /\ Step(t, "idle")
  /\ call' = [call EXCEPT ![t] = NoCall]
  /\ seen' = [seen EXCEPT ![t] = NoCheckpoint]
  /\ clean' = [clean EXCEPT ![t] = FALSE]
  /\ UNCHANGED <<calls, lock>>

\* `with self._lock` is left, and with it the call.
Leave(t) ==
  /\ Step(t, "idle")
  /\ lock' = [lock EXCEPT ![Home[t]] = Nobody]
  /\ call' = [call EXCEPT ![t] = NoCall]
  /\ seen' = [seen EXCEPT ![t] = NoCheckpoint]
  /\ clean' = [clean EXCEPT ![t] = FALSE]
  /\ UNCHANGED calls

\* An exception reaches the caller.
Raise(t) ==
  /\ Leave(t)
  /\ failed' = IF call[t].kind = "record" THEN failed \cup {call[t].id} ELSE failed
  /\ UNCHANGED <<acked, reads>>

Begin(t, c) ==
  /\ At(t, "idle") /\ state[Home[t]] = "up" /\ calls < MaxCalls
  /\ calls' = calls + 1
  /\ call' = [call EXCEPT ![t] = c]
  /\ Step(t, "enter")
  /\ UNCHANGED <<file, procVars, seen, clean, damage, history>>

\* valid: the execution verifies, its outcome is ALLOWED and the question is its own.
\* The identifier is a fresh uuid4.
BeginRecord(t, valid) == Begin(t, [kind |-> "record", id |-> calls + 1, valid |-> valid])

\* Any identifier may be asked for, those never recorded included.
BeginGet(t, q) == Begin(t, [kind |-> "get", id |-> q, valid |-> TRUE])

\* The faulty variant admits a thread whoever is inside.
Unguarded(p) == TRUE
LockFree(p) == lock[p] = Nobody

Enter(t) ==
  /\ At(t, "enter") /\ LockFree(Home[t])
  /\ lock' = [lock EXCEPT ![Home[t]] = t]
  /\ Step(t, "checkpoint")
  /\ UNCHANGED <<file, state, key, starts, call, seen, clean, calls, damage, history>>

\* The faulty variant takes any stored checkpoint for its own.
SignatureIgnored(c, k) == c # NoCheckpoint
TrustedCheckpoint(c, k) == CheckpointValid(c, k)

\* _checkpoint(), first call: one SELECT and the signature test.
ReadCheckpoint(t) ==
  /\ At(t, "checkpoint")
  /\ TrustedCheckpoint(Visible(Home[t]).checkpoint, key[Home[t]])
  /\ seen' = [seen EXCEPT ![t] = Visible(Home[t]).checkpoint]
  /\ Step(t, "rows")
  /\ UNCHANGED <<file, procVars, call, clean, calls, damage, history>>

CheckpointRejected(t) ==
  /\ At(t, "checkpoint")
  /\ ~TrustedCheckpoint(Visible(Home[t]).checkpoint, key[Home[t]])
  /\ Raise(t)
  /\ UNCHANGED <<file, state, key, starts, damage>>

\* The rest of _verify_chain: another SELECT, and the tests on what it returned.
VerifyRows(t) ==
  /\ At(t, "rows")
  /\ RowsMatch(Visible(Home[t]).rows, seen[t], key[Home[t]])
  /\ clean' = [clean EXCEPT ![t] = (damage = 0)]
  /\ Step(t, IF call[t].kind = "record" THEN "accept" ELSE "select")
  /\ UNCHANGED <<file, procVars, call, seen, calls, damage, history>>

RowsRejected(t) ==
  /\ At(t, "rows")
  /\ ~RowsMatch(Visible(Home[t]).rows, seen[t], key[Home[t]])
  /\ Raise(t)
  /\ UNCHANGED <<file, state, key, starts, damage>>

\* record(): the execution is intact, ALLOWED and answers this question; it is signed.
AcceptExecution(t) ==
  /\ At(t, "accept") /\ call[t].valid
  /\ Step(t, "head")
  /\ UNCHANGED <<file, procVars, call, seen, clean, calls, damage, history>>

RejectExecution(t) ==
  /\ At(t, "accept") /\ ~call[t].valid
  /\ Raise(t)
  /\ UNCHANGED <<file, state, key, starts, damage>>

\* record() calls _checkpoint() again, and appends after what it returns now.
ReadHead(t) ==
  /\ At(t, "head") /\ TrustedCheckpoint(Visible(Home[t]).checkpoint, key[Home[t]])
  /\ seen' = [seen EXCEPT ![t] = Visible(Home[t]).checkpoint]
  /\ Step(t, "insert")
  /\ UNCHANGED <<file, procVars, call, clean, calls, damage, history>>

HeadRejected(t) ==
  /\ At(t, "head") /\ ~TrustedCheckpoint(Visible(Home[t]).checkpoint, key[Home[t]])
  /\ Raise(t)
  /\ UNCHANGED <<file, state, key, starts, damage>>

\* Another connection holds the write lock.
Blocked(t) == writer \notin {Nobody, Home[t]}

\* The faulty variant has no UNIQUE on the sequence column.
SequenceUnconstrained(t) == TRUE
SequenceFree(t) == \A r \in Visible(Home[t]).rows : r.seq # NewRow(t).seq

\* INSERT INTO provenance: opens the transaction and takes the write lock.
Insert(t) ==
  /\ At(t, "insert") /\ ~Blocked(t) /\ SequenceFree(t)
  /\ writer' = Home[t]
  /\ tx' = [Visible(Home[t]) EXCEPT !.rows = @ \cup {NewRow(t)}]
  /\ Step(t, "update")
  /\ UNCHANGED <<rows, checkpoint, procVars, call, seen, clean, calls, damage, history>>

\* The faulty variant leaves the transaction open when a statement fails.
KeepTransaction(p) == UNCHANGED file
UndoTransaction(p) == Rollback(p)

\* Another process appended first: the UNIQUE constraint raises IntegrityError.
SequenceTaken(t) ==
  /\ At(t, "insert") /\ ~Blocked(t) /\ ~SequenceFree(t)
  /\ UndoTransaction(Home[t])
  /\ Raise(t)
  /\ UNCHANGED <<state, key, starts, damage>>

\* Another process held the write lock for longer than the five-second busy timeout.
BusyTimeout(t) ==
  /\ At(t, "insert") /\ Blocked(t)
  /\ Raise(t)
  /\ UNCHANGED <<file, state, key, starts, damage>>

\* Any write statement may raise (disk full, a commit kept waiting by readers).
StatementFails(t) ==
  /\ \/ At(t, "insert") /\ ~Blocked(t)
     \/ At(t, "update")
     \/ At(t, "commit")
  /\ UndoTransaction(Home[t])
  /\ Raise(t)
  /\ UNCHANGED <<state, key, starts, damage>>

\* UPDATE provenance_checkpoint: the new head, signed with this process's key.
Update(t) ==
  /\ At(t, "update")
  /\ tx' = [tx EXCEPT !.checkpoint =
              SignedCheckpoint(key[Home[t]], NewRow(t).seq, NewRow(t).hash)]
  /\ Step(t, "commit")
  /\ UNCHANGED <<rows, checkpoint, writer, procVars, call, seen, clean, calls, damage, history>>

Commit(t) ==
  /\ At(t, "commit")
  /\ Publish
  /\ Step(t, "return")
  /\ UNCHANGED <<procVars, call, seen, clean, calls, damage, history>>

\* The faulty variant also returns before the commit.
ReturnEarly(t) ==
  /\ At(t, "return") \/ At(t, "commit")
  /\ acked' = acked \cup {call[t].id}
  /\ Leave(t)
  /\ UNCHANGED <<file, state, key, starts, damage, failed, reads>>

ReturnRecord(t) ==
  /\ At(t, "return")
  /\ acked' = acked \cup {call[t].id}
  /\ Leave(t)
  /\ UNCHANGED <<file, state, key, starts, damage, failed, reads>>

\* The faulty variant trusts the row because _verify_chain has passed.
StoredRow(t, r) == r.id = call[t].id
\* get(): SELECT by identifier, then the document is checked once more by itself.
Answers(t, r) == /\ r.id = call[t].id
                 /\ r.doc[1] = r.id
                 /\ r.sig = SignDoc(key[Home[t]], r.doc)

SelectRow(t) ==
  /\ At(t, "select")
  /\ \E r \in Visible(Home[t]).rows :
        Answers(t, r) /\ reads' = reads \cup {<<call[t].id, r.doc>>}
  /\ Leave(t)
  /\ UNCHANGED <<file, state, key, starts, damage, acked, failed>>

\* No such row (KeyError), or a document that fails its own check (ValueError).
SelectRejected(t) ==
  /\ At(t, "select")
  /\ \A r \in Visible(Home[t]).rows : ~Answers(t, r)
  /\ Raise(t)
  /\ UNCHANGED <<file, state, key, starts, damage>>
-----------------------------------------------------------------------------
(***************************************************************************)
(* Edits of the file from outside the store, those of the unit tests: a    *)
(* row deleted, a document altered, one signed document copied under       *)
(* another identifier, the tail cut off with the checkpoint wound back.    *)
(***************************************************************************)
Edit(rs, c) ==
  /\ writer = Nobody /\ damage < MaxDamage
  /\ damage' = damage + 1
  /\ rows' = rs /\ checkpoint' = c
  /\ UNCHANGED <<writer, tx, procVars, thrVars, history>>

DeleteRow(r) == Edit(rows \ {r}, checkpoint)

Holding(r, doc, sig) ==
  [id |-> r.id, doc |-> doc, sig |-> sig, seq |-> r.seq, prev |-> r.prev, hash |-> r.hash]

AlterDocument(r) ==
  Edit((rows \ {r}) \cup {Holding(r, <<r.doc[1], "altered">>, r.sig)}, checkpoint)

SubstituteDocument(r, s) ==
  Edit((rows \ {r}) \cup {Holding(r, s.doc, s.sig)}, checkpoint)

CutTail(r) ==
  /\ r.seq = checkpoint.seq
  /\ Edit(rows \ {r}, [seq |-> r.seq - 1, hash |-> r.prev, sig |-> checkpoint.sig])

Damage == \/ \E r \in rows : DeleteRow(r) \/ AlterDocument(r) \/ CutTail(r)
          \/ \E r, s \in rows : r # s /\ SubstituteDocument(r, s)
-----------------------------------------------------------------------------
Opening(p) == \/ OpenSealed(p) \/ OpenUnsealed(p) \/ OpenEmpty(p)
              \/ OpenOrphanRows(p) \/ Seal(p) \/ AlreadySealed(p) \/ OpenCommit(p)

Calling(t) == \/ Enter(t) \/ ReadCheckpoint(t) \/ CheckpointRejected(t)
              \/ VerifyRows(t) \/ RowsRejected(t)
              \/ AcceptExecution(t) \/ RejectExecution(t)
              \/ ReadHead(t) \/ HeadRejected(t)
              \/ Insert(t) \/ SequenceTaken(t) \/ BusyTimeout(t)
              \/ Update(t) \/ Commit(t) \/ ReturnRecord(t)
              \/ SelectRow(t) \/ SelectRejected(t)

Next == \/ \E p \in Procs, configured \in KeyModes : Start(p, configured)
        \/ \E p \in Procs : Opening(p) \/ OpenFails(p) \/ Crash(p)
        \/ \E t \in Threads :
             \/ \E valid \in BOOLEAN : BeginRecord(t, valid)
             \/ \E q \in Ids : BeginGet(t, q)
             \/ Calling(t) \/ StatementFails(t)
        \/ Damage

\* A thread that can run does run; nothing obliges anyone to call, start, fail or crash.
Fairness == \A t \in Threads : WF_vars(Calling(t))

Spec == Init /\ [][Next]_vars /\ Fairness
-----------------------------------------------------------------------------
Hashes     == Seq(Ids \X Docs \X (Keys \X Docs) \X Nat)
Rows       == [id : Ids, doc : Docs, sig : Keys \X Docs, seq : Nat \ {0},
               prev : Hashes, hash : Hashes]
Sealed     == [seq : Nat, hash : Hashes, sig : Keys \X Nat \X Hashes]
Checkpoints == Sealed \cup {NoCheckpoint}
Calls      == [kind : {"record", "get"}, id : Ids, valid : BOOLEAN]
OpenSteps  == {"opening", "unsealed", "sealing", "committing"}
CallSteps  == {"idle", "enter", "checkpoint", "rows", "accept", "head", "insert",
               "update", "commit", "return", "select"}

FileTypeOK    == /\ rows \in SUBSET Rows /\ checkpoint \in Checkpoints
                 /\ writer \in Procs \cup {Nobody}
                 /\ tx \in [rows : SUBSET Rows, checkpoint : Checkpoints]

ProcTypeOK    == /\ state \in [Procs -> {"down", "up"} \cup OpenSteps]
                 /\ key \in [Procs -> Keys]
                 /\ starts \in 0 .. MaxStarts /\ damage \in 0 .. MaxDamage

ThreadTypeOK  == /\ lock \in [Procs -> Threads \cup {Nobody}]
                 /\ pc \in [Threads -> CallSteps]
                 /\ call \in [Threads -> Calls \cup {NoCall}]
                 /\ seen \in [Threads -> Checkpoints]
                 /\ clean \in [Threads -> BOOLEAN]
                 /\ calls \in 0 .. MaxCalls

HistoryTypeOK == acked \subseteq Ids /\ failed \subseteq Ids /\ reads \subseteq Ids \X Docs

\* Every variable holds a value of its kind; in particular every stored row has the
\* columns of the CREATE TABLE statement and an identifier some call drew.
TypeOK == FileTypeOK /\ ProcTypeOK /\ ThreadTypeOK /\ HistoryTypeOK

\* In every committed state of a file nobody edited, the chain passes the store's own
\* verification under the key that sealed it: sequences 1 .. n without gap or fork,
\* every row linked to the one before, the checkpoint naming the last (store.py
\* _verify_chain; what record's transaction and __init__ must preserve between them).
ChainVerifies ==
  damage = 0 =>
    IF checkpoint = NoCheckpoint THEN rows = {}
    ELSE \E k \in Keys : CheckpointValid(checkpoint, k) /\ RowsMatch(rows, checkpoint, k)

\* Once record has returned an identifier its row is in the file, through crashes,
\* restarts and the calls of others (store.py record returns after commit).
AckedDurable == damage = 0 => acked \subseteq {r.id : r \in rows}

\* A record call that raised left no row behind, then or later: nothing of a failed
\* call rides in with the next one's commit (store.py record's rollback).
FailedLeavesNothing == failed \cap {r.id : r \in rows} = {}

\* The chain keeps the authority that sealed it: a process whose key is another one,
\* a restart without the configured key included, appends nothing
\* (store.py _checkpoint; control.py _configured_signing_key).
KeyNeverTakesOver ==
  [][checkpoint # NoCheckpoint => checkpoint'.sig[1] = checkpoint.sig[1]]_vars

\* A call is turned away by _verify_chain's row tests only when the file's chain
\* really does not verify ("provenance chain checkpoint does not match stored rows",
\* store.py _verify_chain).
NoFalseAlarm ==
  [][\A t \in Threads :
        At(t, "rows") /\ At(t, "idle")' /\ state'[Home[t]] = "up"
          => LET k == key[Home[t]]
             IN  ~(CheckpointValid(checkpoint, k) /\ RowsMatch(rows, checkpoint, k))]_vars

\* No call gets past _verify_chain on a file that was edited before it looked: each
\* of the edits is detected, whatever was read before or after it, as long as one
\* process appends (store.py "tamper-evident SQLite chain").
DamageStopsCalls ==
  \A t \in Threads :
    pc[t] \in {"accept", "head", "insert", "update", "commit", "return", "select"} => clean[t]

\* get answers with the document recorded under the identifier asked for, even when
\* the file is edited between its verification and its last SELECT (store.py get:
\* "fail closed if the SQLite row was altered").
ReadsFaithful == \A x \in reads : x[2] = Written(x[1])

\* Every call ends, in an answer, an exception or its process's death: the lock is
\* always released and no wait for SQLite's write lock is endless.
CallsReturn == \A t \in Threads : pc[t] # "idle" ~> pc[t] = "idle"

\* The store is the abstract log of module ProvenanceLog.
Log == INSTANCE ProvenanceLog
  WITH log <- [i \in 1 .. checkpoint.seq |-> (CHOOSE r \in rows : r.seq = i).id]
ImplementsLog == Log!Spec
=============================================================================
