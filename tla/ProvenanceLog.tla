---------------------------- MODULE ProvenanceLog ----------------------------
(***************************************************************************)
(* What the provenance store promises, without SQLite, signatures, locks   *)
(* or processes: one append-only log of query identifiers.  A record call  *)
(* that returns names an identifier already in the log; a get call that    *)
(* returns an answer gives the document that was logged under the          *)
(* identifier it was asked for.                                            *)
(***************************************************************************)
EXTENDS Naturals, Sequences

CONSTANT Ids            \* query identifiers (uuid4 strings in the code)

VARIABLES log,          \* the identifiers recorded, in order
          acked,        \* the identifiers record() has returned
          reads         \* pairs <<asked, returned document>> of get() calls that returned

vars == <<log, acked, reads>>

\* The document composed for q: its query_id field, and its text as composed.
Document(q) == <<q, "written">>

Logged == {log[i] : i \in 1 .. Len(log)}

Init == log = <<>> /\ acked = {} /\ reads = {}

\* One new identifier becomes durable, at the end of the log.
Extend(q) == /\ q \notin Logged
             /\ log' = Append(log, q)
             /\ UNCHANGED <<acked, reads>>

\* record() returns: only for what is durable already.
Acknowledge(q) == /\ q \in Logged
                  /\ acked' = acked \cup {q}
                  /\ UNCHANGED <<log, reads>>

\* get(q) returns q's own document.
Answer(q) == /\ q \in Logged
             /\ reads' = reads \cup {<<q, Document(q)>>}
             /\ UNCHANGED <<log, acked>>

Next == \E q \in Ids : Extend(q) \/ Acknowledge(q) \/ Answer(q)

Spec == Init /\ [][Next]_vars
=============================================================================
