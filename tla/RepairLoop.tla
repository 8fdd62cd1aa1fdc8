----------------------------- MODULE RepairLoop -----------------------------
(***************************************************************************)
(* reasoning/reflective_agent.py: AQRReflectiveAgent.run.  A grounded      *)
(* request is planned, compiled and executed; a failed execution may be    *)
(* repaired by declaring one missing allowlisted prefix, an empty one may  *)
(* be relaxed by dropping the support-package bound and by widening the    *)
(* component, all under one budget and with every attempt in a ledger.     *)
(*                                                                         *)
(* One action is one execution of a query with what the loop makes of it,  *)
(* or one of the decisions between two.  The knowledge graph may answer    *)
(* any query with rows, with none, or with any error: the loop classifies  *)
(* a backend's exceptions and relies on nothing else about it.             *)
(*                                                                         *)
(* A query is what the loop can change in it: the constraints still in it  *)
(* and the prefixes it declares.  Rows stand for themselves as the query   *)
(* that returned them.                                                     *)
(***************************************************************************)
EXTENDS Integers, Sequences

CONSTANTS Prefixes,     \* STANDARD_PREFIXES: the aliases a repair may declare
          Unlisted,     \* a diagnostic that names no such alias
          MAX_REPAIRS,
          Requested,    \* values of the argument max_repairs
          Compilers     \* the prefix sets a compiler may put into every query

ASSUME UnlistedAssumption  == Unlisted \notin Prefixes
ASSUME BudgetAssumption    == MAX_REPAIRS \in Nat /\ Requested \subseteq Nat
ASSUME CompilersAssumption == Compilers \subseteq SUBSET Prefixes

VARIABLES request,      \* condition, max_repairs, and what the plan can relax
          compiler,     \* the prefixes this compiler declares
          pc,           \* the next step of run
          query,        \* current_plan and current_sparql
          operations,   \* the ledger
          attempts,     \* attempts
          repairs,      \* repair_count
          lastError,    \* last_error_kind and the alias its diagnostic names
          outcome,      \* final_status, final_reason, answer_scope
          strict,       \* strict_bindings
          relaxed,      \* relaxed_candidates
          recovery,     \* recovered, recovery_attempt
          relaxing,     \* _run_relaxation: used, attempted_kinds
          asked         \* history: the queries the knowledge graph was sent

vars == <<request, compiler, pc, query, operations, attempts, repairs, lastError,
          outcome, strict, relaxed, recovery, relaxing, asked>>
-----------------------------------------------------------------------------
Errors   == {"SYNTAX_ERROR", "EXECUTION_ERROR"}
Statuses == Errors \cup {"SUCCESS", "UNSUPPORTED", "EMPTY_RESULT"}
Grammar  == {"UNKNOWN_TOKEN", "UNSUPPORTED_INTENT"}     \* two of the grounding failures
Compile  == {"SPARQL_SYNTAX", "UNBOUND_REQUIRED_PROJECTION"}
Relaxations == {"RELAX_SUPPORT_PACKAGE", "WIDEN_COMPONENT"}
Reasons  == Grammar \cup Compile \cup Relaxations \cup
            {"NONE", "SPARQL_EXECUTION", "EMPTY_STRICT_RESULT", "NO_OP_REPAIR",
             "REPAIR_BUDGET_EXHAUSTED"}
Kinds    == {"initial", "syntax_repair", "execution_repair", "semantic_relaxation",
             "abstention", "compile_failure"}

NoQuery == [bound |-> FALSE, component |-> "none", prefixes |-> {}]
Queries == [bound : BOOLEAN, component : {"asked", "parent"}, prefixes : SUBSET Prefixes]
Alias   == Prefixes \cup {Unlisted}

\* bound: the plan filters on a support package.  leaf: it filters on a component code
\* that has a parent.
Requests == [bounded : BOOLEAN, max : Requested, bound : BOOLEAN, leaf : BOOLEAN]

Budget == IF request.max < MAX_REPAIRS THEN request.max ELSE MAX_REPAIRS

\* The faulty variant allows one repair too many.
BudgetExceeded == ~request.bounded \/ repairs > Budget
Exhausted == ~request.bounded \/ repairs >= Budget

ErrorReason(status) ==
  IF status = "SYNTAX_ERROR" THEN "SPARQL_SYNTAX" ELSE "SPARQL_EXECUTION"

RepairKind(status) ==
  IF status = "SYNTAX_ERROR" THEN "syntax_repair" ELSE "execution_repair"

\* operation_kind at the top of the loop.
LoopKind == IF operations = <<>> THEN "initial" ELSE RepairKind(lastError.status)

\* last_status; the first entry of the ledger repeats its own status.
StatusBefore(after) ==
  IF operations = <<>> THEN after ELSE operations[Len(operations)].after

\* The faulty variant declares whatever the diagnostic names.
RepairedUnlisted(q, alias) ==
  [bound |-> q.bound, component |-> q.component, prefixes |-> q.prefixes \cup {alias}]

\* _repair_allowlisted_structure: an alias is declared only when the diagnostic names
\* it, the allowlist has it and the query does not declare it already.
Repaired(q, alias) ==
  IF alias \in Prefixes
  THEN [bound |-> q.bound, component |-> q.component, prefixes |-> q.prefixes \cup {alias}]
  ELSE q

\* compile(plan): a plan carries no prefixes, the compiler adds its own.
Compiled(bound, component) ==
  [bound |-> bound, component |-> component, prefixes |-> compiler]
-----------------------------------------------------------------------------
NoError == [status |-> "none", alias |-> Unlisted]

Init ==
  /\ request \in Requests /\ compiler \in Compilers
  /\ pc = "grounding"
  /\ query = NoQuery
  /\ operations = <<>>
  /\ attempts = 0 /\ repairs = 0
  /\ lastError = NoError
  /\ outcome = [status |-> "EXECUTION_ERROR", reason |-> "SPARQL_EXECUTION", scope |-> "none"]
  /\ strict = NoQuery /\ relaxed = NoQuery
  /\ recovery = [recovered |-> FALSE, attempt |-> 0]
  /\ relaxing = [used |-> 0, kinds |-> {}]
  /\ asked = <<>>

Goto(s) == pc' = s

\* _make_operation, appended at the end: attempt_index is the ledger's length.
Log(kind, reason, before, after, q, found) ==
  operations' = Append(operations,
    [attempt_index |-> Len(operations), kind |-> kind, reason |-> reason,
     before |-> before, after |-> after, query |-> q, rows |-> found])

Conclude(status, reason, scope) ==
  outcome' = [status |-> status, reason |-> reason, scope |-> scope]

\* The knowledge graph is sent a query.
Send(q) == attempts' = attempts + 1 /\ asked' = Append(asked, q)
-----------------------------------------------------------------------------
\* Grounding fails: nothing is planned and nothing is executed.
Abstain(reason) ==
  /\ pc = "grounding"
  /\ Log("abstention", reason, "UNSUPPORTED", "UNSUPPORTED", NoQuery, FALSE)
  /\ Conclude("UNSUPPORTED", reason, "none")
  /\ Goto("done")
  /\ UNCHANGED <<request, compiler, query, attempts, repairs, lastError, strict, relaxed,
                 recovery, relaxing, asked>>

\* Planning or compilation raises.
CompileFails(reason) ==
  /\ pc = "grounding"
  /\ Log("compile_failure", reason, "SYNTAX_ERROR", "SYNTAX_ERROR", NoQuery, FALSE)
  /\ Conclude("SYNTAX_ERROR", reason, "none")
  /\ Goto("done")
  /\ UNCHANGED <<request, compiler, query, attempts, repairs, lastError, strict, relaxed,
                 recovery, relaxing, asked>>

PlanAndCompile ==
  /\ pc = "grounding"
  /\ query' = Compiled(request.bound, "asked")
  /\ Goto("executing")
  /\ UNCHANGED <<request, compiler, operations, attempts, repairs, lastError, outcome,
                 strict, relaxed, recovery, relaxing, asked>>

\* query_sparql raises.  Out of budget, or without repairs, that is the end.
ExecutionFails(status, alias) ==
  /\ pc = "executing"
  /\ Send(query)
  /\ Log(LoopKind, ErrorReason(status), StatusBefore(status), status, query, FALSE)
  /\ lastError' = [status |-> status, alias |-> alias]
  /\ IF Exhausted
     THEN /\ Conclude(status, IF request.bounded /\ repairs > 0
                              THEN "REPAIR_BUDGET_EXHAUSTED" ELSE ErrorReason(status), "none")
          /\ Goto("done")
     ELSE /\ Conclude(status, ErrorReason(status), "none")
          /\ Goto("repairing")
  /\ UNCHANGED <<request, compiler, query, repairs, strict, relaxed, recovery, relaxing>>

\* The faulty variant spends nothing on a repair.
RepairFreely ==
  /\ pc = "repairing"
  /\ Repaired(query, lastError.alias) # query
  /\ query' = Repaired(query, lastError.alias)
  /\ Goto("executing")
  /\ UNCHANGED <<request, compiler, operations, attempts, repairs, lastError, outcome,
                 strict, relaxed, recovery, relaxing, asked>>

\* The diagnosed prefix is declared, and the loop goes round.
Repair ==
  /\ pc = "repairing"
  /\ Repaired(query, lastError.alias) # query
  /\ repairs' = repairs + 1
  /\ query' = Repaired(query, lastError.alias)
  /\ Goto("executing")
  /\ UNCHANGED <<request, compiler, operations, attempts, lastError, outcome,
                 strict, relaxed, recovery, relaxing, asked>>

\* The repair changes nothing: it is logged as such, not executed, and ends the run.
NoOpRepair ==
  /\ pc = "repairing"
  /\ Repaired(query, lastError.alias) = query
  /\ repairs' = repairs + 1
  /\ Log(RepairKind(lastError.status), "NO_OP_REPAIR", lastError.status, lastError.status,
         query, FALSE)
  /\ Conclude(lastError.status, "NO_OP_REPAIR", "none")
  /\ Goto("done")
  /\ UNCHANGED <<request, compiler, query, attempts, lastError, strict, relaxed, recovery,
                 relaxing, asked>>

\* The strict query returns rows.
RowsFound ==
  /\ pc = "executing"
  /\ Send(query)
  /\ Log(LoopKind, "NONE", StatusBefore("SUCCESS"), "SUCCESS", query, TRUE)
  /\ Conclude("SUCCESS", "NONE", "strict")
  /\ strict' = query
  /\ recovery' = IF repairs > 0 THEN [recovered |-> TRUE, attempt |-> repairs] ELSE recovery
  /\ Goto("done")
  /\ UNCHANGED <<request, compiler, query, repairs, lastError, relaxed, relaxing>>

\* It returns none: the strict answer is empty, whatever comes after.  (run turns the
\* scope to "strict" at its end.)
NoRows ==
  /\ pc = "executing"
  /\ Send(query)
  /\ Log(LoopKind, "EMPTY_STRICT_RESULT", StatusBefore("EMPTY_RESULT"), "EMPTY_RESULT",
         query, FALSE)
  /\ Conclude("EMPTY_RESULT", "EMPTY_STRICT_RESULT", "strict")
  /\ lastError' = NoError
  /\ Goto(IF Exhausted THEN "done" ELSE "relaxing")
  /\ UNCHANGED <<request, compiler, query, repairs, strict, relaxed, recovery, relaxing>>
-----------------------------------------------------------------------------
(***************************************************************************)
(* _run_relaxation: at most one relaxation of each kind, each executed.    *)
(***************************************************************************)
CanDropBound == "bound" \notin relaxing.kinds /\ query.bound
CanWiden     == "component" \notin relaxing.kinds /\ request.leaf

\* The order is part of the research contract.
NextRelaxation == IF CanDropBound THEN "bound" ELSE IF CanWiden THEN "component" ELSE "none"

\* The faulty variant widens the original plan, support-package bound included.
CandidateFromOriginal(kind) ==
  IF kind = "bound" THEN Compiled(FALSE, query.component) ELSE Compiled(request.bound, "parent")
\* The next candidate, built from the plan the last one left.
Candidate(kind) ==
  IF kind = "bound" THEN Compiled(FALSE, query.component) ELSE Compiled(query.bound, "parent")

ReasonOf(kind) == IF kind = "bound" THEN "RELAX_SUPPORT_PACKAGE" ELSE "WIDEN_COMPONENT"

InRelaxation == pc = "relaxing" /\ relaxing.used < Budget - repairs

\* One relaxed query is executed.  An error counts as no rows.
Relax(found) ==
  /\ InRelaxation /\ NextRelaxation # "none"
  /\ LET kind == NextRelaxation
         q    == Candidate(kind)
     IN  /\ asked' = Append(asked, q)
         /\ query' = q
         /\ Log("semantic_relaxation", ReasonOf(kind), "EMPTY_RESULT", "EMPTY_RESULT", q, found)
         /\ relaxing' = [used |-> relaxing.used + 1, kinds |-> relaxing.kinds \cup {kind}]
  /\ Goto(IF found THEN "relaxed" ELSE "relaxing")
  /\ UNCHANGED <<request, compiler, attempts, repairs, lastError, outcome, strict, relaxed,
                 recovery>>

\* The faulty variant goes on looking when nothing is left to relax.
BudgetSpent == pc = "relaxing" /\ ~InRelaxation
RelaxationOver == pc = "relaxing" /\ (~InRelaxation \/ NextRelaxation = "none")

\* The faulty variant promotes relaxed candidates to the strict answer.
PromoteCandidates(found, reason) ==
  /\ strict' = IF found THEN query ELSE strict
  /\ Conclude(IF found THEN "SUCCESS" ELSE "EMPTY_RESULT", reason, "strict")
  /\ UNCHANGED relaxed

\* What a relaxed execution leaves: candidates, never bindings.
DiscloseCandidates(found, reason) ==
  /\ relaxed' = IF found THEN query ELSE relaxed
  /\ Conclude("EMPTY_RESULT", reason, IF found THEN "relaxed_candidates" ELSE "strict")
  /\ UNCHANGED strict

\* The faulty variant does not count the relaxed executions.
LeaveUncounted == UNCHANGED <<repairs, attempts>>
CountRelaxations == repairs' = repairs + relaxing.used /\ attempts' = attempts + relaxing.used

\* Back in run: the relaxations are counted and the last one names the reason.
EndRelaxation ==
  /\ RelaxationOver \/ pc = "relaxed"
  /\ CountRelaxations
  /\ DiscloseCandidates(pc = "relaxed", operations[Len(operations)].reason)
  /\ Goto("done")
  /\ UNCHANGED <<request, compiler, query, operations, lastError, recovery, relaxing, asked>>
-----------------------------------------------------------------------------
Next == \/ \E reason \in Grammar : Abstain(reason)
        \/ \E reason \in Compile : CompileFails(reason)
        \/ PlanAndCompile
        \/ \E status \in Errors, alias \in Alias : ExecutionFails(status, alias)
        \/ Repair \/ NoOpRepair \/ RowsFound \/ NoRows
        \/ \E found \in BOOLEAN : Relax(found)
        \/ EndRelaxation

\* run is one sequential call, and every call to the knowledge graph returns or raises.
Spec == Init /\ [][Next]_vars /\ WF_vars(Next)
-----------------------------------------------------------------------------
Operations == [attempt_index : Nat, kind : Kinds, reason : Reasons, before : Statuses,
               after : Statuses, query : Queries \cup {NoQuery}, rows : BOOLEAN]
Steps      == {"grounding", "executing", "repairing", "relaxing", "relaxed", "done"}

RequestTypeOK == request \in Requests /\ compiler \in SUBSET Prefixes /\ pc \in Steps

QueryTypeOK == /\ {strict, relaxed} \subseteq Queries \cup {NoQuery}
               /\ query \in Queries \cup {NoQuery}
               /\ pc \in {"executing", "repairing", "relaxing", "relaxed"} => query \in Queries
               /\ asked \in Seq(Queries)

LedgerTypeOK == /\ operations \in Seq(Operations)
                /\ attempts \in Nat /\ repairs \in Nat
                /\ relaxing.used \in Nat /\ relaxing.kinds \subseteq {"bound", "component"}

OutcomeTypeOK == /\ outcome.status \in Statuses /\ outcome.reason \in Reasons
                 /\ outcome.scope \in {"strict", "relaxed_candidates", "none"}
                 /\ lastError.status \in Errors \cup {"none"} /\ lastError.alias \in Alias
                 /\ pc = "repairing" => lastError.status \in Errors
                 /\ recovery \in [recovered : BOOLEAN, attempt : Nat]

\* Every variable holds a value of its kind; a query is there whenever one is executed
\* or repaired.
TypeOK == RequestTypeOK /\ QueryTypeOK /\ LedgerTypeOK /\ OutcomeTypeOK

Done == pc = "done"
Last == operations[Len(operations)]

\* The knowledge graph is sent at most one query and then min(max_repairs, MAX_REPAIRS)
\* more, repairs and relaxations together; without repairs, one; and the ledger is no
\* longer than that (reflective_agent.py run, "at most three repair transitions").
BudgetKept ==
  LET most == 1 + IF request.bounded THEN Budget ELSE 0
  IN  Len(asked) <= most /\ Len(operations) <= most

\* The strict answer answers the request: its rows come from a query with every
\* constraint that was asked for, repaired or not, and it is what SUCCESS means; rows of
\* a relaxed query are only ever candidates of an empty answer (run, "strict bindings
\* remain immutable and auditable").
StrictAnswersRequest ==
  /\ strict # NoQuery => strict.bound = request.bound /\ strict.component = "asked"
  /\ Done => (outcome.status = "SUCCESS" <=> strict # NoQuery)
  /\ relaxed # NoQuery => /\ relaxed.bound # request.bound \/ relaxed.component = "parent"
                          /\ outcome.status = "EMPTY_RESULT"
                          /\ outcome.scope = "relaxed_candidates"

\* Constraints are only ever loosened, the support package before the component: what
\* one relaxation removed no later query of the run has again, repairs included
\* (_run_relaxation, "never accidentally restores a removed support-package bound").
RelaxationsAccumulate ==
  \A i, j \in 1 .. Len(asked) : i < j =>
    /\ asked[j].bound => asked[i].bound
    /\ asked[i].component = "parent" => asked[j].component = "parent" /\ ~asked[i].bound

\* The knowledge graph was asked for entry i: an abstention or a failed compilation has no
\* query, and a repair that changes nothing is not executed.
Executed(i) == operations[i].query # NoQuery /\ operations[i].reason # "NO_OP_REPAIR"

\* A finished run's ledger is the whole story: it begins with exactly the queries the
\* knowledge graph was sent, in order, and nothing after them was executed; each entry
\* starts from the status the one before left, and the counter of attempts agrees with it.
LedgerComplete ==
  Done =>
    /\ attempts = Len(asked) /\ repairs = Len(operations) - 1
    /\ \A i \in 1 .. Len(asked) : i <= Len(operations) /\ operations[i].query = asked[i]
    /\ \A i \in 1 .. Len(operations) : Executed(i) <=> i <= Len(asked)
    /\ \A i \in 2 .. Len(operations) : operations[i].before = operations[i - 1].after

\* The final status and reason are those of the last entry, except that a last failure
\* after the whole budget was spent says so; and a run is called recovered exactly when
\* a strict success follows failures only (run; the design document's state table).
OutcomeMatchesLedger ==
  Done =>
    /\ outcome.status = Last.after
    /\ \/ outcome.reason = Last.reason
       \/ /\ outcome.reason = "REPAIR_BUDGET_EXHAUSTED"
          /\ Last.after \in Errors /\ repairs = Budget /\ repairs > 0
    /\ recovery.recovered <=>
         /\ outcome.status = "SUCCESS" /\ Len(operations) > 1
         /\ \A i \in 1 .. Len(operations) - 1 : operations[i].after \in Errors
    /\ recovery.attempt = IF recovery.recovered THEN Last.attempt_index ELSE 0

\* Every run ends.
Terminates == <>Done
=============================================================================
