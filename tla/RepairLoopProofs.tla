-------------------------- MODULE RepairLoopProofs --------------------------
(***************************************************************************)
(* Proofs about module RepairLoop, for every allowlist, compiler, budget   *)
(* and sequence of answers of the knowledge graph: types, the budget, the  *)
(* meaning of a strict answer and the order of relaxations; and that a run *)
(* runs out of steps.                                                      *)
(*                                                                         *)
(* One invariant carries budget, answers and order.  In the loop the ledger*)
(* and the queries asked count the repairs and relaxations made so far     *)
(* (CountInv), the query in hand is the request with exactly the           *)
(* relaxations made so far applied (QueryInv), nothing has been answered   *)
(* yet (UnansweredInv), and no query asked was looser than the one in hand *)
(* (AskedInv).                                                             *)
(***************************************************************************)
EXTENDS RepairLoop, TLAPS

\* An error precedes every second execution; a relaxation follows a first one.
LedgerInv ==
  /\ pc = "grounding" => operations = <<>>
  /\ pc = "executing" /\ operations # <<>> => lastError.status \in Errors
  /\ pc \in {"relaxing", "relaxed"} => operations # <<>>

TypeInv == TypeOK /\ LedgerInv

Most == 1 + IF request.bounded THEN Budget ELSE 0

CountInv ==
  /\ pc \in {"grounding", "executing"} =>
       /\ Len(asked) = repairs /\ Len(operations) = repairs
       /\ relaxing.used = 0 /\ relaxing.kinds = {}
       /\ repairs < Most
  /\ pc = "repairing" =>
       /\ Len(asked) = repairs + 1 /\ Len(operations) = repairs + 1
       /\ relaxing.used = 0 /\ relaxing.kinds = {}
       /\ request.bounded /\ repairs < Budget
  /\ pc \in {"relaxing", "relaxed"} =>
       /\ Len(asked) = repairs + 1 + relaxing.used
       /\ Len(operations) = repairs + 1 + relaxing.used
       /\ request.bounded /\ repairs + relaxing.used <= Budget
  /\ pc = "done" => Len(asked) <= Most /\ Len(operations) <= Most

QueryInv ==
  /\ pc \in {"executing", "repairing", "relaxing", "relaxed"} =>
       /\ "bound" \notin relaxing.kinds => query.bound = request.bound
       /\ "bound" \in relaxing.kinds => request.bound /\ ~query.bound
       /\ "component" \notin relaxing.kinds => query.component = "asked"
       /\ "component" \in relaxing.kinds => query.component = "parent" /\ ~query.bound
  /\ pc = "relaxed" => relaxing.kinds # {}

UnansweredInv ==
  /\ pc # "done" => strict = NoQuery /\ relaxed = NoQuery
  /\ pc = "repairing" => outcome.status \in Errors
  /\ pc \in {"relaxing", "relaxed"} => outcome.status = "EMPTY_RESULT"

\* Nothing asked so far is looser than q.
Tighter(q) ==
  \A i \in 1 .. Len(asked) :
    /\ q.bound => asked[i].bound
    /\ asked[i].component = "parent" => q.component = "parent" /\ ~asked[i].bound

AskedInv ==
  /\ RelaxationsAccumulate
  /\ pc \in {"executing", "repairing", "relaxing", "relaxed"} => Tighter(query)

AnswerInv == UnansweredInv /\ StrictAnswersRequest

LoopInv == CountInv /\ QueryInv /\ AnswerInv /\ AskedInv
-----------------------------------------------------------------------------
LEMMA BudgetType ==
  ASSUME TypeOK
  PROVE  Budget \in Nat /\ request \in Requests
BY BudgetAssumption DEF TypeOK, RequestTypeOK, Requests, Budget

LEMMA RepairedType ==
  ASSUME NEW q \in Queries, NEW alias
  PROVE  /\ Repaired(q, alias) \in Queries
         /\ Repaired(q, alias).bound = q.bound
         /\ Repaired(q, alias).component = q.component
BY DEF Repaired, Queries

LEMMA CompiledType ==
  ASSUME TypeOK, NEW bound \in BOOLEAN, NEW component \in {"asked", "parent"}
  PROVE  Compiled(bound, component) \in Queries
BY DEF Compiled, Queries, TypeOK, RequestTypeOK

LEMMA CandidateType ==
  ASSUME TypeOK, query \in Queries, NEW kind
  PROVE  Candidate(kind) \in Queries
BY CompiledType DEF Candidate, Queries

LEMMA LogType ==
  ASSUME operations \in Seq(Operations),
         NEW kind \in Kinds, NEW reason \in Reasons, NEW before \in Statuses,
         NEW after \in Statuses, NEW q \in Queries \cup {NoQuery}, NEW found \in BOOLEAN,
         Log(kind, reason, before, after, q, found)
  PROVE  /\ operations' \in Seq(Operations)
         /\ Len(operations') = Len(operations) + 1
<1> DEFINE o == [attempt_index |-> Len(operations), kind |-> kind, reason |-> reason,
                 before |-> before, after |-> after, query |-> q, rows |-> found]
<1>1. Len(operations) \in Nat
  OBVIOUS
<1>2. o \in Operations
  BY <1>1 DEF Operations
<1>3. operations' = Append(operations, o)
  BY DEF Log
<1> HIDE DEF o
<1> QED
  BY <1>2, <1>3

LEMMA LoopTypes ==
  ASSUME TypeOK, NEW status \in Statuses
  PROVE  /\ StatusBefore(status) \in Statuses
         /\ pc = "executing" /\ (operations = <<>> \/ lastError.status \in Errors) => LoopKind \in Kinds
         /\ \A s : RepairKind(s) \in Kinds
         /\ \A s : ErrorReason(s) \in Reasons
         /\ \A s : ReasonOf(s) \in Reasons
<1>1. operations \in Seq(Operations)
  BY DEF TypeOK, LedgerTypeOK
<1>2. operations # <<>> => operations[Len(operations)] \in Operations
  BY <1>1
<1>3. StatusBefore(status) \in Statuses
  BY <1>2 DEF StatusBefore, Operations
<1> QED
  BY <1>3 DEF LoopKind, RepairKind, ErrorReason, ReasonOf, Kinds, Reasons, Compile, Relaxations
-----------------------------------------------------------------------------
(***************************************************************************)
(* Types.                                                                  *)
(***************************************************************************)
LEMMA SendType ==
  ASSUME TypeOK, NEW q \in Queries, asked' = Append(asked, q)
  PROVE  asked' \in Seq(Queries) /\ Len(asked') = Len(asked) + 1
BY DEF TypeOK, QueryTypeOK

LEMMA InitTypes == Init => TypeInv
<1> SUFFICES ASSUME Init PROVE TypeInv
  OBVIOUS
<1> USE DEF Init
<1>1. RequestTypeOK
  BY CompilersAssumption DEF RequestTypeOK, Steps
<1>2. QueryTypeOK
  BY DEF QueryTypeOK
<1>3. LedgerTypeOK
  BY DEF LedgerTypeOK
<1>4. OutcomeTypeOK
  BY DEF OutcomeTypeOK, NoError, Errors, Statuses, Reasons, Alias
<1>5. LedgerInv
  BY DEF LedgerInv
<1> QED
  BY <1>1, <1>2, <1>3, <1>4, <1>5 DEF TypeInv, TypeOK

\* What the actions that execute a strict query have in common.
LEMMA ExecutionTypes ==
  ASSUME TypeInv, pc = "executing", NEW reason \in Reasons, NEW status \in Statuses,
         NEW found \in BOOLEAN, Send(query),
         Log(LoopKind, reason, StatusBefore(status), status, query, found)
  PROVE  /\ query \in Queries
         /\ asked' \in Seq(Queries) /\ attempts' \in Nat
         /\ operations' \in Seq(Operations) /\ operations' # <<>>
<1> USE DEF TypeInv, TypeOK, QueryTypeOK, LedgerTypeOK
<1>1. query \in Queries
  OBVIOUS
<1>2. LoopKind \in Kinds /\ StatusBefore(status) \in Statuses
  BY LoopTypes DEF LedgerInv
<1>3. asked' \in Seq(Queries) /\ attempts' \in Nat
  BY <1>1, SendType DEF Send
<1>4. operations' \in Seq(Operations) /\ Len(operations') = Len(operations) + 1
  BY <1>1, <1>2, LogType
<1>5. operations' # <<>>
  BY <1>4, Len(operations) \in Nat
<1> QED
  BY <1>1, <1>3, <1>4, <1>5

LEMMA NextTypes == TypeInv /\ [Next]_vars => TypeInv'
<1> SUFFICES ASSUME TypeInv, [Next]_vars PROVE TypeInv'
  OBVIOUS
<1> USE DEF TypeInv, TypeOK, RequestTypeOK, QueryTypeOK, LedgerTypeOK, OutcomeTypeOK,
            LedgerInv, Goto, Conclude, Steps
<1>1. ASSUME NEW reason \in Grammar, Abstain(reason) PROVE TypeInv'
  <2>1. operations' \in Seq(Operations)
    BY <1>1, LogType DEF Abstain, Kinds, Reasons, Statuses
  <2> QED
    BY <1>1, <2>1 DEF Abstain, Reasons, Statuses
<1>2. ASSUME NEW reason \in Compile, CompileFails(reason) PROVE TypeInv'
  <2>1. operations' \in Seq(Operations)
    BY <1>2, LogType DEF CompileFails, Kinds, Reasons, Statuses, Errors
  <2> QED
    BY <1>2, <2>1 DEF CompileFails, Reasons, Statuses, Errors
<1>3. ASSUME PlanAndCompile PROVE TypeInv'
  <2>1. Compiled(request.bound, "asked") \in Queries
    BY CompiledType DEF Requests
  <2> QED
    BY <1>3, <2>1 DEF PlanAndCompile
<1>4. ASSUME NEW status \in Errors, NEW alias \in Alias, ExecutionFails(status, alias)
      PROVE  TypeInv'
  <2>1. status \in Statuses /\ ErrorReason(status) \in Reasons /\ "none" \notin Errors
    BY DEF Statuses, Errors, ErrorReason, Reasons, Compile
  <2>2. /\ query \in Queries /\ asked' \in Seq(Queries) /\ attempts' \in Nat
        /\ operations' \in Seq(Operations) /\ operations' # <<>>
    BY <1>4, <2>1, ExecutionTypes DEF ExecutionFails
  <2>3. /\ pc' \in {"repairing", "done"} /\ lastError' = [status |-> status, alias |-> alias]
        /\ outcome'.status = status /\ outcome'.scope = "none"
        /\ outcome'.reason \in {"REPAIR_BUDGET_EXHAUSTED", ErrorReason(status)}
    BY <1>4 DEF ExecutionFails
  <2>4. "REPAIR_BUDGET_EXHAUSTED" \in Reasons
    BY DEF Reasons
  <2>5. OutcomeTypeOK'
    BY <1>4, <2>1, <2>3, <2>4 DEF ExecutionFails
  <2> QED
    BY <1>4, <2>2, <2>3, <2>5 DEF ExecutionFails
<1>5. ASSUME Repair PROVE TypeInv'
  <2>1. Repaired(query, lastError.alias) \in Queries
    BY <1>5, RepairedType DEF Repair
  <2> QED
    BY <1>5, <2>1 DEF Repair
<1>6. ASSUME NoOpRepair PROVE TypeInv'
  <2>1. lastError.status \in Errors
    BY <1>6 DEF NoOpRepair
  <2>2. operations' \in Seq(Operations)
    BY <1>6, <2>1, LogType, LoopTypes DEF NoOpRepair, Statuses, Reasons
  <2> QED
    BY <1>6, <2>1, <2>2 DEF NoOpRepair, Statuses, Reasons
<1>7. ASSUME RowsFound PROVE TypeInv'
  <2>1. "NONE" \in Reasons /\ "SUCCESS" \in Statuses
    BY DEF Statuses, Reasons
  <2>2. /\ query \in Queries /\ asked' \in Seq(Queries) /\ attempts' \in Nat
        /\ operations' \in Seq(Operations) /\ operations' # <<>>
    BY <1>7, <2>1, ExecutionTypes DEF RowsFound
  <2>3. OutcomeTypeOK'
    BY <1>7, <2>1 DEF RowsFound
  <2> QED
    BY <1>7, <2>2, <2>3 DEF RowsFound
<1>8. ASSUME NoRows PROVE TypeInv'
  <2>1. "EMPTY_STRICT_RESULT" \in Reasons /\ "EMPTY_RESULT" \in Statuses
    BY DEF Statuses, Reasons
  <2>2. /\ query \in Queries /\ asked' \in Seq(Queries) /\ attempts' \in Nat
        /\ operations' \in Seq(Operations) /\ operations' # <<>>
    BY <1>8, <2>1, ExecutionTypes DEF NoRows
  <2>3. OutcomeTypeOK'
    BY <1>8, <2>1 DEF NoRows, NoError, Alias
  <2> QED
    BY <1>8, <2>2, <2>3 DEF NoRows
<1>9. ASSUME NEW found \in BOOLEAN, Relax(found) PROVE TypeInv'
  <2> DEFINE q == Candidate(NextRelaxation)
  <2>1. q \in Queries
    BY <1>9, CandidateType DEF Relax, InRelaxation
  <2>2. NextRelaxation \in {"bound", "component"}
    BY <1>9 DEF Relax, NextRelaxation
  <2>3. /\ asked' = Append(asked, q) /\ query' = q
        /\ Log("semantic_relaxation", ReasonOf(NextRelaxation), "EMPTY_RESULT",
               "EMPTY_RESULT", q, found)
        /\ relaxing' = [used |-> relaxing.used + 1,
                        kinds |-> relaxing.kinds \cup {NextRelaxation}]
    BY <1>9 DEF Relax
  <2> HIDE DEF q
  <2>4. asked' \in Seq(Queries)
    BY <2>1, <2>3, SendType
  <2>5. /\ operations' \in Seq(Operations)
        /\ Len(operations') = Len(operations) + 1
    <3>1. /\ "semantic_relaxation" \in Kinds /\ "EMPTY_RESULT" \in Statuses
          /\ ReasonOf(NextRelaxation) \in Reasons
      BY DEF Kinds, Statuses, ReasonOf, Reasons, Relaxations
    <3> QED
      BY <2>1, <2>3, <3>1, LogType
  <2>6. operations' # <<>>
    BY <2>5, Len(operations) \in Nat
  <2>7. relaxing'.used \in Nat /\ relaxing'.kinds \subseteq {"bound", "component"}
    BY <2>2, <2>3
  <2> QED
    BY <1>9, <2>1, <2>3, <2>4, <2>5, <2>6, <2>7 DEF Relax, InRelaxation
<1>10. ASSUME EndRelaxation PROVE TypeInv'
  <2>1. operations[Len(operations)] \in Operations
    BY <1>10 DEF EndRelaxation, RelaxationOver
  <2>2. query \in Queries
    BY <1>10 DEF EndRelaxation, RelaxationOver
  <2> QED
    BY <1>10, <2>1, <2>2
    DEF EndRelaxation, CountRelaxations, DiscloseCandidates, Operations, Statuses
<1>11. ASSUME UNCHANGED vars PROVE TypeInv'
  BY <1>11 DEF vars
<1> QED
  BY <1>1, <1>2, <1>3, <1>4, <1>5, <1>6, <1>7, <1>8, <1>9, <1>10, <1>11 DEF Next

LEMMA TypesHold == Spec => []TypeInv
<1> QED
  BY InitTypes, NextTypes, PTL DEF Spec

\* Whatever the knowledge graph answers, every variable of a run holds a value of its
\* kind (AQRReflectiveAgent.run).
THEOREM TypeCorrect == Spec => []TypeOK
<1>1. TypeInv => TypeOK
  BY DEF TypeInv
<1> QED
  BY <1>1, TypesHold, PTL
-----------------------------------------------------------------------------
(***************************************************************************)
(* The loop invariant.                                                     *)
(***************************************************************************)
LEMMA LogLength ==
  ASSUME TypeOK, NEW kind, NEW reason, NEW before, NEW after, NEW q, NEW found,
         Log(kind, reason, before, after, q, found)
  PROVE  Len(operations') = Len(operations) + 1
BY DEF Log, TypeOK, LedgerTypeOK

\* Asking a query no looser query was asked before keeps the order.
LEMMA AskInOrder ==
  ASSUME TypeOK, NEW q \in Queries, asked' = Append(asked, q),
         RelaxationsAccumulate, Tighter(q), q.component = "parent" => ~q.bound
  PROVE  /\ RelaxationsAccumulate'
         /\ \A i \in 1 .. Len(asked') :
              /\ q.bound => asked'[i].bound
              /\ asked'[i].component = "parent" => q.component = "parent" /\ ~asked'[i].bound
<1> USE DEF TypeOK, QueryTypeOK
<1>1. /\ asked \in Seq(Queries) /\ Len(asked) \in Nat /\ Len(asked') = Len(asked) + 1
      /\ \A i \in 1 .. Len(asked) : asked'[i] = asked[i]
      /\ asked'[Len(asked) + 1] = q
  OBVIOUS
<1>2. \A i \in 1 .. Len(asked') :
         /\ q.bound => asked'[i].bound
         /\ asked'[i].component = "parent" => q.component = "parent" /\ ~asked'[i].bound
  BY <1>1 DEF Tighter
<1>3. ASSUME NEW i \in 1 .. Len(asked'), NEW j \in 1 .. Len(asked'), i < j
      PROVE  /\ asked'[j].bound => asked'[i].bound
             /\ asked'[i].component = "parent" =>
                  asked'[j].component = "parent" /\ ~asked'[i].bound
  <2>1. i \in 1 .. Len(asked) /\ asked'[i] = asked[i]
    BY <1>1, <1>3
  <2>2. CASE j = Len(asked) + 1
    BY <1>1, <2>1, <2>2 DEF Tighter
  <2>3. CASE j # Len(asked) + 1
    <3>1. j \in 1 .. Len(asked) /\ asked'[j] = asked[j]
      BY <1>1, <2>3
    <3> QED
      BY <1>3, <2>1, <3>1 DEF RelaxationsAccumulate
  <2> QED
    BY <2>2, <2>3
<1> QED
  BY <1>2, <1>3 DEF RelaxationsAccumulate

LEMMA InitLoop == Init => LoopInv
<1> SUFFICES ASSUME Init PROVE LoopInv
  OBVIOUS
<1>1. request \in Requests /\ Budget \in Nat
  BY BudgetAssumption DEF Init, Requests, Budget
<1> USE DEF Init
<1>2. CountInv
  BY <1>1 DEF CountInv, Most
<1>3. QueryInv /\ UnansweredInv /\ StrictAnswersRequest
  BY DEF QueryInv, UnansweredInv, StrictAnswersRequest, Done
<1>4. AskedInv
  BY DEF AskedInv, RelaxationsAccumulate
<1> QED
  BY <1>2, <1>3, <1>4 DEF LoopInv, AnswerInv

LEMMA NextCount == TypeInv /\ CountInv /\ [Next]_vars => CountInv'
<1> SUFFICES ASSUME TypeInv, CountInv, [Next]_vars PROVE CountInv'
  OBVIOUS
<1>1. Budget \in Nat /\ request.bounded \in BOOLEAN
  BY BudgetType DEF TypeInv, Requests
<1>2. /\ repairs \in Nat /\ relaxing.used \in Nat
      /\ Len(asked) \in Nat /\ Len(operations) \in Nat
  BY DEF TypeInv, TypeOK, QueryTypeOK, LedgerTypeOK
<1>3. request' = request => Budget' = Budget /\ Most' = Most
  BY DEF Budget, Most
<1>4. ASSUME NEW q \in Queries, asked' = Append(asked, q) PROVE Len(asked') = Len(asked) + 1
  BY <1>4, SendType DEF TypeInv
<1>5. query \in Queries \/ pc \in {"grounding", "done"}
  BY DEF TypeInv, TypeOK, QueryTypeOK, RequestTypeOK, Steps
<1>6. TypeOK
  BY DEF TypeInv
<1> USE <1>1, <1>2, <1>3, <1>6 DEF CountInv, Most, Goto
<1>7. ASSUME NEW reason \in Grammar, Abstain(reason) PROVE CountInv'
  <2>1. Len(operations') = Len(operations) + 1
    BY <1>7, LogLength DEF Abstain
  <2> QED
    BY <1>7, <2>1 DEF Abstain
<1>8. ASSUME NEW reason \in Compile, CompileFails(reason) PROVE CountInv'
  <2>1. Len(operations') = Len(operations) + 1
    BY <1>8, LogLength DEF CompileFails
  <2> QED
    BY <1>8, <2>1 DEF CompileFails
<1>9. ASSUME PlanAndCompile PROVE CountInv'
  BY <1>9 DEF PlanAndCompile
<1>10. ASSUME NEW status \in Errors, NEW alias \in Alias, ExecutionFails(status, alias)
       PROVE  CountInv'
  <2>1. Len(asked') = Len(asked) + 1 /\ Len(operations') = Len(operations) + 1
    BY <1>10, <1>4, <1>5, LogLength DEF ExecutionFails, Send
  <2>2. pc' = IF Exhausted THEN "done" ELSE "repairing"
    BY <1>10 DEF ExecutionFails
  <2> QED
    BY <1>10, <2>1, <2>2 DEF ExecutionFails, Exhausted
<1>11. ASSUME Repair PROVE CountInv'
  BY <1>11 DEF Repair
<1>12. ASSUME NoOpRepair PROVE CountInv'
  <2>1. Len(operations') = Len(operations) + 1
    BY <1>12, LogLength DEF NoOpRepair
  <2> QED
    BY <1>12, <2>1 DEF NoOpRepair
<1>13. ASSUME RowsFound PROVE CountInv'
  <2>1. Len(asked') = Len(asked) + 1 /\ Len(operations') = Len(operations) + 1
    BY <1>13, <1>4, <1>5, LogLength DEF RowsFound, Send
  <2> QED
    BY <1>13, <2>1 DEF RowsFound
<1>14. ASSUME NoRows PROVE CountInv'
  <2>1. Len(asked') = Len(asked) + 1 /\ Len(operations') = Len(operations) + 1
    BY <1>14, <1>4, <1>5, LogLength DEF NoRows, Send
  <2> QED
    <3>1. /\ pc = "executing" /\ repairs' = repairs /\ request' = request
          /\ relaxing' = relaxing
          /\ pc' = IF Exhausted THEN "done" ELSE "relaxing"
      BY <1>14 DEF NoRows
    <3>2. CASE Exhausted
      BY <2>1, <3>1, <3>2
    <3>3. CASE ~Exhausted
      BY <2>1, <3>1, <3>3 DEF Exhausted
    <3> QED
      BY <3>2, <3>3
<1>15. ASSUME NEW found \in BOOLEAN, Relax(found) PROVE CountInv'
  <2>1. query \in Queries
    BY <1>15, <1>5 DEF Relax, InRelaxation
  <2>2. Candidate(NextRelaxation) \in Queries
    BY <2>1, CandidateType
  <2>3. Len(asked') = Len(asked) + 1 /\ Len(operations') = Len(operations) + 1
    BY <1>15, <1>4, <2>2, LogLength DEF Relax
  <2>4. relaxing'.used = relaxing.used + 1
    BY <1>15 DEF Relax
  <2> QED
    <3>1. /\ pc = "relaxing" /\ relaxing.used < Budget - repairs
          /\ repairs' = repairs /\ request' = request /\ pc' \in {"relaxing", "relaxed"}
      BY <1>15 DEF Relax, InRelaxation
    <3>2. /\ Len(asked') = repairs' + 1 + relaxing'.used
          /\ Len(operations') = repairs' + 1 + relaxing'.used
      <4>1. /\ Len(asked) = repairs + 1 + relaxing.used
            /\ Len(operations) = repairs + 1 + relaxing.used
        BY <3>1
      <4> HIDE <1>3, <1>6 DEF CountInv, Most, Goto
      <4> QED
        BY <2>3, <2>4, <3>1, <4>1
    <3>3. request'.bounded /\ repairs' + relaxing'.used <= Budget'
      BY <2>4, <3>1
    <3> HIDE <1>3
    <3> QED
      BY <3>1, <3>2, <3>3
<1>16. ASSUME EndRelaxation PROVE CountInv'
  BY <1>16 DEF EndRelaxation, RelaxationOver
<1>17. ASSUME UNCHANGED vars PROVE CountInv'
  BY <1>17 DEF vars
<1> QED
  BY <1>7, <1>8, <1>9, <1>10, <1>11, <1>12, <1>13, <1>14, <1>15, <1>16, <1>17 DEF Next

\* What the next relaxation is, and the candidate it executes.
LEMMA NextCandidate ==
  ASSUME TypeOK, QueryInv, pc = "relaxing", NextRelaxation # "none",
         NEW q, q = Candidate(NextRelaxation)
  PROVE  /\ q \in Queries
         /\ \/ /\ NextRelaxation = "bound" /\ query.bound /\ ~q.bound
               /\ q.component = query.component
            \/ /\ NextRelaxation = "component" /\ ~query.bound /\ ~q.bound
               /\ q.component = "parent"
<1>1. query \in Queries
  BY DEF TypeOK, QueryTypeOK
<1>2. q \in Queries
  BY <1>1, CandidateType
<1>3. CASE CanDropBound
  BY <1>2, <1>3 DEF NextRelaxation, Candidate, Compiled, CanDropBound
<1>4. CASE ~CanDropBound /\ CanWiden
  <2>1. query.bound \in BOOLEAN /\ (query.bound = FALSE \/ query.bound = TRUE)
    BY <1>1 DEF Queries
  <2>2. ~query.bound
    BY <1>4, <2>1 DEF CanDropBound, QueryInv
  <2> QED
    BY <1>2, <1>4, <2>2 DEF NextRelaxation, Candidate, Compiled
<1> QED
  BY <1>3, <1>4 DEF NextRelaxation

LEMMA NextQuery == TypeInv /\ CountInv /\ QueryInv /\ [Next]_vars => QueryInv'
<1> SUFFICES ASSUME TypeInv, CountInv, QueryInv, [Next]_vars PROVE QueryInv'
  OBVIOUS
<1>1. TypeOK
  BY DEF TypeInv
<1> USE DEF QueryInv, Goto
<1>2. ASSUME NEW reason \in Grammar, Abstain(reason) PROVE QueryInv'
  BY <1>2 DEF Abstain
<1>3. ASSUME NEW reason \in Compile, CompileFails(reason) PROVE QueryInv'
  BY <1>3 DEF CompileFails
<1>4. ASSUME PlanAndCompile PROVE QueryInv'
  BY <1>4 DEF PlanAndCompile, Compiled, CountInv
<1>5. ASSUME NEW status \in Errors, NEW alias \in Alias, ExecutionFails(status, alias)
      PROVE  QueryInv'
  BY <1>5 DEF ExecutionFails
<1>6. ASSUME Repair PROVE QueryInv'
  <2>1. query \in Queries
    BY <1>1, <1>6 DEF Repair, TypeOK, QueryTypeOK
  <2>2. query'.bound = query.bound /\ query'.component = query.component
    BY <1>6, <2>1, RepairedType DEF Repair
  <2> QED
    BY <1>6, <2>2 DEF Repair
<1>7. ASSUME NoOpRepair PROVE QueryInv'
  BY <1>7 DEF NoOpRepair
<1>8. ASSUME RowsFound PROVE QueryInv'
  BY <1>8 DEF RowsFound
<1>9. ASSUME NoRows PROVE QueryInv'
  BY <1>9 DEF NoRows
<1>10. ASSUME NEW found \in BOOLEAN, Relax(found) PROVE QueryInv'
  <2>1. /\ pc = "relaxing" /\ NextRelaxation # "none"
        /\ query' = Candidate(NextRelaxation)
        /\ relaxing'.kinds = relaxing.kinds \cup {NextRelaxation}
        /\ request' = request
    BY <1>10 DEF Relax, InRelaxation
  <2>2. \/ /\ NextRelaxation = "bound" /\ query.bound /\ ~query'.bound
           /\ query'.component = query.component
        \/ /\ NextRelaxation = "component" /\ ~query.bound /\ ~query'.bound
           /\ query'.component = "parent"
    BY <1>1, <2>1, NextCandidate
  <2>3. CASE NextRelaxation = "bound"
    <3>1. query.bound /\ ~query'.bound /\ query'.component = query.component
      BY <2>2, <2>3
    <3>2. request.bound
      BY <2>1, <3>1
    <3>3. "component" \notin relaxing.kinds /\ query.component = "asked"
      BY <2>1, <3>1
    <3>4. "bound" \in relaxing'.kinds /\ "component" \notin relaxing'.kinds
      BY <2>1, <2>3, <3>3
    <3> QED
      BY <2>1, <3>1, <3>2, <3>3, <3>4
  <2>4. CASE NextRelaxation = "component"
    <3>1. ~query.bound /\ ~query'.bound /\ query'.component = "parent"
      BY <2>2, <2>4
    <3>2. "component" \in relaxing'.kinds
          /\ ("bound" \in relaxing'.kinds <=> "bound" \in relaxing.kinds)
      BY <2>1, <2>4
    <3>3. IF "bound" \in relaxing.kinds THEN request.bound ELSE query.bound = request.bound
      BY <2>1
    <3>4. request.bound \in BOOLEAN /\ query'.bound \in BOOLEAN
      BY <1>1, <2>1, NextCandidate DEF TypeOK, RequestTypeOK, Requests, Queries
    <3>5. "bound" \notin relaxing'.kinds => query'.bound = request'.bound
      BY <2>1, <3>1, <3>2, <3>3, <3>4
    <3>6. "bound" \in relaxing'.kinds => request'.bound /\ ~query'.bound
      BY <2>1, <3>1, <3>2, <3>3
    <3> QED
      BY <3>1, <3>2, <3>5, <3>6
  <2> QED
    BY <2>2, <2>3, <2>4
<1>11. ASSUME EndRelaxation PROVE QueryInv'
  BY <1>11 DEF EndRelaxation
<1>12. ASSUME UNCHANGED vars PROVE QueryInv'
  BY <1>12 DEF vars
<1> QED
  BY <1>2, <1>3, <1>4, <1>5, <1>6, <1>7, <1>8, <1>9, <1>10, <1>11, <1>12 DEF Next

LEMMA NextAnswer == TypeInv /\ CountInv /\ QueryInv /\ AnswerInv /\ [Next]_vars => AnswerInv'
<1> SUFFICES ASSUME TypeInv, CountInv, QueryInv, AnswerInv, [Next]_vars PROVE AnswerInv'
  OBVIOUS
<1>1. "EMPTY_RESULT" \notin Errors /\ "SUCCESS" \notin Errors
  BY DEF Errors
<1>2. NoQuery.bound = FALSE /\ NoQuery.component = "none"
  BY DEF NoQuery
<1> USE DEF AnswerInv, UnansweredInv, StrictAnswersRequest, Done, Goto, Conclude
<1>3. ASSUME NEW reason \in Grammar, Abstain(reason) PROVE AnswerInv'
  BY <1>3 DEF Abstain
<1>4. ASSUME NEW reason \in Compile, CompileFails(reason) PROVE AnswerInv'
  BY <1>4 DEF CompileFails
<1>5. ASSUME PlanAndCompile PROVE AnswerInv'
  BY <1>5 DEF PlanAndCompile
<1>6. ASSUME NEW status \in Errors, NEW alias \in Alias, ExecutionFails(status, alias)
      PROVE  AnswerInv'
  <2>1. /\ pc = "executing" /\ pc' \in {"repairing", "done"}
        /\ outcome'.status = status /\ strict' = strict /\ relaxed' = relaxed
    BY <1>6 DEF ExecutionFails
  <2> QED
    BY <1>1, <2>1
<1>7. ASSUME Repair PROVE AnswerInv'
  BY <1>7 DEF Repair
<1>8. ASSUME NoOpRepair PROVE AnswerInv'
  <2>1. lastError.status \in Errors
    BY <1>8 DEF NoOpRepair, TypeInv, TypeOK, OutcomeTypeOK
  <2> QED
    BY <1>1, <1>8, <2>1 DEF NoOpRepair
<1>9. ASSUME RowsFound PROVE AnswerInv'
  <2>1. query \in Queries /\ query.bound = request.bound /\ query.component = "asked"
    BY <1>9 DEF RowsFound, TypeInv, TypeOK, QueryTypeOK, CountInv, QueryInv
  <2>2. query # NoQuery
    BY <1>2, <2>1
  <2> QED
    BY <1>9, <2>1, <2>2 DEF RowsFound
<1>10. ASSUME NoRows PROVE AnswerInv'
  <2>1. /\ pc = "executing" /\ pc' \in {"done", "relaxing"}
        /\ outcome'.status = "EMPTY_RESULT" /\ strict' = strict /\ relaxed' = relaxed
    BY <1>10 DEF NoRows
  <2> QED
    BY <2>1
<1>11. ASSUME NEW found \in BOOLEAN, Relax(found) PROVE AnswerInv'
  <2>1. /\ pc = "relaxing" /\ pc' \in {"relaxing", "relaxed"}
        /\ outcome' = outcome /\ strict' = strict /\ relaxed' = relaxed
    BY <1>11 DEF Relax, InRelaxation
  <2> QED
    BY <2>1
<1>12. ASSUME EndRelaxation PROVE AnswerInv'
  <2>1. /\ pc \in {"relaxing", "relaxed"} /\ pc' = "done"
        /\ request' = request /\ strict' = NoQuery /\ outcome'.status = "EMPTY_RESULT"
    BY <1>12 DEF EndRelaxation, RelaxationOver, InRelaxation, DiscloseCandidates
  <2>2. CASE pc = "relaxed"
    <3>1. relaxing.kinds \subseteq {"bound", "component"} /\ relaxing.kinds # {}
      BY <2>2 DEF TypeInv, TypeOK, LedgerTypeOK, QueryInv
    <3>2. query.bound # request.bound \/ query.component = "parent"
      BY <2>2, <3>1 DEF QueryInv
    <3>3. relaxed' = query /\ outcome'.scope = "relaxed_candidates"
      BY <1>12, <2>2 DEF EndRelaxation, DiscloseCandidates
    <3> QED
      BY <2>1, <3>2, <3>3
  <2>3. CASE pc = "relaxing"
    <3>1. relaxed' = NoQuery
      BY <1>12, <2>3 DEF EndRelaxation, DiscloseCandidates
    <3> QED
      BY <2>1, <3>1
  <2> QED
    BY <2>1, <2>2, <2>3
<1>13. ASSUME UNCHANGED vars PROVE AnswerInv'
  BY <1>13 DEF vars
<1> QED
  BY <1>3, <1>4, <1>5, <1>6, <1>7, <1>8, <1>9, <1>10, <1>11, <1>12, <1>13 DEF Next

\* An action that asks nothing keeps the order, if its query is not tighter.
LEMMA SilentOrder ==
  ASSUME AskedInv, asked' = asked,
         pc' \in {"grounding", "done"}
           \/ (pc \in {"executing", "repairing", "relaxing", "relaxed"}
               /\ query'.bound = query.bound /\ query'.component = query.component)
  PROVE  AskedInv'
BY DEF AskedInv, RelaxationsAccumulate, Tighter

\* Executing a query puts it last and leaves it in hand.
LEMMA ExecutedOrder ==
  ASSUME TypeOK, AskedInv, NEW q \in Queries, Tighter(q),
         q.component = "parent" => ~q.bound,
         asked' = Append(asked, q), query' = q
  PROVE  AskedInv'
BY AskInOrder DEF AskedInv, Tighter

LEMMA NextAsked == TypeInv /\ CountInv /\ QueryInv /\ AskedInv /\ [Next]_vars => AskedInv'
<1> SUFFICES ASSUME TypeInv, CountInv, QueryInv, AskedInv, [Next]_vars PROVE AskedInv'
  OBVIOUS
<1>1. TypeOK /\ (pc = "executing" => query \in Queries)
  BY DEF TypeInv, TypeOK, QueryTypeOK
<1>2. pc = "executing" => Tighter(query) /\ query.component = "asked"
  BY DEF AskedInv, CountInv, QueryInv
<1> USE DEF Goto
<1>3. ASSUME NEW reason \in Grammar, Abstain(reason) PROVE AskedInv'
  BY <1>3, SilentOrder DEF Abstain
<1>4. ASSUME NEW reason \in Compile, CompileFails(reason) PROVE AskedInv'
  BY <1>4, SilentOrder DEF CompileFails
<1>5. ASSUME PlanAndCompile PROVE AskedInv'
  <2>1. asked' = asked /\ Len(asked) = 0
    BY <1>5, <1>1 DEF PlanAndCompile, CountInv, LedgerInv, TypeInv
  <2> QED
    BY <2>1 DEF AskedInv, RelaxationsAccumulate, Tighter
<1>6. ASSUME NEW status \in Errors, NEW alias \in Alias, ExecutionFails(status, alias)
      PROVE  AskedInv'
  <2>1. asked' = Append(asked, query) /\ query' = query /\ pc = "executing"
    BY <1>6 DEF ExecutionFails, Send
  <2> QED
    BY <1>1, <1>2, <2>1, ExecutedOrder
<1>7. ASSUME Repair PROVE AskedInv'
  <2>1. query \in Queries
    BY <1>7 DEF Repair, TypeInv, TypeOK, QueryTypeOK
  <2>2. query'.bound = query.bound /\ query'.component = query.component
    BY <1>7, <2>1, RepairedType DEF Repair
  <2> QED
    BY <1>7, <2>2, SilentOrder DEF Repair
<1>8. ASSUME NoOpRepair PROVE AskedInv'
  BY <1>8, SilentOrder DEF NoOpRepair
<1>9. ASSUME RowsFound PROVE AskedInv'
  <2>1. asked' = Append(asked, query) /\ query' = query /\ pc = "executing"
    BY <1>9 DEF RowsFound, Send
  <2> QED
    BY <1>1, <1>2, <2>1, ExecutedOrder
<1>10. ASSUME NoRows PROVE AskedInv'
  <2>1. asked' = Append(asked, query) /\ query' = query /\ pc = "executing"
    BY <1>10 DEF NoRows, Send
  <2> QED
    BY <1>1, <1>2, <2>1, ExecutedOrder
<1>11. ASSUME NEW found \in BOOLEAN, Relax(found) PROVE AskedInv'
  <2> DEFINE q == Candidate(NextRelaxation)
  <2>1. /\ pc = "relaxing" /\ NextRelaxation # "none"
        /\ asked' = Append(asked, q) /\ query' = q
    BY <1>11 DEF Relax, InRelaxation
  <2>2. /\ q \in Queries
        /\ \/ query.bound /\ ~q.bound /\ q.component = query.component
           \/ ~query.bound /\ ~q.bound /\ q.component = "parent"
    BY <1>1, <2>1, NextCandidate
  <2>3. Tighter(query)
    BY <2>1 DEF AskedInv
  <2> HIDE DEF q
  <2>4. Tighter(q) /\ ~q.bound
    BY <2>2, <2>3 DEF Tighter
  <2> QED
    BY <1>1, <2>1, <2>2, <2>4, ExecutedOrder
<1>12. ASSUME EndRelaxation PROVE AskedInv'
  BY <1>12, SilentOrder DEF EndRelaxation
<1>13. ASSUME UNCHANGED vars PROVE AskedInv'
  BY <1>13 DEF vars, AskedInv, RelaxationsAccumulate, Tighter
<1> QED
  BY <1>3, <1>4, <1>5, <1>6, <1>7, <1>8, <1>9, <1>10, <1>11, <1>12, <1>13 DEF Next
-----------------------------------------------------------------------------
LEMMA LoopHolds == Spec => [](TypeInv /\ LoopInv)
<1>1. Init => TypeInv /\ LoopInv
  BY InitTypes, InitLoop
<1>2. TypeInv /\ LoopInv /\ [Next]_vars => TypeInv' /\ LoopInv'
  BY NextTypes, NextCount, NextQuery, NextAnswer, NextAsked DEF LoopInv
<1> QED
  BY <1>1, <1>2, PTL DEF Spec

\* No answer of the knowledge graph makes a run send more queries, or log more entries,
\* than one and the effective budget (AQRReflectiveAgent.run).
THEOREM BudgetAlwaysKept == Spec => []BudgetKept
<1>1. TypeInv /\ LoopInv => BudgetKept
  <2> SUFFICES ASSUME TypeInv, LoopInv PROVE BudgetKept
    OBVIOUS
  <2>1. Budget \in Nat /\ repairs \in Nat /\ relaxing.used \in Nat
    BY BudgetType DEF TypeInv, TypeOK, LedgerTypeOK
  <2>2. pc \in Steps
    BY DEF TypeInv, TypeOK, RequestTypeOK
  <2> QED
    BY <2>1, <2>2 DEF LoopInv, CountInv, BudgetKept, Most, Steps
<1> QED
  BY <1>1, LoopHolds, PTL

\* The strict answer always answers the request as asked, and rows of a relaxed query are
\* never anything but candidates (AQRReflectiveAgent.run, _run_relaxation).
THEOREM StrictAlwaysAnswersRequest == Spec => []StrictAnswersRequest
<1>1. TypeInv /\ LoopInv => StrictAnswersRequest
  BY DEF LoopInv, AnswerInv
<1> QED
  BY <1>1, LoopHolds, PTL

\* A constraint once relaxed stays relaxed for the rest of the run (_run_relaxation).
THEOREM RelaxationsAlwaysAccumulate == Spec => []RelaxationsAccumulate
<1>1. TypeInv /\ LoopInv => RelaxationsAccumulate
  BY DEF LoopInv, AskedInv
<1> QED
  BY <1>1, LoopHolds, PTL
-----------------------------------------------------------------------------
(***************************************************************************)
(* The outcome and the ledger.                                             *)
(***************************************************************************)

\* Until it ends, the ledger of a run lists failures, then empty results, and nobody has
\* called the run recovered.
OutcomeInv ==
  /\ pc \in {"executing", "repairing"} =>
       \A i \in 1 .. Len(operations) : operations[i].after \in Errors
  /\ pc = "repairing" => Last.after = lastError.status
  /\ pc \in {"relaxing", "relaxed"} => Last.after = "EMPTY_RESULT"
  /\ pc # "done" => recovery = [recovered |-> FALSE, attempt |-> 0]
  /\ OutcomeMatchesLedger

\* The ledger after one more entry.
LEMMA LogEntry ==
  ASSUME TypeOK, NEW kind, NEW reason, NEW before, NEW after, NEW q, NEW found,
         Log(kind, reason, before, after, q, found)
  PROVE  /\ Len(operations') = Len(operations) + 1
         /\ \A i \in 1 .. Len(operations) : operations'[i] = operations[i]
         /\ Last'.after = after /\ Last'.reason = reason /\ Last'.attempt_index = Len(operations)
<1> DEFINE o == [attempt_index |-> Len(operations), kind |-> kind, reason |-> reason,
                 before |-> before, after |-> after, query |-> q, rows |-> found]
<1>1. o.after = after /\ o.reason = reason /\ o.attempt_index = Len(operations)
  OBVIOUS
<1>2. operations' = Append(operations, o) /\ operations \in Seq(Operations)
  BY DEF Log, TypeOK, LedgerTypeOK
<1> HIDE DEF o
<1>3. /\ Len(operations') = Len(operations) + 1
      /\ \A i \in 1 .. Len(operations) : operations'[i] = operations[i]
      /\ operations'[Len(operations) + 1] = o
  BY <1>2
<1> QED BY <1>1, <1>3 DEF Last

\* A run that ends without a strict answer was not recovered, and says what the ledger says.
LEMMA EndsUnanswered ==
  ASSUME recovery' = [recovered |-> FALSE, attempt |-> 0], Goto("done"),
         outcome'.status = Last'.after, outcome'.status # "SUCCESS",
         \/ outcome'.reason = Last'.reason
         \/ /\ outcome'.reason = "REPAIR_BUDGET_EXHAUSTED"
            /\ Last'.after \in Errors /\ repairs' = Budget' /\ repairs' > 0
  PROVE  OutcomeInv'
BY DEF OutcomeInv, OutcomeMatchesLedger, Done, Goto

LEMMA InitOutcome == Init => OutcomeInv
BY DEF Init, OutcomeInv, OutcomeMatchesLedger, Done

LEMMA NextOutcome == TypeInv /\ CountInv /\ UnansweredInv /\ OutcomeInv /\ [Next]_vars => OutcomeInv'
<1> SUFFICES ASSUME TypeInv, CountInv, UnansweredInv, OutcomeInv, [Next]_vars PROVE OutcomeInv'
  OBVIOUS
<1>1. TypeOK
  BY DEF TypeInv
<1>2. /\ "EMPTY_RESULT" \notin Errors /\ "SUCCESS" \notin Errors /\ "UNSUPPORTED" \notin Errors
      /\ "SYNTAX_ERROR" \in Errors
  BY DEF Errors
<1>3. /\ Budget \in Nat /\ request.bounded \in BOOLEAN /\ repairs \in Nat
      /\ Len(operations) \in Nat
  BY <1>1, BudgetType DEF TypeOK, LedgerTypeOK, Requests
<1>4. ASSUME NEW reason \in Grammar, Abstain(reason) PROVE OutcomeInv'
  <2>1. Last'.after = "UNSUPPORTED" /\ Last'.reason = reason
    BY <1>1, <1>4, LogEntry DEF Abstain
  <2>2. /\ outcome'.status = "UNSUPPORTED" /\ outcome'.reason = reason /\ Goto("done")
        /\ recovery' = [recovered |-> FALSE, attempt |-> 0]
    BY <1>4 DEF Abstain, Conclude, OutcomeInv
  <2> QED BY <2>1, <2>2, EndsUnanswered
<1>5. ASSUME NEW reason \in Compile, CompileFails(reason) PROVE OutcomeInv'
  <2>1. Last'.after = "SYNTAX_ERROR" /\ Last'.reason = reason
    BY <1>1, <1>5, LogEntry DEF CompileFails
  <2>2. /\ outcome'.status = "SYNTAX_ERROR" /\ outcome'.reason = reason /\ Goto("done")
        /\ recovery' = [recovered |-> FALSE, attempt |-> 0]
    BY <1>5 DEF CompileFails, Conclude, OutcomeInv
  <2> QED BY <2>1, <2>2, EndsUnanswered
<1>6. ASSUME PlanAndCompile PROVE OutcomeInv'
  <2>1. /\ Len(operations) = 0 /\ operations' = operations /\ recovery' = recovery
        /\ pc = "grounding" /\ pc' = "executing"
    BY <1>6 DEF PlanAndCompile, Goto, TypeInv, LedgerInv
  <2> QED BY <2>1 DEF OutcomeInv, OutcomeMatchesLedger, Done
<1>7. ASSUME NEW status \in Errors, NEW alias \in Alias, ExecutionFails(status, alias)
      PROVE  OutcomeInv'
  <2>1. /\ pc = "executing" /\ Len(operations) = repairs /\ repairs < Most
        /\ \A i \in 1 .. Len(operations) : operations[i].after \in Errors
        /\ recovery' = [recovered |-> FALSE, attempt |-> 0] /\ repairs' = repairs
        /\ lastError'.status = status /\ Budget' = Budget
    BY <1>7 DEF ExecutionFails, CountInv, OutcomeInv, Budget
  <2>2. /\ Len(operations') = Len(operations) + 1
        /\ \A i \in 1 .. Len(operations) : operations'[i] = operations[i]
        /\ Last'.after = status /\ Last'.reason = ErrorReason(status)
    BY <1>1, <1>7, LogEntry DEF ExecutionFails
  <2>3. CASE Exhausted
    <3>1. /\ Goto("done") /\ outcome'.status = status
          /\ outcome'.reason = IF request.bounded /\ repairs > 0
                               THEN "REPAIR_BUDGET_EXHAUSTED" ELSE ErrorReason(status)
      BY <1>7, <2>3 DEF ExecutionFails, Conclude
    <3>2. request.bounded => repairs = Budget
      BY <1>3, <2>1, <2>3 DEF Exhausted, Most
    <3> QED BY <1>2, <2>1, <2>2, <3>1, <3>2, EndsUnanswered
  <2>4. CASE ~Exhausted
    <3>1. pc' = "repairing"
      BY <1>7, <2>4 DEF ExecutionFails, Goto
    <3>2. \A i \in 1 .. Len(operations') : operations'[i].after \in Errors
      <4>1. operations'[Len(operations')].after = status
        BY <2>2 DEF Last
      <4> QED BY <1>3, <2>1, <2>2, <4>1
    <3> QED BY <2>1, <2>2, <3>1, <3>2 DEF OutcomeInv, OutcomeMatchesLedger, Done
  <2> QED BY <2>3, <2>4
<1>8. ASSUME Repair PROVE OutcomeInv'
  BY <1>8 DEF Repair, Goto, OutcomeInv, OutcomeMatchesLedger, Done
<1>9. ASSUME NoOpRepair PROVE OutcomeInv'
  <2>1. Last'.after = lastError.status /\ Last'.reason = "NO_OP_REPAIR"
    BY <1>1, <1>9, LogEntry DEF NoOpRepair
  <2>2. /\ outcome'.status = lastError.status /\ outcome'.reason = "NO_OP_REPAIR" /\ Goto("done")
        /\ recovery' = [recovered |-> FALSE, attempt |-> 0] /\ lastError.status \in Errors
    BY <1>1, <1>9 DEF NoOpRepair, Conclude, OutcomeInv, TypeOK, OutcomeTypeOK
  <2> QED BY <1>2, <2>1, <2>2, EndsUnanswered
<1>10. ASSUME RowsFound PROVE OutcomeInv'
  <2>1. /\ pc = "executing" /\ pc' = "done" /\ Len(operations) = repairs
        /\ \A i \in 1 .. Len(operations) : operations[i].after \in Errors
        /\ outcome'.status = "SUCCESS" /\ outcome'.reason = "NONE"
    BY <1>10 DEF RowsFound, Conclude, Goto, CountInv, OutcomeInv
  <2>2. /\ Len(operations') = Len(operations) + 1
        /\ \A i \in 1 .. Len(operations) : operations'[i] = operations[i]
        /\ Last'.after = "SUCCESS" /\ Last'.reason = "NONE" /\ Last'.attempt_index = repairs
    BY <1>1, <1>10, <2>1, LogEntry DEF RowsFound
  <2>3. \A i \in 1 .. Len(operations') - 1 : operations'[i].after \in Errors
    BY <1>3, <2>1, <2>2
  <2>4. recovery' = IF repairs > 0 THEN [recovered |-> TRUE, attempt |-> repairs]
                    ELSE [recovered |-> FALSE, attempt |-> 0]
    BY <1>10, <2>1 DEF RowsFound, OutcomeInv
  <2>5. Len(operations') > 1 <=> repairs > 0
    BY <1>3, <2>1, <2>2
  <2> QED BY <2>1, <2>2, <2>3, <2>4, <2>5 DEF OutcomeInv, OutcomeMatchesLedger, Done
<1>11. ASSUME NoRows PROVE OutcomeInv'
  <2>1. Last'.after = "EMPTY_RESULT" /\ Last'.reason = "EMPTY_STRICT_RESULT"
    BY <1>1, <1>11, LogEntry DEF NoRows
  <2>2. /\ outcome'.status = "EMPTY_RESULT" /\ outcome'.reason = "EMPTY_STRICT_RESULT"
        /\ recovery' = [recovered |-> FALSE, attempt |-> 0]
        /\ pc' = "done" \/ pc' = "relaxing"
    BY <1>11 DEF NoRows, Conclude, OutcomeInv, Goto
  <2>3. CASE pc' = "done"
    BY <2>1, <2>2, <2>3, EndsUnanswered DEF Goto
  <2>4. CASE pc' = "relaxing"
    BY <2>1, <2>2, <2>4 DEF OutcomeInv, OutcomeMatchesLedger, Done
  <2> QED BY <2>2, <2>3, <2>4
<1>12. ASSUME NEW found \in BOOLEAN, Relax(found) PROVE OutcomeInv'
  <2>1. Last'.after = "EMPTY_RESULT"
    BY <1>1, <1>12, LogEntry DEF Relax
  <2>2. pc' \in {"relaxing", "relaxed"} /\ recovery' = recovery /\ pc = "relaxing"
    BY <1>12 DEF Relax, InRelaxation, Goto
  <2> QED BY <2>1, <2>2 DEF OutcomeInv, OutcomeMatchesLedger, Done
<1>13. ASSUME EndRelaxation PROVE OutcomeInv'
  <2>1. /\ pc \in {"relaxing", "relaxed"} /\ Goto("done") /\ operations' = operations
        /\ outcome'.status = "EMPTY_RESULT" /\ outcome'.reason = Last.reason
        /\ recovery' = [recovered |-> FALSE, attempt |-> 0]
    BY <1>13 DEF EndRelaxation, RelaxationOver, DiscloseCandidates, Conclude, Last, OutcomeInv
  <2>2. Last' = Last /\ Last.after = "EMPTY_RESULT"
    BY <2>1 DEF Last, OutcomeInv
  <2> QED BY <2>1, <2>2, EndsUnanswered
<1>14. ASSUME UNCHANGED vars PROVE OutcomeInv'
  BY <1>14 DEF vars, OutcomeInv, OutcomeMatchesLedger, Done, Last, Budget
<1> QED
  BY <1>4, <1>5, <1>6, <1>7, <1>8, <1>9, <1>10, <1>11, <1>12, <1>13, <1>14 DEF Next

\* The status and the reason a run ends with are those of its last entry, or say that the
\* budget is spent, and it is called recovered exactly when a strict success followed failures
\* (AQRReflectiveAgent.run).
THEOREM OutcomeAlwaysMatchesLedger == Spec => []OutcomeMatchesLedger
<1>1. TypeInv /\ LoopInv /\ OutcomeInv /\ [Next]_vars => OutcomeInv'
  BY NextOutcome DEF LoopInv, AnswerInv
<1>2. OutcomeInv => OutcomeMatchesLedger
  BY DEF OutcomeInv
<1> QED
  BY <1>1, <1>2, InitOutcome, LoopHolds, PTL DEF Spec
-----------------------------------------------------------------------------
\* The ledger lists what was asked, each entry from the status the one before left, and the
\* attempts count what was asked but for relaxations not counted yet.
StoryInv ==
  /\ pc # "done" => \A i \in 1 .. Len(asked) : operations[i].query = asked[i] /\ Executed(i)
  /\ \A i \in 2 .. Len(operations) : operations[i].before = operations[i - 1].after
  /\ pc \in {"grounding", "executing", "repairing"} => attempts = Len(asked)
  /\ pc \in {"relaxing", "relaxed"} => attempts + relaxing.used = Len(asked)
  /\ LedgerComplete

\* What an entry adds to the story: executed, it follows the queries asked so far.
LEMMA StoryGrows ==
  ASSUME TypeOK, StoryInv, pc # "done", pc # "grounding", Len(operations) = Len(asked),
         NEW kind, NEW reason, NEW before, NEW after, NEW q, NEW found,
         Log(kind, reason, before, after, q, found),
         Len(operations) = 0 \/ before = Last.after
  PROVE  /\ Len(operations') = Len(operations) + 1
         /\ \A i \in 2 .. Len(operations') : operations'[i].before = operations'[i - 1].after
         /\ \A i \in 1 .. Len(operations) : operations'[i].query = asked[i] /\ Executed(i)'
         /\ \A n \in Nat : n = Len(operations) + 1 =>
              /\ operations'[n].query = q
              /\ Executed(n)' <=> q # NoQuery /\ reason # "NO_OP_REPAIR"
<1> DEFINE o == [attempt_index |-> Len(operations), kind |-> kind, reason |-> reason,
                 before |-> before, after |-> after, query |-> q, rows |-> found]
<1>1. o.before = before /\ o.reason = reason /\ o.query = q
  OBVIOUS
<1>2. operations' = Append(operations, o) /\ operations \in Seq(Operations)
  BY DEF Log, TypeOK, LedgerTypeOK
<1> HIDE DEF o
<1>3. /\ Len(operations') = Len(operations) + 1 /\ Len(operations) \in Nat
      /\ \A i \in 1 .. Len(operations) : operations'[i] = operations[i]
      /\ operations'[Len(operations) + 1] = o
  BY <1>2
<1>4. ASSUME NEW i \in 2 .. Len(operations')
      PROVE  operations'[i].before = operations'[i - 1].after
  <2>1. CASE i = Len(operations) + 1
    BY <1>1, <1>3, <2>1 DEF Last
  <2>2. CASE i # Len(operations) + 1
    BY <1>3, <2>2 DEF StoryInv
  <2> QED BY <2>1, <2>2
<1>5. \A i \in 1 .. Len(operations) : operations'[i].query = asked[i] /\ Executed(i)'
  BY <1>3 DEF StoryInv, Executed
<1> QED BY <1>1, <1>3, <1>4, <1>5 DEF Executed

\* A query is asked and logged.
LEMMA StoryAsked ==
  ASSUME TypeOK, StoryInv, pc # "done", pc # "grounding", Len(operations) = Len(asked),
         NEW kind, NEW reason, NEW before, NEW after, NEW q \in Queries, NEW found,
         Log(kind, reason, before, after, q, found),
         Len(operations) = 0 \/ before = Last.after,
         asked' = Append(asked, q), reason # "NO_OP_REPAIR"
  PROVE  /\ Len(asked') = Len(asked) + 1 /\ Len(operations') = Len(asked')
         /\ \A i \in 1 .. Len(asked') : operations'[i].query = asked'[i] /\ Executed(i)'
         /\ \A i \in 2 .. Len(operations') : operations'[i].before = operations'[i - 1].after
<1>1. /\ asked \in Seq(Queries) /\ Len(asked) \in Nat /\ Len(asked') = Len(asked) + 1
      /\ \A i \in 1 .. Len(asked) : asked'[i] = asked[i]
      /\ asked'[Len(asked) + 1] = q
  BY DEF TypeOK, QueryTypeOK
<1>2. q # NoQuery
  BY DEF Queries, NoQuery
<1>3. /\ Len(operations') = Len(operations) + 1
      /\ \A i \in 2 .. Len(operations') : operations'[i].before = operations'[i - 1].after
      /\ \A i \in 1 .. Len(operations) : operations'[i].query = asked[i] /\ Executed(i)'
      /\ \A n \in Nat : n = Len(operations) + 1 => operations'[n].query = q /\ Executed(n)'
  BY <1>2, StoryGrows
<1>4. ASSUME NEW i \in 1 .. Len(asked') PROVE operations'[i].query = asked'[i] /\ Executed(i)'
  <2>1. CASE i = Len(asked) + 1
    BY <1>1, <1>3, <2>1
  <2>2. CASE i # Len(asked) + 1
    BY <1>1, <1>3, <2>2
  <2> QED BY <2>1, <2>2
<1> QED BY <1>1, <1>3, <1>4

\* It begins with the first entry, or from what the last one left.
LEMMA StatusContinues ==
  ASSUME TypeOK, NEW after
  PROVE  Len(operations) = 0 \/ StatusBefore(after) = Last.after
BY DEF StatusBefore, Last, TypeOK, LedgerTypeOK

LEMMA InitStory == Init => StoryInv
BY DEF Init, StoryInv, LedgerComplete, Done

LEMMA NextStory ==
  TypeInv /\ CountInv /\ OutcomeInv /\ StoryInv /\ [Next]_vars => StoryInv'
<1> SUFFICES ASSUME TypeInv, CountInv, OutcomeInv, StoryInv, [Next]_vars PROVE StoryInv'
  OBVIOUS
<1>1. /\ TypeOK /\ attempts \in Nat /\ relaxing.used \in Nat /\ repairs \in Nat
      /\ Len(operations) \in Nat /\ Len(asked) \in Nat
      /\ pc = "executing" => query \in Queries
  BY DEF TypeInv, TypeOK, LedgerTypeOK, QueryTypeOK
<1>2. ASSUME NEW reason \in Grammar \cup Compile, pc = "grounding", pc' = "done",
             NEW kind, NEW before, NEW after, NEW found,
             Log(kind, reason, before, after, NoQuery, found),
             UNCHANGED <<asked, attempts, repairs>>
      PROVE  StoryInv'
  <2>1. Len(operations) = 0 /\ Len(asked) = 0 /\ attempts = 0 /\ repairs = 0
    BY <1>1, <1>2 DEF TypeInv, LedgerInv, CountInv, StoryInv
  <2>2. Len(operations') = 1 /\ operations'[1].query = NoQuery
    BY <1>1, <1>2, <2>1 DEF Log, TypeOK, LedgerTypeOK
  <2>3. \A i \in 1 .. Len(operations') : i = 1 /\ ~Executed(i)'
    BY <2>2 DEF Executed
  <2>4. LedgerComplete'
    BY <1>2, <2>1, <2>2, <2>3 DEF LedgerComplete
  <2>5. \A i \in 2 .. Len(operations') : operations'[i].before = operations'[i - 1].after
    BY <2>2
  <2> QED BY <1>2, <2>4, <2>5 DEF StoryInv
<1>3. ASSUME NEW reason \in Grammar, Abstain(reason) PROVE StoryInv'
  BY <1>2, <1>3 DEF Abstain, Goto
<1>4. ASSUME NEW reason \in Compile, CompileFails(reason) PROVE StoryInv'
  BY <1>2, <1>4 DEF CompileFails, Goto
<1>5. ASSUME PlanAndCompile PROVE StoryInv'
  BY <1>5 DEF PlanAndCompile, Goto, StoryInv, LedgerComplete, Done, Executed
\* The three ways an execution of a strict query is logged.
<1>6. ASSUME pc = "executing", NEW reason, reason # "NO_OP_REPAIR", NEW after, NEW found,
             Send(query), Log(LoopKind, reason, StatusBefore(after), after, query, found),
             pc' \in {"done", "repairing", "relaxing"}, UNCHANGED <<repairs, relaxing>>
      PROVE  StoryInv'
  <2>1. /\ Len(operations) = Len(asked) /\ Len(asked) = repairs /\ relaxing.used = 0
        /\ attempts = Len(asked) /\ query \in Queries
    BY <1>1, <1>6 DEF CountInv, StoryInv
  <2>2. /\ Len(asked') = Len(asked) + 1 /\ Len(operations') = Len(asked')
        /\ \A i \in 1 .. Len(asked') : operations'[i].query = asked'[i] /\ Executed(i)'
        /\ \A i \in 2 .. Len(operations') : operations'[i].before = operations'[i - 1].after
    <3>1. Len(operations) = 0 \/ StatusBefore(after) = Last.after
      BY <1>1, StatusContinues
    <3>2. asked' = Append(asked, query) /\ pc # "done" /\ pc # "grounding"
      BY <1>6 DEF Send
    <3> QED BY <1>1, <1>6, <2>1, <3>1, <3>2, StoryAsked
  <2>3. attempts' = Len(asked') /\ repairs' = Len(operations') - 1 /\ relaxing'.used = 0
    BY <1>1, <1>6, <2>1, <2>2 DEF Send
  <2>4. LedgerComplete'
    BY <2>2, <2>3 DEF LedgerComplete
  <2> QED BY <1>1, <1>6, <2>2, <2>3, <2>4 DEF StoryInv
<1>7. ASSUME NEW status \in Errors, NEW alias \in Alias, ExecutionFails(status, alias)
      PROVE  StoryInv'
  <2>1. pc' \in {"done", "repairing"} /\ ErrorReason(status) # "NO_OP_REPAIR"
    BY <1>7 DEF ExecutionFails, Goto, ErrorReason
  <2> QED BY <1>6, <1>7, <2>1 DEF ExecutionFails
<1>8. ASSUME Repair PROVE StoryInv'
  BY <1>8 DEF Repair, Goto, StoryInv, LedgerComplete, Done, Executed
<1>9. ASSUME NoOpRepair PROVE StoryInv'
  <2>1. /\ pc = "repairing" /\ pc' = "done" /\ asked' = asked /\ attempts' = attempts
        /\ repairs' = repairs + 1 /\ Len(operations) = Len(asked) /\ Len(asked) = repairs + 1
        /\ attempts = Len(asked) /\ Last.after = lastError.status
    BY <1>9 DEF NoOpRepair, Goto, CountInv, StoryInv, OutcomeInv
  <2>2. /\ Len(operations') = Len(operations) + 1
        /\ \A i \in 2 .. Len(operations') : operations'[i].before = operations'[i - 1].after
        /\ \A i \in 1 .. Len(operations) : operations'[i].query = asked[i] /\ Executed(i)'
        /\ \A n \in Nat : n = Len(operations) + 1 => ~Executed(n)'
    <3>1. Log(RepairKind(lastError.status), "NO_OP_REPAIR", lastError.status, lastError.status,
              query, FALSE)
      BY <1>9 DEF NoOpRepair
    <3>2. pc # "done" /\ pc # "grounding"
      BY <2>1
    <3> QED BY <1>1, <2>1, <3>1, <3>2, StoryGrows
  <2>3. \A i \in 1 .. Len(operations') : Executed(i)' <=> i <= Len(asked')
    BY <1>1, <2>1, <2>2
  <2>4. LedgerComplete'
    BY <1>1, <2>1, <2>2, <2>3 DEF LedgerComplete
  <2> QED BY <2>1, <2>2, <2>4 DEF StoryInv
<1>10. ASSUME RowsFound PROVE StoryInv'
  BY <1>6, <1>10 DEF RowsFound, Goto
<1>11. ASSUME NoRows PROVE StoryInv'
  <2>1. pc' \in {"done", "relaxing"}
    BY <1>11 DEF NoRows, Goto
  <2> QED BY <1>6, <1>11, <2>1 DEF NoRows
<1>12. ASSUME NEW found \in BOOLEAN, Relax(found) PROVE StoryInv'
  <2>1. /\ pc = "relaxing" /\ pc' \in {"relaxing", "relaxed"} /\ attempts' = attempts
        /\ relaxing'.used = relaxing.used + 1 /\ Len(operations) = Len(asked)
        /\ attempts + relaxing.used = Len(asked) /\ Last.after = "EMPTY_RESULT"
    BY <1>1, <1>12 DEF Relax, InRelaxation, Goto, CountInv, StoryInv, OutcomeInv
  <2>2. ReasonOf(NextRelaxation) # "NO_OP_REPAIR" /\ Candidate(NextRelaxation) \in Queries
    BY <1>1, <2>1, CandidateType DEF ReasonOf, TypeOK, QueryTypeOK
  <2>3. /\ Len(asked') = Len(asked) + 1 /\ Len(operations') = Len(asked')
        /\ \A i \in 1 .. Len(asked') : operations'[i].query = asked'[i] /\ Executed(i)'
        /\ \A i \in 2 .. Len(operations') : operations'[i].before = operations'[i - 1].after
    <3>1. /\ asked' = Append(asked, Candidate(NextRelaxation))
          /\ Log("semantic_relaxation", ReasonOf(NextRelaxation), "EMPTY_RESULT", "EMPTY_RESULT",
                 Candidate(NextRelaxation), found)
      BY <1>12 DEF Relax
    <3>2. pc # "done" /\ pc # "grounding"
      BY <2>1
    <3> HIDE <1>12
    <3> QED BY <1>1, <2>1, <2>2, <3>1, <3>2, StoryAsked
  <2>4. LedgerComplete'
    BY <2>1 DEF LedgerComplete, Done
  <2> QED BY <1>1, <2>1, <2>3, <2>4 DEF StoryInv
<1>13. ASSUME EndRelaxation PROVE StoryInv'
  <2>1. /\ pc \in {"relaxing", "relaxed"} /\ pc' = "done" /\ asked' = asked
        /\ operations' = operations /\ attempts' = attempts + relaxing.used
        /\ repairs' = repairs + relaxing.used
    BY <1>13 DEF EndRelaxation, RelaxationOver, CountRelaxations, Goto
  <2>2. /\ attempts' = Len(asked) /\ Len(operations) = Len(asked)
        /\ repairs' = Len(operations) - 1
    BY <1>1, <2>1 DEF CountInv, StoryInv
  <2>3. \A i \in 1 .. Len(operations) : operations'[i].query = asked[i] /\ Executed(i)'
    BY <2>1, <2>2 DEF StoryInv, Executed
  <2>4. LedgerComplete'
    BY <1>1, <2>1, <2>2, <2>3 DEF LedgerComplete, StoryInv
  <2> QED BY <2>1, <2>4 DEF StoryInv
<1>14. ASSUME UNCHANGED vars PROVE StoryInv'
  BY <1>14 DEF vars, StoryInv, LedgerComplete, Done, Executed
<1> QED
  BY <1>3, <1>4, <1>5, <1>7, <1>8, <1>9, <1>10, <1>11, <1>12, <1>13, <1>14 DEF Next

\* A finished run's ledger lists exactly the queries the knowledge graph was sent, in order,
\* each from the status the one before left (AQRReflectiveAgent.run).
THEOREM LedgerAlwaysComplete == Spec => []LedgerComplete
<1>1. TypeInv /\ LoopInv /\ OutcomeInv /\ StoryInv /\ [Next]_vars => OutcomeInv' /\ StoryInv'
  BY NextOutcome, NextStory DEF LoopInv, AnswerInv
<1>2. StoryInv => LedgerComplete
  BY DEF StoryInv
<1> QED
  BY <1>1, <1>2, InitOutcome, InitStory, LoopHolds, PTL DEF Spec
-----------------------------------------------------------------------------
(***************************************************************************)
(* The end of a run.                                                       *)
(***************************************************************************)
\* What is left of the budget, a repair and its execution for each, and the way to the end.
PhaseRank ==
  CASE pc = "grounding" -> 4
    [] pc = "executing" -> 3
    [] pc \in {"repairing", "relaxing"} -> 2
    [] OTHER -> 1

Rank == IF Done THEN 0 ELSE 2 * (Most - repairs - relaxing.used) + PhaseRank

LEMMA RankType == TypeInv /\ CountInv => Rank \in Nat /\ (~Done => Rank > 0)
<1> SUFFICES ASSUME TypeInv, CountInv PROVE Rank \in Nat /\ (~Done => Rank > 0)
  OBVIOUS
<1>1. Budget \in Nat /\ repairs \in Nat /\ relaxing.used \in Nat /\ pc \in Steps
  BY BudgetType DEF TypeInv, TypeOK, RequestTypeOK, LedgerTypeOK
<1>2. ~Done => repairs + relaxing.used <= Most
  BY <1>1 DEF CountInv, Most, Steps, Done
<1>3. Most \in Nat
  BY <1>1 DEF Most
<1> HIDE DEF Most
<1> QED
  BY <1>1, <1>2, <1>3 DEF Rank, PhaseRank, Done

LEMMA NextRank ==
  ASSUME TypeInv, CountInv, TypeInv', CountInv', Next
  PROVE  Rank' < Rank
<1>1. /\ Most \in Nat /\ repairs \in Nat /\ relaxing.used \in Nat
      /\ ~Done => Rank \in Nat /\ Rank > 0
  BY BudgetType, RankType DEF Most, TypeInv, TypeOK, LedgerTypeOK
<1>2. request' = request => Most' = Most
  BY DEF Most, Budget
<1>3. ASSUME ~Done, Done' PROVE Rank' < Rank
  BY <1>1, <1>3 DEF Rank
<1> USE DEF Done, Goto
<1>4. ASSUME NEW reason \in Grammar, Abstain(reason) PROVE Rank' < Rank
  BY <1>3, <1>4 DEF Abstain
<1>5. ASSUME NEW reason \in Compile, CompileFails(reason) PROVE Rank' < Rank
  BY <1>3, <1>5 DEF CompileFails
<1>6. CASE PlanAndCompile
  BY <1>1, <1>2, <1>6 DEF PlanAndCompile, Rank, PhaseRank
<1>7. ASSUME NEW status \in Errors, NEW alias \in Alias, ExecutionFails(status, alias)
      PROVE  Rank' < Rank
  <2>1. /\ pc = "executing" /\ pc' \in {"done", "repairing"}
        /\ request' = request /\ repairs' = repairs /\ relaxing' = relaxing
    BY <1>7 DEF ExecutionFails
  <2> QED
    BY <1>1, <1>2, <1>3, <2>1 DEF Rank, PhaseRank
<1>8. CASE Repair
  <2>1. /\ pc = "repairing" /\ pc' = "executing"
        /\ request' = request /\ repairs' = repairs + 1 /\ relaxing' = relaxing
    BY <1>8 DEF Repair
  <2> QED
    BY <1>1, <1>2, <2>1 DEF Rank, PhaseRank
<1>9. CASE NoOpRepair
  BY <1>3, <1>9 DEF NoOpRepair
<1>10. CASE RowsFound
  BY <1>3, <1>10 DEF RowsFound
<1>11. CASE NoRows
  <2>1. /\ pc = "executing" /\ pc' \in {"done", "relaxing"}
        /\ request' = request /\ repairs' = repairs /\ relaxing' = relaxing
    BY <1>11 DEF NoRows
  <2> QED
    BY <1>1, <1>2, <1>3, <2>1 DEF Rank, PhaseRank
<1>12. ASSUME NEW found \in BOOLEAN, Relax(found) PROVE Rank' < Rank
  <2>1. /\ pc = "relaxing" /\ pc' \in {"relaxing", "relaxed"}
        /\ request' = request /\ repairs' = repairs /\ relaxing'.used = relaxing.used + 1
    BY <1>12 DEF Relax, InRelaxation
  <2> QED
    BY <1>1, <1>2, <2>1 DEF Rank, PhaseRank
<1>13. CASE EndRelaxation
  BY <1>3, <1>13 DEF EndRelaxation, RelaxationOver
<1> QED
  BY <1>4, <1>5, <1>6, <1>7, <1>8, <1>9, <1>10, <1>11, <1>12, <1>13 DEF Next

\* The guard of a step of the loop: the actions of one stage differ in what they meet.
Ready == \/ pc = "grounding" \/ pc = "executing"
         \/ pc = "repairing"
         \/ InRelaxation /\ NextRelaxation # "none"
         \/ RelaxationOver \/ pc = "relaxed"

LEMMA UntilDone == TypeInv /\ ~Done => Ready
BY DEF TypeInv, TypeOK, RequestTypeOK, LedgerTypeOK, Steps, Done, Ready, InRelaxation, RelaxationOver

\* Whatever the knowledge graph answers, each step of a run, executions, repairs and
\* relaxations alike, brings a number of steps that may be left nearer to zero; it is zero
\* when the run is over, and until then there is a step (AQRReflectiveAgent.run).
THEOREM StepsRunOut ==
  Spec => [](Rank \in Nat /\ (Rank = 0 <=> Done) /\ (Done \/ Ready)) /\ [][Rank' < Rank]_vars
<1>1. TypeInv /\ LoopInv => Rank \in Nat /\ (Rank = 0 <=> Done) /\ (Done \/ Ready)
  BY RankType, UntilDone DEF LoopInv, Rank
<1>2. /\ TypeInv /\ LoopInv /\ TypeInv' /\ LoopInv' /\ [Next]_vars
      => [Rank' < Rank]_vars
  BY NextRank DEF LoopInv
<1> QED
  BY <1>1, <1>2, LoopHolds, PTL DEF Spec
=============================================================================
