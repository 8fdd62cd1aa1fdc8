----------------------- MODULE PrerequisiteTraversal -----------------------
(***************************************************************************)
(* reasoning/query_planner.py: evaluate_prerequisite_traversal, the        *)
(* evidence about a note's prerequisites that the validation report holds. *)
(* A breadth-first search finds every prerequisite and its distance; a     *)
(* depth-first one with an explicit stack finds cycles.  One action is one *)
(* round of an inner loop: a neighbour looked at, a node taken or left.    *)
(*                                                                         *)
(* The same relation is what a prerequisite question queries, by a union   *)
(* of property paths of lengths 1 to MAX_PREREQUISITE_DEPTH: QueryRows.    *)
(*                                                                         *)
(* Notes are numbers, in the order of their identifiers.                   *)
(***************************************************************************)
EXTENDS Integers, Sequences, FiniteSets

CONSTANTS Notes,                    \* the nodes of the graph
          Target,                   \* the note asked about
          DepthLimits,              \* values of the argument depth_limit
          MAX_PREREQUISITE_DEPTH,
          RowLimit                  \* LIMIT of the compiled query

\* The graph is in memory.
ASSUME NotesAssumption == Notes \subseteq Nat /\ IsFiniteSet(Notes) /\ Target \in Notes
ASSUME LimitsAssumption ==
  DepthLimits \subseteq Int /\ MAX_PREREQUISITE_DEPTH \in Nat /\ RowLimit \in Nat

VARIABLES edges,            \* the graph's hasPrerequisiteNote triples
          depth_limit,
          pc,               \* which of the two loops runs
          distances,        \* the search
          discovery_order,
          frontier,
          node,             \* the node taken from the frontier
          neighbors,        \* those of its neighbours not looked at yet
          visited,          \* the detection
          stack,            \* the active nodes, each with its neighbours left
          edge_path,
          cycle_edge_set    \* cycle_edges, whatever their order

search    == <<distances, discovery_order, frontier, node, neighbors>>
detection == <<visited, stack, edge_path, cycle_edge_set>>
vars      == <<edges, depth_limit, pc, search, detection>>
-----------------------------------------------------------------------------
\* _prerequisite_neighbors; sorted, so they are taken least first.
Neighbors(n)   == {m \in Notes : <<n, m>> \in edges}
IsFirst(n, S)  == n \in S /\ \A m \in S : n <= m

Members(s) == {s[i] : i \in DOMAIN s}
AllButLast(s) == SubSeq(s, 1, Len(s) - 1)

Frame(n) == [node |-> n, left |-> Neighbors(n)]

Init ==
  /\ edges \in SUBSET (Notes \X Notes)
  /\ depth_limit \in DepthLimits
  /\ pc = "searching"
  /\ distances = [n \in {Target} |-> 0]
  /\ discovery_order = <<>>
  /\ frontier = <<Target>>
  /\ node = Target /\ neighbors = {}
  /\ visited = {Target}
  /\ stack = <<Frame(Target)>>
  /\ edge_path = <<>>
  /\ cycle_edge_set = {}
-----------------------------------------------------------------------------
(***************************************************************************)
(* The breadth-first search.                                               *)
(***************************************************************************)
\* A negative limit is refused before anything else.
Reject ==
  /\ pc = "searching" /\ depth_limit < 0
  /\ pc' = "rejected"
  /\ UNCHANGED <<edges, depth_limit, search, detection>>

Searching == pc = "searching" /\ depth_limit >= 0

\* The faulty variant takes the newest node, as a stack would.
TakeNewest ==
  /\ Searching /\ neighbors = {} /\ frontier # <<>>
  /\ node' = frontier[Len(frontier)] /\ frontier' = AllButLast(frontier)
  /\ neighbors' = Neighbors(node')
  /\ UNCHANGED <<edges, depth_limit, pc, distances, discovery_order, detection>>

\* frontier.popleft()
TakeNode ==
  /\ Searching /\ neighbors = {} /\ frontier # <<>>
  /\ node' = Head(frontier) /\ frontier' = Tail(frontier)
  /\ neighbors' = Neighbors(node')
  /\ UNCHANGED <<edges, depth_limit, pc, distances, discovery_order, detection>>

\* The faulty variant has not seen the target before the search starts.
KnownButTarget == DOMAIN distances \ {Target}
Known == DOMAIN distances

\* The next neighbour is not known yet: it is one step further than the node.
Discover(n) ==
  /\ Searching /\ IsFirst(n, neighbors) /\ n \notin Known
  /\ distances' = [m \in DOMAIN distances \cup {n} |->
                     IF m = n THEN distances[node] + 1 ELSE distances[m]]
  /\ discovery_order' = Append(discovery_order, n)
  /\ frontier' = Append(frontier, n)
  /\ neighbors' = neighbors \ {n}
  /\ UNCHANGED <<edges, depth_limit, pc, node, detection>>

\* The faulty variant gives the node up at the first known neighbour.
BreakAtKnown(n) ==
  /\ Searching /\ IsFirst(n, neighbors) /\ n \in Known
  /\ neighbors' = {}
  /\ UNCHANGED <<edges, depth_limit, pc, distances, discovery_order, frontier, node, detection>>

SkipKnown(n) ==
  /\ Searching /\ IsFirst(n, neighbors) /\ n \in Known
  /\ neighbors' = neighbors \ {n}
  /\ UNCHANGED <<edges, depth_limit, pc, distances, discovery_order, frontier, node, detection>>

EndSearch ==
  /\ Searching /\ neighbors = {} /\ frontier = <<>>
  /\ pc' = "detecting"
  /\ UNCHANGED <<edges, depth_limit, search, detection>>
-----------------------------------------------------------------------------
(***************************************************************************)
(* The depth-first search for cycles.  active_nodes and active_positions   *)
(* are the nodes of the stack and their places in it: every push and pop   *)
(* changes the three together.                                             *)
(***************************************************************************)
Top       == stack[Len(stack)]
Active    == {stack[i].node : i \in DOMAIN stack}
Place(n)  == CHOOSE i \in DOMAIN stack : stack[i].node = n
Detecting == pc = "detecting" /\ stack # <<>>
Facing(n) == Detecting /\ IsFirst(n, Top.left)

\* The top of the stack with one neighbour less.
Advanced(n) == [stack EXCEPT ![Len(stack)] = [node |-> Top.node, left |-> Top.left \ {n}]]

\* The faulty variant leaves out the edge back.
OpenPath(n) == SubSeq(edge_path, Place(n), Len(edge_path))

\* The path from an active node to the top, and the edge back.
Cycle(n) == Append(SubSeq(edge_path, Place(n), Len(edge_path)), <<Top.node, n>>)

\* The faulty variant leaves the abandoned edge on the path.
BacktrackKeepingPath ==
  /\ Detecting /\ Top.left = {}
  /\ stack' = AllButLast(stack)
  /\ UNCHANGED <<edges, depth_limit, pc, search, visited, edge_path, cycle_edge_set>>

\* Every neighbour has been looked at.
Backtrack ==
  /\ Detecting /\ Top.left = {}
  /\ stack' = AllButLast(stack)
  /\ edge_path' = IF edge_path = <<>> THEN <<>> ELSE AllButLast(edge_path)
  /\ UNCHANGED <<edges, depth_limit, pc, search, visited, cycle_edge_set>>

\* The faulty variant does not move on to the next neighbour.
CloseCycleAgain(n) ==
  /\ Facing(n) /\ n \in Active
  /\ cycle_edge_set' = cycle_edge_set \cup Members(Cycle(n))
  /\ UNCHANGED <<edges, depth_limit, pc, search, visited, stack, edge_path>>

\* The next neighbour is active: the path from it is a cycle, whose edges are listed.
CloseCycle(n) ==
  /\ Facing(n) /\ n \in Active
  /\ stack' = Advanced(n)
  /\ cycle_edge_set' = cycle_edge_set \cup Members(Cycle(n))
  /\ UNCHANGED <<edges, depth_limit, pc, search, visited, edge_path>>

SkipVisited(n) ==
  /\ Facing(n) /\ n \in visited \ Active
  /\ stack' = Advanced(n)
  /\ UNCHANGED <<edges, depth_limit, pc, search, visited, edge_path, cycle_edge_set>>

Descend(n) ==
  /\ Facing(n) /\ n \notin visited \cup Active
  /\ visited' = visited \cup {n}
  /\ edge_path' = Append(edge_path, <<Top.node, n>>)
  /\ stack' = Append(Advanced(n), Frame(n))
  /\ UNCHANGED <<edges, depth_limit, pc, search, cycle_edge_set>>

EndDetection ==
  /\ pc = "detecting" /\ stack = <<>>
  /\ pc' = "done"
  /\ UNCHANGED <<edges, depth_limit, search, detection>>
-----------------------------------------------------------------------------
Next == \/ Reject
        \/ TakeNode \/ EndSearch \/ Backtrack \/ EndDetection
        \/ \E n \in Notes : \/ Discover(n) \/ SkipKnown(n)
                           \/ CloseCycle(n) \/ SkipVisited(n) \/ Descend(n)

\* One sequential call over a graph in memory.
Spec == Init /\ [][Next]_vars /\ WF_vars(Next)
-----------------------------------------------------------------------------
(***************************************************************************)
(* The evidence, and the rows a prerequisite question gets.                *)
(***************************************************************************)
truncated == \E n \in DOMAIN distances \ {Target} : distances[n] > depth_limit

WithinLimit(n) == n # Target /\ distances[n] <= depth_limit

\* The list comprehension: what the first i notes of the order leave in the list.
Listed[i \in 0 .. Len(discovery_order)] ==
  IF i = 0 THEN <<>>
  ELSE LET n == discovery_order[i]
       IN  IF WithinLimit(n) THEN Append(Listed[i - 1], n) ELSE Listed[i - 1]

reachable_unique == Listed[Len(discovery_order)]
cycle_detected   == cycle_edge_set # {}
status           == IF truncated THEN "EMPTY_RESULT" ELSE "SUCCESS"

\* The notes a path of exactly d edges leads to.
Walks[d \in Nat] ==
  IF d = 0 THEN {Target} ELSE {m \in Notes : \E n \in Walks[d - 1] : <<n, m>> \in edges}

\* The faulty variant is one path short.
PathsShort == 1 .. MAX_PREREQUISITE_DEPTH - 1
Paths == 1 .. MAX_PREREQUISITE_DEPTH

\* PREREQUISITE_CLOSURE filtered, ordered and cut as the plan says.
QueryClosure == (UNION {Walks[d] : d \in Paths}) \ {Target}
QueryRows    == {n \in QueryClosure : Cardinality({m \in QueryClosure : m < n}) < RowLimit}
QueryStatus  == IF QueryRows = {} THEN "EMPTY_RESULT" ELSE "SUCCESS"

\* scripts/migrate_benchmark_v1.py, _bounded_closure: the target is not visited before it
\* is found, so it is in the closure if it is on a cycle.
Rounds[d \in Nat] ==
  IF d = 0 THEN [frontier |-> {Target}, visited |-> {}]
  ELSE LET last == Rounds[d - 1]
           next_frontier == (UNION {Neighbors(n) : n \in last.frontier}) \ last.visited
       IN  [frontier |-> next_frontier, visited |-> last.visited \cup next_frontier]

MigrationClosure == Rounds[MAX_PREREQUISITE_DEPTH].visited

\* The faulty variant returns what it has when the rounds are over.
RefusesNothing == FALSE
\* ValueError: no round was empty, though the last may have found the last note.
MigrationRefuses == Rounds[MAX_PREREQUISITE_DEPTH].frontier # {}
-----------------------------------------------------------------------------
Frames == [node : Notes, left : SUBSET Notes]

GraphTypeOK ==
  /\ edges \subseteq Notes \X Notes /\ depth_limit \in DepthLimits
  /\ pc \in {"searching", "detecting", "done", "rejected"}

SearchTypeOK ==
  /\ Target \in DOMAIN distances /\ DOMAIN distances \subseteq Notes
  /\ \A n \in DOMAIN distances : distances[n] \in Nat
  /\ discovery_order \in Seq(Notes \ {Target}) /\ frontier \in Seq(DOMAIN distances)
  /\ node \in DOMAIN distances /\ neighbors \subseteq Neighbors(node)

DetectionTypeOK ==
  /\ visited \subseteq Notes /\ Target \in visited
  /\ stack \in Seq(Frames)
  /\ \A i \in DOMAIN stack : stack[i].left \subseteq Neighbors(stack[i].node)
  /\ edge_path \in Seq(edges) /\ cycle_edge_set \subseteq Notes \X Notes

\* Every variable holds a value of its kind; the target is known and never discovered.
TypeOK == GraphTypeOK /\ SearchTypeOK /\ DetectionTypeOK

Done == pc = "done"

Closed(S, E) == \A e \in E : e[1] \in S => e[2] \in S

\* What every set closed under E with n in it contains, whatever the order of a search.
ReachableFrom(n, E) == {m \in Notes : \A S \in SUBSET Notes : n \in S /\ Closed(S, E) => m \in S}

\* The fewest edges from the target: a path needs no more than there are notes.
Distance(n) ==
  CHOOSE d \in 0 .. Cardinality(Notes) : n \in Walks[d] /\ \A c \in 0 .. d - 1 : n \notin Walks[c]

\* Every subset has a note with no edge into the subset: no cycle is left.
Acyclic(S, E) ==
  \A T \in SUBSET S : T # {} => \E n \in T : \A m \in T : <<n, m>> \notin E

\* The evidence is exact whatever the shape of the graph: it lists each prerequisite
\* within the limit once, nearest first, never the target, and says that it is truncated
\* exactly when some prerequisite's shortest chain is longer; and it says that there is a
\* cycle exactly when there is one (evaluate_prerequisite_traversal,
\* "keeps cycles from consuming the bounded depth budget").
EvidenceExact ==
  Done =>
    LET reachable == ReachableFrom(Target, edges) \ {Target}
    IN  /\ Members(reachable_unique) = {n \in reachable : Distance(n) <= depth_limit}
        /\ Len(reachable_unique) = Cardinality(Members(reachable_unique))
        /\ \A i, j \in DOMAIN reachable_unique :
             i < j => Distance(reachable_unique[i]) <= Distance(reachable_unique[j])
        /\ truncated <=> \E n \in reachable : Distance(n) > depth_limit
        /\ cycle_detected <=> ~Acyclic(reachable \cup {Target}, edges)

\* The search ends knowing exactly what can be reached.
SearchComplete ==
  pc \in {"detecting", "done"} => DOMAIN distances = ReachableFrom(Target, edges)

\* No edge is listed that is not on a cycle reachable from the target: an edge of the
\* graph from whose end its start can be reached (_detect_prerequisite_cycles).
CycleEdgesOnCycles ==
  \A e \in cycle_edge_set :
    e \in edges /\ e[1] \in ReachableFrom(e[2], edges)

\* No cycle escapes: without the listed edges what can be reached is acyclic, so nothing
\* is listed only when there is no cycle (_detect_prerequisite_cycles).
EveryCycleHit ==
  Done => Acyclic(ReachableFrom(Target, edges), edges \ cycle_edge_set)

\* A prerequisite question and the evidence about the same note agree: its rows are the
\* notes the evidence lists, up to the row limit, although one follows every path of
\* bounded length and the other shortest ones (PREREQUISITE_CLOSURE).
QueryAgrees ==
  Done /\ depth_limit = MAX_PREREQUISITE_DEPTH =>
    LET listed == Members(reachable_unique)
    IN  QueryRows = {n \in listed : Cardinality({m \in listed : m < n}) < RowLimit}

\* The gold notes of the corpora are what the evidence lists: a graph whose closure the
\* migration script accepts is not truncated, and its three searches for prerequisites name
\* the same notes but the target, which the script alone keeps if it is on a cycle.
MigrationAgrees ==
  Done /\ depth_limit = MAX_PREREQUISITE_DEPTH /\ ~MigrationRefuses =>
    /\ ~truncated /\ MigrationClosure \ {Target} = Members(reachable_unique)
    /\ Target \in MigrationClosure <=> \E n \in ReachableFrom(Target, edges) : <<n, Target>> \in edges

\* Cycles keep neither search from ending.
Ends == <>(pc \in {"done", "rejected"})

\* Section 26.6 of the hardening design: a prerequisite question gets EMPTY_RESULT when a
\* prerequisite needs more than the maximal depth.
QueryReportsDepth ==
  Done /\ depth_limit = MAX_PREREQUISITE_DEPTH =>
    (status = "EMPTY_RESULT" => QueryStatus = "EMPTY_RESULT")
=============================================================================
