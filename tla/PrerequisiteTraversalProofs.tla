-------------------- MODULE PrerequisiteTraversalProofs --------------------
(***************************************************************************)
(* For every graph, target and depth limit: the search of module           *)
(* PrerequisiteTraversal ends with exactly the notes that can be reached,  *)
(* and the detection lists only edges on cycles and an edge of every       *)
(* cycle.  What can be reached is what every closed set holds, so no       *)
(* argument here is an induction over paths.                               *)
(***************************************************************************)
EXTENDS PrerequisiteTraversal, SequenceTheorems, TLAPS

Reachable == ReachableFrom(Target, edges)

\* The neighbours of a note the search still has to look at.
Pending(n) == IF n = node THEN neighbors ELSE {}

\* Every known note can be reached, and a note taken from the frontier has only known
\* neighbours, those still pending aside.
SearchInv ==
  /\ DOMAIN distances \subseteq Reachable
  /\ \A n \in DOMAIN distances \ Members(frontier) :
       Neighbors(n) \subseteq DOMAIN distances \cup Pending(n)
  /\ pc \in {"detecting", "done"} => frontier = <<>> /\ neighbors = {}

\* The stack is a path of distinct visited notes, and edge_path its edges.
PathInv ==
  /\ Active \subseteq visited
  /\ \A i, j \in 1 .. Len(stack) : stack[i].node = stack[j].node => i = j
  /\ Len(edge_path) = IF Len(stack) = 0 THEN 0 ELSE Len(stack) - 1
  /\ \A i \in 1 .. Len(stack) - 1 : edge_path[i] = <<stack[i].node, stack[i + 1].node>>
  /\ \A i \in 1 .. Len(stack) : \A j \in i .. Len(stack) :
       stack[j].node \in ReachableFrom(stack[i].node, edges)

ListedInv ==
  /\ CycleEdgesOnCycles
  /\ \A e \in cycle_edge_set : e[1] \in visited /\ e[2] \in visited

Finished == visited \ Active
Unlisted == edges \ cycle_edge_set

\* An edge looked at is listed, leads to a finished note or is the stack's next one;
\* the finished notes have no unlisted cycle, and no unlisted edge leaves them.
FinishInv ==
  /\ \A n \in Finished : \A m \in Notes : <<n, m>> \in Unlisted => m \in Finished
  /\ \A i \in 1 .. Len(stack) : \A m \in Neighbors(stack[i].node) \ stack[i].left :
       \/ <<stack[i].node, m>> \in cycle_edge_set
       \/ m \in Finished
       \/ i < Len(stack) /\ m = stack[i + 1].node
  /\ Acyclic(Finished, Unlisted)
  /\ pc = "done" => stack = <<>>

-----------------------------------------------------------------------------
(***************************************************************************)
(* Reachability.                                                           *)
(***************************************************************************)
LEMMA ReachSelf ==
  ASSUME NEW n \in Notes, NEW E
  PROVE  n \in ReachableFrom(n, E)
BY DEF ReachableFrom

LEMMA ReachStep ==
  ASSUME NEW E, NEW n, NEW m \in ReachableFrom(n, E), NEW k \in Notes, <<m, k>> \in E
  PROVE  k \in ReachableFrom(n, E)
BY DEF ReachableFrom, Closed

LEMMA ReachTransitive ==
  ASSUME NEW E, NEW n, NEW m \in ReachableFrom(n, E), NEW k \in ReachableFrom(m, E)
  PROVE  k \in ReachableFrom(n, E)
BY DEF ReachableFrom

LEMMA ReachLeast ==
  ASSUME NEW E, NEW S \in SUBSET Notes, NEW n \in S, Closed(S, E)
  PROVE  ReachableFrom(n, E) \subseteq S
BY DEF ReachableFrom

\* A note all of whose edges lead to an acyclic set that is left by none can join it.
LEMMA AcyclicGrows ==
  ASSUME NEW F, NEW E, NEW x, x \notin F, Acyclic(F, E),
         \A n \in F \cup {x} : \A m : <<n, m>> \in E => m \in F
  PROVE  Acyclic(F \cup {x}, E)
<1> SUFFICES ASSUME NEW T \in SUBSET (F \cup {x}), T # {}
             PROVE  \E n \in T : \A m \in T : <<n, m>> \notin E
  BY DEF Acyclic
<1>1. CASE T \ {x} = {}
  BY <1>1
<1>2. CASE T \ {x} # {}
  <2>1. PICK n \in T \ {x} : \A m \in T \ {x} : <<n, m>> \notin E
    BY <1>2 DEF Acyclic
  <2>2. <<n, x>> \notin E
    BY <2>1
  <2> QED
    BY <2>1, <2>2
<1> QED
  BY <1>1, <1>2

LEMMA AcyclicShrinks ==
  ASSUME NEW F, NEW G, NEW D, NEW E, Acyclic(F, D), G \subseteq F, E \subseteq D
  PROVE  Acyclic(G, E)
BY DEF Acyclic
-----------------------------------------------------------------------------
(***************************************************************************)
(* Types.                                                                  *)
(***************************************************************************)
LEMMA AllButLastType ==
  ASSUME NEW S, NEW s \in Seq(S), s # <<>>
  PROVE  /\ AllButLast(s) \in Seq(S)
         /\ Len(AllButLast(s)) = Len(s) - 1
         /\ \A i \in 1 .. Len(s) - 1 : AllButLast(s)[i] = s[i]
<1> DEFINE k == Len(s) - 1
<1>1. k \in Nat
  BY EmptySeq
<1>2. \A i \in 1 .. k : s[i] \in S
  BY <1>1, ElementOfSeq
<1>3. AllButLast(s) = SubSeq(s, 1, k)
  BY DEF AllButLast
<1> HIDE DEF k
<1>4. /\ AllButLast(s) \in Seq(S)
      /\ Len(AllButLast(s)) = IF 1 <= k THEN k - 1 + 1 ELSE 0
      /\ \A i \in 1 .. k - 1 + 1 : AllButLast(s)[i] = s[1 + i - 1]
  BY <1>1, <1>2, <1>3, SubSeqProperties
<1>5. Len(AllButLast(s)) = k
  BY <1>1, <1>4
<1>6. ASSUME NEW i \in 1 .. k PROVE AllButLast(s)[i] = s[i]
  <2>1. 1 + i - 1 = i /\ i \in 1 .. k - 1 + 1
    BY <1>1
  <2> QED
    BY <1>4, <2>1
<1> QED
  BY <1>4, <1>5, <1>6 DEF k

LEMMA FrameType ==
  ASSUME NEW n \in Notes
  PROVE  Frame(n) \in Frames /\ Frame(n).node = n /\ Frame(n).left = Neighbors(n)
BY DEF Frame, Frames, Neighbors

LEMMA TopType ==
  ASSUME DetectionTypeOK, stack # <<>>
  PROVE  /\ Len(stack) \in Nat /\ Len(stack) > 0 /\ DOMAIN stack = 1 .. Len(stack)
         /\ Top \in Frames /\ Top.node \in Notes /\ Top.left \subseteq Notes
         /\ Top.node \in Active
<1>1. Len(stack) \in Nat \ {0} /\ DOMAIN stack = 1 .. Len(stack)
  BY EmptySeq, LenProperties DEF DetectionTypeOK
<1>2. Top \in Frames
  BY <1>1, ElementOfSeq DEF DetectionTypeOK, Top
<1> QED
  BY <1>1, <1>2 DEF Top, Frames, Active

LEMMA AdvancedType ==
  ASSUME DetectionTypeOK, stack # <<>>, NEW n
  PROVE  /\ Advanced(n) \in Seq(Frames)
         /\ Len(Advanced(n)) = Len(stack)
         /\ DOMAIN Advanced(n) = 1 .. Len(stack)
         /\ \A i \in 1 .. Len(stack) : Advanced(n)[i].node = stack[i].node
         /\ \A i \in 1 .. Len(stack) - 1 : Advanced(n)[i] = stack[i]
         /\ Advanced(n)[Len(stack)].left = Top.left \ {n}
<1> DEFINE top == [node |-> Top.node, left |-> Top.left \ {n}]
<1>1. top \in Frames
  BY TopType DEF Frames
<1>2. stack \in Seq(Frames) /\ Len(stack) \in 1 .. Len(stack)
  BY TopType DEF DetectionTypeOK
<1>3. /\ Advanced(n) \in Seq(Frames) /\ Len(Advanced(n)) = Len(stack)
      /\ \A i \in 1 .. Len(stack) : Advanced(n)[i] = IF i = Len(stack) THEN top ELSE stack[i]
  BY <1>1, <1>2, ExceptSeq DEF Advanced
<1>4. DOMAIN Advanced(n) = 1 .. Len(stack)
  BY <1>3, LenProperties
<1>5. top.node = Top.node /\ top.left = Top.left \ {n}
  OBVIOUS
<1> HIDE DEF top
<1>6. \A i \in 1 .. Len(stack) : Advanced(n)[i].node = stack[i].node
  BY <1>3, <1>5 DEF Top
<1>7. \A i \in 1 .. Len(stack) - 1 : Advanced(n)[i] = stack[i]
  BY <1>2, <1>3, TopType
<1>8. Advanced(n)[Len(stack)].left = Top.left \ {n}
  BY <1>2, <1>3, <1>5
<1> QED
  BY <1>3, <1>4, <1>6, <1>7, <1>8

\* The listed edges: those of the path from n's place on, and the edge back.
LEMMA CycleMembers ==
  ASSUME DetectionTypeOK, stack # <<>>, NEW n \in Active
  PROVE  /\ Place(n) \in DOMAIN stack /\ stack[Place(n)].node = n
         /\ <<Top.node, n>> \in Members(Cycle(n))
         /\ \A e \in Members(Cycle(n)) :
              \/ e = <<Top.node, n>>
              \/ \E i \in Place(n) .. Len(edge_path) : e = edge_path[i]
<1> DEFINE p == Place(n)
           E == {edge_path[i] : i \in p .. Len(edge_path)}
           path == SubSeq(edge_path, p, Len(edge_path))
           back == <<Top.node, n>>
<1>1. p \in DOMAIN stack /\ stack[p].node = n
  BY DEF Place, Active
<1>2. p \in Int /\ Len(edge_path) \in Nat
  BY <1>1, LenProperties DEF DetectionTypeOK
<1>3. path \in Seq(E)
  BY <1>2, SubSeqProperties
<1>4. /\ Len(path) \in Nat /\ \A i \in 1 .. Len(path) : path[i] \in E
      /\ DOMAIN Append(path, back) = 1 .. Len(path) + 1
      /\ \A i \in 1 .. Len(path) : Append(path, back)[i] = path[i]
      /\ Append(path, back)[Len(path) + 1] = back
  <2> HIDE DEF path, E, back
  <2>1. Len(path) \in Nat /\ \A i \in 1 .. Len(path) : path[i] \in E
    BY <1>3
  <2> QED
    BY <1>3, <2>1, path \in Seq(E \cup {back})
<1>5. Members(Cycle(n)) = {Append(path, back)[i] : i \in 1 .. Len(path) + 1}
  BY <1>4 DEF Members, Cycle
<1> HIDE DEF path, back, E
<1>6. back \in Members(Cycle(n))
  BY <1>4, <1>5
<1>7. ASSUME NEW e \in Members(Cycle(n)) PROVE e = back \/ e \in E
  <2>1. PICK i \in 1 .. Len(path) + 1 : e = Append(path, back)[i]
    BY <1>5, <1>7
  <2>2. CASE i = Len(path) + 1
    BY <1>4, <2>1, <2>2
  <2>3. CASE i # Len(path) + 1
    <3>1. i \in 1 .. Len(path)
      BY <1>4, <2>3
    <3> QED
      BY <1>4, <2>1, <3>1
  <2> QED
    BY <2>2, <2>3
<1> QED
  BY <1>1, <1>6, <1>7 DEF back, E

LEMMA CycleType ==
  ASSUME DetectionTypeOK, stack # <<>>, NEW n \in Active, edges \subseteq Notes \X Notes
  PROVE  Members(Cycle(n)) \subseteq Notes \X Notes
<1>0. Place(n) \in 1 .. Len(stack) /\ stack[Place(n)].node = n
  BY CycleMembers, TopType
<1>1. n \in Notes /\ Top.node \in Notes
  <2>1. stack[Place(n)] \in Frames
    BY <1>0, ElementOfSeq DEF DetectionTypeOK
  <2> QED
    BY <1>0, <2>1, TopType DEF Frames
<1>2. \A i \in Place(n) .. Len(edge_path) : edge_path[i] \in edges
  <2>1. Place(n) \in Nat \ {0} /\ Len(edge_path) \in Nat
    BY <1>0, TopType, LenProperties DEF DetectionTypeOK
  <2> QED
    BY <2>1, ElementOfSeq DEF DetectionTypeOK
<1>3. ASSUME NEW e \in Members(Cycle(n)) PROVE e \in Notes \X Notes
  <2>1. \/ e = <<Top.node, n>>
        \/ \E i \in Place(n) .. Len(edge_path) : e = edge_path[i]
    BY <1>3, CycleMembers
  <2> QED
    BY <1>1, <1>2, <2>1
<1> QED
  BY <1>3

LEMMA AdvancedLeft ==
  ASSUME DetectionTypeOK, stack # <<>>, NEW n
  PROVE  \A i \in DOMAIN Advanced(n) : Advanced(n)[i].left \subseteq Neighbors(Advanced(n)[i].node)
<1>0. Len(stack) \in Nat
  BY TopType
<1>1. \A i \in 1 .. Len(stack) : stack[i].left \subseteq Neighbors(stack[i].node)
  BY TopType DEF DetectionTypeOK
<1>2. ASSUME NEW i \in 1 .. Len(stack)
      PROVE  Advanced(n)[i].left \subseteq Neighbors(Advanced(n)[i].node)
  <2>1. CASE i = Len(stack)
    BY <1>1, <2>1, AdvancedType DEF Top
  <2>2. CASE i # Len(stack)
    <3>1. i \in 1 .. Len(stack) - 1
      BY <1>0, <2>2
    <3> QED
      BY <1>1, <3>1, AdvancedType
  <2> QED
    BY <2>1, <2>2
<1> QED
  BY <1>2, AdvancedType

LEMMA InitTypes == Init => TypeOK
<1> SUFFICES ASSUME Init PROVE TypeOK
  OBVIOUS
<1>1. Frame(Target) \in Frames
  BY FrameType, NotesAssumption
<1>2. \A i \in DOMAIN stack : stack[i].left \subseteq Neighbors(stack[i].node)
  BY FrameType, NotesAssumption DEF Init
<1> QED
  BY <1>1, <1>2, NotesAssumption
  DEF Init, TypeOK, GraphTypeOK, SearchTypeOK, DetectionTypeOK

LEMMA NextTypes == TypeOK /\ [Next]_vars => TypeOK'
<1> SUFFICES ASSUME TypeOK, [Next]_vars PROVE TypeOK'
  OBVIOUS
<1> USE DEF search, detection
<1>1. edges' = edges => \A n : Neighbors(n)' = Neighbors(n)
  BY DEF Neighbors
<1>2. UNCHANGED search /\ edges' = edges => SearchTypeOK'
  BY <1>1 DEF TypeOK, SearchTypeOK
<1>3. UNCHANGED detection /\ edges' = edges => DetectionTypeOK'
  BY <1>1 DEF TypeOK, DetectionTypeOK
<1>4. ASSUME Reject PROVE TypeOK'
  BY <1>2, <1>3, <1>4 DEF Reject, TypeOK, GraphTypeOK
<1>5. ASSUME TakeNode PROVE TypeOK'
  <2>1. Head(frontier) \in DOMAIN distances /\ Tail(frontier) \in Seq(DOMAIN distances)
    BY <1>5 DEF TakeNode, TypeOK, SearchTypeOK
  <2> QED
    BY <1>1, <1>3, <1>5, <2>1 DEF TakeNode, TypeOK, GraphTypeOK, SearchTypeOK
<1>6. ASSUME EndSearch PROVE TypeOK'
  BY <1>2, <1>3, <1>6 DEF EndSearch, TypeOK, GraphTypeOK
<1>7. ASSUME Backtrack PROVE TypeOK'
  <2>1. /\ stack' \in Seq(Frames) /\ Len(stack') = Len(stack) - 1
        /\ \A i \in 1 .. Len(stack) - 1 : stack'[i] = stack[i]
    BY <1>7, AllButLastType DEF Backtrack, Detecting, TypeOK, DetectionTypeOK
  <2>2. \A i \in DOMAIN stack' : i \in DOMAIN stack /\ stack'[i] = stack[i]
    BY <1>7, <2>1, TopType, LenProperties DEF Backtrack, Detecting, TypeOK
  <2>3. edge_path' \in Seq(edges)
    BY <1>7, AllButLastType DEF Backtrack, TypeOK, DetectionTypeOK
  <2>4. DetectionTypeOK'
    BY <1>1, <1>7, <2>1, <2>2, <2>3 DEF Backtrack, TypeOK, DetectionTypeOK
  <2> QED
    BY <1>2, <1>7, <2>4 DEF Backtrack, TypeOK, GraphTypeOK
<1>8. ASSUME EndDetection PROVE TypeOK'
  BY <1>2, <1>3, <1>8 DEF EndDetection, TypeOK, GraphTypeOK
<1>9. ASSUME NEW n \in Notes, Discover(n) PROVE TypeOK'
  <2>1. n \notin DOMAIN distances /\ n # Target /\ node \in DOMAIN distances
    BY <1>9 DEF Discover, Known, TypeOK, SearchTypeOK
  <2>2. /\ DOMAIN distances' = DOMAIN distances \cup {n}
        /\ \A m \in DOMAIN distances' : distances'[m] \in Nat
    BY <1>9, <2>1 DEF Discover, TypeOK, SearchTypeOK
  <2>3. /\ discovery_order' \in Seq(Notes \ {Target})
        /\ frontier' \in Seq(DOMAIN distances')
    BY <1>9, <2>1, <2>2 DEF Discover, TypeOK, SearchTypeOK
  <2> QED
    BY <1>1, <1>3, <1>9, <2>2, <2>3 DEF Discover, TypeOK, GraphTypeOK, SearchTypeOK
<1>10. ASSUME NEW n \in Notes, SkipKnown(n) PROVE TypeOK'
  BY <1>1, <1>3, <1>10 DEF SkipKnown, TypeOK, GraphTypeOK, SearchTypeOK
<1>11. ASSUME NEW n \in Notes, CloseCycle(n) PROVE TypeOK'
  <2>1. Advanced(n) \in Seq(Frames)
    BY <1>11, AdvancedType DEF CloseCycle, Facing, Detecting, TypeOK
  <2>2. Members(Cycle(n)) \subseteq Notes \X Notes
    BY <1>11, CycleType DEF CloseCycle, Facing, Detecting, TypeOK, GraphTypeOK
  <2>3. \A i \in DOMAIN stack' : stack'[i].left \subseteq Neighbors(stack'[i].node)
    BY <1>11, AdvancedLeft DEF CloseCycle, Facing, Detecting, TypeOK
  <2>4. DetectionTypeOK'
    BY <1>1, <1>11, <2>1, <2>2, <2>3 DEF CloseCycle, TypeOK, DetectionTypeOK
  <2> QED
    BY <1>2, <1>11, <2>4 DEF CloseCycle, TypeOK, GraphTypeOK
<1>12. ASSUME NEW n \in Notes, SkipVisited(n) PROVE TypeOK'
  <2>1. Advanced(n) \in Seq(Frames)
    BY <1>12, AdvancedType DEF SkipVisited, Facing, Detecting, TypeOK
  <2>2. \A i \in DOMAIN stack' : stack'[i].left \subseteq Neighbors(stack'[i].node)
    BY <1>12, AdvancedLeft DEF SkipVisited, Facing, Detecting, TypeOK
  <2>3. DetectionTypeOK'
    BY <1>1, <1>12, <2>1, <2>2 DEF SkipVisited, TypeOK, DetectionTypeOK
  <2> QED
    BY <1>2, <1>12, <2>3 DEF SkipVisited, TypeOK, GraphTypeOK
<1>13. ASSUME NEW n \in Notes, Descend(n) PROVE TypeOK'
  <2>1. Facing(n) /\ stack # <<>> /\ Top.left \subseteq Neighbors(Top.node)
    BY <1>13, TopType DEF Descend, Facing, Detecting, TypeOK, DetectionTypeOK, Top
  <2>2. Advanced(n) \in Seq(Frames) /\ Frame(n) \in Frames
    BY <2>1, AdvancedType, FrameType DEF TypeOK
  <2>3. <<Top.node, n>> \in edges
    BY <2>1 DEF Facing, IsFirst, Neighbors
  <2>4. edge_path' \in Seq(edges) /\ stack' \in Seq(Frames)
    BY <1>13, <2>2, <2>3 DEF Descend, TypeOK, DetectionTypeOK
  <2>5. \A i \in DOMAIN stack' : stack'[i].left \subseteq Neighbors(stack'[i].node)
    <3>1. /\ DOMAIN stack' = 1 .. Len(stack) + 1
          /\ \A i \in 1 .. Len(stack) : stack'[i] = Advanced(n)[i]
          /\ stack'[Len(stack) + 1] = Frame(n)
      BY <1>13, <2>1, <2>2, AdvancedType DEF Descend, TypeOK
    <3>2. \A i \in 1 .. Len(stack) :
            Advanced(n)[i].left \subseteq Neighbors(Advanced(n)[i].node)
      BY <2>1, AdvancedLeft, AdvancedType DEF TypeOK
    <3>3. \A i \in 1 .. Len(stack) + 1 : i \in 1 .. Len(stack) \/ i = Len(stack) + 1
      BY <2>1, TopType DEF TypeOK
    <3> QED
      BY <3>1, <3>2, <3>3, FrameType
  <2>6. DetectionTypeOK'
    BY <1>1, <1>13, <2>4, <2>5 DEF Descend, TypeOK, DetectionTypeOK
  <2> QED
    BY <1>2, <1>13, <2>6 DEF Descend, TypeOK, GraphTypeOK
<1>14. ASSUME UNCHANGED vars PROVE TypeOK'
  BY <1>2, <1>3, <1>14 DEF vars, TypeOK, GraphTypeOK
<1> QED
  BY <1>4, <1>5, <1>6, <1>7, <1>8, <1>9, <1>10, <1>11, <1>12, <1>13, <1>14 DEF Next

\* Every variable of a traversal holds a value of its kind, whatever the graph
\* (evaluate_prerequisite_traversal).
THEOREM TypeCorrect == Spec => []TypeOK
BY InitTypes, NextTypes, PTL DEF Spec
-----------------------------------------------------------------------------
(***************************************************************************)
(* The search.                                                             *)
(***************************************************************************)
LEMMA NeighborReachable ==
  ASSUME GraphTypeOK, NEW n \in Reachable, NEW m \in Neighbors(n)
  PROVE  m \in Reachable
BY ReachStep DEF Reachable, Neighbors

LEMMA SearchInit == Init => SearchInv
<1> SUFFICES ASSUME Init PROVE SearchInv
  OBVIOUS
<1>1. DOMAIN distances = {Target} /\ Target \in Members(frontier)
  BY DEF Init, Members
<1>2. Target \in Reachable
  BY ReachSelf, NotesAssumption DEF Reachable
<1> QED
  BY <1>1, <1>2 DEF SearchInv, Init

LEMMA SearchNext == TypeOK /\ SearchInv /\ [Next]_vars => SearchInv'
<1> SUFFICES ASSUME TypeOK, SearchInv, [Next]_vars PROVE SearchInv'
  OBVIOUS
<1> USE DEF search, detection
<1>1. edges' = edges => Reachable' = Reachable /\ \A n : Neighbors(n)' = Neighbors(n)
  BY DEF Reachable, ReachableFrom, Closed, Neighbors
<1>2. UNCHANGED search => \A n : Pending(n)' = Pending(n)
  BY DEF Pending
<1>3. ASSUME UNCHANGED <<edges, search>>,
             pc' \in {"detecting", "done"} => frontier = <<>> /\ neighbors = {}
      PROVE  SearchInv'
  BY <1>1, <1>2, <1>3 DEF SearchInv
<1>4. ASSUME Reject PROVE SearchInv'
  BY <1>3, <1>4 DEF Reject
<1>5. ASSUME TakeNode PROVE SearchInv'
  <2>1. frontier \in Seq(DOMAIN distances) /\ frontier # <<>>
    BY <1>5 DEF TakeNode, TypeOK, SearchTypeOK
  <2>2. \A n : n \in Members(frontier) => n = node' \/ n \in Members(frontier')
    <3>1. /\ Len(frontier) \in Nat \ {0} /\ DOMAIN frontier = 1 .. Len(frontier)
          /\ node' = frontier[1]
          /\ frontier' \in Seq(DOMAIN distances) /\ DOMAIN frontier' = 1 .. Len(frontier) - 1
          /\ \A i \in 1 .. Len(frontier) - 1 : frontier'[i] = frontier[i + 1]
      BY <1>5, <2>1, EmptySeq, LenProperties, HeadTailProperties DEF TakeNode
    <3>2. ASSUME NEW i \in 1 .. Len(frontier), i # 1
          PROVE  frontier[i] \in Members(frontier')
      <4>1. i - 1 \in 1 .. Len(frontier) - 1 /\ (i - 1) + 1 = i
        BY <3>1, <3>2
      <4> QED
        BY <3>1, <4>1 DEF Members
    <3> QED
      BY <3>1, <3>2 DEF Members
  <2>3. ASSUME NEW n \in DOMAIN distances, n \notin Members(frontier')
        PROVE  Neighbors(n) \subseteq DOMAIN distances \cup Pending(n)'
    <3>1. CASE n = node'
      BY <1>1, <1>5, <3>1 DEF TakeNode, Pending
    <3>2. CASE n # node'
      <4>1. n \notin Members(frontier)
        BY <2>2, <2>3, <3>2
      <4>2. Pending(n) = {}
        BY <1>5 DEF TakeNode, Pending
      <4> QED
        BY <2>3, <4>1, <4>2 DEF SearchInv
    <3> QED
      BY <3>1, <3>2
  <2> QED
    BY <1>1, <1>5, <2>3 DEF TakeNode, Searching, SearchInv
<1>6. ASSUME EndSearch PROVE SearchInv'
  BY <1>3, <1>6 DEF EndSearch
<1>7. ASSUME Backtrack PROVE SearchInv'
  BY <1>3, <1>7 DEF Backtrack, Detecting, SearchInv
<1>8. ASSUME EndDetection PROVE SearchInv'
  BY <1>3, <1>8 DEF EndDetection, SearchInv
<1>9. ASSUME NEW n \in Notes, Discover(n) PROVE SearchInv'
  <2>1. /\ n \in neighbors /\ node \in DOMAIN distances /\ neighbors \subseteq Neighbors(node)
        /\ neighbors' = neighbors \ {n} /\ node' = node
        /\ DOMAIN distances' = DOMAIN distances \cup {n}
    BY <1>9 DEF Discover, IsFirst, TypeOK, SearchTypeOK
  <2>2. n \in Reachable
    BY <2>1, NeighborReachable DEF TypeOK, SearchInv
  <2>3. Members(frontier') = Members(frontier) \cup {n}
    <3>1. /\ frontier \in Seq(Notes) /\ Len(frontier) \in Nat
          /\ DOMAIN frontier = 1 .. Len(frontier)
      BY DEF TypeOK, SearchTypeOK
    <3>2. /\ DOMAIN frontier' = 1 .. Len(frontier) + 1
          /\ \A i \in 1 .. Len(frontier) : frontier'[i] = frontier[i]
          /\ frontier'[Len(frontier) + 1] = n
      BY <1>9, <3>1 DEF Discover
    <3>3. \A i \in 1 .. Len(frontier) + 1 : i \in 1 .. Len(frontier) \/ i = Len(frontier) + 1
      BY <3>1
    <3> QED
      BY <3>1, <3>2, <3>3 DEF Members
  <2>4. \A m : Pending(m) \subseteq Pending(m)' \cup {n}
    BY <2>1 DEF Pending
  <2>5. pc' = "searching" /\ edges' = edges
    BY <1>9 DEF Discover, Searching
  <2> QED
    BY <1>1, <2>1, <2>2, <2>3, <2>4, <2>5 DEF SearchInv
<1>10. ASSUME NEW n \in Notes, SkipKnown(n) PROVE SearchInv'
  <2>1. \A m : Pending(m) \subseteq Pending(m)' \cup DOMAIN distances
    BY <1>10 DEF SkipKnown, Pending, Known
  <2> QED
    BY <1>1, <1>10, <2>1 DEF SkipKnown, Searching, SearchInv
<1>11. ASSUME NEW n \in Notes, CloseCycle(n) \/ SkipVisited(n) \/ Descend(n) PROVE SearchInv'
  BY <1>3, <1>11 DEF CloseCycle, SkipVisited, Descend, Facing, Detecting, SearchInv
<1>12. ASSUME UNCHANGED vars PROVE SearchInv'
  BY <1>3, <1>12 DEF vars, SearchInv
<1> QED
  BY <1>4, <1>5, <1>6, <1>7, <1>8, <1>9, <1>10, <1>11, <1>12 DEF Next

LEMMA SearchEnds == TypeOK /\ SearchInv => SearchComplete
<1> SUFFICES ASSUME TypeOK, SearchInv, pc \in {"detecting", "done"}
             PROVE  DOMAIN distances = Reachable
  BY DEF SearchComplete, Reachable
<1>1. /\ Members(frontier) = {} /\ \A n : Pending(n) = {}
      /\ DOMAIN distances \subseteq Notes /\ Target \in DOMAIN distances
  BY DEF SearchInv, Members, Pending, TypeOK, SearchTypeOK
<1>2. Closed(DOMAIN distances, edges)
  BY <1>1 DEF Closed, SearchInv, Neighbors, TypeOK, GraphTypeOK
<1>3. Reachable \subseteq DOMAIN distances
  BY <1>1, <1>2, ReachLeast DEF Reachable
<1> QED
  BY <1>3 DEF SearchInv

\* The search of any graph ends knowing what can be reached from the target and nothing
\* else, cycles or not (evaluate_prerequisite_traversal).
THEOREM SearchAlwaysComplete == Spec => []SearchComplete
<1>1. Init => TypeOK /\ SearchInv
  BY InitTypes, SearchInit
<1>2. TypeOK /\ SearchInv /\ [Next]_vars => TypeOK' /\ SearchInv'
  BY NextTypes, SearchNext
<1> QED
  BY <1>1, <1>2, SearchEnds, PTL DEF Spec
-----------------------------------------------------------------------------
(***************************************************************************)
(* The detection: what a step does to the stack.                           *)
(***************************************************************************)
LEMMA StackType ==
  ASSUME DetectionTypeOK
  PROVE  /\ Len(stack) \in Nat /\ DOMAIN stack = 1 .. Len(stack)
         /\ (stack # <<>> <=> Len(stack) > 0)
         /\ Active = {stack[i].node : i \in 1 .. Len(stack)}
         /\ \A i \in 1 .. Len(stack) : stack[i].node \in Notes
<1>1. Len(stack) \in Nat /\ DOMAIN stack = 1 .. Len(stack)
  BY LenProperties DEF DetectionTypeOK
<1>2. stack # <<>> <=> Len(stack) > 0
  BY <1>1, EmptySeq DEF DetectionTypeOK
<1>3. \A i \in 1 .. Len(stack) : stack[i].node \in Notes
  <2>1. \A i \in 1 .. Len(stack) : stack[i] \in Frames
    BY ElementOfSeq DEF DetectionTypeOK
  <2> QED
    BY <2>1 DEF Frames
<1> QED
  BY <1>1, <1>2, <1>3 DEF Active

LEMMA AdvanceStep ==
  ASSUME DetectionTypeOK, stack # <<>>, NEW n, stack' = Advanced(n)
  PROVE  /\ Len(stack') = Len(stack) /\ Active' = Active
         /\ \A i \in 1 .. Len(stack) : stack'[i].node = stack[i].node
         /\ \A i \in 1 .. Len(stack) - 1 : stack'[i].left = stack[i].left
         /\ stack'[Len(stack)].left = Top.left \ {n}
<1>1. /\ Len(stack') = Len(stack) /\ DOMAIN stack' = 1 .. Len(stack)
      /\ \A i \in 1 .. Len(stack) : stack'[i].node = stack[i].node
  BY AdvancedType
<1>2. Active' = {stack'[i].node : i \in 1 .. Len(stack)}
  BY <1>1 DEF Active
<1>3. Active' = Active
  BY <1>1, <1>2, StackType
<1> QED
  BY <1>1, <1>3, AdvancedType

LEMMA PushStep ==
  ASSUME DetectionTypeOK, stack # <<>>, NEW n \in Notes, stack' = Append(Advanced(n), Frame(n))
  PROVE  /\ Len(stack') = Len(stack) + 1 /\ Active' = Active \cup {n}
         /\ \A i \in 1 .. Len(stack) : stack'[i].node = stack[i].node
         /\ \A i \in 1 .. Len(stack) - 1 : stack'[i].left = stack[i].left
         /\ stack'[Len(stack)].left = Top.left \ {n}
         /\ stack'[Len(stack) + 1].node = n /\ stack'[Len(stack) + 1].left = Neighbors(n)
<1>1. /\ Advanced(n) \in Seq(Frames) /\ Frame(n) \in Frames /\ Len(stack) \in Nat \ {0}
      /\ Len(Advanced(n)) = Len(stack)
  BY AdvancedType, FrameType, StackType
<1>2. /\ Len(stack') = Len(stack) + 1 /\ DOMAIN stack' = 1 .. Len(stack) + 1
      /\ \A i \in 1 .. Len(stack) : stack'[i] = Advanced(n)[i]
      /\ stack'[Len(stack) + 1] = Frame(n)
  BY <1>1
<1>3. /\ \A i \in 1 .. Len(stack) : stack'[i].node = stack[i].node
      /\ \A i \in 1 .. Len(stack) - 1 : stack'[i].left = stack[i].left
      /\ stack'[Len(stack)].left = Top.left \ {n}
  <2>1. Len(stack) \in 1 .. Len(stack) /\ 1 .. Len(stack) - 1 \subseteq 1 .. Len(stack)
    BY <1>1
  <2>2. /\ \A i \in 1 .. Len(stack) : Advanced(n)[i].node = stack[i].node
        /\ \A i \in 1 .. Len(stack) - 1 : Advanced(n)[i] = stack[i]
        /\ Advanced(n)[Len(stack)].left = Top.left \ {n}
    BY AdvancedType
  <2> QED
    BY <1>2, <2>1, <2>2
<1>4. stack'[Len(stack) + 1].node = n /\ stack'[Len(stack) + 1].left = Neighbors(n)
  BY <1>2, FrameType
<1>5. Active' = Active \cup {n}
  <2>1. Active' = {stack'[i].node : i \in 1 .. Len(stack) + 1}
    BY <1>2 DEF Active
  <2>2. \A i \in 1 .. Len(stack) + 1 : i \in 1 .. Len(stack) \/ i = Len(stack) + 1
    BY <1>1
  <2>3. 1 .. Len(stack) \subseteq 1 .. Len(stack) + 1 /\ Len(stack) + 1 \in 1 .. Len(stack) + 1
    BY <1>1
  <2> QED
    <3>1. \A x : x \in Active' => x \in Active \cup {n}
      BY <1>3, <1>4, <2>1, <2>2, StackType
    <3>2. n \in Active' /\ Active \subseteq Active'
      BY <1>3, <1>4, <2>1, <2>3, StackType
    <3> QED
      BY <3>1, <3>2
<1> QED
  BY <1>2, <1>3, <1>4, <1>5

LEMMA PopStep ==
  ASSUME DetectionTypeOK, PathInv, stack # <<>>, stack' = AllButLast(stack)
  PROVE  /\ Len(stack') = Len(stack) - 1 /\ Active' = Active \ {Top.node}
         /\ \A i \in 1 .. Len(stack) - 1 : stack'[i] = stack[i]
<1>1. /\ stack' \in Seq(Frames) /\ Len(stack') = Len(stack) - 1
      /\ \A i \in 1 .. Len(stack) - 1 : stack'[i] = stack[i]
  BY AllButLastType DEF DetectionTypeOK
<1>2. Len(stack) \in Nat \ {0} /\ Top = stack[Len(stack)]
  BY StackType DEF Top
<1>3. Active' = {stack'[i].node : i \in 1 .. Len(stack) - 1}
  BY <1>1, LenProperties DEF Active
<1>4. \A i \in 1 .. Len(stack) - 1 :
        i \in 1 .. Len(stack) /\ stack[i].node # Top.node
  BY <1>2 DEF PathInv
<1>5. \A i \in 1 .. Len(stack) : i = Len(stack) \/ i \in 1 .. Len(stack) - 1
  BY <1>2
<1>6. Active = {stack[i].node : i \in 1 .. Len(stack)}
  BY StackType
<1>7. Active' = Active \ {Top.node}
  BY <1>1, <1>2, <1>3, <1>4, <1>5, <1>6
<1> QED
  BY <1>1, <1>7
-----------------------------------------------------------------------------
(***************************************************************************)
(* The detection: its invariants.                                          *)
(***************************************************************************)
DetectionInv == PathInv /\ ListedInv /\ FinishInv

LEMMA DetectionInit == Init => DetectionInv
<1> SUFFICES ASSUME Init PROVE DetectionInv
  OBVIOUS
<1>1. /\ Len(stack) = 1 /\ DOMAIN stack = {1} /\ stack[1].node = Target
      /\ stack[1].left = Neighbors(Target) /\ Active = {Target}
  <2>1. stack = <<Frame(Target)>>
    BY DEF Init
  <2>2. Len(stack) = 1 /\ DOMAIN stack = {1} /\ stack[1] = Frame(Target)
    BY <2>1
  <2> QED
    BY <2>2, FrameType, NotesAssumption DEF Active
<1>2. \A i : i \in 1 .. 1 <=> i = 1
  OBVIOUS
<1>3. PathInv
  BY <1>1, <1>2, ReachSelf, NotesAssumption DEF PathInv, Init
<1>4. ListedInv
  BY DEF ListedInv, CycleEdgesOnCycles, Init
<1>5. Finished = {} /\ pc # "done"
  BY <1>1 DEF Finished, Init
<1>6. FinishInv
  BY <1>1, <1>2, <1>5 DEF FinishInv, Acyclic
<1> QED
  BY <1>3, <1>4, <1>6 DEF DetectionInv

\* What the actions that look at an edge have in common.
LEMMA FacingFacts ==
  ASSUME TypeOK, NEW n \in Notes, Facing(n)
  PROVE  /\ pc = "detecting" /\ stack # <<>> /\ DetectionTypeOK /\ edges \subseteq Notes \X Notes
         /\ Len(stack) \in Nat \ {0} /\ Top = stack[Len(stack)] /\ Top.node \in Active
         /\ n \in Top.left /\ n \in Neighbors(Top.node) /\ <<Top.node, n>> \in edges
<1>1. pc = "detecting" /\ stack # <<>> /\ DetectionTypeOK /\ n \in Top.left
  BY DEF Facing, Detecting, IsFirst, TypeOK
<1>2. Len(stack) \in Nat \ {0} /\ Top = stack[Len(stack)] /\ Len(stack) \in DOMAIN stack
  BY <1>1, StackType DEF Top
<1>3. Top.node \in Active
  BY <1>1, TopType
<1>4. n \in Neighbors(Top.node)
  BY <1>1, <1>2 DEF DetectionTypeOK
<1> QED
  BY <1>1, <1>2, <1>3, <1>4 DEF Neighbors, TypeOK, GraphTypeOK

LEMMA SameGraph ==
  ASSUME edges' = edges
  PROVE  /\ \A n : Neighbors(n)' = Neighbors(n)
         /\ \A n, E : ReachableFrom(n, E)' = ReachableFrom(n, E)
         /\ \A n : ReachableFrom(n, edges)' = ReachableFrom(n, edges)
BY DEF Neighbors, ReachableFrom, Closed

LEMMA AdvanceKeepsPath ==
  ASSUME TypeOK, PathInv, NEW n \in Notes, Facing(n), stack' = Advanced(n),
         UNCHANGED <<edges, visited, edge_path>>
  PROVE  PathInv'
<1>1. stack # <<>> /\ DetectionTypeOK
  BY FacingFacts
<1> QED
  BY <1>1, AdvanceStep, SameGraph DEF PathInv

LEMMA PathNext == TypeOK /\ PathInv /\ [Next]_vars => PathInv'
<1> SUFFICES ASSUME TypeOK, PathInv, [Next]_vars PROVE PathInv'
  OBVIOUS
<1> USE DEF search, detection
<1>1. ASSUME UNCHANGED <<edges, detection>> PROVE PathInv'
  BY <1>1, SameGraph DEF PathInv, Active
<1>2. ASSUME Reject \/ TakeNode \/ EndSearch \/ EndDetection PROVE PathInv'
  BY <1>1, <1>2 DEF Reject, TakeNode, EndSearch, EndDetection
<1>3. ASSUME NEW n \in Notes, Discover(n) \/ SkipKnown(n) PROVE PathInv'
  BY <1>1, <1>3 DEF Discover, SkipKnown
<1>4. ASSUME Backtrack PROVE PathInv'
  <2>1. /\ stack # <<>> /\ DetectionTypeOK /\ stack' = AllButLast(stack)
        /\ visited' = visited /\ edges' = edges
    BY <1>4 DEF Backtrack, Detecting, TypeOK
  <2>2. Len(stack) \in Nat \ {0}
    BY <2>1, StackType
  <2>3. /\ Len(stack') = Len(stack) - 1 /\ Active' = Active \ {Top.node}
        /\ \A i \in 1 .. Len(stack) - 1 : stack'[i] = stack[i]
    BY <2>1, PopStep
  <2>4. /\ Len(edge_path') = IF Len(stack') = 0 THEN 0 ELSE Len(stack') - 1
        /\ \A i \in 1 .. Len(stack') - 1 : edge_path'[i] = edge_path[i]
    <3>1. edge_path \in Seq(edges) /\ Len(edge_path) = Len(stack) - 1
      BY <2>1, <2>2 DEF DetectionTypeOK, PathInv
    <3>2. CASE Len(edge_path) = 0
      <4>1. edge_path = <<>>
        BY <3>1, <3>2, EmptySeq
      <4>2. edge_path' = <<>>
        BY <1>4, <4>1 DEF Backtrack
      <4>3. Len(stack') = 0
        BY <2>2, <2>3, <3>1, <3>2
      <4>4. Len(edge_path') = 0
        BY <4>2
      <4>5. 1 .. Len(stack') - 1 = {}
        BY <4>3
      <4> QED
        BY <4>3, <4>4, <4>5
    <3>3. CASE Len(edge_path) # 0
      <4>1. edge_path # <<>>
        BY <3>3
      <4>2. edge_path' = AllButLast(edge_path)
        BY <1>4, <4>1 DEF Backtrack
      <4>3. /\ Len(edge_path') = Len(edge_path) - 1
            /\ \A i \in 1 .. Len(edge_path) - 1 : edge_path'[i] = edge_path[i]
        BY <3>1, <4>1, <4>2, AllButLastType
      <4> QED
        BY <2>2, <2>3, <3>1, <3>3, <4>3
    <3> QED
      BY <3>2, <3>3
  <2>5. \A i \in 1 .. Len(stack') : i \in 1 .. Len(stack) /\ i \in 1 .. Len(stack) - 1
    BY <2>2, <2>3
  <2>6. \A i \in 1 .. Len(stack') - 1 :
          i \in 1 .. Len(stack) - 1 /\ i + 1 \in 1 .. Len(stack) - 1
    BY <2>2, <2>3
  <2>7. \A i \in 1 .. Len(stack') - 1 : edge_path'[i] = <<stack'[i].node, stack'[i + 1].node>>
    BY <2>3, <2>4, <2>6 DEF PathInv
  <2>8. \A i \in 1 .. Len(stack') : \A j \in i .. Len(stack') :
          j \in i .. Len(stack) /\ j \in 1 .. Len(stack')
    BY <2>2, <2>3
  <2>9. \A i \in 1 .. Len(stack') : \A j \in i .. Len(stack') :
          stack'[j].node \in ReachableFrom(stack'[i].node, edges)
    BY <2>3, <2>5, <2>8 DEF PathInv
  <2>10. Active' \subseteq visited'
    BY <2>1, <2>3 DEF PathInv
  <2>11. \A i, j \in 1 .. Len(stack') : stack'[i].node = stack'[j].node => i = j
    BY <2>3, <2>5 DEF PathInv
  <2>12. \A i \in 1 .. Len(stack') : \A j \in i .. Len(stack') :
           stack'[j].node \in ReachableFrom(stack'[i].node, edges')
    BY <2>1, <2>9
  <2>13. \A n : ReachableFrom(n, edges)' = ReachableFrom(n, edges')
    BY <2>1, SameGraph
  <2> QED
    BY <2>4, <2>7, <2>10, <2>11, <2>12, <2>13 DEF PathInv
<1>5. ASSUME NEW n \in Notes, CloseCycle(n) \/ SkipVisited(n) PROVE PathInv'
  BY <1>5, AdvanceKeepsPath DEF CloseCycle, SkipVisited
<1>6. ASSUME NEW n \in Notes, Descend(n) PROVE PathInv'
  <2>1. /\ Facing(n) /\ n \notin visited /\ stack' = Append(Advanced(n), Frame(n))
        /\ visited' = visited \cup {n} /\ edges' = edges
        /\ edge_path' = Append(edge_path, <<Top.node, n>>)
    BY <1>6 DEF Descend
  <2>2. /\ Len(stack) \in Nat \ {0} /\ stack # <<>> /\ DetectionTypeOK
        /\ Top = stack[Len(stack)] /\ <<Top.node, n>> \in edges
    BY <2>1, FacingFacts
  <2>3. /\ Len(stack') = Len(stack) + 1 /\ Active' = Active \cup {n}
        /\ \A i \in 1 .. Len(stack) : stack'[i].node = stack[i].node
        /\ stack'[Len(stack) + 1].node = n
    BY <2>1, <2>2, PushStep
  <2>4. \A i \in 1 .. Len(stack) + 1 : i \in 1 .. Len(stack) \/ i = Len(stack) + 1
    BY <2>2
  <2>5. \A i \in 1 .. Len(stack) : stack[i].node # n
    BY <2>1, <2>2, StackType DEF PathInv
  <2>6. \A i, j \in 1 .. Len(stack') : stack'[i].node = stack'[j].node => i = j
    BY <2>3, <2>4, <2>5 DEF PathInv
  <2>7. /\ Len(edge_path') = Len(stack') - 1
        /\ \A i \in 1 .. Len(stack) - 1 : edge_path'[i] = edge_path[i]
        /\ edge_path'[Len(stack)] = <<Top.node, n>>
    <3>1. edge_path \in Seq(edges) /\ Len(edge_path) = Len(stack) - 1
      BY <2>2 DEF DetectionTypeOK, PathInv
    <3> QED
      BY <2>1, <2>2, <2>3, <3>1
  <2>8. \A i \in 1 .. Len(stack') - 1 : edge_path'[i] = <<stack'[i].node, stack'[i + 1].node>>
    <3>1. ASSUME NEW i \in 1 .. Len(stack') - 1
          PROVE  edge_path'[i] = <<stack'[i].node, stack'[i + 1].node>>
      <4>1. CASE i = Len(stack)
        BY <2>2, <2>3, <2>7, <4>1
      <4>2. CASE i # Len(stack)
        <5>1. i \in 1 .. Len(stack) - 1 /\ i \in 1 .. Len(stack) /\ i + 1 \in 1 .. Len(stack)
          BY <2>2, <2>3, <4>2
        <5> QED
          BY <2>3, <2>7, <5>1 DEF PathInv
      <4> QED
        BY <4>1, <4>2
    <3> QED
      BY <3>1
  <2>9. \A i \in 1 .. Len(stack') : \A j \in i .. Len(stack') :
          stack'[j].node \in ReachableFrom(stack'[i].node, edges)
    <3>1. ASSUME NEW i \in 1 .. Len(stack') , NEW j \in i .. Len(stack')
          PROVE  stack'[j].node \in ReachableFrom(stack'[i].node, edges)
      <4>1. CASE i = Len(stack) + 1
        <5>1. j = Len(stack) + 1
          BY <2>2, <2>3, <4>1
        <5> QED
          BY <2>3, <4>1, <5>1, ReachSelf
      <4>2. CASE i \in 1 .. Len(stack) /\ j \in i .. Len(stack)
        <5>1. j \in 1 .. Len(stack)
          BY <2>2, <4>2
        <5> QED
          BY <2>3, <4>2, <5>1 DEF PathInv
      <4>3. CASE i \in 1 .. Len(stack) /\ j = Len(stack) + 1
        <5>1. Len(stack) \in i .. Len(stack) /\ Len(stack) \in 1 .. Len(stack)
          BY <2>2, <4>3
        <5>2. Top.node \in ReachableFrom(stack[i].node, edges)
          BY <2>2, <4>3, <5>1 DEF PathInv
        <5> QED
          BY <2>2, <2>3, <4>3, <5>2, ReachStep
      <4> QED
        BY <2>2, <2>3, <4>1, <4>2, <4>3
    <3> QED
      BY <3>1
  <2> QED
    BY <2>1, <2>2, <2>3, <2>6, <2>7, <2>8, <2>9, SameGraph DEF PathInv
<1>7. ASSUME UNCHANGED vars PROVE PathInv'
  BY <1>1, <1>7 DEF vars
<1> QED
  BY <1>2, <1>3, <1>4, <1>5, <1>6, <1>7 DEF Next

LEMMA ListedNext == TypeOK /\ PathInv /\ ListedInv /\ [Next]_vars => ListedInv'
<1> SUFFICES ASSUME TypeOK, PathInv, ListedInv, [Next]_vars PROVE ListedInv'
  OBVIOUS
<1> USE DEF search, detection
<1>1. ASSUME UNCHANGED <<edges, cycle_edge_set>>, visited \subseteq visited' PROVE ListedInv'
  BY <1>1, SameGraph DEF ListedInv, CycleEdgesOnCycles
<1>2. ASSUME Reject \/ TakeNode \/ EndSearch \/ EndDetection \/ Backtrack PROVE ListedInv'
  BY <1>1, <1>2 DEF Reject, TakeNode, EndSearch, EndDetection, Backtrack
<1>3. ASSUME NEW n \in Notes, Discover(n) \/ SkipKnown(n) \/ SkipVisited(n) \/ Descend(n)
      PROVE  ListedInv'
  BY <1>1, <1>3 DEF Discover, SkipKnown, SkipVisited, Descend
<1>4. ASSUME NEW n \in Notes, CloseCycle(n) PROVE ListedInv'
  <2>1. /\ Facing(n) /\ n \in Active /\ edges' = edges /\ visited' = visited
        /\ cycle_edge_set' = cycle_edge_set \cup Members(Cycle(n))
    BY <1>4 DEF CloseCycle
  <2>2. /\ stack # <<>> /\ DetectionTypeOK /\ Len(stack) \in Nat \ {0}
        /\ Top = stack[Len(stack)] /\ <<Top.node, n>> \in edges
    BY <2>1, FacingFacts
  <2> DEFINE p == Place(n)
  <2>3. p \in 1 .. Len(stack) /\ stack[p].node = n
    BY <2>1, <2>2, CycleMembers, StackType
  <2> HIDE DEF p
  <2>4. \A i \in 1 .. Len(stack) : Top.node \in ReachableFrom(stack[i].node, edges)
    <3>1. \A i \in 1 .. Len(stack) : Len(stack) \in i .. Len(stack)
      BY <2>2
    <3> QED
      BY <2>2, <3>1 DEF PathInv
  <2>5. \A i \in 1 .. Len(stack) : stack[i].node \in visited
    BY <2>2, StackType DEF PathInv
  <2>6. ASSUME NEW e \in Members(Cycle(n))
        PROVE  /\ e \in edges /\ e[1] \in ReachableFrom(e[2], edges)
               /\ e[1] \in visited /\ e[2] \in visited
    <3>1. CASE e = <<Top.node, n>>
      BY <2>2, <2>3, <2>4, <2>5, <3>1
    <3>2. CASE e # <<Top.node, n>>
      <4>1. PICK i \in p .. Len(edge_path) : e = edge_path[i]
        BY <2>1, <2>2, <2>6, <3>2, CycleMembers DEF p
      <4>2. /\ i \in p .. Len(stack) - 1 /\ i \in 1 .. Len(stack) - 1
            /\ i \in 1 .. Len(stack) /\ i + 1 \in 1 .. Len(stack) /\ i \in p .. Len(stack)
            /\ i \in 1 .. Len(edge_path)
        BY <2>2, <2>3, <4>1 DEF PathInv
      <4>3. e = <<stack[i].node, stack[i + 1].node>>
        BY <4>1, <4>2 DEF PathInv
      <4>4. e \in edges
        BY <2>2, <4>1, <4>2, ElementOfSeq DEF DetectionTypeOK
      <4>5. Top.node \in ReachableFrom(stack[i + 1].node, edges) /\ n \in Notes
        BY <2>4, <4>2
      <4>6. n \in ReachableFrom(stack[i + 1].node, edges)
        BY <2>2, <4>5, ReachStep
      <4>7. stack[i].node \in ReachableFrom(n, edges)
        BY <2>3, <4>2 DEF PathInv
      <4>8. stack[i].node \in ReachableFrom(stack[i + 1].node, edges)
        BY <4>6, <4>7, ReachTransitive
      <4> QED
        BY <2>5, <4>2, <4>3, <4>4, <4>8
    <3> QED
      BY <3>1, <3>2
  <2>7. \A e \in cycle_edge_set' :
          /\ e \in edges /\ e[1] \in ReachableFrom(e[2], edges)
          /\ e[1] \in visited /\ e[2] \in visited
    BY <2>1, <2>6 DEF ListedInv, CycleEdgesOnCycles
  <2> QED
    BY <2>1, <2>7, SameGraph DEF ListedInv, CycleEdgesOnCycles
<1>5. ASSUME UNCHANGED vars PROVE ListedInv'
  BY <1>1, <1>5 DEF vars
<1> QED
  BY <1>2, <1>3, <1>4, <1>5 DEF Next

LEMMA FinishNext == TypeOK /\ PathInv /\ FinishInv /\ [Next]_vars => FinishInv'
<1> SUFFICES ASSUME TypeOK, PathInv, FinishInv, [Next]_vars PROVE FinishInv'
  OBVIOUS
<1> USE DEF search, detection
<1>1. ASSUME UNCHANGED <<edges, detection>>, pc' = "done" => stack = <<>> PROVE FinishInv'
  <2>1. Finished' = Finished /\ Unlisted' = Unlisted
    BY <1>1 DEF Finished, Unlisted, Active
  <2> QED
    BY <1>1, <2>1, SameGraph DEF FinishInv, Acyclic
<1>2. ASSUME Reject \/ TakeNode \/ EndSearch \/ EndDetection PROVE FinishInv'
  BY <1>1, <1>2 DEF Reject, TakeNode, EndSearch, EndDetection, Searching
<1>3. ASSUME NEW n \in Notes, Discover(n) \/ SkipKnown(n) PROVE FinishInv'
  BY <1>1, <1>3 DEF Discover, SkipKnown, Searching
<1>4. ASSUME Backtrack PROVE FinishInv'
  <2>1. /\ stack # <<>> /\ DetectionTypeOK /\ stack' = AllButLast(stack) /\ Top.left = {}
        /\ UNCHANGED <<edges, visited, cycle_edge_set, pc>> /\ pc = "detecting"
    BY <1>4 DEF Backtrack, Detecting, TypeOK
  <2>2. Len(stack) \in Nat \ {0} /\ Top = stack[Len(stack)] /\ Top.node \in Active
    BY <2>1, StackType, TopType DEF Top
  <2>3. /\ Len(stack') = Len(stack) - 1 /\ Active' = Active \ {Top.node}
        /\ \A i \in 1 .. Len(stack) - 1 : stack'[i] = stack[i]
    BY <2>1, PopStep
  <2>4. Finished' = Finished \cup {Top.node} /\ Unlisted' = Unlisted /\ Top.node \notin Finished
    BY <2>1, <2>2, <2>3 DEF Finished, Unlisted, PathInv
  <2>5. \A m : <<Top.node, m>> \in Unlisted => m \in Finished
    <3>1. \A m : <<Top.node, m>> \in Unlisted => m \in Neighbors(Top.node)
      BY DEF Unlisted, Neighbors, TypeOK, GraphTypeOK
    <3>2. Len(stack) \in 1 .. Len(stack) /\ ~(Len(stack) < Len(stack))
      BY <2>2
    <3> QED
      BY <2>1, <2>2, <3>1, <3>2 DEF FinishInv, Unlisted
  <2>6. \A n \in Finished \cup {Top.node} : \A m : <<n, m>> \in Unlisted => m \in Finished
    <3>1. \A n, m : <<n, m>> \in Unlisted => m \in Notes
      BY DEF Unlisted, TypeOK, GraphTypeOK
    <3> QED
      BY <2>5, <3>1 DEF FinishInv
  <2>7. Acyclic(Finished, Unlisted)'
    <3>1. Acyclic(Finished \cup {Top.node}, Unlisted)
      BY <2>4, <2>6, AcyclicGrows DEF FinishInv
    <3> QED
      BY <2>4, <3>1 DEF Acyclic
  <2>8. ASSUME NEW i \in 1 .. Len(stack'), NEW m \in Neighbors(stack'[i].node) \ stack'[i].left
        PROVE  \/ <<stack'[i].node, m>> \in cycle_edge_set
               \/ m \in Finished'
               \/ i < Len(stack') /\ m = stack'[i + 1].node
    <3>1. i \in 1 .. Len(stack) /\ i \in 1 .. Len(stack) - 1
      BY <2>2, <2>3
    <3>2. \/ <<stack[i].node, m>> \in cycle_edge_set
          \/ m \in Finished
          \/ i < Len(stack) /\ m = stack[i + 1].node
      BY <2>3, <2>8, <3>1 DEF FinishInv
    <3>3. CASE i + 1 = Len(stack)
      BY <2>2, <2>3, <2>4, <3>1, <3>2, <3>3
    <3>4. CASE i + 1 # Len(stack)
      <4>1. i < Len(stack') /\ i + 1 \in 1 .. Len(stack) - 1
        BY <2>2, <2>3, <3>1, <3>4
      <4> QED
        BY <2>3, <2>4, <3>1, <3>2, <4>1
    <3> QED
      BY <3>3, <3>4
  <2> QED
    BY <2>1, <2>4, <2>6, <2>7, <2>8, SameGraph DEF FinishInv
<1>5. ASSUME NEW n \in Notes, CloseCycle(n) \/ SkipVisited(n) PROVE FinishInv'
  <2>1. /\ Facing(n) /\ stack' = Advanced(n) /\ UNCHANGED <<edges, visited, pc>>
        /\ cycle_edge_set \subseteq cycle_edge_set'
    BY <1>5 DEF CloseCycle, SkipVisited
  <2>2. /\ stack # <<>> /\ DetectionTypeOK /\ pc = "detecting"
        /\ Len(stack) \in Nat \ {0} /\ Top = stack[Len(stack)]
    BY <2>1, FacingFacts
  <2>3. /\ Len(stack') = Len(stack) /\ Active' = Active
        /\ \A i \in 1 .. Len(stack) : stack'[i].node = stack[i].node
        /\ \A i \in 1 .. Len(stack) - 1 : stack'[i].left = stack[i].left
        /\ stack'[Len(stack)].left = Top.left \ {n}
    BY <2>1, <2>2, AdvanceStep
  <2>4. Finished' = Finished /\ Unlisted' \subseteq Unlisted
    BY <2>1, <2>3 DEF Finished, Unlisted
  <2>5. <<Top.node, n>> \in cycle_edge_set' \/ n \in Finished
    BY <1>5, <2>2, CycleMembers DEF CloseCycle, SkipVisited, Finished
  <2>6. Acyclic(Finished, Unlisted)'
    <3>1. Acyclic(Finished, Unlisted')
      BY <2>4, AcyclicShrinks DEF FinishInv
    <3> QED
      BY <2>4, <3>1 DEF Acyclic
  <2>7. ASSUME NEW i \in 1 .. Len(stack), NEW m \in Neighbors(stack[i].node) \ stack'[i].left
        PROVE  \/ <<stack[i].node, m>> \in cycle_edge_set'
               \/ m \in Finished
               \/ i < Len(stack) /\ m = stack[i + 1].node
    <3>1. CASE i = Len(stack) /\ m = n
      BY <2>2, <2>5, <3>1
    <3>2. CASE m \notin stack[i].left
      BY <2>1, <2>7, <3>2 DEF FinishInv
    <3>3. CASE i # Len(stack)
      <4>1. i \in 1 .. Len(stack) - 1
        BY <2>2, <3>3
      <4> QED
        BY <2>3, <2>7, <3>2, <4>1
    <3> QED
      BY <2>2, <2>3, <2>7, <3>1, <3>2, <3>3
  <2>8. \A i \in 1 .. Len(stack) : i < Len(stack) => i + 1 \in 1 .. Len(stack)
    BY <2>2
  <2>9. \A i \in 1 .. Len(stack') : \A m \in Neighbors(stack'[i].node) \ stack'[i].left :
          \/ <<stack'[i].node, m>> \in cycle_edge_set'
          \/ m \in Finished
          \/ i < Len(stack') /\ m = stack'[i + 1].node
    BY <2>3, <2>7, <2>8
  <2> QED
    BY <2>1, <2>2, <2>4, <2>6, <2>9, SameGraph DEF FinishInv
<1>6. ASSUME NEW n \in Notes, Descend(n) PROVE FinishInv'
  <2>1. /\ Facing(n) /\ n \notin visited /\ stack' = Append(Advanced(n), Frame(n))
        /\ visited' = visited \cup {n} /\ UNCHANGED <<edges, cycle_edge_set, pc>>
    BY <1>6 DEF Descend
  <2>2. /\ stack # <<>> /\ DetectionTypeOK /\ pc = "detecting"
        /\ Len(stack) \in Nat \ {0} /\ Top = stack[Len(stack)]
    BY <2>1, FacingFacts
  <2>3. /\ Len(stack') = Len(stack) + 1 /\ Active' = Active \cup {n}
        /\ \A i \in 1 .. Len(stack) : stack'[i].node = stack[i].node
        /\ \A i \in 1 .. Len(stack) - 1 : stack'[i].left = stack[i].left
        /\ stack'[Len(stack)].left = Top.left \ {n}
        /\ stack'[Len(stack) + 1].node = n /\ stack'[Len(stack) + 1].left = Neighbors(n)
    BY <2>1, <2>2, PushStep
  <2>4. Finished' = Finished /\ Unlisted' = Unlisted
    BY <2>1, <2>3 DEF Finished, Unlisted, PathInv
  <2>5. ASSUME NEW i \in 1 .. Len(stack'), NEW m \in Neighbors(stack'[i].node) \ stack'[i].left
        PROVE  \/ <<stack'[i].node, m>> \in cycle_edge_set
               \/ m \in Finished
               \/ i < Len(stack') /\ m = stack'[i + 1].node
    <3>1. CASE i = Len(stack) + 1
      BY <2>3, <2>5, <3>1
    <3>2. CASE i = Len(stack)
      <4>1. i \in 1 .. Len(stack) /\ i < Len(stack') /\ ~(i < Len(stack))
        BY <2>2, <2>3, <3>2
      <4>2. CASE m = n
        BY <2>3, <3>2, <4>1, <4>2
      <4>3. CASE m # n
        <5>1. m \in Neighbors(stack[i].node) \ stack[i].left
          BY <2>2, <2>3, <2>5, <3>2, <4>1, <4>3
        <5> QED
          BY <2>3, <4>1, <5>1 DEF FinishInv
      <4> QED
        BY <4>2, <4>3
    <3>3. CASE i \in 1 .. Len(stack) - 1
      <4>1. /\ i \in 1 .. Len(stack) /\ i + 1 \in 1 .. Len(stack) /\ i < Len(stack')
        BY <2>2, <2>3, <3>3
      <4>2. m \in Neighbors(stack[i].node) \ stack[i].left
        BY <2>3, <2>5, <3>3, <4>1
      <4> QED
        BY <2>3, <4>1, <4>2 DEF FinishInv
    <3> QED
      BY <2>2, <2>3, <3>1, <3>2, <3>3
  <2>6. Acyclic(Finished, Unlisted)'
    BY <2>4 DEF FinishInv, Acyclic
  <2> QED
    BY <2>1, <2>2, <2>4, <2>5, <2>6, SameGraph DEF FinishInv
<1>7. ASSUME UNCHANGED vars PROVE FinishInv'
  BY <1>1, <1>7 DEF vars, FinishInv
<1> QED
  BY <1>2, <1>3, <1>4, <1>5, <1>6, <1>7 DEF Next

LEMMA DetectionNext == TypeOK /\ DetectionInv /\ [Next]_vars => DetectionInv'
BY PathNext, ListedNext, FinishNext DEF DetectionInv

\* Every listed edge is on a cycle of the graph, at every moment of the detection
\* (_detect_prerequisite_cycles).
THEOREM CycleEdgesAlwaysOnCycles == Spec => []CycleEdgesOnCycles
<1>1. DetectionInv => CycleEdgesOnCycles
  BY DEF DetectionInv, ListedInv
<1>2. Init => TypeOK /\ DetectionInv
  BY InitTypes, DetectionInit
<1>3. TypeOK /\ DetectionInv /\ [Next]_vars => TypeOK' /\ DetectionInv'
  BY NextTypes, DetectionNext
<1> QED
  BY <1>1, <1>2, <1>3, PTL DEF Spec

LEMMA DetectionEnds == TypeOK /\ DetectionInv => EveryCycleHit
<1> SUFFICES ASSUME TypeOK, PathInv, ListedInv, FinishInv, pc = "done"
             PROVE  Acyclic(Reachable, Unlisted)
  BY DEF EveryCycleHit, Done, DetectionInv, Reachable, Unlisted
<1>1. Active = {} /\ Finished = visited
  BY DEF FinishInv, Active, Finished
<1>2. Closed(visited, edges) /\ Target \in visited /\ visited \in SUBSET Notes
  <2>1. ASSUME NEW e \in edges, e[1] \in visited PROVE e[2] \in visited
    <3>1. e = <<e[1], e[2]>> /\ e[2] \in Notes
      BY DEF TypeOK, GraphTypeOK
    <3>2. CASE e \in cycle_edge_set
      BY <3>2 DEF ListedInv
    <3>3. CASE e \notin cycle_edge_set
      BY <1>1, <2>1, <3>1, <3>3 DEF FinishInv, Unlisted
    <3> QED
      BY <3>2, <3>3
  <2> QED
    BY <2>1 DEF Closed, TypeOK, DetectionTypeOK
<1>3. Reachable \subseteq visited
  BY <1>2, ReachLeast DEF Reachable
<1> QED
  BY <1>1, <1>3, AcyclicShrinks DEF FinishInv

\* When the detection ends, what can be reached from the target has no cycle left among
\* the edges it did not list (_detect_prerequisite_cycles).
THEOREM EveryCycleAlwaysHit == Spec => []EveryCycleHit
<1>1. Init => TypeOK /\ DetectionInv
  BY InitTypes, DetectionInit
<1>2. TypeOK /\ DetectionInv /\ [Next]_vars => TypeOK' /\ DetectionInv'
  BY NextTypes, DetectionNext
<1> QED
  BY <1>1, <1>2, DetectionEnds, PTL DEF Spec
=============================================================================
