--------------------- MODULE PrerequisiteEndingProofs ----------------------
(***************************************************************************)
(* For every graph, target and depth limit: the two searches of module     *)
(* PrerequisiteTraversal come to an end.  Each step makes a natural number *)
(* smaller, and until the end there is a step to take.                     *)
(***************************************************************************)
EXTENDS PrerequisiteEvidenceProofs

N == Cardinality(Notes)

\* A note enters the frontier once, and brings at most N neighbours.
SearchRank ==
  (N + 1) * (Cardinality(Notes \ DOMAIN distances) + Len(frontier)) + Cardinality(neighbors)

\* The neighbours left on the stack, with the places they wait at.
Waiting == UNION {{i} \X stack[i].left : i \in DOMAIN stack}

\* A note enters the stack once, and brings at most N neighbours.
DetectionRank == (N + 2) * Cardinality(Notes \ visited) + Cardinality(Waiting) + Len(stack)

PhaseRank == CASE pc = "searching" -> 2 [] pc = "detecting" -> 1 [] OTHER -> 0

Rank == SearchRank + DetectionRank + PhaseRank
-----------------------------------------------------------------------------
(***************************************************************************)
(* Counting.                                                               *)
(***************************************************************************)
LEMMA Distributes == \A k, x \in Nat : k * (x + 1) = k * x + k /\ k * x \in Nat
OBVIOUS

LEMMA SmallerSum ==
  \A a, b, c, m \in Nat :
    /\ m < a => m + b + c < a + b + c
    /\ m < b => a + m + c < a + b + c
    /\ m < c => a + b + m < a + b + c
OBVIOUS

LEMMA NotesCounted ==
  ASSUME NEW S \in SUBSET Notes
  PROVE  IsFiniteSet(S) /\ N \in Nat /\ Cardinality(S) \in 0 .. N
<1>1. IsFiniteSet(S) /\ Cardinality(S) <= N /\ N \in Nat
  BY NotesAssumption, FS_Subset, FS_CardinalityType DEF N
<1> QED
  BY <1>1, FS_CardinalityType

LEMMA OneLess ==
  ASSUME NEW S, IsFiniteSet(S), NEW x \in S
  PROVE  Cardinality(S \ {x}) + 1 = Cardinality(S)
<1>1. Cardinality(S \ {x}) = Cardinality(S) - 1 /\ Cardinality(S) \in Nat
  BY FS_RemoveElement, FS_CardinalityType
<1> QED
  BY <1>1

LEMMA WaitingMembers ==
  ASSUME DetectionTypeOK, NEW w
  PROVE  w \in Waiting <=> \E i \in 1 .. Len(stack) : \E m \in stack[i].left : w = <<i, m>>
BY StackType DEF Waiting

LEMMA WaitingFinite ==
  ASSUME DetectionTypeOK
  PROVE  IsFiniteSet(Waiting) /\ Cardinality(Waiting) \in Nat
<1>1. Len(stack) \in Nat /\ \A i \in 1 .. Len(stack) : stack[i].left \subseteq Notes
  BY StackType DEF DetectionTypeOK, Neighbors
<1>2. Waiting \subseteq (1 .. Len(stack)) \X Notes
  BY <1>1, WaitingMembers
<1>3. IsFiniteSet((1 .. Len(stack)) \X Notes)
  <2>1. IsFiniteSet(1 .. Len(stack))
    BY <1>1, FS_Interval, 1 \in Int, Len(stack) \in Int
  <2> QED
    BY <2>1, FS_Product, NotesAssumption
<1> QED
  BY <1>2, <1>3, FS_Subset, FS_CardinalityType

LEMMA RanksCount ==
  ASSUME TypeOK
  PROVE  /\ N \in Nat
         /\ IsFiniteSet(Notes \ DOMAIN distances) /\ Cardinality(Notes \ DOMAIN distances) \in Nat
         /\ Len(frontier) \in Nat
         /\ IsFiniteSet(neighbors) /\ Cardinality(neighbors) \in 0 .. N
         /\ IsFiniteSet(Notes \ visited) /\ Cardinality(Notes \ visited) \in Nat
         /\ IsFiniteSet(Waiting) /\ Cardinality(Waiting) \in Nat
         /\ Len(stack) \in Nat /\ PhaseRank \in 0 .. 2
         /\ SearchRank \in Nat /\ DetectionRank \in Nat /\ Rank \in Nat
<1>1. neighbors \subseteq Notes
  BY DEF TypeOK, SearchTypeOK, Neighbors
<1>2. /\ N \in Nat
      /\ IsFiniteSet(Notes \ DOMAIN distances) /\ Cardinality(Notes \ DOMAIN distances) \in Nat
      /\ IsFiniteSet(neighbors) /\ Cardinality(neighbors) \in 0 .. N
      /\ IsFiniteSet(Notes \ visited) /\ Cardinality(Notes \ visited) \in Nat
  BY <1>1, NotesCounted
<1>3. Len(frontier) \in Nat
  BY LenProperties DEF TypeOK, SearchTypeOK
<1>4. IsFiniteSet(Waiting) /\ Cardinality(Waiting) \in Nat /\ Len(stack) \in Nat
  BY WaitingFinite, StackType DEF TypeOK
<1>5. PhaseRank \in 0 .. 2
  BY DEF PhaseRank
<1>6. SearchRank \in Nat
  BY <1>2, <1>3 DEF SearchRank
<1>7. DetectionRank \in Nat
  BY <1>2, <1>4 DEF DetectionRank
<1>8. Rank \in Nat
  BY <1>5, <1>6, <1>7 DEF Rank
<1> QED
  BY <1>2, <1>3, <1>4, <1>5, <1>6, <1>7, <1>8

\* The products in the ranks are numbers.
LEMMA WeightsCount ==
  ASSUME TypeOK
  PROVE  /\ (N + 1) * (Cardinality(Notes \ DOMAIN distances) + Len(frontier)) \in Nat
         /\ (N + 2) * Cardinality(Notes \ visited) \in Nat
<1>1. /\ N \in Nat /\ Len(frontier) \in Nat
      /\ Cardinality(Notes \ DOMAIN distances) \in Nat /\ Cardinality(Notes \ visited) \in Nat
  BY RanksCount
<1>2. /\ N + 1 \in Nat /\ N + 2 \in Nat
      /\ Cardinality(Notes \ DOMAIN distances) + Len(frontier) \in Nat
  BY <1>1
<1> QED
  BY <1>1, <1>2, Distributes
-----------------------------------------------------------------------------
(***************************************************************************)
(* The search.                                                             *)
(***************************************************************************)
LEMMA TakeNodeRank == ASSUME TypeOK, TypeOK', TakeNode PROVE SearchRank' \in Nat /\ SearchRank' < SearchRank
<1> DEFINE u == Cardinality(Notes \ DOMAIN distances)
<1>1. frontier \in Seq(DOMAIN distances) /\ frontier # <<>>
  BY DEF TypeOK, SearchTypeOK, TakeNode
<1>2. Len(frontier') + 1 = Len(frontier) /\ Len(frontier') \in Nat
  BY <1>1 DEF TakeNode
<1>3. u \in Nat /\ N \in Nat /\ Cardinality(neighbors) = 0 /\ Cardinality(neighbors') \in 0 .. N
  <2>1. neighbors' \subseteq Notes
    BY DEF TypeOK, SearchTypeOK, Neighbors
  <2> QED
    BY <2>1, RanksCount, NotesCounted, FS_EmptySet DEF TakeNode
<1>4. SearchRank' = (N + 1) * (u + Len(frontier')) + Cardinality(neighbors')
  BY DEF SearchRank, TakeNode
<1>5. SearchRank = (N + 1) * (u + Len(frontier')) + (N + 1)
  <2>1. SearchRank = (N + 1) * ((u + Len(frontier')) + 1)
    BY <1>2, <1>3 DEF SearchRank
  <2>2. N + 1 \in Nat /\ u + Len(frontier') \in Nat
    BY <1>2, <1>3
  <2> HIDE DEF u
  <2> QED
    BY <2>1, <2>2, Distributes
<1>6. (N + 1) * (u + Len(frontier')) \in Nat
  BY <1>2, <1>3
<1> QED
  BY <1>3, <1>4, <1>5, <1>6

LEMMA DiscoverRank ==
  ASSUME TypeOK, NEW n \in Notes, Discover(n)
  PROVE  SearchRank' \in Nat /\ SearchRank' < SearchRank
<1>1. n \in neighbors /\ n \notin DOMAIN distances
  BY DEF Discover, IsFirst, Known
<1>2. Notes \ DOMAIN distances' = (Notes \ DOMAIN distances) \ {n}
  BY DEF Discover
<1>3. Cardinality(Notes \ DOMAIN distances') + 1 = Cardinality(Notes \ DOMAIN distances)
  BY <1>1, <1>2, OneLess, RanksCount
<1>4. Cardinality(neighbors') + 1 = Cardinality(neighbors)
  BY <1>1, OneLess, RanksCount DEF Discover
<1>5. Len(frontier') = Len(frontier) + 1
  BY DEF Discover, TypeOK, SearchTypeOK
<1>6. Cardinality(Notes \ DOMAIN distances') + Len(frontier') = Cardinality(Notes \ DOMAIN distances) + Len(frontier)
  <2>1. Cardinality(Notes \ DOMAIN distances') \in Nat
    BY NotesCounted
  <2> QED
    BY <1>3, <1>5, <2>1, RanksCount
<1>7. SearchRank' = (N + 1) * (Cardinality(Notes \ DOMAIN distances) + Len(frontier)) + Cardinality(neighbors')
  BY <1>6 DEF SearchRank
<1>8. Cardinality(neighbors') \in Nat
  <2>1. neighbors' \in SUBSET Notes
    BY DEF Discover, TypeOK, SearchTypeOK, Neighbors
  <2> QED
    BY <2>1, NotesCounted
<1>9. (N + 1) * (Cardinality(Notes \ DOMAIN distances) + Len(frontier)) \in Nat
  BY WeightsCount
<1> QED
  BY <1>4, <1>7, <1>8, <1>9 DEF SearchRank

LEMMA SkipKnownRank ==
  ASSUME TypeOK, NEW n \in Notes, SkipKnown(n)
  PROVE  SearchRank' \in Nat /\ SearchRank' < SearchRank
<1>1. Cardinality(neighbors') + 1 = Cardinality(neighbors)
  BY OneLess, RanksCount DEF SkipKnown, IsFirst
<1>2. Cardinality(neighbors') \in Nat
  <2>1. neighbors' \in SUBSET Notes
    BY DEF SkipKnown, TypeOK, SearchTypeOK, Neighbors
  <2> QED
    BY <2>1, NotesCounted
<1>3. (N + 1) * (Cardinality(Notes \ DOMAIN distances) + Len(frontier)) \in Nat
  BY WeightsCount
<1>4. SearchRank' = (N + 1) * (Cardinality(Notes \ DOMAIN distances) + Len(frontier)) + Cardinality(neighbors')
  BY DEF SearchRank, SkipKnown
<1> QED
  BY <1>1, <1>2, <1>3, <1>4 DEF SearchRank
-----------------------------------------------------------------------------
(***************************************************************************)
(* The detection.                                                          *)
(***************************************************************************)
LEMMA BacktrackRank == ASSUME TypeOK, TypeOK', Backtrack PROVE DetectionRank' \in Nat /\ DetectionRank' < DetectionRank
<1>1. stack # <<>> /\ stack \in Seq(Frames) /\ DetectionTypeOK /\ DetectionTypeOK'
  BY DEF Backtrack, Detecting, TypeOK, DetectionTypeOK
<1>2. /\ Len(stack) \in Nat \ {0} /\ Len(stack') = Len(stack) - 1
      /\ \A i \in 1 .. Len(stack) - 1 : stack'[i] = stack[i]
  <2>1. stack' = AllButLast(stack)
    BY DEF Backtrack
  <2>2. Len(stack) \in Nat \ {0}
    BY <1>1, StackType
  <2> QED
    BY <1>1, <2>1, <2>2, AllButLastType
<1>3. stack[Len(stack)].left = {}
  BY DEF Backtrack, Top
<1>4. Waiting' = Waiting
  <2>1. \A w : w \in Waiting <=> \E i \in 1 .. Len(stack) : \E m \in stack[i].left : w = <<i, m>>
    BY <1>1, WaitingMembers
  <2>2. \A w : w \in Waiting' <=> \E i \in 1 .. Len(stack') : \E m \in stack'[i].left : w = <<i, m>>
    <3>1. DOMAIN stack' = 1 .. Len(stack')
      BY <1>1, LenProperties DEF DetectionTypeOK
    <3> QED
      BY <3>1 DEF Waiting
  <2>3. \A i : i \in 1 .. Len(stack) <=> i \in 1 .. Len(stack') \/ i = Len(stack)
    BY <1>2
  <2>4. \A i \in 1 .. Len(stack') : stack'[i].left = stack[i].left
    BY <1>2
  <2>5. \A w : w \in Waiting' <=> w \in Waiting
    BY <1>3, <2>1, <2>2, <2>3, <2>4
  <2> QED
    BY <2>5
<1>5. DetectionRank' = (N + 2) * Cardinality(Notes \ visited) + Cardinality(Waiting) + Len(stack')
  BY <1>4 DEF DetectionRank, Backtrack
<1>6. (N + 2) * Cardinality(Notes \ visited) \in Nat /\ Cardinality(Waiting) \in Nat
  BY RanksCount
<1> QED
  BY <1>2, <1>5, <1>6 DEF DetectionRank

\* The top of the stack has looked at one neighbour more.
LEMMA AdvancedWaiting ==
  ASSUME DetectionTypeOK, DetectionTypeOK', stack # <<>>, NEW n, n \in Top.left, stack' = Advanced(n)
  PROVE  Waiting' = Waiting \ {<<Len(stack), n>>} /\ <<Len(stack), n>> \in Waiting
<1>1. /\ Len(stack) \in Nat \ {0} /\ Len(stack') = Len(stack) /\ DOMAIN stack' = 1 .. Len(stack)
      /\ \A i \in 1 .. Len(stack) - 1 : stack'[i].left = stack[i].left
      /\ stack'[Len(stack)].left = stack[Len(stack)].left \ {n} /\ n \in stack[Len(stack)].left
  BY StackType, AdvanceStep, AdvancedType DEF Top
<1>2. \A w : w \in Waiting <=> \E i \in 1 .. Len(stack) : \E m \in stack[i].left : w = <<i, m>>
  BY WaitingMembers
<1>3. \A w : w \in Waiting' <=> \E i \in 1 .. Len(stack) : \E m \in stack'[i].left : w = <<i, m>>
  BY <1>1 DEF Waiting
<1>4. \A i : i \in 1 .. Len(stack) <=> i \in 1 .. Len(stack) - 1 \/ i = Len(stack)
  BY <1>1
<1>5. \A i \in 1 .. Len(stack) - 1 : i # Len(stack)
  BY <1>1
<1>6. \A i \in 1 .. Len(stack) : \A m : m \in stack'[i].left <=> m \in stack[i].left /\ <<i, m>> # <<Len(stack), n>>
  BY <1>1, <1>4, <1>5
<1>7. \A w : w \in Waiting' <=> w \in Waiting /\ w # <<Len(stack), n>>
  BY <1>2, <1>3, <1>6
<1>8. <<Len(stack), n>> \in Waiting
  BY <1>1, <1>2, <1>4
<1> QED
  BY <1>7, <1>8

LEMMA AdvanceRank ==
  ASSUME TypeOK, TypeOK', NEW n \in Notes, Facing(n), stack' = Advanced(n), visited' = visited
  PROVE  DetectionRank' \in Nat /\ DetectionRank' < DetectionRank
<1>1. DetectionTypeOK /\ DetectionTypeOK' /\ stack # <<>> /\ n \in Top.left
  BY FacingFacts DEF TypeOK
<1>2. Len(stack') = Len(stack)
  BY <1>1, AdvanceStep
<1>3. Cardinality(Waiting') + 1 = Cardinality(Waiting) /\ Cardinality(Waiting') \in Nat
  <2>1. <<Len(stack), n>> \in Waiting /\ Waiting' = Waiting \ {<<Len(stack), n>>}
    BY <1>1, AdvancedWaiting
  <2>2. IsFiniteSet(Waiting) /\ IsFiniteSet(Waiting')
    BY <2>1, RanksCount, FS_RemoveElement
  <2> QED
    BY <2>1, <2>2, OneLess, FS_CardinalityType
<1>4. DetectionRank' = (N + 2) * Cardinality(Notes \ visited) + Cardinality(Waiting') + Len(stack)
  BY <1>2 DEF DetectionRank
<1>5. (N + 2) * Cardinality(Notes \ visited) \in Nat /\ Len(stack) \in Nat
  BY RanksCount, WeightsCount
<1> QED
  BY <1>3, <1>4, <1>5 DEF DetectionRank

LEMMA PushedWaiting ==
  ASSUME TypeOK, TypeOK', NEW n \in Notes, Facing(n), stack' = Append(Advanced(n), Frame(n))
  PROVE  /\ Waiting' = (Waiting \ {<<Len(stack), n>>}) \cup ({Len(stack) + 1} \X Neighbors(n))
         /\ <<Len(stack), n>> \in Waiting
<1> DEFINE k == Len(stack)
<1>1. DetectionTypeOK /\ stack # <<>> /\ n \in stack[k].left /\ k \in Nat \ {0}
  BY FacingFacts
<1>2. /\ Len(stack') = k + 1 /\ DOMAIN stack' = 1 .. k + 1
      /\ \A i \in 1 .. k - 1 : stack'[i].left = stack[i].left
      /\ stack'[k].left = stack[k].left \ {n}
      /\ stack'[k + 1].left = Neighbors(n)
  <2>1. DOMAIN stack' = 1 .. Len(stack')
    BY LenProperties DEF TypeOK, DetectionTypeOK
  <2> QED
    BY <1>1, <2>1, PushStep DEF Top
<1> HIDE DEF k
<1>3. \A w : w \in Waiting <=> \E i \in 1 .. k : \E m \in stack[i].left : w = <<i, m>>
  BY <1>1, WaitingMembers DEF k
<1>4. \A w : w \in Waiting' <=> \E i \in 1 .. k + 1 : \E m \in stack'[i].left : w = <<i, m>>
  BY <1>2 DEF Waiting
<1>5. /\ \A i : i \in 1 .. k + 1 <=> i \in 1 .. k \/ i = k + 1
      /\ \A i : i \in 1 .. k <=> i \in 1 .. k - 1 \/ i = k
      /\ \A i \in 1 .. k - 1 : i # k
      /\ \A i \in 1 .. k : i # k + 1
  BY <1>1
<1>6. \A i \in 1 .. k : \A m : m \in stack'[i].left <=> m \in stack[i].left /\ <<i, m>> # <<k, n>>
  BY <1>2, <1>5
<1>7. ASSUME NEW w
      PROVE  w \in Waiting' <=> w \in Waiting \ {<<k, n>>} \/ w \in {k + 1} \X Neighbors(n)
  <2>1. w \in Waiting' <=> \/ \E i \in 1 .. k : \E m \in stack'[i].left : w = <<i, m>>
                           \/ \E m \in Neighbors(n) : w = <<k + 1, m>>
    BY <1>2, <1>4, <1>5
  <2>2. (\E i \in 1 .. k : \E m \in stack'[i].left : w = <<i, m>>) <=> w \in Waiting \ {<<k, n>>}
    BY <1>3, <1>6
  <2>3. (\E m \in Neighbors(n) : w = <<k + 1, m>>) <=> w \in {k + 1} \X Neighbors(n)
    OBVIOUS
  <2> QED
    BY <2>1, <2>2, <2>3
<1>8. <<k, n>> \in Waiting
  BY <1>1, <1>3, <1>5
<1> QED
  BY <1>7, <1>8 DEF k

LEMMA DescendRank ==
  ASSUME TypeOK, TypeOK', NEW n \in Notes, Descend(n)
  PROVE  DetectionRank' \in Nat /\ DetectionRank' < DetectionRank
<1> DEFINE u == Cardinality(Notes \ visited')
           rest == Waiting \ {<<Len(stack), n>>}
           new  == {Len(stack) + 1} \X Neighbors(n)
<1>1. Facing(n) /\ stack' = Append(Advanced(n), Frame(n)) /\ n \notin visited /\ visited' = visited \cup {n}
  BY DEF Descend
<1>2. u + 1 = Cardinality(Notes \ visited) /\ u \in Nat /\ N \in Nat
  <2>1. Notes \ visited' = (Notes \ visited) \ {n}
    BY <1>1
  <2> QED
    <3>1. n \in Notes \ visited /\ IsFiniteSet(Notes \ visited) /\ N \in Nat
      BY <1>1, RanksCount
    <3>2. u + 1 = Cardinality(Notes \ visited)
      BY <2>1, <3>1, OneLess
    <3>3. u \in Nat
      BY NotesCounted, Notes \ visited' \in SUBSET Notes
    <3> QED
      BY <3>1, <3>2, <3>3
<1>3. Len(stack') = Len(stack) + 1 /\ Len(stack) \in Nat
  BY <1>1, FacingFacts, PushStep
<1>4. Waiting' = rest \cup new /\ <<Len(stack), n>> \in Waiting
  BY <1>1, PushedWaiting
<1>5. IsFiniteSet(rest) /\ Cardinality(rest) + 1 = Cardinality(Waiting) /\ Cardinality(rest) \in Nat
  BY <1>4, OneLess, RanksCount, FS_RemoveElement, FS_CardinalityType
<1>6. IsFiniteSet(new) /\ Cardinality(new) \in 0 .. N
  <2>1. Neighbors(n) \in SUBSET Notes
    BY DEF Neighbors
  <2>2. IsFiniteSet(Neighbors(n)) /\ Cardinality(Neighbors(n)) \in 0 .. N
    BY <2>1, NotesCounted
  <2>3. IsFiniteSet({Len(stack) + 1}) /\ Cardinality({Len(stack) + 1}) = 1
    BY FS_Singleton
  <2>4. IsFiniteSet(new) /\ Cardinality(new) = 1 * Cardinality(Neighbors(n))
    BY <2>2, <2>3, FS_Product
  <2> QED
    BY <1>2, <2>2, <2>4
<1> HIDE DEF rest, new, u
<1>7. Cardinality(Waiting') <= Cardinality(rest) + N /\ Cardinality(Waiting') \in Nat
  <2>1. /\ Cardinality(rest \cup new) = Cardinality(rest) + Cardinality(new) - Cardinality(rest \cap new)
        /\ IsFiniteSet(rest \cap new) /\ IsFiniteSet(rest \cup new)
    BY <1>5, <1>6, FS_Union, FS_Intersection
  <2>2. Cardinality(rest \cap new) \in Nat /\ Cardinality(rest \cup new) \in Nat
    BY <2>1, FS_CardinalityType
  <2> QED
    BY <1>2, <1>4, <1>5, <1>6, <2>1, <2>2
<1>8. DetectionRank' = (N + 2) * u + Cardinality(Waiting') + (Len(stack) + 1)
  BY <1>3 DEF DetectionRank, u
<1>9. DetectionRank = ((N + 2) * u + (N + 2)) + Cardinality(Waiting) + Len(stack)
  BY <1>2, Distributes, N + 2 \in Nat DEF DetectionRank
<1>10. (N + 2) * u \in Nat
  BY <1>2
<1> DEFINE p == (N + 2) * u
<1> HIDE DEF p
<1>11. p \in Nat /\ DetectionRank' = p + Cardinality(Waiting') + (Len(stack) + 1)
       /\ DetectionRank = (p + (N + 2)) + Cardinality(Waiting) + Len(stack)
  BY <1>8, <1>9, <1>10 DEF p
<1>12. Len(stack) \in Nat /\ Cardinality(Waiting) \in Nat /\ Cardinality(Waiting') \in Nat /\ N \in Nat
  BY <1>2, <1>7, RanksCount
<1>13. Cardinality(Waiting') <= Cardinality(Waiting) + N
  BY <1>5, <1>7, <1>12
<1> QED
  BY <1>11, <1>12, <1>13
-----------------------------------------------------------------------------
(***************************************************************************)
(* Every step.                                                             *)
(***************************************************************************)
LEMMA NextRank ==
  ASSUME TypeOK, TypeOK', Next
  PROVE  Rank' < Rank
<1>0. /\ Rank = SearchRank + DetectionRank + PhaseRank
      /\ Rank' = SearchRank' + DetectionRank' + PhaseRank'
  BY DEF Rank
<1>1. SearchRank \in Nat /\ DetectionRank \in Nat /\ PhaseRank \in Nat /\ PhaseRank' \in Nat
  BY RanksCount DEF PhaseRank
<1>2. ASSUME search' = search, detection' = detection, PhaseRank' < PhaseRank PROVE Rank' < Rank
  <2>1. SearchRank' = SearchRank
    BY <1>2 DEF search, SearchRank
  <2>2. DetectionRank' = DetectionRank
    BY <1>2 DEF detection, DetectionRank, Waiting
  <2> QED
    BY <1>0, <1>1, <1>2, <2>1, <2>2, SmallerSum
<1>3. ASSUME SearchRank' < SearchRank, SearchRank' \in Nat, detection' = detection, pc' = pc
      PROVE  Rank' < Rank
  <2>1. DetectionRank' = DetectionRank /\ PhaseRank' = PhaseRank
    BY <1>3 DEF detection, DetectionRank, Waiting, PhaseRank
  <2> QED
    BY <1>0, <1>1, <1>3, <2>1, SmallerSum
<1>4. ASSUME DetectionRank' < DetectionRank, DetectionRank' \in Nat, search' = search, pc' = pc
      PROVE  Rank' < Rank
  <2>1. SearchRank' = SearchRank /\ PhaseRank' = PhaseRank
    BY <1>4 DEF search, SearchRank, PhaseRank
  <2> QED
    BY <1>0, <1>1, <1>4, <2>1, SmallerSum
<1>5. CASE Reject \/ EndSearch \/ EndDetection
  BY <1>2, <1>5 DEF Reject, EndSearch, EndDetection, PhaseRank, Searching, search, detection
<1>6. CASE TakeNode
  BY <1>3, <1>6, TakeNodeRank DEF TakeNode
<1>7. CASE Backtrack
  BY <1>4, <1>7, BacktrackRank DEF Backtrack
<1>8. ASSUME NEW n \in Notes, Discover(n) PROVE Rank' < Rank
  BY <1>3, <1>8, DiscoverRank DEF Discover
<1>9. ASSUME NEW n \in Notes, SkipKnown(n) PROVE Rank' < Rank
  BY <1>3, <1>9, SkipKnownRank DEF SkipKnown
<1>10. ASSUME NEW n \in Notes, CloseCycle(n) \/ SkipVisited(n) PROVE Rank' < Rank
  BY <1>4, <1>10, AdvanceRank DEF CloseCycle, SkipVisited
<1>11. ASSUME NEW n \in Notes, Descend(n) PROVE Rank' < Rank
  BY <1>4, <1>11, DescendRank DEF Descend
<1> QED
  BY <1>5, <1>6, <1>7, <1>8, <1>9, <1>10, <1>11 DEF Next
-----------------------------------------------------------------------------
(***************************************************************************)
(* No step is missing.                                                     *)
(***************************************************************************)
Over == pc \in {"done", "rejected"}

\* The guard of one of the actions.
Ready ==
  \/ pc = "searching" /\ depth_limit < 0                    \* Reject
  \/ Searching /\ neighbors = {}                            \* TakeNode, EndSearch
  \/ Searching /\ \E n \in Notes : IsFirst(n, neighbors)    \* Discover, SkipKnown
  \/ Detecting /\ Top.left = {}                             \* Backtrack
  \/ \E n \in Notes : Facing(n)                             \* CloseCycle, SkipVisited, Descend
  \/ pc = "detecting" /\ stack = <<>>                       \* EndDetection

LEMMA HasFirst ==
  ASSUME NEW S \in SUBSET Notes, S # {}
  PROVE  \E n \in Notes : IsFirst(n, S)
<1>1. \E n \in S : \A m \in S : n <= m
  BY NotesAssumption, LeastNumber
<1> QED
  BY <1>1 DEF IsFirst

LEMMA AlwaysReady == TypeOK => Over \/ Ready
<1> SUFFICES ASSUME TypeOK, ~Over PROVE Ready
  OBVIOUS
<1>1. CASE pc = "searching"
  <2>1. depth_limit \in Int /\ neighbors \in SUBSET Notes
    BY LimitsAssumption DEF TypeOK, GraphTypeOK, SearchTypeOK, Neighbors
  <2>2. depth_limit < 0 \/ Searching
    BY <1>1, <2>1 DEF Searching
  <2>3. neighbors = {} \/ \E n \in Notes : IsFirst(n, neighbors)
    BY <2>1, HasFirst
  <2> QED
    BY <1>1, <2>2, <2>3 DEF Ready
<1>2. CASE pc = "detecting"
  <2>1. ASSUME stack # <<>> PROVE (Detecting /\ Top.left = {}) \/ \E n \in Notes : Facing(n)
    <3>1. Detecting /\ Top.left \in SUBSET Notes
      BY <1>2, <2>1, TopType DEF Detecting, TypeOK
    <3>2. Top.left = {} \/ \E n \in Notes : IsFirst(n, Top.left)
      BY <3>1, HasFirst
    <3> QED
      BY <3>1, <3>2 DEF Facing
  <2> QED
    BY <1>2, <2>1 DEF Ready
<1>3. pc \in {"searching", "detecting", "done", "rejected"}
  BY DEF TypeOK, GraphTypeOK
<1> QED
  BY <1>1, <1>2, <1>3 DEF Over

\* Cycles and shared notes keep no traversal going: each step brings a number of steps that
\* is left nearer to zero, and there is a step until the evidence is there
\* (evaluate_prerequisite_traversal and its two loops).
THEOREM StepsRunOut == Spec => [](Rank \in Nat /\ (Over \/ Ready)) /\ [][Rank' < Rank]_vars
<1>1. Init => TypeOK
  BY InitTypes
<1>2. TypeOK /\ [Next]_vars => TypeOK'
  BY NextTypes
<1>3. TypeOK => Rank \in Nat /\ (Over \/ Ready)
  BY RanksCount, AlwaysReady
<1>4. TypeOK /\ TypeOK' /\ [Next]_vars => [Rank' < Rank]_vars
  BY NextRank
<1> QED
  BY <1>1, <1>2, <1>3, <1>4, PTL DEF Spec
=============================================================================
