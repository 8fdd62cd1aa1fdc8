-------------------- MODULE PrerequisiteEvidenceProofs ---------------------
(***************************************************************************)
(* For every graph, target and depth limit: the evidence of module         *)
(* PrerequisiteTraversal is exact, distances included, and the three       *)
(* searches for prerequisites agree.                                       *)
(*                                                                         *)
(* The lengths of paths are numbers, so these arguments are inductions.    *)
(* They rest on the least number of a set of numbers, which the library    *)
(* states of sets (WFMin), not of predicates.                              *)
(***************************************************************************)
EXTENDS PrerequisiteTraversalProofs, FiniteSetTheorems, WellFoundedInduction

\* A path of its distance leads to each known note.
WalkInv == distances[Target] = 0 /\ \A n \in DOMAIN distances : n \in Walks[distances[n]]

\* What waits in the frontier is no nearer than the node, and nothing known is more than
\* one edge further.
WaveInv ==
  /\ \A n \in DOMAIN distances : distances[n] <= distances[node] + 1
  /\ \A i \in 1 .. Len(frontier) : distances[node] <= distances[frontier[i]]
  /\ \A i, j \in 1 .. Len(frontier) : i <= j => distances[frontier[i]] <= distances[frontier[j]]

\* An edge looked at makes its end at most one further than its start.
RelaxedInv ==
  \A n \in DOMAIN distances \ Members(frontier) : \A m \in Neighbors(n) \ Pending(n) :
    m \in DOMAIN distances /\ distances[m] <= distances[n] + 1

\* The order lists what is known but the target, each note once, nearest first.
OrderInv ==
  /\ Members(discovery_order) = DOMAIN distances \ {Target}
  /\ \A i, j \in 1 .. Len(discovery_order) :
       i < j => /\ discovery_order[i] # discovery_order[j]
                /\ distances[discovery_order[i]] <= distances[discovery_order[j]]

EvidenceInv == WalkInv /\ WaveInv /\ RelaxedInv /\ OrderInv

-----------------------------------------------------------------------------
(***************************************************************************)
(* Numbers and recursive functions.                                        *)
(***************************************************************************)
LEMMA LeastNumber ==
  ASSUME NEW T \in SUBSET Nat, T # {}
  PROVE  \E n \in T : \A m \in T : n <= m
<1> DEFINE R == {p \in Nat \X Nat : p[1] < p[2]}
<1>1. IsWellFoundedOn(R, Nat)
  BY NatLessThanWellFounded DEF OpToRel
<1>2. \A m, n \in Nat : m < n => <<m, n>> \in R
  OBVIOUS
<1> HIDE DEF R
<1>3. PICK n \in T : \A m \in T : <<m, n>> \notin R
  BY <1>1, WFMin
<1>4. ASSUME NEW m \in T PROVE n <= m
  <2>1. ~(m < n)
    BY <1>2, <1>3
  <2> QED
    BY <2>1
<1> QED
  BY <1>4

LEMMA Induction ==
  ASSUME NEW T \in SUBSET Nat, 0 \in T, \A n \in T : n + 1 \in T
  PROVE  \A n \in Nat : n \in T
<1> SUFFICES ASSUME Nat \ T # {} PROVE FALSE
  OBVIOUS
<1>1. PICK n \in Nat \ T : \A m \in Nat \ T : n <= m
  BY LeastNumber, Nat \ T \in SUBSET Nat
<1>2. n - 1 \in Nat /\ n - 1 \in T
  BY <1>1
<1>3. (n - 1) + 1 = n
  BY <1>1
<1> QED
  BY <1>1, <1>2, <1>3

Recurrence(S, a, F) == a \in S /\ F \in [Nat \X S -> S]
Solves(g, S, a, F) ==
  g \in [Nat -> S] /\ g[0] = a /\ \A d \in Nat : g[d + 1] = F[<<d, g[d]>>]

\* A recurrence over the numbers has a solution.
LEMMA Recursion ==
  ASSUME NEW S, NEW a, NEW F, Recurrence(S, a, F)
  PROVE  \E g : Solves(g, S, a, F)
<1>0. a \in S /\ F \in [Nat \X S -> S]
  BY DEF Recurrence
<1> DEFINE UpTo(k, w) == /\ w \in [0 .. k -> S] /\ w[0] = a
                         /\ \A d \in 0 .. k - 1 : w[d + 1] = F[<<d, w[d]>>]
<1>1. \A k \in Nat : \E w : UpTo(k, w)
  <2> DEFINE T == {k \in Nat : \E w : UpTo(k, w)}
  <2>1. 0 \in T
    <3> DEFINE w == [i \in 0 .. 0 |-> a]
    <3>1. UpTo(0, w)
      BY <1>0
    <3> QED
      BY <3>1
  <2>2. ASSUME NEW k \in T PROVE k + 1 \in T
    <3>1. PICK w : UpTo(k, w)
      BY <2>2
    <3> DEFINE v == [i \in 0 .. k + 1 |-> IF i = k + 1 THEN F[<<k, w[k]>>] ELSE w[i]]
    <3>2. k \in Nat /\ w[k] \in S
      BY <3>1
    <3>3. v \in [0 .. k + 1 -> S] /\ v[0] = a
      BY <1>0, <3>1, <3>2
    <3>4. ASSUME NEW d \in 0 .. (k + 1) - 1 PROVE v[d + 1] = F[<<d, v[d]>>]
      <4>1. v[d] = w[d]
        BY <3>2
      <4>2. CASE d = k
        <5>1. v[k + 1] = F[<<k, w[k]>>]
          BY <3>2
        <5> QED
          BY <4>1, <4>2, <5>1
      <4>3. CASE d # k
        <5>1. d \in 0 .. k - 1 /\ d + 1 \in 0 .. k /\ d + 1 # k + 1
          BY <3>2, <4>3
        <5>2. v[d + 1] = w[d + 1]
          BY <3>2, <5>1
        <5> QED
          BY <3>1, <4>1, <5>1, <5>2
      <4> QED
        BY <4>2, <4>3
    <3>5. UpTo(k + 1, v)
      BY <3>3, <3>4
    <3> HIDE DEF v, UpTo
    <3> QED
      BY <3>2, <3>5
  <2> HIDE DEF UpTo
  <2> QED
    BY <2>1, <2>2, Induction, T \in SUBSET Nat
<1>2. ASSUME NEW k \in Nat, NEW w, NEW v, UpTo(k, w), UpTo(k + 1, v)
      PROVE  w[k] = v[k]
  <2> DEFINE T == {d \in Nat : d \in 0 .. k => w[d] = v[d]}
  <2>1. 0 \in T
    BY <1>2
  <2>2. ASSUME NEW d \in T PROVE d + 1 \in T
    <3> SUFFICES ASSUME d + 1 \in 0 .. k PROVE w[d + 1] = v[d + 1]
      BY <2>2
    <3>1. d \in 0 .. k - 1 /\ d \in 0 .. (k + 1) - 1 /\ w[d] = v[d]
      BY <1>2, <2>2
    <3> QED
      BY <1>2, <3>1
  <2>3. k \in T
    BY <1>2, <2>1, <2>2, Induction, T \in SUBSET Nat
  <2> QED
    BY <2>3
<1> DEFINE W == [k \in Nat |-> CHOOSE w : UpTo(k, w)]
           g == [k \in Nat |-> W[k][k]]
<1>3. ASSUME NEW k \in Nat PROVE UpTo(k, W[k])
  <2> HIDE DEF UpTo
  <2> QED
    BY <1>1
<1>4. g \in [Nat -> S]
  <2>1. ASSUME NEW k \in Nat PROVE W[k][k] \in S
    <3> HIDE DEF W
    <3>1. UpTo(k, W[k])
      BY <1>3
    <3> QED
      BY <3>1
  <2> HIDE DEF W
  <2> QED
    BY <2>1
<1>5. g[0] = a
  <2>1. g[0] = W[0][0]
    OBVIOUS
  <2> HIDE DEF W, g
  <2> QED
    BY <1>3, <2>1
<1>6. ASSUME NEW d \in Nat PROVE g[d + 1] = F[<<d, g[d]>>]
  <2>1. g[d + 1] = W[d + 1][d + 1] /\ g[d] = W[d][d]
    BY <1>6
  <2> HIDE DEF W, g
  <2>2. UpTo(d, W[d]) /\ UpTo(d + 1, W[d + 1])
    BY <1>3
  <2>3. W[d][d] = W[d + 1][d]
    <3> HIDE DEF UpTo
    <3> QED
      BY <1>2, <2>2
  <2>4. d \in 0 .. (d + 1) - 1
    OBVIOUS
  <2> QED
    BY <2>1, <2>2, <2>3, <2>4
<1> QED
  BY <1>4, <1>5, <1>6 DEF Solves
-----------------------------------------------------------------------------
(***************************************************************************)
(* The recursive definitions of the model satisfy their equations.         *)
(***************************************************************************)
LEMMA WalksEquation ==
  /\ Walks[0] = {Target}
  /\ \A d \in Nat : Walks[d + 1] = {m \in Notes : \E n \in Walks[d] : <<n, m>> \in edges}
  /\ \A d \in Nat : Walks[d] \subseteq Notes
<1> DEFINE Step(X) == {m \in Notes : \E n \in X : <<n, m>> \in edges}
           F == [p \in Nat \X SUBSET Notes |-> Step(p[2])]
<1>1. F \in [Nat \X SUBSET Notes -> SUBSET Notes]
  OBVIOUS
<1>2. \A d \in Nat, X \in SUBSET Notes : F[<<d, X>>] = Step(X)
  OBVIOUS
<1> HIDE DEF F
<1>3. PICK g : Solves(g, SUBSET Notes, {Target}, F)
  <2>1. Recurrence(SUBSET Notes, {Target}, F)
    BY <1>1, NotesAssumption DEF Recurrence
  <2> QED
    BY <2>1, Recursion
<1>4. g = [d \in Nat |-> IF d = 0 THEN {Target} ELSE Step(g[d - 1])]
  <2>1. ASSUME NEW d \in Nat PROVE g[d] = IF d = 0 THEN {Target} ELSE Step(g[d - 1])
    <3>1. CASE d = 0
      BY <1>3, <3>1 DEF Solves
    <3>2. CASE d # 0
      <4>1. d - 1 \in Nat /\ (d - 1) + 1 = d
        BY <3>2
      <4>2. g[d] = F[<<d - 1, g[d - 1]>>] /\ g[d - 1] \in SUBSET Notes
        BY <1>3, <4>1 DEF Solves
      <4> HIDE DEF Step
      <4> QED
        BY <1>2, <3>2, <4>1, <4>2
    <3> QED
      BY <3>1, <3>2
  <2> HIDE DEF Step
  <2> QED
    BY <1>3, <2>1 DEF Solves
<1>5. Walks = [d \in Nat |-> IF d = 0 THEN {Target} ELSE Step(Walks[d - 1])]
  BY <1>4 DEF Walks
<1>6. ASSUME NEW d \in Nat PROVE Walks[d + 1] = Step(Walks[d])
  <2>1. d + 1 \in Nat /\ d + 1 # 0 /\ (d + 1) - 1 = d
    OBVIOUS
  <2> HIDE DEF Step
  <2> QED
    BY <1>5, <2>1
<1>7. Walks[0] = {Target}
  BY <1>5
<1>8. ASSUME NEW d \in Nat PROVE Walks[d] \subseteq Notes
  BY <1>5, NotesAssumption
<1> QED
  BY <1>6, <1>7, <1>8

\* The rounds of the migration script.
LEMMA RoundsEquation ==
  /\ Rounds[0] = [frontier |-> {Target}, visited |-> {}]
  /\ \A d \in Nat :
       LET next_frontier == (UNION {Neighbors(n) : n \in Rounds[d].frontier}) \ Rounds[d].visited
       IN  Rounds[d + 1] = [frontier |-> next_frontier,
                            visited |-> Rounds[d].visited \cup next_frontier]
<1> DEFINE Ahead(r) == (UNION {Neighbors(n) : n \in r.frontier}) \ r.visited
           Step(r) == [frontier |-> Ahead(r), visited |-> r.visited \cup Ahead(r)]
           first == [frontier |-> {Target}, visited |-> {}]
           S == [frontier : SUBSET Notes, visited : SUBSET Notes]
           F == [p \in Nat \X S |-> Step(p[2])]
<1>1. \A r \in S : Step(r) \in S
  BY DEF Neighbors
<1>2. first \in S
  BY NotesAssumption
<1> HIDE DEF S, Step, first
<1>3. F \in [Nat \X S -> S] /\ \A d \in Nat, r \in S : F[<<d, r>>] = Step(r)
  BY <1>1
<1> HIDE DEF F
<1>4. PICK g : Solves(g, S, first, F)
  <2>1. Recurrence(S, first, F)
    BY <1>2, <1>3 DEF Recurrence
  <2> QED
    BY <2>1, Recursion
<1>5. g = [d \in Nat |-> IF d = 0 THEN first ELSE Step(g[d - 1])]
  <2>1. ASSUME NEW d \in Nat PROVE g[d] = IF d = 0 THEN first ELSE Step(g[d - 1])
    <3>1. CASE d = 0
      BY <1>4, <3>1 DEF Solves
    <3>2. CASE d # 0
      <4>1. d - 1 \in Nat /\ (d - 1) + 1 = d
        BY <3>2
      <4>2. g[d] = F[<<d - 1, g[d - 1]>>] /\ g[d - 1] \in S
        BY <1>4, <4>1 DEF Solves
      <4> QED
        BY <1>3, <3>2, <4>1, <4>2
    <3> QED
      BY <3>1, <3>2
  <2> QED
    BY <1>4, <2>1 DEF Solves
<1>6. Rounds = [d \in Nat |-> IF d = 0 THEN first ELSE Step(Rounds[d - 1])]
  BY <1>5 DEF Rounds, Step, first
<1>7. Rounds[0] = first
  BY <1>6
<1>8. ASSUME NEW d \in Nat PROVE Rounds[d + 1] = Step(Rounds[d])
  <2>1. d + 1 \in Nat /\ d + 1 # 0 /\ (d + 1) - 1 = d
    OBVIOUS
  <2> QED
    BY <1>6, <2>1
<1> QED
  BY <1>7, <1>8 DEF Step, first

\* The list comprehension over the discovery order.
LEMMA ListedEquation ==
  ASSUME discovery_order \in Seq(Notes)
  PROVE  /\ Listed[0] = <<>>
         /\ \A i \in 1 .. Len(discovery_order) :
              Listed[i] = IF WithinLimit(discovery_order[i])
                          THEN Append(Listed[i - 1], discovery_order[i])
                          ELSE Listed[i - 1]
         /\ \A i \in 0 .. Len(discovery_order) : Listed[i] \in Seq(Notes)
<1> DEFINE len == Len(discovery_order)
           Step(i, s) == IF WithinLimit(discovery_order[i])
                         THEN Append(s, discovery_order[i]) ELSE s
           F == [p \in Nat \X Seq(Notes) |-> IF p[1] < len THEN Step(p[1] + 1, p[2]) ELSE p[2]]
<1>1. len \in Nat /\ \A i \in 1 .. len : discovery_order[i] \in Notes
  BY ElementOfSeq, LenProperties
<1>2. \A i \in 1 .. len, s \in Seq(Notes) : Step(i, s) \in Seq(Notes)
  BY <1>1
<1>3. \A d \in Nat : d < len => d + 1 \in 1 .. len
  BY <1>1
<1> HIDE DEF Step, len
<1>4. F \in [Nat \X Seq(Notes) -> Seq(Notes)]
  BY <1>1, <1>2, <1>3
<1>5. \A d \in Nat, s \in Seq(Notes) : d < len => F[<<d, s>>] = Step(d + 1, s)
  OBVIOUS
<1> HIDE DEF F
<1>6. PICK g : Solves(g, Seq(Notes), <<>>, F)
  <2>1. Recurrence(Seq(Notes), <<>>, F)
    BY <1>4 DEF Recurrence
  <2> QED
    BY <2>1, Recursion
<1> DEFINE h == [i \in 0 .. len |-> g[i]]
<1>7. h = [i \in 0 .. len |-> IF i = 0 THEN <<>> ELSE Step(i, h[i - 1])]
  <2>1. ASSUME NEW i \in 0 .. len PROVE h[i] = IF i = 0 THEN <<>> ELSE Step(i, h[i - 1])
    <3>1. CASE i = 0
      BY <1>1, <1>6, <3>1 DEF Solves
    <3>2. CASE i # 0
      <4>1. i - 1 \in Nat /\ i - 1 \in 0 .. len /\ (i - 1) + 1 = i /\ i - 1 < len
        BY <1>1, <3>2
      <4>2. g[i] = F[<<i - 1, g[i - 1]>>] /\ g[i - 1] \in Seq(Notes)
        BY <1>6, <4>1 DEF Solves
      <4>3. h[i] = g[i] /\ h[i - 1] = g[i - 1]
        BY <4>1
      <4> HIDE DEF h
      <4> QED
        BY <1>5, <3>2, <4>1, <4>2, <4>3
    <3> QED
      BY <3>1, <3>2
  <2>2. DOMAIN h = 0 .. len /\ h = [i \in 0 .. len |-> h[i]]
    OBVIOUS
  <2> HIDE DEF h
  <2> QED
    BY <2>1, <2>2
<1> HIDE DEF h
<1>8. Listed = [i \in 0 .. len |-> IF i = 0 THEN <<>> ELSE Step(i, Listed[i - 1])]
  BY <1>7 DEF Listed, Step, len
<1>9. Listed[0] = <<>> /\ \A i \in 1 .. len : Listed[i] = Step(i, Listed[i - 1])
  <2>1. \A i \in 0 .. len : Listed[i] = IF i = 0 THEN <<>> ELSE Step(i, Listed[i - 1])
    BY <1>8
  <2>2. 0 \in 0 .. len /\ \A i \in 1 .. len : i \in 0 .. len /\ i # 0
    BY <1>1
  <2> QED
    BY <2>1, <2>2
<1>10. ASSUME NEW i \in 0 .. len PROVE Listed[i] \in Seq(Notes)
  <2> DEFINE T == {j \in Nat : j <= len => Listed[j] \in Seq(Notes)}
  <2>1. 0 \in T
    <3>1. <<>> \in Seq(Notes)
      OBVIOUS
    <3> QED
      BY <1>9, <3>1
  <2>2. ASSUME NEW j \in T PROVE j + 1 \in T
    <3> SUFFICES ASSUME j + 1 <= len PROVE Listed[j + 1] \in Seq(Notes)
      BY <2>2
    <3>1. j \in Nat /\ j + 1 \in 1 .. len /\ (j + 1) - 1 = j /\ Listed[j] \in Seq(Notes)
      BY <1>1, <2>2
    <3>2. Listed[j + 1] = Step(j + 1, Listed[j])
      BY <1>9, <3>1
    <3> QED
      BY <1>2, <3>1, <3>2
  <2>3. T \in SUBSET Nat /\ i \in Nat /\ i <= len
    BY <1>1
  <2> HIDE DEF T
  <2>4. i \in T
    BY <2>1, <2>2, <2>3, Induction
  <2> QED
    BY <2>3, <2>4 DEF T
<1> QED
  BY <1>9, <1>10 DEF Step, len
-----------------------------------------------------------------------------
(***************************************************************************)
(* The search computes shortest distances.                                 *)
(***************************************************************************)
LEMMA AppendMembers ==
  ASSUME NEW S, NEW s \in Seq(S), NEW x \in S
  PROVE  LET t == Append(s, x) IN
         /\ Len(s) \in Nat /\ Len(t) = Len(s) + 1
         /\ \A i \in 1 .. Len(s) : t[i] = s[i] /\ s[i] \in S /\ s[i] \in Members(s)
         /\ t[Len(s) + 1] = x
         /\ Members(t) = Members(s) \cup {x}
<1> DEFINE t == Append(s, x)
<1>1. /\ Len(s) \in Nat /\ DOMAIN s = 1 .. Len(s) /\ Len(t) = Len(s) + 1
      /\ DOMAIN t = 1 .. Len(s) + 1
      /\ \A i \in 1 .. Len(s) : t[i] = s[i] /\ s[i] \in S
      /\ t[Len(s) + 1] = x
  OBVIOUS
<1> HIDE DEF t
<1>2. \A i \in 1 .. Len(s) + 1 : i \in 1 .. Len(s) \/ i = Len(s) + 1
  BY <1>1
<1>3. Members(t) = Members(s) \cup {x}
  BY <1>1, <1>2 DEF Members
<1>4. \A i \in 1 .. Len(s) : s[i] \in Members(s)
  BY <1>1 DEF Members
<1> QED
  BY <1>1, <1>3, <1>4 DEF t

LEMMA EvidenceInit == Init => EvidenceInv
<1> SUFFICES ASSUME Init PROVE EvidenceInv
  OBVIOUS
<1>1. /\ DOMAIN distances = {Target} /\ distances[Target] = 0 /\ node = Target
      /\ frontier = <<Target>> /\ Len(frontier) = 1 /\ frontier[1] = Target
      /\ discovery_order = <<>> /\ Len(discovery_order) = 0 /\ DOMAIN frontier = 1 .. 1
  BY DEF Init
<1>2. WalkInv
  BY <1>1, WalksEquation DEF WalkInv
<1>3. WaveInv
  BY <1>1 DEF WaveInv
<1>4. RelaxedInv
  BY <1>1 DEF RelaxedInv, Members
<1>5. OrderInv
  BY <1>1 DEF OrderInv, Members
<1> QED
  BY <1>2, <1>3, <1>4, <1>5 DEF EvidenceInv

LEMMA SameWalks ==
  ASSUME edges' = edges
  PROVE  /\ Walks' = Walks
         /\ \A n : Neighbors(n)' = Neighbors(n)
BY DEF Walks, Neighbors

LEMMA EvidenceKept ==
  ASSUME EvidenceInv, UNCHANGED <<edges, search>>
  PROVE  EvidenceInv'
<1>1. Walks' = Walks /\ \A n : Neighbors(n)' = Neighbors(n) /\ Pending(n)' = Pending(n)
  BY SameWalks DEF search, Pending
<1> QED
  BY <1>1 DEF EvidenceInv, WalkInv, WaveInv, RelaxedInv, OrderInv, Members, search

LEMMA TakeNodeFacts ==
  ASSUME TypeOK, TakeNode
  PROVE  /\ Len(frontier) \in Nat \ {0} /\ Len(frontier') = Len(frontier) - 1
         /\ node' = frontier[1] /\ node' \in DOMAIN distances
         /\ \A i \in 1 .. Len(frontier') : i + 1 \in 1 .. Len(frontier) /\ frontier'[i] = frontier[i + 1]
         /\ \A n \in Members(frontier) : n = node' \/ n \in Members(frontier')
         /\ \A n : Pending(n) = {}
         /\ \A n : n = node' => Pending(n)' = Neighbors(n)
<1>1. frontier \in Seq(DOMAIN distances) /\ frontier # <<>>
  BY DEF TakeNode, TypeOK, SearchTypeOK
<1>2. /\ Len(frontier) \in Nat \ {0} /\ DOMAIN frontier = 1 .. Len(frontier)
      /\ node' = frontier[1] /\ node' \in DOMAIN distances
      /\ frontier' \in Seq(DOMAIN distances)
      /\ Len(frontier') = Len(frontier) - 1 /\ DOMAIN frontier' = 1 .. Len(frontier) - 1
      /\ \A i \in 1 .. Len(frontier) - 1 : frontier'[i] = frontier[i + 1]
  BY <1>1, EmptySeq, LenProperties, HeadTailProperties DEF TakeNode
<1>3. ASSUME NEW i \in 1 .. Len(frontier), i # 1
      PROVE  frontier[i] \in Members(frontier')
  <2>1. i - 1 \in 1 .. Len(frontier) - 1 /\ (i - 1) + 1 = i
    BY <1>2, <1>3
  <2> QED
    BY <1>2, <2>1 DEF Members
<1>4. \A n \in Members(frontier) : n = node' \/ n \in Members(frontier')
  BY <1>2, <1>3 DEF Members
<1>5. \A i \in 1 .. Len(frontier') : i + 1 \in 1 .. Len(frontier) /\ frontier'[i] = frontier[i + 1]
  BY <1>2
<1>6. \A n : Pending(n) = {} /\ (n = node' => Pending(n)' = Neighbors(n))
  BY SameWalks DEF Pending, TakeNode
<1> QED
  BY <1>2, <1>4, <1>5, <1>6

LEMMA TakeNodeEvidence ==
  ASSUME TypeOK, EvidenceInv, TakeNode
  PROVE  EvidenceInv'
<1>1. /\ UNCHANGED <<edges, distances, discovery_order>>
      /\ Walks' = Walks /\ \A n : Neighbors(n)' = Neighbors(n)
  BY SameWalks DEF TakeNode
<1>2. WalkInv' /\ OrderInv'
  BY <1>1 DEF EvidenceInv, WalkInv, OrderInv, Members
<1>3. WaveInv'
  <2>1. \A n \in DOMAIN distances : distances[n] \in Nat
    BY DEF TypeOK, SearchTypeOK
  <2>2. \A i \in 1 .. Len(frontier) : frontier[i] \in DOMAIN distances
    BY TakeNodeFacts, ElementOfSeq DEF TypeOK, SearchTypeOK
  <2>3. distances[node] <= distances[node'] /\ distances[node] \in Nat /\ distances[node'] \in Nat
    BY <2>1, TakeNodeFacts DEF EvidenceInv, WaveInv, TypeOK, SearchTypeOK
  <2>4. \A n \in DOMAIN distances : distances[n] <= distances[node'] + 1
    BY <2>1, <2>3 DEF EvidenceInv, WaveInv
  <2>5. \A i \in 1 .. Len(frontier) : distances[node'] <= distances[frontier[i]]
    BY TakeNodeFacts DEF EvidenceInv, WaveInv
  <2>6. \A i, j \in 1 .. Len(frontier') :
          i <= j => distances[frontier'[i]] <= distances[frontier'[j]]
    <3> SUFFICES ASSUME NEW i \in 1 .. Len(frontier'), NEW j \in 1 .. Len(frontier'), i <= j
                 PROVE  distances[frontier'[i]] <= distances[frontier'[j]]
      OBVIOUS
    <3>1. i + 1 <= j + 1 /\ i + 1 \in 1 .. Len(frontier) /\ j + 1 \in 1 .. Len(frontier)
      BY TakeNodeFacts
    <3> QED
      BY <3>1, TakeNodeFacts DEF EvidenceInv, WaveInv
  <2> QED
    BY <1>1, <2>4, <2>5, <2>6, TakeNodeFacts DEF WaveInv
<1>4. RelaxedInv'
  <2> SUFFICES ASSUME NEW n \in DOMAIN distances, n \notin Members(frontier'),
                      NEW m \in Neighbors(n), m \notin Pending(n)'
               PROVE  m \in DOMAIN distances /\ distances[m] <= distances[n] + 1
    BY <1>1 DEF RelaxedInv
  <2>1. n # node'
    BY TakeNodeFacts
  <2>2. n \notin Members(frontier) /\ Pending(n) = {}
    BY <2>1, TakeNodeFacts
  <2> QED
    BY <2>2 DEF EvidenceInv, RelaxedInv
<1> QED
  BY <1>2, <1>3, <1>4 DEF EvidenceInv

LEMMA DiscoverEvidence ==
  ASSUME TypeOK, EvidenceInv, NEW n \in Notes, Discover(n)
  PROVE  EvidenceInv'
<1> DEFINE D == DOMAIN distances
           d == distances[node] + 1
<1>1. /\ edges' = edges /\ node' = node /\ Walks' = Walks /\ \A m : Neighbors(m)' = Neighbors(m)
      /\ n \notin D /\ n # Target /\ node \in D /\ Target \in D /\ D \subseteq Notes
      /\ distances[node] \in Nat /\ \A m \in D : distances[m] \in Nat
      /\ n \in Neighbors(node) /\ neighbors' = neighbors \ {n}
      /\ frontier \in Seq(D) /\ discovery_order \in Seq(Notes)
      /\ frontier' = Append(frontier, n) /\ discovery_order' = Append(discovery_order, n)
  BY SameWalks DEF Discover, Known, IsFirst, TypeOK, SearchTypeOK
<1>2. /\ DOMAIN distances' = D \cup {n} /\ distances'[n] = d
      /\ \A m \in D : distances'[m] = distances[m]
  BY <1>1 DEF Discover
<1>3. /\ Len(frontier) \in Nat /\ Len(frontier') = Len(frontier) + 1
      /\ \A i \in 1 .. Len(frontier) : frontier'[i] = frontier[i] /\ frontier[i] \in D
      /\ frontier'[Len(frontier) + 1] = n
      /\ Members(frontier') = Members(frontier) \cup {n}
  <2>1. frontier \in Seq(Notes)
    BY <1>1
  <2>2. \A i \in 1 .. Len(frontier) : frontier[i] \in D
    BY <1>1, ElementOfSeq
  <2> QED
    BY <1>1, <2>1, <2>2, AppendMembers
<1>4. /\ Len(discovery_order) \in Nat /\ Len(discovery_order') = Len(discovery_order) + 1
      /\ \A i \in 1 .. Len(discovery_order) :
           discovery_order'[i] = discovery_order[i] /\ discovery_order[i] \in Members(discovery_order)
      /\ discovery_order'[Len(discovery_order) + 1] = n
      /\ Members(discovery_order') = Members(discovery_order) \cup {n}
  BY <1>1, AppendMembers
<1> HIDE DEF D, d
<1>5. WalkInv'
  <2>1. n \in Walks[d]
    BY <1>1, WalksEquation DEF EvidenceInv, WalkInv, Neighbors, D, d
  <2>2. \A m \in D : m \in Walks[distances[m]]
    BY DEF EvidenceInv, WalkInv, D
  <2>3. distances[Target] = 0
    BY DEF EvidenceInv, WalkInv
  <2> QED
    BY <1>1, <1>2, <2>1, <2>2, <2>3 DEF WalkInv
<1>6. WaveInv'
  <2>1. /\ \A m \in D : distances[m] <= distances[node] + 1
        /\ \A i \in 1 .. Len(frontier) : distances[node] <= distances[frontier[i]]
        /\ \A i, j \in 1 .. Len(frontier) : i <= j => distances[frontier[i]] <= distances[frontier[j]]
    BY DEF EvidenceInv, WaveInv, D
  <2>2. \A i \in 1 .. Len(frontier') :
          \/ i \in 1 .. Len(frontier) /\ i < Len(frontier')
             /\ distances'[frontier'[i]] = distances[frontier[i]] /\ frontier[i] \in D
          \/ i = Len(frontier') /\ distances'[frontier'[i]] = d
    BY <1>2, <1>3
  <2>3. ASSUME NEW m \in DOMAIN distances' PROVE distances'[m] <= distances'[node] + 1
    <3>1. distances'[node] = distances[node] /\ (m = n \/ m \in D)
      BY <1>1, <1>2, <2>3
    <3>2. CASE m = n
      BY <1>1, <1>2, <3>1, <3>2 DEF d
    <3>3. CASE m \in D
      BY <1>1, <1>2, <2>1, <3>1, <3>3
    <3> QED
      BY <3>1, <3>2, <3>3
  <2>4. \A i \in 1 .. Len(frontier') : distances'[node] <= distances'[frontier'[i]]
    BY <1>1, <1>2, <2>1, <2>2 DEF d
  <2>5. ASSUME NEW i \in 1 .. Len(frontier'), NEW j \in 1 .. Len(frontier'), i <= j
        PROVE  distances'[frontier'[i]] <= distances'[frontier'[j]]
    <3>1. CASE j = Len(frontier')
      <4>1. distances'[frontier'[j]] = d
        BY <2>2, <3>1
      <4>2. CASE i \in 1 .. Len(frontier)
        <5>1. distances'[frontier'[i]] = distances[frontier[i]] /\ frontier[i] \in D
          BY <1>3, <2>2, <4>2
        <5> QED
          BY <2>1, <4>1, <5>1 DEF d
      <4>3. CASE i \notin 1 .. Len(frontier)
        <5>1. distances'[frontier'[i]] = d /\ d \in Nat
          BY <1>1, <2>2, <4>3 DEF d
        <5> QED
          BY <4>1, <5>1
      <4> QED
        BY <4>2, <4>3
    <3>2. CASE j # Len(frontier')
      <4>1. i \in 1 .. Len(frontier) /\ j \in 1 .. Len(frontier)
        BY <1>3, <2>5, <3>2
      <4> QED
        BY <1>3, <2>1, <2>2, <2>5, <4>1
    <3> QED
      BY <3>1, <3>2
  <2> QED
    BY <1>1, <2>3, <2>4, <2>5 DEF WaveInv
<1>7. RelaxedInv'
  <2> SUFFICES ASSUME NEW m \in D \cup {n}, m \notin Members(frontier'),
                      NEW k \in Neighbors(m), k \notin Pending(m)'
               PROVE  k \in D \cup {n} /\ distances'[k] <= distances'[m] + 1
    BY <1>1, <1>2 DEF RelaxedInv
  <2>1. m \in D /\ m \notin Members(frontier) /\ distances'[m] = distances[m]
    BY <1>2, <1>3
  <2>2. CASE k \in Pending(m)
    <3>1. m = node /\ k = n
      BY <1>1, <2>2 DEF Pending
    <3> QED
      BY <1>1, <1>2, <2>1, <3>1 DEF d
  <2>3. CASE k \notin Pending(m)
    <3>1. k \in D /\ distances[k] <= distances[m] + 1
      BY <2>1, <2>3 DEF EvidenceInv, RelaxedInv, D
    <3> QED
      BY <1>2, <2>1, <3>1
  <2> QED
    BY <2>2, <2>3
<1>8. OrderInv'
  <2>1. /\ Members(discovery_order) = D \ {Target}
        /\ \A i, j \in 1 .. Len(discovery_order) :
             i < j => /\ discovery_order[i] # discovery_order[j]
                      /\ distances[discovery_order[i]] <= distances[discovery_order[j]]
    BY DEF EvidenceInv, OrderInv, D
  <2>2. \A i \in 1 .. Len(discovery_order) :
          /\ discovery_order'[i] = discovery_order[i] /\ discovery_order[i] # n
          /\ distances'[discovery_order'[i]] = distances[discovery_order[i]]
          /\ distances[discovery_order[i]] <= d
    BY <1>1, <1>2, <1>4, <2>1 DEF EvidenceInv, WaveInv, D, d
  <2>3. ASSUME NEW i \in 1 .. Len(discovery_order'), NEW j \in 1 .. Len(discovery_order'), i < j
        PROVE  /\ discovery_order'[i] # discovery_order'[j]
               /\ distances'[discovery_order'[i]] <= distances'[discovery_order'[j]]
    <3>1. i \in 1 .. Len(discovery_order)
      BY <1>4, <2>3
    <3>2. CASE j = Len(discovery_order) + 1
      BY <1>2, <1>4, <2>2, <3>1, <3>2
    <3>3. CASE j # Len(discovery_order) + 1
      <4>1. j \in 1 .. Len(discovery_order)
        BY <1>4, <3>3
      <4> QED
        BY <2>1, <2>2, <2>3, <3>1, <4>1
    <3> QED
      BY <3>2, <3>3
  <2>4. Members(discovery_order') = DOMAIN distances' \ {Target}
    BY <1>1, <1>2, <1>4, <2>1
  <2> QED
    BY <2>3, <2>4 DEF OrderInv, Members
<1> QED
  BY <1>5, <1>6, <1>7, <1>8 DEF EvidenceInv

LEMMA SkipEvidence ==
  ASSUME TypeOK, EvidenceInv, NEW n \in Notes, SkipKnown(n)
  PROVE  EvidenceInv'
<1>1. /\ UNCHANGED <<edges, distances, discovery_order, frontier, node>>
      /\ Walks' = Walks /\ \A m : Neighbors(m)' = Neighbors(m)
      /\ n \in DOMAIN distances /\ neighbors' = neighbors \ {n}
  BY SameWalks DEF SkipKnown, Known
<1>2. WalkInv' /\ WaveInv' /\ OrderInv'
  BY <1>1 DEF EvidenceInv, WalkInv, WaveInv, OrderInv, Members
<1>3. RelaxedInv'
  <2> SUFFICES ASSUME NEW m \in DOMAIN distances, m \notin Members(frontier),
                      NEW k \in Neighbors(m), k \notin Pending(m)'
               PROVE  k \in DOMAIN distances /\ distances[k] <= distances[m] + 1
    BY <1>1 DEF RelaxedInv, Members
  <2>1. CASE k \in Pending(m)
    <3>1. m = node /\ k = n
      BY <1>1, <2>1 DEF Pending
    <3> QED
      BY <1>1, <3>1 DEF EvidenceInv, WaveInv
  <2>2. CASE k \notin Pending(m)
    BY <2>2 DEF EvidenceInv, RelaxedInv
  <2> QED
    BY <2>1, <2>2
<1> QED
  BY <1>2, <1>3 DEF EvidenceInv

LEMMA EvidenceNext == TypeOK /\ EvidenceInv /\ [Next]_vars => EvidenceInv'
<1> SUFFICES ASSUME TypeOK, EvidenceInv, [Next]_vars PROVE EvidenceInv'
  OBVIOUS
<1>1. CASE UNCHANGED <<edges, search>>
  BY <1>1, EvidenceKept
<1>2. CASE TakeNode
  BY <1>2, TakeNodeEvidence
<1>3. ASSUME NEW n \in Notes, Discover(n) PROVE EvidenceInv'
  BY <1>3, DiscoverEvidence
<1>4. ASSUME NEW n \in Notes, SkipKnown(n) PROVE EvidenceInv'
  BY <1>4, SkipEvidence
<1>5. \/ TakeNode \/ UNCHANGED <<edges, search>>
      \/ \E n \in Notes : Discover(n) \/ SkipKnown(n)
  BY DEF Next, vars, Reject, EndSearch, Backtrack, EndDetection, CloseCycle, SkipVisited, Descend
<1> QED
  BY <1>1, <1>2, <1>3, <1>4, <1>5
-----------------------------------------------------------------------------
(***************************************************************************)
(* When the search has ended, its distances are the lengths of the         *)
(* shortest paths.                                                         *)
(***************************************************************************)
Ended == TypeOK /\ SearchInv /\ EvidenceInv /\ pc \in {"detecting", "done"}

LEMMA EndedFacts ==
  ASSUME Ended
  PROVE  /\ DOMAIN distances = Reachable /\ Reachable \subseteq Notes /\ Target \in Reachable
         /\ \A n \in Reachable : distances[n] \in Nat /\ n \in Walks[distances[n]]
         /\ distances[Target] = 0
         /\ \A n \in Reachable, m \in Notes :
              <<n, m>> \in edges => m \in Reachable /\ distances[m] <= distances[n] + 1
<1>1. DOMAIN distances = Reachable
  BY SearchEnds DEF Ended, SearchComplete, Reachable
<1>2. Members(frontier) = {} /\ \A n : Pending(n) = {}
  BY DEF Ended, SearchInv, Members, Pending
<1>3. ASSUME NEW n \in Reachable, NEW m \in Notes, <<n, m>> \in edges
      PROVE  m \in Reachable /\ distances[m] <= distances[n] + 1
  BY <1>1, <1>2, <1>3 DEF Ended, EvidenceInv, RelaxedInv, Neighbors
<1> QED
  BY <1>1, <1>3 DEF Ended, TypeOK, SearchTypeOK, EvidenceInv, WalkInv

\* A path of c edges leads to notes no further than c.
LEMMA WalksNoShorter ==
  ASSUME Ended, NEW c \in Nat
  PROVE  \A n \in Walks[c] : n \in Reachable /\ distances[n] <= c
<1> DEFINE P(d) == \A n \in Walks[d] : n \in Reachable /\ distances[n] <= d
           T == {d \in Nat : P(d)}
<1>1. 0 \in T
  BY WalksEquation, EndedFacts
<1>2. ASSUME NEW d \in T PROVE d + 1 \in T
  <2> SUFFICES ASSUME NEW n \in Walks[d + 1] PROVE n \in Reachable /\ distances[n] <= d + 1
    OBVIOUS
  <2>1. PICK m \in Walks[d] : n \in Notes /\ <<m, n>> \in edges
    BY WalksEquation
  <2>2. m \in Reachable /\ distances[m] <= d
    BY <1>2
  <2>3. n \in Reachable /\ distances[n] <= distances[m] + 1
    BY <2>1, <2>2, EndedFacts
  <2>4. distances[m] \in Nat /\ distances[n] \in Nat /\ d \in Nat
    BY <1>2, <2>2, <2>3, EndedFacts
  <2> QED
    BY <2>2, <2>3, <2>4
<1> HIDE DEF P
<1>3. T \in SUBSET Nat
  OBVIOUS
<1> HIDE DEF T
<1>4. c \in T
  BY <1>1, <1>2, <1>3, Induction
<1> QED
  BY <1>4 DEF T, P

\* Every smaller distance is some note's, so no distance exceeds the number of notes.
LEMMA DistanceBounded ==
  ASSUME Ended, NEW n \in Reachable
  PROVE  distances[n] <= Cardinality(Notes)
<1> DEFINE d == distances[n]
           T == {k \in Nat : k <= d => \E m \in Reachable : distances[m] = d - k}
<1>0. d \in Nat
  BY EndedFacts
<1>1. 0 \in T
  BY <1>0
<1>2. ASSUME NEW k \in T PROVE k + 1 \in T
  <2> SUFFICES ASSUME k + 1 <= d PROVE \E m \in Reachable : distances[m] = d - (k + 1)
    BY <1>2
  <2>1. PICK m \in Reachable : distances[m] = d - k
    BY <1>0, <1>2
  <2> DEFINE e == d - (k + 1)
  <2>2. e \in Nat /\ distances[m] = e + 1
    BY <1>0, <1>2, <2>1
  <2>3. m \in Walks[e + 1]
    BY <2>2, EndedFacts
  <2>4. PICK p \in Walks[e] : m \in Notes /\ <<p, m>> \in edges
    BY <2>2, <2>3, WalksEquation
  <2>5. p \in Reachable /\ distances[p] <= e
    BY <2>2, <2>4, WalksNoShorter
  <2>6. e + 1 <= distances[p] + 1 /\ distances[p] \in Nat
    BY <2>2, <2>4, <2>5, EndedFacts
  <2>7. distances[p] = e
    BY <2>2, <2>5, <2>6
  <2> QED
    BY <2>5, <2>7
<1>3. \A c \in 0 .. d : \E m \in Reachable : distances[m] = c
  <2> SUFFICES ASSUME NEW c \in 0 .. d PROVE \E m \in Reachable : distances[m] = c
    OBVIOUS
  <2>1. d - c \in Nat /\ d - c <= d /\ d - (d - c) = c
    BY <1>0
  <2>2. d - c \in T
    BY <1>1, <1>2, <2>1, Induction, T \in SUBSET Nat
  <2> QED
    BY <2>1, <2>2
<1> DEFINE f == [c \in 0 .. d |-> CHOOSE m \in Reachable : distances[m] = c]
<1> HIDE DEF d
<1>4. f \in Injection(0 .. d, Notes)
  <2>1. \A c \in 0 .. d : f[c] \in Reachable /\ distances[f[c]] = c
    BY <1>3
  <2>2. f \in [0 .. d -> Notes]
    BY <2>1, EndedFacts
  <2> HIDE DEF f
  <2> QED
    BY <2>1, <2>2 DEF Injection, IsInjective
<1>5. Cardinality(0 .. d) <= Cardinality(Notes) /\ Cardinality(0 .. d) = d + 1
  BY <1>0, <1>4, FS_Injection, FS_Interval, NotesAssumption
<1> QED
  BY <1>0, <1>5, FS_CardinalityType, NotesAssumption DEF d

LEMMA DistanceExact ==
  ASSUME Ended, NEW n \in Reachable
  PROVE  Distance(n) = distances[n]
<1> DEFINE Shortest(d) == n \in Walks[d] /\ \A c \in 0 .. d - 1 : n \notin Walks[c]
           N == Cardinality(Notes)
<1>1. N \in Nat
  BY FS_CardinalityType, NotesAssumption
<1>2. distances[n] \in 0 .. N /\ n \in Walks[distances[n]]
  BY <1>1, DistanceBounded, EndedFacts
<1>3. \A c \in Nat : n \in Walks[c] => distances[n] <= c
  BY WalksNoShorter
<1>4. Shortest(distances[n])
  BY <1>2, <1>3
<1>5. ASSUME NEW d \in 0 .. N, Shortest(d) PROVE d = distances[n]
  <2>1. distances[n] <= d
    BY <1>3, <1>5
  <2>2. ~(distances[n] < d)
    BY <1>2, <1>5
  <2> QED
    BY <1>2, <2>1, <2>2
<1>6. Distance(n) = CHOOSE d \in 0 .. N : Shortest(d)
  BY DEF Distance
<1> HIDE DEF Shortest
<1> QED
  BY <1>2, <1>4, <1>5, <1>6
-----------------------------------------------------------------------------
(***************************************************************************)
(* The list in the evidence.                                               *)
(***************************************************************************)
\* The list s holds what the first i notes of the order leave, in their order.
Holds(s, i) ==
  /\ s \in Seq(Notes)
  /\ \A k \in 1 .. Len(s) : \E j \in 1 .. i : s[k] = discovery_order[j] /\ WithinLimit(s[k])
  /\ \A j \in 1 .. i : WithinLimit(discovery_order[j]) => discovery_order[j] \in Members(s)
  /\ \A k, l \in 1 .. Len(s) : k < l => s[k] # s[l] /\ distances[s[k]] <= distances[s[l]]

LEMMA HoldsAppend ==
  ASSUME OrderInv, discovery_order \in Seq(Notes), NEW i \in 1 .. Len(discovery_order),
         NEW s, Holds(s, i - 1), WithinLimit(discovery_order[i])
  PROVE  Holds(Append(s, discovery_order[i]), i)
<1> DEFINE n == discovery_order[i]
           t == Append(s, n)
<1>0. i \in Nat /\ i - 1 \in Nat /\ Len(discovery_order) \in Nat /\ n \in Notes
  BY ElementOfSeq, LenProperties
<1>1. s \in Seq(Notes) /\ t \in Seq(Notes)
  BY <1>0 DEF Holds
<1>2. /\ Len(s) \in Nat /\ Len(t) = Len(s) + 1
      /\ \A k \in 1 .. Len(s) : t[k] = s[k]
      /\ t[Len(s) + 1] = n
      /\ Members(t) = Members(s) \cup {n}
  BY <1>0, <1>1, AppendMembers
<1>3. \A k \in 1 .. Len(s) : \E j \in 1 .. i - 1 : s[k] = discovery_order[j] /\ WithinLimit(s[k])
  BY DEF Holds
<1>4. \A j \in 1 .. i - 1 : WithinLimit(discovery_order[j]) => discovery_order[j] \in Members(s)
  BY DEF Holds
<1>5. \A k, l \in 1 .. Len(s) : k < l => s[k] # s[l] /\ distances[s[k]] <= distances[s[l]]
  BY DEF Holds
<1>6. \A j \in 1 .. i - 1 :
        /\ j \in 1 .. i /\ discovery_order[j] # n /\ distances[discovery_order[j]] <= distances[n]
  BY <1>0 DEF OrderInv
<1>7. \A k \in 1 .. Len(s) + 1 : k \in 1 .. Len(s) \/ k = Len(s) + 1
  BY <1>2
<1>8. i \in 1 .. i /\ \A j \in 1 .. i : j \in 1 .. i - 1 \/ j = i
  BY <1>0
<1> HIDE DEF t
<1>9. \A k \in 1 .. Len(t) : \E j \in 1 .. i : t[k] = discovery_order[j] /\ WithinLimit(t[k])
  BY <1>2, <1>3, <1>6, <1>7, <1>8
<1>10. \A j \in 1 .. i : WithinLimit(discovery_order[j]) => discovery_order[j] \in Members(t)
  BY <1>2, <1>4, <1>8
<1>11. ASSUME NEW k \in 1 .. Len(t), NEW l \in 1 .. Len(t), k < l
       PROVE  t[k] # t[l] /\ distances[t[k]] <= distances[t[l]]
  <2>1. k \in 1 .. Len(s)
    BY <1>2, <1>11
  <2>2. CASE l = Len(s) + 1
    BY <1>2, <1>3, <1>6, <2>1, <2>2
  <2>3. CASE l # Len(s) + 1
    <3>1. l \in 1 .. Len(s)
      BY <1>2, <2>3
    <3> QED
      BY <1>2, <1>5, <1>11, <2>1, <3>1
  <2> QED
    BY <2>2, <2>3
<1> QED
  BY <1>1, <1>9, <1>10, <1>11 DEF Holds, t

LEMMA HoldsSkip ==
  ASSUME NEW i \in Nat \ {0}, NEW s, Holds(s, i - 1), ~WithinLimit(discovery_order[i])
  PROVE  Holds(s, i)
<1>1. \A j \in 1 .. i : j \in 1 .. i - 1 \/ j = i
  OBVIOUS
<1>2. \A j \in 1 .. i - 1 : j \in 1 .. i
  OBVIOUS
<1> QED
  BY <1>1, <1>2 DEF Holds

LEMMA ListHolds ==
  ASSUME OrderInv, discovery_order \in Seq(Notes)
  PROVE  Holds(reachable_unique, Len(discovery_order))
<1> DEFINE len == Len(discovery_order)
           T == {i \in Nat : i <= len => Holds(Listed[i], i)}
<1>0. len \in Nat
  BY LenProperties
<1>1. 0 \in T
  <2>1. Listed[0] = <<>> /\ Len(<<>>) = 0 /\ <<>> \in Seq(Notes)
    BY ListedEquation
  <2>2. Holds(<<>>, 0)
    BY <2>1 DEF Holds
  <2> QED
    BY <2>1, <2>2
<1>2. ASSUME NEW i \in T PROVE i + 1 \in T
  <2> SUFFICES ASSUME i + 1 <= len PROVE Holds(Listed[i + 1], i + 1)
    BY <1>2
  <2>1. i \in Nat /\ i + 1 \in 1 .. len /\ i + 1 \in Nat \ {0} /\ (i + 1) - 1 = i
    BY <1>0, <1>2
  <2>2. Holds(Listed[i], (i + 1) - 1)
    BY <1>0, <1>2, <2>1
  <2>3. Listed[i + 1] = IF WithinLimit(discovery_order[i + 1])
                        THEN Append(Listed[i], discovery_order[i + 1]) ELSE Listed[i]
    BY <2>1, ListedEquation
  <2>4. CASE WithinLimit(discovery_order[i + 1])
    <3>1. Holds(Append(Listed[i], discovery_order[i + 1]), i + 1)
      BY <2>1, <2>2, <2>4, HoldsAppend
    <3> QED
      BY <2>3, <2>4, <3>1
  <2>5. CASE ~WithinLimit(discovery_order[i + 1])
    <3>1. Holds(Listed[i], i + 1)
      BY <2>1, <2>2, <2>5, HoldsSkip
    <3> QED
      BY <2>3, <2>5, <3>1
  <2> QED
    BY <2>4, <2>5
<1>3. T \in SUBSET Nat
  OBVIOUS
<1> HIDE DEF T
<1>4. len \in T
  BY <1>0, <1>1, <1>2, <1>3, Induction
<1> QED
  BY <1>0, <1>4 DEF T, reachable_unique

LEMMA DistinctCount ==
  ASSUME NEW S, NEW s \in Seq(S), \A k, l \in 1 .. Len(s) : k < l => s[k] # s[l]
  PROVE  Len(s) = Cardinality(Members(s))
<1>1. Len(s) \in Nat /\ DOMAIN s = 1 .. Len(s) /\ s \in [1 .. Len(s) -> Members(s)]
  BY LenProperties DEF Members
<1>2. \A k, l \in 1 .. Len(s) : s[k] = s[l] => k = l
  <2> SUFFICES ASSUME NEW k \in 1 .. Len(s), NEW l \in 1 .. Len(s), k # l PROVE s[k] # s[l]
    OBVIOUS
  <2>1. k < l \/ l < k
    BY <1>1
  <2> QED
    BY <2>1
<1>3. \A n \in Members(s) : \E k \in 1 .. Len(s) : s[k] = n
  BY <1>1 DEF Members
<1>4. ExistsBijection(1 .. Len(s), Members(s))
  BY <1>1, <1>2, <1>3
  DEF ExistsBijection, Bijection, Injection, IsInjective, Surjection
<1> QED
  BY <1>1, <1>4, FS_CountingElements

\* The list holds what is within the limit, each note once, nearest first.
LEMMA ListExact ==
  ASSUME Ended
  PROVE  /\ Members(reachable_unique) =
              {n \in Reachable \ {Target} : distances[n] <= depth_limit}
         /\ Len(reachable_unique) = Cardinality(Members(reachable_unique))
         /\ DOMAIN reachable_unique = 1 .. Len(reachable_unique)
         /\ Len(reachable_unique) \in Nat
         /\ \A i \in DOMAIN reachable_unique : reachable_unique[i] \in Reachable \ {Target}
         /\ \A i, j \in DOMAIN reachable_unique :
              i < j => distances[reachable_unique[i]] <= distances[reachable_unique[j]]
<1> DEFINE s == reachable_unique
           len == Len(discovery_order)
<1>1. OrderInv /\ discovery_order \in Seq(Notes)
  BY DEF Ended, EvidenceInv, TypeOK, SearchTypeOK
<1>2. Holds(s, len)
  BY <1>1, ListHolds
<1>3. /\ \A j \in 1 .. len : discovery_order[j] \in Reachable \ {Target}
      /\ \A n \in Reachable \ {Target} : \E j \in 1 .. len : n = discovery_order[j]
  <2>1. Members(discovery_order) = Reachable \ {Target} /\ DOMAIN discovery_order = 1 .. len
    BY <1>1, EndedFacts, LenProperties DEF OrderInv
  <2> QED
    BY <2>1 DEF Members
<1> HIDE DEF s
<1>4. s \in Seq(Notes) /\ DOMAIN s = 1 .. Len(s) /\ Len(s) \in Nat
  BY <1>2, LenProperties DEF Holds
<1>5. \A k \in 1 .. Len(s) : s[k] \in Reachable \ {Target} /\ WithinLimit(s[k])
  BY <1>2, <1>3 DEF Holds
<1>6. \A n \in Reachable \ {Target} : WithinLimit(n) => n \in Members(s)
  BY <1>2, <1>3 DEF Holds
<1>7. Members(s) = {n \in Reachable \ {Target} : distances[n] <= depth_limit}
  BY <1>4, <1>5, <1>6 DEF Members, WithinLimit
<1>8. Len(s) = Cardinality(Members(s))
  BY <1>2, <1>4, DistinctCount DEF Holds
<1> QED
  BY <1>2, <1>4, <1>5, <1>7, <1>8 DEF s, Holds
-----------------------------------------------------------------------------
(***************************************************************************)
(* The evidence.                                                           *)
(***************************************************************************)
\* The detection goes nowhere the search does not.
VisitedInv == visited \subseteq Reachable

LEMMA VisitedInit == Init => VisitedInv
BY ReachSelf, NotesAssumption DEF Init, VisitedInv, Reachable

LEMMA VisitedNext == TypeOK /\ PathInv /\ VisitedInv /\ [Next]_vars => VisitedInv'
<1> SUFFICES ASSUME TypeOK, PathInv, VisitedInv, [Next]_vars PROVE VisitedInv'
  OBVIOUS
<1>1. edges' = edges => Reachable' = Reachable
  BY DEF Reachable, ReachableFrom, Closed
<1>2. edges' = edges
  BY DEF Next, vars, Reject, TakeNode, EndSearch, Backtrack, EndDetection, Discover, SkipKnown,
         CloseCycle, SkipVisited, Descend
<1>3. CASE \E n \in Notes : Descend(n)
  <2>1. PICK n \in Notes : Descend(n)
    BY <1>3
  <2>2. stack # <<>> /\ n \in Top.left
    BY <2>1 DEF Descend, Facing, Detecting, IsFirst
  <2>3. /\ Len(stack) \in DOMAIN stack /\ Top.node \in visited
        /\ Top.left \subseteq Neighbors(Top.node)
    BY <2>2, TopType DEF TypeOK, DetectionTypeOK, PathInv, Top
  <2>4. n \in Reachable
    BY <2>2, <2>3, NeighborReachable DEF TypeOK, VisitedInv
  <2> QED
    BY <1>1, <1>2, <2>1, <2>4 DEF Descend, VisitedInv
<1>4. CASE ~\E n \in Notes : Descend(n)
  <2>1. visited' = visited
    BY <1>4 DEF Next, vars, detection, Reject, TakeNode, EndSearch, Backtrack, EndDetection,
                Discover, SkipKnown, CloseCycle, SkipVisited
  <2> QED
    BY <1>1, <1>2, <2>1 DEF VisitedInv
<1> QED
  BY <1>3, <1>4

\* An edge from whose end its start can be reached lies in a set every note of which has
\* an edge into the set.
LEMMA CycleNotAcyclic ==
  ASSUME NEW S \in SUBSET Notes, NEW E \in SUBSET (Notes \X Notes), NEW e \in E,
         e[1] \in ReachableFrom(e[2], E), ReachableFrom(e[2], E) \subseteq S
  PROVE  ~Acyclic(S, E)
<1> DEFINE a == e[1]
           b == e[2]
           T == {m \in ReachableFrom(b, E) : a \in ReachableFrom(m, E)}
<1>0. a \in Notes /\ b \in Notes /\ <<a, b>> \in E
  OBVIOUS
<1>1. b \in T /\ a \in T
  BY <1>0, ReachSelf
<1>2. ASSUME NEW n \in T, \A m \in T : <<n, m>> \notin E PROVE FALSE
  <2> DEFINE U == {n} \cup {m \in Notes : a \notin ReachableFrom(m, E)}
  <2>1. n \in Notes /\ n \in ReachableFrom(b, E) /\ a \in ReachableFrom(n, E)
    BY DEF ReachableFrom
  <2>2. Closed(U, E)
    <3> SUFFICES ASSUME NEW f \in E, f[1] \in U PROVE f[2] \in U
      BY DEF Closed
    <3>1. f[1] \in Notes /\ f[2] \in Notes /\ <<f[1], f[2]>> \in E
      OBVIOUS
    <3>2. CASE f[1] = n
      <4>1. f[2] \in ReachableFrom(b, E) /\ f[2] \notin T
        BY <1>2, <2>1, <3>1, <3>2, ReachStep
      <4> QED
        BY <3>1, <4>1
    <3>3. CASE a \notin ReachableFrom(f[1], E)
      <4>1. f[2] \in ReachableFrom(f[1], E)
        BY <3>1, ReachSelf, ReachStep
      <4>2. a \notin ReachableFrom(f[2], E)
        BY <3>3, <4>1, ReachTransitive
      <4> QED
        BY <3>1, <4>2
    <3> QED
      BY <3>2, <3>3
  <2>3. a \in U
    <3>1. U \in SUBSET Notes /\ n \in U
      BY <2>1
    <3> QED
      BY <2>1, <2>2, <3>1, ReachLeast
  <2>4. a = n
    BY <1>0, <2>3, ReachSelf
  <2> QED
    BY <1>0, <1>1, <1>2, <2>4
<1>3. T \subseteq S /\ T # {}
  BY <1>1
<1> HIDE DEF T
<1> QED
  BY <1>2, <1>3 DEF Acyclic

LEMMA CycleExact ==
  ASSUME TypeOK, DetectionInv, VisitedInv, Done
  PROVE  cycle_detected <=> ~Acyclic(Reachable, edges)
<1>1. ASSUME cycle_detected PROVE ~Acyclic(Reachable, edges)
  <2>1. PICK e \in cycle_edge_set : e \in edges /\ e[1] \in ReachableFrom(e[2], edges) /\ e[2] \in visited
    BY <1>1 DEF cycle_detected, DetectionInv, ListedInv, CycleEdgesOnCycles
  <2>2. ReachableFrom(e[2], edges) \subseteq Reachable
    BY <2>1, ReachTransitive DEF VisitedInv, Reachable
  <2>3. Reachable \in SUBSET Notes /\ edges \in SUBSET (Notes \X Notes)
    BY DEF Reachable, ReachableFrom, TypeOK, GraphTypeOK
  <2> QED
    BY <2>1, <2>2, <2>3, CycleNotAcyclic
<1>2. ASSUME ~cycle_detected PROVE Acyclic(Reachable, edges)
  <2>1. edges \ cycle_edge_set = edges
    BY <1>2 DEF cycle_detected
  <2> QED
    BY <2>1, DetectionEnds DEF EveryCycleHit, Reachable
<1> QED
  BY <1>1, <1>2

TraversalInv == TypeOK /\ SearchInv /\ EvidenceInv /\ DetectionInv /\ VisitedInv

LEMMA TraversalInvariant == Spec => []TraversalInv
<1>1. Init => TraversalInv
  BY InitTypes, SearchInit, EvidenceInit, DetectionInit, VisitedInit DEF TraversalInv
<1>2. TraversalInv /\ [Next]_vars => TraversalInv'
  BY NextTypes, SearchNext, EvidenceNext, DetectionNext, VisitedNext DEF TraversalInv, DetectionInv
<1> QED
  BY <1>1, <1>2, PTL DEF Spec

\* Whatever the graph, its cycles and the limit: the evidence lists each prerequisite within
\* the limit once, nearest first, by shortest distance; it is truncated exactly if a
\* prerequisite is further; and it has a cycle exactly if the graph has one
\* (evaluate_prerequisite_traversal).
THEOREM EvidenceAlwaysExact == Spec => []EvidenceExact
<1>1. TraversalInv => EvidenceExact
  <2> SUFFICES ASSUME TraversalInv, Done PROVE EvidenceExact
    BY DEF EvidenceExact
  <2> DEFINE reachable == Reachable \ {Target}
             s == reachable_unique
  <2>1. Ended
    BY DEF TraversalInv, Ended, Done
  <2>2. \A n \in Reachable : Distance(n) = distances[n]
    BY <2>1, DistanceExact
  <2>3. /\ Members(s) = {n \in reachable : distances[n] <= depth_limit}
        /\ Len(s) = Cardinality(Members(s))
        /\ \A i \in DOMAIN s : s[i] \in reachable
        /\ \A i, j \in DOMAIN s : i < j => distances[s[i]] <= distances[s[j]]
    BY <2>1, ListExact
  <2>4. truncated <=> \E n \in reachable : distances[n] > depth_limit
    BY <2>1, EndedFacts DEF truncated
  <2>5. cycle_detected <=> ~Acyclic(reachable \cup {Target}, edges)
    <3>1. reachable \cup {Target} = Reachable
      BY <2>1, EndedFacts
    <3> QED
      BY <3>1, CycleExact DEF TraversalInv
  <2> HIDE DEF s
  <2>6. /\ Members(s) = {n \in reachable : Distance(n) <= depth_limit}
        /\ \A i, j \in DOMAIN s : i < j => Distance(s[i]) <= Distance(s[j])
        /\ truncated <=> \E n \in reachable : Distance(n) > depth_limit
    BY <2>2, <2>3, <2>4
  <2>7. ReachableFrom(Target, edges) \ {Target} = reachable
    BY DEF Reachable
  <2> HIDE DEF reachable
  <2> QED
    BY <2>3, <2>5, <2>6, <2>7 DEF EvidenceExact, s
<1> QED
  BY <1>1, TraversalInvariant, PTL
-----------------------------------------------------------------------------
(***************************************************************************)
(* The other two searches.                                                 *)
(***************************************************************************)
\* The notes the paths of lengths 1 to d lead to.
Within(d) == UNION {Walks[c] : c \in 1 .. d}

LEMMA WithinNext ==
  ASSUME NEW d \in Nat
  PROVE  /\ Within(d + 1) = Within(d) \cup Walks[d + 1]
         /\ \A n \in Within(d), m \in Notes : <<n, m>> \in edges => m \in Within(d + 1)
         /\ \A m \in Within(d + 1) : \E c \in 0 .. d : \E n \in Walks[c] : <<n, m>> \in edges
<1>1. \A c : c \in 1 .. d + 1 <=> c \in 1 .. d \/ c = d + 1
  OBVIOUS
<1>2. Within(d + 1) = Within(d) \cup Walks[d + 1]
  BY <1>1 DEF Within
<1>3. ASSUME NEW n \in Within(d), NEW m \in Notes, <<n, m>> \in edges
      PROVE  m \in Within(d + 1)
  <2>1. PICK c \in 1 .. d : n \in Walks[c]
    BY DEF Within
  <2>2. m \in Walks[c + 1] /\ c + 1 \in 1 .. d + 1
    BY <1>3, <2>1, WalksEquation
  <2> QED
    BY <2>2 DEF Within
<1>4. ASSUME NEW m \in Within(d + 1) PROVE \E c \in 0 .. d : \E n \in Walks[c] : <<n, m>> \in edges
  <2>1. PICK c \in 1 .. d + 1 : m \in Walks[c]
    BY DEF Within
  <2>2. c - 1 \in 0 .. d /\ c - 1 \in Nat /\ (c - 1) + 1 = c
    OBVIOUS
  <2>3. \E n \in Walks[c - 1] : <<n, m>> \in edges
    <3> DEFINE b == c - 1
    <3>1. b \in Nat /\ m \in Walks[b + 1]
      BY <2>1, <2>2
    <3> HIDE DEF b
    <3>2. \E n \in Walks[b] : <<n, m>> \in edges
      BY <3>1, WalksEquation
    <3> QED
      BY <3>2 DEF b
  <2> QED
    BY <2>2, <2>3
<1> QED
  BY <1>2, <1>3, <1>4

\* What a path of bounded length leads to is what is no further than the bound.
LEMMA WithinIsNear ==
  ASSUME Ended, NEW d \in Nat
  PROVE  Within(d) \ {Target} = {n \in Reachable \ {Target} : distances[n] <= d}
<1>1. ASSUME NEW n \in Within(d) PROVE n \in Reachable /\ distances[n] <= d
  <2>1. PICK c \in 1 .. d : n \in Walks[c]
    BY DEF Within
  <2>2. n \in Reachable /\ distances[n] <= c /\ c <= d /\ c \in Nat
    BY <2>1, WalksNoShorter
  <2> QED
    BY <2>2, EndedFacts
<1>2. ASSUME NEW n \in Reachable \ {Target}, distances[n] <= d PROVE n \in Within(d)
  <2>1. distances[n] \in Nat /\ n \in Walks[distances[n]]
    BY EndedFacts
  <2>2. distances[n] # 0
    BY <2>1, WalksEquation
  <2>3. distances[n] \in 1 .. d
    BY <1>2, <2>1, <2>2
  <2> QED
    BY <2>1, <2>3 DEF Within
<1> QED
  BY <1>1, <1>2

\* A question about a note's prerequisites gets the notes the evidence lists, up to the row
\* limit, for every graph, depth and limit (PREREQUISITE_CLOSURE).
THEOREM QueryAlwaysAgrees == Spec => []QueryAgrees
<1>1. TraversalInv => QueryAgrees
  <2> SUFFICES ASSUME TraversalInv, Done, depth_limit = MAX_PREREQUISITE_DEPTH
               PROVE  QueryAgrees
    BY DEF QueryAgrees
  <2>1. Ended
    BY DEF TraversalInv, Ended, Done
  <2>2. QueryClosure = Within(MAX_PREREQUISITE_DEPTH) \ {Target}
    BY DEF QueryClosure, Paths, Within
  <2>3. QueryClosure = Members(reachable_unique)
    BY <2>1, <2>2, WithinIsNear, ListExact, LimitsAssumption
  <2> QED
    BY <2>3 DEF QueryAgrees, QueryRows
<1> QED
  BY <1>1, TraversalInvariant, PTL

\* After d rounds the script has visited what paths of lengths 1 to d lead to, and its
\* frontier is what the last of them found first.
LEMMA RoundsWithin ==
  ASSUME edges \subseteq Notes \X Notes, NEW d \in Nat
  PROVE  /\ Rounds[d].visited = Within(d)
         /\ Rounds[d].frontier = {n \in Walks[d] : \A c \in 1 .. d - 1 : n \notin Walks[c]}
<1> DEFINE First(k) == {n \in Walks[k] : \A c \in 1 .. k - 1 : n \notin Walks[c]}
           P(k) == Rounds[k].visited = Within(k) /\ Rounds[k].frontier = First(k)
           T == {k \in Nat : P(k)}
<1>1. 0 \in T
  <2>1. Within(0) = {}
    BY DEF Within
  <2>2. First(0) = {Target}
    BY WalksEquation
  <2>3. Rounds[0].visited = {} /\ Rounds[0].frontier = {Target}
    BY RoundsEquation
  <2> QED
    BY <2>1, <2>2, <2>3
<1>2. ASSUME NEW k \in T PROVE k + 1 \in T
  <2>0. k \in Nat /\ Rounds[k].visited = Within(k) /\ Rounds[k].frontier = First(k)
    BY <1>2
  <2> DEFINE ahead == (UNION {Neighbors(n) : n \in Rounds[k].frontier}) \ Rounds[k].visited
  <2>1. Rounds[k + 1].frontier = ahead /\ Rounds[k + 1].visited = Rounds[k].visited \cup ahead
    <3>1. Rounds[k + 1] = [frontier |-> ahead, visited |-> Rounds[k].visited \cup ahead]
      BY <2>0, RoundsEquation
    <3> HIDE DEF ahead
    <3> QED
      BY <3>1
  <2>2. \A m : m \in ahead <=> m \notin Within(k) /\ \E n \in First(k) : m \in Neighbors(n)
    BY <2>0
  <2> HIDE DEF ahead
  <2>3. First(k + 1) = Walks[k + 1] \ Within(k)
    <3>1. (k + 1) - 1 = k
      BY <2>0
    <3> QED
      BY <3>1 DEF Within
  <2>4. ASSUME NEW m \in ahead PROVE m \in Walks[k + 1] \ Within(k)
    <3>1. m \notin Within(k) /\ \E n \in First(k) : m \in Neighbors(n)
      BY <2>2, <2>4
    <3>2. PICK n \in First(k) : m \in Neighbors(n)
      BY <3>1
    <3> QED
      BY <2>0, <3>1, <3>2, WalksEquation DEF Neighbors
  <2>5. ASSUME NEW m \in Walks[k + 1], m \notin Within(k) PROVE m \in ahead
    <3>1. PICK n \in Walks[k] : m \in Notes /\ <<n, m>> \in edges
      BY <2>0, WalksEquation
    <3>2. ASSUME NEW c \in 1 .. k - 1, n \in Walks[c] PROVE FALSE
      <4>1. c + 1 \in 1 .. k /\ c \in Nat
        BY <2>0
      <4>2. m \in Walks[c + 1]
        BY <3>1, <3>2, <4>1, WalksEquation
      <4> QED
        BY <2>5, <4>1, <4>2 DEF Within
    <3>3. n \in First(k) /\ m \in Neighbors(n)
      BY <3>1, <3>2 DEF Neighbors
    <3> QED
      BY <2>2, <2>5, <3>3
  <2>6. ahead = First(k + 1)
    BY <2>3, <2>4, <2>5
  <2>7. Within(k + 1) = Within(k) \cup ahead
    BY <2>0, <2>3, <2>6, WithinNext
  <2>8. P(k + 1)
    BY <2>0, <2>1, <2>6, <2>7
  <2> HIDE DEF P
  <2> QED
    BY <2>0, <2>8
<1>3. T \in SUBSET Nat
  OBVIOUS
<1> HIDE DEF P
<1> HIDE DEF T
<1>4. d \in T
  BY <1>1, <1>2, <1>3, Induction
<1> QED
  BY <1>4 DEF T, P

\* A round that found nothing new: nothing is further than it.
LEMMA EmptyRound ==
  ASSUME edges \subseteq Notes \X Notes, ~MigrationRefuses
  PROVE  /\ MAX_PREREQUISITE_DEPTH \in Nat \ {0}
         /\ MigrationClosure = Within(MAX_PREREQUISITE_DEPTH)
         /\ Reachable \subseteq Within(MAX_PREREQUISITE_DEPTH) \cup {Target}
         /\ \A n \in Within(MAX_PREREQUISITE_DEPTH) \cup {Target}, m \in Notes :
              <<n, m>> \in edges => m \in Within(MAX_PREREQUISITE_DEPTH)
<1> DEFINE D == MAX_PREREQUISITE_DEPTH
           S == Within(D) \cup {Target}
<1>0. D \in Nat
  BY LimitsAssumption
<1>1. MigrationClosure = Within(D)
  BY <1>0, RoundsWithin DEF MigrationClosure
<1>2. \A n \in Walks[D] : \E c \in 1 .. D - 1 : n \in Walks[c]
  <2>1. Rounds[D].frontier = {}
    BY DEF MigrationRefuses
  <2> QED
    BY <1>0, <2>1, RoundsWithin
<1>3. D # 0
  <2> SUFFICES ASSUME D = 0 PROVE FALSE
    OBVIOUS
  <2>1. Target \in Walks[D]
    BY WalksEquation
  <2> QED
    BY <1>2, <2>1
<1> DEFINE b == D - 1
<1>4. b \in Nat /\ D = b + 1
  BY <1>0, <1>3
<1> HIDE DEF b, D
<1>5. Within(D) = Within(b)
  <2>1. Walks[b + 1] \subseteq Within(b)
    BY <1>2, <1>4 DEF Within, b
  <2> QED
    BY <1>4, <2>1, WithinNext
<1>6. \A n \in Within(D), m \in Notes : <<n, m>> \in edges => m \in Within(D)
  BY <1>4, <1>5, WithinNext
<1>7. \A m \in Notes : <<Target, m>> \in edges => m \in Within(D)
  <2>1. \A m \in Notes : <<Target, m>> \in edges => m \in Walks[0 + 1]
    BY WalksEquation
  <2>2. 1 \in 1 .. D
    BY <1>4
  <2> QED
    BY <2>1, <2>2 DEF Within
<1>8. Reachable \subseteq S
  <2>1. S \in SUBSET Notes
    BY <1>0, WalksEquation, NotesAssumption DEF Within
  <2>2. Closed(S, edges)
    <3> SUFFICES ASSUME NEW e \in edges, e[1] \in S PROVE e[2] \in S
      BY DEF Closed
    <3>1. e[2] \in Notes /\ e = <<e[1], e[2]>>
      OBVIOUS
    <3> QED
      BY <1>6, <1>7, <3>1
  <2> QED
    BY <2>1, <2>2, ReachLeast DEF Reachable
<1> QED
  BY <1>0, <1>1, <1>3, <1>6, <1>7, <1>8 DEF D

\* For every graph whose closure the migration script accepts, the evidence is whole and
\* names the notes of the closure; the target itself the script alone lists, exactly if it
\* is on a cycle (_bounded_closure).
THEOREM MigrationAlwaysAgrees == Spec => []MigrationAgrees
<1>1. TraversalInv => MigrationAgrees
  <2> DEFINE D == MAX_PREREQUISITE_DEPTH
  <2> SUFFICES ASSUME TraversalInv, Done, depth_limit = D, ~MigrationRefuses
               PROVE  MigrationAgrees
    BY DEF MigrationAgrees
  <2>1. Ended /\ edges \subseteq Notes \X Notes
    BY DEF TraversalInv, Ended, Done, TypeOK, GraphTypeOK
  <2>2. D \in Nat /\ MigrationClosure = Within(D)
    BY <2>1, EmptyRound
  <2>3. Within(D) \ {Target} = {n \in Reachable \ {Target} : distances[n] <= D}
    BY <2>1, <2>2, WithinIsNear
  <2>4. ~truncated
    <3> SUFFICES ASSUME NEW n \in Reachable \ {Target} PROVE ~(distances[n] > D)
      BY <2>1, EndedFacts DEF truncated
    <3>1. n \in Within(D) \ {Target}
      BY <2>1, EmptyRound
    <3>2. distances[n] <= D /\ distances[n] \in Nat
      BY <2>1, <2>3, <3>1, EndedFacts
    <3> QED
      BY <2>2, <3>2
  <2>5. MigrationClosure \ {Target} = Members(reachable_unique)
    BY <2>1, <2>2, <2>3, ListExact
  <2>6. ASSUME Target \in MigrationClosure PROVE \E n \in Reachable : <<n, Target>> \in edges
    <3>1. PICK c \in 1 .. D : Target \in Walks[c]
      BY <2>2, <2>6 DEF Within
    <3> DEFINE b == c - 1
    <3>2. b \in Nat /\ c = b + 1
      BY <2>2
    <3> HIDE DEF b
    <3>3. PICK n \in Walks[b] : <<n, Target>> \in edges
      BY <3>1, <3>2, WalksEquation
    <3> QED
      BY <2>1, <3>2, <3>3, WalksNoShorter
  <2>7. ASSUME NEW n \in Reachable, <<n, Target>> \in edges PROVE Target \in MigrationClosure
    BY <2>1, <2>2, <2>7, EmptyRound, NotesAssumption
  <2> QED
    BY <2>4, <2>5, <2>6, <2>7 DEF MigrationAgrees, Reachable
<1> QED
  BY <1>1, TraversalInvariant, PTL
=============================================================================
