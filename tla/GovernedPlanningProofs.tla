------------------------ MODULE GovernedPlanningProofs ------------------------
(***************************************************************************)
(* Proofs about GovernedPlanning, for any clients, questions, registries   *)
(* and edits.                                                              *)
(***************************************************************************)
EXTENDS GovernedPlanning, TLAPS

\* What a client holds is kept for every client.
HeldByClients ==
  /\ DOMAIN made = Clients /\ DOMAIN discovery = Clients /\ DOMAIN permit = Clients
  /\ DOMAIN plan = Clients /\ DOMAIN grant = Clients /\ DOMAIN query = Clients
  /\ DOMAIN answer = Clients

\* A decision says what the policy says of its own subject and registry.
PermitInv ==
  \A c \in Clients : permit[c] # Nothing /\ permit[c].allowed =>
     DiscoveryReason(permit[c].discovery, permit[c].discovery.caller, permit[c].registry) = "ALLOWED"
GrantInv ==
  \A c \in Clients : grant[c] # Nothing /\ grant[c].allowed =>
     PlanReason(grant[c].plan, grant[c].plan.caller, grant[c].registry) = "ALLOWED"

\* A compiled query is one of its question.
QueryInv ==
  \A c \in Clients : query[c] # Nothing =>
     /\ FitsTemplate(query[c].plan, query[c].registry)
     /\ ResolvesTo(query[c].question, query[c].plan, query[c].registry)

DecisionInv == HeldByClients /\ PermitInv /\ GrantInv /\ QueryInv
                /\ AnswersWithinScope /\ AnswersTheQuestion
-----------------------------------------------------------------------------
(***************************************************************************)
(* The policy and the planner.                                             *)
(***************************************************************************)
\* Whatever passes the tests on a plan is within the scope of its caller.
LEMMA AllowedWithinScope ==
  ASSUME NEW subject, NEW caller, NEW reg, PlanReason(subject, caller, reg) = "ALLOWED"
  PROVE  WithinScope(subject, caller, reg)
<1>1. /\ caller.role \in KnownRoles /\ subject.caller = caller
      /\ subject.products \subseteq RoleProducts(caller.role)
      /\ Classified(caller.role, subject.products, reg) /\ QualityHolds(subject.products, reg)
      /\ ~(caller.country # NoCountry /\ subject.countries # {caller.country})
      /\ ~(caller.role \in FrenchRoles /\ subject.countries # {"FR"})
      /\ ~(caller.role = "FinanceAnalyst" /\ ProjectsPii(subject.projected, subject.countries, reg))
  BY DEF PlanReason
<1>2. \A p \in subject.products :
        /\ p \in RoleProducts(caller.role) /\ p \in DOMAIN reg.products
        /\ reg.products[p].quality = "CERTIFIED" /\ WithinRank(caller.role, reg.products[p].classification)
  BY <1>1 DEF Classified, QualityHolds
<1> QED BY <1>1, <1>2 DEF WithinScope

\* Whatever passes the tests on a discovery passes those on the plan built from it.
LEMMA PermitAgrees ==
  ASSUME NEW d, NEW reg, DiscoveryReason(d, d.caller, reg) = "ALLOWED"
  PROVE  PlanReason(PlanOf(d), PlanOf(d).caller, reg) = "ALLOWED"
<1>1. /\ PlanOf(d).caller = d.caller /\ PlanOf(d).products = d.products
      /\ PlanOf(d).countries = d.countries /\ PlanOf(d).projected = d.projected
  BY DEF PlanOf
<1> QED BY <1>1 DEF DiscoveryReason, PlanReason

\* The metrics of the predicates of a question are the metrics it asks for.
LEMMA PredicatesOfMetrics ==
  ASSUME NEW q, q.intent \in {"claims", "active", "ratio"}
  PROVE  {p[1] : p \in Predicates(q)} = Metrics(q)
<1>1. ASSUME NEW s, NEW t PROVE {p[1] : p \in {s, t}} = {s[1], t[1]}
  OBVIOUS
<1>2. ASSUME NEW M PROVE {p[1] : p \in {<<m, ">", "zero">> : m \in M}} = M
  <2>1. \A m \in M : <<m, ">", "zero">>[1] = m
    OBVIOUS
  <2> QED BY <2>1, Zenon
<1>3. CASE q.intent = "claims"
  <2>1. Metrics(q) = {"PostingCount", "TotalDebitLossEur"}
    BY <1>3 DEF Metrics
  <2>2. Predicates(q) = {<<"PostingCount", CountOperator(q), "the count">>,
                         <<"TotalDebitLossEur", ">", LossNumber(q)>>}
    BY <1>3 DEF Predicates
  <2>3. {p[1] : p \in Predicates(q)} = {<<"PostingCount", CountOperator(q), "the count">>[1],
                                        <<"TotalDebitLossEur", ">", LossNumber(q)>>[1]}
    BY <1>1, <2>2, Zenon
  <2> QED BY <2>1, <2>3
<1>4. CASE q.intent # "claims"
  BY <1>2, <1>4 DEF Predicates
<1> QED BY <1>3, <1>4

\* A plan that fits the template and is the plan of a question has its country and metrics.
LEMMA PlanOfQuestion ==
  ASSUME NEW q, NEW p, NEW reg, FitsTemplate(p, reg), ResolvesTo(q, p, reg)
  PROVE  /\ p.countries = {q.country} /\ p.product = {Automotive}
         /\ {pred[1] : pred \in p.predicates} = Metrics(q)
<1>1. p.countries = {q.country} /\ p.predicates = Predicates(q) /\ p.product \subseteq {Automotive}
  BY DEF ResolvesTo, PlanOf, Discovery
<1>2. p.product # {}
  BY DEF FitsTemplate
<1>3. q.intent \in {"claims", "active", "ratio"}
  BY DEF ResolvesTo, Discoverable
<1> QED BY <1>1, <1>2, <1>3, PredicatesOfMetrics
-----------------------------------------------------------------------------
(***************************************************************************)
(* Decisions, queries and answers.                                         *)
(***************************************************************************)
LEMMA DecisionInit == Init => DecisionInv
  BY DEF Init, DecisionInv, HeldByClients, PermitInv, GrantInv, QueryInv, AnswersWithinScope,
         AnswersTheQuestion

LEMMA DecisionNext == DecisionInv /\ [Next]_vars => DecisionInv'
<1> SUFFICES ASSUME DecisionInv, [Next]_vars PROVE DecisionInv'
  OBVIOUS
<1> USE DEF DecisionInv, HeldByClients
<1>1. CASE UNCHANGED vars
  BY <1>1 DEF vars, authority, held, PermitInv, GrantInv, QueryInv, AnswersWithinScope, AnswersTheQuestion
<1>2. CASE OpenStore \/ EditRegistry
  BY <1>2 DEF OpenStore, EditRegistry, authority, held, PermitInv, GrantInv, QueryInv,
     AnswersWithinScope, AnswersTheQuestion
<1>3. ASSUME NEW c \in Clients, MakeAuthority(c) \/ Discover(c) \/ BuildPlan(c) \/ CopyPlan(c)
      PROVE  DecisionInv'
  <2>1. UNCHANGED <<permit, grant, query, answer>>
    BY <1>3 DEF MakeAuthority, Discover, BuildPlan, CopyPlan, held
  <2>2. HeldByClients'
    BY <1>3 DEF MakeAuthority, Discover, BuildPlan, CopyPlan, held, authority, Signs
  <2> QED BY <2>1, <2>2 DEF PermitInv, GrantInv, QueryInv, AnswersWithinScope, AnswersTheQuestion
<1>4. ASSUME NEW c \in Clients, AuthorizeDiscovery(c) PROVE DecisionInv'
  <2>1. UNCHANGED <<discovery, plan, grant, query, answer>> /\ HeldByClients'
    BY <1>4 DEF AuthorizeDiscovery, Signs
  <2>2. PermitInv'
    BY <1>4 DEF AuthorizeDiscovery, PermitInv
  <2> QED BY <2>1, <2>2 DEF GrantInv, QueryInv, AnswersWithinScope, AnswersTheQuestion
<1>5. ASSUME NEW c \in Clients, Authorize(c) PROVE DecisionInv'
  <2>1. UNCHANGED <<discovery, permit, plan, query, answer>> /\ HeldByClients'
    BY <1>5 DEF Authorize, Signs
  <2>2. GrantInv'
    BY <1>5 DEF Authorize, GrantInv
  <2> QED BY <2>1, <2>2 DEF PermitInv, QueryInv, AnswersWithinScope, AnswersTheQuestion
<1>6. ASSUME NEW c \in Clients, Compile(c) PROVE DecisionInv'
  <2>1. UNCHANGED <<discovery, permit, plan, grant>> /\ HeldByClients'
    BY <1>6 DEF Compile, Signs
  <2>2. QueryInv'
    BY <1>6 DEF Compile, QueryInv
  <2>3. \A d \in Clients : answer'[d] = Nothing \/ answer'[d] = answer[d]
    BY <1>6 DEF Compile
  <2> QED BY <2>1, <2>2, <2>3 DEF PermitInv, GrantInv, AnswersWithinScope, AnswersTheQuestion
<1>7. ASSUME NEW c \in Clients, Execute(c) PROVE DecisionInv'
  <2>1. UNCHANGED <<discovery, permit, plan, grant, query>> /\ HeldByClients'
    BY <1>7 DEF Execute, Signs
  <2> DEFINE row == [plan |-> query[c].plan, question |-> query[c].question, registry |-> registry]
  <2>2. answer' = [answer EXCEPT ![c] = row]
    BY <1>7 DEF Execute
  <2>3. WithinScope(row.plan, row.plan.caller, row.registry)
    <3>1. PlanReason(query[c].plan, query[c].plan.caller, registry) = "ALLOWED"
      BY <1>7 DEF Execute, Matches, GrantInv
    <3> QED BY <3>1, AllowedWithinScope
  <2>4. /\ row.plan.countries = {row.question.country} /\ row.plan.product = {Automotive}
        /\ {p[1] : p \in row.plan.predicates} = Metrics(row.question)
    <3>1. FitsTemplate(query[c].plan, query[c].registry)
          /\ ResolvesTo(query[c].question, query[c].plan, query[c].registry)
      BY <1>7 DEF Execute, QueryInv
    <3> QED BY <3>1, PlanOfQuestion
  <2> HIDE DEF row
  <2>5. \A d \in Clients : answer'[d] = IF d = c THEN row ELSE answer[d]
    BY <2>2
  <2>6. AnswersWithinScope'
    BY <2>3, <2>5 DEF AnswersWithinScope
  <2>7. AnswersTheQuestion'
    BY <2>4, <2>5 DEF AnswersTheQuestion
  <2> QED BY <2>1, <2>6, <2>7 DEF PermitInv, GrantInv, QueryInv
<1> QED BY <1>1, <1>2, <1>3, <1>4, <1>5, <1>6, <1>7 DEF Next

LEMMA DecisionAlways == Spec => []DecisionInv
  BY DecisionInit, DecisionNext, PTL DEF Spec

\* Whoever asks, whatever is reused, changed or edited between the calls: rows are within the
\* caller's scope (policy.py, compiler/duckdb.py, adapters/duckdb.py).
THEOREM AnswersAlwaysWithinScope == Spec => []AnswersWithinScope
  BY DecisionAlways, PTL DEF DecisionInv

\* The rows are those of the question recorded with them (compile, execute).
THEOREM AnswersAlwaysTheQuestion == Spec => []AnswersTheQuestion
  BY DecisionAlways, PTL DEF DecisionInv

\* The two decisions agree on a plan and its discovery (policy.py).
THEOREM PermitAlwaysImpliesGrant == Spec => []PermitImpliesGrant
<1>1. DecisionInv => PermitImpliesGrant
  BY PermitAgrees DEF DecisionInv, PermitInv, PermitImpliesGrant
<1> QED BY <1>1, DecisionAlways, PTL
-----------------------------------------------------------------------------
(***************************************************************************)
(* The signing authority.                                                  *)
(***************************************************************************)
Capabilities(c) == {permit[c], grant[c], query[c]} \ {Nothing}

\* The keys this process can make: the configured one, or one drawn after the first.
OwnKey(k) == k \in Nat /\ IF configured THEN k = 0 ELSE k > 1

\* Nobody is served before the store is open, and nobody signs with a foreign key.
KeysInv ==
  /\ drawn \in Nat \ {0}
  /\ cached = Nothing \/ OwnKey(cached)
  /\ storeKey \in {Nothing, 0, 1} \/ OwnKey(storeKey)
  /\ open => storeKey # Nothing
  /\ ~open => cached = Nothing /\ storeKey \in {Nothing, 0, 1}
  /\ \A c \in Clients :
       /\ made[c] = Nothing \/ OwnKey(made[c])
       /\ ~open => made[c] = Nothing /\ discovery[c] = Nothing /\ Capabilities(c) = {}
       /\ \A capability \in Capabilities(c) : OwnKey(capability.key)

\* A store this process sealed with a random key was sealed before anybody was served, so
\* nobody has made another authority: the cache holds the one there is.
SealedInv ==
  open /\ ~configured /\ storeKey \notin {0, 1} =>
    /\ cached = storeKey
    /\ \A c \in Clients :
         made[c] = Nothing /\ \A capability \in Capabilities(c) : capability.key = storeKey

KeyInv == HeldByClients /\ KeysInv /\ SealedInv

LEMMA KeyInit == Init => KeyInv
  BY KeyAssumption DEF Init, KeyInv, HeldByClients, KeysInv, SealedInv, Capabilities, OwnKey

\* A new key is one of this process.
LEMMA NewKeyOwn ==
  ASSUME KeysInv PROVE OwnKey(NewKey) /\ NewKey # Nothing /\ (DrawKey => drawn' \in Nat \ {0})
  BY KeyAssumption DEF KeysInv, OwnKey, NewKey, DrawKey

\* A call that looks the authority up gets a key of this process, and the one in the cache
\* if the store was sealed with a random one.
LEMMA SignsOwn ==
  ASSUME KeyInv, NEW c \in Clients, Signs(c)
  PROVE  /\ open /\ UNCHANGED <<open, configured, storeKey, drawn>>
         /\ DOMAIN made' = Clients /\ \A d \in Clients : made'[d] \in {Nothing, made[d]}
         /\ OwnKey(Authority(c)) /\ OwnKey(cached')
         /\ ~configured /\ storeKey \notin {0, 1} => Authority(c) = storeKey /\ cached' = storeKey
<1>1. /\ open /\ Authority(c) # Nothing
      /\ UNCHANGED <<open, configured, storeKey, drawn>>
      /\ cached' = IF cached = Nothing THEN made[c] ELSE cached
      /\ made' = [made EXCEPT ![c] = Nothing]
  BY DEF Signs, Serving
<1>2. DOMAIN made' = Clients /\ \A d \in Clients : made'[d] \in {Nothing, made[d]}
  BY <1>1 DEF KeyInv, HeldByClients
<1>3. OwnKey(Authority(c)) /\ OwnKey(cached')
  BY <1>1 DEF KeyInv, KeysInv, Authority
<1>4. ASSUME ~configured, storeKey \notin {0, 1} PROVE Authority(c) = storeKey /\ cached' = storeKey
  BY <1>1, <1>4 DEF KeyInv, SealedInv, KeysInv, Authority
<1> QED BY <1>1, <1>2, <1>3, <1>4

\* What a call that looked the authority up leaves of the invariant.
LEMMA SignsKeepsKeys ==
  ASSUME KeyInv, NEW c \in Clients, Signs(c), HeldByClients',
         \A d \in Clients : \A capability \in Capabilities(d)' :
            capability \in Capabilities(d) \/ capability.key \in {Authority(c), cached'}
  PROVE  KeyInv'
<1>1. /\ open /\ UNCHANGED <<open, configured, storeKey, drawn>>
      /\ DOMAIN made' = Clients /\ \A d \in Clients : made'[d] \in {Nothing, made[d]}
      /\ OwnKey(Authority(c)) /\ OwnKey(cached')
      /\ ~configured /\ storeKey \notin {0, 1} => Authority(c) = storeKey /\ cached' = storeKey
  BY SignsOwn
<1>2. \A k : OwnKey(k)' <=> OwnKey(k)
  BY <1>1 DEF OwnKey
<1>3. \A d \in Clients : \A capability \in Capabilities(d)' : OwnKey(capability.key)
  BY <1>1 DEF KeyInv, KeysInv
<1>4. KeysInv'
  BY <1>1, <1>2, <1>3 DEF KeyInv, KeysInv, OwnKey
<1>5. SealedInv'
  BY <1>1 DEF KeyInv, SealedInv
<1> QED BY <1>4, <1>5 DEF KeyInv

LEMMA KeyNext == KeyInv /\ [Next]_vars => KeyInv'
<1> SUFFICES ASSUME KeyInv, [Next]_vars PROVE KeyInv'  OBVIOUS
<1> USE KeyAssumption
<1>h. HeldByClients'
  BY DEF KeyInv, HeldByClients, Next, vars, held, authority, OpenStore, EditRegistry, MakeAuthority,
         Discover, AuthorizeDiscovery, BuildPlan, CopyPlan, Authorize, Compile, Execute, Signs
<1>1. CASE OpenStore
  <2>1. /\ ~open /\ open' = TRUE /\ UNCHANGED <<configured, made>>
        /\ \A c \in Clients : Capabilities(c)' = Capabilities(c)
        /\ IF storeKey # Nothing THEN UNCHANGED <<storeKey, cached, drawn>>
           ELSE cached' = NewKey /\ storeKey' = NewKey /\ DrawKey
    BY <1>1 DEF OpenStore, KeyInv, KeysInv, Capabilities, held
  <2>2. OwnKey(NewKey) /\ NewKey # Nothing /\ (DrawKey => drawn' \in Nat \ {0})
    BY NewKeyOwn DEF KeyInv
  <2>3. KeysInv'
    BY <2>1, <2>2 DEF KeyInv, KeysInv, OwnKey
  <2>4. SealedInv'
    BY <2>1, <2>2 DEF KeyInv, KeysInv, SealedInv
  <2> QED BY <1>h, <2>3, <2>4 DEF KeyInv
<1>2. ASSUME NEW c \in Clients, MakeAuthority(c) PROVE KeyInv'
  <2>1. /\ open /\ cached = Nothing /\ made' = [made EXCEPT ![c] = NewKey] /\ DrawKey
        /\ UNCHANGED <<open, configured, storeKey, cached>>
        /\ \A d \in Clients : Capabilities(d)' = Capabilities(d)
    BY <1>2 DEF MakeAuthority, Serving, Capabilities, held
  <2>2. OwnKey(NewKey) /\ (DrawKey => drawn' \in Nat \ {0})
    BY NewKeyOwn DEF KeyInv
  <2>3. KeysInv'
    BY <2>1, <2>2 DEF KeyInv, HeldByClients, KeysInv, OwnKey
  <2>4. configured \/ storeKey \in {0, 1}
    BY <2>1 DEF KeyInv, KeysInv, SealedInv
  <2>5. SealedInv'
    BY <2>1, <2>4 DEF SealedInv
  <2> QED BY <1>h, <2>3, <2>5 DEF KeyInv
<1>3. ASSUME NEW c \in Clients, Discover(c) PROVE KeyInv'
  <2>1. /\ open /\ UNCHANGED authority
        /\ \A d \in Clients : Capabilities(d)' = Capabilities(d)
    BY <1>3 DEF Discover, Serving, Capabilities
  <2> QED BY <1>h, <2>1 DEF KeyInv, KeysInv, SealedInv, OwnKey, authority
<1>4. ASSUME NEW c \in Clients, CopyPlan(c) PROVE KeyInv'
  <2>1. /\ UNCHANGED authority /\ discovery' = discovery
        /\ \A d \in Clients : Capabilities(d)' = Capabilities(d)
    BY <1>4 DEF CopyPlan, Capabilities
  <2> QED BY <1>h, <2>1 DEF KeyInv, KeysInv, SealedInv, OwnKey, authority
<1>5. CASE EditRegistry \/ UNCHANGED vars
  <2>1. /\ UNCHANGED authority /\ discovery' = discovery
        /\ \A d \in Clients : Capabilities(d)' = Capabilities(d)
    BY <1>5 DEF EditRegistry, vars, held, authority, Capabilities
  <2> QED BY <1>h, <2>1 DEF KeyInv, KeysInv, SealedInv, OwnKey, authority
<1>6. ASSUME NEW c \in Clients,
             AuthorizeDiscovery(c) \/ BuildPlan(c) \/ Authorize(c) \/ Compile(c) \/ Execute(c)
      PROVE  KeyInv'
  <2>1. Signs(c)
    BY <1>6 DEF AuthorizeDiscovery, BuildPlan, Authorize, Compile, Execute
  <2>2. ASSUME NEW d \in Clients, NEW capability \in Capabilities(d)'
        PROVE  capability \in Capabilities(d) \/ capability.key \in {Authority(c), cached'}
    <3>1. CASE AuthorizeDiscovery(c)
      BY <2>2, <3>1 DEF AuthorizeDiscovery, Capabilities, KeyInv, HeldByClients
    <3>2. CASE BuildPlan(c) \/ Execute(c)
      BY <2>2, <3>2 DEF BuildPlan, Execute, Capabilities
    <3>3. CASE Authorize(c)
      BY <2>2, <3>3 DEF Authorize, Capabilities, KeyInv, HeldByClients
    <3>4. CASE Compile(c)
      BY <2>2, <3>4 DEF Compile, Capabilities, KeyInv, HeldByClients
    <3> QED BY <1>6, <3>1, <3>2, <3>3, <3>4
  <2> QED BY <1>h, <2>1, <2>2, SignsKeepsKeys
<1> QED BY <1>1, <1>2, <1>3, <1>4, <1>5, <1>6 DEF Next

\* Capabilities of this process verify in it wherever its evidence store is usable, for any
\* number of clients that find the cache empty at once (control.py _signing_authority).
THEOREM CapabilitiesAlwaysGenuine == Spec => []GenuineAccepted
<1>1. KeyInv => GenuineAccepted
  BY KeyAssumption DEF KeyInv, KeysInv, SealedInv, OwnKey, GenuineAccepted, Capabilities
<1> QED BY <1>1, KeyInit, KeyNext, PTL DEF Spec
=============================================================================
