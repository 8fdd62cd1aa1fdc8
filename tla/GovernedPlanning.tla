-------------------------- MODULE GovernedPlanning --------------------------
(***************************************************************************)
(* query_planner/service.py, agents/tools.py, compiler/duckdb.py and the   *)
(* signing authority of control.py: clients of one process that turn a     *)
(* business question into an executed query through signed capabilities.   *)
(*                                                                         *)
(* A client holds the latest artifact of each kind and may pass any of     *)
(* them to any call: the unit tests change a plan after it was authorized, *)
(* and change an asset of the registry between two calls.  A digest is the *)
(* value digested, a signature the key it was made with.  A call that is   *)
(* refused raises and changes nothing, so it is no step.                   *)
(***************************************************************************)
EXTENDS AccessPolicy

CONSTANTS Clients,      \* threads that serve requests
          Asks,         \* who may ask what: records of client, question and caller
          Editors,      \* clients that change the plans they hold
          Reviewed,     \* the registry as it is loaded
          Registries,   \* the registries it may be edited into, and itself
          MaxEdits,     \* bound: edits of the registry in a behaviour
          Nothing       \* no artifact, no key

ASSUME EditsAssumption == MaxEdits \in Nat
ASSUME RegistryAssumption == Reviewed \in Registries
ASSUME KeyAssumption == Nothing \notin Nat
ASSUME NothingAssumption == \A r \in Registries : Nothing # r
ASSUME AskAssumption == \A ask \in Asks : ask.client \in Clients

VARIABLES registry, edits,              \* the assets now, and how often they were changed
          open,                         \* ProvenanceStore.__init__ has returned
          configured,                   \* the environment configures a key, key 0
          storeKey,                     \* the key that sealed the evidence store
          cached,                       \* the cached _signing_authority
          made,                         \* per client: an authority it has just made
          drawn,                        \* random keys drawn so far
          discovery, permit, plan, grant, query, answer  \* per client: what it holds

authority == <<open, configured, storeKey, cached, made, drawn>>
held      == <<discovery, permit, plan, grant, query, answer>>
vars      == <<registry, edits, authority, held>>

Init ==
  /\ registry = Reviewed /\ edits = 0
  /\ open = FALSE
  /\ configured \in BOOLEAN
  /\ storeKey \in {Nothing, 0, 1}    \* new, or sealed by an earlier process
  /\ drawn = 1
  /\ cached = Nothing
  /\ made = [c \in Clients |-> Nothing]
  /\ discovery = [c \in Clients |-> Nothing] /\ permit = discovery /\ plan = discovery
  /\ grant = discovery /\ query = discovery /\ answer = discovery
-----------------------------------------------------------------------------
(***************************************************************************)
(* Questions and discovery.  A question is what the grammar tells of it:   *)
(* its country, the product term it uses, its intent, how it words the     *)
(* bound on the count of postings ("at least", "more than", "over"), and   *)
(* whether it writes that number in digits.                                *)
(***************************************************************************)
\* The postings and loss conditions, in the words "<bound> <count> ... above EUR <loss>".
ContainsOver(q) == q.bound = "over" \/ q.term \in {"motor cover", "automotive cover"}

\* The operator of the count is looked up anywhere in the question.
CountOperator(q) == IF q.bound = "more than" \/ ContainsOver(q) THEN ">" ELSE ">="

\* _money_threshold takes the first number after "above" or "over" as the loss.
LossNumber(q) == IF q.bound = "over" /\ q.digits THEN "the count" ELSE "the loss"

Metrics(q) ==
  CASE q.intent = "claims" -> {"PostingCount", "TotalDebitLossEur"}
    [] q.intent = "active" -> {"ActiveSalesOrderCount"}
    [] q.intent = "ratio"  -> {"CostRevenueRatio"}

Predicates(q) ==
  IF q.intent = "claims"
  THEN {<<"PostingCount", CountOperator(q), "the count">>, <<"TotalDebitLossEur", ">", LossNumber(q)>>}
  ELSE {<<m, ">", "zero">> : m \in Metrics(q)}

PrimaryEdges == {<<Partner, Order>>, <<Partner, Posting>>, <<Posting, Order>>}
Edges(q) == IF q.intent = "active" THEN {<<Partner, Order>>} ELSE PrimaryEdges

\* discover_question does not raise: a supported grammar, a governed country, a product
\* term that resolves or is nobody's, and certified products for all of it.
Discoverable(q, reg) ==
  /\ q.intent \in {"claims", "active", "ratio"}
  /\ q.country \in reg.countries
  /\ Resolves(reg, q.term, Automotive) \/ q.term \notin LocalTerms(reg)
  /\ \A e \in Edges(q) : HasPath(reg, e[1], e[2])
  /\ Plannable(reg, {Partner, Order}, Metrics(q))

\* discover_question.  The caller is made from the role and the question's country.
Discovery(q, role, reg) ==
  [question   |-> q,
   caller     |-> [role |-> role, country |-> q.country],
   countries  |-> {q.country},
   product    |-> {c \in {Automotive} : Resolves(reg, q.term, c)},
   projected  |-> {Partner, CompanyCode},
   edges      |-> Edges(q),
   predicates |-> Predicates(q),
   window     |-> IF q.intent = "claims" THEN "last_12_months" ELSE "current_year",
   products   |-> products_for_plan(reg, {Partner, Order}, Metrics(q))]

\* build_plan: everything the discovery says but the question.
PlanOf(d) ==
  [caller |-> d.caller, countries |-> d.countries, product |-> d.product,
   projected |-> d.projected, edges |-> d.edges, predicates |-> d.predicates,
   window |-> d.window, products |-> d.products]
-----------------------------------------------------------------------------
(***************************************************************************)
(* The signing authority.  lru_cache does not lock: a client that finds    *)
(* the cache empty makes an authority of its own, and uses it for that     *)
(* call even if another client's has been cached in the meantime.          *)
(***************************************************************************)
\* _configured_signing_key: the configured key, or a random one.
NewKey == IF configured THEN 0 ELSE drawn + 1
DrawKey == drawn' = IF configured THEN drawn ELSE drawn + 1

\* ProvenanceStore.__init__ signs a checkpoint if the file has none.
OpenStore ==
  /\ ~open /\ open' = TRUE
  /\ IF storeKey # Nothing THEN UNCHANGED <<storeKey, cached, drawn>>
     ELSE /\ cached' = IF cached = Nothing THEN NewKey ELSE cached
          /\ storeKey' = cached'
          /\ IF cached = Nothing THEN DrawKey ELSE UNCHANGED drawn
  /\ UNCHANGED <<registry, edits, configured, made, held>>

\* The faulty variant serves requests while the store is not opened yet.
ServingEarly == TRUE
\* create_app and answer: the agent, and with it the store, is made first.
Serving == open

MakeAuthority(c) ==
  /\ Serving /\ discovery[c] # Nothing    \* some call of it signs or verifies
  /\ cached = Nothing /\ made[c] = Nothing
  /\ made' = [made EXCEPT ![c] = NewKey] /\ DrawKey
  /\ UNCHANGED <<registry, edits, open, configured, storeKey, cached, held>>

\* The authority a call of the client looks up first, and what it leaves cached.
Authority(c) == IF made[c] # Nothing THEN made[c] ELSE cached
Signs(c) ==
  /\ Serving /\ Authority(c) # Nothing
  /\ cached' = IF cached = Nothing THEN made[c] ELSE cached
  /\ made' = [made EXCEPT ![c] = Nothing]
  /\ UNCHANGED <<open, configured, storeKey, drawn>>
-----------------------------------------------------------------------------
\* SemanticAgentTools.discover.
Discover(c) ==
  /\ Serving /\ made[c] = Nothing
  /\ \E ask \in Asks :
        /\ ask.client = c /\ Discoverable(ask.question, registry)
        /\ ask.caller.country \in {NoCountry, ask.question.country}
        /\ discovery' = [discovery EXCEPT ![c] = Discovery(ask.question, ask.caller.role, registry)]
  /\ UNCHANGED <<registry, edits, authority, permit, plan, grant, query, answer>>

\* authorize_discovery, with the discovery's own caller; a denial is signed as well.
AuthorizeDiscovery(c) ==
  /\ discovery[c] # Nothing /\ Signs(c)
  /\ LET d == discovery[c]
         reason == DiscoveryReason(d, d.caller, registry)
     IN permit' = [permit EXCEPT ![c] =
          [allowed |-> reason = "ALLOWED", reason_code |-> reason, discovery |-> d,
           registry |-> registry, key |-> Authority(c)]]
  /\ UNCHANGED <<registry, edits, discovery, plan, grant, query, answer>>

\* build_query_plan, for the question and role of the discovery.
BuildPlan(c) ==
  /\ discovery[c] # Nothing /\ permit[c] # Nothing /\ Signs(c)
  /\ permit[c].allowed /\ permit[c].key = Authority(c)
  /\ permit[c].discovery = discovery[c] /\ permit[c].registry = registry
  /\ plan' = [plan EXCEPT ![c] = PlanOf(discovery[c])]
  /\ UNCHANGED <<registry, edits, discovery, permit, grant, query, answer>>

\* with_country, or model_copy of the projection and the products, as in the tests.
Rescoped(p, country) ==
  [p EXCEPT !.countries = {country}, !.caller = [p.caller EXCEPT !.country = country]]
Aggregated(p) ==
  [p EXCEPT !.projected = {CompanyCode}, !.products = {"BillingAnalytics"},
            !.caller = [role |-> "FinanceAnalyst", country |-> NoCountry]]

CopyPlan(c) ==
  /\ c \in Editors /\ plan[c] # Nothing /\ made[c] = Nothing
  /\ \/ \E country \in registry.countries : plan' = [plan EXCEPT ![c] = Rescoped(plan[c], country)]
     \/ plan' = [plan EXCEPT ![c] = Aggregated(plan[c])]
  /\ UNCHANGED <<registry, edits, authority, discovery, permit, grant, query, answer>>

\* SemanticAgentTools.authorize, with the plan's own caller.
Authorize(c) ==
  /\ plan[c] # Nothing /\ Signs(c)
  /\ LET reason == PlanReason(plan[c], plan[c].caller, registry)
     IN grant' = [grant EXCEPT ![c] =
          [allowed |-> reason = "ALLOWED", reason_code |-> reason, plan |-> plan[c],
           registry |-> registry, key |-> Authority(c)]]
  /\ UNCHANGED <<registry, edits, discovery, permit, plan, query, answer>>
-----------------------------------------------------------------------------
\* AuthorizationDecision._matches.
Matches(g, p, key) == g.key = key /\ g.allowed /\ g.plan = p /\ g.registry = registry

\* DuckDBCompiler._validate: the one plan the trusted SQL represents.
FitsTemplate(p, reg) ==
  /\ p.projected = {Partner, CompanyCode} /\ p.products = GroupProducts
  /\ \A id \in p.products : id \in DOMAIN reg.products /\ Certified(reg.products[id])
  /\ p.window = "last_12_months" /\ p.edges = PrimaryEdges
  /\ \E op \in {">", ">="}, n \in {"the count", "the loss"} :
        p.predicates = {<<"PostingCount", op, "the count">>, <<"TotalDebitLossEur", ">", n>>}
  /\ p.countries = {p.caller.country}
  /\ \E m \in reg.mappings :
        /\ MappingsAt(reg, p.caller.country) = {m}
        /\ p.products \subseteq m.products /\ m.templated
        /\ \E term \in DOMAIN m.terms : p.product = {m.terms[term]}

\* The faulty variant takes the caller's word for the question.
ResolvesToAny(q, p, reg) == Discoverable(q, reg)
\* The question still resolves to the plan that was submitted.
ResolvesTo(q, p, reg) == Discoverable(q, reg) /\ PlanOf(Discovery(q, p.caller.role, reg)) = p

\* DuckDBCompiler.compile.  The rows of the query that was held before are forgotten.
Compile(c) ==
  /\ plan[c] # Nothing /\ grant[c] # Nothing /\ Signs(c)
  /\ Matches(grant[c], plan[c], Authority(c))
  /\ FitsTemplate(plan[c], registry)
  /\ registry.rules["QualifyingPosting"].statuses # {}
  /\ HasLineage(registry, plan[c].caller.country, plan[c].products)
  /\ \E ask \in Asks :
        /\ ask.client = c /\ ResolvesTo(ask.question, plan[c], registry)
        /\ query' = [query EXCEPT ![c] =
             [plan |-> plan[c], question |-> ask.question, registry |-> registry, key |-> cached']]
  /\ answer' = [answer EXCEPT ![c] = Nothing]
  /\ UNCHANGED <<registry, edits, discovery, permit, plan, grant>>

\* LocalDuckDBAdapter.execute; the tests on the data are those of GovernedWorkflow.
Execute(c) ==
  /\ query[c] # Nothing /\ grant[c] # Nothing /\ Signs(c)
  /\ query[c].key = Authority(c) /\ query[c].registry = registry
  /\ Matches(grant[c], query[c].plan, cached')
  /\ QualityHolds(query[c].plan.products, registry)
  /\ answer' = [answer EXCEPT ![c] =
       [plan |-> query[c].plan, question |-> query[c].question, registry |-> registry]]
  /\ UNCHANGED <<registry, edits, discovery, permit, plan, grant, query>>

\* An asset of the loaded registry is changed in place.
EditRegistry ==
  /\ edits < MaxEdits /\ edits' = edits + 1
  /\ registry' \in Registries \ {registry}
  /\ UNCHANGED <<authority, held>>

Next ==
  \/ OpenStore \/ EditRegistry
  \/ \E c \in Clients :
       \/ MakeAuthority(c) \/ Discover(c) \/ AuthorizeDiscovery(c) \/ BuildPlan(c)
       \/ CopyPlan(c) \/ Authorize(c) \/ Compile(c) \/ Execute(c)

Spec == Init /\ [][Next]_vars
-----------------------------------------------------------------------------
\* Capabilities made by this process verify in it, whichever client's call made the signing
\* authority, wherever the evidence store can be used at all: either it was sealed by this
\* process, which made the authority before it served anyone, or the key is configured
\* (control.py _signing_authority; ProvenanceStore.__init__).
GenuineAccepted ==
  open /\ storeKey = cached =>
     \A c \in Clients : \A capability \in {permit[c], grant[c], query[c]} \ {Nothing} :
        capability.key = cached

\* Rows only ever come from a query whose caller may see them by the registry as it was
\* at the execution, whatever was edited between the calls (policy.py, duckdb.py).
AnswersWithinScope ==
  \A c \in Clients : answer[c] # Nothing =>
     WithinScope(answer[c].plan, answer[c].plan.caller, answer[c].registry)

\* The rows are those of the question that is recorded with them: its country, its
\* product, its metrics (compile binds the question to the plan).
AnswersTheQuestion ==
  \A c \in Clients : answer[c] # Nothing =>
     /\ answer[c].plan.countries = {answer[c].question.country}
     /\ answer[c].plan.product = {Automotive}
     /\ {p[1] : p \in answer[c].plan.predicates} = Metrics(answer[c].question)

\* The decision before the plan is never more lenient than the one after it: a plan built
\* under a permit that still holds is authorized (policy.py states its rules twice).
PermitImpliesGrant ==
  \A c \in Clients :
     permit[c] # Nothing /\ plan[c] # Nothing =>
        (permit[c].allowed /\ permit[c].registry = registry /\ plan[c] = PlanOf(permit[c].discovery)
           => PlanReason(plan[c], plan[c].caller, registry) = "ALLOWED")

\* tests/unit/test_query_planner.py: "at least three" is the operator ">=", and the loss is
\* compared with the number the question gives for the loss (discover_question).
BoundsAsAsked ==
  \A c \in Clients : answer[c] # Nothing =>
     LET q == answer[c].question IN
     answer[c].plan.predicates =
       {<<"PostingCount", IF q.bound = "at least" THEN ">=" ELSE ">", "the count">>,
        <<"TotalDebitLossEur", ">", "the loss">>}
=============================================================================
