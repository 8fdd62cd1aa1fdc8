---------------------------- MODULE AccessPolicy ----------------------------
(***************************************************************************)
(* governance/policy.py: the decision on a discovery, before a plan        *)
(* exists, and the decision on a plan.  The code writes the rules down     *)
(* twice, once for each; so does this module.  A subject of either         *)
(* decision has the fields caller, products, projected and countries; the  *)
(* caller a role and a country, NoCountry if it names none.                *)
(***************************************************************************)
EXTENDS SemanticRegistry

CONSTANT NoCountry   \* a caller's country that is None

GroupProducts == {"BusinessPartners", "SalesOrders", "ACDOCAFinancials"}
FrenchRoles   == {"ClaimsAnalystFR", "FinancialControllerFR"}
GroupRoles    == FrenchRoles \cup {"ClaimsManagerGroup", "FinancialControllerGroup"}
KnownRoles    == GroupRoles \cup {"FinanceAnalyst"}

\* _ROLE_PRODUCTS
RoleProducts(role) == IF role = "FinanceAnalyst" THEN {"BillingAnalytics"} ELSE GroupProducts

\* _CLASSIFICATION_RANK and _ROLE_MAX_CLASSIFICATION; an unknown classification has no rank.
Ranked   == <<"Public", "Internal", "Confidential", "Restricted">>
RoleRank(role) == IF role = "FinanceAnalyst" THEN 3 ELSE 4
WithinRank(role, classification) ==
  \E i \in 1 .. RoleRank(role) : Ranked[i] = classification

\* _classification_denial passes over a product the registry does not know.
Classified(role, products, reg) ==
  \A p \in products \cap DOMAIN reg.products :
     WithinRank(role, reg.products[p].classification)

QualityHolds(products, reg) ==
  \A p \in products : p \in DOMAIN reg.products /\ reg.products[p].quality = "CERTIFIED"

\* _projected_pii_fields: of the mappings of the countries, or of all if none is named.
ProjectsPii(projected, countries, reg) ==
  \E m \in reg.mappings :
     /\ countries = {} \/ m.location \in countries
     /\ m.pii \cap projected # {}
-----------------------------------------------------------------------------
\* The faulty variant leaves the country of the French roles to the second decision.
DiscoveryReasonUnscoped(d, caller, reg) ==
  IF caller.role \notin KnownRoles THEN "ROLE_DENIED"
  ELSE IF ~(d.products \subseteq RoleProducts(caller.role)) THEN "PRODUCT_DENIED"
  ELSE IF ~Classified(caller.role, d.products, reg) THEN "CLASSIFICATION_DENIED"
  ELSE IF ~QualityHolds(d.products, reg) THEN "PRODUCT_QUALITY_DENIED"
  ELSE "ALLOWED"

\* authorize_discovery: the tests in the order of the code, each returning at once.
DiscoveryReason(d, caller, reg) ==
  IF caller.role \notin KnownRoles THEN "ROLE_DENIED"
  ELSE IF d.caller # caller THEN "CALLER_CONTEXT_MISMATCH"
  ELSE IF ~(d.products \subseteq RoleProducts(caller.role)) THEN "PRODUCT_DENIED"
  ELSE IF ~Classified(caller.role, d.products, reg) THEN "CLASSIFICATION_DENIED"
  ELSE IF ~QualityHolds(d.products, reg) THEN "PRODUCT_QUALITY_DENIED"
  ELSE IF caller.country # NoCountry /\ d.countries # {caller.country} THEN "COUNTRY_SCOPE_DENIED"
  ELSE IF caller.role \in FrenchRoles /\ d.countries # {"FR"} THEN "COUNTRY_SCOPE_DENIED"
  ELSE IF caller.role = "FinanceAnalyst" /\ ProjectsPii(d.projected, d.countries, reg)
  THEN "PII_FIELD_DENIED" ELSE "ALLOWED"

\* The faulty variant does not look at the classification.
PlanReasonUnclassified(plan, caller, reg) ==
  IF caller.role \notin KnownRoles THEN "ROLE_DENIED"
  ELSE IF plan.caller # caller THEN "CALLER_CONTEXT_MISMATCH"
  ELSE IF ~(plan.products \subseteq RoleProducts(caller.role)) THEN "PRODUCT_DENIED"
  ELSE IF caller.role \in FrenchRoles /\ plan.countries # {"FR"} THEN "COUNTRY_SCOPE_DENIED"
  ELSE "ALLOWED"

\* authorize: the same tests on a plan, which a caller may have changed since it was built.
PlanReason(plan, caller, reg) ==
  IF caller.role \notin KnownRoles THEN "ROLE_DENIED"
  ELSE IF plan.caller # caller THEN "CALLER_CONTEXT_MISMATCH"
  ELSE IF ~(plan.products \subseteq RoleProducts(caller.role)) THEN "PRODUCT_DENIED"
  ELSE IF ~Classified(caller.role, plan.products, reg) THEN "CLASSIFICATION_DENIED"
  ELSE IF ~QualityHolds(plan.products, reg) THEN "PRODUCT_QUALITY_DENIED"
  ELSE IF caller.country # NoCountry /\ plan.countries # {caller.country} THEN "COUNTRY_SCOPE_DENIED"
  ELSE IF caller.role \in FrenchRoles /\ plan.countries # {"FR"} THEN "COUNTRY_SCOPE_DENIED"
  ELSE IF caller.role = "FinanceAnalyst" /\ ProjectsPii(plan.projected, plan.countries, reg)
  THEN "PII_FIELD_DENIED" ELSE "ALLOWED"

\* What the rules promise, said positively: the subject is within the caller's scope.
WithinScope(subject, caller, reg) ==
  /\ caller.role \in KnownRoles /\ subject.caller = caller
  /\ \A p \in subject.products :
        /\ p \in RoleProducts(caller.role) /\ p \in DOMAIN reg.products
        /\ reg.products[p].quality = "CERTIFIED"
        /\ WithinRank(caller.role, reg.products[p].classification)
  /\ \A c \in {caller.country} \ {NoCountry} : subject.countries = {c}
  /\ caller.role \in FrenchRoles => subject.countries = {"FR"}
  /\ caller.role = "FinanceAnalyst" => ~ProjectsPii(subject.projected, subject.countries, reg)
=============================================================================
