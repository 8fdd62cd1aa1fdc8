-------------------------- MODULE SemanticRegistry --------------------------
(***************************************************************************)
(* registry/service.py, resolver/service.py and lineage/service.py: what   *)
(* the reviewed assets of the repository say, as operators on a registry   *)
(* record.  An identifier is a string, a registry is a value: tests change *)
(* an asset of a loaded registry in place, and a capability is bound to    *)
(* the digest of all of them, which is here the value itself.              *)
(***************************************************************************)
EXTENDS Naturals, FiniteSets, Sequences

Partner     == "BusinessPartner"
Order       == "SalesOrder"
Posting     == "FinancialPosting"
CompanyCode == "CompanyCode"
Automotive  == "ProductAutomotive"

\* A product may be offered: certified, and of certified quality.
Certified(product) == product.certified /\ product.quality = "CERTIFIED"

\* The certified products that expose a concept.
certified_products_for(reg, concept) ==
  {p \in DOMAIN reg.products : Certified(reg.products[p]) /\ concept \in reg.products[p].concepts}

\* The products offered for an entity: those that expose it and whose grain it is.
AtGrain(reg, entity) ==
  {p \in certified_products_for(reg, entity) : reg.products[p].grain = entity}

\* product_for_entity: exactly one, or ValueError.
HasProductFor(reg, entity) == Cardinality(AtGrain(reg, entity)) = 1

\* A metric may be planned if each of its source products is there and certified.
Available(reg, metric) ==
  /\ metric \in DOMAIN reg.metrics
  /\ \A p \in reg.metrics[metric].sources : p \in DOMAIN reg.products /\ Certified(reg.products[p])

Plannable(reg, entities, metrics) ==
  /\ \A e \in entities : HasProductFor(reg, e)
  /\ \A m \in metrics : Available(reg, m)

\* products_for_plan, where it does not raise.  Order and repetition do not matter here.
products_for_plan(reg, entities, metrics) ==
  UNION {AtGrain(reg, e) : e \in entities} \cup UNION {reg.metrics[m].sources : m \in metrics}

\* relationship_path: an edge of the vocabulary, or ValueError.
HasPath(reg, source, target) == <<source, target>> \in reg.relationships
-----------------------------------------------------------------------------
\* The local product terms of every mapping, whatever its country.
LocalTerms(reg) == UNION {DOMAIN m.terms : m \in reg.mappings}

\* DeterministicResolver: a term of the vocabulary, or a term of some mapping.
Resolves(reg, term, concept) ==
  \/ <<term, concept>> \in reg.vocabulary
  \/ \E m \in reg.mappings : term \in DOMAIN m.terms /\ m.terms[term] = concept

MappingsAt(reg, country) == {m \in reg.mappings : m.location = country}

\* LineageService.for_plan: one mapping for the country, with every selected product.
HasLineage(reg, country, products) ==
  \E m \in reg.mappings : MappingsAt(reg, country) = {m} /\ products \subseteq m.products
-----------------------------------------------------------------------------
\* _validate_asset_references: no asset of a loaded registry names another that is missing.
ReferencesResolve(reg, concepts) ==
  /\ \A edge \in reg.relationships : edge[2] \in concepts
  /\ \A p \in DOMAIN reg.products : reg.products[p].concepts \subseteq concepts
  /\ \A m \in reg.mappings :
        /\ m.products \subseteq DOMAIN reg.products
        /\ m.fields \subseteq concepts
        /\ m.subsets \subseteq concepts
        /\ {m.terms[t] : t \in DOMAIN m.terms} \subseteq concepts
  /\ \A m \in DOMAIN reg.metrics :
        /\ reg.metrics[m].sources \subseteq DOMAIN reg.products
        /\ reg.metrics[m].concept \in concepts
        /\ reg.metrics[m].rule \in DOMAIN reg.rules \cup {"none"}
        /\ reg.metrics[m].dependencies \subseteq DOMAIN reg.metrics
  /\ \A r \in DOMAIN reg.rules : reg.rules[r].applies_to \in concepts
=============================================================================
