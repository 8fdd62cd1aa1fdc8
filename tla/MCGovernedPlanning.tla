------------------------- MODULE MCGovernedPlanning -------------------------
(* Instances of GovernedPlanning: the reviewed assets of the repository, and *)
(* the edits of them that the unit tests make.                               *)
EXTENDS GovernedPlanning, TLC

CONSTANTS t1, t2

Product(grain, classification, concepts) ==
  [grain |-> grain, certified |-> TRUE, quality |-> "CERTIFIED",
   classification |-> classification, concepts |-> concepts]

Mapping(country, terms) ==
  [location |-> country, products |-> GroupProducts \cup {"BillingAnalytics"}, templated |-> TRUE,
   fields |-> {Partner, Order, Posting, CompanyCode, "BillingDocument", "FinancialLoss"},
   pii |-> {Partner}, subsets |-> {"ActiveSalesOrder"}, terms |-> [t \in terms |-> Automotive]]

Metric(sources, concept, rule, dependencies) ==
  [sources |-> sources, concept |-> concept, rule |-> rule, dependencies |-> dependencies]

Vocabulary ==
  {Partner, Order, Posting, CompanyCode, Automotive,
   "BillingDocument", "FinancialLoss", "QualifyingPosting", "ActiveSalesOrder"}

Assets ==
  [countries |-> {"FR", "GB"},
   relationships |-> PrimaryEdges,
   vocabulary |-> {<<"motor insurance", Automotive>>, <<"automotive cover", Automotive>>},
   products |->
     [BusinessPartners |-> Product(Partner, "Restricted", {Partner, CompanyCode}),
      SalesOrders |-> Product(Order, "Confidential", {Order, "ActiveSalesOrder", Automotive}),
      ACDOCAFinancials |-> Product(Posting, "Restricted",
                             {Posting, "QualifyingPosting", "FinancialLoss", Order, Partner}),
      BillingAnalytics |-> Product("BillingDocument", "Confidential",
                             {"BillingDocument", Order, Partner})],
   mappings |-> {Mapping("FR", {"mtr"}), Mapping("GB", {"auto"})},
   metrics |->
     [PostingCount |->
        Metric({"ACDOCAFinancials"}, "QualifyingPosting", "QualifyingPosting", {}),
      TotalDebitLossEur |->
        Metric({"ACDOCAFinancials"}, "FinancialLoss", "QualifyingPosting", {}),
      ActiveSalesOrderCount |->
        Metric({"SalesOrders"}, "ActiveSalesOrder", "ActiveSalesOrder", {}),
      CostRevenueRatio |->
        Metric({"ACDOCAFinancials", "BillingAnalytics"}, "FinancialLoss", "QualifyingPosting",
               {"TotalDebitLossEur"})],
   rules |->
     [QualifyingPosting |-> [applies_to |-> Posting, statuses |-> {"POSTED", "CLEARED"}],
      ActiveSalesOrder |-> [applies_to |-> Order, statuses |-> {"RELEASED"}]]]

TopSecret  == [Assets EXCEPT !.products.ACDOCAFinancials.classification = "TopSecret"]
Degraded   == [Assets EXCEPT !.products.ACDOCAFinancials.quality = "DEGRADED"]
Unruled    == [Assets EXCEPT !.rules.QualifyingPosting.statuses = {}]
AllAssets  == {Assets, TopSecret, Degraded, Unruled}

ASSUME \A reg \in AllAssets : ReferencesResolve(reg, Vocabulary)

Question(country, term, intent, bound, digits) ==
  [country |-> country, term |-> term, intent |-> intent, bound |-> bound, digits |-> digits]
Ask(client, question, role, country) ==
  [client |-> client, question |-> question, caller |-> [role |-> role, country |-> country]]

FrenchClaims == Question("FR", "mtr", "claims", "at least", FALSE)
BritishClaims == Question("GB", "motor insurance", "claims", "more than", TRUE)
CoverClaims  == Question("FR", "automotive cover", "claims", "at least", FALSE)
OverThree    == Question("FR", "motor insurance", "claims", "over", TRUE)
FrenchRatio  == Question("FR", "mtr", "ratio", "none", FALSE)

\* One client asks for two countries, and its role is for one; the other asks what nobody may see.
AllAsks ==
  {Ask(t1, FrenchClaims, "FinancialControllerFR", NoCountry),
   Ask(t1, BritishClaims, "FinancialControllerFR", NoCountry),
   Ask(t2, FrenchRatio, "FinanceAnalyst", NoCountry)}

\* One client that words the bound on the count of postings in three ways.
BoundAsks ==
  {Ask(t1, q, "FinancialControllerFR", NoCountry) : q \in {FrenchClaims, OverThree, CoverClaims}}
=============================================================================
