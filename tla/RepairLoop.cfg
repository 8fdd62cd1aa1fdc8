\* Every request, budget and answer of the knowledge graph.
CONSTANTS
  rdf = rdf
  xsd = xsd
  cifsup = cifsup
  Prefixes = {rdf, xsd, cifsup}
  Unlisted = Unlisted
  MAX_REPAIRS = 3
  Requested = {0, 1, 2, 3, 4}
  Compilers <- SomeCompilers
SPECIFICATION Spec
INVARIANTS
  TypeOK
  BudgetKept
  StrictAnswersRequest
  RelaxationsAccumulate
  LedgerComplete
  OutcomeMatchesLedger
PROPERTIES
  Terminates
CHECK_DEADLOCK FALSE
