\* Two clients, one of them changing plans and asking in several roles.
CONSTANTS
  t1 = t1
  t2 = t2
  Clients = {t1, t2}
  NoCountry = NoCountry
  Nothing = Nothing
  Asks <- AllAsks
  Editors = {t1}
  Reviewed <- Assets
  Registries <- AllAssets
  MaxEdits = 1
SPECIFICATION Spec
INVARIANTS
  GenuineAccepted
  AnswersWithinScope
  AnswersTheQuestion
  PermitImpliesGrant
\* After an edit that degrades a product every call may be refused.
CHECK_DEADLOCK FALSE
