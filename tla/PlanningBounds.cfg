\* One client that words the bound on the count of postings in several ways.
CONSTANTS
  t1 = t1
  t2 = t2
  Clients = {t1}
  NoCountry = NoCountry
  Nothing = Nothing
  Asks <- BoundAsks
  Editors = {}
  Reviewed <- Assets
  Registries <- AllAssets
  MaxEdits = 0
SPECIFICATION Spec
INVARIANT BoundsAsAsked
