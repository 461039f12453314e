\* Two calls of administrators, or one and a request, over databases of two
\* providers and two keys.
SPECIFICATION MCSpec
CONSTANTS
  k1 = k1
  k2 = k2
  g1 = g1
  g2 = g2
  m = m
  Providers = {1, 2}
  Keys = {k1, k2}
  Groups = {g1, g2}
  Models = {m}
  Priorities = {1, 2}
  ProviderInputs <- MCProviderInputs
  Lists <- MCLists
  UserGroups <- MCUserGroups
  Calls = {c1, c2}
  Requests = {r}
  None = None
  MaxActors = 2
CHECK_DEADLOCK FALSE
SYMMETRY Symmetric
INVARIANTS
  TypeOK
  LoneCallsSettle
  FallbackIsExact
PROPERTIES
  UsesOnlySettledKeys
