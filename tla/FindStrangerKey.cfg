\* The claim of the administrator's guide on access lists, with a call and a
\* request.
SPECIFICATION MCSpec
CONSTANTS
  k1 = k1
  k2 = k2
  g1 = g1
  g2 = g2
  m = m
  Providers = {1, 2}
  Keys = {k1, k2}
  Groups = {g1, g2}
  Models = {m}
  Priorities = {1, 2}
  ProviderInputs <- MCProviderInputs
  Lists <- MCLists
  UserGroups <- MCUserGroups
  Calls = {c1}
  Requests = {r}
  None = None
  MaxActors = 2
CHECK_DEADLOCK FALSE
INVARIANTS
  OnlyGrantedKeys
