\* Two calls at a time, two tokens of two users, two seconds.
SPECIFICATION Spec
CONSTANTS
  Tokens = {k1, k2}
  Calls = {c1, c2}
  Subjects = {alice, bob}
  Ttls = {2}
  Caps = {1, 2}
  None = None
  MaxTime = 3
CHECK_DEADLOCK FALSE
SYMMETRY Symmetric
INVARIANTS
  RevocationFinal
  StoreInv
  AgeLimitOnlyTightens
PROPERTIES
  OwnTokensOnly
  ImplementsTokenLife
