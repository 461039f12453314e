\* Two commands, or a command and a request of the agent, of two users.
SPECIFICATION Spec
CONSTANTS
  c1 = c1
  c2 = c2
  u1 = u1
  u2 = u2
  i1 = i1
  i2 = i2
  k1 = k1
  k2 = k2
  Users = {u1, u2}
  Tokens = {k1, k2}
  Certs = {x, y}
  Ids = {i1, i2}
  Commands = {c1, c2}
  Requests = {r}
  None = None
  MaxActors = 2
CHECK_DEADLOCK FALSE
SYMMETRY Symmetric
INVARIANTS
  TypeOK
  LoginsLeaveOrder
  TokensObey
  AnsweredIsLogged
