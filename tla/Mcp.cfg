\* Two calls of administrators, or one and a request, over two MCP servers.
SPECIFICATION MCSpec
CONSTANTS
  a = a
  b = b
  g1 = g1
  g2 = g2
  h1 = h1
  h2 = h2
  u = u
  Servers = {1, 2}
  Tools = {a, b}
  Parts <- MCParts
  Spelling <- MCSpelling
  Groups = {g1, g2}
  Urls = {u}
  Headers = {h1, h2}
  Calls = {c1, c2}
  Requests = {r}
  ToolLists <- MCToolLists
  UserGroups <- MCUserGroups
  None = None
  All = All
  MaxActors = 2
CHECK_DEADLOCK FALSE
SYMMETRY Symmetric
INVARIANTS
  TypeOK
  HeaderIsLastSupplied
  GrantedIsGiven
  AuditTellsTruth
