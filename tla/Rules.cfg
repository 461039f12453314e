\* Parts that share no state, each by itself.
SPECIFICATION Spec
CONSTANTS
  Ips = {a1, a2}
  Capacity = 2
  Window = 3
  EvictAfterWindows = 1
  EvictEveryNCalls = 2
  MaxWait = 1
  MaxClock = 4
  Reports = {p1, p2}
  NoUsage = NoUsage
  MaxBytes = 6
  MaxChunk = 3
  Groups = {g1, g2}
  Models = {m1, m2}
  Numbers = {1, 2}
  Unlimited = Unlimited
  Letters = {"x"}
  MaxName = 3
  MaxListed = 2
  Bodies <- MCBodies
  Configs <- MCConfigs
  TextLength <- MCTextLength
  EscapeLength = 5
  MarkerLength = 6
  MessageOverhead = 10
  NoBudget = NoBudget
  NoBody = NoBody
  Processes = {p1, p2}
  Databases = {"central", "relay"}
  Vendors = {1, 2}
  Prices = {c1, c2}
  NoPrice = NoPrice
  McpServers = {a1, a2}
  McpTools = {t1, t2}
  Hub = Hub
  Nothing = Nothing
  Changes = {x1, x2, x3}
  PolicyColumns = {"access", "saver"}
  NoRow = NoRow
  MaxEntries = 3
  Seconds = {1, 2}
  Users = {a1, a2}
  Anyone = Anyone
  MaxLimit = 2
  Teams = {g1, g2}
  Unknown = Unknown
  MaxLogged = 2
  FieldNames <- MCNames
  SENSITIVE_FIELDS = {"token"}
  MaxNesting = 3
  Events <- MCEvents
  a1 = a1
  a2 = a2
  g1 = g1
  g2 = g2
  g3 = g3
  t1 = t1
  t2 = t2
  p1 = p1
  x1 = x1  x2 = x2  x3 = x3
  Logins = {p1, p2}
  Persons = {a1, a2}
  Ports = {c1, c2}
  GroupsClaim <- MCGroupsClaim
  RolesClaim <- MCRolesClaim
  Lifetimes <- MCLifetimes
  MaxSeconds = 100000
  Nil = Nil
  Staff = {s1, s2}
  Bands = {g1, g2}
  Quotas = {1}
  NoQuota = NoQuota
  NoCounter = NoCounter
  Calls = {r1, r2}
  LastDate = 1
  DeviceCerts = {t1, t2}
  CentralCerts = {p1}
  IssuedBy <- MCIssuedBy
  Missing = Missing
  MaxReplaced = 2
CHECK_DEADLOCK FALSE
INVARIANTS
  RateHolds
  CountsLastReport
  MergeIsOfTheSet
  CallReachesListedTool
  SavesSafely
  SchemaFollowsRecord
  PricesAsListed
  OneRequestThroughout
  PolicyIsALatePut
  WalkMissesNothing
  SummaryAddsUp
  LinesAreRedactedEvents
  MintsForWhoAnswered
  PagesForetell
  TokenStaysOnDevice
