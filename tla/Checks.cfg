\* Two requests, changing policies, revoked tokens, failing store calls,
\* clients that go away and restarts.
SPECIFICATION Spec
CONSTANTS
  r1 = r1  r2 = r2  r3 = r3
  t1 = t1
  u1 = u1
  v1 = v1
  chat = chat
  NoLimit = NoLimit
  Subjects = {u1}
  Devices = {v1}
  Targets = {chat}
  Requests <- MCTwoRequests
  Tokens <- MCTokens
  TokenOf <- MCTokenOf
  SubjectOf <- MCSubjectOf
  DeviceOf <- MCDeviceOf
  Policies <- MCPolicyChanges
  MaxDay = 1
  MaxSpend = 1
  Events = {"db", "token", "disconnect", "restart"}
CHECK_DEADLOCK FALSE
SYMMETRY Symmetric
INVARIANTS
  ReservedIffAdmitted
  SpentQuotaStaysClosed
  ChargedOnlyIfAudited
  PipelineInv
