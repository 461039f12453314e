\* Does the request quota hold when a release runs after midnight?
SPECIFICATION Spec
CONSTANTS
  r1 = r1  r2 = r2  r3 = r3
  t1 = t1
  u1 = u1
  v1 = v1
  chat = chat
  NoLimit = NoLimit
  Subjects = {u1}
  Devices = {v1}
  Targets = {chat}
  Requests <- MCThreeRequests
  Tokens <- MCTokens
  TokenOf <- MCTokenOf
  SubjectOf <- MCSubjectOf
  DeviceOf <- MCDeviceOf
  Policies <- MCRequestQuotaOne
  MaxDay = 1
  MaxSpend = 0
  Events = {}
CHECK_DEADLOCK FALSE
INVARIANT QuotaHonouredAcrossMidnight
