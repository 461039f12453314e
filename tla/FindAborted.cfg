\* Does a request whose client went away give its unit back?
SPECIFICATION Spec
CONSTANTS
  r1 = r1  r2 = r2  r3 = r3
  t1 = t1
  u1 = u1
  v1 = v1
  chat = chat
  NoLimit = NoLimit
  Subjects = {u1}
  Devices = {v1}
  Targets = {chat}
  Requests <- MCTwoRequests
  Tokens <- MCTokens
  TokenOf <- MCTokenOf
  SubjectOf <- MCSubjectOf
  DeviceOf <- MCDeviceOf
  Policies <- MCRequestQuotaOne
  MaxDay = 0
  MaxSpend = 0
  Events = {"disconnect"}
CHECK_DEADLOCK FALSE
INVARIANT AbortedGivesBack
