\* Three requests of one device race for a request quota of two, over a
\* midnight and with revocations of the device.
SPECIFICATION Spec
CONSTANTS
  r1 = r1  r2 = r2  r3 = r3
  t1 = t1
  u1 = u1
  v1 = v1
  chat = chat
  NoLimit = NoLimit
  Subjects = {u1}
  Devices = {v1}
  Targets = {chat}
  Requests <- MCThreeRequests
  Tokens <- MCTokens
  TokenOf <- MCTokenOf
  SubjectOf <- MCSubjectOf
  DeviceOf <- MCDeviceOf
  Policies <- MCRequestQuotaTwo
  MaxDay = 1
  MaxSpend = 0
  Events = {"device"}
CHECK_DEADLOCK FALSE
SYMMETRY Symmetric
INVARIANTS
  LedgerBalanced
  QuotaHonoured
  RevokedDeviceNotServed
