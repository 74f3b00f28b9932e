SPECIFICATION Spec
CONSTANTS
  u1 = u1
  k1 = k1
  k2 = k2
  r1 = r1
  r2 = r2
  r3 = r3
  email = email
  push = push
  p1 = p1
  p2 = p2
  s1 = s1
  s2 = s2
  i1 = i1
  i2 = i2
  NoJob = NoJob
  NoSlot = NoSlot
  NoChannel = NoChannel
  Users = {u1}
  Keys = {k1}
  Requests = {r1, r2}
  Channels = {email}
  Slots = {s1, s2}
  Providers = {p1}
  Instances = {i1, i2}
  UserOf <- OneUser
  KeyOf <- OneKey
  ChannelOf <- AllEmail
  HostOf <- TwoHosts
  ServesOf <- Serves
  PriorityOf <- Priority
  Behaviour <- Moody
  Limit = 2
  Attempts = 2
  MaxStalled = 1
  FaultKinds = {}
  MaxFaults = 0
INVARIANT LockIsExclusive
