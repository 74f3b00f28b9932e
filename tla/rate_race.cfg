SPECIFICATION Spec
CONSTANTS
  u1 = u1
  r1 = r1
  r2 = r2
  r3 = r3
  r4 = r4
  r5 = r5
  NoTTL = NoTTL
  NoTime = NoTime
  Users = {u1}
  Requests = {r1, r2, r3, r4}
  UserOf <- OneUser
  Limit = 2
  Window = 2
  Grace = 1
  TicksPerSecond = 2
  MaxInFlight = 2
  MaxTime = 4
SYMMETRY Interchangeable
INVARIANT LimitRespected
