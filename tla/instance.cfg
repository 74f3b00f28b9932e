SPECIFICATION FairSpec
CONSTANTS
  h1 = h1
  q1 = q1
  Probes = {h1}
  Posts = {q1}
  Callers = {h1, q1}
  SomeBodies <- AllBodies
  MaxReconnects = 3
  MaxRetriesPerRequest = 3
INVARIANTS
  InstanceTypeOK
  ClosedIsFinal
  EndIsReported
  NothingAddedInVain
  EmailIsAddressed
PROPERTY
  EveryCallAnswered
