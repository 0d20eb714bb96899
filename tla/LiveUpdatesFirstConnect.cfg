SPECIFICATION Spec

CONSTANTS
  ann = ann
  d1 = d1
  s1 = s1
  s2 = s2
  s3 = s3
  None = None
  Tabs = {d1}
  Users = {ann}
  UserOf <- OneUser
  Streams = {s1, s2, s3}
  maxConnsPerUser = 2
  clientBufferSize = 1
  broadcastSize = 1
  MaxChanges = 2
  MaxFaults = 0

CHECK_DEADLOCK FALSE

INVARIANTS
  FirstConnectNeedsNoSweep
