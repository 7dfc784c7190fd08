CONSTANTS
  d1 = d1
  d2 = d2
  d3 = d3
  t1 = t1
  r1 = r1
  NoThread = NoThread
  NoLogical = NoLogical
  Thread = {t1}
  Logical = {r1}
  Delivery = {d1, d2}
  ThreadOf <- OneThread
  LogicalOf <- NoLogicalOf
  ClassOf <- Operational
  Key = {}
  Engageable = {}
  Namespace = {}
  MaxAttempts = 1
  RequeueGrant = 1
  AttemptCap = 2
  SeqCap = 2
SPECIFICATION FairSpec
CHECK_DEADLOCK FALSE
PROPERTIES EventuallySettled
INVARIANTS Consistent
