CONSTANTS
  d1 = d1
  d2 = d2
  d3 = d3
  t1 = t1
  r1 = r1
  NoThread = NoThread
  NoLogical = NoLogical
  Thread = {t1}
  Logical = {r1}
  Delivery = {d1}
  ThreadOf <- OneThread
  LogicalOf <- NoLogicalOf
  ClassOf <- Operational
  Key = {}
  Engageable = {}
  Namespace = {}
  MaxAttempts = 2
  RequeueGrant = 1
  AttemptCap = 3
  SeqCap = 1
SPECIFICATION Spec
CHECK_DEADLOCK FALSE
INVARIANTS OneCopyWithoutOperator
