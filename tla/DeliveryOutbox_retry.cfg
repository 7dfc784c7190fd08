CONSTANTS
  d1 = d1
  d2 = d2
  d3 = d3
  t1 = t1
  r1 = r1
  NoThread = NoThread
  NoLogical = NoLogical
  Thread = {t1}
  Logical = {r1}
  Delivery = {d1, d3}
  ThreadOf <- LooseThird
  LogicalOf <- SharedLogical
  ClassOf <- Operational
  Key = {}
  Engageable = {}
  Namespace = {{d1}}
  MaxAttempts = 2
  RequeueGrant = 2
  AttemptCap = 4
  SeqCap = 2
SPECIFICATION Spec
CHECK_DEADLOCK FALSE
INVARIANTS NoBlindResend RecordedTruth OneReplyPerResponse
PROPERTIES StaleClaimantHarmless KeepsPromise
