CONSTANTS
  d1 = d1
  d2 = d2
  d3 = d3
  t1 = t1
  r1 = r1
  NoThread = NoThread
  NoLogical = NoLogical
  Thread = {t1}
  Logical = {r1}
  Delivery = {d1, d2}
  ThreadOf <- OneThread
  LogicalOf <- NoLogicalOf
  ClassOf <- AllSocial
  Key = {k1, k2}
  Engageable = {d1}
  Namespace = {{d1}}
  MaxAttempts = 2
  RequeueGrant = 2
  AttemptCap = 2
  SeqCap = 2
SPECIFICATION Spec
CHECK_DEADLOCK FALSE
INVARIANTS LedgerAgrees SequencesDistinct
PROPERTIES LandsInOrder WithdrawnNeverLands
