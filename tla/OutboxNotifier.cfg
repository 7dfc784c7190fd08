CONSTANTS
  Free = Free
  Item = {i1, i2}
  Poller = {w1, w2}
  GenerationCap = 3
SPECIFICATION FairNotifierSpec
CHECK_DEADLOCK FALSE
INVARIANTS NoLostWakeup
PROPERTIES NoOversleep
