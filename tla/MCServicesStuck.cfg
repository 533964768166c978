SPECIFICATION Spec
CONSTANTS
  t1 = t1
  t2 = t2
  t3 = t3
  t4 = t4
  t5 = t5
  t6 = t6
  Tabs = {t1, t2, t3, t4, t5, t6}
  Slots = {1, 2}
  None = None
  MAX_QUEUED_PER_SOURCE = 1
  MAX_SERVICE_RESTARTS = 1
  MAX_VALUE = 2
  MAX_STORE = 3
  Room = 1
  Instances <- MCCrowd
INVARIANT
  LoopNeverBlocks
