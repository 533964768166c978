SPECIFICATION Spec
CONSTANTS
  t1 = t1
  storage = storage
  net = net
  TabIds = {t1}
  Services = {storage}
  Net = {net}
  MAX_QUEUED_PER_SOURCE = 1
  MAX_SERVICE_RESTARTS = 1
  GenerationBound = 2
  SocketBound = 1
  None = None
  Instances <- MCInstances
INVARIANTS
  PermitsConserved
PROPERTIES
  DeathEndsOnlyTheDead
  NobodyStuckAtGate
  DeathIsHandled
CHECK_DEADLOCK FALSE
