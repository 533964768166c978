SPECIFICATION Spec
CONSTANTS
  c1 = c1
  c2 = c2
  Content = {c1, c2}
  Instances <- MCInstances
INVARIANTS
  TypeOK
  NobodyTraps
  
  ContentBounded
  NamespaceHeld
PROPERTIES
  EverySpawnIsHeard
  ShutdownEndsAll
CHECK_DEADLOCK FALSE
