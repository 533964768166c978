SPECIFICATION Spec
CONSTANTS
  Hostings = {"forked", "process", "thread"}
  NavigationBound = 2
  StaleBound = 1
INVARIANTS
  TypeOK
  MixedOnlyAfterStrays
PROPERTIES
  LoadsEnd
  TeardownEndsBoth
  NavigationsAreAnswered
CHECK_DEADLOCK FALSE
