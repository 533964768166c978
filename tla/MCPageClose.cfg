SPECIFICATION Spec
CONSTANTS
  Hostings = {"thread"}
  NavigationBound = 2
  StaleBound = 1
PROPERTIES
  ClosesAreAnswered
CHECK_DEADLOCK FALSE
