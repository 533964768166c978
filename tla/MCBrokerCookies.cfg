SPECIFICATION Spec
CONSTANTS
  Zone = {z1}
  Origin = {o1, o2}
  MAX_RENDERERS = 2
  MAX_INFLIGHT_FETCHES = 1
  MAX_INFLIGHT_DECODES = 1
  CRASH_LOOP_THRESHOLD = 2
  TabBound = 3
  EpochBound = 3
  RequestBound = 2
  None = None
SYMMETRY OriginSymmetry
PROPERTIES
  CookiesReachAsker
CHECK_DEADLOCK FALSE
