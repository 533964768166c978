CONSTANTS
  Authorities <- MCAuthorities
  Paths <- MCPaths
  Literals <- MCLiterals
  Addresses <- MCAddresses
  Origins <- MCOrigins
  MAX_REDIRECTS = 4

SPECIFICATION Spec

INVARIANTS
  TypeOK
  NoInternalHost
  CookiesStayHome
  OrbHolds

PROPERTY
  EveryRequestEnds
