SPECIFICATION Spec
CONSTANTS
  Partition = {work, private}
  MAX_SERVICE_RESTARTS = 1
  GenerationBound = 3
  CookieBound = 1
  AskBound = 2
  None = None
INVARIANTS
  TypeOK
  AnswersAreWhatWasSet
  NoOrphans
  DeathReportedOnce
PROPERTIES
  EveryAskIsAnswered
  LinkIsRestored
CHECK_DEADLOCK FALSE
